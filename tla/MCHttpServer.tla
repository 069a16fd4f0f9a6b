---------------------------- MODULE MCHttpServer ----------------------------
(***************************************************************************)
(* The clients HttpServer is checked with: 1 connects to port 80, the      *)
(* others to port 443.                                                     *)
(***************************************************************************)
EXTENDS HttpServer

OneHttp == [c \in Client |-> IF c = 1 THEN "http" ELSE "https"]
=============================================================================
