-------------------------- MODULE MCHttpConnection --------------------------
(***************************************************************************)
(* The requests HttpConnection is checked with.                            *)
(***************************************************************************)
EXTENDS HttpConnection

Absent == [sign |-> "", digits |-> None, junk |-> FALSE]

Digits(d) == [Absent EXCEPT !.digits = d]

Range(first, last) == [dash |-> TRUE, before |-> first, after |-> last]

Get == [method |-> "GET", version |-> "1.1", connection |-> {}, target |-> "file",
        range |-> None]

\* The whole file; its second unit to its end, with a request to close that
\* contradicts itself; a range no file has, which HTTP/1.0 asks to keep the
\* connection for; a target that is too long for a redirect; a header that is
\* too long for the buffer; a POST; lines that are no request; and a GET whose
\* version is not one of HTTP, which asks to keep the connection.
EveryRequest ==
  {Get,
   [Get EXCEPT !.range = Range(Digits(1), Absent), !.connection = {"close", "keep-alive"}],
   [Get EXCEPT !.range = Range(Digits(7), Digits(7)), !.version = "1.0",
               !.connection = {"keep-alive"}],
   [Get EXCEPT !.target = "long", !.version = "1.0"],
   [Get EXCEPT !.target = "huge"],
   [Get EXCEPT !.method = "POST"],
   [Get EXCEPT !.version = "none"],
   [Get EXCEPT !.version = "other", !.connection = {"keep-alive"}]}

JustGet == {Get}
=============================================================================
