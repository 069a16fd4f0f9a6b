----------------------------- MODULE TargetPath -----------------------------
(***************************************************************************)
(* target_to_file_path of "P2 Socket/02-socket/http-server.c": the path    *)
(* that a request target names, or a refusal.  A target is a sequence of   *)
(* pieces, each a character as it is or as %xx; "ctrl" stands for the      *)
(* control characters and NUL, "%" that is not coded for a '%' without two *)
(* hexadecimal digits, and "a" for every other character.                  *)
(***************************************************************************)
EXTENDS Integers, Sequences, FiniteSets

CONSTANT PATH_MAX  \* the size of the buffers for a path, in characters

ASSUME SizeAssumption == PATH_MAX \in Nat

Char == {"/", ".", "a", "?", "#", "\\", "%", "ctrl"}

Piece == [char : Char, coded : BOOLEAN]

Refused == <<>>

index == <<"index">>

-----------------------------------------------------------------------------
\* The places of the pieces before the query or the fragment.
NameLength(t) ==
  LET ends == {i \in DOMAIN t : t[i].char \in {"?", "#"} /\ ~t[i].coded}
  IN  CHOOSE n \in 0..Len(t) : /\ \A i \in ends : n < i
                               /\ n = Len(t) \/ n + 1 \in ends

\* Mutant of Decoded: %xx is left as it is.
Undecoded(t) == [i \in 1..NameLength(t) |-> IF t[i].coded THEN "a" ELSE t[i].char]

Decoded(t) == [i \in 1..NameLength(t) |-> t[i].char]

\* What the loop over the target stops at.
IsBad(p) == p.char \in {"\\", "ctrl"} \/ (p.char = "%" /\ ~p.coded)

\* Mutant of HasParent: a ".." at the end is not seen.
HasInnerParent(d) ==
  \E i \in 2..Len(d) - 2 :
    d[i - 1] = "/" /\ d[i] = "." /\ d[i + 1] = "." /\ d[i + 2] = "/"

\* Some segment is "..".
HasParent(d) ==
  \E i \in 2..Len(d) - 1 :
    /\ d[i - 1] = "/" /\ d[i] = "." /\ d[i + 1] = "."
    /\ i + 1 = Len(d) \/ d[i + 2] = "/"

\* A directory stands for the index.html in it.
FilePath(d) == IF d[Len(d)] = "/" THEN d \o index ELSE d

\* The path that open gets, without the leading '.'.
Resolve(t) ==
  IF \/ t = <<>> \/ t[1].char # "/" \/ t[1].coded
     \/ 1 + Len(FilePath(Decoded(t))) >= PATH_MAX
     \/ \E i \in 1..NameLength(t) : IsBad(t[i])
     \/ HasParent(Decoded(t))
  THEN Refused
  ELSE FilePath(Decoded(t))

-----------------------------------------------------------------------------
(***************************************************************************)
(* What the server's own file tree looks like from the path.               *)
(***************************************************************************)

Slashes(p) == {i \in DOMAIN p : p[i] = "/"}

\* The segment of p that ends at place k, when one does.
Segment(p, k) ==
  LET start == CHOOSE i \in Slashes(p) : i <= k /\ \A j \in Slashes(p) : j <= k => j <= i
  IN  SubSeq(p, start + 1, k)

SegmentEnds(p) == {k \in DOMAIN p : k = Len(p) \/ p[k + 1] = "/"}

\* How deep the first k characters lead below the directory of the server.
Depth(p, k) ==
  LET ends == {j \in SegmentEnds(p) : j <= k}
      up == {j \in ends : Segment(p, j) = <<".", ".">>}
      level == {j \in ends : Segment(p, j) \in {<<>>, <<".">>}}
  IN  Cardinality(ends \ (up \cup level)) - Cardinality(up)

StaysInside(p) == \A k \in SegmentEnds(p) : Depth(p, k) >= 0
=============================================================================
