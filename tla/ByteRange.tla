----------------------------- MODULE ByteRange -----------------------------
(***************************************************************************)
(* parse_range_header of "P2 Socket/02-socket/http-server.c".  The text    *)
(* after "bytes=" is split at its first '-': what strtoull does with the   *)
(* text on either side depends on its sign, on its digits and on whether   *)
(* anything else follows them.  White space, which strtoull skips, and the *)
(* unit and the comma, each rejected at once, are left out.                *)
(***************************************************************************)
EXTENDS Integers

CONSTANTS
  ULLONG,  \* the number of values of unsigned long long
  None     \* no digits

ASSUME WidthAssumption == ULLONG \in Nat \ {0}

ASSUME NoneAssumption == None \notin Int

Signs == {"", "+", "-"}

\* There is no '-' before the first one.
Number == [sign : Signs, digits : Nat \cup {None}, junk : BOOLEAN]

RangeValue == {v \in [dash : BOOLEAN, before : Number, after : Number] :
                 v.before.sign # "-"}

IsEmpty(n) == n.sign = "" /\ n.digits = None /\ ~n.junk

-----------------------------------------------------------------------------
\* strtoull reports a number it cannot represent.
Fits(n) == n.digits # None => n.digits < ULLONG

\* Mutant of ReadsAll: errno is not looked at.
ReadsAny(n) == n.digits # None /\ ~n.junk

\* strtoull reads the whole text and does not fail.
ReadsAll(n) == n.digits # None /\ ~n.junk /\ Fits(n)

\* What strtoull makes of it: a '-' negates the number in unsigned long long.
strtoull(n) == IF n.sign = "-" THEN (ULLONG - n.digits) % ULLONG ELSE n.digits

Illegal == [result |-> -1, start |-> 0, end |-> 0]

Bytes(start, end) == [result |-> 1, start |-> start, end |-> end]

\* Mutant of Clip: the end is the size of the file.
ClipToSize(last, size) == IF last >= size THEN size ELSE last

Clip(last, size) == IF last >= size THEN size - 1 ELSE last

\* bytes=-n: the last n bytes.
SuffixRange(n, size) ==
  IF ~ReadsAll(n) \/ strtoull(n) = 0 THEN Illegal
  ELSE Bytes(IF strtoull(n) >= size THEN 0 ELSE size - strtoull(n), size - 1)

\* bytes=a- and bytes=a-b.
IntervalRange(first, last, size) ==
  IF ~ReadsAll(first) \/ strtoull(first) >= size THEN Illegal
  ELSE IF IsEmpty(last) THEN Bytes(strtoull(first), size - 1)
  ELSE IF ~ReadsAll(last) \/ strtoull(last) < strtoull(first) THEN Illegal
  ELSE Bytes(strtoull(first), Clip(strtoull(last), size))

\* parse_range_header(v, size) for a header that is there.
ParseRange(v, size) ==
  IF size <= 0 \/ ~v.dash THEN Illegal
  ELSE IF IsEmpty(v.before) THEN SuffixRange(v.after, size)
  ELSE IntervalRange(v.before, v.after, size)

-----------------------------------------------------------------------------
(***************************************************************************)
(* The three forms of the comment before parse_range_header, bytes=a-b,    *)
(* bytes=a- and bytes=-n, and the positions they stand for in a file.      *)
(***************************************************************************)

IsPlain(n) == n.sign = "" /\ n.digits # None /\ ~n.junk

WellFormed(v) ==
  /\ v.dash
  /\ \/ IsPlain(v.before) /\ (IsPlain(v.after) \/ IsEmpty(v.after))
     \/ IsEmpty(v.before) /\ IsPlain(v.after)

Wanted(v, size) ==
  {p \in 0..size - 1 :
     IF IsEmpty(v.before) THEN p >= size - v.after.digits
     ELSE p >= v.before.digits /\ (IsPlain(v.after) => p <= v.after.digits)}

Positions(r) == IF r.result = 1 THEN r.start..r.end ELSE {}

\* What a header that is well formed is to get: the positions it stands for; it
\* is refused when there are none, and when a number of it does not fit.
AsAsked(r, v, size) ==
  IF Wanted(v, size) = {} \/ ~Fits(v.before) \/ ~Fits(v.after) THEN r = Illegal
  ELSE Positions(r) = Wanted(v, size)

\* A range that is answered lies in the file: send_file_response seeks to its
\* start and reads end - start + 1 bytes, the Content-Length it announced.
InFile(r, size) ==
  r.result = 1 => r.start \in 0..size - 1 /\ r.end \in r.start..size - 1
=============================================================================
