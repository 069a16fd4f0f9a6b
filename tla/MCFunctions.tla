---------------------------- MODULE MCFunctions ----------------------------
(***************************************************************************)
(* Runs the parts of the programs that are functions of what they are      *)
(* given.  Of http-server.c: parse_range_header on every header whose      *)
(* numbers are around the width of an unsigned long long, for every size   *)
(* of file that matters to them, and target_to_file_path on every target   *)
(* of up to MaxLength pieces.  Of filter_sites.py and measure.py: every    *)
(* list of up to MaxSites sites that behave in the ways of SmallSite.      *)
(***************************************************************************)
EXTENDS ByteRange, TargetPath, Sites

CONSTANTS MaxDigits, MaxSize, MaxLength, MaxSites

VARIABLES value, size, range, target, path, list

vars == <<value, size, range, target, path, list>>

Unparsed == [result |-> 0, start |-> 0, end |-> 0]

Unresolved == <<"unresolved">>

SmallNumber == [sign : Signs, digits : 0..MaxDigits \cup {None}, junk : BOOLEAN]

SmallRange == {v \in [dash : BOOLEAN, before : SmallNumber, after : SmallNumber] :
                 v.before.sign # "-"}

\* Servers that answer at once, connect slowly, or transfer for almost as long
\* as the limits allow or a little longer; lookups that leave the site all of
\* its time, a part that is no whole number of seconds, less than a second, or
\* nothing.
Fast == [ok |-> TRUE, connects |-> 1, takes |-> 2]
Fails == [Fast EXCEPT !.ok = FALSE]
SmallServer == {Fast, Fails,
                [Fast EXCEPT !.connects = 7, !.takes = 8],
                [Fast EXCEPT !.takes = 13],
                [Fast EXCEPT !.takes = 17]}

SmallSite ==
  [named : {TRUE}, resolves : {TRUE}, dns : {0, 1, 15, 16}, https : SmallServer,
   http : {Fast, Fails}]
  \cup [named : {TRUE}, resolves : {FALSE}, dns : {1, 30}, https : {Fast}, http : {Fast}]
  \cup [named : {FALSE}, resolves : {FALSE}, dns : {0}, https : {Fast}, http : {Fast}]

\* A request has a Range header, or one that is only about its target.
Init ==
  /\ size \in 0..MaxSize /\ value \in SmallRange \cup {None}
  /\ value = None => size = 0
  /\ range = Unparsed
  /\ target = <<>> /\ path = Unresolved
  /\ list = <<>>

Parse ==
  /\ range = Unparsed /\ value # None
  /\ range' = ParseRange(value, size)
  /\ UNCHANGED <<value, size, target, path, list>>

\* A target grows piece by piece; each one is resolved.
Grow ==
  /\ path = Unresolved /\ value = None /\ list = <<>> /\ Len(target) < MaxLength
  /\ \E p \in Piece : target' = Append(target, p)
  /\ UNCHANGED <<value, size, range, path, list>>

Map ==
  /\ path = Unresolved /\ value = None /\ list = <<>>
  /\ path' = Resolve(target)
  /\ UNCHANGED <<value, size, range, target, list>>

\* A list of sites grows line by line.
NextSite ==
  /\ path = Unresolved /\ value = None /\ target = <<>> /\ Len(list) < MaxSites
  /\ \E site \in SmallSite : list' = Append(list, site)
  /\ UNCHANGED <<value, size, range, target, path>>

Spec == Init /\ [][Parse \/ Grow \/ Map \/ NextSite]_vars

-----------------------------------------------------------------------------
\* No Range header makes the server promise bytes that the file does not have.
RangeIsInFile == InFile(range, size)

\* A header of one of the three forms gets exactly the positions it stands for;
\* it is refused when there are none, and whenever one of its numbers does not
\* fit, though the positions would lie in the file.
RangeIsAsAsked == range # Unparsed /\ WellFormed(value) => AsAsked(range, value, size)

\* No target names a file above the directory the server was started in, in
\* whichever way its characters are written.
PathStaysInside == path \notin {Unresolved, Refused} => StaysInside(path)

\* A target means the same when a character is written as %xx, but for the
\* first '/' and for the '?' and '#' that end the path.
Plainly(t) == [i \in DOMAIN t |-> IF t[i].char \in {"/", ".", "a"}
                                  THEN [t[i] EXCEPT !.coded = FALSE] ELSE t[i]]

CodingIsTransparent ==
  path # Unresolved /\ target # <<>> /\ ~target[1].coded => path = Resolve(Plainly(target))

\* filter_sites.py saves only sites that answer over https or http in the time
\* of a test, in their order, and passes over none that is quick over https,
\* the one scheme it tries.
FirstSitesAreSaved == FirstAreSaved(list)

\* Testing one site takes at most SITE_TIMEOUT and less than a second more,
\* unless the lookup of its name alone does.
TestTimeIsBounded == \A i \in DOMAIN list : TestTakesNoLonger(list[i])

\* What filter_sites.py saved measure.py can measure, over one of the schemes,
\* while the network stays as it is.
SavedSitesAreMeasured == SavedAreMeasured(list)
=============================================================================
