--------------------------- MODULE FunctionsProofs ---------------------------
(***************************************************************************)
(* Proofs about the parts of the programs that are functions of what they  *)
(* are given: for every target and every PATH_MAX, for every list of       *)
(* sites, however they behave, and every limit on their times.  What the   *)
(* server makes of a Range header is proved in ByteRangeProofs.            *)
(***************************************************************************)
EXTENDS MCFunctions, ByteRangeProofs, SequenceTheorems, FiniteSetTheorems,
        WellFoundedInduction

-----------------------------------------------------------------------------
(***************************************************************************)
(* Natural numbers.                                                        *)
(***************************************************************************)

\* Every set of natural numbers that is not empty has a least one.
LEMMA LeastNumber ==
  ASSUME NEW S \in SUBSET Nat, S # {}
  PROVE  \E m \in S : \A n \in S : m <= n
<1> DEFINE R == OpToRel(<, Nat)
<1>1. IsWellFoundedOn(R, Nat)
  BY NatLessThanWellFounded
<1>2. \A m, n \in Nat : m < n => <<m, n>> \in R
  BY DEF OpToRel
<1>. HIDE DEF R
<1>3. PICK m \in S : \A n \in S : ~(<<n, m>> \in R)
  BY <1>1, WFMin
<1>4. \A n \in S : ~(n < m)
  BY <1>2, <1>3
<1>5. \A n \in S : m <= n
  BY <1>4
<1> QED
  BY <1>5

\* One that is bounded has a greatest one.
LEMMA GreatestNumber ==
  ASSUME NEW S \in SUBSET Nat, S # {}, NEW k \in Nat, \A n \in S : n <= k
  PROVE  \E m \in S : \A n \in S : n <= m
<1> DEFINE D == {k - n : n \in S}
<1>1. D \in SUBSET Nat
  <2>1. \A n \in S : k - n \in Nat
    OBVIOUS
  <2> QED
    BY <2>1
<1>2. D # {}
  OBVIOUS
<1>3. PICK d \in D : \A e \in D : d <= e
  BY <1>1, <1>2, LeastNumber
<1>4. PICK m \in S : d = k - m
  BY <1>3
<1>5. \A n \in S : k - m <= k - n
  BY <1>3, <1>4
<1>6. \A n \in S : n <= m
  BY <1>5
<1> QED
  BY <1>6

\* Induction, for a set that has 0 and with a number the next one.
LEMMA SetInduction ==
  ASSUME NEW S \in SUBSET Nat, 0 \in S, \A n \in S : n + 1 \in S
  PROVE  \A n \in Nat : n \in S
<1> DEFINE Missing == Nat \ S
<1>1. SUFFICES ASSUME Missing # {}
               PROVE  FALSE
  OBVIOUS
<1>2. PICK m \in Missing : \A n \in Missing : m <= n
  BY <1>1, LeastNumber
<1>3. m # 0 /\ m - 1 \in Nat
  BY <1>2
<1>4. m - 1 \in S
  BY <1>2, <1>3
<1>5. m - 1 + 1 \in S
  BY <1>4
<1> QED
  BY <1>2, <1>5

-----------------------------------------------------------------------------
(***************************************************************************)
(* target_to_file_path.                                                    *)
(***************************************************************************)

\* The part of a target that is decoded ends before its first '?' or '#', or
\* where the target does.
LEMMA NameIsInTarget ==
  ASSUME NEW t \in Seq(Piece)
  PROVE  /\ NameLength(t) \in 0..Len(t)
         /\ \/ NameLength(t) = Len(t)
            \/ t[NameLength(t) + 1].char \in {"?", "#"}
<1> DEFINE ends == {i \in DOMAIN t : t[i].char \in {"?", "#"} /\ ~t[i].coded}
           Fit(n) == (\A i \in ends : n < i) /\ (n = Len(t) \/ n + 1 \in ends)
<1>1. Len(t) \in Nat /\ ends \subseteq 1..Len(t)
  BY LenProperties
<1>2. NameLength(t) = CHOOSE n \in 0..Len(t) : Fit(n)
  BY DEF NameLength
<1>3. \E n \in 0..Len(t) : Fit(n)
  <2>1. CASE ends = {}
    <3>. WITNESS Len(t) \in 0..Len(t)
    <3> QED
      BY <2>1
  <2>2. CASE ends # {}
    <3>1. PICK m \in ends : \A i \in ends : m <= i
      <4> HIDE DEF ends
      <4> QED
        BY <1>1, <2>2, LeastNumber
    <3>2. m - 1 \in 0..Len(t)
      BY <1>1, <3>1
    <3>3. Fit(m - 1)
      <4> HIDE DEF ends
      <4> QED
        BY <1>1, <3>1
    <3> QED
      BY <3>2, <3>3
  <2> QED
    BY <2>1, <2>2
<1>4. NameLength(t) \in 0..Len(t) /\ Fit(NameLength(t))
  <2> HIDE DEF Fit
  <2> QED
    BY <1>2, <1>3
<1> QED
  BY <1>4

\* The characters that the loop over the target copies, and the path.
LEMMA DecodedType ==
  ASSUME NEW t \in Seq(Piece)
  PROVE  /\ Decoded(t) \in Seq(Char) /\ Len(Decoded(t)) = NameLength(t)
         /\ \A i \in 1..NameLength(t) : i \in DOMAIN t /\ t[i] \in Piece
<1>1. NameLength(t) \in 0..Len(t) /\ Len(t) \in Nat /\ DOMAIN t = 1..Len(t)
  BY NameIsInTarget, LenProperties
<1>2. \A i \in 1..NameLength(t) : i \in DOMAIN t /\ t[i] \in Piece
  BY <1>1, ElementOfSeq
<1>3. \A i \in 1..NameLength(t) : t[i].char \in Char
  BY <1>2 DEF Piece
<1> QED
  BY <1>1, <1>2, <1>3 DEF Decoded

\* What Plainly leaves of a target: the same characters, as many as there
\* were, and how those are written that a rule is about.
LEMMA PlainlyKeeps ==
  ASSUME NEW t \in Seq(Piece)
  PROVE  /\ Plainly(t) \in Seq(Piece) /\ Len(Plainly(t)) = Len(t)
         /\ DOMAIN Plainly(t) = DOMAIN t
         /\ \A i \in DOMAIN t :
              /\ Plainly(t)[i].char = t[i].char
              /\ t[i].char \notin {"/", ".", "a"} => Plainly(t)[i].coded = t[i].coded
              /\ ~t[i].coded => Plainly(t)[i].coded = t[i].coded
<1> DEFINE u == Plainly(t)
<1>1. Len(t) \in Nat /\ DOMAIN t = 1..Len(t) /\ \A i \in DOMAIN t : t[i] \in Piece
  BY LenProperties, ElementOfSeq
<1>2. ASSUME NEW i \in DOMAIN t
      PROVE  /\ u[i] \in Piece /\ u[i].char = t[i].char
             /\ t[i].char \notin {"/", ".", "a"} => u[i].coded = t[i].coded
             /\ ~t[i].coded => u[i].coded = t[i].coded
  <2>1. t[i] \in [char : Char, coded : BOOLEAN]
    BY <1>1 DEF Piece
  <2>2. u[i] = IF t[i].char \in {"/", ".", "a"} THEN [t[i] EXCEPT !.coded = FALSE]
               ELSE t[i]
    BY DEF Plainly
  <2> HIDE DEF u
  <2> QED
    BY <2>1, <2>2 DEF Piece
<1>3. DOMAIN u = 1..Len(t)
  BY <1>1 DEF Plainly
<1>4. u \in Seq(Piece) /\ Len(u) = Len(t)
  <2>1. u = [i \in 1..Len(t) |-> u[i]]
    BY <1>1 DEF Plainly
  <2> HIDE DEF u
  <2> QED
    BY <1>1, <1>2, <2>1
<1> QED
  BY <1>1, <1>2, <1>3, <1>4

\* A target means the same when its characters are written as %xx, apart from
\* the first '/', the '?' or '#' that ends the path, and those that are refused
\* or special only when they are not coded: what target_to_file_path makes of
\* it never depends on how the client's library encodes a name.
THEOREM CodingNeverMatters ==
  ASSUME NEW t \in Seq(Piece), t # <<>>, ~t[1].coded
  PROVE  Resolve(t) = Resolve(Plainly(t))
<1> DEFINE u == Plainly(t)
<1>1. /\ u \in Seq(Piece) /\ Len(u) = Len(t) /\ DOMAIN u = DOMAIN t
      /\ \A i \in DOMAIN t :
           /\ u[i].char = t[i].char
           /\ t[i].char \notin {"/", ".", "a"} => u[i].coded = t[i].coded
           /\ ~t[i].coded => u[i].coded = t[i].coded
  BY PlainlyKeeps
<1>2. Len(t) \in Nat \ {0} /\ DOMAIN t = 1..Len(t) /\ u # <<>>
  BY <1>1, EmptySeq, LenProperties
<1> HIDE DEF u
<1>3. NameLength(u) = NameLength(t)
  <2>1. {i \in DOMAIN u : u[i].char \in {"?", "#"} /\ ~u[i].coded}
          = {i \in DOMAIN t : t[i].char \in {"?", "#"} /\ ~t[i].coded}
    BY <1>1
  <2> QED
    BY <1>1, <2>1 DEF NameLength
<1>4. \A i \in 1..NameLength(t) : i \in DOMAIN t
  BY DecodedType
<1>5. Decoded(u) = Decoded(t)
  BY <1>1, <1>3, <1>4 DEF Decoded
<1>6. \A i \in 1..NameLength(t) : IsBad(u[i]) <=> IsBad(t[i])
  BY <1>1, <1>4 DEF IsBad
<1>7. u[1].char = t[1].char /\ u[1].coded = t[1].coded
  BY <1>1, <1>2
<1>8. Resolve(u) = Resolve(t)
  BY <1>2, <1>3, <1>5, <1>6, <1>7 DEF Resolve
<1> QED
  BY <1>8 DEF u

\* The place after which a segment begins is a '/' at or before its end.
LEMMA SegmentBegins ==
  ASSUME NEW S, NEW p \in Seq(S), NEW k \in DOMAIN p, p[1] = "/"
  PROVE  \E i \in Slashes(p) : i <= k /\ Segment(p, k) = SubSeq(p, i + 1, k)
<1> DEFINE Starts == {i \in Slashes(p) : i <= k}
           Last(i) == i <= k /\ \A j \in Slashes(p) : j <= k => j <= i
<1>1. DOMAIN p = 1..Len(p) /\ Len(p) \in Nat /\ k \in Nat /\ 1 <= k
  BY LenProperties
<1>2. Starts \in SUBSET Nat /\ Starts # {} /\ \A i \in Starts : i <= k
  <2>1. 1 \in Starts
    BY <1>1 DEF Slashes
  <2>2. \A i \in Slashes(p) : i \in Nat
    BY <1>1 DEF Slashes
  <2> QED
    BY <2>1, <2>2
<1>3. PICK m \in Starts : \A n \in Starts : n <= m
  <2> HIDE DEF Starts
  <2> QED
    BY <1>1, <1>2, GreatestNumber
<1>4. m \in Slashes(p) /\ Last(m)
  BY <1>3
<1> DEFINE start == CHOOSE i \in Slashes(p) : Last(i)
<1>5. start \in Slashes(p) /\ Last(start)
  <2> HIDE DEF Last
  <2> QED
    BY <1>4
<1>6. Segment(p, k) = SubSeq(p, start + 1, k)
  BY DEF Segment
<1> QED
  BY <1>5, <1>6

\* A segment that is ".." is found where it stands.
LEMMA ParentSegment ==
  ASSUME NEW S, NEW p \in Seq(S), NEW k \in DOMAIN p, p[1] = "/",
         Segment(p, k) = <<".", ".">>
  PROVE  /\ k - 2 \in DOMAIN p /\ k - 1 \in DOMAIN p
         /\ p[k - 2] = "/" /\ p[k - 1] = "." /\ p[k] = "."
<1>1. DOMAIN p = 1..Len(p) /\ Len(p) \in Nat
  BY LenProperties
<1>2. PICK i \in Slashes(p) : i <= k /\ Segment(p, k) = SubSeq(p, i + 1, k)
  BY SegmentBegins
<1>3. i \in 1..Len(p) /\ p[i] = "/"
  BY <1>1, <1>2 DEF Slashes
<1> DEFINE seg == SubSeq(p, i + 1, k)
<1>4. \A j \in i + 1..k : p[j] \in S
  BY <1>1, <1>2, <1>3, ElementOfSeq
<1>5. /\ Len(seg) = IF i + 1 <= k THEN k - (i + 1) + 1 ELSE 0
      /\ \A j \in 1..k - (i + 1) + 1 : seg[j] = p[i + 1 + j - 1]
  <2>1. i + 1 \in Int /\ k \in Int
    BY <1>1, <1>3
  <2> QED
    BY <1>4, <2>1, SubSeqProperties
<1>6. Len(seg) = 2 /\ seg[1] = "." /\ seg[2] = "."
  <2>1. seg = <<".", ".">>
    BY <1>2
  <2> HIDE DEF seg
  <2> QED
    BY <2>1
<1> HIDE DEF seg
<1>7. k = i + 2
  <2>1. k \in Int /\ i \in Int
    BY <1>1, <1>3
  <2>2. Len(seg) = k - i \/ Len(seg) = 0
    BY <1>5, <2>1
  <2> QED
    BY <1>6, <2>1, <2>2
<1>8. seg[1] = p[i + 1] /\ seg[2] = p[i + 2]
  BY <1>3, <1>5, <1>7
<1> QED
  BY <1>1, <1>3, <1>6, <1>7, <1>8

\* A path without a segment ".." leads nowhere above its beginning.
LEMMA NoParentStaysInside ==
  ASSUME NEW S, NEW p \in Seq(S),
         \A k \in SegmentEnds(p) : Segment(p, k) # <<".", ".">>
  PROVE  StaysInside(p)
<1>1. SUFFICES ASSUME NEW k \in SegmentEnds(p)
               PROVE  Depth(p, k) >= 0
  BY DEF StaysInside
<1> DEFINE ends == {j \in SegmentEnds(p) : j <= k}
           up == {j \in ends : Segment(p, j) = <<".", ".">>}
           level == {j \in ends : Segment(p, j) \in {<<>>, <<".">>}}
           down == ends \ (up \cup level)
<1>2. up = {} /\ Cardinality(up) = 0
  BY FS_EmptySet
<1>3. Cardinality(down) \in Nat
  <2>1. IsFiniteSet(1..Len(p))
    BY LenProperties, FS_Interval
  <2>2. down \in SUBSET (1..Len(p))
    BY LenProperties DEF SegmentEnds
  <2> QED
    BY <2>1, <2>2, FS_Subset, FS_CardinalityType
<1>4. Depth(p, k) = Cardinality(down) - Cardinality(up)
  BY DEF Depth
<1> HIDE DEF down, up
<1> QED
  BY <1>2, <1>3, <1>4

\* A directory's index.html has no segment ".." that the directory has not.
LEMMA NoParentInFilePath ==
  ASSUME NEW d \in Seq(Char), d # <<>>, d[1] = "/", ~HasParent(d)
  PROVE  /\ FilePath(d) \in Seq(Char \cup {"index"})
         /\ \A k \in SegmentEnds(FilePath(d)) : Segment(FilePath(d), k) # <<".", ".">>
<1> DEFINE S == Char \cup {"index"}
           p == FilePath(d)
<1>1. /\ d \in Seq(S) /\ index \in Seq(S) /\ Len(index) = 1 /\ index[1] = "index"
      /\ Len(d) \in Nat \ {0} /\ DOMAIN d = 1..Len(d)
  <2>1. d \in Seq(S)
    OBVIOUS
  <2>2. Len(d) \in Nat \ {0} /\ DOMAIN d = 1..Len(d)
    BY EmptySeq, LenProperties
  <2> QED
    BY <2>1, <2>2 DEF index
<1>2. /\ p \in Seq(S) /\ Len(p) \in Nat /\ DOMAIN p = 1..Len(p)
      /\ Len(d) <= Len(p) /\ \A i \in 1..Len(d) : p[i] = d[i]
      /\ \A i \in 1..Len(p) : i > Len(d) => p[i] = "index"
  <2>1. CASE d[Len(d)] = "/"
    <3>1. p = d \o index
      BY <2>1 DEF FilePath
    <3>2. /\ d \o index \in Seq(S) /\ Len(d \o index) = Len(d) + 1
          /\ \A i \in 1..Len(d) + 1 :
               (d \o index)[i] = IF i <= Len(d) THEN d[i] ELSE index[i - Len(d)]
      BY <1>1, ConcatProperties
    <3>3. \A i \in 1..Len(d) + 1 : i > Len(d) => i - Len(d) = 1
      BY <1>1
    <3> HIDE DEF p, S
    <3> QED
      BY <1>1, <3>1, <3>2, <3>3, LenProperties
  <2>2. CASE d[Len(d)] # "/"
    BY <1>1, <2>2 DEF FilePath
  <2> QED
    BY <2>1, <2>2
<1>3. ASSUME NEW k \in SegmentEnds(p), Segment(p, k) = <<".", ".">>
      PROVE  FALSE
  <2>1. k \in 1..Len(p) /\ (k = Len(p) \/ p[k + 1] = "/")
    BY <1>2, <1>3 DEF SegmentEnds
  <2>2. p[1] = "/"
    BY <1>1, <1>2
  <2>3. /\ k - 2 \in 1..Len(p) /\ k - 1 \in 1..Len(p)
        /\ p[k - 2] = "/" /\ p[k - 1] = "." /\ p[k] = "."
    <3> HIDE DEF p, S
    <3> QED
      BY <1>2, <1>3, <2>1, <2>2, ParentSegment
  <2> HIDE DEF p, S
  <2> DEFINE m == Len(p)
             n == Len(d)
  <2>4. m \in Nat /\ n \in Nat /\ n <= m /\ k \in 1..m /\ k - 2 \in 1..m
    BY <1>1, <1>2, <2>1, <2>3
  <2>5. \A i \in 1..m : i > n => p[i] = "index"
    BY <1>2
  <2>6. \A i \in 1..n : p[i] = d[i]
    BY <1>2
  <2>7. k = m \/ p[k + 1] = "/"
    BY <2>1
  <2> HIDE DEF m, n
  <2>8. k <= n
    BY <2>4, <2>5, <2>3
  <2>9. k = n \/ (k + 1 <= n /\ d[k + 1] = "/")
    BY <2>4, <2>5, <2>6, <2>7, <2>8
  <2>10. d[k - 2] = "/" /\ d[k - 1] = "." /\ d[k] = "." /\ k - 1 \in 2..n - 1
    BY <2>4, <2>6, <2>3, <2>8
  <2>11. /\ k - 1 - 1 = k - 2 /\ k - 1 + 1 = k /\ k - 1 + 2 = k + 1
    BY <2>1
  <2>12. HasParent(d)
    BY <2>9, <2>10, <2>11 DEF HasParent, n
  <2> QED
    BY <2>12
<1> QED
  BY <1>2, <1>3

\* target_to_file_path never answers with a path that leads above the
\* directory the server was started in, after any of its segments, for every
\* target and every PATH_MAX: what it decodes it checks, and it adds nothing
\* but index.html.
THEOREM PathsLeadInside ==
  ASSUME NEW t \in Seq(Piece), Resolve(t) # Refused
  PROVE  StaysInside(Resolve(t))
<1> DEFINE d == Decoded(t)
<1>1. t # <<>> /\ t[1].char = "/" /\ ~HasParent(d) /\ Resolve(t) = FilePath(d)
  BY DEF Resolve
<1>2. Len(t) \in Nat \ {0}
  BY <1>1, EmptySeq, LenProperties
<1>3. NameLength(t) \in Nat \ {0}
  BY <1>1, <1>2, NameIsInTarget
<1>4. d \in Seq(Char) /\ d # <<>> /\ d[1] = "/"
  <2>1. d \in Seq(Char) /\ Len(d) = NameLength(t)
    BY DecodedType
  <2>2. d[1] = "/"
    BY <1>1, <1>3 DEF Decoded
  <2> HIDE DEF d
  <2> QED
    BY <1>3, <2>1, <2>2
<1> HIDE DEF d
<1>5. /\ FilePath(d) \in Seq(Char \cup {"index"})
      /\ \A k \in SegmentEnds(FilePath(d)) : Segment(FilePath(d), k) # <<".", ".">>
  BY <1>1, <1>4, NoParentInFilePath
<1>6. StaysInside(FilePath(d))
  BY <1>5, NoParentStaysInside
<1> QED
  BY <1>1, <1>6

-----------------------------------------------------------------------------
(***************************************************************************)
(* filter_sites.py: the time of a test.                                    *)
(***************************************************************************)

LEMMA ConstantTypes ==
  /\ TICKS \in Nat \ {0} /\ TARGET_COUNT \in Nat \ {0}
  /\ SITE_TIMEOUT \in Nat \ {0} /\ CONNECT_TIMEOUT \in Nat \ {0}
  /\ TIMEOUT \in Nat \ {0} /\ MAX_TIME \in Nat \ {0}
BY TimeAssumption

\* Multiplying keeps the order of two numbers.
LEMMA ProductGrows ==
  ASSUME NEW a \in Nat, NEW b \in Nat, NEW c \in Nat, a <= b
  PROVE  a * c \in Nat /\ b * c \in Nat /\ a * c <= b * c
OBVIOUS

\* The limits of a site in ticks.
LEMMA TimesInTicks ==
  /\ SITE_TIMEOUT * TICKS \in Nat /\ CONNECT_TIMEOUT * TICKS \in Nat
  /\ TICKS <= SITE_TIMEOUT * TICKS
  /\ (SITE_TIMEOUT + 1) * TICKS = SITE_TIMEOUT * TICKS + TICKS
  /\ (SITE_TIMEOUT - 1) * TICKS = SITE_TIMEOUT * TICKS - TICKS
BY ConstantTypes

\* --max-time is less than a second off what remains, and more than it only
\* when that is less than a second itself.
LEMMA MaxTimeIsClose ==
  ASSUME NEW r \in Nat \ {0}
  PROVE  /\ MaxTime(r) \in Nat
         /\ MaxTime(r) > r - TICKS
         /\ MaxTime(r) <= r \/ MaxTime(r) = TICKS
<1>1. TICKS \in Nat \ {0}
  BY ConstantTypes
<1>2. /\ (r \div TICKS) * TICKS \in Nat
      /\ (r \div TICKS) * TICKS <= r
      /\ r < (r \div TICKS) * TICKS + TICKS
  BY <1>1
<1> QED
  BY <1>1, <1>2 DEF MaxTime

\* curl runs no longer than its --max-time.
LEMMA CurlTime ==
  ASSUME NEW server \in Server, NEW connect \in Nat, NEW max \in Nat
  PROVE  /\ curl(server, connect, max).takes \in Nat
         /\ curl(server, connect, max).takes <= max
BY DEF curl, Server

\* The types of the fields of a site.
LEMMA SiteFields ==
  ASSUME NEW site \in Site
  PROVE  /\ site.named \in BOOLEAN /\ site.resolves \in BOOLEAN /\ site.dns \in Nat
         /\ site.https \in Server /\ site.http \in Server
BY DEF Site

\* The types of the fields of a server.
LEMMA ServerFields ==
  ASSUME NEW server \in Server
  PROVE  server.ok \in BOOLEAN /\ server.connects \in Nat /\ server.takes \in Nat
BY DEF Server

\* valid_site takes less than a second more than SITE_TIMEOUT for every site,
\* whatever its name and its server do and whatever the limits are, unless the
\* lookup of the name alone, which nothing bounds, takes that long: the three
\* roundings of the remaining time never add up.
THEOREM TestsTakeNoLonger ==
  ASSUME NEW site \in Site
  PROVE  TestTakesNoLonger(site)
<1> DEFINE r == Remaining(site)
           limit == MaxTime(r)
           access == CanAccess(site, r)
<1>1. CASE ~(site.resolves /\ r > 0)
  BY <1>1 DEF ValidSite, TestTakesNoLonger
<1>2. CASE site.resolves /\ r > 0
  <2>1. ValidSite(site).takes = site.dns + access.takes
    BY <1>2 DEF ValidSite
  <2>2. site.dns \in Nat /\ site.https \in Server
    BY SiteFields
  <2>3. r = SITE_TIMEOUT * TICKS - site.dns /\ r \in Nat \ {0}
    BY <1>2, <2>2, TimesInTicks DEF Remaining
  <2>4. limit \in Nat /\ (limit <= r \/ limit = TICKS)
    <3> HIDE DEF r
    <3> QED
      BY <2>3, MaxTimeIsClose
  <2>5. access.takes \in Nat /\ access.takes <= limit
    <3> HIDE DEF r, limit
    <3>1. CanAccess(site, r).takes \in Nat /\ CanAccess(site, r).takes <= limit
      BY <2>2, <2>4, CurlTime, TimesInTicks DEF CanAccess, limit
    <3> QED
      BY <3>1
  <2> HIDE DEF r, limit, access
  <2>6. site.dns + access.takes < SITE_TIMEOUT * TICKS + TICKS
    BY <2>2, <2>3, <2>4, <2>5, TimesInTicks, ConstantTypes
  <2> QED
    BY <2>1, <2>6, TimesInTicks DEF TestTakesNoLonger
<1> QED
  BY <1>1, <1>2

\* A site that is quick passes its test.
LEMMA QuickPasses ==
  ASSUME NEW site \in Site, Quick(site)
  PROVE  site.named /\ ValidSite(site).ok
<1> DEFINE r == Remaining(site)
           limit == MaxTime(r)
           server == site.https
<1>1. /\ site.named /\ site.resolves /\ server.ok
      /\ server.connects <= CONNECT_TIMEOUT * TICKS
      /\ site.dns + server.takes <= (SITE_TIMEOUT - 1) * TICKS
  BY DEF Quick
<1>2. /\ site.dns \in Nat /\ server \in Server
      /\ server.takes \in Nat /\ server.connects \in Nat
  BY SiteFields, ServerFields
<1> HIDE DEF server
<1>3. r = SITE_TIMEOUT * TICKS - site.dns
  BY DEF Remaining
<1> HIDE DEF r
<1>4. r \in Nat \ {0} /\ server.takes <= r - TICKS
  BY <1>1, <1>2, <1>3, TimesInTicks, ConstantTypes
<1>5. limit \in Nat /\ limit > r - TICKS
  BY <1>4, MaxTimeIsClose
<1>6. ~(server.connects > CONNECT_TIMEOUT * TICKS) /\ ~(server.takes > limit)
  <2> HIDE DEF limit
  <2> QED
    BY <1>1, <1>2, <1>4, <1>5, ConstantTypes, TimesInTicks
<1>7. CanAccess(site, r).ok
  BY <1>1, <1>6 DEF CanAccess, curl, server
<1>8. r > 0
  BY <1>4
<1>9. ValidSite(site).ok = CanAccess(site, r).ok
  BY <1>1, <1>8 DEF ValidSite, r
<1> QED
  BY <1>1, <1>7, <1>9

\* What a site is like that has passed its test.
LEMMA PassedTest ==
  ASSUME NEW site \in Site, ValidSite(site).ok
  PROVE  /\ site.resolves /\ site.https.ok
         /\ site.https.connects <= CONNECT_TIMEOUT * TICKS
         /\ site.https.takes <= SITE_TIMEOUT * TICKS
         /\ site.dns + site.https.takes < (SITE_TIMEOUT + 1) * TICKS
<1> DEFINE r == Remaining(site)
           limit == MaxTime(r)
           server == site.https
<1>1. site.resolves /\ r > 0 /\ CanAccess(site, r).ok
  BY DEF ValidSite
<1>2. server.ok /\ ~(server.connects > CONNECT_TIMEOUT * TICKS) /\ ~(server.takes > limit)
  BY <1>1 DEF CanAccess, curl
<1>3. /\ site.dns \in Nat /\ server \in Server
      /\ server.takes \in Nat /\ server.connects \in Nat
  BY SiteFields, ServerFields
<1>4. r = SITE_TIMEOUT * TICKS - site.dns
  BY DEF Remaining
<1> HIDE DEF r, server
<1>5. r \in Nat \ {0} /\ r <= SITE_TIMEOUT * TICKS
  BY <1>1, <1>3, <1>4, TimesInTicks
<1>6. limit \in Nat /\ (limit <= r \/ limit = TICKS)
  BY <1>5, MaxTimeIsClose
<1> HIDE DEF limit
<1>7. /\ server.connects <= CONNECT_TIMEOUT * TICKS
      /\ server.takes <= SITE_TIMEOUT * TICKS
      /\ site.dns + server.takes < (SITE_TIMEOUT + 1) * TICKS
  BY <1>2, <1>3, <1>4, <1>5, <1>6, TimesInTicks, ConstantTypes
<1> QED
  BY <1>1, <1>2, <1>7 DEF server

\* One that has a name is what a list of sites is filtered for.
LEMMA PassedAnswers ==
  ASSUME NEW site \in Site, site.named, ValidSite(site).ok
  PROVE  AnswersInTime(site)
BY PassedTest DEF AnswersInTime

-----------------------------------------------------------------------------
(***************************************************************************)
(* filter_sites.py: what is saved.  The loop of main is a recursive        *)
(* function of how many lines have been read; that there is such a         *)
(* function, and what it does, follows from SetInduction.                  *)
(***************************************************************************)

\* What is saved after line n, when s was before it.
After(l, s, n) ==
  IF WantsMore(s) /\ l[n].named /\ ValidSite(l[n]).ok THEN Append(s, n) ELSE s

\* f is what is saved after each of the first m lines.
Reads(l, f, m) ==
  f = [n \in 0..m |-> IF n = 0 THEN <<>> ELSE After(l, f[n - 1], n)]

\* However many lines there are, there is a function that reads them.
LEMMA ReadingExists ==
  ASSUME NEW l
  PROVE  \A m \in Nat : \E f : Reads(l, f, m)
<1> DEFINE S == {m \in Nat : \E f : Reads(l, f, m)}
<1>1. 0 \in S
  <2> DEFINE f == [n \in 0..0 |-> <<>>]
  <2>1. f = [n \in 0..0 |-> IF n = 0 THEN <<>> ELSE After(l, f[n - 1], n)]
    OBVIOUS
  <2> HIDE DEF f
  <2> QED
    BY <2>1 DEF Reads
<1>2. ASSUME NEW m \in S
      PROVE  m + 1 \in S
  <2>1. PICK f : Reads(l, f, m)
    BY <1>2
  <2>2. m \in Nat
    BY <1>2
  <2> DEFINE g == [n \in 0..m + 1 |-> IF n = m + 1 THEN After(l, f[m], n) ELSE f[n]]
             h == [n \in 0..m + 1 |-> IF n = 0 THEN <<>> ELSE After(l, g[n - 1], n)]
  <2>3. ASSUME NEW n \in 0..m + 1
        PROVE  g[n] = h[n]
    <3>1. CASE n = 0
      <4>1. g[n] = f[n] /\ h[n] = <<>> /\ n \in 0..m
        BY <2>2, <3>1
      <4> QED
        BY <2>1, <3>1, <4>1 DEF Reads
    <3>2. CASE n \in 1..m
      <4>1. n \in 0..m /\ n - 1 \in 0..m /\ n # 0 /\ n # m + 1 /\ n - 1 # m + 1
        BY <2>2, <3>2
      <4>2. n - 1 \in 0..m + 1
        BY <2>2, <3>2
      <4>3. f[n] = After(l, f[n - 1], n)
        BY <2>1, <4>1 DEF Reads
      <4>4. g[n] = f[n] /\ g[n - 1] = f[n - 1]
        BY <4>1, <4>2
      <4>5. h[n] = After(l, g[n - 1], n)
        BY <4>1
      <4> QED
        BY <4>3, <4>4, <4>5
    <3>3. CASE n = m + 1
      <4>1. n - 1 = m /\ m \in 0..m + 1 /\ m # m + 1 /\ n # 0
        BY <2>2, <3>3
      <4>2. g[n] = After(l, f[m], n)
        BY <3>3
      <4>3. g[m] = f[m]
        BY <4>1
      <4>4. h[n] = After(l, g[m], n)
        BY <4>1
      <4> QED
        BY <4>2, <4>3, <4>4
    <3>4. n = 0 \/ n \in 1..m \/ n = m + 1
      BY <2>2
    <3> QED
      BY <3>1, <3>2, <3>3, <3>4
  <2>4. g = h
    BY <2>3
  <2>5. Reads(l, g, m + 1)
    BY <2>4 DEF Reads
  <2> HIDE DEF g
  <2> QED
    BY <2>2, <2>5
<1> HIDE DEF S
<1>3. \A m \in Nat : m \in S
  <2>1. S \in SUBSET Nat
    BY DEF S
  <2> QED
    BY <1>1, <1>2, <2>1, SetInduction
<1> QED
  BY <1>3 DEF S

\* Saved is what is saved after the last line.
Reading(l) == CHOOSE f : Reads(l, f, Len(l))

\* What main has saved after each line is what it had saved before it and what
\* the line adds.
LEMMA SavedIsRead ==
  ASSUME NEW l, Len(l) \in Nat
  PROVE  /\ Saved(l) = Reading(l)[Len(l)]
         /\ Reading(l)[0] = <<>>
         /\ \A n \in 1..Len(l) : Reading(l)[n] = After(l, Reading(l)[n - 1], n)
<1>1. Saved(l) = Reading(l)[Len(l)]
  BY DEF Saved, Reading, Reads, After
<1>2. Reads(l, Reading(l), Len(l))
  BY ReadingExists DEF Reading
<1> DEFINE f == Reading(l)
<1>3. f = [n \in 0..Len(l) |-> IF n = 0 THEN <<>> ELSE After(l, f[n - 1], n)]
  BY <1>2 DEF Reads
<1> HIDE DEF f
<1>4. 0 \in 0..Len(l) /\ \A n \in 1..Len(l) : n \in 0..Len(l) /\ n # 0
  OBVIOUS
<1>5. f[0] = <<>> /\ \A n \in 1..Len(l) : f[n] = After(l, f[n - 1], n)
  BY <1>3, <1>4
<1> QED
  BY <1>1, <1>5 DEF f

Places(s) == {s[k] : k \in DOMAIN s}

\* What main has saved of the first n lines.
SavedInv(l, n, s) ==
  /\ s \in Seq(Nat) /\ Len(s) <= TARGET_COUNT
  /\ \A j, k \in DOMAIN s : j < k => s[j] < s[k]
  /\ \A k \in DOMAIN s : s[k] \in 1..n /\ l[s[k]].named /\ ValidSite(l[s[k]]).ok
  /\ \A i \in 1..n \ Places(s) :
       Quick(l[i]) => Len(s) = TARGET_COUNT /\ \A p \in Places(s) : p < i

\* One more line.
LEMMA ReadOneMore ==
  ASSUME NEW l \in Seq(Site), NEW n \in Nat, n + 1 <= Len(l), NEW s, SavedInv(l, n, s)
  PROVE  SavedInv(l, n + 1, After(l, s, n + 1))
<1> DEFINE m == n + 1
           passes == l[m].named /\ ValidSite(l[m]).ok
<1>1. /\ s \in Seq(Nat) /\ Len(s) \in Nat /\ DOMAIN s = 1..Len(s)
      /\ \A k \in DOMAIN s : s[k] \in 1..n
  BY LenProperties DEF SavedInv
<1>2. m \in DOMAIN l /\ l[m] \in Site
  BY LenProperties, ElementOfSeq
<1> DEFINE count == Len(s)
<1>3. count \in Nat /\ TARGET_COUNT \in Nat
  BY <1>1, ConstantTypes
<1>4. CASE WantsMore(s) /\ passes
  <2> DEFINE t == Append(s, m)
  <2>1. After(l, s, m) = t
    BY <1>4 DEF After
  <2>2. /\ t \in Seq(Nat) /\ Len(t) = Len(s) + 1 /\ DOMAIN t = 1..Len(s) + 1
        /\ \A k \in DOMAIN s : t[k] = s[k]
        /\ t[Len(s) + 1] = m
    BY <1>1, AppendProperties, LenProperties
  <2>3. Len(s) < TARGET_COUNT
    BY <1>4 DEF WantsMore
  <2> HIDE DEF t
  <2>4. Len(t) <= TARGET_COUNT
    BY <1>1, <2>2, <2>3, ConstantTypes
  <2>5. ASSUME NEW j \in DOMAIN t, NEW k \in DOMAIN t, j < k
        PROVE  t[j] < t[k]
    <3>1. j \in DOMAIN s /\ (k \in DOMAIN s \/ k = Len(s) + 1)
      BY <1>1, <2>2, <2>5
    <3>2. CASE k \in DOMAIN s
      BY <2>2, <2>5, <3>1, <3>2 DEF SavedInv
    <3>3. CASE k = Len(s) + 1
      BY <1>1, <2>2, <3>1, <3>3
    <3> QED
      BY <3>1, <3>2, <3>3
  <2>6. ASSUME NEW k \in DOMAIN t
        PROVE  t[k] \in 1..m /\ l[t[k]].named /\ ValidSite(l[t[k]]).ok
    <3>1. k \in DOMAIN s \/ k = Len(s) + 1
      BY <1>1, <2>2
    <3>2. CASE k \in DOMAIN s
      <4>1. s[k] \in 1..n /\ l[s[k]].named /\ ValidSite(l[s[k]]).ok
        BY <3>2 DEF SavedInv
      <4>2. t[k] = s[k] /\ s[k] \in 1..m
        BY <2>2, <3>2, <4>1
      <4> QED
        BY <4>1, <4>2
    <3>3. CASE k = Len(s) + 1
      <4>1. t[k] = m /\ m \in 1..m
        BY <2>2, <3>3
      <4> QED
        BY <1>4, <4>1
    <3> QED
      BY <3>1, <3>2, <3>3
  <2>7. ASSUME NEW i \in 1..m \ Places(t)
        PROVE  ~Quick(l[i])
    <3>1. i # m
      <4>1. m \in Places(t)
        BY <1>1, <2>2 DEF Places
      <4> QED
        BY <2>7, <4>1
    <3>2. i \in 1..n
      BY <2>7, <3>1
    <3>3. i \notin Places(s)
      <4>1. \A k \in DOMAIN s : k \in DOMAIN t /\ t[k] = s[k]
        BY <1>1, <2>2
      <4>2. Places(s) \subseteq Places(t)
        BY <4>1 DEF Places
      <4> QED
        BY <2>7, <4>2
    <3>4. count # TARGET_COUNT
      <4> HIDE DEF count
      <4>1. count < TARGET_COUNT
        BY <2>3 DEF count
      <4> QED
        BY <1>3, <4>1
    <3> QED
      BY <3>2, <3>3, <3>4 DEF SavedInv
  <2>8. SavedInv(l, m, t)
    BY <2>2, <2>4, <2>5, <2>6, <2>7 DEF SavedInv
  <2> QED
    BY <2>1, <2>8
<1>5. CASE ~(WantsMore(s) /\ passes)
  <2>1. After(l, s, m) = s
    BY <1>5 DEF After
  <2>2. \A k \in DOMAIN s : s[k] \in 1..m /\ s[k] < m
    BY <1>1
  <2>3. \A p \in Places(s) : p < m
    BY <2>2 DEF Places
  <2>4. ASSUME Quick(l[m])
        PROVE  Len(s) = TARGET_COUNT
    <3>1. passes
      BY <1>2, <2>4, QuickPasses
    <3>2. ~(Len(s) < TARGET_COUNT)
      BY <1>5, <3>1 DEF WantsMore
    <3>3. Len(s) <= TARGET_COUNT
      BY DEF SavedInv
    <3> HIDE DEF count
    <3>4. count = TARGET_COUNT
      BY <1>3, <3>2, <3>3 DEF count
    <3> QED
      BY <3>4 DEF count
  <2>5. ASSUME NEW i \in 1..m \ Places(s), Quick(l[i])
        PROVE  Len(s) = TARGET_COUNT /\ \A p \in Places(s) : p < i
    <3>1. CASE i = m
      BY <2>3, <2>4, <2>5, <3>1
    <3>2. CASE i # m
      <4>1. i \in 1..n \ Places(s)
        BY <2>5, <3>2
      <4> QED
        BY <2>5, <4>1 DEF SavedInv
    <3> QED
      BY <3>1, <3>2
  <2>6. SavedInv(l, m, s)
    BY <2>2, <2>5 DEF SavedInv
  <2> QED
    BY <2>1, <2>6
<1> QED
  BY <1>4, <1>5

\* What is in sites.txt.
LEMMA SavedIsRight ==
  ASSUME NEW l \in Seq(Site)
  PROVE  SavedInv(l, Len(l), Saved(l))
<1> DEFINE f == Reading(l)
           S == {n \in Nat : n <= Len(l) => SavedInv(l, n, f[n])}
<1>1. Len(l) \in Nat
  BY LenProperties
<1>2. /\ Saved(l) = f[Len(l)] /\ f[0] = <<>>
      /\ \A n \in 1..Len(l) : f[n] = After(l, f[n - 1], n)
  BY <1>1, SavedIsRead
<1> HIDE DEF f
<1>3. 0 \in S
  <2>1. /\ <<>> \in Seq(Nat) /\ Len(<<>>) = 0 /\ DOMAIN <<>> = {}
    BY EmptySeq
  <2>2. SavedInv(l, 0, <<>>)
    BY <2>1, ConstantTypes DEF SavedInv
  <2> QED
    BY <1>2, <2>2
<1>4. ASSUME NEW n \in S
      PROVE  n + 1 \in S
  <2>1. n \in Nat /\ n + 1 \in Nat
    BY <1>4
  <2>2. SUFFICES ASSUME n + 1 <= Len(l)
                 PROVE  SavedInv(l, n + 1, f[n + 1])
    BY <2>1
  <2>3. SavedInv(l, n, f[n])
    BY <1>1, <1>4, <2>1, <2>2
  <2>4. n + 1 \in 1..Len(l) /\ n + 1 - 1 = n
    BY <1>1, <2>1, <2>2
  <2>5. f[n + 1] = After(l, f[n], n + 1)
    BY <1>2, <2>4
  <2> QED
    BY <2>1, <2>2, <2>3, <2>5, ReadOneMore
<1>5. \A n \in Nat : n \in S
  <2>1. S \in SUBSET Nat
    OBVIOUS
  <2> HIDE DEF S
  <2> QED
    BY <1>3, <1>4, <2>1, SetInduction
<1>6. SavedInv(l, Len(l), f[Len(l)])
  BY <1>1, <1>5
<1> QED
  BY <1>2, <1>6

\* filter_sites.py saves sites of the list that answer in the time of a test and
\* no others, each once and in their order, and stops exactly when it has
\* enough: of those that are quick over https none is passed over, for every
\* list, every behaviour of the sites in it and every number that is wanted.
THEOREM FirstSitesGetSaved ==
  ASSUME NEW l \in Seq(Site)
  PROVE  FirstAreSaved(l)
<1> DEFINE s == Saved(l)
<1>1. SavedInv(l, Len(l), s) /\ DOMAIN l = 1..Len(l)
  BY SavedIsRight, LenProperties
<1>2. ASSUME NEW k \in DOMAIN s
      PROVE  s[k] \in DOMAIN l /\ AnswersInTime(l[s[k]])
  <2>1. s[k] \in 1..Len(l) /\ l[s[k]].named /\ ValidSite(l[s[k]]).ok
    BY <1>1 DEF SavedInv
  <2>2. s[k] \in DOMAIN l /\ l[s[k]] \in Site
    BY <1>1, <2>1, ElementOfSeq
  <2> QED
    BY <2>1, <2>2, PassedAnswers
<1> HIDE DEF s
<1>3. /\ Len(s) <= TARGET_COUNT
      /\ \A j, k \in DOMAIN s : j < k => s[j] < s[k]
      /\ \A i \in DOMAIN l \ Places(s) :
           Quick(l[i]) => Len(s) = TARGET_COUNT /\ \A p \in Places(s) : p < i
  BY <1>1 DEF SavedInv
<1>4. \A p \in Places(s) : p \in DOMAIN l /\ AnswersInTime(l[p])
  BY <1>2 DEF Places
<1> QED
  BY <1>3, <1>4 DEF FirstAreSaved, Places, s

\* What a site is like whose server takes time to answer, and that has passed
\* its test, when measure.py comes to it.
LEMMA PassedIsMeasured ==
  ASSUME NEW site \in Site, ValidSite(site).ok, site.https.takes > 0
  PROVE  Measures(site.https)
<1> DEFINE server == site.https
<1>1. /\ server \in Server /\ server.takes \in Nat /\ server.connects \in Nat
      /\ server.ok
      /\ server.connects <= CONNECT_TIMEOUT * TICKS
      /\ server.takes <= SITE_TIMEOUT * TICKS
  BY SiteFields, ServerFields, PassedTest
<1>2. /\ CONNECT_TIMEOUT * TICKS <= TIMEOUT * TICKS
      /\ SITE_TIMEOUT * TICKS <= MAX_TIME * TICKS
      /\ CONNECT_TIMEOUT * TICKS \in Nat /\ TIMEOUT * TICKS \in Nat
      /\ SITE_TIMEOUT * TICKS \in Nat /\ MAX_TIME * TICKS \in Nat
  BY LimitAssumption, ConstantTypes, ProductGrows
<1>3. server.takes > 0
  OBVIOUS
<1> HIDE DEF server
<1>4. ~(server.connects > TIMEOUT * TICKS) /\ ~(server.takes > MAX_TIME * TICKS)
  BY <1>1, <1>2
<1>5. Measures(server)
  BY <1>1, <1>3, <1>4 DEF Measures, curl
<1> QED
  BY <1>5 DEF server

\* Every site that filter_sites.py saves measure.py can measure, and within its
\* limit, while the network stays as it is: its limits are wider than those of
\* the test, for every list of sites whose servers take time to answer.
THEOREM SavedGetMeasured ==
  ASSUME NEW l \in Seq(Site), \A i \in DOMAIN l : l[i].https.takes > 0
  PROVE  SavedAreMeasured(l)
<1> DEFINE s == Saved(l)
<1>1. /\ s \in Seq(Nat) /\ DOMAIN s = 1..Len(s)
      /\ \A k \in DOMAIN s : s[k] \in 1..Len(l) /\ ValidSite(l[s[k]]).ok
  BY SavedIsRight, LenProperties DEF SavedInv
<1>2. \A i \in 1..Len(l) : i \in DOMAIN l /\ l[i] \in Site
  BY LenProperties, ElementOfSeq
<1>3. ASSUME NEW k \in 1..Len(s)
      PROVE  LET row == Results(l)[k]
             IN  /\ row.resolved /\ row.url # NoUrl
                 /\ row.total \in 1..MAX_TIME * TICKS
  <2> DEFINE site == l[s[k]]
             row == Results(l)[k]
  <2>1. site \in Site /\ ValidSite(site).ok /\ site.https.takes > 0
    BY <1>1, <1>2
  <2>2. row = Row(k, site)
    BY DEF Results
  <2> HIDE DEF site, row
  <2>3. Measures(site.https)
    BY <2>1, PassedIsMeasured
  <2>4. site.resolves /\ site.https.takes <= SITE_TIMEOUT * TICKS /\ site.https.takes \in Nat
    BY <2>1, PassedTest, SiteFields, ServerFields
  <2>5. Url(site) = "https"
    BY <2>3, <2>4 DEF Url
  <2>6. row.resolved = site.resolves /\ row.url = "https" /\ row.total = site.https.takes
    BY <2>2, <2>5, UrlAssumption DEF Row
  <2>7. /\ SITE_TIMEOUT * TICKS \in Nat /\ MAX_TIME * TICKS \in Nat
        /\ SITE_TIMEOUT * TICKS <= MAX_TIME * TICKS
    BY LimitAssumption, ConstantTypes, ProductGrows
  <2>8. row.total \in 1..MAX_TIME * TICKS
    BY <2>1, <2>4, <2>6, <2>7
  <2> QED
    BY <2>4, <2>6, <2>8, UrlAssumption DEF row
<1> QED
  BY <1>3 DEF SavedAreMeasured

-----------------------------------------------------------------------------
(***************************************************************************)
(* What the runs check, for all of their bounds.                           *)
(***************************************************************************)

\* What has been computed was computed from what is there.
FunctionsInv ==
  /\ size \in Int
  /\ value \in RangeValue \cup {None}
  /\ range # Unparsed => value # None /\ range = ParseRange(value, size)
  /\ target \in Seq(Piece)
  /\ path # Unresolved => path = Resolve(target)
  /\ list \in Seq(SmallSite)

\* What the run enumerates is a part of what the theorems are about.
LEMMA SmallIsGeneral ==
  /\ SmallRange \subseteq RangeValue
  /\ SmallSite \subseteq Site
  /\ \A site \in SmallSite : site.https.takes > 0
<1>1. SmallNumber \subseteq Number
  BY DEF SmallNumber, Number
<1>2. SmallRange \subseteq RangeValue
  BY <1>1 DEF SmallRange, RangeValue
<1>3. SmallServer \subseteq Server /\ \A server \in SmallServer : server.takes > 0
  <2>1. Fast \in Server /\ Fast.takes = 2
    BY DEF Server, Fast
  <2>2. Fails \in Server /\ Fails.takes = 2
    BY <2>1 DEF Server, Fails
  <2>3. \A n, m \in Nat : /\ [Fast EXCEPT !.connects = n, !.takes = m] \in Server
                          /\ [Fast EXCEPT !.connects = n, !.takes = m].takes = m
    BY DEF Server, Fast
  <2>4. \A m \in Nat : /\ [Fast EXCEPT !.takes = m] \in Server
                       /\ [Fast EXCEPT !.takes = m].takes = m
    BY DEF Server, Fast
  <2>5. /\ [Fast EXCEPT !.connects = 7, !.takes = 8] \in Server
        /\ [Fast EXCEPT !.connects = 7, !.takes = 8].takes = 8
    BY <2>3
  <2>6. /\ [Fast EXCEPT !.takes = 13] \in Server /\ [Fast EXCEPT !.takes = 13].takes = 13
        /\ [Fast EXCEPT !.takes = 17] \in Server /\ [Fast EXCEPT !.takes = 17].takes = 17
    BY <2>4
  <2> QED
    BY <2>1, <2>2, <2>5, <2>6 DEF SmallServer
<1>4. Fast \in SmallServer /\ Fails \in SmallServer
  BY DEF SmallServer
<1>5. ASSUME NEW site \in SmallSite
      PROVE  site.https \in SmallServer /\ site \in Site
  <2> DEFINE SitesOf(A, B, D, G, H) ==
               [named : A, resolves : B, dns : D, https : G, http : H]
  <2>1. ASSUME NEW A \in SUBSET BOOLEAN, NEW B \in SUBSET BOOLEAN, NEW D \in SUBSET Nat,
               NEW G \in SUBSET SmallServer, NEW H \in SUBSET SmallServer,
               site \in SitesOf(A, B, D, G, H)
        PROVE  site.https \in SmallServer /\ site \in Site
    BY <1>3, <2>1, Zenon DEF Site
  <2> HIDE DEF SitesOf
  <2>2. /\ {TRUE} \in SUBSET BOOLEAN /\ {FALSE} \in SUBSET BOOLEAN
        /\ {Fast} \in SUBSET SmallServer /\ {Fast, Fails} \in SUBSET SmallServer
        /\ SmallServer \in SUBSET SmallServer
    BY <1>4
  <2>3. {0, 1, 15, 16} \in SUBSET Nat /\ {1, 30} \in SUBSET Nat /\ {0} \in SUBSET Nat
    OBVIOUS
  <2>4. \/ site \in SitesOf({TRUE}, {TRUE}, {0, 1, 15, 16}, SmallServer, {Fast, Fails})
        \/ site \in SitesOf({TRUE}, {FALSE}, {1, 30}, {Fast}, {Fast})
        \/ site \in SitesOf({FALSE}, {FALSE}, {0}, {Fast}, {Fast})
    BY DEF SmallSite, SitesOf
  <2> QED
    BY <2>1, <2>2, <2>3, <2>4
<1> QED
  BY <1>2, <1>3, <1>5

\* What is resolved or parsed is what the functions make of what they are given.
LEMMA FunctionsInvHolds == Spec => []FunctionsInv
<1>1. Init => FunctionsInv
  <2>1. <<>> \in Seq(Piece) /\ <<>> \in Seq(SmallSite)
    BY EmptySeq
  <2> QED
    BY <2>1, SmallIsGeneral DEF Init, FunctionsInv
<1>2. FunctionsInv /\ [Parse \/ Grow \/ Map \/ NextSite]_vars => FunctionsInv'
  <2> SUFFICES ASSUME FunctionsInv, [Parse \/ Grow \/ Map \/ NextSite]_vars
               PROVE  FunctionsInv'
    OBVIOUS
  <2>1. CASE Parse
    BY <2>1 DEF Parse, FunctionsInv
  <2>2. CASE Grow
    <3>1. target' \in Seq(Piece)
      BY <2>2, AppendProperties DEF Grow, FunctionsInv
    <3> QED
      BY <2>2, <3>1 DEF Grow, FunctionsInv
  <2>3. CASE Map
    BY <2>3 DEF Map, FunctionsInv
  <2>4. CASE NextSite
    <3>1. list' \in Seq(SmallSite)
      BY <2>4, AppendProperties DEF NextSite, FunctionsInv
    <3> QED
      BY <2>4, <3>1 DEF NextSite, FunctionsInv
  <2>5. CASE UNCHANGED vars
    BY <2>5 DEF vars, FunctionsInv
  <2> QED
    BY <2>1, <2>2, <2>3, <2>4, <2>5
<1> QED
  BY <1>1, <1>2, PTL DEF Spec

\* The sites of the list are sites as the theorems have them.
LEMMA ListOfSites ==
  ASSUME FunctionsInv
  PROVE  /\ list \in Seq(Site)
         /\ \A i \in DOMAIN list : list[i] \in Site /\ list[i].https.takes > 0
<1>1. \A i \in DOMAIN list : list[i] \in SmallSite
  BY LenProperties, ElementOfSeq DEF FunctionsInv
<1>2. list \in Seq(Site)
  BY SmallIsGeneral DEF FunctionsInv
<1> QED
  BY <1>1, <1>2, SmallIsGeneral

\* Every range that is answered lies in the file.
THEOREM RangesStayInFile == Spec => []RangeIsInFile
<1>1. FunctionsInv => RangeIsInFile
  BY AnsweredRangeIsInFile DEF FunctionsInv, RangeIsInFile, InFile, Unparsed
<1> QED
  BY <1>1, FunctionsInvHolds, PTL

\* Every well-formed header gets exactly what it asks for, or is refused, as
\* each one is with a number that does not fit.
THEOREM RangesAreAlwaysAsAsked == Spec => []RangeIsAsAsked
<1>1. FunctionsInv => RangeIsAsAsked
  BY WellFormedRangeIsAnswered DEF FunctionsInv, RangeIsAsAsked
<1> QED
  BY <1>1, FunctionsInvHolds, PTL

\* No target, of any length, names a file outside the server's directory.
THEOREM PathsAlwaysStayInside == Spec => []PathStaysInside
<1>1. FunctionsInv => PathStaysInside
  BY PathsLeadInside DEF FunctionsInv, PathStaysInside
<1> QED
  BY <1>1, FunctionsInvHolds, PTL

\* No target, of any length, depends on how its characters are written.
THEOREM CodingIsAlwaysTransparent == Spec => []CodingIsTransparent
<1>1. FunctionsInv => CodingIsTransparent
  BY CodingNeverMatters DEF FunctionsInv, CodingIsTransparent
<1> QED
  BY <1>1, FunctionsInvHolds, PTL

\* Of every list, of any length, only sites that answer in time are saved, and
\* none that is quick over https is passed over.
THEOREM FirstSitesAreAlwaysSaved == Spec => []FirstSitesAreSaved
<1>1. FunctionsInv => FirstSitesAreSaved
  BY ListOfSites, FirstSitesGetSaved DEF FirstSitesAreSaved
<1> QED
  BY <1>1, FunctionsInvHolds, PTL

\* No test takes longer than it may.
THEOREM TestTimesAreBounded == Spec => []TestTimeIsBounded
<1>1. FunctionsInv => TestTimeIsBounded
  BY ListOfSites, TestsTakeNoLonger DEF TestTimeIsBounded
<1> QED
  BY <1>1, FunctionsInvHolds, PTL

\* Of every list, of any length, what is saved is measured.
THEOREM SavedSitesAreAlwaysMeasured == Spec => []SavedSitesAreMeasured
<1>1. FunctionsInv => SavedSitesAreMeasured
  BY ListOfSites, SavedGetMeasured DEF SavedSitesAreMeasured
<1> QED
  BY <1>1, FunctionsInvHolds, PTL
=============================================================================
