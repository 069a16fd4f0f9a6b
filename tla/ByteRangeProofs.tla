--------------------------- MODULE ByteRangeProofs ---------------------------
(***************************************************************************)
(* What parse_range_header answers for every header, whatever its numbers  *)
(* and signs, every file size and every width of unsigned long long.       *)
(***************************************************************************)
EXTENDS ByteRange, TLAPS

\* What strtoull returns is a natural number, and the number itself unless it
\* has a sign.
LEMMA NumberRead ==
  ASSUME NEW n \in Number, ReadsAll(n)
  PROVE  /\ strtoull(n) \in Nat
         /\ n.digits \in Nat
         /\ n.sign # "-" => strtoull(n) = n.digits
<1>1. n.digits \in Nat
  BY DEF ReadsAll, Number
<1>2. \A d \in Nat : (ULLONG - d) % ULLONG \in Nat
  BY WidthAssumption
<1> QED
  BY <1>1, <1>2 DEF strtoull

\* The types of the parts of a Range value.
LEMMA RangeFields ==
  ASSUME NEW v \in RangeValue
  PROVE  v.dash \in BOOLEAN /\ v.before \in Number /\ v.after \in Number
BY DEF RangeValue

\* parse_range_header never answers with bytes that are not in the file, nor
\* with a range whose length is negative, whatever numbers and signs the
\* header has.
THEOREM AnsweredRangeIsInFile ==
  ASSUME NEW v \in RangeValue, NEW length \in Int
  PROVE  InFile(ParseRange(v, length), length)
<1> DEFINE b == v.before
           a == v.after
<1>0. b \in Number /\ a \in Number
  BY RangeFields
<1>1. CASE length <= 0 \/ ~v.dash
  BY <1>1 DEF ParseRange, InFile, Illegal
<1>2. CASE length > 0 /\ v.dash /\ IsEmpty(b)
  <2>1. ParseRange(v, length) = SuffixRange(a, length)
    BY <1>2 DEF ParseRange
  <2>2. CASE ~ReadsAll(a) \/ strtoull(a) = 0
    BY <2>1, <2>2 DEF SuffixRange, InFile, Illegal
  <2>3. CASE ReadsAll(a) /\ strtoull(a) # 0
    <3>1. strtoull(a) \in Nat \ {0}
      BY <1>0, <2>3, NumberRead
    <3> HIDE DEF a, b
    <3> QED
      BY <1>2, <2>1, <2>3, <3>1 DEF SuffixRange, InFile, Bytes
  <2> QED
    BY <2>2, <2>3
<1>3. CASE length > 0 /\ v.dash /\ ~IsEmpty(b)
  <2>1. ParseRange(v, length) = IntervalRange(b, a, length)
    BY <1>3 DEF ParseRange
  <2>2. CASE ~ReadsAll(b) \/ strtoull(b) >= length
    BY <2>1, <2>2 DEF IntervalRange, InFile, Illegal
  <2>3. CASE ReadsAll(b) /\ ~(strtoull(b) >= length)
    <3>1. strtoull(b) \in Nat
      BY <1>0, <2>3, NumberRead
    <3>2. CASE IsEmpty(a)
      <4> HIDE DEF a, b
      <4> QED
        BY <1>3, <2>1, <2>3, <3>1, <3>2 DEF IntervalRange, InFile, Bytes
    <3>3. CASE ~IsEmpty(a) /\ (~ReadsAll(a) \/ strtoull(a) < strtoull(b))
      BY <2>1, <2>3, <3>3 DEF IntervalRange, InFile, Illegal
    <3>4. CASE ~IsEmpty(a) /\ ReadsAll(a) /\ ~(strtoull(a) < strtoull(b))
      <4>1. strtoull(a) \in Nat
        BY <1>0, <3>4, NumberRead
      <4> HIDE DEF a, b
      <4> QED
        BY <1>3, <2>1, <2>3, <3>1, <3>4, <4>1 DEF IntervalRange, InFile, Bytes, Clip
    <3> QED
      BY <3>2, <3>3, <3>4
  <2> QED
    BY <2>2, <2>3
<1> QED
  BY <1>1, <1>2, <1>3 DEF RangeValue

\* A plain number that fits is read as what it says.
LEMMA PlainNumberRead ==
  ASSUME NEW n \in Number, IsPlain(n), Fits(n)
  PROVE  ReadsAll(n) /\ strtoull(n) = n.digits /\ n.digits \in Nat /\ ~IsEmpty(n)
<1>1. ReadsAll(n) /\ n.sign # "-" /\ ~IsEmpty(n)
  BY DEF IsPlain, ReadsAll, IsEmpty
<1> QED
  BY <1>1, NumberRead

\* A well-formed header with a number that does not fit is refused: strtoull
\* fails, and each of its calls is followed by a look at errno.
LEMMA TooLargeIsRefused ==
  ASSUME NEW v \in RangeValue, NEW length \in Int,
         WellFormed(v), ~Fits(v.before) \/ ~Fits(v.after)
  PROVE  ParseRange(v, length) = Illegal
<1> DEFINE b == v.before
           a == v.after
<1>1. CASE length <= 0
  BY <1>1 DEF ParseRange
<1>2. CASE length > 0 /\ IsEmpty(b)
  <2>1. ~ReadsAll(a)
    BY <1>2 DEF IsEmpty, Fits, ReadsAll
  <2>2. ParseRange(v, length) = SuffixRange(a, length)
    BY <1>2 DEF ParseRange, WellFormed
  <2> QED
    BY <2>1, <2>2 DEF SuffixRange
<1>3. CASE length > 0 /\ ~IsEmpty(b)
  <2>1. ParseRange(v, length) = IntervalRange(b, a, length)
    BY <1>3 DEF ParseRange, WellFormed
  <2>2. CASE ~ReadsAll(b)
    BY <2>1, <2>2 DEF IntervalRange
  <2>3. CASE ReadsAll(b)
    <3>1. ~ReadsAll(a) /\ ~IsEmpty(a)
      BY <2>3 DEF IsEmpty, Fits, ReadsAll
    <3> QED
      BY <2>1, <3>1 DEF IntervalRange
  <2> QED
    BY <2>2, <2>3
<1> QED
  BY <1>1, <1>2, <1>3

\* One whose numbers fit is answered with exactly the positions it stands for,
\* and is refused when there are none.
LEMMA FittingIsAnswered ==
  ASSUME NEW v \in RangeValue, NEW length \in Int,
         WellFormed(v), Fits(v.before), Fits(v.after)
  PROVE  IF Wanted(v, length) = {} THEN ParseRange(v, length) = Illegal
         ELSE Positions(ParseRange(v, length)) = Wanted(v, length)
<1> DEFINE b == v.before
           a == v.after
           R == ParseRange(v, length)
           W == Wanted(v, length)
<1>0. b \in Number /\ a \in Number /\ v.dash
  BY RangeFields DEF WellFormed
<1>1. CASE length <= 0
  <2>1. R = Illegal
    BY <1>1 DEF ParseRange
  <2>2. W = {}
    BY <1>1 DEF Wanted
  <2> QED
    BY <2>1, <2>2
<1>2. CASE length > 0 /\ IsEmpty(b) /\ IsPlain(a)
  <2>1. ReadsAll(a) /\ strtoull(a) = a.digits /\ a.digits \in Nat
    BY <1>0, <1>2, PlainNumberRead
  <2>2. R = SuffixRange(a, length)
    BY <1>0, <1>2 DEF ParseRange
  <2>3. W = {p \in 0..length - 1 : p >= length - a.digits}
    BY <1>2 DEF Wanted
  <2>4. CASE a.digits = 0
    <3>1. R = Illegal
      BY <2>1, <2>2, <2>4 DEF SuffixRange
    <3>2. W = {}
      BY <2>3, <2>4
    <3> QED
      BY <3>1, <3>2
  <2>5. CASE a.digits > 0
    <3> DEFINE first == IF a.digits >= length THEN 0 ELSE length - a.digits
    <3>1. R = Bytes(first, length - 1)
      BY <2>1, <2>2, <2>5 DEF SuffixRange
    <3>2. Positions(R) = first..length - 1
      BY <3>1 DEF Positions, Bytes
    <3> HIDE DEF a, R, W
    <3>3. W = first..length - 1 /\ length - 1 \in W
      BY <1>2, <2>1, <2>3, <2>5
    <3> QED
      BY <3>2, <3>3 DEF R, W
  <2> QED
    BY <2>1, <2>4, <2>5
<1>3. CASE length > 0 /\ IsPlain(b)
  <2>1. ReadsAll(b) /\ strtoull(b) = b.digits /\ b.digits \in Nat /\ ~IsEmpty(b)
    BY <1>0, <1>3, PlainNumberRead
  <2>2. R = IntervalRange(b, a, length)
    BY <1>0, <1>3, <2>1 DEF ParseRange
  <2>3. W = {p \in 0..length - 1 : p >= b.digits /\ (IsPlain(a) => p <= a.digits)}
    BY <2>1 DEF Wanted
  <2>4. CASE b.digits >= length
    <3>1. R = Illegal
      BY <2>1, <2>2, <2>4 DEF IntervalRange
    <3> HIDE DEF a, b, R, W
    <3>2. W = {}
      BY <2>1, <2>3, <2>4
    <3> QED
      BY <3>1, <3>2 DEF R, W
  <2>5. CASE b.digits < length /\ IsEmpty(a)
    <3>1. R = Bytes(b.digits, length - 1)
      BY <2>1, <2>2, <2>5 DEF IntervalRange
    <3>2. Positions(R) = b.digits..length - 1
      BY <3>1 DEF Positions, Bytes
    <3>3. ~IsPlain(a)
      BY <2>5 DEF IsPlain, IsEmpty
    <3> HIDE DEF a, b, R, W
    <3>4. W = b.digits..length - 1 /\ length - 1 \in W
      BY <1>3, <2>1, <2>3, <2>5, <3>3
    <3> QED
      BY <3>2, <3>4 DEF R, W
  <2>6. CASE b.digits < length /\ IsPlain(a)
    <3>1. ReadsAll(a) /\ strtoull(a) = a.digits /\ a.digits \in Nat /\ ~IsEmpty(a)
      BY <1>0, <2>6, PlainNumberRead
    <3>2. CASE a.digits < b.digits
      <4>1. R = Illegal
        BY <2>1, <2>2, <3>1, <3>2 DEF IntervalRange
      <4> HIDE DEF a, b, R, W
      <4>2. W = {}
        BY <2>1, <2>3, <2>6, <3>1, <3>2
      <4> QED
        BY <4>1, <4>2 DEF R, W
    <3>3. CASE a.digits >= b.digits
      <4>1. R = Bytes(b.digits, Clip(a.digits, length))
        <5>1. ~(strtoull(b) >= length) /\ ~(strtoull(a) < strtoull(b))
          BY <2>1, <2>6, <3>1, <3>3
        <5> QED
          BY <2>1, <2>2, <3>1, <5>1 DEF IntervalRange
      <4>2. Positions(R) = b.digits..Clip(a.digits, length)
        BY <4>1 DEF Positions, Bytes
      <4> HIDE DEF a, b, R, W
      <4>3. W = b.digits..Clip(a.digits, length) /\ b.digits \in W
        BY <1>3, <2>1, <2>3, <2>6, <3>1, <3>3 DEF Clip
      <4> QED
        BY <4>2, <4>3 DEF R, W
    <3> QED
      BY <2>1, <3>1, <3>2, <3>3
  <2>7. IsPlain(a) \/ IsEmpty(a)
    BY <2>1 DEF WellFormed
  <2> QED
    BY <2>1, <2>4, <2>5, <2>6, <2>7
<1> QED
  BY <1>1, <1>2, <1>3 DEF WellFormed

\* A header of one of the three forms is answered with exactly the positions it
\* stands for, and is refused when there are none, and when one of its numbers
\* is more than an unsigned long long can hold.
THEOREM WellFormedRangeIsAnswered ==
  ASSUME NEW v \in RangeValue, NEW length \in Int, WellFormed(v)
  PROVE  AsAsked(ParseRange(v, length), v, length)
<1>1. CASE ~Fits(v.before) \/ ~Fits(v.after)
  <2>1. ParseRange(v, length) = Illegal
    BY <1>1, TooLargeIsRefused
  <2> QED
    BY <1>1, <2>1 DEF AsAsked
<1>2. CASE Fits(v.before) /\ Fits(v.after)
  BY <1>2, FittingIsAnswered DEF AsAsked
<1> QED
  BY <1>1, <1>2
=============================================================================
