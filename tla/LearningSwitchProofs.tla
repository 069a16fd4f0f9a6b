------------------------ MODULE LearningSwitchProofs ------------------------
(***************************************************************************)
(* Proofs about the MAC table, for every set of addresses and ports, every *)
(* hash function, every timeout and every delay, and after them about the  *)
(* switch that uses it and its hosts, for every set of hosts and any       *)
(* number of frames and moves.                                             *)
(***************************************************************************)
EXTENDS LearningSwitch, SequenceTheorems, TLAPS

-----------------------------------------------------------------------------
(***************************************************************************)
(* What the operations make of the lists.                                  *)
(***************************************************************************)

\* list_delete_entry: the entries after the deleted one move up.
LEMMA RemoveAtProperties ==
  ASSUME NEW S, NEW s \in Seq(S), NEW k \in 1..Len(s)
  PROVE  /\ RemoveAt(s, k) \in Seq(S)
         /\ Len(RemoveAt(s, k)) = Len(s) - 1
         /\ \A i \in 1..Len(s) - 1 : RemoveAt(s, k)[i] = IF i < k THEN s[i] ELSE s[i + 1]
<1> DEFINE front == SubSeq(s, 1, k - 1)
           back == SubSeq(s, k + 1, Len(s))
<1>1. Len(s) \in Nat /\ \A i \in 1..Len(s) : s[i] \in S
  BY LenProperties, ElementOfSeq
<1>2. front \in Seq(S) /\ Len(front) = k - 1 /\ \A i \in 1..k - 1 : front[i] = s[i]
  BY <1>1, SubSeqProperties
<1>3. back \in Seq(S) /\ Len(back) = Len(s) - k /\ \A i \in 1..Len(s) - k : back[i] = s[k + i]
  BY <1>1, SubSeqProperties
<1>4. RemoveAt(s, k) = front \o back
  BY DEF RemoveAt
<1> HIDE DEF front, back
<1>5. /\ front \o back \in Seq(S)
      /\ Len(front \o back) = Len(front) + Len(back)
      /\ \A i \in 1..Len(front) + Len(back) :
           (front \o back)[i] = IF i <= Len(front) THEN front[i] ELSE back[i - Len(front)]
  BY <1>2, <1>3, ConcatProperties
<1>6. ASSUME NEW i \in 1..Len(s) - 1
      PROVE  (front \o back)[i] = IF i < k THEN s[i] ELSE s[i + 1]
  <2>1. CASE i < k
    BY <2>1, <1>1, <1>2, <1>3, <1>5
  <2>2. CASE ~(i < k)
    <3>1. (front \o back)[i] = back[i - (k - 1)]
      BY <2>2, <1>1, <1>2, <1>3, <1>5
    <3>2. i - (k - 1) \in 1..Len(s) - k /\ k + (i - (k - 1)) = i + 1
      BY <2>2, <1>1
    <3> QED BY <2>2, <3>1, <3>2, <1>3
  <2> QED BY <2>1, <2>2
<1> QED BY <1>1, <1>2, <1>3, <1>4, <1>5, <1>6

\* A bucket in the table, and its entries.
LEMMA BucketType ==
  ASSUME TypeOK, NEW b \in Bucket
  PROVE  /\ hash_table[b] \in Seq(Entry)
         /\ Len(hash_table[b]) \in Nat
         /\ DOMAIN hash_table[b] = 1..Len(hash_table[b])
         /\ \A k \in 1..Len(hash_table[b]) : hash_table[b][k] \in Entry
<1>1. hash_table[b] \in Seq(Entry)
  BY DEF TypeOK
<1> QED BY <1>1, LenProperties, ElementOfSeq

\* All buckets but b stay as they are.
OnlyChanges(b) == \A c \in Bucket \ {b} : hash_table'[c] = hash_table[c]

\* Some entry of b is replaced, or one is added at its end, or none is: what
\* insert_mac_port does with what it has seen.
Replaces(b, k) ==
  /\ k \in 1..Len(hash_table[b])
  /\ hash_table[b][k].mac = caller.mac
  /\ Len(hash_table'[b]) = Len(hash_table[b])
  /\ \A i \in 1..Len(hash_table[b]) :
       hash_table'[b][i] = IF i = k THEN Seen ELSE hash_table[b][i]

Adds(b) ==
  /\ \A i \in 1..Len(hash_table[b]) : hash_table[b][i].mac # caller.mac
  /\ Len(hash_table'[b]) = Len(hash_table[b]) + 1
  /\ \A i \in 1..Len(hash_table[b]) : hash_table'[b][i] = hash_table[b][i]
  /\ hash_table'[b][Len(hash_table[b]) + 1] = Seen

\* What is inserted belongs in the bucket of its address.
LEMMA SeenType ==
  ASSUME TypeOK, caller.pc = "insert_locked"
  PROVE  /\ Seen \in Entry
         /\ Seen.mac = caller.mac /\ Seen.age = caller.lag
         /\ caller.mac \in Mac /\ Hash[caller.mac] \in Bucket
BY HashAssumption DEF TypeOK, Caller, Seen, Entry, Bucket

\* insert_mac_port replaces the entry of its address, adds one, or, when malloc
\* fails, does nothing, all in the bucket of the address.
LEMMA InsertResult ==
  ASSUME TypeOK, Insert
  PROVE  LET b == Hash[caller.mac]
         IN  /\ hash_table' \in [Bucket -> Seq(Entry)]
             /\ OnlyChanges(b)
             /\ \/ \E k \in 1..Len(hash_table[b]) : Replaces(b, k)
                \/ Adds(b)
                \/ UNCHANGED hash_table
<1> DEFINE m == caller.mac
           b == Hash[m]
<1>1. Seen \in Entry /\ m \in Mac /\ b \in Bucket
  BY SeenType DEF Insert
<1>2. /\ hash_table \in [Bucket -> Seq(Entry)] /\ hash_table[b] \in Seq(Entry)
      /\ DOMAIN hash_table[b] = 1..Len(hash_table[b])
  BY <1>1, BucketType DEF TypeOK
<1>3. CASE \E k \in Places(m) : /\ FoundAt(m, k)
                                /\ hash_table' = [hash_table EXCEPT ![Hash[m]][k] = Seen]
  <2>1. PICK k \in Places(m) : hash_table' = [hash_table EXCEPT ![b][k] = Seen]
    BY <1>3
  <2>2. k \in 1..Len(hash_table[b]) /\ hash_table[b][k].mac = m
    BY <2>1, <1>2 DEF Places
  <2> DEFINE new == [hash_table[b] EXCEPT ![k] = Seen]
  <2>3. /\ new \in Seq(Entry) /\ Len(new) = Len(hash_table[b])
        /\ \A i \in 1..Len(hash_table[b]) : new[i] = IF i = k THEN Seen ELSE hash_table[b][i]
    BY <1>1, <1>2, <2>2, ExceptSeq
  <2>4. hash_table' = [hash_table EXCEPT ![b] = new]
    BY <2>1
  <2> HIDE DEF new
  <2>5. /\ hash_table' \in [Bucket -> Seq(Entry)] /\ hash_table'[b] = new
        /\ OnlyChanges(b)
    BY <1>1, <1>2, <2>3, <2>4 DEF OnlyChanges
  <2>6. Replaces(b, k)
    BY <2>2, <2>3, <2>5 DEF Replaces
  <2> QED BY <2>2, <2>5, <2>6
<1>4. CASE Places(m) = {} /\ Stored(m)
  <2> DEFINE new == Append(hash_table[b], Seen)
  <2>1. /\ new \in Seq(Entry) /\ Len(new) = Len(hash_table[b]) + 1
        /\ \A i \in 1..Len(hash_table[b]) : new[i] = hash_table[b][i]
        /\ new[Len(hash_table[b]) + 1] = Seen
    BY <1>1, <1>2, AppendProperties
  <2>2. hash_table' = [hash_table EXCEPT ![b] = new]
    BY <1>4 DEF Stored
  <2> HIDE DEF new
  <2>3. /\ hash_table' \in [Bucket -> Seq(Entry)] /\ hash_table'[b] = new
        /\ OnlyChanges(b)
    BY <1>1, <1>2, <2>1, <2>2 DEF OnlyChanges
  <2>4. \A i \in 1..Len(hash_table[b]) : hash_table[b][i].mac # m
    BY <1>2, <1>4 DEF Places
  <2>5. Adds(b)
    BY <2>1, <2>3, <2>4 DEF Adds
  <2> QED BY <2>3, <2>5
<1>5. CASE UNCHANGED hash_table
  BY <1>2, <1>5 DEF OnlyChanges
<1> QED BY <1>3, <1>4, <1>5 DEF Insert

\* The sweeper deletes the entry it is at, when that has aged.
Deletes(b, k) ==
  /\ HasAged(hash_table[b][k])
  /\ OnlyChanges(b)
  /\ Len(hash_table'[b]) = Len(hash_table[b]) - 1
  /\ \A i \in 1..Len(hash_table[b]) - 1 :
       hash_table'[b][i] = IF i < k THEN hash_table[b][i] ELSE hash_table[b][i + 1]
  /\ UNCHANGED sweeper

Passes(b, k) ==
  /\ ~HasAged(hash_table[b][k])
  /\ UNCHANGED hash_table
  /\ sweeper' = [sweeper EXCEPT !.position = k + 1]

\* A step of the sweeper removes one entry or passes it.
LEMMA SweepEntryResult ==
  ASSUME TypeOK, SweepEntry
  PROVE  LET b == sweeper.bucket
             k == sweeper.position
         IN  /\ hash_table' \in [Bucket -> Seq(Entry)]
             /\ b \in Bucket /\ k \in 1..Len(hash_table[b])
             /\ Deletes(b, k) \/ Passes(b, k)
<1> DEFINE b == sweeper.bucket
           k == sweeper.position
<1>1. b \in Bucket
  BY DEF TypeOK, Sweeper
<1>2. /\ hash_table \in [Bucket -> Seq(Entry)] /\ hash_table[b] \in Seq(Entry)
      /\ DOMAIN hash_table[b] = 1..Len(hash_table[b])
  BY <1>1, BucketType DEF TypeOK
<1>3. k \in 1..Len(hash_table[b])
  BY <1>2 DEF SweepEntry
<1>4. CASE /\ HasAged(hash_table[b][k])
           /\ hash_table' = [hash_table EXCEPT ![b] = RemoveAt(@, k)]
           /\ UNCHANGED sweeper
  <2> DEFINE new == RemoveAt(hash_table[b], k)
  <2>1. /\ new \in Seq(Entry) /\ Len(new) = Len(hash_table[b]) - 1
        /\ \A i \in 1..Len(hash_table[b]) - 1 :
             new[i] = IF i < k THEN hash_table[b][i] ELSE hash_table[b][i + 1]
    BY <1>2, <1>3, RemoveAtProperties
  <2>2. hash_table' = [hash_table EXCEPT ![b] = new]
    BY <1>4
  <2> HIDE DEF new
  <2>3. /\ hash_table' \in [Bucket -> Seq(Entry)] /\ hash_table'[b] = new
        /\ OnlyChanges(b)
    BY <1>1, <1>2, <2>1, <2>2 DEF OnlyChanges
  <2>4. Deletes(b, k)
    BY <1>4, <2>1, <2>3 DEF Deletes
  <2> QED BY <1>1, <1>3, <2>3, <2>4
<1>5. CASE ~HasAged(hash_table[b][k]) /\ UNCHANGED hash_table
           /\ sweeper' = [sweeper EXCEPT !.position = k + 1]
  BY <1>1, <1>2, <1>3, <1>5 DEF Passes
<1> QED BY <1>4, <1>5 DEF SweepEntry

\* A second passes: every entry is as it was, and older.
LEMMA TickResult ==
  ASSUME TypeOK, Tick
  PROVE  /\ hash_table' \in [Bucket -> Seq(Entry)]
         /\ \A b \in Bucket :
              /\ Len(hash_table'[b]) = Len(hash_table[b])
              /\ \A i \in 1..Len(hash_table[b]) :
                   /\ hash_table'[b][i].mac = hash_table[b][i].mac
                   /\ hash_table'[b][i].iface = hash_table[b][i].iface
                   /\ hash_table'[b][i].age = hash_table[b][i].age + 1
<1>1. ASSUME NEW b \in Bucket
      PROVE  /\ hash_table'[b] \in Seq(Entry)
             /\ Len(hash_table'[b]) = Len(hash_table[b])
             /\ \A i \in 1..Len(hash_table[b]) :
                  /\ hash_table'[b][i].mac = hash_table[b][i].mac
                  /\ hash_table'[b][i].iface = hash_table[b][i].iface
                  /\ hash_table'[b][i].age = hash_table[b][i].age + 1
  <2> DEFINE s == hash_table[b]
             t == hash_table'[b]
  <2>1. /\ Len(s) \in Nat /\ DOMAIN s = 1..Len(s)
        /\ \A k \in 1..Len(s) : s[k] \in Entry
    BY BucketType
  <2>2. t = [k \in 1..Len(s) |-> [s[k] EXCEPT !.age = @ + 1]]
    BY <2>1 DEF Tick
  <2>3. \A k \in 1..Len(s) : /\ t[k] \in Entry
                             /\ t[k].mac = s[k].mac /\ t[k].iface = s[k].iface
                             /\ t[k].age = s[k].age + 1
    <3> SUFFICES ASSUME NEW k \in 1..Len(s)
                 PROVE  /\ t[k] \in Entry
                        /\ t[k].mac = s[k].mac /\ t[k].iface = s[k].iface
                        /\ t[k].age = s[k].age + 1
      OBVIOUS
    <3> DEFINE e == s[k]
    <3>1. t[k] = [e EXCEPT !.age = e.age + 1]
      BY <2>2
    <3>2. e \in Entry
      BY <2>1
    <3> HIDE DEF e
    <3>3. [e EXCEPT !.age = e.age + 1] = [mac |-> e.mac, iface |-> e.iface, age |-> e.age + 1]
      BY <3>2 DEF Entry
    <3> QED BY <3>1, <3>2, <3>3 DEF Entry, e
  <2>4. t \in [1..Len(s) -> Entry]
    BY <2>2, <2>3
  <2>5. t \in Seq(Entry)
    BY <2>1, <2>4, SeqDef
  <2>6. Len(t) = Len(s)
    BY <2>1, <2>4, <2>5, LenProperties
  <2> QED BY <2>3, <2>5, <2>6
<1>2. hash_table' \in [Bucket -> Seq(Entry)]
  BY <1>1 DEF Tick
<1> QED BY <1>1, <1>2

-----------------------------------------------------------------------------
(***************************************************************************)
(* Types.                                                                  *)
(***************************************************************************)

LEMMA InitIsTyped == Init => TypeOK
<1>1. <<>> \in Seq(Entry)
  BY EmptySeq
<1> QED BY <1>1, HashAssumption DEF Init, TypeOK, Caller, Sweeper, Out, Asleep, Bucket

\* Every step keeps the types.
LEMMA TypeStep ==
  ASSUME TypeOK, [Next]_vars
  PROVE  TypeOK'
<1> USE DEF TypeOK
<1>1. ASSUME NEW m \in Mac, NEW i \in Iface, InsertCall(m, i)
      PROVE  TypeOK'
  <2>1. caller' = [pc |-> "insert", mac |-> m, iface |-> i, lag |-> 0]
    BY <1>1 DEF InsertCall
  <2>2. caller' \in Caller /\ caller'.mac \in Mac /\ caller'.iface \in Iface
    BY <2>1 DEF Caller
  <2> QED BY <1>1, <2>2 DEF InsertCall
<1>2. ASSUME NEW m \in Mac, LookupCall(m)
      PROVE  TypeOK'
  BY <1>2 DEF LookupCall, Caller
<1>3. CASE InsertLock
  BY <1>3 DEF InsertLock, CallerLocks, Caller
<1>4. CASE Insert
  <2>1. hash_table' \in [Bucket -> Seq(Entry)]
    BY <1>4, InsertResult
  <2> QED BY <1>4, <2>1 DEF Insert, CallerUnlocks, Caller, Out
<1>5. CASE LookupLock
  BY <1>5 DEF LookupLock, CallerLocks, Caller
<1>6. CASE Lookup
  <2>1. caller.mac \in Mac /\ Hash[caller.mac] \in Bucket
    BY <1>6, HashAssumption DEF Lookup, Bucket
  <2>2. ASSUME NEW k \in Places(caller.mac)
        PROVE  hash_table[Hash[caller.mac]][k].iface \in Iface
    BY <2>1, BucketType DEF Places, Entry
  <2>3. output' \in Iface \cup {NULL}
    BY <1>6, <2>2 DEF Lookup
  <2> QED BY <1>6, <2>3 DEF Lookup, CallerUnlocks, Caller, Out
<1>7. CASE SweepStart
  <2>1. 0 \in Bucket
    BY HashAssumption DEF Bucket
  <2>2. sweeper' = [pc |-> "waiting", lag |-> 0, bucket |-> 0, position |-> 1]
    BY <1>7 DEF SweepStart, Asleep
  <2>3. sweeper' \in Sweeper
    BY <2>1, <2>2 DEF Sweeper
  <2> QED BY <1>7, <2>3 DEF SweepStart
<1>8. CASE SweepLock
  BY <1>8 DEF SweepLock, Sweeper
<1>9. CASE SweepEntry
  <2>1. hash_table' \in [Bucket -> Seq(Entry)]
    BY <1>9, SweepEntryResult
  <2>2. sweeper' \in Sweeper
    <3>1. sweeper.position + 1 \in Nat \ {0}
      BY DEF Sweeper
    <3>2. UNCHANGED sweeper \/ sweeper' = [sweeper EXCEPT !.position = sweeper.position + 1]
      BY <1>9 DEF SweepEntry
    <3> QED BY <3>1, <3>2 DEF Sweeper
  <2>3. UNCHANGED <<lock, caller, output>>
    BY <1>9 DEF SweepEntry
  <2> QED BY <2>1, <2>2, <2>3
<1>10. CASE SweepBucket
  <2> DEFINE b == sweeper.bucket + 1
  <2>1. b \in Bucket /\ sweeper' = [sweeper EXCEPT !.bucket = b, !.position = 1]
    BY <1>10 DEF SweepBucket
  <2> HIDE DEF b
  <2>2. sweeper' = [pc |-> sweeper.pc, lag |-> sweeper.lag, bucket |-> b, position |-> 1]
    BY <2>1 DEF Sweeper
  <2>3. sweeper' \in Sweeper
    BY <2>1, <2>2 DEF Sweeper
  <2> QED BY <1>10, <2>3 DEF SweepBucket
<1>11. CASE SweepUnlock
  <2>1. 0 \in Bucket
    BY HashAssumption DEF Bucket
  <2>2. sweeper' = [pc |-> "asleep", lag |-> 0, bucket |-> 0, position |-> 1]
    BY <1>11 DEF SweepUnlock, Asleep
  <2>3. sweeper' \in Sweeper
    BY <2>1, <2>2 DEF Sweeper
  <2> QED BY <1>11, <2>3 DEF SweepUnlock
<1>12. CASE Tick
  <2>1. hash_table' \in [Bucket -> Seq(Entry)]
    BY <1>12, TickResult
  <2>2. caller.lag + 1 \in Nat /\ sweeper.lag + 1 \in Nat
    BY DEF Caller, Sweeper
  <2>3. caller' \in Caller /\ caller'.pc = caller.pc
        /\ caller'.mac = caller.mac /\ caller'.iface = caller.iface
    BY <1>12, <2>2 DEF Tick, Caller
  <2>4. sweeper' \in Sweeper
    BY <1>12, <2>2 DEF Tick, Sweeper
  <2> QED BY <1>12, <2>1, <2>3, <2>4 DEF Tick
<1>13. CASE UNCHANGED vars
  BY <1>13 DEF vars
<1> QED BY <1>1, <1>2, <1>3, <1>4, <1>5, <1>6, <1>7, <1>8, <1>9, <1>10, <1>11, <1>12, <1>13
        DEF Next

\* The variables of the table and of both threads stay well typed.
THEOREM TypeCorrect == Spec => []TypeOK
<1>1. Init => TypeOK
  BY InitIsTyped
<1>2. TypeOK /\ [Next]_vars => TypeOK'
  BY TypeStep
<1> QED BY <1>1, <1>2, PTL DEF Spec

-----------------------------------------------------------------------------
(***************************************************************************)
(* The mutex.                                                              *)
(***************************************************************************)

LEMMA MutexStep ==
  ASSUME TypeOK, MutexIsHeldInside, [Next]_vars
  PROVE  MutexIsHeldInside'
<1> USE DEF MutexIsHeldInside
<1>0. /\ caller.pc \in {"out", "insert", "insert_locked", "lookup", "lookup_locked"}
      /\ sweeper.pc \in {"asleep", "waiting", "sweeping"}
  BY DEF TypeOK, Caller, Sweeper
<1>1. ASSUME NEW m \in Mac, NEW i \in Iface, InsertCall(m, i)
      PROVE  MutexIsHeldInside'
  BY <1>1 DEF InsertCall
<1>2. ASSUME NEW m \in Mac, LookupCall(m)
      PROVE  MutexIsHeldInside'
  BY <1>2 DEF LookupCall
<1>3. CASE InsertLock
  <2>1. caller'.pc = "insert_locked"
    BY <1>3 DEF InsertLock, CallerLocks, TypeOK, Caller
  <2> QED BY <1>3, <2>1 DEF InsertLock, CallerLocks
<1>4. CASE Insert
  BY <1>4 DEF Insert, CallerUnlocks, Out
<1>5. CASE LookupLock
  <2>1. caller'.pc = "lookup_locked"
    BY <1>5 DEF LookupLock, CallerLocks, TypeOK, Caller
  <2> QED BY <1>5, <2>1 DEF LookupLock, CallerLocks
<1>6. CASE Lookup
  BY <1>6 DEF Lookup, CallerUnlocks, Out
<1>7. CASE SweepStart
  <2>1. sweeper'.pc = "waiting"
    BY <1>7 DEF SweepStart, Asleep
  <2> QED BY <1>7, <2>1 DEF SweepStart
<1>8. CASE SweepLock
  <2>1. sweeper'.pc = "sweeping"
    BY <1>8 DEF SweepLock, TypeOK, Sweeper
  <2> QED BY <1>8, <2>1 DEF SweepLock
<1>9. CASE SweepEntry
  <2>1. sweeper'.pc = sweeper.pc
    BY <1>9 DEF SweepEntry, TypeOK, Sweeper
  <2> QED BY <1>9, <2>1 DEF SweepEntry
<1>10. CASE SweepBucket
  <2>1. sweeper'.pc = sweeper.pc
    BY <1>10 DEF SweepBucket, TypeOK, Sweeper
  <2> QED BY <1>10, <2>1 DEF SweepBucket
<1>11. CASE SweepUnlock
  BY <1>11 DEF SweepUnlock, AtBucketEnd, Asleep
<1>12. CASE Tick
  <2>1. sweeper'.pc = sweeper.pc /\ caller'.pc = caller.pc
    BY <1>12 DEF Tick, TypeOK, Sweeper, Caller
  <2> QED BY <1>12, <2>1 DEF Tick
<1>13. CASE UNCHANGED vars
  BY <1>13 DEF vars
<1> QED BY <1>1, <1>2, <1>3, <1>4, <1>5, <1>6, <1>7, <1>8, <1>9, <1>10, <1>11, <1>12, <1>13
        DEF Next

\* The mutex is held by the thread that works on the lists, for exactly as
\* long as it does: no return of mac.c keeps it or gives back another's.
THEOREM MutexHeldExactlyInside == Spec => []MutexIsHeldInside
<1>1. Init => MutexIsHeldInside
  BY DEF Init, MutexIsHeldInside, Out, Asleep
<1>2. TypeOK /\ MutexIsHeldInside /\ [Next]_vars => MutexIsHeldInside'
  BY MutexStep
<1> QED BY <1>1, <1>2, TypeCorrect, PTL DEF Spec

-----------------------------------------------------------------------------
(***************************************************************************)
(* The lists.                                                              *)
(***************************************************************************)

\* What changes the lists: the receive loop, the sweeper or time.
LEMMA WhoChangesTheLists ==
  ASSUME [Next]_vars
  PROVE  Insert \/ SweepEntry \/ Tick \/ UNCHANGED hash_table
BY DEF Next, vars, InsertCall, LookupCall, InsertLock, LookupLock, CallerLocks, Lookup,
       SweepStart, SweepLock, SweepBucket, SweepUnlock

\* BucketsAreSound over the places of the lists.
BucketIsSound(b) ==
  \A j, k \in 1..Len(hash_table[b]) :
    /\ Hash[hash_table[b][k].mac] = b
    /\ hash_table[b][j].mac = hash_table[b][k].mac => j = k

\* The buckets are sound exactly if each of them is.
LEMMA BucketsAreSoundByPlace ==
  ASSUME TypeOK
  PROVE  BucketsAreSound <=> \A b \in Bucket : BucketIsSound(b)
<1>1. \A b \in Bucket : DOMAIN hash_table[b] = 1..Len(hash_table[b])
  BY BucketType
<1> QED BY <1>1 DEF BucketsAreSound, BucketIsSound

\* Every step keeps each bucket sound.
LEMMA BucketsStep ==
  ASSUME TypeOK, TypeOK', \A b \in Bucket : BucketIsSound(b), [Next]_vars
  PROVE  \A b \in Bucket : BucketIsSound(b)'
<1> SUFFICES ASSUME NEW b \in Bucket
             PROVE  BucketIsSound(b)'
  OBVIOUS
<1>0. Len(hash_table[b]) \in Nat
  BY BucketType
<1>1. CASE hash_table'[b] = hash_table[b]
  BY <1>1 DEF BucketIsSound
<1>2. CASE Insert
  <2> DEFINE m == caller.mac
  <2>0. Seen.mac = m /\ Hash[m] \in Bucket
    BY <1>2, SeenType DEF Insert
  <2>1. /\ OnlyChanges(Hash[m])
        /\ \/ \E k \in 1..Len(hash_table[Hash[m]]) : Replaces(Hash[m], k)
           \/ Adds(Hash[m])
           \/ UNCHANGED hash_table
    BY <1>2, InsertResult
  <2>2. CASE b # Hash[m]
    BY <1>1, <2>1, <2>2 DEF OnlyChanges
  <2>3. CASE b = Hash[m]
    <3>1. ASSUME NEW k \in 1..Len(hash_table[b]), Replaces(b, k)
          PROVE  BucketIsSound(b)'
      <4>1. /\ Len(hash_table'[b]) = Len(hash_table[b])
            /\ \A i \in 1..Len(hash_table[b]) : hash_table'[b][i].mac = hash_table[b][i].mac
        BY <2>0, <3>1 DEF Replaces
      <4> QED BY <4>1 DEF BucketIsSound
    <3>2. CASE Adds(b)
      <4>1. Len(hash_table'[b]) = Len(hash_table[b]) + 1
        BY <3>2 DEF Adds
      <4>2. \A i \in 1..Len(hash_table[b]) :
              hash_table'[b][i] = hash_table[b][i] /\ hash_table[b][i].mac # m
        BY <3>2 DEF Adds
      <4>3. hash_table'[b][Len(hash_table[b]) + 1].mac = m
        BY <2>0, <3>2 DEF Adds
      <4>4. \A i \in 1..Len(hash_table[b]) + 1 :
              i \in 1..Len(hash_table[b]) \/ i = Len(hash_table[b]) + 1
        BY <1>0
      <4> DEFINE n == Len(hash_table[b])
      <4>5. \A i \in 1..n : Hash[hash_table[b][i].mac] = b
        BY DEF BucketIsSound
      <4>6. \A i, j \in 1..n : hash_table[b][i].mac = hash_table[b][j].mac => i = j
        BY DEF BucketIsSound
      <4>7. \A i \in 1..n + 1 : Hash[hash_table'[b][i].mac] = b
        BY <2>3, <4>2, <4>3, <4>4, <4>5
      <4>8. ASSUME NEW i \in 1..n + 1, NEW j \in 1..n + 1,
                   hash_table'[b][i].mac = hash_table'[b][j].mac
            PROVE  i = j
        <5>1. CASE i \in 1..n /\ j \in 1..n
          BY <4>2, <4>6, <4>8, <5>1
        <5>2. CASE i \in 1..n /\ j = n + 1
          BY <4>2, <4>3, <4>8, <5>2
        <5>3. CASE i = n + 1 /\ j \in 1..n
          BY <4>2, <4>3, <4>8, <5>3
        <5> QED BY <4>4, <5>1, <5>2, <5>3
      <4> QED BY <4>1, <4>7, <4>8 DEF BucketIsSound
    <3> QED BY <1>1, <2>1, <2>3, <3>1, <3>2
  <2> QED BY <2>2, <2>3
<1>3. CASE SweepEntry
  <2> DEFINE c == sweeper.bucket
             k == sweeper.position
  <2>1. c \in Bucket /\ k \in 1..Len(hash_table[c]) /\ (Deletes(c, k) \/ Passes(c, k))
    BY <1>3, SweepEntryResult
  <2>2. CASE Passes(c, k)
    BY <1>1, <2>2 DEF Passes
  <2>3. CASE Deletes(c, k) /\ b # c
    BY <1>1, <2>3 DEF Deletes, OnlyChanges
  <2>4. CASE Deletes(c, k) /\ b = c
    <3> DEFINE old(i) == IF i < k THEN i ELSE i + 1
    <3>1. Len(hash_table'[b]) = Len(hash_table[b]) - 1
      BY <2>4 DEF Deletes
    <3>2. \A i \in 1..Len(hash_table[b]) - 1 :
            hash_table'[b][i] = hash_table[b][old(i)]
      BY <2>4 DEF Deletes
    <3>3. \A i \in 1..Len(hash_table[b]) - 1 : old(i) \in 1..Len(hash_table[b])
      BY <1>0, <2>1
    <3>4. \A i, j \in 1..Len(hash_table[b]) - 1 : old(i) = old(j) => i = j
      BY <1>0, <2>1
    <3> HIDE DEF old
    <3> DEFINE n == Len(hash_table[b])
    <3>5. \A i \in 1..n : Hash[hash_table[b][i].mac] = b
      BY DEF BucketIsSound
    <3>6. \A i, j \in 1..n : hash_table[b][i].mac = hash_table[b][j].mac => i = j
      BY DEF BucketIsSound
    <3>7. \A i \in 1..n - 1 : Hash[hash_table'[b][i].mac] = b
      BY <3>2, <3>3, <3>5
    <3>8. ASSUME NEW i \in 1..n - 1, NEW j \in 1..n - 1,
                 hash_table'[b][i].mac = hash_table'[b][j].mac
          PROVE  i = j
      <4>1. hash_table[b][old(i)].mac = hash_table[b][old(j)].mac
        BY <3>2, <3>8
      <4>2. old(i) = old(j)
        BY <3>3, <3>6, <4>1
      <4> QED BY <3>4, <4>2
    <3> QED BY <3>1, <3>7, <3>8 DEF BucketIsSound
  <2> QED BY <2>1, <2>2, <2>3, <2>4
<1>4. CASE Tick
  <2>1. /\ Len(hash_table'[b]) = Len(hash_table[b])
        /\ \A i \in 1..Len(hash_table[b]) : hash_table'[b][i].mac = hash_table[b][i].mac
    BY <1>4, TickResult
  <2> QED BY <2>1 DEF BucketIsSound
<1> QED BY <1>1, <1>2, <1>3, <1>4, WhoChangesTheLists

\* An address has at most one entry, in the bucket it hashes to, however the
\* receive loop's inserts and the sweeper's removals follow each other.
THEOREM BucketsStaySound == Spec => []BucketsAreSound
<1>1. Init => BucketsAreSound
  <2>1. ASSUME Init, NEW b \in Bucket
        PROVE  DOMAIN hash_table[b] = {}
    BY <2>1 DEF Init
  <2> QED BY <2>1 DEF BucketsAreSound
<1>2. TypeOK /\ TypeOK' /\ BucketsAreSound /\ [Next]_vars => BucketsAreSound'
  <2> SUFFICES ASSUME TypeOK, TypeOK', BucketsAreSound, [Next]_vars
               PROVE  BucketsAreSound'
    OBVIOUS
  <2>1. \A b \in Bucket : BucketIsSound(b)
    BY BucketsAreSoundByPlace
  <2>2. \A b \in Bucket : BucketIsSound(b)'
    BY <2>1, BucketsStep
  <2>3. \A b \in Bucket : DOMAIN hash_table'[b] = 1..Len(hash_table'[b])
    <3> SUFFICES ASSUME NEW b \in Bucket
                 PROVE  DOMAIN hash_table'[b] = 1..Len(hash_table'[b])
      OBVIOUS
    <3>1. hash_table'[b] \in Seq(Entry)
      BY DEF TypeOK
    <3> QED BY <3>1, LenProperties
  <2> QED BY <2>2, <2>3 DEF BucketsAreSound, BucketIsSound
<1> QED BY <1>1, <1>2, TypeCorrect, PTL DEF Spec

-----------------------------------------------------------------------------
(***************************************************************************)
(* Ages.  A sweep leaves behind it entries that had not aged when it began *)
(* (VisitedIsFresh), and nothing is inserted while it lasts; so when it is *)
(* over all entries are that young, and they grow older only by the sleep  *)
(* and by the next sweep (AgesAreBounded).                                 *)
(***************************************************************************)

Timely ==
  /\ Inserting => caller.lag <= MaxDelay
  /\ sweeper.lag <= MaxDelay
  /\ sweeper.pc = "waiting" => sweeper.bucket = 0 /\ sweeper.position = 1

AgeBound == MAC_PORT_TIMEOUT + sweeper.lag
              + (IF sweeper.pc = "asleep" THEN MaxDelay ELSE 2 * MaxDelay)

AgesAreBounded ==
  \A b \in Bucket : \A k \in 1..Len(hash_table[b]) : hash_table[b][k].age <= AgeBound

\* The sweep has passed place k of bucket b.
Visited(b, k) == b < sweeper.bucket \/ (b = sweeper.bucket /\ k < sweeper.position)

VisitedIsFresh ==
  sweeper.pc = "sweeping" =>
    \A b \in Bucket : \A k \in 1..Len(hash_table[b]) :
      Visited(b, k) => hash_table[b][k].age <= MAC_PORT_TIMEOUT + sweeper.lag

\* The numbers of the invariant on ages are numbers.
LEMMA Numbers ==
  ASSUME TypeOK
  PROVE  /\ MAC_PORT_TIMEOUT \in Nat /\ MaxDelay \in Nat /\ MaxDelay >= 1
         /\ caller.lag \in Nat /\ sweeper.lag \in Nat
         /\ sweeper.position \in Nat /\ sweeper.position >= 1 /\ sweeper.bucket \in Bucket
         /\ AgeBound \in Nat /\ AgeBound >= MaxDelay
         /\ Bucket \subseteq Nat
         /\ \A b \in Bucket : /\ Len(hash_table[b]) \in Nat
                              /\ \A k \in 1..Len(hash_table[b]) : hash_table[b][k].age \in Nat
<1>1. /\ MAC_PORT_TIMEOUT \in Nat /\ MaxDelay \in Nat /\ MaxDelay >= 1
      /\ caller.lag \in Nat /\ sweeper.lag \in Nat
      /\ sweeper.position \in Nat /\ sweeper.position >= 1 /\ sweeper.bucket \in Bucket
  BY TimeAssumption DEF TypeOK, Caller, Sweeper
<1>2. AgeBound \in Nat /\ AgeBound >= MaxDelay
  BY <1>1 DEF AgeBound
<1>3. Bucket \subseteq Nat
  BY HashAssumption DEF Bucket
<1>4. \A b \in Bucket : /\ Len(hash_table[b]) \in Nat
                        /\ \A k \in 1..Len(hash_table[b]) : hash_table[b][k].age \in Nat
  BY BucketType DEF Entry
<1> QED BY <1>1, <1>2, <1>3, <1>4

\* Every step keeps the delays of both threads within the limit.
LEMMA TimelyStep ==
  ASSUME TypeOK, Timely, [Next]_vars
  PROVE  Timely'
<1> USE DEF Timely
<1>0. MaxDelay \in Nat /\ caller.lag \in Nat /\ sweeper.lag \in Nat
  BY Numbers
<1>1. ASSUME NEW m \in Mac, NEW i \in Iface, InsertCall(m, i)
      PROVE  Timely'
  BY <1>0, <1>1 DEF InsertCall, Inserting
<1>2. ASSUME NEW m \in Mac, LookupCall(m)
      PROVE  Timely'
  BY <1>0, <1>2 DEF LookupCall, Inserting
<1>3. CASE InsertLock
  <2>1. caller'.lag = caller.lag /\ Inserting /\ UNCHANGED sweeper
    BY <1>3 DEF InsertLock, CallerLocks, TypeOK, Caller, Inserting
  <2> QED BY <2>1
<1>4. CASE Insert
  BY <1>4 DEF Insert, CallerUnlocks, Out, Inserting
<1>5. CASE LookupLock
  <2>1. ~Inserting' /\ UNCHANGED sweeper
    BY <1>5 DEF LookupLock, CallerLocks, TypeOK, Caller, Inserting
  <2> QED BY <2>1
<1>6. CASE Lookup
  BY <1>6 DEF Lookup, CallerUnlocks, Out, Inserting
<1>7. CASE SweepStart
  <2>1. sweeper' = [pc |-> "waiting", lag |-> 0, bucket |-> 0, position |-> 1]
    BY <1>7 DEF SweepStart, Asleep
  <2> QED BY <1>0, <1>7, <2>1 DEF SweepStart, Inserting
<1>8. CASE SweepLock
  <2>1. sweeper'.pc = "sweeping" /\ sweeper'.lag = sweeper.lag
    BY <1>8 DEF SweepLock, TypeOK, Sweeper
  <2> QED BY <1>8, <2>1 DEF SweepLock, Inserting
<1>9. CASE SweepEntry
  <2>1. sweeper'.pc = "sweeping" /\ sweeper'.lag = sweeper.lag
    BY <1>9 DEF SweepEntry, TypeOK, Sweeper
  <2> QED BY <1>9, <2>1 DEF SweepEntry, Inserting
<1>10. CASE SweepBucket
  <2>1. sweeper'.pc = "sweeping" /\ sweeper'.lag = sweeper.lag
    BY <1>10 DEF SweepBucket, AtBucketEnd, TypeOK, Sweeper
  <2> QED BY <1>10, <2>1 DEF SweepBucket, Inserting
<1>11. CASE SweepUnlock
  BY <1>0, <1>11 DEF SweepUnlock, Asleep, Inserting
<1>12. CASE Tick
  <2>1. /\ sweeper'.pc = sweeper.pc /\ sweeper'.lag = sweeper.lag + 1
        /\ sweeper'.bucket = sweeper.bucket /\ sweeper'.position = sweeper.position
    BY <1>12 DEF Tick, TypeOK, Sweeper
  <2>2. /\ caller'.pc = caller.pc
        /\ Inserting => caller'.lag = caller.lag + 1
    BY <1>12 DEF Tick, TypeOK, Caller
  <2>3. sweeper.lag < MaxDelay /\ (Inserting => caller.lag < MaxDelay)
    BY <1>12 DEF Tick
  <2> QED BY <1>0, <2>1, <2>2, <2>3 DEF Inserting
<1>13. CASE UNCHANGED vars
  BY <1>13 DEF vars, Inserting
<1> QED BY <1>1, <1>2, <1>3, <1>4, <1>5, <1>6, <1>7, <1>8, <1>9, <1>10, <1>11, <1>12, <1>13
        DEF Next

\* Where the entries an insert leaves come from: they were there, or it has
\* seen them just now.
LEMMA InsertedAges ==
  ASSUME TypeOK, Timely, Insert, NEW b \in Bucket, NEW k \in 1..Len(hash_table'[b])
  PROVE  \/ k \in 1..Len(hash_table[b]) /\ hash_table'[b][k] = hash_table[b][k]
         \/ hash_table'[b][k].age <= MaxDelay
<1> DEFINE c == Hash[caller.mac]
<1>1. c \in Bucket /\ Seen.age = caller.lag /\ caller.lag <= MaxDelay
  BY SeenType DEF Insert, Timely, Inserting
<1>2. /\ OnlyChanges(c)
      /\ (\E j \in 1..Len(hash_table[c]) : Replaces(c, j)) \/ Adds(c) \/ UNCHANGED hash_table
  BY InsertResult
<1>3. CASE b # c \/ UNCHANGED hash_table
  BY <1>2, <1>3 DEF OnlyChanges
<1>4. ASSUME b = c, NEW j \in 1..Len(hash_table[c]), Replaces(c, j)
      PROVE  \/ k \in 1..Len(hash_table[b]) /\ hash_table'[b][k] = hash_table[b][k]
             \/ hash_table'[b][k].age <= MaxDelay
  BY <1>1, <1>4 DEF Replaces
<1>5. CASE b = c /\ Adds(c)
  <2>1. Len(hash_table[b]) \in Nat
    BY Numbers
  <2>2. Len(hash_table'[b]) = Len(hash_table[b]) + 1
    BY <1>5 DEF Adds
  <2>3. k \in 1..Len(hash_table[b]) \/ k = Len(hash_table[b]) + 1
    BY <2>1, <2>2
  <2> QED BY <1>1, <1>5, <2>3 DEF Adds
<1> QED BY <1>2, <1>3, <1>4, <1>5

\* Every step keeps the bounds on the ages.
LEMMA AgesStep ==
  ASSUME TypeOK, MutexIsHeldInside, Timely, AgesAreBounded, VisitedIsFresh, [Next]_vars
  PROVE  AgesAreBounded' /\ VisitedIsFresh'
<1> DEFINE T == MAC_PORT_TIMEOUT
           D == MaxDelay
           age(b, k) == hash_table[b][k].age
<1>0. /\ T \in Nat /\ D \in Nat /\ D >= 1
      /\ sweeper.lag \in Nat /\ sweeper.lag <= D
      /\ sweeper.position \in Nat /\ sweeper.position >= 1 /\ sweeper.bucket \in Nat
      /\ \A b \in Bucket : b \in Nat /\ Len(hash_table[b]) \in Nat
      /\ \A b \in Bucket : \A k \in 1..Len(hash_table[b]) : age(b, k) \in Nat
  BY Numbers DEF Timely
<1>1. CASE UNCHANGED <<hash_table, sweeper>>
  BY <1>1 DEF AgesAreBounded, VisitedIsFresh, AgeBound, Visited
<1>2. CASE Insert
  <2>1. sweeper.pc # "sweeping" /\ UNCHANGED sweeper
    BY <1>2 DEF Insert, MutexIsHeldInside
  <2>2. AgeBound' = AgeBound /\ AgeBound >= D /\ AgeBound \in Nat
    BY <2>1, Numbers DEF AgeBound
  <2>3. ASSUME NEW b \in Bucket, NEW k \in 1..Len(hash_table'[b])
        PROVE  hash_table'[b][k].age <= AgeBound'
    <3>1. CASE k \in 1..Len(hash_table[b]) /\ hash_table'[b][k] = hash_table[b][k]
      BY <2>2, <3>1 DEF AgesAreBounded
    <3>2. CASE hash_table'[b][k].age <= D
      <4>1. hash_table'[b][k].age \in Nat
        <5>1. hash_table' \in [Bucket -> Seq(Entry)]
          BY <1>2, InsertResult
        <5>2. hash_table'[b] \in Seq(Entry)
          BY <5>1
        <5>3. hash_table'[b][k] \in Entry
          BY <5>2, ElementOfSeq
        <5> QED BY <5>3 DEF Entry
      <4> QED BY <1>0, <2>2, <3>2, <4>1
    <3> QED BY <1>2, <3>1, <3>2, InsertedAges
  <2> QED BY <2>1, <2>3 DEF AgesAreBounded, VisitedIsFresh
<1>3. CASE SweepStart
  <2>1. /\ sweeper.pc = "asleep" /\ UNCHANGED hash_table
        /\ sweeper'.pc = "waiting" /\ sweeper'.lag = 0
    BY <1>3 DEF SweepStart, Asleep
  <2>2. AgeBound = T + sweeper.lag + D /\ AgeBound' = T + 0 + 2 * D
    BY <2>1 DEF AgeBound
  <2>3. \A b \in Bucket : \A k \in 1..Len(hash_table[b]) : age(b, k) <= AgeBound'
    BY <1>0, <2>2 DEF AgesAreBounded
  <2> QED BY <2>1, <2>3 DEF AgesAreBounded, VisitedIsFresh
<1>4. CASE SweepLock
  <2>1. /\ sweeper.pc = "waiting" /\ UNCHANGED hash_table
        /\ sweeper' = [sweeper EXCEPT !.pc = "sweeping"]
    BY <1>4 DEF SweepLock
  <2>2. /\ sweeper'.pc = "sweeping" /\ sweeper'.lag = sweeper.lag
        /\ sweeper'.bucket = 0 /\ sweeper'.position = 1
    BY <2>1 DEF TypeOK, Sweeper, Timely
  <2>3. AgeBound' = AgeBound
    BY <2>1, <2>2 DEF AgeBound
  <2>4. \A b \in Bucket : \A k \in 1..Len(hash_table[b]) : ~Visited(b, k)'
    BY <1>0, <2>2 DEF Visited
  <2> QED BY <2>1, <2>3, <2>4 DEF AgesAreBounded, VisitedIsFresh
<1>5. CASE SweepEntry
  <2> DEFINE c == sweeper.bucket
             p == sweeper.position
  <2>1. /\ c \in Bucket /\ p \in 1..Len(hash_table[c])
        /\ Deletes(c, p) \/ Passes(c, p)
    BY <1>5, SweepEntryResult
  <2>2. sweeper.pc = "sweeping"
    BY <1>5 DEF SweepEntry
  <2>3. CASE Deletes(c, p)
    <3>1. ASSUME NEW b \in Bucket, NEW k \in 1..Len(hash_table'[b])
          PROVE  \E i \in 1..Len(hash_table[b]) :
                   /\ hash_table'[b][k] = hash_table[b][i]
                   /\ Visited(b, k) => Visited(b, i)
      <4>1. CASE b # c
        BY <2>3, <4>1 DEF Deletes, OnlyChanges
      <4>2. CASE b = c
        <5>1. Len(hash_table'[b]) = Len(hash_table[b]) - 1
          BY <2>3, <4>2 DEF Deletes
        <5>2. k \in 1..Len(hash_table[b]) - 1
          BY <5>1
        <5>3. k \in 1..Len(hash_table[b]) /\ k + 1 \in 1..Len(hash_table[b])
          BY <1>0, <5>2
        <5>4. CASE k < p
          <6>1. hash_table'[b][k] = hash_table[b][k]
            BY <2>3, <4>2, <5>2, <5>4 DEF Deletes
          <6> QED BY <5>3, <6>1
        <5>5. CASE ~(k < p)
          <6>1. hash_table'[b][k] = hash_table[b][k + 1]
            BY <2>3, <4>2, <5>2, <5>5 DEF Deletes
          <6>2. ~Visited(b, k)
            BY <1>0, <4>2, <5>5 DEF Visited
          <6> QED BY <5>3, <6>1, <6>2
        <5> QED BY <5>4, <5>5
      <4> QED BY <4>1, <4>2
    <3>2. UNCHANGED sweeper
      BY <2>3 DEF Deletes
    <3>3. AgeBound' = AgeBound /\ \A b, k : Visited(b, k)' <=> Visited(b, k)
      BY <3>2 DEF AgeBound, Visited
    <3>4. AgesAreBounded'
      BY <3>1, <3>3 DEF AgesAreBounded
    <3>5. VisitedIsFresh'
      BY <2>2, <3>1, <3>2, <3>3 DEF VisitedIsFresh
    <3> QED BY <3>4, <3>5
  <2>4. CASE Passes(c, p)
    <3>1. /\ UNCHANGED hash_table
          /\ sweeper' = [sweeper EXCEPT !.position = p + 1]
          /\ ~(age(c, p) - sweeper.lag > T)
      BY <2>4 DEF Passes, HasAged
    <3>2. sweeper'.pc = sweeper.pc /\ sweeper'.lag = sweeper.lag
          /\ sweeper'.bucket = c /\ sweeper'.position = p + 1
      BY <3>1 DEF TypeOK, Sweeper
    <3>3. AgeBound' = AgeBound
      BY <3>2 DEF AgeBound
    <3>4. ASSUME NEW b \in Bucket, NEW k \in 1..Len(hash_table[b]), Visited(b, k)'
          PROVE  age(b, k) <= T + sweeper.lag
      <4>1. Visited(b, k) \/ (b = c /\ k = p)
        BY <1>0, <3>2, <3>4 DEF Visited
      <4>2. age(c, p) <= T + sweeper.lag
        BY <1>0, <2>1, <3>1, SMTT(30)
      <4> QED BY <2>2, <4>1, <4>2 DEF VisitedIsFresh
    <3> QED BY <3>1, <3>2, <3>3, <3>4 DEF AgesAreBounded, VisitedIsFresh
  <2> QED BY <2>1, <2>3, <2>4
<1>6. CASE SweepBucket
  <2> DEFINE c == sweeper.bucket
  <2>1. /\ AtBucketEnd /\ UNCHANGED hash_table
        /\ sweeper'.pc = sweeper.pc /\ sweeper'.lag = sweeper.lag
        /\ sweeper'.bucket = c + 1 /\ sweeper'.position = 1
    BY <1>6 DEF SweepBucket, TypeOK, Sweeper
  <2>2. AgeBound' = AgeBound
    BY <2>1 DEF AgeBound
  <2>3. sweeper.pc = "sweeping" /\ sweeper.position \notin 1..Len(hash_table[c])
    BY <2>1, BucketType DEF AtBucketEnd, TypeOK, Sweeper
  <2>4. ASSUME NEW b \in Bucket, NEW k \in 1..Len(hash_table[b]), Visited(b, k)'
        PROVE  Visited(b, k)
    BY <1>0, <2>1, <2>3, <2>4 DEF Visited
  <2> QED BY <2>1, <2>2, <2>3, <2>4 DEF AgesAreBounded, VisitedIsFresh
<1>7. CASE SweepUnlock
  <2> DEFINE c == sweeper.bucket
  <2>1. /\ AtBucketEnd /\ c + 1 \notin Bucket /\ UNCHANGED hash_table
        /\ sweeper'.pc = "asleep" /\ sweeper'.lag = 0
    BY <1>7 DEF SweepUnlock, Asleep
  <2>2. sweeper.pc = "sweeping" /\ sweeper.position \notin 1..Len(hash_table[c])
    BY <2>1, BucketType DEF AtBucketEnd, TypeOK, Sweeper
  <2>3. ASSUME NEW b \in Bucket, NEW k \in 1..Len(hash_table[b])
        PROVE  Visited(b, k)
    <3>1. b <= c
      BY <2>1, HashAssumption, Numbers DEF Bucket
    <3> QED BY <1>0, <2>2, <3>1 DEF Visited
  <2>4. AgeBound' = T + 0 + D
    BY <2>1 DEF AgeBound
  <2>5. \A b \in Bucket : \A k \in 1..Len(hash_table[b]) : age(b, k) <= T + sweeper.lag
    BY <2>2, <2>3 DEF VisitedIsFresh
  <2>6. \A b \in Bucket : \A k \in 1..Len(hash_table[b]) : age(b, k) <= AgeBound'
    BY <1>0, <2>4, <2>5
  <2> QED BY <2>1, <2>6 DEF AgesAreBounded, VisitedIsFresh
<1>8. CASE Tick
  <2>1. /\ sweeper'.pc = sweeper.pc /\ sweeper'.lag = sweeper.lag + 1
        /\ sweeper'.bucket = sweeper.bucket /\ sweeper'.position = sweeper.position
    BY <1>8 DEF Tick, TypeOK, Sweeper
  <2>2. AgeBound \in Nat /\ AgeBound' = AgeBound + 1
    BY <1>0, <2>1, Numbers DEF AgeBound
  <2>3. \A b, k : Visited(b, k)' <=> Visited(b, k)
    BY <2>1 DEF Visited
  <2>4. \A b \in Bucket :
          /\ Len(hash_table'[b]) = Len(hash_table[b])
          /\ \A k \in 1..Len(hash_table[b]) : hash_table'[b][k].age = age(b, k) + 1
    BY <1>8, TickResult
  <2>5. ASSUME NEW b \in Bucket, NEW k \in 1..Len(hash_table'[b])
        PROVE  hash_table'[b][k].age <= AgeBound'
    <3>1. k \in 1..Len(hash_table[b]) /\ hash_table'[b][k].age = age(b, k) + 1
      BY <2>4
    <3>2. age(b, k) \in Nat /\ age(b, k) <= AgeBound
      BY <1>0, <3>1 DEF AgesAreBounded
    <3> HIDE DEF age
    <3> QED BY <2>2, <3>1, <3>2
  <2>6. VisitedIsFresh'
    BY <1>0, <2>1, <2>3, <2>4, SMTT(30) DEF VisitedIsFresh
  <2> QED BY <2>5, <2>6 DEF AgesAreBounded
<1>9. \/ Insert \/ SweepStart \/ SweepLock \/ SweepEntry \/ SweepBucket \/ SweepUnlock \/ Tick
      \/ UNCHANGED <<hash_table, sweeper>>
  BY DEF Next, vars, InsertCall, LookupCall, InsertLock, LookupLock, CallerLocks, Lookup
<1> QED BY <1>1, <1>2, <1>3, <1>4, <1>5, <1>6, <1>7, <1>8, <1>9

\* Nothing is in the table at the start.
LEMMA AgesStart == Init => Timely /\ AgesAreBounded /\ VisitedIsFresh
<1> SUFFICES ASSUME Init
             PROVE  Timely /\ AgesAreBounded /\ VisitedIsFresh
  OBVIOUS
<1>1. \A b \in Bucket : Len(hash_table[b]) = 0
  BY LenProperties, EmptySeq DEF Init
<1>2. \A b \in Bucket : 1..Len(hash_table[b]) = {}
  BY <1>1
<1>3. Timely
  BY TimeAssumption DEF Init, Timely, Out, Asleep, Inserting
<1> QED BY <1>2, <1>3 DEF AgesAreBounded, VisitedIsFresh

\* The bound that goes with the sweeper is within the one that does not.
LEMMA AgesKeepLimit ==
  ASSUME TypeOK, Timely, AgesAreBounded
  PROVE  NothingOutlivesTheLimit
<1> SUFFICES ASSUME NEW b \in Bucket, NEW k \in DOMAIN hash_table[b]
             PROVE  hash_table[b][k].age <= Limit
  BY DEF NothingOutlivesTheLimit
<1>1. k \in 1..Len(hash_table[b])
  BY BucketType
<1>2. hash_table[b][k].age \in Nat /\ AgeBound \in Nat /\ sweeper.lag \in Nat
      /\ MAC_PORT_TIMEOUT \in Nat /\ MaxDelay \in Nat
  BY <1>1, Numbers
<1>3. AgeBound <= Limit
  BY <1>2 DEF AgeBound, Limit, Timely
<1>4. hash_table[b][k].age <= AgeBound
  BY <1>1 DEF AgesAreBounded
<1> QED BY <1>2, <1>3, <1>4 DEF Limit

\* Whenever the two threads read the clock and get the mutex, the ages stay
\* in these bounds; what a sweep has passed is as young as it must be.
THEOREM AgesStayBounded == Spec => [](Timely /\ AgesAreBounded /\ VisitedIsFresh)
<1> DEFINE IInv == Timely /\ AgesAreBounded /\ VisitedIsFresh
<1>1. Init => IInv
  BY AgesStart
<1>2. TypeOK /\ MutexIsHeldInside /\ IInv /\ [Next]_vars => IInv'
  BY TimelyStep, AgesStep
<1> QED BY <1>1, <1>2, TypeCorrect, MutexHeldExactlyInside, PTL DEF Spec

\* No entry outlives its timeout by more than three delays: a sleep, the
\* sweep before it and the one after it.
THEOREM NothingGetsTooOld == Spec => []NothingOutlivesTheLimit
<1>1. TypeOK /\ Timely /\ AgesAreBounded => NothingOutlivesTheLimit
  BY AgesKeepLimit
<1> QED BY <1>1, TypeCorrect, AgesStayBounded, PTL

-----------------------------------------------------------------------------
(***************************************************************************)
(* The table as a ForwardingTable.  What it knows of an address is read    *)
(* off the set of entries for the address, which has at most one member;   *)
(* lists are given as h, so that the facts hold before and after a step.   *)
(***************************************************************************)

PlacesIn(h, m) == {k \in DOMAIN h[Hash[m]] : h[Hash[m]][k].mac = m}

EntriesIn(h, m) == {h[Hash[m]][k] : k \in PlacesIn(h, m)}

FoundIn(h, m, k) == k \in PlacesIn(h, m) /\ \A j \in PlacesIn(h, m) : k <= j

FirstIn(h, m) == h[Hash[m]][CHOOSE k \in PlacesIn(h, m) : FoundIn(h, m, k)]

PortIn(h, m) == IF PlacesIn(h, m) = {} THEN NULL ELSE FirstIn(h, m).iface

AgeIn(h, m) == IF PlacesIn(h, m) = {} THEN 0 ELSE FirstIn(h, m).age

OnePlaceEach(h) ==
  \A b \in Bucket : \A j, k \in DOMAIN h[b] : h[b][j].mac = h[b][k].mac => j = k

\* The table knows of an address what its only entry says, or nothing.
LEMMA KnownOf ==
  ASSUME NEW h \in [Bucket -> Seq(Entry)], OnePlaceEach(h), NEW m \in Mac
  PROVE  \/ EntriesIn(h, m) = {} /\ PortIn(h, m) = NULL /\ AgeIn(h, m) = 0
         \/ \E e \in Entry : /\ EntriesIn(h, m) = {e} /\ e.mac = m
                             /\ PortIn(h, m) = e.iface /\ AgeIn(h, m) = e.age
<1> DEFINE b == Hash[m]
<1>1. b \in Bucket
  BY HashAssumption DEF Bucket
<1>2. h[b] \in Seq(Entry) /\ DOMAIN h[b] = 1..Len(h[b]) /\ Len(h[b]) \in Nat
  BY <1>1, LenProperties
<1>3. CASE PlacesIn(h, m) = {}
  BY <1>3 DEF EntriesIn, PortIn, AgeIn
<1>4. CASE PlacesIn(h, m) # {}
  <2>1. PICK k \in PlacesIn(h, m) : TRUE
    BY <1>4
  <2>2. k \in 1..Len(h[b]) /\ h[b][k] \in Entry /\ h[b][k].mac = m
    BY <1>2, <2>1, ElementOfSeq DEF PlacesIn
  <2>3. PlacesIn(h, m) = {k}
    BY <1>1, <2>1 DEF PlacesIn, OnePlaceEach
  <2>4. EntriesIn(h, m) = {h[b][k]}
    BY <2>3 DEF EntriesIn
  <2>5. (CHOOSE i \in PlacesIn(h, m) : FoundIn(h, m, i)) = k
    BY <2>2, <2>3 DEF FoundIn
  <2>6. FirstIn(h, m) = h[b][k]
    BY <2>5 DEF FirstIn
  <2> QED BY <1>4, <2>2, <2>4, <2>6 DEF PortIn, AgeIn
<1> QED BY <1>3, <1>4

\* What is known of an address with an entry.
LEMMA KnownEntry ==
  ASSUME NEW h \in [Bucket -> Seq(Entry)], OnePlaceEach(h), NEW m \in Mac,
         NEW e, EntriesIn(h, m) = {e}
  PROVE  PortIn(h, m) = e.iface /\ AgeIn(h, m) = e.age
<1>1. \E d \in Entry : /\ EntriesIn(h, m) = {d}
                       /\ PortIn(h, m) = d.iface /\ AgeIn(h, m) = d.age
  BY KnownOf
<1> QED BY <1>1

\* What is known of an address without one.
LEMMA UnknownEntry ==
  ASSUME NEW h \in [Bucket -> Seq(Entry)], OnePlaceEach(h), NEW m \in Mac,
         EntriesIn(h, m) = {}
  PROVE  PortIn(h, m) = NULL /\ AgeIn(h, m) = 0
BY KnownOf

\* What the table knows is determined by the entries for the address.
LEMMA KnownAlike ==
  ASSUME NEW g \in [Bucket -> Seq(Entry)], OnePlaceEach(g),
         NEW h \in [Bucket -> Seq(Entry)], OnePlaceEach(h),
         NEW m \in Mac, EntriesIn(g, m) = EntriesIn(h, m)
  PROVE  PortIn(g, m) = PortIn(h, m) /\ AgeIn(g, m) = AgeIn(h, m)
<1>1. \/ EntriesIn(g, m) = {} /\ PortIn(g, m) = NULL /\ AgeIn(g, m) = 0
      \/ \E e \in Entry : /\ EntriesIn(g, m) = {e} /\ e.mac = m
                          /\ PortIn(g, m) = e.iface /\ AgeIn(g, m) = e.age
  BY KnownOf
<1>2. \/ EntriesIn(h, m) = {} /\ PortIn(h, m) = NULL /\ AgeIn(h, m) = 0
      \/ \E e \in Entry : /\ EntriesIn(h, m) = {e} /\ e.mac = m
                          /\ PortIn(h, m) = e.iface /\ AgeIn(h, m) = e.age
  BY KnownOf
<1> QED BY <1>1, <1>2

\* If both lists hold the same entries for an address, its set is the same.
LEMMA EntriesAlike ==
  ASSUME NEW g, NEW h, NEW m,
         \A k \in PlacesIn(g, m) : \E j \in PlacesIn(h, m) : h[Hash[m]][j] = g[Hash[m]][k],
         \A j \in PlacesIn(h, m) : \E k \in PlacesIn(g, m) : h[Hash[m]][j] = g[Hash[m]][k]
  PROVE  EntriesIn(g, m) = EntriesIn(h, m)
BY DEF EntriesIn

\* The set of an address whose bucket has the places of a list.
LEMMA PlacesByNumber ==
  ASSUME NEW h \in [Bucket -> Seq(Entry)], NEW m \in Mac
  PROVE  /\ Hash[m] \in Bucket
         /\ Len(h[Hash[m]]) \in Nat
         /\ PlacesIn(h, m) = {k \in 1..Len(h[Hash[m]]) : h[Hash[m]][k].mac = m}
<1>1. Hash[m] \in Bucket
  BY HashAssumption DEF Bucket
<1>2. h[Hash[m]] \in Seq(Entry)
  BY <1>1
<1> QED BY <1>1, <1>2, LenProperties DEF PlacesIn

\* An insert leaves one entry for its address, what it has seen, and those of
\* the others.
LEMMA InsertLearns ==
  ASSUME TypeOK, Insert, OnePlaceEach(hash_table), ~UNCHANGED hash_table
  PROVE  /\ EntriesIn(hash_table', caller.mac) = {Seen}
         /\ \A m \in Mac \ {caller.mac} : EntriesIn(hash_table', m) = EntriesIn(hash_table, m)
<1> DEFINE m0 == caller.mac
           b == Hash[m0]
           n == Len(hash_table[b])
<1>0. /\ Seen.mac = m0 /\ m0 \in Mac /\ b \in Bucket /\ n \in Nat
      /\ hash_table \in [Bucket -> Seq(Entry)]
  BY SeenType, BucketType DEF Insert, TypeOK
<1>1. /\ hash_table' \in [Bucket -> Seq(Entry)]
      /\ OnlyChanges(b)
      /\ (\E k \in 1..n : Replaces(b, k)) \/ Adds(b)
  BY InsertResult
<1>2. ASSUME NEW m \in Mac
      PROVE  /\ PlacesIn(hash_table, m) =
                  {k \in 1..Len(hash_table[Hash[m]]) : hash_table[Hash[m]][k].mac = m}
             /\ PlacesIn(hash_table', m) =
                  {k \in 1..Len(hash_table'[Hash[m]]) : hash_table'[Hash[m]][k].mac = m}
  BY <1>0, <1>1, PlacesByNumber
<1>3. ASSUME NEW m \in Mac, Hash[m] # b
      PROVE  EntriesIn(hash_table', m) = EntriesIn(hash_table, m)
  <2>1. Hash[m] \in Bucket /\ hash_table'[Hash[m]] = hash_table[Hash[m]]
    BY <1>0, <1>1, <1>3, PlacesByNumber DEF OnlyChanges
  <2> QED BY <2>1 DEF EntriesIn, PlacesIn
<1>4. ASSUME NEW k \in 1..n, Replaces(b, k)
      PROVE  /\ EntriesIn(hash_table', m0) = {Seen}
             /\ \A m \in Mac \ {m0} : EntriesIn(hash_table', m) = EntriesIn(hash_table, m)
  <2>1. /\ hash_table[b][k].mac = m0 /\ Len(hash_table'[b]) = n
        /\ \A i \in 1..n : hash_table'[b][i] = IF i = k THEN Seen ELSE hash_table[b][i]
    BY <1>4 DEF Replaces
  <2>2. DOMAIN hash_table[b] = 1..n
    BY <1>0, BucketType
  <2>3. \A i \in 1..n : hash_table[b][i].mac = m0 => i = k
    BY <1>0, <2>1, <2>2 DEF OnePlaceEach
  <2>4. PlacesIn(hash_table', m0) = {k}
    BY <1>0, <1>2, <2>1, <2>3
  <2>5. EntriesIn(hash_table', m0) = {Seen}
    BY <2>1, <2>4 DEF EntriesIn
  <2>6. ASSUME NEW m \in Mac, m # m0, Hash[m] = b
        PROVE  EntriesIn(hash_table', m) = EntriesIn(hash_table, m)
    <3>1. \A i \in 1..n : (hash_table[b][i].mac = m \/ hash_table'[b][i].mac = m)
                            => hash_table'[b][i] = hash_table[b][i]
      BY <1>0, <2>1, <2>6
    <3>2. /\ PlacesIn(hash_table, m) = {i \in 1..n : hash_table[b][i].mac = m}
          /\ PlacesIn(hash_table', m) = {i \in 1..n : hash_table'[b][i].mac = m}
      BY <1>2, <2>1, <2>6
    <3>3. PlacesIn(hash_table', m) = PlacesIn(hash_table, m)
      BY <3>1, <3>2
    <3>4. \A i \in PlacesIn(hash_table, m) : hash_table'[Hash[m]][i] = hash_table[Hash[m]][i]
      BY <2>6, <3>1, <3>2
    <3> QED BY <3>3, <3>4 DEF EntriesIn
  <2> QED BY <1>3, <2>5, <2>6
<1>5. CASE Adds(b)
  <2>1. /\ \A i \in 1..n : hash_table[b][i].mac # m0 /\ hash_table'[b][i] = hash_table[b][i]
        /\ Len(hash_table'[b]) = n + 1
        /\ hash_table'[b][n + 1] = Seen
    BY <1>5 DEF Adds
  <2>2. \A i : i \in 1..n + 1 <=> i \in 1..n \/ i = n + 1
    BY <1>0
  <2>3. PlacesIn(hash_table', m0) = {i \in 1..n + 1 : hash_table'[b][i].mac = m0}
    BY <1>0, <1>2, <2>1
  <2>4. PlacesIn(hash_table', m0) = {n + 1}
    <3>1. \A i \in 1..n : hash_table'[b][i].mac # m0
      BY <2>1
    <3>2. hash_table'[b][n + 1].mac = m0
      BY <1>0, <2>1
    <3> QED BY <2>2, <2>3, <3>1, <3>2
  <2>5. EntriesIn(hash_table', m0) = {Seen}
    BY <2>1, <2>4 DEF EntriesIn
  <2>6. ASSUME NEW m \in Mac, m # m0, Hash[m] = b
        PROVE  EntriesIn(hash_table', m) = EntriesIn(hash_table, m)
    <3>1. /\ PlacesIn(hash_table, m) = {i \in 1..n : hash_table[b][i].mac = m}
          /\ PlacesIn(hash_table', m) = {i \in 1..n + 1 : hash_table'[b][i].mac = m}
      BY <1>2, <2>1, <2>6
    <3>2. hash_table'[b][n + 1].mac # m
      BY <1>0, <2>1, <2>6
    <3>3. PlacesIn(hash_table', m) = PlacesIn(hash_table, m)
      BY <2>1, <2>2, <3>1, <3>2
    <3>4. \A i \in PlacesIn(hash_table, m) : hash_table'[Hash[m]][i] = hash_table[Hash[m]][i]
      BY <2>1, <2>6, <3>1
    <3> QED BY <3>3, <3>4 DEF EntriesIn
  <2> QED BY <1>3, <2>5, <2>6
<1> QED BY <1>1, <1>4, <1>5

\* A deletion leaves no entry for the address, and those of the others.
LEMMA DeleteForgets ==
  ASSUME TypeOK, SweepEntry, BucketsAreSound, ~UNCHANGED hash_table
  PROVE  \E e \in Entry :
           /\ EntriesIn(hash_table, e.mac) = {e}
           /\ e.age > MAC_PORT_TIMEOUT
           /\ EntriesIn(hash_table', e.mac) = {}
           /\ \A m \in Mac \ {e.mac} : EntriesIn(hash_table', m) = EntriesIn(hash_table, m)
<1> DEFINE b == sweeper.bucket
           p == sweeper.position
           n == Len(hash_table[b])
           e == hash_table[b][p]
           old(i) == IF i < p THEN i ELSE i + 1
<1>1. /\ hash_table' \in [Bucket -> Seq(Entry)]
      /\ b \in Bucket /\ p \in 1..n
      /\ Deletes(b, p)
  BY SweepEntryResult DEF Passes
<1>2. /\ hash_table \in [Bucket -> Seq(Entry)] /\ n \in Nat /\ DOMAIN hash_table[b] = 1..n
      /\ e \in Entry /\ e.mac \in Mac
  BY <1>1, BucketType DEF TypeOK, Entry
<1>3. e.age > MAC_PORT_TIMEOUT
  <2>1. e.age \in Nat /\ sweeper.lag \in Nat /\ MAC_PORT_TIMEOUT \in Nat
    BY <1>1, Numbers
  <2> QED BY <1>1, <2>1 DEF Deletes, HasAged
<1>4. Len(hash_table'[b]) = n - 1
  BY <1>1 DEF Deletes
<1>5. \A i \in 1..n - 1 : hash_table'[b][i] = hash_table[b][old(i)]
  BY <1>1 DEF Deletes
<1>6. /\ \A i \in 1..n - 1 : old(i) \in 1..n /\ old(i) # p
      /\ \A j \in 1..n : j # p => \E i \in 1..n - 1 : old(i) = j
  <2>1. \A i \in 1..n - 1 : old(i) \in 1..n /\ old(i) # p
    BY <1>1, <1>2
  <2>2. ASSUME NEW j \in 1..n, j # p
        PROVE  \E i \in 1..n - 1 : old(i) = j
    <3>1. CASE j < p
      <4>1. j \in 1..n - 1 /\ old(j) = j
        BY <1>1, <1>2, <3>1
      <4> QED BY <4>1
    <3>2. CASE p < j
      <4>1. j - 1 \in 1..n - 1 /\ old(j - 1) = j
        BY <1>1, <1>2, <3>2
      <4> QED BY <4>1
    <3> QED BY <1>1, <1>2, <2>2, <3>1, <3>2
  <2> QED BY <2>1, <2>2
<1> HIDE DEF old
<1>7. \A i \in 1..n : hash_table[b][i].mac = e.mac => i = p
  BY <1>1, <1>2 DEF BucketsAreSound
<1>8. ASSUME NEW m \in Mac
      PROVE  /\ Hash[m] \in Bucket
             /\ PlacesIn(hash_table, m) =
                  {k \in 1..Len(hash_table[Hash[m]]) : hash_table[Hash[m]][k].mac = m}
             /\ PlacesIn(hash_table', m) =
                  {k \in 1..Len(hash_table'[Hash[m]]) : hash_table'[Hash[m]][k].mac = m}
  BY <1>1, <1>2, PlacesByNumber
<1>9. Hash[e.mac] = b
  BY <1>1, <1>2 DEF BucketsAreSound
<1> HIDE DEF e
<1>10. EntriesIn(hash_table, e.mac) = {e}
  <2>1. PlacesIn(hash_table, e.mac) = {i \in 1..n : hash_table[b][i].mac = e.mac}
    BY <1>2, <1>8, <1>9
  <2>2. p \in 1..n /\ hash_table[b][p].mac = e.mac
    BY <1>1 DEF e
  <2>3. PlacesIn(hash_table, e.mac) = {p}
    BY <1>7, <2>1, <2>2
  <2> QED BY <1>9, <2>3 DEF EntriesIn, e
<1>11. EntriesIn(hash_table', e.mac) = {}
  <2>1. \A i \in 1..n - 1 : hash_table'[b][i].mac # e.mac
    BY <1>5, <1>6, <1>7
  <2>2. PlacesIn(hash_table', e.mac) = {}
    BY <1>2, <1>4, <1>8, <1>9, <2>1
  <2> QED BY <2>2 DEF EntriesIn
<1>12. ASSUME NEW m \in Mac, m # e.mac
       PROVE  EntriesIn(hash_table', m) = EntriesIn(hash_table, m)
  <2>1. CASE Hash[m] # b
    <3>1. hash_table'[Hash[m]] = hash_table[Hash[m]]
      BY <1>1, <1>8, <2>1 DEF Deletes, OnlyChanges
    <3> QED BY <3>1 DEF EntriesIn, PlacesIn
  <2>2. CASE Hash[m] = b
    <3>1. /\ PlacesIn(hash_table, m) = {k \in 1..n : hash_table[b][k].mac = m}
          /\ PlacesIn(hash_table', m) = {k \in 1..n - 1 : hash_table'[b][k].mac = m}
      BY <1>4, <1>8, <2>2
    <3>2. ASSUME NEW i \in PlacesIn(hash_table', m)
          PROVE  \E j \in PlacesIn(hash_table, m) : hash_table[b][j] = hash_table'[b][i]
      BY <1>5, <1>6, <3>1, <3>2
    <3>3. ASSUME NEW j \in PlacesIn(hash_table, m)
          PROVE  \E i \in PlacesIn(hash_table', m) : hash_table[b][j] = hash_table'[b][i]
      <4>1. j \in 1..n /\ j # p
        BY <1>12, <3>1, <3>3 DEF e
      <4>2. PICK i \in 1..n - 1 : old(i) = j
        BY <1>6, <4>1
      <4>3. hash_table'[b][i] = hash_table[b][j]
        BY <1>5, <4>2
      <4> QED BY <3>1, <3>3, <4>3
    <3>4. EntriesIn(hash_table', m) = EntriesIn(hash_table, m)
      BY <2>2, <3>2, <3>3, EntriesAlike
    <3> QED BY <3>4
  <2> QED BY <2>1, <2>2
<1> QED BY <1>2, <1>3, <1>10, <1>11, <1>12

\* A second makes every known address older by one.
LEMMA TickAges ==
  ASSUME TypeOK, Tick, OnePlaceEach(hash_table), NEW m \in Mac
  PROVE  /\ PortIn(hash_table', m) = PortIn(hash_table, m)
         /\ AgeIn(hash_table', m) = IF PortIn(hash_table, m) = NULL THEN 0
                                    ELSE AgeIn(hash_table, m) + 1
<1> DEFINE b == Hash[m]
           P == PlacesIn(hash_table, m)
<1>1. /\ hash_table \in [Bucket -> Seq(Entry)] /\ hash_table' \in [Bucket -> Seq(Entry)]
      /\ b \in Bucket
  BY TickResult, HashAssumption DEF TypeOK, Bucket
<1>2. /\ P = {k \in 1..Len(hash_table[b]) : hash_table[b][k].mac = m}
      /\ PlacesIn(hash_table', m) =
           {k \in 1..Len(hash_table'[b]) : hash_table'[b][k].mac = m}
  BY <1>1, PlacesByNumber
<1>3. /\ Len(hash_table'[b]) = Len(hash_table[b])
      /\ \A k \in 1..Len(hash_table[b]) : /\ hash_table'[b][k].mac = hash_table[b][k].mac
                                          /\ hash_table'[b][k].iface = hash_table[b][k].iface
                                          /\ hash_table'[b][k].age = hash_table[b][k].age + 1
  BY <1>1, TickResult
<1>4. PlacesIn(hash_table', m) = P
  BY <1>2, <1>3
<1>5. CASE P = {}
  BY <1>4, <1>5 DEF PortIn, AgeIn
<1>6. CASE P # {}
  <2> DEFINE k == CHOOSE i \in P : FoundIn(hash_table, m, i)
  <2>1. k \in P
    <3>1. PICK i \in P : TRUE
      BY <1>6
    <3>2. P = {i}
      BY <1>1, <3>1 DEF PlacesIn, OnePlaceEach
    <3>3. i \in Nat
      BY <1>2, <3>1
    <3>4. FoundIn(hash_table, m, i)
      BY <3>2, <3>3 DEF FoundIn
    <3> QED BY <3>1, <3>4
  <2>2. FirstIn(hash_table, m) = hash_table[b][k]
    BY DEF FirstIn
  <2>3. FirstIn(hash_table', m) = hash_table'[b][k]
    BY <1>4 DEF FirstIn, FoundIn
  <2> HIDE DEF k
  <2>4. k \in 1..Len(hash_table[b])
    BY <1>2, <2>1
  <2>5. hash_table[b][k].iface \in Iface
    BY <1>1, <2>4, BucketType DEF Entry
  <2>6. PortIn(hash_table, m) = hash_table[b][k].iface /\ AgeIn(hash_table, m) = hash_table[b][k].age
    BY <1>6, <2>2 DEF PortIn, AgeIn
  <2>7. /\ PortIn(hash_table', m) = hash_table'[b][k].iface
        /\ AgeIn(hash_table', m) = hash_table'[b][k].age
    BY <1>4, <1>6, <2>3 DEF PortIn, AgeIn
  <2> QED BY <1>3, <2>4, <2>5, <2>6, <2>7, NullAssumption
<1> QED BY <1>5, <1>6

\* PortOf and AgeOf look into the lists as they are, and as they become.
LEMMA LookedUp ==
  ASSUME NEW m \in Mac
  PROVE  /\ PortOf(m) = PortIn(hash_table, m) /\ AgeOf(m) = AgeIn(hash_table, m)
         /\ PortOf(m)' = PortIn(hash_table', m) /\ AgeOf(m)' = AgeIn(hash_table', m)
BY DEF PortOf, AgeOf, PortIn, AgeIn, FirstIn, FoundIn, FoundAt, Places, PlacesIn

\* The empty lists are the empty table.
LEMMA TableStarts == Init => Table!Init
<1> SUFFICES ASSUME Init
             PROVE  Table!Init
  OBVIOUS
<1>1. ASSUME NEW m \in Mac
      PROVE  PortOf(m) = NULL /\ AgeOf(m) = 0
  <2>1. Hash[m] \in Bucket
    BY HashAssumption DEF Bucket
  <2>2. Places(m) = {}
    BY <2>1 DEF Init, Places
  <2> QED BY <2>2 DEF PortOf, AgeOf
<1> QED BY <1>1 DEF Init, Table!Init

\* Every step is a step of the abstract table or leaves it as it is.
LEMMA TableFollows ==
  ASSUME TypeOK, TypeOK', BucketsAreSound, BucketsAreSound', Timely, AgesAreBounded, [Next]_vars
  PROVE  [Table!Next]_(Table!vars)
<1>0. /\ hash_table \in [Bucket -> Seq(Entry)] /\ OnePlaceEach(hash_table)
      /\ hash_table' \in [Bucket -> Seq(Entry)] /\ OnePlaceEach(hash_table')
  BY DEF TypeOK, BucketsAreSound, OnePlaceEach
<1>1. CASE UNCHANGED <<hash_table, output>>
  <2>1. \A m \in Mac : UNCHANGED <<PortOf(m), AgeOf(m)>>
    BY <1>1, LookedUp
  <2> QED BY <1>1, <2>1 DEF Table!vars
<1>2. CASE Insert /\ ~UNCHANGED hash_table
  <2>1. /\ caller.mac \in Mac /\ caller.iface \in Iface /\ Seen \in Entry
        /\ Seen.iface = caller.iface /\ Seen.age \in 0..MaxDelay
        /\ UNCHANGED output
    BY <1>2, SeenType, Numbers DEF Insert, TypeOK, Seen, Timely, Inserting
  <2>2. /\ EntriesIn(hash_table', caller.mac) = {Seen}
        /\ \A m \in Mac \ {caller.mac} : EntriesIn(hash_table', m) = EntriesIn(hash_table, m)
    BY <1>0, <1>2, InsertLearns
  <2>3. PICK m0 \in Mac, e \in Entry : m0 = caller.mac /\ e = Seen
    BY <2>1
  <2>4. PortOf(m0)' = e.iface /\ AgeOf(m0)' = e.age
    <3>1. PortIn(hash_table', m0) = e.iface /\ AgeIn(hash_table', m0) = e.age
      BY <1>0, <2>2, <2>3, KnownEntry
    <3> QED BY <3>1, LookedUp
  <2>5. \A m \in Mac \ {m0} : UNCHANGED <<PortOf(m), AgeOf(m)>>
    BY <1>0, <2>2, <2>3, KnownAlike, LookedUp
  <2>6. Table!Learn(m0, e.iface)
    <3>1. [m \in Mac |-> PortOf(m)]' = [[m \in Mac |-> PortOf(m)] EXCEPT ![m0] = e.iface]
      BY <2>4, <2>5
    <3>2. [m \in Mac |-> AgeOf(m)]' = [[m \in Mac |-> AgeOf(m)] EXCEPT ![m0] = e.age]
      BY <2>4, <2>5
    <3> QED BY <2>1, <2>3, <3>1, <3>2 DEF Table!Learn
  <2> QED BY <2>1, <2>3, <2>6 DEF Table!Next
<1>3. CASE SweepEntry /\ ~UNCHANGED hash_table
  <2>1. PICK e \in Entry :
          /\ EntriesIn(hash_table, e.mac) = {e}
          /\ e.age > MAC_PORT_TIMEOUT
          /\ EntriesIn(hash_table', e.mac) = {}
          /\ \A m \in Mac \ {e.mac} : EntriesIn(hash_table', m) = EntriesIn(hash_table, m)
    BY <1>3, DeleteForgets
  <2>2. e.mac \in Mac /\ e.iface \in Iface /\ UNCHANGED output
    BY <1>3 DEF Entry, SweepEntry
  <2>3. PortOf(e.mac) = e.iface /\ AgeOf(e.mac) = e.age
    <3>1. PortIn(hash_table, e.mac) = e.iface /\ AgeIn(hash_table, e.mac) = e.age
      BY <1>0, <2>1, <2>2, KnownEntry
    <3> QED BY <2>2, <3>1, LookedUp
  <2>4. PortOf(e.mac)' = NULL /\ AgeOf(e.mac)' = 0
    <3>1. PortIn(hash_table', e.mac) = NULL /\ AgeIn(hash_table', e.mac) = 0
      BY <1>0, <2>1, <2>2, UnknownEntry
    <3> QED BY <2>2, <3>1, LookedUp
  <2>5. \A m \in Mac \ {e.mac} : UNCHANGED <<PortOf(m), AgeOf(m)>>
    BY <1>0, <2>1, KnownAlike, LookedUp
  <2>6. Table!Forget(e.mac)
    BY <2>1, <2>2, <2>3, <2>4, <2>5, NullAssumption DEF Table!Forget
  <2> QED BY <2>2, <2>6 DEF Table!Next
<1>4. CASE Lookup
  <2> DEFINE m == caller.mac
  <2>1. m \in Mac /\ UNCHANGED hash_table
    BY <1>4 DEF Lookup, TypeOK
  <2>2. output' = PortOf(m)
    <3>1. CASE Places(m) = {}
      BY <1>4, <3>1 DEF Lookup, PortOf
    <3>2. CASE Places(m) # {}
      <4>1. PICK k \in Places(m) : FoundAt(m, k) /\ output' = hash_table[Hash[m]][k].iface
        BY <1>4, <3>2 DEF Lookup
      <4>2. PlacesIn(hash_table, m) = {k}
        <5>1. Hash[m] \in Bucket
          BY <2>1, HashAssumption DEF Bucket
        <5> QED BY <1>0, <4>1, <5>1 DEF Places, PlacesIn, OnePlaceEach
      <4>3. EntriesIn(hash_table, m) = {hash_table[Hash[m]][k]}
        BY <4>2 DEF EntriesIn
      <4>4. PortIn(hash_table, m) = hash_table[Hash[m]][k].iface
        BY <1>0, <2>1, <4>3, KnownEntry
      <4> QED BY <2>1, <4>1, <4>4, LookedUp
    <3> QED BY <3>1, <3>2
  <2>3. \A a \in Mac : UNCHANGED <<PortOf(a), AgeOf(a)>>
    BY <2>1, LookedUp
  <2>4. Table!Ask(m)
    BY <2>1, <2>2, <2>3 DEF Table!Ask
  <2> QED BY <2>1, <2>4 DEF Table!Next
<1>5. CASE Tick
  <2>1. UNCHANGED output
    BY <1>5 DEF Tick
  <2>2. \A m \in Mac : /\ PortOf(m)' = PortOf(m)
                       /\ AgeOf(m)' = IF PortOf(m) = NULL THEN 0 ELSE AgeOf(m) + 1
    BY <1>0, <1>5, TickAges, LookedUp
  <2>3. ASSUME NEW m \in Mac, PortOf(m) # NULL
        PROVE  AgeOf(m) < Limit
    <3>1. PICK e \in Entry : EntriesIn(hash_table, m) = {e} /\ AgeOf(m) = e.age
      BY <1>0, <2>3, KnownOf, LookedUp
    <3>2. PICK k \in PlacesIn(hash_table, m) : e = hash_table[Hash[m]][k]
      BY <3>1 DEF EntriesIn
    <3>3. Hash[m] \in Bucket /\ k \in 1..Len(hash_table[Hash[m]])
      BY <1>0, <3>2, PlacesByNumber
    <3>4. AgeOf(m) <= AgeBound /\ AgeOf(m) \in Nat
      BY <3>1, <3>2, <3>3, Numbers DEF AgesAreBounded
    <3>5. AgeBound < Limit /\ Limit \in Nat /\ AgeBound \in Nat
      BY <1>5, Numbers DEF Tick, AgeBound, Limit
    <3> QED BY <3>4, <3>5
  <2>4. Table!Tick
    BY <2>1, <2>2, <2>3 DEF Table!Tick
  <2> QED BY <2>4 DEF Table!Next
<1>6. \/ Insert \/ SweepEntry \/ Lookup \/ Tick \/ UNCHANGED <<hash_table, output>>
  BY DEF Next, vars, InsertCall, LookupCall, InsertLock, LookupLock, CallerLocks,
         SweepStart, SweepLock, SweepBucket, SweepUnlock
<1>7. (Insert \/ SweepEntry) => UNCHANGED output
  BY DEF Insert, SweepEntry
<1> QED BY <1>1, <1>2, <1>3, <1>4, <1>5, <1>6, <1>7

\* The two threads with their lists, their mutex and their old clocks are a
\* ForwardingTable: an address is forgotten only after its timeout, it has
\* the port it was inserted with last, and lookups answer with that.
THEOREM TableIsForwardingTable == Spec => ImplementsTable
<1>1. Init => Table!Init
  BY TableStarts
<1>2. TypeOK /\ TypeOK' /\ BucketsAreSound /\ BucketsAreSound' /\ Timely /\ AgesAreBounded
        /\ [Next]_vars => [Table!Next]_(Table!vars)
  BY TableFollows
<1> QED BY <1>1, <1>2, TypeCorrect, BucketsStaySound, AgesStayBounded, PTL
        DEF Spec, Table!Spec, ImplementsTable

-----------------------------------------------------------------------------
(***************************************************************************)
(* The switch and its hosts.                                               *)
(***************************************************************************)

USE DEF tableVars, loopVars, netVars

\* A queue with one more frame at its end.
LEMMA Appended ==
  ASSUME NEW S, NEW s \in Seq(S), NEW e \in S
  PROVE  /\ Append(s, e) \in Seq(S) /\ Append(s, e) # <<>> /\ Len(s) \in Nat
         /\ Len(Append(s, e)) = Len(s) + 1
         /\ \A k \in 1..Len(s) : Append(s, e)[k] = s[k]
         /\ Append(s, e)[Len(s) + 1] = e
<1> DEFINE t == Append(s, e)
<1>1. /\ t \in Seq(S) /\ Len(s) \in Nat /\ Len(t) = Len(s) + 1
      /\ \A k \in 1..Len(s) : t[k] = s[k]
      /\ t[Len(s) + 1] = e
  BY AppendProperties, LenProperties
<1>. HIDE DEF t
<1>2. t = <<>> => Len(t) = 0
  BY EmptySeq
<1>. QED  BY <1>1, <1>2 DEF t

-----------------------------------------------------------------------------
(***************************************************************************)
(* The steps of the switch, and what they are for the table.               *)
(***************************************************************************)

\* A step inside the table.
TableMoves ==
  /\ \/ InsertLock \/ Insert \/ LookupLock \/ Lookup
     \/ SweepStart \/ SweepLock \/ SweepEntry \/ SweepBucket \/ SweepUnlock \/ Tick
  /\ todo # "open"
  /\ UNCHANGED <<loopVars, netVars, fd>>

\* A step of init_ustack.
OpensPorts ==
  \/ \E i \in Iface : CreateSocket(i) \/ BindSocket(i) \/ OpenFails(i)
  \/ StartLoop

\* Every step is one of these.
LEMMA SwitchSteps ==
  ASSUME [SwitchNext]_switchVars
  PROVE  \/ \E h \in Host : \E d \in Mac \ {h} : HostSends(h, d)
         \/ \E h \in Host, i \in Iface : HostMoves(h, i)
         \/ OpensPorts
         \/ Poll
         \/ \E i \in Iface : Drop(i)
         \/ \E i \in Iface : Receive(i)
         \/ LooksUp \/ Forward
         \/ TableMoves
         \/ UNCHANGED switchVars
BY DEF SwitchNext, TableStep, TableMoves, OpensPorts

\* A port that poll has reported still has a frame to be read, unless it is
\* the one whose frame is being handled; none is reported before the loop runs.
ReadyInv ==
  /\ todo = "open" => ready = {}
  /\ \A i \in ready : unread[i] = <<>> => todo # "receive" /\ frame.iface = i

\* The first layer.
LoopInv == SwitchTypeOK /\ ReadyInv

\* What the loop takes from a port it serves.
LEMMA FrameIsThere ==
  ASSUME LoopInv, NEW i \in Iface, Serves(i)
  PROVE  /\ unread[i] \in Seq(Captured) /\ Len(unread[i]) \in Nat \ {0}
         /\ Head(unread[i]) \in Captured /\ Head(unread[i]) = unread[i][1]
         /\ Tail(unread[i]) \in Seq(Captured)
         /\ Len(Tail(unread[i])) = Len(unread[i]) - 1
         /\ \A k \in 1..Len(unread[i]) - 1 : Tail(unread[i])[k] = unread[i][k + 1]
<1>1. unread[i] \in Seq(Captured) /\ unread[i] # <<>>
  BY DEF LoopInv, ReadyInv, SwitchTypeOK, Serves
<1>. QED  BY <1>1, EmptySeq, HeadTailProperties

\* The table sees calls and steps of its own, and that its answer is used up.
LEMMA TableIsCalled ==
  ASSUME LoopInv, [SwitchNext]_switchVars
  PROVE  \/ [Next]_vars
         \/ UNCHANGED <<hash_table, lock, caller, sweeper>> /\ output' = NULL
<1>1. ASSUME NEW i \in Iface, Receive(i)
      PROVE  Next
  <2>1. Head(unread[i]) \in Captured
    BY <1>1, FrameIsThere DEF Receive
  <2>2. Head(unread[i]).src \in Mac
    BY <2>1, HostAssumption DEF Captured
  <2>. QED  BY <1>1, <2>2 DEF Receive, Next
<1>2. CASE LooksUp
  <2>1. frame.dst \in Mac
    BY <1>2 DEF LooksUp, LoopInv, SwitchTypeOK
  <2>. QED  BY <1>2, <2>1 DEF LooksUp, Next
<1>3. CASE Forward
  BY <1>3 DEF Forward
<1>4. CASE TableMoves
  BY <1>4 DEF TableMoves, Next
<1>5. CASE \/ \E h \in Host : \E d \in Mac \ {h} : HostSends(h, d)
           \/ \E h \in Host, i \in Iface : HostMoves(h, i)
           \/ OpensPorts
           \/ Poll
           \/ \E i \in Iface : Drop(i)
           \/ UNCHANGED switchVars
  BY <1>5 DEF HostSends, HostMoves, OpensPorts, CreateSocket, BindSocket, OpenFails,
     StartLoop, Poll, Drop, switchVars, vars
<1>. QED  BY <1>1, <1>2, <1>3, <1>4, <1>5, SwitchSteps

\* The types of the table are kept.
LEMMA TableTypeStep ==
  ASSUME LoopInv, [SwitchNext]_switchVars
  PROVE  TypeOK'
<1>1. TypeOK
  BY DEF LoopInv, SwitchTypeOK
<1>2. CASE [Next]_vars
  BY <1>1, <1>2, TypeStep
<1>3. CASE UNCHANGED <<hash_table, lock, caller, sweeper>> /\ output' = NULL
  BY <1>1, <1>3 DEF TypeOK
<1>. QED  BY <1>2, <1>3, TableIsCalled

\* The first layer is inductive.
LEMMA LoopStep ==
  ASSUME LoopInv, [SwitchNext]_switchVars
  PROVE  LoopInv'
<1>0. TypeOK'
  BY TableTypeStep
<1>. USE DEF LoopInv, SwitchTypeOK, ReadyInv
<1>1. ASSUME NEW h \in Host, NEW d \in Mac \ {h}, HostSends(h, d)
      PROVE  LoopInv'
  <2> DEFINE f == [src |-> h, dst |-> d, outgoing |-> FALSE]
  <2>1. f \in Captured
    BY DEF Captured
  <2>2. unread' = [i \in Iface |-> IF i \in Listening(location[h])
                                   THEN Append(unread[i], f) ELSE unread[i]]
    BY <1>1 DEF HostSends
  <2>. HIDE DEF f
  <2>3. ASSUME NEW i \in Iface
        PROVE  unread'[i] \in Seq(Captured) /\ (unread'[i] = <<>> => unread[i] = <<>>)
    <3>1. unread[i] \in Seq(Captured)
      OBVIOUS
    <3>2. Append(unread[i], f) \in Seq(Captured) /\ Append(unread[i], f) # <<>>
      BY <2>1, <3>1, Appended
    <3>3. unread'[i] = Append(unread[i], f) \/ unread'[i] = unread[i]
      BY <2>2
    <3>. QED  BY <3>1, <3>2, <3>3
  <2>4. unread' \in [Iface -> Seq(Captured)] /\ moved' \subseteq Host
    BY <1>1, <2>2, <2>3 DEF HostSends
  <2>. QED  BY <1>0, <1>1, <2>3, <2>4 DEF HostSends
<1>2. ASSUME NEW h \in Host, NEW i \in Iface, HostMoves(h, i)
      PROVE  LoopInv'
  BY <1>0, <1>2 DEF HostMoves
<1>3. CASE Poll
  BY <1>0, <1>3 DEF Poll
<1>4. ASSUME NEW i \in Iface, Drop(i)
      PROVE  LoopInv'
  <2>1. Tail(unread[i]) \in Seq(Captured)
    BY <1>4, FrameIsThere DEF Drop
  <2>. QED  BY <1>0, <1>4, <2>1 DEF Drop, Taken, Serves
<1>5. ASSUME NEW i \in Iface, Receive(i)
      PROVE  LoopInv'
  <2>1. Tail(unread[i]) \in Seq(Captured) /\ Head(unread[i]) \in Captured
    BY <1>5, FrameIsThere DEF Receive
  <2>2. /\ frame' = [src |-> Head(unread[i]).src, dst |-> Head(unread[i]).dst, iface |-> i]
        /\ todo' = "lookup"
    BY <1>5 DEF Receive
  <2>3. frame' \in [src : Host, dst : Mac, iface : Iface] /\ frame'.iface = i
    BY <2>1, <2>2 DEF Captured
  <2>. QED  BY <1>0, <1>5, <2>1, <2>2, <2>3 DEF Receive, Taken, Serves
<1>6. CASE LooksUp
  BY <1>0, <1>6 DEF LooksUp
<1>7. CASE Forward
  <2>1. PICK captured \in SUBSET Outputs :
          unread' = [i \in Iface |->
                      IF i \in captured
                      THEN Append(unread[i], [src |-> frame.src, dst |-> frame.dst,
                                              outgoing |-> TRUE])
                      ELSE unread[i]]
    BY <1>7 DEF Forward
  <2> DEFINE f == [src |-> frame.src, dst |-> frame.dst, outgoing |-> TRUE]
  <2>2. f \in Captured
    BY <1>7 DEF Forward, Captured
  <2>. HIDE DEF f
  <2>3. ASSUME NEW i \in Iface
        PROVE  unread'[i] \in Seq(Captured) /\ (unread'[i] = <<>> => unread[i] = <<>>)
    <3>1. unread[i] \in Seq(Captured)
      OBVIOUS
    <3>2. Append(unread[i], f) \in Seq(Captured) /\ Append(unread[i], f) # <<>>
      BY <2>2, <3>1, Appended
    <3>3. unread'[i] = Append(unread[i], f) \/ unread'[i] = unread[i]
      BY <2>1 DEF f
    <3>. QED  BY <3>1, <3>2, <3>3
  <2>4. unread' \in [Iface -> Seq(Captured)]
    BY <2>1, <2>3
  <2>. QED  BY <1>0, <1>7, <2>3, <2>4 DEF Forward
<1>8. CASE TableMoves
  BY <1>0, <1>8 DEF TableMoves
<1>9. CASE OpensPorts
  <2>1. <<>> \in Seq(Captured)
    BY EmptySeq
  <2>2. CASE StartLoop
    BY <1>0, <2>2 DEF StartLoop
  <2>3. ASSUME NEW i \in Iface, CreateSocket(i) \/ BindSocket(i)
        PROVE  LoopInv'
    BY <1>0, <2>3 DEF CreateSocket, BindSocket
  <2>4. ASSUME NEW i \in Iface, OpenFails(i)
        PROVE  LoopInv'
    BY <1>0, <2>1, <2>4 DEF OpenFails, Opening
  <2>. QED  BY <1>9, <2>2, <2>3, <2>4 DEF OpensPorts
<1>10. CASE UNCHANGED switchVars
  BY <1>0, <1>10 DEF switchVars
<1>. QED  BY <1>1, <1>2, <1>3, <1>4, <1>5, <1>6, <1>7, <1>8, <1>9, <1>10, SwitchSteps

-----------------------------------------------------------------------------
(***************************************************************************)
(* What the table knows of a host.                                         *)
(***************************************************************************)

\* An entry for m was there before, with its port and as old, but for the time
\* that passes in the step, or it is the one inserted.
LEMMA EntryOrigin ==
  ASSUME TypeOK, TypeOK', [Next]_vars, NEW m \in Mac, NEW k \in Places(m)'
  PROVE  \/ \E j \in Places(m) :
              /\ hash_table'[Hash[m]][k].iface = hash_table[Hash[m]][j].iface
              /\ hash_table'[Hash[m]][k].age = IF Tick THEN hash_table[Hash[m]][j].age + 1
                                               ELSE hash_table[Hash[m]][j].age
         \/ Insert /\ caller.mac = m /\ hash_table'[Hash[m]][k].iface = caller.iface
<1> DEFINE b == Hash[m]
           n == Len(hash_table[b])
<1>1. /\ b \in Bucket /\ n \in Nat
      /\ DOMAIN hash_table[b] = 1..n /\ DOMAIN hash_table'[b] = 1..Len(hash_table'[b])
  <2>1. b \in Bucket
    BY HashAssumption DEF Bucket
  <2>2. hash_table'[b] \in Seq(Entry)
    BY <2>1 DEF TypeOK
  <2>. QED  BY <2>1, <2>2, BucketType, LenProperties
<1>2. k \in 1..Len(hash_table'[b]) /\ hash_table'[b][k].mac = m
  BY <1>1 DEF Places
<1>3. ASSUME NEW j \in 1..n, hash_table[b][j].mac = hash_table'[b][k].mac,
             hash_table[b][j].iface = hash_table'[b][k].iface,
             hash_table'[b][k].age = IF Tick THEN hash_table[b][j].age + 1
                                     ELSE hash_table[b][j].age
      PROVE  \E i \in Places(m) :
               /\ hash_table'[b][k].iface = hash_table[b][i].iface
               /\ hash_table'[b][k].age = IF Tick THEN hash_table[b][i].age + 1
                                          ELSE hash_table[b][i].age
  BY <1>1, <1>2, <1>3 DEF Places
<1>. HIDE DEF n
<1>4. CASE ~Tick /\ hash_table'[b] = hash_table[b]
  BY <1>2, <1>3, <1>4 DEF n
<1>5. CASE ~Tick /\ Insert
  <2> DEFINE c == Hash[caller.mac]
  <2>1. caller.pc = "insert_locked" /\ Seen.mac = caller.mac /\ Seen.iface = caller.iface
    BY <1>5 DEF Insert, Seen
  <2>2. /\ OnlyChanges(c)
        /\ (\E j \in 1..Len(hash_table[c]) : Replaces(c, j)) \/ Adds(c) \/ UNCHANGED hash_table
    BY <1>5, InsertResult
  <2>3. CASE b # c
    BY <1>1, <1>4, <1>5, <2>2, <2>3 DEF OnlyChanges
  <2>4. CASE b = c /\ \E j \in 1..n : Replaces(b, j)
    <3>1. PICK j \in 1..n : Replaces(b, j)
      BY <2>4
    <3>2. k \in 1..n /\ hash_table'[b][k] = IF k = j THEN Seen ELSE hash_table[b][k]
      BY <1>2, <3>1 DEF Replaces, n
    <3>. QED  BY <1>2, <1>3, <1>5, <2>1, <3>2
  <2>5. CASE b = c /\ Adds(b)
    <3>1. CASE k = n + 1
      BY <1>2, <1>5, <2>1, <2>5, <3>1 DEF Adds, n
    <3>2. CASE k # n + 1
      <4>1. k \in 1..n /\ hash_table'[b][k] = hash_table[b][k]
        BY <1>1, <1>2, <2>5, <3>2 DEF Adds, n
      <4>. QED  BY <1>3, <1>5, <4>1
    <3>. QED  BY <3>1, <3>2
  <2>6. CASE UNCHANGED hash_table
    BY <1>4, <1>5, <2>6
  <2>. QED  BY <2>2, <2>3, <2>4, <2>5, <2>6 DEF n
<1>6. CASE ~Tick /\ SweepEntry
  <2> DEFINE c == sweeper.bucket
             p == sweeper.position
  <2>1. p \in Nat /\ (Deletes(c, p) \/ Passes(c, p))
    BY <1>6, SweepEntryResult DEF TypeOK, Sweeper
  <2>2. CASE b = c /\ Deletes(c, p)
    <3>1. /\ k \in 1..n - 1
          /\ hash_table'[b][k] = IF k < p THEN hash_table[b][k] ELSE hash_table[b][k + 1]
      BY <1>2, <2>2 DEF Deletes, n
    <3>2. k \in 1..n /\ k + 1 \in 1..n
      BY <1>1, <3>1
    <3>. QED  BY <1>3, <1>6, <3>1, <3>2
  <2>3. CASE b # c \/ Passes(c, p)
    BY <1>1, <1>4, <1>6, <2>1, <2>3 DEF Deletes, Passes, OnlyChanges
  <2>. QED  BY <2>1, <2>2, <2>3
<1>7. CASE Tick
  <2>1. /\ Len(hash_table'[b]) = n
        /\ \A i \in 1..n : /\ hash_table'[b][i].mac = hash_table[b][i].mac
                           /\ hash_table'[b][i].iface = hash_table[b][i].iface
                           /\ hash_table'[b][i].age = hash_table[b][i].age + 1
    BY <1>1, <1>7, TickResult DEF n
  <2>. QED  BY <1>2, <1>3, <1>7, <2>1
<1>. QED  BY <1>4, <1>5, <1>6, <1>7, WhoChangesTheLists

\* What is about to be stored, and every frame that came in and is still to be
\* read, names the port where its host is, if the host has not moved.
CallerKnows(h) ==
  caller.pc \in {"insert", "insert_locked"} /\ caller.mac = h => caller.iface = location[h]

FramesKnow(h) ==
  \A i \in Iface : \A k \in 1..Len(unread[i]) :
    unread[i][k].src = h /\ ~unread[i][k].outgoing => i = location[h]

\* The second layer.
KnownInv == \A h \in Still : ~Misdirected(h) /\ CallerKnows(h) /\ FramesKnow(h)

\* A host that has not moved by the end of a step is where it was.
LEMMA StillHost ==
  ASSUME LoopInv, [SwitchNext]_switchVars, NEW h \in Still'
  PROVE  h \in Still /\ location'[h] = location[h]
<1>. USE DEF Still
<1>1. ASSUME NEW g \in Host, NEW i \in Iface, HostMoves(g, i)
      PROVE  h \in Still /\ location'[h] = location[h]
  BY <1>1 DEF HostMoves, LoopInv, SwitchTypeOK
<1>2. ASSUME NEW g \in Host, NEW d \in Mac \ {g}, HostSends(g, d)
      PROVE  h \in Still /\ location'[h] = location[h]
  BY <1>2 DEF HostSends
<1>3. \/ UNCHANGED <<moved, location>>
      \/ \E g \in Host, i \in Iface : HostMoves(g, i)
      \/ \E g \in Host : \E d \in Mac \ {g} : HostSends(g, d)
  BY SwitchSteps DEF OpensPorts, CreateSocket, BindSocket, OpenFails, StartLoop, Poll, Drop,
     Receive, LooksUp, Forward, TableMoves, switchVars
<1>. QED  BY <1>1, <1>2, <1>3

\* A wrong entry for a host that stays, and whose port the table is told, was
\* there before.
LEMMA EntriesStep ==
  ASSUME LoopInv, [SwitchNext]_switchVars, NEW h \in Host, location'[h] = location[h],
         CallerKnows(h), NEW k \in Places(h)', hash_table'[Hash[h]][k].iface # location'[h]
  PROVE  \E j \in Places(h) :
           /\ hash_table[Hash[h]][j].iface # location[h]
           /\ hash_table'[Hash[h]][k].age = IF Tick THEN hash_table[Hash[h]][j].age + 1
                                            ELSE hash_table[Hash[h]][j].age
<1>1. TypeOK /\ TypeOK' /\ h \in Mac
  BY TableTypeStep, HostAssumption DEF LoopInv, SwitchTypeOK
<1>2. CASE [Next]_vars
  <2>1. ~(Insert /\ caller.mac = h /\ hash_table'[Hash[h]][k].iface = caller.iface)
    BY DEF CallerKnows, Insert
  <2>2. PICK j \in Places(h) :
          /\ hash_table'[Hash[h]][k].iface = hash_table[Hash[h]][j].iface
          /\ hash_table'[Hash[h]][k].age = IF Tick THEN hash_table[Hash[h]][j].age + 1
                                           ELSE hash_table[Hash[h]][j].age
    BY <1>1, <1>2, <2>1, EntryOrigin
  <2>. QED  BY <2>2
<1>3. CASE UNCHANGED <<hash_table, lock, caller, sweeper>>
  <2>1. ~Tick
    BY <1>1, <1>3 DEF Tick, TypeOK, Sweeper
  <2>2. k \in Places(h)
    BY <1>3 DEF Places
  <2>. QED  BY <1>3, <2>1, <2>2
<1>. QED  BY <1>2, <1>3, TableIsCalled

\* What the table is told of the host: Receive takes it from the port that the
\* frame came in by.
LEMMA CallerStep ==
  ASSUME LoopInv, [SwitchNext]_switchVars, NEW h \in Host, location'[h] = location[h],
         CallerKnows(h), FramesKnow(h)
  PROVE  CallerKnows(h)'
<1>1. location'[h] = location[h] /\ CallerKnows(h) /\ FramesKnow(h)
  OBVIOUS
<1>2. ASSUME NEW i \in Iface, Receive(i)
      PROVE  CallerKnows(h)'
  <2>1. /\ Len(unread[i]) \in Nat \ {0} /\ Head(unread[i]) = unread[i][1]
        /\ ~Head(unread[i]).outgoing
    BY <1>2, FrameIsThere DEF Receive, CameIn
  <2>2. caller'.mac = Head(unread[i]).src /\ caller'.iface = i
    BY <1>2 DEF Receive, InsertCall
  <2>3. 1 \in 1..Len(unread[i])
    BY <2>1
  <2>4. caller'.mac = h => i = location[h]
    BY <1>1, <2>1, <2>2, <2>3 DEF FramesKnow
  <2>. QED  BY <1>1, <2>2, <2>4 DEF CallerKnows
<1>3. ASSUME \/ caller'.pc \in {"out", "lookup", "lookup_locked"}
             \/ /\ caller.pc \in {"insert", "insert_locked"}
                /\ caller'.mac = caller.mac /\ caller'.iface = caller.iface
      PROVE  CallerKnows(h)'
  BY <1>1, <1>3 DEF CallerKnows
<1>4. \/ \E i \in Iface : Receive(i)
      \/ caller'.pc \in {"out", "lookup", "lookup_locked"}
      \/ /\ caller.pc \in {"insert", "insert_locked"}
         /\ caller'.mac = caller.mac /\ caller'.iface = caller.iface
  <2>1. caller \in Caller
    BY DEF LoopInv, SwitchTypeOK, TypeOK
  <2>2. CASE LooksUp
    BY <2>2 DEF LooksUp, LookupCall
  <2>3. CASE TableMoves
    BY <2>1, <2>3 DEF TableMoves, InsertLock, Insert, LookupLock, Lookup, CallerLocks,
       CallerUnlocks, SweepStart, SweepLock, SweepEntry, SweepBucket, SweepUnlock, Tick,
       Inserting, Out, Caller
  <2>4. CASE UNCHANGED caller
    BY <2>1, <2>4 DEF Caller
  <2>. QED  BY <2>2, <2>3, <2>4, SwitchSteps DEF HostSends, HostMoves, OpensPorts,
            CreateSocket, BindSocket, OpenFails, StartLoop, Poll, Drop, Forward, switchVars
<1>. QED  BY <1>2, <1>3, <1>4

\* The frames that are still to be read: a host sends from where it is, and what
\* the switch sends itself is captured as outgoing.
LEMMA FramesStep ==
  ASSUME LoopInv, [SwitchNext]_switchVars, NEW h \in Host, location'[h] = location[h],
         FramesKnow(h),
         \A d \in Mac \ {h} : HostSends(h, d) => Listening(location[h]) \subseteq {location[h]}
  PROVE  FramesKnow(h)'
<1>1. location'[h] = location[h] /\ FramesKnow(h)
  OBVIOUS
<1>2. ASSUME NEW i \in Iface, NEW k \in 1..Len(unread'[i]),
             unread'[i][k].src = h, ~unread'[i][k].outgoing
      PROVE  i = location[h]
  <2>1. unread \in [Iface -> Seq(Captured)] /\ Len(unread[i]) \in Nat
    BY LenProperties DEF LoopInv, SwitchTypeOK
  <2>2. ASSUME NEW j \in 1..Len(unread[i]), unread'[i][k] = unread[i][j]
        PROVE  i = location[h]
    BY <1>1, <1>2, <2>2 DEF FramesKnow
  <2>3. ASSUME NEW f \in Captured, unread'[i] = Append(unread[i], f),
               f.outgoing \/ i = location[f.src] \/ f.src # h
        PROVE  i = location[h]
    <3>1. /\ Len(unread'[i]) = Len(unread[i]) + 1
          /\ \A j \in 1..Len(unread[i]) : unread'[i][j] = unread[i][j]
          /\ unread'[i][Len(unread[i]) + 1] = f
      BY <2>1, <2>3, Appended
    <3>2. CASE k = Len(unread[i]) + 1
      BY <1>2, <2>3, <3>1, <3>2
    <3>3. CASE k # Len(unread[i]) + 1
      BY <2>1, <2>2, <3>1, <3>3
    <3>. QED  BY <3>2, <3>3
  <2>4. ASSUME NEW g \in Host, NEW d \in Mac \ {g}, HostSends(g, d)
        PROVE  i = location[h]
    <3> DEFINE f == [src |-> g, dst |-> d, outgoing |-> FALSE]
    <3>1. f \in Captured /\ f.src = g
      BY DEF Captured
    <3>2. unread' = [j \in Iface |-> IF j \in Listening(location[g])
                                    THEN Append(unread[j], f) ELSE unread[j]]
      BY <2>4 DEF HostSends
    <3>. HIDE DEF f
    <3>3. \/ unread'[i] = unread[i]
          \/ i \in Listening(location[g]) /\ unread'[i] = Append(unread[i], f)
      BY <3>2
    <3>4. i \in Listening(location[g]) => i = location[g] \/ g # h
      BY <2>4
    <3>. QED  BY <2>2, <2>3, <3>1, <3>3, <3>4
  <2>5. ASSUME NEW j \in Iface, Drop(j) \/ Receive(j)
        PROVE  i = location[h]
    <3>1. unread' = [unread EXCEPT ![j] = Tail(unread[j])] /\ Serves(j)
      BY <2>5 DEF Drop, Receive, Taken
    <3>2. CASE i = j
      <4>1. /\ unread'[i] = Tail(unread[i]) /\ Len(unread[i]) \in Nat \ {0}
            /\ Len(Tail(unread[i])) = Len(unread[i]) - 1
            /\ \A l \in 1..Len(unread[i]) - 1 : Tail(unread[i])[l] = unread[i][l + 1]
        BY <2>1, <3>1, <3>2, FrameIsThere
      <4>2. k + 1 \in 1..Len(unread[i]) /\ unread'[i][k] = unread[i][k + 1]
        BY <4>1
      <4>. QED  BY <2>2, <4>2
    <3>3. CASE i # j
      BY <2>1, <2>2, <3>1, <3>3
    <3>. QED  BY <3>2, <3>3
  <2>6. CASE Forward
    <3> DEFINE f == [src |-> frame.src, dst |-> frame.dst, outgoing |-> TRUE]
    <3>1. frame \in [src : Host, dst : Mac, iface : Iface]
      BY <2>6 DEF Forward, LoopInv, SwitchTypeOK
    <3>2. f \in Captured /\ f.outgoing
      BY <3>1 DEF Captured
    <3>3. unread'[i] = Append(unread[i], f) \/ unread'[i] = unread[i]
      BY <2>6 DEF Forward
    <3>. HIDE DEF f
    <3>. QED  BY <2>2, <2>3, <3>2, <3>3
  <2>7. CASE UNCHANGED unread
    BY <2>2, <2>7
  <2>8. ASSUME NEW j \in Iface, OpenFails(j)
        PROVE  i = location[h]
    <3>1. unread'[i] = unread[i] \/ unread'[i] = <<>>
      BY <2>1, <2>8 DEF OpenFails
    <3>2. Len(<<>>) = 0
      BY EmptySeq
    <3>. QED  BY <2>2, <3>1, <3>2
  <2>. QED  BY <2>4, <2>5, <2>6, <2>7, <2>8, SwitchSteps DEF HostMoves, OpensPorts,
            CreateSocket, BindSocket, StartLoop, Poll, LooksUp, TableMoves, switchVars
<1>. QED  BY <1>1, <1>2 DEF FramesKnow

\* The second layer is inductive, given the first.
LEMMA KnownStep ==
  ASSUME LoopInv, KnownInv, [SwitchNext]_switchVars
  PROVE  KnownInv'
<1>1. ASSUME NEW h \in Still'
      PROVE  ~Misdirected(h)' /\ CallerKnows(h)' /\ FramesKnow(h)'
  <2>1. /\ h \in Host /\ h \in Still /\ location'[h] = location[h]
        /\ ~Misdirected(h) /\ CallerKnows(h) /\ FramesKnow(h)
    BY <1>1, StillHost DEF KnownInv, Still
  <2>2. ASSUME NEW d \in Mac \ {h}, HostSends(h, d)
        PROVE  Listening(location[h]) \subseteq {location[h]}
    BY <1>1, <2>1, <2>2 DEF HostSends, Still
  <2>3. ASSUME NEW k \in Places(h)', hash_table'[Hash[h]][k].iface # location'[h]
        PROVE  FALSE
    <3>1. \E j \in Places(h) : hash_table[Hash[h]][j].iface # location[h]
      BY <2>1, <2>3, EntriesStep
    <3>. QED  BY <2>1, <3>1 DEF Misdirected
  <2>4. ~Misdirected(h)'
    BY <2>3 DEF Misdirected
  <2>. QED  BY <2>1, <2>2, <2>4, CallerStep, FramesStep
<1>. QED  BY <1>1 DEF KnownInv

-----------------------------------------------------------------------------
(***************************************************************************)
(* What handle_packet is answered.                                         *)
(***************************************************************************)

\* The third layer: where the loop is in the table goes with what it does next,
\* and the answer, once there, is right for a destination that has not moved.
AnswerInv ==
  /\ todo \in {"open", "receive"} => caller.pc = "out"
  /\ todo = "lookup" => caller.pc \in {"out", "insert", "insert_locked"}
  /\ todo = "forward" =>
       /\ caller.pc \in {"out", "lookup", "lookup_locked"}
       /\ caller.pc # "out" => caller.mac = frame.dst
       /\ caller.pc = "out" /\ frame.dst \in Still
            => output \in {NULL, location[frame.dst]}

\* The answer of lookup_port.
LEMMA LookupAnswers ==
  ASSUME KnownInv, Lookup, NEW h \in Still, caller.mac = h
  PROVE  output' \in {NULL, location[h]}
<1>1. ~Misdirected(h)
  BY DEF KnownInv
<1>2. \/ \E k \in Places(h) : output' = hash_table[Hash[h]][k].iface
      \/ output' = NULL
  BY DEF Lookup, FoundAt
<1>. QED  BY <1>1, <1>2 DEF Misdirected

\* The third layer is inductive, given the others.
LEMMA AnswerStep ==
  ASSUME LoopInv, KnownInv, AnswerInv, [SwitchNext]_switchVars
  PROVE  AnswerInv'
<1>. USE DEF AnswerInv
<1>0. caller \in Caller /\ todo \in {"open", "receive", "lookup", "forward"}
  BY DEF LoopInv, SwitchTypeOK, TypeOK
<1>1. ASSUME NEW g \in Host, NEW i \in Iface, HostMoves(g, i)
      PROVE  AnswerInv'
  <2>1. \A h \in Still' : h \in Still /\ location'[h] = location[h]
    BY StillHost
  <2>2. UNCHANGED <<caller, output, frame, todo>>
    BY <1>1 DEF HostMoves
  <2>. QED  BY <2>1, <2>2
<1>2. CASE UNCHANGED <<caller, output, frame, todo, location, moved>>
  BY <1>2 DEF Still
<1>3. ASSUME NEW i \in Iface, Receive(i)
      PROVE  AnswerInv'
  BY <1>3 DEF Receive, InsertCall
<1>4. CASE LooksUp
  BY <1>4 DEF LooksUp, LookupCall
<1>5. CASE Forward
  BY <1>5 DEF Forward
<1>6. CASE Lookup /\ todo # "open" /\ UNCHANGED <<loopVars, netVars>>
  <2>1. todo = "forward" /\ caller.mac = frame.dst /\ caller'.pc = "out"
    BY <1>0, <1>6 DEF Lookup, CallerUnlocks, Out
  <2>2. frame.dst \in Still => output' \in {NULL, location[frame.dst]}
    BY <1>6, <2>1, LookupAnswers
  <2>. QED  BY <1>6, <2>1, <2>2 DEF Still
<1>7. CASE TableMoves /\ ~Lookup
  <2>1. UNCHANGED <<output, frame, todo, location, moved>>
    BY <1>7 DEF TableMoves, InsertLock, Insert, LookupLock, CallerLocks, SweepStart, SweepLock,
       SweepEntry, SweepBucket, SweepUnlock, Tick
  <2>2. \/ caller.pc = "insert" /\ caller'.pc = "insert_locked"
        \/ caller.pc = "insert_locked" /\ caller'.pc = "out"
        \/ caller.pc = "lookup" /\ caller'.pc = "lookup_locked" /\ caller'.mac = caller.mac
        \/ caller'.pc = caller.pc /\ caller'.mac = caller.mac
    BY <1>0, <1>7 DEF TableMoves, InsertLock, Insert, LookupLock, CallerLocks, CallerUnlocks,
       SweepStart, SweepLock, SweepEntry, SweepBucket, SweepUnlock, Tick, Out, Caller
  <2>. QED  BY <1>0, <2>1, <2>2 DEF Still
<1>8. ASSUME NEW g \in Host, NEW d \in Mac \ {g}, HostSends(g, d)
      PROVE  AnswerInv'
  <2>1. \A h \in Still' : h \in Still /\ location'[h] = location[h]
    BY StillHost
  <2>2. UNCHANGED <<caller, output, frame, todo>>
    BY <1>8 DEF HostSends
  <2>. QED  BY <2>1, <2>2
<1>9. CASE StartLoop
  BY <1>9 DEF StartLoop
<1>10. \/ \E g \in Host, i \in Iface : HostMoves(g, i)
       \/ \E g \in Host : \E d \in Mac \ {g} : HostSends(g, d)
       \/ StartLoop
       \/ \E i \in Iface : Receive(i)
       \/ LooksUp \/ Forward \/ TableMoves
       \/ UNCHANGED <<caller, output, frame, todo, location, moved>>
  BY SwitchSteps DEF OpensPorts, CreateSocket, BindSocket, OpenFails, Poll, Drop, switchVars
<1>. QED  BY <1>1, <1>2, <1>3, <1>4, <1>5, <1>6, <1>7, <1>8, <1>9, <1>10 DEF TableMoves

-----------------------------------------------------------------------------
(***************************************************************************)
(* The theorems.                                                           *)
(***************************************************************************)

\* The inductive invariant.
SwitchInv == LoopInv /\ KnownInv /\ AnswerInv

\* It holds when the program starts.
LEMMA SwitchStarts ==
  ASSUME SwitchInit
  PROVE  SwitchInv
<1>1. TypeOK
  BY InitIsTyped DEF SwitchInit
<1>2. <<>> \in Seq(Captured) /\ Len(<<>>) = 0
  BY EmptySeq
<1>3. LoopInv
  BY <1>1, <1>2 DEF SwitchInit, LoopInv, SwitchTypeOK, ReadyInv
<1>4. ASSUME NEW h \in Host
      PROVE  ~Misdirected(h) /\ CallerKnows(h) /\ FramesKnow(h)
  <2>1. Hash[h] \in Bucket
    BY HashAssumption, HostAssumption DEF Bucket
  <2>2. DOMAIN hash_table[Hash[h]] = {}
    BY <2>1 DEF SwitchInit, Init
  <2>. QED  BY <1>2, <2>2 DEF SwitchInit, Init, Out, Misdirected, Places, CallerKnows,
            FramesKnow
<1>5. AnswerInv
  BY DEF SwitchInit, Init, Out, AnswerInv
<1>. QED  BY <1>3, <1>4, <1>5 DEF SwitchInv, KnownInv, Still

\* It holds as long as the program runs.
LEMMA SwitchGoesOn == SwitchSpec => []SwitchInv
<1>1. SwitchInv /\ [SwitchNext]_switchVars => SwitchInv'
  BY LoopStep, KnownStep, AnswerStep DEF SwitchInv
<1>. QED  BY SwitchStarts, <1>1, PTL DEF SwitchSpec

\* The loop of main.c holds a frame exactly while handle_packet runs, and keeps
\* the types of the table it calls.
THEOREM SwitchTypeCorrect == SwitchSpec => []SwitchTypeOK
<1>1. SwitchInv => SwitchTypeOK
  BY DEF SwitchInv, LoopInv
<1>. QED  BY SwitchGoesOn, <1>1, PTL

\* Wherever the frames of a host are between its port and the table, and
\* whatever the sockets capture of the frames that broadcast_packet sends, the
\* table has no other port for a host than the one it has always been on.
THEOREM StillHostsStayKnown == SwitchSpec => []StillHostsAreKnown
<1>1. SwitchInv => StillHostsAreKnown
  BY DEF SwitchInv, KnownInv, StillHostsAreKnown
<1>. QED  BY SwitchGoesOn, <1>1, PTL

\* handle_packet sends each frame so that a destination that has stayed where
\* it was, on a port that was opened, gets it, or has heard it: the answer of lookup_port is right or none,
\* though the sweeper may have removed the entry since, and with none
\* broadcast_packet misses no other port.
THEOREM StillHostsAreReached == SwitchSpec => []FramesReachStillHosts
<1>1. ASSUME SwitchInv
      PROVE  FramesReachStillHosts
  <2>. SUFFICES ASSUME todo = "forward", caller.pc = "out", frame.dst \in Still,
                       fd[location[frame.dst]] = "bound"
                PROVE  location[frame.dst] \in Outputs \cup {frame.iface}
    BY DEF FramesReachStillHosts
  <2>1. location[frame.dst] \in Sendable
    BY <1>1 DEF SwitchInv, LoopInv, SwitchTypeOK, Still, Sendable
  <2>2. output \in {NULL, location[frame.dst]}
    BY <1>1 DEF SwitchInv, AnswerInv
  <2>. QED  BY <2>1, <2>2 DEF Outputs, Flood, Sendable
<1>. QED  BY SwitchGoesOn, <1>1, PTL

\* The receive loop calls the table as mac.c expects: what MacTable shows of
\* the lists and the mutex holds of the switch.
THEOREM TableStaysSound == SwitchSpec => [](BucketsAreSound /\ MutexIsHeldInside)
<1>1. SwitchInit => BucketsAreSound /\ MutexIsHeldInside
  <2>. SUFFICES ASSUME Init
                PROVE  BucketsAreSound /\ MutexIsHeldInside
    BY DEF SwitchInit
  <2>1. \A b \in Bucket : DOMAIN hash_table[b] = {}
    BY DEF Init
  <2>. QED  BY <2>1 DEF Init, BucketsAreSound, MutexIsHeldInside, Out, Asleep
<1>2. ASSUME SwitchInv, SwitchInv', BucketsAreSound, MutexIsHeldInside, [SwitchNext]_switchVars
      PROVE  BucketsAreSound' /\ MutexIsHeldInside'
  <2>1. LoopInv /\ TypeOK /\ TypeOK'
    BY <1>2 DEF SwitchInv, LoopInv, SwitchTypeOK
  <2>2. CASE [Next]_vars
    <3>1. \A b \in Bucket : BucketIsSound(b)
      BY <1>2, <2>1, BucketsAreSoundByPlace
    <3>2. \A b \in Bucket : BucketIsSound(b)'
      BY <2>1, <2>2, <3>1, BucketsStep
    <3>3. ASSUME NEW b \in Bucket
          PROVE  DOMAIN hash_table'[b] = 1..Len(hash_table'[b])
      <4>1. hash_table'[b] \in Seq(Entry)
        BY <2>1 DEF TypeOK
      <4>. QED  BY <4>1, LenProperties
    <3>4. BucketsAreSound'
      BY <3>2, <3>3 DEF BucketsAreSound, BucketIsSound
    <3>. QED  BY <1>2, <2>1, <2>2, <3>4, MutexStep
  <2>3. CASE UNCHANGED <<hash_table, lock, caller, sweeper>>
    BY <1>2, <2>3 DEF BucketsAreSound, MutexIsHeldInside
  <2>. QED  BY <1>2, <2>1, <2>2, <2>3, TableIsCalled
<1>. QED  BY SwitchGoesOn, <1>1, <1>2, PTL DEF SwitchSpec
-----------------------------------------------------------------------------
(***************************************************************************)
(* What the table has of a host that was plugged into another port: this   *)
(* is what TableSettles rests on.                                          *)
(***************************************************************************)

\* Once the loop runs, no socket hears the whole process any more.
OpenedInv == todo # "open" => \A i \in Iface : fd[i] \in {"bound", "failed"}

\* Only init_ustack opens ports, and it ends when all have been tried.
LEMMA OpenedStep ==
  ASSUME OpenedInv, [SwitchNext]_switchVars
  PROVE  OpenedInv'
<1>1. CASE OpensPorts
  BY <1>1 DEF OpensPorts, CreateSocket, BindSocket, OpenFails, Opening, StartLoop, loopVars,
     OpenedInv
<1>2. CASE UNCHANGED fd /\ (todo = "open" => todo' = "open")
  BY <1>2 DEF OpenedInv
<1>. QED  BY <1>1, <1>2, SwitchSteps DEF HostSends, HostMoves, Poll, Drop, Receive, Serves,
          LooksUp, Forward, TableMoves, loopVars, switchVars

\* The frames of h from another port than its own have been read and stored.
Told(h) == CallerKnows(h) /\ FramesKnow(h)

\* The only entry for an address says how old what is known of it is.
LEMMA OnlyEntry ==
  ASSUME TypeOK, BucketsAreSound, NEW m \in Mac, NEW k \in Places(m)
  PROVE  Places(m) = {k} /\ AgeOf(m) = hash_table[Hash[m]][k].age
<1>1. Hash[m] \in Bucket
  BY HashAssumption DEF Bucket
<1>2. Places(m) = {k}
  BY <1>1 DEF Places, BucketsAreSound
<1>3. k \in Nat
  BY <1>1, BucketType DEF Places
<1>4. FoundAt(m, k) /\ \A j \in Places(m) : FoundAt(m, j) => j = k
  BY <1>2, <1>3 DEF FoundAt
<1>5. (CHOOSE j \in Places(m) : FoundAt(m, j)) = k
  BY <1>4
<1>. QED  BY <1>2, <1>5 DEF AgeOf

\* The same of the lists after a step.
LEMMA OnlyEntryThen ==
  ASSUME TypeOK', BucketsAreSound', NEW m \in Mac, NEW k \in Places(m)'
  PROVE  AgeOf(m)' = hash_table'[Hash[m]][k].age
<1>1. Hash[m] \in Bucket
  BY HashAssumption DEF Bucket
<1>2. Places(m)' = {k}
  BY <1>1 DEF Places, BucketsAreSound
<1>3. hash_table'[Hash[m]] \in Seq(Entry)
  BY <1>1 DEF TypeOK
<1>4. k \in Nat
  BY <1>3, LenProperties DEF Places
<1>5. FoundAt(m, k)' /\ \A j \in Places(m)' : FoundAt(m, j)' => j = k
  BY <1>2, <1>4 DEF FoundAt
<1>6. (CHOOSE j \in Places(m)' : FoundAt(m, j)') = k
  BY <1>5
<1>. QED  BY <1>2, <1>6 DEF AgeOf

\* "in case the host moved": once the frames that a host sent from its old port,
\* and those that an unbound socket captured, have been read, insert_mac_port is
\* never called with a wrong port for it again, in whatever order the ports are
\* served; so a wrong entry is not made, nor made any younger, and only waits for
\* the sweeper.
THEOREM WrongPortsOnlyAge ==
  SwitchSpec => [][\A h \in Host : todo # "open" /\ location'[h] = location[h] /\ Told(h) =>
                     /\ Told(h)'
                     /\ Misdirected(h)' =>
                          /\ Misdirected(h)
                          /\ AgeOf(h)' = IF Tick THEN AgeOf(h) + 1 ELSE AgeOf(h)]_switchVars
<1> DEFINE Settles(h) == /\ Told(h)'
                         /\ Misdirected(h)' =>
                              /\ Misdirected(h)
                              /\ AgeOf(h)' = IF Tick THEN AgeOf(h) + 1 ELSE AgeOf(h)
           Settle == \A h \in Host :
                       todo # "open" /\ location'[h] = location[h] /\ Told(h) => Settles(h)
<1>1. SwitchInit => OpenedInv
  BY DEF SwitchInit, OpenedInv
<1>2. OpenedInv /\ [SwitchNext]_switchVars => OpenedInv'
  BY OpenedStep
<1>3. ASSUME SwitchInv, SwitchInv', OpenedInv, BucketsAreSound, BucketsAreSound',
             [SwitchNext]_switchVars
      PROVE  Settle
  <2>. SUFFICES ASSUME NEW h \in Host, todo # "open", location'[h] = location[h], Told(h)
                PROVE  Settles(h)
    OBVIOUS
  <2>1. /\ LoopInv /\ TypeOK /\ TypeOK' /\ h \in Mac
        /\ CallerKnows(h) /\ FramesKnow(h) /\ location[h] \in Iface
    BY <1>3, HostAssumption DEF SwitchInv, LoopInv, SwitchTypeOK, Told
  <2>2. Listening(location[h]) \subseteq {location[h]}
    BY <1>3 DEF OpenedInv, Listening
  <2>3. Told(h)'
    BY <1>3, <2>1, <2>2, CallerStep, FramesStep DEF Told
  <2>4. ASSUME Misdirected(h)'
        PROVE  /\ Misdirected(h)
               /\ AgeOf(h)' = IF Tick THEN AgeOf(h) + 1 ELSE AgeOf(h)
    <3>1. PICK k \in Places(h)' : hash_table'[Hash[h]][k].iface # location'[h]
      BY <2>4 DEF Misdirected
    <3>2. PICK j \in Places(h) :
            /\ hash_table[Hash[h]][j].iface # location[h]
            /\ hash_table'[Hash[h]][k].age = IF Tick THEN hash_table[Hash[h]][j].age + 1
                                             ELSE hash_table[Hash[h]][j].age
      BY <1>3, <2>1, <3>1, EntriesStep
    <3>3. AgeOf(h) = hash_table[Hash[h]][j].age
      BY <1>3, <2>1, OnlyEntry
    <3>4. AgeOf(h)' = hash_table'[Hash[h]][k].age
      BY <1>3, <2>1, <3>1, OnlyEntryThen
    <3>. QED  BY <3>2, <3>3, <3>4 DEF Misdirected
  <2>. QED  BY <2>3, <2>4
<1>. HIDE DEF Settle
<1>4. SwitchInv /\ SwitchInv' /\ OpenedInv /\ BucketsAreSound /\ BucketsAreSound'
      /\ [SwitchNext]_switchVars => [Settle]_switchVars
  BY <1>3
<1>5. SwitchSpec => [][Settle]_switchVars
  BY <1>1, <1>2, <1>4, SwitchGoesOn, TableStaysSound, PTL DEF SwitchSpec
<1>. QED  BY <1>5 DEF Settle

\* Whatever the receive loop inserts and however long it works on a frame, no
\* entry outlives its timeout by more than three delays: a wrong one is gone
\* then.
THEOREM SwitchForgetsInTime == SwitchSpec => []NothingOutlivesTheLimit
<1> DEFINE Ages == Timely /\ AgesAreBounded /\ VisitedIsFresh
<1>1. SwitchInit => Ages
  BY AgesStart DEF SwitchInit
<1>2. SwitchInv /\ MutexIsHeldInside /\ Ages /\ [SwitchNext]_switchVars => Ages'
  <2>. SUFFICES ASSUME SwitchInv, MutexIsHeldInside, Ages, [SwitchNext]_switchVars
                PROVE  Ages'
    OBVIOUS
  <2>1. LoopInv /\ TypeOK
    BY DEF SwitchInv, LoopInv, SwitchTypeOK
  <2>2. CASE [Next]_vars
    BY <2>1, <2>2, TimelyStep, AgesStep
  <2>3. CASE UNCHANGED <<hash_table, lock, caller, sweeper>>
    BY <2>3 DEF Timely, Inserting, AgesAreBounded, AgeBound, VisitedIsFresh, Visited
  <2>. QED  BY <2>1, <2>2, <2>3, TableIsCalled
<1>3. SwitchInv /\ Ages => NothingOutlivesTheLimit
  BY AgesKeepLimit DEF SwitchInv, LoopInv, SwitchTypeOK
<1>. HIDE DEF Ages
<1>. QED  BY <1>1, <1>2, <1>3, SwitchGoesOn, TableStaysSound, PTL DEF SwitchSpec
=============================================================================
