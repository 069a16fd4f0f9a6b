------------------------------ MODULE MacTable ------------------------------
(***************************************************************************)
(* The MAC table of "P3 Hub Switch/switch/mac.c": a hash table of lists    *)
(* behind one mutex, used by two threads.  The receive loop (the caller)   *)
(* inserts the source of every frame and looks up its destination; the     *)
(* sweeper wakes up every second and removes the entries that have aged.   *)
(*                                                                         *)
(* Both threads read the clock before they wait for the mutex, so an entry *)
(* is stamped, and an entry is judged, with a time that may be past.  The  *)
(* model keeps no absolute time: an entry holds its age, which is          *)
(* time(NULL) - visited, and a thread the time since it read the clock.    *)
(* The clock is assumed never to be set back.                              *)
(***************************************************************************)
EXTENDS Integers, Sequences, SequencesExt

CONSTANTS
  Mac,               \* the addresses
  Iface,             \* the ports of the switch
  NULL,              \* no port
  HASH_8BITS,        \* the number of buckets
  Hash,              \* hash8, the bucket of every address
  MAC_PORT_TIMEOUT,  \* seconds after which an unused entry has aged
  MaxDelay           \* the longest a thread waits, holds the mutex or sleeps

ASSUME NullAssumption == NULL \notin Iface

ASSUME HashAssumption == /\ HASH_8BITS \in Nat \ {0}
                         /\ Hash \in [Mac -> 0..HASH_8BITS - 1]

ASSUME TimeAssumption == MAC_PORT_TIMEOUT \in Nat /\ MaxDelay \in Nat \ {0}

VARIABLES
  hash_table,  \* the list of entries of every bucket
  lock,        \* the thread that holds the mutex, or "free"
  caller,      \* where the receive loop is in insert_mac_port or lookup_port
  output,      \* what its last lookup_port returned
  sweeper      \* where the sweeping thread is

vars == <<hash_table, lock, caller, output, sweeper>>

Bucket == 0..HASH_8BITS - 1

Entry == [mac : Mac, iface : Iface, age : Nat]

\* lag is the time since the thread read the clock; for a sweeper that is
\* asleep it is the time it has slept.
Caller == [pc : {"out", "insert", "insert_locked", "lookup", "lookup_locked"},
           mac : Mac \cup {NULL}, iface : Iface \cup {NULL}, lag : Nat]

Sweeper == [pc : {"asleep", "waiting", "sweeping"},
            lag : Nat, bucket : Bucket, position : Nat \ {0}]

Out == [pc |-> "out", mac |-> NULL, iface |-> NULL, lag |-> 0]

Asleep == [pc |-> "asleep", lag |-> 0, bucket |-> 0, position |-> 1]

\* The types of the variables, and what insert_mac_port and lookup_port have
\* been given when they run.
TypeOK ==
  /\ hash_table \in [Bucket -> Seq(Entry)]
  /\ lock \in {"free", "caller", "sweeper"}
  /\ caller \in Caller
  /\ caller.pc # "out" => caller.mac \in Mac
  /\ caller.pc \in {"insert", "insert_locked"} => caller.iface \in Iface
  /\ output \in Iface \cup {NULL}
  /\ sweeper \in Sweeper

Init ==
  /\ hash_table = [b \in Bucket |-> <<>>]
  /\ lock = "free"
  /\ caller = Out
  /\ output = NULL
  /\ sweeper = Asleep

-----------------------------------------------------------------------------
(***************************************************************************)
(* The receive loop.                                                       *)
(***************************************************************************)

\* The places of the entries for m in its bucket.
Places(m) == {k \in DOMAIN hash_table[Hash[m]] : hash_table[Hash[m]][k].mac = m}

\* k is where the loop over the bucket of m stops.
FoundAt(m, k) == k \in Places(m) /\ \A j \in Places(m) : k <= j

\* insert_mac_port reads the clock before it takes the mutex.
InsertCall(m, i) ==
  /\ caller.pc = "out"
  /\ caller' = [pc |-> "insert", mac |-> m, iface |-> i, lag |-> 0]
  /\ UNCHANGED <<hash_table, lock, output, sweeper>>

LookupCall(m) ==
  /\ caller.pc = "out"
  /\ caller' = [pc |-> "lookup", mac |-> m, iface |-> NULL, lag |-> 0]
  /\ UNCHANGED <<hash_table, lock, output, sweeper>>

CallerLocks(before, after) ==
  /\ caller.pc = before
  /\ lock = "free"
  /\ lock' = "caller"
  /\ caller' = [caller EXCEPT !.pc = after]
  /\ UNCHANGED <<hash_table, output, sweeper>>

InsertLock == CallerLocks("insert", "insert_locked")

LookupLock == CallerLocks("lookup", "lookup_locked")

CallerUnlocks == lock' = "free" /\ caller' = Out

\* What the caller knows of the address it inserts.
Seen == [mac |-> caller.mac, iface |-> caller.iface, age |-> caller.lag]

Stored(m) == hash_table' = [hash_table EXCEPT ![Hash[m]] = Append(@, Seen)]

\* Mutants of Insert: every frame adds an entry; the early return forgets the
\* mutex.
InsertTwice ==
  /\ caller.pc = "insert_locked"
  /\ Stored(caller.mac)
  /\ CallerUnlocks
  /\ UNCHANGED <<output, sweeper>>

InsertKeepsLock ==
  LET m == caller.mac
  IN  /\ caller.pc = "insert_locked"
      /\ \/ \E k \in Places(m) :
              /\ FoundAt(m, k)
              /\ hash_table' = [hash_table EXCEPT ![Hash[m]][k] = Seen]
              /\ caller' = Out
              /\ UNCHANGED lock
         \/ Places(m) = {} /\ Stored(m) /\ CallerUnlocks
      /\ UNCHANGED <<output, sweeper>>

\* Insert takes the entry it finds, or adds one at the end of the bucket;
\* nothing is stored when malloc fails.
Insert ==
  LET m == caller.mac
  IN  /\ caller.pc = "insert_locked"
      /\ \/ \E k \in Places(m) :
              /\ FoundAt(m, k)
              /\ hash_table' = [hash_table EXCEPT ![Hash[m]][k] = Seen]
         \/ Places(m) = {} /\ (Stored(m) \/ UNCHANGED hash_table)
      /\ CallerUnlocks
      /\ UNCHANGED <<output, sweeper>>

Lookup ==
  LET m == caller.mac
  IN  /\ caller.pc = "lookup_locked"
      /\ \/ \E k \in Places(m) :
              FoundAt(m, k) /\ output' = hash_table[Hash[m]][k].iface
         \/ Places(m) = {} /\ output' = NULL
      /\ CallerUnlocks
      /\ UNCHANGED <<hash_table, sweeper>>

-----------------------------------------------------------------------------
(***************************************************************************)
(* The sweeping thread.                                                    *)
(***************************************************************************)

\* Mutant of SweepStart: there is no sweeping thread.
NoSweep == FALSE /\ UNCHANGED <<hash_table, lock, caller, output, sweeper>>

\* sleep(1) has returned; sweep_aged_mac_port_entry reads the clock.
SweepStart ==
  /\ sweeper.pc = "asleep"
  /\ sweeper.lag >= 1
  /\ sweeper' = [Asleep EXCEPT !.pc = "waiting"]
  /\ UNCHANGED <<hash_table, lock, caller, output>>

SweepLock ==
  /\ sweeper.pc = "waiting"
  /\ lock = "free"
  /\ lock' = "sweeper"
  /\ sweeper' = [sweeper EXCEPT !.pc = "sweeping"]
  /\ UNCHANGED <<hash_table, caller, output>>

\* Mutant of HasAged: an entry goes a second too early.
HasAgedEarly(e) == e.age - sweeper.lag >= MAC_PORT_TIMEOUT

\* The entry is judged with the time the sweep began at.
HasAged(e) == e.age - sweeper.lag > MAC_PORT_TIMEOUT

\* Mutant of SweepEntry: the entry after a deleted one is passed over.
SweepUnsafely ==
  LET b == sweeper.bucket
      k == sweeper.position
  IN  /\ sweeper.pc = "sweeping"
      /\ k \in DOMAIN hash_table[b]
      /\ hash_table' = [hash_table EXCEPT ![b] =
                         IF HasAged(@[k]) THEN RemoveAt(@, k) ELSE @]
      /\ sweeper' = [sweeper EXCEPT !.position = k + 1]
      /\ UNCHANGED <<lock, caller, output>>

\* list_for_each_entry_safe: the entry after a deleted one comes next.
SweepEntry ==
  LET b == sweeper.bucket
      k == sweeper.position
  IN  /\ sweeper.pc = "sweeping"
      /\ k \in DOMAIN hash_table[b]
      /\ \/ /\ HasAged(hash_table[b][k])
            /\ hash_table' = [hash_table EXCEPT ![b] = RemoveAt(@, k)]
            /\ UNCHANGED sweeper
         \/ /\ ~HasAged(hash_table[b][k])
            /\ sweeper' = [sweeper EXCEPT !.position = k + 1]
            /\ UNCHANGED hash_table
      /\ UNCHANGED <<lock, caller, output>>

AtBucketEnd ==
  sweeper.pc = "sweeping" /\ sweeper.position \notin DOMAIN hash_table[sweeper.bucket]

SweepBucket ==
  /\ AtBucketEnd
  /\ sweeper.bucket + 1 \in Bucket
  /\ sweeper' = [sweeper EXCEPT !.bucket = @ + 1, !.position = 1]
  /\ UNCHANGED <<hash_table, lock, caller, output>>

\* The sweep is over and the thread goes back to sleep(1).
SweepUnlock ==
  /\ AtBucketEnd
  /\ sweeper.bucket + 1 \notin Bucket
  /\ lock' = "free"
  /\ sweeper' = Asleep
  /\ UNCHANGED <<hash_table, caller, output>>

-----------------------------------------------------------------------------
(***************************************************************************)
(* Time.  MaxDelay bounds how long insert_mac_port and a sweep take from   *)
(* reading the clock to the unlock, and how long the sweeper sleeps.       *)
(***************************************************************************)

Inserting == caller.pc \in {"insert", "insert_locked"}

Tick ==
  /\ Inserting => caller.lag < MaxDelay
  /\ sweeper.lag < MaxDelay
  /\ hash_table' = [b \in Bucket |-> [k \in DOMAIN hash_table[b] |->
                      [hash_table[b][k] EXCEPT !.age = @ + 1]]]
  /\ caller' = IF Inserting THEN [caller EXCEPT !.lag = @ + 1] ELSE caller
  /\ sweeper' = [sweeper EXCEPT !.lag = @ + 1]
  /\ UNCHANGED <<lock, output>>

Next ==
  \/ \E m \in Mac, i \in Iface : InsertCall(m, i)
  \/ \E m \in Mac : LookupCall(m)
  \/ InsertLock \/ Insert
  \/ LookupLock \/ Lookup
  \/ SweepStart \/ SweepLock \/ SweepEntry \/ SweepBucket \/ SweepUnlock
  \/ Tick

Spec == Init /\ [][Next]_vars

-----------------------------------------------------------------------------
(***************************************************************************)
(* Properties.                                                             *)
(***************************************************************************)

\* An address has at most one entry, and that is in the bucket it hashes to
\* (mac.c inserts after a search that sees every entry for the address, and
\* the sweeper removes entries in between).
BucketsAreSound ==
  \A b \in Bucket :
    \A j, k \in DOMAIN hash_table[b] :
      /\ Hash[hash_table[b][k].mac] = b
      /\ hash_table[b][j].mac = hash_table[b][k].mac => j = k

\* The mutex is held by the thread that works on the lists, for exactly as
\* long as it does (every return of mac.c unlocks).
MutexIsHeldInside ==
  /\ lock = "caller" <=> caller.pc \in {"insert_locked", "lookup_locked"}
  /\ lock = "sweeper" <=> sweeper.pc = "sweeping"

\* An entry can be this old: it had just not aged when a sweep began, that
\* sweep took MaxDelay, the sleep took MaxDelay, and so did the next sweep.
Limit == MAC_PORT_TIMEOUT + 3 * MaxDelay

\* "remove the entry which has not been visited in the last 30 seconds": no
\* entry outlives its timeout by more than a period of the sweeper, whatever
\* the receive loop inserts in the meantime.
NothingOutlivesTheLimit ==
  \A b \in Bucket : \A k \in DOMAIN hash_table[b] : hash_table[b][k].age <= Limit

\* The port and the age the table holds for an address.
PortOf(m) == IF Places(m) = {} THEN NULL
             ELSE hash_table[Hash[m]][CHOOSE k \in Places(m) : FoundAt(m, k)].iface

AgeOf(m) == IF Places(m) = {} THEN 0
            ELSE hash_table[Hash[m]][CHOOSE k \in Places(m) : FoundAt(m, k)].age

Table == INSTANCE ForwardingTable
           WITH port <- [m \in Mac |-> PortOf(m)],
                age <- [m \in Mac |-> AgeOf(m)],
                answer <- output

\* The table is a ForwardingTable: it answers with the port it was told last,
\* and forgets an address only after more than MAC_PORT_TIMEOUT seconds
\* without a frame from it, though a sweep judges by a time that is past.
ImplementsTable == Table!Spec
=============================================================================
