------------------------------ MODULE HubProofs ------------------------------
(***************************************************************************)
(* Proofs about the hub program, for every network, every origin of the    *)
(* frames and every bound.                                                 *)
(***************************************************************************)
EXTENDS Hub, SequenceTheorems, FiniteSetTheorems, TLAPS

-----------------------------------------------------------------------------
(***************************************************************************)
(* Types.                                                                  *)
(***************************************************************************)

\* The part of the types an action may rely on one by one.
OpeningInv ==
  /\ started \subseteq Station
  /\ todo \in [Station -> Seq(Station \cup Host)]
  /\ \A b \in Station : \E n \in 1..(Len(Iface[b]) + 1) :
       /\ todo[b] = SubSeq(Iface[b], n, Len(Iface[b]))
       /\ b \notin started => todo[b] = <<>>
  /\ fd \in [Port -> {"none", "unbound", "bound"}]
  /\ used \subseteq Port

\* What the sockets may have captured.
Buffers(q) ==
  /\ q \in [Port -> Seq(Record)]
  /\ \A i \in Port : Len(q[i]) <= MaxQueue

QueueInv == Buffers(queue)

CountInv ==
  /\ sent \subseteq Frame /\ IsFiniteSet(sent) /\ Cardinality(sent) <= MaxSent
  /\ troubles \in 0..MaxTrouble
  /\ got \in [Host -> [Frame -> 0..2]]
  /\ intact \subseteq sent /\ stray \subseteq sent

\* The neighbours of a station are a sequence, and an interface is a pair.
LEMMA Neighbours ==
  ASSUME NEW b \in Station
  PROVE  /\ Iface[b] \in Seq(Station \cup Host) /\ Iface[b] # <<>>
         /\ Len(Iface[b]) \in Nat \ {0}
         /\ \A n \in 1..Len(Iface[b]) : <<b, Iface[b][n]>> \in Port
<1>1. Iface[b] \in Seq(Station \cup Host) /\ Iface[b] # <<>>
  BY IfaceAssumption
<1>2. DOMAIN Iface[b] = 1..Len(Iface[b]) /\ Len(Iface[b]) \in Nat \ {0}
  BY <1>1, LenProperties, EmptySeq
<1>3. ASSUME NEW n \in 1..Len(Iface[b])
      PROVE  <<b, Iface[b][n]>> \in Port
  <2>1. Iface[b][n] \in ToSet(Iface[b])
    BY <1>2 DEF ToSet
  <2>. QED  BY <2>1 DEF Port
<1>. QED  BY <1>1, <1>2, <1>3

\* An interface is a station and one of its neighbours.
LEMMA PortIsPair ==
  ASSUME NEW i \in Port
  PROVE  i[1] \in Station /\ i[2] \in Station \cup Host /\ i = <<i[1], i[2]>>
<1>1. PICK b \in Station : i \in {b} \X ToSet(Iface[b])
  BY DEF Port
<1>2. ToSet(Iface[b]) \subseteq Station \cup Host
  <2>1. Iface[b] \in Seq(Station \cup Host) /\ DOMAIN Iface[b] = 1..Len(Iface[b])
    BY Neighbours, LenProperties
  <2>2. \A n \in 1..Len(Iface[b]) : Iface[b][n] \in Station \cup Host
    BY <2>1, ElementOfSeq
  <2>. QED  BY <2>1, <2>2 DEF ToSet
<1>. QED  BY <1>1, <1>2

\* What a process that opens its interfaces is at, and what is left then.
LEMMA CurrentIsPort ==
  ASSUME OpeningInv, NEW b \in Station, Opening(b)
  PROVE  /\ Current(b) \in Port /\ Current(b)[1] = b
         /\ b \in started
         /\ Tail(todo[b]) \in Seq(Station \cup Host)
         /\ \E n \in 1..(Len(Iface[b]) + 1) :
              Tail(todo[b]) = SubSeq(Iface[b], n, Len(Iface[b]))
<1>1. PICK n \in 1..(Len(Iface[b]) + 1) : todo[b] = SubSeq(Iface[b], n, Len(Iface[b]))
  BY DEF OpeningInv
<1>2. todo[b] # <<>> /\ todo[b] \in Seq(Station \cup Host) /\ b \in started
  BY DEF OpeningInv, Opening
<1>3. /\ Iface[b] \in Seq(Station \cup Host) /\ Len(Iface[b]) \in Nat \ {0}
      /\ \A m \in 1..Len(Iface[b]) : <<b, Iface[b][m]>> \in Port
  BY Neighbours
<1>4. n <= Len(Iface[b])
  <2>1. ~(n <= Len(Iface[b])) => SubSeq(Iface[b], n, Len(Iface[b])) = <<>>
    BY <1>3, SubSeqEmpty
  <2>. QED  BY <1>1, <1>2, <2>1
<1>5. /\ Head(todo[b]) = Iface[b][n]
      /\ Tail(todo[b]) = SubSeq(Iface[b], n + 1, Len(Iface[b]))
  BY <1>1, <1>3, <1>4, HeadTailOfSubSeq
<1>6. Tail(todo[b]) \in Seq(Station \cup Host)
  BY <1>2, HeadTailProperties
<1>7. n \in 1..Len(Iface[b]) /\ n + 1 \in 1..(Len(Iface[b]) + 1)
  BY <1>3, <1>4
<1>. QED  BY <1>2, <1>3, <1>5, <1>6, <1>7 DEF Current

-----------------------------------------------------------------------------
(***************************************************************************)
(* A frame on the wires.                                                   *)
(***************************************************************************)

\* A socket captures one of the records, unless there is none or it is full.
LEMMA CaptureResult ==
  ASSUME NEW q \in Seq(Record), Len(q) <= MaxQueue, NEW R \in SUBSET Record
  PROVE  /\ Capture(q, R) \in Seq(Record)
         /\ Len(Capture(q, R)) <= MaxQueue
         /\ \/ Capture(q, R) = q
            \/ Len(q) < MaxQueue /\ \E r \in R : Capture(q, R) = Append(q, r)
         /\ R # {} /\ Len(q) < MaxQueue =>
              /\ Len(Capture(q, R)) = Len(q) + 1
              /\ \E r \in R : Capture(q, R) = Append(q, r)
<1>1. Len(q) \in Nat /\ MaxQueue \in Nat
  BY BoundAssumption, LenProperties
<1>2. CASE R = {} \/ Len(q) = MaxQueue
  BY <1>1, <1>2 DEF Capture
<1>3. CASE R # {} /\ Len(q) # MaxQueue
  <2> DEFINE r == CHOOSE r \in R : TRUE
  <2>1. r \in R /\ r \in Record
    BY <1>3
  <2>2. Capture(q, R) = Append(q, r)
    BY <1>3 DEF Capture
  <2>. HIDE DEF r
  <2>3. Append(q, r) \in Seq(Record) /\ Len(Append(q, r)) = Len(q) + 1
    BY <2>1, AppendProperties
  <2>. QED  BY <1>1, <1>3, <2>1, <2>2, <2>3
<1>. QED  BY <1>2, <1>3

\* What is captured says where it came in through, when all sockets that heard
\* it were bound.
LEMMA CapturedRecords ==
  ASSUME NEW f \in Frame, NEW out \in SUBSET (Port \cup (Host \X Station)), NEW j \in Port
  PROVE  /\ \A r \in Captured(j, f, out) : r \in Record /\ r.frame = f /\ ~r.out
         /\ fd[j] = "bound" /\ Opposite(j) \in out => Incoming(f, j[2]) \in Captured(j, f, out)
         /\ fd[j] # "unbound" =>
              \A r \in Captured(j, f, out) :
                fd[j] = "bound" /\ Opposite(j) \in out /\ r = Incoming(f, j[2])
<1>1. ASSUME NEW r \in Captured(j, f, out)
      PROVE  /\ r \in Record /\ r.frame = f /\ ~r.out
             /\ fd[j] # "unbound" =>
                  fd[j] = "bound" /\ Opposite(j) \in out /\ r = Incoming(f, j[2])
  <2>1. PICK o \in out : /\ Opposite(o) \in Port /\ j \in Listening(Opposite(o))
                         /\ r = Incoming(f, o[1])
    BY DEF Captured
  <2>2. o[1] \in Station \cup Host
    <3>1. Opposite(o)[2] \in Station \cup Host
      BY <2>1, PortIsPair
    <3>. QED  BY <3>1 DEF Opposite
  <2>3. r \in Record /\ r.frame = f /\ ~r.out
    BY <2>1, <2>2 DEF Incoming, Record
  <2>4. ASSUME fd[j] # "unbound"
        PROVE  fd[j] = "bound" /\ Opposite(j) \in out /\ r = Incoming(f, j[2])
    <3>1. j = Opposite(o) /\ fd[j] = "bound"
      BY <2>1, <2>4 DEF Listening
    <3>2. o = <<o[1], o[2]>>
      <4>1. o \in Port \/ o \in Host \X Station
        OBVIOUS
      <4>. QED  BY <4>1, PortIsPair
    <3>. QED  BY <2>1, <3>1, <3>2 DEF Opposite
  <2>. QED  BY <2>3, <2>4
<1>2. ASSUME fd[j] = "bound", Opposite(j) \in out
      PROVE  Incoming(f, j[2]) \in Captured(j, f, out)
  <2>1. Opposite(Opposite(j)) = j /\ Opposite(j)[1] = j[2]
    BY PortIsPair DEF Opposite
  <2>2. j \in Listening(j)
    BY <1>2 DEF Listening
  <2>. QED  BY <1>2, <2>1, <2>2 DEF Captured
<1>. QED  BY <1>1, <1>2

\* The buffers q2 that sockets with buffers q have when f was put on a wire:
\* at most one record more each, ...
Grown(q, q2, f) ==
  \A j \in Port : \/ q2[j] = q[j]
                  \/ \E r \in Record : q2[j] = Append(q[j], r) /\ r.frame = f /\ ~r.out

\* ... and when all sockets that heard f are bound, only where f came in.
Delivered(q, q2, f, out) ==
  \A j \in Port : \/ q2[j] = q[j]
                  \/ /\ fd[j] = "bound" /\ Opposite(j) \in out
                     /\ q2[j] = Append(q[j], Incoming(f, j[2]))

\* Where there is room, what comes in is captured.
Captures(q, q2, out) ==
  \A j \in Port : fd[j] = "bound" /\ Opposite(j) \in out /\ Len(q[j]) < MaxQueue =>
    Len(q2[j]) = Len(q[j]) + 1

\* What becomes of the sockets when f is put on the wires of out.
LEMMA TransmitResult ==
  ASSUME CountInv, NEW f \in Frame, NEW out \in SUBSET (Port \cup (Host \X Station)),
         NEW q, Buffers(q), Transmit(f, out, q)
  PROVE  /\ QueueInv'
         /\ got' \in [Host -> [Frame -> 0..2]]
         /\ stray' \in {stray, stray \cup {f}}
         /\ Grown(q, queue', f)
         /\ f \notin stray' => Delivered(q, queue', f, out)
         /\ Captures(q, queue', out)
<1>1. queue' = [j \in Port |-> Capture(q[j], Captured(j, f, out))]
  BY DEF Transmit
<1>2. ASSUME NEW j \in Port
      PROVE  /\ queue'[j] = Capture(q[j], Captured(j, f, out))
             /\ q[j] \in Seq(Record) /\ Len(q[j]) <= MaxQueue
             /\ Captured(j, f, out) \in SUBSET Record
             /\ \A r \in Captured(j, f, out) : r \in Record /\ r.frame = f /\ ~r.out
  BY <1>1, CapturedRecords DEF Buffers
<1>3. QueueInv'
  <2>1. \A j \in Port : queue'[j] \in Seq(Record) /\ Len(queue'[j]) <= MaxQueue
    BY <1>2, CaptureResult
  <2>. QED  BY <1>1, <2>1 DEF QueueInv, Buffers
<1>4. ASSUME NEW j \in Port
      PROVE  \/ queue'[j] = q[j]
             \/ \E r \in Captured(j, f, out) : queue'[j] = Append(q[j], r)
  BY <1>2, CaptureResult
<1>5. ASSUME f \notin stray', NEW j \in Port, queue'[j] # q[j]
      PROVE  /\ fd[j] = "bound" /\ Opposite(j) \in out
             /\ queue'[j] = Append(q[j], Incoming(f, j[2]))
  <2>1. PICK r \in Captured(j, f, out) : queue'[j] = Append(q[j], r)
    BY <1>4, <1>5
  <2>2. fd[j] # "unbound"
    <3>1. Captured(j, f, out) # {}
      OBVIOUS
    <3>2. fd[j] = "unbound" => stray' = stray \cup {f}
      BY <3>1 DEF Transmit
    <3>. QED  BY <1>5, <3>2
  <2>. QED  BY <2>1, <2>2, CapturedRecords
<1>6. ASSUME NEW j \in Port, fd[j] = "bound", Opposite(j) \in out, Len(q[j]) < MaxQueue
      PROVE  Len(queue'[j]) = Len(q[j]) + 1
  <2>1. Captured(j, f, out) # {}
    BY <1>6, CapturedRecords
  <2>. QED  BY <1>2, <1>6, <2>1, CaptureResult
<1>7. got' \in [Host -> [Frame -> 0..2]]
  <2>1. ASSUME NEW h \in Host
        PROVE  [got[h] EXCEPT ![f] = IF @ < 2 /\ \E i \in out : i[2] = h THEN @ + 1 ELSE @]
                 \in [Frame -> 0..2]
    <3>1. got[h] \in [Frame -> 0..2] /\ got[h][f] \in 0..2
      BY DEF CountInv
    <3> DEFINE n == IF got[h][f] < 2 /\ \E i \in out : i[2] = h THEN got[h][f] + 1
                    ELSE got[h][f]
    <3>2. n \in 0..2
      BY <3>1
    <3>. QED  BY <3>1, <3>2
  <2>. QED  BY <2>1 DEF Transmit
<1>8. stray' \in {stray, stray \cup {f}}
  BY DEF Transmit
<1>9. Grown(q, queue', f)
  BY <1>2, <1>4 DEF Grown
<1>10. f \notin stray' => Delivered(q, queue', f, out)
  BY <1>5 DEF Delivered
<1>11. Captures(q, queue', out)
  BY <1>6 DEF Captures
<1>. QED  BY <1>3, <1>7, <1>8, <1>9, <1>10, <1>11

\* The types hold of every frame that is sent for the first time.
LEMMA OriginIsWire ==
  ASSUME NEW f \in Frame
  PROVE  Origin[f] \in Port \cup (Host \X Station)
BY OriginAssumption

\* What the sockets of the sender capture themselves is no received frame.
OwnCapture(f) ==
  LET own == {j \in Port : Origin[f] \in Port /\ j \in Listening(Origin[f])}
  IN  [j \in Port |-> Capture(queue[j], IF j \in own THEN {Outgoing(f)} ELSE {})]

\* A socket captures at most the frame its kernel sends.
LEMMA OwnCaptureResult ==
  ASSUME QueueInv, NEW f \in Frame
  PROVE  /\ Buffers(OwnCapture(f))
         /\ \A j \in Port : \/ OwnCapture(f)[j] = queue[j]
                            \/ OwnCapture(f)[j] = Append(queue[j], Outgoing(f))
<1> DEFINE own == {j \in Port : Origin[f] \in Port /\ j \in Listening(Origin[f])}
           R(j) == IF j \in own THEN {Outgoing(f)} ELSE {}
<1>1. \A j \in Port : R(j) \in SUBSET Record
  BY DEF Outgoing, Record
<1>2. OwnCapture(f) = [j \in Port |-> Capture(queue[j], R(j))]
  BY DEF OwnCapture
<1>3. \A j \in Port : \A r \in R(j) : r = Outgoing(f)
  OBVIOUS
<1>. HIDE DEF R
<1>4. ASSUME NEW j \in Port
      PROVE  /\ OwnCapture(f)[j] \in Seq(Record) /\ Len(OwnCapture(f)[j]) <= MaxQueue
             /\ \/ OwnCapture(f)[j] = queue[j]
                \/ OwnCapture(f)[j] = Append(queue[j], Outgoing(f))
  <2>1. queue[j] \in Seq(Record) /\ Len(queue[j]) <= MaxQueue
    BY DEF QueueInv, Buffers
  <2>2. OwnCapture(f)[j] = Capture(queue[j], R(j))
    BY <1>2
  <2>. QED  BY <1>1, <1>3, <2>1, <2>2, CaptureResult
<1>. QED  BY <1>2, <1>4 DEF Buffers

\* What is left when the process has read the first frame of interface i.
LEMMA UnreadResult ==
  ASSUME QueueInv, NEW i \in Port, queue[i] # <<>>
  PROVE  /\ Buffers(Unread(i))
         /\ Unread(i)[i] = Tail(queue[i])
         /\ \A j \in Port : j # i => Unread(i)[j] = queue[j]
         /\ Head(queue[i]) \in Record
         /\ Len(queue[i]) \in Nat \ {0} /\ queue[i] \in Seq(Record)
         /\ Head(queue[i]) = queue[i][1]
<1>1. queue[i] \in Seq(Record) /\ Len(queue[i]) <= MaxQueue
  BY DEF QueueInv, Buffers
<1>2. /\ Head(queue[i]) \in Record /\ Tail(queue[i]) \in Seq(Record)
      /\ Len(Tail(queue[i])) = Len(queue[i]) - 1
      /\ Len(queue[i]) \in Nat \ {0}
  BY <1>1, HeadTailProperties, EmptySeq
<1>3. MaxQueue \in Nat
  BY BoundAssumption
<1>. QED  BY <1>1, <1>2, <1>3 DEF QueueInv, Buffers, Unread

\* Where the outputs are.
LEMMA OutputsArePorts ==
  ASSUME NEW i
  PROVE  Outputs(i) \in SUBSET (Port \cup (Host \X Station))
BY DEF Outputs

\* What socket j may hold: frames that were sent; one that no unbound socket has
\* captured is marked with the neighbour it came in from.
Heard(j) ==
  {r \in Record : /\ r.frame \in sent
                  /\ r.frame \notin stray /\ ~r.out => r.from = j[2]}

HeardInv == \A j \in Port : queue[j] \in Seq(Heard(j))

\* The types, and what the sockets hold.
TypeInv == OpeningInv /\ QueueInv /\ CountInv /\ HeardInv

\* A record that was heard is about a frame that was sent.
LEMMA HeardRecord ==
  ASSUME NEW j, NEW r \in Heard(j)
  PROVE  r \in Record /\ r.frame \in Frame /\ r.frame \in sent
BY DEF Heard, Record

\* So is the frame that is read.
LEMMA FirstIsHeard ==
  ASSUME TypeInv, NEW i \in Port, queue[i] # <<>>
  PROVE  Head(queue[i]) \in Heard(i)
BY HeadTailProperties DEF TypeInv, HeardInv

\* Every step keeps the places of the processes, ...
LEMMA OpeningStep ==
  ASSUME TypeInv, [Next]_vars
  PROVE  OpeningInv'
<1>. USE DEF TypeInv
<1>1. ASSUME NEW b \in Station, Launch(b)
      PROVE  OpeningInv'
  <2>1. /\ started' = started \cup {b} /\ todo' = [todo EXCEPT ![b] = Iface[b]]
        /\ UNCHANGED <<fd, used>>
    BY <1>1 DEF Launch, history
  <2>2. Iface[b] \in Seq(Station \cup Host) /\ Len(Iface[b]) \in Nat
    BY Neighbours
  <2>3. Iface[b] = SubSeq(Iface[b], 1, Len(Iface[b])) /\ 1 \in 1..(Len(Iface[b]) + 1)
    BY <2>2, SubSeqFull
  <2>. QED  BY <2>1, <2>2, <2>3 DEF OpeningInv
<1>2. ASSUME NEW b \in Station, CreateSocket(b)
      PROVE  OpeningInv'
  <2>1. fd' \in [Port -> {"none", "unbound", "bound"}] /\ UNCHANGED <<started, todo, used>>
    BY <1>2 DEF CreateSocket, OpeningInv, history
  <2>. QED  BY <2>1 DEF OpeningInv
<1>3. ASSUME NEW b \in Station, BindSocket(b) \/ OpenFails(b)
      PROVE  OpeningInv'
  <2>1. /\ Opening(b) /\ todo' = [todo EXCEPT ![b] = Tail(todo[b])] /\ UNCHANGED started
        /\ used' \in {used, used \cup {Current(b)}}
        /\ \E v \in {"none", "bound"} : fd' = [fd EXCEPT ![Current(b)] = v]
    BY <1>3 DEF BindSocket, OpenFails, history
  <2>2. /\ Current(b) \in Port /\ b \in started
        /\ Tail(todo[b]) \in Seq(Station \cup Host)
        /\ \E n \in 1..(Len(Iface[b]) + 1) :
             Tail(todo[b]) = SubSeq(Iface[b], n, Len(Iface[b]))
    BY <2>1, CurrentIsPort
  <2>3. /\ todo' \in [Station -> Seq(Station \cup Host)]
        /\ \A c \in Station : \E n \in 1..(Len(Iface[c]) + 1) :
             /\ todo'[c] = SubSeq(Iface[c], n, Len(Iface[c]))
             /\ c \notin started' => todo'[c] = <<>>
    BY <2>1, <2>2 DEF OpeningInv
  <2>. QED  BY <2>1, <2>2, <2>3 DEF OpeningInv
<1>4. ASSUME NEW b \in Station, End(b)
      PROVE  OpeningInv'
  <2>1. /\ started' = started \ {b} /\ todo' = [todo EXCEPT ![b] = <<>>] /\ UNCHANGED used
        /\ fd' = [i \in Port |-> IF i[1] = b THEN "none" ELSE fd[i]]
    BY <1>4 DEF End
  <2>2. fd' \in [Port -> {"none", "unbound", "bound"}]
    BY <2>1 DEF OpeningInv
  <2>3. /\ Len(Iface[b]) \in Nat /\ Len(Iface[b]) \in Int /\ Len(Iface[b]) + 1 \in Int
        /\ Len(Iface[b]) < Len(Iface[b]) + 1
    BY Neighbours
  <2>4. <<>> = SubSeq(Iface[b], Len(Iface[b]) + 1, Len(Iface[b]))
    BY <2>3, SubSeqEmpty
  <2>5. <<>> \in Seq(Station \cup Host)
    BY EmptySeq
  <2>6. Len(Iface[b]) + 1 \in 1..(Len(Iface[b]) + 1)
    BY <2>3
  <2>7. \A c \in Station : \E n \in 1..(Len(Iface[c]) + 1) :
          /\ todo'[c] = SubSeq(Iface[c], n, Len(Iface[c]))
          /\ c \notin started' => todo'[c] = <<>>
    BY <2>1, <2>4, <2>6 DEF OpeningInv
  <2>. QED  BY <2>1, <2>2, <2>5, <2>7 DEF OpeningInv
<1>5. CASE \/ \E i \in Port : Broadcast(i) \/ DropOutgoing(i)
           \/ \E f \in Frame : SendFirst(f)
           \/ UNCHANGED vars
  <2>1. UNCHANGED <<started, todo, fd, used>>
    BY <1>5 DEF Broadcast, DropOutgoing, SendFirst, vars, processVars, history
  <2>. QED  BY <2>1 DEF OpeningInv
<1>. QED  BY <1>1, <1>2, <1>3, <1>4, <1>5 DEF Next

\* ... and the bounds of the buffers and the counters.
LEMMA QueueStep ==
  ASSUME TypeInv, [Next]_vars
  PROVE  QueueInv' /\ CountInv'
<1>. USE DEF TypeInv
<1>1. CASE UNCHANGED <<queue, sent, troubles, got, intact, stray>>
  BY <1>1 DEF QueueInv, Buffers, CountInv
<1>2. ASSUME NEW b \in Station, OpenFails(b) \/ End(b)
      PROVE  QueueInv' /\ CountInv'
  <2>1. /\ troubles < MaxTrouble /\ troubles' = troubles + 1 /\ UNCHANGED <<sent, got, stray>>
        /\ intact' \in {intact, {}}
    BY <1>2 DEF OpenFails, End, history
  <2>2. CountInv'
    BY <2>1, BoundAssumption DEF CountInv
  <2>3. <<>> \in Seq(Record) /\ Len(<<>>) = 0 /\ MaxQueue \in Nat
    BY EmptySeq, BoundAssumption
  <2>4. CASE OpenFails(b)
    <3>1. Current(b) \in Port /\ queue' = [queue EXCEPT ![Current(b)] = <<>>]
      BY <2>4, CurrentIsPort DEF OpenFails
    <3>. QED  BY <2>2, <2>3, <3>1 DEF QueueInv, Buffers
  <2>5. CASE End(b)
    <3>1. queue' = [i \in Port |-> IF i[1] = b THEN <<>> ELSE queue[i]]
      BY <2>5 DEF End
    <3>. QED  BY <2>2, <2>3, <3>1 DEF QueueInv, Buffers
  <2>. QED  BY <1>2, <2>4, <2>5
<1>3. ASSUME NEW i \in Port, Broadcast(i)
      PROVE  QueueInv' /\ CountInv'
  <2> DEFINE f == Head(queue[i]).frame
  <2>1. /\ queue[i] # <<>> /\ Transmit(f, Outputs(i), Unread(i))
        /\ intact' \in {intact, intact \ {f}} /\ UNCHANGED <<sent, troubles>>
    BY <1>3 DEF Broadcast, Readable
  <2>2. f \in Frame /\ f \in sent /\ Buffers(Unread(i))
    <3>1. Head(queue[i]) \in Heard(i)
      BY <2>1, FirstIsHeard
    <3>2. Buffers(Unread(i))
      BY <2>1, UnreadResult
    <3>. QED  BY <3>1, <3>2, HeardRecord
  <2>. HIDE DEF f
  <2>3. /\ QueueInv' /\ got' \in [Host -> [Frame -> 0..2]]
        /\ stray' \in {stray, stray \cup {f}}
    BY <2>1, <2>2, OutputsArePorts, TransmitResult
  <2>. QED  BY <2>1, <2>2, <2>3 DEF CountInv
<1>4. ASSUME NEW i \in Port, DropOutgoing(i)
      PROVE  QueueInv' /\ CountInv'
  <2>1. /\ queue[i] # <<>> /\ queue' = Unread(i)
        /\ UNCHANGED <<sent, troubles, got, intact, stray>>
    BY <1>4 DEF DropOutgoing, Readable, history
  <2>. QED  BY <2>1, UnreadResult DEF QueueInv, CountInv
<1>5. ASSUME NEW f \in Frame, SendFirst(f)
      PROVE  QueueInv' /\ CountInv'
  <2>1. /\ f \notin sent /\ Cardinality(sent) < MaxSent /\ sent' = sent \cup {f}
        /\ Transmit(f, {Origin[f]}, OwnCapture(f)) /\ UNCHANGED troubles
        /\ intact' \in {intact, intact \cup {f}}
    BY <1>5 DEF SendFirst, OwnCapture
  <2>2. /\ QueueInv' /\ got' \in [Host -> [Frame -> 0..2]]
        /\ stray' \in {stray, stray \cup {f}}
    <3>1. {Origin[f]} \in SUBSET (Port \cup (Host \X Station)) /\ Buffers(OwnCapture(f))
      BY OriginIsWire, OwnCaptureResult
    <3>. QED  BY <2>1, <3>1, TransmitResult
  <2>3. IsFiniteSet(sent') /\ Cardinality(sent') = Cardinality(sent) + 1
    BY <2>1, FS_AddElement DEF CountInv
  <2>4. Cardinality(sent) \in Nat
    BY FS_CardinalityType DEF CountInv
  <2>5. Cardinality(sent') <= MaxSent
    BY <2>1, <2>3, <2>4, BoundAssumption
  <2>. QED  BY <2>1, <2>2, <2>3, <2>5 DEF CountInv
<1>6. CASE \/ \E b \in Station : Launch(b) \/ CreateSocket(b) \/ BindSocket(b)
           \/ UNCHANGED vars
  BY <1>1, <1>6 DEF Launch, CreateSocket, BindSocket, vars, history
<1>. QED  BY <1>2, <1>3, <1>4, <1>5, <1>6 DEF Next

\* What the sockets hold stays what was heard.
LEMMA HeardStep ==
  ASSUME TypeInv, [Next]_vars
  PROVE  HeardInv'
<1>. USE DEF TypeInv
<1>0. /\ sent \subseteq sent' /\ stray \subseteq stray'
  BY DEF Next, Launch, CreateSocket, BindSocket, OpenFails, End, Broadcast, DropOutgoing,
     SendFirst, Transmit, vars, history
<1>1. ASSUME NEW j \in Port, NEW t \in Seq(Heard(j))
      PROVE  t \in Seq(Heard(j)')
  <2>1. Heard(j) \subseteq Heard(j)'
    BY <1>0 DEF Heard
  <2>. QED  BY <2>1, SeqMonotonic
<1>2. CASE UNCHANGED queue
  BY <1>1, <1>2 DEF HeardInv
<1>3. ASSUME NEW b \in Station, OpenFails(b) \/ End(b)
      PROVE  HeardInv'
  <2>1. \A j \in Port : queue'[j] = queue[j] \/ queue'[j] = <<>>
    <3>1. CASE OpenFails(b)
      BY <3>1, CurrentIsPort DEF OpenFails, QueueInv, Buffers
    <3>2. CASE End(b)
      BY <3>2 DEF End
    <3>. QED  BY <1>3, <3>1, <3>2
  <2>2. \A j \in Port : <<>> \in Seq(Heard(j)')
    BY EmptySeq
  <2>. QED  BY <1>1, <2>1, <2>2 DEF HeardInv
<1>4. ASSUME NEW f \in Frame, f \in sent', NEW out \in SUBSET (Port \cup (Host \X Station)),
             NEW q, Buffers(q), Transmit(f, out, q), \A j \in Port : q[j] \in Seq(Heard(j)')
      PROVE  HeardInv'
  <2>0. Grown(q, queue', f) /\ (f \notin stray' => Delivered(q, queue', f, out))
    BY <1>4, TransmitResult
  <2>. SUFFICES ASSUME NEW j \in Port
                PROVE  queue'[j] \in Seq(Heard(j)')
    BY DEF HeardInv
  <2>1. CASE queue'[j] = q[j]
    BY <1>4, <2>1
  <2>2. CASE queue'[j] # q[j]
    <3>1. PICK r \in Record : queue'[j] = Append(q[j], r) /\ r.frame = f /\ ~r.out
      BY <2>0, <2>2 DEF Grown
    <3>2. r \in Heard(j)'
      <4>1. CASE f \in stray'
        BY <1>4, <3>1, <4>1 DEF Heard
      <4>2. CASE f \notin stray'
        <5>1. queue'[j] = Append(q[j], Incoming(f, j[2]))
          BY <2>0, <2>2, <4>2 DEF Delivered
        <5>2. Incoming(f, j[2]) \in Record
          BY PortIsPair DEF Incoming, Record
        <5>3. q[j] \in Seq(Record)
          BY <1>4 DEF Buffers
        <5>4. r = Incoming(f, j[2])
          <6>1. Append(q[j], r) = Append(q[j], Incoming(f, j[2]))
            BY <3>1, <5>1
          <6>. QED  BY <3>1, <5>2, <5>3, <6>1, AppendInjective
        <5>. QED  BY <1>4, <5>2, <5>4 DEF Heard, Incoming
      <4>. QED  BY <4>1, <4>2
    <3>. QED  BY <1>4, <3>1, <3>2, AppendProperties
  <2>. QED  BY <2>1, <2>2
<1>5. ASSUME NEW i \in Port, queue[i] # <<>>
      PROVE  \A j \in Port : Unread(i)[j] \in Seq(Heard(j)')
  <2>1. Tail(queue[i]) \in Seq(Heard(i))
    BY <1>5, HeadTailProperties DEF HeardInv
  <2>2. \A j \in Port : Unread(i)[j] \in Seq(Heard(j))
    BY <1>5, <2>1, UnreadResult DEF HeardInv
  <2>. QED  BY <1>1, <2>2
<1>6. ASSUME NEW i \in Port, Broadcast(i)
      PROVE  HeardInv'
  <2> DEFINE f == Head(queue[i]).frame
  <2>1. queue[i] # <<>> /\ Transmit(f, Outputs(i), Unread(i)) /\ UNCHANGED sent
    BY <1>6 DEF Broadcast, Readable
  <2>2. f \in Frame /\ f \in sent /\ Buffers(Unread(i))
    <3>1. Head(queue[i]) \in Heard(i)
      BY <2>1, FirstIsHeard
    <3>2. Buffers(Unread(i))
      BY <2>1, UnreadResult
    <3>. QED  BY <3>1, <3>2, HeardRecord
  <2>. HIDE DEF f
  <2>. QED  BY <1>4, <1>5, <2>1, <2>2, OutputsArePorts
<1>7. ASSUME NEW i \in Port, DropOutgoing(i)
      PROVE  HeardInv'
  BY <1>5, <1>7 DEF DropOutgoing, Readable, HeardInv
<1>8. ASSUME NEW f \in Frame, SendFirst(f)
      PROVE  HeardInv'
  <2>1. f \in sent' /\ Transmit(f, {Origin[f]}, OwnCapture(f))
    BY <1>8 DEF SendFirst, OwnCapture
  <2>2. ASSUME NEW j \in Port
        PROVE  OwnCapture(f)[j] \in Seq(Heard(j)')
    <3>1. queue[j] \in Seq(Heard(j)')
      BY <1>1 DEF HeardInv
    <3>2. Outgoing(f) \in Heard(j)'
      BY <2>1 DEF Outgoing, Heard, Record
    <3>. QED  BY <3>1, <3>2, OwnCaptureResult, AppendProperties
  <2>. QED  BY <1>4, <2>1, <2>2, OwnCaptureResult, OriginIsWire
<1>9. CASE \/ \E b \in Station : Launch(b) \/ CreateSocket(b) \/ BindSocket(b)
           \/ UNCHANGED vars
  BY <1>2, <1>9 DEF Launch, CreateSocket, BindSocket, vars, history
<1>. QED  BY <1>3, <1>6, <1>7, <1>8, <1>9 DEF Next

\* The types hold when the first stations have started.
LEMMA TypeInvStarts ==
  ASSUME Init
  PROVE  TypeInv
<1>1. OpeningInv
  <2>1. <<>> \in Seq(Station \cup Host)
    BY EmptySeq
  <2>2. ASSUME NEW b \in Station
        PROVE  \E n \in 1..(Len(Iface[b]) + 1) : <<>> = SubSeq(Iface[b], n, Len(Iface[b]))
    <3>1. /\ Len(Iface[b]) \in Nat /\ Len(Iface[b]) \in Int /\ Len(Iface[b]) + 1 \in Int
          /\ Len(Iface[b]) < Len(Iface[b]) + 1
      BY Neighbours
    <3>2. <<>> = SubSeq(Iface[b], Len(Iface[b]) + 1, Len(Iface[b]))
      BY <3>1, SubSeqEmpty
    <3>3. Len(Iface[b]) + 1 \in 1..(Len(Iface[b]) + 1)
      BY <3>1
    <3>. QED  BY <3>2, <3>3
  <2>. QED  BY <2>1, <2>2, IfaceAssumption DEF Init, OpeningInv
<1>2. QueueInv /\ HeardInv
  <2>1. <<>> \in Seq(Record) /\ Len(<<>>) = 0 /\ MaxQueue \in Nat
    BY EmptySeq, BoundAssumption
  <2>2. \A j \in Port : <<>> \in Seq(Heard(j))
    BY EmptySeq
  <2>. QED  BY <2>1, <2>2 DEF Init, QueueInv, Buffers, HeardInv
<1>3. CountInv
  BY FS_EmptySet, BoundAssumption DEF Init, CountInv
<1>. QED  BY <1>1, <1>2, <1>3 DEF TypeInv

-----------------------------------------------------------------------------
(***************************************************************************)
(* The copies of a frame that wait.                                        *)
(***************************************************************************)

\* Where buffers q hold a received copy of f, behind the interfaces of P.
Places(q, f, P) ==
  {w \in P \X Nat : /\ w[2] \in 1..Len(q[w[1]])
                    /\ q[w[1]][w[2]].frame = f
                    /\ ~q[w[1]][w[2]].out}

AtMostOne(q, f, P) == \A v, w \in Places(q, f, P) : v = w

\* The types of one buffer.
LEMMA BufferType ==
  ASSUME NEW q, Buffers(q), NEW j \in Port
  PROVE  q[j] \in Seq(Record) /\ Len(q[j]) \in Nat /\ Len(q[j]) <= MaxQueue
BY LenProperties DEF Buffers

\* A record that is appended is a copy of another frame, or one that goes out.
LEMMA OthersComeIn ==
  ASSUME NEW q, Buffers(q), NEW q2, Buffers(q2), NEW f, NEW P \in SUBSET Port,
         \A j \in P : \/ q2[j] = q[j]
                      \/ \E r \in Record : q2[j] = Append(q[j], r) /\ (r.frame # f \/ r.out)
  PROVE  Places(q2, f, P) = Places(q, f, P)
<1>1. ASSUME NEW j \in P, NEW k \in Nat
      PROVE  <<j, k>> \in Places(q2, f, P) <=> <<j, k>> \in Places(q, f, P)
  <2>1. CASE q2[j] = q[j]
    BY <2>1 DEF Places
  <2>2. ASSUME NEW r \in Record, q2[j] = Append(q[j], r), r.frame # f \/ r.out
        PROVE  <<j, k>> \in Places(q2, f, P) <=> <<j, k>> \in Places(q, f, P)
    <3>1. q[j] \in Seq(Record) /\ Len(q[j]) \in Nat
      BY BufferType
    <3>2. /\ Len(q2[j]) = Len(q[j]) + 1
          /\ \A m \in 1..Len(q[j]) : q2[j][m] = q[j][m]
          /\ q2[j][Len(q[j]) + 1] = r
      BY <2>2, <3>1, AppendProperties
    <3>3. CASE k = Len(q[j]) + 1
      BY <2>2, <3>1, <3>2, <3>3 DEF Places
    <3>4. CASE k # Len(q[j]) + 1
      <4>1. k \in 1..Len(q2[j]) <=> k \in 1..Len(q[j])
        BY <3>1, <3>2, <3>4
      <4>. QED  BY <3>2, <4>1 DEF Places
    <3>. QED  BY <3>3, <3>4
  <2>. QED  BY <2>1, <2>2
<1>2. ASSUME NEW w \in Places(q2, f, P)
      PROVE  w \in Places(q, f, P)
  <2>1. PICK j \in P, k \in Nat : w = <<j, k>>
    BY DEF Places
  <2>. QED  BY <1>1, <2>1
<1>3. ASSUME NEW w \in Places(q, f, P)
      PROVE  w \in Places(q2, f, P)
  <2>1. PICK j \in P, k \in Nat : w = <<j, k>>
    BY DEF Places
  <2>. QED  BY <1>1, <2>1
<1>. QED  BY <1>2, <1>3

\* The process reads another frame, or behind another interface.
LEMMA OtherIsRead ==
  ASSUME QueueInv, NEW i \in Port, queue[i] # <<>>, NEW f, NEW P \in SUBSET Port,
         i \notin P \/ Head(queue[i]).frame # f \/ Head(queue[i]).out
  PROVE  /\ AtMostOne(queue, f, P) => AtMostOne(Unread(i), f, P)
         /\ Places(queue, f, P) = {} <=> Places(Unread(i), f, P) = {}
<1> DEFINE up(w) == IF w[1] = i THEN <<i, w[2] + 1>> ELSE w
           down(w) == IF w[1] = i THEN <<i, w[2] - 1>> ELSE w
<1>1. /\ Unread(i)[i] = Tail(queue[i]) /\ Head(queue[i]) = queue[i][1]
      /\ \A j \in P : j # i => Unread(i)[j] = queue[j]
      /\ Len(queue[i]) \in Nat \ {0} /\ queue[i] \in Seq(Record)
  BY UnreadResult
<1>2. /\ Len(Tail(queue[i])) = Len(queue[i]) - 1
      /\ \A k \in 1..(Len(queue[i]) - 1) : Tail(queue[i])[k] = queue[i][k + 1]
  BY <1>1, HeadTailProperties
<1>3. ASSUME NEW w \in Places(Unread(i), f, P)
      PROVE  up(w) \in Places(queue, f, P) /\ w = <<w[1], w[2]>> /\ w[2] \in Nat
  <2>1. w \in P \X Nat /\ w = <<w[1], w[2]>>
    BY DEF Places
  <2>2. CASE w[1] # i
    BY <1>1, <2>1, <2>2 DEF Places
  <2>3. CASE w[1] = i
    <3>1. /\ w[2] \in 1..(Len(queue[i]) - 1)
          /\ queue[i][w[2] + 1].frame = f /\ ~queue[i][w[2] + 1].out
      BY <1>1, <1>2, <2>3, ZenonT(30) DEF Places
    <3>2. w[2] + 1 \in 1..Len(queue[i]) /\ w[2] + 1 \in Nat
      BY <1>1, <3>1
    <3>. QED  BY <2>1, <2>3, <3>1, <3>2 DEF Places
  <2>. QED  BY <2>2, <2>3
<1>4. ASSUME NEW w \in Places(queue, f, P)
      PROVE  down(w) \in Places(Unread(i), f, P)
  <2>1. w \in P \X Nat /\ w = <<w[1], w[2]>>
    BY DEF Places
  <2>2. CASE w[1] # i
    BY <1>1, <2>1, <2>2 DEF Places
  <2>3. CASE w[1] = i
    <3>1. /\ w[2] \in 1..Len(queue[i]) /\ i \in P
          /\ queue[i][w[2]].frame = f /\ ~queue[i][w[2]].out
      BY <2>1, <2>3 DEF Places
    <3>2. w[2] # 1
      BY <1>1, <3>1
    <3>3. /\ w[2] - 1 \in 1..(Len(queue[i]) - 1) /\ w[2] - 1 \in Nat
          /\ (w[2] - 1) + 1 = w[2]
      BY <1>1, <3>1, <3>2
    <3>4. Tail(queue[i])[w[2] - 1] = queue[i][w[2]]
      BY <1>2, <3>3
    <3>. QED  BY <1>1, <1>2, <2>1, <2>3, <3>1, <3>3, <3>4 DEF Places
  <2>. QED  BY <2>2, <2>3
<1>5. ASSUME NEW v \in Places(Unread(i), f, P), NEW w \in Places(Unread(i), f, P),
             up(v) = up(w)
      PROVE  v = w
  <2>1. /\ v = <<v[1], v[2]>> /\ v[2] \in Nat
        /\ w = <<w[1], w[2]>> /\ w[2] \in Nat
    BY <1>3
  <2>2. v[1] = w[1]
    BY <1>5, <2>1
  <2>3. v[2] = w[2]
    BY <1>5, <2>1, <2>2
  <2>. QED  BY <2>1, <2>2, <2>3
<1>. HIDE DEF up, down
<1>6. AtMostOne(queue, f, P) => AtMostOne(Unread(i), f, P)
  BY <1>3, <1>5 DEF AtMostOne
<1>. QED  BY <1>3, <1>4, <1>6

\* The process reads the only copy behind the interfaces of P.
LEMMA CopyIsRead ==
  ASSUME QueueInv, NEW P \in SUBSET Port, NEW i \in P, queue[i] # <<>>, NEW f,
         Head(queue[i]).frame = f, ~Head(queue[i]).out, AtMostOne(queue, f, P)
  PROVE  Places(Unread(i), f, P) = {}
<1>1. /\ Unread(i)[i] = Tail(queue[i]) /\ Head(queue[i]) = queue[i][1]
      /\ \A j \in P : j # i => Unread(i)[j] = queue[j]
      /\ Len(queue[i]) \in Nat \ {0} /\ queue[i] \in Seq(Record)
  BY UnreadResult
<1>2. /\ Len(Tail(queue[i])) = Len(queue[i]) - 1
      /\ \A k \in 1..(Len(queue[i]) - 1) : Tail(queue[i])[k] = queue[i][k + 1]
  BY <1>1, HeadTailProperties
<1>3. <<i, 1>> \in Places(queue, f, P)
  BY <1>1 DEF Places
<1>4. ASSUME NEW w \in Places(Unread(i), f, P)
      PROVE  FALSE
  <2>1. w \in P \X Nat /\ w = <<w[1], w[2]>>
    BY DEF Places
  <2>2. CASE w[1] # i
    <3>1. w \in Places(queue, f, P)
      BY <1>1, <2>1, <2>2 DEF Places
    <3>. QED  BY <1>3, <2>1, <2>2, <3>1 DEF AtMostOne
  <2>3. CASE w[1] = i
    <3>1. /\ w[2] \in 1..(Len(queue[i]) - 1)
          /\ queue[i][w[2] + 1].frame = f /\ ~queue[i][w[2] + 1].out
      BY <1>1, <1>2, <2>3, ZenonT(30) DEF Places
    <3>2. w[2] + 1 \in 1..Len(queue[i]) /\ w[2] + 1 \in Nat /\ w[2] + 1 # 1
      BY <1>1, <3>1
    <3>3. <<i, w[2] + 1>> \in Places(queue, f, P)
      BY <3>1, <3>2 DEF Places
    <3>4. <<i, w[2] + 1>> = <<i, 1>>
      BY <1>3, <3>3 DEF AtMostOne
    <3>. QED  BY <3>2, <3>4
  <2>. QED  BY <2>2, <2>3
<1>. QED  BY <1>4

\* Buffers are emptied.
LEMMA CopiesAreLost ==
  ASSUME NEW q, NEW q2, NEW f, NEW P,
         \A j \in P : q2[j] = q[j] \/ q2[j] = <<>>
  PROVE  Places(q2, f, P) \subseteq Places(q, f, P)
<1>1. ASSUME NEW w \in Places(q2, f, P)
      PROVE  w \in Places(q, f, P)
  <2>1. w \in P \X Nat /\ w[1] \in P /\ w[2] \in 1..Len(q2[w[1]])
    BY DEF Places
  <2>2. q2[w[1]] # <<>>
    BY <2>1
  <2>3. q2[w[1]] = q[w[1]]
    BY <2>1, <2>2
  <2>. QED  BY <2>1, <2>3 DEF Places
<1>. QED  BY <1>1

\* A frame is put on the wires of out, of which at most that of t leads to P.
LEMMA CopyComesIn ==
  ASSUME NEW q, Buffers(q), NEW q2, Buffers(q2), NEW f \in Frame,
         NEW P \in SUBSET Port, Places(q, f, P) = {}, NEW out, NEW t \in P,
         \A j \in P : Opposite(j) \in out => j = t,
         Delivered(q, q2, f, out)
  PROVE  /\ AtMostOne(q2, f, P)
         /\ /\ Captures(q, q2, out)
            /\ fd[t] = "bound" /\ Opposite(t) \in out /\ Len(q[t]) < MaxQueue
            => Places(q2, f, P) # {}
<1>1. q[t] \in Seq(Record) /\ Len(q[t]) \in Nat
  BY BufferType
<1>2. Incoming(f, t[2]) \in Record
  BY PortIsPair DEF Incoming, Record
<1>3. \A j \in P : j # t => q2[j] = q[j]
  BY DEF Delivered
<1>4. q2[t] = q[t] \/ q2[t] = Append(q[t], Incoming(f, t[2]))
  BY DEF Delivered
<1>5. q2[t] = Append(q[t], Incoming(f, t[2])) =>
        /\ Len(q2[t]) = Len(q[t]) + 1
        /\ \A m \in 1..Len(q[t]) : q2[t][m] = q[t][m]
        /\ q2[t][Len(q[t]) + 1] = Incoming(f, t[2])
  BY <1>1, <1>2, AppendProperties
<1>6. ASSUME NEW w \in Places(q2, f, P)
      PROVE  w = <<t, Len(q[t]) + 1>>
  <2>1. w \in P \X Nat /\ w = <<w[1], w[2]>> /\ w \notin Places(q, f, P)
    BY DEF Places
  <2>2. w[1] = t
    BY <1>3, <2>1 DEF Places
  <2>3. q2[t] # q[t]
    BY <2>1, <2>2 DEF Places
  <2>4. w[2] \notin 1..Len(q[t])
    <3>1. ASSUME w[2] \in 1..Len(q[t])
          PROVE  FALSE
      <4>1. q2[t][w[2]] = q[t][w[2]]
        BY <1>4, <1>5, <2>3, <3>1
      <4>. QED  BY <2>1, <2>2, <3>1, <4>1 DEF Places
    <3>. QED  BY <3>1
  <2>5. w[2] \in 1..(Len(q[t]) + 1)
    BY <1>4, <1>5, <2>2, <2>3 DEF Places
  <2>6. w[2] = Len(q[t]) + 1
    BY <1>1, <2>4, <2>5
  <2>. QED  BY <2>1, <2>2, <2>6
<1>7. AtMostOne(q2, f, P)
  BY <1>6 DEF AtMostOne
<1>8. ASSUME Captures(q, q2, out),
             fd[t] = "bound", Opposite(t) \in out, Len(q[t]) < MaxQueue
      PROVE  <<t, Len(q[t]) + 1>> \in Places(q2, f, P)
  <2>1. Len(q2[t]) = Len(q[t]) + 1
    BY <1>8 DEF Captures
  <2>2. q2[t] # q[t]
    BY <1>1, <2>1
  <2>3. q2[t][Len(q[t]) + 1] = Incoming(f, t[2])
    BY <1>4, <1>5, <2>2
  <2>4. Len(q[t]) + 1 \in Nat /\ Len(q[t]) + 1 \in 1..(Len(q[t]) + 1)
    BY <1>1
  <2>. QED  BY <2>1, <2>3, <2>4 DEF Places, Incoming
<1>. QED  BY <1>7, <1>8

-----------------------------------------------------------------------------
(***************************************************************************)
(* The ways round a ring.                                                  *)
(***************************************************************************)

\* From a station a frame goes on to the next: for a frame that came in behind
\* an interface of P, all else than the way round, that is one interface of P.
LEMMA WayOn ==
  ASSUME NEW D \in Directions, NEW i \in Port
  PROVE  /\ D \subseteq Inner
         /\ \E t \in D :
              /\ Opposite(t) \in Port /\ Opposite(t)[1] = i[1]
              /\ i \in D \cup Access => Opposite(t) # i
              /\ i \notin D \cup Access => Opposite(t) = i
              /\ \A j \in D \cup Access :
                   Opposite(j) \in Port /\ Opposite(j)[1] = i[1] => j = t
              /\ i \in D => \A j \in Port :
                   Opposite(j) \in Port /\ Opposite(j)[1] = i[1] => j = t \/ Opposite(j) = i
<1>1. PICK next \in Rounds : D = {j \in Inner : next[j[2]] = j[1]}
  BY DEF Directions
<1> DEFINE c == i[1]
           t == <<next[c], c>>
<1>2. c \in Station
  BY PortIsPair
<1>3. next \in [Station -> Station] /\ next[next[c]] # c
  BY <1>1, <1>2 DEF Rounds
<1>4. PICK a \in Station : /\ next[a] = c
                           /\ {j \in Inner : j[1] = c} = {<<c, a>>, <<c, next[c]>>}
  BY <1>1, <1>2 DEF Rounds
<1>. HIDE DEF c
<1>5. <<c, next[c]>> \in Inner
  BY <1>4
<1>6. t \in Inner /\ Opposite(t) = <<c, next[c]>> /\ Opposite(t) \in Port
  BY <1>5 DEF Inner, Opposite
<1>7. t \in D
  BY <1>1, <1>6
<1>8. ASSUME NEW j \in Port, Opposite(j) \in Port, Opposite(j)[1] = c
      PROVE  /\ j \in Inner /\ j = <<j[1], c>> /\ j[2] = c
             /\ Opposite(j) = <<c, j[1]>> /\ Opposite(j) \in {<<c, a>>, <<c, next[c]>>}
  <2>1. j = <<j[1], j[2]>> /\ j[2] = c /\ Opposite(j) = <<c, j[1]>>
    BY <1>8, PortIsPair DEF Opposite
  <2>2. j \in Inner /\ Opposite(j) \in Inner
    BY <1>8, <2>1 DEF Inner, Opposite
  <2>3. Opposite(j) \in {k \in Inner : k[1] = c}
    BY <1>8, <2>2
  <2>. QED  BY <1>4, <2>1, <2>2, <2>3
<1>9. ASSUME NEW j \in D \cup Access, Opposite(j) \in Port, Opposite(j)[1] = c
      PROVE  j = t
  <2>1. j \in D
    <3>1. j \notin Access
      BY <1>9 DEF Access, Inner
    <3>. QED  BY <1>9, <3>1
  <2>2. j \in Port /\ next[j[2]] = j[1]
    BY <1>1, <2>1 DEF Inner
  <2>. QED  BY <1>8, <1>9, <2>2
<1>10. ASSUME i \in D \cup Access
       PROVE  Opposite(t) # i
  <2>1. CASE i \in Access
    BY <1>5, <1>6, <2>1 DEF Access
  <2>2. CASE i \in D
    <3>1. next[i[2]] = c
      BY <1>1, <2>2 DEF c
    <3>. QED  BY <1>3, <1>6, <3>1
  <2>. QED  BY <1>10, <2>1, <2>2
<1>11. ASSUME i \notin D \cup Access
       PROVE  Opposite(t) = i
  <2>1. i \in Inner /\ next[i[2]] # c
    BY <1>1, <1>11 DEF Access, c
  <2>2. i \in {<<c, a>>, <<c, next[c]>>}
    BY <1>4, <2>1 DEF c
  <2>. QED  BY <1>4, <1>6, <2>1, <2>2
<1>12. ASSUME i \in D, NEW j \in Port, Opposite(j) \in Port, Opposite(j)[1] = c
       PROVE  j = t \/ Opposite(j) = i
  <2>1. i \in Inner /\ next[i[2]] = c
    BY <1>1, <1>12 DEF c
  <2>2. i \in {<<c, a>>, <<c, next[c]>>} /\ i # <<c, next[c]>>
    BY <1>3, <1>4, <2>1 DEF c
  <2>3. Opposite(j) # <<c, next[c]>> => Opposite(j) = i
    BY <1>8, <1>12, <2>2
  <2>4. Opposite(j) = <<c, next[c]>> => j = t
    BY <1>8, <1>12
  <2>. QED  BY <2>3, <2>4
<1>13. D \subseteq Inner /\ Opposite(t)[1] = c
  BY <1>1, <1>6
<1>. HIDE DEF t
<1>. QED  BY <1>6, <1>7, <1>9, <1>10, <1>11, <1>12, <1>13 DEF c

\* Nothing comes in from a host but what it sends itself.
LEMMA AccessIsEdge ==
  ASSUME NEW f \in Frame
  PROVE  /\ Origin[f] \notin Port => Opposite(Origin[f]) \in Access
         /\ Opposite(Opposite(Origin[f])) = Origin[f]
<1>1. Origin[f] = <<Origin[f][1], Origin[f][2]>>
  <2>1. Origin[f] \in Port \/ Origin[f] \in Host \X Station
    BY OriginAssumption
  <2>. QED  BY <2>1, PortIsPair
<1>2. Opposite(Opposite(Origin[f])) = Origin[f]
  BY <1>1 DEF Opposite
<1>3. Origin[f] \notin Port => Opposite(Origin[f]) \in Port
  BY OriginAssumption
<1>. QED  BY <1>2, <1>3 DEF Access, Inner

-----------------------------------------------------------------------------
(***************************************************************************)
(* Copies are conserved.                                                   *)
(***************************************************************************)

\* A frame is said to be intact only while all the hubs are up.
IntactInv == intact # {} => AllUp

\* What becomes of frame f in direction D.
Whole(f, D) ==
  /\ AtMostOne(queue, f, D \cup Access)
  /\ f \in intact => Places(queue, f, D \cup Access) # {}
  /\ Origin[f] \in Port => Places(queue, f, Port \ D) = {}

\* The direction is one the frame was sent in: that of a host goes both ways.
Goes(f, D) == Origin[f] \notin Port \/ Opposite(Origin[f]) \in D

CopyInv == \A D \in Directions : \A f \in Frame \ stray : Goes(f, D) => Whole(f, D)

\* When all the hubs are up, none has still to open an interface.
LEMMA AllUpIsOpen ==
  ASSUME AllUp
  PROVE  \A b \in Station : b \in started /\ ~Opening(b)
<1>. TAKE b \in Station
<1>1. <<b, Iface[b][1]>> \in Port
  BY Neighbours
<1>. QED  BY <1>1 DEF AllUp, Polling, Opening

\* No process starts again, and none opens an interface, while frames are intact.
LEMMA IntactStep ==
  ASSUME TypeInv, IntactInv, [Next]_vars
  PROVE  IntactInv'
<1>1. ASSUME NEW b \in Station, Launch(b) \/ CreateSocket(b) \/ BindSocket(b) \/ OpenFails(b)
      PROVE  IntactInv'
  <2>1. ~AllUp
    BY <1>1, AllUpIsOpen DEF Launch, CreateSocket, BindSocket, OpenFails
  <2>2. intact' = intact
    BY <1>1 DEF Launch, CreateSocket, BindSocket, OpenFails, history
  <2>. QED  BY <2>1, <2>2 DEF IntactInv
<1>2. ASSUME NEW b \in Station, End(b)
      PROVE  IntactInv'
  BY <1>2 DEF End, IntactInv
<1>3. CASE \/ \E i \in Port : Broadcast(i) \/ DropOutgoing(i)
           \/ \E f \in Frame : SendFirst(f)
           \/ UNCHANGED vars
  <2>1. UNCHANGED <<started, todo, fd>>
    BY <1>3 DEF Broadcast, DropOutgoing, SendFirst, processVars, vars
  <2>2. intact' # {} => AllUp
    BY <1>3 DEF IntactInv, Broadcast, DropOutgoing, SendFirst, history, vars
  <2>. QED  BY <2>1, <2>2 DEF IntactInv, AllUp, Polling
<1>. QED  BY <1>1, <1>2, <1>3 DEF Next

\* Buffers q2 hold as many copies of f behind P as the queues do.
Same(q2, f, P) ==
  /\ AtMostOne(queue, f, P) => AtMostOne(q2, f, P)
  /\ Places(queue, f, P) = {} <=> Places(q2, f, P) = {}

\* A step that is about another frame keeps the copies of f, ...
LEMMA OtherFrames ==
  ASSUME TypeInv, NEW f \in Frame, NEW P \in SUBSET Port,
         \/ UNCHANGED queue
         \/ \E i \in Port : \/ DropOutgoing(i)
                            \/ Broadcast(i) /\ Head(queue[i]).frame # f
         \/ \E g \in Frame : SendFirst(g) /\ g # f
  PROVE  Same(queue', f, P)
<1>. USE DEF TypeInv
<1>1. CASE UNCHANGED queue
  BY <1>1 DEF Same, AtMostOne, Places
<1>2. ASSUME NEW i \in Port, DropOutgoing(i)
      PROVE  Same(queue', f, P)
  <2>1. queue[i] # <<>> /\ Head(queue[i]).out /\ queue' = Unread(i)
    BY <1>2 DEF DropOutgoing, Readable
  <2>2. Same(Unread(i), f, P)
    BY <2>1, OtherIsRead DEF Same
  <2>. QED  BY <2>1, <2>2
<1>3. ASSUME NEW g \in Frame, g # f, NEW out \in SUBSET (Port \cup (Host \X Station)),
             NEW q, Buffers(q), Transmit(g, out, q), Same(q, f, P)
      PROVE  Same(queue', f, P)
  <2>1. Grown(q, queue', g) /\ QueueInv'
    BY <1>3, TransmitResult
  <2>2. \A j \in P : \/ queue'[j] = q[j]
                     \/ \E r \in Record : queue'[j] = Append(q[j], r) /\ (r.frame # f \/ r.out)
    BY <1>3, <2>1 DEF Grown
  <2>3. Buffers(queue')
    BY <2>1 DEF QueueInv, Buffers
  <2>4. Places(queue', f, P) = Places(q, f, P)
    BY <1>3, <2>2, <2>3, OthersComeIn
  <2>. QED  BY <1>3, <2>4 DEF Same, AtMostOne
<1>4. ASSUME NEW i \in Port, Broadcast(i), Head(queue[i]).frame # f
      PROVE  Same(queue', f, P)
  <2> DEFINE g == Head(queue[i]).frame
  <2>1. queue[i] # <<>> /\ Transmit(g, Outputs(i), Unread(i)) /\ g # f
    BY <1>4 DEF Broadcast, Readable
  <2>2. g \in Frame /\ Buffers(Unread(i)) /\ Same(Unread(i), f, P)
    <3>1. Head(queue[i]) \in Heard(i)
      BY <2>1, FirstIsHeard
    <3>2. Buffers(Unread(i))
      BY <2>1, UnreadResult
    <3>3. Same(Unread(i), f, P)
      BY <2>1, OtherIsRead DEF Same
    <3>. QED  BY <3>1, <3>2, <3>3, HeardRecord
  <2>. HIDE DEF g
  <2>. QED  BY <1>3, <2>1, <2>2, OutputsArePorts
<1>5. ASSUME NEW g \in Frame, SendFirst(g), g # f
      PROVE  Same(queue', f, P)
  <2>1. Transmit(g, {Origin[g]}, OwnCapture(g))
    BY <1>5 DEF SendFirst, OwnCapture
  <2>2. Buffers(OwnCapture(g))
    BY OwnCaptureResult
  <2>3. Outgoing(g) \in Record /\ Outgoing(g).out
    BY DEF Outgoing, Record
  <2>4. \A j \in P : \/ OwnCapture(g)[j] = queue[j]
                     \/ \E r \in Record : /\ OwnCapture(g)[j] = Append(queue[j], r)
                                          /\ r.frame # f \/ r.out
    BY <2>3, OwnCaptureResult
  <2>5. Buffers(queue)
    BY DEF QueueInv
  <2>6. Places(OwnCapture(g), f, P) = Places(queue, f, P)
    BY <2>2, <2>4, <2>5, OthersComeIn
  <2>7. Same(OwnCapture(g), f, P)
    BY <2>6 DEF Same, AtMostOne
  <2>. QED  BY <1>3, <1>5, <2>1, <2>2, <2>7, OriginIsWire
<1>. QED  BY <1>1, <1>2, <1>4, <1>5

\* ... one that reads f puts as many copies on the wires as it takes away, ...
LEMMA FrameGoesOn ==
  ASSUME TypeInv, IntactInv, NEW D \in Directions, NEW f \in Frame, f \notin stray',
         Goes(f, D), Whole(f, D), NEW i \in Port, Broadcast(i), Head(queue[i]).frame = f
  PROVE  Whole(f, D)'
<1>. USE DEF TypeInv
<1> DEFINE P == D \cup Access
           c == i[1]
<1>1. /\ queue[i] # <<>> /\ ~Head(queue[i]).out /\ Transmit(f, Outputs(i), Unread(i))
      /\ intact' = IF LosesCopy(Outputs(i), Unread(i)) THEN intact \ {f} ELSE intact
  BY DEF Broadcast, Readable
<1>2. D \subseteq Inner /\ D \subseteq Port /\ P \in SUBSET Port
  BY WayOn DEF Inner, Access
<1>3. PICK t \in D :
        /\ Opposite(t) \in Port /\ Opposite(t)[1] = i[1]
        /\ i \in P => Opposite(t) # i
        /\ i \notin P => Opposite(t) = i
        /\ \A j \in P : Opposite(j) \in Port /\ Opposite(j)[1] = i[1] => j = t
        /\ i \in D => \A j \in Port :
             Opposite(j) \in Port /\ Opposite(j)[1] = i[1] => j = t \/ Opposite(j) = i
  BY WayOn
<1>. HIDE DEF P, c
<1>4. t \in Port /\ t \in P
  BY <1>2, <1>3 DEF P
<1>5. /\ Buffers(Unread(i)) /\ Buffers(queue')
      /\ Delivered(Unread(i), queue', f, Outputs(i))
      /\ Captures(Unread(i), queue', Outputs(i))
  <2>1. Buffers(Unread(i)) /\ Outputs(i) \in SUBSET (Port \cup (Host \X Station))
    BY <1>1, UnreadResult, OutputsArePorts
  <2>2. /\ QueueInv' /\ Delivered(Unread(i), queue', f, Outputs(i))
        /\ Captures(Unread(i), queue', Outputs(i))
    BY <1>1, <2>1, TransmitResult
  <2>. QED  BY <2>1, <2>2 DEF QueueInv, Buffers
<1>6. \A j \in P : Opposite(j) \in Outputs(i) => j = t
  BY <1>3 DEF Outputs
<1>7. f \in intact' => Places(queue', f, P) # {}
  <2>1. SUFFICES ASSUME f \in intact'
                 PROVE  Places(queue', f, P) # {}
    OBVIOUS
  <2>2. /\ f \in intact /\ AllUp /\ ~LosesCopy(Outputs(i), Unread(i))
        /\ Places(queue, f, P) # {}
    BY <1>1, <2>1 DEF IntactInv, Whole, P
  <2>3. CASE i \in P
    <3>1. fd[Opposite(t)] = "bound" /\ Opposite(t) \in Outputs(i)
      BY <1>3, <2>2, <2>3 DEF AllUp, Outputs
    <3>2. Opposite(Opposite(t)) = t
      BY <1>4, PortIsPair DEF Opposite
    <3>3. fd[t] = "bound" /\ Len(Unread(i)[t]) # MaxQueue
      BY <1>4, <2>2, <3>1, <3>2 DEF LosesCopy
    <3>4. Len(Unread(i)[t]) < MaxQueue
      BY <1>4, <1>5, <3>3, BufferType, BoundAssumption
    <3>5. Places(Unread(i), f, P) = {}
      BY <1>1, <1>2, <2>3, CopyIsRead DEF Whole, P
    <3>. QED  BY <1>2, <1>4, <1>5, <1>6, <3>1, <3>3, <3>4, <3>5, CopyComesIn
  <2>4. CASE i \notin P
    <3>1. Places(Unread(i), f, P) # {}
      BY <1>1, <1>2, <2>2, <2>4, OtherIsRead
    <3>2. \A j \in P : Opposite(j) \notin Outputs(i)
      BY <1>3, <1>6, <2>4 DEF Outputs
    <3>3. \A j \in P : queue'[j] = Unread(i)[j]
      BY <1>2, <1>5, <3>2 DEF Delivered
    <3>. QED  BY <3>1, <3>3 DEF Places
  <2>. QED  BY <2>3, <2>4
<1>8. AtMostOne(queue', f, P)
  <2>1. CASE i \in P
    <3>1. Places(Unread(i), f, P) = {}
      BY <1>1, <1>2, <2>1, CopyIsRead DEF Whole, P
    <3>. QED  BY <1>2, <1>4, <1>5, <1>6, <3>1, CopyComesIn
  <2>2. CASE i \notin P
    <3>1. AtMostOne(Unread(i), f, P)
      BY <1>1, <1>2, <2>2, OtherIsRead DEF Whole, P
    <3>2. \A j \in P : Opposite(j) \notin Outputs(i)
      BY <1>3, <1>6, <2>2 DEF Outputs
    <3>3. \A j \in P : queue'[j] = Unread(i)[j]
      BY <1>2, <1>5, <3>2 DEF Delivered
    <3>4. Places(queue', f, P) = Places(Unread(i), f, P)
      BY <3>3 DEF Places
    <3>. QED  BY <3>1, <3>4 DEF AtMostOne
  <2>. QED  BY <2>1, <2>2
<1>9. Origin[f] \in Port => Places(queue', f, Port \ D) = {}
  <2>1. SUFFICES ASSUME Origin[f] \in Port
                 PROVE  Places(queue', f, Port \ D) = {}
    OBVIOUS
  <2>2. Places(queue, f, Port \ D) = {}
    BY <2>1 DEF Whole
  <2>3. i \in D
    <3>1. i \in Port \ D => <<i, 1>> \in Places(queue, f, Port \ D)
      BY <1>1, UnreadResult DEF Places
    <3>. QED  BY <2>2, <3>1
  <2>4. Places(Unread(i), f, Port \ D) = {}
    BY <1>1, <2>2, <2>3, OtherIsRead
  <2>5. \A j \in Port \ D : Opposite(j) \notin Outputs(i)
    BY <1>3, <2>3 DEF Outputs
  <2>6. \A j \in Port \ D : queue'[j] = Unread(i)[j]
    BY <1>5, <2>5 DEF Delivered
  <2>. QED  BY <2>4, <2>6 DEF Places
<1>. QED  BY <1>7, <1>8, <1>9 DEF Whole, P, AtMostOne, Places

\* Before f is sent, only its own kernel's socket can capture it, as it goes out.
LEMMA NothingBefore ==
  ASSUME TypeInv, NEW f \in Frame, f \notin sent, NEW P \in SUBSET Port
  PROVE  Places(OwnCapture(f), f, P) = {}
<1>1. Places(queue, f, P) = {}
  <2>1. ASSUME NEW w \in Places(queue, f, P)
        PROVE  FALSE
    <3>1. w[1] \in Port /\ w[2] \in 1..Len(queue[w[1]]) /\ queue[w[1]][w[2]].frame = f
      BY DEF Places
    <3>2. queue[w[1]] \in Seq(Heard(w[1]))
      BY <3>1 DEF TypeInv, HeardInv
    <3>3. queue[w[1]][w[2]] \in Heard(w[1])
      BY <3>1, <3>2, ElementOfSeq
    <3>. QED  BY <3>1, <3>3 DEF Heard
  <2>. QED  BY <2>1
<1>2. Buffers(queue) /\ Buffers(OwnCapture(f))
  BY OwnCaptureResult DEF TypeInv, QueueInv
<1>3. Outgoing(f) \in Record /\ Outgoing(f).out
  BY DEF Outgoing, Record
<1>4. \A j \in P : \/ OwnCapture(f)[j] = queue[j]
                   \/ \E r \in Record : /\ OwnCapture(f)[j] = Append(queue[j], r)
                                        /\ r.frame # f \/ r.out
  BY <1>3, OwnCaptureResult DEF TypeInv
<1>. QED  BY <1>1, <1>2, <1>4, OthersComeIn

\* ... and one that sends f makes the first copy.
LEMMA FrameIsSent ==
  ASSUME TypeInv, IntactInv, NEW D \in Directions, NEW f \in Frame, f \notin stray',
         Goes(f, D), SendFirst(f)
  PROVE  Whole(f, D)'
<1>. USE DEF TypeInv
<1> DEFINE P == D \cup Access
           i == Origin[f]
           t == Opposite(Origin[f])
           q == OwnCapture(f)
<1>1. /\ f \notin sent /\ Transmit(f, {i}, q)
      /\ intact' = IF AllUp /\ ~LosesCopy({i}, q) THEN intact \cup {f} ELSE intact
  BY DEF SendFirst, OwnCapture
<1>2. P \in SUBSET Port /\ D \subseteq Port
  <2>1. D \subseteq Inner
    <3>1. CASE Port = {}
      BY <3>1 DEF Directions, Inner
    <3>2. CASE Port # {}
      BY <3>2, WayOn
    <3>. QED  BY <3>1, <3>2
  <2>. QED  BY <2>1 DEF Inner, Access
<1>3. t \in P /\ t \in Port /\ Opposite(t) = i /\ (i \in Port => t \in D)
  BY <1>2, AccessIsEdge DEF Goes
<1>4. Buffers(queue) /\ Buffers(q) /\ Buffers(queue') /\ Delivered(q, queue', f, {i})
      /\ Captures(q, queue', {i})
  <2>1. Buffers(q) /\ {i} \in SUBSET (Port \cup (Host \X Station))
    BY OwnCaptureResult, OriginIsWire
  <2>2. QueueInv' /\ Delivered(q, queue', f, {i}) /\ Captures(q, queue', {i})
    BY <1>1, <2>1, TransmitResult
  <2>. QED  BY <2>1, <2>2 DEF QueueInv, Buffers
<1>. HIDE DEF P, i, t, q
<1>5. \A S \in SUBSET Port : Places(q, f, S) = {}
  BY <1>1, NothingBefore DEF q
<1>6. \A j \in Port : Opposite(j) \in {i} => j = t
  <2>1. \A j \in Port : Opposite(Opposite(j)) = j
    BY PortIsPair DEF Opposite
  <2>. QED  BY <2>1 DEF t, i
<1>7. AtMostOne(queue', f, P)
  BY <1>2, <1>3, <1>4, <1>5, <1>6, CopyComesIn
<1>8. f \in intact' => Places(queue', f, P) # {}
  <2>1. SUFFICES ASSUME f \in intact'
                 PROVE  Places(queue', f, P) # {}
    OBVIOUS
  <2>2. AllUp /\ ~LosesCopy({i}, q)
    BY <1>1, <2>1 DEF CountInv
  <2>3. fd[t] = "bound" /\ Len(q[t]) # MaxQueue
    BY <1>3, <2>2 DEF LosesCopy, t, i
  <2>4. Len(q[t]) < MaxQueue
    BY <1>3, <1>4, <2>3, BufferType, BoundAssumption
  <2>5. Opposite(t) \in {i}
    BY <1>3
  <2>. QED  BY <1>2, <1>3, <1>4, <1>5, <1>6, <2>3, <2>4, <2>5, CopyComesIn
<1>9. i \in Port => Places(queue', f, Port \ D) = {}
  <2>1. SUFFICES ASSUME i \in Port
                 PROVE  Places(queue', f, Port \ D) = {}
    OBVIOUS
  <2>2. \A j \in Port \ D : queue'[j] = q[j]
    BY <1>3, <1>4, <1>6, <2>1 DEF Delivered
  <2>. QED  BY <1>5, <2>2 DEF Places
<1>. QED  BY <1>7, <1>8, <1>9 DEF Whole, P, i, AtMostOne, Places

\* So every step keeps the frames whole.
LEMMA CopyStep ==
  ASSUME TypeInv, IntactInv, CopyInv, [Next]_vars
  PROVE  CopyInv'
<1>. SUFFICES ASSUME NEW D \in Directions, NEW f \in Frame, f \notin stray', Goes(f, D)
              PROVE  Whole(f, D)'
  BY DEF CopyInv, Goes
<1>1. stray \subseteq stray'
  BY DEF Next, Launch, CreateSocket, BindSocket, OpenFails, End, Broadcast, DropOutgoing,
     SendFirst, Transmit, vars, history
<1>2. Whole(f, D)
  BY <1>1 DEF CopyInv
<1>3. D \cup Access \in SUBSET Port
  BY DEF Directions, Inner, Access
<1>4. ASSUME Same(queue', f, D \cup Access), Same(queue', f, Port \ D),
             f \in intact' => f \in intact
      PROVE  Whole(f, D)'
  BY <1>2, <1>4 DEF Whole, Same, AtMostOne, Places
<1>5. CASE \/ \E b \in Station : Launch(b) \/ CreateSocket(b) \/ BindSocket(b)
           \/ UNCHANGED vars
  <2>1. UNCHANGED <<queue, intact>>
    BY <1>5 DEF Launch, CreateSocket, BindSocket, vars, history
  <2>. QED  BY <1>3, <1>4, <2>1, OtherFrames
<1>6. ASSUME NEW i \in Port, DropOutgoing(i)
      PROVE  Whole(f, D)'
  <2>1. UNCHANGED intact
    BY <1>6 DEF DropOutgoing, history
  <2>. QED  BY <1>3, <1>4, <1>6, <2>1, OtherFrames
<1>7. ASSUME NEW i \in Port, Broadcast(i)
      PROVE  Whole(f, D)'
  <2>1. intact' \subseteq intact
    BY <1>7 DEF Broadcast
  <2>. QED  BY <1>2, <1>3, <1>4, <1>7, <2>1, OtherFrames, FrameGoesOn
<1>8. ASSUME NEW g \in Frame, SendFirst(g)
      PROVE  Whole(f, D)'
  <2>1. intact' \subseteq intact \cup {g}
    BY <1>8 DEF SendFirst
  <2>. QED  BY <1>3, <1>4, <1>8, <2>1, OtherFrames, FrameIsSent
<1>9. ASSUME NEW b \in Station, OpenFails(b) \/ End(b)
      PROVE  Whole(f, D)'
  <2>1. \A j \in Port : queue'[j] = queue[j] \/ queue'[j] = <<>>
    <3>1. CASE OpenFails(b)
      BY <3>1, CurrentIsPort DEF OpenFails, TypeInv, QueueInv, Buffers
    <3>2. CASE End(b)
      BY <3>2 DEF End
    <3>. QED  BY <1>9, <3>1, <3>2
  <2>2. f \notin intact'
    BY <1>9, AllUpIsOpen DEF OpenFails, End, history, IntactInv
  <2>3. /\ Places(queue', f, D \cup Access) \subseteq Places(queue, f, D \cup Access)
        /\ Places(queue', f, Port \ D) \subseteq Places(queue, f, Port \ D)
    BY <1>3, <2>1, CopiesAreLost
  <2>. QED  BY <1>2, <2>2, <2>3 DEF Whole, AtMostOne, Places
<1>. QED  BY <1>5, <1>6, <1>7, <1>8, <1>9 DEF Next

-----------------------------------------------------------------------------
(***************************************************************************)
(* Where the interfaces that are used make a forest.                       *)
(***************************************************************************)

\* An interface a frame can be read from or sent to has been used.
UsedInv == \A i \in Port : fd[i] = "bound" => i \in used

\* Only bind makes an interface usable.
LEMMA UsedStep ==
  ASSUME TypeInv, UsedInv, [Next]_vars
  PROVE  UsedInv'
<1>1. ASSUME NEW b \in Station, CreateSocket(b) \/ BindSocket(b) \/ OpenFails(b) \/ End(b)
      PROVE  UsedInv'
  BY <1>1 DEF CreateSocket, BindSocket, OpenFails, End, history, UsedInv, TypeInv, OpeningInv
<1>2. CASE \/ \E b \in Station : Launch(b)
           \/ \E i \in Port : Broadcast(i) \/ DropOutgoing(i)
           \/ \E f \in Frame : SendFirst(f)
           \/ UNCHANGED vars
  <2>1. UNCHANGED <<fd, used>>
    BY <1>2 DEF Launch, Broadcast, DropOutgoing, SendFirst, processVars, vars, history
  <2>. QED  BY <2>1 DEF UsedInv
<1>. QED  BY <1>1, <1>2 DEF Next

\* A copy of f waits behind interface j of buffers q.
Holds(q, f, j) == Places(q, f, {j}) # {}

\* Behind an interface waits at most one copy of f, and what lies ahead of two
\* copies is apart.
Apart(q, f, Ahead) ==
  /\ \A j \in Port : AtMostOne(q, f, {j})
  /\ \A j, k \in Port : j # k /\ Holds(q, f, j) /\ Holds(q, f, k) =>
       Ahead[Opposite(j)] \cap Ahead[Opposite(k)] = {}

\* No host that lies ahead of a copy of f has been given f, and none was twice.
Unserved(q, f, Ahead) ==
  \A h \in Host :
    /\ got[h][f] <= 1
    /\ got[h][f] = 1 => \A j \in Port : Holds(q, f, j) => h \notin Ahead[Opposite(j)]

Spreads(f, Ahead) ==
  /\ Apart(queue, f, Ahead)
  /\ Unserved(queue, f, Ahead)
  /\ f \notin sent => \A h \in Host : got[h][f] = 0

SpreadInv(U, Ahead) == used \subseteq U => \A f \in Frame \ stray : Spreads(f, Ahead)

\* What the hosts were given after f was put on the wires of out.
LEMMA HostsGet ==
  ASSUME CountInv, NEW f \in Frame, NEW out, NEW q, Transmit(f, out, q), NEW h \in Host
  PROVE  /\ got[h][f] \in 0..2
         /\ got'[h][f] = IF got[h][f] < 2 /\ \E i \in out : i[2] = h
                         THEN got[h][f] + 1 ELSE got[h][f]
         /\ \A g \in Frame \ {f} : got'[h][g] = got[h][g]
BY DEF Transmit, CountInv

\* An interface is at the end of a wire, which has two ends.
LEMMA WireEnds ==
  ASSUME NEW i \in Port
  PROVE  /\ Opposite(i) \in Wires /\ i \in Wires /\ Opposite(Opposite(i)) = i
         /\ Opposite(i)[1] = i[2] /\ Opposite(i)[2] = i[1]
BY PortIsPair DEF Wires, Opposite

\* The wires a hub sends on, in a forest.
LEMMA WiresOn ==
  ASSUME NEW U \in SUBSET Port, NEW Ahead, IsForest(U, Ahead), UsedInv, used \subseteq U,
         NEW i \in Port, fd[i] = "bound"
  PROVE  \A o \in Outputs(i) :
           /\ o \in Port /\ Ahead[o] \subseteq Ahead[Opposite(i)]
           /\ \A p \in Outputs(i) \ {o} : Ahead[o] \cap Ahead[p] = {}
<1>1. /\ Opposite(i) \in Wires /\ Opposite(Opposite(i)) = i
      /\ Opposite(i)[1] = i[2] /\ Opposite(i)[2] = i[1] /\ i \in U
  BY WireEnds DEF UsedInv
<1>2. ASSUME NEW o \in Outputs(i)
      PROVE  o \in U /\ o \in Port /\ o[1] = i[1] /\ o[2] # i[2]
  <2>1. o \in Port /\ o[1] = i[1] /\ o # i /\ o \in U
    BY DEF Outputs, UsedInv
  <2>. QED  BY <2>1, PortIsPair
<1>3. ASSUME NEW o \in Outputs(i)
      PROVE  /\ Ahead[o] \subseteq Ahead[Opposite(i)]
             /\ \A p \in Outputs(i) \ {o} : Ahead[o] \cap Ahead[p] = {}
  <2>1. /\ Ahead[o] \subseteq Ahead[Opposite(i)]
        /\ \A p \in U \ {o} : p[1] = i[1] /\ p[2] # i[2] => Ahead[o] \cap Ahead[p] = {}
    BY <1>1, <1>2 DEF IsForest
  <2>. QED  BY <1>2, <2>1
<1>. QED  BY <1>2, <1>3

\* Where f was is where it still is, or it has gone.
LEMMA FewerStayApart ==
  ASSUME NEW f, NEW Ahead, Apart(queue, f, Ahead), Unserved(queue, f, Ahead), NEW q2,
         \A j \in Port : /\ AtMostOne(queue, f, {j}) => AtMostOne(q2, f, {j})
                         /\ Holds(q2, f, j) => Holds(queue, f, j)
  PROVE  Apart(q2, f, Ahead) /\ Unserved(q2, f, Ahead)
BY DEF Apart, Unserved

\* When f is put on wires that lie apart from each other, from the copies that
\* wait and from the hosts that have f, the new copies are apart as well.
LEMMA SpreadOn ==
  ASSUME CountInv, NEW U \in SUBSET Port, NEW Ahead, IsForest(U, Ahead),
         UsedInv, used \subseteq U,
         NEW f \in Frame, NEW out \in SUBSET Wires, NEW q, Buffers(q), Buffers(queue'),
         Transmit(f, out, q), Delivered(q, queue', f, out),
         Apart(q, f, Ahead), Unserved(q, f, Ahead),
         \A o \in out :
           /\ \A p \in out \ {o} : Ahead[o] \cap Ahead[p] = {}
           /\ \A j \in Port : Holds(q, f, j) => Ahead[o] \cap Ahead[Opposite(j)] = {}
           /\ \A h \in Host : got[h][f] = 1 => h \notin Ahead[o]
  PROVE  Apart(queue', f, Ahead) /\ Unserved(queue, f, Ahead)'
<1>1. ASSUME NEW j \in Port
      PROVE  /\ AtMostOne(queue', f, {j})
             /\ Holds(queue', f, j) => Holds(q, f, j) \/ Opposite(j) \in out
  <2>1. CASE queue'[j] = q[j]
    <3>1. Places(queue', f, {j}) = Places(q, f, {j})
      BY <2>1 DEF Places
    <3>. QED  BY <3>1 DEF Holds, AtMostOne, Apart
  <2>2. CASE queue'[j] # q[j]
    <3>1. fd[j] = "bound" /\ Opposite(j) \in out /\ j \in U
      BY <2>2 DEF Delivered, UsedInv
    <3>2. Opposite(j)[2] \in Ahead[Opposite(j)]
      BY <3>1, WireEnds DEF IsForest
    <3>3. Places(q, f, {j}) = {}
      BY <3>1, <3>2 DEF Holds
    <3>4. AtMostOne(queue', f, {j})
      BY <3>3, CopyComesIn
    <3>. QED  BY <3>1, <3>4
  <2>. QED  BY <2>1, <2>2
<1>2. ASSUME NEW j \in Port, NEW k \in Port, j # k, Holds(queue', f, j), Holds(queue', f, k)
      PROVE  Ahead[Opposite(j)] \cap Ahead[Opposite(k)] = {}
  <2>1. Opposite(j) # Opposite(k)
    BY <1>2, WireEnds
  <2>2. CASE Holds(q, f, j) /\ Holds(q, f, k)
    BY <1>2, <2>2 DEF Apart
  <2>3. CASE Opposite(j) \in out
    BY <1>1, <1>2, <2>1, <2>3
  <2>4. CASE Opposite(k) \in out
    BY <1>1, <1>2, <2>1, <2>4
  <2>. QED  BY <1>1, <1>2, <2>2, <2>3, <2>4
<1>3. ASSUME NEW h \in Host
      PROVE  /\ got'[h][f] <= 1
             /\ got'[h][f] = 1 =>
                  \A j \in Port : Holds(queue', f, j) => h \notin Ahead[Opposite(j)]
  <2>1. got[h][f] \in 0..1 /\ got[h][f] \in Nat
    <3>1. got[h][f] \in 0..2 /\ got[h][f] <= 1
      BY HostsGet DEF Unserved
    <3>. QED  BY <3>1
  <2>2. CASE \E o \in out : o[2] = h
    <3>1. PICK o \in out : o[2] = h
      BY <2>2
    <3>2. Opposite(o) \notin Port
      <4>1. Opposite(o)[1] \notin Station
        BY <3>1, IfaceAssumption DEF Opposite
      <4>. QED  BY <4>1, PortIsPair
    <3>3. h \in Ahead[o]
      BY <3>1 DEF IsForest
    <3>4. got[h][f] = 0
      <4>1. got[h][f] # 1
        BY <3>3
      <4>. QED  BY <2>1, <4>1
    <3>5. got'[h][f] = 1
      BY <2>2, <3>4, HostsGet
    <3>6. ASSUME NEW j \in Port, Holds(queue', f, j)
          PROVE  h \notin Ahead[Opposite(j)]
      <4>1. CASE Holds(q, f, j)
        BY <3>3, <4>1
      <4>2. CASE Opposite(j) \in out
        <5>1. Opposite(j) # o
          BY <3>2, WireEnds
        <5>. QED  BY <3>3, <4>2, <5>1
      <4>. QED  BY <1>1, <3>6, <4>1, <4>2
    <3>. QED  BY <3>5, <3>6
  <2>3. CASE ~\E o \in out : o[2] = h
    <3>1. got'[h][f] = got[h][f]
      BY <2>3, HostsGet
    <3>. QED  BY <1>1, <2>1, <3>1 DEF Unserved
  <2>. QED  BY <2>2, <2>3
<1>4. Apart(queue', f, Ahead)
  BY <1>1, <1>2 DEF Apart
<1>. QED  BY <1>3, <1>4 DEF Unserved, Holds, Places

\* A step that is about another frame leaves f, and who has been given it.
LEMMA OthersStay ==
  ASSUME TypeInv, NEW f \in Frame, NEW Ahead, Spreads(f, Ahead),
         \/ UNCHANGED <<queue, got>>
         \/ \E i \in Port : \/ DropOutgoing(i)
                            \/ Broadcast(i) /\ Head(queue[i]).frame # f
         \/ \E g \in Frame : SendFirst(g) /\ g # f
  PROVE  /\ Apart(queue', f, Ahead) /\ Unserved(queue, f, Ahead)'
         /\ \A h \in Host : got'[h][f] = got[h][f]
<1>. USE DEF TypeInv
<1>1. \A j \in Port : Same(queue', f, {j})
  BY OtherFrames
<1>2. Apart(queue', f, Ahead) /\ Unserved(queue', f, Ahead)
  BY <1>1, FewerStayApart DEF Same, Holds, Spreads
<1>3. \A h \in Host : got'[h][f] = got[h][f]
  <2>1. CASE UNCHANGED got
    BY <2>1
  <2>2. ASSUME NEW g \in Frame, g # f, NEW out, NEW q, Transmit(g, out, q)
        PROVE  \A h \in Host : got'[h][f] = got[h][f]
    BY <2>2, HostsGet
  <2>3. ASSUME NEW i \in Port, Broadcast(i), Head(queue[i]).frame # f
        PROVE  \A h \in Host : got'[h][f] = got[h][f]
    <3>1. Transmit(Head(queue[i]).frame, Outputs(i), Unread(i)) /\ queue[i] # <<>>
      BY <2>3 DEF Broadcast, Readable
    <3>2. Head(queue[i]).frame \in Frame
      BY <3>1, FirstIsHeard, HeardRecord
    <3>. QED  BY <2>2, <2>3, <3>1, <3>2
  <2>4. ASSUME NEW g \in Frame, SendFirst(g), g # f
        PROVE  \A h \in Host : got'[h][f] = got[h][f]
    <3>1. Transmit(g, {Origin[g]}, OwnCapture(g))
      BY <2>4 DEF SendFirst, OwnCapture
    <3>. QED  BY <2>2, <2>4, <3>1
  <2>. QED  BY <2>1, <2>3, <2>4 DEF DropOutgoing, history
<1>. QED  BY <1>2, <1>3 DEF Unserved, Holds, Places

\* The step that reads f: what it puts on the wires lies ahead of what it read.
LEMMA ReadSpreads ==
  ASSUME TypeInv, UsedInv, NEW U \in SUBSET Port, NEW Ahead, IsForest(U, Ahead),
         used \subseteq U, NEW f \in Frame, f \notin stray', Spreads(f, Ahead),
         NEW i \in Port, Broadcast(i), Head(queue[i]).frame = f
  PROVE  Apart(queue', f, Ahead) /\ Unserved(queue, f, Ahead)'
<1>. USE DEF TypeInv
<1> DEFINE q == Unread(i)
           out == Outputs(i)
<1>1. /\ queue[i] # <<>> /\ ~Head(queue[i]).out /\ fd[i] = "bound" /\ Transmit(f, out, q)
  BY DEF Broadcast, Readable
<1>2. Buffers(q) /\ Buffers(queue') /\ Delivered(q, queue', f, out)
  <2>1. Buffers(q) /\ out \in SUBSET (Port \cup (Host \X Station))
    BY <1>1, UnreadResult, OutputsArePorts
  <2>2. QueueInv' /\ Delivered(q, queue', f, out)
    BY <1>1, <2>1, TransmitResult
  <2>. QED  BY <2>1, <2>2 DEF QueueInv, Buffers
<1>3. Holds(queue, f, i)
  <2>1. <<i, 1>> \in Places(queue, f, {i})
    BY <1>1, UnreadResult DEF Places
  <2>. QED  BY <2>1 DEF Holds
<1>4. ASSUME NEW j \in Port
      PROVE  /\ AtMostOne(queue, f, {j}) => AtMostOne(q, f, {j})
             /\ Holds(q, f, j) => Holds(queue, f, j) /\ j # i
  <2>1. CASE j = i
    <3>1. Places(q, f, {i}) = {}
      BY <1>1, CopyIsRead DEF Spreads, Apart
    <3>. QED  BY <2>1, <3>1 DEF Holds, AtMostOne
  <2>2. CASE j # i
    <3>1. i \notin {j} /\ {j} \in SUBSET Port
      BY <2>2
    <3>. QED  BY <1>1, <2>2, <3>1, OtherIsRead DEF Holds
  <2>. QED  BY <2>1, <2>2
<1>5. Apart(q, f, Ahead) /\ Unserved(q, f, Ahead)
  BY <1>4, FewerStayApart DEF Spreads
<1>6. ASSUME NEW o \in out
      PROVE  /\ o \in Wires
             /\ \A p \in out \ {o} : Ahead[o] \cap Ahead[p] = {}
             /\ \A j \in Port : Holds(q, f, j) => Ahead[o] \cap Ahead[Opposite(j)] = {}
             /\ \A h \in Host : got[h][f] = 1 => h \notin Ahead[o]
  <2>1. /\ o \in Port /\ Ahead[o] \subseteq Ahead[Opposite(i)]
        /\ \A p \in out \ {o} : Ahead[o] \cap Ahead[p] = {}
    BY <1>1, WiresOn
  <2>2. \A j \in Port : Holds(q, f, j) => Ahead[Opposite(i)] \cap Ahead[Opposite(j)] = {}
    BY <1>3, <1>4 DEF Spreads, Apart
  <2>3. \A h \in Host : got[h][f] = 1 => h \notin Ahead[Opposite(i)]
    BY <1>3 DEF Spreads, Unserved
  <2>. QED  BY <2>1, <2>2, <2>3, WireEnds
<1>. HIDE DEF q, out
<1>7. out \in SUBSET Wires
  BY <1>6
<1>. QED  BY <1>1, <1>2, <1>5, <1>6, <1>7, SpreadOn

\* The step that sends f first: nothing waits and nobody was served before.
LEMMA SendSpreads ==
  ASSUME TypeInv, UsedInv, NEW U \in SUBSET Port, NEW Ahead, IsForest(U, Ahead),
         used \subseteq U, NEW f \in Frame, f \notin stray', Spreads(f, Ahead), SendFirst(f)
  PROVE  Apart(queue', f, Ahead) /\ Unserved(queue, f, Ahead)'
<1>. USE DEF TypeInv
<1> DEFINE q == OwnCapture(f)
           out == {Origin[f]}
<1>1. f \notin sent /\ Transmit(f, out, q)
  BY DEF SendFirst, OwnCapture
<1>2. Buffers(q) /\ Buffers(queue') /\ Delivered(q, queue', f, out)
  <2>1. Buffers(q) /\ out \in SUBSET (Port \cup (Host \X Station))
    BY OwnCaptureResult, OriginIsWire
  <2>2. QueueInv' /\ Delivered(q, queue', f, out)
    BY <1>1, <2>1, TransmitResult
  <2>. QED  BY <2>1, <2>2 DEF QueueInv, Buffers
<1>3. \A j \in Port : Places(q, f, {j}) = {}
  BY <1>1, NothingBefore
<1>4. \A h \in Host : got[h][f] = 0
  BY <1>1 DEF Spreads
<1>. HIDE DEF q
<1>5. Apart(q, f, Ahead) /\ Unserved(q, f, Ahead)
  <2>1. \A h \in Host : got[h][f] <= 1 /\ got[h][f] # 1
    BY <1>4
  <2>2. Unserved(q, f, Ahead)
    BY <2>1 DEF Unserved
  <2>. QED  BY <1>3, <2>2 DEF Apart, Holds, AtMostOne
<1>6. \A o \in out :
        /\ \A p \in out \ {o} : Ahead[o] \cap Ahead[p] = {}
        /\ \A j \in Port : Holds(q, f, j) => Ahead[o] \cap Ahead[Opposite(j)] = {}
        /\ \A h \in Host : got[h][f] = 1 => h \notin Ahead[o]
  BY <1>3, <1>4 DEF Holds
<1>7. out \in SUBSET Wires
  <2>1. Origin[f] \in Port \/ Opposite(Origin[f]) \in Port
    BY OriginAssumption
  <2>2. Opposite(Opposite(Origin[f])) = Origin[f]
    BY AccessIsEdge
  <2>. QED  BY <2>1, <2>2 DEF Wires
<1>. HIDE DEF out
<1>. QED  BY <1>1, <1>2, <1>5, <1>6, <1>7, SpreadOn

\* In a forest, every step keeps what f leads to apart.
LEMMA SpreadStep ==
  ASSUME TypeInv, UsedInv, NEW U \in SUBSET Port, NEW Ahead, IsForest(U, Ahead),
         SpreadInv(U, Ahead), [Next]_vars
  PROVE  SpreadInv(U, Ahead)'
<1>1. used \subseteq used' /\ stray \subseteq stray' /\ sent \subseteq sent'
  BY DEF Next, Launch, CreateSocket, BindSocket, OpenFails, End, Broadcast, DropOutgoing,
     SendFirst, Transmit, vars, history
<1>. SUFFICES ASSUME used' \subseteq U, NEW f \in Frame, f \notin stray'
              PROVE  Spreads(f, Ahead)'
  BY DEF SpreadInv
<1>2. used \subseteq U /\ Spreads(f, Ahead)
  BY <1>1 DEF SpreadInv
<1>3. ASSUME Apart(queue', f, Ahead), Unserved(queue, f, Ahead)',
             f \notin sent' => \A h \in Host : got'[h][f] = got[h][f]
      PROVE  Spreads(f, Ahead)'
  <2>1. f \notin sent' => \A h \in Host : got'[h][f] = 0
    BY <1>1, <1>2, <1>3 DEF Spreads
  <2>2. Apart(queue, f, Ahead)'
    BY <1>3 DEF Apart, Holds, AtMostOne, Places
  <2>. QED  BY <1>3, <2>1, <2>2 DEF Spreads
<1>4. CASE \/ UNCHANGED <<queue, got>>
           \/ \E i \in Port : \/ DropOutgoing(i)
                              \/ Broadcast(i) /\ Head(queue[i]).frame # f
           \/ \E g \in Frame : SendFirst(g) /\ g # f
  BY <1>2, <1>3, <1>4, OthersStay
<1>5. ASSUME NEW i \in Port, Broadcast(i), Head(queue[i]).frame = f
      PROVE  Spreads(f, Ahead)'
  <2>1. f \in sent
    BY <1>5, FirstIsHeard, HeardRecord DEF Broadcast, Readable
  <2>. QED  BY <1>1, <1>2, <1>3, <1>5, <2>1, ReadSpreads
<1>6. CASE SendFirst(f)
  <2>1. f \in sent'
    BY <1>6 DEF SendFirst
  <2>. QED  BY <1>2, <1>3, <1>6, <2>1, SendSpreads
<1>7. ASSUME NEW b \in Station, OpenFails(b) \/ End(b)
      PROVE  Spreads(f, Ahead)'
  <2>1. \A j \in Port : queue'[j] = queue[j] \/ queue'[j] = <<>>
    <3>1. CASE OpenFails(b)
      BY <3>1, CurrentIsPort DEF OpenFails, TypeInv, QueueInv, Buffers
    <3>2. CASE End(b)
      BY <3>2 DEF End
    <3>. QED  BY <1>7, <3>1, <3>2
  <2>2. UNCHANGED got
    BY <1>7 DEF OpenFails, End, history
  <2>3. \A j \in Port : Places(queue', f, {j}) \subseteq Places(queue, f, {j})
    BY <2>1, CopiesAreLost
  <2>4. Apart(queue', f, Ahead) /\ Unserved(queue', f, Ahead)
    BY <1>2, <2>3, FewerStayApart DEF Spreads, AtMostOne, Holds
  <2>. QED  BY <1>3, <2>2, <2>4 DEF Unserved, Holds, Places
<1>8. CASE \E b \in Station : Launch(b) \/ CreateSocket(b) \/ BindSocket(b)
  BY <1>4, <1>8 DEF Launch, CreateSocket, BindSocket, history
<1>9. CASE UNCHANGED vars
  BY <1>4, <1>9 DEF vars, history
<1>. QED  BY <1>4, <1>5, <1>6, <1>7, <1>8, <1>9 DEF Next

\* Nothing waits and nobody was served at the start.
LEMMA SpreadStarts ==
  ASSUME Init, NEW U, NEW Ahead
  PROVE  SpreadInv(U, Ahead)
<1>. SUFFICES ASSUME NEW f \in Frame
              PROVE  Spreads(f, Ahead)
  BY DEF SpreadInv
<1>1. queue = [i \in Port |-> <<>>] /\ \A h \in Host : got[h][f] = 0
  BY DEF Init
<1>2. \A j \in Port : Places(queue, f, {j}) = {}
  BY <1>1 DEF Places
<1>3. \A h \in Host : got[h][f] <= 1 /\ got[h][f] # 1
  BY <1>1
<1>4. Unserved(queue, f, Ahead)
  BY <1>3 DEF Unserved
<1>. QED  BY <1>1, <1>2, <1>4 DEF Spreads, Apart, Holds, AtMostOne

-----------------------------------------------------------------------------
(***************************************************************************)
(* An open ring is a forest.                                               *)
(***************************************************************************)

\* Node x is at the kth place of the line: a station, or a host of it.
Stands(x, k, at) == x = at[k] \/ (x \in Host /\ <<at[k], x>> \in Port)

\* Where wire i leads in a ring that is open at interface e: on in its direction,
\* both ways from a host, and nowhere if it ends at e.
RingLeads(i, x, at, e) ==
  LET n == Cardinality(Station)
  IN  \/ i[2] = x
      \/ \E k, l \in 1..n :
           /\ i[2] = at[k] /\ Stands(x, l, at)
           /\ \/ i = e
              \/ k > 1 /\ i[1] = at[k - 1] /\ l >= k
              \/ k < n /\ i[1] = at[k + 1] /\ l <= k
              \/ i[1] \in Host /\ x # i[1]

RingAhead(at, e) ==
  [i \in Wires |-> {x \in Station \cup Host : i # Opposite(e) /\ RingLeads(i, x, at, e)}]

\* A node has one place in the line.
LEMMA OnePlace ==
  ASSUME IsRing, NEW e \in Inner, NEW at \in [1..Cardinality(Station) -> Station], Line(at, e),
         NEW x, NEW k \in 1..Cardinality(Station), NEW l \in 1..Cardinality(Station),
         Stands(x, k, at), Stands(x, l, at)
  PROVE  k = l
<1>1. at[k] \in Station /\ at[l] \in Station /\ Station \cap Host = {}
  BY IfaceAssumption
<1>2. at[k] = at[l]
  <2>1. CASE x \in Station
    BY <1>1, <2>1 DEF Stands
  <2>2. CASE x \in Host
    <3>1. <<at[k], x>> \in Port /\ <<at[l], x>> \in Port
      BY <1>1, <2>2 DEF Stands
    <3>2. <<at[k], x>> = <<at[l], x>>
      BY <2>2, <3>1 DEF IsRing
    <3>. QED  BY <3>2
  <2>. QED  BY <1>1, <2>1, <2>2 DEF Stands
<1>. QED  BY <1>2 DEF Line

\* Where a station sends in a line: on, back, or to a host.
LEMMA WiresOfLine ==
  ASSUME IsRing, NEW e \in Inner, NEW at \in [1..Cardinality(Station) -> Station], Line(at, e),
         NEW k \in 1..Cardinality(Station), NEW o \in Port \ {e, Opposite(e)}, o[1] = at[k]
  PROVE  \/ o[2] \in Host /\ Stands(o[2], k, at)
         \/ k < Cardinality(Station) /\ o[2] = at[k + 1]
         \/ k > 1 /\ o[2] = at[k - 1]
<1> DEFINE n == Cardinality(Station)
<1>1. n \in Nat /\ k \in 1..n
  BY FS_CardinalityType DEF IsRing
<1>. HIDE DEF n
<1>2. o = <<o[1], o[2]>> /\ o[2] \in Station \cup Host
  BY PortIsPair
<1>3. CASE o[2] \in Host
  BY <1>2, <1>3 DEF Stands
<1>4. CASE o[2] \in Station
  <2>1. o \in Inner \ {e, Opposite(e)}
    BY <1>4 DEF IsRing
  <2>2. PICK m \in 1..(n - 1) : o \in {<<at[m], at[m + 1]>>, <<at[m + 1], at[m]>>}
    BY <2>1 DEF Line, n
  <2>3. m \in 1..n /\ m + 1 \in 1..n /\ m < n /\ (m + 1) - 1 = m /\ m + 1 > 1
    BY <1>1, <2>2
  <2>4. CASE o = <<at[m], at[m + 1]>>
    <3>1. k = m
      BY <1>1, <2>3, <2>4 DEF Line, n
    <3>. QED  BY <2>3, <2>4, <3>1 DEF n
  <2>5. CASE o = <<at[m + 1], at[m]>>
    <3>1. k = m + 1
      BY <1>1, <2>3, <2>5 DEF Line, n
    <3>. QED  BY <2>3, <2>5, <3>1 DEF n
  <2>. QED  BY <2>2, <2>4, <2>5
<1>. QED  BY <1>2, <1>3, <1>4

\* Node x stands at place l, on the side of wire o of the kth station.
OnSide(x, l, k, o, at) ==
  LET n == Cardinality(Station)
  IN  /\ Stands(x, l, at)
      /\ \/ o[2] \in Host /\ x = o[2] /\ l = k
         \/ k < n /\ o[2] = at[k + 1] /\ l > k
         \/ k > 1 /\ o[2] = at[k - 1] /\ l < k

\* What lies ahead of such a wire stands on its side of the station.
LEMMA AheadOnLine ==
  ASSUME IsRing, NEW e \in Inner, NEW at \in [1..Cardinality(Station) -> Station], Line(at, e),
         NEW k \in 1..Cardinality(Station), NEW o \in Port \ {e}, o[1] = at[k],
         NEW x \in RingAhead(at, e)[o]
  PROVE  \E l \in 1..Cardinality(Station) : OnSide(x, l, k, o, at)
<1> DEFINE n == Cardinality(Station)
           Side(l) == \/ o[2] \in Host /\ x = o[2] /\ l = k
                      \/ k < n /\ o[2] = at[k + 1] /\ l > k
                      \/ k > 1 /\ o[2] = at[k - 1] /\ l < k
<1>1. n \in Nat /\ k \in 1..n /\ Station \cap Host = {} /\ at \in [1..n -> Station]
  BY FS_CardinalityType, IfaceAssumption DEF IsRing
<1>2. o # Opposite(e) /\ RingLeads(o, x, at, e) /\ o[1] \in Station
  BY <1>1, WireEnds DEF RingAhead
<1>3. \/ o[2] \in Host /\ Stands(o[2], k, at)
      \/ k < n /\ o[2] = at[k + 1]
      \/ k > 1 /\ o[2] = at[k - 1]
  BY <1>2, WiresOfLine
<1>4. \A i, j \in 1..n : at[i] = at[j] => i = j
  BY DEF Line
<1>5. \/ o[2] = x
      \/ \E m, l \in 1..n : /\ o[2] = at[m] /\ Stands(x, l, at)
                            /\ \/ m > 1 /\ o[1] = at[m - 1] /\ l >= m
                               \/ m < n /\ o[1] = at[m + 1] /\ l <= m
  BY <1>1, <1>2 DEF RingLeads, n
<1>. HIDE DEF n
<1>6. CASE o[2] \in Host
  <2>1. o[2] = x
    BY <1>1, <1>5, <1>6
  <2>2. k < n => at[k + 1] \in Station
    <3>1. k < n => k + 1 \in 1..n
      BY <1>1
    <3>. QED  BY <1>1, <3>1
  <2>3. k > 1 => at[k - 1] \in Station
    <3>1. k > 1 => k - 1 \in 1..n
      BY <1>1
    <3>. QED  BY <1>1, <3>1
  <2>4. Stands(x, k, at)
    BY <1>1, <1>3, <1>6, <2>1, <2>2, <2>3
  <2>5. Side(k)
    BY <1>6, <2>1
  <2>. QED  BY <1>1, <2>4, <2>5 DEF n, OnSide
<1>7. CASE k < n /\ o[2] = at[k + 1]
  <2>1. k + 1 \in 1..n /\ k + 1 > k
    BY <1>1, <1>7
  <2>2. CASE o[2] = x
    <3>1. Stands(x, k + 1, at) /\ Side(k + 1)
      BY <1>7, <2>1, <2>2 DEF Stands
    <3>. QED  BY <2>1, <3>1 DEF n, OnSide
  <2>3. ASSUME NEW m \in 1..n, NEW l \in 1..n, o[2] = at[m], Stands(x, l, at),
               \/ m > 1 /\ o[1] = at[m - 1] /\ l >= m
               \/ m < n /\ o[1] = at[m + 1] /\ l <= m
        PROVE  Side(l)
    <3>1. m = k + 1
      BY <1>4, <1>7, <2>1, <2>3
    <3>2. m < n => m + 1 \in 1..n /\ m + 1 # k
      BY <1>1, <2>3, <3>1
    <3>3. ~(m < n /\ o[1] = at[m + 1])
      BY <1>1, <1>4, <3>2
    <3>4. l > k
      BY <1>1, <2>3, <3>1, <3>3
    <3>. QED  BY <1>7, <3>4
  <2>. QED  BY <1>5, <2>2, <2>3 DEF n, OnSide
<1>8. CASE k > 1 /\ o[2] = at[k - 1]
  <2>1. k - 1 \in 1..n /\ k - 1 < k
    BY <1>1, <1>8
  <2>2. CASE o[2] = x
    <3>1. Stands(x, k - 1, at) /\ Side(k - 1)
      BY <1>8, <2>1, <2>2 DEF Stands
    <3>. QED  BY <2>1, <3>1 DEF n, OnSide
  <2>3. ASSUME NEW m \in 1..n, NEW l \in 1..n, o[2] = at[m], Stands(x, l, at),
               \/ m > 1 /\ o[1] = at[m - 1] /\ l >= m
               \/ m < n /\ o[1] = at[m + 1] /\ l <= m
        PROVE  Side(l)
    <3>1. m = k - 1
      BY <1>4, <1>8, <2>1, <2>3
    <3>2. m > 1 => m - 1 \in 1..n /\ m - 1 # k
      BY <1>1, <2>3, <3>1
    <3>3. ~(m > 1 /\ o[1] = at[m - 1])
      BY <1>1, <1>4, <3>2
    <3>4. l < k
      BY <1>1, <2>3, <3>1, <3>3
    <3>. QED  BY <1>8, <3>4
  <2>. QED  BY <1>5, <2>2, <2>3 DEF n, OnSide
<1>. QED  BY <1>3, <1>6, <1>7, <1>8

\* So the wires that lead on from a station share out what lies ahead.
LEMMA OpenRingIsForest ==
  ASSUME IsRing, NEW e \in Inner, NEW at \in [1..Cardinality(Station) -> Station], Line(at, e)
  PROVE  IsForest(Port \ {e}, RingAhead(at, e))
<1> DEFINE n == Cardinality(Station)
           U == Port \ {e}
           A == RingAhead(at, e)
<1>1. n \in Nat /\ Station \cap Host = {} /\ at \in [1..n -> Station]
  BY FS_CardinalityType, IfaceAssumption DEF IsRing
<1>2. e \in Port /\ Opposite(e) \in Port /\ Opposite(Opposite(e)) = e
  BY WireEnds DEF Inner
<1>3. ASSUME NEW i \in Wires, i[2] \in Host \/ Opposite(i) \in U
      PROVE  /\ i[2] \in A[i] /\ i # Opposite(e) /\ i = <<i[1], i[2]>>
             /\ i[1] \in Station \cup Host
  <2>1. /\ i = <<i[1], i[2]>> /\ i[1] \in Station \cup Host /\ i[2] \in Station \cup Host
    <3>1. PICK j \in Port : i = j \/ i = Opposite(j)
      BY DEF Wires
    <3>. QED  BY <3>1, PortIsPair DEF Opposite
  <2>2. i # Opposite(e)
    <3>1. Opposite(e)[2] \in Station
      BY <1>2, WireEnds, PortIsPair
    <3>. QED  BY <1>1, <1>2, <1>3, <3>1
  <2>. QED  BY <2>1, <2>2 DEF RingAhead, RingLeads
<1>4. ASSUME NEW i \in Wires, i[2] \in Host \/ Opposite(i) \in U,
             NEW o \in U, o[1] = i[2], o[2] # i[1]
      PROVE  /\ A[o] \subseteq A[i] \ {i[2]}
             /\ \A p \in U \ {o} : p[1] = i[2] /\ p[2] # i[1] => A[o] \cap A[p] = {}
  <2>1. PICK k \in 1..n : o[1] = at[k]
    BY PortIsPair DEF Line
  <2>2. ASSUME NEW p \in U, p[1] = i[2], NEW x \in A[p]
        PROVE  \E l \in 1..n : OnSide(x, l, k, p, at)
    <3>1. p \in Port \ {e} /\ p[1] = at[k] /\ x \in RingAhead(at, e)[p]
      BY <1>4, <2>1, <2>2
    <3>. QED  BY <3>1, AheadOnLine
  <2>3. ASSUME NEW x, NEW l \in 1..n, NEW m \in 1..n, Stands(x, l, at), Stands(x, m, at)
        PROVE  l = m
    BY <2>3, OnePlace
  <2>4. i \in Wires /\ Opposite(i) \in U /\ i # Opposite(e) /\ i = <<i[1], i[2]>>
    <3>1. i[2] \in Station
      BY <1>4, PortIsPair
    <3>. QED  BY <1>1, <1>3, <1>4, <3>1
  <2>5. ASSUME NEW x \in A[o]
        PROVE  x \in A[i] /\ x # i[2]
    <3>0. PICK l \in 1..n : OnSide(x, l, k, o, at)
      BY <1>4, <2>2
    <3>1. /\ Stands(x, l, at)
          /\ \/ o[2] \in Host /\ x = o[2] /\ l = k
             \/ k < n /\ o[2] = at[k + 1] /\ l > k
             \/ k > 1 /\ o[2] = at[k - 1] /\ l < k
      BY <3>0 DEF OnSide
    <3>2. x # i[2]
      <4>1. ASSUME x = i[2]
            PROVE  FALSE
        <5>1. Stands(x, k, at) /\ x \in Station
          BY <1>1, <1>4, <2>1, <4>1 DEF Stands
        <5>2. l = k
          BY <2>3, <3>1, <5>1
        <5>. QED  BY <1>1, <3>1, <5>1, <5>2
      <4>. QED  BY <4>1
    <3>3. \/ i = e
          \/ k > 1 /\ i[1] = at[k - 1] /\ l >= k
          \/ k < n /\ i[1] = at[k + 1] /\ l <= k
          \/ i[1] \in Host /\ x # i[1]
      <4>1. Opposite(i)[1] = at[k] /\ Opposite(i)[2] = i[1]
        BY <1>4, <2>1 DEF Opposite
      <4>2. CASE i[1] \in Host
        <5>1. ASSUME x = i[1]
              PROVE  FALSE
          <6>1. Opposite(i) = <<at[k], x>>
            BY <4>1, <5>1 DEF Opposite
          <6>2. Stands(x, k, at)
            BY <2>4, <4>2, <5>1, <6>1 DEF Stands
          <6>3. l = k
            BY <2>3, <3>1, <6>2
          <6>. QED  BY <1>1, <1>4, <3>1, <5>1, <6>3
        <5>. QED  BY <4>2, <5>1
      <4>3. CASE i[1] \notin Host /\ i # e
        <5>1. Opposite(i) \in Port \ {e, Opposite(e)}
          <6>1. Opposite(Opposite(i)) = i
            BY <2>4 DEF Opposite
          <6>. QED  BY <1>2, <2>4, <4>3, <6>1
        <5>2. \/ k < n /\ i[1] = at[k + 1]
              \/ k > 1 /\ i[1] = at[k - 1]
          BY <4>1, <4>3, <5>1, WiresOfLine, ZenonT(30)
        <5>3. CASE k < n /\ i[1] = at[k + 1]
          BY <1>1, <1>4, <3>1, <5>3
        <5>4. CASE k > 1 /\ i[1] = at[k - 1]
          BY <1>1, <1>4, <3>1, <5>4
        <5>. QED  BY <5>2, <5>3, <5>4
      <4>. QED  BY <4>2, <4>3
    <3>4. RingLeads(i, x, at, e)
      BY <1>4, <2>1, <3>1, <3>3 DEF RingLeads
    <3>5. x \in Station \cup Host
      BY <1>1, <3>1 DEF Stands
    <3>. QED  BY <2>4, <3>2, <3>4, <3>5 DEF RingAhead
  <2>6. ASSUME NEW p \in U \ {o}, p[1] = i[2], p[2] # i[1], NEW x \in A[o] \cap A[p]
        PROVE  FALSE
    <3>1. PICK l \in 1..n : OnSide(x, l, k, o, at)
      BY <1>4, <2>2, <2>6
    <3>2. PICK m \in 1..n : OnSide(x, m, k, p, at)
      BY <2>2, <2>6
    <3>3. l = m
      BY <2>3, <3>1, <3>2 DEF OnSide
    <3>4. o[2] = p[2]
      BY <1>1, <3>1, <3>2, <3>3 DEF OnSide
    <3>5. o = <<o[1], o[2]>> /\ p = <<p[1], p[2]>>
      BY <2>6, PortIsPair
    <3>. QED  BY <1>4, <2>6, <3>4, <3>5
  <2>. QED  BY <2>5, <2>6
<1>. HIDE DEF U, A
<1>5. IsForest(U, A)
  BY <1>3, <1>4 DEF IsForest
<1>. QED  BY <1>5 DEF U, A

-----------------------------------------------------------------------------
(***************************************************************************)
(* The theorems.                                                           *)
(***************************************************************************)

\* The inductive invariant of the hub.
HubInv == TypeInv /\ IntactInv /\ CopyInv /\ UsedInv

\* The invariant holds in every state the hubs can reach.
LEMMA HubInvHolds == Spec => []HubInv
<1>1. Init => HubInv
  <2>1. SUFFICES ASSUME Init
                 PROVE  IntactInv /\ CopyInv
    BY TypeInvStarts DEF HubInv, UsedInv, Init
  <2>2. intact = {} /\ queue = [i \in Port |-> <<>>]
    BY <2>1 DEF Init
  <2>3. ASSUME NEW f, NEW S \in SUBSET Port
        PROVE  Places(queue, f, S) = {}
    BY <2>2 DEF Places
  <2>4. ASSUME NEW D \in Directions
        PROVE  D \cup Access \in SUBSET Port
    BY DEF Directions, Inner, Access
  <2>. QED  BY <2>2, <2>3, <2>4 DEF IntactInv, CopyInv, Whole, AtMostOne
<1>2. HubInv /\ [Next]_vars => HubInv'
  BY OpeningStep, QueueStep, HeardStep, IntactStep, CopyStep, UsedStep DEF HubInv, TypeInv
<1>. QED  BY <1>1, <1>2, PTL DEF Spec

\* The variables of the hub program keep their types: a socket buffers at most
\* MaxQueue frames, and init_all_ifaces goes through iface_list in its order.
THEOREM TypeCorrect == Spec => []TypeOK
<1>1. HubInv => TypeOK
  <2>1. SUFFICES ASSUME HubInv
                 PROVE  TypeOK
    OBVIOUS
  <2>2. ASSUME NEW i \in Port
        PROVE  Len(queue[i]) <= MaxQueue /\ ToSet(queue[i]) \subseteq Record
    <3>1. queue[i] \in Seq(Record) /\ Len(queue[i]) <= MaxQueue
      BY <2>1 DEF HubInv, TypeInv, QueueInv, Buffers
    <3>2. \A n \in 1..Len(queue[i]) : queue[i][n] \in Record
      BY <3>1, ElementOfSeq
    <3>. QED  BY <3>1, <3>2, LenProperties DEF ToSet
  <2>. QED  BY <2>1, <2>2 DEF HubInv, TypeInv, OpeningInv, CountInv, TypeOK
<1>. QED  BY <1>1, HubInvHolds, PTL

\* How many copies of f wait, when there is at most one.
LEMMA WaitingIsPlaces ==
  ASSUME TypeInv, NEW f, NEW P \in SUBSET Port, AtMostOne(queue, f, P)
  PROVE  Waiting(f, P) = IF Places(queue, f, P) = {} THEN 0 ELSE 1
<1> DEFINE W == {w \in Copies : /\ w[1] \in P
                                /\ queue[w[1]][w[2]].frame = f
                                /\ ~queue[w[1]][w[2]].out}
<1>1. ASSUME NEW j \in Port, NEW k
      PROVE  k \in 1..MaxQueue /\ k <= Len(queue[j]) <=> k \in Nat /\ k \in 1..Len(queue[j])
  <2>1. Len(queue[j]) \in Nat /\ Len(queue[j]) <= MaxQueue /\ MaxQueue \in Nat
    BY BufferType, BoundAssumption DEF TypeInv, QueueInv
  <2>. QED  BY <2>1
<1>2. ASSUME NEW w \in W
      PROVE  w \in Places(queue, f, P)
  <2>1. PICK j \in Port, k \in 1..MaxQueue : w = <<j, k>>
    BY DEF Copies
  <2>. QED  BY <1>1, <2>1 DEF Copies, Places
<1>3. ASSUME NEW w \in Places(queue, f, P)
      PROVE  w \in W
  <2>1. PICK j \in P, k \in Nat : w = <<j, k>>
    BY DEF Places
  <2>. QED  BY <1>1, <2>1 DEF Copies, Places
<1>4. W = Places(queue, f, P)
  BY <1>2, <1>3
<1>5. CASE Places(queue, f, P) = {}
  BY <1>4, <1>5, FS_EmptySet DEF Waiting
<1>6. CASE Places(queue, f, P) # {}
  <2>1. PICK w : w \in Places(queue, f, P)
    BY <1>6
  <2>2. W = {w}
    BY <1>4, <2>1 DEF AtMostOne
  <2>. QED  BY <1>6, <2>2, FS_Singleton DEF Waiting
<1>. QED  BY <1>5, <1>6

\* broadcast_packet never multiplies a frame that goes round a ring of hubs, and
\* none ends it: while all hubs are up, every direction keeps its copy.
THEOREM CopiesAreConservedHolds == Spec => []CopiesAreConserved
<1>1. HubInv => CopiesAreConserved
  <2>. SUFFICES ASSUME HubInv, NEW D \in Directions, NEW f \in Frame \ stray
                PROVE  LET whole(n) == n <= 1 /\ (f \in intact => n = 1)
                       IN  /\ Origin[f] \notin Port => whole(Waiting(f, D \cup Access))
                           /\ Origin[f] \in Port /\ Opposite(Origin[f]) \in D =>
                                whole(Waiting(f, Port))
    BY DEF CopiesAreConserved
  <2>1. TypeInv /\ D \cup Access \in SUBSET Port
    BY DEF HubInv, Directions, Inner, Access
  <2>2. SUFFICES ASSUME Goes(f, D)
                 PROVE  /\ Waiting(f, D \cup Access) <= 1
                        /\ f \in intact => Waiting(f, D \cup Access) = 1
                        /\ Origin[f] \in Port => Waiting(f, Port) = Waiting(f, D \cup Access)
    BY DEF Goes
  <2>3. Whole(f, D)
    BY <2>2 DEF HubInv, CopyInv
  <2>4. Waiting(f, D \cup Access) = IF Places(queue, f, D \cup Access) = {} THEN 0 ELSE 1
    BY <2>1, <2>3, WaitingIsPlaces DEF Whole
  <2>5. ASSUME Origin[f] \in Port
        PROVE  Waiting(f, Port) = Waiting(f, D \cup Access)
    <3>1. Places(queue, f, Port) = Places(queue, f, D \cup Access)
      <4>1. ASSUME NEW w \in Places(queue, f, Port)
            PROVE  w \in Places(queue, f, D \cup Access)
        <5>1. w \notin Places(queue, f, Port \ D)
          BY <2>3, <2>5 DEF Whole
        <5>. QED  BY <5>1 DEF Places
      <4>2. ASSUME NEW w \in Places(queue, f, D \cup Access)
            PROVE  w \in Places(queue, f, Port)
        BY <2>1 DEF Places
      <4>. QED  BY <4>1, <4>2
    <3>2. AtMostOne(queue, f, Port)
      BY <2>3, <3>1 DEF Whole, AtMostOne
    <3>3. Waiting(f, Port) = IF Places(queue, f, Port) = {} THEN 0 ELSE 1
      BY <2>1, <3>2, WaitingIsPlaces
    <3>. QED  BY <2>4, <3>1, <3>3
  <2>. QED  BY <2>3, <2>4, <2>5 DEF Whole
<1>. QED  BY <1>1, HubInvHolds, PTL

\* Where the interfaces that have ever been open make a forest, no hub sends a
\* frame to a host a second time: broadcast_packet leaves out the one way back.
THEOREM ForestDeliversOnce ==
  ASSUME NEW U \in SUBSET Port, NEW Ahead, IsForest(U, Ahead)
  PROVE  Spec => [](used \subseteq U => DeliversOnce)
<1>1. Init => SpreadInv(U, Ahead)
  BY SpreadStarts
<1>2. HubInv /\ SpreadInv(U, Ahead) /\ [Next]_vars => SpreadInv(U, Ahead)'
  BY SpreadStep DEF HubInv
<1>3. SpreadInv(U, Ahead) => (used \subseteq U => DeliversOnce)
  BY DEF SpreadInv, Spreads, Unserved, DeliversOnce
<1>. QED  BY <1>1, <1>2, <1>3, HubInvHolds, PTL DEF Spec

\* In a ring of any number of hubs: as long as one of its interfaces has never been
\* open, no host is given a frame twice.
THEOREM OpenRingsDeliverOnce ==
  ASSUME IsRing
  PROVE  Spec => []OpenRingDeliversOnce
<1> DEFINE RingInv ==
             \A e \in Inner : \A at \in [1..Cardinality(Station) -> Station] :
               Line(at, e) => SpreadInv(Port \ {e}, RingAhead(at, e))
<1>1. Init => RingInv
  BY SpreadStarts
<1>2. HubInv /\ RingInv /\ [Next]_vars => RingInv'
  <2>1. SUFFICES ASSUME HubInv, RingInv, [Next]_vars,
                        NEW e \in Inner, NEW at \in [1..Cardinality(Station) -> Station],
                        Line(at, e)
                 PROVE  SpreadInv(Port \ {e}, RingAhead(at, e))'
    OBVIOUS
  <2>2. IsForest(Port \ {e}, RingAhead(at, e)) /\ SpreadInv(Port \ {e}, RingAhead(at, e))
    BY <2>1, OpenRingIsForest
  <2>. QED  BY <2>1, <2>2, SpreadStep DEF HubInv
<1>3. HubInv /\ RingInv => OpenRingDeliversOnce
  <2>1. SUFFICES ASSUME HubInv, RingInv, NEW e \in Inner, e \notin used
                 PROVE  DeliversOnce
    BY DEF OpenRingDeliversOnce
  <2>2. PICK at \in [1..Cardinality(Station) -> Station] : Line(at, e)
    BY DEF IsRing
  <2>3. used \subseteq Port \ {e}
    BY <2>1 DEF HubInv, TypeInv, OpeningInv
  <2>. QED  BY <2>1, <2>2, <2>3 DEF SpreadInv, Spreads, Unserved, DeliversOnce
<1>. QED  BY <1>1, <1>2, <1>3, HubInvHolds, PTL DEF Spec

\* The frames the hub would send back where they came from (see NeverSentBack,
\* which says that there are none).
SentBack ==
  {r \in Record : \E i \in Port : /\ r \in ToSet(queue[i]) /\ fd[i] = "bound" /\ ~r.out
                                  /\ <<i[1], r.from>> \in Outputs(i)}

\* broadcast.c:17 leaves out "the receiving one": it is left out of every frame
\* but those a socket has captured between socket() and bind() of open_device.
THEOREM OnlyStrayFramesAreSentBack == Spec => [](\A r \in SentBack : r.frame \in stray)
<1>1. HubInv => \A r \in SentBack : r.frame \in stray
  <2>. SUFFICES ASSUME HubInv, NEW r \in SentBack, r.frame \notin stray
                PROVE  FALSE
    OBVIOUS
  <2>1. PICK i \in Port : /\ r \in ToSet(queue[i]) /\ ~r.out
                          /\ <<i[1], r.from>> \in Outputs(i)
    BY DEF SentBack
  <2>2. r \in Heard(i)
    <3>1. queue[i] \in Seq(Heard(i))
      BY DEF HubInv, TypeInv, HeardInv
    <3>2. \A n \in 1..Len(queue[i]) : queue[i][n] \in Heard(i)
      BY <3>1, ElementOfSeq
    <3>. QED  BY <2>1, <3>1, <3>2, LenProperties DEF ToSet
  <2>3. <<i[1], r.from>> = i
    BY <2>1, <2>2, PortIsPair DEF Heard
  <2>. QED  BY <2>1, <2>3 DEF Outputs
<1>. QED  BY <1>1, HubInvHolds, PTL

-----------------------------------------------------------------------------
(***************************************************************************)
(* In a forest every frame comes to an end: this is what                   *)
(* OpenRingFallsSilent rests on.                                           *)
(***************************************************************************)

\* What lies ahead of the copies of f that wait.
Left(f, Ahead) == UNION {Ahead[Opposite(j)] : j \in {k \in Port : Holds(queue, f, k)}}

\* The process of station b handles f.
Handles(b, f) ==
  \E i \in Port : i[1] = b /\ Broadcast(i) /\ Head(queue[i]).frame = f

\* Where f waits no interface more, no more lies ahead of it.
LEMMA FewerLeft ==
  ASSUME NEW f, NEW Ahead, \A j \in Port : Holds(queue', f, j) => Holds(queue, f, j)
  PROVE  Left(f, Ahead)' \subseteq Left(f, Ahead)
<1>1. \A j \in Port : Holds(queue, f, j)' => Holds(queue, f, j)
  BY DEF Holds, Places
<1>. QED  BY <1>1 DEF Left

\* The step that reads f behind i leaves station i[1] behind: the copy that was
\* read was the only one it lay ahead of, and it does not lie ahead of those that
\* were sent on.
LEMMA ReadLeaves ==
  ASSUME TypeInv, UsedInv, NEW U \in SUBSET Port, NEW Ahead, IsForest(U, Ahead),
         used \subseteq U, NEW f \in Frame, f \notin stray', Spreads(f, Ahead),
         NEW i \in Port, Broadcast(i), Head(queue[i]).frame = f
  PROVE  /\ Left(f, Ahead)' \subseteq Left(f, Ahead)
         /\ i[1] \in Left(f, Ahead) /\ i[1] \notin Left(f, Ahead)'
<1>. USE DEF TypeInv
<1> DEFINE q == Unread(i)
           out == Outputs(i)
<1>1. /\ queue[i] # <<>> /\ ~Head(queue[i]).out /\ fd[i] = "bound" /\ Transmit(f, out, q)
  BY DEF Broadcast, Readable
<1>2. Delivered(q, queue', f, out)
  <2>1. Buffers(q) /\ out \in SUBSET (Port \cup (Host \X Station))
    BY <1>1, UnreadResult, OutputsArePorts
  <2>. QED  BY <1>1, <2>1, TransmitResult
<1>3. Holds(queue, f, i)
  <2>1. <<i, 1>> \in Places(queue, f, {i})
    BY <1>1, UnreadResult DEF Places
  <2>. QED  BY <2>1 DEF Holds
<1>4. ASSUME NEW j \in Port, Holds(q, f, j)
      PROVE  Holds(queue, f, j) /\ j # i
  <2>1. CASE j = i
    <3>1. Places(q, f, {i}) = {}
      BY <1>1, CopyIsRead DEF Spreads, Apart
    <3>. QED  BY <1>4, <2>1, <3>1 DEF Holds
  <2>2. CASE j # i
    <3>1. i \notin {j} /\ {j} \in SUBSET Port
      BY <2>2
    <3>. QED  BY <1>1, <1>4, <2>2, <3>1, OtherIsRead DEF Holds
  <2>. QED  BY <2>1, <2>2
<1>5. ASSUME NEW j \in Port, Holds(queue', f, j)
      PROVE  Holds(q, f, j) \/ Opposite(j) \in out
  <2>1. CASE queue'[j] = q[j]
    BY <1>5, <2>1 DEF Holds, Places
  <2>2. CASE queue'[j] # q[j]
    BY <1>2, <2>2 DEF Delivered
  <2>. QED  BY <2>1, <2>2
<1>6. /\ Opposite(i) \in Wires /\ Opposite(i)[1] = i[2] /\ Opposite(i)[2] = i[1]
      /\ Opposite(Opposite(i)) = i /\ i \in U
  BY <1>1, WireEnds DEF UsedInv
<1>7. i[1] \in Ahead[Opposite(i)]
  BY <1>6 DEF IsForest
<1>8. ASSUME NEW o \in out
      PROVE  Ahead[o] \subseteq Ahead[Opposite(i)] \ {i[1]}
  <2>1. o \in U /\ o[1] = i[1] /\ o[2] # i[2]
    <3>1. o \in Port /\ o[1] = i[1] /\ o # i /\ o \in U
      BY DEF Outputs, UsedInv
    <3>. QED  BY <3>1, PortIsPair
  <2>. QED  BY <1>6, <2>1 DEF IsForest
<1>. HIDE DEF q, out
<1>9. ASSUME NEW j \in Port, Holds(queue', f, j)
      PROVE  /\ Ahead[Opposite(j)] \subseteq Left(f, Ahead)
             /\ i[1] \notin Ahead[Opposite(j)]
  <2>1. CASE Holds(q, f, j)
    <3>1. Holds(queue, f, j) /\ j # i
      BY <1>4, <2>1
    <3>2. Ahead[Opposite(j)] \cap Ahead[Opposite(i)] = {}
      BY <1>3, <3>1 DEF Spreads, Apart
    <3>. QED  BY <1>7, <3>1, <3>2 DEF Left
  <2>2. CASE Opposite(j) \in out
    BY <1>3, <1>8, <2>2 DEF Left
  <2>. QED  BY <1>5, <1>9, <2>1, <2>2
<1>10. \A j \in Port : Holds(queue, f, j)' => Holds(queue', f, j)
  BY DEF Holds, Places
<1>. QED  BY <1>3, <1>7, <1>9, <1>10 DEF Left

\* In a forest no hub handles a frame twice: broadcast_packet only sends it to
\* where it has not been, so it reaches the edges and is gone.  What lies ahead
\* of a frame never grows, whatever fails, ends or starts, and the station that
\* handles it lay ahead before and never does again.
THEOREM NoHubHandlesTwice ==
  ASSUME NEW U \in SUBSET Port, NEW Ahead, IsForest(U, Ahead)
  PROVE  Spec => [][used' \subseteq U => \A f \in sent \ stray' :
                      /\ Left(f, Ahead)' \subseteq Left(f, Ahead)
                      /\ \A b \in Station : Handles(b, f) =>
                           b \in Left(f, Ahead) /\ b \notin Left(f, Ahead)']_vars
<1> DEFINE Moves(f) == /\ Left(f, Ahead)' \subseteq Left(f, Ahead)
                       /\ \A b \in Station : Handles(b, f) =>
                            b \in Left(f, Ahead) /\ b \notin Left(f, Ahead)'
           Leaves == used' \subseteq U => \A f \in sent \ stray' : Moves(f)
<1>1. Init => SpreadInv(U, Ahead)
  BY SpreadStarts
<1>2. HubInv /\ SpreadInv(U, Ahead) /\ [Next]_vars => SpreadInv(U, Ahead)'
  BY SpreadStep DEF HubInv
<1>3. ASSUME HubInv, SpreadInv(U, Ahead), Next
      PROVE  Leaves
  <2>1. used \subseteq used' /\ stray \subseteq stray'
    BY <1>3 DEF Next, Launch, CreateSocket, BindSocket, OpenFails, End, Broadcast,
       DropOutgoing, SendFirst, Transmit, history
  <2>2. SUFFICES ASSUME used' \subseteq U, NEW f \in sent \ stray'
                 PROVE  Moves(f)
    OBVIOUS
  <2>3. TypeInv /\ UsedInv /\ f \in Frame /\ used \subseteq U /\ Spreads(f, Ahead)
    BY <1>3, <2>1, <2>2 DEF HubInv, SpreadInv, TypeInv, CountInv
  <2>4. ASSUME NEW i \in Port, Broadcast(i), Head(queue[i]).frame = f
        PROVE  /\ Left(f, Ahead)' \subseteq Left(f, Ahead)
               /\ i[1] \in Left(f, Ahead) /\ i[1] \notin Left(f, Ahead)'
    BY <2>2, <2>3, <2>4, ReadLeaves
  <2>5. \A b \in Station : Handles(b, f) => b \in Left(f, Ahead) /\ b \notin Left(f, Ahead)'
    BY <2>4 DEF Handles
  <2>6. Left(f, Ahead)' \subseteq Left(f, Ahead)
    <3>1. CASE \/ UNCHANGED queue
               \/ \E i \in Port : \/ DropOutgoing(i)
                                  \/ Broadcast(i) /\ Head(queue[i]).frame # f
               \/ \E g \in Frame : SendFirst(g) /\ g # f
      <4>1. \A j \in Port : Same(queue', f, {j})
        BY <2>3, <3>1, OtherFrames
      <4>. QED  BY <4>1, FewerLeft DEF Same, Holds
    <3>2. ASSUME NEW b \in Station, OpenFails(b) \/ End(b)
          PROVE  Left(f, Ahead)' \subseteq Left(f, Ahead)
      <4>1. \A j \in Port : queue'[j] = queue[j] \/ queue'[j] = <<>>
        <5>1. CASE OpenFails(b)
          BY <2>3, <5>1, CurrentIsPort DEF OpenFails, TypeInv, QueueInv, Buffers
        <5>2. CASE End(b)
          BY <5>2 DEF End
        <5>. QED  BY <3>2, <5>1, <5>2
      <4>2. \A j \in Port : Places(queue', f, {j}) \subseteq Places(queue, f, {j})
        BY <4>1, CopiesAreLost
      <4>. QED  BY <4>2, FewerLeft DEF Holds
    <3>3. CASE \E b \in Station : Launch(b) \/ CreateSocket(b) \/ BindSocket(b)
      BY <3>1, <3>3 DEF Launch, CreateSocket, BindSocket
    <3>4. CASE \E g \in Frame : SendFirst(g)
      <4>1. ~SendFirst(f)
        BY <2>2 DEF SendFirst
      <4>. QED  BY <3>1, <3>4, <4>1
    <3>5. CASE \E i \in Port : Broadcast(i) \/ DropOutgoing(i)
      BY <2>4, <3>1, <3>5
    <3>. QED  BY <1>3, <3>2, <3>3, <3>4, <3>5 DEF Next
  <2>. QED  BY <2>5, <2>6
<1>. HIDE DEF Leaves
<1>4. HubInv /\ SpreadInv(U, Ahead) /\ [Next]_vars => [Leaves]_vars
  BY <1>3
<1>5. Spec => [][Leaves]_vars
  BY <1>1, <1>2, <1>4, HubInvHolds, PTL DEF Spec
<1>. QED  BY <1>5 DEF Leaves
=============================================================================
