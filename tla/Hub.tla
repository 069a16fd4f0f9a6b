-------------------------------- MODULE Hub --------------------------------
(***************************************************************************)
(* The hub program of "P3 Hub Switch/hub": one single-threaded process per *)
(* station, which sends every frame it reads out of all its interfaces but *)
(* the one it takes the frame to come from.                                *)
(*                                                                         *)
(* An interface is named <<station, neighbour>> after the two ends of its  *)
(* cable.  A process opens one raw socket per interface, in list order     *)
(* (device_internal.c); a socket hears the whole station between socket()  *)
(* and bind().  queue[i] is what the socket of interface i has captured    *)
(* and the process has not read: per frame the neighbour it arrived from,  *)
(* and whether it was going out (PACKET_OUTGOING).                         *)
(***************************************************************************)
EXTENDS Integers, FiniteSets, Sequences, FiniteSetsExt, SequencesExt

CONSTANTS
  Station,   \* the nodes that run the program
  Early,     \* the stations whose process runs from the start
  Host,      \* the nodes at the edge
  Iface,     \* the neighbours of every station, in the order of iface_list
  Frame,     \* the frames that may be sent
  Origin,    \* the interface every frame is first sent from
  MaxSent,   \* how many of them are sent
  MaxQueue,  \* how many frames a socket buffers
  MaxTrouble \* how many openings may fail and processes may end

ASSUME IfaceAssumption ==
  /\ Early \subseteq Station
  /\ Station \cap Host = {}
  /\ Iface \in [Station -> Seq(Station \cup Host) \ {<<>>}]

Port == UNION {{b} \X ToSet(Iface[b]) : b \in Station}

\* The other end of the cable of interface i.
Opposite(i) == <<i[2], i[1]>>

ASSUME OriginAssumption ==
  Origin \in [Frame -> Port \cup {i \in Host \X Station : Opposite(i) \in Port}]

ASSUME BoundAssumption == /\ MaxSent \in Nat
                          /\ MaxQueue \in Nat \ {0}
                          /\ MaxTrouble \in Nat

VARIABLES
  started, \* the stations whose process runs
  todo,    \* the interfaces init_all_ifaces has still to open
  fd,      \* of every interface: "none" (or -1), "unbound", "bound"
  queue,   \* what every socket has captured
  sent,    \* the frames a host or a kernel has sent
  troubles,  \* how many openings have failed and processes have ended
  got,     \* how often a host was given a frame: 0, 1 or 2 for more
  intact,  \* the frames sent when all was up, no copy of which was lost since
  stray,   \* the frames a socket has captured that was not bound yet
  used     \* the interfaces that have ever been bound

processVars == <<started, todo, fd>>
history == <<got, intact, stray, used>>
vars == <<processVars, queue, sent, troubles, history>>

-----------------------------------------------------------------------------
(***************************************************************************)
(* The wires and the sockets.                                              *)
(***************************************************************************)

\* The sockets that capture what comes in through interface i: that of i, and
\* one that its station has created and not bound yet.
Listening(i) ==
  {j \in Port : j[1] = i[1] /\ (fd[j] = "unbound" \/ (j = i /\ fd[j] = "bound"))}

Incoming(f, from) == [frame |-> f, from |-> from, out |-> FALSE]
Outgoing(f) == [frame |-> f, from |-> "self", out |-> TRUE]

\* What socket j captures when frame f is put on the wire of every interface
\* of out: at most one frame, as the interfaces lead to different neighbours.
Captured(j, f, out) ==
  {Incoming(f, i[1]) : i \in {o \in out : Opposite(o) \in Port /\ j \in Listening(Opposite(o))}}

\* A socket whose buffer is full captures nothing.
Capture(q, records) ==
  IF records = {} \/ Len(q) = MaxQueue THEN q
  ELSE Append(q, CHOOSE r \in records : TRUE)

\* A copy of f does not get to the process at the other end of its cable.
LosesCopy(out, q) ==
  \E i \in out : LET j == Opposite(i)
                 IN  j \in Port /\ (fd[j] # "bound" \/ Len(q[j]) = MaxQueue)

\* Frame f is put on the wires of out; q is what the sockets had captured.
Transmit(f, out, q) ==
  /\ queue' = [j \in Port |-> Capture(q[j], Captured(j, f, out))]
  /\ got' = [h \in Host |->
              [got[h] EXCEPT ![f] = IF @ < 2 /\ \E i \in out : i[2] = h THEN @ + 1 ELSE @]]
  /\ stray' = IF \E j \in Port : fd[j] = "unbound" /\ Captured(j, f, out) # {}
              THEN stray \cup {f} ELSE stray

-----------------------------------------------------------------------------
(***************************************************************************)
(* Starting: init_ustack opens the interfaces one after the other.         *)
(***************************************************************************)

Launch(b) ==
  /\ b \notin started
  /\ started' = started \cup {b}
  /\ todo' = [todo EXCEPT ![b] = Iface[b]]
  /\ UNCHANGED <<fd, queue, sent, troubles, history>>

\* The interface the process of b is at.
Current(b) == <<b, Head(todo[b])>>

Opening(b) == todo[b] # <<>>

\* init_ustack is done, ustack_run has begun.
Polling(b) == b \in started /\ todo[b] = <<>>

\* open_device: socket(AF_PACKET, SOCK_RAW, htons(ETH_P_ALL)).
CreateSocket(b) ==
  /\ Opening(b)
  /\ fd[Current(b)] = "none"
  /\ fd' = [fd EXCEPT ![Current(b)] = "unbound"]
  /\ UNCHANGED <<started, todo, queue, sent, troubles, history>>

\* open_device: bind, to the interface; what the socket has captured stays.
BindSocket(b) ==
  /\ Opening(b)
  /\ fd[Current(b)] = "unbound"
  /\ fd' = [fd EXCEPT ![Current(b)] = "bound"]
  /\ used' = used \cup {Current(b)}
  /\ todo' = [todo EXCEPT ![b] = Tail(@)]
  /\ UNCHANGED <<started, queue, sent, troubles, got, intact, stray>>

\* A call of open_device fails: fd is -1, nobody reads the socket if there is
\* one, and the process goes on with the next interface.
OpenFails(b) ==
  /\ Opening(b)
  /\ troubles < MaxTrouble
  /\ troubles' = troubles + 1
  /\ fd' = [fd EXCEPT ![Current(b)] = "none"]
  /\ queue' = [queue EXCEPT ![Current(b)] = <<>>]
  /\ todo' = [todo EXCEPT ![b] = Tail(@)]
  /\ UNCHANGED <<started, sent, history>>

-----------------------------------------------------------------------------
(***************************************************************************)
(* The receive loop.  poll reports every interface a frame waits on, and   *)
(* the loop reads one frame of each, so that none is passed over for ever: *)
(* a read is an action per interface.                                      *)
(***************************************************************************)

\* Mutant of Outputs: the receiving interface is not left out.
AllOutputs(i) == {j \in Port : j[1] = i[1] /\ fd[j] = "bound"}

\* Mutant of Outputs: the loop over the interfaces ends after the first send.
FirstOutput(i) ==
  LET others == SelectSeq(Iface[i[1]], LAMBDA n : n # i[2])
  IN  {j \in Port : /\ j[1] = i[1] /\ fd[j] = "bound"
                   /\ others # <<>> /\ j[2] = Head(others)}

\* broadcast_packet: every interface but the receiving one; a send on an
\* interface that was not opened fails and is reported.
Outputs(i) == {j \in Port : j[1] = i[1] /\ j # i /\ fd[j] = "bound"}

Readable(i) == Polling(i[1]) /\ fd[i] = "bound" /\ queue[i] # <<>>

Unread(i) == [queue EXCEPT ![i] = Tail(@)]

\* handle_packet: the frame goes out of the other interfaces.
Broadcast(i) ==
  /\ Readable(i)
  /\ ~Head(queue[i]).out
  /\ LET f == Head(queue[i]).frame
     IN  /\ Transmit(f, Outputs(i), Unread(i))
         /\ intact' = IF LosesCopy(Outputs(i), Unread(i)) THEN intact \ {f} ELSE intact
  /\ UNCHANGED <<processVars, sent, troubles, used>>

\* Mutant of DropOutgoing: the loop takes its own frames for received ones.
BroadcastOutgoing(i) ==
  /\ Readable(i)
  /\ Head(queue[i]).out
  /\ Transmit(Head(queue[i]).frame, Outputs(i), Unread(i))
  /\ UNCHANGED <<processVars, sent, troubles, intact, used>>

\* PACKET_OUTGOING: the frame was sent by the station's kernel, not received.
DropOutgoing(i) ==
  /\ Readable(i)
  /\ Head(queue[i]).out
  /\ queue' = Unread(i)
  /\ UNCHANGED <<processVars, sent, troubles, history>>

\* poll fails, or the process is killed (pkill -x hub): the sockets are closed.
End(b) ==
  /\ b \in started
  /\ troubles < MaxTrouble
  /\ troubles' = troubles + 1
  /\ started' = started \ {b}
  /\ todo' = [todo EXCEPT ![b] = <<>>]
  /\ fd' = [i \in Port |-> IF i[1] = b THEN "none" ELSE fd[i]]
  /\ queue' = [i \in Port |-> IF i[1] = b THEN <<>> ELSE queue[i]]
  /\ intact' = {}
  /\ UNCHANGED <<sent, got, stray, used>>

-----------------------------------------------------------------------------
(***************************************************************************)
(* The rest of the network: hosts send, and so does now and then the       *)
(* kernel of a station, whose frames the station's own socket captures.    *)
(***************************************************************************)

AllUp == \A i \in Port : Polling(i[1]) /\ fd[i] = "bound"

SendFirst(f) ==
  LET i == Origin[f]
      own == {j \in Port : i \in Port /\ j \in Listening(i)}
      q == [j \in Port |-> Capture(queue[j], IF j \in own THEN {Outgoing(f)} ELSE {})]
  IN  /\ f \notin sent
      /\ Cardinality(sent) < MaxSent
      /\ sent' = sent \cup {f}
      /\ Transmit(f, {i}, q)
      /\ intact' = IF AllUp /\ ~LosesCopy({i}, q) THEN intact \cup {f} ELSE intact
      /\ UNCHANGED <<processVars, troubles, used>>

Init ==
  /\ started = Early
  /\ todo = [b \in Station |-> <<>>]
  /\ fd = [i \in Port |-> IF i[1] \in Early THEN "bound" ELSE "none"]
  /\ queue = [i \in Port |-> <<>>]
  /\ sent = {}
  /\ troubles = 0
  /\ got = [h \in Host |-> [f \in Frame |-> 0]]
  /\ intact = {}
  /\ stray = {}
  /\ used = {i \in Port : i[1] \in Early}

Next ==
  \/ \E b \in Station : \/ Launch(b) \/ CreateSocket(b) \/ BindSocket(b) \/ OpenFails(b)
                        \/ End(b)
  \/ \E i \in Port : Broadcast(i) \/ DropOutgoing(i)
  \/ \E f \in Frame : SendFirst(f)

Spec == Init /\ [][Next]_vars

\* A process that was started goes on: it opens its interfaces, and its loop
\* comes to every interface a frame waits on.
FairSpec ==
  /\ Spec
  /\ \A b \in Station : WF_vars(CreateSocket(b) \/ BindSocket(b))
  /\ \A i \in Port : WF_vars(Broadcast(i) \/ DropOutgoing(i))
-----------------------------------------------------------------------------
(***************************************************************************)
(* Safety.                                                                 *)
(***************************************************************************)

Record == [frame : Frame, from : Station \cup Host \cup {"self"}, out : BOOLEAN]

\* The variables keep their types; a socket buffers at most MaxQueue frames,
\* and the interfaces still to be opened are the last ones of the list.
TypeOK ==
  /\ started \subseteq Station
  /\ \A b \in Station : \E n \in 1..(Len(Iface[b]) + 1) :
       /\ todo[b] = SubSeq(Iface[b], n, Len(Iface[b]))
       /\ b \notin started => todo[b] = <<>>
  /\ fd \in [Port -> {"none", "unbound", "bound"}]
  /\ \A i \in Port : Len(queue[i]) <= MaxQueue /\ ToSet(queue[i]) \subseteq Record
  /\ sent \subseteq Frame /\ Cardinality(sent) <= MaxSent
  /\ troubles \in 0..MaxTrouble
  /\ got \in [Host -> [Frame -> 0..2]]
  /\ intact \subseteq sent /\ stray \subseteq sent
  /\ used \subseteq Port

\* How many copies of f wait for the processes behind the interfaces of P.
Copies == {w \in Port \X (1..MaxQueue) : w[2] <= Len(queue[w[1]])}

Waiting(f, P) ==
  Cardinality({w \in Copies : /\ w[1] \in P
                              /\ queue[w[1]][w[2]].frame = f
                              /\ ~queue[w[1]][w[2]].out})

\* The interfaces between two stations, and the others.
Inner == {i \in Port : Opposite(i) \in Port}

Access == Port \ Inner

\* Where the stations form rings, the ways to go round: from every station to
\* one of the two it has a cable to.  A direction is the interfaces where a frame
\* that goes round that way comes in.
Rounds ==
  {next \in [Station -> Station] : \A b \in Station :
     /\ next[next[b]] # b
     /\ \E a \in Station : /\ next[a] = b
                           /\ {i \in Inner : i[1] = b} = {<<b, a>>, <<b, next[b]>>}}

Directions == {{i \in Inner : next[i[2]] = i[1]} : next \in Rounds}

\* In a ring, the frame of a host splits into a copy for each direction, which no
\* hub ever multiplies again; that of a kernel goes round in one direction.
\* While all the hubs are up, no copy goes away either.
CopiesAreConserved ==
  \A D \in Directions : \A f \in Frame \ stray :
    LET whole(n) == n <= 1 /\ (f \in intact => n = 1)
    IN  /\ Origin[f] \notin Port => whole(Waiting(f, D \cup Access))
        /\ Origin[f] \in Port /\ Opposite(Origin[f]) \in D => whole(Waiting(f, Port))

\* No host is given a frame twice.
DeliversOnce == \A h \in Host : \A f \in Frame \ stray : got[h][f] <= 1

\* The wires, each in both directions.
Wires == Port \cup {Opposite(i) : i \in Port}

\* Interfaces U make a forest: a wire i, from i[1] to i[2], that ends at a host or
\* at an interface of U leads to the nodes Ahead[i], one of them i[2].  The wires of
\* U that lead on from there lead to different ones of them, and not back to i[2].
IsForest(U, Ahead) ==
  \A i \in Wires : i[2] \in Host \/ Opposite(i) \in U =>
    /\ i[2] \in Ahead[i]
    /\ \A o \in U : o[1] = i[2] /\ o[2] # i[1] =>
         /\ Ahead[o] \subseteq Ahead[i] \ {i[2]}
         /\ \A p \in U \ {o} : p[1] = i[2] /\ p[2] # i[1] => Ahead[o] \cap Ahead[p] = {}

\* The stations form one ring, and every host has one cable.  Cut at any of its
\* cables e, the ring is a line of all stations.
Line(at, e) ==
  LET n == Cardinality(Station)
  IN  /\ at[1] = e[2] /\ at[n] = e[1]
      /\ \A b \in Station : \E k \in 1..n : at[k] = b
      /\ \A k, l \in 1..n : at[k] = at[l] => k = l
      /\ \A i \in Inner \ {e, Opposite(e)} :
           \E k \in 1..(n - 1) : i \in {<<at[k], at[k + 1]>>, <<at[k + 1], at[k]>>}

IsRing ==
  /\ IsFiniteSet(Station) /\ Cardinality(Station) > 2
  /\ \A i \in Port : i[2] \in Station => i \in Inner
  /\ \A i, j \in Port : i[2] \in Host /\ i[2] = j[2] => i = j
  /\ \A e \in Inner : \E at \in [1..Cardinality(Station) -> Station] : Line(at, e)

\* As long as one interface of the ring has never been open, on either end of a
\* cable, the hubs form a forest: no host is given a frame twice, whatever else
\* fails, ends or starts late.
OpenRingDeliversOnce == ~(Inner \subseteq used) => DeliversOnce

\* The next frame read somewhere is f, and host h is going to be given it.
Nears(f, h) ==
  \E i \in Port : /\ queue[i] # <<>>
                  /\ Head(queue[i]).frame = f
                  /\ ~Head(queue[i]).out
                  /\ Readable(i)
                  /\ <<i[1], h>> \in Outputs(i)

-----------------------------------------------------------------------------
(***************************************************************************)
(* What the sources say of the hub and the program does not do.            *)
(***************************************************************************)

\* broadcast.c:17: "Broadcast the packet through every interface except the
\* receiving one."  No frame that waits to be read will be sent back out of
\* the interface it came in through.
NeverSentBack ==
  \A i \in Port : \A r \in ToSet(queue[i]) :
    fd[i] = "bound" /\ ~r.out => <<i[1], r.from>> \notin Outputs(i)
=============================================================================
