--------------------------- MODULE LearningSwitch ---------------------------
(***************************************************************************)
(* The switch of "P3 Hub Switch/switch": the receive loop of main.c on top *)
(* of the MAC table, and the hosts around it.  The process first opens one *)
(* raw socket per port (device_internal.c).  Then the loop polls all       *)
(* ports, takes one frame from every port that was ready, in the order of  *)
(* the ports, and for each one learns the source, looks up the destination *)
(* and forwards.  Hosts send at any time, and may be plugged into another  *)
(* port once.                                                              *)
(*                                                                         *)
(* A socket captures the frames of every port between socket() and bind(), *)
(* and may capture what is sent out of its own port; the loop has to tell  *)
(* these from the frames that came in.                                     *)
(***************************************************************************)
EXTENDS MacTable, FiniteSets

CONSTANTS
  Host,       \* the addresses that hosts have; the others are group addresses
  MaxUnread,  \* a host waits until fewer frames than this are unread
  MaxMoves,   \* a host may leave its port while fewer than this are in moved
  MaxFailed   \* how many ports may fail to open

ASSUME HostAssumption == Host \subseteq Mac

ASSUME PortAssumption == Iface \subseteq Nat

ASSUME LoadAssumption == /\ MaxUnread \in Nat \ {0}
                         /\ MaxMoves \in Nat
                         /\ MaxFailed \in Nat

VARIABLES
  location,  \* the port every host is plugged into
  moved,     \* the hosts that were plugged into another port, or that the
             \* socket of another port, not yet bound, has captured
  fd,        \* of every port: "none", then "unbound", then "bound" or "failed"
  unread,    \* what every socket holds
  ready,     \* the ports of this round of poll that have not been served
  frame,     \* the frame in handle_packet, or NULL
  todo       \* what the process does when the running call returns

tableVars == <<hash_table, lock, caller, output, sweeper>>

loopVars == <<ready, frame, todo>>

netVars == <<location, moved, unread>>

switchVars == <<tableVars, loopVars, netVars, fd>>

Captured == [src : Host, dst : Mac, outgoing : BOOLEAN]

\* The types of the variables; the loop holds a frame exactly while it handles
\* one.
SwitchTypeOK ==
  /\ TypeOK
  /\ location \in [Host -> Iface]
  /\ moved \subseteq Host
  /\ fd \in [Iface -> {"none", "unbound", "bound", "failed"}]
  /\ unread \in [Iface -> Seq(Captured)]
  /\ ready \subseteq Iface
  /\ todo \in {"open", "receive", "lookup", "forward"}
  /\ frame \in IF todo \in {"open", "receive"} THEN {NULL}
               ELSE [src : Host, dst : Mac, iface : Iface]

SwitchInit ==
  /\ Init
  /\ location \in [Host -> Iface]
  /\ moved = {}
  /\ fd = [i \in Iface |-> "none"]
  /\ unread = [i \in Iface |-> <<>>]
  /\ ready = {}
  /\ frame = NULL
  /\ todo = "open"

-----------------------------------------------------------------------------
(***************************************************************************)
(* The hosts.                                                              *)
(***************************************************************************)

Unread == UNION {{i} \X DOMAIN unread[i] : i \in Iface}

\* The sockets that capture what comes in through port i: its own, and one
\* that has not been bound yet.
Listening(i) == {j \in Iface : fd[j] = "unbound" \/ (j = i /\ fd[j] = "bound")}

HostSends(h, d) ==
  /\ Cardinality(Unread) < MaxUnread
  /\ unread' = [i \in Iface |->
                 IF i \in Listening(location[h])
                 THEN Append(unread[i], [src |-> h, dst |-> d, outgoing |-> FALSE])
                 ELSE unread[i]]
  /\ moved' = IF Listening(location[h]) \subseteq {location[h]} THEN moved
              ELSE moved \cup {h}
  /\ UNCHANGED <<tableVars, loopVars, location, fd>>

HostMoves(h, i) ==
  /\ h \notin moved
  /\ Cardinality(moved) < MaxMoves
  /\ i # location[h]
  /\ location' = [location EXCEPT ![h] = i]
  /\ moved' = moved \cup {h}
  /\ UNCHANGED <<tableVars, loopVars, unread, fd>>

-----------------------------------------------------------------------------
(***************************************************************************)
(* Starting: init_ustack opens the ports one after the other, in their     *)
(* order.                                                                  *)
(***************************************************************************)

\* init_all_ifaces is at port i.
Opening(i) == todo = "open" /\ \A j \in Iface : j < i => fd[j] \in {"bound", "failed"}

\* open_device: socket(AF_PACKET, SOCK_RAW, htons(ETH_P_ALL)).
CreateSocket(i) ==
  /\ Opening(i) /\ fd[i] = "none"
  /\ fd' = [fd EXCEPT ![i] = "unbound"]
  /\ UNCHANGED <<tableVars, loopVars, netVars>>

\* open_device: bind, to the port; what the socket has captured stays.
BindSocket(i) ==
  /\ Opening(i) /\ fd[i] = "unbound"
  /\ fd' = [fd EXCEPT ![i] = "bound"]
  /\ UNCHANGED <<tableVars, loopVars, netVars>>

Failed == {i \in Iface : fd[i] = "failed"}

\* A call of open_device fails: the descriptor of the port is -1, nobody reads
\* the socket if there is one, and the process goes on with the next port.
OpenFails(i) ==
  /\ Opening(i) /\ fd[i] \in {"none", "unbound"}
  /\ Cardinality(Failed) < MaxFailed
  /\ fd' = [fd EXCEPT ![i] = "failed"]
  /\ unread' = [unread EXCEPT ![i] = <<>>]
  /\ UNCHANGED <<tableVars, loopVars, location, moved>>

\* All ports have been tried: init_mac_port_table starts the sweeping thread,
\* and ustack_run begins.
StartLoop ==
  /\ todo = "open"
  /\ \A i \in Iface : fd[i] \in {"bound", "failed"}
  /\ todo' = "receive"
  /\ UNCHANGED <<tableVars, netVars, fd, ready, frame>>

-----------------------------------------------------------------------------
(***************************************************************************)
(* ustack_run and handle_packet.                                           *)
(***************************************************************************)

Poll ==
  /\ todo = "receive" /\ ready = {}
  /\ ready' = {i \in Iface : unread[i] # <<>>}
  /\ ready' # {}
  /\ UNCHANGED <<tableVars, netVars, fd, frame, todo>>

\* The loop serves the ports of a round in their order.
Serves(i) == todo = "receive" /\ i \in ready /\ \A j \in ready : i <= j

Taken(i) == unread' = [unread EXCEPT ![i] = Tail(@)]

\* A captured frame is dropped; so is any other when there is no memory for a
\* copy of it, or it is shorter than a header.
Drop(i) ==
  /\ Serves(i)
  /\ Taken(i)
  /\ ready' = ready \ {i}
  /\ UNCHANGED <<tableVars, location, moved, fd, frame, todo>>

\* Mutant of CameIn: what the socket captured is taken for a frame that came
\* in.
AnyCapture(f) == TRUE

CameIn(f) == ~f.outgoing

\* handle_packet begins by inserting the source.
Receive(i) ==
  /\ Serves(i)
  /\ CameIn(Head(unread[i]))
  /\ Taken(i)
  /\ frame' = [src |-> Head(unread[i]).src, dst |-> Head(unread[i]).dst, iface |-> i]
  /\ todo' = "lookup"
  /\ InsertCall(Head(unread[i]).src, i)
  /\ UNCHANGED <<location, moved, fd, ready>>

LooksUp ==
  /\ todo = "lookup"
  /\ todo' = "forward"
  /\ LookupCall(frame.dst)
  /\ UNCHANGED <<netVars, fd, ready, frame>>

\* iface_send_packet: a send on a port that was not opened fails and is only
\* reported.
Sendable == {i \in Iface : fd[i] = "bound"}

\* Mutant of Outputs: an unknown destination is not flooded.
KnownOutput == ({output} \ {NULL, frame.iface}) \cap Sendable

\* broadcast_packet sends out of every port but the one the frame came from.
Flood(ingress) == Iface \ {ingress}

Outputs ==
  (IF output = NULL THEN Flood(frame.iface) ELSE {output} \ {frame.iface}) \cap Sendable

\* Some of the frames sent are captured by the socket of their port.
Forward ==
  /\ todo = "forward" /\ caller.pc = "out"
  /\ \E captured \in SUBSET Outputs :
       unread' = [i \in Iface |->
                   IF i \in captured
                   THEN Append(unread[i], [src |-> frame.src, dst |-> frame.dst,
                                           outgoing |-> TRUE])
                   ELSE unread[i]]
  /\ ready' = ready \ {frame.iface}
  /\ frame' = NULL
  /\ todo' = "receive"
  /\ output' = NULL
  /\ UNCHANGED <<hash_table, lock, caller, sweeper, location, moved, fd>>

\* A step inside insert_mac_port, lookup_port or the sweeping thread.
TableStep(A) == todo # "open" /\ A /\ UNCHANGED <<loopVars, netVars, fd>>

SwitchNext ==
  \/ \E h \in Host : \E d \in Mac \ {h} : HostSends(h, d)
  \/ \E h \in Host, i \in Iface : HostMoves(h, i)
  \/ \E i \in Iface : CreateSocket(i) \/ BindSocket(i) \/ OpenFails(i)
  \/ StartLoop \/ Poll
  \/ \E i \in Iface : Drop(i) \/ Receive(i)
  \/ LooksUp \/ Forward
  \/ TableStep(InsertLock) \/ TableStep(Insert)
  \/ TableStep(LookupLock) \/ TableStep(Lookup)
  \/ TableStep(SweepStart) \/ TableStep(SweepLock)
  \/ TableStep(SweepEntry) \/ TableStep(SweepBucket) \/ TableStep(SweepUnlock)
  \/ TableStep(Tick)

SwitchSpec == SwitchInit /\ [][SwitchNext]_switchVars

(***************************************************************************)
(* The process opens its ports, each thread goes on when it can, a thread  *)
(* that waits for the mutex gets it when it is free again and again        *)
(* (pthread_mutex_unlock wakes a waiter and the sweeper sleeps between two *)
(* sweeps), and time passes.  Nothing is assumed of the hosts, and that a  *)
(* port opens is not assumed either: it opens or it fails.                 *)
(***************************************************************************)
Starts == StartLoop \/ \E i \in Iface : CreateSocket(i) \/ BindSocket(i)

Serve == \E i \in Iface : Drop(i) \/ Receive(i)

Sweep == SweepEntry \/ SweepBucket \/ SweepUnlock

Fairness ==
  /\ WF_switchVars(Starts) /\ WF_switchVars(Poll) /\ WF_switchVars(Serve)
  /\ WF_switchVars(LooksUp) /\ WF_switchVars(Forward)
  /\ SF_switchVars(TableStep(InsertLock)) /\ WF_switchVars(TableStep(Insert))
  /\ SF_switchVars(TableStep(LookupLock)) /\ WF_switchVars(TableStep(Lookup))
  /\ WF_switchVars(TableStep(SweepStart)) /\ SF_switchVars(TableStep(SweepLock))
  /\ WF_switchVars(TableStep(Sweep)) /\ WF_switchVars(TableStep(Tick))

FairSwitchSpec == SwitchSpec /\ Fairness

-----------------------------------------------------------------------------
(***************************************************************************)
(* Properties.                                                             *)
(***************************************************************************)

Misdirected(h) ==
  \E k \in Places(h) : hash_table[Hash[h]][k].iface # location[h]

\* The hosts that have stayed where they were, and that only the socket of
\* their own port has captured.
Still == Host \ moved

\* The table never has a wrong port for a host that has stayed where it was,
\* though the sockets also capture the copies of its frames that the switch
\* sends out of its other ports (main.c drops PACKET_OUTGOING).
StillHostsAreKnown == \A h \in Still : ~Misdirected(h)

\* When handle_packet sends, a host that has stayed where it was and to whom
\* the frame is addressed gets it, if its port was opened: from the switch, or
\* because it is on the port the frame was received on.  The entry looked up
\* may be gone by then, and may be that of another address of the same bucket.
\* (A frame that a socket captured before it was bound came in on another port,
\* and is not sent to the port of that socket.)
FramesReachStillHosts ==
  /\ todo = "forward" /\ caller.pc = "out"
  /\ frame.dst \in Still /\ fd[location[frame.dst]] = "bound"
  => location[frame.dst] \in Outputs \cup {frame.iface}

\* "in case the host moved": whatever frames of a host were still unread when
\* it moved, in whichever order the ports are then served, and whatever a
\* socket captured before it was bound, its address ends up with its new port,
\* or with none.
TableSettles == \A h \in Host : <>[]~Misdirected(h)
=============================================================================
