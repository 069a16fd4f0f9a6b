-------------------------------- MODULE STP --------------------------------
(***************************************************************************)
(* The spanning tree program of "P4 生成树/stp": one process per switch,   *)
(* which elects the switch with the smallest identity as root and decides  *)
(* for every port whether it is the root port, a designated port or an     *)
(* alternate port.                                                         *)
(*                                                                         *)
(* A process has two threads, the receive loop of main.c and the hello     *)
(* timer of stp.c.  Both take stp->lock for the whole of what they do, so  *)
(* one handler is one action.  The interleavings are those of the          *)
(* handlers of all switches, the frames between them, and processes that   *)
(* start late, are terminated and start again.                             *)
(*                                                                         *)
(* Ports are attached to segments (a cable, or a hub with several ports).  *)
(* What port q puts on its segment reaches every other port p of the       *)
(* segment whose process is running; wire[<<q, p>>] holds the frames from  *)
(* q that p's process has not read yet.                                    *)
(***************************************************************************)
EXTENDS Integers, Sequences, FiniteSets

CONSTANTS
  Switch,     \* the switch identities; a smaller identity has priority
  Port,       \* the ports, <<switch, port number>>
  Segment,    \* the segment every port is attached to
  MaxUnread,  \* a hello waits until fewer frames than this are unread
  MaxStop,    \* how many times a process may be terminated
  MaxLoss     \* how many frames the network may lose

ASSUME SwitchAssumption == Switch \subseteq Nat

ASSUME PortAssumption == Port \subseteq Switch \X (Nat \ {0})

ASSUME SegmentAssumption == DOMAIN Segment = Port

ASSUME BoundAssumption == /\ MaxUnread \in Nat \ {0}
                          /\ MaxStop \in Nat
                          /\ MaxLoss \in Nat

VARIABLES
  running,          \* the processes between stp_init and exit
  designated_root,  \* stp_t: the root the switch believes in
  root_path_cost,   \* stp_t: the cost of its path to that root
  root_port,        \* stp_t: the number of its root port, or NoPort
  hello_timer,      \* stp_t: whether its hello timer is active
  config,           \* stp_port_t: the best Config known on every port
  wire,             \* the frames on their way between two ports
  stops,            \* how many processes have been terminated
  losses            \* how many frames have been lost

switchVars == <<designated_root, root_path_cost, root_port, hello_timer, config>>

vars == <<running, switchVars, wire, stops, losses>>

NoPort == 0

Ports(s) == {p \in Port : p[1] = s}

\* The ports that hear what port p sends.
Peers(p) == {q \in Port : q # p /\ Segment[q] = Segment[p]}

Wire == {w \in Port \X Port : w[2] \in Peers(w[1])}

\* The fields of struct stp_config the receiver reads, which are also the
\* designated_* fields of struct stp_port.
Config == [root : Switch, cost : Nat, switch : Switch, port : Nat]

-----------------------------------------------------------------------------
(***************************************************************************)
(* Priorities.                                                             *)
(***************************************************************************)

\* a has a higher priority than b.
Better(a, b) ==
  \/ a.root < b.root
  \/ /\ a.root = b.root
     /\ \/ a.cost < b.cost
        \/ /\ a.cost = b.cost
           /\ \/ a.switch < b.switch
              \/ a.switch = b.switch /\ a.port < b.port

\* Port p is designated when the best Config on it is the switch's own.
IsDesignated(p, cfg) == cfg[p].switch = p[1] /\ cfg[p].port = p[2]

\* Mutant of Through: the port adds no cost.
ThroughForFree(c) == c

\* path_cost is 1 on every port.
Through(c) == [c EXCEPT !.cost = @ + 1]

\* Mutant of BetterRootPort: the last port that qualifies is taken.
LastRootPort(p, q, cfg) == p[2] > q[2]

\* Port p is a better root port than port q of the same switch.
BetterRootPort(p, q, cfg) ==
  \/ Better(Through(cfg[p]), Through(cfg[q]))
  \/ Through(cfg[p]) = Through(cfg[q]) /\ p[2] < q[2]

\* The ports the first loop of stp_update_state may leave in root_port: the
\* best port that is not designated, when there is one.
RootPorts(s, cfg) ==
  LET candidates == {p \in Ports(s) : ~IsDesignated(p, cfg)}
  IN  IF candidates = {} THEN {NoPort}
      ELSE {p[2] : p \in {c \in candidates :
                            \A q \in candidates \ {c} : BetterRootPort(c, q, cfg)}}

\* What port p advertises when its switch believes in root at that cost.
Advert(p, root, cost) ==
  [root |-> root, cost |-> cost, switch |-> p[1], port |-> p[2]]

Own(p) == Advert(p, designated_root[p[1]], root_path_cost[p[1]])

-----------------------------------------------------------------------------
(***************************************************************************)
(* Sending.  A switch that neither is the root nor has a root port sends   *)
(* nothing; the Config that goes out carries what the switch believes at   *)
(* the end of the handler.                                                 *)
(***************************************************************************)

Send(s, ports, queue) ==
  wire' = IF designated_root'[s] # s /\ root_port'[s] = NoPort THEN queue
          ELSE [w \in Wire |->
                 IF w[1] \in ports /\ w[2][1] \in running
                 THEN Append(queue[w], Own(w[1])')
                 ELSE queue[w]]

DesignatedPorts(s, cfg) == {p \in Ports(s) : IsDesignated(p, cfg)}

\* The frames on their way, each as its wire and its place there.
Unread == UNION {{w} \X DOMAIN wire[w] : w \in Wire}

\* The frames that are left when the first one on w is taken.
Without(w) == [wire EXCEPT ![w] = Tail(@)]

-----------------------------------------------------------------------------
(***************************************************************************)
(* Handlers.                                                               *)
(***************************************************************************)

\* The fields stp_init and stp_port_init give to switch s.  The process of
\* a switch that is not running has no state: its fields keep these values.
Fresh(s) ==
  /\ designated_root' = [designated_root EXCEPT ![s] = s]
  /\ root_path_cost' = [root_path_cost EXCEPT ![s] = 0]
  /\ root_port' = [root_port EXCEPT ![s] = NoPort]
  /\ hello_timer' = [hello_timer EXCEPT ![s] = TRUE]
  /\ config' = [p \in Port |-> IF p[1] = s THEN Advert(p, s, 0) ELSE config[p]]

\* The process of switch s starts.  It sends nothing before its first hello.
Start(s) ==
  /\ s \notin running
  /\ running' = running \cup {s}
  /\ Fresh(s)
  /\ UNCHANGED <<wire, stops, losses>>

\* SIGTERM: the process prints its state under the lock and exits.  What it
\* had not read is gone; what it had sent is still on its way.
Stop(s) ==
  /\ s \in running
  /\ stops < MaxStop
  /\ stops' = stops + 1
  /\ running' = running \ {s}
  /\ Fresh(s)
  /\ wire' = [w \in Wire |-> IF w[2][1] = s THEN <<>> ELSE wire[w]]
  /\ UNCHANGED losses

\* The hello timer of s is active and its time has come.  Hellos are two
\* seconds apart and a frame is read long before that: what s sent is read
\* before its next hello, and MaxUnread bounds how many frames of the others
\* a hello may cross.
Expires(s) ==
  /\ hello_timer[s]
  /\ \A w \in Wire : w[1][1] = s => wire[w] = <<>>
  /\ Cardinality(Unread) < MaxUnread

\* The hello timer of s expires, and is started again.
Hello(s) ==
  /\ s \in running
  /\ Expires(s)
  /\ UNCHANGED switchVars
  /\ Send(s, DesignatedPorts(s, config), wire)
  /\ UNCHANGED <<running, stops, losses>>

\* Mutant of HelloTimer: a switch that found a better root keeps its timer.
HelloTimerKept(rp) == TRUE

\* stp_update_state stops the hello timer of a switch that has a root port and
\* starts that of a switch that has none.
HelloTimer(rp) == rp = NoPort

\* Mutant of Claim: the other ports are not looked at again.
NoClaim(s, cfg, root, cost) == cfg

\* The last loop of stp_update_state: s becomes designated on the ports where
\* its own Config is better than the one known there.
Claim(s, cfg, root, cost) ==
  [p \in Port |-> IF p[1] = s /\ Better(Advert(p, root, cost), cfg[p])
                  THEN Advert(p, root, cost) ELSE cfg[p]]

\* The belief that comes in through root port rp.
RootThrough(s, rp, cfg) == IF rp = NoPort THEN s ELSE cfg[<<s, rp>>].root
CostThrough(s, rp, cfg) == IF rp = NoPort THEN 0 ELSE Through(cfg[<<s, rp>>]).cost

\* stp_update_state: with cfg on its ports, s chooses its root port, takes
\* over the belief that comes in through it, and claims its other ports.
UpdateState(s, cfg) ==
  \E rp \in RootPorts(s, cfg) :
    LET root == RootThrough(s, rp, cfg)
        cost == CostThrough(s, rp, cfg)
    IN  /\ root_port' = [root_port EXCEPT ![s] = rp]
        /\ designated_root' = [designated_root EXCEPT ![s] = root]
        /\ root_path_cost' = [root_path_cost EXCEPT ![s] = cost]
        /\ hello_timer' = [hello_timer EXCEPT ![s] = HelloTimer(rp)]
        /\ config' = Claim(s, cfg, root, cost)

\* The Config received is better than the one known on the port.
HandleSuperior(w) ==
  LET p == w[2]
      m == Head(wire[w])
  IN  /\ Better(m, config[p])
      /\ UpdateState(p[1], [config EXCEPT ![p] = m])
      /\ Send(p[1], DesignatedPorts(p[1], config'), Without(w))

\* Mutant of HandleInferior: the switch does not answer.
HandleInferiorSilently(w) ==
  /\ ~Better(Head(wire[w]), config[w[2]])
  /\ IsDesignated(w[2], config)
  /\ UNCHANGED switchVars
  /\ wire' = Without(w)

\* It is not, and the switch is designated on the segment: it answers.
HandleInferior(w) ==
  LET p == w[2]
  IN  /\ ~Better(Head(wire[w]), config[p])
      /\ IsDesignated(p, config)
      /\ UNCHANGED switchVars
      /\ Send(p[1], {p}, Without(w))

\* It is not, and the segment belongs to another switch: nothing happens.
HandleKnown(w) ==
  LET p == w[2]
  IN  /\ ~Better(Head(wire[w]), config[p])
      /\ ~IsDesignated(p, config)
      /\ UNCHANGED switchVars
      /\ wire' = Without(w)

\* stp_port_handle_packet, for the first frame of w.
HandlePacket(w) == HandleSuperior(w) \/ HandleInferior(w) \/ HandleKnown(w)

\* The receive loop of the switch of port w[2] reads the first frame of w.
Deliver(w) ==
  /\ w[2][1] \in running
  /\ wire[w] # <<>>
  /\ HandlePacket(w)
  /\ UNCHANGED <<running, stops, losses>>

\* The network loses the first frame of w.
Lose(w) ==
  /\ wire[w] # <<>>
  /\ losses < MaxLoss
  /\ losses' = losses + 1
  /\ wire' = Without(w)
  /\ UNCHANGED <<running, switchVars, stops>>

-----------------------------------------------------------------------------
Init ==
  /\ running = {}
  /\ designated_root = [s \in Switch |-> s]
  /\ root_path_cost = [s \in Switch |-> 0]
  /\ root_port = [s \in Switch |-> NoPort]
  /\ hello_timer = [s \in Switch |-> TRUE]
  /\ config = [p \in Port |-> Advert(p, p[1], 0)]
  /\ wire = [w \in Wire |-> <<>>]
  /\ stops = 0
  /\ losses = 0

Next ==
  \/ \E s \in Switch : Start(s) \/ Stop(s) \/ Hello(s)
  \/ \E w \in Wire : Deliver(w) \/ Lose(w)

Spec == Init /\ [][Next]_vars

(***************************************************************************)
(* The timer thread of a running switch polls its timer for ever, and the  *)
(* receive loop of a running switch reads every frame it is given.         *)
(***************************************************************************)
RunningFairly ==
  /\ \A s \in Switch : WF_vars(Hello(s))
  /\ \A w \in Wire : WF_vars(Deliver(w))

\* The topology scripts start the program on every switch.
AllStart == \A s \in Switch : WF_vars(Start(s))

LiveSpec == Spec /\ RunningFairly

FairSpec == LiveSpec /\ AllStart
-----------------------------------------------------------------------------
(***************************************************************************)
(* Safety.                                                                 *)
(***************************************************************************)

\* The variables of stp_t and stp_port_t hold identities, costs and ports of
\* this network, and a root port is a port of the switch itself.
TypeOK ==
  /\ running \subseteq Switch
  /\ designated_root \in [Switch -> Switch]
  /\ root_path_cost \in [Switch -> Nat]
  /\ root_port \in [Switch -> Nat]
  /\ \A s \in Switch : root_port[s] # NoPort => <<s, root_port[s]>> \in Port
  /\ hello_timer \in [Switch -> BOOLEAN]
  /\ config \in [Port -> Config]
  /\ wire \in [Wire -> Seq(Config)]
  /\ stops \in 0..MaxStop
  /\ losses \in 0..MaxLoss

\* The switches that hear each other directly.
Link == {<<w[1][1], w[2][1]>> : w \in Wire}

Belief == [s \in Switch |->
            [root |-> designated_root[s], cost |-> root_path_cost[s]]]

Elects == INSTANCE Election WITH up <- running, belief <- Belief

IsAWalk(c) == Elects!Walk(c.root, c.switch, c.cost)

\* Every belief comes from the network: whatever a switch believes, keeps on
\* a port or sends, the root it names is a switch that many hops away, also
\* when frames were lost, came late, or switches were terminated meanwhile
\* (stp_update_state adds the cost of the port it learned from).
CostIsAWalk ==
  /\ \A s \in Switch : Elects!Walk(designated_root[s], s, root_path_cost[s])
  /\ \A p \in Port : IsAWalk(config[p])
  /\ \A w \in Wire : \A i \in 1..Len(wire[w]) : IsAWalk(wire[w][i])

\* No switch hears itself: its ports are on different segments.  With two
\* ports on one hub the root takes its own Config for that of a neighbour and
\* makes one of them its root port (stp_update_state compares no identity).
NoSelfLoop == \A w \in Wire : w[1][1] # w[2][1]

\* The root has no root port and every port of it is designated, it is the
\* root that generates hellos and nobody else, and nobody follows a root that
\* is larger than itself: what stp_update_state keeps in four variables and in
\* every port stays consistent.
RootConsistency ==
  \A s \in Switch :
    /\ designated_root[s] <= s
    /\ (designated_root[s] = s) <=> (root_port[s] = NoPort)
    /\ (designated_root[s] = s) <=> hello_timer[s]
    /\ designated_root[s] = s => /\ root_path_cost[s] = 0
                                 /\ DesignatedPorts(s, config) = Ports(s)

\* What the switch believes is what its root port knows, and no port that is
\* not designated knows better: whatever came in on one port is not forgotten
\* when a frame on another port makes the switch choose again.
RootPortIsBest ==
  \A s \in Switch : root_port[s] # NoPort =>
    LET rp == <<s, root_port[s]>>
    IN  /\ ~IsDesignated(rp, config)
        /\ designated_root[s] = config[rp].root
        /\ root_path_cost[s] = config[rp].cost + 1
        /\ \A p \in Ports(s) :
             ~IsDesignated(p, config) =>
               \/ Better(config[rp], config[p])
               \/ config[p] = config[rp] /\ rp[2] <= p[2]

\* A port is designated exactly where nothing better than the switch's own
\* current Config is known, so what a hello or an answer advertises is what
\* the port compares the next frame with (stp_port_send_config reads stp_t,
\* stp_handle_config_packet reads the port).
DesignatedIsCurrent ==
  \A p \in Port : IF IsDesignated(p, config)
                   THEN config[p] = Own(p)
                   ELSE Better(config[p], Own(p))

\* As long as no frame is lost: what a designated port q stands for, a
\* running peer p knows, or is about to read, or will be told: the owner of q
\* still sends hellos, or somebody speaks to q, which answers, be it p itself
\* with its next hello.  This is what the answer of a designated port and the
\* messages after a change are for: a switch that stops its hellos has told
\* everybody.
Known(w) ==
  LET q == w[1]
      p == w[2]
  IN  \/ ~Better(Own(q), config[p])
      \/ \E i \in 1..Len(wire[w]) : wire[w][i] = Own(q)
      \/ hello_timer[q[1]]
      \/ \E r \in Peers(q) : wire[<<r, q>>] # <<>>
      \/ IsDesignated(p, config) /\ hello_timer[p[1]]

EveryoneIsTold ==
  losses = 0 =>
    \A w \in Wire :
      w[1][1] \in running /\ w[2][1] \in running /\ IsDesignated(w[1], config)
        => Known(w)

-----------------------------------------------------------------------------
(***************************************************************************)
(* What the switches are to agree on.                                      *)
(***************************************************************************)

MinRoot == CHOOSE r \in Switch : \A s \in Switch : r <= s

Role(p) == IF root_port[p[1]] = p[2] THEN "ROOT"
           ELSE IF IsDesignated(p, config) THEN "DESIGNATED"
           ELSE "ALTERNATE"

\* All switches run and name the smallest identity as root.
Agreement == running = Switch /\ \A s \in Switch : designated_root[s] = MinRoot

\* Every segment has one designated port; every switch but the root has one
\* root port, one hop nearer to the root over that segment's designated
\* port: the forwarding ports form a tree that reaches every switch.
SpanningTree ==
  /\ \A p \in Port : \E q \in Peers(p) \cup {p} :
       /\ Role(q) = "DESIGNATED"
       /\ \A r \in Peers(p) \cup {p} : Role(r) = "DESIGNATED" => r = q
  /\ \A s \in Switch : s # MinRoot =>
       \E p \in Ports(s) : /\ Role(p) = "ROOT"
                           /\ \E q \in Peers(p) :
                                /\ Role(q) = "DESIGNATED"
                                /\ root_path_cost[s] = root_path_cost[q[1]] + 1

\* No shorter way to the root exists than the one that was found.
ShortestPaths ==
  \A s \in Switch : \A n \in 0..(root_path_cost[s] - 1) : ~Elects!Walk(MinRoot, s, n)

Converged == Agreement /\ SpanningTree /\ ShortestPaths

\* A hello over w would be news neither to the port that hears it nor, by the
\* answer, to the port that sends it.
NoNews(w) ==
  hello_timer[w[1][1]] =>
    /\ ~Better(Own(w[1]), config[w[2]])
    /\ IsDesignated(w[2], config) => ~Better(Own(w[2]), config[w[1]])

\* Once every frame is read and no further hello would be news to anybody,
\* the switches have found the tree: as long as no frame is lost, the
\* protocol cannot come to rest anywhere else.
RestIsConverged ==
  /\ losses = 0
  /\ running = Switch
  /\ \A w \in Wire : wire[w] = <<>> /\ NoNews(w)
  => Converged

\* While its process runs, a switch turns to another root or cost only when
\* that is a smaller root or a shorter way and really exists, whatever order
\* the frames arrive in, and a handler moves the belief of its own switch
\* only: the program implements the abstract election.
ImplementsElection == Elects!Spec

(***************************************************************************)
(* Liveness.                                                               *)
(***************************************************************************)

\* When no switch is terminated any more and if no frame is lost, the switches
\* find the tree and keep it, in whatever order they start, hear of each
\* other and restart.
Convergence == [](losses = 0) => <>[]Converged

-----------------------------------------------------------------------------
(***************************************************************************)
(* What the sources say of the protocol and the program does not do.       *)
(***************************************************************************)

\* stp_proto.h:52 calls max_age, which every Config carries, the "timeout for
\* received data": when a switch is gone for good, what was received from it
\* times out and nobody names it as root any more.
ReceivedDataTimesOut ==
  \A s \in Switch :
    <>[](s \notin running) => <>[](\A t \in running : designated_root[t] # s)
=============================================================================
