----------------------------- MODULE STPProofs -----------------------------
(***************************************************************************)
(* Proofs about the spanning tree program, for every set of switches,      *)
(* every attachment of ports to segments and every bound: what its state   *)
(* is like, that every cost is the length of a walk, that the program      *)
(* implements the abstract election, what the switches have told each      *)
(* other, that the program rests only in the spanning tree, and that what  *)
(* a port knows only gets better, which comes to an end.                   *)
(***************************************************************************)
EXTENDS STP, WellFoundedInduction, TLAPS

-----------------------------------------------------------------------------
(***************************************************************************)
(* Types.                                                                  *)
(***************************************************************************)

\* A port is its switch and its number, and port numbers start at 1
\* (stp_init), so none of them is NoPort.
LEMMA PortIsPair ==
  ASSUME NEW p \in Port
  PROVE  /\ p[1] \in Switch
         /\ p[2] \in Nat
         /\ p[2] # NoPort
         /\ p = <<p[1], p[2]>>
  BY PortAssumption DEF NoPort

\* A wire runs from a port to a port.
LEMMA WireIsPair ==
  ASSUME NEW w \in Wire
  PROVE  /\ w[1] \in Port
         /\ w[2] \in Port
         /\ w = <<w[1], w[2]>>
  BY DEF Wire

\* stp_port_set_config stores a Config.
LEMMA AdvertType ==
  ASSUME NEW p \in Port, NEW root \in Switch, NEW cost \in Nat
  PROVE  Advert(p, root, cost) \in Config
  BY PortIsPair DEF Advert, Config

\* What stp_update_state picks is no port at all or a port of the switch that
\* is not designated and that no other such port beats.
LEMMA RootPortsMember ==
  ASSUME NEW s \in Switch, NEW cfg, NEW rp \in RootPorts(s, cfg)
  PROVE  \/ /\ rp = NoPort
            /\ \A p \in Ports(s) : IsDesignated(p, cfg)
         \/ /\ rp # NoPort
            /\ rp \in Nat
            /\ <<s, rp>> \in Ports(s)
            /\ ~IsDesignated(<<s, rp>>, cfg)
            /\ \A q \in Ports(s) :
                 ~IsDesignated(q, cfg) /\ q # <<s, rp>>
                   => BetterRootPort(<<s, rp>>, q, cfg)
<1> DEFINE candidates == {p \in Ports(s) : ~IsDesignated(p, cfg)}
<1>1. CASE candidates = {}
  BY <1>1 DEF RootPorts
<1>2. CASE candidates # {}
  <2>1. PICK c \in candidates :
          /\ rp = c[2]
          /\ \A q \in candidates \ {c} : BetterRootPort(c, q, cfg)
    BY <1>2 DEF RootPorts
  <2>2. c = <<s, rp>> /\ rp # NoPort /\ rp \in Nat
    BY <2>1, PortIsPair DEF Ports
  <2>. QED  BY <2>1, <2>2
<1>. QED  BY <1>1, <1>2

\* Sending puts Configs on wires.
LEMMA SendType ==
  ASSUME NEW s \in Switch, NEW ports \in SUBSET Port,
         NEW queue \in [Wire -> Seq(Config)],
         designated_root' \in [Switch -> Switch],
         root_path_cost' \in [Switch -> Nat],
         Send(s, ports, queue)
  PROVE  wire' \in [Wire -> Seq(Config)]
<1>1. CASE designated_root'[s] # s /\ root_port'[s] = NoPort
  BY <1>1 DEF Send
<1>2. CASE ~(designated_root'[s] # s /\ root_port'[s] = NoPort)
  <2>1. wire' = [w \in Wire |->
                  IF w[1] \in ports /\ w[2][1] \in running
                  THEN Append(queue[w], Own(w[1])')
                  ELSE queue[w]]
    BY <1>2 DEF Send
  <2>2. \A p \in Port : Own(p)' \in Config
    <3>. TAKE p \in Port
    <3>1. p[1] \in Switch
      BY PortIsPair
    <3>. QED  BY <3>1, AdvertType DEF Own
  <2>3. \A w \in Wire : Append(queue[w], Own(w[1])') \in Seq(Config)
    BY <2>2, WireIsPair
  <2>. QED  BY <2>1, <2>3
<1>. QED  BY <1>1, <1>2

\* Taking the first frame leaves Configs on the wires.
LEMMA WithoutType ==
  ASSUME wire \in [Wire -> Seq(Config)], NEW w \in Wire, wire[w] # <<>>
  PROVE  /\ Head(wire[w]) \in Config
         /\ Without(w) \in [Wire -> Seq(Config)]
  BY DEF Without

\* stp_update_state leaves well-typed variables behind.
LEMMA UpdateStateType ==
  ASSUME TypeOK, NEW s \in Switch, NEW cfg \in [Port -> Config], UpdateState(s, cfg)
  PROVE  /\ designated_root' \in [Switch -> Switch]
         /\ root_path_cost' \in [Switch -> Nat]
         /\ root_port' \in [Switch -> Nat]
         /\ \A t \in Switch : root_port'[t] # NoPort => <<t, root_port'[t]>> \in Port
         /\ hello_timer' \in [Switch -> BOOLEAN]
         /\ config' \in [Port -> Config]
<1>1. PICK rp \in RootPorts(s, cfg) :
        /\ root_port' = [root_port EXCEPT ![s] = rp]
        /\ designated_root' =
             [designated_root EXCEPT ![s] = RootThrough(s, rp, cfg)]
        /\ root_path_cost' =
             [root_path_cost EXCEPT ![s] = CostThrough(s, rp, cfg)]
        /\ hello_timer' = [hello_timer EXCEPT ![s] = HelloTimer(rp)]
        /\ config' =
             Claim(s, cfg, RootThrough(s, rp, cfg), CostThrough(s, rp, cfg))
  BY DEF UpdateState
<1>2. rp \in Nat /\ (rp # NoPort => <<s, rp>> \in Port)
  BY RootPortsMember DEF NoPort, Ports
<1>3. RootThrough(s, rp, cfg) \in Switch /\ CostThrough(s, rp, cfg) \in Nat
  <2>1. CASE rp = NoPort
    BY <2>1 DEF RootThrough, CostThrough
  <2>2. CASE rp # NoPort
    <3>1. cfg[<<s, rp>>] \in Config
      BY <1>2, <2>2
    <3>. QED  BY <2>2, <3>1 DEF Config, Through, RootThrough, CostThrough
  <2>. QED  BY <2>1, <2>2
<1>4. config' \in [Port -> Config]
  <2>1. \A p \in Port :
          Advert(p, RootThrough(s, rp, cfg), CostThrough(s, rp, cfg)) \in Config
    BY <1>3, AdvertType
  <2>. QED  BY <1>1, <2>1 DEF Claim
<1>5. \A t \in Switch : root_port'[t] # NoPort => <<t, root_port'[t]>> \in Port
  BY <1>1, <1>2 DEF TypeOK
<1>6. HelloTimer(rp) \in BOOLEAN
  BY DEF HelloTimer
<1>. QED  BY <1>1, <1>2, <1>3, <1>4, <1>5, <1>6 DEF TypeOK

\* stp_init leaves well-typed variables behind.
LEMMA InitIsTyped == Init => TypeOK
<1>. SUFFICES ASSUME Init PROVE TypeOK
  OBVIOUS
<1>1. config \in [Port -> Config]
  BY SwitchAssumption, PortIsPair, AdvertType DEF Init
<1>. QED  BY <1>1, BoundAssumption DEF Init, TypeOK, NoPort

\* Every handler, the network and the terminations keep the types.
LEMMA TypeStep ==
  ASSUME TypeOK, [Next]_vars
  PROVE  TypeOK'
<1>1. ASSUME NEW s \in Switch, Fresh(s)
      PROVE  /\ designated_root' \in [Switch -> Switch]
             /\ root_path_cost' \in [Switch -> Nat]
             /\ root_port' \in [Switch -> Nat]
             /\ \A t \in Switch : root_port'[t] # NoPort => <<t, root_port'[t]>> \in Port
             /\ hello_timer' \in [Switch -> BOOLEAN]
             /\ config' \in [Port -> Config]
  <2>1. \A p \in Port : Advert(p, s, 0) \in Config
    BY AdvertType
  <2>2. config' \in [Port -> Config]
    BY <1>1, <2>1 DEF Fresh, TypeOK
  <2>. QED  BY <1>1, <2>2 DEF Fresh, TypeOK, NoPort
<1>2. ASSUME NEW s \in Switch, Start(s) PROVE TypeOK'
  BY <1>1, <1>2 DEF Start, TypeOK
<1>3. ASSUME NEW s \in Switch, Stop(s) PROVE TypeOK'
  <2>1. wire' \in [Wire -> Seq(Config)]
    BY <1>3 DEF Stop, TypeOK
  <2>2. stops' \in 0..MaxStop
    BY <1>3, BoundAssumption DEF Stop, TypeOK
  <2>. QED  BY <1>1, <1>3, <2>1, <2>2 DEF Stop, TypeOK
<1>4. ASSUME NEW s \in Switch, Hello(s) PROVE TypeOK'
  <2>1. DesignatedPorts(s, config) \in SUBSET Port
    BY DEF DesignatedPorts, Ports
  <2>2. wire' \in [Wire -> Seq(Config)]
    BY <1>4, <2>1, SendType DEF Hello, TypeOK, switchVars
  <2>. QED  BY <1>4, <2>2 DEF Hello, TypeOK, switchVars
<1>5. ASSUME NEW w \in Wire, Deliver(w) PROVE TypeOK'
  <2> DEFINE s == w[2][1]
  <2>1. s \in Switch /\ w[2] \in Port
    BY WireIsPair, PortIsPair
  <2>2. Head(wire[w]) \in Config /\ Without(w) \in [Wire -> Seq(Config)]
    BY <1>5, WithoutType DEF Deliver, TypeOK
  <2>3. CASE HandleSuperior(w)
    <3> DEFINE cfg == [config EXCEPT ![w[2]] = Head(wire[w])]
    <3>1. cfg \in [Port -> Config]
      BY <2>2 DEF TypeOK
    <3>2. UpdateState(s, cfg)
      BY <2>3 DEF HandleSuperior
    <3>. HIDE DEF cfg
    <3>3. DesignatedPorts(s, config') \in SUBSET Port
      BY DEF DesignatedPorts, Ports
    <3>4. Send(s, DesignatedPorts(s, config'), Without(w))
      BY <2>3 DEF HandleSuperior
    <3>5. /\ designated_root' \in [Switch -> Switch]
          /\ root_path_cost' \in [Switch -> Nat]
          /\ root_port' \in [Switch -> Nat]
          /\ \A t \in Switch : root_port'[t] # NoPort => <<t, root_port'[t]>> \in Port
          /\ hello_timer' \in [Switch -> BOOLEAN]
          /\ config' \in [Port -> Config]
      BY <2>1, <3>1, <3>2, UpdateStateType
    <3>. HIDE DEF s
    <3>6. wire' \in [Wire -> Seq(Config)]
      BY <2>1, <2>2, <3>3, <3>4, <3>5, SendType
    <3>. QED  BY <1>5, <3>5, <3>6 DEF Deliver, TypeOK
  <2>4. CASE HandleInferior(w)
    <3>1. wire' \in [Wire -> Seq(Config)]
      BY <2>1, <2>2, <2>4, SendType DEF HandleInferior, TypeOK, switchVars
    <3>. QED  BY <1>5, <2>4, <3>1 DEF HandleInferior, Deliver, TypeOK, switchVars
  <2>5. CASE HandleKnown(w)
    BY <1>5, <2>2, <2>5 DEF HandleKnown, Deliver, TypeOK, switchVars
  <2>. QED  BY <1>5, <2>3, <2>4, <2>5 DEF Deliver, HandlePacket
<1>6. ASSUME NEW w \in Wire, Lose(w) PROVE TypeOK'
  <2>1. Without(w) \in [Wire -> Seq(Config)]
    BY <1>6, WithoutType DEF Lose, TypeOK
  <2>2. losses' \in 0..MaxLoss
    BY <1>6, BoundAssumption DEF Lose, TypeOK
  <2>. QED  BY <1>6, <2>1, <2>2 DEF Lose, TypeOK, switchVars
<1>7. CASE UNCHANGED vars
  BY <1>7 DEF vars, switchVars, TypeOK
<1>. QED  BY <1>2, <1>3, <1>4, <1>5, <1>6, <1>7 DEF Next

\* The variables stay well typed whatever the switches, the network and the
\* terminations do: TypeOK is inductive.
THEOREM TypeCorrect == Spec => []TypeOK
<1>1. Init => TypeOK
  BY InitIsTyped
<1>2. TypeOK /\ [Next]_vars => TypeOK'
  BY TypeStep
<1>. QED  BY <1>1, <1>2, PTL DEF Spec

-----------------------------------------------------------------------------
(***************************************************************************)
(* The state of a switch is consistent.  The inductive invariant adds to   *)
(* the three properties what is true of the frames: a frame names the      *)
(* switch that sent it, and only a root advertises cost 0.                 *)
(***************************************************************************)

Genuine(c, s) == c.switch = s /\ (c.cost = 0 => c.root = s)

FramesAreGenuine ==
  \A w \in Wire : \A i \in 1..Len(wire[w]) : Genuine(wire[w][i], w[1][1])

Consistent == RootConsistency /\ RootPortIsBest /\ DesignatedIsCurrent

\* a names a smaller root than b, or the same root at no higher cost.
NoWorse(a, b) == a.root < b.root \/ (a.root = b.root /\ a.cost <= b.cost)

\* The fields of a Config are numbers, and they are all there is to it.
LEMMA ConfigFields ==
  ASSUME NEW c \in Config
  PROVE  /\ c.root \in Nat
         /\ c.cost \in Nat
         /\ c.switch \in Nat
         /\ c.port \in Nat
  BY SwitchAssumption DEF Config

\* A Config is its four fields.
LEMMA ConfigExtensionality ==
  ASSUME NEW a \in Config, NEW b \in Config,
         a.root = b.root, a.cost = b.cost, a.switch = b.switch, a.port = b.port
  PROVE  a = b
  BY DEF Config

\* stp_config_compare is a total order.
LEMMA BetterIsTotal ==
  ASSUME NEW a \in Config, NEW b \in Config
  PROVE  Better(a, b) \/ Better(b, a) \/ a = b
<1>1. SUFFICES ASSUME ~Better(a, b), ~Better(b, a)
               PROVE  a = b
  OBVIOUS
<1>2. /\ a.root \in Nat /\ a.cost \in Nat /\ a.switch \in Nat /\ a.port \in Nat
      /\ b.root \in Nat /\ b.cost \in Nat /\ b.switch \in Nat /\ b.port \in Nat
  BY ConfigFields
<1>3. a.root = b.root /\ a.cost = b.cost /\ a.switch = b.switch /\ a.port = b.port
  BY <1>1, <1>2 DEF Better
<1>. QED  BY <1>3, ConfigExtensionality

\* What is better than something better is better.
LEMMA BetterIsTransitive ==
  ASSUME NEW a \in Config, NEW b \in Config, NEW c \in Config,
         Better(a, b), Better(b, c)
  PROVE  Better(a, c)
<1>1. /\ a.root \in Nat /\ a.cost \in Nat /\ a.switch \in Nat /\ a.port \in Nat
      /\ b.root \in Nat /\ b.cost \in Nat /\ b.switch \in Nat /\ b.port \in Nat
      /\ c.root \in Nat /\ c.cost \in Nat /\ c.switch \in Nat /\ c.port \in Nat
  BY ConfigFields
<1>. QED  BY <1>1 DEF Better

\* Adding the cost of the port, which is the same on every port, to both of
\* two Configs does not change their order.
LEMMA ThroughKeepsOrder ==
  ASSUME NEW a \in Config, NEW b \in Config
  PROVE  /\ Better(Through(a), Through(b)) <=> Better(a, b)
         /\ Through(a) = Through(b) => a = b
         /\ Through(a).root = a.root
         /\ Through(a).cost = a.cost + 1
<1>1. Through(a) = [root |-> a.root, cost |-> a.cost + 1, switch |-> a.switch, port |-> a.port]
  BY DEF Through, Config
<1>2. Through(b) = [root |-> b.root, cost |-> b.cost + 1, switch |-> b.switch, port |-> b.port]
  BY DEF Through, Config
<1>3. Better(Through(a), Through(b)) <=> Better(a, b)
  BY <1>1, <1>2, SwitchAssumption DEF Better, Config
<1>4. Through(a) = Through(b) => a = b
  BY <1>1, <1>2, SwitchAssumption DEF Config
<1>. QED  BY <1>1, <1>3, <1>4

\* A switch is never worse off than what a port of it knows.
LEMMA OwnIsNoBetter ==
  ASSUME TypeOK, DesignatedIsCurrent, NEW p \in Port
  PROVE  /\ Own(p) \in Config
         /\ config[p] \in Config
         /\ config[p] = Own(p) \/ Better(config[p], Own(p))
<1>1. p[1] \in Switch
  BY PortIsPair
<1>2. Own(p) \in Config
  BY <1>1, AdvertType DEF Own, TypeOK
<1>. QED  BY <1>2 DEF DesignatedIsCurrent, TypeOK

\* The order of whole Configs, seen on root and cost only.
LEMMA BetterIsNoWorse ==
  ASSUME NEW a \in Config, NEW b \in Config, Better(a, b) \/ a = b
  PROVE  NoWorse(a, b)
  BY ConfigFields DEF Better, NoWorse

\* What the root is behind a superior Config: a smaller switch, since the
\* switch does not hear itself and only a root advertises cost 0.
LEMMA SuperiorNamesSmallerRoot ==
  ASSUME TypeOK, RootConsistency, DesignatedIsCurrent,
         NEW p \in Port, NEW m \in Config, NEW t \in Switch,
         Genuine(m, t), t # p[1], Better(m, config[p])
  PROVE  /\ m.root < p[1]
         /\ NoWorse(m, Own(p))
<1>1. Own(p) \in Config /\ config[p] \in Config /\ Better(m, Own(p))
  BY OwnIsNoBetter, BetterIsTransitive
<1>2. NoWorse(m, Own(p))
  BY <1>1, BetterIsNoWorse
<1>3. /\ p[1] \in Nat
      /\ Own(p).root = designated_root[p[1]]
      /\ Own(p).cost = root_path_cost[p[1]]
      /\ designated_root[p[1]] <= p[1]
      /\ designated_root[p[1]] = p[1] => root_path_cost[p[1]] = 0
      /\ designated_root[p[1]] \in Nat
  BY PortIsPair, SwitchAssumption DEF Own, Advert, RootConsistency, TypeOK
<1>4. m.root \in Nat /\ m.cost \in Nat
  BY ConfigFields
<1>5. CASE m.root < Own(p).root
  BY <1>2, <1>3, <1>4, <1>5
<1>6. CASE m.root = Own(p).root /\ m.cost <= Own(p).cost
  <2>1. CASE designated_root[p[1]] < p[1]
    BY <1>2, <1>3, <1>6, <2>1
  <2>2. CASE designated_root[p[1]] = p[1]
    <3>1. m.cost = 0 /\ m.root = p[1]
      BY <1>3, <1>4, <1>6, <2>2
    <3>. QED  BY <3>1 DEF Genuine
  <2>. QED  BY <1>3, <2>1, <2>2
<1>. QED  BY <1>2, <1>5, <1>6 DEF NoWorse

\* stp_update_state after a superior Config m came in on port p.
LEMMA UpdateAfterSuperior ==
  ASSUME TypeOK, Consistent,
         NEW p \in Port, NEW m \in Config, NEW t \in Switch,
         Genuine(m, t), t # p[1], Better(m, config[p]),
         UpdateState(p[1], [config EXCEPT ![p] = m])
  PROVE  /\ Consistent'
         /\ root_path_cost'[p[1]] # 0
         /\ \A s \in Switch \ {p[1]} : /\ designated_root'[s] = designated_root[s]
                                       /\ root_path_cost'[s] = root_path_cost[s]
                                       /\ root_port'[s] = root_port[s]
                                       /\ hello_timer'[s] = hello_timer[s]
         /\ NoWorse(Own(p)', Own(p))
<1> DEFINE s == p[1]
           cfg == [config EXCEPT ![p] = m]
           root == designated_root'[s]
           cost == root_path_cost'[s]
<1>1. /\ s \in Switch /\ p \in Ports(s)
      /\ cfg \in [Port -> Config] /\ cfg[p] = m
      /\ \A q \in Port : q # p => cfg[q] = config[q]
  <2>1. s \in Switch /\ p \in Ports(s)
    BY PortIsPair DEF Ports
  <2>2. config \in [Port -> Config]
    BY DEF TypeOK
  <2>. QED  BY <2>1, <2>2
<1>2. m.root < s /\ NoWorse(m, Own(p))
  <2>1. RootConsistency /\ DesignatedIsCurrent
    BY DEF Consistent
  <2>. QED  BY <2>1, SuperiorNamesSmallerRoot
<1>3. ~IsDesignated(p, cfg)
  BY <1>1 DEF IsDesignated, Genuine
<1>4. PICK rp \in RootPorts(s, cfg) :
        /\ root_port' = [root_port EXCEPT ![s] = rp]
        /\ designated_root' =
             [designated_root EXCEPT ![s] = RootThrough(s, rp, cfg)]
        /\ root_path_cost' =
             [root_path_cost EXCEPT ![s] = CostThrough(s, rp, cfg)]
        /\ hello_timer' = [hello_timer EXCEPT ![s] = HelloTimer(rp)]
        /\ config' =
             Claim(s, cfg, RootThrough(s, rp, cfg), CostThrough(s, rp, cfg))
  BY DEF UpdateState
<1> DEFINE r == <<s, rp>>
<1>. HIDE DEF cfg, s
<1>5. /\ rp # NoPort /\ rp \in Nat
      /\ r \in Ports(s)
      /\ ~IsDesignated(r, cfg)
      /\ \A q \in Ports(s) :
           ~IsDesignated(q, cfg) /\ q # r => BetterRootPort(r, q, cfg)
  BY <1>1, <1>3, RootPortsMember
<1>6. r \in Port /\ cfg[r] \in Config /\ r[1] = s /\ r[2] = rp
  BY <1>1, <1>5 DEF Ports
<1>7. \A q \in Ports(s) :
        ~IsDesignated(q, cfg) =>
          \/ Better(cfg[r], cfg[q])
          \/ cfg[r] = cfg[q] /\ r[2] <= q[2]
  <2>. SUFFICES ASSUME NEW q \in Ports(s), ~IsDesignated(q, cfg), q # r
                PROVE  \/ Better(cfg[r], cfg[q])
                       \/ cfg[r] = cfg[q] /\ r[2] <= q[2]
    BY <1>5, <1>6
  <2>1. BetterRootPort(r, q, cfg)
    BY <1>5
  <2>2. cfg[q] \in Config /\ q[2] \in Nat
    BY <1>1, PortIsPair DEF Ports
  <2>. QED  BY <1>5, <1>6, <2>1, <2>2, ThroughKeepsOrder DEF BetterRootPort
<1>8. /\ designated_root' = [designated_root EXCEPT ![s] = root]
      /\ root_path_cost' = [root_path_cost EXCEPT ![s] = cost]
      /\ config' = Claim(s, cfg, root, cost)
      /\ root = cfg[r].root /\ cost = cfg[r].cost + 1
      /\ root_port'[s] = rp
      /\ hello_timer'[s] = FALSE
      /\ root \in Switch /\ cost \in Nat /\ cost > 0
  <2>1. RootThrough(s, rp, cfg) = cfg[r].root /\ CostThrough(s, rp, cfg) = cfg[r].cost + 1
    BY <1>5, <1>6, ThroughKeepsOrder DEF RootThrough, CostThrough
  <2>2. root = cfg[r].root /\ cost = cfg[r].cost + 1
    BY <1>1, <1>4, <2>1 DEF TypeOK
  <2>3. root_port'[s] = rp /\ hello_timer'[s] = FALSE
    BY <1>1, <1>4, <1>5 DEF TypeOK, HelloTimer
  <2>4. cfg[r].root \in Switch /\ cfg[r].cost \in Nat
    BY <1>6 DEF Config
  <2>5. root = RootThrough(s, rp, cfg) /\ cost = CostThrough(s, rp, cfg)
    BY <2>1, <2>2
  <2>6. /\ designated_root' = [designated_root EXCEPT ![s] = root]
        /\ root_path_cost' = [root_path_cost EXCEPT ![s] = cost]
        /\ config' = Claim(s, cfg, root, cost)
    BY <1>4, <2>5, Zenon
  <2>7. root \in Switch /\ cost \in Nat /\ cost > 0
    BY <2>2, <2>4
  <2>. QED  BY <2>2, <2>3, <2>6, <2>7
<1>. HIDE DEF root, cost
<1>9. NoWorse(cfg[r], m) /\ root < s
  <2>1. NoWorse(cfg[r], m)
    BY <1>1, <1>3, <1>6, <1>7, BetterIsNoWorse
  <2>2. m.root \in Nat /\ cfg[r].root \in Nat /\ s \in Nat
    BY <1>1, <1>6, ConfigFields, SwitchAssumption
  <2>. QED  BY <1>2, <1>8, <2>1, <2>2 DEF NoWorse, s
\* The belief gets no worse: the old root port is still a candidate.
<1>10. root < designated_root[s] \/ (root = designated_root[s] /\ cost <= root_path_cost[s])
  <2>1. /\ designated_root[s] \in Nat /\ root_path_cost[s] \in Nat /\ s \in Nat
        /\ root \in Nat /\ cost \in Nat
    BY <1>1, <1>8, SwitchAssumption DEF TypeOK
  <2>2. CASE root_port[s] = NoPort
    <3>1. designated_root[s] = s
      BY <1>1, <2>2 DEF Consistent, RootConsistency
    <3>. QED  BY <1>9, <3>1
  <2>3. CASE root_port[s] # NoPort
    <3> DEFINE o == <<s, root_port[s]>>
    <3>1. /\ o \in Port /\ o \in Ports(s)
          /\ ~IsDesignated(o, config)
          /\ designated_root[s] = config[o].root
          /\ root_path_cost[s] = config[o].cost + 1
      BY <1>1, <2>3 DEF Consistent, RootPortIsBest, TypeOK, Ports
    <3>2. cfg[o] \in Config /\ config[o] \in Config
      BY <1>1, <3>1 DEF TypeOK
    <3>. HIDE DEF o
    <3>3. NoWorse(cfg[o], config[o]) /\ ~IsDesignated(o, cfg)
      <4>1. CASE o = p
        BY <1>1, <1>3, <3>2, <4>1, BetterIsNoWorse
      <4>2. CASE o # p
        BY <1>1, <3>1, <3>2, <4>2, BetterIsNoWorse DEF IsDesignated
      <4>. QED  BY <4>1, <4>2
    <3>4. NoWorse(cfg[r], cfg[o])
      BY <1>6, <1>7, <3>1, <3>2, <3>3, BetterIsNoWorse
    <3>5. /\ cfg[r].root \in Nat /\ cfg[r].cost \in Nat
          /\ cfg[o].root \in Nat /\ cfg[o].cost \in Nat
          /\ config[o].root \in Nat /\ config[o].cost \in Nat
      BY <1>6, <3>2, ConfigFields
    <3>. QED  BY <1>8, <3>1, <3>3, <3>4, <3>5 DEF NoWorse
  <2>. QED  BY <2>2, <2>3
\* What the last loop leaves on the ports of the switch.
<1>11. \A q \in Ports(s) :
         /\ q \in Port /\ q[1] = s
         /\ Own(q)' = Advert(q, root, cost)
         /\ Own(q)' \in Config /\ cfg[q] \in Config
         /\ Better(Own(q)', cfg[q]) => config'[q] = Own(q)' /\ IsDesignated(q, config')
         /\ ~Better(Own(q)', cfg[q]) => /\ config'[q] = cfg[q]
                                        /\ IsDesignated(q, config') <=> IsDesignated(q, cfg)
  <2>. TAKE q \in Ports(s)
  <2>1. q \in Port /\ q[1] = s
    BY DEF Ports
  <2>2. Own(q)' = Advert(q, root, cost)
    BY <2>1 DEF Own, root, cost
  <2>3. Advert(q, root, cost) \in Config /\ cfg[q] \in Config
    BY <1>1, <1>8, <2>1, AdvertType
  <2>4. config'[q] = IF Better(Advert(q, root, cost), cfg[q])
                     THEN Advert(q, root, cost) ELSE cfg[q]
    BY <1>8, <2>1 DEF Claim
  <2>5. Advert(q, root, cost).switch = q[1] /\ Advert(q, root, cost).port = q[2]
    BY DEF Advert
  <2>. QED  BY <2>1, <2>2, <2>3, <2>4, <2>5 DEF IsDesignated
<1>12. \A q \in Port \ Ports(s) : config'[q] = config[q] /\ Own(q)' = Own(q)
  <2>. TAKE q \in Port \ Ports(s)
  <2>1. q[1] # s /\ q # p /\ q[1] \in Switch
    BY <1>1, PortIsPair DEF Ports, s
  <2>2. config'[q] = config[q]
    BY <1>1, <1>8, <2>1 DEF Claim
  <2>. QED  BY <1>8, <2>1, <2>2 DEF Own, Advert, TypeOK
<1>13. ~Better(Own(r)', cfg[r]) /\ ~IsDesignated(r, config') /\ config'[r] = cfg[r]
  <2>1. Own(r)'.root = cfg[r].root /\ Own(r)'.cost = cfg[r].cost + 1
    BY <1>5, <1>8, <1>11 DEF Advert
  <2>2. ~Better(Own(r)', cfg[r])
    BY <1>6, <2>1, ConfigFields DEF Better
  <2>. QED  BY <1>5, <1>11, <2>2
<1>14. \A t2 \in Switch \ {s} :
         /\ designated_root'[t2] = designated_root[t2]
         /\ root_path_cost'[t2] = root_path_cost[t2]
         /\ root_port'[t2] = root_port[t2]
         /\ hello_timer'[t2] = hello_timer[t2]
  BY <1>4, <1>8 DEF TypeOK
<1>15. RootConsistency'
  <2>. SUFFICES ASSUME NEW u \in Switch
                PROVE  /\ designated_root'[u] <= u
                       /\ (designated_root'[u] = u) <=> (root_port'[u] = NoPort)
                       /\ (designated_root'[u] = u) <=> hello_timer'[u]
                       /\ designated_root'[u] = u =>
                            /\ root_path_cost'[u] = 0
                            /\ DesignatedPorts(u, config') = Ports(u)
    BY DEF RootConsistency
  <2>1. CASE u = s
    <3>1. designated_root'[s] < s /\ root_port'[s] # NoPort /\ hello_timer'[s] = FALSE
      BY <1>5, <1>8, <1>9 DEF root
    <3>2. designated_root'[s] \in Nat /\ s \in Nat
      BY <1>1, <1>8, SwitchAssumption DEF root
    <3>. QED  BY <2>1, <3>1, <3>2
  <2>2. CASE u # s
    <3>1. DesignatedPorts(u, config') = DesignatedPorts(u, config)
      <4>1. \A q \in Ports(u) : q \in Port \ Ports(s)
        BY <2>2 DEF Ports
      <4>. QED  BY <1>12, <4>1 DEF DesignatedPorts, IsDesignated
    <3>. QED  BY <1>14, <2>2, <3>1 DEF Consistent, RootConsistency
  <2>. QED  BY <2>1, <2>2
<1>16. RootPortIsBest'
  <2>. SUFFICES ASSUME NEW u \in Switch, root_port'[u] # NoPort,
                       NEW o, o = <<u, root_port'[u]>>
                PROVE  /\ ~IsDesignated(o, config')
                       /\ designated_root'[u] = config'[o].root
                       /\ root_path_cost'[u] = config'[o].cost + 1
                       /\ \A q \in Ports(u) :
                            ~IsDesignated(q, config') =>
                              \/ Better(config'[o], config'[q])
                              \/ config'[q] = config'[o] /\ o[2] <= q[2]
    BY DEF RootPortIsBest
  <2>1. CASE u = s
    <3>1. o = r
      BY <1>8, <2>1
    <3>2. designated_root'[u] = config'[o].root /\ root_path_cost'[u] = config'[o].cost + 1
      BY <1>8, <1>13, <2>1, <3>1 DEF root, cost
    <3>3. ASSUME NEW q \in Ports(s), ~IsDesignated(q, config')
          PROVE  \/ Better(config'[r], config'[q])
                 \/ config'[q] = config'[r] /\ r[2] <= q[2]
      <4>1. config'[q] = cfg[q] /\ ~IsDesignated(q, cfg)
        BY <1>11, <3>3
      <4>. QED  BY <1>7, <1>13, <4>1
    <3>. QED  BY <1>13, <2>1, <3>1, <3>2, <3>3
  <2>2. CASE u # s
    <3>1. o = <<u, root_port[u]>> /\ root_port[u] # NoPort
      BY <1>14, <2>2
    <3>2. o \in Port /\ o \in Ports(u)
      BY <3>1 DEF TypeOK, Ports
    <3>3. \A q \in Ports(u) : config'[q] = config[q]
      BY <1>12, <2>2 DEF Ports
    <3>4. \A q \in Ports(u) : IsDesignated(q, config') <=> IsDesignated(q, config)
      BY <3>3 DEF IsDesignated
    <3>5. designated_root'[u] = designated_root[u] /\ root_path_cost'[u] = root_path_cost[u]
      BY <1>14, <2>2
    <3>6. /\ ~IsDesignated(o, config)
          /\ designated_root[u] = config[o].root
          /\ root_path_cost[u] = config[o].cost + 1
          /\ \A q \in Ports(u) :
               ~IsDesignated(q, config) =>
                 \/ Better(config[o], config[q])
                 \/ config[q] = config[o] /\ o[2] <= q[2]
      BY <3>1 DEF Consistent, RootPortIsBest
    <3>. QED  BY <3>2, <3>3, <3>4, <3>5, <3>6
  <2>. QED  BY <2>1, <2>2
<1>17. DesignatedIsCurrent'
  <2>. SUFFICES ASSUME NEW q \in Port
                PROVE  IF IsDesignated(q, config') THEN config'[q] = Own(q)'
                       ELSE Better(config'[q], Own(q)')
    BY DEF DesignatedIsCurrent
  <2>1. CASE q \notin Ports(s)
    BY <1>12, <2>1 DEF Consistent, DesignatedIsCurrent, IsDesignated
  <2>2. CASE q \in Ports(s) /\ Better(Own(q)', cfg[q])
    BY <1>11, <2>2
  <2>3. CASE q \in Ports(s) /\ ~Better(Own(q)', cfg[q]) /\ ~IsDesignated(q, cfg)
    <3>1. /\ config'[q] = cfg[q] /\ ~IsDesignated(q, config')
          /\ Own(q)' \in Config /\ cfg[q] \in Config
      BY <1>11, <2>3
    <3>2. Own(q)' # cfg[q]
      BY <1>11, <2>3 DEF Advert, IsDesignated
    <3>. QED  BY <2>3, <3>1, <3>2, BetterIsTotal
  <2>4. CASE q \in Ports(s) /\ ~Better(Own(q)', cfg[q]) /\ IsDesignated(q, cfg)
    <3>1. config'[q] = cfg[q] /\ IsDesignated(q, config')
      BY <1>11, <2>4
    <3>2. cfg[q] = config[q]
      BY <1>1, <1>3, <2>4
    <3>3. config[q] = Own(q)
      BY <2>4, <3>2 DEF Consistent, DesignatedIsCurrent, IsDesignated
    <3>4. /\ Own(q)' = Advert(q, root, cost)
          /\ Own(q) = Advert(q, designated_root[s], root_path_cost[s])
      BY <1>11, <2>4 DEF Own
    <3>5. /\ root \in Nat /\ cost \in Nat
          /\ designated_root[s] \in Nat /\ root_path_cost[s] \in Nat
      BY <1>1, <1>8, SwitchAssumption DEF TypeOK
    <3>6. root = designated_root[s] /\ cost = root_path_cost[s]
      BY <1>10, <2>4, <3>2, <3>3, <3>4, <3>5 DEF Better, Advert
    <3>. QED  BY <3>1, <3>2, <3>3, <3>4, <3>6
  <2>. QED  BY <2>1, <2>2, <2>3, <2>4
<1>18. NoWorse(Own(p)', Own(p))
  BY <1>10 DEF NoWorse, Own, Advert, s, root, cost
<1>19. root_path_cost'[p[1]] # 0
  BY <1>8 DEF s, cost
<1>. QED  BY <1>14, <1>15, <1>16, <1>17, <1>18, <1>19 DEF Consistent, s

\* A freshly started switch is its own root on all its ports.
LEMMA FreshIsConsistent ==
  ASSUME TypeOK, Consistent, NEW s \in Switch, Fresh(s)
  PROVE  Consistent'
<1>1. /\ designated_root'[s] = s /\ root_path_cost'[s] = 0
      /\ root_port'[s] = NoPort /\ hello_timer'[s] = TRUE
      /\ \A t \in Switch \ {s} : /\ designated_root'[t] = designated_root[t]
                                /\ root_path_cost'[t] = root_path_cost[t]
                                /\ root_port'[t] = root_port[t]
                                /\ hello_timer'[t] = hello_timer[t]
  BY DEF Fresh, TypeOK
<1>2. \A q \in Port : IF q[1] = s THEN config'[q] = Own(q)' /\ IsDesignated(q, config')
                      ELSE /\ config'[q] = config[q] /\ Own(q)' = Own(q)
                           /\ IsDesignated(q, config') <=> IsDesignated(q, config)
  <2>. TAKE q \in Port
  <2>1. q[1] \in Switch
    BY PortIsPair
  <2>2. config'[q] = IF q[1] = s THEN Advert(q, s, 0) ELSE config[q]
    BY DEF Fresh
  <2>. QED  BY <1>1, <2>1, <2>2 DEF Own, Advert, IsDesignated
<1>3. RootConsistency'
  <2>. SUFFICES ASSUME NEW u \in Switch
                PROVE  /\ designated_root'[u] <= u
                       /\ (designated_root'[u] = u) <=> (root_port'[u] = NoPort)
                       /\ (designated_root'[u] = u) <=> hello_timer'[u]
                       /\ designated_root'[u] = u =>
                            /\ root_path_cost'[u] = 0
                            /\ DesignatedPorts(u, config') = Ports(u)
    BY DEF RootConsistency
  <2>1. CASE u = s
    BY <1>1, <1>2, <2>1, SwitchAssumption DEF DesignatedPorts, Ports
  <2>2. CASE u # s
    <3>1. DesignatedPorts(u, config') = DesignatedPorts(u, config)
      BY <1>2, <2>2 DEF DesignatedPorts, Ports
    <3>. QED  BY <1>1, <2>2, <3>1 DEF Consistent, RootConsistency
  <2>. QED  BY <2>1, <2>2
<1>4. RootPortIsBest'
  <2>. SUFFICES ASSUME NEW u \in Switch, root_port'[u] # NoPort,
                       NEW o, o = <<u, root_port'[u]>>
                PROVE  /\ ~IsDesignated(o, config')
                       /\ designated_root'[u] = config'[o].root
                       /\ root_path_cost'[u] = config'[o].cost + 1
                       /\ \A q \in Ports(u) :
                            ~IsDesignated(q, config') =>
                              \/ Better(config'[o], config'[q])
                              \/ config'[q] = config'[o] /\ o[2] <= q[2]
    BY DEF RootPortIsBest
  <2>1. u # s /\ root_port'[u] = root_port[u]
    BY <1>1
  <2>2. o \in Port /\ o \in Ports(u)
    BY <2>1 DEF TypeOK, Ports
  <2>3. \A q \in Ports(u) : /\ config'[q] = config[q]
                            /\ IsDesignated(q, config') <=> IsDesignated(q, config)
    BY <1>2, <2>1 DEF Ports
  <2>4. designated_root'[u] = designated_root[u] /\ root_path_cost'[u] = root_path_cost[u]
    BY <1>1, <2>1
  <2>5. /\ ~IsDesignated(o, config)
        /\ designated_root[u] = config[o].root
        /\ root_path_cost[u] = config[o].cost + 1
        /\ \A q \in Ports(u) :
             ~IsDesignated(q, config) =>
               \/ Better(config[o], config[q])
               \/ config[q] = config[o] /\ o[2] <= q[2]
    BY <2>1 DEF Consistent, RootPortIsBest
  <2>. QED  BY <2>2, <2>3, <2>4, <2>5
<1>5. DesignatedIsCurrent'
  BY <1>2 DEF Consistent, DesignatedIsCurrent
<1>. QED  BY <1>3, <1>4, <1>5 DEF Consistent

\* What a consistent switch sends is genuine.
LEMMA SendIsGenuine ==
  ASSUME NEW s \in Switch, NEW ports \in SUBSET Ports(s),
         NEW queue \in [Wire -> Seq(Config)],
         \A w \in Wire : \A i \in 1..Len(queue[w]) : Genuine(queue[w][i], w[1][1]),
         root_path_cost'[s] = 0 => designated_root'[s] = s,
         designated_root' \in [Switch -> Switch],
         root_path_cost' \in [Switch -> Nat],
         Send(s, ports, queue)
  PROVE  FramesAreGenuine'
<1>1. CASE wire' = queue
  BY <1>1 DEF FramesAreGenuine
<1>2. CASE wire' = [w \in Wire |->
                     IF w[1] \in ports /\ w[2][1] \in running
                     THEN Append(queue[w], Own(w[1])')
                     ELSE queue[w]]
  <2>. SUFFICES ASSUME NEW w \in Wire, NEW i \in 1..Len(wire'[w])
                PROVE  Genuine(wire'[w][i], w[1][1])
    BY DEF FramesAreGenuine
  <2>1. CASE w[1] \in ports /\ w[2][1] \in running
    <3>1. wire'[w] = Append(queue[w], Own(w[1])')
      BY <1>2, <2>1
    <3>2. w[1] \in Port /\ w[1][1] = s
      BY <2>1 DEF Ports
    <3>3. Genuine(Own(w[1])', s)
      BY <3>2 DEF Own, Advert, Genuine
    <3>4. queue[w] \in Seq(Config)
      OBVIOUS
    <3>5. i \in 1..Len(queue[w]) \/ i = Len(queue[w]) + 1
      BY <3>1, <3>4
    <3>6. wire'[w][i] = queue[w][i] \/ wire'[w][i] = Own(w[1])'
      BY <3>1, <3>4, <3>5
    <3>7. i = Len(queue[w]) + 1 => wire'[w][i] = Own(w[1])'
      BY <3>1, <3>4
    <3>8. i \in 1..Len(queue[w]) => wire'[w][i] = queue[w][i]
      BY <3>1, <3>4
    <3>. QED  BY <3>2, <3>3, <3>5, <3>7, <3>8
  <2>2. CASE ~(w[1] \in ports /\ w[2][1] \in running)
    BY <1>2, <2>2
  <2>. QED  BY <2>1, <2>2
<1>. QED  BY <1>1, <1>2 DEF Send

\* Taking a frame off a wire leaves the others.
LEMMA WithoutIsGenuine ==
  ASSUME TypeOK, FramesAreGenuine, NEW w \in Wire, wire[w] # <<>>
  PROVE  /\ Genuine(Head(wire[w]), w[1][1])
         /\ \A v \in Wire : \A i \in 1..Len(Without(w)[v]) :
              Genuine(Without(w)[v][i], v[1][1])
<1>1. wire[w] \in Seq(Config)
  BY DEF TypeOK
<1>2. Genuine(Head(wire[w]), w[1][1])
  <2>1. 1 \in 1..Len(wire[w]) /\ Head(wire[w]) = wire[w][1]
    BY <1>1
  <2>. QED  BY <2>1 DEF FramesAreGenuine
<1>3. ASSUME NEW v \in Wire, NEW i \in 1..Len(Without(w)[v])
      PROVE  Genuine(Without(w)[v][i], v[1][1])
  <2>1. CASE v = w
    <3>1. Without(w)[v] = Tail(wire[w])
      BY <2>1 DEF Without, TypeOK
    <3>2. i + 1 \in 1..Len(wire[w]) /\ Without(w)[v][i] = wire[w][i + 1]
      BY <1>1, <1>3, <3>1
    <3>. QED  BY <2>1, <3>2 DEF FramesAreGenuine
  <2>2. CASE v # w
    <3>1. Without(w)[v] = wire[v]
      BY <2>2 DEF Without, TypeOK
    <3>. QED  BY <3>1 DEF FramesAreGenuine
  <2>. QED  BY <2>1, <2>2
<1>. QED  BY <1>2, <1>3

IInv == TypeOK /\ FramesAreGenuine /\ Consistent

\* The invariant holds when every switch starts.
LEMMA InvariantStarts == Init => IInv
<1>. SUFFICES ASSUME Init PROVE IInv
  OBVIOUS
<1>1. TypeOK
  BY InitIsTyped
<1>2. FramesAreGenuine
  BY DEF Init, FramesAreGenuine
<1>3. \A p \in Port : config[p] = Own(p) /\ IsDesignated(p, config) /\ p[1] \in Switch
  BY PortIsPair DEF Init, Own, Advert, IsDesignated
<1>4. RootConsistency
  BY <1>3, SwitchAssumption DEF Init, RootConsistency, DesignatedPorts, Ports, NoPort
<1>5. RootPortIsBest /\ DesignatedIsCurrent
  BY <1>3 DEF Init, RootPortIsBest, DesignatedIsCurrent, NoPort
<1>. QED  BY <1>1, <1>2, <1>4, <1>5 DEF IInv, Consistent

\* Every step keeps the invariant, in a network where no switch hears itself.
LEMMA InvariantStays ==
  ASSUME NoSelfLoop, IInv, [Next]_vars
  PROVE  IInv'
<1>. USE DEF IInv
<1>1. TypeOK'
  BY TypeStep
<1>2. ASSUME NEW s \in Switch, Start(s) PROVE IInv'
  <2>1. FramesAreGenuine'
    BY <1>2 DEF Start, FramesAreGenuine
  <2>. QED  BY <1>1, <1>2, <2>1, FreshIsConsistent DEF Start
<1>3. ASSUME NEW s \in Switch, Stop(s) PROVE IInv'
  <2>1. FramesAreGenuine'
    BY <1>3 DEF Stop, FramesAreGenuine
  <2>. QED  BY <1>1, <1>3, <2>1, FreshIsConsistent DEF Stop
<1>4. ASSUME UNCHANGED switchVars PROVE Consistent'
  BY <1>4 DEF switchVars, Consistent, RootConsistency, RootPortIsBest,
              DesignatedIsCurrent, Own
<1>5. ASSUME NEW s \in Switch, UNCHANGED switchVars
      PROVE  /\ root_path_cost'[s] = 0 => designated_root'[s] = s
             /\ designated_root' \in [Switch -> Switch]
             /\ root_path_cost' \in [Switch -> Nat]
  <2>1. designated_root \in [Switch -> Switch] /\ root_path_cost \in [Switch -> Nat]
    BY DEF TypeOK
  <2>2. root_path_cost[s] = 0 => designated_root[s] = s
    <3>1. CASE root_port[s] = NoPort
      BY <3>1 DEF Consistent, RootConsistency
    <3>2. CASE root_port[s] # NoPort
      <4>1. config[<<s, root_port[s]>>] \in Config
        BY <3>2 DEF TypeOK
      <4>. QED  BY <3>2, <4>1, ConfigFields DEF Consistent, RootPortIsBest
    <3>. QED  BY <3>1, <3>2
  <2>. QED  BY <1>5, <2>1, <2>2 DEF switchVars
<1>6. ASSUME NEW s \in Switch, Hello(s) PROVE IInv'
  <2>1. DesignatedPorts(s, config) \in SUBSET Ports(s)
    BY DEF DesignatedPorts
  <2>2. FramesAreGenuine'
    BY <1>5, <1>6, <2>1, SendIsGenuine DEF Hello, TypeOK, FramesAreGenuine
  <2>. QED  BY <1>1, <1>4, <1>6, <2>2 DEF Hello
<1>7. ASSUME NEW w \in Wire, Deliver(w) PROVE IInv'
  <2> DEFINE s == w[2][1]
  <2>1. s \in Switch /\ w[2] \in Port /\ w[2] \in Ports(s) /\ w[1][1] \in Switch /\ w[1][1] # s
    BY WireIsPair, PortIsPair DEF Ports, NoSelfLoop
  <2>2. Head(wire[w]) \in Config /\ Without(w) \in [Wire -> Seq(Config)]
    BY <1>7, WithoutType DEF Deliver, TypeOK
  <2>3. /\ Genuine(Head(wire[w]), w[1][1])
        /\ \A v \in Wire : \A i \in 1..Len(Without(w)[v]) :
             Genuine(Without(w)[v][i], v[1][1])
    BY <1>7, WithoutIsGenuine DEF Deliver
  <2>4. CASE HandleSuperior(w)
    <3>1. /\ Consistent' /\ root_path_cost'[s] # 0
      BY <2>1, <2>2, <2>3, <2>4, UpdateAfterSuperior DEF HandleSuperior
    <3>2. DesignatedPorts(s, config') \in SUBSET Ports(s)
      BY DEF DesignatedPorts
    <3>3. Send(s, DesignatedPorts(s, config'), Without(w))
      BY <2>4 DEF HandleSuperior
    <3>4. designated_root' \in [Switch -> Switch] /\ root_path_cost' \in [Switch -> Nat]
      BY <1>1 DEF TypeOK
    <3>. HIDE DEF s
    <3>5. FramesAreGenuine'
      BY <2>1, <2>2, <2>3, <3>1, <3>2, <3>3, <3>4, SendIsGenuine
    <3>. QED  BY <1>1, <3>1, <3>5
  <2>5. CASE HandleInferior(w)
    <3>1. UNCHANGED switchVars /\ Send(s, {w[2]}, Without(w))
      BY <2>5 DEF HandleInferior
    <3>2. {w[2]} \in SUBSET Ports(s)
      BY <2>1
    <3>. HIDE DEF s
    <3>3. FramesAreGenuine'
      BY <1>5, <2>1, <2>2, <2>3, <3>1, <3>2, SendIsGenuine
    <3>. QED  BY <1>1, <1>4, <3>1, <3>3
  <2>6. CASE HandleKnown(w)
    <3>1. FramesAreGenuine'
      BY <2>3, <2>6 DEF HandleKnown, FramesAreGenuine
    <3>. QED  BY <1>1, <1>4, <2>6, <3>1 DEF HandleKnown
  <2>. QED  BY <1>7, <2>4, <2>5, <2>6 DEF Deliver, HandlePacket
<1>8. ASSUME NEW w \in Wire, Lose(w) PROVE IInv'
  <2>1. FramesAreGenuine'
    BY <1>8, WithoutIsGenuine DEF Lose, FramesAreGenuine
  <2>. QED  BY <1>1, <1>4, <1>8, <2>1 DEF Lose
<1>9. CASE UNCHANGED vars
  BY <1>1, <1>4, <1>9 DEF vars, FramesAreGenuine
<1>. QED  BY <1>2, <1>3, <1>6, <1>7, <1>8, <1>9 DEF Next

\* In a network where no switch hears itself, the state of every switch is
\* consistent at any time, whatever is lost, late or restarted: the root and
\* only the root has no root port, all ports designated and its hello timer
\* running; a switch that is not root follows the best of what its ports know;
\* and a port is designated exactly where nothing better is known.
THEOREM StateIsConsistent ==
  ASSUME NoSelfLoop
  PROVE  Spec => [](RootConsistency /\ RootPortIsBest /\ DesignatedIsCurrent)
<1>1. Init => IInv
  BY InvariantStarts
<1>2. IInv /\ [Next]_vars => IInv'
  BY InvariantStays
<1>3. IInv => RootConsistency /\ RootPortIsBest /\ DesignatedIsCurrent
  BY DEF IInv, Consistent
<1>. QED  BY <1>1, <1>2, <1>3, PTL DEF Spec

\* Whatever came in on one port is not forgotten when a frame on another port
\* makes stp_update_state choose again: what the switch believes is what its
\* root port knows, and no port that is not designated knows better.
THEOREM RootPortStaysBest ==
  ASSUME NoSelfLoop
  PROVE  Spec => []RootPortIsBest
<1>1. Spec => [](RootConsistency /\ RootPortIsBest /\ DesignatedIsCurrent)
  BY StateIsConsistent
<1>. QED  BY <1>1, PTL

\* What a port compares the next frame with is what a hello or an answer on
\* that port advertises, or something better.
THEOREM DesignatedStaysCurrent ==
  ASSUME NoSelfLoop
  PROVE  Spec => []DesignatedIsCurrent
<1>1. Spec => [](RootConsistency /\ RootPortIsBest /\ DesignatedIsCurrent)
  BY StateIsConsistent
<1>. QED  BY <1>1, PTL

-----------------------------------------------------------------------------
(***************************************************************************)
(* Every cost is the length of a walk, in every network: what a port knows *)
(* was sent by a switch on its segment, which knew a walk itself.          *)
(***************************************************************************)

\* Port p's Config is the switch's own or that of a switch it hears.
IsHeard(p, cfg) == IsDesignated(p, cfg) \/ <<cfg[p].switch, p[1]>> \in Link

WalkInv ==
  /\ CostIsAWalk
  /\ \A p \in Port : IsHeard(p, config)
  /\ \A w \in Wire : \A i \in 1..Len(wire[w]) : wire[w][i].switch = w[1][1]

\* A switch is no hops away from itself.
LEMMA EmptyWalk ==
  ASSUME NEW s \in Switch
  PROVE  Elects!Walk(s, s, 0)
<1> DEFINE via == [i \in 0..0 |-> s]
<1>1. via \in [0..0 -> Switch] /\ via[0] = s
  OBVIOUS
<1>2. \A i \in 0..(0 - 1) : <<via[i], via[i + 1]>> \in Link
  OBVIOUS
<1>. QED  BY <1>1, <1>2 DEF Elects!Walk

\* A walk goes on to every switch that hears its last one.
LEMMA LongerWalk ==
  ASSUME NEW r \in Switch, NEW t \in Switch, NEW s \in Switch, NEW n \in Nat,
         Elects!Walk(r, t, n), <<t, s>> \in Link
  PROVE  Elects!Walk(r, s, n + 1)
<1>1. PICK via \in [0..n -> Switch] :
        /\ via[0] = r
        /\ via[n] = t
        /\ \A i \in 0..(n - 1) : <<via[i], via[i + 1]>> \in Link
  BY DEF Elects!Walk
<1> DEFINE longer == [i \in 0..(n + 1) |-> IF i = n + 1 THEN s ELSE via[i]]
<1>2. longer \in [0..(n + 1) -> Switch] /\ longer[0] = r /\ longer[n + 1] = s
  BY <1>1
<1>3. ASSUME NEW i \in 0..((n + 1) - 1)
      PROVE  <<longer[i], longer[i + 1]>> \in Link
  <2>1. CASE i = n
    BY <1>1, <2>1
  <2>2. CASE i # n
    BY <1>1, <2>2
  <2>. QED  BY <2>1, <2>2
<1>. QED  BY <1>2, <1>3 DEF Elects!Walk

\* What a switch advertises is a walk when what it believes is one.
LEMMA AdvertIsAWalk ==
  ASSUME NEW p \in Port, NEW root, NEW cost, Elects!Walk(root, p[1], cost)
  PROVE  IsAWalk(Advert(p, root, cost)) /\ Advert(p, root, cost).switch = p[1]
  BY DEF IsAWalk, Advert

\* Sending puts walks on wires.
LEMMA SendIsAWalk ==
  ASSUME NEW s \in Switch, NEW ports \in SUBSET Ports(s),
         NEW queue \in [Wire -> Seq(Config)],
         \A w \in Wire : \A i \in 1..Len(queue[w]) :
           IsAWalk(queue[w][i]) /\ queue[w][i].switch = w[1][1],
         Elects!Walk(designated_root'[s], s, root_path_cost'[s]),
         Send(s, ports, queue)
  PROVE  \A w \in Wire : \A i \in 1..Len(wire'[w]) :
           IsAWalk(wire'[w][i]) /\ wire'[w][i].switch = w[1][1]
<1>1. CASE wire' = queue
  BY <1>1
<1>2. CASE wire' = [w \in Wire |->
                     IF w[1] \in ports /\ w[2][1] \in running
                     THEN Append(queue[w], Own(w[1])')
                     ELSE queue[w]]
  <2>. SUFFICES ASSUME NEW w \in Wire, NEW i \in 1..Len(wire'[w])
                PROVE  IsAWalk(wire'[w][i]) /\ wire'[w][i].switch = w[1][1]
    OBVIOUS
  <2>1. CASE w[1] \in ports /\ w[2][1] \in running
    <3>1. wire'[w] = Append(queue[w], Own(w[1])') /\ queue[w] \in Seq(Config)
      BY <1>2, <2>1
    <3>2. w[1] \in Port /\ w[1][1] = s
      BY <2>1 DEF Ports
    <3>3. IsAWalk(Own(w[1])') /\ Own(w[1])'.switch = s
      BY <3>2, AdvertIsAWalk DEF Own
    <3>4. i = Len(queue[w]) + 1 => wire'[w][i] = Own(w[1])'
      BY <3>1
    <3>5. i # Len(queue[w]) + 1 => i \in 1..Len(queue[w]) /\ wire'[w][i] = queue[w][i]
      BY <3>1
    <3>. QED  BY <3>2, <3>3, <3>4, <3>5
  <2>2. CASE ~(w[1] \in ports /\ w[2][1] \in running)
    BY <1>2, <2>2
  <2>. QED  BY <2>1, <2>2
<1>. QED  BY <1>1, <1>2 DEF Send

\* Taking a frame off a wire leaves the others.
LEMMA WithoutIsAWalk ==
  ASSUME TypeOK, WalkInv, NEW w \in Wire, wire[w] # <<>>
  PROVE  /\ IsAWalk(Head(wire[w])) /\ Head(wire[w]).switch = w[1][1]
         /\ \A v \in Wire : \A i \in 1..Len(Without(w)[v]) :
              IsAWalk(Without(w)[v][i]) /\ Without(w)[v][i].switch = v[1][1]
<1>1. wire[w] \in Seq(Config)
  BY DEF TypeOK
<1>2. 1 \in 1..Len(wire[w]) /\ Head(wire[w]) = wire[w][1]
  BY <1>1
<1>3. \A v \in Wire : \A i \in 1..Len(wire[v]) :
        IsAWalk(wire[v][i]) /\ wire[v][i].switch = v[1][1]
  BY DEF WalkInv, CostIsAWalk
<1>4. ASSUME NEW v \in Wire, NEW i \in 1..Len(Without(w)[v])
      PROVE  IsAWalk(Without(w)[v][i]) /\ Without(w)[v][i].switch = v[1][1]
  <2>1. CASE v = w
    <3>1. Without(w)[v] = Tail(wire[w])
      BY <2>1 DEF Without, TypeOK
    <3>2. i + 1 \in 1..Len(wire[w]) /\ Without(w)[v][i] = wire[w][i + 1]
      BY <1>1, <1>4, <3>1
    <3>. QED  BY <1>3, <2>1, <3>2
  <2>2. CASE v # w
    <3>1. Without(w)[v] = wire[v]
      BY <2>2 DEF Without, TypeOK
    <3>. QED  BY <1>3, <3>1
  <2>. QED  BY <2>1, <2>2
<1>. QED  BY <1>2, <1>3, <1>4

\* stp_update_state believes in walks when the ports know walks.
LEMMA UpdateKeepsWalks ==
  ASSUME TypeOK, NEW s \in Switch, NEW cfg \in [Port -> Config],
         \A p \in Port : IsAWalk(cfg[p]) /\ IsHeard(p, cfg),
         \A t \in Switch : Elects!Walk(designated_root[t], t, root_path_cost[t]),
         UpdateState(s, cfg)
  PROVE  /\ \A t \in Switch : Elects!Walk(designated_root'[t], t, root_path_cost'[t])
         /\ \A p \in Port : IsAWalk(config'[p]) /\ IsHeard(p, config')
<1>1. PICK rp \in RootPorts(s, cfg) :
        /\ designated_root' =
             [designated_root EXCEPT ![s] = RootThrough(s, rp, cfg)]
        /\ root_path_cost' =
             [root_path_cost EXCEPT ![s] = CostThrough(s, rp, cfg)]
        /\ config' =
             Claim(s, cfg, RootThrough(s, rp, cfg), CostThrough(s, rp, cfg))
  BY DEF UpdateState
<1>2. Elects!Walk(RootThrough(s, rp, cfg), s, CostThrough(s, rp, cfg))
  <2>1. CASE rp = NoPort
    BY <2>1, EmptyWalk DEF RootThrough, CostThrough
  <2>2. CASE rp # NoPort
    <3> DEFINE r == <<s, rp>>
    <3>1. r \in Port /\ ~IsDesignated(r, cfg) /\ r[1] = s /\ cfg[r] \in Config
      BY <2>2, RootPortsMember DEF Ports
    <3>2. Elects!Walk(cfg[r].root, cfg[r].switch, cfg[r].cost)
      BY <3>1 DEF IsAWalk
    <3>3. <<cfg[r].switch, s>> \in Link
      BY <3>1 DEF IsHeard
    <3>4. cfg[r].root \in Switch /\ cfg[r].switch \in Switch /\ cfg[r].cost \in Nat
      BY <3>1 DEF Config
    <3>5. Elects!Walk(cfg[r].root, s, cfg[r].cost + 1)
      BY <3>2, <3>3, <3>4, LongerWalk
    <3>. QED  BY <2>2, <3>1, <3>5, ThroughKeepsOrder DEF RootThrough, CostThrough
  <2>. QED  BY <2>1, <2>2
<1>3. \A t \in Switch : Elects!Walk(designated_root'[t], t, root_path_cost'[t])
  <2>. TAKE t \in Switch
  <2>1. CASE t = s
    <3>1. designated_root'[t] = RootThrough(s, rp, cfg) /\ root_path_cost'[t] = CostThrough(s, rp, cfg)
      BY <1>1, <2>1 DEF TypeOK
    <3>. QED  BY <1>2, <2>1, <3>1
  <2>2. CASE t # s
    <3>1. designated_root'[t] = designated_root[t] /\ root_path_cost'[t] = root_path_cost[t]
      BY <1>1, <2>2 DEF TypeOK
    <3>. QED  BY <3>1
  <2>. QED  BY <2>1, <2>2
<1>4. ASSUME NEW p \in Port
      PROVE  IsAWalk(config'[p]) /\ IsHeard(p, config')
  <2> DEFINE own == Advert(p, RootThrough(s, rp, cfg), CostThrough(s, rp, cfg))
  <2>1. config'[p] = IF p[1] = s /\ Better(own, cfg[p]) THEN own ELSE cfg[p]
    BY <1>1 DEF Claim
  <2>2. own.switch = p[1] /\ own.port = p[2]
    BY DEF Advert
  <2>3. p[1] = s => IsAWalk(own)
    BY <1>2, AdvertIsAWalk
  <2>. HIDE DEF own
  <2>. QED  BY <2>1, <2>2, <2>3 DEF IsHeard, IsDesignated
<1>. QED  BY <1>3, <1>4

\* A switch that starts over claims only the walk of no hops to itself.
LEMMA FreshKeepsWalks ==
  ASSUME TypeOK, WalkInv, NEW s \in Switch, Fresh(s)
  PROVE  /\ \A t \in Switch : Elects!Walk(designated_root'[t], t, root_path_cost'[t])
         /\ \A p \in Port : IsAWalk(config'[p]) /\ IsHeard(p, config')
<1>1. ASSUME NEW t \in Switch
      PROVE  Elects!Walk(designated_root'[t], t, root_path_cost'[t])
  <2>1. CASE t = s
    <3>1. designated_root'[t] = s /\ root_path_cost'[t] = 0
      BY <2>1 DEF Fresh, TypeOK
    <3>. QED  BY <2>1, <3>1, EmptyWalk
  <2>2. CASE t # s
    <3>1. designated_root'[t] = designated_root[t] /\ root_path_cost'[t] = root_path_cost[t]
      BY <2>2 DEF Fresh, TypeOK
    <3>. QED  BY <3>1 DEF WalkInv, CostIsAWalk
  <2>. QED  BY <2>1, <2>2
<1>2. ASSUME NEW p \in Port
      PROVE  IsAWalk(config'[p]) /\ IsHeard(p, config')
  <2>1. CASE p[1] = s
    <3>1. config'[p] = Advert(p, s, 0)
      BY <2>1 DEF Fresh
    <3>2. IsDesignated(p, config')
      BY <3>1 DEF Advert, IsDesignated
    <3>. QED  BY <2>1, <3>1, <3>2, EmptyWalk, AdvertIsAWalk DEF IsHeard
  <2>2. CASE p[1] # s
    <3>1. config'[p] = config[p]
      BY <2>2 DEF Fresh
    <3>. QED  BY <3>1 DEF IsHeard, IsDesignated, WalkInv, CostIsAWalk
  <2>. QED  BY <2>1, <2>2
<1>. QED  BY <1>1, <1>2

\* When every switch starts, every cost is 0 and that of the switch itself.
LEMMA WalkInvStarts == Init => WalkInv
<1>. SUFFICES ASSUME Init PROVE WalkInv
  OBVIOUS
<1>1. \A s \in Switch : Elects!Walk(designated_root[s], s, root_path_cost[s])
  BY EmptyWalk DEF Init
<1>2. \A p \in Port : IsAWalk(config[p]) /\ IsHeard(p, config)
  <2>. TAKE p \in Port
  <2>1. config[p] = Advert(p, p[1], 0) /\ p[1] \in Switch
    BY PortIsPair DEF Init
  <2>2. IsDesignated(p, config)
    BY <2>1 DEF Advert, IsDesignated
  <2>. QED  BY <2>1, <2>2, EmptyWalk, AdvertIsAWalk DEF IsHeard
<1>3. \A w \in Wire : Len(wire[w]) = 0
  BY DEF Init
<1>. QED  BY <1>1, <1>2, <1>3 DEF WalkInv, CostIsAWalk

\* No step of the program makes up a cost.
LEMMA WalkInvStays ==
  ASSUME TypeOK, TypeOK', WalkInv, [Next]_vars
  PROVE  WalkInv'
<1> DEFINE Believed == \A t \in Switch : Elects!Walk(designated_root[t], t, root_path_cost[t])
           Stored == \A p \in Port : IsAWalk(config[p]) /\ IsHeard(p, config)
           Sent == \A w \in Wire : \A i \in 1..Len(wire[w]) :
                     IsAWalk(wire[w][i]) /\ wire[w][i].switch = w[1][1]
<1>1. Believed /\ Stored /\ Sent
  BY DEF WalkInv, CostIsAWalk
<1>2. SUFFICES Believed' /\ Stored' /\ Sent'
  BY DEF WalkInv, CostIsAWalk
<1>3. ASSUME UNCHANGED switchVars PROVE Believed' /\ Stored'
  BY <1>1, <1>3 DEF switchVars, IsHeard, IsDesignated
<1>. HIDE DEF Believed, Stored, Sent
<1>4. ASSUME NEW s \in Switch, Start(s) PROVE Believed' /\ Stored' /\ Sent'
  BY <1>1, <1>4, FreshKeepsWalks DEF Start, Believed, Stored, Sent
<1>5. ASSUME NEW s \in Switch, Stop(s) PROVE Believed' /\ Stored' /\ Sent'
  <2>1. Sent'
    BY <1>1, <1>5 DEF Stop, Sent
  <2>. QED  BY <1>5, <2>1, FreshKeepsWalks DEF Stop, Believed, Stored
<1>6. ASSUME NEW s \in Switch, Hello(s) PROVE Believed' /\ Stored' /\ Sent'
  <2>1. /\ DesignatedPorts(s, config) \in SUBSET Ports(s)
        /\ Send(s, DesignatedPorts(s, config), wire)
        /\ wire \in [Wire -> Seq(Config)]
    BY <1>6 DEF DesignatedPorts, Hello, TypeOK
  <2>2. Believed' /\ Stored'
    BY <1>3, <1>6 DEF Hello
  <2>3. Sent'
    BY <1>1, <2>1, <2>2, SendIsAWalk DEF Sent, Believed
  <2>. QED  BY <2>2, <2>3
<1>7. ASSUME NEW w \in Wire, Deliver(w) PROVE Believed' /\ Stored' /\ Sent'
  <2> DEFINE p == w[2]
             s == w[2][1]
             m == Head(wire[w])
  <2>1. p \in Port /\ w[1] \in Port /\ s \in Switch /\ p \in Ports(s)
    BY WireIsPair, PortIsPair DEF Ports
  <2>2. m \in Config /\ Without(w) \in [Wire -> Seq(Config)]
    BY <1>7, WithoutType DEF Deliver, TypeOK
  <2>3. /\ IsAWalk(m) /\ m.switch = w[1][1]
        /\ \A v \in Wire : \A i \in 1..Len(Without(w)[v]) :
             IsAWalk(Without(w)[v][i]) /\ Without(w)[v][i].switch = v[1][1]
    BY <1>7, WithoutIsAWalk DEF Deliver
  <2>4. CASE HandleSuperior(w)
    <3> DEFINE cfg == [config EXCEPT ![p] = m]
    <3>1. cfg \in [Port -> Config] /\ cfg[p] = m /\ \A q \in Port : q # p => cfg[q] = config[q]
      BY <2>1, <2>2 DEF TypeOK
    <3>2. UpdateState(s, cfg) /\ Send(s, DesignatedPorts(s, config'), Without(w))
      BY <2>4 DEF HandleSuperior
    <3>. HIDE DEF cfg, m
    <3>3. \A q \in Port : IsAWalk(cfg[q]) /\ IsHeard(q, cfg)
      <4>1. <<m.switch, p[1]>> \in Link
        BY <2>3 DEF Link
      <4>2. IsAWalk(cfg[p]) /\ IsHeard(p, cfg)
        BY <2>3, <3>1, <4>1 DEF IsHeard
      <4>3. \A q \in Port : q # p => IsAWalk(cfg[q]) /\ IsHeard(q, cfg)
        BY <1>1, <3>1 DEF Stored, IsHeard, IsDesignated
      <4>. QED  BY <4>2, <4>3
    <3>. HIDE DEF p, s
    <3>4. Believed' /\ Stored'
      BY <1>1, <2>1, <3>1, <3>2, <3>3, UpdateKeepsWalks DEF Believed, Stored
    <3>5. DesignatedPorts(s, config') \in SUBSET Ports(s)
      BY DEF DesignatedPorts
    <3>6. Elects!Walk(designated_root'[s], s, root_path_cost'[s])
      BY <2>1, <3>4 DEF Believed
    <3>7. Sent'
      BY <2>1, <2>2, <2>3, <3>2, <3>5, <3>6, SendIsAWalk DEF Sent
    <3>. QED  BY <3>4, <3>7
  <2>5. CASE HandleInferior(w)
    <3>1. UNCHANGED switchVars /\ Send(s, {p}, Without(w))
      BY <2>5 DEF HandleInferior
    <3>2. Believed' /\ Stored'
      BY <1>3, <3>1
    <3>3. {p} \in SUBSET Ports(s) /\ Elects!Walk(designated_root'[s], s, root_path_cost'[s])
      BY <2>1, <3>2 DEF Believed
    <3>. HIDE DEF p, s, m
    <3>4. Sent'
      BY <2>1, <2>2, <2>3, <3>1, <3>3, SendIsAWalk DEF Sent
    <3>. QED  BY <3>2, <3>4
  <2>6. CASE HandleKnown(w)
    <3>1. UNCHANGED switchVars /\ wire' = Without(w)
      BY <2>6 DEF HandleKnown
    <3>. QED  BY <1>3, <2>3, <3>1 DEF Sent
  <2>. QED  BY <1>7, <2>4, <2>5, <2>6 DEF Deliver, HandlePacket
<1>8. ASSUME NEW w \in Wire, Lose(w) PROVE Believed' /\ Stored' /\ Sent'
  <2>1. Sent'
    BY <1>8, WithoutIsAWalk DEF Lose, Sent
  <2>. QED  BY <1>3, <1>8, <2>1 DEF Lose
<1>9. CASE UNCHANGED vars
  BY <1>1, <1>3, <1>9 DEF vars, Sent
<1>. QED  BY <1>4, <1>5, <1>6, <1>7, <1>8, <1>9 DEF Next

\* In every network, whatever is lost, late or restarted, and even where a
\* switch hears itself: every cost that is believed, stored or sent is the
\* number of hops of a walk that exists.
THEOREM CostIsAlwaysAWalk == Spec => []CostIsAWalk
<1>1. Init => TypeOK /\ WalkInv
  BY InitIsTyped, WalkInvStarts
<1>2. TypeOK /\ WalkInv /\ [Next]_vars => (TypeOK /\ WalkInv)'
  BY TypeStep, WalkInvStays
<1>3. WalkInv => CostIsAWalk
  BY DEF WalkInv
<1>. QED  BY <1>1, <1>2, <1>3, PTL DEF Spec

-----------------------------------------------------------------------------
(***************************************************************************)
(* The refinement.  A handler moves the belief of its own switch to a walk *)
(* that is no worse: it adopts the walk, or stutters when root and cost    *)
(* stay as they were.                                                      *)
(***************************************************************************)

\* Start and Stop give a switch the belief in itself.
LEMMA FreshBelief ==
  ASSUME TypeOK, NEW s \in Switch, Fresh(s)
  PROVE  Belief' = [Belief EXCEPT ![s] = Elects!Itself(s)]
<1>1. \A t \in Switch : /\ designated_root'[t] = IF t = s THEN s ELSE designated_root[t]
                        /\ root_path_cost'[t] = IF t = s THEN 0 ELSE root_path_cost[t]
  BY DEF Fresh, TypeOK
<1>. QED  BY <1>1 DEF Belief, Elects!Itself

\* A superior Config: the switch of the port adopts a belief or keeps its own.
LEMMA SuperiorAdopts ==
  ASSUME NoSelfLoop, IInv, WalkInv', NEW w \in Wire, Deliver(w), HandleSuperior(w)
  PROVE  \/ Elects!Adopt(w[2][1])
         \/ UNCHANGED <<running, Belief>>
<1> DEFINE p == w[2]
           s == w[2][1]
           m == Head(wire[w])
<1>1. /\ p \in Port /\ s \in Switch /\ w[1][1] \in Switch /\ w[1][1] # p[1]
  BY WireIsPair, PortIsPair DEF NoSelfLoop
<1>2. m \in Config /\ Genuine(m, w[1][1])
  BY WithoutType, WithoutIsGenuine DEF Deliver, IInv, TypeOK
<1>3. Better(m, config[p]) /\ UpdateState(p[1], [config EXCEPT ![p] = m])
  BY DEF HandleSuperior
<1>. HIDE DEF m
<1>4. /\ \A t \in Switch \ {p[1]} : /\ designated_root'[t] = designated_root[t]
                                  /\ root_path_cost'[t] = root_path_cost[t]
      /\ NoWorse(Own(p)', Own(p))
  BY <1>1, <1>2, <1>3, UpdateAfterSuperior DEF IInv
<1>5. NoWorse(Belief'[s], Belief[s])
  BY <1>1, <1>4 DEF NoWorse, Own, Advert, Belief
<1>6. \A t \in Switch \ {s} : Belief'[t] = Belief[t]
  BY <1>4 DEF Belief
<1>7. /\ designated_root[s] \in Nat /\ root_path_cost[s] \in Nat
      /\ designated_root'[s] \in Nat /\ root_path_cost'[s] \in Nat
  <2>1. TypeOK'
    BY TypeStep DEF IInv, Next
  <2>. QED  BY <1>1, <2>1, SwitchAssumption DEF IInv, TypeOK
<1>8. Belief[s] = [root |-> designated_root[s], cost |-> root_path_cost[s]]
      /\ Belief'[s] = [root |-> designated_root'[s], cost |-> root_path_cost'[s]]
  BY <1>1 DEF Belief
<1>9. s \in running /\ UNCHANGED running
  BY DEF Deliver
<1>10. CASE Belief'[s] = Belief[s]
  <2>1. \A t \in Switch : Belief'[t] = Belief[t]
    BY <1>6, <1>10
  <2>2. Belief' = Belief
    BY <2>1 DEF Belief
  <2>. QED  BY <1>9, <2>2
<1>11. CASE Belief'[s] # Belief[s]
  <2>1. Elects!Improves(Belief'[s], Belief[s])
    BY <1>5, <1>7, <1>8, <1>11 DEF NoWorse, Elects!Improves
  <2>2. Elects!Walk(Belief'[s].root, s, Belief'[s].cost)
    BY <1>1, <1>8 DEF WalkInv, CostIsAWalk
  <2>. QED  BY <1>6, <1>9, <2>1, <2>2 DEF Elects!Adopt
<1>. QED  BY <1>10, <1>11

\* Every step is a step of the election or leaves it alone.
LEMMA StepElects ==
  ASSUME NoSelfLoop, IInv, WalkInv, [Next]_vars
  PROVE  [Elects!Next]_(Elects!vars)
<1>1. TypeOK /\ TypeOK'
  BY TypeStep DEF IInv
<1>2. WalkInv'
  BY <1>1, WalkInvStays
<1>3. ASSUME UNCHANGED <<designated_root, root_path_cost>> PROVE UNCHANGED Belief
  BY <1>3 DEF Belief
<1>4. ASSUME NEW s \in Switch, Start(s) PROVE Elects!Join(s)
  BY <1>1, <1>4, FreshBelief DEF Start, Elects!Join
<1>5. ASSUME NEW s \in Switch, Stop(s) PROVE Elects!Leave(s)
  BY <1>1, <1>5, FreshBelief DEF Stop, Elects!Leave
<1>6. ASSUME NEW s \in Switch, Hello(s) PROVE UNCHANGED Elects!vars
  BY <1>3, <1>6 DEF Hello, switchVars, Elects!vars
<1>7. ASSUME NEW w \in Wire, Deliver(w) PROVE Elects!Next \/ UNCHANGED Elects!vars
  <2>1. CASE HandleSuperior(w)
    <3>1. w[2][1] \in Switch
      BY WireIsPair, PortIsPair
    <3>2. Elects!Adopt(w[2][1]) \/ UNCHANGED <<running, Belief>>
      BY <1>2, <1>7, <2>1, SuperiorAdopts
    <3>. QED  BY <3>1, <3>2 DEF Elects!Next, Elects!vars
  <2>2. CASE HandleInferior(w) \/ HandleKnown(w)
    BY <1>3, <1>7, <2>2 DEF HandleInferior, HandleKnown, Deliver, switchVars, Elects!vars
  <2>. QED  BY <1>7, <2>1, <2>2 DEF Deliver, HandlePacket
<1>8. ASSUME NEW w \in Wire, Lose(w) PROVE UNCHANGED Elects!vars
  BY <1>3, <1>8 DEF Lose, switchVars, Elects!vars
<1>9. CASE UNCHANGED vars
  BY <1>3, <1>9 DEF vars, switchVars, Elects!vars
<1>. QED  BY <1>4, <1>5, <1>6, <1>7, <1>8, <1>9 DEF Next, Elects!Next

\* In a network where no switch hears itself, the program implements the
\* abstract election: a belief changes only when its process starts or ends,
\* or for a smaller root or a shorter way that really exists.
THEOREM ProgramElects ==
  ASSUME NoSelfLoop
  PROVE  Spec => ImplementsElection
<1>1. Init => Elects!Init
  BY DEF Init, Elects!Init, Elects!Itself, Belief
<1>2. Init => IInv /\ WalkInv
  BY InvariantStarts, WalkInvStarts
<1>3. IInv /\ WalkInv /\ [Next]_vars => (IInv /\ WalkInv)'
  BY InvariantStays, TypeStep, WalkInvStays DEF IInv
<1>4. IInv /\ WalkInv /\ [Next]_vars => [Elects!Next]_(Elects!vars)
  BY StepElects
<1>. QED  BY <1>1, <1>2, <1>3, <1>4, PTL DEF Spec, Elects!Spec, ImplementsElection

-----------------------------------------------------------------------------
(***************************************************************************)
(* Everyone is told.  A designated port q has told port p of its segment   *)
(* what it stands for, unless somebody's frame still waits to be read and  *)
(* answered by q, or p has heard nothing at all and will speak itself.     *)
(* The last alternative has to be stated for a p that nobody's frame waits *)
(* for: once such a frame makes p give up the segment, p falls silent, and *)
(* it is the same frame, unread or answered at q, that has p told.         *)
(***************************************************************************)

Told(w) ==
  \/ ~Better(Own(w[1]), config[w[2]])
  \/ \E i \in 1..Len(wire[w]) : wire[w][i] = Own(w[1])
  \/ hello_timer[w[1][1]]

HasUnread(p) == \E r \in Peers(p) : wire[<<r, p>>] # <<>>

WillSpeak(p) == IsDesignated(p, config) /\ hello_timer[p[1]] /\ ~HasUnread(p)

Concerns(w) == /\ w[1][1] \in running
               /\ w[2][1] \in running
               /\ IsDesignated(w[1], config)

IsTold(w) == Told(w) \/ HasUnread(w[1]) \/ WillSpeak(w[2])

\* Nothing waits for a process that does not run.
StoppedReadNothing == \A w \in Wire : w[2][1] \notin running => wire[w] = <<>>

ToldInv ==
  /\ StoppedReadNothing
  /\ losses = 0 => \A w \in Wire : Concerns(w) => IsTold(w)

\* Ports of one segment hear each other.
LEMMA PeersHearEachOther ==
  ASSUME NEW q \in Port, NEW p \in Peers(q)
  PROVE  /\ p \in Port /\ q \in Peers(p)
         /\ <<q, p>> \in Wire /\ <<p, q>> \in Wire
         /\ \A r \in Peers(q) : r # p => r \in Peers(p)
BY DEF Peers, Wire

\* The two ends of a wire.
LEMMA WireEnds ==
  ASSUME NEW w \in Wire
  PROVE  /\ w[1] \in Port /\ w[2] \in Peers(w[1])
         /\ w = <<w[1], w[2]>>
         /\ w[1][1] \in Switch /\ w[2][1] \in Switch
BY WireIsPair, PortIsPair DEF Wire

\* A Config that is not better than b is not better than what is better than b.
LEMMA NotBetterStays ==
  ASSUME NEW a \in Config, NEW b \in Config, NEW c \in Config,
         ~Better(a, b), c = b \/ Better(c, b)
  PROVE  ~Better(a, c)
BY BetterIsTransitive

\* No Config is better than itself.
LEMMA NotBetterThanItself ==
  ASSUME NEW a \in Config
  PROVE  ~Better(a, a)
BY ConfigFields DEF Better

\* A consistent switch that sends reaches every running peer of its ports,
\* with what it believes now.
LEMMA SendReaches ==
  ASSUME NEW s \in Switch, NEW ports \in SUBSET Ports(s),
         NEW queue \in [Wire -> Seq(Config)],
         \A p \in Port : Own(p)' \in Config,
         (designated_root'[s] = s) <=> (root_port'[s] = NoPort),
         Send(s, ports, queue)
  PROVE  \A w \in Wire :
           /\ w[1] \in ports /\ w[2][1] \in running =>
                /\ wire'[w] # <<>>
                /\ \E i \in 1..Len(wire'[w]) : wire'[w][i] = Own(w[1])'
           /\ ~(w[1] \in ports /\ w[2][1] \in running) => wire'[w] = queue[w]
           /\ queue[w] # <<>> => wire'[w] # <<>>
           /\ \A i \in 1..Len(queue[w]) : i \in 1..Len(wire'[w]) /\ wire'[w][i] = queue[w][i]
<1>1. wire' = [w \in Wire |->
                IF w[1] \in ports /\ w[2][1] \in running
                THEN Append(queue[w], Own(w[1])')
                ELSE queue[w]]
  BY DEF Send
<1>. TAKE w \in Wire
<1>2. CASE w[1] \in ports /\ w[2][1] \in running
  <2> DEFINE c == Own(w[1])'
  <2>1. c \in Config /\ queue[w] \in Seq(Config) /\ wire'[w] = Append(queue[w], c)
    BY <1>1, <1>2 DEF Ports
  <2>. HIDE DEF c
  <2>2. /\ Len(queue[w]) \in Nat /\ Len(wire'[w]) = Len(queue[w]) + 1
        /\ wire'[w][Len(queue[w]) + 1] = c
        /\ \A i \in 1..Len(queue[w]) : wire'[w][i] = queue[w][i]
    BY <2>1
  <2>3. wire'[w] # <<>>
    BY <2>1
  <2>4. \E i \in 1..Len(wire'[w]) : wire'[w][i] = c
    <3>1. Len(queue[w]) + 1 \in 1..Len(wire'[w])
      BY <2>2
    <3>. QED  BY <2>2, <3>1
  <2>5. \A i \in 1..Len(queue[w]) : i \in 1..Len(wire'[w]) /\ wire'[w][i] = queue[w][i]
    BY <2>2
  <2>. QED  BY <1>2, <2>3, <2>4, <2>5 DEF c
<1>3. CASE ~(w[1] \in ports /\ w[2][1] \in running)
  BY <1>1, <1>3
<1>. QED  BY <1>2, <1>3

\* A third port of their segment is heard by both ends of a wire.
LEMMA ThirdPort ==
  ASSUME NEW q \in Port, NEW p \in Peers(q), NEW r \in Peers(p), r # q
  PROVE  r \in Peers(q) /\ r \in Port /\ <<r, p>> \in Wire /\ <<r, q>> \in Wire
BY DEF Peers, Wire

\* What is left on the wires when one frame is taken.
LEMMA WhatIsLeft ==
  ASSUME TypeOK, NEW v \in Wire, wire[v] # <<>>
  PROVE  /\ Head(wire[v]) \in Config /\ Without(v) \in [Wire -> Seq(Config)]
         /\ \A w \in Wire : w # v => Without(v)[w] = wire[w]
         /\ \A i \in 1..Len(wire[v]) :
              \/ wire[v][i] = Head(wire[v])
              \/ i - 1 \in 1..Len(Without(v)[v]) /\ Without(v)[v][i - 1] = wire[v][i]
<1>1. wire[v] \in Seq(Config) /\ Without(v)[v] = Tail(wire[v])
  BY DEF TypeOK, Without
<1>2. \A w \in Wire : w # v => Without(v)[w] = wire[w]
  BY DEF TypeOK, Without
<1>3. ASSUME NEW i \in 1..Len(wire[v])
      PROVE  \/ wire[v][i] = Head(wire[v])
             \/ i - 1 \in 1..Len(Without(v)[v]) /\ Without(v)[v][i - 1] = wire[v][i]
  BY <1>1
<1>. QED  BY <1>2, <1>3, WithoutType DEF TypeOK

\* Told survives whatever leaves the frames sent and the owner of q alone, and
\* lets p only know better.
LEMMA ToldStays ==
  ASSUME TypeOK, TypeOK', DesignatedIsCurrent, NEW w \in Wire, Told(w),
         Own(w[1])' = Own(w[1]),
         config'[w[2]] = config[w[2]] \/ Better(config'[w[2]], config[w[2]]),
         hello_timer'[w[1][1]] = hello_timer[w[1][1]],
         \A i \in 1..Len(wire[w]) :
           \/ \E j \in 1..Len(wire'[w]) : wire'[w][j] = wire[w][i]
           \/ ~Better(wire[w][i], config'[w[2]])
  PROVE  Told(w)'
<1>1. w[1] \in Port /\ w[2] \in Port
  BY WireIsPair
<1>2. Own(w[1]) \in Config /\ config[w[2]] \in Config /\ config'[w[2]] \in Config
  BY <1>1, OwnIsNoBetter DEF TypeOK
<1>3. CASE ~Better(Own(w[1]), config[w[2]])
  BY <1>2, <1>3, NotBetterStays DEF Told
<1>4. CASE \E i \in 1..Len(wire[w]) : wire[w][i] = Own(w[1])
  BY <1>4 DEF Told
<1>5. CASE hello_timer[w[1][1]]
  BY <1>5 DEF Told
<1>. QED  BY <1>3, <1>4, <1>5 DEF Told

\* A process that starts or ends.
LEMMA FreshIsTold ==
  ASSUME NoSelfLoop, IInv, IInv', ToldInv, losses' = losses,
         NEW s \in Switch, Start(s) \/ Stop(s)
  PROVE  ToldInv'
<1>0. Fresh(s)
  BY DEF Start, Stop
<1>1. \A t \in Switch \ {s} : hello_timer'[t] = hello_timer[t]
  BY <1>0 DEF Fresh, IInv, TypeOK
<1>2. \A p \in Port : p[1] # s => /\ config'[p] = config[p]
                                  /\ Own(p)' = Own(p)
                                  /\ IsDesignated(p, config') <=> IsDesignated(p, config)
  <2>. SUFFICES ASSUME NEW p \in Port, p[1] # s
                PROVE  /\ config'[p] = config[p]
                       /\ Own(p)' = Own(p)
                       /\ IsDesignated(p, config') <=> IsDesignated(p, config)
    OBVIOUS
  <2>1. config'[p] = config[p]
    BY <1>0 DEF Fresh
  <2>2. designated_root'[p[1]] = designated_root[p[1]]
        /\ root_path_cost'[p[1]] = root_path_cost[p[1]]
    BY <1>0, PortIsPair DEF Fresh, IInv, TypeOK
  <2>. QED  BY <2>1, <2>2 DEF Own, IsDesignated
<1>3. \A w \in Wire : w[2][1] # s => wire'[w] = wire[w]
  BY DEF Start, Stop
<1>4. \A t \in Switch \ {s} : t \in running' <=> t \in running
  BY DEF Start, Stop
<1>5. StoppedReadNothing'
  <2>. SUFFICES ASSUME NEW w \in Wire, w[2][1] \notin running'
                PROVE  wire'[w] = <<>>
    BY DEF StoppedReadNothing
  <2>1. CASE Start(s)
    BY <2>1 DEF ToldInv, StoppedReadNothing, Start
  <2>2. CASE Stop(s)
    BY <2>2 DEF ToldInv, StoppedReadNothing, Stop
  <2>. QED  BY <2>1, <2>2
<1>6. ASSUME NEW w \in Wire, losses' = 0, Concerns(w)'
      PROVE  IsTold(w)'
  <2>1. /\ w[1] \in Port /\ w[2] \in Port /\ w[1][1] # w[2][1]
        /\ w[1][1] \in Switch /\ w[2][1] \in Switch
    BY WireIsPair, WireEnds DEF NoSelfLoop
  <2>2. CASE w[1][1] = s
    <3>1. hello_timer'[s] = TRUE
      BY <1>0 DEF Fresh, IInv, TypeOK
    <3>. QED  BY <2>2, <3>1 DEF IsTold, Told
  <2>3. CASE w[2][1] = s
    <3>1. Start(s)
      BY <1>6, <2>3 DEF Concerns, Stop
    <3>2. hello_timer'[s] = TRUE /\ config'[w[2]] = Advert(w[2], s, 0)
      BY <1>0, <2>1, <2>3 DEF Fresh, IInv, TypeOK
    <3>3. \A r \in Peers(w[2]) : wire'[<<r, w[2]>>] = <<>>
      <4>. TAKE r \in Peers(w[2])
      <4>1. <<r, w[2]>> \in Wire
        BY <2>1, PeersHearEachOther
      <4>. QED  BY <2>3, <3>1, <4>1 DEF Start, ToldInv, StoppedReadNothing
    <3>4. IsDesignated(w[2], config')
      BY <3>2 DEF IsDesignated, Advert
    <3>. QED  BY <2>3, <3>2, <3>3, <3>4 DEF IsTold, WillSpeak, HasUnread
  <2>4. CASE w[1][1] # s /\ w[2][1] # s
    <3>1. Concerns(w)
      BY <1>2, <1>4, <1>6, <2>1, <2>4 DEF Concerns
    <3>2. IsTold(w)
      BY <1>6, <3>1 DEF ToldInv
    <3>3. /\ \A r \in Peers(w[1]) : wire'[<<r, w[1]>>] = wire[<<r, w[1]>>]
          /\ \A r \in Peers(w[2]) : wire'[<<r, w[2]>>] = wire[<<r, w[2]>>]
      BY <1>3, <2>1, <2>4, PeersHearEachOther
    <3>4. HasUnread(w[1])' <=> HasUnread(w[1])
      BY <3>3 DEF HasUnread
    <3>5. HasUnread(w[2])' <=> HasUnread(w[2])
      BY <3>3 DEF HasUnread
    <3>6. Told(w) => Told(w)'
      BY <1>1, <1>2, <1>3, <2>1, <2>4 DEF Told
    <3>7. WillSpeak(w[2]) => WillSpeak(w[2])'
      BY <1>1, <1>2, <2>1, <2>4, <3>5 DEF WillSpeak
    <3>. QED  BY <3>2, <3>4, <3>6, <3>7 DEF IsTold
  <2>. QED  BY <2>2, <2>3, <2>4
<1>. QED  BY <1>5, <1>6 DEF ToldInv

\* The two facts SendReaches needs of the state after a handler.
LEMMA OwnIsConfig ==
  ASSUME TypeOK', RootConsistency'
  PROVE  /\ \A p \in Port : Own(p)' \in Config
         /\ \A s \in Switch : (designated_root'[s] = s) <=> (root_port'[s] = NoPort)
<1>1. ASSUME NEW p \in Port PROVE Own(p)' \in Config
  BY PortIsPair, AdvertType DEF Own, TypeOK
<1>. QED  BY <1>1 DEF RootConsistency

\* A hello.
LEMMA HelloIsTold ==
  ASSUME IInv, IInv', ToldInv, NEW s \in Switch, Hello(s)
  PROVE  ToldInv'
<1>1. /\ UNCHANGED <<running, switchVars, losses>>
      /\ DesignatedPorts(s, config) \in SUBSET Ports(s)
      /\ Send(s, DesignatedPorts(s, config), wire)
      /\ wire \in [Wire -> Seq(Config)]
  BY DEF Hello, DesignatedPorts, IInv, TypeOK
<1> DEFINE ports == DesignatedPorts(s, config)
<1>2. /\ \A p \in Port : Own(p)' \in Config
      /\ (designated_root'[s] = s) <=> (root_port'[s] = NoPort)
  BY OwnIsConfig DEF IInv, Consistent
<1>. HIDE DEF ports
<1>3. \A w \in Wire :
        /\ w[1] \in ports /\ w[2][1] \in running =>
             /\ wire'[w] # <<>>
             /\ \E i \in 1..Len(wire'[w]) : wire'[w][i] = Own(w[1])'
        /\ ~(w[1] \in ports /\ w[2][1] \in running) => wire'[w] = wire[w]
        /\ wire[w] # <<>> => wire'[w] # <<>>
        /\ \A i \in 1..Len(wire[w]) : i \in 1..Len(wire'[w]) /\ wire'[w][i] = wire[w][i]
  BY <1>1, <1>2, SendReaches DEF ports
<1>4. StoppedReadNothing'
  BY <1>1, <1>3 DEF ToldInv, StoppedReadNothing
<1>5. ASSUME NEW w \in Wire, losses' = 0, Concerns(w)'
      PROVE  IsTold(w)'
  <2>1. /\ w[1] \in Port /\ w[2] \in Port /\ w[2] \in Peers(w[1]) /\ w = <<w[1], w[2]>>
    BY WireIsPair, WireEnds
  <2>2. Concerns(w) /\ IsTold(w)
    BY <1>1, <1>5 DEF Concerns, switchVars, ToldInv
  <2>3. ASSUME Told(w) PROVE Told(w)'
    BY <1>1, <1>3, <2>3 DEF Told, Own, switchVars
  <2>4. ASSUME HasUnread(w[1]) PROVE HasUnread(w[1])'
    BY <1>3, <2>1, <2>4, PeersHearEachOther DEF HasUnread
  <2>5. ASSUME WillSpeak(w[2]) PROVE IsTold(w)'
    <3>1. CASE ~HasUnread(w[2])'
      BY <1>1, <2>5, <3>1 DEF IsTold, WillSpeak, IsDesignated, switchVars
    <3>2. CASE HasUnread(w[2])'
      <4>1. PICK r \in Peers(w[2]) : wire'[<<r, w[2]>>] # <<>>
        BY <3>2 DEF HasUnread
      <4>2. wire[<<r, w[2]>>] = <<>>
        BY <2>5 DEF WillSpeak, HasUnread
      <4>3. CASE r = w[1]
        <5>1. w[1] \in ports /\ w[2][1] \in running
          BY <1>3, <2>1, <4>1, <4>2, <4>3
        <5>. QED  BY <1>3, <5>1 DEF IsTold, Told
      <4>4. CASE r # w[1]
        <5>1. w[1][1] \in running
          BY <2>2 DEF Concerns
        <5>2. r \in Peers(w[1]) /\ <<r, w[2]>> \in Wire /\ <<r, w[1]>> \in Wire
          BY <2>1, <4>4, ThirdPort
        <5>3. r \in ports
          BY <1>3, <4>1, <4>2, <5>2
        <5>4. wire'[<<r, w[1]>>] # <<>>
          BY <1>3, <5>1, <5>2, <5>3
        <5>. QED  BY <5>2, <5>4 DEF IsTold, HasUnread
      <4>. QED  BY <4>3, <4>4
    <3>. QED  BY <3>1, <3>2
  <2>. QED  BY <2>2, <2>3, <2>4, <2>5 DEF IsTold
<1>. QED  BY <1>4, <1>5 DEF ToldInv

\* A frame that is not better, and that its reader does not answer.
LEMMA KnownIsTold ==
  ASSUME IInv, IInv', ToldInv, NEW v \in Wire, Deliver(v), HandleKnown(v)
  PROVE  ToldInv'
<1>1. /\ UNCHANGED <<running, switchVars, losses>>
      /\ wire' = Without(v) /\ wire[v] # <<>>
      /\ ~Better(Head(wire[v]), config[v[2]]) /\ ~IsDesignated(v[2], config)
  BY DEF Deliver, HandleKnown
<1>2. /\ \A w \in Wire : w # v => wire'[w] = wire[w]
      /\ \A i \in 1..Len(wire[v]) :
           \/ wire[v][i] = Head(wire[v])
           \/ i - 1 \in 1..Len(wire'[v]) /\ wire'[v][i - 1] = wire[v][i]
  BY <1>1, WhatIsLeft DEF IInv
<1>3. StoppedReadNothing'
  BY <1>1, <1>2 DEF Deliver, ToldInv, StoppedReadNothing
<1>4. ASSUME NEW w \in Wire, losses' = 0, Concerns(w)'
      PROVE  IsTold(w)'
  <2>1. /\ w[1] \in Port /\ w[2] \in Port
        /\ v[2] \in Port /\ v = <<v[1], v[2]>>
    BY WireIsPair
  <2>2. Concerns(w) /\ IsTold(w)
    BY <1>1, <1>4 DEF Concerns, switchVars, ToldInv
  <2>3. ASSUME Told(w) PROVE Told(w)'
    <3>1. \A i \in 1..Len(wire[w]) :
            \/ \E j \in 1..Len(wire'[w]) : wire'[w][j] = wire[w][i]
            \/ ~Better(wire[w][i], config'[w[2]])
      BY <1>1, <1>2 DEF switchVars
    <3>2. /\ Own(w[1])' = Own(w[1]) /\ config'[w[2]] = config[w[2]]
          /\ hello_timer'[w[1][1]] = hello_timer[w[1][1]]
      BY <1>1 DEF switchVars, Own
    <3>3. TypeOK /\ TypeOK' /\ DesignatedIsCurrent
      BY DEF IInv, Consistent
    <3>. QED  BY <2>3, <3>1, <3>2, <3>3, ToldStays
  <2>4. ASSUME HasUnread(w[1]) PROVE HasUnread(w[1])'
    <3>1. PICK r \in Peers(w[1]) : wire[<<r, w[1]>>] # <<>>
      BY <2>4 DEF HasUnread
    <3>2. <<r, w[1]>> \in Wire
      BY <2>1, PeersHearEachOther
    <3>3. <<r, w[1]>> # v
      BY <1>1, <2>1, <2>2 DEF Concerns
    <3>. QED  BY <1>2, <3>1, <3>2, <3>3 DEF HasUnread
  <2>5. ASSUME WillSpeak(w[2]) PROVE WillSpeak(w[2])'
    <3>1. ~HasUnread(w[2])'
      <4>. SUFFICES ASSUME NEW r \in Peers(w[2]) PROVE wire'[<<r, w[2]>>] = <<>>
        BY DEF HasUnread
      <4>1. <<r, w[2]>> \in Wire /\ wire[<<r, w[2]>>] = <<>>
        BY <2>1, <2>5, PeersHearEachOther DEF WillSpeak, HasUnread
      <4>. QED  BY <1>1, <1>2, <4>1
    <3>. QED  BY <1>1, <2>5, <3>1 DEF WillSpeak, IsDesignated, switchVars
  <2>. QED  BY <2>2, <2>3, <2>4, <2>5 DEF IsTold
<1>. QED  BY <1>3, <1>4 DEF ToldInv

\* A frame that is not better, and that the designated port answers.
LEMMA InferiorIsTold ==
  ASSUME IInv, IInv', ToldInv, NEW v \in Wire, Deliver(v), HandleInferior(v)
  PROVE  ToldInv'
<1> DEFINE s == v[2][1]
<1>1. /\ UNCHANGED <<running, switchVars, losses>>
      /\ Send(s, {v[2]}, Without(v)) /\ wire[v] # <<>>
      /\ ~Better(Head(wire[v]), config[v[2]])
      /\ v[2] \in Port /\ v = <<v[1], v[2]>> /\ s \in Switch /\ s \in running
      /\ {v[2]} \in SUBSET Ports(s)
  BY WireIsPair, WireEnds DEF Deliver, HandleInferior, Ports
<1>2. /\ \A p \in Port : Own(p)' \in Config
      /\ (designated_root'[s] = s) <=> (root_port'[s] = NoPort)
  BY <1>1, OwnIsConfig DEF IInv, Consistent
<1>3. /\ Without(v) \in [Wire -> Seq(Config)]
      /\ \A w \in Wire : w # v => Without(v)[w] = wire[w]
      /\ \A i \in 1..Len(wire[v]) :
           \/ wire[v][i] = Head(wire[v])
           \/ i - 1 \in 1..Len(Without(v)[v]) /\ Without(v)[v][i - 1] = wire[v][i]
  BY <1>1, WhatIsLeft DEF IInv
<1>. HIDE DEF s
<1>4. \A w \in Wire :
        /\ w[1] \in {v[2]} /\ w[2][1] \in running =>
             /\ wire'[w] # <<>>
             /\ \E i \in 1..Len(wire'[w]) : wire'[w][i] = Own(w[1])'
        /\ ~(w[1] \in {v[2]} /\ w[2][1] \in running) => wire'[w] = Without(v)[w]
        /\ Without(v)[w] # <<>> => wire'[w] # <<>>
        /\ \A i \in 1..Len(Without(v)[w]) :
             i \in 1..Len(wire'[w]) /\ wire'[w][i] = Without(v)[w][i]
  BY <1>1, <1>2, <1>3, SendReaches
<1>5. StoppedReadNothing'
  <2>. SUFFICES ASSUME NEW w \in Wire, w[2][1] \notin running
                PROVE  wire'[w] = <<>>
    BY <1>1 DEF StoppedReadNothing
  <2>1. w # v
    BY <1>1 DEF s
  <2>. QED  BY <1>3, <1>4, <2>1 DEF ToldInv, StoppedReadNothing
<1>6. ASSUME NEW w \in Wire, losses' = 0, Concerns(w)'
      PROVE  IsTold(w)'
  <2>1. /\ w[1] \in Port /\ w[2] \in Port /\ w[2] \in Peers(w[1]) /\ w = <<w[1], w[2]>>
    BY WireIsPair, WireEnds
  <2>2. Concerns(w) /\ IsTold(w)
    BY <1>1, <1>6 DEF Concerns, switchVars, ToldInv
  <2>3. CASE w[1] = v[2]
    BY <1>4, <2>2, <2>3 DEF Concerns, IsTold, Told
  <2>4. CASE w[1] # v[2]
    <3>1. ASSUME Told(w) PROVE Told(w)'
      <4>1. \A i \in 1..Len(wire[w]) :
              \/ \E j \in 1..Len(wire'[w]) : wire'[w][j] = wire[w][i]
              \/ ~Better(wire[w][i], config'[w[2]])
        <5>. TAKE i \in 1..Len(wire[w])
        <5>1. CASE w # v
          BY <1>3, <1>4, <5>1
        <5>2. CASE w = v
          BY <1>1, <1>3, <1>4, <5>2 DEF switchVars
        <5>. QED  BY <5>1, <5>2
      <4>2. /\ Own(w[1])' = Own(w[1]) /\ config'[w[2]] = config[w[2]]
            /\ hello_timer'[w[1][1]] = hello_timer[w[1][1]]
        BY <1>1 DEF switchVars, Own
      <4>3. TypeOK /\ TypeOK' /\ DesignatedIsCurrent
        BY DEF IInv, Consistent
      <4>. QED  BY <3>1, <4>1, <4>2, <4>3, ToldStays
    <3>2. ASSUME HasUnread(w[1]) PROVE HasUnread(w[1])'
      <4>1. PICK r \in Peers(w[1]) : wire[<<r, w[1]>>] # <<>>
        BY <3>2 DEF HasUnread
      <4>2. <<r, w[1]>> \in Wire
        BY <2>1, PeersHearEachOther
      <4>3. <<r, w[1]>> # v
        BY <1>1, <2>1, <2>4
      <4>. QED  BY <1>3, <1>4, <4>1, <4>2, <4>3 DEF HasUnread
    <3>3. ASSUME WillSpeak(w[2]) PROVE IsTold(w)'
      <4>1. CASE ~HasUnread(w[2])'
        BY <1>1, <3>3, <4>1 DEF IsTold, WillSpeak, IsDesignated, switchVars
      <4>2. CASE HasUnread(w[2])'
        <5>1. PICK r \in Peers(w[2]) : wire'[<<r, w[2]>>] # <<>>
          BY <4>2 DEF HasUnread
        <5>2. <<r, w[2]>> \in Wire /\ wire[<<r, w[2]>>] = <<>>
          BY <2>1, <3>3, PeersHearEachOther DEF WillSpeak, HasUnread
        <5>3. Without(v)[<<r, w[2]>>] = <<>>
          BY <1>1, <1>3, <5>2
        <5>4. r # w[1]
          BY <1>4, <2>4, <5>1, <5>2, <5>3
        <5>5. w[1][1] \in running
          BY <2>2 DEF Concerns
        <5>6. r \in Peers(w[1]) /\ <<r, w[1]>> \in Wire
          BY <2>1, <5>4, ThirdPort
        <5>7. r = v[2]
          BY <1>4, <5>1, <5>2, <5>3
        <5>8. wire'[<<r, w[1]>>] # <<>>
          BY <1>4, <5>5, <5>6, <5>7
        <5>. QED  BY <5>6, <5>8 DEF IsTold, HasUnread
      <4>. QED  BY <4>1, <4>2
    <3>. QED  BY <2>2, <3>1, <3>2, <3>3 DEF IsTold
  <2>. QED  BY <2>3, <2>4
<1>. QED  BY <1>5, <1>6 DEF ToldInv

\* What a superior Config changes on the ports: they know better, and only the
\* port it came in on ceases to be designated.
LEMMA SuperiorImproves ==
  ASSUME NoSelfLoop, IInv, TypeOK', NEW v \in Wire, wire[v] # <<>>, HandleSuperior(v),
         NEW p, p = v[2], NEW s, s = p[1], NEW m, m = Head(wire[v])
  PROVE  /\ \A q \in Port : q[1] # s =>
              /\ config'[q] = config[q] /\ Own(q)' = Own(q)
              /\ hello_timer'[q[1]] = hello_timer[q[1]]
              /\ IsDesignated(q, config') <=> IsDesignated(q, config)
         /\ \A q \in Port : config'[q] = config[q] \/ Better(config'[q], config[q])
         /\ \A q \in Ports(s) : q # p /\ IsDesignated(q, config) => IsDesignated(q, config')
         /\ ~Better(m, config'[p])
<1> DEFINE cfg == [config EXCEPT ![p] = m]
<1>1. /\ p \in Port /\ s \in Switch /\ v[1][1] \in Switch /\ v[1][1] # s
      /\ m \in Config /\ Better(m, config[p]) /\ config \in [Port -> Config]
  BY WireIsPair, WireEnds, WithoutType DEF IInv, TypeOK, HandleSuperior, NoSelfLoop
<1>2. UpdateState(s, cfg) /\ Genuine(m, v[1][1])
  BY WithoutIsGenuine DEF IInv, HandleSuperior
<1>3. /\ cfg \in [Port -> Config] /\ cfg[p] = m
      /\ \A q \in Port : q # p => cfg[q] = config[q]
  BY <1>1
<1>. HIDE DEF cfg
<1>4. PICK root, cost : config' = Claim(s, cfg, root, cost)
  BY <1>2 DEF UpdateState
<1>5. \A t \in Switch \ {s} : /\ designated_root'[t] = designated_root[t]
                             /\ root_path_cost'[t] = root_path_cost[t]
                             /\ hello_timer'[t] = hello_timer[t]
  BY <1>1, <1>2, UpdateAfterSuperior DEF IInv, cfg
<1>6. ASSUME NEW q \in Port
      PROVE  \/ config'[q] = cfg[q]
             \/ /\ q[1] = s /\ Better(config'[q], cfg[q])
                /\ config'[q] = Advert(q, root, cost)
  BY <1>4 DEF Claim
<1>7. ASSUME NEW q \in Port, q[1] # s
      PROVE  /\ config'[q] = config[q] /\ Own(q)' = Own(q)
             /\ hello_timer'[q[1]] = hello_timer[q[1]]
             /\ IsDesignated(q, config') <=> IsDesignated(q, config)
  <2>1. config'[q] = config[q]
    BY <1>3, <1>6, <1>7
  <2>2. q[1] \in Switch \ {s}
    BY <1>7, PortIsPair
  <2>. QED  BY <1>5, <2>1, <2>2 DEF Own, IsDesignated
<1>8. ASSUME NEW q \in Port
      PROVE  config'[q] = config[q] \/ Better(config'[q], config[q])
  <2>1. /\ config[q] \in Config /\ cfg[q] \in Config /\ config'[q] \in Config
        /\ cfg[q] = config[q] \/ Better(cfg[q], config[q])
    BY <1>1, <1>3 DEF IInv, TypeOK
  <2>. QED  BY <1>6, <2>1, BetterIsTransitive
<1>9. ASSUME NEW q \in Ports(s), q # p, IsDesignated(q, config)
      PROVE  IsDesignated(q, config')
  <2>1. q \in Port
    BY DEF Ports
  <2>2. config'[q] = config[q] \/ config'[q] = Advert(q, root, cost)
    BY <1>3, <1>6, <1>9, <2>1
  <2>. QED  BY <1>9, <2>2 DEF IsDesignated, Advert
<1>10. ~Better(m, config'[p])
  <2>1. config'[p] \in Config /\ (config'[p] = m \/ Better(config'[p], m))
    BY <1>1, <1>3, <1>6 DEF TypeOK
  <2>. QED  BY <1>1, <2>1, NotBetterThanItself, NotBetterStays
<1>. QED  BY <1>7, <1>8, <1>9, <1>10

\* A frame that is better: the switch looks at all its ports again, and sends
\* on those where it is designated.
LEMMA SuperiorIsTold ==
  ASSUME NoSelfLoop, IInv, IInv', ToldInv, NEW v \in Wire, Deliver(v), HandleSuperior(v)
  PROVE  ToldInv'
<1> DEFINE p == v[2]
           s == p[1]
           m == Head(wire[v])
           ports == DesignatedPorts(s, config')
<1>1. /\ UNCHANGED <<running, losses>>
      /\ Send(s, ports, Without(v)) /\ wire[v] # <<>>
      /\ p \in Port /\ v = <<v[1], p>> /\ v[1] \in Peers(p) /\ s \in Switch /\ s \in running
      /\ ports \in SUBSET Ports(s)
  BY WireIsPair, WireEnds, PeersHearEachOther DEF Deliver, HandleSuperior, DesignatedPorts
<1>2. /\ \A q \in Port : Own(q)' \in Config
      /\ (designated_root'[s] = s) <=> (root_port'[s] = NoPort)
  BY <1>1, OwnIsConfig DEF IInv, Consistent
<1>3. /\ Without(v) \in [Wire -> Seq(Config)]
      /\ \A w \in Wire : w # v => Without(v)[w] = wire[w]
      /\ \A i \in 1..Len(wire[v]) :
           \/ wire[v][i] = m
           \/ i - 1 \in 1..Len(Without(v)[v]) /\ Without(v)[v][i - 1] = wire[v][i]
  BY <1>1, WhatIsLeft DEF IInv
<1>4. /\ \A q \in Port : q[1] # s =>
           /\ config'[q] = config[q] /\ Own(q)' = Own(q)
           /\ hello_timer'[q[1]] = hello_timer[q[1]]
           /\ IsDesignated(q, config') <=> IsDesignated(q, config)
      /\ \A q \in Port : config'[q] = config[q] \/ Better(config'[q], config[q])
      /\ \A q \in Ports(s) : q # p /\ IsDesignated(q, config) => IsDesignated(q, config')
      /\ ~Better(m, config'[p])
  BY <1>1, SuperiorImproves DEF IInv
<1>. HIDE DEF p, s, m
<1>5. \A q \in Ports(s) : IsDesignated(q, config') => q \in ports
  BY DEF DesignatedPorts
<1>. HIDE DEF ports
<1>6. \A w \in Wire :
        /\ w[1] \in ports /\ w[2][1] \in running =>
             /\ wire'[w] # <<>>
             /\ \E i \in 1..Len(wire'[w]) : wire'[w][i] = Own(w[1])'
        /\ ~(w[1] \in ports /\ w[2][1] \in running) => wire'[w] = Without(v)[w]
        /\ Without(v)[w] # <<>> => wire'[w] # <<>>
        /\ \A i \in 1..Len(Without(v)[w]) :
             i \in 1..Len(wire'[w]) /\ wire'[w][i] = Without(v)[w][i]
  BY <1>1, <1>2, <1>3, SendReaches
<1>7. StoppedReadNothing'
  <2>. SUFFICES ASSUME NEW w \in Wire, w[2][1] \notin running
                PROVE  wire'[w] = <<>>
    BY <1>1 DEF StoppedReadNothing
  <2>1. w # v
    BY <1>1 DEF s, p
  <2>. QED  BY <1>3, <1>6, <2>1 DEF ToldInv, StoppedReadNothing
<1>8. ASSUME NEW w \in Wire, losses' = 0, Concerns(w)'
      PROVE  IsTold(w)'
  <2>1. /\ w[1] \in Port /\ w[2] \in Port /\ w[2] \in Peers(w[1]) /\ w = <<w[1], w[2]>>
        /\ w[1] \in Peers(w[2]) /\ <<w[2], w[1]>> \in Wire
    BY WireIsPair, WireEnds, PeersHearEachOther
  <2>2. w[1][1] \in running /\ w[2][1] \in running /\ IsDesignated(w[1], config')
    BY <1>1, <1>8 DEF Concerns
  <2>3. CASE w[1][1] = s
    <3>1. w[1] \in ports
      BY <1>5, <2>1, <2>2, <2>3 DEF Ports
    <3>. QED  BY <1>6, <2>2, <3>1 DEF IsTold, Told
  <2>4. CASE w[1][1] # s
    <3>1. IsDesignated(w[1], config) /\ losses = 0
      BY <1>1, <1>4, <1>8, <2>1, <2>2, <2>4
    <3>2. IsTold(w)
      BY <2>2, <3>1 DEF ToldInv, Concerns
    <3>3. ASSUME Told(w) PROVE Told(w)'
      <4>1. \A i \in 1..Len(wire[w]) :
              \/ \E j \in 1..Len(wire'[w]) : wire'[w][j] = wire[w][i]
              \/ ~Better(wire[w][i], config'[w[2]])
        <5>. TAKE i \in 1..Len(wire[w])
        <5>1. CASE w # v
          BY <1>3, <1>6, <5>1
        <5>2. CASE w = v
          <6>1. CASE wire[v][i] = m
            BY <1>4, <5>2, <6>1 DEF p
          <6>2. CASE i - 1 \in 1..Len(Without(v)[v]) /\ Without(v)[v][i - 1] = wire[v][i]
            BY <1>6, <5>2, <6>2
          <6>. QED  BY <1>3, <5>2, <6>1, <6>2
        <5>. QED  BY <5>1, <5>2
      <4>2. /\ Own(w[1])' = Own(w[1])
            /\ config'[w[2]] = config[w[2]] \/ Better(config'[w[2]], config[w[2]])
            /\ hello_timer'[w[1][1]] = hello_timer[w[1][1]]
        BY <1>4, <2>1, <2>4
      <4>3. TypeOK /\ TypeOK' /\ DesignatedIsCurrent
        BY DEF IInv, Consistent
      <4>. QED  BY <3>3, <4>1, <4>2, <4>3, ToldStays
    <3>4. ASSUME HasUnread(w[1]) PROVE HasUnread(w[1])'
      <4>1. PICK r \in Peers(w[1]) : wire[<<r, w[1]>>] # <<>>
        BY <3>4 DEF HasUnread
      <4>2. <<r, w[1]>> \in Wire
        BY <2>1, PeersHearEachOther
      <4>3. <<r, w[1]>> # v
        BY <2>1, <2>4 DEF s, p
      <4>. QED  BY <1>3, <1>6, <4>1, <4>2, <4>3 DEF HasUnread
    <3>5. ASSUME WillSpeak(w[2]) PROVE IsTold(w)'
      <4>1. CASE w[2][1] # s /\ ~HasUnread(w[2])'
        BY <1>4, <2>1, <3>5, <4>1 DEF IsTold, WillSpeak
      <4>2. CASE w[2][1] # s /\ HasUnread(w[2])'
        <5>1. PICK r \in Peers(w[2]) : wire'[<<r, w[2]>>] # <<>>
          BY <4>2 DEF HasUnread
        <5>2. <<r, w[2]>> \in Wire /\ wire[<<r, w[2]>>] = <<>>
          BY <2>1, <3>5, PeersHearEachOther DEF WillSpeak, HasUnread
        <5>3. Without(v)[<<r, w[2]>>] = <<>>
          BY <1>1, <1>3, <5>2
        <5>4. r \in ports
          BY <1>6, <5>1, <5>2, <5>3
        <5>5. r # w[1]
          BY <1>1, <2>4, <5>4 DEF Ports
        <5>6. r \in Peers(w[1]) /\ <<r, w[1]>> \in Wire
          BY <2>1, <5>5, ThirdPort
        <5>7. wire'[<<r, w[1]>>] # <<>>
          BY <1>6, <2>2, <5>4, <5>6
        <5>. QED  BY <5>6, <5>7 DEF IsTold, HasUnread
      <4>3. CASE w[2][1] = s
        <5>1. w[2] # p
          <6>1. wire[<<v[1], p>>] # <<>>
            BY <1>1
          <6>. QED  BY <1>1, <3>5, <6>1 DEF WillSpeak, HasUnread
        <5>2. w[2] \in ports
          BY <1>4, <1>5, <2>1, <3>5, <4>3, <5>1 DEF WillSpeak, Ports
        <5>3. wire'[<<w[2], w[1]>>] # <<>>
          BY <1>6, <2>1, <2>2, <5>2
        <5>. QED  BY <2>1, <5>3 DEF IsTold, HasUnread
      <4>. QED  BY <4>1, <4>2, <4>3
    <3>. QED  BY <3>2, <3>3, <3>4, <3>5 DEF IsTold
  <2>. QED  BY <2>3, <2>4
<1>. QED  BY <1>7, <1>8 DEF ToldInv

\* Everyone is told when the processes start, and stays told.
LEMMA ToldInvStarts == Init => ToldInv
BY DEF Init, ToldInv, StoppedReadNothing, Concerns

\* No step lets a neighbour miss a claim, until a frame is lost.
LEMMA ToldInvStays ==
  ASSUME NoSelfLoop, IInv, IInv', ToldInv, [Next]_vars
  PROVE  ToldInv'
<1>1. ASSUME NEW s \in Switch, Start(s) PROVE ToldInv'
  BY <1>1, FreshIsTold DEF Start
<1>2. ASSUME NEW s \in Switch, Stop(s) PROVE ToldInv'
  BY <1>2, FreshIsTold DEF Stop
<1>3. ASSUME NEW s \in Switch, Hello(s) PROVE ToldInv'
  BY <1>3, HelloIsTold
<1>4. ASSUME NEW w \in Wire, Deliver(w) PROVE ToldInv'
  <2>1. CASE HandleSuperior(w)
    BY <1>4, <2>1, SuperiorIsTold
  <2>2. CASE HandleInferior(w)
    BY <1>4, <2>2, InferiorIsTold
  <2>3. CASE HandleKnown(w)
    BY <1>4, <2>3, KnownIsTold
  <2>. QED  BY <1>4, <2>1, <2>2, <2>3 DEF Deliver, HandlePacket
<1>5. ASSUME NEW w \in Wire, Lose(w) PROVE ToldInv'
  <2>1. losses' # 0
    BY <1>5 DEF Lose, IInv, TypeOK
  <2>2. StoppedReadNothing'
    <3>1. \A x \in Wire : x # w => wire'[x] = wire[x]
      BY <1>5, WhatIsLeft DEF Lose, IInv
    <3>2. w[2][1] \in running
      BY <1>5 DEF Lose, ToldInv, StoppedReadNothing
    <3>. QED  BY <1>5, <3>1, <3>2 DEF Lose, ToldInv, StoppedReadNothing
  <2>. QED  BY <2>1, <2>2 DEF ToldInv
<1>6. CASE UNCHANGED vars
  BY <1>6 DEF vars, switchVars, ToldInv, StoppedReadNothing, Concerns, IsTold, Told,
              WillSpeak, HasUnread, IsDesignated, Own
<1>. QED  BY <1>1, <1>2, <1>3, <1>4, <1>5, <1>6 DEF Next

\* What a designated port stands for is known, on its way, or will be said on
\* every segment, whatever the order of the frames, as long as none is lost:
\* the answers of stp_port_handle_packet and the Configs that follow
\* stp_update_state leave nobody out before the hellos end.
THEOREM EveryoneIsAlwaysTold ==
  ASSUME NoSelfLoop
  PROVE  Spec => []EveryoneIsTold
<1>1. Init => IInv /\ ToldInv
  BY InvariantStarts, ToldInvStarts
<1>2. IInv /\ ToldInv /\ [Next]_vars => IInv' /\ ToldInv'
  BY InvariantStays, ToldInvStays
<1>3. ToldInv => EveryoneIsTold
  <2>. SUFFICES ASSUME ToldInv, losses = 0, NEW w \in Wire, Concerns(w)
                PROVE  Known(w)
    BY DEF EveryoneIsTold, Concerns
  <2>. QED  BY DEF ToldInv, IsTold, Told, WillSpeak, HasUnread, Known
<1>. QED  BY <1>1, <1>2, <1>3, PTL DEF Spec

-----------------------------------------------------------------------------
(***************************************************************************)
(* Whose word a port keeps: its own switch's, or that of another port of   *)
(* its segment.                                                            *)
(***************************************************************************)

Names(c, q) == c.switch = q[1] /\ c.port = q[2]

SendersAreNamed ==
  /\ \A p \in Port : \E q \in Peers(p) \cup {p} : Names(config[p], q)
  /\ \A w \in Wire : \A i \in 1..Len(wire[w]) : Names(wire[w][i], w[1])

\* What is on a wire after sending was there before or is the sender's own.
LEMMA SentIsOwn ==
  ASSUME NEW s \in Switch, NEW ports \in SUBSET Ports(s),
         NEW queue \in [Wire -> Seq(Config)], Send(s, ports, queue),
         NEW w \in Wire, NEW i \in 1..Len(wire'[w])
  PROVE  \/ wire'[w][i] = Own(w[1])'
         \/ \E j \in 1..Len(queue[w]) : wire'[w][i] = queue[w][j]
<1>1. queue[w] \in Seq(Config)
  OBVIOUS
<1>2. CASE wire'[w] = queue[w]
  BY <1>2
<1>3. CASE wire'[w] = Append(queue[w], Own(w[1])')
  <2>1. i = Len(queue[w]) + 1 => wire'[w][i] = Own(w[1])'
    BY <1>1, <1>3
  <2>2. i # Len(queue[w]) + 1 => i \in 1..Len(queue[w]) /\ wire'[w][i] = queue[w][i]
    BY <1>1, <1>3
  <2>. QED  BY <2>1, <2>2
<1>. QED  BY <1>2, <1>3 DEF Send

\* What is left on a wire was there before.
LEMMA LeftWasThere ==
  ASSUME TypeOK, NEW v \in Wire, wire[v] # <<>>,
         NEW w \in Wire, NEW i \in 1..Len(Without(v)[w])
  PROVE  \E j \in 1..Len(wire[w]) : Without(v)[w][i] = wire[w][j]
<1>1. CASE w = v
  <2>1. wire[v] \in Seq(Config) /\ Without(v)[w] = Tail(wire[v])
    BY <1>1 DEF TypeOK, Without
  <2>2. i + 1 \in 1..Len(wire[w]) /\ Without(v)[w][i] = wire[w][i + 1]
    BY <1>1, <2>1
  <2>. QED  BY <2>2
<1>2. CASE w # v
  BY <1>2 DEF TypeOK, Without
<1>. QED  BY <1>1, <1>2

\* A switch names itself in what it advertises.
LEMMA AdvertNames ==
  ASSUME NEW p \in Port, NEW root, NEW cost
  PROVE  Names(Advert(p, root, cost), p)
BY DEF Advert, Names

\* Every Config keeps the name of a port of the segment it is known on.
LEMMA SendersStayNamed ==
  ASSUME TypeOK, SendersAreNamed, [Next]_vars
  PROVE  SendersAreNamed'
<1> DEFINE Kept == \A p \in Port : \E q \in Peers(p) \cup {p} : Names(config[p], q)
           Sent == \A w \in Wire : \A i \in 1..Len(wire[w]) : Names(wire[w][i], w[1])
<1>1. Kept /\ Sent
  BY DEF SendersAreNamed
<1>2. SUFFICES Kept' /\ Sent'
  BY DEF SendersAreNamed
<1>3. ASSUME NEW s \in Switch, NEW ports \in SUBSET Ports(s),
             NEW queue \in [Wire -> Seq(Config)], Send(s, ports, queue),
             \A w \in Wire : \A i \in 1..Len(queue[w]) : Names(queue[w][i], w[1])
      PROVE  Sent'
  <2>. SUFFICES ASSUME NEW w \in Wire, NEW i \in 1..Len(wire'[w])
                PROVE  Names(wire'[w][i], w[1])
    OBVIOUS
  <2>1. Names(Own(w[1])', w[1])
    BY WireIsPair, AdvertNames DEF Own
  <2>. QED  BY <1>3, <2>1, SentIsOwn
<1>4. ASSUME NEW v \in Wire, wire[v] # <<>>
      PROVE  /\ Without(v) \in [Wire -> Seq(Config)]
             /\ \A w \in Wire : \A i \in 1..Len(Without(v)[w]) :
                  Names(Without(v)[w][i], w[1])
             /\ Head(wire[v]) \in Config /\ Names(Head(wire[v]), v[1])
  <2>1. wire[v] \in Seq(Config)
    BY DEF TypeOK
  <2>2. 1 \in 1..Len(wire[v]) /\ Head(wire[v]) = wire[v][1]
    BY <1>4, <2>1
  <2>. QED  BY <1>1, <1>4, <2>2, LeftWasThere, WithoutType DEF TypeOK
<1>5. ASSUME NEW s \in Switch, Start(s) \/ Stop(s) PROVE Kept' /\ Sent'
  <2>1. ASSUME NEW p \in Port PROVE \E q \in Peers(p) \cup {p} : Names(config'[p], q)
    <3>1. config'[p] = Advert(p, s, 0) \/ config'[p] = config[p]
      BY <1>5 DEF Start, Stop, Fresh
    <3>. QED  BY <1>1, <3>1, AdvertNames
  <2>2. \A w \in Wire : wire'[w] = wire[w] \/ wire'[w] = <<>>
    BY <1>5 DEF Start, Stop
  <2>3. Sent'
    BY <1>1, <2>2
  <2>. QED  BY <2>1, <2>3
<1>6. ASSUME NEW s \in Switch, Hello(s) PROVE Kept' /\ Sent'
  <2>1. /\ DesignatedPorts(s, config) \in SUBSET Ports(s)
        /\ Send(s, DesignatedPorts(s, config), wire)
        /\ wire \in [Wire -> Seq(Config)]
        /\ config' = config
    BY <1>6 DEF DesignatedPorts, Hello, TypeOK, switchVars
  <2>. QED  BY <1>1, <1>3, <2>1
<1>7. ASSUME NEW v \in Wire, Deliver(v) PROVE Kept' /\ Sent'
  <2> DEFINE p == v[2]
             s == p[1]
  <2>1. p \in Port /\ s \in Switch /\ v[1] \in Peers(p) /\ {p} \in SUBSET Ports(s)
    BY WireIsPair, WireEnds, PeersHearEachOther DEF Ports
  <2>2. /\ Without(v) \in [Wire -> Seq(Config)]
        /\ \A w \in Wire : \A i \in 1..Len(Without(v)[w]) : Names(Without(v)[w][i], w[1])
        /\ Names(Head(wire[v]), v[1])
    BY <1>4, <1>7 DEF Deliver
  <2>3. CASE HandleSuperior(v)
    <3> DEFINE cfg == [config EXCEPT ![p] = Head(wire[v])]
               ports == DesignatedPorts(s, config')
    <3>1. /\ cfg[p] = Head(wire[v])
          /\ \A r \in Port : r # p => cfg[r] = config[r]
      BY <2>1 DEF TypeOK
    <3>2. UpdateState(s, cfg) /\ Send(s, ports, Without(v)) /\ ports \in SUBSET Ports(s)
      BY <2>3 DEF HandleSuperior, DesignatedPorts
    <3>. HIDE DEF cfg, ports
    <3>3. PICK root, cost : config' = Claim(s, cfg, root, cost)
      BY <3>2 DEF UpdateState
    <3>4. \A r \in Port : config'[r] = Advert(r, root, cost) \/ config'[r] = cfg[r]
      BY <3>3 DEF Claim
    <3>5. ASSUME NEW r \in Port PROVE \E q \in Peers(r) \cup {r} : Names(config'[r], q)
      <4>1. CASE config'[r] = Advert(r, root, cost)
        BY <4>1, AdvertNames
      <4>2. CASE config'[r] = cfg[r] /\ r = p
        BY <2>1, <2>2, <3>1, <4>2
      <4>3. CASE config'[r] = cfg[r] /\ r # p
        BY <1>1, <3>1, <4>3
      <4>. QED  BY <3>4, <4>1, <4>2, <4>3
    <3>. HIDE DEF p, s
    <3>6. Sent'
      BY <1>3, <2>1, <2>2, <3>2
    <3>. QED  BY <3>5, <3>6
  <2>4. CASE HandleInferior(v)
    <3>1. config' = config /\ Send(s, {p}, Without(v))
      BY <2>4 DEF HandleInferior, switchVars
    <3>. HIDE DEF p, s
    <3>2. Sent'
      BY <1>3, <2>1, <2>2, <3>1
    <3>. QED  BY <1>1, <3>1, <3>2
  <2>5. CASE HandleKnown(v)
    BY <1>1, <2>2, <2>5 DEF HandleKnown, switchVars
  <2>. QED  BY <1>7, <2>3, <2>4, <2>5 DEF Deliver, HandlePacket
<1>8. ASSUME NEW v \in Wire, Lose(v) PROVE Kept' /\ Sent'
  BY <1>1, <1>4, <1>8 DEF Lose, switchVars
<1>9. CASE UNCHANGED vars
  BY <1>1, <1>9 DEF vars, switchVars
<1>. QED  BY <1>5, <1>6, <1>7, <1>8, <1>9 DEF Next

\* At the start every port knows its own claim.
LEMMA SendersStartNamed == Init => SendersAreNamed
<1>. SUFFICES ASSUME Init PROVE SendersAreNamed
  OBVIOUS
<1>1. \A p \in Port : Names(config[p], p)
  BY AdvertNames DEF Init
<1>2. \A w \in Wire : Len(wire[w]) = 0
  BY DEF Init
<1>. QED  BY <1>1, <1>2 DEF SendersAreNamed

-----------------------------------------------------------------------------
(***************************************************************************)
(* Least elements.                                                         *)
(***************************************************************************)

\* A set of numbers has a smallest one.
LEMMA Smallest ==
  ASSUME NEW T, T \subseteq Nat, T # {}
  PROVE  \E n \in T : \A m \in T : n <= m
<1> DEFINE R == OpToRel(<, Nat)
<1>1. IsWellFoundedOn(R, Nat)
  BY NatLessThanWellFounded
<1>2. \A a, b \in Nat : a < b => <<a, b>> \in R
  BY DEF OpToRel
<1>. HIDE DEF R
<1>3. PICK n \in T : \A m \in T : ~ (<<m, n>> \in R)
  BY <1>1, WFMin
<1>4. \A m \in T : ~(m < n)
  BY <1>2, <1>3
<1>5. \A m \in T : n <= m
  BY <1>4
<1>. QED  BY <1>5

\* A set of Configs has a best one.
LEMMA BestConfig ==
  ASSUME NEW T, T \subseteq Config, T # {}
  PROVE  \E c \in T : \A d \in T : ~Better(d, c)
<1> DEFINE Roots == {c.root : c \in T}
<1>1. PICK r \in Roots : \A m \in Roots : r <= m
  <2>1. Roots \subseteq Nat /\ Roots # {}
    BY ConfigFields
  <2>. QED  BY <2>1, Smallest
<1> DEFINE T1 == {c \in T : c.root = r}
           Costs == {c.cost : c \in T1}
<1>2. PICK e \in Costs : \A m \in Costs : e <= m
  <2>1. Costs \subseteq Nat /\ Costs # {}
    BY <1>1, ConfigFields
  <2>. HIDE DEF Costs
  <2>. QED  BY <2>1, Smallest
<1> DEFINE T2 == {c \in T1 : c.cost = e}
           Senders == {c.switch : c \in T2}
<1>3. PICK s \in Senders : \A m \in Senders : s <= m
  <2>1. Senders \subseteq Nat /\ Senders # {}
    BY <1>2, ConfigFields
  <2>. HIDE DEF Senders
  <2>. QED  BY <2>1, Smallest
<1> DEFINE T3 == {c \in T2 : c.switch = s}
           Numbers == {c.port : c \in T3}
<1>4. PICK n \in Numbers : \A m \in Numbers : n <= m
  <2>1. Numbers \subseteq Nat /\ Numbers # {}
    BY <1>3, ConfigFields
  <2>. HIDE DEF Numbers
  <2>. QED  BY <2>1, Smallest
<1>5. PICK c \in T : c.root = r /\ c.cost = e /\ c.switch = s /\ c.port = n
  BY <1>4
<1>6. ASSUME NEW d \in T PROVE ~Better(d, c)
  <2>1. /\ d.root \in Nat /\ d.cost \in Nat /\ d.switch \in Nat /\ d.port \in Nat
        /\ c.root \in Nat /\ c.cost \in Nat /\ c.switch \in Nat /\ c.port \in Nat
    BY ConfigFields
  <2>2. c.root <= d.root
    BY <1>1, <1>5
  <2>3. d.root = c.root => c.cost <= d.cost
    BY <1>2, <1>5
  <2>4. d.root = c.root /\ d.cost = c.cost => c.switch <= d.switch
    BY <1>3, <1>5
  <2>5. d.root = c.root /\ d.cost = c.cost /\ d.switch = c.switch => c.port <= d.port
    BY <1>4, <1>5
  <2>. QED  BY <2>1, <2>2, <2>3, <2>4, <2>5 DEF Better
<1>. QED  BY <1>6

\* Among the ports of a segment, one stands for the best.
LEMMA BestOnSegment ==
  ASSUME TypeOK, NEW p \in Port
  PROVE  \E k \in Peers(p) \cup {p} :
           /\ k \in Port
           /\ \A r \in Peers(p) \cup {p} : ~Better(Own(r), Own(k))
<1> DEFINE T == {Own(r) : r \in Peers(p) \cup {p}}
<1>1. ASSUME NEW r \in Peers(p) \cup {p} PROVE r \in Port /\ Own(r) \in Config
  <2>1. r \in Port
    BY DEF Peers
  <2>. QED  BY <2>1, PortIsPair, AdvertType DEF Own, TypeOK
<1>2. T \subseteq Config /\ T # {}
  BY <1>1
<1>3. PICK c \in T : \A d \in T : ~Better(d, c)
  <2>. HIDE DEF T
  <2>. QED  BY <1>2, BestConfig
<1>4. PICK k \in Peers(p) \cup {p} : c = Own(k)
  BY <1>3
<1>. QED  BY <1>1, <1>3, <1>4

\* The switch with the smallest identity.
LEMMA MinRootIsSmallest ==
  ASSUME Switch # {}
  PROVE  MinRoot \in Switch /\ \A s \in Switch : MinRoot <= s
<1>1. \E r \in Switch : \A s \in Switch : r <= s
  BY SwitchAssumption, Smallest
<1>. QED  BY <1>1 DEF MinRoot

\* A walk of no hops stays where it is, and a longer one has a last hop.
LEMMA LastHop ==
  ASSUME NEW r \in Switch, NEW s \in Switch, NEW n \in Nat, Elects!Walk(r, s, n)
  PROVE  /\ n = 0 => r = s
         /\ n # 0 => \E t \in Switch : Elects!Walk(r, t, n - 1) /\ <<t, s>> \in Link
<1>1. PICK via \in [0..n -> Switch] :
        /\ via[0] = r
        /\ via[n] = s
        /\ \A i \in 0..(n - 1) : <<via[i], via[i + 1]>> \in Link
  BY DEF Elects!Walk
<1>2. ASSUME n # 0
      PROVE  \E t \in Switch : Elects!Walk(r, t, n - 1) /\ <<t, s>> \in Link
  <2> DEFINE shorter == [i \in 0..(n - 1) |-> via[i]]
  <2>1. /\ shorter \in [0..(n - 1) -> Switch] /\ shorter[0] = r
        /\ shorter[n - 1] = via[n - 1] /\ via[n - 1] \in Switch
    BY <1>1, <1>2
  <2>2. \A i \in 0..((n - 1) - 1) : <<shorter[i], shorter[i + 1]>> \in Link
    BY <1>1, <1>2
  <2>3. <<via[n - 1], s>> \in Link
    <3>1. n - 1 \in 0..(n - 1) /\ (n - 1) + 1 = n
      BY <1>2
    <3>. QED  BY <1>1, <3>1
  <2>. QED  BY <2>1, <2>2, <2>3 DEF Elects!Walk
<1>. QED  BY <1>1, <1>2

-----------------------------------------------------------------------------
(***************************************************************************)
(* Where the protocol can rest.  When every frame is read and no hello     *)
(* would be news, what a designated port stands for is known on its whole  *)
(* segment.  From there the smallest switch that is n hops away is known   *)
(* to be so, hop by hop; a stale Config that an earlier life of a switch   *)
(* left behind does no harm, since it names a way that exists.             *)
(***************************************************************************)

AtRest == /\ losses = 0
          /\ running = Switch
          /\ \A w \in Wire : wire[w] = <<>> /\ NoNews(w)

Reached == IInv /\ WalkInv /\ ToldInv /\ SendersAreNamed

\* The smallest switch reaches every other.
Connected == \A s \in Switch : \E n \in Nat : Elects!Walk(MinRoot, s, n)

\* Switch s has found the smallest switch, at n hops or less.
Found(s, n) == designated_root[s] = MinRoot /\ root_path_cost[s] <= n

\* At rest, what a designated port stands for is no news to its peers.
LEMMA DesignatedIsKnown ==
  ASSUME Reached, AtRest, NEW w \in Wire, IsDesignated(w[1], config)
  PROVE  /\ ~Better(Own(w[1]), config[w[2]])
         /\ NoWorse(config[w[2]], Own(w[1]))
<1>1. /\ w[1] \in Port /\ w[2] \in Port /\ w[2] \in Peers(w[1])
      /\ w[1][1] \in Switch /\ w[2][1] \in Switch
      /\ <<w[2], w[1]>> \in Wire
  BY WireIsPair, WireEnds, PeersHearEachOther
<1>2. IsTold(w)
  BY <1>1 DEF Reached, ToldInv, AtRest, Concerns
<1>3. \A v \in Wire : wire[v] = <<>> /\ Len(wire[v]) = 0
  BY DEF AtRest
<1>4. ~HasUnread(w[1])
  BY <1>1, <1>3, PeersHearEachOther DEF HasUnread
<1>5. ~Better(Own(w[1]), config[w[2]])
  <2>1. CASE Told(w)
    BY <1>3, <2>1 DEF Told, AtRest, NoNews
  <2>2. CASE WillSpeak(w[2])
    <3> DEFINE v == <<w[2], w[1]>>
    <3>1. NoNews(v) /\ v[1] = w[2] /\ v[2] = w[1]
      BY <1>1 DEF AtRest
    <3>. QED  BY <2>2, <3>1 DEF NoNews, WillSpeak
  <2>. QED  BY <1>2, <1>4, <2>1, <2>2 DEF IsTold
<1>6. Own(w[1]) \in Config /\ config[w[2]] \in Config
  BY <1>1, OwnIsNoBetter DEF Reached, IInv, Consistent, TypeOK
<1>. QED  BY <1>5, <1>6, BetterIsTotal, BetterIsNoWorse

\* What a port knows names the smallest switch at most, and a way to it.
LEMMA NoConfigIsTooGood ==
  ASSUME Reached, Switch # {}, NEW p \in Port, NEW n \in Nat,
         config[p].root < MinRoot \/ (config[p].root = MinRoot /\ config[p].cost <= n)
  PROVE  /\ config[p].root = MinRoot /\ config[p].cost \in 0..n
         /\ config[p].switch \in Switch
         /\ Elects!Walk(MinRoot, config[p].switch, config[p].cost)
<1>1. config[p].root \in Switch /\ config[p].cost \in Nat /\ config[p].switch \in Switch
  BY DEF Reached, IInv, TypeOK, Config
<1>2. MinRoot \in Nat /\ config[p].root \in Nat /\ MinRoot <= config[p].root
  BY <1>1, MinRootIsSmallest, SwitchAssumption
<1>3. config[p].root = MinRoot /\ config[p].cost \in 0..n
  BY <1>1, <1>2
<1>4. IsAWalk(config[p])
  BY DEF Reached, WalkInv, CostIsAWalk
<1>. QED  BY <1>1, <1>3, <1>4 DEF IsAWalk

\* The best port of a segment is designated, once the switches that are near
\* enough to have said something better have found the smallest switch.
LEMMA BestIsDesignated ==
  ASSUME Reached, Switch # {}, NEW n \in Nat,
         \A u \in Switch : \A i \in 0..n : Elects!Walk(MinRoot, u, i) => Found(u, i),
         NEW k \in Port, Found(k[1], n), \A r \in Peers(k) : ~Better(Own(r), Own(k))
  PROVE  IsDesignated(k, config)
<1>. SUFFICES ASSUME ~IsDesignated(k, config) PROVE FALSE
  OBVIOUS
<1> DEFINE c == config[k]
<1>1. Own(k) \in Config /\ c \in Config /\ Better(c, Own(k))
  BY OwnIsNoBetter DEF Reached, IInv, Consistent, DesignatedIsCurrent
<1>2. PICK u \in Peers(k) : Names(c, u)
  BY DEF Reached, SendersAreNamed, Names, IsDesignated
<1>3. u \in Port /\ u[1] \in Switch
  BY <1>2, PortIsPair DEF Peers
<1>4. NoWorse(c, Own(k)) /\ Own(k).root = MinRoot /\ Own(k).cost <= n
  BY <1>1, BetterIsNoWorse DEF Found, Own, Advert
<1>5. /\ c.root = MinRoot /\ c.cost \in 0..n
      /\ Elects!Walk(MinRoot, u[1], c.cost)
  <2>1. c.cost \in Nat /\ Own(k).cost \in Nat
    BY <1>1, ConfigFields
  <2>2. c.root < MinRoot \/ (c.root = MinRoot /\ c.cost <= n)
    BY <1>4, <2>1 DEF NoWorse
  <2>. QED  BY <1>2, <2>2, NoConfigIsTooGood DEF Names
<1>6. Found(u[1], c.cost)
  BY <1>3, <1>5
<1>7. Own(u) \in Config
  BY <1>3, OwnIsNoBetter DEF Reached, IInv, Consistent
<1>8. /\ Own(u).root = c.root /\ Own(u).cost <= c.cost
      /\ Own(u).switch = c.switch /\ Own(u).port = c.port
  BY <1>2, <1>5, <1>6 DEF Found, Own, Advert, Names
<1>9. Own(u) = c \/ Better(Own(u), c)
  <2>1. CASE Own(u).cost = c.cost
    BY <1>1, <1>7, <1>8, <2>1, ConfigExtensionality
  <2>2. CASE Own(u).cost # c.cost
    BY <1>1, <1>7, <1>8, <2>2, ConfigFields DEF Better
  <2>. QED  BY <2>1, <2>2
<1>10. Better(Own(u), Own(k))
  BY <1>1, <1>7, <1>9, BetterIsTransitive
<1>. QED  BY <1>2, <1>10

\* The belief of a switch is no worse than what a port of it knows, with the
\* cost of that port added.
LEMMA FollowsItsPorts ==
  ASSUME IInv, Switch # {}, NEW p \in Port, NEW n \in Nat,
         config[p].root = MinRoot, config[p].cost <= n
  PROVE  Found(p[1], n + 1)
<1> DEFINE s == p[1]
<1>1. /\ s \in Switch /\ p \in Ports(s) /\ config[p] \in Config /\ MinRoot \in Nat
      /\ MinRoot <= designated_root[s] /\ designated_root[s] \in Nat
      /\ root_path_cost[s] \in Nat /\ config[p].cost \in Nat
  <2>1. s \in Switch /\ p \in Ports(s) /\ config[p] \in Config
    BY PortIsPair DEF Ports, IInv, TypeOK
  <2>. QED  BY <2>1, MinRootIsSmallest, ConfigFields, SwitchAssumption DEF IInv, TypeOK
<1>2. CASE IsDesignated(p, config)
  <2>1. config[p] = Own(p)
    BY <1>2 DEF IInv, Consistent, DesignatedIsCurrent
  <2>. QED  BY <1>1, <2>1 DEF Own, Advert, Found
<1>3. CASE ~IsDesignated(p, config)
  <2> DEFINE rp == <<s, root_port[s]>>
  <2>1. root_port[s] # NoPort
    BY <1>1, <1>3 DEF IInv, Consistent, RootConsistency, DesignatedPorts
  <2>2. rp \in Port /\ config[rp] \in Config
    BY <1>1, <2>1 DEF IInv, TypeOK
  <2>3. /\ designated_root[s] = config[rp].root
        /\ root_path_cost[s] = config[rp].cost + 1
        /\ Better(config[rp], config[p]) \/ config[rp] = config[p]
    BY <1>1, <1>3, <2>1 DEF IInv, Consistent, RootPortIsBest
  <2>4. NoWorse(config[rp], config[p])
    BY <1>1, <2>2, <2>3, BetterIsNoWorse
  <2>5. config[rp].cost \in Nat /\ config[rp].root \in Nat
    BY <2>2, ConfigFields
  <2>. HIDE DEF rp
  <2>. QED  BY <1>1, <2>3, <2>4, <2>5 DEF NoWorse, Found
<1>. QED  BY <1>2, <1>3


\* At rest, a switch that is n hops away from the smallest one has found it.
LEMMA EveryoneFinds ==
  ASSUME Reached, AtRest, Switch # {}
  PROVE  \A s \in Switch : \A n \in Nat : Elects!Walk(MinRoot, s, n) => Found(s, n)
<1> DEFINE Missed == {n \in Nat : \E s \in Switch :
                                    Elects!Walk(MinRoot, s, n) /\ ~Found(s, n)}
<1>. SUFFICES ASSUME Missed # {} PROVE FALSE
  OBVIOUS
<1>1. PICK n \in Missed : \A m \in Missed : n <= m
  <2>1. Missed \subseteq Nat
    OBVIOUS
  <2>. HIDE DEF Missed
  <2>. QED  BY <2>1, Smallest
<1>2. PICK s \in Switch : Elects!Walk(MinRoot, s, n) /\ ~Found(s, n)
  BY <1>1
<1>3. n \in Nat /\ \A m \in 0..(n - 1) : m \notin Missed
  BY <1>1
<1>4. \A m \in 0..(n - 1) : \A u \in Switch : Elects!Walk(MinRoot, u, m) => Found(u, m)
  BY <1>3
<1>. HIDE DEF Missed
<1>5. MinRoot \in Switch /\ MinRoot \in Nat /\ \A u \in Switch : MinRoot <= u
  BY MinRootIsSmallest, SwitchAssumption
<1>6. n # 0
  <2>1. SUFFICES ASSUME n = 0 PROVE FALSE
    OBVIOUS
  <2>2. s = MinRoot
    BY <1>2, <1>3, <1>5, <2>1, LastHop
  <2>3. /\ designated_root[s] \in Switch /\ designated_root[s] <= s
        /\ designated_root[s] = s => root_path_cost[s] = 0
    BY DEF Reached, IInv, TypeOK, Consistent, RootConsistency
  <2>4. designated_root[s] = s
    <3>1. s \in Nat /\ designated_root[s] \in Nat /\ s <= designated_root[s]
      BY <1>5, <2>2, <2>3, SwitchAssumption
    <3>. QED  BY <2>3, <3>1
  <2>. QED  BY <1>2, <2>1, <2>2, <2>3, <2>4 DEF Found
<1>7. PICK t \in Switch : Elects!Walk(MinRoot, t, n - 1) /\ <<t, s>> \in Link
  BY <1>2, <1>3, <1>5, <1>6, LastHop
<1>8. n - 1 \in Nat /\ n - 1 \in 0..(n - 1)
  BY <1>3, <1>6
<1>9. Found(t, n - 1)
  BY <1>4, <1>7, <1>8
<1>10. PICK w \in Wire : w[1][1] = t /\ w[2][1] = s
  BY <1>7 DEF Link
<1>11. w[1] \in Port /\ w[2] \in Port /\ w[2] \in Peers(w[1])
  BY WireIsPair, WireEnds
<1>12. PICK k \in Peers(w[1]) \cup {w[1]} :
         /\ k \in Port
         /\ \A r \in Peers(w[1]) \cup {w[1]} : ~Better(Own(r), Own(k))
  BY <1>11, BestOnSegment DEF Reached, IInv
<1>13. Found(k[1], n - 1) /\ root_path_cost[k[1]] \in Nat
  <2>1. Own(w[1]) \in Config /\ Own(k) \in Config
    BY <1>11, <1>12, OwnIsNoBetter DEF Reached, IInv, Consistent
  <2>2. ~Better(Own(w[1]), Own(k))
    BY <1>12
  <2>3. NoWorse(Own(k), Own(w[1]))
    BY <2>1, <2>2, BetterIsTotal, BetterIsNoWorse
  <2>4. /\ designated_root[k[1]] < MinRoot
           \/ (designated_root[k[1]] = MinRoot /\ root_path_cost[k[1]] <= root_path_cost[t])
        /\ root_path_cost[t] <= n - 1
    BY <1>9, <1>10, <2>3 DEF NoWorse, Own, Advert, Found
  <2>5. /\ designated_root[k[1]] \in Switch /\ root_path_cost[k[1]] \in Nat
        /\ root_path_cost[t] \in Nat
    BY <1>12, PortIsPair DEF Reached, IInv, TypeOK
  <2>6. MinRoot <= designated_root[k[1]] /\ designated_root[k[1]] \in Nat
    BY <1>5, <2>5, SwitchAssumption
  <2>. QED  BY <1>5, <1>8, <2>4, <2>5, <2>6 DEF Found
<1>14. \A r \in Peers(k) : ~Better(Own(r), Own(k))
  BY <1>11, <1>12 DEF Peers
<1>15. IsDesignated(k, config)
  BY <1>4, <1>8, <1>12, <1>13, <1>14, BestIsDesignated
<1>16. CASE k = w[2]
  BY <1>2, <1>3, <1>10, <1>13, <1>16 DEF Found
<1>17. CASE k # w[2]
  <2>1. <<k, w[2]>> \in Wire
    BY <1>11, <1>12, <1>17 DEF Peers, Wire
  <2>2. NoWorse(config[w[2]], Own(k))
    BY <1>15, <2>1, DesignatedIsKnown
  <2>3. config[w[2]].cost \in Nat
    BY <1>11 DEF Reached, IInv, TypeOK, Config
  <2>4. \/ config[w[2]].root < MinRoot
        \/ config[w[2]].root = MinRoot /\ config[w[2]].cost <= n - 1
    BY <1>8, <1>13, <2>2, <2>3 DEF NoWorse, Own, Advert, Found
  <2>5. config[w[2]].root = MinRoot /\ config[w[2]].cost \in 0..(n - 1)
    BY <1>8, <1>11, <2>4, NoConfigIsTooGood
  <2>6. Found(s, (n - 1) + 1)
    BY <1>8, <1>10, <1>11, <2>5, FollowsItsPorts DEF Reached
  <2>. QED  BY <1>2, <1>3, <2>6
<1>. QED  BY <1>16, <1>17

\* The role of a port that is designated.
LEMMA RoleOfDesignated ==
  ASSUME IInv, NEW p \in Port
  PROVE  /\ Role(p) = "DESIGNATED" <=> IsDesignated(p, config)
         /\ Role(p) = "ROOT" <=> root_port[p[1]] = p[2]
<1>1. p[1] \in Switch /\ p[2] # NoPort /\ p = <<p[1], p[2]>>
  BY PortIsPair
<1>2. root_port[p[1]] = p[2] => ~IsDesignated(p, config)
  BY <1>1 DEF IInv, Consistent, RootPortIsBest
<1>. QED  BY <1>2 DEF Role

\* At rest, in a network that hangs together, the switches have converged.
LEMMA RestConverges ==
  ASSUME Reached, AtRest, Switch # {}, Connected
  PROVE  Converged
<1>1. \A s \in Switch : \A n \in Nat : Elects!Walk(MinRoot, s, n) => Found(s, n)
  BY EveryoneFinds
<1>2. /\ \A s \in Switch : designated_root[s] = MinRoot /\ root_path_cost[s] \in Nat
      /\ MinRoot \in Nat
  BY <1>1, MinRootIsSmallest, SwitchAssumption DEF Connected, Found, Reached, IInv, TypeOK
<1>3. Agreement
  BY <1>2 DEF Agreement, AtRest
<1>4. ShortestPaths
  <2>. SUFFICES ASSUME NEW s \in Switch, NEW n \in 0..(root_path_cost[s] - 1),
                       Elects!Walk(MinRoot, s, n)
                PROVE  FALSE
    BY DEF ShortestPaths
  <2>1. n \in Nat /\ n < root_path_cost[s]
    BY <1>2
  <2>. QED  BY <1>1, <1>2, <2>1 DEF Found
\* On every segment the best port is designated, and no other.
<1>5. ASSUME NEW p \in Port
      PROVE  \E k \in Peers(p) \cup {p} :
               /\ k \in Port /\ IsDesignated(k, config)
               /\ \A r \in Peers(p) \cup {p} : ~Better(Own(r), Own(k))
               /\ \A r \in Peers(p) \cup {p} : IsDesignated(r, config) => r = k
  <2>1. PICK k \in Peers(p) \cup {p} :
          k \in Port /\ \A r \in Peers(p) \cup {p} : ~Better(Own(r), Own(k))
    BY BestOnSegment DEF Reached, IInv
  <2>2. k[1] \in Switch
    BY <2>1, PortIsPair
  <2>3. \A r \in Peers(k) : ~Better(Own(r), Own(k))
    BY <2>1 DEF Peers
  <2>4. Found(k[1], root_path_cost[k[1]]) /\ root_path_cost[k[1]] \in Nat
    BY <1>2, <2>2 DEF Found
  <2>5. IsDesignated(k, config)
    BY <1>1, <2>1, <2>3, <2>4, BestIsDesignated
  <2>6. ASSUME NEW r \in Peers(p) \cup {p}, IsDesignated(r, config), r # k
        PROVE  FALSE
    <3>1. r \in Port /\ <<k, r>> \in Wire
      BY <2>1, <2>6 DEF Peers, Wire
    <3>2. config[r] = Own(r) /\ Own(r) \in Config /\ Own(k) \in Config
      BY <2>1, <2>6, <3>1, OwnIsNoBetter DEF Reached, IInv, Consistent, DesignatedIsCurrent
    <3>3. Own(r) # Own(k)
      BY <2>1, <2>6, <3>1, PortIsPair DEF Own, Advert
    <3>4. Better(Own(k), Own(r))
      BY <2>1, <3>2, <3>3, BetterIsTotal
    <3>. QED  BY <2>5, <3>1, <3>2, <3>4, DesignatedIsKnown
  <2>. QED  BY <2>1, <2>5, <2>6
<1>6. ASSUME NEW p \in Port
      PROVE  \E q \in Peers(p) \cup {p} :
               /\ Role(q) = "DESIGNATED"
               /\ \A r \in Peers(p) \cup {p} : Role(r) = "DESIGNATED" => r = q
  <2>1. \A r \in Peers(p) \cup {p} : r \in Port
    BY DEF Peers
  <2>2. \A r \in Peers(p) \cup {p} : Role(r) = "DESIGNATED" <=> IsDesignated(r, config)
    BY <2>1, RoleOfDesignated DEF Reached
  <2>. QED  BY <1>5, <2>2
\* The root port of a switch is one hop from the designated port it hears.
<1>7. ASSUME NEW s \in Switch, s # MinRoot
      PROVE  \E p \in Ports(s) : /\ Role(p) = "ROOT"
                                 /\ \E q \in Peers(p) :
                                      /\ Role(q) = "DESIGNATED"
                                      /\ root_path_cost[s] = root_path_cost[q[1]] + 1
  <2> DEFINE p == <<s, root_port[s]>>
             c == config[p]
  <2>1. /\ root_port[s] # NoPort /\ p \in Port /\ p \in Ports(s) /\ c \in Config
        /\ ~IsDesignated(p, config)
        /\ c.root = MinRoot /\ root_path_cost[s] = c.cost + 1
    <3>1. root_port[s] # NoPort
      BY <1>2, <1>7 DEF Reached, IInv, Consistent, RootConsistency
    <3>2. p \in Port /\ p \in Ports(s) /\ c \in Config
      BY <3>1 DEF Reached, IInv, TypeOK, Ports
    <3>. QED  BY <1>2, <3>1, <3>2 DEF Reached, IInv, Consistent, RootPortIsBest
  <2>2. p[1] = s /\ p[2] = root_port[s] /\ c.cost \in Nat
    BY <2>1, ConfigFields
  <2>3. Role(p) = "ROOT"
    BY <2>1, <2>2, RoleOfDesignated DEF Reached
  <2>. HIDE DEF p
  <2>4. PICK k \in Peers(p) \cup {p} :
          /\ k \in Port /\ IsDesignated(k, config)
          /\ \A r \in Peers(p) \cup {p} : ~Better(Own(r), Own(k))
    BY <1>5, <2>1
  <2>5. k \in Peers(p) /\ <<k, p>> \in Wire /\ k[1] \in Switch
    BY <2>1, <2>4, PortIsPair DEF Peers, Wire
  <2>6. c.cost <= root_path_cost[k[1]]
    <3>1. NoWorse(c, Own(k))
      BY <2>4, <2>5, DesignatedIsKnown
    <3>2. Own(k).root = MinRoot /\ Own(k).cost = root_path_cost[k[1]]
      BY <1>2, <2>5 DEF Own, Advert
    <3>. QED  BY <1>2, <2>1, <3>1, <3>2 DEF NoWorse
  <2>7. root_path_cost[k[1]] <= c.cost
    <3>1. PICK u \in Peers(p) : Names(c, u)
      BY <2>1 DEF Reached, SendersAreNamed, Names, IsDesignated
    <3>2. u \in Port /\ u[1] \in Switch
      BY <3>1, PortIsPair DEF Peers
    <3>3. Elects!Walk(MinRoot, u[1], c.cost)
      BY <2>1, <2>2, <3>1, NoConfigIsTooGood DEF Names
    <3>4. root_path_cost[u[1]] <= c.cost /\ root_path_cost[u[1]] \in Nat
      BY <1>1, <1>2, <2>2, <3>2, <3>3 DEF Found
    <3>5. NoWorse(Own(k), Own(u))
      <4>1. Own(k) \in Config /\ Own(u) \in Config
        BY <2>4, <3>2, OwnIsNoBetter DEF Reached, IInv, Consistent
      <4>. QED  BY <2>4, <3>1, <4>1, BetterIsTotal, BetterIsNoWorse
    <3>6. root_path_cost[k[1]] <= root_path_cost[u[1]]
      <4>1. /\ Own(k).root = MinRoot /\ Own(k).cost = root_path_cost[k[1]]
            /\ Own(u).root = MinRoot /\ Own(u).cost = root_path_cost[u[1]]
        BY <1>2, <2>5, <3>2 DEF Own, Advert
      <4>. QED  BY <1>2, <3>5, <4>1 DEF NoWorse
    <3>. QED  BY <1>2, <2>2, <2>5, <3>4, <3>6
  <2>8. root_path_cost[s] = root_path_cost[k[1]] + 1
    BY <1>2, <2>1, <2>2, <2>5, <2>6, <2>7
  <2>9. Role(k) = "DESIGNATED"
    BY <2>4, RoleOfDesignated DEF Reached
  <2>. QED  BY <2>1, <2>3, <2>5, <2>8, <2>9
<1>8. SpanningTree
  BY <1>6, <1>7 DEF SpanningTree
<1>. QED  BY <1>3, <1>4, <1>8 DEF Converged

\* In a network that hangs together and where no switch hears itself, the
\* protocol comes to rest nowhere but in the tree of shortest paths to the
\* smallest switch: when every frame of the running switches is read and a
\* further hello would be news to nobody, they agree on that root, every
\* segment has one designated port and every switch the root port that leads
\* there, whatever order the frames arrived in and whichever processes were
\* terminated and started again before, as long as no frame was lost.
THEOREM RestIsInTheTree ==
  ASSUME NoSelfLoop, Connected, Switch # {}
  PROVE  Spec => []RestIsConverged
<1>1. Init => Reached
  BY InvariantStarts, WalkInvStarts, ToldInvStarts, SendersStartNamed DEF Reached, IInv
<1>2. Reached /\ [Next]_vars => Reached'
  BY InvariantStays, WalkInvStays, ToldInvStays, SendersStayNamed DEF Reached, IInv
<1>3. Reached => RestIsConverged
  BY RestConverges DEF AtRest, RestIsConverged
<1>. QED  BY <1>1, <1>2, <1>3, PTL DEF Spec

-----------------------------------------------------------------------------
(***************************************************************************)
(* Why the switches come to rest: what a port knows changes only for the   *)
(* better while its switch runs, and no Config can be improved for ever.   *)
(***************************************************************************)

\* Port p knows what it knew, or something better.
Learns(p) == config'[p] = config[p] \/ Better(config'[p], config[p])

RunsOn(s) == s \in running /\ s \in running'

\* While a switch runs, stp_update_state and stp_handle_config_packet replace
\* what a port knows only by something better, whatever is lost, late or in the
\* wrong order, and however the other switches start and end.
THEOREM PortsOnlyImprove ==
  ASSUME NoSelfLoop
  PROVE  Spec => [][\A p \in Port : RunsOn(p[1]) => Learns(p)]_vars
<1> DEFINE Improve == \A p \in Port : RunsOn(p[1]) => Learns(p)
<1>1. Init => IInv
  BY InvariantStarts
<1>2. IInv /\ [Next]_vars => IInv'
  BY InvariantStays
<1>3. ASSUME IInv, Next
      PROVE  Improve
  <2>1. TypeOK'
    BY <1>3, TypeStep DEF IInv
  <2>2. ASSUME UNCHANGED switchVars
        PROVE  Improve
    BY <2>2 DEF switchVars, Learns
  <2>3. ASSUME NEW s \in Switch, Start(s) \/ Stop(s)
        PROVE  Improve
    <3>1. ~RunsOn(s) /\ \A p \in Port : p[1] # s => config'[p] = config[p]
      BY <2>3 DEF Start, Stop, Fresh, RunsOn
    <3>. QED  BY <3>1 DEF Learns
  <2>4. ASSUME NEW s \in Switch, Hello(s)
        PROVE  Improve
    BY <2>2, <2>4 DEF Hello
  <2>5. ASSUME NEW w \in Wire, Deliver(w)
        PROVE  Improve
    <3>1. CASE HandleSuperior(w)
      <4>1. \A q \in Port : config'[q] = config[q] \/ Better(config'[q], config[q])
        BY <1>3, <2>1, <2>5, <3>1, SuperiorImproves DEF Deliver
      <4>. QED  BY <4>1 DEF Learns
    <3>2. CASE HandleInferior(w) \/ HandleKnown(w)
      BY <2>2, <3>2 DEF HandleInferior, HandleKnown
    <3>. QED  BY <2>5, <3>1, <3>2 DEF Deliver, HandlePacket
  <2>6. ASSUME NEW w \in Wire, Lose(w)
        PROVE  Improve
    BY <2>2, <2>6 DEF Lose
  <2>. HIDE DEF Improve
  <2>. QED  BY <1>3, <2>3, <2>4, <2>5, <2>6 DEF Next
<1>4. IInv /\ [Next]_vars => [Improve]_vars
  BY <1>3
<1>. QED  BY <1>1, <1>2, <1>4, PTL DEF Spec

\* What is only replaced by something better is replaced finitely often: what a
\* port knows settles, in a network of any size.  So a switch that runs on has
\* only finitely much news to pass on.
THEOREM ImprovementEnds ==
  ASSUME NEW known \in [Nat -> Config],
         \A n \in Nat : known[n + 1] = known[n] \/ Better(known[n + 1], known[n])
  PROVE  \E m \in Nat : \A n \in Nat : n >= m => known[n] = known[m]
<1> DEFINE All == {known[n] : n \in Nat}
<1>1. PICK c \in All : \A d \in All : ~Better(d, c)
  <2>1. All \subseteq Config /\ All # {}
    OBVIOUS
  <2>. HIDE DEF All
  <2>. QED  BY <2>1, BestConfig
<1>2. PICK m \in Nat : known[m] = c
  BY <1>1
<1>3. \A n \in Nat : ~Better(known[n], known[m])
  BY <1>1, <1>2
<1> DEFINE Later == {n \in Nat : n >= m /\ known[n] # known[m]}
<1>4. Later = {}
  <2>1. SUFFICES ASSUME Later # {}
                 PROVE  FALSE
    OBVIOUS
  <2>2. PICK k \in Later : \A n \in Later : k <= n
    <3>1. Later \subseteq Nat
      OBVIOUS
    <3>. HIDE DEF Later
    <3>. QED  BY <2>1, <3>1, Smallest
  <2>3. k \in Nat /\ k - 1 \in Nat /\ k - 1 >= m /\ known[k] # known[m] /\ k - 1 + 1 = k
    BY <1>2, <2>2
  <2>4. known[k - 1] = known[m]
    BY <2>2, <2>3
  <2>5. known[k] = known[k - 1] \/ Better(known[k], known[k - 1])
    BY <2>3
  <2>. QED  BY <1>3, <2>3, <2>4, <2>5
<1>. QED  BY <1>4
=============================================================================
