------------------------------- MODULE MCSTP -------------------------------
(***************************************************************************)
(* The topologies STP is checked on.  Ports are numbered per switch in the *)
(* order the interfaces are found in, as in stp_init.                      *)
(***************************************************************************)
EXTENDS STP

Attached(cables) == [p \in UNION {c : c \in cables} |->
                      CHOOSE c \in cables : p \in c]

\* Two switches joined by two cables that cross: the first port of switch 2
\* hears the second port of switch 1.
PairCables == {{<<1, 1>>, <<2, 2>>}, {<<1, 2>>, <<2, 1>>}}

\* Three switches on a hub, as in stp_hub_topo.py, two of which are joined by
\* a cable as well: a loop, a segment where one of three ports is designated,
\* and, while switch 1 is down, two equally short ways between the others.
LoopCables == {{<<1, 1>>, <<2, 1>>, <<3, 1>>}, {<<2, 2>>, <<3, 2>>}}

PairPort == UNION PairCables
LoopPort == UNION LoopCables

PairSegment == Attached(PairCables)
LoopSegment == Attached(LoopCables)

\* The hypotheses of the theorems: no switch hears itself, and every switch is
\* some number of hops away from the one that is to become the root.
ASSUME NetworkAssumption ==
  /\ NoSelfLoop
  /\ \A s \in Switch : \E n \in 0..Cardinality(Switch) : Elects!Walk(MinRoot, s, n)
=============================================================================
