------------------------------- MODULE MCHub -------------------------------
(***************************************************************************)
(* The network of ring_topo.py: three stations in a ring, a host at two.   *)
(***************************************************************************)
EXTENDS Hub

RingIface == [b1 |-> <<"h1", "b2", "b3">>, b2 |-> <<"h2", "b1", "b3">>,
              b3 |-> <<"b2", "b1">>]

\* h1 sends a frame, and the kernel of b3 sends one to b1.
RingOrigin == [f |-> <<"h1", "b1">>, k |-> <<"b3", "b1">>]

\* three_nodes_bw.py: one station and three hosts.
StarIface == [b1 |-> <<"h1", "h2", "h3">>]
StarOrigin == [f |-> <<"h1", "b1">>]

\* The hypothesis of the proof of OpenRingDeliversOnce.
ASSUME RingAssumption == Inner # {} => IsRing

\* A frame sent into the closed ring is given to every host again and again,
\* for as long as the hubs run: nothing in a hub or in the frame ends it.
StormNeverEnds ==
  \A f \in Frame : \A h \in Host :
    <>[](f \in intact) => []<>Nears(f, h)

\* A ring that stays open falls silent once the frames sent are delivered.
OpenRingFallsSilent ==
  []~(Inner \subseteq used) => <>[](\A f \in Frame : Waiting(f, Port) = 0)
=============================================================================
