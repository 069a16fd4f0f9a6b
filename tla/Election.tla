------------------------------ MODULE Election ------------------------------
(***************************************************************************)
(* What the spanning tree program promises about the election: a switch    *)
(* that runs believes in a root and a cost; the belief is always true of   *)
(* the network (the root is that many hops away), and as long as the       *)
(* switch runs it changes only for the better.  How the switches hear of   *)
(* each other, and in which order, is left open.                           *)
(***************************************************************************)
EXTENDS Integers

CONSTANTS
  Switch,   \* the switch identities
  Link      \* the pairs of switches that hear each other

VARIABLES
  up,       \* the switches that run
  belief    \* the root every switch believes in, and its cost

vars == <<up, belief>>

Itself(s) == [root |-> s, cost |-> 0]

\* There is a walk of n hops from r to s.
Walk(r, s, n) ==
  \E via \in [0..n -> Switch] :
    /\ via[0] = r
    /\ via[n] = s
    /\ \A i \in 0..(n - 1) : <<via[i], via[i + 1]>> \in Link

\* b names a smaller root than c, or the same root at a lower cost.
Improves(b, c) == b.root < c.root \/ (b.root = c.root /\ b.cost < c.cost)

Init == /\ up = {}
        /\ belief = [s \in Switch |-> Itself(s)]

Join(s) == /\ s \notin up
           /\ up' = up \cup {s}
           /\ belief' = [belief EXCEPT ![s] = Itself(s)]

Leave(s) == /\ s \in up
            /\ up' = up \ {s}
            /\ belief' = [belief EXCEPT ![s] = Itself(s)]

Adopt(s) == /\ s \in up
            /\ Improves(belief'[s], belief[s])
            /\ Walk(belief'[s].root, s, belief'[s].cost)
            /\ \A t \in Switch \ {s} : belief'[t] = belief[t]
            /\ UNCHANGED up

Next == \E s \in Switch : Join(s) \/ Leave(s) \/ Adopt(s)

Spec == Init /\ [][Next]_vars
=============================================================================
