-------------------------- MODULE ForwardingTable --------------------------
(***************************************************************************)
(* What the MAC table of the switch promises to handle_packet: it knows at *)
(* most one port for an address, the one it was told last; it forgets an   *)
(* address only when it has not been told of it for more than              *)
(* MAC_PORT_TIMEOUT seconds, and before that is Limit seconds ago.         *)
(* Buckets, lists, the lock and the two threads are not visible here.      *)
(***************************************************************************)
EXTENDS Integers

CONSTANTS
  Mac,               \* the addresses
  Iface,             \* the ports of the switch
  NULL,              \* no port
  MAC_PORT_TIMEOUT,  \* how long an address is remembered
  MaxDelay,          \* how late the table hears of a frame
  Limit              \* no address is remembered for longer

VARIABLES
  port,    \* the port known for each address, or NULL
  age,     \* how long ago each known address was seen
  answer   \* the answer to the last question

vars == <<port, age, answer>>

TypeOK == /\ port \in [Mac -> Iface \cup {NULL}]
          /\ age \in [Mac -> Nat]
          /\ answer \in Iface \cup {NULL}

Init == /\ port = [m \in Mac |-> NULL]
        /\ age = [m \in Mac |-> 0]
        /\ answer = NULL

\* A frame from m came in on port i, a moment ago.
Learn(m, i) == /\ port' = [port EXCEPT ![m] = i]
               /\ \E a \in 0..MaxDelay : age' = [age EXCEPT ![m] = a]
               /\ UNCHANGED answer

Forget(m) == /\ port[m] # NULL
             /\ age[m] > MAC_PORT_TIMEOUT
             /\ port' = [port EXCEPT ![m] = NULL]
             /\ age' = [age EXCEPT ![m] = 0]
             /\ UNCHANGED answer

Ask(m) == /\ answer' = port[m]
          /\ UNCHANGED <<port, age>>

Tick == /\ \A m \in Mac : port[m] # NULL => age[m] < Limit
        /\ age' = [m \in Mac |-> IF port[m] = NULL THEN 0 ELSE age[m] + 1]
        /\ UNCHANGED <<port, answer>>

Next == \/ \E m \in Mac : Forget(m) \/ Ask(m) \/ \E i \in Iface : Learn(m, i)
        \/ Tick

Spec == Init /\ [][Next]_vars
=============================================================================
