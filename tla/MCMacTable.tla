----------------------------- MODULE MCMacTable -----------------------------
(***************************************************************************)
(* The tables MacTable is checked on.                                      *)
(***************************************************************************)
EXTENDS MacTable

\* The members of Mac are integers here.  Two buckets: the addresses 1 and 2
\* share one, and 3 has the other.
TwoBuckets == [m \in Mac |-> IF m = 3 THEN 1 ELSE 0]
=============================================================================
