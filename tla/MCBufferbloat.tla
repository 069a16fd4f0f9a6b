--------------------------- MODULE MCBufferbloat ---------------------------
(***************************************************************************)
(* The suites Bufferbloat is checked on.                                   *)
(***************************************************************************)
EXTENDS Bufferbloat

\* One scenario of each script.
TwoScenarios == <<"qlen-20", "codel">>
TheirMonitors == [s \in {"qlen-20", "codel"} |->
                   IF s = "codel" THEN <<"rtt">> ELSE <<"cwnd", "qlen", "rtt">>]

OneScenario == <<"codel">>
ItsMonitors == [s \in {"codel"} |-> <<"rtt">>]
=============================================================================
