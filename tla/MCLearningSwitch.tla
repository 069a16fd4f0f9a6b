-------------------------- MODULE MCLearningSwitch --------------------------
(***************************************************************************)
(* The switches LearningSwitch is checked on.                              *)
(***************************************************************************)
EXTENDS LearningSwitch

\* The addresses of both hosts share a bucket.
OneBucket == [m \in Mac |-> 0]

\* The hosts begin on ports of their own; one of them may move to the port of
\* the other, up or down in the order they are served in.
ApartInit == SwitchInit /\ location = [h \in Host |-> h]
ApartSpec == ApartInit /\ [][SwitchNext]_switchVars /\ Fairness
=============================================================================
