----------------------------- MODULE MCSigSched -----------------------------
(* SigSched for TLC, with fairness for the liveness runs. *)
EXTENDS SigSched

NoLimit == {-1}
TwoTicks == {2}
OneTick == {1}

FairSpec == Spec /\ Fairness
=============================================================================
