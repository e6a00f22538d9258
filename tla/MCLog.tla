------------------------------- MODULE MCLog -------------------------------
(* Log for TLC: a disk of zeros, and fairness. *)
EXTENDS Log

MCBlank == [b \in Blocks |-> 0]

FairSpec == Spec /\ Fairness
=============================================================================
