------------------------------ MODULE MCBcache ------------------------------
(* Bcache for TLC: a disk of zeros. *)
EXTENDS Bcache

MCBlank == [b \in Blocks |-> 0]
=============================================================================
