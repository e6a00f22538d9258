---------------------------- MODULE MCPrioSched -----------------------------
(* PrioSched for TLC. *)
EXTENDS PrioSched

MCLimits == {-1, 1}
=============================================================================
