----------------------------- MODULE SchedTable ----------------------------
(***************************************************************************)
(* The slots of ptable in Signal-Scheduler-xv6, which SigSched and         *)
(* PrioSched look at from two sides: who is where, and who goes next.      *)
(***************************************************************************)
EXTENDS Integers

CONSTANT NPROC     \* size of ptable

Slots == 1..NPROC
NoProc == 0
=============================================================================
