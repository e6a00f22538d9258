------------------------------- MODULE Mutex -------------------------------
(***************************************************************************)
(* What a sleep-lock promises its users: at most one holder, taken only    *)
(* when free, given up only by the holder.  SleepLock implements it.       *)
(***************************************************************************)
CONSTANTS Procs, None

VARIABLE holder

Init == holder = None

Acquire(p) == holder = None /\ holder' = p
Release(p) == holder = p /\ holder' = None

Next == \E p \in Procs : Acquire(p) \/ Release(p)

Spec == Init /\ [][Next]_holder
=============================================================================
