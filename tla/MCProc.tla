------------------------------- MODULE MCProc -------------------------------
(* Proc for TLC: the fair specifications. *)
EXTENDS Proc

CONSTANTS Ticks,  \* the channel the clock wakes (&ticks)
          Pipe    \* a channel nobody need ever wake (an idle pipe or keyboard)

FairSpec == Spec /\ Fairness(Chans \cap {Ticks})
=============================================================================
