---------------------------- MODULE PrioAccounts ---------------------------
(***************************************************************************)
(* The numbers that struct proc of Signal-Scheduler-xv6 keeps for the      *)
(* scheduler (proc.h), and what they promise a process: bounded waiting.   *)
(* PrioSched has the steps that change them.                               *)
(***************************************************************************)
EXTENDS SchedTable

CONSTANTS INIT_PRIORITY, ALPHA, BETA,
          MaxTicks    \* bound: total_ticks is not counted further

VARIABLES exec_time, total_ticks, waiting_time

\* A process whose execution time is over is not run again.
Over(s) == exec_time[s] > 0 /\ total_ticks[s] >= exec_time[s]

\* How far s has come above the priority it started with.
Boost(s) == BETA * waiting_time[s] - ALPHA * total_ticks[s]

\* Bounded waiting: however the others fork, sleep and signal, a process is passed
\* over at most NPROC - 1 times more than its own CPU time costs it.
WaitBounded == \A s \in Slots : ~Over(s) => Boost(s) <= BETA * (NPROC - 1)
=============================================================================
