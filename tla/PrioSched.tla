------------------------------ MODULE PrioSched -----------------------------
(***************************************************************************)
(* The priorities of the scheduler of Signal-Scheduler-xv6 (proc.c), on the*)
(* one CPU its Makefile configures.  Every scan of the process table adds  *)
(* one to the waiting_time of each ready process and runs the one with the *)
(* highest dynamic priority                                                *)
(*                                                                         *)
(*     INIT_PRIORITY - ALPHA * total_ticks + BETA * waiting_time           *)
(*                                                                         *)
(* The rest of the kernel is what it does to these numbers and to who is   *)
(* ready: fork, sleep, wakeup, exit, the timer and the signals (SigSched   *)
(* has them step by step).                                                 *)
(***************************************************************************)
EXTENDS PrioAccounts, FiniteSets

CONSTANTS Limits,     \* exec_time arguments of custom_fork, -1 for none
          MaxPid      \* bound: the last pid nextpid may hand out

Sizes == /\ NPROC \in Nat \ {0, 1}
         /\ INIT_PRIORITY \in Int
         /\ ALPHA \in Nat /\ BETA \in Nat \ {0}
         /\ Limits \subseteq Int
         /\ MaxPid \in Nat \ {0, 1} /\ MaxTicks \in Nat

ASSUME PrioSchedAssumption == Sizes

VARIABLES state, pid, suspended,
          cpu,       \* c->proc; NoProc while the scheduler loops
          nextpid

accounts == <<pid, exec_time, total_ticks, waiting_time, nextpid>>
vars == <<accounts, state, suspended, cpu>>

Init == /\ state = [s \in Slots |-> IF s <= 2 THEN "RUNNABLE" ELSE "UNUSED"]
        /\ pid = [s \in Slots |-> IF s <= 2 THEN s ELSE 0]
        /\ suspended = [s \in Slots |-> FALSE]
        /\ exec_time = [s \in Slots |-> -1]
        /\ total_ticks = [s \in Slots |-> 0]
        /\ waiting_time = [s \in Slots |-> 0]
        /\ cpu = NoProc
        /\ nextpid = 3

-----------------------------------------------------------------------------
(* The scheduler *)

Ready == {s \in Slots : state[s] = "RUNNABLE" /\ ~suspended[s]}

\* A process whose execution time is over is not run again.
Candidates == {s \in Ready : ~Over(s)}

\* Mutant: only the processes that have never run wait.
WaitedNew == [s \in Slots |-> waiting_time[s] + IF s \in Ready /\ total_ticks[s] = 0 THEN 1 ELSE 0]

\* waiting_time after the first pass over the table
Waited == [s \in Slots |-> waiting_time[s] + IF s \in Ready THEN 1 ELSE 0]

Priority(s) == INIT_PRIORITY - ALPHA * total_ticks[s] + BETA * Waited[s]

\* Process s goes before t: by priority, then by pid.
Before(s, t) == \/ Priority(s) > Priority(t)
                \/ Priority(s) = Priority(t) /\ pid[s] <= pid[t]

\* The second pass makes zombies of those whose time is over.
Swept == [s \in Slots |-> IF s \in Ready /\ Over(s) THEN "ZOMBIE" ELSE state[s]]

\* A mutant for the runs: a process keeps its waiting time when it gets the CPU.
AfterDispatchKept(p) == Waited

\* The waiting times once p has been chosen
AfterDispatch(p) == [Waited EXCEPT ![p] = 0]

Dispatch(p) == /\ cpu = NoProc
               /\ p \in Candidates
               /\ \A q \in Candidates : Before(p, q)
               /\ state' = [Swept EXCEPT ![p] = "RUNNING"]
               /\ waiting_time' = AfterDispatch(p)
               /\ cpu' = p
               /\ UNCHANGED <<pid, suspended, exec_time, total_ticks, nextpid>>

\* A scan that finds nobody to run.
IdleScan == /\ cpu = NoProc
            /\ Candidates = {}
            /\ state' = Swept
            /\ waiting_time' = Waited
            /\ UNCHANGED <<pid, suspended, exec_time, total_ticks, cpu, nextpid>>

-----------------------------------------------------------------------------
(* What the process on the CPU does *)

\* fork and custom_fork; a child that is being built cannot be ready.
Fork(s, later, limit) ==
    /\ cpu # NoProc /\ nextpid <= MaxPid
    /\ state[s] = "UNUSED"
    /\ \A t \in 1..s - 1 : state[t] # "UNUSED"
    /\ state' = [state EXCEPT ![s] = IF later THEN "CREATED" ELSE "RUNNABLE"]
    /\ pid' = [pid EXCEPT ![s] = nextpid]
    /\ suspended' = [suspended EXCEPT ![s] = FALSE]
    /\ exec_time' = [exec_time EXCEPT ![s] = limit]
    /\ total_ticks' = [total_ticks EXCEPT ![s] = 0]
    /\ waiting_time' = [waiting_time EXCEPT ![s] = 0]
    /\ nextpid' = nextpid + 1
    /\ UNCHANGED cpu

SchedulerStart == /\ cpu # NoProc
                  /\ state' = [s \in Slots |-> IF state[s] = "CREATED" THEN "RUNNABLE" ELSE state[s]]
                  /\ UNCHANGED <<accounts, suspended, cpu>>

\* It gives up the CPU in state st: sleep, the yield of a suspended process,
\* exit; init stays.
Leave(st) == /\ cpu # NoProc
             /\ st = "RUNNABLE" => suspended[cpu]
             /\ st = "ZOMBIE" => cpu # 1
             /\ state' = [state EXCEPT ![cpu] = st]
             /\ cpu' = NoProc
             /\ UNCHANGED <<accounts, suspended>>

\* wait frees a zombie.
Reap(s) == /\ cpu # NoProc
           /\ state[s] = "ZOMBIE"
           /\ state' = [state EXCEPT ![s] = "UNUSED"]
           /\ pid' = [pid EXCEPT ![s] = 0]
           /\ UNCHANGED <<suspended, exec_time, total_ticks, waiting_time, cpu, nextpid>>

-----------------------------------------------------------------------------
(* Interrupts and signals *)

\* The timer counts a tick and preempts; a process whose time is over may be in
\* user space, where it exits instead.
Tick == /\ cpu # NoProc
        /\ state[cpu] = "RUNNING"
        /\ total_ticks' = [total_ticks EXCEPT ![cpu] =
                              IF suspended[cpu] \/ @ = MaxTicks THEN @ ELSE @ + 1]
        /\ \/ state' = [state EXCEPT ![cpu] = "RUNNABLE"] /\ cpu' = NoProc
           \/ /\ exec_time[cpu] > 0 /\ total_ticks'[cpu] >= exec_time[cpu]
              /\ UNCHANGED <<state, cpu>>
        /\ UNCHANGED <<pid, suspended, exec_time, waiting_time, nextpid>>

\* Any wakeup, and the signals that wake sleepers.
Wakeup(s) == /\ state[s] = "SLEEPING"
             /\ state' = [state EXCEPT ![s] = "RUNNABLE"]
             /\ UNCHANGED <<accounts, suspended, cpu>>

\* ^B: the shell, pid 2, is made ready.
SigBg == /\ state' = [s \in Slots |-> IF pid[s] = 2 THEN "RUNNABLE" ELSE state[s]]
         /\ suspended' = [s \in Slots |-> IF pid[s] = 2 THEN FALSE ELSE suspended[s] \/ pid[s] > 2]
         /\ UNCHANGED <<accounts, cpu>>

SigFg == /\ state' = [s \in Slots |-> IF suspended[s] /\ state[s] \notin {"ZOMBIE", "UNUSED"}
                                      THEN "RUNNABLE" ELSE state[s]]
         /\ suspended' = [s \in Slots |-> FALSE]
         /\ UNCHANGED <<accounts, cpu>>

-----------------------------------------------------------------------------

Next == \/ \E p \in Slots : Dispatch(p) \/ Reap(p) \/ Wakeup(p)
        \/ \E s \in Slots, later \in BOOLEAN, limit \in Limits : Fork(s, later, limit)
        \/ \E st \in {"SLEEPING", "RUNNABLE", "ZOMBIE"} : Leave(st)
        \/ IdleScan \/ SchedulerStart \/ Tick \/ SigBg \/ SigFg

Spec == Init /\ [][Next]_vars

-----------------------------------------------------------------------------
(* Properties *)

TypeOK == /\ state \in [Slots -> {"UNUSED", "SLEEPING", "RUNNABLE", "RUNNING", "ZOMBIE", "CREATED"}]
          /\ pid \in [Slots -> Nat]
          /\ suspended \in [Slots -> BOOLEAN]
          /\ exec_time \in [Slots -> Limits \cup {-1}]
          /\ total_ticks \in [Slots -> Nat]
          /\ waiting_time \in [Slots -> Nat]
          /\ cpu \in Slots \cup {NoProc}
          /\ nextpid \in Nat

\* The reason that WaitBounded holds: the higher the priority, the fewer have it.
Urgent(k) == {s \in Slots : ~Over(s) /\ Boost(s) > BETA * k}
Thinning == \A k \in 0..NPROC - 1 : Cardinality(Urgent(k)) <= NPROC - 1 - k

\* A process that the scheduler finds ready infinitely often runs infinitely often.
\* (This is the strong fairness that SigSched assumes of its Dispatch.)
NotPassedOver == \A p \in Slots :
    []<><<cpu = NoProc /\ p \in Candidates /\ cpu' # NoProc>>_vars => []<>(cpu = p)
=============================================================================
