----------------------------- MODULE SleepLock -----------------------------
(***************************************************************************)
(* One sleep-lock of the xv6 kernel (sleeplock.c), down to the two         *)
(* spinlocks it is built from and the scheduler that runs its users:       *)
(*                                                                         *)
(*   lk      the spinlock lk->lk inside the sleep-lock                     *)
(*   ptlock  ptable.lock, which sleep(), wakeup(), yield() and the         *)
(*           scheduler hold while they change a process's state            *)
(*                                                                         *)
(* A step is what one CPU does between two accesses to shared state that   *)
(* another CPU can observe.  A spinning acquire() runs with interrupts     *)
(* off, so a process at a "..._spin" label is never preempted; "user",     *)
(* "cs" and "woken" are the labels where the timer may force a yield().    *)
(***************************************************************************)
EXTENDS Naturals, FiniteSets

CONSTANTS Procs,  \* the processes that use the lock
          NCPU,   \* number of CPUs
          None    \* no process: a free spinlock, lk->pid = 0

Scheduler == "scheduler"   \* ptable.lock held by some CPU's scheduler()

ASSUME ProcsAssumption == /\ IsFiniteSet(Procs)
                          /\ None \notin Procs
                          /\ Scheduler \notin Procs \cup {None}
ASSUME NCPUAssumption == NCPU \in Nat \ {0}

VARIABLES lk,      \* who holds lk->lk
          ptlock,  \* who holds ptable.lock
          locked,  \* lk->locked
          owner,   \* lk->pid
          state,   \* p->state
          chan,    \* p->chan = lk
          place    \* where p is in the code

lockVars == <<lk, ptlock, locked, owner, state, chan, place>>

Labels == {"user", "a_spin", "a_test", "s_spin", "s_rel", "s_set", "s_sched",
           "woken", "cs", "h_spin", "h_test", "r_spin", "r_clear", "w_spin",
           "w_wake", "r_rel", "panic"}

Preemptible == {"user", "woken", "cs"}   \* labels with interrupts enabled

\* The number of CPUs running a process; the others are in scheduler().
Busy == Cardinality({p \in Procs : state[p] = "RUNNING"})

\* p is at label l on some CPU, and not still inside sched(): a process the
\* scheduler has just switched to holds ptable.lock until it returns from it.
At(p, l) == /\ state[p] = "RUNNING"
            /\ place[p] = l
            /\ l \in Preemptible => ptlock # p

Goto(p, l) == place' = [place EXCEPT ![p] = l]

LockInit == /\ lk = None
            /\ ptlock = None
            /\ locked = FALSE
            /\ owner = None
            /\ state = [p \in Procs |-> "RUNNABLE"]
            /\ chan = [p \in Procs |-> FALSE]
            /\ place = [p \in Procs |-> "user"]

-----------------------------------------------------------------------------
(* acquiresleep *)

AcquireCall(p) == /\ At(p, "user")
                  /\ Goto(p, "a_spin")
                  /\ UNCHANGED <<lk, ptlock, locked, owner, state, chan>>

\* acquire(&lk->lk) by the spinning process p
TakeLk(p, from, to) == /\ At(p, from)
                       /\ lk = None
                       /\ lk' = p
                       /\ Goto(p, to)
                       /\ UNCHANGED <<ptlock, locked, owner, state, chan>>

\* acquire(&ptable.lock) by the spinning process p
TakePtable(p, from, to) == /\ At(p, from)
                           /\ ptlock = None
                           /\ ptlock' = p
                           /\ Goto(p, to)
                           /\ UNCHANGED <<lk, locked, owner, state, chan>>

AcquireSpin(p) == TakeLk(p, "a_spin", "a_test")

\* Mutant: the while test dropped.
AcquireGetUntested(p) == /\ At(p, "a_test")
                         /\ locked' = TRUE
                         /\ owner' = p
                         /\ lk' = None
                         /\ Goto(p, "cs")
                         /\ UNCHANGED <<ptlock, state, chan>>

\* while (lk->locked) fails: take the lock and release(&lk->lk)
AcquireGet(p) == /\ At(p, "a_test")
                 /\ ~locked
                 /\ locked' = TRUE
                 /\ owner' = p
                 /\ lk' = None
                 /\ Goto(p, "cs")
                 /\ UNCHANGED <<ptlock, state, chan>>

\* Mutant: lk->lk released before sleep() has ptable.lock.
AcquireBusyRelease(p) == /\ At(p, "a_test")
                         /\ locked
                         /\ lk' = None
                         /\ Goto(p, "s_spin")
                         /\ UNCHANGED <<ptlock, locked, owner, state, chan>>

\* lk->locked is set: call sleep(lk, &lk->lk)
AcquireBusy(p) == /\ At(p, "a_test")
                  /\ locked
                  /\ Goto(p, "s_spin")
                  /\ UNCHANGED <<lk, ptlock, locked, owner, state, chan>>

-----------------------------------------------------------------------------
(* sleep: take ptable.lock, release lk->lk, mark SLEEPING, sched *)

SleepSpin(p) == TakePtable(p, "s_spin", "s_rel")

SleepRelease(p) == /\ At(p, "s_rel")
                   /\ lk' = None
                   /\ Goto(p, "s_set")
                   /\ UNCHANGED <<ptlock, locked, owner, state, chan>>

SleepSched(p) == /\ At(p, "s_set")
                 /\ chan' = [chan EXCEPT ![p] = TRUE]
                 /\ state' = [state EXCEPT ![p] = "SLEEPING"]
                 /\ ptlock' = Scheduler
                 /\ Goto(p, "s_sched")
                 /\ UNCHANGED <<lk, locked, owner>>

\* back from sched(): p->chan = 0, release(&ptable.lock)
SleepReturn(p) == /\ At(p, "s_sched")
                  /\ chan' = [chan EXCEPT ![p] = FALSE]
                  /\ ptlock' = None
                  /\ Goto(p, "woken")
                  /\ UNCHANGED <<lk, locked, owner, state>>

\* acquire(lk): spin for lk->lk again, then back to the while test
SleepReacquire(p) == /\ At(p, "woken")
                     /\ Goto(p, "a_spin")
                     /\ UNCHANGED <<lk, ptlock, locked, owner, state, chan>>

-----------------------------------------------------------------------------
(* releasesleep, which every caller precedes with a holdingsleep check *)

ReleaseCall(p) == /\ At(p, "cs")
                  /\ Goto(p, "h_spin")
                  /\ UNCHANGED <<lk, ptlock, locked, owner, state, chan>>

HoldingSpin(p) == TakeLk(p, "h_spin", "h_test")

\* holdingsleep's test and release; the caller panics when it fails
HoldingTest(p) == /\ At(p, "h_test")
                  /\ lk' = None
                  /\ Goto(p, IF locked /\ owner = p THEN "r_spin" ELSE "panic")
                  /\ UNCHANGED <<ptlock, locked, owner, state, chan>>

ReleaseSpin(p) == TakeLk(p, "r_spin", "r_clear")

ReleaseClear(p) == /\ At(p, "r_clear")
                   /\ locked' = FALSE
                   /\ owner' = None
                   /\ Goto(p, "w_spin")
                   /\ UNCHANGED <<lk, ptlock, state, chan>>

WakeupSpin(p) == TakePtable(p, "w_spin", "w_wake")

\* Mutant: the loop wakes nobody.
Wakeup1None(st) == st

\* wakeup1's loop over ptable
Wakeup1(st) == [q \in Procs |-> IF st[q] = "SLEEPING" /\ chan[q]
                                THEN "RUNNABLE" ELSE st[q]]

WakeupAll(p) == /\ At(p, "w_wake")
                /\ state' = Wakeup1(state)
                /\ ptlock' = None
                /\ Goto(p, "r_rel")
                /\ UNCHANGED <<lk, locked, owner, chan>>

ReleaseDone(p) == /\ At(p, "r_rel")
                  /\ lk' = None
                  /\ Goto(p, "user")
                  /\ UNCHANGED <<ptlock, locked, owner, state, chan>>

-----------------------------------------------------------------------------
(* The scheduler, the timer and kill *)

\* A timer interrupt at a label with interrupts on: yield()
Yield(p) == /\ place[p] \in Preemptible
            /\ At(p, place[p])
            /\ ptlock = None
            /\ ptlock' = Scheduler
            /\ state' = [state EXCEPT ![p] = "RUNNABLE"]
            /\ UNCHANGED <<lk, locked, owner, chan, place>>

\* yield() returns from sched() and releases ptable.lock
YieldReturn(p) == /\ state[p] = "RUNNING"
                  /\ place[p] \in Preemptible
                  /\ ptlock = p
                  /\ ptlock' = None
                  /\ UNCHANGED <<lk, locked, owner, state, chan, place>>

\* scheduler() on an idle CPU starts a scan of ptable
SchedAcquire == /\ ptlock = None
                /\ Busy < NCPU
                /\ ptlock' = Scheduler
                /\ UNCHANGED <<lk, locked, owner, state, chan, place>>

\* the scan reaches the RUNNABLE p and switches to it
SchedPick(p) == /\ ptlock = Scheduler
                /\ state[p] = "RUNNABLE"
                /\ state' = [state EXCEPT ![p] = "RUNNING"]
                /\ ptlock' = p
                /\ UNCHANGED <<lk, locked, owner, chan, place>>

\* the scan ends
SchedRelease == /\ ptlock = Scheduler
                /\ ptlock' = None
                /\ UNCHANGED <<lk, locked, owner, state, chan, place>>

\* kill(p->pid) by somebody else: a wakeup that has nothing to do with the lock
Kill(p) == /\ ptlock = None
           /\ state[p] = "SLEEPING"
           /\ state' = [state EXCEPT ![p] = "RUNNABLE"]
           /\ UNCHANGED <<lk, ptlock, locked, owner, chan, place>>

-----------------------------------------------------------------------------

\* p's own steps in the lock code.
Step(p) == \/ AcquireSpin(p) \/ AcquireGet(p) \/ AcquireBusy(p)
           \/ SleepSpin(p) \/ SleepRelease(p) \/ SleepSched(p)
           \/ SleepReturn(p) \/ SleepReacquire(p)
           \/ ReleaseCall(p) \/ HoldingSpin(p) \/ HoldingTest(p)
           \/ ReleaseSpin(p) \/ ReleaseClear(p)
           \/ WakeupSpin(p) \/ WakeupAll(p) \/ ReleaseDone(p)

LockNext == \/ \E p \in Procs : \/ AcquireCall(p) \/ Step(p)
                                \/ Yield(p) \/ YieldReturn(p)
                                \/ SchedPick(p) \/ Kill(p)
            \/ SchedAcquire
            \/ SchedRelease

LockSpec == LockInit /\ [][LockNext]_lockVars

(***************************************************************************)
(* Fairness.  A process that runs again and again executes its next        *)
(* instruction (the timer leaves it time for one); an acquire() whose      *)
(* lock is free again and again wins the xchg some time (an assumption on  *)
(* the hardware).  The timer interrupts every CPU again and again          *)
(* (trap.c), and every scan of ptable visits                               *)
(* every slot, so a process RUNNABLE scan after scan is switched to.       *)
(* kill() and user code, which need not call acquiresleep, owe nothing.    *)
(***************************************************************************)
LockFairness == /\ \A p \in Procs : /\ SF_lockVars(Step(p))
                                    /\ SF_lockVars(Yield(p)) /\ WF_lockVars(YieldReturn(p))
                                    /\ SF_lockVars(SchedPick(p))
                /\ SF_lockVars(SchedAcquire)
                /\ WF_lockVars(SchedRelease)

FairLockSpec == LockSpec /\ LockFairness

-----------------------------------------------------------------------------
(* Properties *)

LockTypeOK == /\ lk \in Procs \cup {None}
              /\ ptlock \in Procs \cup {None, Scheduler}
              /\ locked \in BOOLEAN
              /\ owner \in Procs \cup {None}
              /\ state \in [Procs -> {"RUNNABLE", "RUNNING", "SLEEPING"}]
              /\ chan \in [Procs -> BOOLEAN]
              /\ place \in [Procs -> Labels]

\* p is between the return of acquiresleep and lk->locked = 0 in releasesleep.
Holds(p) == place[p] \in {"cs", "h_spin", "h_test", "r_spin", "r_clear"}

\* At most one process is between acquiresleep and releasesleep, across the
\* sleep, the spurious wakeup and the preemption of any of them.
MutualExclusion == \A p, q \in Procs : Holds(p) /\ Holds(q) => p = q

\* No lost wakeup: a process asleep on the lock has someone who will wake it,
\* the holder or a releaser that has cleared lk->locked and not yet run wakeup1.
\* (sleep() may release lk->lk only after it has taken ptable.lock.)
NoLostWakeup == \A p \in Procs :
    state[p] = "SLEEPING" =>
        locked \/ \E q \in Procs : place[q] \in {"w_spin", "w_wake"}

\* A process off the CPU holds neither spinlock (sched()'s panics "sched locks"
\* and "sched ptable.lock"): otherwise every CPU could spin for a lock whose
\* holder waits for a CPU.
OffCpuHoldsNoSpinlock == \A p \in Procs :
    state[p] # "RUNNING" => lk # p /\ ptlock # p

\* The holder is never refused by the holdingsleep check of brelse and iunlock.
NeverPanics == \A p \in Procs : place[p] # "panic"

\* p is inside acquiresleep.
Trying(p) == place[p] \in {"a_spin", "a_test", "s_spin", "s_rel", "s_set", "s_sched", "woken"}

\* Progress: while someone tries, someone gets the lock.
Progress == (\E p \in Procs : Trying(p)) ~> (\E p \in Procs : Holds(p))

\* The sleep-lock implements the abstract mutex.
MX == INSTANCE Mutex WITH holder <- owner
ImplementsMutex == MX!Spec

=============================================================================
