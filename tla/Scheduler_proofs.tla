-------------------------- MODULE Scheduler_proofs --------------------------
(***************************************************************************)
(* Proofs about SigSched for kernels on which nobody presses ^B, for any   *)
(* number of slots: that the process states tell the truth about the CPU,  *)
(* that the scheduler runs no process that fork has not finished or that   *)
(* has exited, and where a time limit ends a process; and, where no        *)
(* process has a limit, that no exit is lost and every file-system call    *)
(* ends.  What ^B and the limits break is in the README.                   *)
(***************************************************************************)
EXTENDS SigSched, PrioAccounts, FiniteSetTheorems, TLAPS

States == {"UNUSED", "EMBRYO", "SLEEPING", "RUNNABLE", "RUNNING", "ZOMBIE", "CREATED"}

\* The states of a process that fork has finished and exit has not
Started == {"SLEEPING", "RUNNABLE", "RUNNING", "CREATED"}

\* Where a fork owns a child
Building == {"fork_init", "fork_copy", "fork_done"}

NoLimits == Limits \subseteq {-1}

-----------------------------------------------------------------------------
(* The inductive invariant, in parts                                          *)

ValuesInv ==
    /\ state \in [Slots -> States] /\ pid \in [Slots -> Nat]
    /\ parent \in [Slots -> Slots \cup {NoProc}]
    /\ killed \in [Slots -> BOOLEAN] /\ built \in [Slots -> BOOLEAN]
    /\ suspended = [s \in Slots |-> FALSE]
    /\ left \in [Slots -> Int] /\ pc \in [Slots -> Labels]
    /\ np \in [Slots -> Slots \cup {NoProc}] /\ cpu \in Slots \cup {NoProc}
    /\ nextpid \in Nat \ {0}

\* A trap that has yielded is over when its process has the CPU again.
CpuInv == /\ \A p \in Slots : state[p] = "RUNNING" <=> cpu = p
          /\ \A p \in Slots : cpu = p => pc[p] # "tail"

\* A child that fork builds is an embryo and nobody else's; at the end it is ready to
\* return to user space.
BuildInv == \A p \in Slots : pc[p] \in Building =>
    /\ np[p] \in Slots /\ state[np[p]] = "EMBRYO"
    /\ pc[p] = "fork_done" => built[np[p]] /\ pc[np[p]] = "user"
    /\ \A q \in Slots : pc[q] \in Building /\ np[q] = np[p] => q = p

\* A process that may come to run has a page table, and has not exited.
StartedInv == \A p \in Slots : state[p] \in Started => built[p] /\ pc[p] # "gone"

\* A process out of time is in the kernel, and killed while it runs there.
TimeInv ==
    /\ \A p \in Slots : pc[p] \in {"user", "tail"} => left[p] # 0 /\ state[p] # "ZOMBIE"
    /\ \A p \in Slots : cpu = p /\ left[p] = 0 => killed[p]

\* init has no parent and stays, and nobody is its own parent.
FamilyInv == /\ parent[initproc] = NoProc /\ state[initproc] \notin {"UNUSED", "EMBRYO"}
             /\ \A p \in Slots : parent[p] # p

\* Without limits, the scheduler makes no zombies.
LimitlessInv == NoLimits => left = [s \in Slots |-> -1]

SleepersInv == NoLimits => NoLostExit

\* Nothing dead or unborn, whatever is left in its slot, is in a file-system call.
OpsInv == NoLimits => \A p \in Slots :
              pc[p] \in FsLabels => state[p] \notin {"UNUSED", "EMBRYO", "ZOMBIE"}

NoBadRun == panic \in {"none", "init exiting"}

IInv == /\ ValuesInv /\ CpuInv /\ BuildInv /\ StartedInv /\ TimeInv /\ FamilyInv
        /\ LimitlessInv /\ SleepersInv /\ OpsInv /\ NoBadRun

\* init has a slot, and no slot is NoProc.
LEMMA SlotNames == initproc \in Slots /\ NoProc \notin Slots
  BY SigSchedAssumption DEF Slots, initproc, NoProc

\* wakeup1 makes ready some that sleep in wait, and changes nothing else.
LEMMA WakeupWakes ==
    ASSUME NEW st \in [Slots -> States], NEW q \in Slots
    PROVE  /\ Wakeup1(st, q) \in [Slots -> States]
           /\ \A s \in Slots : \/ Wakeup1(st, q)[s] = st[s]
                               \/ st[s] = "SLEEPING" /\ pc[s] = "wait" /\ Wakeup1(st, q)[s] = "RUNNABLE"
<1> DEFINE w == IF st[q] = "SLEEPING" /\ pc[q] = "wait" THEN "RUNNABLE" ELSE st[q]
<1>1. w \in States
  BY DEF States
<1>2. Wakeup1(st, q) = [st EXCEPT ![q] = w]
  BY DEF Wakeup1
<1>3. \/ w = st[q]
      \/ st[q] = "SLEEPING" /\ pc[q] = "wait" /\ w = "RUNNABLE"
  OBVIOUS
<1> HIDE DEF w
<1> QED BY <1>1, <1>2, <1>3

-----------------------------------------------------------------------------
(* System calls                                                              *)

\* A process enters a system call, or exits if it is killed.
LEMMA SyscallKeeps ==
    ASSUME IInv, NEW p \in Slots, NEW call \in {"fork", "wait", "start", "fs", "exit"},
           Syscall(p, call)
    PROVE  IInv'
<1> USE SlotNames DEF initproc, NoProc
<1>1. cpu = p /\ state[p] = "RUNNING" /\ pc[p] = "user" /\ panic = "none"
  BY DEF IInv, ValuesInv, CpuInv, At, Syscall
<1>2. ValuesInv'
  BY <1>1 DEF IInv, ValuesInv, States, Labels, Syscall, At, Goto, Onward, table
<1>3. CpuInv'
  BY <1>1 DEF IInv, ValuesInv, CpuInv, Syscall, At, Goto, Onward, table
<1>4. BuildInv'
  BY <1>1 DEF IInv, ValuesInv, CpuInv, BuildInv, Building, Syscall, At, Goto, Onward, table
<1>5. StartedInv'
  BY <1>1 DEF IInv, ValuesInv, CpuInv, StartedInv, Started, Syscall, At, Goto, Onward, table
<1>6. TimeInv'
  BY <1>1 DEF IInv, ValuesInv, CpuInv, TimeInv, Syscall, At, Goto, Onward, table
<1>7. SleepersInv'
  BY <1>1 DEF IInv, ValuesInv, CpuInv, SleepersInv, NoLostExit, Zombies, Kids, Syscall, At,
     Goto, Onward, table
<1>8. OpsInv'
  BY <1>1 DEF IInv, ValuesInv, CpuInv, OpsInv, FsLabels, Syscall, At, Goto, Onward, table
<1>9. FamilyInv' /\ LimitlessInv' /\ NoBadRun'
  BY DEF IInv, FamilyInv, LimitlessInv, NoLimits, NoBadRun, Syscall, At, Goto, Onward, table
<1> QED BY <1>2, <1>3, <1>4, <1>5, <1>6, <1>7, <1>8, <1>9 DEF IInv

\* A system call ends.
LEMMA ReturnKeeps ==
    ASSUME IInv, NEW p \in Slots, Return(p)
    PROVE  IInv'
<1> USE SlotNames DEF initproc, NoProc
<1>1. cpu = p /\ state[p] = "RUNNING" /\ pc[p] = "return" /\ panic = "none"
  BY DEF IInv, ValuesInv, CpuInv, At, Return
<1>2. ValuesInv'
  BY <1>1 DEF IInv, ValuesInv, States, Labels, Return, At, Goto, Onward, table
<1>3. CpuInv'
  BY <1>1 DEF IInv, ValuesInv, CpuInv, Return, At, Goto, Onward, table
<1>4. BuildInv'
  BY <1>1 DEF IInv, ValuesInv, CpuInv, BuildInv, Building, Return, At, Goto, Onward, table
<1>5. StartedInv'
  BY <1>1 DEF IInv, ValuesInv, CpuInv, StartedInv, Started, Return, At, Goto, Onward, table
<1>6. TimeInv'
  BY <1>1 DEF IInv, ValuesInv, CpuInv, TimeInv, Return, At, Goto, Onward, table
<1>7. SleepersInv'
  BY <1>1 DEF IInv, ValuesInv, CpuInv, SleepersInv, NoLostExit, Zombies, Kids, Return, At,
     Goto, Onward, table
<1>8. OpsInv'
  BY <1>1 DEF IInv, ValuesInv, CpuInv, OpsInv, FsLabels, Return, At, Goto, Onward, table
<1>9. FamilyInv' /\ LimitlessInv' /\ NoBadRun'
  BY DEF IInv, FamilyInv, LimitlessInv, NoLimits, NoBadRun, Return, At, Goto, Onward, table
<1> QED BY <1>2, <1>3, <1>4, <1>5, <1>6, <1>7, <1>8, <1>9 DEF IInv

\* allocproc takes a slot that nobody uses, so no other fork builds in it.
LEMMA ForkAllocKeeps ==
    ASSUME IInv, NEW p \in Slots, ForkAlloc(p)
    PROVE  IInv'
<1> USE SlotNames DEF initproc, NoProc
<1>1. cpu = p /\ state[p] = "RUNNING" /\ pc[p] = "fork" /\ panic = "none"
  BY DEF IInv, ValuesInv, CpuInv, At, ForkAlloc
<1>2. ValuesInv'
  <2>1. CASE Unused = {}
    BY <1>1, <2>1 DEF IInv, ValuesInv, Labels, ForkAlloc, Goto, ForkFailed
  <2>2. CASE Unused # {}
    <3>1. PICK s \in Slots : /\ state' = [state EXCEPT ![s] = "EMBRYO"] /\ pid' = [pid EXCEPT ![s] = nextpid]
                             /\ nextpid' = nextpid + 1 /\ built' = [built EXCEPT ![s] = FALSE]
                             /\ np' = [np EXCEPT ![p] = s] /\ pc' = [pc EXCEPT ![p] = "fork_init"]
      BY <2>2 DEF ForkAlloc, Goto, Unused
    <3>2. UNCHANGED <<parent, killed, suspended, left, cpu>>
      BY DEF ForkAlloc
    <3> QED BY <3>1, <3>2 DEF IInv, ValuesInv, States, Labels
  <2> QED BY <2>1, <2>2
<1>3. CpuInv'
  BY <1>1 DEF IInv, ValuesInv, CpuInv, ForkAlloc, At, Goto, ForkFailed, Unused, IsFirst
<1>4. BuildInv'
  BY <1>1 DEF IInv, ValuesInv, CpuInv, BuildInv, Building, ForkAlloc, At, Goto, ForkFailed,
     Unused, IsFirst
<1>5. StartedInv'
  BY <1>1 DEF IInv, ValuesInv, CpuInv, StartedInv, Started, ForkAlloc, At, Goto,
     ForkFailed, Unused, IsFirst
<1>6. TimeInv'
  BY <1>1 DEF IInv, ValuesInv, CpuInv, TimeInv, ForkAlloc, At, Goto, ForkFailed, Unused,
     IsFirst
<1>7. FamilyInv'
  BY <1>1 DEF IInv, ValuesInv, CpuInv, FamilyInv, ForkAlloc, At, Goto, ForkFailed, Unused,
     IsFirst
<1>8. SleepersInv'
  BY <1>1 DEF IInv, ValuesInv, CpuInv, SleepersInv, NoLostExit, Zombies, Kids, ForkAlloc,
     At, Goto, ForkFailed, Unused, IsFirst
<1>9. OpsInv'
  BY <1>1 DEF IInv, ValuesInv, CpuInv, OpsInv, FsLabels, ForkAlloc, At, Goto, ForkFailed,
     Unused, IsFirst
<1>10. LimitlessInv' /\ NoBadRun'
  BY DEF IInv, LimitlessInv, NoLimits, NoBadRun, ForkAlloc, At, Goto, ForkFailed, Unused,
     IsFirst
<1> QED BY <1>2, <1>3, <1>4, <1>5, <1>6, <1>7, <1>8, <1>9, <1>10 DEF IInv

\* The rest of allocproc.
LEMMA ForkInitKeeps ==
    ASSUME IInv, NEW p \in Slots, ForkInit(p)
    PROVE  IInv'
<1> USE SlotNames DEF initproc, NoProc
<1>1. cpu = p /\ state[p] = "RUNNING" /\ pc[p] = "fork_init" /\ panic = "none"
  BY DEF IInv, ValuesInv, CpuInv, At, ForkInit
<1>2. np[p] \in Slots /\ np[p] # p /\ state[np[p]] = "EMBRYO"
  BY <1>1 DEF IInv, BuildInv, Building
<1>3. suspended' = suspended
  BY <1>2 DEF IInv, ValuesInv, ForkInit
<1>4. ValuesInv'
  <2>1. left' \in [Slots -> Int]
    <3>1. left' = [left EXCEPT ![np[p]] = -1]
      BY DEF ForkInit
    <3>2. left \in [Slots -> Int] /\ -1 \in Int
      BY DEF IInv, ValuesInv
    <3> HIDE DEF NoProc, initproc
    <3> QED BY <3>1, <3>2
  <2>2. pc' \in [Slots -> Labels]
    BY DEF IInv, ValuesInv, Labels, ForkInit, Goto
  <2>3. UNCHANGED <<state, pid, parent, killed, built, np, cpu, nextpid>>
    BY DEF ForkInit
  <2> QED BY <1>3, <2>1, <2>2, <2>3 DEF IInv, ValuesInv
<1>5. CpuInv'
  BY <1>1, <1>2, <1>3 DEF IInv, ValuesInv, CpuInv, ForkInit, At, Goto
<1>6. BuildInv'
  BY <1>1, <1>2, <1>3 DEF IInv, ValuesInv, CpuInv, BuildInv, Building, ForkInit, At, Goto
<1>7. StartedInv'
  BY <1>1, <1>2, <1>3 DEF IInv, ValuesInv, CpuInv, StartedInv, Started, ForkInit, At, Goto
<1>8. TimeInv'
  BY <1>1, <1>2, <1>3 DEF IInv, ValuesInv, CpuInv, TimeInv, ForkInit, At, Goto
<1>9. LimitlessInv'
  BY <1>1, <1>2, <1>3 DEF IInv, ValuesInv, LimitlessInv, NoLimits, ForkInit, At, Goto
<1>10. SleepersInv'
  BY <1>1, <1>2, <1>3 DEF IInv, ValuesInv, CpuInv, SleepersInv, NoLostExit, Zombies, Kids,
     ForkInit, At, Goto
<1>11. OpsInv'
  BY <1>1, <1>2, <1>3 DEF IInv, ValuesInv, CpuInv, OpsInv, FsLabels, ForkInit, At, Goto
<1>12. FamilyInv' /\ NoBadRun'
  BY DEF IInv, FamilyInv, NoBadRun, ForkInit, At, Goto
<1> QED BY <1>4, <1>5, <1>6, <1>7, <1>8, <1>9, <1>10, <1>11, <1>12 DEF IInv

\* fork gives the child its page table and its parent, and makes it ready to return to
\* user space.
LEMMA ForkCopyKeeps ==
    ASSUME IInv, NEW p \in Slots, NEW limit \in Limits \cup {-1}, ForkCopy(p, limit)
    PROVE  IInv'
<1> USE SlotNames DEF initproc, NoProc
<1>1. cpu = p /\ state[p] = "RUNNING" /\ pc[p] = "fork_copy" /\ panic = "none"
  BY DEF IInv, ValuesInv, CpuInv, At, ForkCopy
<1>2. np[p] \in Slots /\ np[p] # p /\ state[np[p]] = "EMBRYO"
  BY <1>1 DEF IInv, BuildInv, Building
<1>3. limit # 0 /\ limit \in Int
  BY SigSchedAssumption
<1>4. ValuesInv'
  BY <1>1, <1>2, <1>3 DEF IInv, ValuesInv, States, Labels, ForkCopy, At, Goto, ForkArgs
<1>5. CpuInv'
  BY <1>1, <1>2, <1>3 DEF IInv, ValuesInv, CpuInv, ForkCopy, At, Goto, ForkArgs
<1>6. BuildInv'
  BY <1>1, <1>2, <1>3 DEF IInv, ValuesInv, CpuInv, BuildInv, Building, ForkCopy, At, Goto,
     ForkArgs
<1>7. StartedInv'
  BY <1>1, <1>2, <1>3 DEF IInv, ValuesInv, CpuInv, StartedInv, Started, ForkCopy, At, Goto,
     ForkArgs
<1>8. TimeInv'
  BY <1>1, <1>2, <1>3 DEF IInv, ValuesInv, CpuInv, TimeInv, ForkCopy, At, Goto, ForkArgs
<1>9. FamilyInv'
  BY <1>1, <1>2, <1>3 DEF IInv, ValuesInv, CpuInv, FamilyInv, ForkCopy, At, Goto, ForkArgs
<1>10. LimitlessInv'
  BY <1>1, <1>2, <1>3 DEF IInv, ValuesInv, LimitlessInv, NoLimits, ForkCopy, At, Goto,
     ForkArgs
<1>11. SleepersInv'
  BY <1>1, <1>2, <1>3 DEF IInv, ValuesInv, CpuInv, SleepersInv, NoLostExit, Zombies, Kids,
     ForkCopy, At, Goto, ForkArgs
<1>12. OpsInv'
  BY <1>1, <1>2, <1>3 DEF IInv, ValuesInv, CpuInv, OpsInv, FsLabels, ForkCopy, At, Goto,
     ForkArgs
<1>13. NoBadRun'
  BY DEF IInv, NoBadRun, ForkCopy, At, Goto, ForkArgs
<1> QED BY <1>4, <1>5, <1>6, <1>7, <1>8, <1>9, <1>10, <1>11, <1>12, <1>13 DEF IInv

\* A fork that has no memory gives the slot back.
LEMMA ForkFailKeeps ==
    ASSUME IInv, NEW p \in Slots, ForkFail(p)
    PROVE  IInv'
<1> USE SlotNames DEF initproc, NoProc
<1>1. cpu = p /\ state[p] = "RUNNING" /\ pc[p] = "fork_copy" /\ panic = "none"
  BY DEF IInv, ValuesInv, CpuInv, At, ForkFail
<1>2. np[p] \in Slots /\ np[p] # p /\ state[np[p]] = "EMBRYO"
  BY <1>1 DEF IInv, BuildInv, Building
<1>3. ValuesInv'
  BY <1>1, <1>2 DEF IInv, ValuesInv, States, Labels, ForkFail, At, Goto, ForkFailed
<1>4. CpuInv'
  BY <1>1, <1>2 DEF IInv, ValuesInv, CpuInv, ForkFail, At, Goto, ForkFailed
<1>5. BuildInv'
  BY <1>1, <1>2 DEF IInv, ValuesInv, CpuInv, BuildInv, Building, ForkFail, At, Goto,
     ForkFailed
<1>6. StartedInv'
  BY <1>1, <1>2 DEF IInv, ValuesInv, CpuInv, StartedInv, Started, ForkFail, At, Goto,
     ForkFailed
<1>7. TimeInv'
  BY <1>1, <1>2 DEF IInv, ValuesInv, CpuInv, TimeInv, ForkFail, At, Goto, ForkFailed
<1>8. FamilyInv'
  BY <1>1, <1>2 DEF IInv, ValuesInv, CpuInv, FamilyInv, ForkFail, At, Goto, ForkFailed
<1>9. SleepersInv'
  BY <1>1, <1>2 DEF IInv, ValuesInv, CpuInv, SleepersInv, NoLostExit, Zombies, Kids,
     ForkFail, At, Goto, ForkFailed
<1>10. OpsInv'
  BY <1>1, <1>2 DEF IInv, ValuesInv, CpuInv, OpsInv, FsLabels, ForkFail, At, Goto,
     ForkFailed
<1>11. LimitlessInv' /\ NoBadRun'
  BY DEF IInv, LimitlessInv, NoLimits, NoBadRun, ForkFail, At, Goto, ForkFailed
<1> QED BY <1>3, <1>4, <1>5, <1>6, <1>7, <1>8, <1>9, <1>10, <1>11 DEF IInv

\* The child of a fork has a page table when it is made ready.
LEMMA ForkDoneKeeps ==
    ASSUME IInv, NEW p \in Slots, NEW later \in BOOLEAN, ForkDone(p, later)
    PROVE  IInv'
<1> USE SlotNames DEF initproc, NoProc
<1>1. cpu = p /\ state[p] = "RUNNING" /\ pc[p] = "fork_done" /\ panic = "none"
  BY DEF IInv, ValuesInv, CpuInv, At, ForkDone
<1>2. np[p] \in Slots /\ np[p] # p /\ state[np[p]] = "EMBRYO"
  BY <1>1 DEF IInv, BuildInv, Building
<1>3. built[np[p]] /\ pc[np[p]] = "user"
  BY <1>1 DEF IInv, BuildInv, Building
<1>4. ValuesInv'
  BY <1>1, <1>2, <1>3 DEF IInv, ValuesInv, States, Labels, ForkDone, At, Goto, ForkArgs
<1>5. CpuInv'
  BY <1>1, <1>2, <1>3 DEF IInv, ValuesInv, CpuInv, ForkDone, At, Goto, ForkArgs
<1>6. BuildInv'
  BY <1>1, <1>2, <1>3 DEF IInv, ValuesInv, CpuInv, BuildInv, Building, ForkDone, At, Goto,
     ForkArgs
<1>7. StartedInv'
  BY <1>1, <1>2, <1>3 DEF IInv, ValuesInv, CpuInv, StartedInv, Started, ForkDone, At, Goto,
     ForkArgs
<1>8. TimeInv'
  BY <1>1, <1>2, <1>3 DEF IInv, ValuesInv, CpuInv, TimeInv, ForkDone, At, Goto, ForkArgs
<1>9. FamilyInv'
  BY <1>1, <1>2, <1>3 DEF IInv, ValuesInv, CpuInv, FamilyInv, ForkDone, At, Goto, ForkArgs
<1>10. SleepersInv'
  BY <1>1, <1>2, <1>3 DEF IInv, ValuesInv, CpuInv, SleepersInv, NoLostExit, Zombies, Kids,
     ForkDone, At, Goto, ForkArgs
<1>11. OpsInv'
  BY <1>1, <1>2, <1>3 DEF IInv, ValuesInv, CpuInv, OpsInv, FsLabels, ForkDone, At, Goto,
     ForkArgs
<1>12. LimitlessInv' /\ NoBadRun'
  BY DEF IInv, LimitlessInv, NoLimits, NoBadRun, ForkDone, At, Goto, ForkArgs
<1> QED BY <1>4, <1>5, <1>6, <1>7, <1>8, <1>9, <1>10, <1>11, <1>12 DEF IInv

\* scheduler_start makes the deferred processes ready.
LEMMA SchedulerStartKeeps ==
    ASSUME IInv, NEW p \in Slots, SchedulerStart(p)
    PROVE  IInv'
<1> USE SlotNames DEF initproc, NoProc
<1>1. cpu = p /\ state[p] = "RUNNING" /\ pc[p] = "start" /\ panic = "none"
  BY DEF IInv, ValuesInv, CpuInv, At, SchedulerStart
<1>2. ValuesInv'
  BY <1>1 DEF IInv, ValuesInv, States, Labels, SchedulerStart, At, Goto
<1>3. CpuInv'
  BY <1>1 DEF IInv, ValuesInv, CpuInv, SchedulerStart, At, Goto
<1>4. BuildInv'
  BY <1>1 DEF IInv, ValuesInv, CpuInv, BuildInv, Building, SchedulerStart, At, Goto
<1>5. StartedInv'
  BY <1>1 DEF IInv, ValuesInv, CpuInv, StartedInv, Started, SchedulerStart, At, Goto
<1>6. TimeInv'
  BY <1>1 DEF IInv, ValuesInv, CpuInv, TimeInv, SchedulerStart, At, Goto
<1>7. FamilyInv'
  BY <1>1 DEF IInv, ValuesInv, CpuInv, FamilyInv, SchedulerStart, At, Goto
<1>8. SleepersInv'
  BY <1>1 DEF IInv, ValuesInv, CpuInv, SleepersInv, NoLostExit, Zombies, Kids,
     SchedulerStart, At, Goto
<1>9. OpsInv'
  BY <1>1 DEF IInv, ValuesInv, CpuInv, OpsInv, FsLabels, SchedulerStart, At, Goto
<1>10. LimitlessInv' /\ NoBadRun'
  BY DEF IInv, LimitlessInv, NoLimits, NoBadRun, SchedulerStart, At, Goto
<1> QED BY <1>2, <1>3, <1>4, <1>5, <1>6, <1>7, <1>8, <1>9, <1>10 DEF IInv

\* wait frees the slot of a zombie, which no fork builds in.
LEMMA WaitReapKeeps ==
    ASSUME IInv, NEW p \in Slots, NEW s \in Slots, WaitReap(p, s)
    PROVE  IInv'
<1> USE SlotNames DEF initproc, NoProc
<1>1. cpu = p /\ state[p] = "RUNNING" /\ pc[p] = "wait" /\ panic = "none"
  BY DEF IInv, ValuesInv, CpuInv, At, WaitReap
<1>2. state[s] = "ZOMBIE" /\ parent[s] = p /\ s # p
  BY <1>1 DEF WaitReap, IsFirst, Zombies, Kids
<1>3. ValuesInv'
  BY <1>1, <1>2 DEF IInv, ValuesInv, States, Labels, WaitReap, At, Goto, IsFirst, Zombies,
     Kids
<1>4. CpuInv'
  BY <1>1, <1>2 DEF IInv, ValuesInv, CpuInv, WaitReap, At, Goto, IsFirst, Zombies, Kids
<1>5. BuildInv'
  BY <1>1, <1>2 DEF IInv, ValuesInv, CpuInv, BuildInv, Building, WaitReap, At, Goto,
     IsFirst, Zombies, Kids
<1>6. StartedInv'
  BY <1>1, <1>2 DEF IInv, ValuesInv, CpuInv, StartedInv, Started, WaitReap, At, Goto,
     IsFirst, Zombies, Kids
<1>7. TimeInv'
  BY <1>1, <1>2 DEF IInv, ValuesInv, CpuInv, TimeInv, WaitReap, At, Goto, IsFirst, Zombies,
     Kids
<1>8. FamilyInv'
  BY <1>1, <1>2 DEF IInv, ValuesInv, CpuInv, FamilyInv, WaitReap, At, Goto, IsFirst,
     Zombies, Kids
<1>9. SleepersInv'
  BY <1>1, <1>2 DEF IInv, ValuesInv, CpuInv, SleepersInv, NoLostExit, Zombies, Kids,
     WaitReap, At, Goto, IsFirst, Zombies, Kids
<1>10. OpsInv'
  BY <1>1, <1>2 DEF IInv, ValuesInv, CpuInv, OpsInv, FsLabels, WaitReap, At, Goto, IsFirst,
     Zombies, Kids
<1>11. LimitlessInv' /\ NoBadRun'
  BY DEF IInv, LimitlessInv, NoLimits, NoBadRun, WaitReap, At, Goto, IsFirst, Zombies, Kids
<1> QED BY <1>3, <1>4, <1>5, <1>6, <1>7, <1>8, <1>9, <1>10, <1>11 DEF IInv

\* wait returns -1.
LEMMA WaitFailKeeps ==
    ASSUME IInv, NEW p \in Slots, WaitFail(p)
    PROVE  IInv'
<1> USE SlotNames DEF initproc, NoProc
<1>1. cpu = p /\ state[p] = "RUNNING" /\ pc[p] = "wait" /\ panic = "none"
  BY DEF IInv, ValuesInv, CpuInv, At, WaitFail
<1>2. ValuesInv'
  BY <1>1 DEF IInv, ValuesInv, States, Labels, WaitFail, At, Goto, table
<1>3. CpuInv'
  BY <1>1 DEF IInv, ValuesInv, CpuInv, WaitFail, At, Goto, table
<1>4. BuildInv'
  BY <1>1 DEF IInv, ValuesInv, CpuInv, BuildInv, Building, WaitFail, At, Goto, table
<1>5. StartedInv'
  BY <1>1 DEF IInv, ValuesInv, CpuInv, StartedInv, Started, WaitFail, At, Goto, table
<1>6. TimeInv'
  BY <1>1 DEF IInv, ValuesInv, CpuInv, TimeInv, WaitFail, At, Goto, table
<1>7. SleepersInv'
  BY <1>1 DEF IInv, ValuesInv, CpuInv, SleepersInv, NoLostExit, Zombies, Kids, WaitFail,
     At, Goto, table
<1>8. OpsInv'
  BY <1>1 DEF IInv, ValuesInv, CpuInv, OpsInv, FsLabels, WaitFail, At, Goto, table
<1>9. FamilyInv' /\ LimitlessInv' /\ NoBadRun'
  BY DEF IInv, FamilyInv, LimitlessInv, NoLimits, NoBadRun, WaitFail, At, Goto, table
<1> QED BY <1>2, <1>3, <1>4, <1>5, <1>6, <1>7, <1>8, <1>9 DEF IInv

\* A process sleeps in wait only when it has no zombie.
LEMMA WaitSleepKeeps ==
    ASSUME IInv, NEW p \in Slots, WaitSleep(p)
    PROVE  IInv'
<1> USE SlotNames DEF initproc, NoProc
<1>1. cpu = p /\ state[p] = "RUNNING" /\ pc[p] = "wait" /\ panic = "none"
  BY DEF IInv, ValuesInv, CpuInv, At, WaitSleep
<1>2. ValuesInv'
  BY <1>1 DEF IInv, ValuesInv, States, Labels, WaitSleep, At
<1>3. CpuInv'
  BY <1>1 DEF IInv, ValuesInv, CpuInv, WaitSleep, At
<1>4. BuildInv'
  BY <1>1 DEF IInv, ValuesInv, CpuInv, BuildInv, Building, WaitSleep, At
<1>5. StartedInv'
  BY <1>1 DEF IInv, ValuesInv, CpuInv, StartedInv, Started, WaitSleep, At
<1>6. TimeInv'
  BY <1>1 DEF IInv, ValuesInv, CpuInv, TimeInv, WaitSleep, At
<1>7. FamilyInv'
  BY <1>1 DEF IInv, ValuesInv, CpuInv, FamilyInv, WaitSleep, At
<1>8. SleepersInv'
  BY <1>1 DEF IInv, ValuesInv, CpuInv, SleepersInv, NoLostExit, Zombies, Kids, WaitSleep, At
<1>9. OpsInv'
  BY <1>1 DEF IInv, ValuesInv, CpuInv, OpsInv, FsLabels, WaitSleep, At
<1>10. LimitlessInv' /\ NoBadRun'
  BY DEF IInv, LimitlessInv, NoLimits, NoBadRun, WaitSleep, At
<1> QED BY <1>2, <1>3, <1>4, <1>5, <1>6, <1>7, <1>8, <1>9, <1>10 DEF IInv

\* A process sleeps on the disk.
LEMMA FsSleepKeeps ==
    ASSUME IInv, NEW p \in Slots, FsSleep(p)
    PROVE  IInv'
<1> USE SlotNames DEF initproc, NoProc
<1>1. cpu = p /\ state[p] = "RUNNING" /\ pc[p] \in FsLabels /\ panic = "none"
  BY DEF IInv, ValuesInv, CpuInv, At, FsSleep, FsLabels
<1>2. ValuesInv'
  BY <1>1 DEF IInv, ValuesInv, States, Labels, FsSleep, At
<1>3. CpuInv'
  BY <1>1 DEF IInv, ValuesInv, CpuInv, FsSleep, At
<1>4. BuildInv'
  BY <1>1 DEF IInv, ValuesInv, CpuInv, BuildInv, Building, FsSleep, At
<1>5. StartedInv'
  BY <1>1 DEF IInv, ValuesInv, CpuInv, StartedInv, Started, FsSleep, At
<1>6. TimeInv'
  BY <1>1 DEF IInv, ValuesInv, CpuInv, TimeInv, FsSleep, At
<1>7. FamilyInv'
  BY <1>1 DEF IInv, ValuesInv, CpuInv, FamilyInv, FsSleep, At
<1>8. SleepersInv'
  BY <1>1 DEF IInv, ValuesInv, CpuInv, SleepersInv, NoLostExit, Zombies, Kids, FsSleep, At
<1>9. OpsInv'
  BY <1>1 DEF IInv, ValuesInv, CpuInv, OpsInv, FsLabels, FsSleep, At
<1>10. LimitlessInv' /\ NoBadRun'
  BY DEF IInv, LimitlessInv, NoLimits, NoBadRun, FsSleep, At
<1> QED BY <1>2, <1>3, <1>4, <1>5, <1>6, <1>7, <1>8, <1>9, <1>10 DEF IInv

\* A file-system call ends.
LEMMA FsEndKeeps ==
    ASSUME IInv, NEW p \in Slots, FsEnd(p)
    PROVE  IInv'
<1> USE SlotNames DEF initproc, NoProc
<1>1. cpu = p /\ state[p] = "RUNNING" /\ pc[p] \in FsLabels /\ panic = "none"
  BY DEF IInv, ValuesInv, CpuInv, At, FsEnd, FsLabels
<1>2. ValuesInv'
  BY <1>1 DEF IInv, ValuesInv, States, Labels, FsEnd, At, Goto, table
<1>3. CpuInv'
  BY <1>1 DEF IInv, ValuesInv, CpuInv, FsEnd, At, Goto, table
<1>4. BuildInv'
  BY <1>1 DEF IInv, ValuesInv, CpuInv, BuildInv, Building, FsEnd, At, Goto, table
<1>5. StartedInv'
  BY <1>1 DEF IInv, ValuesInv, CpuInv, StartedInv, Started, FsEnd, At, Goto, table
<1>6. TimeInv'
  BY <1>1 DEF IInv, ValuesInv, CpuInv, TimeInv, FsEnd, At, Goto, table
<1>7. SleepersInv'
  BY <1>1 DEF IInv, ValuesInv, CpuInv, SleepersInv, NoLostExit, Zombies, Kids, FsEnd, At,
     Goto, table
<1>8. OpsInv'
  BY <1>1 DEF IInv, ValuesInv, CpuInv, OpsInv, FsLabels, FsEnd, At, Goto, table
<1>9. FamilyInv' /\ LimitlessInv' /\ NoBadRun'
  BY DEF IInv, FamilyInv, LimitlessInv, NoLimits, NoBadRun, FsEnd, At, Goto, table
<1> QED BY <1>2, <1>3, <1>4, <1>5, <1>6, <1>7, <1>8, <1>9 DEF IInv

\* exit begins.
LEMMA ExitBeginKeeps ==
    ASSUME IInv, NEW p \in Slots, ExitBegin(p)
    PROVE  IInv'
<1> USE SlotNames DEF initproc, NoProc
<1>1. cpu = p /\ state[p] = "RUNNING" /\ pc[p] = "exit" /\ panic = "none"
  BY DEF IInv, ValuesInv, CpuInv, At, ExitBegin
<1>2. ValuesInv'
  BY <1>1 DEF IInv, ValuesInv, States, Labels, ExitBegin, At, Goto, table
<1>3. CpuInv'
  BY <1>1 DEF IInv, ValuesInv, CpuInv, ExitBegin, At, Goto, table
<1>4. BuildInv'
  <2>1. pc' = [pc EXCEPT ![p] = "exit_fs"] /\ UNCHANGED <<state, built, np>>
    BY DEF ExitBegin, Goto, table
  <2>2. \A q \in Slots : pc'[q] \in Building => pc'[q] = pc[q] /\ np[q] # p
    BY <1>1, <2>1 DEF IInv, ValuesInv, BuildInv, Building
  <2> QED BY <2>1, <2>2 DEF IInv, ValuesInv, BuildInv
<1>5. StartedInv'
  BY <1>1 DEF IInv, ValuesInv, CpuInv, StartedInv, Started, ExitBegin, At, Goto, table
<1>6. TimeInv'
  BY <1>1 DEF IInv, ValuesInv, CpuInv, TimeInv, ExitBegin, At, Goto, table
<1>7. SleepersInv'
  BY <1>1 DEF IInv, ValuesInv, CpuInv, SleepersInv, NoLostExit, Zombies, Kids, ExitBegin,
     At, Goto, table
<1>8. OpsInv'
  BY <1>1 DEF IInv, ValuesInv, CpuInv, OpsInv, FsLabels, ExitBegin, At, Goto, table
<1>9. NoBadRun'
  BY <1>1 DEF IInv, NoBadRun, ExitBegin, At, Goto, table
<1>10. FamilyInv' /\ LimitlessInv'
  BY DEF IInv, FamilyInv, LimitlessInv, NoLimits, ExitBegin, At, Goto, table
<1> QED BY <1>2, <1>3, <1>4, <1>5, <1>6, <1>7, <1>8, <1>9, <1>10 DEF IInv

\* exit wakes the parent, and init when it inherits a zombie, so that nobody sleeps on
\* a child that is gone.
LEMMA ExitFinishKeeps ==
    ASSUME IInv, NEW p \in Slots, ExitFinish(p)
    PROVE  IInv'
<1> USE SlotNames DEF initproc, NoProc
<1>1. cpu = p /\ state[p] = "RUNNING" /\ pc[p] = "exit_lock" /\ panic = "none"
  BY DEF IInv, ValuesInv, CpuInv, At, ExitFinish
<1>2. \E woken \in [Slots -> States] :
     /\ \A s \in Slots : \/ woken[s] = state[s]
                         \/ state[s] = "SLEEPING" /\ pc[s] = "wait" /\ woken[s] = "RUNNABLE"
     /\ state' = [woken EXCEPT ![p] = "ZOMBIE"]
  <2>1. state \in [Slots -> States]
    BY DEF IInv, ValuesInv
  <2>2. CASE parent[p] = NoProc /\ ~\E s \in Kids(p) : state[s] = "ZOMBIE"
    <3>1. state' = [state EXCEPT ![p] = "ZOMBIE"]
      BY <2>2 DEF ExitFinish, StatesAfterExit
    <3> QED BY <2>1, <3>1
  <2>3. CASE parent[p] # NoProc /\ ~\E s \in Kids(p) : state[s] = "ZOMBIE"
    <3>1. state' = [Wakeup1(state, parent[p]) EXCEPT ![p] = "ZOMBIE"]
      BY <2>3 DEF ExitFinish, StatesAfterExit
    <3>2. parent[p] \in Slots
      BY <2>3 DEF IInv, ValuesInv
    <3> QED BY <2>1, <3>1, <3>2, WakeupWakes
  <2>4. CASE parent[p] = NoProc /\ \E s \in Kids(p) : state[s] = "ZOMBIE"
    <3>1. state' = [Wakeup1(state, initproc) EXCEPT ![p] = "ZOMBIE"]
      BY <2>4 DEF ExitFinish, StatesAfterExit
    <3> QED BY <2>1, <3>1, WakeupWakes
  <2>5. CASE parent[p] # NoProc /\ \E s \in Kids(p) : state[s] = "ZOMBIE"
    <3> DEFINE st == Wakeup1(state, parent[p])
    <3>1. state' = [Wakeup1(st, initproc) EXCEPT ![p] = "ZOMBIE"]
      BY <2>5 DEF ExitFinish, StatesAfterExit
    <3>2. /\ st \in [Slots -> States]
          /\ \A s \in Slots : \/ st[s] = state[s]
                              \/ state[s] = "SLEEPING" /\ pc[s] = "wait" /\ st[s] = "RUNNABLE"
      <4>1. parent[p] \in Slots
        BY <2>5 DEF IInv, ValuesInv
      <4> QED BY <2>1, <4>1, WakeupWakes
    <3> HIDE DEF st
    <3>3. /\ Wakeup1(st, initproc) \in [Slots -> States]
          /\ \A s \in Slots : \/ Wakeup1(st, initproc)[s] = st[s]
                              \/ st[s] = "SLEEPING" /\ pc[s] = "wait" /\ Wakeup1(st, initproc)[s] = "RUNNABLE"
      BY <3>2, WakeupWakes
    <3> QED BY <3>1, <3>2, <3>3
  <2> QED BY <2>2, <2>3, <2>4, <2>5
<1>3. state' \in [Slots -> States] /\ state'[p] = "ZOMBIE"
  BY <1>2 DEF States
<1>4. \A s \in Slots : s # p => \/ state'[s] = state[s]
                                \/ state[s] = "SLEEPING" /\ pc[s] = "wait" /\ state'[s] = "RUNNABLE"
  BY <1>2
<1>5. pc' = [pc EXCEPT ![p] = "gone"] /\ cpu' = NoProc
  BY DEF ExitFinish, Goto
<1>6. parent' = [s \in Slots |-> IF parent[s] = p THEN initproc ELSE parent[s]]
  BY DEF ExitFinish
<1>7. UNCHANGED <<pid, killed, suspended, left, built, np, nextpid, panic>>
  BY DEF ExitFinish
<1>8. ValuesInv'
  BY <1>1, <1>3, <1>4, <1>5, <1>6, <1>7 DEF IInv, ValuesInv, States, Labels
<1>9. CpuInv'
  BY <1>1, <1>3, <1>4, <1>5, <1>6, <1>7 DEF IInv, ValuesInv, CpuInv, Labels
<1>10. BuildInv'
  BY <1>1, <1>3, <1>4, <1>5, <1>6, <1>7 DEF IInv, ValuesInv, CpuInv, BuildInv, Building,
     Labels
<1>11. StartedInv'
  BY <1>1, <1>3, <1>4, <1>5, <1>6, <1>7 DEF IInv, ValuesInv, CpuInv, StartedInv, Started,
     Labels
<1>12. TimeInv'
  BY <1>1, <1>3, <1>4, <1>5, <1>6, <1>7 DEF IInv, ValuesInv, CpuInv, TimeInv, Labels
<1>13. FamilyInv'
  BY <1>1, <1>3, <1>4, <1>5, <1>6, <1>7 DEF IInv, ValuesInv, CpuInv, FamilyInv, Labels
<1>14. SleepersInv'
  <2> SUFFICES ASSUME NoLimits, NEW q \in Slots, state'[q] = "SLEEPING", pc'[q] = "wait",
                      NEW s \in Slots, parent'[s] = q, state'[s] = "ZOMBIE"
               PROVE  FALSE
    BY DEF SleepersInv, NoLostExit, Zombies, Kids, NoLimits
  <2>1. q # p /\ state[q] = "SLEEPING" /\ pc[q] = "wait"
    BY <1>1, <1>3, <1>4, <1>5 DEF IInv, ValuesInv
  <2>2. \A t \in Slots : ~(parent[t] = q /\ state[t] = "ZOMBIE")
    BY <2>1 DEF IInv, SleepersInv, NoLostExit, Zombies, Kids
  <2>3. parent[p] # p
    BY DEF IInv, FamilyInv
  <2>4. CASE parent[s] = p
    <3>1. q = initproc /\ s # p /\ state[s] = "ZOMBIE"
      BY <2>3, <2>4, <1>3, <1>4, <1>6
    <3>2. \E t \in Kids(p) : state[t] = "ZOMBIE"
      BY <2>4, <3>1 DEF Kids
    <3>3. state'[q] = "RUNNABLE"
      BY <2>1, <3>1, <3>2 DEF IInv, ValuesInv, ExitFinish, StatesAfterExit, Wakeup1
    <3> QED BY <3>3
  <2>5. CASE parent[s] # p
    <3>1. parent[s] = q
      BY <2>5, <1>6
    <3>2. s = p
      BY <3>1, <2>2, <1>3, <1>4
    <3>3. state'[q] = "RUNNABLE"
      BY <2>1, <3>1, <3>2 DEF IInv, ValuesInv, ExitFinish, StatesAfterExit, Wakeup1
    <3> QED BY <3>3
  <2> QED BY <2>4, <2>5
<1>15. OpsInv'
  BY <1>1, <1>3, <1>4, <1>5, <1>6, <1>7 DEF IInv, ValuesInv, CpuInv, OpsInv, FsLabels,
     Labels
<1>16. LimitlessInv' /\ NoBadRun'
  BY <1>7 DEF IInv, LimitlessInv, NoLimits, NoBadRun, Labels
<1> QED BY <1>8, <1>9, <1>10, <1>11, <1>12, <1>13, <1>14, <1>15, <1>16 DEF IInv

-----------------------------------------------------------------------------
(* The scheduler                                                             *)

\* The scan makes zombies of ready processes that have no time left, and of no others.
LEMMA SweptIs ==
    ASSUME IInv
    PROVE  /\ Swept \in [Slots -> States]
           /\ \A s \in Slots : Swept[s] = IF state[s] = "RUNNABLE" /\ left[s] = 0 THEN "ZOMBIE" ELSE state[s]
           /\ NoLimits => Swept = state
<1>1. \A s \in Slots : Swept[s] = IF state[s] = "RUNNABLE" /\ left[s] = 0 THEN "ZOMBIE" ELSE state[s]
  BY DEF IInv, ValuesInv, Swept, Expired, Runnable
<1>2. Swept \in [Slots -> States]
  BY DEF IInv, ValuesInv, Swept, States
<1>3. ASSUME NoLimits PROVE Swept = state
  <2>1. \A s \in Slots : left[s] = -1
    BY <1>3 DEF IInv, LimitlessInv
  <2> QED BY <1>1, <1>2, <2>1 DEF IInv, ValuesInv
<1> QED BY <1>1, <1>2, <1>3

\* The scheduler gives the CPU to a process that fork has finished and exit has not.
LEMMA DispatchKeeps ==
    ASSUME IInv, NEW p \in Slots, Dispatch(p)
    PROVE  IInv'
<1> USE SlotNames DEF initproc, NoProc
<1>1. cpu = NoProc /\ state[p] = "RUNNABLE" /\ left[p] # 0 /\ built[p] /\ pc[p] # "gone"
  BY DEF IInv, ValuesInv, StartedInv, Started, Dispatch, Runnable, Expired
<1>2. state' \in [Slots -> States] /\ state'[p] = "RUNNING"
  BY SweptIs DEF Dispatch, States
<1>3. \A s \in Slots : s # p => state'[s] = IF state[s] = "RUNNABLE" /\ left[s] = 0 THEN "ZOMBIE" ELSE state[s]
  BY SweptIs DEF Dispatch
<1>4. pc' \in [Slots -> Labels] /\ pc'[p] # "tail"
  BY DEF IInv, ValuesInv, Dispatch, Onward, Labels
<1>5. \A s \in Slots : \/ pc'[s] = pc[s]
                       \/ s = p /\ pc[s] = "tail" /\ pc'[s] \in {"user", "exit"}
  BY DEF IInv, ValuesInv, Dispatch, Onward
<1>6. UNCHANGED <<pid, parent, killed, suspended, left, built, np, nextpid, panic>> /\ cpu' = p
  BY <1>1 DEF Dispatch
<1>7. ValuesInv'
  BY <1>1, <1>2, <1>3, <1>4, <1>5, <1>6 DEF IInv, ValuesInv, States, Labels
<1>8. CpuInv'
  BY <1>1, <1>2, <1>3, <1>4, <1>5, <1>6 DEF IInv, ValuesInv, CpuInv, Labels
<1>9. BuildInv'
  <2> SUFFICES ASSUME NEW q \in Slots, pc'[q] \in Building
               PROVE  /\ np[q] \in Slots /\ state'[np[q]] = "EMBRYO"
                      /\ pc'[q] = "fork_done" => built[np[q]] /\ pc'[np[q]] = "user"
                      /\ \A r \in Slots : pc'[r] \in Building /\ np[r] = np[q] => r = q
    BY <1>6 DEF BuildInv
  <2>1. \A r \in Slots : pc'[r] \in Building => pc'[r] = pc[r]
    BY <1>5 DEF Building
  <2>2. /\ np[q] \in Slots /\ state[np[q]] = "EMBRYO"
        /\ pc[q] = "fork_done" => built[np[q]] /\ pc[np[q]] = "user"
        /\ \A r \in Slots : pc[r] \in Building /\ np[r] = np[q] => r = q
    BY <2>1 DEF IInv, BuildInv
  <2>3. np[q] # p
    BY <2>2, <1>1
  <2> QED BY <2>1, <2>2, <2>3, <1>3, <1>5
<1>10. StartedInv'
  BY <1>1, <1>2, <1>3, <1>4, <1>5, <1>6 DEF IInv, ValuesInv, CpuInv, StartedInv, Started,
     Labels
<1>11. TimeInv'
  BY <1>1, <1>2, <1>3, <1>4, <1>5, <1>6 DEF IInv, ValuesInv, CpuInv, TimeInv, Labels
<1>12. FamilyInv'
  BY <1>1, <1>2, <1>3, <1>4, <1>5, <1>6 DEF IInv, ValuesInv, CpuInv, FamilyInv, Labels
<1>13. SleepersInv'
  <2> SUFFICES ASSUME NoLimits, NEW q \in Slots, state'[q] = "SLEEPING", pc'[q] = "wait",
                      NEW s \in Slots, parent[s] = q, state'[s] = "ZOMBIE"
               PROVE  FALSE
    BY <1>6 DEF SleepersInv, NoLostExit, Zombies, Kids, NoLimits
  <2>1. \A t \in Slots : t # p => state'[t] = state[t]
    BY <1>3 DEF IInv, LimitlessInv
  <2>2. state[q] = "SLEEPING" /\ pc[q] = "wait" /\ state[s] = "ZOMBIE"
    BY <2>1, <1>2, <1>5
  <2> QED BY <2>2 DEF IInv, SleepersInv, NoLostExit, Zombies, Kids
<1>14. OpsInv'
  <2>1. NoLimits => \A s \in Slots : s # p => state'[s] = state[s]
    BY <1>3 DEF IInv, LimitlessInv
  <2> QED BY <1>1, <1>2, <1>4, <1>5, <1>6, <2>1 DEF IInv, ValuesInv, CpuInv, OpsInv,
             FsLabels
<1>15. NoBadRun'
  BY <1>1, <1>2, <1>3, <1>4, <1>5, <1>6 DEF IInv, NoBadRun, Labels
<1>16. LimitlessInv'
  BY <1>6 DEF IInv, LimitlessInv, NoLimits, Labels
<1> QED BY <1>7, <1>8, <1>9, <1>10, <1>11, <1>12, <1>13, <1>14, <1>15, <1>16 DEF IInv

\* A scan that finds only processes without time.
LEMMA IdleSweepKeeps ==
    ASSUME IInv, IdleSweep
    PROVE  IInv'
<1> USE SlotNames DEF initproc, NoProc
<1>1. cpu = NoProc
  BY DEF IdleSweep
<1>2. state' \in [Slots -> States]
  BY SweptIs DEF IdleSweep
<1>3. \A s \in Slots : state'[s] = IF state[s] = "RUNNABLE" /\ left[s] = 0 THEN "ZOMBIE" ELSE state[s]
  BY SweptIs DEF IdleSweep
<1>4. UNCHANGED <<pid, parent, killed, suspended, left, built, np, nextpid, panic, cpu, pc>>
  BY DEF IdleSweep
<1>5. ValuesInv'
  BY <1>1, <1>2, <1>3, <1>4 DEF IInv, ValuesInv, States, Labels
<1>6. CpuInv'
  BY <1>1, <1>2, <1>3, <1>4 DEF IInv, ValuesInv, CpuInv, Labels
<1>7. BuildInv'
  BY <1>1, <1>2, <1>3, <1>4 DEF IInv, ValuesInv, CpuInv, BuildInv, Building, Labels
<1>8. StartedInv'
  BY <1>1, <1>2, <1>3, <1>4 DEF IInv, ValuesInv, CpuInv, StartedInv, Started, Labels
<1>9. TimeInv'
  BY <1>1, <1>2, <1>3, <1>4 DEF IInv, ValuesInv, CpuInv, TimeInv, Labels
<1>10. FamilyInv'
  BY <1>1, <1>2, <1>3, <1>4 DEF IInv, ValuesInv, CpuInv, FamilyInv, Labels
<1>11. SleepersInv'
  <2> SUFFICES ASSUME NoLimits, NEW q \in Slots, state'[q] = "SLEEPING", pc[q] = "wait",
                      NEW s \in Slots, parent[s] = q, state'[s] = "ZOMBIE"
               PROVE  FALSE
    BY <1>4 DEF SleepersInv, NoLostExit, Zombies, Kids, NoLimits
  <2>1. \A t \in Slots : state'[t] = state[t]
    BY <1>3 DEF IInv, LimitlessInv
  <2> QED BY <2>1 DEF IInv, SleepersInv, NoLostExit, Zombies, Kids
<1>12. OpsInv'
  <2>1. NoLimits => \A s \in Slots : state'[s] = state[s]
    BY <1>3 DEF IInv, LimitlessInv
  <2> QED BY <1>1, <1>2, <1>4, <2>1 DEF IInv, ValuesInv, CpuInv, OpsInv, FsLabels
<1>13. LimitlessInv' /\ NoBadRun'
  BY <1>4 DEF IInv, LimitlessInv, NoLimits, NoBadRun, Labels
<1> QED BY <1>5, <1>6, <1>7, <1>8, <1>9, <1>10, <1>11, <1>12, <1>13 DEF IInv

-----------------------------------------------------------------------------
(* Interrupts                                                                *)

\* What an interrupt that kills and wakes does to the states and the places: it makes
\* sleepers ready, takes the CPU from the process that had it or leaves it that, and moves
\* only that process, from user space.
LEMMA IntrMoves ==
    ASSUME IInv, Interruptible, NEW st \in [Slots -> States], NEW kl \in [Slots -> BOOLEAN],
           NEW timer \in BOOLEAN, IntrReturn(st, kl, suspended, timer),
           \A s \in Slots : st[s] = state[s] \/ (state[s] = "SLEEPING" /\ st[s] = "RUNNABLE")
    PROVE  /\ state' \in [Slots -> States] /\ pc' \in [Slots -> Labels]
           /\ killed' = kl /\ suspended' = suspended /\ cpu' \in {cpu, NoProc}
           /\ \A s \in Slots : \/ state'[s] = state[s] /\ (s = cpu => cpu' = cpu)
                               \/ state[s] = "SLEEPING" /\ state'[s] = "RUNNABLE" /\ s # cpu
                               \/ s = cpu /\ state'[s] = "RUNNABLE" /\ cpu' = NoProc
           /\ \A s \in Slots : \/ pc'[s] = pc[s]
                               \/ /\ s = cpu /\ pc[s] = "user" /\ pc'[s] \in {"exit", "tail"}
                                  /\ pc'[s] = "tail" => ~kl[s] /\ cpu' = NoProc
           /\ \A s \in Slots : s = cpu /\ pc[s] = "user" /\ kl[s] => pc'[s] = "exit"
<1> USE SlotNames DEF initproc, NoProc
<1>1. state \in [Slots -> States] /\ pc \in [Slots -> Labels] /\ cpu \in Slots \cup {NoProc}
  BY DEF IInv, ValuesInv
<1>2. \A s \in Slots : state[s] = "RUNNING" <=> cpu = s
  BY DEF IInv, CpuInv
<1>3. \A s \in Slots : ~suspended[s]
  BY DEF IInv, ValuesInv
<1>4. killed' = kl /\ suspended' = suspended
  BY DEF IntrReturn
<1>5. CASE InUser /\ kl[cpu]
  <2>1. state' = st /\ cpu' = cpu /\ pc' = [pc EXCEPT ![cpu] = "exit"]
    BY <1>5 DEF IntrReturn, InUser, Onward
  <2> QED BY <1>1, <1>2, <1>4, <1>5, <2>1 DEF InUser, Labels
<1>6. CASE InUser /\ ~kl[cpu] /\ Preempts(st, timer)
  <2>1. state' = [st EXCEPT ![cpu] = "RUNNABLE"] /\ cpu' = NoProc /\ pc' = [pc EXCEPT ![cpu] = "tail"]
    BY <1>6 DEF IntrReturn, InUser, Onward
  <2> QED BY <1>1, <1>2, <1>4, <1>6, <2>1 DEF InUser, Labels, States
<1>7. CASE InUser /\ ~kl[cpu] /\ ~Preempts(st, timer)
  <2>1. state' = st /\ cpu' = cpu /\ pc' = pc
    BY <1>1, <1>3, <1>7 DEF IntrReturn, InUser, Onward
  <2> QED BY <1>1, <1>2, <1>4, <1>7, <2>1 DEF InUser
<1>8. CASE ~InUser /\ Preempts(st, timer)
  <2>1. state' = [st EXCEPT ![cpu] = "RUNNABLE"] /\ cpu' = NoProc /\ pc' = pc
    BY <1>8 DEF IntrReturn
  <2> QED BY <1>1, <1>2, <1>4, <1>8, <2>1 DEF InUser, Preempts, States
<1>9. CASE ~InUser /\ ~Preempts(st, timer)
  <2>1. state' = st /\ cpu' = cpu /\ pc' = pc
    BY <1>9 DEF IntrReturn
  <2> QED BY <1>1, <1>2, <1>4, <1>9, <2>1 DEF InUser
<1> QED BY <1>5, <1>6, <1>7, <1>8, <1>9

\* An interrupt that kills, wakes and counts time, but moves no family and suspends
\* nobody, keeps the invariant: a running process whose time it ends it kills as well.
LEMMA IntrKeeps ==
    ASSUME IInv, Interruptible, NEW st \in [Slots -> States], NEW kl \in [Slots -> BOOLEAN],
           NEW timer \in BOOLEAN, IntrReturn(st, kl, suspended, timer),
           \A s \in Slots : st[s] = state[s] \/ (state[s] = "SLEEPING" /\ st[s] = "RUNNABLE"),
           \A s \in Slots : killed[s] => kl[s],
           left' \in [Slots -> Int], NoLimits => left' = left,
           \A s \in Slots : left'[s] = 0 => left[s] = 0 \/ (s = cpu /\ kl[s]),
           UNCHANGED <<pid, parent, built, np, nextpid, panic>>
    PROVE  IInv'
<1> USE SlotNames DEF initproc, NoProc
<1>1. /\ state' \in [Slots -> States] /\ pc' \in [Slots -> Labels]
      /\ killed' = kl /\ suspended' = suspended /\ cpu' \in {cpu, NoProc}
  BY IntrMoves
<1>2. \A s \in Slots : \/ state'[s] = state[s] /\ (s = cpu => cpu' = cpu)
                       \/ state[s] = "SLEEPING" /\ state'[s] = "RUNNABLE" /\ s # cpu
                       \/ s = cpu /\ state'[s] = "RUNNABLE" /\ cpu' = NoProc
  BY IntrMoves
<1>3. \A s \in Slots : \/ pc'[s] = pc[s]
                       \/ /\ s = cpu /\ pc[s] = "user" /\ pc'[s] \in {"exit", "tail"}
                          /\ pc'[s] = "tail" => ~kl[s] /\ cpu' = NoProc
  BY IntrMoves
<1>4. \A s \in Slots : s = cpu /\ pc[s] = "user" /\ kl[s] => pc'[s] = "exit"
  BY IntrMoves
<1>5. \A s \in Slots : state[s] = "RUNNING" <=> cpu = s
  BY DEF IInv, CpuInv
<1>6. ValuesInv'
  BY <1>1 DEF IInv, ValuesInv
<1>7. CpuInv'
  BY <1>1, <1>2, <1>3, <1>5 DEF IInv, CpuInv
<1>8. BuildInv'
  <2> SUFFICES ASSUME NEW q \in Slots, pc'[q] \in Building
               PROVE  /\ np[q] \in Slots /\ state'[np[q]] = "EMBRYO"
                      /\ pc'[q] = "fork_done" => built[np[q]] /\ pc'[np[q]] = "user"
                      /\ \A r \in Slots : pc'[r] \in Building /\ np[r] = np[q] => r = q
    BY DEF BuildInv
  <2>1. \A r \in Slots : pc'[r] \in Building => pc'[r] = pc[r]
    BY <1>3 DEF Building
  <2>2. /\ np[q] \in Slots /\ state[np[q]] = "EMBRYO"
        /\ pc[q] = "fork_done" => built[np[q]] /\ pc[np[q]] = "user"
        /\ \A r \in Slots : pc[r] \in Building /\ np[r] = np[q] => r = q
    BY <2>1 DEF IInv, BuildInv
  <2>3. np[q] # cpu
    BY <2>2, <1>5
  <2> QED BY <2>1, <2>2, <2>3, <1>2, <1>3
<1>9. StartedInv'
  BY <1>2, <1>3, <1>5 DEF IInv, StartedInv, Started
<1>10. TimeInv'
  <2>1. \A s \in Slots : pc'[s] \in {"user", "tail"} => left'[s] # 0 /\ state'[s] # "ZOMBIE"
    BY <1>2, <1>3, <1>4, <1>5 DEF IInv, TimeInv, CpuInv
  <2>2. \A s \in Slots : cpu' = s /\ left'[s] = 0 => kl[s]
    BY <1>1 DEF IInv, TimeInv
  <2> QED BY <1>1, <2>1, <2>2 DEF TimeInv
<1>11. FamilyInv'
  BY <1>2 DEF IInv, FamilyInv
<1>12. SleepersInv'
  <2> SUFFICES ASSUME NoLimits, NEW q \in Slots, state'[q] = "SLEEPING", pc'[q] = "wait",
                      NEW s \in Slots, parent[s] = q, state'[s] = "ZOMBIE"
               PROVE  FALSE
    BY DEF SleepersInv, NoLostExit, Zombies, Kids, NoLimits
  <2>1. state[q] = "SLEEPING" /\ pc[q] = "wait" /\ state[s] = "ZOMBIE"
    BY <1>2, <1>3
  <2> QED BY <2>1 DEF IInv, SleepersInv, NoLostExit, Zombies, Kids
<1>13. OpsInv'
  BY <1>2, <1>3 DEF IInv, OpsInv, FsLabels, NoLimits
<1>14. LimitlessInv' /\ NoBadRun'
  BY DEF IInv, LimitlessInv, NoLimits, NoBadRun
<1> QED BY <1>6, <1>7, <1>8, <1>9, <1>10, <1>11, <1>12, <1>13, <1>14 DEF IInv

\* A tick of the timer: who runs out of time while it runs is killed.
LEMMA TickKeeps ==
    ASSUME IInv, Tick
    PROVE  IInv'
<1> USE SlotNames DEF initproc, NoProc
<1> DEFINE kl == [killed EXCEPT ![cpu] = @ \/ TimeUp]
<1>1. state \in [Slots -> States] /\ killed \in [Slots -> BOOLEAN] /\ left \in [Slots -> Int]
  BY DEF IInv, ValuesInv
<1>2. cpu \in Slots /\ state[cpu] = "RUNNING" /\ ~suspended[cpu]
  BY DEF IInv, ValuesInv, CpuInv, Tick
<1>3. TicksLeft = (IF left[cpu] > 0 THEN left[cpu] - 1 ELSE left[cpu])
  BY <1>2 DEF TicksLeft, Counted
<1>4. left' = [left EXCEPT ![cpu] = TicksLeft]
  BY DEF Tick
<1>5. left' \in [Slots -> Int]
  BY <1>1, <1>2, <1>3, <1>4
<1>6. kl \in [Slots -> BOOLEAN]
  BY <1>1 DEF TimeUp
<1>7. kl[cpu] <=> (killed[cpu] \/ TicksLeft = 0)
  BY <1>1, <1>2 DEF TimeUp, Counted
<1>8. \A s \in Slots : s # cpu => kl[s] = killed[s]
  BY <1>1
<1>9. NoLimits => left' = left
  <2> SUFFICES ASSUME NoLimits PROVE left' = left
    OBVIOUS
  <2>1. left[cpu] = -1
    BY <1>2 DEF IInv, LimitlessInv
  <2>2. TicksLeft = left[cpu]
    BY <1>3, <2>1
  <2> QED BY <1>1, <1>4, <2>2
<1>10. \A s \in Slots : left'[s] = 0 => left[s] = 0 \/ (s = cpu /\ kl[s])
  BY <1>1, <1>4, <1>7
<1>11. /\ Interruptible /\ IntrReturn(state, kl, suspended, TRUE)
       /\ UNCHANGED <<pid, parent, built, np, nextpid, panic>>
  BY DEF Tick
<1>12. \A s \in Slots : killed[s] => kl[s]
  BY <1>2, <1>7, <1>8
<1>13. \A s \in Slots : state[s] = state[s] \/ (state[s] = "SLEEPING" /\ state[s] = "RUNNABLE")
  OBVIOUS
<1> HIDE DEF kl
<1> QED BY <1>1, <1>5, <1>6, <1>9, <1>10, <1>11, <1>12, <1>13, IntrKeeps

\* An interrupt that does not count time
LEMMA EventKeeps ==
    ASSUME IInv, Interruptible, NEW st \in [Slots -> States], NEW kl \in [Slots -> BOOLEAN],
           IntrReturn(st, kl, suspended, FALSE),
           \A s \in Slots : st[s] = state[s] \/ (state[s] = "SLEEPING" /\ st[s] = "RUNNABLE"),
           \A s \in Slots : killed[s] => kl[s],
           UNCHANGED <<pid, parent, left, built, np, nextpid, panic>>
    PROVE  IInv'
<1>1. left' \in [Slots -> Int] /\ left' = left
  BY DEF IInv, ValuesInv
<1> QED BY <1>1, IntrKeeps

\* The disk wakes the process that waits for it.
LEMMA DiskIntrKeeps ==
    ASSUME IInv, NEW p \in Slots, DiskIntr(p)
    PROVE  IInv'
<1> DEFINE st == [state EXCEPT ![p] = "RUNNABLE"]
<1>1. st \in [Slots -> States] /\ killed \in [Slots -> BOOLEAN]
  BY DEF IInv, ValuesInv, States
<1>2. \A s \in Slots : st[s] = state[s] \/ (state[s] = "SLEEPING" /\ st[s] = "RUNNABLE")
  <2>1. state \in [Slots -> States] /\ state[p] = "SLEEPING"
    BY DEF IInv, ValuesInv, DiskIntr
  <2> QED BY <2>1
<1>3. /\ Interruptible /\ IntrReturn(st, killed, suspended, FALSE)
      /\ UNCHANGED <<pid, parent, left, built, np, nextpid, panic>>
  BY DEF DiskIntr
<1> HIDE DEF st
<1> QED BY <1>1, <1>2, <1>3, EventKeeps

\* ^C and ^G only make sleepers ready.
LEMMA UserWokenWakes ==
    ASSUME IInv
    PROVE  /\ UserWoken \in [Slots -> States]
           /\ \A s \in Slots : UserWoken[s] = state[s] \/ (state[s] = "SLEEPING" /\ UserWoken[s] = "RUNNABLE")
<1>1. state \in [Slots -> States]
  BY DEF IInv, ValuesInv
<1>2. UserWoken \in [Slots -> States]
  BY <1>1 DEF UserWoken, States
<1>3. \A s \in Slots : UserWoken[s] = state[s] \/ (state[s] = "SLEEPING" /\ UserWoken[s] = "RUNNABLE")
  BY <1>1 DEF UserWoken
<1> QED BY <1>2, <1>3

\* ^C kills the user processes.
LEMMA SigIntKeeps ==
    ASSUME IInv, SigInt
    PROVE  IInv'
<1> DEFINE kl == [s \in Slots |-> killed[s] \/ pid[s] > 2]
<1>1. kl \in [Slots -> BOOLEAN] /\ \A s \in Slots : killed[s] => kl[s]
  BY DEF IInv, ValuesInv
<1>2. /\ Interruptible /\ IntrReturn(UserWoken, kl, suspended, FALSE)
      /\ UNCHANGED <<pid, parent, left, built, np, nextpid, panic>>
  BY DEF SigInt
<1> HIDE DEF kl
<1> QED BY <1>1, <1>2, UserWokenWakes, EventKeeps

\* ^F finds nobody suspended.
LEMMA SigFgKeeps ==
    ASSUME IInv, SigFg
    PROVE  IInv'
<1>1. /\ suspended = [s \in Slots |-> FALSE]
      /\ state \in [Slots -> States] /\ killed \in [Slots -> BOOLEAN]
  BY DEF IInv, ValuesInv
<1>2. [s \in Slots |-> IF suspended[s] /\ state[s] \notin {"ZOMBIE", "UNUSED"}
                       THEN "RUNNABLE" ELSE state[s]] = state
  BY <1>1
<1>3. /\ Interruptible /\ IntrReturn(state, killed, suspended, FALSE)
      /\ UNCHANGED <<pid, parent, left, built, np, nextpid, panic>>
  BY <1>1, <1>2 DEF SigFg
<1>4. /\ \A s \in Slots : state[s] = state[s] \/ (state[s] = "SLEEPING" /\ state[s] = "RUNNABLE")
      /\ \A s \in Slots : killed[s] => killed[s]
  OBVIOUS
<1> QED BY <1>1, <1>3, <1>4, EventKeeps

\* ^G wakes the user processes.
LEMMA SigCustomKeeps ==
    ASSUME IInv, SigCustom
    PROVE  IInv'
<1>1. killed \in [Slots -> BOOLEAN]
  BY DEF IInv, ValuesInv
<1>2. /\ Interruptible /\ IntrReturn(UserWoken, killed, suspended, FALSE)
      /\ UNCHANGED <<pid, parent, left, built, np, nextpid, panic>>
  BY DEF SigCustom
<1> QED BY <1>1, <1>2, UserWokenWakes, EventKeeps

-----------------------------------------------------------------------------
(* The theorems                                                              *)

\* The kernel starts with init and a shell, ready to run in user space.
LEMMA InitIInv == ASSUME Init PROVE IInv
<1> USE SlotNames DEF initproc, NoProc, Init
<1>1. ValuesInv
  BY DEF ValuesInv, States, Labels, Slots
<1>2. CpuInv
  BY DEF CpuInv
<1>3. BuildInv /\ StartedInv
  BY DEF BuildInv, Building, StartedInv, Started
<1>4. TimeInv
  <2>1. -1 # 0
    OBVIOUS
  <2> QED BY <2>1 DEF TimeInv
<1>5. FamilyInv
  BY DEF FamilyInv
<1>6. LimitlessInv /\ SleepersInv /\ OpsInv /\ NoBadRun
  BY DEF LimitlessInv, SleepersInv, NoLostExit, OpsInv, FsLabels, NoBadRun
<1> QED BY <1>1, <1>2, <1>3, <1>4, <1>5, <1>6 DEF IInv

\* No step of the kernel breaks the invariant while nobody presses ^B.
LEMMA NextKeeps ==
    ASSUME 2 \notin Signals, IInv, [Next]_vars
    PROVE  IInv'
<1>1. ASSUME NEW p \in Slots, ForkStep(p) PROVE IInv'
  BY <1>1, ForkAllocKeeps, ForkInitKeeps, ForkFailKeeps, ForkCopyKeeps,
     ForkDoneKeeps DEF ForkStep
<1>2. ASSUME NEW p \in Slots, Kernel(p) PROVE IInv'
  BY <1>1, <1>2, SchedulerStartKeeps, ReturnKeeps, WaitReapKeeps, WaitFailKeeps,
     WaitSleepKeeps,
     FsEndKeeps, ExitBeginKeeps, ExitFinishKeeps DEF Kernel
<1>3. ASSUME NEW p \in Slots, NEW call \in {"fork", "wait", "start", "fs", "exit"}, Syscall(p, call)
      PROVE  IInv'
  BY <1>3, SyscallKeeps
<1>4. ASSUME NEW p \in Slots, Dispatch(p) \/ FsSleep(p) \/ DiskIntr(p) PROVE IInv'
  BY <1>4, DispatchKeeps, FsSleepKeeps, DiskIntrKeeps
<1>5. CASE IdleSweep \/ Tick
  BY <1>5, IdleSweepKeeps, TickKeeps
<1>6. CASE SigInt \/ SigBg \/ SigFg \/ SigCustom
  BY <1>6, SigIntKeeps, SigFgKeeps, SigCustomKeeps DEF SigBg
<1>7. CASE UNCHANGED vars
  <2> USE <1>7 DEF vars, table, IInv
  <2>1. ValuesInv' /\ CpuInv'
    BY DEF ValuesInv, CpuInv
  <2>2. BuildInv' /\ StartedInv'
    BY DEF BuildInv, StartedInv
  <2>3. TimeInv' /\ FamilyInv' /\ NoBadRun'
    BY DEF TimeInv, FamilyInv, NoBadRun
  <2>4. LimitlessInv' /\ SleepersInv' /\ OpsInv'
    BY DEF LimitlessInv, NoLimits, SleepersInv, NoLostExit, Zombies, Kids, OpsInv
  <2> QED BY <2>1, <2>2, <2>3, <2>4
<1> QED BY <1>2, <1>3, <1>4, <1>5, <1>6, <1>7 DEF Next

\* The inductive invariant holds throughout, while nobody presses ^B.
THEOREM Invariance == ASSUME 2 \notin Signals PROVE Spec => []IInv
<1>1. Init => IInv
  BY InitIInv
<1>2. IInv /\ [Next]_vars => IInv'
  BY NextKeeps
<1> QED BY <1>1, <1>2, PTL DEF Spec

\* The process that has the CPU, and no other, is RUNNING: scheduler, yield, sleep and the
\* wake-ups of the keyboard's signals in proc.c and console.c keep p->state true to c->proc.
THEOREM RunningRight == ASSUME 2 \notin Signals PROVE Spec => []RunningHasCpu
<1>1. IInv => RunningHasCpu
  BY DEF IInv, CpuInv, RunningHasCpu
<1> QED BY <1>1, Invariance, PTL

\* The scheduler of proc.c switches to no process that has exited, ...
THEOREM NoZombieRuns == ASSUME 2 \notin Signals PROVE Spec => []ZombieStays
<1>1. IInv => ZombieStays
  BY DEF IInv, NoBadRun, ZombieStays
<1> QED BY <1>1, Invariance, PTL

\* ... and to none whose page table custom_fork has not made yet.
THEOREM NoEmbryoRuns == ASSUME 2 \notin Signals PROVE Spec => []OnlyBuiltRun
<1>1. IInv => OnlyBuiltRun
  BY DEF IInv, NoBadRun, OnlyBuiltRun
<1> QED BY <1>1, Invariance, PTL

\* Whatever the limits, a process whose exec_time is used up in user space leaves through
\* exit: the tick of trap.c that ends its time kills it, before the scheduler's scan sees it.
THEOREM OutOfTimeRight == ASSUME 2 \notin Signals PROVE Spec => []OutOfTimeExits
<1>1. IInv => OutOfTimeExits
  BY DEF IInv, TimeInv, OutOfTimeExits
<1> QED BY <1>1, Invariance, PTL

\* Without time limits exit, wait and the reparenting of exit in proc.c lose no wake-up.
THEOREM NoExitLost == ASSUME 2 \notin Signals, NoLimits PROVE Spec => []NoLostExit
<1>1. IInv => NoLostExit
  BY DEF IInv, SleepersInv
<1> QED BY <1>1, Invariance, PTL

\* Without time limits no process dies between begin_op and end_op, so the log commits.
THEOREM OpsRight == ASSUME 2 \notin Signals, NoLimits PROVE Spec => []OpsEnd
<1>1. IInv => OpsEnd
  BY DEF IInv, OpsInv, OpsEnd
<1> QED BY <1>1, Invariance, PTL

\* A deferred process stays CREATED until scheduler_start, whatever the interrupts do.
LEMMA OnlyStartStarts ==
    ASSUME 2 \notin Signals, IInv, [Next]_vars, NEW s \in Slots, state[s] = "CREATED",
           state'[s] # "CREATED"
    PROVE  \E q \in Slots : SchedulerStart(q)
<1> USE SlotNames
<1>1. state \in [Slots -> States] /\ killed \in [Slots -> BOOLEAN] /\ suspended = [t \in Slots |-> FALSE]
  BY DEF IInv, ValuesInv
<1>2. \A p, l : At(p, l) => s # p
  BY DEF At, IInv, CpuInv
<1>3. ASSUME NEW p \in Slots, ForkStep(p) PROVE FALSE
  <2>1. CASE ForkAlloc(p)
    BY <2>1, <1>1 DEF ForkAlloc, Unused
  <2>2. CASE ForkInit(p) \/ \E limit \in Limits \cup {-1} : ForkCopy(p, limit)
    BY <2>2 DEF ForkInit, ForkCopy
  <2>3. CASE ForkFail(p) \/ \E later \in BOOLEAN : ForkDone(p, later)
    <3>1. pc[p] \in Building
      BY <2>3 DEF ForkFail, ForkDone, At, Building
    <3>2. np[p] # s
      BY <3>1 DEF IInv, BuildInv
    <3> QED BY <2>3, <3>2, <1>1 DEF ForkFail, ForkDone
  <2> QED BY <2>1, <2>2, <2>3, <1>3 DEF ForkStep
<1>4. ASSUME NEW p \in Slots, ExitFinish(p) PROVE FALSE
  <2>1. \A st \in [Slots -> States], q \in Slots :
            st[s] = "CREATED" => Wakeup1(st, q) \in [Slots -> States] /\ Wakeup1(st, q)[s] = "CREATED"
    BY WakeupWakes
  <2>2. s # p
    BY <1>2, <1>4 DEF ExitFinish
  <2>3. parent[p] \in Slots \cup {NoProc} /\ initproc \in Slots
    BY DEF IInv, ValuesInv
  <2> DEFINE woken == IF parent[p] = NoProc THEN state ELSE Wakeup1(state, parent[p])
  <2>4. woken \in [Slots -> States] /\ woken[s] = "CREATED"
    BY <1>1, <2>1, <2>3
  <2>5. state' = [IF \E k \in Kids(p) : state[k] = "ZOMBIE" THEN Wakeup1(woken, initproc) ELSE woken
                  EXCEPT ![p] = "ZOMBIE"]
    BY <1>4 DEF ExitFinish, StatesAfterExit
  <2> HIDE DEF woken
  <2> QED BY <2>1, <2>2, <2>3, <2>4, <2>5
<1>5. ASSUME NEW p \in Slots, Kernel(p), ~SchedulerStart(p) PROVE FALSE
  <2>1. CASE \E k \in Slots : WaitReap(p, k)
    BY <2>1, <1>1 DEF WaitReap, IsFirst, Zombies
  <2>2. CASE WaitSleep(p)
    BY <2>2, <1>1, <1>2 DEF WaitSleep
  <2>3. CASE Return(p) \/ WaitFail(p) \/ FsEnd(p) \/ ExitBegin(p)
    BY <2>3 DEF Return, WaitFail, FsEnd, ExitBegin, table
  <2> QED BY <2>1, <2>2, <2>3, <1>3, <1>4, <1>5 DEF Kernel
<1>6. ASSUME NEW p \in Slots, Dispatch(p) \/ FsSleep(p) PROVE FALSE
  <2>1. CASE Dispatch(p)
    <3>1. state' = [Swept EXCEPT ![p] = "RUNNING"] /\ state[p] = "RUNNABLE"
      BY <2>1 DEF Dispatch, Runnable
    <3> QED BY <3>1, SweptIs
  <2>2. CASE FsSleep(p)
    BY <2>2, <1>1, <1>2 DEF FsSleep
  <2> QED BY <2>1, <2>2, <1>6
<1>7. ASSUME NEW p \in Slots, NEW call \in {"fork", "wait", "start", "fs", "exit"}, Syscall(p, call)
      PROVE  FALSE
  BY <1>7 DEF Syscall, table
<1>8. CASE IdleSweep
  BY <1>8, SweptIs DEF IdleSweep
<1>9. ASSUME NEW st \in [Slots -> States], NEW kl \in [Slots -> BOOLEAN], NEW timer \in BOOLEAN,
             Interruptible, IntrReturn(st, kl, suspended, timer),
             \A t \in Slots : st[t] = state[t] \/ (state[t] = "SLEEPING" /\ st[t] = "RUNNABLE")
      PROVE  FALSE
  <2>1. \A t \in Slots : state'[t] = state[t] \/ state[t] = "SLEEPING" \/ t = cpu
    BY <1>9, IntrMoves
  <2> QED BY <2>1 DEF IInv, CpuInv
<1>10. CASE Tick
  <2>1. [killed EXCEPT ![cpu] = @ \/ TimeUp] \in [Slots -> BOOLEAN]
    BY <1>1 DEF TimeUp
  <2>2. \A t \in Slots : state[t] = state[t] \/ (state[t] = "SLEEPING" /\ state[t] = "RUNNABLE")
    OBVIOUS
  <2> QED BY <1>1, <1>9, <1>10, <2>1, <2>2 DEF Tick
<1>11. ASSUME NEW p \in Slots, DiskIntr(p) PROVE FALSE
  <2>1. /\ [state EXCEPT ![p] = "RUNNABLE"] \in [Slots -> States]
        /\ \A t \in Slots : \/ [state EXCEPT ![p] = "RUNNABLE"][t] = state[t]
                            \/ state[t] = "SLEEPING" /\ [state EXCEPT ![p] = "RUNNABLE"][t] = "RUNNABLE"
    BY <1>1, <1>11 DEF DiskIntr, States
  <2> QED BY <1>1, <1>9, <1>11, <2>1 DEF DiskIntr
<1>12. CASE SigInt \/ SigCustom
  <2>1. [t \in Slots |-> killed[t] \/ pid[t] > 2] \in [Slots -> BOOLEAN]
    OBVIOUS
  <2> QED BY <1>1, <1>9, <1>12, <2>1, UserWokenWakes DEF SigInt, SigCustom
<1>13. CASE SigFg
  <2>1. [t \in Slots |-> IF suspended[t] /\ state[t] \notin {"ZOMBIE", "UNUSED"}
                         THEN "RUNNABLE" ELSE state[t]] = state
    BY <1>1
  <2>2. [t \in Slots |-> FALSE] = suspended
    BY <1>1
  <2>3. Interruptible /\ IntrReturn(state, killed, suspended, FALSE)
    BY <1>13, <2>1, <2>2 DEF SigFg
  <2>4. \A t \in Slots : state[t] = state[t] \/ (state[t] = "SLEEPING" /\ state[t] = "RUNNABLE")
    OBVIOUS
  <2> QED BY <1>1, <1>9, <2>3, <2>4
<1>14. CASE UNCHANGED vars
  BY <1>14 DEF vars, table
<1> QED BY <1>5, <1>6, <1>7, <1>8, <1>10, <1>11, <1>12, <1>13, <1>14 DEF Next, SigBg

\* start_later of custom_fork keeps its promise: only scheduler_start makes the process ready.
THEOREM DeferredStarts == ASSUME 2 \notin Signals PROVE Spec => StartedByStart
<1>1. IInv /\ [Next]_vars => [\A p \in Slots : state[p] = "CREATED" /\ state'[p] # "CREATED"
                                                  => \E q \in Slots : SchedulerStart(q)]_vars
  BY OnlyStartStarts
<1> QED BY <1>1, Invariance, PTL DEF Spec, StartedByStart


-----------------------------------------------------------------------------
(***************************************************************************)
(* The priorities of the same scheduler, as PrioSched has them: bounded    *)
(* waiting, for every size of the table, every ALPHA and every BETA > 0.   *)
(* P!Sizes is what PrioSched assumes of its constants.                     *)
(*                                                                         *)
(* The inductive invariant is Thinning: at most NPROC - 1 - k processes    *)
(* are more than BETA * k above the priority they started with.  A scan    *)
(* lifts the ready ones by BETA, and takes away the highest.               *)
(***************************************************************************)

P == INSTANCE PrioSched

USE DEF P!Slots, P!NoProc

PrioStates == {"UNUSED", "SLEEPING", "RUNNABLE", "RUNNING", "ZOMBIE", "CREATED"}

\* What the two passes of a scan compute.
LEMMA WaitedType == ASSUME P!TypeOK
                    PROVE  /\ P!Waited \in [P!Slots -> Nat]
                           /\ \A s \in P!Ready : P!Waited[s] = waiting_time[s] + 1
                           /\ \A s \in P!Slots \ P!Ready : P!Waited[s] = waiting_time[s]
  BY DEF P!TypeOK, P!Waited, P!Ready

LEMMA SweptType == ASSUME P!TypeOK PROVE P!Swept \in [P!Slots -> PrioStates]
  BY DEF P!TypeOK, P!Swept, PrioStates

\* Every step keeps the types.
THEOREM TypeCorrect == ASSUME P!Sizes PROVE P!Spec => []P!TypeOK
<1>1. P!Init => P!TypeOK
  BY DEF P!Sizes, P!Init, P!TypeOK
<1>2. P!TypeOK /\ [P!Next]_(P!vars) => P!TypeOK'
  <2> SUFFICES ASSUME P!TypeOK, [P!Next]_(P!vars) PROVE P!TypeOK'
    OBVIOUS
  <2> USE DEF P!Sizes, P!TypeOK, P!accounts
  <2>1. ASSUME NEW p \in P!Slots, P!Dispatch(p) PROVE P!TypeOK'
    <3>1. waiting_time' \in [P!Slots -> Nat]
      BY <2>1, WaitedType DEF P!Dispatch, P!AfterDispatch
    <3>2. state' \in [P!Slots -> PrioStates]
      BY <2>1, SweptType DEF P!Dispatch, PrioStates
    <3> QED
      BY <2>1, <3>1, <3>2 DEF P!Dispatch, PrioStates
  <2>2. CASE P!IdleScan
    BY <2>2, WaitedType, SweptType DEF P!IdleScan, PrioStates
  <2>3. ASSUME NEW s \in P!Slots, NEW later \in BOOLEAN, NEW limit \in Limits, P!Fork(s, later, limit)
        PROVE  P!TypeOK'
    BY <2>3 DEF P!Fork
  <2>4. CASE P!SchedulerStart
    BY <2>4 DEF P!SchedulerStart
  <2>5. ASSUME NEW st \in {"SLEEPING", "RUNNABLE", "ZOMBIE"}, P!Leave(st) PROVE P!TypeOK'
    BY <2>5 DEF P!Leave
  <2>6. ASSUME NEW s \in P!Slots, P!Reap(s) PROVE P!TypeOK'
    BY <2>6 DEF P!Reap
  <2>7. CASE P!Tick
    <3>1. cpu \in P!Slots
      BY <2>7 DEF P!Tick
    <3>2. total_ticks' \in [P!Slots -> Nat]
      BY <2>7, <3>1 DEF P!Tick
    <3>3. state' \in [P!Slots -> PrioStates] /\ cpu' \in P!Slots \cup {P!NoProc}
      BY <2>7, <3>1 DEF P!Tick, PrioStates
    <3> QED
      BY <2>7, <3>2, <3>3 DEF P!Tick, PrioStates
  <2>8. ASSUME NEW s \in P!Slots, P!Wakeup(s) PROVE P!TypeOK'
    BY <2>8 DEF P!Wakeup
  <2>9. CASE P!SigBg
    BY <2>9 DEF P!SigBg
  <2>10. CASE P!SigFg
    BY <2>10 DEF P!SigFg
  <2>11. CASE UNCHANGED P!vars
    BY <2>11 DEF P!vars
  <2> QED
    BY <2>1, <2>2, <2>3, <2>4, <2>5, <2>6, <2>7, <2>8, <2>9, <2>10, <2>11 DEF P!Next
<1> QED
  BY <1>1, <1>2, PTL DEF P!Spec

-----------------------------------------------------------------------------
(* The thinning of the ready queue *)

\* An instance counts as its user does.
LEMMA SameCardinality == \A S : P!Cardinality(S) = Cardinality(S)
  BY DEF P!Cardinality, Cardinality

\* Sets of slots are finite, and a part of one is no larger.
LEMMA SlotSets ==
    ASSUME P!Sizes
    PROVE  /\ IsFiniteSet(P!Slots) /\ Cardinality(P!Slots) = NPROC
           /\ \A S \in SUBSET P!Slots :
                  IsFiniteSet(S) /\ Cardinality(S) \in Nat /\ Cardinality(S) <= NPROC
<1>1. IsFiniteSet(P!Slots) /\ Cardinality(P!Slots) = NPROC
  BY FS_Interval, 1 \in Int, NPROC \in Int DEF P!Sizes
<1> QED
  BY <1>1, FS_Subset, FS_CardinalityType

\* A smaller set has no more members, and one less without one of them.
LEMMA Smaller == ASSUME P!Sizes, NEW S \in SUBSET P!Slots, NEW T \in SUBSET S
                 PROVE  Cardinality(T) <= Cardinality(S)
  BY SlotSets, FS_Subset

LEMMA OneLess == ASSUME P!Sizes, NEW S \in SUBSET P!Slots, NEW p \in S, NEW T \in SUBSET (S \ {p})
                 PROVE  Cardinality(T) <= Cardinality(S) - 1
<1>1. Cardinality(S \ {p}) = Cardinality(S) - 1
  BY SlotSets, FS_RemoveElement
<1> QED
  BY <1>1, Smaller

\* A step that lets nobody become urgent keeps Thinning.
LEMMA NobodyRises == ASSUME P!Sizes, P!TypeOK, P!TypeOK', P!Thinning,
                            \A k \in 0..NPROC - 1 : P!Urgent(k)' \subseteq P!Urgent(k)
                     PROVE  P!Thinning'
<1> SUFFICES ASSUME NEW k \in 0..NPROC - 1
             PROVE  Cardinality(P!Urgent(k)') <= NPROC - 1 - k
  BY SameCardinality DEF P!Thinning
<1>1. P!Urgent(k) \in SUBSET P!Slots
  BY DEF P!Urgent
<1>2. Cardinality(P!Urgent(k)') <= Cardinality(P!Urgent(k))
  BY <1>1, Smaller
<1>3. Cardinality(P!Urgent(k)) <= NPROC - 1 - k
  BY SameCardinality DEF P!Thinning
<1>4. P!Urgent(k)' \in SUBSET P!Slots
  BY <1>1
<1> QED
  BY <1>1, <1>2, <1>3, <1>4, SlotSets DEF P!Sizes

\* Products of natural numbers, and their order.
LEMMA Product == ASSUME NEW a \in Nat, NEW m \in Nat PROVE a * m \in Nat
  OBVIOUS

LEMMA Monotone == ASSUME NEW a \in Nat, NEW m \in Nat, NEW n \in Nat, m >= n
                  PROVE  a * m >= a * n
<1>1. m - n \in Nat /\ a * (m - n) \in Nat
  OBVIOUS
<1>2. a * m = a * n + a * (m - n) /\ a * n \in Nat
  OBVIOUS
<1> QED
  BY <1>1, <1>2

\* The numbers of a slot are integers, and products of them.
LEMMA Numbers == ASSUME P!Sizes, P!TypeOK, NEW s \in P!Slots
                 PROVE  /\ waiting_time[s] \in Nat /\ total_ticks[s] \in Nat /\ exec_time[s] \in Int
                        /\ BETA * waiting_time[s] \in Nat /\ ALPHA * total_ticks[s] \in Nat
                        /\ P!Boost(s) \in Int
<1>1. waiting_time[s] \in Nat /\ total_ticks[s] \in Nat /\ exec_time[s] \in Limits \cup {-1}
  BY DEF P!TypeOK
<1>2. exec_time[s] \in Int
  <2>1. \A l \in Limits : l \in Int
    BY DEF P!Sizes
  <2>2. -1 \in Int
    OBVIOUS
  <2> QED
    BY <1>1, <2>1, <2>2
<1>3. BETA \in Nat /\ ALPHA \in Nat
  BY DEF P!Sizes
<1>4. BETA * waiting_time[s] \in Nat
  BY <1>1, <1>3, Product
<1>5. ALPHA * total_ticks[s] \in Nat
  BY <1>1, <1>3, Product
<1> QED
  BY <1>1, <1>2, <1>4, <1>5 DEF P!Boost

\* What does not count the time of any scan lets nobody rise: total_ticks only
\* grows, and a slot is used anew from the start.
LEMMA Settled == ASSUME P!Sizes, P!TypeOK, P!TypeOK', NEW s \in P!Slots,
                        \/ /\ waiting_time'[s] = waiting_time[s]
                           /\ total_ticks'[s] >= total_ticks[s]
                           /\ exec_time'[s] = exec_time[s]
                        \/ waiting_time'[s] = 0
                 PROVE  \A k \in 0..NPROC - 1 : s \in P!Urgent(k)' => s \in P!Urgent(k)
<1> SUFFICES ASSUME NEW k \in 0..NPROC - 1, s \in P!Urgent(k)' PROVE s \in P!Urgent(k)
  OBVIOUS
<1>1. ~P!Over(s)' /\ P!Boost(s)' > BETA * k
  BY DEF P!Urgent
<1>2. BETA * k \in Nat
  BY DEF P!Sizes
<1>3. CASE waiting_time'[s] = 0
  <2>1. ALPHA * total_ticks'[s] \in Nat
    BY Product DEF P!Sizes, P!TypeOK
  <2>2. P!Boost(s)' = - (ALPHA * total_ticks'[s])
    BY <1>3, <2>1 DEF P!Sizes, P!Boost
  <2> QED
    BY <1>1, <1>2, <2>1, <2>2
<1>4. CASE /\ waiting_time'[s] = waiting_time[s]
           /\ total_ticks'[s] >= total_ticks[s]
           /\ exec_time'[s] = exec_time[s]
  <2>1. ~P!Over(s)
    BY <1>1, <1>4, Numbers DEF P!Over, P!TypeOK
  <2>2. total_ticks[s] \in Nat /\ total_ticks'[s] \in Nat
    BY DEF P!TypeOK
  <2>3. ALPHA * total_ticks'[s] >= ALPHA * total_ticks[s]
    BY <1>4, <2>2, Monotone DEF P!Sizes
  <2>4. ALPHA * total_ticks'[s] \in Nat /\ ALPHA * total_ticks[s] \in Nat
    BY <2>2 DEF P!Sizes
  <2>5. P!Boost(s) >= P!Boost(s)'
    BY <1>4, <2>3, <2>4, Numbers DEF P!Boost
  <2> QED
    BY <1>1, <1>2, <2>1, <2>5, Numbers, <2>4, <1>4 DEF P!Urgent, P!Boost
<1> QED
  BY <1>3, <1>4

-----------------------------------------------------------------------------
(* A scan *)

\* One more scan to wait is worth BETA.
LEMMA OneScan == ASSUME P!Sizes, P!TypeOK, NEW s \in P!Slots
                 PROVE  BETA * (waiting_time[s] + 1) = BETA * waiting_time[s] + BETA
  BY Numbers DEF P!Sizes

LEMMA ReadyPriority == ASSUME P!Sizes, P!TypeOK, NEW s \in P!Ready
                       PROVE  P!Priority(s) = INIT_PRIORITY + P!Boost(s) + BETA
<1>1. s \in P!Slots /\ P!Waited[s] = waiting_time[s] + 1
  BY WaitedType DEF P!Ready
<1>2. BETA * P!Waited[s] = BETA * waiting_time[s] + BETA
  BY <1>1, OneScan
<1>3. BETA * waiting_time[s] \in Int /\ ALPHA * total_ticks[s] \in Int
  BY <1>1, Numbers
<1> QED
  BY <1>2, <1>3 DEF P!Sizes, P!Priority, P!Boost

\* A dispatch takes the most urgent away.
LEMMA DispatchThins == ASSUME P!Sizes, P!TypeOK, P!TypeOK', P!Thinning, NEW p \in P!Slots, P!Dispatch(p)
                       PROVE  P!Thinning'
<1> SUFFICES ASSUME NEW k \in 0..NPROC - 1
             PROVE  Cardinality(P!Urgent(k)') <= NPROC - 1 - k
  BY SameCardinality DEF P!Thinning
<1> DEFINE U == P!Urgent(k)'
<1>1. U \in SUBSET P!Slots /\ NPROC \in Nat /\ k \in Nat /\ BETA * k \in Nat /\ BETA \in Nat
  BY DEF P!Sizes, P!Urgent
<1>2. \A s \in P!Slots : /\ P!Over(s)' <=> P!Over(s)
                         /\ total_ticks'[s] = total_ticks[s]
                         /\ s # p => waiting_time'[s] = P!Waited[s]
  BY WaitedType DEF P!Dispatch, P!AfterDispatch, P!Over
<1>3. waiting_time'[p] = 0
  BY WaitedType DEF P!Dispatch, P!AfterDispatch
<1>4. p \notin U
  BY <1>1, <1>2, <1>3, Numbers DEF P!Sizes, P!Urgent, P!Boost
<1>5. \A r \in U : ~P!Over(r) /\ P!Boost(r)' > BETA * k
  BY <1>2, <1>1 DEF P!Urgent
<1>6. \A r \in U \cap P!Ready : P!Boost(r)' = P!Boost(r) + BETA
  <2> SUFFICES ASSUME NEW r \in U \cap P!Ready PROVE P!Boost(r)' = P!Boost(r) + BETA
    OBVIOUS
  <2>1. waiting_time'[r] = waiting_time[r] + 1 /\ total_ticks'[r] = total_ticks[r]
    BY <1>1, <1>2, <1>4, WaitedType
  <2>2. BETA * waiting_time'[r] = BETA * waiting_time[r] + BETA
    BY <2>1, <1>1, OneScan
  <2>3. BETA * waiting_time[r] \in Int /\ ALPHA * total_ticks[r] \in Int
    BY <1>1, Numbers
  <2> QED
    BY <2>1, <2>2, <2>3, <1>1 DEF P!Boost
<1>7. \A r \in U \ P!Ready : P!Boost(r)' = P!Boost(r)
  BY <1>1, <1>2, <1>4, WaitedType DEF P!Boost
<1>8. CASE k = 0
  <2>1. Cardinality(U) <= Cardinality(P!Slots) - 1
    BY <1>1, <1>4, OneLess
  <2> QED
    BY <2>1, <1>8, SlotSets, <1>1
<1>9. CASE k > 0 /\ U \cap P!Ready = {}
  <2>1. U \in SUBSET P!Urgent(k)
    BY <1>1, <1>5, <1>7, <1>9 DEF P!Urgent
  <2>2. P!Urgent(k) \in SUBSET P!Slots
    BY DEF P!Urgent
  <2>3. Cardinality(U) <= Cardinality(P!Urgent(k))
    BY <2>1, <2>2, Smaller
  <2> QED
    BY <2>2, <2>3, <1>1, SlotSets, SameCardinality DEF P!Thinning
<1>10. CASE k > 0 /\ U \cap P!Ready # {}
  <2> DEFINE V == P!Urgent(k - 1)
  <2>1. k - 1 \in 0..NPROC - 1 /\ BETA * (k - 1) = BETA * k - BETA
    BY <1>10, <1>1 DEF P!Sizes
  <2>2. V \in SUBSET P!Slots
    BY DEF P!Urgent
  <2>3. U \subseteq V
    BY <1>1, <1>5, <1>6, <1>7, <2>1, Numbers DEF P!Urgent
  <2>4. p \in V
    <3>1. PICK r \in U : r \in P!Ready
      BY <1>10
    <3>2. r \in P!Candidates /\ p \in P!Candidates /\ P!Before(p, r)
      BY <3>1, <1>5 DEF P!Dispatch, P!Candidates
    <3>3. p \in P!Ready /\ ~P!Over(p)
      BY <3>2 DEF P!Candidates
    <3>4. P!Priority(p) = INIT_PRIORITY + P!Boost(p) + BETA
      BY <3>3, ReadyPriority
    <3>5. P!Priority(r) = INIT_PRIORITY + P!Boost(r) + BETA
      BY <3>1, ReadyPriority
    <3>6. r \in P!Slots /\ P!Boost(p) \in Int /\ P!Boost(r) \in Int
      BY <1>1, Numbers
    <3>7. P!Boost(p) >= P!Boost(r)
      BY <3>2, <3>4, <3>5, <3>6, <1>1 DEF P!Sizes, P!Before
    <3>8. P!Boost(r) > BETA * (k - 1)
      BY <3>1, <2>3 DEF P!Urgent
    <3> QED
      BY <3>3, <3>6, <3>7, <3>8, <2>1, <1>1 DEF P!Urgent
  <2>5. Cardinality(U) <= Cardinality(V) - 1
    BY <2>2, <2>3, <2>4, <1>4, OneLess
  <2>6. Cardinality(V) <= NPROC - 1 - (k - 1)
    BY <2>1, SameCardinality DEF P!Thinning
  <2> QED
    BY <2>2, <2>5, <2>6, <1>1, SlotSets
<1> QED
  BY <1>1, <1>8, <1>9, <1>10

\* A scan that finds nobody lifts only processes whose time is over.
LEMMA IdleScanSettles == ASSUME P!Sizes, P!TypeOK, P!TypeOK', P!Thinning, P!IdleScan PROVE P!Thinning'
<1>1. \A s \in P!Slots : P!Over(s)' <=> P!Over(s)
  BY DEF P!IdleScan, P!Over
<1>2. \A s \in P!Slots : ~P!Over(s) => s \notin P!Ready
  BY DEF P!IdleScan, P!Candidates
<1>3. \A s \in P!Slots : ~P!Over(s) => P!Boost(s)' = P!Boost(s)
  BY <1>2, WaitedType DEF P!IdleScan, P!Boost
<1> QED
  BY <1>1, <1>3, NobodyRises DEF P!Urgent

-----------------------------------------------------------------------------

\* The steps that are not scans settle every slot.
LEMMA NextThins == ASSUME P!Sizes, P!TypeOK, P!TypeOK', P!Thinning, [P!Next]_(P!vars) PROVE P!Thinning'
<1> DEFINE Same(s) == /\ waiting_time'[s] = waiting_time[s]
                      /\ total_ticks'[s] >= total_ticks[s]
                      /\ exec_time'[s] = exec_time[s]
<1> HIDE DEF Same
<1>1. ASSUME \A s \in P!Slots : Same(s) \/ waiting_time'[s] = 0 PROVE P!Thinning'
  <2>1. \A s \in P!Slots, k \in 0..NPROC - 1 : s \in P!Urgent(k)' => s \in P!Urgent(k)
    BY <1>1, Settled DEF Same
  <2> QED
    BY <2>1, NobodyRises DEF P!Urgent
<1>2. \A s \in P!Slots : total_ticks[s] \in Nat /\ total_ticks[s] >= total_ticks[s]
  BY DEF P!TypeOK
<1>3. ASSUME UNCHANGED <<exec_time, total_ticks, waiting_time>> PROVE P!Thinning'
  BY <1>1, <1>2, <1>3 DEF Same
<1>4. ASSUME NEW p \in P!Slots, P!Dispatch(p) PROVE P!Thinning'
  BY <1>4, DispatchThins
<1>5. CASE P!IdleScan
  BY <1>5, IdleScanSettles
<1>6. ASSUME NEW s \in P!Slots, NEW later \in BOOLEAN, NEW limit \in Limits, P!Fork(s, later, limit)
      PROVE  P!Thinning'
  <2>1. \A t \in P!Slots : IF t = s THEN waiting_time'[t] = 0
                                  ELSE /\ waiting_time'[t] = waiting_time[t]
                                       /\ total_ticks'[t] = total_ticks[t]
                                       /\ exec_time'[t] = exec_time[t]
    BY <1>6 DEF P!Fork, P!TypeOK
  <2> QED
    BY <2>1, <1>1, <1>2 DEF Same
<1>7. CASE P!Tick
  <2>1. \A t \in P!Slots : total_ticks'[t] >= total_ticks[t]
    BY <1>7, <1>2 DEF P!Tick, P!TypeOK
  <2> QED
    BY <2>1, <1>1, <1>7 DEF P!Tick, Same
<1>8. CASE UNCHANGED P!vars
  BY <1>8, <1>3 DEF P!vars, P!accounts
<1>9. ASSUME NEW p \in P!Slots, P!Reap(p) \/ P!Wakeup(p) PROVE P!Thinning'
  BY <1>9, <1>3 DEF P!Reap, P!Wakeup, P!accounts
<1>10. CASE P!SchedulerStart \/ P!SigBg \/ P!SigFg
  BY <1>10, <1>3 DEF P!SchedulerStart, P!SigBg, P!SigFg, P!accounts
<1>11. ASSUME NEW st \in {"SLEEPING", "RUNNABLE", "ZOMBIE"}, P!Leave(st) PROVE P!Thinning'
  BY <1>11, <1>3 DEF P!Leave, P!accounts
<1> QED
  BY <1>4, <1>5, <1>6, <1>7, <1>8, <1>9, <1>10, <1>11 DEF P!Next

\* At the start nobody has waited.
LEMMA InitThins == ASSUME P!Sizes PROVE P!Init => P!Thinning
<1> SUFFICES ASSUME P!Init, NEW k \in 0..NPROC - 1 PROVE Cardinality(P!Urgent(k)) <= NPROC - 1 - k
  BY SameCardinality DEF P!Thinning
<1>1. \A s \in P!Slots : waiting_time[s] = 0 /\ total_ticks[s] = 0
  BY DEF P!Init
<1>2. \A s \in P!Slots : P!Boost(s) = 0
  BY <1>1 DEF P!Sizes, P!Boost
<1>3. BETA * k \in Nat
  BY DEF P!Sizes
<1>4. P!Urgent(k) = {}
  BY <1>2, <1>3 DEF P!Urgent
<1> QED
  BY <1>4, FS_EmptySet DEF P!Sizes

\* The higher the priority, the fewer have it, in every reachable state.
THEOREM ThinningCorrect == ASSUME P!Sizes PROVE P!Spec => []P!Thinning
<1>1. P!TypeOK /\ P!TypeOK' /\ P!Thinning /\ [P!Next]_(P!vars) => P!Thinning'
  BY NextThins
<1> QED
  BY <1>1, InitThins, TypeCorrect, PTL DEF P!Spec

\* Bounded waiting: nobody is more than NPROC - 1 scans ahead of what its CPU
\* time costs it, so that nobody is passed over more often than that.
THEOREM WaitIsBounded == ASSUME P!Sizes PROVE P!Spec => []WaitBounded
<1>1. P!TypeOK /\ P!Thinning => WaitBounded
  <2> SUFFICES ASSUME P!TypeOK, P!Thinning, NEW s \in P!Slots, ~P!Over(s)
               PROVE  P!Boost(s) <= BETA * (NPROC - 1)
    BY DEF WaitBounded, Slots, Over, Boost, P!Over, P!Boost
  <2> DEFINE U == P!Urgent(NPROC - 1)
  <2>1. NPROC - 1 \in 0..NPROC - 1 /\ NPROC - 1 - (NPROC - 1) = 0
    BY DEF P!Sizes
  <2>2. U \in SUBSET P!Slots
    BY DEF P!Urgent
  <2>3. Cardinality(U) <= 0
    BY <2>1, SameCardinality DEF P!Thinning
  <2>4. U = {}
    BY <2>2, <2>3, SlotSets, FS_EmptySet
  <2>5. P!Boost(s) \in Int /\ BETA * (NPROC - 1) \in Int
    BY Numbers DEF P!Sizes
  <2> QED
    BY <2>4, <2>5 DEF P!Urgent
<1> QED
  BY <1>1, TypeCorrect, ThinningCorrect, PTL
=============================================================================
