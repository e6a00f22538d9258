------------------------------ MODULE SigSched ------------------------------
(***************************************************************************)
(* The process table of Signal-Scheduler-xv6, on the one CPU its Makefile  *)
(* configures: what this variant adds to fork, exit, wait and the          *)
(* scheduler (proc.c), the signals of the keyboard (console.c), custom_fork*)
(* and scheduler_start, and the timer and the interrupt return of trap.c.  *)
(*                                                                         *)
(* A step is one critical section of ptable.lock, which keeps interrupts   *)
(* off, or the code between two of them, where an interrupt may come.  The *)
(* scheduler may take any process it finds ready: PrioSched has the        *)
(* priorities.  A file-system call is a section between begin_op and end_op*)
(* that may sleep on the disk.  kill() and pipes are in Proc.              *)
(***************************************************************************)
EXTENDS SchedTable, FiniteSets

CONSTANTS MaxPid,    \* bound: the last pid nextpid may hand out
          Signals,   \* the keys pressed: 1 ^C, 2 ^B, 3 ^F, 4 ^G
          Limits,    \* exec_time arguments of custom_fork, -1 for none (as is 0)
          Laters,    \* start_later arguments of custom_fork
          OutOfMemory

ASSUME SigSchedAssumption == /\ NPROC \in Nat \ {0, 1} /\ MaxPid \in Nat \ {0, 1}
                             /\ Signals \subseteq 1..4
                             /\ Limits \subseteq (Nat \ {0}) \cup {-1}
                             /\ Laters \subseteq BOOLEAN /\ OutOfMemory \in BOOLEAN

initproc == 1

VARIABLES state, pid, parent, killed,
          suspended,  \* p->suspended
          left,       \* p->exec_time - p->total_ticks, -1 if there is no limit
          built,      \* p->pgdir is this process's page table
          pc,         \* where the process is
          quiet,      \* those that run in the trap of an interrupt, interrupts off
          np,         \* the child custom_fork is building
          cpu,        \* c->proc; NoProc while the scheduler loops
          nextpid,
          initsh,     \* the pid of the shell init waits for, 0 when it has none
          panic       \* what the kernel panic with

table == <<state, pid, parent, killed, suspended, left, built>>
vars == <<table, pc, quiet, np, cpu, nextpid, initsh, panic>>

FsLabels == {"fs", "exit_fs"}
Labels == {"user",                        \* in user space
           "tail",                        \* a trap from user space has yielded
           "fork", "fork_init", "fork_copy", "fork_done",
           "wait", "start", "fs", "return",
           "exit", "exit_fs", "exit_lock", "gone"}

\* Process p runs, at label l.
At(p, l) == cpu = p /\ pc[p] = l /\ panic = "none"

Goto(p, l) == pc' = [pc EXCEPT ![p] = l]

\* wakeup1(q): the sleepers on a process are those in its wait.
Wakeup1(st, q) == [st EXCEPT ![q] = IF @ = "SLEEPING" /\ pc[q] = "wait" THEN "RUNNABLE" ELSE @]

\* A mutant for the runs: trap() does not test killed on the way to user space.
OnwardToUser(p, kl, l) == IF kl[p] /\ l # "user" THEN "exit" ELSE l

\* trap() on the way to label l: a killed process exits instead.
Onward(p, kl, l) == IF kl[p] THEN "exit" ELSE l

Init == /\ state = [s \in Slots |-> IF s <= 2 THEN "RUNNABLE" ELSE "UNUSED"]
        /\ pid = [s \in Slots |-> IF s <= 2 THEN s ELSE 0]
        /\ parent = [s \in Slots |-> IF s = 2 THEN initproc ELSE NoProc]
        /\ killed = [s \in Slots |-> FALSE]
        /\ suspended = [s \in Slots |-> FALSE]
        /\ left = [s \in Slots |-> -1]
        /\ built = [s \in Slots |-> s <= 2]
        /\ pc = [s \in Slots |-> "user"]
        /\ quiet = {}
        /\ np = [s \in Slots |-> NoProc]
        /\ cpu = NoProc
        /\ nextpid = 3
        /\ initsh = 2
        /\ panic = "none"

-----------------------------------------------------------------------------
(* The scheduler *)

Runnable == {s \in Slots : state[s] = "RUNNABLE" /\ ~suspended[s]}

\* A mutant for the runs: the scheduler also reaps the killed.
ExpiredKilled == {s \in Runnable : left[s] = 0 \/ killed[s]}

\* Those whose time is over.
Expired == {s \in Runnable : left[s] = 0}

\* The scan makes a process whose time is over a zombie.
Swept == [s \in Slots |-> IF s \in Expired THEN "ZOMBIE" ELSE state[s]]

\* It runs one of the others.  A process that exited panics; so does one that has
\* no page table yet, or in a slot used before it loads the page table freed there
\* (both are "no pgdir").  A trap that has yielded now returns to user space.
Dispatch(p) == /\ cpu = NoProc /\ panic = "none"
               /\ p \in Runnable \ Expired
               /\ state' = [Swept EXCEPT ![p] = "RUNNING"]
               /\ cpu' = p
               /\ panic' = CASE pc[p] = "gone" -> "zombie exit"
                             [] pc[p] # "gone" /\ ~built[p] -> "no pgdir"
                             [] OTHER -> panic
               /\ pc' = [pc EXCEPT ![p] = IF @ = "tail" THEN Onward(p, killed, "user") ELSE @]
               /\ quiet' = IF pc[p] = "tail" /\ pc'[p] = "exit" THEN quiet \cup {p} ELSE quiet
               /\ UNCHANGED <<pid, parent, killed, suspended, left, built, np, nextpid, initsh>>

IdleSweep == /\ cpu = NoProc /\ panic = "none"
             /\ Runnable = Expired
             /\ Expired # {}
             /\ state' = Swept
             /\ UNCHANGED <<pid, parent, killed, suspended, left, built, pc, np, cpu, quiet, nextpid, initsh, panic>>

-----------------------------------------------------------------------------
(* System calls *)

\* trap() on a system call: init forks a shell when it has none, and else waits.
Syscall(p, call) ==
    /\ At(p, "user")
    /\ p = initproc => call = IF initsh = 0 THEN "fork" ELSE "wait"
    /\ call = "fork" => nextpid + Cardinality({q \in Slots : pc[q] = "fork"}) <= MaxPid
    /\ Goto(p, Onward(p, killed, call))
    /\ UNCHANGED <<table, np, cpu, quiet, nextpid, initsh, panic>>

\* The end of a system call, in syscall() and trap().
Return(p) == /\ At(p, "return")
             /\ Goto(p, Onward(p, killed, "user"))
             /\ UNCHANGED <<table, np, cpu, quiet, nextpid, initsh, panic>>

\* The first slot for which P holds, as the scans of ptable find it.
IsFirst(s, P) == s \in P /\ \A t \in P : s <= t

Unused == {s \in Slots : state[s] = "UNUSED"}

\* Where a failed fork returns: init exits.
ForkFailed(p) == IF p = initproc THEN "exit" ELSE "return"

\* allocproc under ptable.lock
ForkAlloc(p) ==
    /\ At(p, "fork")
    /\ IF Unused = {}
       THEN Goto(p, ForkFailed(p)) /\ UNCHANGED <<state, pid, built, np, nextpid>>
       ELSE \E s \in Unused : /\ IsFirst(s, Unused)
                              /\ state' = [state EXCEPT ![s] = "EMBRYO"]
                              /\ pid' = [pid EXCEPT ![s] = nextpid]
                              /\ nextpid' = nextpid + 1
                              /\ built' = [built EXCEPT ![s] = FALSE]
                              /\ np' = [np EXCEPT ![p] = s]
                              /\ Goto(p, "fork_init")
    /\ UNCHANGED <<parent, killed, suspended, left, cpu, quiet, initsh, panic>>

\* The rest of allocproc, without the lock
ForkInit(p) == /\ At(p, "fork_init")
               /\ suspended' = [suspended EXCEPT ![np[p]] = FALSE]
               /\ left' = [left EXCEPT ![np[p]] = -1]
               /\ Goto(p, "fork_copy")
               /\ UNCHANGED <<state, pid, parent, killed, built, np, cpu, quiet, nextpid, initsh, panic>>

\* Only user programs other than init call custom_fork.
ForkArgs(p, A, default) == IF p = initproc THEN {default} ELSE A \cup {default}

ForkCopy(p, limit) == /\ At(p, "fork_copy")
                      /\ limit \in ForkArgs(p, Limits, -1)
                      /\ built' = [built EXCEPT ![np[p]] = TRUE]
                      /\ parent' = [parent EXCEPT ![np[p]] = p]
                      /\ left' = [left EXCEPT ![np[p]] = limit]
                      /\ pc' = [pc EXCEPT ![p] = "fork_done", ![np[p]] = "user"]
                      /\ quiet' = quiet \ {np[p]}
                      /\ UNCHANGED <<state, pid, killed, suspended, np, cpu, nextpid, initsh, panic>>

\* copyuvm fails: the slot is free again, with its pid.
ForkFail(p) == /\ At(p, "fork_copy")
               /\ OutOfMemory
               /\ state' = [state EXCEPT ![np[p]] = "UNUSED"]
               /\ Goto(p, ForkFailed(p))
               /\ UNCHANGED <<pid, parent, killed, suspended, left, built, np, cpu, quiet, nextpid, initsh, panic>>

ForkDone(p, later) == /\ At(p, "fork_done")
                      /\ later \in ForkArgs(p, Laters, FALSE)
                      /\ state' = [state EXCEPT ![np[p]] = IF later THEN "CREATED" ELSE "RUNNABLE"]
                      /\ Goto(p, "return")
                      /\ initsh' = IF p = initproc THEN pid[np[p]] ELSE initsh
                      /\ UNCHANGED <<pid, parent, killed, suspended, left, built, np, cpu, quiet, nextpid, panic>>

SchedulerStart(p) == /\ At(p, "start")
                     /\ state' = [s \in Slots |-> IF state[s] = "CREATED" THEN "RUNNABLE" ELSE state[s]]
                     /\ Goto(p, "return")
                     /\ UNCHANGED <<pid, parent, killed, suspended, left, built, np, cpu, quiet, nextpid, initsh, panic>>

Kids(p) == {s \in Slots : parent[s] = p}
Zombies(p) == {s \in Kids(p) : state[s] = "ZOMBIE"}

\* wait finds a zombie
WaitReap(p, s) == /\ At(p, "wait")
                  /\ IsFirst(s, Zombies(p))
                  /\ pid' = [pid EXCEPT ![s] = 0]
                  /\ parent' = [parent EXCEPT ![s] = NoProc]
                  /\ killed' = [killed EXCEPT ![s] = FALSE]
                  /\ state' = [state EXCEPT ![s] = "UNUSED"]
                  /\ initsh' = IF p = initproc /\ pid[s] = initsh THEN 0 ELSE initsh
                  /\ Goto(p, "return")
                  /\ UNCHANGED <<suspended, left, built, np, cpu, quiet, nextpid, panic>>

\* wait returns -1; init then starts another shell.
WaitFail(p) == /\ At(p, "wait")
               /\ Zombies(p) = {}
               /\ Kids(p) = {} \/ killed[p]
               /\ initsh' = IF p = initproc THEN 0 ELSE initsh
               /\ Goto(p, "return")
               /\ UNCHANGED <<table, np, cpu, quiet, nextpid, panic>>

WaitSleep(p) == /\ At(p, "wait")
                /\ Zombies(p) = {}
                /\ Kids(p) # {} /\ ~killed[p]
                /\ state' = [state EXCEPT ![p] = "SLEEPING"]
                /\ cpu' = NoProc
                /\ UNCHANGED <<pid, parent, killed, suspended, left, built, pc, np, quiet, nextpid, initsh, panic>>

\* Inside a file-system call, also exit's: sleep on the disk, or end it.
FsSleep(p) == /\ At(p, "fs") \/ At(p, "exit_fs")
              /\ state' = [state EXCEPT ![p] = "SLEEPING"]
              /\ cpu' = NoProc
              /\ UNCHANGED <<pid, parent, killed, suspended, left, built, pc, np, quiet, nextpid, initsh, panic>>

FsEnd(p) == /\ \/ At(p, "fs") /\ Goto(p, "return")
               \/ At(p, "exit_fs") /\ Goto(p, "exit_lock")
            /\ UNCHANGED <<table, np, cpu, quiet, nextpid, initsh, panic>>

\* exit, to the begin_op for the current directory
ExitBegin(p) == /\ At(p, "exit")
                /\ panic' = IF p = initproc THEN "init exiting" ELSE panic
                /\ Goto(p, "exit_fs")
                /\ UNCHANGED <<table, np, cpu, quiet, nextpid, initsh>>

\* Mutant: exit wakes nobody.
StatesAfterExitSilent(p) == [state EXCEPT ![p] = "ZOMBIE"]

\* exit wakes the parent, and init for the zombies it inherits.
StatesAfterExit(p) ==
    LET zombieKid == \E s \in Kids(p) : state[s] = "ZOMBIE"
        woken == IF parent[p] = NoProc THEN state ELSE Wakeup1(state, parent[p])
    IN  [IF zombieKid THEN Wakeup1(woken, initproc) ELSE woken EXCEPT ![p] = "ZOMBIE"]

\* The rest of exit, under ptable.lock
ExitFinish(p) ==
    /\ At(p, "exit_lock")
    /\ state' = StatesAfterExit(p)
    /\ parent' = [s \in Slots |-> IF parent[s] = p THEN initproc ELSE parent[s]]
    /\ Goto(p, "gone")
    /\ cpu' = NoProc
    /\ UNCHANGED <<pid, killed, suspended, left, built, np, quiet, nextpid, initsh, panic>>

-----------------------------------------------------------------------------
(* Interrupts *)

\* Interrupts are on in the scheduler's loop, in user space and in system calls.
Interruptible == panic = "none" /\ cpu \notin quiet

InUser == cpu # NoProc /\ pc[cpu] = "user"

\* A mutant for the runs: the timer does not preempt.
NeverPreempts(st, timer) == FALSE

\* A timer tick makes a RUNNING process yield anywhere.
Preempts(st, timer) == timer /\ cpu # NoProc /\ st[cpu] = "RUNNING"

\* How trap() ends, after a handler has left the states st, the killed flags kl
\* and the suspended flags su.  In user space a killed process exits at once, one
\* that the timer preempts looks at killed again when it is back (label tail), and
\* a suspended one yields on any interrupt.
IntrReturn(st, kl, su, timer) ==
    LET dies == InUser /\ Onward(cpu, kl, "user") = "exit"
        preempted == Preempts(st, timer) /\ ~dies
        yields == preempted \/ (InUser /\ su[cpu] /\ ~dies)
    IN  /\ state' = IF yields THEN [st EXCEPT ![cpu] = "RUNNABLE"] ELSE st
        /\ cpu' = IF yields THEN NoProc ELSE cpu
        /\ killed' = kl
        /\ suspended' = su
        /\ pc' = CASE dies -> [pc EXCEPT ![cpu] = "exit"]
                   [] preempted /\ InUser -> [pc EXCEPT ![cpu] = "tail"]
                   [] OTHER -> pc
        /\ quiet' = IF dies THEN quiet \cup {cpu} ELSE quiet

\* The timer counts against exec_time only a RUNNING process.
Counted == state[cpu] = "RUNNING" /\ ~suspended[cpu]

\* A mutant for the runs: exec_time = -1 is counted down too.
TicksLeftAny == IF Counted /\ left[cpu] # 0 THEN left[cpu] - 1 ELSE left[cpu]

TicksLeft == IF Counted /\ left[cpu] > 0 THEN left[cpu] - 1 ELSE left[cpu]

\* A mutant for the runs: the limit is tested before the tick is counted.
TimeUpLate == Counted /\ left[cpu] = 0

TimeUp == Counted /\ TicksLeft = 0

Tick == /\ cpu # NoProc /\ Interruptible
        /\ left' = [left EXCEPT ![cpu] = TicksLeft]
        /\ IntrReturn(state, [killed EXCEPT ![cpu] = @ \/ TimeUp], suspended, TRUE)
        /\ UNCHANGED <<pid, parent, built, np, nextpid, initsh, panic>>

\* The disk interrupt wakes a process that waits for its block.
DiskIntr(p) == /\ Interruptible
               /\ state[p] = "SLEEPING" /\ pc[p] \in FsLabels
               /\ IntrReturn([state EXCEPT ![p] = "RUNNABLE"], killed, suspended, FALSE)
               /\ UNCHANGED <<pid, parent, left, built, np, nextpid, initsh, panic>>

\* Mutant: they make every user process ready that is not dead, new or deferred.
UserWokenLive == [s \in Slots |-> IF pid[s] > 2 /\ state[s] \in {"SLEEPING", "RUNNING"}
                                  THEN "RUNNABLE" ELSE state[s]]

\* SIGINT and SIGCUSTOM wake the user processes that sleep.
UserWoken == [s \in Slots |-> IF pid[s] > 2 /\ state[s] = "SLEEPING" THEN "RUNNABLE" ELSE state[s]]

\* sendsig(SIGINT)
SigInt == /\ 1 \in Signals /\ Interruptible
          /\ IntrReturn(UserWoken, [s \in Slots |-> killed[s] \/ pid[s] > 2], suspended, FALSE)
          /\ UNCHANGED <<pid, parent, left, built, np, nextpid, initsh, panic>>

\* sendsig(SIGBG): the shell's children become init's.
SigBg == /\ 2 \in Signals /\ Interruptible
         /\ parent' = [s \in Slots |-> IF pid[s] > 2 /\ parent[s] # NoProc /\ pid[parent[s]] = 2
                                       THEN initproc ELSE parent[s]]
         /\ IntrReturn([s \in Slots |-> IF pid[s] = 2 THEN "RUNNABLE" ELSE state[s]], killed,
                       [s \in Slots |-> IF pid[s] = 2 THEN FALSE ELSE suspended[s] \/ pid[s] > 2], FALSE)
         /\ UNCHANGED <<pid, left, built, np, nextpid, initsh, panic>>

\* sendsig(SIGFG)
SigFg == /\ 3 \in Signals /\ Interruptible
         /\ IntrReturn([s \in Slots |-> IF suspended[s] /\ state[s] \notin {"ZOMBIE", "UNUSED"}
                                        THEN "RUNNABLE" ELSE state[s]],
                       killed, [s \in Slots |-> FALSE], FALSE)
         /\ UNCHANGED <<pid, parent, left, built, np, nextpid, initsh, panic>>

\* sendsig(SIGCUSTOM), as far as it concerns scheduling
SigCustom == /\ 4 \in Signals /\ Interruptible
             /\ IntrReturn(UserWoken, killed, suspended, FALSE)
             /\ UNCHANGED <<pid, parent, left, built, np, nextpid, initsh, panic>>

-----------------------------------------------------------------------------

ForkStep(p) == \/ ForkAlloc(p) \/ ForkInit(p) \/ ForkFail(p)
               \/ \E limit \in Limits \cup {-1} : ForkCopy(p, limit)
               \/ \E later \in BOOLEAN : ForkDone(p, later)

Kernel(p) == \/ ForkStep(p) \/ SchedulerStart(p) \/ Return(p)
             \/ (\E s \in Slots : WaitReap(p, s)) \/ WaitFail(p) \/ WaitSleep(p)
             \/ FsEnd(p) \/ ExitBegin(p) \/ ExitFinish(p)

Next == \/ \E p \in Slots : \/ Dispatch(p) \/ Kernel(p) \/ FsSleep(p) \/ DiskIntr(p)
                            \/ \E call \in {"fork", "wait", "start", "fs", "exit"} : Syscall(p, call)
        \/ IdleSweep \/ Tick
        \/ SigInt \/ SigBg \/ SigFg \/ SigCustom

Spec == Init /\ [][Next]_vars

(***************************************************************************)
(* Fairness: the timer and the disk interrupt, a process that again and    *)
(* again has the CPU in the kernel gets on (ticks are 10 ms apart, a       *)
(* section of the kernel takes microseconds), a file-system call sleeps    *)
(* only finitely often, and the scheduler does not pass over a ready       *)
(* process for ever, since its dynamic priority rises while it waits       *)
(* (PrioSched).  Nobody has to press a key or make a system call.          *)
(***************************************************************************)
Fairness == /\ \A p \in Slots : /\ SF_vars(Kernel(p)) /\ SF_vars(Dispatch(p))
                                /\ WF_vars(DiskIntr(p))
            /\ WF_vars(Tick) /\ WF_vars(IdleSweep)

-----------------------------------------------------------------------------
(* Properties *)

TypeOK == /\ state \in [Slots -> {"UNUSED", "EMBRYO", "SLEEPING", "RUNNABLE",
                                  "RUNNING", "ZOMBIE", "CREATED"}]
          /\ pid \in [Slots -> 0..MaxPid]
          /\ parent \in [Slots -> Slots \cup {NoProc}]
          /\ killed \in [Slots -> BOOLEAN] /\ suspended \in [Slots -> BOOLEAN]
          /\ left \in [Slots -> Limits \cup Nat \cup {-1}]
          /\ built \in [Slots -> BOOLEAN]
          /\ pc \in [Slots -> Labels] /\ quiet \subseteq Slots
          /\ np \in [Slots -> Slots \cup {NoProc}]
          /\ cpu \in Slots \cup {NoProc}
          /\ nextpid \in 3..MaxPid + 1
          /\ initsh \in 0..MaxPid
          /\ panic \in {"none", "init exiting", "zombie exit", "no pgdir"}

\* No exit is lost: a process asleep in wait has no zombie child.
NoLostExit == \A p \in Slots : state[p] = "SLEEPING" /\ pc[p] = "wait" => Zombies(p) = {}

\* Every file-system call ends: a process between begin_op and end_op is not
\* dead, or log.outstanding would stay up and nothing would be committed again.
OpsEnd == \A p \in Slots : pc[p] \in FsLabels => state[p] \notin {"ZOMBIE", "UNUSED"}

\* The scheduler never runs a process that exited ("zombie exit").
ZombieStays == panic # "zombie exit"

\* It never runs a process that fork has not given a page table ("no pgdir").
OnlyBuiltRun == panic # "no pgdir"

\* Process states tell the truth about the CPU: the process that has it is RUNNING
\* (only then the timer makes it yield and counts its time), and no other is.
RunningHasCpu == \A p \in Slots : state[p] = "RUNNING" <=> cpu = p

\* A process forked with start_later waits for scheduler_start.
StartedByStart == [][\A p \in Slots : state[p] = "CREATED" /\ state'[p] # "CREATED"
                                          => \E q \in Slots : SchedulerStart(q)]_vars

\* A limit that runs out in user space ends in exit, which wakes the parent and
\* closes the files: the scheduler's own test in its scan, which only makes a
\* zombie, does not come first, nor does the process run on without time.
OutOfTimeExits == \A p \in Slots : pc[p] \in {"user", "tail"} =>
                      state[p] # "ZOMBIE" /\ (cpu = p => left[p] # 0)

\* A killed process that has been started exits in the end, unless the kernel
\* panics first.
KilledExits == \A p \in Slots : killed[p] /\ state[p] \notin {"UNUSED", "ZOMBIE", "CREATED"}
    ~> state[p] \in {"UNUSED", "ZOMBIE", "CREATED"} \/ panic # "none"

\* No process keeps the CPU for ever: the timer takes it away.
CpuGivenUp == \A p \in Slots : cpu = p ~> cpu # p \/ panic # "none"
=============================================================================
