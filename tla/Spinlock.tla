------------------------------ MODULE Spinlock ------------------------------
(***************************************************************************)
(* Spinlocks, pushcli/popcli and the interrupts they mask (spinlock.c),    *)
(* with the code that is hardest on them: sys_sleep, which sleeps with     *)
(* tickslock; fork; the timer interrupt, which takes tickslock and then    *)
(* ptable.lock and may yield; and swtch, which hands ptable.lock from a    *)
(* kernel thread to the scheduler of its CPU and back, possibly on another *)
(* CPU.                                                                    *)
(*                                                                         *)
(* pc[t] is a place in the code of thread t and the number of a step in    *)
(* it: acquire, release and myproc take several steps, between which other *)
(* CPUs run and, where the flag allows it, interrupts come.  Memory is     *)
(* sequentially consistent, as the barriers of acquire and release make    *)
(* it for what the locks protect.                                          *)
(***************************************************************************)
EXTENDS Integers, Sequences, FiniteSets

CONSTANTS NCPU,    \* number of CPUs
          NPROC,   \* size of the process table
          MaxNest  \* bound on interrupt frames on one stack

ASSUME SpinlockAssumption == {NCPU, NPROC, MaxNest} \subseteq Nat \ {0}

CPUs == 0..(NCPU - 1)
Procs == 1..NPROC
NoCpu == -1          \* a null lk->cpu
NoKid == 0

\* The kernel threads: the processes, and the scheduler of each CPU.
Sched(c) == -1 - c
Threads == Procs \cup {Sched(c) : c \in CPUs}

Locks == {"tickslock", "ptable"}

VARIABLES flag,    \* FL_IF in the CPU's eflags
          ncli,    \* cpu->ncli
          intena,  \* cpu->intena
          run,     \* the thread the CPU runs; cpu->proc is null for Sched(c)
          pos,     \* p in the scheduler's scan
          locked,  \* lk->locked
          holder,  \* lk->cpu
          state,   \* p->state; a sleeper sleeps on &ticks
          pc,
          frames,  \* the interrupted pc and eflags of the interrupts on the stack
          eflags,  \* the local of pushcli
          here,    \* c in myproc
          saved,   \* intena in sched
          kid,     \* np in fork
          panicked

vars == <<flag, ncli, intena, run, pos, locked, holder, state, pc, frames, eflags, here,
          saved, kid, panicked>>

cpu == <<ncli, intena, run, pos>>
local == <<eflags, here, saved, kid>>

-----------------------------------------------------------------------------
(* The code's places and steps *)

Acquires == {"sys_acq", "sleep_acq", "sleep_reacq", "alloc_acq", "fork_acq", "tick_acq",
             "wake_acq", "yield_acq", "scan_acq"}
Releases == {"sys_rel", "sleep_rel", "sleep_back", "alloc_rel", "full_rel", "fork_rel",
             "tick_rel", "wake_rel", "yield_rel", "scan_rel", "forkret"}

\* The lock a place acquires or releases.
LockOf(place) == IF place \in {"sys_acq", "sys_rel", "sleep_rel", "sleep_reacq", "tick_acq",
                               "tick_rel"}
                 THEN "tickslock" ELSE "ptable"

AcquireSteps == <<"read", "push", "unheld", "xchg", "mark">>

\* Mutant: release unlocks before it clears lk->cpu.
ReleaseStepsSwapped == <<"held", "unlock", "clear", "pop">>

ReleaseSteps == <<"held", "clear", "unlock", "pop">>

\* Mutant: myproc enables interrupts before it reads c->proc.
MyprocStepsSwapped == <<"read", "push", "mycpu", "pop", "load">>

MyprocSteps == <<"read", "push", "mycpu", "load", "pop">>

StepsOf(place) == CASE place \in Acquires -> AcquireSteps
                    [] place \in Releases -> ReleaseSteps
                    [] place = "myproc" -> MyprocSteps
                    [] OTHER -> <<place>>

\* The places in the order of a straight piece of code
Path(places) == {<<places[i], places[i + 1]>> : i \in 1..(Len(places) - 1)}

\* Where the code goes from each place, but for the end of allocproc when it
\* fails and the end of an interrupt.  sys_sleep tests ticks - ticks0 < n, which
\* may hold or not.
Flow == Path(<<"user", "myproc", "sys_acq", "sleep_acq", "sleep_rel", "sleep_sched",
               "sleep_swtch", "sleep_back", "sleep_reacq", "sleep_acq">>)
        \cup Path(<<"sleep_reacq", "sys_rel", "ret", "user">>)
        \cup Path(<<"sys_acq", "sys_rel">>)
        \cup Path(<<"myproc", "alloc_acq", "alloc", "alloc_rel", "fork_acq", "fork_run",
                    "fork_rel", "ret">>)
        \cup Path(<<"full_rel", "ret">>)
        \cup Path(<<"tick_acq", "wake_acq", "wake_up", "wake_rel", "tick_rel", "intr_end">>)
        \cup Path(<<"yield_acq", "yield_sched", "yield_swtch", "yield_rel", "iret">>)
        \cup Path(<<"loop", "scan_acq", "scan", "scan_rel", "loop">>)
        \cup Path(<<"forkret", "fret", "user">>)

Places == {edge[1] : edge \in Flow} \cup {"intr_end", "iret"}

Enter(place) == <<place, 1>>

\* The thread a CPU runs is about to take a step.
At(c, step) == LET k == pc[run[c]] IN ~panicked /\ StepsOf(k[1])[k[2]] = step

Goto(c, k) == pc' = [pc EXCEPT ![run[c]] = k]

\* On to the next step of the place, or from its last step to a next place.
Advance(c) == LET k == pc[run[c]]
              IN  IF k[2] < Len(StepsOf(k[1]))
                  THEN Goto(c, <<k[1], k[2] + 1>>)
                  ELSE \E edge \in Flow : edge[1] = k[1] /\ Goto(c, Enter(edge[2]))

\* The lock the running thread is acquiring or releasing
Lk(c) == LockOf(pc[run[c]][1])

\* holding(l)
Holding(c, l) == locked[l] /\ holder[l] = c

Panic == panicked' = TRUE /\ UNCHANGED <<flag, cpu, locked, holder, state, pc, frames, local>>

\* After main, the CPUs are at the start of scheduler() and the first process waits
\* to run.
Init == /\ flag = [c \in CPUs |-> FALSE]
        /\ ncli = [c \in CPUs |-> 0]
        /\ intena = [c \in CPUs |-> FALSE]
        /\ run = [c \in CPUs |-> Sched(c)]
        /\ pos = [c \in CPUs |-> 1]
        /\ locked = [l \in Locks |-> FALSE]
        /\ holder = [l \in Locks |-> NoCpu]
        /\ state = [p \in Procs |-> IF p = 1 THEN "RUNNABLE" ELSE "UNUSED"]
        /\ pc = [t \in Threads |-> Enter(IF t \in Procs THEN "forkret" ELSE "loop")]
        /\ frames = [t \in Threads |-> <<>>]
        /\ eflags = [t \in Threads |-> FALSE]
        /\ here = [p \in Procs |-> NoCpu]
        /\ saved = [p \in Procs |-> FALSE]
        /\ kid = [p \in Procs |-> NoKid]
        /\ panicked = FALSE

-----------------------------------------------------------------------------
(* pushcli and popcli *)

\* eflags = readeflags()
Read(c) == /\ At(c, "read")
           /\ eflags' = [eflags EXCEPT ![run[c]] = flag[c]]
           /\ Advance(c)
           /\ UNCHANGED <<flag, cpu, locked, holder, state, frames, here, saved, kid, panicked>>

\* The outermost call saves the flag.
Intena(c) == IF ncli[c] = 0 THEN eflags[run[c]] ELSE intena[c]

\* The rest of pushcli: nobody else sees or changes what it does with interrupts off.
Push(c) == /\ At(c, "push")
           /\ flag' = [flag EXCEPT ![c] = FALSE]
           /\ ncli' = [ncli EXCEPT ![c] = @ + 1]
           /\ intena' = [intena EXCEPT ![c] = Intena(c)]
           /\ eflags' = [eflags EXCEPT ![run[c]] = FALSE]
           /\ Advance(c)
           /\ UNCHANGED <<run, pos, locked, holder, state, frames, here, saved, kid, panicked>>

\* The flag after popcli
Popped(c) == ncli[c] = 1 /\ intena[c]

Pop(c) == /\ At(c, "pop")
          /\ IF flag[c] \/ ncli[c] = 0
             THEN Panic
             ELSE /\ ncli' = [ncli EXCEPT ![c] = @ - 1]
                  /\ flag' = [flag EXCEPT ![c] = Popped(c)]
                  /\ Advance(c)
                  /\ UNCHANGED <<intena, run, pos, locked, holder, state, frames, local, panicked>>

-----------------------------------------------------------------------------
(* acquire and release *)

Unheld(c) == /\ At(c, "unheld")
             /\ IF Holding(c, Lk(c)) THEN Panic
                ELSE Advance(c) /\ UNCHANGED <<flag, cpu, locked, holder, state, frames, local, panicked>>

\* Mutant: a plain store where xchg tests the old value.
FreeUntested(l) == TRUE

\* xchg(&lk->locked, 1) returned 0.
Free(l) == ~locked[l]

Xchg(c) == /\ At(c, "xchg")
           /\ Free(Lk(c))
           /\ locked' = [locked EXCEPT ![Lk(c)] = TRUE]
           /\ Advance(c)
           /\ UNCHANGED <<flag, cpu, holder, state, frames, local, panicked>>

Mark(c) == /\ At(c, "mark")
           /\ holder' = [holder EXCEPT ![Lk(c)] = c]
           /\ Advance(c)
           /\ UNCHANGED <<flag, cpu, locked, state, frames, local, panicked>>

Held(c) == /\ At(c, "held")
           /\ IF ~Holding(c, Lk(c)) THEN Panic
              ELSE Advance(c) /\ UNCHANGED <<flag, cpu, locked, holder, state, frames, local, panicked>>

Clear(c) == /\ At(c, "clear")
            /\ holder' = [holder EXCEPT ![Lk(c)] = NoCpu]
            /\ Advance(c)
            /\ UNCHANGED <<flag, cpu, locked, state, frames, local, panicked>>

Unlock(c) == /\ At(c, "unlock")
             /\ locked' = [locked EXCEPT ![Lk(c)] = FALSE]
             /\ Advance(c)
             /\ UNCHANGED <<flag, cpu, holder, state, frames, local, panicked>>

-----------------------------------------------------------------------------
(* myproc *)

\* c = mycpu(), which panics when a thread could move to another CPU in it
Mycpu(c) == /\ At(c, "mycpu")
            /\ IF flag[c] THEN Panic
               ELSE /\ here' = [here EXCEPT ![run[c]] = c]
                    /\ Advance(c)
                    /\ UNCHANGED <<flag, cpu, locked, holder, state, frames, eflags, saved, kid, panicked>>

\* p = c->proc
Load(c) == /\ At(c, "load")
           /\ here' = [here EXCEPT ![run[c]] = NoCpu]
           /\ Advance(c)
           /\ UNCHANGED <<flag, cpu, locked, holder, state, frames, eflags, saved, kid, panicked>>

-----------------------------------------------------------------------------
(* System calls: a trap gate leaves the flag as it is *)

\* A call, here sleep or fork
Call(c) == /\ At(c, "user")
           /\ Advance(c)
           /\ UNCHANGED <<flag, cpu, locked, holder, state, frames, local, panicked>>

\* iret to user space, where interrupts are on
Ret(c) == /\ At(c, "ret") \/ At(c, "fret")
          /\ flag' = [flag EXCEPT ![c] = TRUE]
          /\ Advance(c)
          /\ UNCHANGED <<cpu, locked, holder, state, frames, local, panicked>>

\* allocproc takes the first UNUSED slot, or returns 0.
Alloc(c) == /\ At(c, "alloc")
            /\ \/ \E p \in Procs :
                     /\ state[p] = "UNUSED" /\ \A q \in 1..(p - 1) : state[q] # "UNUSED"
                     /\ state' = [state EXCEPT ![p] = "EMBRYO"]
                     /\ kid' = [kid EXCEPT ![run[c]] = p]
                     /\ Advance(c)
               \/ /\ \A p \in Procs : state[p] # "UNUSED"
                  /\ Goto(c, Enter("full_rel"))
                  /\ UNCHANGED <<state, kid>>
            /\ UNCHANGED <<flag, cpu, locked, holder, frames, eflags, here, saved, panicked>>

\* The end of fork: np->state = RUNNABLE.  Its context is at forkret.
ForkRun(c) == /\ At(c, "fork_run")
              /\ state' = [state EXCEPT ![kid[run[c]]] = "RUNNABLE"]
              /\ kid' = [kid EXCEPT ![run[c]] = NoKid]
              /\ Advance(c)
              /\ UNCHANGED <<flag, cpu, locked, holder, frames, eflags, here, saved, panicked>>

-----------------------------------------------------------------------------
(* Interrupts: an interrupt gate clears the flag *)

\* The timer.  CPU 0 counts the ticks.
Interrupt(c) ==
    /\ ~panicked /\ flag[c] /\ Len(frames[run[c]]) < MaxNest
    /\ flag' = [flag EXCEPT ![c] = FALSE]
    /\ frames' = [frames EXCEPT ![run[c]] = <<[pc |-> pc[run[c]], eflags |-> eflags[run[c]]]>> \o @]
    /\ eflags' = [eflags EXCEPT ![run[c]] = FALSE]
    /\ Goto(c, Enter(IF c = 0 THEN "tick_acq" ELSE "intr_end"))
    /\ UNCHANGED <<cpu, locked, holder, state, here, saved, kid, panicked>>

\* wakeup1(&ticks)
WakeUp(c) == /\ At(c, "wake_up")
             /\ state' = [p \in Procs |-> IF state[p] = "SLEEPING" THEN "RUNNABLE" ELSE state[p]]
             /\ Advance(c)
             /\ UNCHANGED <<flag, cpu, locked, holder, frames, local, panicked>>

\* A process yields, in user space or in the kernel; a scheduler returns.
IntrEnd(c) == /\ At(c, "intr_end")
              /\ Goto(c, Enter(IF run[c] \in Procs /\ state[run[c]] = "RUNNING"
                               THEN "yield_acq" ELSE "iret"))
              /\ UNCHANGED <<flag, cpu, locked, holder, state, frames, local, panicked>>

Iret(c) == /\ At(c, "iret")
           /\ flag' = [flag EXCEPT ![c] = TRUE]
           /\ Goto(c, Head(frames[run[c]]).pc)
           /\ eflags' = [eflags EXCEPT ![run[c]] = Head(frames[run[c]]).eflags]
           /\ frames' = [frames EXCEPT ![run[c]] = Tail(@)]
           /\ UNCHANGED <<cpu, locked, holder, state, here, saved, kid, panicked>>

-----------------------------------------------------------------------------
(* sched and scheduler *)

\* The state is set and sched called: p's side of swtch to the scheduler.
SchedCall(c, step, st) ==
    /\ At(c, step)
    /\ IF ~Holding(c, "ptable") \/ ncli[c] # 1 \/ flag[c]
       THEN Panic
       ELSE /\ state' = [state EXCEPT ![run[c]] = st]
            /\ saved' = [saved EXCEPT ![run[c]] = intena[c]]
            /\ run' = [run EXCEPT ![c] = Sched(c)]
            /\ Advance(c)
            /\ UNCHANGED <<flag, ncli, intena, pos, locked, holder, frames, eflags, here, kid, panicked>>

Sleep(c) == SchedCall(c, "sleep_sched", "SLEEPING")
Yield(c) == SchedCall(c, "yield_sched", "RUNNABLE")

\* Mutant: the CPU's intena left as the scheduler and the other processes left it.
RestoredNot(c) == intena[c]

Restored(c) == saved[run[c]]

\* swtch has returned, on this CPU or another: mycpu()->intena = intena
SchedReturn(c) == /\ At(c, "sleep_swtch") \/ At(c, "yield_swtch")
                  /\ intena' = [intena EXCEPT ![c] = Restored(c)]
                  /\ saved' = [saved EXCEPT ![run[c]] = FALSE]
                  /\ Advance(c)
                  /\ UNCHANGED <<flag, ncli, run, pos, locked, holder, state, frames, eflags, here, kid, panicked>>

\* sti(), at the top of the scheduler's loop
Sti(c) == /\ At(c, "loop")
          /\ flag' = [flag EXCEPT ![c] = TRUE]
          /\ Advance(c)
          /\ UNCHANGED <<cpu, locked, holder, state, frames, local, panicked>>

\* The scan goes on from pos: it switches to the next RUNNABLE process, or ends.
Scan(c) ==
    /\ At(c, "scan")
    /\ \/ \E p \in Procs :
             /\ p >= pos[c] /\ state[p] = "RUNNABLE"
             /\ \A q \in pos[c]..(p - 1) : state[q] # "RUNNABLE"
             /\ state' = [state EXCEPT ![p] = "RUNNING"]
             /\ run' = [run EXCEPT ![c] = p]
             /\ pos' = [pos EXCEPT ![c] = p + 1]
             /\ UNCHANGED pc
       \/ /\ \A p \in Procs : p >= pos[c] => state[p] # "RUNNABLE"
          /\ pos' = [pos EXCEPT ![c] = 1]
          /\ Advance(c)
          /\ UNCHANGED <<state, run>>
    /\ UNCHANGED <<flag, ncli, intena, locked, holder, frames, local, panicked>>

CpuStep(c) == \/ Read(c) \/ Push(c) \/ Pop(c) \/ Unheld(c) \/ Xchg(c) \/ Mark(c) \/ Held(c)
              \/ Clear(c) \/ Unlock(c) \/ Mycpu(c) \/ Load(c) \/ Call(c) \/ Ret(c) \/ Alloc(c)
              \/ ForkRun(c) \/ WakeUp(c) \/ IntrEnd(c) \/ Iret(c) \/ Sleep(c) \/ Yield(c)
              \/ SchedReturn(c) \/ Sti(c) \/ Scan(c)

Next == \E c \in CPUs : CpuStep(c) \/ Interrupt(c)

Spec == Init /\ [][Next]_vars

-----------------------------------------------------------------------------
(* Properties *)

Pcs == UNION {{place} \X (1..Len(StepsOf(place))) : place \in Places}

\* Types: ncli never exceeds the two locks and a pushcli, frames the bound.
TypeOK == /\ flag \in [CPUs -> BOOLEAN]
          /\ ncli \in [CPUs -> 0..(Cardinality(Locks) + 1)]
          /\ intena \in [CPUs -> BOOLEAN]
          /\ run \in [CPUs -> Threads]
          /\ pos \in [CPUs -> 1..(NPROC + 1)]
          /\ locked \in [Locks -> BOOLEAN]
          /\ holder \in [Locks -> CPUs \cup {NoCpu}]
          /\ state \in [Procs -> {"UNUSED", "EMBRYO", "SLEEPING", "RUNNABLE", "RUNNING"}]
          /\ pc \in [Threads -> Pcs]
          /\ \A t \in Threads : Len(frames[t]) <= MaxNest
          /\ eflags \in [Threads -> BOOLEAN]
          /\ here \in [Procs -> CPUs \cup {NoCpu}]
          /\ saved \in [Procs -> BOOLEAN]
          /\ kid \in [Procs -> Procs \cup {NoKid}]
          /\ panicked \in BOOLEAN

\* The places that are entered with a lock held
Inside == [tickslock |-> {"sys_rel", "sleep_acq", "sleep_rel", "wake_acq", "wake_up",
                          "wake_rel", "tick_rel"},
           ptable |-> {"sleep_rel", "sleep_sched", "sleep_swtch", "sleep_back", "alloc",
                       "alloc_rel", "full_rel", "fork_run", "fork_rel", "wake_up", "wake_rel",
                       "yield_sched", "yield_swtch", "yield_rel", "scan", "scan_rel", "forkret"}]

\* The CPU's thread is between the xchg of an acquire of l and the store of the release.
Owns(c, l) == LET k == pc[run[c]]
              IN  \/ k[1] \in Inside[l] /\ ~(k = <<k[1], 4>> /\ k[1] \in Releases /\ LockOf(k[1]) = l)
                  \/ k[1] \in Acquires /\ LockOf(k[1]) = l /\ k[2] = 5

\* No two CPUs are in a critical section of one lock, across the switches that
\* hand ptable.lock from thread to thread.
MutualExclusion == \A c, d \in CPUs, l \in Locks : Owns(c, l) /\ Owns(d, l) => c = d

\* None of the panics in acquire, release, popcli, mycpu and sched is ever reached:
\* no handler takes a lock that its CPU has, and no thread leaves its CPU with more
\* than ptable.lock.
NeverPanics == ~panicked

\* Interrupts are on exactly where the thread, on whichever CPU it is by now, is in
\* no pushcli and in no interrupt handler: so a handler is never interrupted, nor the
\* holder of a lock, and a system call that holds no lock always can be.  Two places
\* are excepted: a scheduler before sti, and a new process after forkret, which has the
\* intena of whoever ran before it on the CPU until iret.
InterruptsRight == \A c \in CPUs :
    pc[run[c]][1] \notin {"loop", "fret"} => (flag[c] <=> ncli[c] = 0 /\ frames[run[c]] = <<>>)

\* myproc returns its caller, wherever the timer moves it.
MyprocIsCaller == [][\A c \in CPUs : Load(c) => run[here[run[c]]] = run[c]]_vars
=============================================================================
