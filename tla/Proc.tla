-------------------------------- MODULE Proc --------------------------------
(***************************************************************************)
(* The process table of Enhanced-Shell-xv6 (proc.c): allocproc, fork,      *)
(* exit, wait, kill, sleep, wakeup and the scheduler, with what this       *)
(* variant adds to them, the history of exited commands and the per-process*)
(* list of blocked system calls, and the killed checks of trap().          *)
(*                                                                         *)
(* One step is one critical section of ptable.lock, or code between two of *)
(* them.  SleepLock shows that sleep and wakeup are atomic at this level.  *)
(* Closing files and the current directory in exit, and the memory that    *)
(* fork copies, are left out, except that an allocation may fail.          *)
(***************************************************************************)
EXTENDS Naturals, FiniteSets, Sequences

CONSTANTS NPROC,       \* size of ptable
          NCPU,        \* number of CPUs
          MaxPid,      \* bound: the last pid nextpid may hand out
          MAX_HISTORY, \* size of the history array
          Chans,       \* what device waits sleep on (&ticks, &p->nread, &input.r)
          Blockable,   \* the system calls a user blocks, of "wait", "kill", "exec"
          KillPids,    \* the pids a user passes to kill
          OutOfMemory  \* may kalloc and copyuvm fail?

Slots == 1..NPROC
initproc == 1          \* userinit takes the first slot
NoProc == 0            \* a null p->parent or p->chan

ASSUME ProcAssumption == /\ NPROC \in Nat \ {0} /\ NCPU \in Nat \ {0}
                         /\ MaxPid \in Nat /\ MAX_HISTORY \in Nat
                         /\ Chans \cap (Slots \cup {NoProc}) = {}
                         /\ Blockable \subseteq {"wait", "kill", "exec"}
                         /\ KillPids \subseteq Nat
                         /\ OutOfMemory \in BOOLEAN

VARIABLES state,    \* p->state
          pid,      \* p->pid, kept when fork fails and the slot is UNUSED again
          parent,   \* p->parent
          killed,   \* p->killed
          chan,     \* p->chan
          shell,    \* p->name is "sh"
          blocked,  \* the system calls with p->blocked[] set
          pc,       \* where the process is in the kernel
          kid,      \* np, in fork
          nextpid, history,
          initsh,   \* the pid of the shell init waits for, 0 when it has none
          panicked

table == <<state, pid, parent, killed, chan, shell, blocked>>
vars == <<table, pc, kid, nextpid, initsh, history, panicked>>

States == {"UNUSED", "EMBRYO", "SLEEPING", "RUNNABLE", "RUNNING", "ZOMBIE"}
Labels == {"user",   \* in user space, or at the entry or the end of a call
           "fork",   \* in fork, after allocproc's critical section
           "exit",   \* in exit, before acquire(&ptable.lock)
           "wait",   \* asleep in wait
           "nap",    \* in a device wait, the killed check passed
           "doze"}   \* asleep in it

Busy == Cardinality({s \in Slots : state[s] = "RUNNING"})

\* A CPU runs p, which is at label l.
At(p, l) == state[p] = "RUNNING" /\ pc[p] = l /\ ~panicked

\* p enters a system call: trap() has seen p->killed clear.
Calls(p) == At(p, "user") /\ ~killed[p]

Goto(p, l) == pc' = [pc EXCEPT ![p] = l]

\* syscall() looks the number up in the parent's blocked[], exec's in the
\* grandparent's.
Allowed(p, num) == LET judge == IF num = "exec" /\ parent[p] # NoProc
                                THEN parent[parent[p]] ELSE parent[p]
                   IN  judge # NoProc => num \notin blocked[judge]

\* wakeup1(ch), on the states st
Wakeup1(st, ch) == [q \in Slots |-> IF st[q] = "SLEEPING" /\ chan[q] = ch
                                    THEN "RUNNABLE" ELSE st[q]]

Init == /\ state = [s \in Slots |-> IF s = initproc THEN "RUNNABLE" ELSE "UNUSED"]
        /\ pid = [s \in Slots |-> IF s = initproc THEN 1 ELSE 0]
        /\ parent = [s \in Slots |-> NoProc]
        /\ killed = [s \in Slots |-> FALSE]
        /\ chan = [s \in Slots |-> NoProc]
        /\ shell = [s \in Slots |-> FALSE]
        /\ blocked = [s \in Slots |-> {}]
        /\ pc = [s \in Slots |-> "user"]
        /\ kid = [s \in Slots |-> NoProc]
        /\ nextpid = 2
        /\ initsh = 0
        /\ history = <<>>
        /\ panicked = FALSE

-----------------------------------------------------------------------------
(* fork *)

\* The first slot for which P holds, as the scans of ptable find it.
IsFirst(s, P) == s \in P /\ \A t \in Slots : t < s => t \notin P

Unused == {s \in Slots : state[s] = "UNUSED"}

\* init forks a shell when it has none, and waits for it otherwise (init.c).
Forks(p) == Calls(p) /\ (p = initproc => initsh = 0)

\* nextpid++
NextPid == nextpid + 1

\* allocproc's critical section.  It leaves p->killed as it finds it.
ForkAlloc(p) ==
    /\ Forks(p)
    /\ nextpid <= MaxPid
    /\ \E s \in Slots :
        /\ IsFirst(s, Unused)
        /\ state' = [state EXCEPT ![s] = "EMBRYO"]
        /\ pid' = [pid EXCEPT ![s] = nextpid]
        /\ blocked' = [blocked EXCEPT ![s] = {}]
        /\ kid' = [kid EXCEPT ![p] = s]
    /\ nextpid' = NextPid
    /\ Goto(p, "fork")
    /\ UNCHANGED <<parent, killed, chan, shell, initsh, history, panicked>>

\* fork returns -1; init gives up when that happens (init.c).
ForkFailed(p) == Goto(p, IF p = initproc THEN "exit" ELSE "user")

\* No slot is UNUSED.
ForkFull(p) == /\ Forks(p)
               /\ Unused = {}
               /\ ForkFailed(p)
               /\ UNCHANGED <<table, kid, nextpid, initsh, history, panicked>>

\* kalloc of the kernel stack or copyuvm fails: the slot is UNUSED again.
ForkNoMemory(p) == /\ OutOfMemory
                   /\ At(p, "fork")
                   /\ state' = [state EXCEPT ![kid[p]] = "UNUSED"]
                   /\ kid' = [kid EXCEPT ![p] = NoProc]
                   /\ ForkFailed(p)
                   /\ UNCHANGED <<pid, parent, killed, chan, shell, blocked, nextpid, initsh, history, panicked>>

\* The child gets its parent, name and blocked[], and becomes RUNNABLE.
ForkRun(p) == /\ At(p, "fork")
              /\ parent' = [parent EXCEPT ![kid[p]] = p]
              /\ shell' = [shell EXCEPT ![kid[p]] = shell[p]]
              /\ blocked' = [blocked EXCEPT ![kid[p]] = blocked[p]]
              /\ state' = [state EXCEPT ![kid[p]] = "RUNNABLE"]
              /\ pc' = [pc EXCEPT ![p] = "user", ![kid[p]] = "user"]
              /\ kid' = [kid EXCEPT ![p] = NoProc]
              /\ initsh' = IF p = initproc THEN pid[kid[p]] ELSE initsh
              /\ UNCHANGED <<pid, killed, chan, nextpid, history, panicked>>


-----------------------------------------------------------------------------
(* exit and wait *)

\* exit(): called by the program (init never does), or by trap() for a killed
\* process about to return to user space.
ExitCall(p) == /\ At(p, "user")
               /\ killed[p] \/ p # initproc
               /\ Goto(p, "exit")
               /\ UNCHANGED <<table, kid, nextpid, initsh, history, panicked>>

ExitPanic(p) == /\ At(p, "exit")
                /\ p = initproc
                /\ panicked' = TRUE
                /\ UNCHANGED <<table, pc, kid, nextpid, initsh, history>>

Children(p) == {s \in Slots : parent[s] = p}
Zombies == {s \in Slots : state[s] = "ZOMBIE"}

\* Mutant: nobody is told.
StatesAfterExitSilent(p) == [state EXCEPT ![p] = "ZOMBIE"]

\* exit wakes the parent, wakes init if a child is dead already, and p is a ZOMBIE.
StatesAfterExit(p) ==
    LET woken == Wakeup1(state, parent[p])
    IN  [(IF Children(p) \cap Zombies # {} THEN Wakeup1(woken, initproc) ELSE woken)
            EXCEPT ![p] = "ZOMBIE"]

\* Mutant: the children keep their parent.
ReparentNone(p) == parent

\* exit passes abandoned children to init.
Reparent(p) == [s \in Slots |-> IF parent[s] = p THEN initproc ELSE parent[s]]

\* Mutant: the parent's pid logged.
LoggedParent(p) == IF Len(history) < MAX_HISTORY /\ ~shell[p]
                   THEN Append(history, pid[parent[p]]) ELSE history

\* exit logs a command that is not a shell, while there is room.
Logged(p) == IF Len(history) < MAX_HISTORY /\ ~shell[p]
             THEN Append(history, pid[p]) ELSE history

\* exit's critical section
ExitZombie(p) == /\ At(p, "exit")
                 /\ p # initproc
                 /\ state' = StatesAfterExit(p)
                 /\ parent' = Reparent(p)
                 /\ history' = Logged(p)
                 /\ UNCHANGED <<pid, killed, chan, shell, blocked, pc, kid, nextpid, initsh, panicked>>

\* p has ptable.lock in wait's loop: after the call, or woken from sleep.  (init
\* without a shell forks one, and waits then; at the bound MaxPid it only waits.)
Waits(p) == \/ Calls(p) /\ Allowed(p, "wait") /\ (p = initproc => initsh # 0 \/ nextpid > MaxPid)
            \/ At(p, "wait")

\* The scan finds a dead child: free its slot and return its pid.
WaitReap(p) ==
    /\ Waits(p)
    /\ \E s \in Slots :
        /\ IsFirst(s, Children(p) \cap Zombies)
        /\ state' = [state EXCEPT ![s] = "UNUSED"]
        /\ pid' = [pid EXCEPT ![s] = 0]
        /\ parent' = [parent EXCEPT ![s] = NoProc]
        /\ killed' = [killed EXCEPT ![s] = FALSE]
        /\ shell' = [shell EXCEPT ![s] = FALSE]
        /\ initsh' = IF p = initproc /\ pid[s] = initsh THEN 0 ELSE initsh
    /\ chan' = [chan EXCEPT ![p] = NoProc]
    /\ Goto(p, "user")
    /\ UNCHANGED <<blocked, kid, nextpid, history, panicked>>

\* No children, or killed: return -1.
WaitFail(p) == /\ Waits(p)
               /\ Children(p) \cap Zombies = {}
               /\ Children(p) = {} \/ killed[p]
               /\ chan' = [chan EXCEPT ![p] = NoProc]
               /\ Goto(p, "user")
               /\ initsh' = IF p = initproc THEN 0 ELSE initsh
               /\ UNCHANGED <<state, pid, parent, killed, shell, blocked, kid, nextpid, history, panicked>>

\* sleep(curproc, &ptable.lock)
WaitSleep(p) == /\ Waits(p)
                /\ Children(p) # {} /\ Children(p) \cap Zombies = {} /\ ~killed[p]
                /\ state' = [state EXCEPT ![p] = "SLEEPING"]
                /\ chan' = [chan EXCEPT ![p] = p]
                /\ Goto(p, "wait")
                /\ UNCHANGED <<pid, parent, killed, shell, blocked, kid, nextpid, initsh, history, panicked>>

-----------------------------------------------------------------------------
(* kill, exec, block and unblock *)

\* Mutant: kill wakes nobody.
StatesAfterKillNone(s) == state

\* kill wakes its target if it sleeps.
StatesAfterKill(s) == IF state[s] = "SLEEPING"
                      THEN [state EXCEPT ![s] = "RUNNABLE"] ELSE state

\* kill(x): the first slot whose pid field is x, whatever its state.
KillCall(p) ==
    /\ Calls(p)
    /\ p # initproc
    /\ Allowed(p, "kill")
    /\ \E s \in Slots :
        /\ \E x \in KillPids : IsFirst(s, {t \in Slots : pid[t] = x})
        /\ killed' = [killed EXCEPT ![s] = TRUE]
        /\ state' = StatesAfterKill(s)
    /\ UNCHANGED <<pid, parent, chan, shell, blocked, pc, kid, nextpid, initsh, history, panicked>>

\* exec() replaces the name of the process.
Exec(p) == /\ Calls(p)
           /\ p # initproc
           /\ Allowed(p, "exec")
           /\ \E sh \in BOOLEAN : shell' = [shell EXCEPT ![p] = sh]
           /\ UNCHANGED <<state, pid, parent, killed, chan, blocked, pc, kid, nextpid, initsh, history, panicked>>

Block(p) == /\ Calls(p)
            /\ p # initproc
            /\ \E num \in Blockable :
                blocked' = [blocked EXCEPT ![p] = @ \cup {num}]
            /\ UNCHANGED <<state, pid, parent, killed, chan, shell, pc, kid, nextpid, initsh, history, panicked>>

Unblock(p) == /\ Calls(p)
              /\ p # initproc
              /\ \E num \in blocked[p] :
                  blocked' = [blocked EXCEPT ![p] = @ \ {num}]
              /\ UNCHANGED <<state, pid, parent, killed, chan, shell, pc, kid, nextpid, initsh, history, panicked>>

-----------------------------------------------------------------------------
(* Waiting for a device: sys_sleep, piperead and consoleread test p->killed *)
(* under their own lock, which kill does not take, and then call sleep      *)

NapCall(p) == /\ Calls(p)
              /\ p # initproc      \* its login is over
              /\ Chans # {}
              /\ Goto(p, "nap")
              /\ UNCHANGED <<table, kid, nextpid, initsh, history, panicked>>

NapSleep(p) == /\ At(p, "nap")
               /\ \E c \in Chans : chan' = [chan EXCEPT ![p] = c]
               /\ state' = [state EXCEPT ![p] = "SLEEPING"]
               /\ Goto(p, "doze")
               /\ UNCHANGED <<pid, parent, killed, shell, blocked, kid, nextpid, initsh, history, panicked>>

\* Back from sleep: done, or killed, or once more around the loop.
NapReturn(p) == /\ At(p, "doze")
                /\ chan' = [chan EXCEPT ![p] = NoProc]
                /\ \/ Goto(p, "user")
                   \/ ~killed[p] /\ Goto(p, "nap")
                /\ UNCHANGED <<state, pid, parent, killed, shell, blocked, kid, nextpid, initsh, history, panicked>>

\* wakeup(c) from an interrupt handler or the other end of a pipe
Wakeup(c) == /\ ~panicked
             /\ \E q \in Slots : state[q] = "SLEEPING" /\ chan[q] = c
             /\ state' = Wakeup1(state, c)
             /\ UNCHANGED <<pid, parent, killed, chan, shell, blocked, pc, kid, nextpid, initsh, history, panicked>>

-----------------------------------------------------------------------------
(* The timer and the scheduler *)

\* yield() on a timer interrupt; a process at "nap" holds a spinlock.
Yield(p) == /\ \E l \in {"user", "fork", "exit"} : At(p, l)
            /\ state' = [state EXCEPT ![p] = "RUNNABLE"]
            /\ UNCHANGED <<pid, parent, killed, chan, shell, blocked, pc, kid, nextpid, initsh, history, panicked>>

\* scheduler() on an idle CPU reaches the RUNNABLE p.
Dispatch(p) == /\ ~panicked
               /\ state[p] = "RUNNABLE"
               /\ Busy < NCPU
               /\ state' = [state EXCEPT ![p] = "RUNNING"]
               /\ UNCHANGED <<pid, parent, killed, chan, shell, blocked, pc, kid, nextpid, initsh, history, panicked>>

\* panic() stops the machine.
Halted == panicked /\ UNCHANGED vars

-----------------------------------------------------------------------------

\* Steps the kernel finishes on its own once it has begun.
Kernel(p) == \/ ForkNoMemory(p) \/ ForkRun(p)
             \/ ExitPanic(p) \/ ExitZombie(p)
             \/ NapSleep(p) \/ NapReturn(p)
             \/ (pc[p] = "wait" /\ (WaitReap(p) \/ WaitFail(p) \/ WaitSleep(p)))

Next == \/ \E p \in Slots : \/ ForkAlloc(p) \/ ForkFull(p) \/ ForkNoMemory(p) \/ ForkRun(p)
                            \/ ExitCall(p) \/ ExitPanic(p) \/ ExitZombie(p)
                            \/ WaitReap(p) \/ WaitFail(p) \/ WaitSleep(p)
                            \/ KillCall(p) \/ Exec(p) \/ Block(p) \/ Unblock(p)
                            \/ NapCall(p) \/ NapSleep(p) \/ NapReturn(p)
                            \/ Yield(p) \/ Dispatch(p)
        \/ \E c \in Chans : Wakeup(c)
        \/ Halted

Spec == Init /\ [][Next]_vars

\* init forks a shell when it has none, and waits.
InitLoop == ForkAlloc(initproc) \/ ForkFull(initproc) \/ WaitReap(initproc) \/ WaitSleep(initproc)

(***************************************************************************)
(* Fairness.  A process that runs again and again goes on with its call,   *)
(* and a killed one into exit; the timer takes the CPU from it in the end; *)
(* scheduler() scans the whole table again and again; init does its loop.  *)
(* Only the clock, FairChans, is sure to wake those who wait for it: the   *)
(* other end of a pipe or the keyboard may stay silent.  User programs owe *)
(* nothing.                                                                *)
(***************************************************************************)
Fairness(FairChans) ==
    /\ \A p \in Slots : /\ SF_vars(\/ Kernel(p)
                                   \/ killed[p] /\ ExitCall(p)
                                   \/ p = initproc /\ InitLoop)
                        /\ WF_vars(Yield(p))
                        /\ SF_vars(Dispatch(p))
    /\ \A c \in FairChans : WF_vars(Wakeup(c))

-----------------------------------------------------------------------------
(* Properties *)

TypeOK == /\ state \in [Slots -> States]
          /\ pid \in [Slots -> Nat]
          /\ parent \in [Slots -> Slots \cup {NoProc}]
          /\ killed \in [Slots -> BOOLEAN]
          /\ chan \in [Slots -> Slots \cup Chans \cup {NoProc}]
          /\ shell \in [Slots -> BOOLEAN]
          /\ blocked \in [Slots -> SUBSET Blockable]
          /\ pc \in [Slots -> Labels]
          /\ kid \in [Slots -> Slots \cup {NoProc}]
          /\ nextpid \in Nat
          /\ initsh \in Nat
          /\ history \in Seq(Nat)
          /\ panicked \in BOOLEAN

Born == {s \in Slots : state[s] \notin {"UNUSED", "EMBRYO"}}
Live == Born \ Zombies

\* No lost exit: a process asleep in wait has a child to wait for, none of its
\* children is a ZOMBIE and it has not been killed, so that the wakeup it needs
\* is still to come.  (exit wakes the parent, and init for the zombies it
\* inherits, in the critical section that makes the ZOMBIE or reparents it.)
NoLostExit == \A p \in Slots :
    state[p] = "SLEEPING" /\ chan[p] = p =>
        /\ Children(p) # {}
        /\ Children(p) \cap Zombies = {}
        /\ ~killed[p]

\* Every process but init has a live parent, so that someone can reap it: no
\* p->parent survives the exit of that parent or the reuse of its slot.
ParentLive == \A p \in Born \ {initproc} : parent[p] \in Live

\* A parent is older than its child, unless it is init, who inherits orphans:
\* the parent pointers of the table are a tree under init.
ParentOlder == \A p \in Born \ {initproc} :
    parent[p] # initproc => pid[parent[p]] < pid[p]

\* No two processes have the same pid, and none has the pid 0 of a free slot.
UniquePids == \A p, q \in Born : pid[p] # 0 /\ (pid[p] = pid[q] => p = q)

\* The history lists each command once, and only processes that have exited.
HistoryOfTheDead ==
    /\ \A i, j \in 1..Len(history) : history[i] = history[j] => i = j
    /\ \A i \in 1..Len(history), p \in Live : history[i] # pid[p]

\* The life of a slot: allocproc, fork or its failure, the scheduler and sleep,
\* exit, and a reap by the parent.  Nothing wakes or runs the dead, and nobody
\* but wait frees a process.
LegalChange(from, to) ==
    \/ from = to
    \/ <<from, to>> \in {<<"UNUSED", "EMBRYO">>, <<"EMBRYO", "UNUSED">>,
                         <<"EMBRYO", "RUNNABLE">>, <<"RUNNABLE", "RUNNING">>,
                         <<"RUNNING", "RUNNABLE">>, <<"RUNNING", "SLEEPING">>,
                         <<"SLEEPING", "RUNNABLE">>, <<"RUNNING", "ZOMBIE">>,
                         <<"ZOMBIE", "UNUSED">>}
Lifecycle == [][\A s \in Slots : LegalChange(state[s], state'[s])]_vars

\* A killed process exits ("won't exit until it returns to user space"), unless
\* init exits first and the kernel panics.
KilledExits == \A p \in Slots \ {initproc} :
    (p \in Live /\ killed[p]) ~> (p \notin Live \/ panicked)

\* init reaps every orphan that dies, unless its own fork fails and the kernel
\* panics.
OrphansReaped == \A p \in Slots :
    (state[p] = "ZOMBIE" /\ parent[p] = initproc) ~> (state[p] = "UNUSED" \/ panicked)

=============================================================================
