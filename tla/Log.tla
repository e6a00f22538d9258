-------------------------------- MODULE Log --------------------------------
(***************************************************************************)
(* The file-system log (log.c): begin_op, log_write, end_op, the commit    *)
(* protocol one disk write at a time, a crash between any two steps, and   *)
(* the recovery at boot, which may itself be cut short by a crash.         *)
(*                                                                         *)
(* A disk write of one block (one sector, BSIZE = 512) is atomic.  The     *)
(* buffer cache keeps a block that log_write marked B_DIRTY; any other     *)
(* block may be evicted, so its contents are those on disk.                *)
(***************************************************************************)
EXTENDS Naturals, FiniteSets, Sequences

CONSTANTS Ops,         \* the processes that make file-system calls
          Blocks,      \* home locations on disk
          Vals,        \* contents of a block
          Blank,       \* the disk as mkfs made it
          MAXOPBLOCKS, \* blocks begin_op reserves for a call
          LOGSIZE,     \* log blocks begin_op counts with
          NLOG,        \* sb.nlog: blocks of the log on disk, its header included
          OpBlocks,    \* blocks a call really writes, at most
          NoVal        \* contents of a log block nobody has written

ASSUME LogAssumption == /\ Blank \in [Blocks -> Vals]
                        /\ MAXOPBLOCKS \in Nat /\ LOGSIZE \in Nat
                        /\ NLOG \in Nat /\ OpBlocks \in Nat
                        /\ OpBlocks <= MAXOPBLOCKS
                        /\ MAXOPBLOCKS <= LOGSIZE
                        /\ IsFiniteSet(Ops)
                        /\ NoVal \notin Vals

VARIABLES home,   \* disk: the home locations
          slots,  \* disk: the log blocks, slots[i] at log.start+i
          hdr,    \* disk: the block numbers in the log header
          cache,  \* contents of the B_DIRTY buffers
          dirty,  \* the blocks whose buffer has B_DIRTY
          lh,     \* log.lh
          outstanding, committing,
          pc,     \* where each process is
          wrote,  \* blocks each call in progress has logged
          phase,  \* where commit() or recover_from_log() is
          tail,   \* its loop counter: blocks done
          panicked

disk == <<home, slots, hdr>>
vars == <<disk, cache, dirty, lh, outstanding, committing, pc, wrote, phase, tail, panicked>>

\* The contents a bread of b returns.
Bread(b) == IF b \in dirty THEN cache[b] ELSE home[b]

\* The elements of a sequence.
Elems(s) == {s[i] : i \in 1..Len(s)}

Init == /\ home = Blank
        /\ slots = [i \in 1..LOGSIZE |-> NoVal]
        /\ hdr = <<>>
        /\ cache = Blank
        /\ dirty = {}
        /\ lh = <<>>
        /\ outstanding = 0
        /\ committing = FALSE
        /\ pc = [p \in Ops |-> "out"]
        /\ wrote = [p \in Ops |-> {}]
        /\ phase = "read_head"
        /\ tail = 0
        /\ panicked = FALSE

Running == phase \notin {"read_head", "re_install", "re_clear"} /\ ~panicked

-----------------------------------------------------------------------------
(* begin_op, log_write, end_op *)

Call(p) == /\ Running
           /\ pc[p] = "out"
           /\ pc' = [pc EXCEPT ![p] = "begin"]
           /\ UNCHANGED <<disk, cache, dirty, lh, outstanding, committing, wrote, phase, tail, panicked>>

\* Mutant: no reservation.
MustWaitCommitOnly == committing

\* The call must wait: a commit is going on, or its reservation might not fit.
MustWait == committing \/ Len(lh) + (outstanding + 1) * MAXOPBLOCKS > LOGSIZE

BeginSleep(p) == /\ Running
                 /\ pc[p] = "begin"
                 /\ MustWait
                 /\ pc' = [pc EXCEPT ![p] = "asleep"]
                 /\ UNCHANGED <<disk, cache, dirty, lh, outstanding, committing, wrote, phase, tail, panicked>>

BeginOp(p) == /\ Running
              /\ pc[p] = "begin"
              /\ ~MustWait
              /\ outstanding' = outstanding + 1
              /\ pc' = [pc EXCEPT ![p] = "in"]
              /\ UNCHANGED <<disk, cache, dirty, lh, committing, wrote, phase, tail, panicked>>

\* The calls in progress
Active == {p \in Ops : pc[p] \in {"in", "logging"}}

\* log_write's checks: it makes them without log.lock, before it looks for
\* absorption, so other calls may log blocks before this one does.
LogWritePanics == Len(lh) >= LOGSIZE \/ Len(lh) >= NLOG - 1 \/ outstanding < 1

LogCheck(p) == /\ Running
               /\ pc[p] = "in"
               /\ IF LogWritePanics
                  THEN panicked' = TRUE /\ UNCHANGED pc
                  ELSE pc' = [pc EXCEPT ![p] = "logging"] /\ UNCHANGED panicked
               /\ UNCHANGED <<disk, cache, dirty, lh, outstanding, committing, wrote, phase, tail>>

\* The in-memory header after logging b: absorbed if it is there already.
Logged(b) == IF b \in Elems(lh) THEN lh ELSE Append(lh, b)

\* log_write under log.lock.  The caller changed the contents to v before, but
\* nobody could see it: it holds the buffer's sleep-lock until log_write returns.
LogWrite(p, b, v) == /\ Running
                     /\ pc[p] = "logging"
                     /\ b \in wrote[p] \/ Cardinality(wrote[p]) < OpBlocks
                     /\ cache' = [cache EXCEPT ![b] = v]
                     /\ dirty' = dirty \cup {b}
                     /\ lh' = Logged(b)
                     /\ wrote' = [wrote EXCEPT ![p] = @ \cup {b}]
                     /\ pc' = [pc EXCEPT ![p] = "in"]
                     /\ UNCHANGED <<disk, outstanding, committing, phase, tail, panicked>>

\* wakeup(&log), on the program counters c
Wakeup(c) == [q \in Ops |-> IF c[q] = "asleep" THEN "begin" ELSE c[q]]

\* end_op while other calls are in progress
EndOp(p) == /\ Running
            /\ pc[p] = "in"
            /\ outstanding # 1
            /\ outstanding' = outstanding - 1
            /\ pc' = Wakeup([pc EXCEPT ![p] = "out"])
            /\ wrote' = [wrote EXCEPT ![p] = {}]
            /\ panicked' = committing
            /\ UNCHANGED <<disk, cache, dirty, lh, committing, phase, tail>>

\* end_op of the last call in progress commits; an empty log needs no disk write.
EndOpLast(p) == /\ Running
                /\ pc[p] = "in"
                /\ outstanding = 1
                /\ outstanding' = 0
                /\ committing' = TRUE
                /\ panicked' = committing
                /\ pc' = [pc EXCEPT ![p] = "commit"]
                /\ wrote' = [wrote EXCEPT ![p] = {}]
                /\ phase' = IF Len(lh) > 0 THEN "write_log" ELSE "committed"
                /\ tail' = 0
                /\ UNCHANGED <<disk, cache, dirty, lh>>

-----------------------------------------------------------------------------
(* commit, by the last process in end_op *)

\* write_log: copy one modified block to the log.
WriteLog == /\ phase = "write_log"
            /\ slots' = [slots EXCEPT ![tail + 1] = Bread(lh[tail + 1])]
            /\ tail' = tail + 1
            /\ phase' = IF tail + 1 = Len(lh) THEN "write_head" ELSE phase
            /\ UNCHANGED <<home, hdr, cache, dirty, lh, outstanding, committing, pc, wrote, panicked>>

\* write_head: the true point of commit
WriteHead == /\ phase = "write_head"
             /\ hdr' = lh
             /\ phase' = "install"
             /\ tail' = 0
             /\ UNCHANGED <<home, slots, cache, dirty, lh, outstanding, committing, pc, wrote, panicked>>

\* install_trans: copy one block from the log to its home location.
InstallBlock == /\ home' = [home EXCEPT ![lh[tail + 1]] = slots[tail + 1]]
                /\ dirty' = dirty \ {lh[tail + 1]}
                /\ tail' = tail + 1

Install == /\ phase = "install"
           /\ InstallBlock
           /\ phase' = IF tail + 1 = Len(lh) THEN "clear" ELSE phase
           /\ UNCHANGED <<slots, hdr, cache, lh, outstanding, committing, pc, wrote, panicked>>

\* log.lh.n = 0; write_head()
Clear == /\ phase = "clear"
         /\ lh' = <<>>
         /\ hdr' = <<>>
         /\ phase' = "committed"
         /\ UNCHANGED <<home, slots, cache, dirty, outstanding, committing, pc, wrote, tail, panicked>>

\* Mutant: no wakeup after a commit.
EndCommitSilent(p) == /\ pc[p] = "commit"
                      /\ phase = "committed"
                      /\ committing' = FALSE
                      /\ pc' = [pc EXCEPT ![p] = "out"]
                      /\ phase' = "idle"
                      /\ UNCHANGED <<disk, cache, dirty, lh, outstanding, wrote, tail, panicked>>

\* back in end_op: committing = 0, wakeup(&log)
EndCommit(p) == /\ pc[p] = "commit"
                /\ phase = "committed"
                /\ committing' = FALSE
                /\ pc' = Wakeup([pc EXCEPT ![p] = "out"])
                /\ phase' = "idle"
                /\ UNCHANGED <<disk, cache, dirty, lh, outstanding, wrote, tail, panicked>>

-----------------------------------------------------------------------------
(* A crash loses everything but the disk; initlog recovers at the next boot *)

Crash == /\ cache' = Blank
         /\ dirty' = {}
         /\ lh' = <<>>
         /\ outstanding' = 0
         /\ committing' = FALSE
         /\ pc' = [p \in Ops |-> "out"]
         /\ wrote' = [p \in Ops |-> {}]
         /\ phase' = "read_head"
         /\ tail' = 0
         /\ panicked' = FALSE
         /\ UNCHANGED disk

\* Mutant: the boot clears the log without installing it.
ReadHeadOnly == /\ phase = "read_head"
                /\ lh' = hdr
                /\ phase' = "re_clear"
                /\ UNCHANGED <<disk, cache, dirty, outstanding, committing, pc, wrote, tail, panicked>>

ReadHead == /\ phase = "read_head"
            /\ lh' = hdr
            /\ phase' = IF Len(hdr) > 0 THEN "re_install" ELSE "re_clear"
            /\ UNCHANGED <<disk, cache, dirty, outstanding, committing, pc, wrote, tail, panicked>>

Reinstall == /\ phase = "re_install"
             /\ InstallBlock
             /\ phase' = IF tail + 1 = Len(lh) THEN "re_clear" ELSE phase
             /\ UNCHANGED <<slots, hdr, cache, lh, outstanding, committing, pc, wrote, panicked>>

\* log.lh.n = 0; write_head()
Reclear == /\ phase = "re_clear"
           /\ lh' = <<>>
           /\ hdr' = <<>>
           /\ phase' = "idle"
           /\ UNCHANGED <<home, slots, cache, dirty, outstanding, committing, pc, wrote, tail, panicked>>

-----------------------------------------------------------------------------

Commit == WriteLog \/ WriteHead \/ Install \/ Clear \/ \E p \in Ops : EndCommit(p)
Recover == ReadHead \/ Reinstall \/ Reclear

Next == \/ \E p \in Ops : \/ Call(p) \/ BeginSleep(p) \/ BeginOp(p) \/ LogCheck(p)
                          \/ EndOp(p) \/ EndOpLast(p)
                          \/ \E b \in Blocks, v \in Vals : LogWrite(p, b, v)
        \/ Commit
        \/ Recover
        \/ Crash

Spec == Init /\ [][Next]_vars

(***************************************************************************)
(* Fairness: a process inside the log code goes on, and a call in progress *)
(* logs finitely many blocks before it ends: SF, since each log_write      *)
(* disables its end_op for a while.  Crashes need not happen.              *)
(***************************************************************************)
Fairness == /\ WF_vars(Commit) /\ WF_vars(Recover)
            /\ \A p \in Ops : /\ WF_vars(\E b \in Blocks, v \in Vals : LogWrite(p, b, v))
                              /\ SF_vars(EndOp(p) \/ EndOpLast(p))

-----------------------------------------------------------------------------
(* Properties *)

Phases == {"idle", "write_log", "write_head", "install", "clear", "committed",
           "read_head", "re_install", "re_clear"}

TypeOK == /\ home \in [Blocks -> Vals]
          /\ slots \in [1..LOGSIZE -> Vals \cup {NoVal}]
          /\ hdr \in Seq(Blocks) /\ Len(hdr) <= LOGSIZE
          /\ cache \in [Blocks -> Vals]
          /\ dirty \subseteq Blocks
          /\ lh \in Seq(Blocks) /\ Len(lh) <= LOGSIZE
          /\ outstanding \in Nat
          /\ committing \in BOOLEAN
          /\ pc \in [Ops -> {"out", "begin", "asleep", "in", "logging", "commit"}]
          /\ wrote \in [Ops -> SUBSET Blocks]
          /\ phase \in Phases
          /\ tail \in 0..LOGSIZE
          /\ panicked \in BOOLEAN

\* What a recovery from the disk as it is now would leave in the home
\* locations: the blocks of the header from the log, the others as they are.
Recovered == [b \in Blocks |->
    IF b \in Elems(hdr) THEN slots[CHOOSE i \in 1..Len(hdr) : hdr[i] = b] ELSE home[b]]

\* What the calls in progress see; at boot, what they will see.
Current == IF phase \in {"read_head", "re_install", "re_clear"}
           THEN Recovered ELSE [b \in Blocks |-> Bread(b)]

\* A crash at any point, of a commit or of a recovery, leaves a disk from which
\* recovery restores the last committed transaction, all of it and nothing else.
AD == INSTANCE AtomicDisk WITH current <- Current, stable <- Recovered,
                               active <- Active
ImplementsAtomicDisk == AD!Spec

\* The calls in progress never overflow the log they reserved in begin_op:
\* neither log_write ("too big a transaction") nor end_op panics, though
\* log_write's check is not atomic with its append.
NeverTooBig == ~panicked

\* write_log never runs past the log into the inode blocks behind it.
LogFits == Len(lh) < NLOG

\* The log does not change under a commit: no call is in progress from the
\* first block of write_log to the clearing of log.committing.
CommitAlone == phase \in {"write_log", "write_head", "install", "clear", "committed"} =>
                   committing /\ outstanding = 0 /\ Active = {}

\* Nobody sleeps on an idle log: a call waits in begin_op only while a commit is
\* going on or some call in progress will end and wake it.
NoIdleSleeper == (\E p \in Ops : pc[p] = "asleep") => committing \/ outstanding > 0

\* A call that must wait in begin_op is woken in the end.
SleeperWoken == \A p \in Ops : (pc[p] = "asleep") ~> (pc[p] # "asleep")

=============================================================================
