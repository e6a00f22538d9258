------------------------------- MODULE Bcache -------------------------------
(* The buffer cache and the IDE driver: bio.c and ide.c, the same in all three *)
(* variants.  One step is one critical section of bcache.lock or idelock, the  *)
(* taking or the giving of a buffer's sleep-lock, or one event of the disk.    *)
(* The callers are those of the file system and the log: they read a block,    *)
(* change it and pin it (log_write), or write it (the commit's bwrite).        *)
EXTENDS Naturals, Sequences, FiniteSets, Functions

CONSTANTS Procs,      \* callers; one that holds two buffers counts as two
          Blocks,     \* blocks of the disk
          Vals,       \* contents of a block
          NBUF,       \* number of buffers
          MaxPinned,  \* most buffers that log_write has pinned: the log's size
          Errors,     \* {TRUE} \cap Errors # {} if reads of the disk may fail
          Blank,      \* what is on the disk at first
          NoProc, NoBlock, NoVal

ASSUME BcacheAssumption == /\ NBUF \in Nat \ {0}
                           /\ MaxPinned \in Nat
                           /\ Blank \in [Blocks -> Vals]
                           /\ Errors \subseteq BOOLEAN /\ FALSE \in Errors
                           /\ NoProc \notin Procs
                           /\ NoBlock \notin Blocks
                           /\ NoVal \notin Vals

Bufs == 1..NBUF
NoBuf == 0

VARIABLES blockno, flags, data, refcnt, lock,  \* each buffer's
          mru,       \* bcache's list, the most recently used first
          idequeue,  \* buffers whose request is not finished; the head is active
          active,    \* the request the disk is working on: [block, write, data]
          irq,       \* the disk has finished it and raised its interrupt
          disk,      \* the contents of the disk
          pc,        \* how far each caller is
          want, buf, \* the block it has asked bget for, the buffer it has got
          panic      \* the kernel has stopped

bcache == <<blockno, refcnt, mru>>
device == <<active, irq, disk>>
caller == <<pc, want, buf>>
vars == <<blockno, flags, data, refcnt, lock, mru, idequeue, device, caller, panic>>

\* iderw, as bread and bwrite call it: asleep, woken, returned
Asleep == [bread |-> "reading", bwrite |-> "writing"]
Awake == [reading |-> "read", writing |-> "wrote"]
Returned == [read |-> "held", wrote |-> "written"]

Labels == {"idle", "lock", "bread", "reading", "read", "held", "logged", "bwrite",
           "writing", "wrote", "written", "unref"}
Idle == [block |-> NoBlock, write |-> FALSE, data |-> NoVal]

TypeOK == /\ blockno \in [Bufs -> Blocks \cup {NoBlock}]
          /\ flags \in [Bufs -> SUBSET {"VALID", "DIRTY"}]
          /\ data \in [Bufs -> Vals \cup {NoVal}]
          /\ refcnt \in [Bufs -> Nat]
          /\ lock \in [Bufs -> Procs \cup {NoProc}]
          /\ mru \in [1..NBUF -> Bufs]
          /\ idequeue \in Seq(Bufs)
          /\ active \in [block : Blocks \cup {NoBlock}, write : BOOLEAN,
                         data : Vals \cup {NoVal}]
          /\ irq \in BOOLEAN
          /\ disk \in [Blocks -> Vals]
          /\ pc \in [Procs -> Labels]
          /\ want \in [Procs -> Blocks \cup {NoBlock}]
          /\ buf \in [Procs -> Bufs \cup {NoBuf}]
          /\ panic \in BOOLEAN

\* binit; the buffers' memory is zeroed
Init == /\ blockno = [x \in Bufs |-> NoBlock]
        /\ flags = [x \in Bufs |-> {}]
        /\ data = [x \in Bufs |-> NoVal]
        /\ refcnt = [x \in Bufs |-> 0]
        /\ lock = [x \in Bufs |-> NoProc]
        /\ mru = [i \in 1..NBUF |-> NBUF + 1 - i]
        /\ idequeue = <<>>
        /\ active = Idle
        /\ irq = FALSE
        /\ disk = Blank
        /\ pc = [p \in Procs |-> "idle"]
        /\ want = [p \in Procs |-> NoBlock]
        /\ buf = [p \in Procs |-> NoBuf]
        /\ panic = FALSE

At(p, l) == pc[p] = l /\ ~panic
Goto(p, l) == pc' = [pc EXCEPT ![p] = l]

-----------------------------------------------------------------------------
(* bio.c *)

Cached(b) == {x \in Bufs : blockno[x] = b}

Unused(x) == refcnt[x] = 0 /\ "DIRTY" \notin flags[x]

\* Mutant: a hit does not count.
CountedMiss(x, c) == [refcnt EXCEPT ![x] = IF c = "hit" THEN @ ELSE 1]

\* refcnt after a hit on x, or after x is recycled
Counted(x, c) == [refcnt EXCEPT ![x] = IF c = "hit" THEN @ + 1 ELSE 1]

\* bget finds the block: x is p's to wait for.
BgetHit(p, b) == \E x \in Cached(b) :
    /\ At(p, "idle")
    /\ refcnt' = Counted(x, "hit")
    /\ want' = [want EXCEPT ![p] = b]
    /\ buf' = [buf EXCEPT ![p] = x]
    /\ Goto(p, "lock")
    /\ UNCHANGED <<blockno, flags, data, lock, mru, idequeue, device, panic>>

\* bget does not find the block: it recycles the unused buffer that was used
\* longest ago, or panics.
BgetMiss(p, b) ==
    /\ At(p, "idle")
    /\ Cached(b) = {}
    /\ \/ /\ \A i \in 1..NBUF : ~Unused(mru[i])
          /\ panic' = TRUE
          /\ UNCHANGED <<blockno, flags, refcnt, want, buf, pc>>
       \/ \E i \in 1..NBUF : LET x == mru[i] IN
          /\ Unused(x) /\ \A j \in (i + 1)..NBUF : ~Unused(mru[j])
          /\ blockno' = [blockno EXCEPT ![x] = b]
          /\ flags' = [flags EXCEPT ![x] = {}]
          /\ refcnt' = Counted(x, "miss")
          /\ want' = [want EXCEPT ![p] = b]
          /\ buf' = [buf EXCEPT ![p] = x]
          /\ Goto(p, "lock")
          /\ UNCHANGED panic
    /\ UNCHANGED <<data, lock, mru, idequeue, device>>

\* bget's acquiresleep, and bread's test: a valid buffer is returned as it is.
BgetLock(p) == LET x == buf[p] IN
    /\ At(p, "lock")
    /\ lock[x] = NoProc
    /\ lock' = [lock EXCEPT ![x] = p]
    /\ Goto(p, IF "VALID" \in flags[x] THEN "held" ELSE "bread")
    /\ UNCHANGED <<bcache, flags, data, idequeue, device, want, buf, panic>>

Pinned == {x \in Bufs : "DIRTY" \in flags[x] /\ x \notin Range(idequeue)}

\* The caller changes the block and calls log_write: the buffer stays in the cache
\* until the commit has written it.
LogWrite(p, v) == LET x == buf[p] IN
    /\ At(p, "held")
    /\ Cardinality(Pinned \cup {x}) <= MaxPinned
    /\ data' = [data EXCEPT ![x] = v]
    /\ flags' = [flags EXCEPT ![x] = @ \cup {"DIRTY"}]
    /\ Goto(p, "logged")
    /\ UNCHANGED <<bcache, lock, idequeue, device, want, buf, panic>>

\* The log changes the block, or leaves it as log_write has pinned it, and calls
\* bwrite.
Bwrite(p, v) == LET x == buf[p] IN
    /\ At(p, "held")
    /\ data' = [data EXCEPT ![x] = v]
    /\ flags' = [flags EXCEPT ![x] = @ \cup {"DIRTY"}]
    /\ Goto(p, "bwrite")
    /\ UNCHANGED <<bcache, lock, idequeue, device, want, buf, panic>>

\* brelse, its releasesleep
Brelse(p) == LET x == buf[p] IN
    /\ \E l \in {"held", "logged", "written"} : At(p, l)
    /\ lock' = [lock EXCEPT ![x] = NoProc]
    /\ Goto(p, "unref")
    /\ UNCHANGED <<bcache, flags, data, idequeue, device, want, buf, panic>>

\* Mutant: only the last user's brelse is counted.
Uncounted(x) == [refcnt EXCEPT ![x] = IF @ = 1 THEN 0 ELSE @]

Released(x) == [refcnt EXCEPT ![x] = @ - 1]

\* The list with x moved to the front
MovedToFront(x) == LET i == CHOOSE j \in 1..NBUF : mru[j] = x
                   IN  [j \in 1..NBUF |-> IF j = 1 THEN x ELSE IF j <= i THEN mru[j - 1] ELSE mru[j]]

\* brelse, the rest
BrelseUnref(p) == LET x == buf[p] IN
    /\ At(p, "unref")
    /\ refcnt' = Released(x)
    /\ mru' = IF refcnt'[x] = 0 THEN MovedToFront(x) ELSE mru
    /\ want' = [want EXCEPT ![p] = NoBlock]
    /\ buf' = [buf EXCEPT ![p] = NoBuf]
    /\ Goto(p, "idle")
    /\ UNCHANGED <<blockno, flags, data, lock, idequeue, device, panic>>

-----------------------------------------------------------------------------
(* ide.c *)

\* What idestart tells the disk to do for x; the data of a write go with it.
Request(x) == [block |-> blockno[x], write |-> "DIRTY" \in flags[x],
               data |-> IF "DIRTY" \in flags[x] THEN data[x] ELSE NoVal]

\* Mutant: every request is started at once.
StartedAlways(x, q) == Request(x)

\* The disk after x has been appended to the queue, which is now q
Started(x, q) == IF q = <<x>> THEN Request(x) ELSE active

\* iderw: the request is queued, and started if there is no other; p sleeps on x.
Iderw(p) == LET x == buf[p] IN
    /\ pc[p] \in DOMAIN Asleep /\ ~panic
    /\ idequeue' = Append(idequeue, x)
    /\ active' = Started(x, idequeue')
    /\ Goto(p, Asleep[pc[p]])
    /\ UNCHANGED <<bcache, flags, data, lock, irq, disk, want, buf, panic>>

\* The disk does what it was told and raises its interrupt.
Disk == /\ active # Idle /\ ~irq /\ ~panic
        /\ IF active.write
           THEN disk' = [disk EXCEPT ![active.block] = active.data] /\ UNCHANGED active
           ELSE active' = [active EXCEPT !.data = disk[active.block]] /\ UNCHANGED disk
        /\ irq' = TRUE
        /\ UNCHANGED <<bcache, flags, data, lock, idequeue, caller, panic>>

\* Mutant: the interrupt does not start the next request.
NextNone(q) == Idle

\* The disk after the interrupt, with q still queued
NextRequest(q) == IF q = <<>> THEN Idle ELSE Request(Head(q))

\* ideintr: the head of the queue is the request that has finished.  The data of
\* a read that fails stay what they were.
Ideintr == LET x == Head(idequeue) IN
    /\ irq /\ ~panic
    /\ idequeue' = Tail(idequeue)
    /\ \E failed \in Errors :
          data' = [data EXCEPT ![x] = IF "DIRTY" \in flags[x] \/ failed THEN @ ELSE active.data]
    /\ flags' = [flags EXCEPT ![x] = {"VALID"}]
    /\ pc' = [p \in Procs |-> IF pc[p] \in DOMAIN Awake /\ buf[p] = x
                              THEN Awake[pc[p]] ELSE pc[p]]
    /\ active' = NextRequest(idequeue')
    /\ irq' = FALSE
    /\ UNCHANGED <<bcache, lock, disk, want, buf, panic>>

\* iderw looks at the buffer again, and returns to bread or to bwrite.
IderwReturn(p) ==
    /\ pc[p] \in DOMAIN Returned /\ ~panic
    /\ flags[buf[p]] = {"VALID"}
    /\ Goto(p, Returned[pc[p]])
    /\ UNCHANGED <<bcache, flags, data, lock, idequeue, device, want, buf, panic>>

-----------------------------------------------------------------------------
Step(p) == \/ \E b \in Blocks : BgetHit(p, b) \/ BgetMiss(p, b)
           \/ \E v \in Vals : LogWrite(p, v) \/ Bwrite(p, v)
           \/ BgetLock(p) \/ Brelse(p) \/ BrelseUnref(p)
           \/ Iderw(p) \/ IderwReturn(p)

\* panic() loops for ever.
Halted == panic /\ UNCHANGED vars

Next == (\E p \in Procs : Step(p)) \/ Disk \/ Ideintr \/ Halted

Spec == Init /\ [][Next]_vars

\* The disk answers, its interrupt is taken, and a caller inside the kernel goes
\* on; nobody is obliged to ask for a block.
Fairness == /\ WF_vars(Disk) /\ WF_vars(Ideintr)
            /\ \A p \in Procs : WF_vars(Iderw(p)) /\ WF_vars(IderwReturn(p))

FairSpec == Spec /\ Fairness

-----------------------------------------------------------------------------
(* Properties *)

\* Who has been given the buffer of a block
Held == {"held", "logged", "bwrite", "writing", "wrote", "written"}

Holders == [b \in Blocks |-> {p \in Procs : pc[p] \in Held /\ want[p] = b}]
Seen == [p \in Procs |-> IF pc[p] \in Held THEN data[buf[p]] ELSE NoVal]

\* What is in a valid buffer, pinned or not, is what the block holds.
Mem == [b \in Blocks |-> IF \E x \in Cached(b) : flags[x] # {}
                         THEN data[CHOOSE x \in Cached(b) : flags[x] # {}] ELSE disk[b]]

Store == INSTANCE BlockStore WITH holders <- Holders, seen <- Seen, mem <- Mem

\* bget, the sleep-lock, the recycling and the driver together give each block to
\* one caller at a time, with what the last one left in it.
ImplementsBlockStore == Store!Spec

\* bwrite returns when the disk has the block, on which the log's commit counts.
WrittenThrough == \A p \in Procs : pc[p] = "written" => disk[want[p]] = data[buf[p]]

\* bget panics only if each buffer is in a caller's hands or pinned by the log:
\* no reference is left behind by any interleaving of hits, recycling and brelse.
PanicOnlyWhenFull == panic => Bufs \subseteq Pinned \cup {buf[p] : p \in Procs}

\* Each request comes back, whichever others are in the queue.
RequestsServed == \A p \in Procs :
    pc[p] \in {"bread", "bwrite"} ~> pc[p] \in {"held", "written"} \/ panic
=============================================================================
