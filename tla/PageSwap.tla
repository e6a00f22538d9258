------------------------------ MODULE PageSwap ------------------------------
(***************************************************************************)
(* Page swapping of Memory-Swap-xv6: page faults, sbrk, fork, exec, exit   *)
(* and wait as far as they move user pages (trap.c, proc.c, vm.c), kalloc  *)
(* and kfree (kalloc.c), and the swap area with its policy (pageswap.c).   *)
(*                                                                         *)
(* Only the free list, the slots' flags and the choice of a victim are     *)
(* under a lock, and every bread and bwrite sleeps.  A step is what a      *)
(* process does between two locks or sleeps.  loc[p] holds the locals of   *)
(* the calls p is in.  Kernel stacks and the pages of page tables are not  *)
(* counted.                                                                *)
(***************************************************************************)
EXTENDS Integers, FiniteSets

CONSTANTS Procs,      \* slots of the process table, as numbers
          InitProcs,  \* those alive at first: a chain of parents
          MaxPages,   \* bound on the pages of a process
          Frames,     \* physical pages
          SLOT_TOTAL, \* SWAP_SLOT_TOTAL
          BLOCKS,     \* SWAP_BLOCKS_PER_PAGE
          Vals,       \* what programs write
          THRESHOLD, NPAGES, LIMIT, ALPHA, BETA,   \* the policy's parameters
          RSS_MOD,    \* p->rss is an unsigned number below this
          Calls,      \* what programs call: "fork", "exec", "shrink", "buffer"; or
                      \* "stray" where they have no page while the first slot is taken
          Background, \* does a parent run on, or wait for its child?
          Cached      \* may a slot's blocks be in the buffer cache when a fault needs them?

\* The first process, its child, the child of that, ...
ChainOfParents == \E n \in Procs : InitProcs = 1..n

ASSUME PageSwapAssumption ==
    /\ Procs \subseteq Nat \ {0} /\ InitProcs \subseteq Procs /\ ChainOfParents
    /\ IsFiniteSet(Procs) /\ IsFiniteSet(Frames)
    /\ MaxPages \in Nat \ {0} /\ SLOT_TOTAL \in Nat /\ BLOCKS \in Nat \ {0}
    /\ Frames \cap Nat = {} /\ Vals \cap {"zero", "junk"} = {}
    /\ THRESHOLD \in Nat \ {0} /\ LIMIT \in Nat /\ NPAGES \in 0..LIMIT
    /\ ALPHA \in Nat /\ BETA \in 0..100 /\ RSS_MOD \in Nat \ {0}
    /\ Background \in BOOLEAN /\ Cached \in BOOLEAN

Pages == 1..MaxPages
Slots == 1..SLOT_TOTAL
None == 0                       \* an empty page-table entry, no process, no page
Contents == [1..BLOCKS -> Vals \cup {"zero", "junk"}]
Zero == [b \in 1..BLOCKS |-> "zero"]
Junk == [b \in 1..BLOCKS |-> "junk"]     \* kfree and kalloc fill pages with it

VARIABLES state, parent, sz, rss,
          pte,         \* of each page: its frame if PTE_P is set, else its slot, or None
          cr3,         \* whose page table the CPU uses when p runs
          mem, disk,   \* contents of frames and slots
          freelist,    \* kmem.freelist
          freeSlots,   \* those with is_free set
          threshold, npages_to_swap,
          loc,
          written,     \* history: what each process last wrote in its pages
          panic        \* what the kernel panics with

table == <<state, parent, sz>>
store == <<mem, disk, freelist, freeSlots>>
policy == <<threshold, npages_to_swap>>
vars == <<table, rss, pte, cr3, store, policy, loc, written, panic>>

AtRest == [pc |-> "user",
           call |-> "none",    \* what the allocation is for
           tries |-> 0,        \* the checkAndSwap calls its caller still makes
           ret |-> "none",     \* where checkAndSwap returns to
           victim |-> None, va |-> None, pa |-> None, slot |-> None, blk |-> 1,
           swapped |-> 0, attempts |-> 0,
           page |-> None,      \* the page faulted on, or copied by fork
           from |-> None,      \* its slot, or the frame to copy
           frame |-> None,     \* what kalloc returned
           kid |-> None]       \* np, in fork

Rest(l) == [AtRest EXCEPT !.pc = l]

Taken == {p \in Procs : state[p] # "unused"}
Running(p, l) == state[p] = "live" /\ loc[p].pc = l /\ panic = "none"
Calling(p, call) == Running(p, "user") /\ call \in Calls
Resident(p) == {v \in Pages : pte[p][v] \in Frames}

Init == /\ state = [p \in Procs |-> IF p \in InitProcs THEN "live" ELSE "unused"]
        /\ parent = [p \in Procs |-> IF p \in InitProcs \ {1} THEN p - 1 ELSE None]
        /\ sz = [p \in Procs |-> IF p \in InitProcs THEN 1 ELSE 0]
        /\ rss = sz
        /\ \E f \in [InitProcs -> Frames] :
              /\ \A p, q \in InitProcs : f[p] = f[q] => p = q
              /\ pte = [p \in Procs |-> [v \in Pages |->
                            IF p \in InitProcs /\ v = 1 THEN f[p] ELSE None]]
              /\ freelist = Frames \ {f[p] : p \in InitProcs}
              /\ mem = [g \in Frames |-> IF g \in freelist THEN Junk ELSE Zero]
        /\ cr3 = [p \in Procs |-> p]
        /\ disk = [s \in Slots |-> Zero]
        /\ freeSlots = Slots
        /\ threshold = THRESHOLD /\ npages_to_swap = NPAGES
        /\ loc = [p \in Procs |-> IF p + 1 \in InitProcs /\ ~Background
                                          THEN Rest("wait") ELSE AtRest]
        /\ written = [p \in Procs |-> [v \in Pages |-> Zero]]
        /\ panic = "none"

\* Mutant: the scheduler does not load it.
SleptElsewhere(p) == UNCHANGED cr3

\* bread and bwrite sleep, and the scheduler loads the page table of p again.
Slept(p) == cr3' = [cr3 EXCEPT ![p] = p]

\* n pages more, or fewer, in memory
Rss(p, n) == rss' = [rss EXCEPT ![p] = (@ + n) % RSS_MOD]

-----------------------------------------------------------------------------
(* User space *)

\* A store through the page table that the CPU uses.
Write(p, v, b, x) == /\ Running(p, "user")
                     /\ v <= sz[p] /\ pte[cr3[p]][v] \in Frames
                     /\ mem' = [mem EXCEPT ![pte[cr3[p]][v]][b] = x]
                     /\ written' = [written EXCEPT ![p][v][b] = x]
                     /\ UNCHANGED <<table, rss, pte, cr3, disk, freelist, freeSlots, policy, loc, panic>>

\* The slot swapPageIn finds in an entry: in an empty one, the first.
SlotIndex(e) == IF e = None THEN 1 ELSE e

\* Any access to a page that is not present: swapPageIn up to its kalloc, which it
\* tries twice.
Fault(p, v) == /\ Running(p, "user")
               /\ pte[p][v] # None \/ "stray" \in Calls
               /\ pte[cr3[p]][v] \notin Frames /\ pte[p][v] \notin Frames
               /\ SlotIndex(pte[p][v]) \in Slots \ freeSlots
               /\ loc' = [loc EXCEPT ![p].pc = "kalloc", ![p].call = "fault", ![p].tries = 5,
                                     ![p].page = v, ![p].from = SlotIndex(pte[p][v])]
               /\ UNCHANGED <<table, rss, pte, cr3, store, policy, written, panic>>

\* There is nothing in its slot: trap() kills the process.
Segfault(p, v) == /\ Running(p, "user")
                  /\ pte[cr3[p]][v] \notin Frames /\ pte[p][v] \notin Frames
                  /\ SlotIndex(pte[p][v]) \notin Slots \ freeSlots
                  /\ loc' = [loc EXCEPT ![p] = Rest("exit")]
                  /\ UNCHANGED <<table, rss, pte, cr3, store, policy, written, panic>>

\* A system call reads or writes a buffer in user space.
Buffer(p, v) == /\ Calling(p, "buffer")
                /\ v <= sz[p] /\ pte[cr3[p]][v] \notin Frames
                /\ panic' = "trap"
                /\ UNCHANGED <<table, rss, pte, cr3, store, policy, loc, written>>

\* A clock tick: p runs on later, on its own page table.
Preempt(p) == /\ state[p] = "live" /\ panic = "none"
              /\ Slept(p)
              /\ UNCHANGED <<table, rss, pte, store, policy, loc, written, panic>>

\* sbrk of one page; allocuvm tries kalloc three times.
Grow(p) == /\ Running(p, "user")
           /\ sz[p] < MaxPages
           /\ loc' = [loc EXCEPT ![p].pc = "kalloc", ![p].call = "grow", ![p].tries = 8]
           /\ UNCHANGED <<table, rss, pte, cr3, store, policy, written, panic>>

\* sbrk of minus one page: a page that is swapped out keeps its entry.
Shrink(p) ==
    /\ Calling(p, "shrink")
    /\ sz[p] > 1
    /\ LET f == pte[p][sz[p]]
       IN  IF f \in Frames
           THEN /\ pte' = [pte EXCEPT ![p][sz[p]] = None]
                /\ freelist' = freelist \cup {f}
                /\ mem' = [mem EXCEPT ![f] = Junk]
           ELSE UNCHANGED <<pte, freelist, mem>>
    /\ Rss(p, -1)
    /\ sz' = [sz EXCEPT ![p] = @ - 1]
    /\ cr3' = [cr3 EXCEPT ![p] = p]
    /\ UNCHANGED <<state, parent, disk, freeSlots, policy, loc, written, panic>>

-----------------------------------------------------------------------------
(* kalloc and checkAndSwap *)

Kalloc(p) == /\ Running(p, "kalloc")
             /\ \E f \in freelist : /\ freelist' = freelist \ {f}
                                    /\ mem' = [mem EXCEPT ![f] = Junk]
                                    /\ loc' = [loc EXCEPT ![p].pc = loc[p].call, ![p].frame = f,
                                                          ![p].tries = 0, ![p].blk = 1]
             /\ UNCHANGED <<table, rss, pte, cr3, disk, freeSlots, policy, written, panic>>

\* A mutant for the runs: a process keeps its last page.
VictimsAboveOne == {q \in Taken : rss[q] > 1 /\ \A r \in Taken : rss[r] <= rss[q]}

\* findVictimProc: the highest rss (a tie goes to the lower pid, which the model
\* does not have).
Victims == {q \in Taken : rss[q] > 0 /\ \A r \in Taken : rss[r] <= rss[q]}

Capped(n) == IF n > LIMIT THEN LIMIT ELSE n

\* The end of checkAndSwap
Adapt(p) == /\ threshold' = LET t == threshold - (threshold * BETA) \div 100
                            IN  IF t < 1 THEN 1 ELSE t
            /\ npages_to_swap' = Capped(npages_to_swap + (npages_to_swap * ALPHA) \div 100)
            /\ loc' = [loc EXCEPT ![p].pc = loc[p].ret, ![p].victim = None,
                                  ![p].swapped = 0, ![p].attempts = 0]

\* Where checkAndSwap is called for want of a page (kalloc) or a slot (dup).
Starved(p) == \/ Running(p, "kalloc") /\ freelist = {}
              \/ Running(p, "dup") /\ freeSlots = {}

CheckAndSwap(p) ==
    /\ Starved(p)
    /\ loc[p].tries > 0
    /\ loc' = [loc EXCEPT ![p].tries = @ - 1, ![p].ret = loc[p].pc,
                          ![p].pc = IF Cardinality(freelist) > threshold THEN @ ELSE "victim"]
    /\ UNCHANGED <<table, rss, pte, cr3, store, policy, written, panic>>

\* swapOutPages chooses a process ...
FindVictimProc(p) ==
    /\ Running(p, "victim")
    /\ \/ \E q \in Victims : /\ loc' = [loc EXCEPT ![p].pc = "page", ![p].victim = q]
                             /\ UNCHANGED policy
       \/ Victims = {} /\ Adapt(p)
    /\ UNCHANGED <<table, rss, pte, cr3, store, written, panic>>

\* ... and pages of it, while it has more to swap out.  Any resident page may be the
\* one whose PTE_A is clear, or the first after they have all been cleared.
SwapsMore(l) == l.swapped < npages_to_swap /\ l.attempts < 2 * npages_to_swap

FindVictimPage(p) ==
    /\ Running(p, "page")
    /\ IF ~SwapsMore(loc[p]) THEN Adapt(p) /\ UNCHANGED panic
       ELSE IF loc[p].victim = None THEN panic' = "wild" /\ UNCHANGED <<policy, loc>>
       ELSE \/ \E v \in Resident(loc[p].victim) :
                 /\ loc' = [loc EXCEPT ![p].pc = "out", ![p].va = v,
                                       ![p].pa = pte[loc[p].victim][v]]
                 /\ UNCHANGED <<policy, panic>>
            \/ Resident(loc[p].victim) = {} /\ Adapt(p) /\ UNCHANGED panic
    /\ UNCHANGED <<table, rss, pte, cr3, store, written>>

IsFirst(s, S) == s \in S /\ \A t \in S : s <= t

\* A mutant for the runs: findFreeSlot does not take the slot.
SlotLeft(s) == freeSlots

\* findFreeSlot
SlotTaken(s) == freeSlots \ {s}

\* swapAndPageOut: findFreeSlot, and another look at the page-table entry.
NoSlot(p) == /\ freeSlots = {}
             /\ loc' = [loc EXCEPT ![p].pc = "page", ![p].attempts = @ + 1,
                                   ![p].va = None, ![p].pa = None]
             /\ UNCHANGED <<freeSlots, panic>>

TakeSlot(p, s) == /\ IsFirst(s, freeSlots)
                  /\ freeSlots' = SlotTaken(s)
                  /\ IF loc[p].victim = None THEN panic' = "wild" /\ UNCHANGED loc
                     ELSE /\ loc' = IF pte[loc[p].victim][loc[p].va] \in Frames
                                    THEN [loc EXCEPT ![p].pc = "write", ![p].slot = s, ![p].blk = 1]
                                    ELSE [loc EXCEPT ![p].pc = "page", ![p].attempts = @ + 1,
                                                     ![p].va = None, ![p].pa = None]
                          /\ UNCHANGED panic

PageOut(p) == /\ Running(p, "out")
              /\ NoSlot(p) \/ \E s \in Slots : TakeSlot(p, s)
              /\ UNCHANGED <<table, rss, pte, cr3, mem, disk, freelist, policy, written>>

\* One block of the page
WriteOut(p) == /\ Running(p, "write")
               /\ disk' = [disk EXCEPT ![loc[p].slot][loc[p].blk] = mem[loc[p].pa][loc[p].blk]]
               /\ loc' = [loc EXCEPT ![p].pc = IF loc[p].blk = BLOCKS THEN "set" ELSE @,
                                     ![p].blk = @ + 1]
               /\ Slept(p)
               /\ UNCHANGED <<table, rss, pte, mem, freelist, freeSlots, policy, written, panic>>

\* The page-table entry, lcr3 of the victim's page table, and swapOutPages' kfree; a
\* second kfree of a frame makes a loop of the free list.
SetPte(p) ==
    /\ Running(p, "set")
    /\ IF loc[p].victim = None \/ loc[p].pa \in freelist
       THEN panic' = "wild" /\ UNCHANGED <<rss, pte, cr3, mem, freelist, loc>>
       ELSE /\ pte' = [pte EXCEPT ![loc[p].victim][loc[p].va] = loc[p].slot]
            /\ cr3' = [cr3 EXCEPT ![p] = loc[p].victim]
            /\ Rss(loc[p].victim, -1)
            /\ freelist' = freelist \cup {loc[p].pa}
            /\ mem' = [mem EXCEPT ![loc[p].pa] = Junk]
            /\ loc' = [loc EXCEPT ![p].pc = "page", ![p].slot = None, ![p].pa = None,
                                  ![p].va = None, ![p].blk = 1,
                                  ![p].swapped = @ + 1, ![p].attempts = @ + 1]
            /\ UNCHANGED panic
    /\ UNCHANGED <<table, disk, freeSlots, policy, written>>

-----------------------------------------------------------------------------
(* What kalloc is called for *)

\* A mutant for the runs: allocuvm does not clear the page.
Uncleared(f) == mem

Cleared(f) == [mem EXCEPT ![f] = Zero]

\* allocuvm maps the page; growproc ends in switchuvm.
GrowMap(p) ==
    /\ Running(p, "grow")
    /\ LET v == sz[p] + 1
       IN  IF pte[p][v] \in Frames
           THEN panic' = "remap" /\ UNCHANGED <<sz, rss, pte, cr3, mem, loc, written>>
           ELSE /\ pte' = [pte EXCEPT ![p][v] = loc[p].frame]
                /\ mem' = Cleared(loc[p].frame)
                /\ written' = [written EXCEPT ![p][v] = Zero]
                /\ Rss(p, 1)
                /\ sz' = [sz EXCEPT ![p] = v]
                /\ cr3' = [cr3 EXCEPT ![p] = p]
                /\ loc' = [loc EXCEPT ![p] = AtRest]
                /\ UNCHANGED panic
    /\ UNCHANGED <<state, parent, disk, freelist, freeSlots, policy>>

\* swapPageIn reads one block of the slot; a block in the buffer cache takes no sleep.
ReadIn(p) == /\ Running(p, "fault")
             /\ loc[p].blk <= BLOCKS
             /\ mem' = [mem EXCEPT ![loc[p].frame][loc[p].blk] = disk[loc[p].from][loc[p].blk]]
             /\ loc' = [loc EXCEPT ![p].blk = @ + 1]
             /\ Slept(p) \/ (Cached /\ UNCHANGED cr3)
             /\ UNCHANGED <<table, rss, pte, disk, freelist, freeSlots, policy, written, panic>>

\* A mutant for the runs: swapPageIn does not free the slot.
SlotKept(s) == freeSlots

\* freeSlot
SlotFreed(s) == freeSlots \cup {s}

\* It maps the page and frees the slot.  In a fork that found no slot it was called
\* for the page to copy.
MapIn(p) ==
    /\ Running(p, "fault")
    /\ loc[p].blk > BLOCKS
    /\ IF pte[p][loc[p].page] \in Frames
       THEN panic' = "remap" /\ UNCHANGED <<rss, pte, freeSlots, loc>>
       ELSE /\ pte' = [pte EXCEPT ![p][loc[p].page] = loc[p].frame]
            /\ freeSlots' = SlotFreed(loc[p].from)
            /\ Rss(p, 1)
            /\ loc' = IF loc[p].kid = None THEN [loc EXCEPT ![p] = AtRest]
                      ELSE [loc EXCEPT ![p].pc = "kalloc", ![p].call = "copy", ![p].tries = 2,
                                       ![p].from = loc[p].frame, ![p].frame = None]
            /\ UNCHANGED panic
    /\ UNCHANGED <<table, cr3, mem, disk, freelist, policy, written>>

\* The frames and the slots of page table p
FramesOf(p) == {pte[p][v] : v \in Resident(p)}
SlotsOf(p) == {pte[p][v] : v \in {w \in Pages : pte[p][w] \in Slots}}

\* freevm: the frames are free, the slots are not.
Freevm(S) == /\ freelist' = freelist \cup S
             /\ mem' = [f \in Frames |-> IF f \in S THEN Junk ELSE mem[f]]

\* Who is swapping out a page of q in one of the steps pcs holds a dangling pointer
\* when q's page table is freed.
Cut(l, q, pcs) == [r \in Procs |-> IF l[r].victim = q /\ l[r].pc \in pcs
                                   THEN [l[r] EXCEPT !.victim = None] ELSE l[r]]

\* duplicateSwapSlot and swapPageIn return -1: the parent's slot is free.
NothingToDup(p) == Running(p, "dup") /\ loc[p].tries = 2 /\ loc[p].from \in freeSlots

\* kalloc failed for good: sbrk returns -1, a fault kills, exec returns -1, and fork
\* frees the child's pages.
KallocFails(p) ==
    /\ \/ Running(p, "kalloc") /\ freelist = {} /\ loc[p].tries = 0
       \/ NothingToDup(p)
    /\ LET kid == loc[p].kid
       IN  IF kid = None
           THEN /\ loc' = [loc EXCEPT ![p] = IF loc[p].call = "fault" THEN Rest("exit") ELSE AtRest]
                /\ UNCHANGED <<state, pte, freelist, mem>>
           ELSE /\ Freevm(FramesOf(kid))
                /\ pte' = [pte EXCEPT ![kid] = [v \in Pages |-> None]]
                /\ state' = [state EXCEPT ![kid] = "unused"]
                /\ loc' = [loc EXCEPT ![p] = AtRest]
    /\ UNCHANGED <<parent, sz, rss, cr3, disk, freeSlots, policy, written, panic>>

\* exec in an image of one page: allocuvm, then the old image goes.
Exec(p) == /\ Calling(p, "exec")
           /\ loc' = [loc EXCEPT ![p].pc = "kalloc", ![p].call = "exec", ![p].tries = 8]
           /\ UNCHANGED <<table, rss, pte, cr3, store, policy, written, panic>>

ExecCommit(p) ==
    /\ Running(p, "exec")
    /\ pte' = [pte EXCEPT ![p] = [v \in Pages |-> IF v = 1 THEN loc[p].frame ELSE None]]
    /\ freelist' = freelist \cup FramesOf(p)
    /\ mem' = [f \in Frames |-> IF f \in FramesOf(p) THEN Junk
                               ELSE IF f = loc[p].frame THEN Zero ELSE mem[f]]
    /\ sz' = [sz EXCEPT ![p] = 1]
    /\ rss' = [rss EXCEPT ![p] = 1]
    /\ cr3' = [cr3 EXCEPT ![p] = p]
    /\ written' = [written EXCEPT ![p] = [v \in Pages |-> Zero]]
    /\ loc' = Cut([loc EXCEPT ![p] = AtRest], p, {"out", "write", "set"})
    /\ UNCHANGED <<state, parent, disk, freeSlots, policy, panic>>

-----------------------------------------------------------------------------
(* fork *)

\* allocproc; copyuvm copies the pages from the first to the last.
Fork(p, kid) == /\ Calling(p, "fork")
                /\ IsFirst(kid, Procs \ Taken)
                /\ state' = [state EXCEPT ![kid] = "embryo"]
                /\ rss' = [rss EXCEPT ![kid] = 0]
                /\ loc' = [loc EXCEPT ![p].pc = "pages", ![p].kid = kid, ![p].page = 1]
                /\ UNCHANGED <<parent, sz, pte, cr3, store, policy, written, panic>>

CopyPage(p) ==
    LET v == loc[p].page IN
    /\ Running(p, "pages")
    /\ v <= sz[p]
    /\ loc' = CASE pte[p][v] \in Frames ->
                      [loc EXCEPT ![p].pc = "kalloc", ![p].call = "copy", ![p].tries = 8,
                                  ![p].from = pte[p][v]]
                 [] pte[p][v] \in Slots ->
                      [loc EXCEPT ![p].pc = "dup", ![p].tries = 2, ![p].from = pte[p][v]]
                 [] OTHER -> [loc EXCEPT ![p].page = v + 1]
    /\ UNCHANGED <<table, rss, pte, cr3, store, policy, written, panic>>

\* The child's page-table entry
ChildPte(p, e) == /\ pte' = [pte EXCEPT ![loc[p].kid][loc[p].page] = e]
                  /\ loc' = [loc EXCEPT ![p].pc = "pages", ![p].page = @ + 1, ![p].blk = 1,
                                        ![p].from = None, ![p].frame = None, ![p].slot = None]

CopyMap(p) == /\ Running(p, "copy")
              /\ mem' = [mem EXCEPT ![loc[p].frame] = mem[loc[p].from]]
              /\ ChildPte(p, loc[p].frame)
              /\ UNCHANGED <<table, rss, cr3, disk, freelist, freeSlots, policy, written, panic>>

\* duplicateSwapSlot finds a slot ...
DupSlot(p, s) == /\ Running(p, "dup")
                 /\ IsFirst(s, freeSlots) /\ ~NothingToDup(p)
                 /\ freeSlots' = SlotTaken(s)
                 /\ loc' = [loc EXCEPT ![p].pc = "dupcopy", ![p].slot = s,
                                       ![p].tries = 0, ![p].blk = 1]
                 /\ UNCHANGED <<table, rss, pte, cr3, mem, disk, freelist, policy, written, panic>>

\* ... and copies it, a block at a time; without one the page is swapped in.
DupBlock(p) ==
    /\ Running(p, "dupcopy")
    /\ LET b == loc[p].blk
       IN  IF b <= BLOCKS
           THEN /\ disk' = [disk EXCEPT ![loc[p].slot][b] = disk[loc[p].from][b]]
                /\ loc' = [loc EXCEPT ![p].blk = b + 1]
                /\ Slept(p)
                /\ UNCHANGED pte
           ELSE ChildPte(p, loc[p].slot) /\ UNCHANGED <<disk, cr3>>
    /\ UNCHANGED <<table, rss, mem, freelist, freeSlots, policy, written, panic>>

DupFails(p) == /\ Running(p, "dup") /\ freeSlots = {} /\ loc[p].tries = 0
               /\ loc' = [loc EXCEPT ![p].pc = "kalloc", ![p].call = "fault", ![p].tries = 5]
               /\ UNCHANGED <<table, rss, pte, cr3, store, policy, written, panic>>

ForkDone(p) == LET kid == loc[p].kid IN
               /\ Running(p, "pages")
               /\ loc[p].page > sz[p]
               /\ state' = [state EXCEPT ![kid] = "live"]
               /\ parent' = [parent EXCEPT ![kid] = p]
               /\ sz' = [sz EXCEPT ![kid] = sz[p]]
               /\ rss' = [rss EXCEPT ![kid] = rss[p]]
               /\ cr3' = [cr3 EXCEPT ![kid] = kid]
               /\ written' = [written EXCEPT ![kid] = written[p]]
               /\ loc' = [loc EXCEPT ![kid] = AtRest,
                                     ![p] = IF Background THEN AtRest ELSE Rest("wait")]
               /\ UNCHANGED <<pte, store, policy, panic>>

-----------------------------------------------------------------------------
(* exit and wait *)

Exit(p) == /\ Running(p, "user") \/ Running(p, "exit")
           /\ p # 1
           /\ freeSlots' = freeSlots \cup SlotsOf(p)
           /\ state' = [state EXCEPT ![p] = "zombie"]
           /\ parent' = [q \in Procs |-> IF parent[q] = p THEN 1 ELSE parent[q]]
           /\ loc' = [loc EXCEPT ![p] = AtRest]
           /\ UNCHANGED <<sz, rss, pte, cr3, mem, disk, freelist, policy, written, panic>>

\* A parent that runs on may call wait at any time.
Wait(p, z) == /\ \E l \in IF Background THEN {"wait", "user"} ELSE {"wait"} : Running(p, l)
              /\ state[z] = "zombie" /\ parent[z] = p
              /\ Freevm(FramesOf(z))
              /\ pte' = [pte EXCEPT ![z] = [v \in Pages |-> None]]
              /\ state' = [state EXCEPT ![z] = "unused"]
              /\ parent' = [parent EXCEPT ![z] = None]
              /\ loc' = Cut([loc EXCEPT ![p] = AtRest], z, {"page", "out", "write", "set"})
              /\ UNCHANGED <<sz, rss, cr3, disk, freeSlots, policy, written, panic>>

-----------------------------------------------------------------------------

Kernel(p) == \/ Kalloc(p) \/ CheckAndSwap(p) \/ FindVictimProc(p) \/ FindVictimPage(p)
             \/ PageOut(p) \/ WriteOut(p) \/ SetPte(p)
             \/ GrowMap(p) \/ ReadIn(p) \/ MapIn(p) \/ ExecCommit(p) \/ KallocFails(p)
             \/ CopyPage(p) \/ CopyMap(p) \/ DupBlock(p) \/ DupFails(p) \/ ForkDone(p)
             \/ \E s \in Slots : DupSlot(p, s)

Next == \E p \in Procs :
    \/ Kernel(p)
    \/ \E v \in Pages : \/ Fault(p, v) \/ Segfault(p, v) \/ Buffer(p, v)
                        \/ \E b \in 1..BLOCKS, x \in Vals : Write(p, v, b, x)
    \/ Preempt(p) \/ Grow(p) \/ Shrink(p) \/ Exec(p) \/ Exit(p)
    \/ \E q \in Procs : Fork(p, q) \/ Wait(p, q)

Spec == Init /\ [][Next]_vars

-----------------------------------------------------------------------------
(* Properties *)

Labels == {"user", "wait", "exit", "kalloc", "victim", "page", "out", "write", "set",
           "grow", "fault", "exec", "pages", "copy", "dup", "dupcopy"}

TypeOK ==
    /\ state \in [Procs -> {"unused", "embryo", "live", "zombie"}]
    /\ parent \in [Procs -> Procs \cup {None}]
    /\ sz \in [Procs -> 0..MaxPages]
    /\ rss \in [Procs -> 0..RSS_MOD - 1]
    /\ pte \in [Procs -> [Pages -> Frames \cup Slots \cup {None}]]
    /\ cr3 \in [Procs -> Procs]
    /\ mem \in [Frames -> Contents] /\ disk \in [Slots -> Contents]
    /\ freelist \subseteq Frames /\ freeSlots \subseteq Slots
    /\ threshold \in 1..THRESHOLD /\ npages_to_swap \in 0..LIMIT
    /\ \A p \in Procs : loc[p].pc \in Labels /\ loc[p].victim \in Procs \cup {None}
    /\ written \in [Procs -> [Pages -> Contents]]
    /\ panic \in {"none", "trap", "remap", "wild"}

\* What page v of p holds, in memory or in the swap area
Held(p, v) == IF pte[p][v] \in Frames THEN mem[pte[p][v]] ELSE disk[pte[p][v]]

\* Swapping is invisible to programs: every page of a live process holds what the
\* process last wrote there, wherever it is.
PagesKept == \A p \in Procs : state[p] = "live" =>
                 \A v \in 1..sz[p] : pte[p][v] # None /\ Held(p, v) = written[p][v]

\* The places that refer to slot s: page-table entries of processes that are not
\* dead, and the calls that fill a slot.
SlotHolders(s) ==
    {h \in Procs \X Pages : state[h[1]] \in {"live", "embryo"} /\ pte[h[1]][h[2]] = s}
    \cup {<<p, None>> : p \in {q \in Procs : loc[q].pc \in {"write", "set", "dupcopy"}
                                              /\ loc[q].slot = s}}

\* No two pages share a slot, and no slot with a page in it is free.
SlotsExclusive == \A s \in Slots : /\ \A h, k \in SlotHolders(s) : h = k
                                   /\ SlotHolders(s) # {} => s \notin freeSlots

\* No slot leaks.
SlotsAccounted == \A s \in Slots \ freeSlots : SlotHolders(s) # {}

FrameHolders(f) ==
    {h \in Procs \X Pages : state[h[1]] # "unused" /\ pte[h[1]][h[2]] = f}
    \cup {<<p, None>> : p \in {q \in Procs : loc[q].pc \in {"grow", "fault", "exec", "copy"}
                                               /\ loc[q].frame = f}}

\* Every frame is free or has one owner.
FramesAccounted == \A f \in Frames : Cardinality(FrameHolders(f)) = IF f \in freelist THEN 0 ELSE 1

\* Nothing leaks and nothing is given out twice: what allocations, swaps, faults and
\* exits take and give back adds up to the slots and the frames.
StorageAccounted == SlotsAccounted /\ FramesAccounted

\* A program runs on its own page table.
RunsOwnPages == \A p \in Procs : Running(p, "user") => cr3[p] = p

\* Every process's rss is the number of its pages in memory, which chooses the victim.
RssExact == \A p \in Procs : state[p] = "live" /\ loc[p].pc # "set" /\ panic = "none" =>
                rss[p] = Cardinality(Resident(p))

\* A process runs out of memory only when the swap area is full.
MemoryLasts == [][\A p \in Procs : KallocFails(p) => freeSlots = {}]_vars
=============================================================================
