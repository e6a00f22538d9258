--------------------------- MODULE PageSwap_proofs ---------------------------
(***************************************************************************)
(* What PageSwap promises of slots and frames, proved.  The slots of the   *)
(* swap area stay exclusive however processes interleave, for programs     *)
(* that do not stray.  Where parents wait for their children, one process  *)
(* does anything at a time and every frame is free or has one owner; for   *)
(* programs that do not fork, every page holds what was last written       *)
(* there, memory runs out only when the swap area is full, and without the *)
(* other calls that leave slots behind every slot has an owner too.        *)
(***************************************************************************)
EXTENDS PageSwap, FiniteSetTheorems, WellFoundedInduction, TLAPS

\* Page v of p, or with None the call that p is in, has a claim on slot s: the page's
\* entry names it, p is reading it for the page, or p is filling it.
Claim(s, p, v) == \/ v \in Pages /\ state[p] \in {"live", "embryo"} /\ pte[p][v] = s
                  \/ loc[p].from = s /\ loc[p].page = v
                  \/ loc[p].slot = s /\ v = None

Claimants == Nat

Exclusive == \A s \in Slots : \A p \in Procs, v \in Claimants : Claim(s, p, v) =>
                 /\ s \notin freeSlots
                 /\ \A q \in Procs, w \in Claimants : Claim(s, q, w) => q = p /\ w = v

Fields == {"pc", "call", "tries", "ret", "victim", "va", "pa", "slot", "blk", "swapped",
           "attempts", "page", "from", "frame", "kid"}

LocalsTyped(l) ==
    /\ DOMAIN l = Fields
    /\ l.pc \in Labels \cup {"none"}
    /\ l.call \in {"none", "grow", "fault", "exec", "copy"}
    /\ l.ret \in {"none", "kalloc", "dup"}
    /\ l.victim \in Procs \cup {None} /\ l.va \in Pages \cup {None}
    /\ l.pa \in Frames \cup {None} /\ l.slot \in Slots \cup {None}
    /\ l.page \in Nat /\ l.from \in Frames \cup Slots \cup {None}
    /\ l.frame \in Frames \cup {None} /\ l.kid \in Procs \cup {None}

LocTyped == DOMAIN loc = Procs /\ \A p \in Procs : LocalsTyped(loc[p])

Typed == /\ state \in [Procs -> {"unused", "embryo", "live", "zombie"}]
         /\ sz \in [Procs -> 0..MaxPages]
         /\ rss \in [Procs -> Nat]
         /\ pte \in [Procs -> [Pages -> Frames \cup Slots \cup {None}]]
         /\ freelist \subseteq Frames
         /\ LocTyped

\* A victim is a process that has run, chosen by someone in swapOutPages.
Swapping == \A p \in Procs :
    /\ loc[p].victim # None => /\ state[loc[p].victim] \in {"live", "zombie"}
                               /\ loc[p].pc \in {"page", "out", "write", "set"}
    /\ loc[p].pc \in {"out", "write", "set"} => loc[p].pa \in Frames /\ loc[p].va \in Pages

\* The child of a fork is an embryo of its own.
Forking == \A p \in Procs :
    loc[p].kid # None => /\ state[loc[p].kid] = "embryo"
                         /\ \A q \in Procs : loc[q].kid = loc[p].kid => q = p

\* Who reads a slot reads it for a page, nobody reads one between pages, copyuvm has
\* come to some page, and a process that grows has room.
Paging == \A p \in Procs :
    /\ loc[p].from \in Slots => loc[p].page \in Pages
    /\ loc[p].pc = "pages" => loc[p].page # None
    /\ loc[p].pc \in {"user", "pages"} => loc[p].from \notin Slots
    /\ "grow" \in {loc[p].pc, loc[p].call} => sz[p] < MaxPages

\* Embryos have no pages in memory by their account, and free slots of the table no
\* page table.
Unborn == \A p \in Procs : /\ state[p] = "embryo" => rss[p] = 0
                           /\ state[p] = "unused" => \A v \in Pages : pte[p][v] = None

IInv == Typed /\ Exclusive /\ Swapping /\ Forking /\ Paging /\ Unborn

-----------------------------------------------------------------------------
(* Lemmas *)

\* Slots stay exclusive while claims and free slots only go.
LEMMA FewerClaims ==
    ASSUME Exclusive, freeSlots' \subseteq freeSlots,
           \A s \in Slots, p \in Procs, v \in Claimants : Claim(s, p, v)' => Claim(s, p, v)
    PROVE  Exclusive'
  BY DEF Exclusive

\* What the properties see of a step of p that only moves p on in its calls.
MovesOn(p) ==
    /\ \A q \in Procs : q # p => loc'[q] = loc[q]
    /\ loc'[p].from \in Slots =>
          \/ loc'[p].from = loc[p].from /\ loc'[p].page = loc[p].page
          \/ /\ state[p] = "live" /\ loc'[p].page \in Pages
             /\ pte[p][loc'[p].page] = loc'[p].from
    /\ loc'[p].slot \in Slots => loc'[p].slot = loc[p].slot
    /\ loc'[p].kid \in {loc[p].kid, None}
    /\ loc'[p].victim # None => /\ state[loc'[p].victim] \in {"live", "zombie"}
                                /\ loc'[p].pc \in {"page", "out", "write", "set"}
    /\ loc'[p].pc \in {"out", "write", "set"} => loc'[p].pa \in Frames /\ loc'[p].va \in Pages
    /\ loc'[p].pc = "pages" => loc'[p].page # None
    /\ loc'[p].pc \in {"user", "pages"} => loc'[p].from \notin Slots
    /\ "grow" \in {loc'[p].pc, loc'[p].call} => sz[p] < MaxPages

LEMMA MovingOn ==
    ASSUME IInv, Typed', NEW p \in Procs, MovesOn(p),
           UNCHANGED <<state, sz, rss, pte>>, freeSlots' \subseteq freeSlots
    PROVE  IInv'
<1>1. \A s \in Slots, q \in Procs, v \in Claimants : Claim(s, q, v)' => Claim(s, q, v)
  BY DEF Claim, MovesOn
<1>2. Exclusive'
  BY <1>1, FewerClaims DEF IInv
<1>3. Swapping'
  BY DEF IInv, Swapping, MovesOn
<1>4. Forking'
  BY DEF IInv, Forking, MovesOn
<1>5. Paging'
  BY DEF IInv, Paging, MovesOn
<1>6. Unborn'
  BY DEF IInv, Unborn
<1> QED
  BY <1>2, <1>3, <1>4, <1>5, <1>6 DEF IInv

LEMMA Unchanged ==
    ASSUME IInv, UNCHANGED <<state, sz, rss, pte, freelist, freeSlots, loc>> PROVE IInv'
<1>1. Typed'
  BY DEF IInv, Typed, LocTyped
<1>2. \A s \in Slots, p \in Procs, v \in Claimants : Claim(s, p, v)' => Claim(s, p, v)
  BY DEF Claim
<1>3. Exclusive'
  BY <1>2, FewerClaims DEF IInv
<1>4. Swapping' /\ Forking'
  BY DEF IInv, Swapping, Forking
<1>5. Paging' /\ Unborn'
  BY DEF IInv, Paging, Unborn
<1> QED
  BY <1>1, <1>3, <1>4, <1>5 DEF IInv

LEMMA InitIInv == ASSUME PageSwapAssumption, Init PROVE IInv
<1>1. PICK f \in [InitProcs -> Frames] :
          /\ pte = [p \in Procs |-> [v \in Pages |->
                        IF p \in InitProcs /\ v = 1 THEN f[p] ELSE None]]
          /\ freelist = Frames \ {f[p] : p \in InitProcs}
  BY DEF Init
<1>2. LocalsTyped(AtRest) /\ LocalsTyped(Rest("wait"))
  BY DEF AtRest, Rest, LocTyped, LocalsTyped, Fields, Labels, None
<1>3. \A p \in Procs : /\ LocalsTyped(loc[p])
                       /\ loc[p].pc \notin {"page", "out", "write", "set", "pages", "grow"}
                       /\ loc[p].victim = None /\ loc[p].slot = None
                       /\ loc[p].from = None /\ loc[p].kid = None /\ loc[p].call = "none"
  BY <1>2 DEF Init, AtRest, Rest
<1>4. LocTyped
  BY <1>3 DEF Init, LocTyped
<1>5. sz \in [Procs -> 0..MaxPages] /\ rss \in [Procs -> Nat]
  BY DEF Init, PageSwapAssumption
<1>6. Typed
  BY <1>1, <1>4, <1>5 DEF Typed, Init, Slots
<1>7. Exclusive
  BY <1>1, <1>3 DEF Exclusive, Claim, PageSwapAssumption, Slots, None
<1>8. Swapping /\ Forking
  BY <1>3 DEF Swapping, Forking
<1>9. Paging
  BY <1>3 DEF Paging, PageSwapAssumption, Slots, None
<1>10. Unborn
  BY <1>1 DEF Unborn, Init
<1> QED
  BY <1>6, <1>7, <1>8, <1>9, <1>10 DEF IInv

-----------------------------------------------------------------------------
(* Steps that only move a process on in its calls *)

LEMMA LocalStep ==
    ASSUME IInv, NEW p \in Procs, MovesOn(p), LocTyped',
           UNCHANGED <<state, sz, rss, pte, freeSlots>>, freelist' \subseteq Frames
    PROVE  IInv'
<1>1. Typed'
  BY DEF IInv, Typed
<1> QED
  BY <1>1, MovingOn

LEMMA UserSteps ==
    ASSUME IInv, NEW p \in Procs,
           \/ \E v \in Pages : Segfault(p, v) \/ Buffer(p, v)
           \/ \E v \in Pages, b \in 1..BLOCKS, x \in Vals : Write(p, v, b, x)
           \/ Preempt(p) \/ Grow(p) \/ Exec(p)
    PROVE  IInv'
<1>1. LocTyped
  BY DEF IInv, Typed
<1>2. CASE loc' = loc
  <2>1. UNCHANGED <<state, sz, rss, pte, freeSlots, freelist, loc>>
    BY <1>2 DEF Segfault, Buffer, Write, Preempt, Grow, Exec, table, store
  <2> QED
    BY <2>1, Unchanged
<1>3. CASE \E v \in Pages : Segfault(p, v)
  <2>1. loc' = [loc EXCEPT ![p] = Rest("exit")]
    BY <1>3 DEF Segfault
  <2>2. /\ loc'[p] = Rest("exit") /\ LocalsTyped(Rest("exit"))
        /\ \A q \in Procs : q # p => loc'[q] = loc[q]
        /\ LocTyped'
    BY <1>1, <2>1 DEF Rest, AtRest, LocTyped, LocalsTyped, Fields, Labels, None
  <2>3. MovesOn(p)
    BY <2>2 DEF MovesOn, Rest, AtRest, Slots, None
  <2>4. UNCHANGED <<state, sz, rss, pte, freeSlots>> /\ freelist' \subseteq Frames
    BY <1>3 DEF Segfault, table, store, IInv, Typed
  <2> QED
    BY <2>2, <2>3, <2>4, LocalStep
<1>4. CASE Grow(p) \/ Exec(p)
  <2>1. PICK c \in {"grow", "exec"} :
            /\ loc' = [loc EXCEPT ![p].pc = "kalloc", ![p].call = c, ![p].tries = 8]
            /\ c = "grow" => sz[p] < MaxPages
    BY <1>4 DEF Grow, Exec
  <2>2. LocTyped'
    BY <1>1, <2>1 DEF LocTyped, LocalsTyped, Fields, Labels
  <2>3. loc[p].victim = None
    BY <1>4 DEF Grow, Exec, Calling, Running, IInv, Swapping
  <2>4. MovesOn(p)
    BY <1>1, <2>1, <2>3 DEF MovesOn, LocTyped, LocalsTyped, Fields, Slots, None
  <2>5. UNCHANGED <<state, sz, rss, pte, freeSlots>> /\ freelist' \subseteq Frames
    BY <1>4 DEF Grow, Exec, table, store, IInv, Typed
  <2> QED
    BY <2>2, <2>4, <2>5, LocalStep
<1> QED
  BY <1>2, <1>3, <1>4 DEF Buffer, Write, Preempt

LEMMA KallocStep == ASSUME IInv, NEW p \in Procs, Kalloc(p) PROVE IInv'
<1>1. LocTyped
  BY DEF IInv, Typed
<1>2. PICK f \in freelist :
          loc' = [loc EXCEPT ![p].pc = loc[p].call, ![p].frame = f, ![p].tries = 0, ![p].blk = 1]
  BY DEF Kalloc
<1>3. loc[p].victim = None
  BY DEF Kalloc, Running, IInv, Swapping
<1>4. LocTyped' /\ freelist' \subseteq Frames
  BY <1>1, <1>2 DEF LocTyped, LocalsTyped, Fields, Labels, Kalloc, IInv, Typed
<1>5. MovesOn(p)
  BY <1>1, <1>2, <1>3 DEF MovesOn, IInv, Paging, LocTyped, LocalsTyped, Fields, Slots, None
<1>6. UNCHANGED <<state, sz, rss, pte, freeSlots>>
  BY DEF Kalloc, table, store
<1> QED
  BY <1>4, <1>5, <1>6, LocalStep

LEMMA SwapOutSteps ==
    ASSUME IInv, NEW p \in Procs, CheckAndSwap(p) \/ FindVictimProc(p) \/ FindVictimPage(p)
    PROVE  IInv'
<1>1. LocTyped
  BY DEF IInv, Typed
<1>2. UNCHANGED <<state, sz, rss, pte, freeSlots, freelist>> /\ freelist' \subseteq Frames
  BY DEF CheckAndSwap, FindVictimProc, FindVictimPage, table, store, IInv, Typed
<1>3. CASE loc' = loc
  BY <1>2, <1>3, Unchanged
<1>4. CASE CheckAndSwap(p)
  <2>1. loc' = [loc EXCEPT ![p].tries = @ - 1, ![p].ret = loc[p].pc,
                           ![p].pc = IF Cardinality(freelist) > threshold THEN @ ELSE "victim"]
    BY <1>4 DEF CheckAndSwap
  <2>2. loc[p].pc \in {"kalloc", "dup"}
    BY <1>4 DEF CheckAndSwap, Starved, Running
  <2>3. PICK l \in {"kalloc", "dup", "victim"} :
            loc' = [loc EXCEPT ![p].tries = @ - 1, ![p].ret = loc[p].pc, ![p].pc = l]
    <3>1. CASE Cardinality(freelist) > threshold
      BY <1>1, <2>1, <2>2, <3>1 DEF LocTyped, LocalsTyped, Fields
    <3>2. CASE ~(Cardinality(freelist) > threshold)
      BY <2>1, <3>2
    <3> QED
      BY <3>1, <3>2
  <2>4. LocTyped'
    BY <1>1, <2>2, <2>3 DEF LocTyped, LocalsTyped, Fields, Labels
  <2>5. loc[p].victim = None
    BY <2>2 DEF IInv, Swapping
  <2>6. MovesOn(p)
    BY <1>1, <2>3, <2>5 DEF MovesOn, IInv, Paging, LocTyped, LocalsTyped, Fields, Slots, None
  <2> QED
    BY <1>2, <2>4, <2>6, LocalStep
<1>5. CASE (FindVictimProc(p) \/ FindVictimPage(p)) /\ Adapt(p)
  <2>1. loc' = [loc EXCEPT ![p].pc = loc[p].ret, ![p].victim = None,
                           ![p].swapped = 0, ![p].attempts = 0]
    BY <1>5 DEF Adapt
  <2>2. LocTyped'
    BY <1>1, <2>1 DEF LocTyped, LocalsTyped, Fields, Labels
  <2>3. MovesOn(p)
    BY <1>1, <2>1 DEF MovesOn, IInv, Paging, LocTyped, LocalsTyped, Fields, Slots, None
  <2> QED
    BY <1>2, <2>2, <2>3, LocalStep
<1>6. CASE FindVictimProc(p) /\ \E q \in Victims :
               loc' = [loc EXCEPT ![p].pc = "page", ![p].victim = q]
  <2>1. PICK q \in Victims : loc' = [loc EXCEPT ![p].pc = "page", ![p].victim = q]
    BY <1>6
  <2>2. q \in Procs /\ state[q] \in {"live", "zombie"}
    BY <2>1 DEF Victims, Taken, IInv, Typed, Unborn
  <2>3. LocTyped'
    BY <1>1, <2>1, <2>2 DEF LocTyped, LocalsTyped, Fields, Labels
  <2>4. MovesOn(p)
    BY <1>1, <2>1, <2>2 DEF MovesOn, IInv, Paging, LocTyped, LocalsTyped, Fields, Slots, None
  <2> QED
    BY <1>2, <2>3, <2>4, LocalStep
<1>7. CASE /\ FindVictimPage(p) /\ loc[p].victim # None
           /\ \E v \in Resident(loc[p].victim) :
                  loc' = [loc EXCEPT ![p].pc = "out", ![p].va = v,
                                     ![p].pa = pte[loc[p].victim][v]]
  <2>1. PICK v \in Resident(loc[p].victim) :
            loc' = [loc EXCEPT ![p].pc = "out", ![p].va = v, ![p].pa = pte[loc[p].victim][v]]
    BY <1>7
  <2>2. v \in Pages /\ pte[loc[p].victim][v] \in Frames
    BY <2>1 DEF Resident
  <2>3. LocTyped'
    BY <1>1, <2>1, <2>2 DEF LocTyped, LocalsTyped, Fields, Labels
  <2>4. MovesOn(p)
    BY <1>1, <1>7, <2>1, <2>2 DEF MovesOn, IInv, Swapping, Paging, LocTyped, LocalsTyped, Fields, Slots, None
  <2> QED
    BY <1>2, <2>3, <2>4, LocalStep
<1> QED
  BY <1>3, <1>4, <1>5, <1>6, <1>7 DEF FindVictimProc, FindVictimPage

LEMMA CopySteps ==
    ASSUME IInv, NEW p \in Procs, WriteOut(p) \/ ReadIn(p) \/ DupFails(p) PROVE IInv'
<1>1. LocTyped
  BY DEF IInv, Typed
<1>2. UNCHANGED <<state, sz, rss, pte, freeSlots>> /\ freelist' \subseteq Frames
  BY DEF WriteOut, ReadIn, DupFails, table, store, IInv, Typed
<1>3. CASE WriteOut(p)
  <2>1. PICK l \in {"write", "set"} :
            loc' = [loc EXCEPT ![p].pc = l, ![p].blk = loc[p].blk + 1]
    <3>1. loc[p].pc = "write"
      BY <1>3 DEF WriteOut, Running
    <3> QED
      BY <1>1, <1>3, <3>1 DEF WriteOut, LocTyped, LocalsTyped, Fields
  <2>2. LocTyped'
    BY <1>1, <2>1 DEF LocTyped, LocalsTyped, Fields, Labels
  <2>3. loc[p].pc = "write"
    BY <1>3 DEF WriteOut, Running
  <2>4. MovesOn(p)
    BY <1>1, <2>1, <2>3 DEF MovesOn, IInv, Swapping, Paging, LocTyped, LocalsTyped, Fields
  <2> QED
    BY <1>2, <2>2, <2>4, LocalStep
<1>4. CASE ReadIn(p)
  <2>1. loc' = [loc EXCEPT ![p].blk = @ + 1] /\ loc[p].pc = "fault"
    BY <1>4 DEF ReadIn, Running
  <2>2. LocTyped'
    BY <1>1, <2>1 DEF LocTyped, LocalsTyped, Fields
  <2>3. MovesOn(p)
    BY <1>1, <2>1 DEF MovesOn, IInv, Swapping, Paging, LocTyped, LocalsTyped, Fields
  <2> QED
    BY <1>2, <2>2, <2>3, LocalStep
<1>5. CASE DupFails(p)
  <2>1. /\ loc' = [loc EXCEPT ![p].pc = "kalloc", ![p].call = "fault", ![p].tries = 5]
        /\ loc[p].pc = "dup"
    BY <1>5 DEF DupFails, Running
  <2>2. LocTyped'
    BY <1>1, <2>1 DEF LocTyped, LocalsTyped, Fields, Labels
  <2>3. MovesOn(p)
    BY <1>1, <2>1 DEF MovesOn, IInv, Swapping, Paging, LocTyped, LocalsTyped, Fields
  <2> QED
    BY <1>2, <2>2, <2>3, LocalStep
<1> QED
  BY <1>3, <1>4, <1>5

-----------------------------------------------------------------------------
(* Steps that take, pass on or free a slot *)

\* A free slot has no claim.
LEMMA FreeUnclaimed ==
    ASSUME Exclusive, NEW s \in Slots, s \in freeSlots
    PROVE  \A q \in Procs, w \in Claimants : ~Claim(s, q, w)
  BY DEF Exclusive

\* findFreeSlot gives slot t to what p is filling.
LEMMA SlotGiven ==
    ASSUME IInv, NEW p \in Procs, NEW t \in Slots, t \in freeSlots,
           freeSlots' = freeSlots \ {t}, UNCHANGED <<state, pte>>,
           \A q \in Procs : q # p => loc'[q] = loc[q],
           loc'[p].from = loc[p].from, loc'[p].page = loc[p].page, loc'[p].slot = t
    PROVE  Exclusive'
<1>1. \A s \in Slots, q \in Procs, w \in Claimants :
          Claim(s, q, w)' => Claim(s, q, w) \/ (s = t /\ q = p /\ w = None)
  BY DEF Claim
<1>2. \A q \in Procs, w \in Claimants : ~Claim(t, q, w)
  BY FreeUnclaimed DEF IInv
<1> QED
  BY <1>1, <1>2 DEF IInv, Exclusive

LEMMA PageOutStep == ASSUME IInv, NEW p \in Procs, PageOut(p) PROVE IInv'
<1>1. LocTyped
  BY DEF IInv, Typed
<1>2. /\ UNCHANGED <<state, sz, rss, pte, freelist>> /\ freelist' \subseteq Frames
      /\ loc[p].pc = "out"
  BY DEF PageOut, Running, table, IInv, Typed
<1>3. CASE loc' = loc
  <2>1. freeSlots' \subseteq freeSlots
    BY DEF PageOut, NoSlot, TakeSlot, SlotTaken
  <2>2. \A s \in Slots, q \in Procs, v \in Claimants : Claim(s, q, v)' => Claim(s, q, v)
    BY <1>2, <1>3 DEF Claim
  <2>3. Exclusive'
    BY <2>1, <2>2, FewerClaims DEF IInv
  <2> QED
    BY <1>2, <1>3, <2>1, <2>3 DEF IInv, Typed, LocTyped, Swapping, Forking, Paging, Unborn
<1>4. CASE loc' = [loc EXCEPT ![p].pc = "page", ![p].attempts = @ + 1,
                              ![p].va = None, ![p].pa = None]
  <2>1. LocTyped' /\ freeSlots' \subseteq freeSlots
    <3>1. LocTyped'
      BY <1>1, <1>4 DEF LocTyped, LocalsTyped, Fields, Labels
    <3>2. freeSlots' \subseteq freeSlots
      BY DEF PageOut, NoSlot, TakeSlot, SlotTaken
    <3> QED
      BY <3>1, <3>2
  <2>2. MovesOn(p)
    BY <1>1, <1>2, <1>4 DEF MovesOn, IInv, Swapping, Paging, LocTyped, LocalsTyped, Fields
  <2>3. Typed'
    BY <1>2, <2>1 DEF IInv, Typed
  <2> QED
    BY <1>2, <2>1, <2>2, <2>3, MovingOn
<1>5. CASE \E s \in Slots :
               /\ s \in freeSlots /\ freeSlots' = freeSlots \ {s}
               /\ loc' = [loc EXCEPT ![p].pc = "write", ![p].slot = s, ![p].blk = 1]
  <2>1. PICK s \in Slots :
               /\ s \in freeSlots /\ freeSlots' = freeSlots \ {s}
               /\ loc' = [loc EXCEPT ![p].pc = "write", ![p].slot = s, ![p].blk = 1]
    BY <1>5
  <2>2. LocTyped'
    BY <1>1, <2>1 DEF LocTyped, LocalsTyped, Fields, Labels
  <2>3. /\ \A q \in Procs : q # p => loc'[q] = loc[q]
        /\ loc'[p].pc = "write" /\ loc'[p].slot = s /\ loc'[p].from = loc[p].from
        /\ loc'[p].page = loc[p].page /\ loc'[p].kid = loc[p].kid
        /\ loc'[p].victim = loc[p].victim /\ loc'[p].call = loc[p].call
        /\ loc'[p].pa = loc[p].pa /\ loc'[p].va = loc[p].va
    BY <1>1, <2>1 DEF LocTyped, LocalsTyped, Fields
  <2>4. Exclusive'
    BY <1>2, <2>1, <2>3, SlotGiven
  <2>5. Swapping' /\ Forking' /\ Paging' /\ Unborn'
    BY <1>2, <2>3 DEF IInv, Swapping, Forking, Paging, Unborn
  <2>6. Typed'
    BY <1>2, <2>1, <2>2 DEF IInv, Typed
  <2> QED
    BY <2>4, <2>5, <2>6 DEF IInv
<1> QED
  BY <1>3, <1>4, <1>5 DEF PageOut, NoSlot, TakeSlot, IsFirst, SlotTaken

LEMMA SetPteStep == ASSUME PageSwapAssumption, IInv, NEW p \in Procs, SetPte(p) PROVE IInv'
<1>1. LocTyped /\ Typed
  BY DEF IInv, Typed
<1>2. loc[p].pc = "set" /\ state[p] = "live" /\ UNCHANGED <<state, sz, freeSlots>>
  BY DEF SetPte, Running, table
<1>3. CASE UNCHANGED <<rss, pte, freelist, loc>>
  BY <1>2, <1>3, Unchanged
<1>4. CASE /\ loc[p].victim # None
           /\ pte' = [pte EXCEPT ![loc[p].victim][loc[p].va] = loc[p].slot]
           /\ Rss(loc[p].victim, -1)
           /\ freelist' = freelist \cup {loc[p].pa}
           /\ loc' = [loc EXCEPT ![p].pc = "page", ![p].slot = None, ![p].pa = None,
                                 ![p].va = None, ![p].blk = 1,
                                 ![p].swapped = @ + 1, ![p].attempts = @ + 1]
  <2> DEFINE v == loc[p].victim
             t == loc[p].slot
  <2>1. /\ v \in Procs /\ state[v] \in {"live", "zombie"}
        /\ loc[p].va \in Pages /\ loc[p].pa \in Frames /\ t \in Slots \cup {None}
    BY <1>1, <1>2, <1>4 DEF IInv, Swapping, Paging, LocTyped, LocalsTyped
  <2>2. /\ \A q \in Procs : q # p => loc'[q] = loc[q]
        /\ loc'[p].pc = "page" /\ loc'[p].slot = None /\ loc'[p].from = loc[p].from
        /\ loc'[p].page = loc[p].page /\ loc'[p].kid = loc[p].kid
        /\ loc'[p].call = loc[p].call /\ loc'[p].victim = v
    BY <1>1, <1>4 DEF LocTyped, LocalsTyped, Fields
  <2>3. LocTyped'
    <3>1. LocTyped /\ LocalsTyped(loc[p])
      BY <1>1 DEF LocTyped
    <3>2. DOMAIN loc' = Procs
      BY <1>4, <3>1 DEF LocTyped
    <3>3. LocalsTyped(loc'[p])
      BY <1>4, <3>1 DEF LocTyped, LocalsTyped, Fields, Labels
    <3> QED
      BY <2>2, <3>1, <3>2, <3>3 DEF LocTyped
  <2>4. /\ pte' \in [Procs -> [Pages -> Frames \cup Slots \cup {None}]]
        /\ pte'[v][loc[p].va] = t
        /\ \A q \in Procs, w \in Pages : q # v \/ w # loc[p].va => pte'[q][w] = pte[q][w]
        /\ \A q \in Procs : q # v => pte'[q] = pte[q]
    <3>1. pte \in [Procs -> [Pages -> Frames \cup Slots \cup {None}]]
      BY <1>1 DEF Typed
    <3>2. pte' = [pte EXCEPT ![v][loc[p].va] = t]
      BY <1>4
    <3>3. pte' \in [Procs -> [Pages -> Frames \cup Slots \cup {None}]]
      BY <2>1, <3>1, <3>2
    <3> QED
      BY <2>1, <3>1, <3>2, <3>3
  <2>5. /\ rss' \in [Procs -> Nat]
        /\ \A q \in Procs : q # v => rss'[q] = rss[q]
    <3>1. rss[v] \in Nat
      BY <1>1, <2>1 DEF Typed
    <3>2. (rss[v] + -1) % RSS_MOD \in Nat
      BY <3>1 DEF PageSwapAssumption
    <3> QED
      BY <1>1, <1>4, <2>1, <3>2 DEF Typed, Rss
  <2>6. Exclusive'
    <3>1. \A s \in Slots, q \in Procs, w \in Claimants :
              Claim(s, q, w)' => \/ Claim(s, q, w) /\ ~(s = t /\ q = p /\ w = None)
                                 \/ s = t /\ q = v /\ w = loc[p].va
      <4> SUFFICES ASSUME NEW s \in Slots, NEW q \in Procs, NEW w \in Claimants, Claim(s, q, w)'
                   PROVE  \/ Claim(s, q, w) /\ ~(s = t /\ q = p /\ w = None)
                          \/ s = t /\ q = v /\ w = loc[p].va
        OBVIOUS
      <4>1. CASE w \in Pages /\ pte'[q][w] = s /\ state'[q] \in {"live", "embryo"}
        BY <1>2, <2>4, <4>1 DEF Claim, Pages, None
      <4>2. CASE loc'[q].from = s /\ loc'[q].page = w
        <5>1. Claim(s, q, w)
          BY <2>2, <4>2 DEF Claim
        <5>2. s = t /\ q = p /\ w = None => FALSE
          BY <1>1, <1>2, <2>2, <4>2 DEF IInv, Paging, Pages, None
        <5> QED
          BY <5>1, <5>2
      <4>3. CASE loc'[q].slot = s /\ w = None
        BY <2>2, <4>3 DEF Claim, Slots, None
      <4> QED
        BY <4>1, <4>2, <4>3 DEF Claim
    <3>2. t \in Slots => Claim(t, p, None) /\ None \in Claimants
      BY DEF Claim, Claimants, None
    <3> QED
      BY <1>2, <3>1, <3>2 DEF IInv, Exclusive
  <2>7. Typed'
    BY <1>1, <1>2, <1>4, <2>1, <2>3, <2>4, <2>5 DEF Typed
  <2>8. Swapping' /\ Forking' /\ Paging'
    <3>1. Swapping'
      BY <1>2, <2>1, <2>2 DEF IInv, Swapping
    <3>2. Forking'
      BY <1>2, <2>2 DEF IInv, Forking
    <3>3. Paging'
      BY <1>2, <2>2 DEF IInv, Paging
    <3> QED
      BY <3>1, <3>2, <3>3
  <2>9. Unborn'
    <3> SUFFICES ASSUME NEW q \in Procs
                 PROVE  /\ state[q] = "embryo" => rss'[q] = 0
                        /\ state[q] = "unused" => \A w \in Pages : pte'[q][w] = None
      BY <1>2 DEF Unborn
    <3>1. CASE q = v
      BY <2>1, <3>1
    <3>2. CASE q # v
      <4>1. pte'[q] = pte[q] /\ rss'[q] = rss[q]
        BY <2>4, <2>5, <3>2
      <4> QED
        BY <4>1 DEF IInv, Unborn
    <3> QED
      BY <3>1, <3>2
  <2> QED
    BY <2>6, <2>7, <2>8, <2>9 DEF IInv
<1> QED
  BY <1>3, <1>4 DEF SetPte

\* A fault and fork come to the slot of a page through the page table.
LEMMA FaultStep ==
    ASSUME PageSwapAssumption, "stray" \notin Calls, IInv, NEW p \in Procs, NEW v \in Pages,
           Fault(p, v)
    PROVE  IInv'
<1>1. LocTyped
  BY DEF IInv, Typed
<1>2. pte[p][v] # None /\ pte[p][v] \in Slots /\ state[p] = "live" /\ loc[p].pc = "user"
  BY DEF Fault, SlotIndex, Running
<1>3. loc' = [loc EXCEPT ![p].pc = "kalloc", ![p].call = "fault", ![p].tries = 5,
                         ![p].page = v, ![p].from = pte[p][v]]
  BY <1>2 DEF Fault, SlotIndex
<1>4. v \in Nat
  BY DEF Pages, PageSwapAssumption
<1>5. LocTyped'
  BY <1>1, <1>2, <1>3, <1>4 DEF LocTyped, LocalsTyped, Fields, Labels
<1>6. loc[p].victim = None
  BY <1>2 DEF IInv, Swapping
<1>7. MovesOn(p)
  BY <1>1, <1>2, <1>3, <1>6 DEF MovesOn, LocTyped, LocalsTyped, Fields, Slots, None
<1>8. UNCHANGED <<state, sz, rss, pte, freeSlots>> /\ freelist' \subseteq Frames
  BY DEF Fault, table, store, IInv, Typed
<1> QED
  BY <1>5, <1>7, <1>8, LocalStep

LEMMA CopyPageStep ==
    ASSUME PageSwapAssumption, IInv, NEW p \in Procs, CopyPage(p) PROVE IInv'
<1> DEFINE v == loc[p].page
<1>1. LocTyped
  BY DEF IInv, Typed
<1>2. /\ state[p] = "live" /\ loc[p].pc = "pages" /\ v <= sz[p]
      /\ UNCHANGED <<state, sz, rss, pte, freeSlots>> /\ freelist' \subseteq Frames
  BY DEF CopyPage, Running, table, store, IInv, Typed
<1>3. v \in Pages /\ v \in Nat
  <2>1. v \in Nat /\ v # 0 /\ sz[p] \in 0..MaxPages
    BY <1>1, <1>2 DEF IInv, Typed, LocTyped, LocalsTyped, Paging, None
  <2> QED
    BY <1>2, <2>1 DEF Pages, PageSwapAssumption
<1>4. loc[p].victim = None
  BY <1>2 DEF IInv, Swapping
<1>5. CASE /\ pte[p][v] \in Frames
           /\ loc' = [loc EXCEPT ![p].pc = "kalloc", ![p].call = "copy", ![p].tries = 8,
                                 ![p].from = pte[p][v]]
  <2>1. pte[p][v] \notin Slots
    BY <1>5 DEF PageSwapAssumption, Slots
  <2>2. LocTyped'
    BY <1>1, <1>5 DEF LocTyped, LocalsTyped, Fields, Labels
  <2>3. MovesOn(p)
    BY <1>1, <1>4, <1>5, <2>1 DEF MovesOn, LocTyped, LocalsTyped, Fields
  <2> QED
    BY <1>2, <2>2, <2>3, LocalStep
<1>6. CASE /\ pte[p][v] \in Slots
           /\ loc' = [loc EXCEPT ![p].pc = "dup", ![p].tries = 2, ![p].from = pte[p][v]]
  <2>1. LocTyped'
    BY <1>1, <1>6 DEF LocTyped, LocalsTyped, Fields, Labels
  <2>2. MovesOn(p)
    BY <1>1, <1>2, <1>3, <1>4, <1>6 DEF MovesOn, IInv, Paging, LocTyped, LocalsTyped, Fields
  <2> QED
    BY <1>2, <2>1, <2>2, LocalStep
<1>7. CASE loc' = [loc EXCEPT ![p].page = v + 1] /\ pte[p][v] \notin Slots
  <2>1. v + 1 \in Nat /\ v + 1 # None
    BY <1>3 DEF None
  <2>2. LocTyped'
    BY <1>1, <1>7, <2>1 DEF LocTyped, LocalsTyped, Fields, Labels
  <2>3. MovesOn(p)
    BY <1>1, <1>2, <1>4, <1>7, <2>1 DEF MovesOn, IInv, Paging, LocTyped, LocalsTyped, Fields
  <2> QED
    BY <1>2, <2>2, <2>3, LocalStep
<1> QED
  BY <1>5, <1>6, <1>7 DEF CopyPage

LEMMA DupSlotStep ==
    ASSUME IInv, NEW p \in Procs, NEW s \in Slots, DupSlot(p, s) PROVE IInv'
<1>1. LocTyped
  BY DEF IInv, Typed
<1>2. /\ UNCHANGED <<state, sz, rss, pte, freelist>> /\ loc[p].pc = "dup"
      /\ s \in freeSlots /\ freeSlots' = freeSlots \ {s}
  BY DEF DupSlot, Running, table, IsFirst, SlotTaken
<1>3. loc' = [loc EXCEPT ![p].pc = "dupcopy", ![p].slot = s, ![p].tries = 0, ![p].blk = 1]
  BY DEF DupSlot
<1>4. LocTyped'
  BY <1>1, <1>3 DEF LocTyped, LocalsTyped, Fields, Labels
<1>5. /\ \A q \in Procs : q # p => loc'[q] = loc[q]
      /\ loc'[p].pc = "dupcopy" /\ loc'[p].slot = s /\ loc'[p].from = loc[p].from
      /\ loc'[p].page = loc[p].page /\ loc'[p].kid = loc[p].kid
      /\ loc'[p].victim = loc[p].victim /\ loc'[p].call = loc[p].call
  BY <1>1, <1>3 DEF LocTyped, LocalsTyped, Fields
<1>6. Exclusive'
  BY <1>2, <1>5, SlotGiven
<1>7. Swapping'
  <2>1. loc[p].victim = None
    BY <1>2 DEF IInv, Swapping
  <2> QED
    BY <1>2, <1>5, <2>1 DEF IInv, Swapping
<1>8. Forking'
  BY <1>2, <1>5 DEF IInv, Forking
<1>9. Paging'
  BY <1>2, <1>5 DEF IInv, Paging
<1>10. Unborn' /\ Typed'
  BY <1>2, <1>4 DEF IInv, Unborn, Typed
<1> QED
  BY <1>6, <1>7, <1>8, <1>9, <1>10 DEF IInv

-----------------------------------------------------------------------------
(* Steps that end a call *)

\* A process is done with its call, or is where it was, perhaps short of its victim.
Returned(q) == loc'[q] \in {AtRest, Rest("wait"), Rest("exit")}
Stayed(q) == /\ sz'[q] <= sz[q]
             /\ loc'[q].pc = loc[q].pc /\ loc'[q].call = loc[q].call
             /\ loc'[q].from = loc[q].from /\ loc'[q].page = loc[q].page
             /\ loc'[q].slot = loc[q].slot /\ loc'[q].kid = loc[q].kid
             /\ loc'[q].pa = loc[q].pa /\ loc'[q].va = loc[q].va
             /\ loc'[q].victim \in {loc[q].victim, None}

LEMMA Rested ==
    ASSUME PageSwapAssumption, NEW q, Returned(q)
    PROVE  /\ LocalsTyped(loc'[q])
           /\ loc'[q].pc \in {"user", "wait", "exit"} /\ loc'[q].call = "none"
           /\ loc'[q].from = None /\ loc'[q].slot = None
           /\ loc'[q].victim = None /\ loc'[q].kid = None
<1>1. \A l \in {AtRest, Rest("wait"), Rest("exit")} :
          /\ LocalsTyped(l) /\ l.pc \in {"user", "wait", "exit"} /\ l.call = "none"
          /\ l.from = None /\ l.slot = None /\ l.victim = None /\ l.kid = None
  BY DEF AtRest, Rest, LocalsTyped, Fields, Labels, None
<1> QED
  BY <1>1 DEF Returned

LEMMA ReturnStep ==
    ASSUME PageSwapAssumption, IInv, Typed', Unborn',
           \A q \in Procs : Returned(q) \/ Stayed(q),
           \A q \in Procs, v \in Pages :
               state'[q] \in {"live", "embryo"} /\ pte'[q][v] \in Slots =>
                   state[q] \in {"live", "embryo"} /\ pte[q][v] = pte'[q][v],
           \A s \in Slots : s \in freeSlots' =>
               s \in freeSlots \/ \A q \in Procs, v \in Claimants : ~Claim(s, q, v)',
           \A q \in Procs :
               /\ loc'[q].victim # None => state'[loc'[q].victim] \in {"live", "zombie"}
               /\ loc'[q].kid # None => state'[loc'[q].kid] = "embryo"
    PROVE  IInv'
<1>1. \A q \in Procs : Returned(q) =>
          /\ loc'[q].pc \in {"user", "wait", "exit"} /\ loc'[q].call = "none"
          /\ loc'[q].from = None /\ loc'[q].slot = None
          /\ loc'[q].victim = None /\ loc'[q].kid = None
  BY Rested
<1>2. \A s \in Slots, q \in Procs, v \in Claimants : Claim(s, q, v)' => Claim(s, q, v)
  <2> SUFFICES ASSUME NEW s \in Slots, NEW q \in Procs, NEW v \in Claimants, Claim(s, q, v)'
               PROVE  Claim(s, q, v)
    OBVIOUS
  <2>1. CASE v \in Pages /\ state'[q] \in {"live", "embryo"} /\ pte'[q][v] = s
    BY <2>1 DEF Claim
  <2>2. CASE \/ loc'[q].from = s /\ loc'[q].page = v
             \/ loc'[q].slot = s /\ v = None
    BY <1>1, <2>2 DEF Claim, Stayed, Slots, None
  <2> QED
    BY <2>1, <2>2 DEF Claim
<1>3. Exclusive'
  BY <1>2 DEF IInv, Exclusive
<1>4. Swapping'
  <2> SUFFICES ASSUME NEW q \in Procs
               PROVE  /\ loc'[q].victim # None =>
                             /\ state'[loc'[q].victim] \in {"live", "zombie"}
                             /\ loc'[q].pc \in {"page", "out", "write", "set"}
                      /\ loc'[q].pc \in {"out", "write", "set"} =>
                             loc'[q].pa \in Frames /\ loc'[q].va \in Pages
    BY DEF Swapping
  <2>1. CASE Returned(q)
    BY <1>1, <2>1
  <2>2. CASE Stayed(q)
    BY <2>2 DEF IInv, Swapping, Stayed
  <2> QED
    BY <2>1, <2>2
<1>5. Forking'
  BY <1>1 DEF IInv, Forking, Stayed
<1>6. Paging'
  <2> SUFFICES ASSUME NEW q \in Procs
               PROVE  /\ loc'[q].from \in Slots => loc'[q].page \in Pages
                      /\ loc'[q].pc = "pages" => loc'[q].page # None
                      /\ loc'[q].pc \in {"user", "pages"} => loc'[q].from \notin Slots
                      /\ "grow" \in {loc'[q].pc, loc'[q].call} => sz'[q] < MaxPages
    BY DEF Paging
  <2>1. CASE Returned(q)
    <3>1. /\ loc'[q].pc \in {"user", "wait", "exit"} /\ loc'[q].call = "none"
          /\ loc'[q].from = None
      BY <1>1, <2>1
    <3>2. None \notin Slots
      BY DEF Slots, None
    <3> QED
      BY <3>1, <3>2
  <2>2. CASE Stayed(q)
    <3>1. sz[q] \in Nat /\ sz'[q] \in Nat /\ MaxPages \in Nat
      BY DEF IInv, Typed, PageSwapAssumption
    <3>2. sz[q] < MaxPages => sz'[q] < MaxPages
      BY <2>2, <3>1 DEF Stayed
    <3> QED
      BY <2>2, <3>2 DEF IInv, Paging, Stayed
  <2> QED
    BY <2>1, <2>2
<1> QED
  BY <1>3, <1>4, <1>5, <1>6 DEF IInv

\* p->rss stays a number, and others keep theirs.
LEMMA RssTyped ==
    ASSUME PageSwapAssumption, Typed, NEW p \in Procs, NEW n \in Int, Rss(p, n)
    PROVE  rss' \in [Procs -> Nat] /\ \A q \in Procs : q # p => rss'[q] = rss[q]
<1>1. rss[p] \in Nat
  BY DEF Typed
<1>2. (rss[p] + n) % RSS_MOD \in Nat
  BY <1>1 DEF PageSwapAssumption
<1> QED
  BY <1>2 DEF Typed, Rss

LEMMA CutStays ==
    ASSUME PageSwapAssumption, LocTyped, NEW p \in Procs, NEW z \in Procs, NEW pcs,
           loc' = Cut([loc EXCEPT ![p] = AtRest], z, pcs), \A q \in Procs : q # p => sz'[q] <= sz[q]
    PROVE  LocTyped' /\ (\A q \in Procs : Returned(q) \/ Stayed(q)) /\ Returned(p)
<1> DEFINE l == [loc EXCEPT ![p] = AtRest]
<1>1. DOMAIN l = Procs /\ l[p] = AtRest /\ \A q \in Procs : q # p => l[q] = loc[q]
  BY DEF LocTyped
<1>2. DOMAIN loc' = Procs /\ \A q \in Procs : loc'[q] = IF l[q].victim = z /\ l[q].pc \in pcs
                                         THEN [l[q] EXCEPT !.victim = None] ELSE l[q]
  BY DEF Cut
<1>3. AtRest.victim = None /\ z # None
  BY DEF AtRest, None, PageSwapAssumption
<1>4. Returned(p)
  BY <1>1, <1>2, <1>3 DEF Returned
<1>5. \A q \in Procs : q # p => LocalsTyped(loc'[q]) /\ Stayed(q)
  <2> SUFFICES ASSUME NEW q \in Procs, q # p PROVE LocalsTyped(loc'[q]) /\ Stayed(q)
    OBVIOUS
  <2>1. LocalsTyped(loc[q])
    BY DEF LocTyped
  <2>2. CASE loc[q].victim = z /\ loc[q].pc \in pcs
    <3>1. loc'[q] = [loc[q] EXCEPT !.victim = None]
      BY <1>1, <1>2, <2>2
    <3> QED
      BY <2>1, <2>2, <3>1 DEF LocalsTyped, Fields, Stayed
  <2>3. CASE ~(loc[q].victim = z /\ loc[q].pc \in pcs)
    <3>1. loc'[q] = loc[q]
      BY <1>1, <1>2, <2>3
    <3> QED
      BY <2>1, <2>3, <3>1 DEF Stayed
  <2> QED
    BY <2>2, <2>3
<1>6. LocalsTyped(loc'[p])
  BY <1>4, Rested
<1> QED
  BY <1>2, <1>4, <1>5, <1>6 DEF LocTyped

\* The same where nobody loses a victim.
LEMMA RestStays ==
    ASSUME PageSwapAssumption, LocTyped, NEW p \in Procs,
           NEW l \in {AtRest, Rest("wait"), Rest("exit")},
           loc' = [loc EXCEPT ![p] = l], \A q \in Procs : q # p => sz'[q] <= sz[q]
    PROVE  /\ LocTyped' /\ \A q \in Procs : Returned(q) \/ Stayed(q)
           /\ Returned(p) /\ \A q \in Procs : q # p => loc'[q] = loc[q]
<1>1. /\ DOMAIN loc' = Procs /\ Returned(p)
      /\ \A q \in Procs : q # p => loc'[q] = loc[q] /\ Stayed(q)
  BY DEF LocTyped, Returned, Stayed
<1> QED
  BY <1>1, Rested DEF LocTyped

LEMMA ShrinkStep == ASSUME PageSwapAssumption, IInv, NEW p \in Procs, Shrink(p) PROVE IInv'
<1>1. Typed /\ LocTyped /\ sz[p] \in Nat /\ sz[p] > 1
  BY DEF IInv, Typed, Shrink
<1>2. UNCHANGED <<state, freeSlots, loc>> /\ sz' = [sz EXCEPT ![p] = @ - 1] /\ state[p] = "live"
  BY DEF Shrink, Calling, Running
<1>3. PICK t \in [Pages -> Frames \cup Slots \cup {None}] :
          /\ pte' = [pte EXCEPT ![p] = t]
          /\ \A v \in Pages : t[v] \in Slots => t[v] = pte[p][v]
  <2>1. CASE pte' = pte
    <3>1. pte[p] \in [Pages -> Frames \cup Slots \cup {None}]
      BY <1>1 DEF Typed
    <3>2. pte' = [pte EXCEPT ![p] = pte[p]]
      BY <1>1, <2>1 DEF Typed
    <3> QED
      BY <3>1, <3>2
  <2>2. CASE pte' = [pte EXCEPT ![p][sz[p]] = None]
    <3> DEFINE u == [pte[p] EXCEPT ![sz[p]] = None]
    <3>1. u \in [Pages -> Frames \cup Slots \cup {None}]
      BY <1>1 DEF Typed
    <3>2. \A v \in Pages : u[v] \in Slots => u[v] = pte[p][v]
      BY <1>1 DEF Typed, Slots, None
    <3>3. pte' = [pte EXCEPT ![p] = u]
      BY <1>1, <2>2 DEF Typed
    <3> QED
      BY <3>1, <3>2, <3>3
  <2> QED
    BY <2>1, <2>2 DEF Shrink
<1>4. /\ pte' \in [Procs -> [Pages -> Frames \cup Slots \cup {None}]]
      /\ \A q \in Procs, v \in Pages : pte'[q][v] \in Slots => pte[q][v] = pte'[q][v]
      /\ \A q \in Procs : q # p => pte'[q] = pte[q]
  BY <1>1, <1>3 DEF Typed
<1>5. sz' \in [Procs -> 0..MaxPages] /\ \A q \in Procs : sz'[q] <= sz[q]
  BY <1>1, <1>2 DEF Typed, PageSwapAssumption
<1>6. rss' \in [Procs -> Nat] /\ \A q \in Procs : q # p => rss'[q] = rss[q]
  BY <1>1, RssTyped DEF Shrink
<1>7. freelist' \subseteq Frames
  BY <1>1 DEF Shrink, Typed
<1>8. Typed'
  BY <1>1, <1>2, <1>4, <1>5, <1>6, <1>7 DEF Typed, LocTyped
<1>9. \A q \in Procs : Stayed(q)
  BY <1>2, <1>5 DEF Stayed
<1>10. Unborn'
  BY <1>2, <1>4, <1>6 DEF IInv, Unborn
<1> QED
  <2>1. \A q \in Procs :
            loc'[q].victim # None => state'[loc'[q].victim] \in {"live", "zombie"}
    BY <1>2 DEF IInv, Swapping
  <2>2. \A q \in Procs : loc'[q].kid # None => state'[loc'[q].kid] = "embryo"
    BY <1>2 DEF IInv, Forking
  <2>3. \A q \in Procs, v \in Pages :
            state'[q] \in {"live", "embryo"} /\ pte'[q][v] \in Slots =>
                state[q] \in {"live", "embryo"} /\ pte[q][v] = pte'[q][v]
    BY <1>2, <1>4
  <2>4. freeSlots' = freeSlots
    BY <1>2
  <2> QED
    BY <1>8, <1>9, <1>10, <2>1, <2>2, <2>3, <2>4, ReturnStep

LEMMA GrowMapStep == ASSUME PageSwapAssumption, IInv, NEW p \in Procs, GrowMap(p) PROVE IInv'
<1>1. Typed /\ LocTyped /\ sz[p] \in 0..MaxPages /\ sz[p] + 1 \in Pages
  <2>1. Typed /\ LocTyped /\ sz[p] \in 0..MaxPages /\ loc[p].pc = "grow"
    BY DEF IInv, Typed, GrowMap, Running
  <2>2. sz[p] < MaxPages
    BY <2>1 DEF IInv, Paging
  <2> QED
    BY <2>1, <2>2 DEF Pages, PageSwapAssumption
<1>2. UNCHANGED <<state, freeSlots, freelist>> /\ state[p] = "live"
  BY DEF GrowMap, Running
<1>3. CASE UNCHANGED <<sz, rss, pte, loc>>
  BY <1>2, <1>3, Unchanged
<1>4. CASE /\ pte' = [pte EXCEPT ![p][sz[p] + 1] = loc[p].frame]
           /\ Rss(p, 1) /\ sz' = [sz EXCEPT ![p] = sz[p] + 1]
           /\ loc' = [loc EXCEPT ![p] = AtRest]
  <2>1. loc[p].frame \in Frames \cup {None} /\ loc[p].frame \notin Slots
    BY <1>1 DEF LocTyped, LocalsTyped, PageSwapAssumption, Slots, None
  <2>2. /\ pte' \in [Procs -> [Pages -> Frames \cup Slots \cup {None}]]
        /\ \A q \in Procs, v \in Pages : pte'[q][v] \in Slots => pte[q][v] = pte'[q][v]
        /\ \A q \in Procs : q # p => pte'[q] = pte[q]
    BY <1>1, <1>4, <2>1 DEF Typed
  <2>3. sz' \in [Procs -> 0..MaxPages] /\ \A q \in Procs : q # p => sz'[q] <= sz[q]
    BY <1>1, <1>4 DEF Typed, Pages
  <2>4. rss' \in [Procs -> Nat] /\ \A q \in Procs : q # p => rss'[q] = rss[q]
    BY <1>1, <1>4, RssTyped
  <2>5. /\ LocTyped' /\ \A q \in Procs : Returned(q) \/ Stayed(q)
        /\ Returned(p) /\ \A q \in Procs : q # p => loc'[q] = loc[q]
    BY <1>1, <1>4, <2>3, RestStays
  <2>6. loc'[p].victim = None /\ loc'[p].kid = None
    BY <2>5, Rested
  <2>7. Typed' /\ Unborn'
    <3>1. Typed'
      BY <1>1, <1>2, <2>2, <2>3, <2>4, <2>5 DEF Typed
    <3>2. Unborn'
      BY <1>2, <2>2, <2>4 DEF IInv, Unborn
    <3> QED
      BY <3>1, <3>2
  <2> QED
    <3>1. \A q \in Procs :
              /\ loc'[q].victim # None => state'[loc'[q].victim] \in {"live", "zombie"}
              /\ loc'[q].kid # None => state'[loc'[q].kid] = "embryo"
      BY <1>2, <2>5, <2>6 DEF IInv, Swapping, Forking
    <3> QED
      BY <1>2, <2>2, <2>5, <2>7, <3>1, ReturnStep
<1> QED
  BY <1>3, <1>4 DEF GrowMap

LEMMA ExecCommitStep ==
    ASSUME PageSwapAssumption, IInv, NEW p \in Procs, ExecCommit(p) PROVE IInv'
<1>1. Typed /\ LocTyped
  BY DEF IInv, Typed
<1>2. /\ UNCHANGED <<state, freeSlots>> /\ state[p] = "live"
      /\ pte' = [pte EXCEPT ![p] = [v \in Pages |-> IF v = 1 THEN loc[p].frame ELSE None]]
      /\ sz' = [sz EXCEPT ![p] = 1] /\ rss' = [rss EXCEPT ![p] = 1]
      /\ loc' = Cut([loc EXCEPT ![p] = AtRest], p, {"out", "write", "set"})
      /\ freelist' = freelist \cup FramesOf(p)
  BY DEF ExecCommit, Running
<1>3. loc[p].frame \in Frames \cup {None} /\ loc[p].frame \notin Slots /\ None \notin Slots
  BY <1>1 DEF LocTyped, LocalsTyped, PageSwapAssumption, Slots, None
<1>4. /\ pte' \in [Procs -> [Pages -> Frames \cup Slots \cup {None}]]
      /\ \A q \in Procs, v \in Pages : pte'[q][v] \in Slots => pte[q][v] = pte'[q][v]
      /\ \A q \in Procs : q # p => pte'[q] = pte[q]
  BY <1>1, <1>2, <1>3 DEF Typed
<1>5. /\ sz' \in [Procs -> 0..MaxPages] /\ \A q \in Procs : q # p => sz'[q] <= sz[q]
      /\ rss' \in [Procs -> Nat] /\ \A q \in Procs : q # p => rss'[q] = rss[q]
  BY <1>1, <1>2 DEF Typed, PageSwapAssumption
<1>6. LocTyped' /\ (\A q \in Procs : Returned(q) \/ Stayed(q)) /\ Returned(p)
  BY <1>1, <1>2, <1>5, CutStays
<1>7. loc'[p].victim = None /\ loc'[p].kid = None
  BY <1>6, Rested
<1>8. \A q \in Procs : /\ loc'[q].kid \in {loc[q].kid, None}
                       /\ loc'[q].victim \in {loc[q].victim, None}
  BY <1>6, Rested DEF Stayed
<1>9. freelist' \subseteq Frames
  BY <1>1, <1>2 DEF Typed, FramesOf, Resident
<1>10. Typed' /\ Unborn'
  BY <1>1, <1>2, <1>4, <1>5, <1>6, <1>9 DEF Typed, IInv, Unborn
<1>11. \A q \in Procs :
           /\ loc'[q].victim # None => state'[loc'[q].victim] \in {"live", "zombie"}
           /\ loc'[q].kid # None => state'[loc'[q].kid] = "embryo"
  BY <1>2, <1>6, <1>7, <1>8 DEF IInv, Swapping, Forking
<1>12. \A q \in Procs, v \in Pages :
           state'[q] \in {"live", "embryo"} /\ pte'[q][v] \in Slots =>
               state[q] \in {"live", "embryo"} /\ pte[q][v] = pte'[q][v]
  BY <1>2, <1>4
<1> QED
  BY <1>2, <1>6, <1>10, <1>11, <1>12, ReturnStep

LEMMA ExitStep == ASSUME PageSwapAssumption, IInv, NEW p \in Procs, Exit(p) PROVE IInv'
<1>1. Typed /\ LocTyped
  BY DEF IInv, Typed
<1>2. /\ UNCHANGED <<sz, rss, pte, freelist>> /\ state[p] = "live"
      /\ state' = [state EXCEPT ![p] = "zombie"]
      /\ freeSlots' = freeSlots \cup SlotsOf(p)
      /\ loc' = [loc EXCEPT ![p] = AtRest]
  BY DEF Exit, Running
<1>3. /\ state' \in [Procs -> {"unused", "embryo", "live", "zombie"}] /\ state'[p] = "zombie"
      /\ \A q \in Procs : q # p => state'[q] = state[q]
  BY <1>1, <1>2 DEF Typed
<1>4. \A q \in Procs : sz'[q] <= sz[q]
  BY <1>1, <1>2 DEF Typed, PageSwapAssumption
<1>5. /\ LocTyped' /\ \A q \in Procs : Returned(q) \/ Stayed(q)
      /\ Returned(p) /\ \A q \in Procs : q # p => loc'[q] = loc[q]
  BY <1>1, <1>2, <1>4, RestStays
<1>6. /\ loc'[p].victim = None /\ loc'[p].kid = None
      /\ loc'[p].from = None /\ loc'[p].slot = None
  BY <1>5, Rested
<1>7. Typed' /\ Unborn'
  BY <1>1, <1>2, <1>3, <1>5 DEF Typed, IInv, Unborn
<1>8. \A s \in Slots : s \in freeSlots' =>
          s \in freeSlots \/ \A q \in Procs, v \in Claimants : ~Claim(s, q, v)'
  <2> SUFFICES ASSUME NEW s \in Slots, s \in SlotsOf(p),
                      NEW q \in Procs, NEW v \in Claimants, Claim(s, q, v)'
               PROVE  FALSE
    BY <1>2
  <2>1. PICK w \in Pages : pte[p][w] = s
    BY DEF SlotsOf
  <2>2. Claim(s, p, w) /\ w \in Claimants
    BY <1>2, <2>1 DEF Claim, Claimants, Pages, PageSwapAssumption
  <2>3. q # p
    BY <1>3, <1>6 DEF Claim, Slots, None
  <2>4. Claim(s, q, v)
    BY <1>2, <1>3, <1>5, <2>3 DEF Claim
  <2> QED
    BY <2>2, <2>3, <2>4 DEF IInv, Exclusive
<1>9. \A q \in Procs :
               /\ loc'[q].victim # None => state'[loc'[q].victim] \in {"live", "zombie"}
               /\ loc'[q].kid # None => state'[loc'[q].kid] = "embryo"
  <2> SUFFICES ASSUME NEW q \in Procs, q # p
               PROVE  /\ loc[q].victim # None => state'[loc[q].victim] \in {"live", "zombie"}
                      /\ loc[q].kid # None => state'[loc[q].kid] = "embryo"
    BY <1>5, <1>6
  <2>1. loc[q].victim \in Procs \cup {None} /\ loc[q].kid \in Procs \cup {None}
    BY <1>1 DEF LocTyped, LocalsTyped
  <2>2. loc[q].victim # None => state'[loc[q].victim] \in {"live", "zombie"}
    BY <1>3, <2>1 DEF IInv, Swapping
  <2>3. loc[q].kid # None => state[loc[q].kid] = "embryo" /\ loc[q].kid # p
    BY <1>2 DEF IInv, Forking
  <2> QED
    BY <1>3, <2>1, <2>2, <2>3
<1> QED
  BY <1>2, <1>3, <1>5, <1>7, <1>8, <1>9, ReturnStep

\* A page table goes with its pages.
LEMMA TableGone ==
    ASSUME PageSwapAssumption, IInv, NEW z \in Procs, state[z] \in {"embryo", "zombie"},
           pte' = [pte EXCEPT ![z] = [v \in Pages |-> None]],
           state' = [state EXCEPT ![z] = "unused"], Freevm(FramesOf(z)), UNCHANGED <<sz, rss>>,
           LocTyped'
    PROVE  /\ Typed' /\ Unborn'
           /\ state'[z] = "unused" /\ \A q \in Procs : q # z => state'[q] = state[q]
           /\ \A q \in Procs, v \in Pages :
                  state'[q] \in {"live", "embryo"} /\ pte'[q][v] \in Slots =>
                      state[q] \in {"live", "embryo"} /\ pte[q][v] = pte'[q][v]
<1>1. Typed
  BY DEF IInv
<1>2. /\ state' \in [Procs -> {"unused", "embryo", "live", "zombie"}]
      /\ state'[z] = "unused" /\ \A q \in Procs : q # z => state'[q] = state[q]
  BY <1>1 DEF Typed
<1>3. /\ pte' \in [Procs -> [Pages -> Frames \cup Slots \cup {None}]]
      /\ \A q \in Procs : q # z => pte'[q] = pte[q]
      /\ \A v \in Pages : pte'[z][v] = None
  BY <1>1 DEF Typed
<1>4. freelist' \subseteq Frames
  BY <1>1 DEF Typed, Freevm, FramesOf, Resident
<1>5. Typed' /\ Unborn'
  BY <1>1, <1>2, <1>3, <1>4 DEF Typed, IInv, Unborn
<1> QED
  BY <1>2, <1>3, <1>5

LEMMA WaitStep ==
    ASSUME PageSwapAssumption, IInv, NEW p \in Procs, NEW z \in Procs, Wait(p, z) PROVE IInv'
<1>1. Typed /\ LocTyped /\ p # z
  BY DEF IInv, Typed, Wait, Running
<1>2. /\ UNCHANGED <<sz, rss, freeSlots>> /\ state[z] = "zombie"
      /\ pte' = [pte EXCEPT ![z] = [v \in Pages |-> None]]
      /\ state' = [state EXCEPT ![z] = "unused"] /\ Freevm(FramesOf(z))
      /\ loc' = Cut([loc EXCEPT ![p] = AtRest], z, {"page", "out", "write", "set"})
  BY DEF Wait
<1>3. \A q \in Procs : sz'[q] <= sz[q]
  BY <1>1, <1>2 DEF Typed, PageSwapAssumption
<1>4. /\ LocTyped' /\ (\A q \in Procs : Returned(q) \/ Stayed(q)) /\ Returned(p)
      /\ \A q \in Procs : loc'[q].victim = z => loc'[q].pc \notin {"page", "out", "write", "set"}
  <2>1. LocTyped' /\ (\A q \in Procs : Returned(q) \/ Stayed(q)) /\ Returned(p)
    BY <1>1, <1>2, <1>3, CutStays
  <2>2. \A q \in Procs : loc'[q].victim = z => loc'[q].pc \notin {"page", "out", "write", "set"}
    <3> SUFFICES ASSUME NEW q \in Procs, loc'[q].victim = z
                 PROVE  loc'[q].pc \notin {"page", "out", "write", "set"}
      OBVIOUS
    <3>1. z # None
      BY DEF None, PageSwapAssumption
    <3>2. q # p
      BY <2>1, <3>1, Rested
    <3> DEFINE l == [loc EXCEPT ![p] = AtRest]
    <3>3. l[q] = loc[q] /\ loc' = Cut(l, z, {"page", "out", "write", "set"})
      BY <1>1, <1>2, <3>2 DEF LocTyped
    <3> HIDE DEF l
    <3>4. loc'[q] = IF loc[q].victim = z /\ loc[q].pc \in {"page", "out", "write", "set"}
                    THEN [loc[q] EXCEPT !.victim = None] ELSE loc[q]
      BY <3>3 DEF Cut
    <3>5. LocalsTyped(loc[q])
      BY <1>1 DEF LocTyped
    <3> QED
      BY <3>1, <3>4, <3>5 DEF LocalsTyped, Fields
  <2> QED
    BY <2>1, <2>2
<1>5. /\ Typed' /\ Unborn'
      /\ state'[z] = "unused" /\ \A q \in Procs : q # z => state'[q] = state[q]
      /\ \A q \in Procs, v \in Pages :
             state'[q] \in {"live", "embryo"} /\ pte'[q][v] \in Slots =>
                 state[q] \in {"live", "embryo"} /\ pte[q][v] = pte'[q][v]
  BY <1>2, <1>4, TableGone
<1>6. \A q \in Procs : loc'[q].kid # None => state'[loc'[q].kid] = "embryo"
  <2> SUFFICES ASSUME NEW q \in Procs, loc'[q].kid # None PROVE state'[loc'[q].kid] = "embryo"
    OBVIOUS
  <2>1. loc'[q].kid = loc[q].kid
    <3>1. ~Returned(q)
      BY Rested
    <3> QED
      BY <1>4, <3>1 DEF Stayed
  <2>2. loc[q].kid \in Procs /\ state[loc[q].kid] = "embryo"
    BY <1>1, <2>1 DEF LocTyped, LocalsTyped, IInv, Forking
  <2> QED
    BY <1>2, <1>5, <2>1, <2>2
<1>7. \A q \in Procs : loc'[q].victim # None => state'[loc'[q].victim] \in {"live", "zombie"}
  <2> SUFFICES ASSUME NEW q \in Procs, loc'[q].victim # None
               PROVE  state'[loc'[q].victim] \in {"live", "zombie"}
    OBVIOUS
  <2>1. loc'[q].victim = loc[q].victim /\ loc'[q].pc = loc[q].pc
    <3>1. ~Returned(q)
      BY Rested
    <3> QED
      BY <1>4, <3>1 DEF Stayed
  <2>2. loc[q].victim \in Procs
    BY <1>1, <2>1 DEF LocTyped, LocalsTyped
  <2>3. /\ state[loc[q].victim] \in {"live", "zombie"}
        /\ loc[q].pc \in {"page", "out", "write", "set"}
    BY <2>1 DEF IInv, Swapping
  <2>4. loc[q].victim # z
    BY <1>4, <2>1, <2>3
  <2>5. state'[loc[q].victim] = state[loc[q].victim]
    BY <1>5, <2>2, <2>4
  <2> QED
    BY <2>1, <2>3, <2>5
<1> QED
  BY <1>2, <1>4, <1>5, <1>6, <1>7, ReturnStep

LEMMA KallocFailsStep ==
    ASSUME PageSwapAssumption, IInv, NEW p \in Procs, KallocFails(p) PROVE IInv'
<1>1. Typed /\ LocTyped
  BY DEF IInv, Typed
<1>2. /\ UNCHANGED <<sz, rss, freeSlots>>
      /\ \A q \in Procs : sz'[q] <= sz[q]
  BY <1>1 DEF KallocFails, Typed, PageSwapAssumption
<1>3. CASE /\ loc[p].kid = None /\ UNCHANGED <<state, pte, freelist>>
           /\ loc' = [loc EXCEPT ![p] = IF loc[p].call = "fault" THEN Rest("exit") ELSE AtRest]
  <2>1. PICK l \in {AtRest, Rest("wait"), Rest("exit")} : loc' = [loc EXCEPT ![p] = l]
    BY <1>3
  <2>2. /\ LocTyped' /\ (\A q \in Procs : Returned(q) \/ Stayed(q))
        /\ Returned(p) /\ \A q \in Procs : q # p => loc'[q] = loc[q]
    BY <1>1, <1>2, <2>1, RestStays
  <2>3. loc'[p].victim = None /\ loc'[p].kid = None
    BY <2>2, Rested
  <2>4. Typed' /\ Unborn'
    BY <1>1, <1>2, <1>3, <2>2 DEF Typed, IInv, Unborn
  <2> QED
    <3>1. \A q \in Procs :
              /\ loc'[q].victim # None => state'[loc'[q].victim] \in {"live", "zombie"}
              /\ loc'[q].kid # None => state'[loc'[q].kid] = "embryo"
      BY <1>3, <2>2, <2>3 DEF IInv, Swapping, Forking
    <3> QED
      BY <1>2, <1>3, <2>2, <2>4, <3>1, ReturnStep
<1>4. CASE LET kid == loc[p].kid
           IN  /\ kid # None /\ Freevm(FramesOf(kid))
               /\ pte' = [pte EXCEPT ![kid] = [v \in Pages |-> None]]
               /\ state' = [state EXCEPT ![kid] = "unused"]
               /\ loc' = [loc EXCEPT ![p] = AtRest]
  <2> DEFINE kid == loc[p].kid
  <2>1. kid \in Procs /\ state[kid] = "embryo"
    BY <1>1, <1>4 DEF LocTyped, LocalsTyped, IInv, Forking
  <2>2. /\ LocTyped' /\ (\A q \in Procs : Returned(q) \/ Stayed(q))
        /\ Returned(p) /\ \A q \in Procs : q # p => loc'[q] = loc[q]
    BY <1>1, <1>2, <1>4, RestStays
  <2>3. loc'[p].victim = None /\ loc'[p].kid = None
    BY <2>2, Rested
  <2>4. /\ Typed' /\ Unborn'
        /\ state'[kid] = "unused" /\ \A q \in Procs : q # kid => state'[q] = state[q]
        /\ \A q \in Procs, v \in Pages :
               state'[q] \in {"live", "embryo"} /\ pte'[q][v] \in Slots =>
                   state[q] \in {"live", "embryo"} /\ pte[q][v] = pte'[q][v]
    BY <1>2, <1>4, <2>1, <2>2, TableGone
  <2>5. \A q \in Procs : loc'[q].kid # None => state'[loc'[q].kid] = "embryo"
    <3> SUFFICES ASSUME NEW q \in Procs, q # p, loc[q].kid # None
                 PROVE  state'[loc[q].kid] = "embryo"
      BY <2>2, <2>3
    <3>1. loc[q].kid \in Procs /\ state[loc[q].kid] = "embryo" /\ loc[q].kid # kid
      BY <1>1, <1>4 DEF LocTyped, LocalsTyped, IInv, Forking
    <3> QED
      BY <2>4, <3>1
  <2>6. \A q \in Procs : loc'[q].victim # None => state'[loc'[q].victim] \in {"live", "zombie"}
    <3> SUFFICES ASSUME NEW q \in Procs, q # p, loc[q].victim # None
                 PROVE  state'[loc[q].victim] \in {"live", "zombie"}
      BY <2>2, <2>3
    <3>1. loc[q].victim \in Procs /\ state[loc[q].victim] \in {"live", "zombie"}
      BY <1>1 DEF LocTyped, LocalsTyped, IInv, Swapping
    <3> QED
      BY <2>1, <2>4, <3>1
  <2> QED
    BY <1>2, <2>2, <2>4, <2>5, <2>6, ReturnStep
<1> QED
  BY <1>3, <1>4 DEF KallocFails

LEMMA ForkDoneStep == ASSUME PageSwapAssumption, IInv, NEW p \in Procs, ForkDone(p) PROVE IInv'
<1> DEFINE kid == loc[p].kid
           l == IF Background THEN AtRest ELSE Rest("wait")
<1>1. Typed /\ LocTyped /\ state[p] = "live"
  BY DEF IInv, Typed, ForkDone, Running
<1>2. /\ UNCHANGED <<pte, freelist, freeSlots>>
      /\ state' = [state EXCEPT ![kid] = "live"] /\ sz' = [sz EXCEPT ![kid] = sz[p]]
      /\ rss' = [rss EXCEPT ![kid] = rss[p]]
      /\ loc' = [loc EXCEPT ![kid] = AtRest, ![p] = l]
  BY DEF ForkDone, store
<1>3. kid \in Procs => state[kid] = "embryo" /\ kid # p
  BY <1>1 DEF IInv, Forking, None, PageSwapAssumption
<1>4. /\ state' \in [Procs -> {"unused", "embryo", "live", "zombie"}]
      /\ sz' \in [Procs -> 0..MaxPages] /\ rss' \in [Procs -> Nat]
      /\ \A q \in Procs : q = kid => state'[q] = "live"
      /\ \A q \in Procs : q # kid => state'[q] = state[q] /\ sz'[q] = sz[q] /\ rss'[q] = rss[q]
  BY <1>1, <1>2 DEF Typed
<1>5. l \in {AtRest, Rest("wait"), Rest("exit")}
  OBVIOUS
<1>6. /\ DOMAIN loc' = Procs /\ Returned(p) /\ \A q \in Procs : q = kid => Returned(q)
      /\ \A q \in Procs : q # kid /\ q # p => loc'[q] = loc[q]
  <2> HIDE DEF l
  <2> QED
    BY <1>1, <1>2, <1>3, <1>5 DEF Returned, LocTyped
<1>7. \A q \in Procs : Returned(q) \/ (q # kid /\ q # p /\ Stayed(q))
  BY <1>1, <1>4, <1>6 DEF Stayed, Typed
<1>8. LocTyped'
  BY <1>1, <1>6, <1>7, Rested DEF LocTyped
<1>9. Typed' /\ Unborn'
  BY <1>1, <1>2, <1>4, <1>8 DEF Typed, IInv, Unborn
<1>10. \A q \in Procs : loc'[q].kid # None => state'[loc'[q].kid] = "embryo"
  <2> SUFFICES ASSUME NEW q \in Procs, loc'[q].kid # None PROVE state'[loc'[q].kid] = "embryo"
    OBVIOUS
  <2>1. q # p /\ loc'[q].kid = loc[q].kid
    BY <1>6, <1>7, Rested DEF Stayed
  <2>2. loc[q].kid \in Procs /\ state[loc[q].kid] = "embryo" /\ loc[q].kid # kid
    BY <1>1, <2>1 DEF LocTyped, LocalsTyped, IInv, Forking
  <2> QED
    BY <1>4, <2>1, <2>2
<1>11. \A q \in Procs : loc'[q].victim # None => state'[loc'[q].victim] \in {"live", "zombie"}
  <2> SUFFICES ASSUME NEW q \in Procs, loc'[q].victim # None
               PROVE  state'[loc'[q].victim] \in {"live", "zombie"}
    OBVIOUS
  <2>1. q # p /\ q # kid /\ loc'[q] = loc[q]
    BY <1>6, Rested
  <2>2. loc[q].victim \in Procs /\ state[loc[q].victim] \in {"live", "zombie"}
    BY <1>1, <2>1 DEF LocTyped, LocalsTyped, IInv, Swapping
  <2> QED
    BY <1>4, <2>1, <2>2
<1>12. \A q \in Procs, v \in Pages :
           state'[q] \in {"live", "embryo"} /\ pte'[q][v] \in Slots =>
               state[q] \in {"live", "embryo"} /\ pte[q][v] = pte'[q][v]
  BY <1>2, <1>3, <1>4
<1> QED
  BY <1>2, <1>7, <1>9, <1>10, <1>11, <1>12, ReturnStep

-----------------------------------------------------------------------------
(* Steps that move a page, or begin to *)

LEMMA ForkStep ==
    ASSUME PageSwapAssumption, IInv, NEW p \in Procs, NEW kid \in Procs, Fork(p, kid) PROVE IInv'
<1>1. Typed /\ LocTyped /\ state[p] = "live" /\ loc[p].pc = "user" /\ state[kid] = "unused"
  BY DEF IInv, Typed, Fork, Calling, Running, IsFirst, Taken
<1>2. /\ UNCHANGED <<sz, pte, freelist, freeSlots>>
      /\ state' = [state EXCEPT ![kid] = "embryo"] /\ rss' = [rss EXCEPT ![kid] = 0]
      /\ loc' = [loc EXCEPT ![p].pc = "pages", ![p].kid = kid, ![p].page = 1]
  BY DEF Fork, store
<1>3. /\ state' \in [Procs -> {"unused", "embryo", "live", "zombie"}] /\ rss' \in [Procs -> Nat]
      /\ state'[kid] = "embryo" /\ rss'[kid] = 0
      /\ \A q \in Procs : q # kid => state'[q] = state[q] /\ rss'[q] = rss[q]
  BY <1>1, <1>2 DEF Typed
<1>4. LocTyped'
  BY <1>1, <1>2 DEF LocTyped, LocalsTyped, Fields, Labels
<1>5. /\ \A q \in Procs : q # p => loc'[q] = loc[q]
      /\ loc'[p].pc = "pages" /\ loc'[p].kid = kid /\ loc'[p].page = 1
      /\ loc'[p].from = loc[p].from /\ loc'[p].slot = loc[p].slot
      /\ loc'[p].victim = loc[p].victim /\ loc'[p].call = loc[p].call
  BY <1>1, <1>2 DEF LocTyped, LocalsTyped, Fields
<1>6. loc[p].from \notin Slots /\ loc[p].victim = None
  BY <1>1 DEF IInv, Paging, Swapping
<1>7. Exclusive'
  <2>1. \A v \in Pages : pte[kid][v] \notin Slots
    BY <1>1 DEF IInv, Unborn, Slots, None
  <2>2. \A s \in Slots, q \in Procs, v \in Claimants : Claim(s, q, v)' => Claim(s, q, v)
    <3> SUFFICES ASSUME NEW s \in Slots, NEW q \in Procs, NEW v \in Claimants, Claim(s, q, v)'
                 PROVE  Claim(s, q, v)
      OBVIOUS
    <3>1. CASE v \in Pages /\ state'[q] \in {"live", "embryo"} /\ pte'[q][v] = s
      BY <1>2, <1>3, <2>1, <3>1 DEF Claim
    <3>2. CASE \/ loc'[q].from = s /\ loc'[q].page = v
               \/ loc'[q].slot = s /\ v = None
      BY <1>5, <1>6, <3>2 DEF Claim
    <3> QED
      BY <3>1, <3>2 DEF Claim
  <2> QED
    BY <1>2, <2>2, FewerClaims DEF IInv
<1>8. Swapping'
  <2>1. \A q \in Procs : loc[q].victim # None => loc[q].victim \in Procs /\ loc[q].victim # kid
    BY <1>1 DEF LocTyped, LocalsTyped, IInv, Swapping
  <2> QED
    <3> SUFFICES ASSUME NEW q \in Procs
                 PROVE  /\ loc'[q].victim # None =>
                               /\ state'[loc'[q].victim] \in {"live", "zombie"}
                               /\ loc'[q].pc \in {"page", "out", "write", "set"}
                        /\ loc'[q].pc \in {"out", "write", "set"} =>
                               loc'[q].pa \in Frames /\ loc'[q].va \in Pages
      BY DEF Swapping
    <3>1. CASE q = p
      BY <1>5, <1>6, <3>1
    <3>2. CASE q # p
      <4>1. loc'[q] = loc[q]
        BY <1>5, <3>2
      <4>2. loc[q].victim # None => state'[loc[q].victim] = state[loc[q].victim]
        BY <1>3, <2>1
      <4> QED
        BY <4>1, <4>2 DEF IInv, Swapping
    <3> QED
      BY <3>1, <3>2
<1>9. Forking'
  <2>1. \A q \in Procs : loc[q].kid # None => loc[q].kid \in Procs /\ loc[q].kid # kid
    BY <1>1 DEF LocTyped, LocalsTyped, IInv, Forking
  <2>2. kid # None
    BY DEF None, PageSwapAssumption
  <2> QED
    <3> SUFFICES ASSUME NEW q \in Procs, loc'[q].kid # None
                 PROVE  /\ state'[loc'[q].kid] = "embryo"
                        /\ \A r \in Procs : loc'[r].kid = loc'[q].kid => r = q
      BY DEF Forking
    <3>1. CASE q = p
      BY <1>3, <1>5, <2>1, <2>2, <3>1
    <3>2. CASE q # p
      <4>1. loc'[q] = loc[q] /\ loc[q].kid # None
        BY <1>5, <3>2
      <4>2. state'[loc[q].kid] = state[loc[q].kid]
        BY <1>3, <2>1, <4>1
      <4>3. \A r \in Procs : loc'[r].kid = loc[q].kid => loc[r].kid = loc[q].kid
        BY <1>5, <2>1, <4>1
      <4> QED
        BY <4>1, <4>2, <4>3 DEF IInv, Forking
    <3> QED
      BY <3>1, <3>2
<1>10. Paging'
  <2> SUFFICES ASSUME NEW q \in Procs
               PROVE  /\ loc'[q].from \in Slots => loc'[q].page \in Pages
                      /\ loc'[q].pc = "pages" => loc'[q].page # None
                      /\ loc'[q].pc \in {"user", "pages"} => loc'[q].from \notin Slots
                      /\ "grow" \in {loc'[q].pc, loc'[q].call} => sz'[q] < MaxPages
    BY <1>2 DEF Paging
  <2>1. CASE q = p
    <3>1. "grow" \in {loc'[p].pc, loc'[p].call} => sz'[p] < MaxPages
      BY <1>2, <1>5 DEF IInv, Paging
    <3> QED
      BY <1>5, <1>6, <2>1, <3>1 DEF None
  <2>2. CASE q # p
    BY <1>2, <1>5, <2>2 DEF IInv, Paging
  <2> QED
    BY <2>1, <2>2
<1>11. Unborn'
  BY <1>2, <1>3 DEF IInv, Unborn
<1>12. Typed'
  BY <1>1, <1>2, <1>3, <1>4 DEF Typed
<1> QED
  BY <1>7, <1>8, <1>9, <1>10, <1>11, <1>12 DEF IInv

LEMMA MapInStep == ASSUME PageSwapAssumption, IInv, NEW p \in Procs, MapIn(p) PROVE IInv'
<1> DEFINE v == loc[p].page
           s == loc[p].from
<1>1. Typed /\ LocTyped /\ state[p] = "live" /\ loc[p].pc = "fault" /\ loc[p].victim = None
  BY DEF IInv, Typed, MapIn, Running, Swapping
<1>2. UNCHANGED <<state, sz, freelist>>
  BY DEF MapIn, table
<1>3. CASE UNCHANGED <<rss, pte, freeSlots, loc>>
  BY <1>2, <1>3, Unchanged
<1>4. CASE /\ pte[p][v] \notin Frames /\ pte' = [pte EXCEPT ![p][v] = loc[p].frame]
           /\ freeSlots' = freeSlots \cup {s} /\ Rss(p, 1)
           /\ loc' = IF loc[p].kid = None THEN [loc EXCEPT ![p] = AtRest]
                     ELSE [loc EXCEPT ![p].pc = "kalloc", ![p].call = "copy", ![p].tries = 2,
                                      ![p].from = loc[p].frame, ![p].frame = None]
  <2>1. loc[p].frame \in Frames \cup {None} /\ loc[p].frame \notin Slots
    BY <1>1 DEF LocTyped, LocalsTyped, PageSwapAssumption, Slots, None
  <2>2. /\ pte' \in [Procs -> [Pages -> Frames \cup Slots \cup {None}]]
        /\ \A q \in Procs, w \in Pages : pte'[q][w] \in Slots =>
               pte[q][w] = pte'[q][w] /\ ~(q = p /\ w = v)
        /\ \A q \in Procs : q # p => pte'[q] = pte[q]
    BY <1>1, <1>4, <2>1 DEF Typed
  <2>3. rss' \in [Procs -> Nat] /\ \A q \in Procs : q # p => rss'[q] = rss[q]
    BY <1>1, <1>4, RssTyped
  <2>4. /\ LocTyped' /\ \A q \in Procs : q # p => loc'[q] = loc[q]
        /\ loc'[p].pc \in {"user", "kalloc"} /\ loc'[p].call \in {"none", "copy"}
        /\ loc'[p].from \notin Slots /\ loc'[p].slot \in {None, loc[p].slot}
        /\ loc'[p].victim = None /\ loc'[p].kid \in {None, loc[p].kid}
    <3>1. CASE loc[p].kid = None
      <4>1. loc'[p] = AtRest /\ \A q \in Procs : q # p => loc'[q] = loc[q]
        BY <1>1, <1>4, <3>1 DEF LocTyped
      <4>2. DOMAIN loc' = Procs /\ Returned(p)
        BY <1>1, <1>4, <3>1, <4>1 DEF LocTyped, Returned
      <4>3. LocTyped'
        BY <1>1, <4>1, <4>2, Rested DEF LocTyped
      <4> QED
        BY <4>1, <4>3 DEF AtRest, Slots, None
    <3>2. CASE loc[p].kid # None
      <4>1. loc' = [loc EXCEPT ![p].pc = "kalloc", ![p].call = "copy", ![p].tries = 2,
                               ![p].from = loc[p].frame, ![p].frame = None]
        BY <1>4, <3>2
      <4>2. loc[p].frame \in Frames \cup {None} /\ LocTyped /\ DOMAIN loc[p] = Fields
        BY <1>1, <2>1 DEF LocTyped, LocalsTyped
      <4>3. LocTyped'
        BY <4>1, <4>2 DEF LocTyped, LocalsTyped, Fields, Labels
      <4>4. /\ \A q \in Procs : q # p => loc'[q] = loc[q]
            /\ loc'[p].pc = "kalloc" /\ loc'[p].call = "copy" /\ loc'[p].from = loc[p].frame
            /\ loc'[p].slot = loc[p].slot /\ loc'[p].victim = loc[p].victim
            /\ loc'[p].kid = loc[p].kid
        BY <4>1, <4>2 DEF LocTyped, Fields
      <4> QED
        BY <1>1, <2>1, <4>2, <4>3, <4>4
    <3> QED
      BY <3>1, <3>2
  <2>5. s \in Slots => v \in Pages /\ v \in Claimants /\ v # None /\ Claim(s, p, v)
    BY DEF IInv, Paging, Claim, Claimants, Pages, None, PageSwapAssumption
  <2>6. \A t \in Slots, q \in Procs, w \in Claimants : Claim(t, q, w)' => Claim(t, q, w) /\ t # s
    <3> SUFFICES ASSUME NEW t \in Slots, NEW q \in Procs, NEW w \in Claimants, Claim(t, q, w)'
                 PROVE  Claim(t, q, w) /\ t # s
      OBVIOUS
    <3>1. Claim(t, q, w) /\ ~(q = p /\ w = v /\ v \in Pages)
      <4>1. CASE w \in Pages /\ state'[q] \in {"live", "embryo"} /\ pte'[q][w] = t
        BY <1>2, <2>2, <4>1 DEF Claim
      <4>2. CASE loc'[q].from = t /\ loc'[q].page = w
        BY <2>4, <4>2 DEF Claim
      <4>3. CASE loc'[q].slot = t /\ w = None
        BY <2>4, <4>3 DEF Claim, Slots, Pages, None
      <4> QED
        BY <4>1, <4>2, <4>3 DEF Claim
    <3>2. t = s => q = p /\ w = v
      BY <2>5, <3>1 DEF IInv, Exclusive
    <3> QED
      BY <2>5, <3>1, <3>2
  <2>7. Exclusive'
    BY <1>4, <2>6 DEF IInv, Exclusive
  <2>8. Swapping'
    BY <1>2, <2>4 DEF IInv, Swapping
  <2>9. Forking'
    BY <1>2, <2>4 DEF IInv, Forking
  <2>10. Paging'
    BY <1>2, <2>4 DEF IInv, Paging
  <2>11. Typed'
    BY <1>1, <1>2, <2>2, <2>3, <2>4 DEF Typed
  <2>12. Unborn'
    <3>1. state[p] = "live" /\ Unborn
      BY <1>1 DEF IInv
    <3>2. \A q \in Procs : q # p => rss'[q] = rss[q] /\ pte'[q] = pte[q]
      BY <2>2, <2>3
    <3> QED
      BY <1>2, <3>1, <3>2 DEF Unborn
  <2> QED
    BY <2>7, <2>8, <2>9, <2>10, <2>11, <2>12 DEF IInv
<1> QED
  BY <1>3, <1>4 DEF MapIn, SlotFreed

\* What fork puts in the child's page table is a frame, or the slot it filled, which it
\* has in hand no more.
LEMMA ChildPteStep ==
    ASSUME PageSwapAssumption, IInv, NEW p \in Procs, NEW e \in Frames \cup Slots \cup {None},
           e \in Slots => e = loc[p].slot, loc[p].pc \in {"copy", "dupcopy"}, ChildPte(p, e),
           UNCHANGED <<state, sz, rss, freelist, freeSlots>>
    PROVE  IInv'
<1> DEFINE kid == loc[p].kid
           v == loc[p].page
           t == loc[p].slot
<1>1. Typed /\ LocTyped /\ loc[p].victim = None /\ v \in Nat
  BY DEF IInv, Typed, Swapping, LocTyped, LocalsTyped
<1>2. /\ pte' = [pte EXCEPT ![kid][v] = e]
      /\ loc' = [loc EXCEPT ![p].pc = "pages", ![p].page = @ + 1, ![p].blk = 1,
                            ![p].from = None, ![p].frame = None, ![p].slot = None]
  BY DEF ChildPte
<1>3. LocTyped'
  <2>1. LocTyped /\ LocalsTyped(loc[p])
    BY <1>1 DEF LocTyped
  <2>2. DOMAIN loc' = Procs /\ \A q \in Procs : q # p => loc'[q] = loc[q]
    BY <1>2, <2>1 DEF LocTyped
  <2>3. LocalsTyped(loc'[p])
    BY <1>2, <2>1 DEF LocTyped, LocalsTyped, Fields, Labels
  <2> QED
    BY <2>1, <2>2, <2>3 DEF LocTyped
<1>4. /\ \A q \in Procs : q # p => loc'[q] = loc[q]
      /\ loc'[p].pc = "pages" /\ loc'[p].page = v + 1 /\ loc'[p].from = None
      /\ loc'[p].slot = None /\ loc'[p].kid = kid /\ loc'[p].call = loc[p].call
      /\ loc'[p].victim = loc[p].victim
  BY <1>1, <1>2 DEF LocTyped, LocalsTyped, Fields
<1>5. /\ pte' \in [Procs -> [Pages -> Frames \cup Slots \cup {None}]]
      /\ \A q \in Procs, w \in Pages :
             pte'[q][w] = pte[q][w] \/ (q = kid /\ w = v /\ pte'[q][w] = e)
      /\ \A q \in Procs : q # kid => pte'[q] = pte[q]
  BY <1>1, <1>2 DEF Typed
<1>6. None \notin Slots /\ None \in Claimants /\ (t \in Slots => Claim(t, p, None))
  BY DEF Claim, Claimants, Slots, None
<1>7. \A s \in Slots, q \in Procs, w \in Claimants :
          Claim(s, q, w)' => (Claim(s, q, w) /\ s # t) \/ (s = t /\ q = kid /\ w = v)
  <2> SUFFICES ASSUME NEW s \in Slots, NEW q \in Procs, NEW w \in Claimants, Claim(s, q, w)',
                      ~(s = t /\ q = kid /\ w = v)
               PROVE  Claim(s, q, w) /\ s # t
    OBVIOUS
  <2>1. Claim(s, q, w) /\ ~(q = p /\ w = None)
    <3>1. CASE w \in Pages /\ state'[q] \in {"live", "embryo"} /\ pte'[q][w] = s
      BY <1>5, <3>1 DEF Claim, Pages, None
    <3>2. CASE \/ loc'[q].from = s /\ loc'[q].page = w
               \/ loc'[q].slot = s /\ w = None
      BY <1>4, <1>6, <3>2 DEF Claim
    <3> QED
      BY <3>1, <3>2 DEF Claim
  <2> QED
    BY <1>6, <2>1 DEF IInv, Exclusive
<1>8. Exclusive'
  BY <1>6, <1>7 DEF IInv, Exclusive
<1>9. Swapping'
  BY <1>1, <1>4 DEF IInv, Swapping
<1>10. Forking'
  BY <1>4 DEF IInv, Forking
<1>11. Paging'
  <2>1. v + 1 # None
    BY <1>1 DEF None
  <2> QED
    BY <1>4, <1>6, <2>1 DEF IInv, Paging
<1>12. Unborn'
  <2>1. \A q \in Procs : q = kid => state[q] = "embryo"
    BY DEF IInv, Forking, None, PageSwapAssumption
  <2> QED
    BY <1>5, <2>1 DEF IInv, Unborn
<1>13. Typed'
  BY <1>1, <1>3, <1>5 DEF Typed
<1> QED
  BY <1>8, <1>9, <1>10, <1>11, <1>12, <1>13 DEF IInv

LEMMA CopyMapSteps ==
    ASSUME PageSwapAssumption, IInv, NEW p \in Procs, CopyMap(p) \/ DupBlock(p) PROVE IInv'
<1>1. LocTyped /\ UNCHANGED <<state, sz, rss, freelist, freeSlots>> /\ freelist' \subseteq Frames
  BY DEF IInv, Typed, CopyMap, DupBlock, table
<1>2. CASE CopyMap(p)
  <2>1. /\ loc[p].frame \in Frames \cup {None} /\ loc[p].frame \notin Slots
        /\ loc[p].pc = "copy" /\ ChildPte(p, loc[p].frame)
    BY <1>1, <1>2 DEF CopyMap, Running, LocTyped, LocalsTyped, PageSwapAssumption, Slots, None
  <2> QED
    BY <1>1, <2>1, ChildPteStep
<1>3. CASE DupBlock(p) /\ ChildPte(p, loc[p].slot)
  <2>1. loc[p].slot \in Slots \cup {None} /\ loc[p].pc = "dupcopy"
    BY <1>1, <1>3 DEF DupBlock, Running, LocTyped, LocalsTyped
  <2> QED
    BY <1>1, <1>3, <2>1, ChildPteStep
<1>4. CASE DupBlock(p) /\ pte' = pte /\ loc' = [loc EXCEPT ![p].blk = loc[p].blk + 1]
  <2>1. loc[p].pc = "dupcopy"
    BY <1>4 DEF DupBlock, Running
  <2>2. LocTyped'
    BY <1>1, <1>4 DEF LocTyped, LocalsTyped, Fields
  <2>3. MovesOn(p)
    BY <1>1, <1>4, <2>1 DEF MovesOn, IInv, Swapping, Paging, LocTyped, LocalsTyped, Fields
  <2> QED
    BY <1>1, <1>4, <2>2, <2>3, LocalStep
<1> QED
  BY <1>2, <1>3, <1>4 DEF DupBlock

-----------------------------------------------------------------------------
(* The theorem *)

LEMMA NextIInv ==
    ASSUME PageSwapAssumption, "stray" \notin Calls, IInv, [Next]_vars PROVE IInv'
<1>1. CASE UNCHANGED vars
  BY <1>1, Unchanged DEF vars, table, store
<1>2. ASSUME NEW p \in Procs, Kernel(p) PROVE IInv'
  BY <1>2, KallocStep, SwapOutSteps, PageOutStep, SetPteStep, CopySteps, GrowMapStep, MapInStep,
     ExecCommitStep, KallocFailsStep, CopyPageStep, CopyMapSteps, DupSlotStep, ForkDoneStep
     DEF Kernel
<1>3. ASSUME NEW p \in Procs, NEW v \in Pages,
             \/ Fault(p, v) \/ Segfault(p, v) \/ Buffer(p, v)
             \/ \E b \in 1..BLOCKS, x \in Vals : Write(p, v, b, x)
      PROVE  IInv'
  BY <1>3, FaultStep, UserSteps
<1>4. ASSUME NEW p \in Procs, Preempt(p) \/ Grow(p) \/ Shrink(p) \/ Exec(p) \/ Exit(p)
      PROVE  IInv'
  BY <1>4, UserSteps, ShrinkStep, ExitStep
<1>5. ASSUME NEW p \in Procs, NEW q \in Procs, Fork(p, q) \/ Wait(p, q) PROVE IInv'
  BY <1>5, ForkStep, WaitStep
<1> QED
  BY <1>1, <1>2, <1>3, <1>4, <1>5 DEF Next

\* Who holds a slot has a claim on it.
LEMMA HoldersClaim ==
    ASSUME PageSwapAssumption, IInv PROVE SlotsExclusive
<1>1. ASSUME NEW s \in Slots, NEW h \in SlotHolders(s)
      PROVE  /\ h = <<h[1], h[2]>> /\ h[1] \in Procs /\ h[2] \in Claimants
             /\ Claim(s, h[1], h[2])
  <2>1. CASE h \in Procs \X Pages /\ state[h[1]] \in {"live", "embryo"} /\ pte[h[1]][h[2]] = s
    BY <2>1 DEF Claim, Claimants, Pages, PageSwapAssumption
  <2>2. CASE \E p \in Procs : h = <<p, None>> /\ loc[p].slot = s
    BY <2>2 DEF Claim, Claimants, None
  <2> QED
    BY <1>1, <2>1, <2>2 DEF SlotHolders
<1>2. ASSUME NEW s \in Slots, NEW h \in SlotHolders(s)
      PROVE  s \notin freeSlots /\ \A k \in SlotHolders(s) : h = k
  BY <1>1 DEF IInv, Exclusive
<1> QED
  BY <1>2 DEF SlotsExclusive

\* No two pages share a slot and no slot with a page in it is free (findFreeSlot,
\* freeSlot, swapPageIn, duplicateSwapSlot, swapAndClean), for any number of processes,
\* pages, frames and slots, where no program touches a page that it does not have.
THEOREM SlotsStayExclusive ==
    ASSUME "stray" \notin Calls PROVE Spec => []SlotsExclusive
<1>1. Init => IInv
  BY PageSwapAssumption, InitIInv
<1>2. IInv /\ [Next]_vars => IInv'
  BY PageSwapAssumption, NextIInv
<1>3. IInv => SlotsExclusive
  BY PageSwapAssumption, HoldersClaim
<1> QED
  BY <1>1, <1>2, <1>3, PTL DEF Spec

-----------------------------------------------------------------------------
(* Foreground programs: who waits for its child leaves the others alone       *)

\* What holds for such programs: no parent runs on, and none touches a page it has not.
Foreground == ~Background /\ "stray" \notin Calls

Busy(p) == state[p] = "live" /\ loc[p].pc # "wait"
Up(p) == state[p] = "zombie" \/ Busy(p)

\* At most one process does anything, or is a zombie for which its parent waits ...
OneAtATime == \A p, q \in Procs : Up(p) /\ Up(q) => p = q

\* ... and all others are in no call.
IdleInv == \A p \in Procs : ~Busy(p) \/ loc[p].pc = "user" => loc[p] \in {AtRest, Rest("wait")}

Holding == {"grow", "fault", "exec", "copy"}
SwapOut == {"victim", "page", "out", "write", "set"}
Duplicating == {"dup", "dupcopy"}

\* Page v of p, or with None the call that p is in, has frame f.
FrameClaim(f, p, v) == \/ v \in Pages /\ pte[p][v] = f
                       \/ v = None /\ loc[p].pc \in Holding /\ loc[p].frame = f

Holders == Pages \cup {None}

\* A frame is free or has one claim.
FramesInv == \A f \in Frames :
    /\ f \in freelist => \A p \in Procs, v \in Holders : ~FrameClaim(f, p, v)
    /\ f \notin freelist => \E p \in Procs, v \in Holders : FrameClaim(f, p, v)
    /\ \A p, q \in Procs, v, w \in Holders :
           FrameClaim(f, p, v) /\ FrameClaim(f, q, w) => p = q /\ v = w

\* What a process does, seen from outside checkAndSwap
Doing(l) == IF l.pc \in SwapOut THEN l.ret ELSE l.pc

\* Where the calls of a process are: kalloc's frame is for the call that wanted it, the page
\* to swap out is still in memory, and fork has come to a page that the child has not yet.
Placed(l) ==
    /\ l.pc \in Holding => l.frame \in Frames /\ l.call = l.pc
    /\ Doing(l) = "kalloc" => l.call \in Holding
    /\ l.pc \in SwapOut \ {"victim"} => l.victim # None
    /\ l.pc \in {"out", "write", "set"} => pte[l.victim][l.va] = l.pa
    /\ l.pc \in {"write", "set", "dupcopy"} => l.slot \in Slots
    /\ l.call \in {"fault", "copy"} \/ Doing(l) \in Duplicating =>
           l.pc = "pages" \/ l.page \in Pages
    /\ l.call = "copy" \/ Doing(l) \in Duplicating \cup {"pages"} => l.kid # None
    /\ l.kid # None => \A w \in Pages : w >= l.page => pte[l.kid][w] = None

PlaceInv == \A p \in Procs : Placed(loc[p])

FInv == OneAtATime /\ IdleInv /\ FramesInv /\ PlaceInv

\* Who is at rest has nothing in hand.
LEMMA RestIs ==
    ASSUME NEW l \in {AtRest, Rest("wait"), Rest("exit")}
    PROVE  /\ l.pc \in {"user", "wait", "exit"} /\ l.call = "none" /\ l.kid = None
           /\ l.ret = "none" /\ l.victim = None /\ l.slot = None /\ l.frame = None
           /\ l.from = None /\ l.page = None /\ l.blk = 1
           /\ Doing(l) = l.pc /\ l.pc \notin Holding /\ l.pc \notin SwapOut /\ Placed(l)
<1>1. /\ l.pc \in {"user", "wait", "exit"} /\ l.call = "none" /\ l.kid = None
      /\ l.ret = "none" /\ l.victim = None /\ l.slot = None /\ l.frame = None
      /\ l.from = None /\ l.page = None /\ l.blk = 1
  BY DEF AtRest, Rest
<1>2. l.pc \notin Holding /\ l.pc \notin SwapOut /\ Doing(l) = l.pc
  BY <1>1 DEF Holding, SwapOut, Doing
<1> QED
  BY <1>1, <1>2 DEF Placed, Duplicating, SwapOut

LEMMA RestPlaced ==
    ASSUME NEW q, loc'[q] \in {AtRest, Rest("wait"), Rest("exit")} PROVE Placed(loc[q])'
<1>1. /\ loc'[q].pc \in {"user", "wait", "exit"} /\ loc'[q].call = "none" /\ loc'[q].kid = None
      /\ Doing(loc'[q]) = loc'[q].pc /\ loc'[q].pc \notin Holding /\ loc'[q].pc \notin SwapOut
  BY RestIs
<1> QED
  BY <1>1 DEF Placed, Duplicating, Doing, SwapOut

\* Everybody but a busy process is in no call.
LEMMA OthersRest ==
    ASSUME FInv, NEW p \in Procs, Up(p), NEW q \in Procs, q # p
    PROVE  ~Up(q) /\ loc[q] \in {AtRest, Rest("wait")}
  BY DEF FInv, OneAtATime, IdleInv, Up, Busy

\* A busy process that stays so leaves the others as they are.
LEMMA AloneStays ==
    ASSUME FInv, NEW p \in Procs, Busy(p), UNCHANGED state, \A q \in Procs : q # p => loc'[q] = loc[q],
           loc'[p].pc # "wait", loc'[p].pc = "user" => loc'[p] = AtRest,
           Placed(loc[p])'
    PROVE  OneAtATime' /\ IdleInv' /\ PlaceInv'
<1>1. \A q \in Procs : q # p => ~Up(q) /\ loc'[q] \in {AtRest, Rest("wait")}
  BY OthersRest DEF Up
<1>2. OneAtATime'
  BY <1>1 DEF OneAtATime, Up, Busy
<1>3. IdleInv'
  BY <1>1 DEF IdleInv, Busy
<1>4. PlaceInv'
  BY <1>1, RestPlaced DEF PlaceInv
<1> QED
  BY <1>2, <1>3, <1>4

\* A step of one process in its calls moves no frame ...
LEMMA CallsKeepF ==
    ASSUME FInv, NEW p \in Procs, Busy(p), UNCHANGED <<state, pte, freelist>>,
           \A q \in Procs : q # p => loc'[q] = loc[q],
           loc'[p].pc # "wait", loc'[p].pc = "user" => loc'[p] = AtRest, Placed(loc[p])',
           \/ loc'[p].pc \notin Holding /\ loc[p].pc \notin Holding
           \/ loc'[p].pc = loc[p].pc /\ loc'[p].frame = loc[p].frame
    PROVE  FInv'
<1>1. \A f \in Frames, q \in Procs, v \in Holders : FrameClaim(f, q, v)' <=> FrameClaim(f, q, v)
  <2> SUFFICES ASSUME NEW f \in Frames, NEW q \in Procs, NEW v \in Holders
               PROVE  FrameClaim(f, q, v)' <=> FrameClaim(f, q, v)
    OBVIOUS
  <2>1. CASE q = p
    BY <2>1 DEF FrameClaim
  <2>2. CASE q # p
    BY <2>2 DEF FrameClaim
  <2> QED
    BY <2>1, <2>2
<1>2. FramesInv'
  BY <1>1 DEF FInv, FramesInv
<1> QED
  BY <1>2, AloneStays DEF FInv

\* ... frames that are freed lose their claims ...
LEMMA FramesFreed ==
    ASSUME FramesInv, NEW freed, freelist' = freelist \cup freed,
           \A f \in Frames, q \in Procs, v \in Holders :
               FrameClaim(f, q, v)' <=> FrameClaim(f, q, v) /\ f \notin freed
    PROVE  FramesInv'
  BY DEF FramesInv

\* ... and a frame in hand goes to a page.
LEMMA FrameMapped ==
    ASSUME FramesInv, NEW freed, freelist' = freelist \cup freed, NEW g \in Frames, g \notin freed,
           NEW p \in Procs, FrameClaim(g, p, None), NEW r \in Procs, NEW w \in Pages,
           \A f \in Frames, q \in Procs, v \in Holders :
               FrameClaim(f, q, v)' <=> IF f = g THEN q = r /\ v = w
                                        ELSE FrameClaim(f, q, v) /\ f \notin freed
    PROVE  FramesInv'
<1> SUFFICES ASSUME NEW f \in Frames
             PROVE  /\ f \in freelist' => \A q \in Procs, v \in Holders : ~FrameClaim(f, q, v)'
                    /\ f \notin freelist' => \E q \in Procs, v \in Holders : FrameClaim(f, q, v)'
                    /\ \A q, t \in Procs, v, u \in Holders :
                           FrameClaim(f, q, v)' /\ FrameClaim(f, t, u)' => q = t /\ v = u
  BY DEF FramesInv
<1>1. None \in Holders /\ w \in Holders
  BY DEF Holders
<1>2. CASE f = g
  <2>1. g \notin freelist'
    BY <1>1 DEF FramesInv
  <2> QED
    BY <1>1, <1>2, <2>1
<1>3. CASE f # g
  BY <1>3 DEF FramesInv
<1> QED
  BY <1>2, <1>3

LEMMA UnchangedF ==
    ASSUME FInv, UNCHANGED <<state, pte, freelist, loc>> PROVE FInv'
<1>1. OneAtATime' /\ IdleInv'
  BY DEF FInv, OneAtATime, IdleInv, Up, Busy
<1>2. \A f \in Frames, q \in Procs, v \in Holders : FrameClaim(f, q, v)' <=> FrameClaim(f, q, v)
  BY DEF FrameClaim
<1>3. FramesInv'
  BY <1>2 DEF FInv, FramesInv
<1>4. PlaceInv'
  BY DEF FInv, PlaceInv, Placed, Doing
<1> QED
  BY <1>1, <1>3, <1>4 DEF FInv

LEMMA InitFInv ==
    ASSUME PageSwapAssumption, Foreground, Init PROVE FInv
<1>1. PICK f \in [InitProcs -> Frames] :
          /\ \A p, q \in InitProcs : f[p] = f[q] => p = q
          /\ pte = [p \in Procs |-> [v \in Pages |->
                        IF p \in InitProcs /\ v = 1 THEN f[p] ELSE None]]
          /\ freelist = Frames \ {f[p] : p \in InitProcs}
  BY DEF Init
<1>2. \A p \in Procs : loc[p] = IF p + 1 \in InitProcs THEN Rest("wait") ELSE AtRest
  BY DEF Init, Foreground
<1>3. \A p \in Procs : loc[p] \in {AtRest, Rest("wait")}
  BY <1>2
<1>4. OneAtATime
  <2>1. \A p \in Procs : Up(p) => p \in InitProcs /\ p + 1 \notin InitProcs
    BY <1>2 DEF Up, Busy, Init, Rest, AtRest
  <2>2. PICK n \in Procs : InitProcs = 1..n
    BY DEF PageSwapAssumption, ChainOfParents
  <2>3. \A p \in Procs : Up(p) => p = n
    BY <2>1, <2>2 DEF PageSwapAssumption
  <2> QED
    BY <2>3 DEF OneAtATime
<1>5. IdleInv
  BY <1>3 DEF IdleInv
<1>6. PlaceInv
  BY <1>3, RestIs DEF PlaceInv
<1>7. FramesInv
  <2> SUFFICES ASSUME NEW g \in Frames
               PROVE  /\ g \in freelist => \A p \in Procs, v \in Holders : ~FrameClaim(g, p, v)
                      /\ g \notin freelist => \E p \in Procs, v \in Holders : FrameClaim(g, p, v)
                      /\ \A p, q \in Procs, v, w \in Holders :
                             FrameClaim(g, p, v) /\ FrameClaim(g, q, w) => p = q /\ v = w
    BY DEF FramesInv
  <2>1. g # None /\ InitProcs \subseteq Procs /\ 1 \in Pages
    BY DEF PageSwapAssumption, None, Pages
  <2>2. \A p \in Procs, v \in Holders :
            FrameClaim(g, p, v) <=> p \in InitProcs /\ v = 1 /\ f[p] = g
    <3> SUFFICES ASSUME NEW p \in Procs, NEW v \in Holders
                 PROVE  FrameClaim(g, p, v) <=> p \in InitProcs /\ v = 1 /\ f[p] = g
      OBVIOUS
    <3>1. loc[p].pc \notin Holding
      BY <1>3, RestIs
    <3> QED
      BY <1>1, <2>1, <3>1 DEF FrameClaim
  <2>3. 1 \in Holders
    BY <2>1 DEF Holders
  <2> QED
    BY <1>1, <2>1, <2>2, <2>3
<1> QED
  BY <1>4, <1>5, <1>6, <1>7 DEF FInv

-----------------------------------------------------------------------------
(* Steps that move no frame *)

LEMMA UserStepsF ==
    ASSUME PageSwapAssumption, IInv, FInv, NEW p \in Procs,
           \/ \E v \in Pages : Fault(p, v) \/ Segfault(p, v)
           \/ Grow(p) \/ Exec(p)
    PROVE  FInv'
<1>1. LocTyped /\ state[p] = "live" /\ loc[p].pc = "user" /\ UNCHANGED <<state, pte, freelist>>
  BY DEF IInv, Typed, Fault, Segfault, Grow, Exec, Calling, Running, table, store
<1>2. Busy(p) /\ loc[p] = AtRest
  <2>1. loc[p] \in {AtRest, Rest("wait")} /\ Rest("wait").pc = "wait"
    BY <1>1 DEF FInv, IdleInv, Rest, AtRest
  <2> QED
    BY <1>1, <2>1 DEF Busy
<1>3. /\ loc[p].pc \notin Holding /\ loc[p].call = "none" /\ loc[p].kid = None
      /\ loc[p].ret = "none" /\ loc[p].victim = None
  BY <1>2, RestIs
<1>4. CASE \E v \in Pages : Segfault(p, v)
  <2>1. loc' = [loc EXCEPT ![p] = Rest("exit")]
    BY <1>4 DEF Segfault
  <2>2. loc'[p] = Rest("exit") /\ \A q \in Procs : q # p => loc'[q] = loc[q]
    BY <1>1, <2>1 DEF LocTyped
  <2>3. loc'[p].pc = "exit" /\ loc'[p].pc \notin Holding
    BY <2>2 DEF Rest, AtRest, Holding
  <2>4. Placed(loc[p])'
    BY <2>2, RestPlaced
  <2> QED
    BY <1>1, <1>2, <1>3, <2>2, <2>3, <2>4, CallsKeepF
<1>5. CASE \E v \in Pages : Fault(p, v)
  <2>1. PICK v \in Pages :
            loc' = [loc EXCEPT ![p].pc = "kalloc", ![p].call = "fault", ![p].tries = 5,
                               ![p].page = v, ![p].from = SlotIndex(pte[p][v])]
    BY <1>5 DEF Fault
  <2>2. /\ \A q \in Procs : q # p => loc'[q] = loc[q]
        /\ loc'[p].pc = "kalloc" /\ loc'[p].call = "fault" /\ loc'[p].page = v
        /\ loc'[p].kid = None /\ loc'[p].ret = "none"
    BY <1>1, <1>3, <2>1 DEF LocTyped, LocalsTyped, Fields
  <2>3. Placed(loc[p])'
    BY <2>2 DEF Placed, Doing, Holding, SwapOut, Duplicating
  <2> QED
    BY <1>1, <1>2, <1>3, <2>2, <2>3, CallsKeepF DEF Holding
<1>6. CASE Grow(p) \/ Exec(p)
  <2>1. PICK c \in {"grow", "exec"} :
            loc' = [loc EXCEPT ![p].pc = "kalloc", ![p].call = c, ![p].tries = 8]
    BY <1>6 DEF Grow, Exec
  <2>2. /\ \A q \in Procs : q # p => loc'[q] = loc[q]
        /\ loc'[p].pc = "kalloc" /\ loc'[p].call = c
        /\ loc'[p].kid = None /\ loc'[p].ret = "none"
    BY <1>1, <1>3, <2>1 DEF LocTyped, LocalsTyped, Fields
  <2>3. Placed(loc[p])'
    BY <2>2 DEF Placed, Doing, Holding, SwapOut, Duplicating
  <2> QED
    BY <1>1, <1>2, <1>3, <2>2, <2>3, CallsKeepF DEF Holding
<1> QED
  BY <1>4, <1>5, <1>6

LEMMA StillStepsF ==
    ASSUME FInv, NEW p \in Procs,
           \/ \E v \in Pages, b \in 1..BLOCKS, x \in Vals : Write(p, v, b, x)
           \/ \E v \in Pages : Buffer(p, v)
           \/ Preempt(p)
    PROVE  FInv'
<1>1. UNCHANGED <<state, pte, freelist, loc>>
  BY DEF Write, Buffer, Preempt, table, store
<1> QED
  BY <1>1, UnchangedF

LEMMA SwapOutStepsF ==
    ASSUME IInv, FInv, NEW p \in Procs, CheckAndSwap(p) \/ FindVictimProc(p) \/ FindVictimPage(p)
    PROVE  FInv'
<1>1. /\ LocTyped /\ Placed(loc[p]) /\ UNCHANGED <<state, pte, freelist>> /\ state[p] = "live"
      /\ loc[p].pc \in {"kalloc", "dup", "victim", "page"}
  BY DEF IInv, Typed, FInv, PlaceInv, CheckAndSwap, FindVictimProc, FindVictimPage, Starved,
         Running, table, store
<1>2. Busy(p) /\ loc[p].pc \notin Holding
  BY <1>1 DEF Busy, Holding
<1>3. CASE loc' = loc
  BY <1>1, <1>3, UnchangedF
<1>4. CASE CheckAndSwap(p)
  <2>1. loc[p].pc \in {"kalloc", "dup"}
    BY <1>4 DEF CheckAndSwap, Starved, Running
  <2>2. PICK l \in {"kalloc", "dup", "victim"} :
            /\ loc' = [loc EXCEPT ![p].tries = @ - 1, ![p].ret = loc[p].pc, ![p].pc = l]
            /\ l \in {loc[p].pc, "victim"}
    <3>1. CASE Cardinality(freelist) > threshold
      BY <1>1, <1>4, <2>1, <3>1 DEF LocTyped, LocalsTyped, Fields, CheckAndSwap
    <3>2. CASE ~(Cardinality(freelist) > threshold)
      BY <1>4, <3>2 DEF CheckAndSwap
    <3> QED
      BY <3>1, <3>2
  <2>3. /\ \A q \in Procs : q # p => loc'[q] = loc[q]
        /\ loc'[p].pc = l /\ loc'[p].ret = loc[p].pc /\ loc'[p].call = loc[p].call
        /\ loc'[p].page = loc[p].page /\ loc'[p].kid = loc[p].kid
    BY <1>1, <2>2 DEF LocTyped, LocalsTyped, Fields
  <2>4. Doing(loc'[p]) = loc[p].pc /\ Doing(loc[p]) = loc[p].pc
    BY <2>1, <2>2, <2>3 DEF Doing, SwapOut
  <2>5. Placed(loc[p])'
    BY <1>1, <2>1, <2>2, <2>3, <2>4 DEF Placed, Holding, SwapOut, Doing
  <2> QED
    BY <1>1, <1>2, <2>2, <2>3, <2>5, CallsKeepF DEF Holding
<1>5. CASE (FindVictimProc(p) \/ FindVictimPage(p)) /\ Adapt(p)
  <2>1. loc' = [loc EXCEPT ![p].pc = loc[p].ret, ![p].victim = None,
                           ![p].swapped = 0, ![p].attempts = 0]
    BY <1>5 DEF Adapt
  <2>2. loc[p].pc \in {"victim", "page"}
    BY <1>5 DEF FindVictimProc, FindVictimPage, Running
  <2>3. /\ \A q \in Procs : q # p => loc'[q] = loc[q]
        /\ loc'[p].pc = loc[p].ret /\ loc'[p].call = loc[p].call
        /\ loc'[p].page = loc[p].page /\ loc'[p].kid = loc[p].kid
        /\ loc[p].ret \in {"none", "kalloc", "dup"}
    BY <1>1, <2>1 DEF LocTyped, LocalsTyped, Fields
  <2>4. Doing(loc'[p]) = loc[p].ret /\ Doing(loc[p]) = loc[p].ret
    BY <2>2, <2>3 DEF Doing, SwapOut
  <2>5. Placed(loc[p])'
    BY <1>1, <2>2, <2>3, <2>4 DEF Placed, Holding, SwapOut, Doing
  <2> QED
    BY <1>1, <1>2, <2>3, <2>5, CallsKeepF DEF Holding
<1>6. CASE FindVictimProc(p) /\ \E q \in Victims :
               loc' = [loc EXCEPT ![p].pc = "page", ![p].victim = q]
  <2>1. PICK q \in Victims : loc' = [loc EXCEPT ![p].pc = "page", ![p].victim = q]
    BY <1>6
  <2>2. q # None /\ loc[p].pc = "victim"
    <3>1. state[q] \in {"live", "zombie"} \/ q = None \/ q # None
      OBVIOUS
    <3> QED
      BY <1>6, PageSwapAssumption DEF Victims, Taken, FindVictimProc, Running, None, PageSwapAssumption
  <2>3. /\ \A r \in Procs : r # p => loc'[r] = loc[r]
        /\ loc'[p].pc = "page" /\ loc'[p].call = loc[p].call /\ loc'[p].victim = q
        /\ loc'[p].page = loc[p].page /\ loc'[p].kid = loc[p].kid /\ loc'[p].ret = loc[p].ret
    BY <1>1, <2>1 DEF LocTyped, LocalsTyped, Fields
  <2>4. Doing(loc'[p]) = loc[p].ret /\ Doing(loc[p]) = loc[p].ret
    BY <2>2, <2>3 DEF Doing, SwapOut
  <2>5. Placed(loc[p])'
    BY <1>1, <2>2, <2>3, <2>4 DEF Placed, Holding, SwapOut, Doing
  <2> QED
    BY <1>1, <1>2, <2>3, <2>5, CallsKeepF DEF Holding
<1>7. CASE FindVictimPage(p) /\ \E v \in Resident(loc[p].victim) :
                  loc' = [loc EXCEPT ![p].pc = "out", ![p].va = v,
                                     ![p].pa = pte[loc[p].victim][v]]
  <2>1. PICK v \in Resident(loc[p].victim) :
            loc' = [loc EXCEPT ![p].pc = "out", ![p].va = v, ![p].pa = pte[loc[p].victim][v]]
    BY <1>7
  <2>2. loc[p].pc = "page"
    BY <1>7 DEF FindVictimPage, Running
  <2>3. /\ \A r \in Procs : r # p => loc'[r] = loc[r]
        /\ loc'[p].pc = "out" /\ loc'[p].call = loc[p].call /\ loc'[p].victim = loc[p].victim
        /\ loc'[p].page = loc[p].page /\ loc'[p].kid = loc[p].kid /\ loc'[p].ret = loc[p].ret
        /\ loc'[p].va = v /\ loc'[p].pa = pte[loc[p].victim][v]
    BY <1>1, <2>1 DEF LocTyped, LocalsTyped, Fields
  <2>4. Doing(loc'[p]) = loc[p].ret /\ Doing(loc[p]) = loc[p].ret
    BY <2>2, <2>3 DEF Doing, SwapOut
  <2>5. Placed(loc[p])'
    BY <1>1, <2>2, <2>3, <2>4 DEF Placed, Holding, SwapOut, Doing
  <2> QED
    BY <1>1, <1>2, <2>3, <2>5, CallsKeepF DEF Holding
<1> QED
  BY <1>3, <1>4, <1>5, <1>6, <1>7 DEF FindVictimProc, FindVictimPage

LEMMA PageOutStepF == ASSUME IInv, FInv, NEW p \in Procs, PageOut(p) PROVE FInv'
<1>1. /\ LocTyped /\ Placed(loc[p]) /\ UNCHANGED <<state, pte, freelist>> /\ state[p] = "live"
      /\ loc[p].pc = "out"
  BY DEF IInv, Typed, FInv, PlaceInv, PageOut, Running, table
<1>2. Busy(p) /\ loc[p].pc \notin Holding
  BY <1>1 DEF Busy, Holding
<1>3. CASE loc' = loc
  BY <1>1, <1>3, UnchangedF
<1>4. CASE loc' = [loc EXCEPT ![p].pc = "page", ![p].attempts = @ + 1,
                              ![p].va = None, ![p].pa = None]
  <2>1. /\ \A q \in Procs : q # p => loc'[q] = loc[q]
        /\ loc'[p].pc = "page" /\ loc'[p].call = loc[p].call /\ loc'[p].victim = loc[p].victim
        /\ loc'[p].page = loc[p].page /\ loc'[p].kid = loc[p].kid /\ loc'[p].ret = loc[p].ret
    BY <1>1, <1>4 DEF LocTyped, LocalsTyped, Fields
  <2>2. Placed(loc[p])'
    BY <1>1, <2>1 DEF Placed, Holding, SwapOut, Doing
  <2> QED
    BY <1>1, <1>2, <2>1, <2>2, CallsKeepF DEF Holding
<1>5. CASE \E s \in Slots : loc' = [loc EXCEPT ![p].pc = "write", ![p].slot = s, ![p].blk = 1]
  <2>1. PICK s \in Slots : loc' = [loc EXCEPT ![p].pc = "write", ![p].slot = s, ![p].blk = 1]
    BY <1>5
  <2>2. /\ \A q \in Procs : q # p => loc'[q] = loc[q]
        /\ loc'[p].pc = "write" /\ loc'[p].call = loc[p].call /\ loc'[p].victim = loc[p].victim
        /\ loc'[p].page = loc[p].page /\ loc'[p].kid = loc[p].kid /\ loc'[p].ret = loc[p].ret
        /\ loc'[p].va = loc[p].va /\ loc'[p].pa = loc[p].pa /\ loc'[p].slot = s
    BY <1>1, <2>1 DEF LocTyped, LocalsTyped, Fields
  <2>3. Placed(loc[p])'
    BY <1>1, <2>2 DEF Placed, Holding, SwapOut, Doing
  <2> QED
    BY <1>1, <1>2, <2>2, <2>3, CallsKeepF DEF Holding
<1> QED
  BY <1>3, <1>4, <1>5 DEF PageOut, NoSlot, TakeSlot

LEMMA BlockStepsF ==
    ASSUME IInv, FInv, NEW p \in Procs,
           WriteOut(p) \/ ReadIn(p) \/ (DupBlock(p) /\ loc[p].blk <= BLOCKS)
    PROVE  FInv'
<1>1. /\ LocTyped /\ Placed(loc[p]) /\ UNCHANGED <<state, pte, freelist>> /\ state[p] = "live"
      /\ loc[p].pc \in {"write", "fault", "dupcopy"}
  BY DEF IInv, Typed, FInv, PlaceInv, WriteOut, ReadIn, DupBlock, Running, table
<1>2. PICK l \in Labels :
          /\ loc' = [loc EXCEPT ![p].pc = l, ![p].blk = loc[p].blk + 1]
          /\ l = loc[p].pc \/ (l = "set" /\ loc[p].pc = "write")
  <2>1. CASE WriteOut(p)
    <3>1. PICK l \in {"write", "set"} : loc' = [loc EXCEPT ![p].pc = l, ![p].blk = loc[p].blk + 1]
      BY <1>1, <2>1 DEF WriteOut, Running, LocTyped, LocalsTyped, Fields
    <3> QED
      BY <2>1, <3>1 DEF WriteOut, Running, Labels
  <2>2. CASE ~WriteOut(p)
    <3>1. loc' = [loc EXCEPT ![p].blk = loc[p].blk + 1]
      BY <2>2 DEF ReadIn, DupBlock
    <3>2. loc' = [loc EXCEPT ![p].pc = loc[p].pc, ![p].blk = loc[p].blk + 1]
      BY <1>1, <3>1 DEF LocTyped, LocalsTyped, Fields
    <3> QED
      BY <1>1, <3>2 DEF Labels
  <2> QED
    BY <2>1, <2>2
<1>3. /\ \A q \in Procs : q # p => loc'[q] = loc[q]
      /\ loc'[p].pc = l /\ loc'[p].call = loc[p].call /\ loc'[p].victim = loc[p].victim
      /\ loc'[p].page = loc[p].page /\ loc'[p].kid = loc[p].kid /\ loc'[p].ret = loc[p].ret
      /\ loc'[p].va = loc[p].va /\ loc'[p].pa = loc[p].pa /\ loc'[p].slot = loc[p].slot
      /\ loc'[p].frame = loc[p].frame
  BY <1>1, <1>2 DEF LocTyped, LocalsTyped, Fields
<1>4. Placed(loc[p])'
  BY <1>1, <1>2, <1>3 DEF Placed, Holding, SwapOut, Doing, Duplicating
<1>5. Busy(p)
  BY <1>1 DEF Busy
<1> QED
  BY <1>1, <1>2, <1>3, <1>4, <1>5, CallsKeepF DEF Holding

LEMMA ForkStepsF ==
    ASSUME PageSwapAssumption, IInv, FInv, NEW p \in Procs,
           CopyPage(p) \/ DupFails(p) \/ \E s \in Slots : DupSlot(p, s)
    PROVE  FInv'
<1>1. /\ LocTyped /\ Placed(loc[p]) /\ UNCHANGED <<state, pte, freelist>> /\ state[p] = "live"
      /\ loc[p].pc \in {"pages", "dup"} /\ loc[p].kid # None /\ loc[p].page \in Nat
  <2>1. /\ LocTyped /\ Placed(loc[p]) /\ UNCHANGED <<state, pte, freelist>> /\ state[p] = "live"
        /\ loc[p].pc \in {"pages", "dup"}
    BY DEF IInv, Typed, FInv, PlaceInv, CopyPage, DupFails, DupSlot, Running, table, store
  <2>2. loc[p].kid # None
    BY <2>1 DEF Placed, Doing, SwapOut, Duplicating
  <2> QED
    BY <2>1, <2>2 DEF LocTyped, LocalsTyped
<1>2. Busy(p) /\ loc[p].pc \notin Holding
  BY <1>1 DEF Busy, Holding
<1>3. CASE CopyPage(p)
  <2> DEFINE v == loc[p].page
  <2>1. v \in Pages /\ loc[p].pc = "pages"
    <3>1. v # 0 /\ sz[p] \in 0..MaxPages /\ loc[p].pc = "pages" /\ v <= sz[p]
      BY <1>3 DEF CopyPage, Running, IInv, Typed, Paging, None
    <3> QED
      BY <1>1, <3>1 DEF Pages, PageSwapAssumption
  <2>2. CASE loc' = [loc EXCEPT ![p].pc = "kalloc", ![p].call = "copy", ![p].tries = 8,
                                ![p].from = pte[p][v]]
    <3>1. /\ \A q \in Procs : q # p => loc'[q] = loc[q]
          /\ loc'[p].pc = "kalloc" /\ loc'[p].call = "copy"
          /\ loc'[p].page = loc[p].page /\ loc'[p].kid = loc[p].kid /\ loc'[p].ret = loc[p].ret
      BY <1>1, <2>2 DEF LocTyped, LocalsTyped, Fields
    <3>2. Placed(loc[p])'
      BY <1>1, <2>1, <3>1 DEF Placed, Holding, SwapOut, Doing, Duplicating
    <3> QED
      BY <1>1, <1>2, <3>1, <3>2, CallsKeepF DEF Holding
  <2>3. CASE loc' = [loc EXCEPT ![p].pc = "dup", ![p].tries = 2, ![p].from = pte[p][v]]
    <3>1. /\ \A q \in Procs : q # p => loc'[q] = loc[q]
          /\ loc'[p].pc = "dup" /\ loc'[p].call = loc[p].call
          /\ loc'[p].page = loc[p].page /\ loc'[p].kid = loc[p].kid /\ loc'[p].ret = loc[p].ret
      BY <1>1, <2>3 DEF LocTyped, LocalsTyped, Fields
    <3>2. Placed(loc[p])'
      BY <1>1, <2>1, <3>1 DEF Placed, Holding, SwapOut, Doing, Duplicating
    <3> QED
      BY <1>1, <1>2, <3>1, <3>2, CallsKeepF DEF Holding
  <2>4. CASE loc' = [loc EXCEPT ![p].page = v + 1]
    <3>1. /\ \A q \in Procs : q # p => loc'[q] = loc[q]
          /\ loc'[p].pc = "pages" /\ loc'[p].call = loc[p].call
          /\ loc'[p].page = v + 1 /\ loc'[p].kid = loc[p].kid /\ loc'[p].ret = loc[p].ret
      BY <1>1, <2>1, <2>4 DEF LocTyped, LocalsTyped, Fields
    <3>2. \A w \in Pages : w >= v + 1 => w >= v
      BY <1>1 DEF Pages
    <3>3. Placed(loc[p])'
      BY <1>1, <2>1, <3>1, <3>2 DEF Placed, Holding, SwapOut, Doing, Duplicating
    <3> QED
      BY <1>1, <1>2, <3>1, <3>3, CallsKeepF DEF Holding
  <2> QED
    BY <1>3, <2>2, <2>3, <2>4 DEF CopyPage
<1>4. CASE DupFails(p) \/ \E s \in Slots : DupSlot(p, s)
  <2>1. loc[p].pc = "dup"
    BY <1>4 DEF DupFails, DupSlot, Running
  <2>2. loc[p].page \in Pages
    BY <1>1, <2>1 DEF Placed, Doing, SwapOut, Duplicating
  <2>3. CASE loc' = [loc EXCEPT ![p].pc = "kalloc", ![p].call = "fault", ![p].tries = 5]
    <3>1. /\ \A q \in Procs : q # p => loc'[q] = loc[q]
          /\ loc'[p].pc = "kalloc" /\ loc'[p].call = "fault"
          /\ loc'[p].page = loc[p].page /\ loc'[p].kid = loc[p].kid /\ loc'[p].ret = loc[p].ret
      BY <1>1, <2>3 DEF LocTyped, LocalsTyped, Fields
    <3>2. Placed(loc[p])'
      BY <1>1, <2>2, <3>1 DEF Placed, Holding, SwapOut, Doing, Duplicating
    <3> QED
      BY <1>1, <1>2, <3>1, <3>2, CallsKeepF DEF Holding
  <2>4. CASE \E s \in Slots : loc' = [loc EXCEPT ![p].pc = "dupcopy", ![p].slot = s,
                                                 ![p].tries = 0, ![p].blk = 1]
    <3>1. PICK s \in Slots : loc' = [loc EXCEPT ![p].pc = "dupcopy", ![p].slot = s,
                                                ![p].tries = 0, ![p].blk = 1]
      BY <2>4
    <3>2. /\ \A q \in Procs : q # p => loc'[q] = loc[q]
          /\ loc'[p].pc = "dupcopy" /\ loc'[p].call = loc[p].call /\ loc'[p].slot = s
          /\ loc'[p].page = loc[p].page /\ loc'[p].kid = loc[p].kid /\ loc'[p].ret = loc[p].ret
      BY <1>1, <3>1 DEF LocTyped, LocalsTyped, Fields
    <3>3. Placed(loc[p])'
      BY <1>1, <2>2, <3>2 DEF Placed, Holding, SwapOut, Doing, Duplicating
    <3> QED
      BY <1>1, <1>2, <3>2, <3>3, CallsKeepF DEF Holding
  <2> QED
    BY <1>4, <2>3, <2>4 DEF DupFails, DupSlot
<1> QED
  BY <1>3, <1>4

-----------------------------------------------------------------------------
(* Steps that take a frame or put it in a page *)

LEMMA KallocStepF == ASSUME IInv, FInv, NEW p \in Procs, Kalloc(p) PROVE FInv'
<1>1. /\ LocTyped /\ Placed(loc[p]) /\ UNCHANGED <<state, pte>> /\ state[p] = "live"
      /\ loc[p].pc = "kalloc"
  BY DEF IInv, Typed, FInv, PlaceInv, Kalloc, Running, table
<1>2. Busy(p) /\ loc[p].pc \notin Holding /\ loc[p].call \in Holding
  BY <1>1 DEF Busy, Holding, Placed, Doing, SwapOut
<1>3. PICK f \in Frames :
          /\ f \in freelist /\ freelist' = freelist \ {f}
          /\ loc' = [loc EXCEPT ![p].pc = loc[p].call, ![p].frame = f, ![p].tries = 0, ![p].blk = 1]
  BY DEF Kalloc, IInv, Typed
<1>4. /\ \A q \in Procs : q # p => loc'[q] = loc[q]
      /\ loc'[p].pc = loc[p].call /\ loc'[p].call = loc[p].call /\ loc'[p].frame = f
      /\ loc'[p].page = loc[p].page /\ loc'[p].kid = loc[p].kid /\ loc'[p].ret = loc[p].ret
  BY <1>1, <1>3 DEF LocTyped, LocalsTyped, Fields
<1>5. Placed(loc[p])'
  BY <1>1, <1>2, <1>4 DEF Placed, Holding, SwapOut, Doing, Duplicating
<1>6. FramesInv'
  <2>1. \A g \in Frames, q \in Procs, v \in Holders :
            FrameClaim(g, q, v)' <=> FrameClaim(g, q, v) \/ (g = f /\ q = p /\ v = None)
    <3> SUFFICES ASSUME NEW g \in Frames, NEW q \in Procs, NEW v \in Holders
                 PROVE  FrameClaim(g, q, v)' <=>
                            FrameClaim(g, q, v) \/ (g = f /\ q = p /\ v = None)
      OBVIOUS
    <3>1. CASE q = p
      BY <1>1, <1>2, <1>4, <3>1 DEF FrameClaim
    <3>2. CASE q # p
      BY <1>1, <1>4, <3>2 DEF FrameClaim
    <3> QED
      BY <3>1, <3>2
  <2>2. None \in Holders
    BY DEF Holders
  <2>3. FramesInv
    BY DEF FInv
  <2> QED
    BY <1>3, <2>1, <2>2, <2>3 DEF FramesInv
<1> QED
  BY <1>1, <1>2, <1>4, <1>5, <1>6, AloneStays DEF FInv, Holding

LEMMA SetPteStepF == ASSUME PageSwapAssumption, IInv, FInv, NEW p \in Procs, SetPte(p) PROVE FInv'
<1>1. LocTyped /\ Placed(loc[p]) /\ state' = state /\ state[p] = "live" /\ loc[p].pc = "set"
  BY DEF IInv, Typed, FInv, PlaceInv, SetPte, Running, table
<1>2. CASE UNCHANGED <<pte, freelist, loc>>
  BY <1>1, <1>2, UnchangedF
<1>3. CASE /\ loc[p].victim # None
           /\ pte' = [pte EXCEPT ![loc[p].victim][loc[p].va] = loc[p].slot]
           /\ freelist' = freelist \cup {loc[p].pa}
           /\ loc' = [loc EXCEPT ![p].pc = "page", ![p].slot = None, ![p].pa = None,
                                 ![p].va = None, ![p].blk = 1,
                                 ![p].swapped = @ + 1, ![p].attempts = @ + 1]
  <2> DEFINE z == loc[p].victim
             u == loc[p].va
             g == loc[p].pa
  <2>1. /\ z \in Procs /\ u \in Pages /\ g \in Frames /\ pte[z][u] = g /\ loc[p].slot \in Slots
        /\ state[z] \in {"live", "zombie"}
    BY <1>1, <1>3 DEF IInv, Swapping, LocTyped, LocalsTyped, Placed
  <2>2. /\ \A q \in Procs : q # p => loc'[q] = loc[q]
        /\ loc'[p].pc = "page" /\ loc'[p].call = loc[p].call /\ loc'[p].victim = z
        /\ loc'[p].page = loc[p].page /\ loc'[p].kid = loc[p].kid /\ loc'[p].ret = loc[p].ret
    BY <1>1, <1>3 DEF LocTyped, LocalsTyped, Fields
  <2>3. /\ pte'[z][u] \in Slots
        /\ \A q \in Procs, w \in Pages : ~(q = z /\ w = u) => pte'[q][w] = pte[q][w]
    <3>1. pte \in [Procs -> [Pages -> Frames \cup Slots \cup {None}]]
      BY DEF IInv, Typed
    <3>2. pte' = [pte EXCEPT ![z][u] = loc[p].slot]
      BY <1>3
    <3> QED
      BY <2>1, <3>1, <3>2
  <2>4. Placed(loc[p])'
    <3>1. loc[p].kid # None => loc[p].kid \in Procs /\ loc[p].kid # z
      BY <1>1, <2>1 DEF IInv, Forking, LocTyped, LocalsTyped
    <3>2. Doing(loc'[p]) = Doing(loc[p]) /\ loc'[p].pc \notin Holding
      BY <1>1, <2>2 DEF Doing, SwapOut, Holding
    <3>3. \A w \in Pages : loc[p].kid # None => pte'[loc[p].kid][w] = pte[loc[p].kid][w]
      BY <2>3, <3>1
    <3> QED
      BY <1>1, <1>3, <2>2, <3>2, <3>3 DEF Placed, SwapOut, Duplicating, Doing
  <2>5. FramesInv'
    <3>1. g \notin Slots /\ \A s \in Slots : s \notin Frames
      BY <2>1 DEF Slots, PageSwapAssumption
    <3>2. loc[p].pc \notin Holding /\ loc'[p].pc \notin Holding
      BY <1>1, <2>2 DEF Holding
    <3>3. FrameClaim(g, z, u) /\ u \in Holders
      BY <2>1 DEF FrameClaim, Holders
    <3>4. FramesInv
      BY DEF FInv
    <3>5. \A f \in Frames, q \in Procs, v \in Holders :
              FrameClaim(f, q, v)' <=> FrameClaim(f, q, v) /\ f \notin {g}
      <4> SUFFICES ASSUME NEW f \in Frames, NEW q \in Procs, NEW v \in Holders
                   PROVE  FrameClaim(f, q, v)' <=> FrameClaim(f, q, v) /\ f # g
        OBVIOUS
      <4>1. CASE q = z /\ v = u
        <5>1. ~FrameClaim(f, q, v)'
          BY <2>1, <2>3, <3>1, <4>1 DEF FrameClaim, Pages, None
        <5>2. FrameClaim(f, q, v) => f = g
          BY <2>1, <4>1 DEF FrameClaim, Pages, None
        <5> QED
          BY <5>1, <5>2
      <4>2. CASE ~(q = z /\ v = u)
        <5>1. FrameClaim(f, q, v)' <=> FrameClaim(f, q, v)
          BY <2>2, <2>3, <3>2, <4>2 DEF FrameClaim
        <5>2. ~FrameClaim(g, q, v)
          <6> HIDE DEF z, u, g
          <6> QED
            BY <2>1, <3>3, <3>4, <4>2 DEF FramesInv
        <5> QED
          BY <5>1, <5>2
      <4> QED
        BY <4>1, <4>2
    <3> QED
      BY <1>3, <3>4, <3>5, FramesFreed
  <2>6. Busy(p)
    BY <1>1 DEF Busy
  <2> QED
    BY <1>1, <2>2, <2>4, <2>5, <2>6, AloneStays DEF FInv
<1> QED
  BY <1>2, <1>3 DEF SetPte

\* A frame in hand goes to a page that had none.
FrameMoves(p, r, w) ==
    /\ loc[p].pc \in Holding /\ loc'[p].pc \notin Holding /\ loc[p].frame \in Frames
    /\ \A q \in Procs : q # p => loc'[q] = loc[q]
    /\ pte[r][w] \notin Frames /\ pte'[r][w] = loc[p].frame
    /\ \A q \in Procs, v \in Pages : ~(q = r /\ v = w) => pte'[q][v] = pte[q][v]

LEMMA FrameToPage ==
    ASSUME FramesInv, freelist' = freelist, NEW p \in Procs, NEW r \in Procs, NEW w \in Pages,
           FrameMoves(p, r, w)
    PROVE  FramesInv'
<1>1. None \in Holders /\ None \notin Pages
  BY DEF Holders, Pages, None
<1> PICK g \in Frames : g = loc[p].frame
  BY DEF FrameMoves
<1>2. FrameClaim(g, p, None)
  BY DEF FrameMoves, FrameClaim
<1>3. PICK freed : freed = {}
  OBVIOUS
<1>4. \A f \in Frames, q \in Procs, v \in Holders :
          FrameClaim(f, q, v)' <=> IF f = g THEN q = r /\ v = w
                                   ELSE FrameClaim(f, q, v) /\ f \notin freed
  <2> SUFFICES ASSUME NEW f \in Frames, NEW q \in Procs, NEW v \in Holders
               PROVE  FrameClaim(f, q, v)' <=> IF f = g THEN q = r /\ v = w
                                               ELSE FrameClaim(f, q, v)
    BY <1>3
  <2>1. FrameClaim(g, q, v) => q = p /\ v = None
    BY <1>1, <1>2 DEF FramesInv
  <2>2. CASE q = r /\ v = w
    BY <1>1, <2>2 DEF FrameMoves, FrameClaim
  <2>3. CASE v \in Pages /\ ~(q = r /\ v = w)
    BY <1>1, <2>1, <2>3 DEF FrameMoves, FrameClaim
  <2>4. CASE v = None
    BY <1>1, <2>1, <2>4 DEF FrameMoves, FrameClaim
  <2> QED
    BY <2>2, <2>3, <2>4 DEF Holders
<1>5. freelist' = freelist \cup freed /\ g \notin freed
  BY <1>3
<1> QED
  BY <1>2, <1>4, <1>5, FrameMapped

LEMMA GrowMapStepF ==
    ASSUME PageSwapAssumption, IInv, FInv, NEW p \in Procs, GrowMap(p) PROVE FInv'
<1>1. /\ LocTyped /\ Placed(loc[p]) /\ UNCHANGED <<state, freelist>> /\ state[p] = "live"
      /\ loc[p].pc = "grow"
  BY DEF IInv, Typed, FInv, PlaceInv, GrowMap, Running
<1>2. CASE UNCHANGED <<pte, loc>>
  BY <1>1, <1>2, UnchangedF
<1>3. CASE /\ pte[p][sz[p] + 1] \notin Frames
           /\ pte' = [pte EXCEPT ![p][sz[p] + 1] = loc[p].frame]
           /\ loc' = [loc EXCEPT ![p] = AtRest]
  <2> DEFINE w == sz[p] + 1
  <2>1. w \in Pages
    <3>1. sz[p] \in 0..MaxPages /\ sz[p] < MaxPages
      BY <1>1 DEF IInv, Typed, Paging
    <3> QED
      BY <3>1 DEF Pages, PageSwapAssumption
  <2>2. loc'[p] = AtRest /\ \A q \in Procs : q # p => loc'[q] = loc[q]
    BY <1>1, <1>3 DEF LocTyped
  <2>3. /\ pte'[p][w] = loc[p].frame
        /\ \A q \in Procs, v \in Pages : ~(q = p /\ v = w) => pte'[q][v] = pte[q][v]
    BY <1>3, <2>1 DEF IInv, Typed
  <2>4. /\ loc[p].frame \in Frames /\ loc[p].pc \in Holding /\ loc'[p].pc \notin Holding
        /\ loc'[p].pc = "user"
    BY <1>1, <2>2, RestIs DEF Placed, Holding, AtRest
  <2>5. FramesInv'
    <3>1. FramesInv
      BY DEF FInv
    <3> QED
      <4>1. FrameMoves(p, p, w)
        BY <1>1, <1>3, <2>1, <2>2, <2>3, <2>4 DEF FrameMoves
      <4> QED
        BY <1>1, <1>3, <2>1, <3>1, <4>1, FrameToPage
  <2>6. Busy(p) /\ Placed(loc[p])'
    BY <1>1, <2>2, RestPlaced DEF Busy
  <2> QED
    BY <1>1, <2>2, <2>4, <2>5, <2>6, AloneStays DEF FInv
<1> QED
  BY <1>2, <1>3 DEF GrowMap

LEMMA MapInStepF ==
    ASSUME PageSwapAssumption, IInv, FInv, NEW p \in Procs, MapIn(p) PROVE FInv'
<1>1. /\ LocTyped /\ Placed(loc[p]) /\ UNCHANGED <<state, freelist>> /\ state[p] = "live"
      /\ loc[p].pc = "fault"
  BY DEF IInv, Typed, FInv, PlaceInv, MapIn, Running, table
<1>2. CASE UNCHANGED <<pte, loc>>
  BY <1>1, <1>2, UnchangedF
<1>3. CASE /\ pte[p][loc[p].page] \notin Frames
           /\ pte' = [pte EXCEPT ![p][loc[p].page] = loc[p].frame]
           /\ loc' = IF loc[p].kid = None THEN [loc EXCEPT ![p] = AtRest]
                     ELSE [loc EXCEPT ![p].pc = "kalloc", ![p].call = "copy", ![p].tries = 2,
                                      ![p].from = loc[p].frame, ![p].frame = None]
  <2> DEFINE w == loc[p].page
  <2>1. w \in Pages /\ loc[p].frame \in Frames /\ loc[p].pc \in Holding
    BY <1>1 DEF Placed, Holding
  <2>2. /\ pte'[p][w] = loc[p].frame
        /\ \A q \in Procs, v \in Pages : ~(q = p /\ v = w) => pte'[q][v] = pte[q][v]
    BY <1>3, <2>1 DEF IInv, Typed
  <2>3. /\ \A q \in Procs : q # p => loc'[q] = loc[q]
        /\ loc'[p].pc \in {"user", "kalloc"}
        /\ loc'[p].pc = "user" => loc'[p] = AtRest
        /\ Placed(loc[p])'
    <3>1. CASE loc[p].kid = None
      <4>1. loc'[p] = AtRest /\ \A q \in Procs : q # p => loc'[q] = loc[q]
        BY <1>1, <1>3, <3>1 DEF LocTyped
      <4> QED
        BY <4>1, RestPlaced DEF AtRest
    <3>2. CASE loc[p].kid # None
      <4>1. loc' = [loc EXCEPT ![p].pc = "kalloc", ![p].call = "copy", ![p].tries = 2,
                               ![p].from = loc[p].frame, ![p].frame = None]
        BY <1>3, <3>2
      <4>2. /\ \A q \in Procs : q # p => loc'[q] = loc[q]
            /\ loc'[p].pc = "kalloc" /\ loc'[p].call = "copy" /\ loc'[p].page = loc[p].page
            /\ loc'[p].kid = loc[p].kid /\ loc'[p].ret = loc[p].ret
        BY <1>1, <4>1 DEF LocTyped, LocalsTyped, Fields
      <4>3. loc[p].kid \in Procs /\ loc[p].kid # p
        BY <1>1, <3>2 DEF IInv, Forking, LocTyped, LocalsTyped
      <4>4. \A v \in Pages : pte'[loc[p].kid][v] = pte[loc[p].kid][v]
        BY <2>2, <4>3
      <4>5. Placed(loc[p])'
        BY <1>1, <2>1, <3>2, <4>2, <4>4 DEF Placed, Holding, SwapOut, Doing, Duplicating
      <4> QED
        BY <4>2, <4>5
    <3> QED
      BY <3>1, <3>2
  <2>4. FramesInv'
    <3>1. FramesInv /\ loc'[p].pc \notin Holding /\ pte[p][w] \notin Frames /\ freelist' = freelist
      BY <1>1, <1>3, <2>3 DEF FInv, Holding
    <3>2. \A q \in Procs : q # p => loc'[q] = loc[q]
      BY <2>3
    <3> HIDE DEF w
    <3>3. FrameMoves(p, p, w)
      BY <2>1, <2>2, <3>1, <3>2 DEF FrameMoves
    <3> QED
      BY <2>1, <3>1, <3>3, FrameToPage
  <2>5. Busy(p) /\ loc'[p].pc # "wait"
    BY <1>1, <2>3 DEF Busy
  <2> QED
    BY <1>1, <2>3, <2>4, <2>5, AloneStays DEF FInv
<1> QED
  BY <1>2, <1>3 DEF MapIn

\* fork puts a frame or a slot in a page of the child that had neither.
LEMMA ChildPteStepF ==
    ASSUME PageSwapAssumption, IInv, FInv, NEW p \in Procs, state[p] = "live",
           NEW e \in Frames \cup Slots, ChildPte(p, e), UNCHANGED <<state, freelist>>,
           \/ loc[p].pc = "copy" /\ e = loc[p].frame
           \/ loc[p].pc = "dupcopy" /\ e \in Slots
    PROVE  FInv'
<1> DEFINE kid == loc[p].kid
           w == loc[p].page
<1>1. /\ LocTyped /\ Placed(loc[p]) /\ FramesInv
      /\ pte \in [Procs -> [Pages -> Frames \cup Slots \cup {None}]]
  BY DEF IInv, Typed, FInv, PlaceInv
<1>2. /\ kid \in Procs /\ w \in Pages /\ kid # None /\ w \in Nat
      /\ \A v \in Pages : v >= w => pte[kid][v] = None
      /\ loc[p].pc = "copy" => loc[p].call = "copy" /\ loc[p].frame \in Frames
  <2>1. kid # None /\ w \in Pages /\ (loc[p].pc = "copy" => loc[p].call = "copy" /\ loc[p].frame \in Frames)
    BY <1>1 DEF Placed, Holding, SwapOut, Doing, Duplicating
  <2>2. kid \in Procs \cup {None} /\ w \in Nat
    BY <1>1 DEF LocTyped, LocalsTyped
  <2> QED
    BY <1>1, <2>1, <2>2 DEF Placed
<1>3. /\ pte' = [pte EXCEPT ![kid][w] = e]
      /\ loc' = [loc EXCEPT ![p].pc = "pages", ![p].page = @ + 1, ![p].blk = 1,
                            ![p].from = None, ![p].frame = None, ![p].slot = None]
  BY DEF ChildPte
<1>4. /\ pte[kid][w] = None /\ pte'[kid][w] = e
      /\ \A q \in Procs, v \in Pages : ~(q = kid /\ v = w) => pte'[q][v] = pte[q][v]
  BY <1>1, <1>2, <1>3
<1>5. \A q \in Procs : q # p => loc'[q] = loc[q]
  BY <1>1, <1>3 DEF LocTyped
<1>6. /\ loc'[p].pc = "pages" /\ loc'[p].page = w + 1 /\ loc'[p].kid = kid
      /\ loc'[p].ret = loc[p].ret /\ loc'[p].call = loc[p].call
  BY <1>1, <1>3 DEF LocTyped, LocalsTyped, Fields
<1>7. Placed(loc[p])'
  <2>1. \A v \in Pages : v >= w + 1 => pte'[kid][v] = None
    <3>1. \A v \in Pages : v >= w + 1 => v >= w /\ v # w
      BY <1>2 DEF Pages
    <3> QED
      BY <1>2, <1>4, <3>1
  <2> QED
    BY <1>2, <1>6, <2>1 DEF Placed, Holding, SwapOut, Doing, Duplicating
<1>8. FramesInv'
  <2>1. loc'[p].pc \notin Holding /\ None \notin Frames /\ \A s \in Slots : s \notin Frames
    BY <1>6 DEF Holding, Slots, None, PageSwapAssumption
  <2>2. CASE loc[p].pc = "copy" /\ e = loc[p].frame
    <3> PICK k \in Procs, u \in Pages : k = kid /\ u = w
      BY <1>2
    <3>1. /\ loc[p].pc \in Holding /\ loc[p].frame \in Frames /\ pte[k][u] \notin Frames
          /\ pte'[k][u] = loc[p].frame
      BY <1>2, <1>4, <2>1, <2>2 DEF Holding
    <3>2. FramesInv /\ freelist' = freelist /\ loc'[p].pc \notin Holding
      BY <1>1, <2>1
    <3>3. \A q \in Procs, v \in Pages : ~(q = k /\ v = u) => pte'[q][v] = pte[q][v]
      BY <1>4
    <3>4. FrameMoves(p, k, u)
      BY <1>5, <3>1, <3>2, <3>3 DEF FrameMoves
    <3> QED
      BY <3>2, <3>4, FrameToPage
  <2>3. CASE loc[p].pc = "dupcopy" /\ e \in Slots
    <3>1. loc[p].pc \notin Holding
      BY <2>3 DEF Holding
    <3>2. \A f \in Frames, q \in Procs, v \in Holders : FrameClaim(f, q, v)' <=> FrameClaim(f, q, v)
      <4> SUFFICES ASSUME NEW f \in Frames, NEW q \in Procs, NEW v \in Holders
                   PROVE  FrameClaim(f, q, v)' <=> FrameClaim(f, q, v)
        OBVIOUS
      <4>1. v \in Pages => (pte'[q][v] = f <=> pte[q][v] = f)
        BY <1>4, <2>1, <2>3
      <4>2. (loc'[q].pc \in Holding /\ loc'[q].frame = f) <=> (loc[q].pc \in Holding /\ loc[q].frame = f)
        BY <1>5, <2>1, <3>1
      <4> QED
        BY <4>1, <4>2 DEF FrameClaim
    <3>3. FramesInv /\ freelist' = freelist
      BY <1>1
    <3> HIDE DEF kid, w
    <3> QED
      BY <3>2, <3>3 DEF FramesInv
  <2> QED
    BY <2>2, <2>3
<1>9. Busy(p)
  BY DEF Busy
<1> QED
  BY <1>5, <1>6, <1>7, <1>8, <1>9, AloneStays DEF FInv

LEMMA CopyMapStepsF ==
    ASSUME PageSwapAssumption, IInv, FInv, NEW p \in Procs, CopyMap(p) \/ DupBlock(p) PROVE FInv'
<1>1. LocTyped /\ Placed(loc[p]) /\ UNCHANGED <<state, freelist>> /\ state[p] = "live"
  BY DEF IInv, Typed, FInv, PlaceInv, CopyMap, DupBlock, Running, table
<1>2. CASE CopyMap(p)
  <2>1. loc[p].pc = "copy" /\ ChildPte(p, loc[p].frame)
    BY <1>2 DEF CopyMap, Running
  <2>2. loc[p].frame \in Frames
    BY <1>1, <2>1 DEF Placed, Holding
  <2> QED
    BY <1>1, <2>1, <2>2, ChildPteStepF
<1>3. CASE DupBlock(p) /\ ~(loc[p].blk <= BLOCKS)
  <2>1. loc[p].pc = "dupcopy" /\ ChildPte(p, loc[p].slot)
    BY <1>3 DEF DupBlock, Running
  <2>2. loc[p].slot \in Slots
    BY <1>1, <2>1 DEF Placed
  <2> QED
    BY <1>1, <2>1, <2>2, ChildPteStepF
<1> QED
  BY <1>2, <1>3, BlockStepsF

-----------------------------------------------------------------------------
(* Steps after which everybody is at rest *)

LEMMA AllRest ==
    ASSUME \A q \in Procs : loc'[q] \in {AtRest, Rest("wait")},
           NEW r, \A q \in Procs : Up(q)' => q = r
    PROVE  OneAtATime' /\ IdleInv' /\ PlaceInv'
  BY RestPlaced DEF OneAtATime, IdleInv, PlaceInv

\* When p is up and comes to rest, everybody is at rest.
LEMMA ComesToRest ==
    ASSUME FInv, NEW p \in Procs, Up(p), NEW l \in {AtRest, Rest("wait")}, loc'[p] = l,
           \A q \in Procs : q # p => loc'[q] \in {loc[q], AtRest}
    PROVE  \A q \in Procs : loc'[q] \in {AtRest, Rest("wait")}
  BY OthersRest

\* Who finds a zombie is at rest, as everybody is.
LEMMA ZombieAlone ==
    ASSUME FInv, NEW z \in Procs, state[z] = "zombie"
    PROVE  \A q \in Procs : loc[q] \in {AtRest, Rest("wait")} /\ (Up(q) => q = z)
<1>1. Up(z) /\ ~Busy(z)
  BY DEF Up, Busy
<1>2. loc[z] \in {AtRest, Rest("wait")}
  BY <1>1 DEF FInv, IdleInv
<1> QED
  BY <1>1, <1>2, OthersRest DEF FInv, OneAtATime

\* Nobody's hands change where nobody has a frame in hand.
LEMMA SameFrames ==
    ASSUME FramesInv, UNCHANGED <<pte, freelist>>,
           \A q \in Procs : loc[q].pc \notin Holding /\ loc'[q].pc \notin Holding
    PROVE  FramesInv'
  BY DEF FramesInv, FrameClaim

\* A page table gives back its frames.
LEMMA TableFreed ==
    ASSUME PageSwapAssumption, FramesInv, Typed, NEW z \in Procs, freelist' = freelist \cup FramesOf(z),
           pte' = [pte EXCEPT ![z] = [v \in Pages |-> None]],
           \A q \in Procs : loc[q].pc \notin Holding /\ loc'[q].pc \notin Holding
    PROVE  FramesInv'
<1>1. None \notin Frames /\ None \notin Pages
  BY DEF Pages, None, PageSwapAssumption
<1>2. /\ \A q \in Procs : q # z => pte'[q] = pte[q]
      /\ \A v \in Pages : pte'[z][v] = None
  BY DEF Typed
<1>3. \A f \in Frames : f \in FramesOf(z) <=> \E v \in Pages : FrameClaim(f, z, v)
  BY <1>1 DEF FramesOf, Resident, FrameClaim
<1>4. \A f \in Frames, q \in Procs, v \in Holders :
          FrameClaim(f, q, v)' <=> FrameClaim(f, q, v) /\ f \notin FramesOf(z)
  <2> SUFFICES ASSUME NEW f \in Frames, NEW q \in Procs, NEW v \in Holders
               PROVE  FrameClaim(f, q, v)' <=> FrameClaim(f, q, v) /\ f \notin FramesOf(z)
    OBVIOUS
  <2>1. FrameClaim(f, q, v) => v \in Pages /\ pte[q][v] = f
    BY DEF FrameClaim
  <2>2. FrameClaim(f, q, v)' => v \in Pages /\ pte'[q][v] = f
    BY DEF FrameClaim
  <2>3. CASE q = z
    BY <1>1, <1>2, <1>3, <2>1, <2>2, <2>3
  <2>4. CASE q # z
    <3>1. FrameClaim(f, q, v) => f \notin FramesOf(z)
      BY <1>3, <2>4 DEF FramesInv, Holders
    <3>2. FrameClaim(f, q, v)' <=> FrameClaim(f, q, v)
      BY <1>1, <1>2, <2>1, <2>2, <2>4 DEF FrameClaim
    <3> QED
      BY <3>1, <3>2
  <2> QED
    BY <2>3, <2>4
<1> QED
  BY <1>4, FramesFreed

LEMMA ExecCommitStepF ==
    ASSUME PageSwapAssumption, IInv, FInv, NEW p \in Procs, ExecCommit(p) PROVE FInv'
<1>1. /\ Typed /\ LocTyped /\ Placed(loc[p]) /\ FramesInv /\ state' = state
      /\ state[p] = "live" /\ loc[p].pc = "exec"
  BY DEF IInv, Typed, FInv, PlaceInv, ExecCommit, Running
<1>2. /\ pte' = [pte EXCEPT ![p] = [v \in Pages |-> IF v = 1 THEN loc[p].frame ELSE None]]
      /\ freelist' = freelist \cup FramesOf(p)
      /\ loc' = Cut([loc EXCEPT ![p] = AtRest], p, {"out", "write", "set"})
  BY DEF ExecCommit
<1>3. Busy(p) /\ Up(p) /\ p # None
  BY <1>1 DEF Busy, Up, None, PageSwapAssumption
<1>4. \A q \in Procs : q # p => loc[q] \in {AtRest, Rest("wait")}
  BY <1>3, OthersRest
<1>5. \A l \in {AtRest, Rest("wait")} : l.victim = None /\ l.pc \notin Holding
  BY RestIs
<1>6. loc'[p] = AtRest /\ \A q \in Procs : q # p => loc'[q] = loc[q]
  <2> DEFINE l == [loc EXCEPT ![p] = AtRest]
  <2>1. l[p] = AtRest /\ \A q \in Procs : q # p => l[q] = loc[q]
    BY <1>1 DEF LocTyped
  <2>2. \A q \in Procs : l[q].victim = None
    BY <1>4, <1>5, <2>1
  <2>3. loc' = Cut(l, p, {"out", "write", "set"})
    BY <1>2
  <2> HIDE DEF l
  <2>4. \A q \in Procs : loc'[q] = l[q]
    BY <1>3, <2>2, <2>3 DEF Cut
  <2> QED
    BY <2>1, <2>4
<1>7. FramesInv'
  <2> DEFINE g == loc[p].frame
  <2>1. g \in Frames /\ 1 \in Pages /\ None \notin Frames /\ None \notin Pages /\ None \in Holders
    BY <1>1 DEF Placed, Holding, Pages, Holders, None, PageSwapAssumption
  <2>2. FrameClaim(g, p, None)
    BY <1>1 DEF FrameClaim, Holding
  <2>3. /\ \A q \in Procs : q # p => pte'[q] = pte[q]
        /\ \A v \in Pages : pte'[p][v] = IF v = 1 THEN g ELSE None
    BY <1>1, <1>2 DEF Typed
  <2>4. \A f \in Frames : f \in FramesOf(p) <=> \E v \in Pages : FrameClaim(f, p, v)
    BY <2>1 DEF FramesOf, Resident, FrameClaim
  <2>5. g \notin FramesOf(p)
    BY <1>1, <2>1, <2>2, <2>4 DEF FramesInv, Holders
  <2>6. \A q \in Procs : q # p => loc[q].pc \notin Holding
    BY <1>4, <1>5
  <2>7. loc'[p].pc \notin Holding
    BY <1>5, <1>6
  <2>8. \A f \in Frames, q \in Procs, v \in Holders :
            FrameClaim(f, q, v)' <=> IF f = g THEN q = p /\ v = 1
                                     ELSE FrameClaim(f, q, v) /\ f \notin FramesOf(p)
    <3> SUFFICES ASSUME NEW f \in Frames, NEW q \in Procs, NEW v \in Holders
                 PROVE  FrameClaim(f, q, v)' <=> IF f = g THEN q = p /\ v = 1
                                                 ELSE FrameClaim(f, q, v) /\ f \notin FramesOf(p)
      OBVIOUS
    <3>1. f = g /\ FrameClaim(f, q, v) => q = p /\ v = None
      BY <1>1, <2>1, <2>2 DEF FramesInv
    <3>2. CASE q = p
      <4>1. FrameClaim(f, p, v)' <=> v \in Pages /\ f = g /\ v = 1
        BY <2>1, <2>3, <2>7 DEF FrameClaim
      <4>2. f # g /\ FrameClaim(f, p, v) => v \in Pages
        BY DEF FrameClaim
      <4> QED
        BY <2>1, <2>4, <3>2, <4>1, <4>2
    <3>3. CASE q # p
      <4>1. FrameClaim(f, q, v)' <=> FrameClaim(f, q, v)
        BY <1>6, <2>3, <3>3 DEF FrameClaim
      <4>2. FrameClaim(f, q, v) => f \notin FramesOf(p)
        BY <1>1, <2>4, <3>3 DEF FramesInv, Holders
      <4> QED
        BY <3>1, <3>3, <4>1, <4>2
    <3> QED
      BY <3>2, <3>3
  <2> HIDE DEF g
  <2> QED
    BY <1>1, <1>2, <2>1, <2>2, <2>5, <2>8, FrameMapped
<1>8. Placed(loc[p])' /\ loc'[p].pc # "wait"
  BY <1>6, RestPlaced DEF AtRest
<1> QED
  BY <1>1, <1>3, <1>6, <1>7, <1>8, AloneStays DEF FInv

LEMMA ShrinkStepF == ASSUME PageSwapAssumption, IInv, FInv, NEW p \in Procs, Shrink(p) PROVE FInv'
<1>1. /\ Typed /\ FramesInv /\ UNCHANGED <<state, loc>> /\ state[p] = "live"
      /\ loc[p].pc = "user" /\ sz[p] \in Pages
  <2>1. Typed /\ FramesInv /\ UNCHANGED <<state, loc>> /\ state[p] = "live" /\ loc[p].pc = "user"
    BY DEF IInv, FInv, Shrink, Calling, Running
  <2>2. sz[p] \in 0..MaxPages /\ sz[p] > 1
    BY <2>1 DEF Typed, Shrink
  <2> QED
    BY <2>1, <2>2 DEF Pages, PageSwapAssumption
<1> DEFINE u == sz[p]
           g == pte[p][sz[p]]
<1>2. CASE g \notin Frames
  <2>1. UNCHANGED <<pte, freelist>>
    BY <1>2 DEF Shrink
  <2> QED
    BY <1>1, <2>1, UnchangedF
<1>3. CASE g \in Frames
  <2>1. pte' = [pte EXCEPT ![p][sz[p]] = None] /\ freelist' = freelist \cup {g}
    BY <1>3 DEF Shrink
  <2>2. /\ pte'[p][u] = None
        /\ \A q \in Procs, v \in Pages : ~(q = p /\ v = u) => pte'[q][v] = pte[q][v]
    BY <1>1, <2>1 DEF Typed
  <2>3. None \notin Frames /\ None \notin Pages /\ u \in Pages /\ u \in Holders
    BY <1>1 DEF Pages, None, Holders, PageSwapAssumption
  <2>4. FrameClaim(g, p, u)
    BY <2>3 DEF FrameClaim
  <2>5. \A f \in Frames, q \in Procs, v \in Holders :
            FrameClaim(f, q, v)' <=> FrameClaim(f, q, v) /\ f \notin {g}
    <3> SUFFICES ASSUME NEW f \in Frames, NEW q \in Procs, NEW v \in Holders
                 PROVE  FrameClaim(f, q, v)' <=> FrameClaim(f, q, v) /\ f # g
      OBVIOUS
    <3>1. CASE q = p /\ v = u
      BY <2>2, <2>3, <3>1 DEF FrameClaim
    <3>2. CASE ~(q = p /\ v = u)
      <4>1. FrameClaim(f, q, v)' <=> FrameClaim(f, q, v)
        BY <1>1, <2>2, <3>2 DEF FrameClaim
      <4>2. ~FrameClaim(g, q, v)
        <5> HIDE DEF u, g
        <5> QED
          BY <1>1, <1>3, <2>3, <2>4, <3>2 DEF FramesInv
      <4> QED
        BY <4>1, <4>2
    <3> QED
      BY <3>1, <3>2
  <2>6. FramesInv'
    BY <1>1, <2>1, <2>5, FramesFreed
  <2>7. loc[p] = AtRest
    BY <1>1 DEF FInv, IdleInv, Rest, AtRest
  <2>8. Placed(loc[p])' /\ Busy(p)
    BY <1>1, <2>7, RestPlaced DEF Busy
  <2> QED
    BY <1>1, <2>6, <2>7, <2>8, AloneStays DEF FInv
<1> QED
  BY <1>2, <1>3

LEMMA KallocFailsStepF ==
    ASSUME PageSwapAssumption, IInv, FInv, NEW p \in Procs, KallocFails(p) PROVE FInv'
<1>1. Typed /\ LocTyped /\ FramesInv /\ state[p] = "live" /\ loc[p].pc \in {"kalloc", "dup"}
  BY DEF IInv, Typed, FInv, KallocFails, NothingToDup, Running
<1>2. Busy(p) /\ Up(p) /\ loc[p].pc \notin Holding
  BY <1>1 DEF Busy, Up, Holding
<1>3. CASE /\ UNCHANGED <<state, pte, freelist>>
           /\ loc' = [loc EXCEPT ![p] = IF loc[p].call = "fault" THEN Rest("exit") ELSE AtRest]
  <2>1. PICK l \in {AtRest, Rest("exit")} : loc' = [loc EXCEPT ![p] = l]
    BY <1>3
  <2>2. loc'[p] = l /\ \A q \in Procs : q # p => loc'[q] = loc[q]
    BY <1>1, <2>1 DEF LocTyped
  <2>3. loc'[p].pc \in {"user", "exit"} /\ (loc'[p].pc = "user" => loc'[p] = AtRest)
    BY <2>2 DEF AtRest, Rest
  <2>4. Placed(loc[p])'
    BY <2>2, RestPlaced
  <2> QED
    BY <1>2, <1>3, <2>2, <2>3, <2>4, CallsKeepF DEF Holding
<1>4. CASE LET kid == loc[p].kid
           IN  /\ kid # None /\ Freevm(FramesOf(kid))
               /\ pte' = [pte EXCEPT ![kid] = [v \in Pages |-> None]]
               /\ state' = [state EXCEPT ![kid] = "unused"]
               /\ loc' = [loc EXCEPT ![p] = AtRest]
  <2> DEFINE kid == loc[p].kid
  <2>1. kid \in Procs /\ state[kid] = "embryo"
    BY <1>1, <1>4 DEF LocTyped, LocalsTyped, IInv, Forking
  <2>2. loc'[p] = AtRest /\ \A q \in Procs : q # p => loc'[q] = loc[q]
    BY <1>1, <1>4 DEF LocTyped
  <2>3. state'[kid] = "unused" /\ \A q \in Procs : q # kid => state'[q] = state[q]
    BY <1>1, <1>4, <2>1 DEF Typed
  <2>4. \A q \in Procs : loc'[q] \in {AtRest, Rest("wait")}
    BY <1>2, <2>2, ComesToRest
  <2>5. \A q \in Procs : Up(q)' => q = p
    <3>1. \A q \in Procs : q # p => ~Up(q)
      BY <1>2, OthersRest
    <3> QED
      BY <2>2, <2>3, <3>1 DEF Up, Busy
  <2>6. \A q \in Procs : loc[q].pc \notin Holding /\ loc'[q].pc \notin Holding
    <3>1. \A q \in Procs : q # p => loc[q] \in {AtRest, Rest("wait")}
      BY <1>2, OthersRest
    <3> QED
      BY <1>2, <2>4, <3>1, RestIs
  <2>7. FramesInv'
    BY <1>1, <1>4, <2>1, <2>6, TableFreed DEF Freevm
  <2> QED
    BY <2>4, <2>5, <2>7, AllRest DEF FInv
<1> QED
  BY <1>3, <1>4 DEF KallocFails

LEMMA WaitStepF ==
    ASSUME PageSwapAssumption, Foreground, IInv, FInv, NEW p \in Procs, NEW z \in Procs, Wait(p, z)
    PROVE  FInv'
<1>1. /\ Typed /\ LocTyped /\ FramesInv /\ state[z] = "zombie" /\ p # z /\ z # None
      /\ pte' = [pte EXCEPT ![z] = [v \in Pages |-> None]]
      /\ state' = [state EXCEPT ![z] = "unused"] /\ freelist' = freelist \cup FramesOf(z)
      /\ loc' = Cut([loc EXCEPT ![p] = AtRest], z, {"page", "out", "write", "set"})
  BY DEF IInv, Typed, FInv, Wait, Running, Freevm, None, PageSwapAssumption
<1>2. \A q \in Procs : loc[q] \in {AtRest, Rest("wait")} /\ (Up(q) => q = z)
  BY <1>1, ZombieAlone
<1>3. \A l \in {AtRest, Rest("wait")} : l.victim = None /\ l.pc \notin Holding
  BY RestIs
<1>4. loc'[p] = AtRest /\ \A q \in Procs : q # p => loc'[q] = loc[q]
  <2> DEFINE l == [loc EXCEPT ![p] = AtRest]
  <2>1. l[p] = AtRest /\ \A q \in Procs : q # p => l[q] = loc[q]
    BY <1>1 DEF LocTyped
  <2>2. \A q \in Procs : l[q].victim = None
    BY <1>2, <1>3, <2>1
  <2>3. loc' = Cut(l, z, {"page", "out", "write", "set"})
    BY <1>1
  <2> HIDE DEF l
  <2>4. \A q \in Procs : loc'[q] = l[q]
    BY <1>1, <2>2, <2>3 DEF Cut
  <2> QED
    BY <2>1, <2>4
<1>5. \A q \in Procs : loc'[q] \in {AtRest, Rest("wait")}
  BY <1>2, <1>4
<1>6. state'[z] = "unused" /\ \A q \in Procs : q # z => state'[q] = state[q]
  BY <1>1 DEF Typed
<1>7. \A q \in Procs : Up(q)' => q = p
  BY <1>2, <1>4, <1>6 DEF Up, Busy
<1>8. FramesInv'
  BY <1>1, <1>2, <1>3, <1>5, TableFreed
<1> QED
  BY <1>5, <1>7, <1>8, AllRest DEF FInv

LEMMA ForkStepF ==
    ASSUME PageSwapAssumption, IInv, FInv, NEW p \in Procs, NEW kid \in Procs, Fork(p, kid)
    PROVE  FInv'
<1>1. /\ Typed /\ LocTyped /\ FramesInv /\ state[p] = "live" /\ loc[p].pc = "user"
      /\ state[kid] = "unused" /\ kid # None /\ UNCHANGED <<pte, freelist>>
      /\ state' = [state EXCEPT ![kid] = "embryo"]
      /\ loc' = [loc EXCEPT ![p].pc = "pages", ![p].kid = kid, ![p].page = 1]
  BY DEF IInv, Typed, FInv, Fork, Calling, Running, IsFirst, Taken, store, None, PageSwapAssumption
<1>2. Busy(p) /\ Up(p) /\ loc[p] = AtRest
  <2>1. loc[p] \in {AtRest, Rest("wait")} /\ Rest("wait").pc = "wait"
    BY <1>1 DEF FInv, IdleInv, Rest, AtRest
  <2> QED
    BY <1>1, <2>1 DEF Busy, Up
<1>3. \A q \in Procs : q # p => ~Up(q) /\ loc[q] \in {AtRest, Rest("wait")}
  BY <1>2, OthersRest
<1>4. /\ \A q \in Procs : q # p => loc'[q] = loc[q]
      /\ loc'[p].pc = "pages" /\ loc'[p].kid = kid /\ loc'[p].page = 1
      /\ loc'[p].ret = loc[p].ret /\ loc'[p].call = loc[p].call
  BY <1>1 DEF LocTyped, LocalsTyped, Fields
<1>5. state'[kid] = "embryo" /\ \A q \in Procs : q # kid => state'[q] = state[q]
  BY <1>1 DEF Typed
<1>6. \A q \in Procs : Up(q)' => q = p
  BY <1>3, <1>4, <1>5 DEF Up, Busy
<1>7. Placed(loc[p])'
  <2>1. \A w \in Pages : pte'[kid][w] = None
    BY <1>1 DEF IInv, Unborn
  <2>2. loc[p].call = "none"
    BY <1>2, RestIs
  <2> QED
    BY <1>1, <1>4, <2>1, <2>2 DEF Placed, Holding, SwapOut, Doing, Duplicating
<1>8. FramesInv'
  <2>1. \A q \in Procs : loc[q].pc \notin Holding /\ loc'[q].pc \notin Holding
    BY <1>2, <1>3, <1>4, RestIs DEF Holding
  <2> QED
    BY <1>1, <2>1, SameFrames
<1>9. OneAtATime'
  BY <1>6 DEF OneAtATime
<1>10. IdleInv'
  <2>1. Busy(p)' /\ loc'[p].pc # "user"
    BY <1>1, <1>4, <1>5 DEF Busy
  <2> QED
    BY <1>3, <1>4, <2>1 DEF IdleInv
<1>11. PlaceInv'
  BY <1>3, <1>4, <1>7, RestPlaced DEF PlaceInv
<1> QED
  BY <1>8, <1>9, <1>10, <1>11 DEF FInv

LEMMA ForkDoneStepF ==
    ASSUME PageSwapAssumption, Foreground, IInv, FInv, NEW p \in Procs, ForkDone(p) PROVE FInv'
<1> DEFINE kid == loc[p].kid
<1>1. /\ Typed /\ LocTyped /\ FramesInv /\ state[p] = "live" /\ loc[p].pc = "pages"
      /\ UNCHANGED <<pte, freelist>> /\ Placed(loc[p])
      /\ state' = [state EXCEPT ![kid] = "live"]
      /\ loc' = [loc EXCEPT ![kid] = AtRest, ![p] = Rest("wait")]
  BY DEF IInv, Typed, FInv, PlaceInv, ForkDone, Running, store, Foreground
<1>2. kid \in Procs /\ kid # p
  <2>1. kid # None
    BY <1>1 DEF Placed, Doing, SwapOut, Duplicating
  <2>2. kid \in Procs \cup {None}
    BY <1>1 DEF LocTyped, LocalsTyped
  <2>3. state[kid] = "embryo"
    BY <2>1 DEF IInv, Forking
  <2> QED
    BY <1>1, <2>1, <2>2, <2>3
<1>3. Busy(p) /\ Up(p)
  BY <1>1 DEF Busy, Up
<1>4. \A q \in Procs : q # p => ~Up(q) /\ loc[q] \in {AtRest, Rest("wait")}
  BY <1>3, OthersRest
<1>5. loc'[p] = Rest("wait") /\ loc'[kid] = AtRest /\ \A q \in Procs : q # p /\ q # kid => loc'[q] = loc[q]
  BY <1>1, <1>2 DEF LocTyped
<1>6. \A q \in Procs : q # kid => state'[q] = state[q]
  BY <1>1, <1>2 DEF Typed
<1>7. \A q \in Procs : loc'[q] \in {AtRest, Rest("wait")}
  BY <1>4, <1>5
<1>8. \A q \in Procs : Up(q)' => q = kid
  <2>1. Rest("wait").pc = "wait"
    BY DEF Rest, AtRest
  <2>2. ~Up(p)'
    BY <1>1, <1>2, <1>5, <1>6, <2>1 DEF Up, Busy
  <2> QED
    BY <1>4, <1>5, <1>6, <2>2 DEF Up, Busy
<1>9. FramesInv'
  <2>1. \A q \in Procs : loc[q].pc \notin Holding /\ loc'[q].pc \notin Holding
    BY <1>1, <1>4, <1>7, RestIs DEF Holding
  <2> QED
    BY <1>1, <2>1, SameFrames
<1> QED
  BY <1>7, <1>8, <1>9, AllRest DEF FInv

LEMMA ExitStepF == ASSUME PageSwapAssumption, IInv, FInv, NEW p \in Procs, Exit(p) PROVE FInv'
<1>1. /\ Typed /\ LocTyped /\ FramesInv /\ state[p] = "live" /\ loc[p].pc \in {"user", "exit"}
      /\ UNCHANGED <<pte, freelist>> /\ state' = [state EXCEPT ![p] = "zombie"]
      /\ loc' = [loc EXCEPT ![p] = AtRest]
  BY DEF IInv, Typed, FInv, Exit, Running
<1>2. Up(p)
  BY <1>1 DEF Up, Busy
<1>3. \A q \in Procs : q # p => ~Up(q) /\ loc[q] \in {AtRest, Rest("wait")}
  BY <1>2, OthersRest
<1>4. loc'[p] = AtRest /\ \A q \in Procs : q # p => loc'[q] = loc[q]
  BY <1>1 DEF LocTyped
<1>5. \A q \in Procs : q # p => state'[q] = state[q]
  BY <1>1 DEF Typed
<1>6. \A q \in Procs : loc'[q] \in {AtRest, Rest("wait")}
  BY <1>3, <1>4
<1>7. \A q \in Procs : Up(q)' => q = p
  BY <1>3, <1>4, <1>5 DEF Up, Busy
<1>8. FramesInv'
  <2>1. \A q \in Procs : loc[q].pc \notin Holding /\ loc'[q].pc \notin Holding
    BY <1>1, <1>3, <1>6, RestIs DEF Holding
  <2> QED
    BY <1>1, <2>1, SameFrames
<1> QED
  BY <1>6, <1>7, <1>8, AllRest DEF FInv

-----------------------------------------------------------------------------
(* Frames have one owner *)

LEMMA NextFInv ==
    ASSUME PageSwapAssumption, Foreground, IInv, FInv, [Next]_vars PROVE FInv'
<1>1. CASE UNCHANGED vars
  BY <1>1, UnchangedF DEF vars, table, store
<1>2. ASSUME NEW p \in Procs, Kernel(p) PROVE FInv'
  BY <1>2, KallocStepF, SwapOutStepsF, PageOutStepF, SetPteStepF, BlockStepsF, GrowMapStepF,
     MapInStepF, ExecCommitStepF, KallocFailsStepF, ForkStepsF, CopyMapStepsF, ForkDoneStepF
     DEF Kernel
<1>3. ASSUME NEW p \in Procs, NEW v \in Pages,
             \/ Fault(p, v) \/ Segfault(p, v) \/ Buffer(p, v)
             \/ \E b \in 1..BLOCKS, x \in Vals : Write(p, v, b, x)
      PROVE  FInv'
  BY <1>3, UserStepsF, StillStepsF
<1>4. ASSUME NEW p \in Procs, Preempt(p) \/ Grow(p) \/ Shrink(p) \/ Exec(p) \/ Exit(p)
      PROVE  FInv'
  BY <1>4, UserStepsF, StillStepsF, ShrinkStepF, ExitStepF
<1>5. ASSUME NEW p \in Procs, NEW q \in Procs, Fork(p, q) \/ Wait(p, q) PROVE FInv'
  BY <1>5, ForkStepF, WaitStepF
<1> QED
  BY <1>1, <1>2, <1>3, <1>4, <1>5 DEF Next

\* The holders of a frame are its claims.
LEMMA HoldersAreClaims ==
    ASSUME PageSwapAssumption, IInv, FInv PROVE FramesAccounted
<1> SUFFICES ASSUME NEW f \in Frames
             PROVE  Cardinality(FrameHolders(f)) = IF f \in freelist THEN 0 ELSE 1
  BY DEF FramesAccounted
<1>1. None \notin Frames /\ None \notin Pages /\ FramesInv
  BY DEF None, Pages, PageSwapAssumption, FInv
<1>2. \A h \in FrameHolders(f) : h[1] \in Procs /\ h[2] \in Holders /\ h = <<h[1], h[2]>>
                                /\ FrameClaim(f, h[1], h[2])
  <2> SUFFICES ASSUME NEW h \in FrameHolders(f)
               PROVE  /\ h[1] \in Procs /\ h[2] \in Holders /\ h = <<h[1], h[2]>>
                      /\ FrameClaim(f, h[1], h[2])
    OBVIOUS
  <2>1. CASE h \in Procs \X Pages /\ pte[h[1]][h[2]] = f
    BY <2>1 DEF FrameClaim, Holders
  <2>2. CASE \E p \in Procs : /\ h = <<p, None>> /\ loc[p].pc \in Holding
                              /\ loc[p].frame = f
    BY <2>2 DEF FrameClaim, Holders
  <2> QED
    BY <2>1, <2>2 DEF FrameHolders, Holding
<1>3. \A p \in Procs, v \in Holders : FrameClaim(f, p, v) => <<p, v>> \in FrameHolders(f)
  <2> SUFFICES ASSUME NEW p \in Procs, NEW v \in Holders, FrameClaim(f, p, v)
               PROVE  <<p, v>> \in FrameHolders(f)
    OBVIOUS
  <2>1. CASE v \in Pages /\ pte[p][v] = f
    <3>1. state[p] # "unused"
      BY <1>1, <2>1 DEF IInv, Unborn
    <3> QED
      BY <2>1, <3>1 DEF FrameHolders
  <2>2. CASE v = None /\ loc[p].pc \in Holding /\ loc[p].frame = f
    BY <2>2 DEF FrameHolders, Holding
  <2> QED
    BY <2>1, <2>2 DEF FrameClaim
<1>4. CASE f \in freelist
  <2>1. FrameHolders(f) = {}
    BY <1>1, <1>2, <1>4 DEF FramesInv
  <2> QED
    BY <1>4, <2>1, FS_EmptySet
<1>5. CASE f \notin freelist
  <2>1. PICK p \in Procs, v \in Holders : FrameClaim(f, p, v)
    BY <1>1, <1>5 DEF FramesInv
  <2>2. FrameHolders(f) = {<<p, v>>}
    <3>1. <<p, v>> \in FrameHolders(f)
      BY <1>3, <2>1
    <3>2. \A h \in FrameHolders(f) : h = <<p, v>>
      BY <1>1, <1>2, <2>1 DEF FramesInv
    <3> QED
      BY <3>1, <3>2
  <2> QED
    BY <1>5, <2>2, FS_Singleton
<1> QED
  BY <1>4, <1>5

\* Every frame is free or has one owner (kalloc, kfree, allocuvm, deallocuvm, swapPageIn,
\* swapOutPages, copyuvm, freevm): where a parent waits for its child, and no program
\* touches a page that it does not have, memory neither leaks nor is given out twice.
THEOREM FramesHaveOneOwner ==
    ASSUME ~Background, "stray" \notin Calls PROVE Spec => []FramesAccounted
<1>1. Foreground
  BY DEF Foreground
<1>2. Init => IInv /\ FInv
  BY <1>1, PageSwapAssumption, InitIInv, InitFInv
<1>3. IInv /\ FInv /\ [Next]_vars => IInv' /\ FInv'
  BY <1>1, PageSwapAssumption, NextIInv, NextFInv DEF Foreground
<1>4. IInv /\ FInv => FramesAccounted
  BY PageSwapAssumption, HoldersAreClaims
<1> QED
  BY <1>2, <1>3, <1>4, PTL DEF Spec

-----------------------------------------------------------------------------
(* Programs that do not fork: what each step does *)

\* A process that does not fork swaps out pages for want of a frame only, and executes a
\* file only where programs call exec.
Plain(l) == /\ l.kid = None /\ l.call # "copy" /\ l.ret # "dup"
            /\ l.pc \notin {"pages", "copy", "dup", "dupcopy"}
            /\ l.pc \in SwapOut => l.ret = "kalloc"
            /\ "exec" \in {l.pc, l.call} => "exec" \in Calls

\* A fault is on a page in the slot that it reads.
Faulting(p) == loc[p].call = "fault" =>
                   loc[p].from \in Slots /\ pte[p][loc[p].page] = loc[p].from

PlainInv == \A p \in Procs : Plain(loc[p]) /\ Faulting(p) /\ state[p] # "embryo"

\* What a step of p in its call leaves in loc[p]
SameCall(p) == /\ loc'[p].call = loc[p].call /\ loc'[p].page = loc[p].page
               /\ loc'[p].from = loc[p].from /\ loc'[p].kid = loc[p].kid
OthersStay(p) == \A q \in Procs : q # p => loc'[q] = loc[q]

LEMMA UserEffect ==
    ASSUME PageSwapAssumption, Foreground, IInv, FInv, NEW p \in Procs,
           \/ \E v \in Pages : Fault(p, v) \/ Segfault(p, v)
           \/ Grow(p) \/ Exec(p)
    PROVE  /\ UNCHANGED <<state, sz, pte, cr3, mem, disk, freelist, freeSlots, written>>
           /\ state[p] = "live" /\ loc[p].pc = "user" /\ loc[p] = AtRest /\ OthersStay(p)
           /\ \/ loc'[p] = Rest("exit")
              \/ /\ loc'[p].pc = "kalloc" /\ loc'[p].kid = None /\ loc'[p].ret = "none"
                 /\ loc'[p].call \in {"grow", "fault", "exec"}
                 /\ loc'[p].call = "exec" => "exec" \in Calls
                 /\ loc'[p].call = "fault" => /\ loc'[p].from \in Slots
                                              /\ pte[p][loc'[p].page] = loc'[p].from
<1>1. /\ LocTyped /\ state[p] = "live" /\ loc[p].pc = "user"
      /\ UNCHANGED <<state, sz, pte, cr3, mem, disk, freelist, freeSlots, written>>
  BY DEF IInv, Typed, Fault, Segfault, Grow, Exec, Calling, Running, table, store
<1>2. loc[p] = AtRest
  BY <1>1 DEF FInv, IdleInv, Rest, AtRest
<1>3. loc[p].call = "none" /\ loc[p].kid = None /\ loc[p].ret = "none"
  BY <1>2, RestIs
<1>4. CASE \E v \in Pages : Segfault(p, v)
  <2>1. loc' = [loc EXCEPT ![p] = Rest("exit")]
    BY <1>4 DEF Segfault
  <2>2. loc'[p] = Rest("exit") /\ OthersStay(p)
    BY <1>1, <2>1 DEF LocTyped, OthersStay
  <2> QED
    BY <1>1, <1>2, <2>2
<1>5. CASE \E v \in Pages : Fault(p, v)
  <2>1. PICK v \in Pages : Fault(p, v)
    BY <1>5
  <2>2. pte[p][v] # None /\ pte[p][v] \in Slots
    BY <2>1 DEF Fault, SlotIndex, Foreground
  <2>3. loc' = [loc EXCEPT ![p].pc = "kalloc", ![p].call = "fault", ![p].tries = 5,
                           ![p].page = v, ![p].from = pte[p][v]]
    BY <2>1, <2>2 DEF Fault, SlotIndex
  <2>4. /\ OthersStay(p) /\ loc'[p].pc = "kalloc" /\ loc'[p].call = "fault"
        /\ loc'[p].page = v /\ loc'[p].from = pte[p][v]
        /\ loc'[p].kid = None /\ loc'[p].ret = "none"
    BY <1>1, <1>3, <2>3 DEF LocTyped, LocalsTyped, Fields, OthersStay
  <2> QED
    BY <1>1, <1>2, <2>2, <2>4
<1>6. CASE Grow(p) \/ Exec(p)
  <2>1. PICK c \in {"grow", "exec"} :
            /\ loc' = [loc EXCEPT ![p].pc = "kalloc", ![p].call = c, ![p].tries = 8]
            /\ c = "exec" => "exec" \in Calls
    BY <1>6 DEF Grow, Exec, Calling
  <2>2. /\ OthersStay(p) /\ loc'[p].pc = "kalloc" /\ loc'[p].call = c
        /\ loc'[p].kid = None /\ loc'[p].ret = "none"
    BY <1>1, <1>3, <2>1 DEF LocTyped, LocalsTyped, Fields, OthersStay
  <2> QED
    BY <1>1, <1>2, <2>1, <2>2
<1> QED
  BY <1>4, <1>5, <1>6

\* checkAndSwap looks for a victim, its page and a slot.
LEMMA SearchEffect ==
    ASSUME PageSwapAssumption, IInv, FInv, PlainInv, NEW p \in Procs,
           CheckAndSwap(p) \/ FindVictimProc(p) \/ FindVictimPage(p) \/ PageOut(p)
    PROVE  /\ UNCHANGED <<state, sz, pte, cr3, mem, disk, freelist, written>>
           /\ state[p] = "live" /\ loc[p].pc \in {"kalloc", "victim", "page", "out"}
           /\ OthersStay(p) /\ SameCall(p) /\ loc'[p].ret # "dup"
           /\ loc'[p].pc \in {"kalloc", "victim", "page", "out", "write"}
           /\ loc'[p].pc \in SwapOut => loc'[p].ret = "kalloc"
           /\ \/ loc'[p].pc # "write" /\ freeSlots' = freeSlots
              \/ /\ loc'[p].pc = "write" /\ loc'[p].blk = 1 /\ loc'[p].slot \in Slots
                 /\ loc'[p].slot \in freeSlots /\ freeSlots' = freeSlots \ {loc'[p].slot}
<1>1. /\ LocTyped /\ Placed(loc[p]) /\ Plain(loc[p]) /\ state[p] = "live"
      /\ UNCHANGED <<state, sz, pte, cr3, mem, disk, freelist, written>>
      /\ loc[p].pc \in {"kalloc", "victim", "page", "out"}
  <2>1. /\ LocTyped /\ Placed(loc[p]) /\ Plain(loc[p])
    BY DEF IInv, Typed, FInv, PlaceInv, PlainInv
  <2>2. /\ UNCHANGED <<state, sz, pte, cr3, mem, disk, freelist, written>> /\ state[p] = "live"
        /\ loc[p].pc \in {"kalloc", "dup", "victim", "page", "out"}
    BY DEF CheckAndSwap, FindVictimProc, FindVictimPage, PageOut, Starved, Running, table, store
  <2> QED
    BY <2>1, <2>2 DEF Plain
<1>2. CASE CheckAndSwap(p)
  <2>1. loc[p].pc = "kalloc"
    BY <1>1, <1>2 DEF CheckAndSwap, Starved, Running, Plain
  <2>2. PICK l \in {"kalloc", "victim"} :
            loc' = [loc EXCEPT ![p].tries = @ - 1, ![p].ret = loc[p].pc, ![p].pc = l]
    <3>1. CASE Cardinality(freelist) > threshold
      BY <1>1, <1>2, <2>1, <3>1 DEF LocTyped, LocalsTyped, Fields, CheckAndSwap
    <3>2. CASE ~(Cardinality(freelist) > threshold)
      BY <1>2, <3>2 DEF CheckAndSwap
    <3> QED
      BY <3>1, <3>2
  <2>3. OthersStay(p) /\ SameCall(p) /\ loc'[p].pc = l /\ loc'[p].ret = "kalloc"
    BY <1>1, <2>1, <2>2 DEF LocTyped, LocalsTyped, Fields, OthersStay, SameCall
  <2>4. freeSlots' = freeSlots
    BY <1>2 DEF CheckAndSwap, store
  <2> QED
    BY <1>1, <2>3, <2>4
<1>3. CASE FindVictimProc(p) \/ FindVictimPage(p)
  <2>1. /\ freeSlots' = freeSlots /\ loc[p].pc \in {"victim", "page"} /\ loc[p].ret = "kalloc"
        /\ loc[p].pc = "page" => loc[p].victim # None
    BY <1>1, <1>3 DEF FindVictimProc, FindVictimPage, Running, store, Plain, Placed, SwapOut
  <2>2. CASE loc' = [loc EXCEPT ![p].pc = loc[p].ret, ![p].victim = None,
                                ![p].swapped = 0, ![p].attempts = 0]
    <3>1. OthersStay(p) /\ SameCall(p) /\ loc'[p].pc = "kalloc" /\ loc'[p].ret = "kalloc"
      BY <1>1, <2>1, <2>2 DEF LocTyped, LocalsTyped, Fields, OthersStay, SameCall
    <3> QED
      BY <1>1, <2>1, <3>1
  <2>3. CASE \E q \in Victims : loc' = [loc EXCEPT ![p].pc = "page", ![p].victim = q]
    <3>1. OthersStay(p) /\ SameCall(p) /\ loc'[p].pc = "page" /\ loc'[p].ret = "kalloc"
      BY <1>1, <2>1, <2>3 DEF LocTyped, LocalsTyped, Fields, OthersStay, SameCall
    <3> QED
      BY <1>1, <2>1, <3>1
  <2>4. CASE \E v \in Resident(loc[p].victim) :
                 loc' = [loc EXCEPT ![p].pc = "out", ![p].va = v, ![p].pa = pte[loc[p].victim][v]]
    <3>1. OthersStay(p) /\ SameCall(p) /\ loc'[p].pc = "out" /\ loc'[p].ret = "kalloc"
      BY <1>1, <2>1, <2>4 DEF LocTyped, LocalsTyped, Fields, OthersStay, SameCall
    <3> QED
      BY <1>1, <2>1, <3>1
  <2> QED
    BY <1>3, <2>1, <2>2, <2>3, <2>4 DEF FindVictimProc, FindVictimPage, Adapt, Running
<1>4. CASE PageOut(p)
  <2>1. /\ loc[p].pc = "out" /\ loc[p].ret = "kalloc" /\ loc[p].victim # None
        /\ pte[loc[p].victim][loc[p].va] \in Frames
    BY <1>1, <1>4 DEF PageOut, Running, Plain, Placed, SwapOut, IInv, Swapping
  <2>2. CASE /\ freeSlots' = freeSlots
             /\ loc' = [loc EXCEPT ![p].pc = "page", ![p].attempts = @ + 1,
                                   ![p].va = None, ![p].pa = None]
    <3>1. OthersStay(p) /\ SameCall(p) /\ loc'[p].pc = "page" /\ loc'[p].ret = "kalloc"
      BY <1>1, <2>1, <2>2 DEF LocTyped, LocalsTyped, Fields, OthersStay, SameCall
    <3> QED
      BY <1>1, <2>2, <3>1
  <2>3. CASE \E s \in Slots :
                 /\ s \in freeSlots /\ freeSlots' = freeSlots \ {s}
                 /\ loc' = [loc EXCEPT ![p].pc = "write", ![p].slot = s, ![p].blk = 1]
    <3>1. PICK s \in Slots :
                 /\ s \in freeSlots /\ freeSlots' = freeSlots \ {s}
                 /\ loc' = [loc EXCEPT ![p].pc = "write", ![p].slot = s, ![p].blk = 1]
      BY <2>3
    <3>2. /\ OthersStay(p) /\ SameCall(p) /\ loc'[p].pc = "write" /\ loc'[p].ret = "kalloc"
          /\ loc'[p].slot = s /\ loc'[p].blk = 1
      BY <1>1, <2>1, <3>1 DEF LocTyped, LocalsTyped, Fields, OthersStay, SameCall
    <3> QED
      BY <1>1, <3>1, <3>2
  <2> QED
    BY <1>4, <2>1, <2>2, <2>3 DEF PageOut, NoSlot, TakeSlot, IsFirst, SlotTaken
<1> QED
  BY <1>2, <1>3, <1>4

LEMMA KallocEffect ==
    ASSUME IInv, FInv, PlainInv, NEW p \in Procs, Kalloc(p)
    PROVE  /\ UNCHANGED <<state, sz, pte, cr3, disk, freeSlots, written>>
           /\ state[p] = "live" /\ loc[p].pc = "kalloc"
           /\ OthersStay(p) /\ SameCall(p) /\ loc'[p].ret = loc[p].ret
           /\ loc'[p].pc = loc[p].call /\ loc'[p].pc \in {"grow", "fault", "exec"}
           /\ loc'[p].blk = 1 /\ loc'[p].frame \in freelist /\ loc'[p].frame \in Frames
           /\ freelist' = freelist \ {loc'[p].frame}
           /\ mem' = [mem EXCEPT ![loc'[p].frame] = Junk]
<1>1. /\ LocTyped /\ Placed(loc[p]) /\ Plain(loc[p]) /\ state[p] = "live" /\ loc[p].pc = "kalloc"
      /\ UNCHANGED <<state, sz, pte, cr3, disk, freeSlots, written>>
  BY DEF IInv, Typed, FInv, PlaceInv, PlainInv, Kalloc, Running, table
<1>2. loc[p].call \in {"grow", "fault", "exec"}
  BY <1>1 DEF Plain, Placed, Holding, Doing, SwapOut
<1>3. PICK f \in Frames :
          /\ f \in freelist /\ freelist' = freelist \ {f} /\ mem' = [mem EXCEPT ![f] = Junk]
          /\ loc' = [loc EXCEPT ![p].pc = loc[p].call, ![p].frame = f, ![p].tries = 0, ![p].blk = 1]
  BY DEF Kalloc, IInv, Typed
<1>4. /\ OthersStay(p) /\ SameCall(p) /\ loc'[p].ret = loc[p].ret /\ loc'[p].pc = loc[p].call
      /\ loc'[p].frame = f /\ loc'[p].blk = 1
  BY <1>1, <1>3 DEF LocTyped, LocalsTyped, Fields, OthersStay, SameCall
<1> QED
  BY <1>1, <1>2, <1>3, <1>4

LEMMA WriteEffect ==
    ASSUME IInv, FInv, PlainInv, NEW p \in Procs, WriteOut(p)
    PROVE  /\ UNCHANGED <<state, sz, pte, mem, freelist, freeSlots, written>>
           /\ state[p] = "live" /\ loc[p].pc = "write" /\ Slept(p)
           /\ disk' = [disk EXCEPT ![loc[p].slot][loc[p].blk] = mem[loc[p].pa][loc[p].blk]]
           /\ OthersStay(p) /\ SameCall(p) /\ loc'[p].ret = loc[p].ret
           /\ loc'[p].slot = loc[p].slot /\ loc'[p].pa = loc[p].pa
           /\ loc'[p].blk = loc[p].blk + 1
           /\ loc'[p].pc = IF loc[p].blk = BLOCKS THEN "set" ELSE "write"
<1>1. /\ LocTyped /\ state[p] = "live" /\ loc[p].pc = "write" /\ Slept(p)
      /\ UNCHANGED <<state, sz, pte, mem, freelist, freeSlots, written>>
      /\ disk' = [disk EXCEPT ![loc[p].slot][loc[p].blk] = mem[loc[p].pa][loc[p].blk]]
  BY DEF IInv, Typed, WriteOut, Running, table
<1>2. PICK l \in {"write", "set"} :
          /\ loc' = [loc EXCEPT ![p].pc = l, ![p].blk = loc[p].blk + 1]
          /\ l = IF loc[p].blk = BLOCKS THEN "set" ELSE "write"
  <2>1. CASE loc[p].blk = BLOCKS
    BY <1>1, <2>1 DEF WriteOut, LocTyped, LocalsTyped, Fields
  <2>2. CASE loc[p].blk # BLOCKS
    BY <1>1, <2>2 DEF WriteOut, LocTyped, LocalsTyped, Fields
  <2> QED
    BY <2>1, <2>2
<1>3. /\ OthersStay(p) /\ SameCall(p) /\ loc'[p].ret = loc[p].ret
      /\ loc'[p].slot = loc[p].slot /\ loc'[p].pa = loc[p].pa
      /\ loc'[p].blk = loc[p].blk + 1 /\ loc'[p].pc = l
  BY <1>1, <1>2 DEF LocTyped, LocalsTyped, Fields, OthersStay, SameCall
<1> QED
  BY <1>1, <1>2, <1>3

LEMMA ReadEffect ==
    ASSUME IInv, FInv, PlainInv, NEW p \in Procs, ReadIn(p)
    PROVE  /\ UNCHANGED <<state, sz, pte, disk, freelist, freeSlots, written>>
           /\ state[p] = "live" /\ loc[p].pc = "fault" /\ loc[p].blk <= BLOCKS
           /\ Slept(p) \/ Cached
           /\ mem' = [mem EXCEPT ![loc[p].frame][loc[p].blk] = disk[loc[p].from][loc[p].blk]]
           /\ OthersStay(p) /\ SameCall(p) /\ loc'[p].ret = loc[p].ret
           /\ loc'[p].frame = loc[p].frame /\ loc'[p].blk = loc[p].blk + 1
           /\ loc'[p].pc = "fault"
<1>1. /\ LocTyped /\ state[p] = "live" /\ loc[p].pc = "fault" /\ loc[p].blk <= BLOCKS
      /\ Slept(p) \/ Cached
      /\ UNCHANGED <<state, sz, pte, disk, freelist, freeSlots, written>>
      /\ mem' = [mem EXCEPT ![loc[p].frame][loc[p].blk] = disk[loc[p].from][loc[p].blk]]
      /\ loc' = [loc EXCEPT ![p].blk = loc[p].blk + 1]
  BY DEF IInv, Typed, ReadIn, Running, table
<1>2. /\ OthersStay(p) /\ SameCall(p) /\ loc'[p].ret = loc[p].ret
      /\ loc'[p].frame = loc[p].frame /\ loc'[p].blk = loc[p].blk + 1 /\ loc'[p].pc = "fault"
  BY <1>1 DEF LocTyped, LocalsTyped, Fields, OthersStay, SameCall
<1> QED
  BY <1>1, <1>2

\* The entry of the page, which is a running process's, gets the slot.
LEMMA SetPteEffect ==
    ASSUME PageSwapAssumption, IInv, FInv, PlainInv, NEW p \in Procs, SetPte(p)
    PROVE  /\ UNCHANGED <<state, sz, disk, freeSlots, written>>
           /\ state[p] = "live" /\ loc[p].pc = "set"
           /\ \/ UNCHANGED <<pte, cr3, mem, freelist, loc>>
              \/ /\ loc[p].victim \in Procs /\ state[loc[p].victim] = "live"
                 /\ loc[p].va \in Pages /\ loc[p].pa \in Frames /\ loc[p].slot \in Slots
                 /\ pte[loc[p].victim][loc[p].va] = loc[p].pa
                 /\ pte'[loc[p].victim][loc[p].va] = loc[p].slot
                 /\ \A q \in Procs, w \in Pages :
                        ~(q = loc[p].victim /\ w = loc[p].va) => pte'[q][w] = pte[q][w]
                 /\ freelist' = freelist \cup {loc[p].pa}
                 /\ mem' = [mem EXCEPT ![loc[p].pa] = Junk]
                 /\ cr3' = [cr3 EXCEPT ![p] = loc[p].victim]
                 /\ OthersStay(p) /\ SameCall(p) /\ loc'[p].ret = loc[p].ret
                 /\ loc'[p].pc = "page"
<1>1. /\ LocTyped /\ Placed(loc[p]) /\ state[p] = "live" /\ loc[p].pc = "set"
      /\ UNCHANGED <<state, sz, disk, freeSlots, written>>
  BY DEF IInv, Typed, FInv, PlaceInv, SetPte, Running, table
<1>2. CASE UNCHANGED <<pte, cr3, mem, freelist, loc>>
  BY <1>1, <1>2
<1>3. CASE /\ loc[p].victim # None
           /\ pte' = [pte EXCEPT ![loc[p].victim][loc[p].va] = loc[p].slot]
           /\ cr3' = [cr3 EXCEPT ![p] = loc[p].victim]
           /\ freelist' = freelist \cup {loc[p].pa}
           /\ mem' = [mem EXCEPT ![loc[p].pa] = Junk]
           /\ loc' = [loc EXCEPT ![p].pc = "page", ![p].slot = None, ![p].pa = None,
                                 ![p].va = None, ![p].blk = 1,
                                 ![p].swapped = @ + 1, ![p].attempts = @ + 1]
  <2>1. /\ loc[p].victim \in Procs /\ loc[p].va \in Pages /\ loc[p].pa \in Frames
        /\ pte[loc[p].victim][loc[p].va] = loc[p].pa /\ loc[p].slot \in Slots
        /\ state[loc[p].victim] \in {"live", "zombie"}
    BY <1>1, <1>3 DEF IInv, Swapping, LocTyped, LocalsTyped, Placed
  <2>2. state[loc[p].victim] = "live"
    <3>1. Up(p)
      BY <1>1 DEF Up, Busy
    <3> QED
      BY <1>1, <2>1, <3>1 DEF FInv, OneAtATime, Up
  <2>3. OthersStay(p) /\ SameCall(p) /\ loc'[p].ret = loc[p].ret /\ loc'[p].pc = "page"
    BY <1>1, <1>3 DEF LocTyped, LocalsTyped, Fields, OthersStay, SameCall
  <2>4. /\ pte'[loc[p].victim][loc[p].va] = loc[p].slot
        /\ \A q \in Procs, w \in Pages :
               ~(q = loc[p].victim /\ w = loc[p].va) => pte'[q][w] = pte[q][w]
    <3>1. pte \in [Procs -> [Pages -> Frames \cup Slots \cup {None}]]
      BY DEF IInv, Typed
    <3>2. pte' = [pte EXCEPT ![loc[p].victim][loc[p].va] = loc[p].slot]
      BY <1>3
    <3> QED
      BY <2>1, <3>1, <3>2
  <2> QED
    BY <1>1, <1>3, <2>1, <2>2, <2>3, <2>4
<1> QED
  BY <1>2, <1>3 DEF SetPte

LEMMA GrowEffect ==
    ASSUME PageSwapAssumption, IInv, FInv, PlainInv, NEW p \in Procs, GrowMap(p)
    PROVE  /\ UNCHANGED <<state, disk, freelist, freeSlots>>
           /\ state[p] = "live" /\ loc[p].pc = "grow"
           /\ \/ UNCHANGED <<sz, pte, cr3, mem, loc, written>>
              \/ /\ sz[p] + 1 \in Pages /\ loc[p].frame \in Frames
                 /\ pte[p][sz[p] + 1] \notin Frames /\ pte'[p][sz[p] + 1] = loc[p].frame
                 /\ \A q \in Procs, w \in Pages :
                        ~(q = p /\ w = sz[p] + 1) => pte'[q][w] = pte[q][w]
                 /\ sz' = [sz EXCEPT ![p] = sz[p] + 1]
                 /\ mem' = [mem EXCEPT ![loc[p].frame] = Zero]
                 /\ written' = [written EXCEPT ![p][sz[p] + 1] = Zero]
                 /\ cr3' = [cr3 EXCEPT ![p] = p]
                 /\ OthersStay(p) /\ loc'[p] = AtRest
<1>1. /\ LocTyped /\ Placed(loc[p]) /\ state[p] = "live" /\ loc[p].pc = "grow"
      /\ UNCHANGED <<state, disk, freelist, freeSlots>>
  BY DEF IInv, Typed, FInv, PlaceInv, GrowMap, Running
<1>2. CASE UNCHANGED <<sz, pte, cr3, mem, loc, written>>
  BY <1>1, <1>2
<1>3. CASE /\ pte[p][sz[p] + 1] \notin Frames
           /\ pte' = [pte EXCEPT ![p][sz[p] + 1] = loc[p].frame]
           /\ sz' = [sz EXCEPT ![p] = sz[p] + 1]
           /\ mem' = [mem EXCEPT ![loc[p].frame] = Zero]
           /\ written' = [written EXCEPT ![p][sz[p] + 1] = Zero]
           /\ cr3' = [cr3 EXCEPT ![p] = p] /\ loc' = [loc EXCEPT ![p] = AtRest]
  <2>1. sz[p] + 1 \in Pages /\ loc[p].frame \in Frames
    <3>1. sz[p] \in 0..MaxPages /\ sz[p] < MaxPages
      BY <1>1 DEF IInv, Typed, Paging
    <3>2. loc[p].frame \in Frames
      BY <1>1 DEF Placed, Holding
    <3> QED
      BY <3>1, <3>2 DEF Pages, PageSwapAssumption
  <2>2. /\ pte'[p][sz[p] + 1] = loc[p].frame
        /\ \A q \in Procs, w \in Pages : ~(q = p /\ w = sz[p] + 1) => pte'[q][w] = pte[q][w]
    <3>1. pte \in [Procs -> [Pages -> Frames \cup Slots \cup {None}]]
      BY DEF IInv, Typed
    <3> QED
      BY <1>3, <2>1, <3>1
  <2>3. OthersStay(p) /\ loc'[p] = AtRest
    BY <1>1, <1>3 DEF LocTyped, OthersStay
  <2> QED
    BY <1>1, <1>3, <2>1, <2>2, <2>3
<1> QED
  BY <1>2, <1>3 DEF GrowMap, Cleared

LEMMA MapInEffect ==
    ASSUME PageSwapAssumption, IInv, FInv, PlainInv, NEW p \in Procs, MapIn(p)
    PROVE  /\ UNCHANGED <<state, sz, cr3, mem, disk, freelist, written>>
           /\ state[p] = "live" /\ loc[p].pc = "fault" /\ loc[p].blk > BLOCKS
           /\ \/ UNCHANGED <<pte, freeSlots, loc>>
              \/ /\ loc[p].page \in Pages /\ loc[p].frame \in Frames /\ loc[p].call = "fault"
                 /\ pte'[p][loc[p].page] = loc[p].frame
                 /\ \A q \in Procs, w \in Pages :
                        ~(q = p /\ w = loc[p].page) => pte'[q][w] = pte[q][w]
                 /\ freeSlots' = freeSlots \cup {loc[p].from}
                 /\ OthersStay(p) /\ loc'[p] = AtRest
<1>1. /\ LocTyped /\ Placed(loc[p]) /\ Plain(loc[p]) /\ state[p] = "live" /\ loc[p].pc = "fault"
      /\ UNCHANGED <<state, sz, cr3, mem, disk, freelist, written>> /\ loc[p].blk > BLOCKS
  BY DEF IInv, Typed, FInv, PlaceInv, PlainInv, MapIn, Running, table
<1>2. CASE UNCHANGED <<pte, freeSlots, loc>>
  BY <1>1, <1>2
<1>3. CASE /\ pte' = [pte EXCEPT ![p][loc[p].page] = loc[p].frame]
           /\ freeSlots' = freeSlots \cup {loc[p].from} /\ loc' = [loc EXCEPT ![p] = AtRest]
  <2>1. loc[p].page \in Pages /\ loc[p].frame \in Frames /\ loc[p].call = "fault"
    BY <1>1 DEF Placed, Holding
  <2>2. /\ pte'[p][loc[p].page] = loc[p].frame
        /\ \A q \in Procs, w \in Pages : ~(q = p /\ w = loc[p].page) => pte'[q][w] = pte[q][w]
    <3>1. pte \in [Procs -> [Pages -> Frames \cup Slots \cup {None}]]
      BY DEF IInv, Typed
    <3> QED
      BY <1>3, <2>1, <3>1
  <2>3. OthersStay(p) /\ loc'[p] = AtRest
    BY <1>1, <1>3 DEF LocTyped, OthersStay
  <2> QED
    BY <1>1, <1>3, <2>1, <2>2, <2>3
<1> QED
  BY <1>1, <1>2, <1>3 DEF MapIn, SlotFreed, Plain

LEMMA FailEffect ==
    ASSUME IInv, FInv, PlainInv, NEW p \in Procs, KallocFails(p)
    PROVE  /\ UNCHANGED <<state, sz, pte, cr3, mem, disk, freelist, freeSlots, written>>
           /\ state[p] = "live" /\ loc[p].pc = "kalloc" /\ freelist = {}
           /\ OthersStay(p) /\ loc'[p] \in {AtRest, Rest("exit")}
<1>1. LocTyped /\ Plain(loc[p])
  BY DEF IInv, Typed, PlainInv
<1>2. /\ UNCHANGED <<state, sz, pte, cr3, mem, disk, freelist, freeSlots, written>>
      /\ loc' = [loc EXCEPT ![p] = IF loc[p].call = "fault" THEN Rest("exit") ELSE AtRest]
      /\ state[p] = "live" /\ loc[p].pc = "kalloc" /\ freelist = {}
  BY <1>1 DEF KallocFails, NothingToDup, Running, Plain
<1>3. OthersStay(p) /\ loc'[p] \in {AtRest, Rest("exit")}
  BY <1>1, <1>2 DEF LocTyped, OthersStay
<1> QED
  BY <1>2, <1>3

LEMMA ShrinkEffect ==
    ASSUME PageSwapAssumption, IInv, FInv, NEW p \in Procs, Shrink(p)
    PROVE  /\ UNCHANGED <<state, disk, freeSlots, loc, written>>
           /\ "shrink" \in Calls /\ state[p] = "live" /\ loc[p].pc = "user" /\ loc[p] = AtRest
           /\ sz[p] \in Pages /\ sz' = [sz EXCEPT ![p] = sz[p] - 1]
           /\ cr3' = [cr3 EXCEPT ![p] = p]
           /\ \/ pte[p][sz[p]] \notin Frames /\ UNCHANGED <<pte, mem, freelist>>
              \/ /\ pte[p][sz[p]] \in Frames /\ pte'[p][sz[p]] = None
                 /\ \A q \in Procs, w \in Pages : ~(q = p /\ w = sz[p]) => pte'[q][w] = pte[q][w]
                 /\ freelist' = freelist \cup {pte[p][sz[p]]}
                 /\ mem' = [mem EXCEPT ![pte[p][sz[p]]] = Junk]
<1>1. /\ UNCHANGED <<state, disk, freeSlots, loc, written>> /\ "shrink" \in Calls
      /\ state[p] = "live" /\ loc[p].pc = "user" /\ sz' = [sz EXCEPT ![p] = sz[p] - 1]
      /\ cr3' = [cr3 EXCEPT ![p] = p] /\ sz[p] > 1 /\ sz[p] \in 0..MaxPages
  BY DEF Shrink, Calling, Running, IInv, Typed
<1>2. sz[p] \in Pages
  BY <1>1 DEF Pages, PageSwapAssumption
<1>3. loc[p] = AtRest
  BY <1>1 DEF FInv, IdleInv, Rest, AtRest
<1>4. CASE pte[p][sz[p]] \notin Frames
  BY <1>1, <1>2, <1>3, <1>4 DEF Shrink
<1>5. CASE pte[p][sz[p]] \in Frames
  <2>1. /\ pte' = [pte EXCEPT ![p][sz[p]] = None]
        /\ freelist' = freelist \cup {pte[p][sz[p]]} /\ mem' = [mem EXCEPT ![pte[p][sz[p]]] = Junk]
    BY <1>5 DEF Shrink
  <2>2. /\ pte'[p][sz[p]] = None
        /\ \A q \in Procs, w \in Pages : ~(q = p /\ w = sz[p]) => pte'[q][w] = pte[q][w]
    BY <1>2, <2>1 DEF IInv, Typed
  <2> QED
    BY <1>1, <1>2, <1>3, <1>5, <2>1, <2>2
<1> QED
  BY <1>4, <1>5

LEMMA ExecEffect ==
    ASSUME PageSwapAssumption, IInv, FInv, NEW p \in Procs, ExecCommit(p)
    PROVE  /\ UNCHANGED <<state, disk, freeSlots>>
           /\ state[p] = "live" /\ loc[p].pc = "exec"
           /\ loc[p].frame \in Frames /\ loc[p].frame \notin FramesOf(p)
           /\ \A v \in Pages : pte'[p][v] = IF v = 1 THEN loc[p].frame ELSE None
           /\ \A q \in Procs : q # p => pte'[q] = pte[q]
           /\ freelist' = freelist \cup FramesOf(p)
           /\ mem' = [f \in Frames |-> IF f \in FramesOf(p) THEN Junk
                                       ELSE IF f = loc[p].frame THEN Zero ELSE mem[f]]
           /\ sz' = [sz EXCEPT ![p] = 1]
           /\ written' = [written EXCEPT ![p] = [v \in Pages |-> Zero]]
           /\ cr3' = [cr3 EXCEPT ![p] = p]
           /\ OthersStay(p) /\ loc'[p] = AtRest
<1>1. /\ LocTyped /\ Placed(loc[p]) /\ FramesInv /\ state[p] = "live" /\ loc[p].pc = "exec"
      /\ UNCHANGED <<state, disk, freeSlots>>
      /\ pte' = [pte EXCEPT ![p] = [v \in Pages |-> IF v = 1 THEN loc[p].frame ELSE None]]
      /\ freelist' = freelist \cup FramesOf(p)
      /\ mem' = [f \in Frames |-> IF f \in FramesOf(p) THEN Junk
                                  ELSE IF f = loc[p].frame THEN Zero ELSE mem[f]]
      /\ sz' = [sz EXCEPT ![p] = 1]
      /\ written' = [written EXCEPT ![p] = [v \in Pages |-> Zero]]
      /\ cr3' = [cr3 EXCEPT ![p] = p]
      /\ loc' = Cut([loc EXCEPT ![p] = AtRest], p, {"out", "write", "set"})
  BY DEF IInv, Typed, FInv, PlaceInv, ExecCommit, Running
<1>2. loc[p].frame \in Frames /\ loc[p].frame \notin FramesOf(p)
  <2>1. loc[p].frame \in Frames /\ FrameClaim(loc[p].frame, p, None)
    BY <1>1 DEF Placed, Holding, FrameClaim
  <2>2. \A v \in Pages : pte[p][v] = loc[p].frame => FrameClaim(loc[p].frame, p, v)
    BY DEF FrameClaim
  <2>3. None \notin Pages
    BY DEF Pages, None
  <2> QED
    BY <1>1, <2>1, <2>2, <2>3 DEF FramesInv, FramesOf, Resident, Holders
<1>3. /\ \A v \in Pages : pte'[p][v] = IF v = 1 THEN loc[p].frame ELSE None
      /\ \A q \in Procs : q # p => pte'[q] = pte[q]
  BY <1>1 DEF IInv, Typed
<1>4. OthersStay(p) /\ loc'[p] = AtRest
  <2> DEFINE l == [loc EXCEPT ![p] = AtRest]
  <2>1. l[p] = AtRest /\ \A q \in Procs : q # p => l[q] = loc[q]
    BY <1>1 DEF LocTyped
  <2>2. \A q \in Procs : l[q].victim = None
    <3>1. Up(p)
      BY <1>1 DEF Up, Busy
    <3> QED
      BY <2>1, <3>1, OthersRest, RestIs
  <2>3. loc' = Cut(l, p, {"out", "write", "set"}) /\ p # None
    BY <1>1 DEF None, PageSwapAssumption
  <2> HIDE DEF l
  <2>4. \A q \in Procs : loc'[q] = l[q]
    BY <2>2, <2>3 DEF Cut
  <2> QED
    BY <2>1, <2>4 DEF OthersStay
<1> QED
  BY <1>1, <1>2, <1>3, <1>4

LEMMA ExitEffect ==
    ASSUME IInv, FInv, NEW p \in Procs, Exit(p)
    PROVE  /\ UNCHANGED <<sz, pte, cr3, mem, disk, freelist, written>>
           /\ state[p] = "live" /\ loc[p].pc \in {"user", "exit"} /\ state'[p] = "zombie"
           /\ \A q \in Procs : q # p => state'[q] = state[q]
           /\ freeSlots' = freeSlots \cup SlotsOf(p)
           /\ OthersStay(p) /\ loc'[p] = AtRest
  BY DEF IInv, Typed, LocTyped, Exit, Running, OthersStay

LEMMA WaitEffect ==
    ASSUME PageSwapAssumption, Foreground, IInv, FInv, NEW p \in Procs, NEW z \in Procs, Wait(p, z)
    PROVE  /\ UNCHANGED <<sz, cr3, disk, freeSlots, written>>
           /\ state[p] = "live" /\ loc[p].pc = "wait" /\ state[z] = "zombie"
           /\ state'[z] = "unused" /\ \A q \in Procs : q # z => state'[q] = state[q]
           /\ \A q \in Procs : loc[q] \in {AtRest, Rest("wait")}
           /\ Freevm(FramesOf(z))
           /\ \A q \in Procs : q # z => pte'[q] = pte[q]
           /\ OthersStay(p) /\ loc'[p] = AtRest
<1>1. /\ Typed /\ LocTyped /\ state[z] = "zombie" /\ z # None
      /\ state[p] = "live" /\ loc[p].pc = "wait"
      /\ UNCHANGED <<sz, cr3, disk, freeSlots, written>>
      /\ pte' = [pte EXCEPT ![z] = [v \in Pages |-> None]]
      /\ state' = [state EXCEPT ![z] = "unused"] /\ Freevm(FramesOf(z))
      /\ loc' = Cut([loc EXCEPT ![p] = AtRest], z, {"page", "out", "write", "set"})
  BY DEF IInv, Typed, Foreground, Wait, Running, None, PageSwapAssumption
<1>2. \A q \in Procs : loc[q] \in {AtRest, Rest("wait")}
  BY <1>1, ZombieAlone
<1>3. OthersStay(p) /\ loc'[p] = AtRest
  <2> DEFINE l == [loc EXCEPT ![p] = AtRest]
  <2>1. l[p] = AtRest /\ \A q \in Procs : q # p => l[q] = loc[q]
    BY <1>1 DEF LocTyped
  <2>2. \A q \in Procs : l[q].victim = None
    BY <1>2, <2>1, RestIs
  <2>3. loc' = Cut(l, z, {"page", "out", "write", "set"})
    BY <1>1
  <2> HIDE DEF l
  <2>4. \A q \in Procs : loc'[q] = l[q]
    BY <1>1, <2>2, <2>3 DEF Cut
  <2> QED
    BY <2>1, <2>4 DEF OthersStay
<1>4. /\ state'[z] = "unused" /\ \A q \in Procs : q # z => state'[q] = state[q]
      /\ \A q \in Procs : q # z => pte'[q] = pte[q]
  BY <1>1 DEF Typed
<1> QED
  BY <1>1, <1>2, <1>3, <1>4

-----------------------------------------------------------------------------
(* Nobody forks, and nobody loses the slot of a fault *)

LEMMA RestPlain ==
    ASSUME NEW q \in Procs, loc'[q] \in {AtRest, Rest("wait"), Rest("exit")}
    PROVE  Plain(loc[q])' /\ Faulting(q)'
<1>1. /\ loc'[q].pc \in {"user", "wait", "exit"} /\ loc'[q].call = "none" /\ loc'[q].kid = None
      /\ loc'[q].ret = "none"
  BY RestIs
<1> QED
  BY <1>1 DEF Plain, Faulting, SwapOut

LEMMA StaysPlain ==
    ASSUME FInv, PlainInv, NEW p \in Procs, Up(p), OthersStay(p), state' = state,
           Plain(loc[p])' /\ Faulting(p)'
    PROVE  PlainInv'
<1>1. \A q \in Procs : q # p => Plain(loc[q])' /\ Faulting(q)'
  BY OthersRest, RestPlain DEF OthersStay
<1> QED
  BY <1>1 DEF PlainInv

LEMMA KernelPlain ==
    ASSUME PageSwapAssumption, IInv, FInv, PlainInv, NEW p \in Procs,
           \/ CheckAndSwap(p) \/ FindVictimProc(p) \/ FindVictimPage(p) \/ PageOut(p)
           \/ Kalloc(p) \/ WriteOut(p) \/ ReadIn(p) \/ SetPte(p)
    PROVE  PlainInv'
<1>1. Plain(loc[p]) /\ Faulting(p)
  BY DEF PlainInv
<1>2. /\ state[p] = "live" /\ loc[p].pc # "wait" /\ state' = state
      /\ \/ pte' = pte /\ loc' = loc
         \/ /\ OthersStay(p) /\ SameCall(p) /\ loc'[p].ret # "dup"
            /\ loc'[p].pc \in {"kalloc", "grow", "fault", "exec"} \cup SwapOut
            /\ loc'[p].pc \in SwapOut => loc'[p].ret = "kalloc"
            /\ loc'[p].pc = "exec" => loc'[p].call = "exec"
  <2>1. CASE CheckAndSwap(p) \/ FindVictimProc(p) \/ FindVictimPage(p) \/ PageOut(p)
    BY <2>1, SearchEffect DEF SwapOut
  <2>2. CASE Kalloc(p)
    BY <1>1, <2>2, KallocEffect DEF SwapOut, SameCall, Plain
  <2>3. CASE WriteOut(p)
    BY <1>1, <2>3, WriteEffect DEF SwapOut, Plain
  <2>4. CASE ReadIn(p)
    BY <1>1, <2>4, ReadEffect DEF SwapOut, Plain
  <2>5. CASE SetPte(p)
    BY <1>1, <2>5, SetPteEffect DEF SwapOut, Plain
  <2> QED
    BY <2>1, <2>2, <2>3, <2>4, <2>5
<1>3. Up(p)
  BY <1>2 DEF Up, Busy
<1>4. CASE pte' = pte /\ loc' = loc
  BY <1>2, <1>4 DEF PlainInv, Faulting
<1>5. CASE /\ OthersStay(p) /\ SameCall(p) /\ loc'[p].ret # "dup"
           /\ loc'[p].pc \in {"kalloc", "grow", "fault", "exec"} \cup SwapOut
           /\ loc'[p].pc \in SwapOut => loc'[p].ret = "kalloc"
           /\ loc'[p].pc = "exec" => loc'[p].call = "exec"
  <2>1. Plain(loc[p])'
    BY <1>1, <1>5 DEF Plain, SameCall, SwapOut
  <2>2. Faulting(p)'
    <3> SUFFICES ASSUME loc'[p].call = "fault"
                 PROVE  loc'[p].from \in Slots /\ pte'[p][loc'[p].page] = loc'[p].from
      BY DEF Faulting
    <3>1. /\ loc[p].from \in Slots /\ pte[p][loc[p].page] = loc[p].from
          /\ loc'[p].from = loc[p].from /\ loc'[p].page = loc[p].page /\ loc[p].page \in Pages
      BY <1>1, <1>5 DEF Faulting, SameCall, IInv, Paging
    <3>2. loc[p].from \notin Frames
      BY <3>1 DEF Slots, PageSwapAssumption
    <3>3. pte'[p][loc[p].page] = pte[p][loc[p].page]
      <4>1. CASE SetPte(p)
        <5>1. \/ pte' = pte
              \/ /\ pte[loc[p].victim][loc[p].va] \in Frames
                 /\ \A q \in Procs, w \in Pages :
                        ~(q = loc[p].victim /\ w = loc[p].va) => pte'[q][w] = pte[q][w]
          BY <4>1, SetPteEffect
        <5>2. ~(p = loc[p].victim /\ loc[p].page = loc[p].va)
              \/ pte[loc[p].victim][loc[p].va] \notin Frames
          BY <3>1, <3>2
        <5> QED
          BY <3>1, <5>1, <5>2
      <4>2. CASE ~SetPte(p)
        BY <4>2, SearchEffect, KallocEffect, WriteEffect, ReadEffect
      <4> QED
        BY <4>1, <4>2
    <3> QED
      BY <3>1, <3>3
  <2> QED
    BY <1>2, <1>3, <1>5, <2>1, <2>2, StaysPlain
<1> QED
  BY <1>2, <1>4, <1>5

LEMMA EndPlain ==
    ASSUME PageSwapAssumption, Foreground, IInv, FInv, PlainInv, NEW p \in Procs,
           \/ GrowMap(p) \/ MapIn(p) \/ KallocFails(p) \/ ExecCommit(p) \/ Exit(p)
           \/ Shrink(p) \/ \E z \in Procs : Wait(p, z)
    PROVE  PlainInv'
<1>1. CASE UNCHANGED <<state, pte, loc>>
  BY <1>1 DEF PlainInv, Faulting
<1>2. CASE ~UNCHANGED <<state, pte, loc>>
  <2>1. /\ OthersStay(p) /\ loc'[p] \in {AtRest, Rest("wait"), Rest("exit")}
        /\ \A q \in Procs : state'[q] # "embryo"
    <3>1. \A q \in Procs : state[q] # "embryo"
      BY DEF PlainInv
    <3>2. CASE GrowMap(p) \/ MapIn(p) \/ KallocFails(p)
      BY <1>2, <3>1, <3>2, GrowEffect, MapInEffect, FailEffect
    <3>3. CASE ExecCommit(p)
      BY <3>1, <3>3, ExecEffect
    <3>4. CASE Exit(p)
      BY <3>1, <3>4, ExitEffect
    <3>5. CASE Shrink(p)
      BY <3>1, <3>5, ShrinkEffect DEF OthersStay
    <3>6. CASE \E z \in Procs : Wait(p, z)
      BY <3>1, <3>6, WaitEffect
    <3> QED
      BY <3>2, <3>3, <3>4, <3>5, <3>6
  <2>2. \A q \in Procs : q # p => loc[q] \in {AtRest, Rest("wait")}
    <3>1. CASE \E z \in Procs : Wait(p, z)
      BY <3>1, WaitEffect
    <3>2. CASE ~\E z \in Procs : Wait(p, z)
      <4>1. state[p] = "live" /\ loc[p].pc # "wait"
        <5>1. CASE GrowMap(p) \/ MapIn(p) \/ KallocFails(p)
          BY <5>1, GrowEffect, MapInEffect, FailEffect
        <5>2. CASE ExecCommit(p) \/ Exit(p) \/ Shrink(p)
          BY <5>2, ExecEffect, ExitEffect, ShrinkEffect
        <5> QED
          BY <3>2, <5>1, <5>2
      <4>2. Up(p)
        BY <4>1 DEF Up, Busy
      <4> QED
        BY <4>2, OthersRest
    <3> QED
      BY <3>1, <3>2
  <2>3. \A q \in Procs : loc'[q] \in {AtRest, Rest("wait"), Rest("exit")}
    BY <2>1, <2>2 DEF OthersStay
  <2> QED
    BY <2>1, <2>3, RestPlain DEF PlainInv
<1> QED
  BY <1>1, <1>2

LEMMA NextPlain ==
    ASSUME PageSwapAssumption, Foreground, "fork" \notin Calls, IInv, FInv, PlainInv, [Next]_vars
    PROVE  PlainInv'
<1>1. CASE UNCHANGED <<state, pte, loc>>
  BY <1>1 DEF PlainInv, Faulting
<1>2. ASSUME NEW p \in Procs, Kernel(p) PROVE PlainInv'
  <2>1. /\ ~CopyPage(p) /\ ~CopyMap(p) /\ ~DupBlock(p) /\ ~DupFails(p) /\ ~ForkDone(p)
        /\ \A s \in Slots : ~DupSlot(p, s)
    BY DEF CopyPage, CopyMap, DupBlock, DupFails, ForkDone, DupSlot, Running, PlainInv, Plain
  <2> QED
    BY <1>2, <2>1, KernelPlain, EndPlain DEF Kernel
<1>3. ASSUME NEW p \in Procs,
             \/ \E v \in Pages : Fault(p, v) \/ Segfault(p, v)
             \/ Grow(p) \/ Exec(p)
      PROVE  PlainInv'
  <2>1. Plain(loc[p])' /\ Faulting(p)'
    <3>1. CASE loc'[p] = Rest("exit")
      BY <3>1, RestPlain
    <3>2. CASE loc'[p] # Rest("exit")
      BY <1>3, <3>2, UserEffect DEF Plain, Faulting, SwapOut
    <3> QED
      BY <3>1, <3>2
  <2>2. Up(p) /\ OthersStay(p) /\ state' = state
    BY <1>3, UserEffect DEF Up, Busy
  <2> QED
    BY <2>1, <2>2, StaysPlain
<1>4. ASSUME NEW p \in Procs, \/ Preempt(p) \/ \E v \in Pages : Buffer(p, v)
                              \/ \E v \in Pages, b \in 1..BLOCKS, x \in Vals : Write(p, v, b, x)
      PROVE  PlainInv'
  <2>1. UNCHANGED <<state, pte, loc>>
    BY <1>4 DEF Preempt, Buffer, Write, table
  <2> QED
    BY <1>1, <2>1
<1>5. ASSUME NEW p \in Procs, \/ Shrink(p) \/ Exit(p) \/ \E q \in Procs : Fork(p, q) \/ Wait(p, q)
      PROVE  PlainInv'
  BY <1>5, EndPlain DEF Fork, Calling
<1>6. CASE UNCHANGED vars
  BY <1>1, <1>6 DEF vars, table
<1> QED
  BY <1>2, <1>3, <1>4, <1>5, <1>6 DEF Next

-----------------------------------------------------------------------------
(* Slots have an owner, for programs that neither fork, exec nor shrink *)

KeptSlot(s) == \/ \E p \in Procs, v \in Pages : state[p] = "live" /\ pte[p][v] = s
               \/ \E p \in Procs : loc[p].pc \in {"write", "set"} /\ loc[p].slot = s

\* A slot that is taken has a page in it or is being filled, and a process has no entries
\* beyond its size.
KeptInv == /\ \A s \in Slots \ freeSlots : KeptSlot(s)
           /\ \A p \in Procs, v \in Pages : state[p] = "live" /\ v > sz[p] => pte[p][v] = None

\* Where page tables stay as they are, who fills a slot goes on.
LEMMA SlotsStay ==
    ASSUME KeptInv, UNCHANGED <<state, sz, pte>>, NEW p \in Procs, OthersStay(p),
           freeSlots \ freeSlots' \subseteq
               {s \in Slots : loc'[p].pc \in {"write", "set"} /\ loc'[p].slot = s},
           loc[p].pc \in {"write", "set"} => loc'[p].pc \in {"write", "set"} /\ loc'[p].slot = loc[p].slot
    PROVE  KeptInv'
<1> SUFFICES ASSUME NEW s \in Slots, s \notin freeSlots' PROVE KeptSlot(s)'
  BY DEF KeptInv
<1>1. CASE s \in freeSlots
  BY <1>1 DEF KeptSlot
<1>2. CASE s \notin freeSlots
  <2>1. CASE \E q \in Procs, v \in Pages : state[q] = "live" /\ pte[q][v] = s
    BY <2>1 DEF KeptSlot
  <2>2. CASE \E q \in Procs : loc[q].pc \in {"write", "set"} /\ loc[q].slot = s
    BY <2>2 DEF KeptSlot, OthersStay
  <2> QED
    BY <1>2, <2>1, <2>2 DEF KeptInv, KeptSlot
<1> QED
  BY <1>1, <1>2

LEMMA InitKept == ASSUME PageSwapAssumption, Init PROVE KeptInv
<1>1. freeSlots = Slots
  BY DEF Init
<1>2. ASSUME NEW p \in Procs, NEW v \in Pages, state[p] = "live", v > sz[p]
      PROVE  pte[p][v] = None
  BY <1>2 DEF Init, Pages
<1> QED
  BY <1>1, <1>2 DEF KeptInv

LEMMA NextKept ==
    ASSUME PageSwapAssumption, Foreground, Calls \cap {"fork", "exec", "shrink"} = {},
           IInv, FInv, PlainInv, KeptInv, [Next]_vars
    PROVE  KeptInv'
<1>1. CASE UNCHANGED <<state, sz, pte, freeSlots, loc>>
  BY <1>1 DEF KeptInv, KeptSlot
<1>2. ASSUME NEW p \in Procs,
             CheckAndSwap(p) \/ FindVictimProc(p) \/ FindVictimPage(p) \/ PageOut(p)
      PROVE  KeptInv'
  BY <1>2, SearchEffect, SlotsStay
<1>3. ASSUME NEW p \in Procs, Kalloc(p) \/ WriteOut(p) \/ ReadIn(p) \/ KallocFails(p)
      PROVE  KeptInv'
  <2>1. /\ UNCHANGED <<state, sz, pte, freeSlots>> /\ OthersStay(p)
        /\ loc[p].pc \in {"write", "set"} =>
               loc'[p].pc \in {"write", "set"} /\ loc'[p].slot = loc[p].slot
    BY <1>3, KallocEffect, WriteEffect, ReadEffect, FailEffect
  <2> QED
    BY <2>1, SlotsStay
<1>4. ASSUME NEW p \in Procs,
             \/ \E v \in Pages : Fault(p, v) \/ Segfault(p, v)
             \/ Grow(p) \/ Exec(p)
      PROVE  KeptInv'
  <2>1. UNCHANGED <<state, sz, pte, freeSlots>> /\ OthersStay(p) /\ loc[p].pc = "user"
    BY <1>4, UserEffect
  <2> QED
    BY <2>1, SlotsStay
<1>5. ASSUME NEW p \in Procs, SetPte(p) PROVE KeptInv'
  <2>1. CASE UNCHANGED <<pte, loc>>
    BY <1>5, <2>1, SetPteEffect, <1>1
  <2>2. CASE ~UNCHANGED <<pte, loc>>
    <3> DEFINE z == loc[p].victim
               u == loc[p].va
    <3>1. /\ UNCHANGED <<state, sz, freeSlots>> /\ loc[p].pc = "set" /\ OthersStay(p)
          /\ z \in Procs /\ state[z] = "live" /\ u \in Pages /\ pte[z][u] \in Frames
          /\ pte'[z][u] = loc[p].slot
          /\ \A q \in Procs, w \in Pages : ~(q = z /\ w = u) => pte'[q][w] = pte[q][w]
      BY <1>5, <2>2, SetPteEffect
    <3> HIDE DEF z, u
    <3>2. None \notin Frames /\ \A s \in Slots : s \notin Frames
      BY DEF Slots, None, PageSwapAssumption
    <3>3. ASSUME NEW s \in Slots, s \notin freeSlots' PROVE KeptSlot(s)'
      <4>1. CASE s = loc[p].slot
        BY <3>1, <4>1 DEF KeptSlot
      <4>2. CASE \E q \in Procs, v \in Pages : state[q] = "live" /\ pte[q][v] = s
        <5>1. PICK q \in Procs, v \in Pages : state[q] = "live" /\ pte[q][v] = s
          BY <4>2
        <5>2. pte'[q][v] = s /\ state'[q] = "live"
          BY <3>1, <3>2, <5>1
        <5> QED
          BY <5>2 DEF KeptSlot
      <4>3. CASE \E q \in Procs : q # p /\ loc[q].pc \in {"write", "set"} /\ loc[q].slot = s
        BY <3>1, <4>3 DEF KeptSlot, OthersStay
      <4> QED
        BY <3>1, <3>3, <4>1, <4>2, <4>3 DEF KeptInv, KeptSlot
    <3>4. ASSUME NEW q \in Procs, NEW v \in Pages, state'[q] = "live", v > sz'[q]
          PROVE  pte'[q][v] = None
      BY <3>1, <3>2, <3>4 DEF KeptInv
    <3> QED
      BY <3>3, <3>4 DEF KeptInv
  <2> QED
    BY <2>1, <2>2
<1>6. ASSUME NEW p \in Procs, GrowMap(p) PROVE KeptInv'
  <2>1. CASE UNCHANGED <<sz, pte, loc>>
    BY <1>6, <2>1, GrowEffect, <1>1
  <2>2. CASE ~UNCHANGED <<sz, pte, loc>>
    <3> DEFINE u == sz[p] + 1
    <3>1. /\ UNCHANGED <<state, freeSlots>> /\ state[p] = "live" /\ loc[p].pc = "grow"
          /\ OthersStay(p) /\ u \in Pages /\ sz' = [sz EXCEPT ![p] = u]
          /\ \A q \in Procs, w \in Pages : ~(q = p /\ w = u) => pte'[q][w] = pte[q][w]
      BY <1>6, <2>2, GrowEffect
    <3>2. pte[p][u] = None /\ None \notin Slots
      <4>1. sz[p] \in Nat /\ u > sz[p]
        BY DEF IInv, Typed
      <4> QED
        BY <3>1, <4>1 DEF KeptInv, None, Slots
    <3>3. ASSUME NEW s \in Slots, s \notin freeSlots' PROVE KeptSlot(s)'
      <4>1. CASE \E q \in Procs, v \in Pages : state[q] = "live" /\ pte[q][v] = s
        BY <3>1, <3>2, <4>1 DEF KeptSlot
      <4>2. CASE \E q \in Procs : loc[q].pc \in {"write", "set"} /\ loc[q].slot = s
        BY <3>1, <4>2 DEF KeptSlot, OthersStay
      <4> QED
        BY <3>1, <3>3, <4>1, <4>2 DEF KeptInv, KeptSlot
    <3>4. ASSUME NEW q \in Procs, NEW v \in Pages, state'[q] = "live", v > sz'[q]
          PROVE  pte'[q][v] = None
      <4>1. sz \in [Procs -> Nat] /\ v \in Int
        BY DEF IInv, Typed, Pages
      <4>2. CASE q = p
        <5>2. sz'[p] = u
          BY <3>1, <4>1
        <5>3. sz[p] \in Nat /\ v > u
          BY <3>4, <4>1, <4>2, <5>2
        <5>1. v > u /\ v > sz[p] /\ v # u
          BY <4>1, <5>3
        <5> QED
          BY <3>1, <4>2, <5>1 DEF KeptInv
      <4>3. CASE q # p
        BY <3>1, <3>4, <4>1, <4>3 DEF KeptInv
      <4> QED
        BY <4>2, <4>3
    <3> QED
      BY <3>3, <3>4 DEF KeptInv
  <2> QED
    BY <2>1, <2>2
<1>7. ASSUME NEW p \in Procs, MapIn(p) PROVE KeptInv'
  <2>1. CASE UNCHANGED <<pte, freeSlots, loc>>
    BY <1>7, <2>1, MapInEffect, <1>1
  <2>2. CASE ~UNCHANGED <<pte, freeSlots, loc>>
    <3> DEFINE u == loc[p].page
    <3>1. /\ UNCHANGED <<state, sz>> /\ state[p] = "live" /\ loc[p].pc = "fault"
          /\ OthersStay(p) /\ u \in Pages /\ loc[p].call = "fault"
          /\ freeSlots' = freeSlots \cup {loc[p].from}
          /\ \A q \in Procs, w \in Pages : ~(q = p /\ w = u) => pte'[q][w] = pte[q][w]
      BY <1>7, <2>2, MapInEffect
    <3>2. pte[p][u] = loc[p].from /\ loc[p].from # None
      <4>1. Faulting(p)
        BY <3>1 DEF PlainInv
      <4>2. None \notin Slots
        BY DEF Slots, None
      <4> QED
        BY <3>1, <4>1, <4>2 DEF Faulting
    <3> HIDE DEF u
    <3>3. ASSUME NEW s \in Slots, s \notin freeSlots' PROVE KeptSlot(s)'
      <4>1. CASE \E q \in Procs, v \in Pages : state[q] = "live" /\ pte[q][v] = s
        BY <3>1, <3>2, <3>3, <4>1 DEF KeptSlot
      <4>2. CASE \E q \in Procs : loc[q].pc \in {"write", "set"} /\ loc[q].slot = s
        BY <3>1, <4>2 DEF KeptSlot, OthersStay
      <4> QED
        BY <3>1, <3>3, <4>1, <4>2 DEF KeptInv, KeptSlot
    <3>4. ASSUME NEW q \in Procs, NEW v \in Pages, state'[q] = "live", v > sz'[q]
          PROVE  pte'[q][v] = None
      BY <3>1, <3>2, <3>4 DEF KeptInv
    <3> QED
      BY <3>3, <3>4 DEF KeptInv
  <2> QED
    BY <2>1, <2>2
<1>8. ASSUME NEW p \in Procs, Exit(p) PROVE KeptInv'
  <2>1. /\ UNCHANGED <<sz, pte>> /\ state[p] = "live" /\ loc[p].pc \in {"user", "exit"}
        /\ state'[p] = "zombie" /\ \A q \in Procs : q # p => state'[q] = state[q]
        /\ freeSlots' = freeSlots \cup SlotsOf(p) /\ OthersStay(p)
    BY <1>8, ExitEffect
  <2>2. ASSUME NEW s \in Slots, s \notin freeSlots' PROVE KeptSlot(s)'
    <3>1. \A v \in Pages : pte[p][v] # s
      BY <2>1, <2>2 DEF SlotsOf
    <3>2. CASE \E q \in Procs, v \in Pages : state[q] = "live" /\ pte[q][v] = s
      BY <2>1, <3>1, <3>2 DEF KeptSlot
    <3>3. CASE \E q \in Procs : loc[q].pc \in {"write", "set"} /\ loc[q].slot = s
      BY <2>1, <3>3 DEF KeptSlot, OthersStay
    <3> QED
      BY <2>1, <2>2, <3>2, <3>3 DEF KeptInv, KeptSlot
  <2> QED
    BY <2>1, <2>2 DEF KeptInv
<1>9. ASSUME NEW p \in Procs, NEW z \in Procs, Wait(p, z) PROVE KeptInv'
  <2>1. /\ UNCHANGED <<sz, freeSlots>> /\ state[z] = "zombie" /\ state'[z] = "unused"
        /\ \A q \in Procs : q # z => state'[q] = state[q] /\ pte'[q] = pte[q]
        /\ loc[p].pc = "wait" /\ OthersStay(p)
    BY <1>9, WaitEffect
  <2>2. ASSUME NEW s \in Slots, s \notin freeSlots' PROVE KeptSlot(s)'
    <3>1. CASE \E q \in Procs, v \in Pages : state[q] = "live" /\ pte[q][v] = s
      BY <2>1, <3>1 DEF KeptSlot
    <3>2. CASE \E q \in Procs : loc[q].pc \in {"write", "set"} /\ loc[q].slot = s
      BY <2>1, <3>2 DEF KeptSlot, OthersStay
    <3> QED
      BY <2>1, <2>2, <3>1, <3>2 DEF KeptInv, KeptSlot
  <2> QED
    BY <2>1, <2>2 DEF KeptInv
<1>10. ASSUME NEW p \in Procs, \/ Preempt(p) \/ \E v \in Pages : Buffer(p, v)
                               \/ \E v \in Pages, b \in 1..BLOCKS, x \in Vals : Write(p, v, b, x)
       PROVE  KeptInv'
  <2>1. UNCHANGED <<state, sz, pte, freeSlots, loc>>
    BY <1>10 DEF Preempt, Buffer, Write, table, store
  <2> QED
    BY <1>1, <2>1
<1>11. ASSUME NEW p \in Procs
       PROVE  /\ ~CopyPage(p) /\ ~CopyMap(p) /\ ~DupBlock(p) /\ ~DupFails(p) /\ ~ForkDone(p)
              /\ (\A s \in Slots : ~DupSlot(p, s)) /\ ~ExecCommit(p) /\ ~Shrink(p)
              /\ \A q \in Procs : ~Fork(p, q)
  BY DEF CopyPage, CopyMap, DupBlock, DupFails, ForkDone, DupSlot, ExecCommit, Shrink, Fork,
         Calling, Running, PlainInv, Plain
<1>12. CASE UNCHANGED vars
  BY <1>1, <1>12 DEF vars, table, store
<1>13. ASSUME NEW p \in Procs, Kernel(p) PROVE KeptInv'
  BY <1>2, <1>3, <1>5, <1>6, <1>7, <1>11, <1>13 DEF Kernel
<1> QED
  BY <1>4, <1>8, <1>9, <1>10, <1>11, <1>12, <1>13 DEF Next

LEMMA InitPlain == ASSUME PageSwapAssumption, Init PROVE PlainInv
<1>1. \A p \in Procs : loc[p] \in {AtRest, Rest("wait")} /\ state[p] # "embryo"
  BY DEF Init
<1>2. \A p \in Procs : /\ loc[p].pc \in {"user", "wait"} /\ loc[p].call = "none"
                       /\ loc[p].kid = None /\ loc[p].ret = "none"
  BY <1>1 DEF AtRest, Rest
<1> QED
  BY <1>1, <1>2 DEF PlainInv, Plain, Faulting, SwapOut

LEMMA KeptAccounted == ASSUME KeptInv PROVE SlotsAccounted
<1> SUFFICES ASSUME NEW s \in Slots, s \notin freeSlots PROVE SlotHolders(s) # {}
  BY DEF SlotsAccounted
<1>1. CASE \E p \in Procs, v \in Pages : state[p] = "live" /\ pte[p][v] = s
  <2>1. PICK p \in Procs, v \in Pages : state[p] = "live" /\ pte[p][v] = s
    BY <1>1
  <2>2. <<p, v>> \in SlotHolders(s)
    BY <2>1 DEF SlotHolders
  <2> QED
    BY <2>2
<1>2. CASE \E p \in Procs : loc[p].pc \in {"write", "set"} /\ loc[p].slot = s
  <2>1. PICK p \in Procs : loc[p].pc \in {"write", "set"} /\ loc[p].slot = s
    BY <1>2
  <2>2. <<p, None>> \in SlotHolders(s)
    BY <2>1 DEF SlotHolders
  <2> QED
    BY <2>2
<1> QED
  BY <1>1, <1>2 DEF KeptInv, KeptSlot

\* Nothing leaks and nothing is given out twice, neither slots nor frames (swapAndPageOut,
\* swapPageIn, swapAndClean, kalloc, kfree): where parents wait and programs grow, fault
\* and exit but neither fork, exec nor shrink (freevm and deallocuvm leave the slots of
\* what they free taken).
THEOREM NothingLeaks ==
    ASSUME ~Background, Calls \cap {"stray", "fork", "exec", "shrink"} = {}
    PROVE  Spec => []StorageAccounted
<1>1. Foreground /\ "fork" \notin Calls /\ Calls \cap {"fork", "exec", "shrink"} = {}
  BY DEF Foreground
<1> DEFINE Inv == IInv /\ FInv /\ PlainInv /\ KeptInv
<1>2. Init => Inv
  BY <1>1, PageSwapAssumption, InitIInv, InitFInv, InitPlain, InitKept
<1>3. Inv /\ [Next]_vars => Inv'
  BY <1>1, PageSwapAssumption, NextIInv, NextFInv, NextPlain, NextKept DEF Foreground
<1>4. Inv => StorageAccounted
  BY PageSwapAssumption, HoldersAreClaims, KeptAccounted DEF StorageAccounted
<1> QED
  BY <1>2, <1>3, <1>4, PTL DEF Spec

-----------------------------------------------------------------------------
(* Programs run on their own page tables, when no fault finds its blocks cached *)

\* Who wants a frame and finds none has not swapped out a page since it last slept, and a
\* fault has slept once it has read a block.
Own(p) == state[p] = "live" =>
    /\ loc[p].pc \in {"user", "wait"} => cr3[p] = p
    /\ loc[p].pc \in {"kalloc"} \cup SwapOut /\ freelist = {} => cr3[p] = p
    /\ loc[p].pc = "fault" => loc[p].blk \in Nat /\ (loc[p].blk > 1 => cr3[p] = p)

OwnInv == cr3 \in [Procs -> Procs] /\ \A p \in Procs : Own(p)

\* Who is at rest goes on so.
LEMMA OwnStays ==
    ASSUME OwnInv, NEW p \in Procs, \A q \in Procs : q # p => loc[q] \in {AtRest, Rest("wait")},
           OthersStay(p), \A q \in Procs : q # p => (state'[q] = "live" => state[q] = "live"),
           cr3' = cr3 \/ cr3' = [cr3 EXCEPT ![p] = p], Own(p)'
    PROVE  OwnInv'
<1>1. cr3' \in [Procs -> Procs] /\ \A q \in Procs : q # p => cr3'[q] = cr3[q]
  BY DEF OwnInv
<1>2. ASSUME NEW q \in Procs, q # p PROVE Own(q)'
  <2>1. loc'[q] = loc[q] /\ loc[q].pc \in {"user", "wait"}
    BY <1>2 DEF OthersStay, AtRest, Rest
  <2> QED
    BY <1>1, <1>2, <2>1 DEF OwnInv, Own, SwapOut
<1> QED
  BY <1>1, <1>2 DEF OwnInv

LEMMA InitOwn == ASSUME PageSwapAssumption, Init PROVE OwnInv
<1>1. cr3 = [p \in Procs |-> p]
  BY DEF Init
<1>2. \A p \in Procs : loc[p] \in {AtRest, Rest("wait")}
  BY DEF Init
<1>3. \A p \in Procs : loc[p].pc \in {"user", "wait"}
  BY <1>2 DEF AtRest, Rest
<1> QED
  BY <1>1, <1>3 DEF OwnInv, Own, SwapOut

\* Steps of a kernel call that goes on
LEMMA KernelOwn ==
    ASSUME PageSwapAssumption, ~Cached, IInv, FInv, PlainInv, OwnInv, NEW p \in Procs,
           \/ CheckAndSwap(p) \/ FindVictimProc(p) \/ FindVictimPage(p) \/ PageOut(p)
           \/ Kalloc(p) \/ WriteOut(p) \/ ReadIn(p) \/ SetPte(p)
    PROVE  OwnInv'
<1>1. Own(p) /\ cr3 \in [Procs -> Procs]
  BY DEF OwnInv
<1>2. CASE CheckAndSwap(p) \/ FindVictimProc(p) \/ FindVictimPage(p) \/ PageOut(p)
  <2>1. /\ UNCHANGED <<state, cr3, freelist>> /\ state[p] = "live"
        /\ loc[p].pc \in {"kalloc", "victim", "page", "out"} /\ OthersStay(p)
        /\ loc'[p].pc \in {"kalloc", "victim", "page", "out", "write"}
    BY <1>2, SearchEffect
  <2>2. Own(p)'
    BY <1>1, <2>1 DEF Own, SwapOut
  <2>3. Up(p)
    BY <2>1 DEF Up, Busy
  <2> QED
    BY <2>1, <2>2, <2>3, OthersRest, OwnStays
<1>3. CASE Kalloc(p)
  <2>1. /\ UNCHANGED <<state, cr3>> /\ state[p] = "live" /\ loc[p].pc = "kalloc"
        /\ OthersStay(p) /\ loc'[p].pc \in {"grow", "fault", "exec"} /\ loc'[p].blk = 1
    BY <1>3, KallocEffect
  <2>2. Own(p)'
    BY <2>1 DEF Own, SwapOut
  <2>3. Up(p)
    BY <2>1 DEF Up, Busy
  <2> QED
    BY <2>1, <2>2, <2>3, OthersRest, OwnStays
<1>4. CASE WriteOut(p) \/ ReadIn(p)
  <2>1. /\ state' = state /\ state[p] = "live" /\ loc[p].pc # "wait" /\ OthersStay(p)
        /\ cr3' = [cr3 EXCEPT ![p] = p]
        /\ loc'[p].pc = "fault" => loc[p].pc = "fault" /\ loc'[p].blk = loc[p].blk + 1
    BY <1>4, WriteEffect, ReadEffect DEF Slept
  <2>2. cr3'[p] = p
    BY <1>1, <2>1
  <2>3. Own(p)'
    BY <1>1, <2>1, <2>2 DEF Own
  <2>4. Up(p)
    BY <2>1 DEF Up, Busy
  <2> QED
    BY <2>1, <2>3, <2>4, OthersRest, OwnStays
<1>5. CASE SetPte(p)
  <2>1. CASE UNCHANGED <<cr3, freelist, loc>>
    BY <1>5, <2>1, SetPteEffect DEF OwnInv, Own
  <2>2. CASE ~UNCHANGED <<cr3, freelist, loc>>
    <3>1. /\ state' = state /\ state[p] = "live" /\ loc[p].pc = "set" /\ OthersStay(p)
          /\ loc[p].victim \in Procs /\ freelist' # {} /\ loc'[p].pc = "page"
          /\ cr3' = [cr3 EXCEPT ![p] = loc[p].victim]
      BY <1>5, <2>2, SetPteEffect
    <3>2. \A q \in Procs : q # p => loc[q] \in {AtRest, Rest("wait")}
      BY <3>1, OthersRest DEF Up, Busy
    <3>3. cr3' \in [Procs -> Procs] /\ \A q \in Procs : q # p => cr3'[q] = cr3[q]
      BY <1>1, <3>1
    <3>4. ASSUME NEW q \in Procs PROVE Own(q)'
      <4>1. CASE q = p
        BY <3>1, <4>1 DEF Own
      <4>2. CASE q # p
        <5>1. loc'[q] = loc[q] /\ loc[q].pc \in {"user", "wait"}
          BY <3>1, <3>2, <4>2 DEF OthersStay, AtRest, Rest
        <5> QED
          BY <3>1, <3>3, <4>2, <5>1 DEF OwnInv, Own, SwapOut
      <4> QED
        BY <4>1, <4>2
    <3> QED
      BY <3>3, <3>4 DEF OwnInv
  <2> QED
    BY <2>1, <2>2
<1> QED
  BY <1>2, <1>3, <1>4, <1>5

\* Steps that end one
LEMMA EndOwn ==
    ASSUME PageSwapAssumption, Foreground, IInv, FInv, PlainInv, OwnInv, NEW p \in Procs,
           \/ GrowMap(p) \/ MapIn(p) \/ KallocFails(p) \/ ExecCommit(p) \/ Exit(p)
           \/ Shrink(p) \/ \E z \in Procs : Wait(p, z)
    PROVE  OwnInv'
<1>1. Own(p) /\ cr3 \in [Procs -> Procs]
  BY DEF OwnInv
<1>2. \A q \in Procs : q # p => loc[q] \in {AtRest, Rest("wait")}
  <2>1. CASE \E z \in Procs : Wait(p, z)
    BY <2>1, WaitEffect
  <2>2. CASE ~\E z \in Procs : Wait(p, z)
    <3>1. state[p] = "live" /\ loc[p].pc # "wait"
      <4>1. CASE GrowMap(p) \/ MapIn(p) \/ KallocFails(p)
        BY <4>1, GrowEffect, MapInEffect, FailEffect
      <4>2. CASE ExecCommit(p) \/ Exit(p) \/ Shrink(p)
        BY <4>2, ExecEffect, ExitEffect, ShrinkEffect
      <4> QED
        BY <2>2, <4>1, <4>2
    <3> QED
      BY <3>1, OthersRest DEF Up, Busy
  <2> QED
    BY <2>1, <2>2
<1>3. CASE UNCHANGED <<state, cr3, freelist, loc>>
  BY <1>3 DEF OwnInv, Own
<1>4. CASE GrowMap(p) /\ ~UNCHANGED <<state, cr3, freelist, loc>>
  <2>1. /\ state' = state /\ cr3' = [cr3 EXCEPT ![p] = p] /\ OthersStay(p) /\ loc'[p] = AtRest
    BY <1>4, GrowEffect
  <2>2. Own(p)'
    BY <1>1, <2>1 DEF Own, AtRest, SwapOut
  <2> QED
    BY <1>2, <2>1, <2>2, OwnStays
<1>5. CASE MapIn(p) /\ ~UNCHANGED <<state, cr3, freelist, loc>>
  <2>1. /\ UNCHANGED <<state, cr3>> /\ state[p] = "live" /\ loc[p].pc = "fault"
        /\ loc[p].blk > BLOCKS /\ OthersStay(p) /\ loc'[p] = AtRest
    BY <1>5, MapInEffect
  <2>2. loc[p].blk \in Nat /\ (loc[p].blk > 1 => cr3[p] = p)
    BY <1>1, <2>1 DEF Own
  <2>3. BLOCKS \in Nat \ {0}
    BY DEF PageSwapAssumption
  <2>4. cr3'[p] = p
    BY <2>1, <2>2, <2>3
  <2>5. Own(p)'
    BY <2>1, <2>4 DEF Own, AtRest, SwapOut
  <2> QED
    BY <1>2, <2>1, <2>5, OwnStays
<1>6. CASE KallocFails(p)
  <2>1. /\ UNCHANGED <<state, cr3>> /\ state[p] = "live" /\ loc[p].pc = "kalloc"
        /\ freelist = {} /\ OthersStay(p) /\ loc'[p] \in {AtRest, Rest("exit")}
    BY <1>6, FailEffect
  <2>2. cr3'[p] = p
    BY <1>1, <2>1 DEF Own
  <2>3. Own(p)'
    BY <2>1, <2>2 DEF Own, AtRest, Rest, SwapOut
  <2> QED
    BY <1>2, <2>1, <2>3, OwnStays
<1>7. CASE ExecCommit(p)
  <2>1. /\ state' = state /\ cr3' = [cr3 EXCEPT ![p] = p] /\ OthersStay(p) /\ loc'[p] = AtRest
    BY <1>7, ExecEffect
  <2>2. Own(p)'
    BY <1>1, <2>1 DEF Own, AtRest, SwapOut
  <2> QED
    BY <1>2, <2>1, <2>2, OwnStays
<1>8. CASE Exit(p)
  <2>1. /\ cr3' = cr3 /\ state'[p] = "zombie" /\ \A q \in Procs : q # p => state'[q] = state[q]
        /\ OthersStay(p)
    BY <1>8, ExitEffect
  <2>2. Own(p)'
    BY <2>1 DEF Own
  <2> QED
    BY <1>2, <2>1, <2>2, OwnStays
<1>9. CASE Shrink(p)
  <2>1. /\ state' = state /\ cr3' = [cr3 EXCEPT ![p] = p] /\ loc' = loc /\ loc[p] = AtRest
    BY <1>9, ShrinkEffect
  <2>2. Own(p)'
    BY <1>1, <2>1 DEF Own, AtRest, SwapOut
  <2> QED
    BY <1>2, <2>1, <2>2, OwnStays DEF OthersStay
<1>10. CASE \E z \in Procs : Wait(p, z)
  <2>1. PICK z \in Procs : Wait(p, z)
    BY <1>10
  <2>2. /\ cr3' = cr3 /\ state[p] = "live" /\ loc[p].pc = "wait" /\ state'[z] = "unused"
        /\ \A q \in Procs : q # z => state'[q] = state[q]
        /\ OthersStay(p) /\ loc'[p] = AtRest
    BY <2>1, WaitEffect
  <2>3. Own(p)'
    BY <1>1, <2>2 DEF Own, AtRest, SwapOut
  <2>4. \A q \in Procs : q # p => (state'[q] = "live" => state[q] = "live")
    BY <2>2
  <2> QED
    BY <1>2, <2>2, <2>3, <2>4, OwnStays
<1> QED
  BY <1>3, <1>4, <1>5, <1>6, <1>7, <1>8, <1>9, <1>10

LEMMA NextOwn ==
    ASSUME PageSwapAssumption, Foreground, ~Cached, "fork" \notin Calls, IInv, FInv, PlainInv,
           OwnInv, [Next]_vars
    PROVE  OwnInv'
<1>1. CASE UNCHANGED <<state, cr3, freelist, loc>>
  BY <1>1 DEF OwnInv, Own
<1>2. ASSUME NEW p \in Procs, Kernel(p) PROVE OwnInv'
  <2>1. /\ ~CopyPage(p) /\ ~CopyMap(p) /\ ~DupBlock(p) /\ ~DupFails(p) /\ ~ForkDone(p)
        /\ \A s \in Slots : ~DupSlot(p, s)
    BY DEF CopyPage, CopyMap, DupBlock, DupFails, ForkDone, DupSlot, Running, PlainInv, Plain
  <2> QED
    BY <1>2, <2>1, KernelOwn, EndOwn DEF Kernel
<1>3. ASSUME NEW p \in Procs,
             \/ \E v \in Pages : Fault(p, v) \/ Segfault(p, v)
             \/ Grow(p) \/ Exec(p)
      PROVE  OwnInv'
  <2>1. /\ UNCHANGED <<state, cr3, freelist>> /\ state[p] = "live" /\ loc[p].pc = "user"
        /\ OthersStay(p) /\ loc'[p].pc \in {"kalloc", "exit"}
    BY <1>3, UserEffect DEF Rest, AtRest
  <2>2. Own(p)'
    BY <2>1 DEF OwnInv, Own, SwapOut
  <2>3. Up(p)
    BY <2>1 DEF Up, Busy
  <2> QED
    BY <2>1, <2>2, <2>3, OthersRest, OwnStays
<1>4. ASSUME NEW p \in Procs, Preempt(p) PROVE OwnInv'
  <2>1. UNCHANGED <<state, freelist, loc>> /\ cr3' = [cr3 EXCEPT ![p] = p]
    BY <1>4 DEF Preempt, Slept, table, store
  <2>2. cr3' \in [Procs -> Procs] /\ cr3'[p] = p /\ \A q \in Procs : q # p => cr3'[q] = cr3[q]
    BY <2>1 DEF OwnInv
  <2> QED
    BY <2>1, <2>2 DEF OwnInv, Own
<1>5. ASSUME NEW p \in Procs, \/ \E v \in Pages : Buffer(p, v)
                              \/ \E v \in Pages, b \in 1..BLOCKS, x \in Vals : Write(p, v, b, x)
      PROVE  OwnInv'
  <2>1. UNCHANGED <<state, cr3, freelist, loc>>
    BY <1>5 DEF Buffer, Write, table, store
  <2> QED
    BY <1>1, <2>1
<1>6. ASSUME NEW p \in Procs, \/ Shrink(p) \/ Exit(p) \/ \E q \in Procs : Fork(p, q) \/ Wait(p, q)
      PROVE  OwnInv'
  BY <1>6, EndOwn DEF Fork, Calling
<1>7. CASE UNCHANGED vars
  BY <1>1, <1>7 DEF vars, table, store
<1> QED
  BY <1>2, <1>3, <1>4, <1>5, <1>6, <1>7 DEF Next

\* RunsOwnPages: whenever a program runs, the CPU uses its own page table, though a swap in
\* its last call left the victim's loaded.  In programs that fork, duplicateSwapSlot may not
\* sleep afterwards; where a block may be cached, nor need a fault.
THEOREM ProgramsRunOwnPages ==
    ASSUME ~Background, ~Cached, Calls \cap {"stray", "fork"} = {}
    PROVE  Spec => []RunsOwnPages
<1>1. Foreground /\ "fork" \notin Calls
  BY DEF Foreground
<1> DEFINE Inv == IInv /\ FInv /\ PlainInv /\ OwnInv
<1>2. Init => Inv
  BY <1>1, PageSwapAssumption, InitIInv, InitFInv, InitPlain, InitOwn
<1>3. Inv /\ [Next]_vars => Inv'
  BY <1>1, PageSwapAssumption, NextIInv, NextFInv, NextPlain, NextOwn DEF Foreground
<1>4. Inv => RunsOwnPages
  BY DEF OwnInv, Own, RunsOwnPages, Running
<1> QED
  BY <1>2, <1>3, <1>4, PTL DEF Spec

-----------------------------------------------------------------------------
(* Every page holds what its process last wrote there *)

\* The blocks before l.blk are copied: of the page to swap out to its slot, or of the slot
\* of a fault to the new frame.
Copied(l) ==
    /\ l.pc \in {"write", "set"} =>
           \A b \in 1..BLOCKS : b < l.blk => disk[l.slot][b] = mem[l.pa][b]
    /\ l.pc = "write" => l.blk \in 1..BLOCKS
    /\ l.pc = "set" => l.blk \in Nat /\ l.blk > BLOCKS
    /\ l.pc = "fault" => /\ l.blk \in Nat \ {0}
                         /\ \A b \in 1..BLOCKS : b < l.blk => mem[l.frame][b] = disk[l.from][b]

\* PagesKept, for a page
Keeps(p, v) == /\ pte[p][v] # None
               /\ pte[p][v] \in Frames => mem[pte[p][v]] = written[p][v]
               /\ pte[p][v] \in Slots => disk[pte[p][v]] = written[p][v]

Stored == /\ mem \in [Frames -> Contents] /\ disk \in [Slots -> Contents]
          /\ written \in [Procs -> [Pages -> Contents]]

AllCopied == \A p \in Procs : Copied(loc[p])
AllKept == \A p \in Procs, v \in Pages : state[p] = "live" /\ v <= sz[p] => Keeps(p, v)

DataInv == Stored /\ AllCopied /\ AllKept

\* Who is at rest copies nothing.
LEMMA CopiedStays ==
    ASSUME NEW p \in Procs, \A q \in Procs : q # p => loc[q] \in {AtRest, Rest("wait")},
           OthersStay(p), Copied(loc[p])'
    PROVE  AllCopied'
<1>1. \A q \in Procs : q # p => loc'[q].pc \in {"user", "wait"}
  BY DEF OthersStay, AtRest, Rest
<1> QED
  BY <1>1 DEF AllCopied, Copied

LEMMA RestCopied ==
    ASSUME NEW p, loc'[p].pc \notin {"write", "set", "fault"} PROVE Copied(loc[p])'
  BY DEF Copied

\* A page whose frame or slot stays as it is keeps what it has.
LEMMA KeepsStays ==
    ASSUME NEW p \in Procs, NEW v \in Pages, Keeps(p, v),
           pte'[p][v] = pte[p][v], written'[p][v] = written[p][v],
           pte[p][v] \in Frames => mem'[pte[p][v]] = mem[pte[p][v]],
           pte[p][v] \in Slots => disk'[pte[p][v]] = disk[pte[p][v]]
    PROVE  Keeps(p, v)'
  BY DEF Keeps

LEMMA KeptStays ==
    ASSUME AllKept, UNCHANGED <<state, sz, pte, mem, disk, written>> PROVE AllKept'
  BY DEF AllKept, Keeps

\* A frame has one page, a free one none, nor one in hand; a slot in hand has none.
LEMMA OneFrame ==
    ASSUME FInv, NEW f \in Frames, NEW p \in Procs, NEW v \in Pages, pte[p][v] = f
    PROVE  /\ f \notin freelist
           /\ \A q \in Procs : loc[q].pc \in Holding => loc[q].frame # f
           /\ \A q \in Procs, w \in Pages : pte[q][w] = f => q = p /\ w = v
<1>1. v \in Holders /\ None \in Holders /\ v # None /\ FrameClaim(f, p, v)
  BY DEF Holders, Pages, None, FrameClaim
<1>2. f \notin freelist
  BY <1>1 DEF FInv, FramesInv
<1>3. ASSUME NEW q \in Procs, loc[q].pc \in Holding, loc[q].frame = f PROVE FALSE
  <2>1. FrameClaim(f, q, None)
    BY <1>3 DEF FrameClaim
  <2> QED
    BY <1>1, <2>1 DEF FInv, FramesInv
<1>4. ASSUME NEW q \in Procs, NEW w \in Pages, pte[q][w] = f PROVE q = p /\ w = v
  <2>1. FrameClaim(f, q, w) /\ w \in Holders
    BY <1>4 DEF FrameClaim, Holders
  <2> QED
    BY <1>1, <2>1 DEF FInv, FramesInv
<1> QED
  BY <1>2, <1>3, <1>4

LEMMA SlotInHand ==
    ASSUME PageSwapAssumption, IInv, NEW p \in Procs, loc[p].slot \in Slots,
           NEW q \in Procs, NEW v \in Pages, state[q] = "live"
    PROVE  pte[q][v] # loc[p].slot
<1> SUFFICES ASSUME pte[q][v] = loc[p].slot PROVE FALSE
  OBVIOUS
<1>1. Claim(loc[p].slot, p, None) /\ None \in Claimants
  BY DEF Claim, Claimants, None
<1>2. Claim(loc[p].slot, q, v) /\ v \in Claimants /\ v # None
  BY DEF Claim, Claimants, Pages, None
<1>3. Exclusive
  BY DEF IInv
<1> QED
  BY <1>1, <1>2, <1>3 DEF Exclusive

\* Storing a block
LEMMA BlockStored ==
    ASSUME NEW f \in [1..BLOCKS -> Vals \cup {"zero", "junk"}], NEW b,
           NEW x \in Vals \cup {"zero", "junk"}
    PROVE  /\ [f EXCEPT ![b] = x] \in Contents
           /\ \A c \in 1..BLOCKS : [f EXCEPT ![b] = x][c] = IF c = b THEN x ELSE f[c]
  BY DEF Contents

LEMMA BlankPages == Zero \in Contents /\ Junk \in Contents
  BY DEF Zero, Junk, Contents

LEMMA InitData == ASSUME PageSwapAssumption, Init PROVE DataInv
<1>1. Stored
  <2>1. /\ \E s : mem = [g \in Frames |-> IF g \in s THEN Junk ELSE Zero]
        /\ disk = [s \in Slots |-> Zero]
        /\ written = [p \in Procs |-> [v \in Pages |-> Zero]]
    BY DEF Init
  <2> QED
    BY <2>1, BlankPages DEF Stored
<1>2. AllCopied
  <2>1. \A p \in Procs : loc[p] \in {AtRest, Rest("wait")}
    BY DEF Init
  <2>2. \A p \in Procs : loc[p].pc \in {"user", "wait"}
    BY <2>1 DEF AtRest, Rest
  <2> QED
    BY <2>2 DEF AllCopied, Copied
<1>3. AllKept
  <2> SUFFICES ASSUME NEW p \in Procs, NEW v \in Pages, state[p] = "live", v <= sz[p]
               PROVE  Keeps(p, v)
    BY DEF AllKept
  <2>1. p \in InitProcs /\ sz[p] = 1
    BY DEF Init
  <2>2. v = 1
    BY <2>1 DEF Pages
  <2>3. PICK f \in [InitProcs -> Frames] :
            /\ pte = [q \in Procs |-> [w \in Pages |->
                          IF q \in InitProcs /\ w = 1 THEN f[q] ELSE None]]
            /\ freelist = Frames \ {f[q] : q \in InitProcs}
            /\ mem = [g \in Frames |-> IF g \in freelist THEN Junk ELSE Zero]
    BY DEF Init
  <2>4. pte[p][v] = f[p] /\ f[p] \in Frames /\ f[p] \notin freelist
    BY <2>1, <2>2, <2>3
  <2>5. mem[f[p]] = Zero /\ written[p][v] = Zero
    BY <2>3, <2>4 DEF Init
  <2>6. f[p] \notin Slots /\ f[p] # None
    BY <2>4 DEF PageSwapAssumption, Slots, None
  <2> QED
    BY <2>4, <2>5, <2>6 DEF Keeps
<1> QED
  BY <1>1, <1>2, <1>3 DEF DataInv

\* Steps of a call that goes on: the search for a page and a slot, ...
LEMMA SearchData ==
    ASSUME PageSwapAssumption, IInv, FInv, PlainInv, DataInv, NEW p \in Procs,
           CheckAndSwap(p) \/ FindVictimProc(p) \/ FindVictimPage(p) \/ PageOut(p)
    PROVE  DataInv'
<1>1. /\ UNCHANGED <<state, sz, pte, mem, disk, written>> /\ state[p] = "live"
      /\ loc[p].pc \in {"kalloc", "victim", "page", "out"} /\ OthersStay(p)
      /\ loc'[p].pc \in {"kalloc", "victim", "page", "out", "write"}
      /\ loc'[p].pc = "write" => loc'[p].blk = 1
  BY SearchEffect
<1>2. 1 \in 1..BLOCKS /\ \A b \in 1..BLOCKS : ~(b < 1)
  BY DEF PageSwapAssumption
<1>3. Copied(loc[p])'
  BY <1>1, <1>2 DEF Copied
<1>4. \A q \in Procs : q # p => loc[q] \in {AtRest, Rest("wait")}
  BY <1>1, OthersRest DEF Up, Busy
<1>5. AllCopied' /\ AllKept' /\ Stored'
  BY <1>1, <1>3, <1>4, CopiedStays, KeptStays DEF DataInv, Stored
<1> QED
  BY <1>5 DEF DataInv

\* ... kalloc, ...
LEMMA KallocData ==
    ASSUME PageSwapAssumption, IInv, FInv, PlainInv, DataInv, NEW p \in Procs, Kalloc(p)
    PROVE  DataInv'
<1>1. /\ UNCHANGED <<state, sz, pte, disk, written>> /\ state[p] = "live" /\ loc[p].pc = "kalloc"
      /\ OthersStay(p) /\ loc'[p].pc \in {"grow", "fault", "exec"} /\ loc'[p].blk = 1
      /\ loc'[p].frame \in freelist /\ loc'[p].frame \in Frames
      /\ mem' = [mem EXCEPT ![loc'[p].frame] = Junk]
  BY KallocEffect
<1> PICK f \in Frames : f = loc'[p].frame
  BY <1>1
<1>2. mem' \in [Frames -> Contents] /\ \A g \in Frames : g # f => mem'[g] = mem[g]
  BY <1>1, BlankPages DEF DataInv, Stored
<1>3. Stored'
  BY <1>1, <1>2 DEF DataInv, Stored
<1>4. Copied(loc[p])'
  BY <1>1 DEF Copied
<1>5. \A q \in Procs : q # p => loc[q] \in {AtRest, Rest("wait")}
  BY <1>1, OthersRest DEF Up, Busy
<1>6. AllCopied'
  BY <1>1, <1>4, <1>5, CopiedStays
<1>7. AllKept'
  <2> SUFFICES ASSUME NEW q \in Procs, NEW v \in Pages, state'[q] = "live", v <= sz'[q]
               PROVE  Keeps(q, v)'
    BY DEF AllKept
  <2>1. Keeps(q, v)
    BY <1>1 DEF DataInv, AllKept
  <2>2. pte[q][v] # f
    BY <1>1, OneFrame
  <2>3. pte[q][v] \in Frames => mem'[pte[q][v]] = mem[pte[q][v]]
    BY <1>2, <2>2
  <2> QED
    BY <1>1, <2>1, <2>3, KeepsStays
<1> QED
  BY <1>3, <1>6, <1>7 DEF DataInv

\* ... a block that swapAndPageOut writes ...
LEMMA WriteData ==
    ASSUME PageSwapAssumption, IInv, FInv, PlainInv, DataInv, NEW p \in Procs, WriteOut(p)
    PROVE  DataInv'
<1>1. /\ UNCHANGED <<state, sz, pte, mem, written>> /\ state[p] = "live" /\ loc[p].pc = "write"
      /\ disk' = [disk EXCEPT ![loc[p].slot][loc[p].blk] = mem[loc[p].pa][loc[p].blk]]
      /\ OthersStay(p) /\ loc'[p].slot = loc[p].slot /\ loc'[p].pa = loc[p].pa
      /\ loc'[p].blk = loc[p].blk + 1
      /\ loc'[p].pc = IF loc[p].blk = BLOCKS THEN "set" ELSE "write"
  BY WriteEffect
<1>2. loc[p].slot \in Slots /\ loc[p].pa \in Frames /\ loc[p].blk \in 1..BLOCKS
  <2>1. Placed(loc[p]) /\ Copied(loc[p])
    BY DEF FInv, PlaceInv, DataInv, AllCopied
  <2>2. loc[p].pa \in Frames
    BY <1>1 DEF IInv, Swapping
  <2> QED
    BY <1>1, <2>1, <2>2 DEF Placed, Copied
<1> PICK s \in Slots, f \in Frames, b \in 1..BLOCKS :
             s = loc[p].slot /\ f = loc[p].pa /\ b = loc[p].blk
  BY <1>2
<1>3. /\ mem \in [Frames -> Contents] /\ disk \in [Slots -> Contents]
      /\ mem[f] \in [1..BLOCKS -> Vals \cup {"zero", "junk"}]
      /\ disk[s] \in [1..BLOCKS -> Vals \cup {"zero", "junk"}]
      /\ mem[f][b] \in Vals \cup {"zero", "junk"}
  BY DEF DataInv, Stored, Contents
<1>4. /\ disk'[s] = [disk[s] EXCEPT ![b] = mem[f][b]]
      /\ \A t \in Slots : t # s => disk'[t] = disk[t]
      /\ disk' = [disk EXCEPT ![s] = [disk[s] EXCEPT ![b] = mem[f][b]]]
  BY <1>1, <1>3
<1>5. /\ disk'[s] \in Contents
      /\ \A c \in 1..BLOCKS : disk'[s][c] = IF c = b THEN mem[f][b] ELSE disk[s][c]
  <2> PICK old \in [1..BLOCKS -> Vals \cup {"zero", "junk"}], x \in Vals \cup {"zero", "junk"} :
               old = disk[s] /\ x = mem[f][b]
    BY <1>3
  <2>1. /\ [old EXCEPT ![b] = x] \in Contents
        /\ \A c \in 1..BLOCKS : [old EXCEPT ![b] = x][c] = IF c = b THEN x ELSE old[c]
    BY DEF Contents
  <2> QED
    BY <1>4, <2>1
<1>6. Stored'
  <2>1. disk' \in [Slots -> Contents]
    BY <1>3, <1>4, <1>5
  <2> QED
    BY <1>1, <2>1 DEF DataInv, Stored
<1>7. Copied(loc[p])'
  <2>1. /\ loc'[p].slot = s /\ loc'[p].pa = f /\ loc'[p].blk = b + 1 /\ mem' = mem
        /\ loc'[p].pc = IF b = BLOCKS THEN "set" ELSE "write"
    BY <1>1
  <2>2. \A c \in 1..BLOCKS : c < b => disk[s][c] = mem[f][c]
    BY <1>1 DEF DataInv, AllCopied, Copied
  <2>3. \A c \in 1..BLOCKS : c < b + 1 => disk'[s][c] = mem[f][c]
    BY <1>5, <2>2
  <2>4. BLOCKS \in Nat \ {0}
    BY DEF PageSwapAssumption
  <2>5. b + 1 \in Nat /\ (b = BLOCKS => b + 1 > BLOCKS) /\ (b # BLOCKS => b + 1 \in 1..BLOCKS)
    BY <2>4
  <2> QED
    BY <2>1, <2>3, <2>5 DEF Copied
<1>8. \A q \in Procs : q # p => loc[q] \in {AtRest, Rest("wait")}
  BY <1>1, OthersRest DEF Up, Busy
<1>9. AllCopied'
  BY <1>1, <1>7, <1>8, CopiedStays
<1>10. AllKept'
  <2> SUFFICES ASSUME NEW q \in Procs, NEW v \in Pages, state'[q] = "live", v <= sz'[q]
               PROVE  Keeps(q, v)'
    BY DEF AllKept
  <2>1. Keeps(q, v)
    BY <1>1 DEF DataInv, AllKept
  <2>2. pte[q][v] # s
    BY <1>1, SlotInHand
  <2>3. pte[q][v] \in Slots => disk'[pte[q][v]] = disk[pte[q][v]]
    BY <1>4, <2>2
  <2> QED
    BY <1>1, <2>1, <2>3, KeepsStays
<1> QED
  BY <1>6, <1>9, <1>10 DEF DataInv

\* ... and one that swapPageIn reads.
LEMMA ReadData ==
    ASSUME PageSwapAssumption, IInv, FInv, PlainInv, DataInv, NEW p \in Procs, ReadIn(p)
    PROVE  DataInv'
<1>1. /\ UNCHANGED <<state, sz, pte, disk, written>> /\ state[p] = "live" /\ loc[p].pc = "fault"
      /\ loc[p].blk <= BLOCKS
      /\ mem' = [mem EXCEPT ![loc[p].frame][loc[p].blk] = disk[loc[p].from][loc[p].blk]]
      /\ OthersStay(p) /\ loc'[p].from = loc[p].from
      /\ loc'[p].frame = loc[p].frame /\ loc'[p].blk = loc[p].blk + 1
      /\ loc'[p].pc = "fault"
  BY ReadEffect DEF SameCall
<1>2. loc[p].from \in Slots /\ loc[p].frame \in Frames /\ loc[p].blk \in 1..BLOCKS
  <2>1. Placed(loc[p]) /\ Copied(loc[p]) /\ Faulting(p)
    BY DEF FInv, PlaceInv, DataInv, AllCopied, PlainInv
  <2>2. loc[p].frame \in Frames /\ loc[p].call = "fault"
    BY <1>1, <2>1 DEF Placed, Holding
  <2>3. loc[p].blk \in Nat \ {0} /\ BLOCKS \in Nat
    BY <1>1, <2>1 DEF Copied, PageSwapAssumption
  <2> QED
    BY <1>1, <2>1, <2>2, <2>3 DEF Faulting
<1> PICK s \in Slots, f \in Frames, b \in 1..BLOCKS :
             s = loc[p].from /\ f = loc[p].frame /\ b = loc[p].blk
  BY <1>2
<1>3. /\ mem \in [Frames -> Contents] /\ disk \in [Slots -> Contents]
      /\ mem[f] \in [1..BLOCKS -> Vals \cup {"zero", "junk"}]
      /\ disk[s] \in [1..BLOCKS -> Vals \cup {"zero", "junk"}]
      /\ disk[s][b] \in Vals \cup {"zero", "junk"}
  BY DEF DataInv, Stored, Contents
<1>4. /\ mem'[f] = [mem[f] EXCEPT ![b] = disk[s][b]]
      /\ \A g \in Frames : g # f => mem'[g] = mem[g]
      /\ mem' = [mem EXCEPT ![f] = [mem[f] EXCEPT ![b] = disk[s][b]]]
  BY <1>1, <1>3
<1>5. /\ mem'[f] \in Contents
      /\ \A c \in 1..BLOCKS : mem'[f][c] = IF c = b THEN disk[s][b] ELSE mem[f][c]
  <2> PICK old \in [1..BLOCKS -> Vals \cup {"zero", "junk"}], x \in Vals \cup {"zero", "junk"} :
               old = mem[f] /\ x = disk[s][b]
    BY <1>3
  <2>1. /\ [old EXCEPT ![b] = x] \in Contents
        /\ \A c \in 1..BLOCKS : [old EXCEPT ![b] = x][c] = IF c = b THEN x ELSE old[c]
    BY DEF Contents
  <2> QED
    BY <1>4, <2>1
<1>6. Stored'
  <2>1. mem' \in [Frames -> Contents]
    BY <1>3, <1>4, <1>5
  <2> QED
    BY <1>1, <2>1 DEF DataInv, Stored
<1>7. Copied(loc[p])'
  <2>1. /\ loc'[p].from = s /\ loc'[p].frame = f /\ loc'[p].blk = b + 1 /\ disk' = disk
        /\ loc'[p].pc = "fault"
    BY <1>1
  <2>2. \A c \in 1..BLOCKS : c < b => mem[f][c] = disk[s][c]
    BY <1>1 DEF DataInv, AllCopied, Copied
  <2>3. \A c \in 1..BLOCKS : c < b + 1 => mem'[f][c] = disk[s][c]
    BY <1>5, <2>2
  <2>4. b + 1 \in Nat \ {0}
    OBVIOUS
  <2> QED
    BY <2>1, <2>3, <2>4 DEF Copied
<1>8. \A q \in Procs : q # p => loc[q] \in {AtRest, Rest("wait")}
  BY <1>1, OthersRest DEF Up, Busy
<1>9. AllCopied'
  BY <1>1, <1>7, <1>8, CopiedStays
<1>10. AllKept'
  <2> SUFFICES ASSUME NEW q \in Procs, NEW v \in Pages, state'[q] = "live", v <= sz'[q]
               PROVE  Keeps(q, v)'
    BY DEF AllKept
  <2>1. Keeps(q, v)
    BY <1>1 DEF DataInv, AllKept
  <2>2. pte[q][v] # f
    BY <1>1, OneFrame DEF Holding
  <2>3. pte[q][v] \in Frames => mem'[pte[q][v]] = mem[pte[q][v]]
    BY <1>4, <2>2
  <2> QED
    BY <1>1, <2>1, <2>3, KeepsStays
<1> QED
  BY <1>6, <1>9, <1>10 DEF DataInv

\* Blocks that are all the same make the same page.
LEMMA SamePage ==
    ASSUME NEW f \in Contents, NEW g \in Contents, \A b \in 1..BLOCKS : f[b] = g[b]
    PROVE  f = g
<1>1. f = [b \in 1..BLOCKS |-> f[b]] /\ g = [b \in 1..BLOCKS |-> g[b]]
  BY DEF Contents
<1>2. [b \in 1..BLOCKS |-> f[b]] = [b \in 1..BLOCKS |-> g[b]]
  OBVIOUS
<1> QED
  BY <1>1, <1>2

\* The page is in its slot, and its frame is free.
LEMMA SetPteData ==
    ASSUME PageSwapAssumption, IInv, FInv, PlainInv, DataInv, NEW p \in Procs, SetPte(p)
    PROVE  DataInv'
<1>1. CASE UNCHANGED <<pte, mem, loc>>
  <2>1. UNCHANGED <<state, sz, disk, written>>
    BY SetPteEffect
  <2>2. AllKept'
    BY <1>1, <2>1, KeptStays DEF DataInv
  <2> QED
    BY <1>1, <2>1, <2>2 DEF DataInv, Stored, AllCopied, Copied
<1>2. CASE ~UNCHANGED <<pte, mem, loc>>
  <2>1. /\ UNCHANGED <<state, sz, disk, written>> /\ state[p] = "live" /\ loc[p].pc = "set"
        /\ loc[p].victim \in Procs
        /\ loc[p].va \in Pages /\ loc[p].pa \in Frames /\ loc[p].slot \in Slots
        /\ pte[loc[p].victim][loc[p].va] = loc[p].pa
        /\ pte'[loc[p].victim][loc[p].va] = loc[p].slot
        /\ \A q \in Procs, w \in Pages :
               ~(q = loc[p].victim /\ w = loc[p].va) => pte'[q][w] = pte[q][w]
        /\ mem' = [mem EXCEPT ![loc[p].pa] = Junk]
        /\ OthersStay(p) /\ loc'[p].pc = "page"
    BY <1>2, SetPteEffect
  <2> PICK z \in Procs, u \in Pages, f \in Frames, s \in Slots :
               z = loc[p].victim /\ u = loc[p].va /\ f = loc[p].pa /\ s = loc[p].slot
    BY <2>1
  <2>2. disk[s] = mem[f]
    <3>1. mem[f] \in Contents /\ disk[s] \in Contents
      BY DEF DataInv, Stored
    <3>2. /\ loc[p].blk \in Nat /\ loc[p].blk > BLOCKS
          /\ \A b \in 1..BLOCKS : b < loc[p].blk => disk[s][b] = mem[f][b]
      <4>1. Copied(loc[p])
        BY DEF DataInv, AllCopied
      <4> QED
        BY <2>1, <4>1 DEF Copied
    <3>3. \A b \in 1..BLOCKS : b < loc[p].blk
      BY <3>2 DEF PageSwapAssumption
    <3>4. \A b \in 1..BLOCKS : disk[s][b] = mem[f][b]
      BY <3>2, <3>3
    <3> QED
      BY <3>1, <3>4, SamePage
  <2>3. mem' \in [Frames -> Contents] /\ \A g \in Frames : g # f => mem'[g] = mem[g]
    BY <2>1, BlankPages DEF DataInv, Stored
  <2>4. Stored'
    BY <2>1, <2>3 DEF DataInv, Stored
  <2>5. AllCopied'
    <3>1. Copied(loc[p])'
      BY <2>1 DEF Copied
    <3>2. \A q \in Procs : q # p => loc[q] \in {AtRest, Rest("wait")}
      BY <2>1, OthersRest DEF Up, Busy
    <3> QED
      BY <2>1, <3>1, <3>2, CopiedStays
  <2>6. AllKept'
    <3> SUFFICES ASSUME NEW q \in Procs, NEW v \in Pages, state'[q] = "live", v <= sz'[q]
                 PROVE  Keeps(q, v)'
      BY DEF AllKept
    <3>1. Keeps(q, v)
      BY <2>1 DEF DataInv, AllKept
    <3>2. CASE q = z /\ v = u
      <4>1. mem[f] = written[z][u]
        BY <2>1, <3>1, <3>2 DEF Keeps
      <4>2. s \notin Frames /\ s # None
        BY DEF Slots, None, PageSwapAssumption
      <4>3. pte'[z][u] = s /\ disk'[s] = mem[f] /\ written'[z][u] = written[z][u]
        BY <2>1, <2>2
      <4> QED
        BY <3>2, <4>1, <4>2, <4>3 DEF Keeps
    <3>3. CASE ~(q = z /\ v = u)
      <4>1. pte'[q][v] = pte[q][v]
        BY <2>1, <3>3
      <4>2. pte[q][v] # f
        BY <2>1, <3>3, OneFrame
      <4>3. pte[q][v] \in Frames => mem'[pte[q][v]] = mem[pte[q][v]]
        BY <2>3, <4>2
      <4> QED
        BY <2>1, <3>1, <4>1, <4>3, KeepsStays
    <3> QED
      BY <3>2, <3>3
  <2> QED
    BY <2>4, <2>5, <2>6 DEF DataInv
<1> QED
  BY <1>1, <1>2

\* sbrk gives a page of zeros.
LEMMA GrowData ==
    ASSUME PageSwapAssumption, IInv, FInv, PlainInv, DataInv, NEW p \in Procs, GrowMap(p)
    PROVE  DataInv'
<1>1. CASE UNCHANGED <<sz, pte, mem, loc, written>>
  <2>1. UNCHANGED <<state, disk>>
    BY GrowEffect
  <2>2. AllKept'
    BY <1>1, <2>1, KeptStays DEF DataInv
  <2> QED
    BY <1>1, <2>1, <2>2 DEF DataInv, Stored, AllCopied, Copied
<1>2. CASE ~UNCHANGED <<sz, pte, mem, loc, written>>
  <2>1. /\ UNCHANGED <<state, disk>> /\ state[p] = "live" /\ loc[p].pc = "grow"
        /\ sz[p] + 1 \in Pages /\ loc[p].frame \in Frames
        /\ pte'[p][sz[p] + 1] = loc[p].frame
        /\ \A q \in Procs, w \in Pages : ~(q = p /\ w = sz[p] + 1) => pte'[q][w] = pte[q][w]
        /\ sz' = [sz EXCEPT ![p] = sz[p] + 1]
        /\ mem' = [mem EXCEPT ![loc[p].frame] = Zero]
        /\ written' = [written EXCEPT ![p][sz[p] + 1] = Zero]
        /\ OthersStay(p) /\ loc'[p] = AtRest
    BY <1>2, GrowEffect
  <2> PICK u \in Pages, f \in Frames : u = sz[p] + 1 /\ f = loc[p].frame
    BY <2>1
  <2>2. /\ mem' \in [Frames -> Contents] /\ mem'[f] = Zero
        /\ \A g \in Frames : g # f => mem'[g] = mem[g]
    BY <2>1, BlankPages DEF DataInv, Stored
  <2>3. written \in [Procs -> [Pages -> Contents]]
    BY DEF DataInv, Stored
  <2>4. /\ written'[p][u] = Zero
        /\ \A q \in Procs, w \in Pages : ~(q = p /\ w = u) => written'[q][w] = written[q][w]
    BY <2>1, <2>3
  <2>5. written' \in [Procs -> [Pages -> Contents]]
    BY <2>1, <2>3, BlankPages
  <2>6. Stored'
    BY <2>1, <2>2, <2>5 DEF DataInv, Stored
  <2>7. AllCopied'
    <3>1. Copied(loc[p])'
      BY <2>1, RestCopied DEF AtRest
    <3>2. \A q \in Procs : q # p => loc[q] \in {AtRest, Rest("wait")}
      BY <2>1, OthersRest DEF Up, Busy
    <3> QED
      BY <2>1, <3>1, <3>2, CopiedStays
  <2>8. AllKept'
    <3> SUFFICES ASSUME NEW q \in Procs, NEW v \in Pages, state'[q] = "live", v <= sz'[q]
                 PROVE  Keeps(q, v)'
      BY DEF AllKept
    <3>1. CASE q = p /\ v = u
      <4>1. f \notin Slots /\ f # None
        BY DEF Slots, None, PageSwapAssumption
      <4>2. pte'[p][u] = f
        BY <2>1
      <4> QED
        BY <2>2, <2>4, <3>1, <4>1, <4>2 DEF Keeps
    <3>2. CASE ~(q = p /\ v = u)
      <4>1. v <= sz[q]
        <5>1. sz \in [Procs -> Nat] /\ v \in Nat
          BY DEF IInv, Typed, Pages
        <5>2. CASE q = p
          <6>1. sz'[p] = u /\ v <= u /\ v # u
            BY <2>1, <3>2, <5>1, <5>2
          <6>2. sz[p] \in Nat /\ u = sz[p] + 1
            BY <5>1
          <6> QED
            BY <5>1, <5>2, <6>1, <6>2
        <5>3. CASE q # p
          BY <2>1, <5>1, <5>3
        <5> QED
          BY <5>2, <5>3
      <4>2. Keeps(q, v)
        BY <2>1, <4>1 DEF DataInv, AllKept
      <4>3. pte[q][v] # f
        BY <2>1, OneFrame DEF Holding
      <4>4. pte[q][v] \in Frames => mem'[pte[q][v]] = mem[pte[q][v]]
        BY <2>2, <4>3
      <4>5. pte'[q][v] = pte[q][v]
        BY <2>1, <3>2
      <4> QED
        BY <2>1, <2>4, <3>2, <4>2, <4>4, <4>5, KeepsStays
    <3> QED
      BY <3>1, <3>2
  <2> QED
    BY <2>6, <2>7, <2>8 DEF DataInv
<1> QED
  BY <1>1, <1>2

\* A fault brings back what was swapped out.
LEMMA MapInData ==
    ASSUME PageSwapAssumption, IInv, FInv, PlainInv, DataInv, NEW p \in Procs, MapIn(p)
    PROVE  DataInv'
<1>1. CASE UNCHANGED <<pte, freeSlots, loc>>
  <2>1. UNCHANGED <<state, sz, mem, disk, written>>
    BY MapInEffect
  <2>2. AllKept'
    BY <1>1, <2>1, KeptStays DEF DataInv
  <2>3. Stored'
    BY <2>1 DEF DataInv, Stored
  <2>4. AllCopied'
    BY <1>1, <2>1 DEF DataInv, AllCopied, Copied
  <2> QED
    BY <2>2, <2>3, <2>4 DEF DataInv
<1>2. CASE ~UNCHANGED <<pte, freeSlots, loc>>
  <2>1. /\ UNCHANGED <<state, sz, mem, disk, written>> /\ state[p] = "live"
        /\ loc[p].pc = "fault" /\ loc[p].blk > BLOCKS
        /\ loc[p].page \in Pages /\ loc[p].frame \in Frames /\ loc[p].call = "fault"
        /\ pte'[p][loc[p].page] = loc[p].frame
        /\ \A q \in Procs, w \in Pages : ~(q = p /\ w = loc[p].page) => pte'[q][w] = pte[q][w]
        /\ OthersStay(p) /\ loc'[p] = AtRest
    BY <1>2, MapInEffect
  <2>2. Faulting(p)
    BY DEF PlainInv
  <2>3. loc[p].from \in Slots /\ pte[p][loc[p].page] = loc[p].from
    BY <2>1, <2>2 DEF Faulting
  <2> PICK u \in Pages, f \in Frames, s \in Slots :
               u = loc[p].page /\ f = loc[p].frame /\ s = loc[p].from
    BY <2>1, <2>3
  <2>4. mem[f] = disk[s]
    <3>1. mem[f] \in Contents /\ disk[s] \in Contents
      BY DEF DataInv, Stored
    <3>2. /\ loc[p].blk \in Nat
          /\ \A b \in 1..BLOCKS : b < loc[p].blk => mem[f][b] = disk[s][b]
      <4>1. Copied(loc[p])
        BY DEF DataInv, AllCopied
      <4> QED
        BY <2>1, <4>1 DEF Copied
    <3>3. \A b \in 1..BLOCKS : b < loc[p].blk
      BY <2>1, <3>2 DEF PageSwapAssumption
    <3>4. \A b \in 1..BLOCKS : mem[f][b] = disk[s][b]
      BY <3>2, <3>3
    <3> QED
      BY <3>1, <3>4, SamePage
  <2>5. Stored'
    BY <2>1 DEF DataInv, Stored
  <2>6. AllCopied'
    <3>1. Copied(loc[p])'
      BY <2>1, RestCopied DEF AtRest
    <3>2. \A q \in Procs : q # p => loc[q] \in {AtRest, Rest("wait")}
      BY <2>1, OthersRest DEF Up, Busy
    <3> QED
      BY <2>1, <3>1, <3>2, CopiedStays
  <2>7. AllKept'
    <3> SUFFICES ASSUME NEW q \in Procs, NEW v \in Pages, state'[q] = "live", v <= sz'[q]
                 PROVE  Keeps(q, v)'
      BY DEF AllKept
    <3>1. Keeps(q, v)
      BY <2>1 DEF DataInv, AllKept
    <3>2. CASE q = p /\ v = u
      <4>1. disk[s] = written[p][u]
        BY <2>3, <3>1, <3>2 DEF Keeps
      <4>2. f \notin Slots /\ f # None
        BY DEF Slots, None, PageSwapAssumption
      <4>3. pte'[p][u] = f /\ mem'[f] = disk[s] /\ written'[p][u] = written[p][u]
        BY <2>1, <2>4
      <4> QED
        BY <3>2, <4>1, <4>2, <4>3 DEF Keeps
    <3>3. CASE ~(q = p /\ v = u)
      <4>1. pte'[q][v] = pte[q][v]
        BY <2>1, <3>3
      <4> QED
        BY <2>1, <3>1, <4>1, KeepsStays
    <3> QED
      BY <3>2, <3>3
  <2> QED
    BY <2>5, <2>6, <2>7 DEF DataInv
<1> QED
  BY <1>1, <1>2

\* exec, sbrk, wait and exit free whole pages, which nobody else has.
LEMMA FreeData ==
    ASSUME PageSwapAssumption, IInv, FInv, DataInv, NEW p \in Procs, NEW S \in SUBSET Frames,
           \A q \in Procs : q # p => pte'[q] = pte[q] /\ written'[q] = written[q]
                                     /\ sz'[q] = sz[q] /\ (state'[q] = "live" => state[q] = "live"),
           \A f \in S : (loc[p].pc \in Holding /\ loc[p].frame = f) \/ \E v \in Pages : pte[p][v] = f,
           \A f \in Frames : f \notin S => mem'[f] = mem[f], disk' = disk,
           \A v \in Pages : state'[p] = "live" /\ v <= sz'[p] => Keeps(p, v)'
    PROVE  AllKept'
<1> SUFFICES ASSUME NEW q \in Procs, NEW v \in Pages, q # p, state'[q] = "live", v <= sz'[q]
             PROVE  Keeps(q, v)'
  BY DEF AllKept
<1>1. Keeps(q, v)
  BY DEF DataInv, AllKept
<1>2. ASSUME pte[q][v] \in S PROVE FALSE
  BY <1>2, OneFrame
<1>3. pte[q][v] \in Frames => mem'[pte[q][v]] = mem[pte[q][v]]
  BY <1>2
<1> QED
  BY <1>1, <1>3, KeepsStays

LEMMA ShrinkData ==
    ASSUME PageSwapAssumption, IInv, FInv, DataInv, NEW p \in Procs, Shrink(p) PROVE DataInv'
<1>1. /\ UNCHANGED <<state, disk, loc, written>> /\ state[p] = "live" /\ loc[p] = AtRest
      /\ sz[p] \in Pages /\ sz' = [sz EXCEPT ![p] = sz[p] - 1] /\ loc[p].pc = "user"
      /\ \/ pte[p][sz[p]] \notin Frames /\ UNCHANGED <<pte, mem>>
         \/ /\ pte[p][sz[p]] \in Frames
            /\ \A q \in Procs, w \in Pages : ~(q = p /\ w = sz[p]) => pte'[q][w] = pte[q][w]
            /\ mem' = [mem EXCEPT ![pte[p][sz[p]]] = Junk]
  BY ShrinkEffect
<1>2. /\ mem' \in [Frames -> Contents]
      /\ \A g \in Frames : g # pte[p][sz[p]] => mem'[g] = mem[g]
  <2>1. mem \in [Frames -> Contents]
    BY DEF DataInv, Stored
  <2> QED
    BY <1>1, <2>1, BlankPages
<1>3. Stored'
  BY <1>1, <1>2 DEF DataInv, Stored
<1>4. \A q \in Procs : loc[q] \in {AtRest, Rest("wait")}
  BY <1>1, OthersRest DEF Up, Busy
<1>5. \A q \in Procs : loc'[q].pc \in {"user", "wait"}
  BY <1>1, <1>4 DEF AtRest, Rest
<1>6. AllCopied'
  BY <1>5 DEF AllCopied, Copied
<1>7. AllKept'
  <2> SUFFICES ASSUME NEW q \in Procs, NEW v \in Pages, state'[q] = "live", v <= sz'[q]
               PROVE  Keeps(q, v)'
    BY DEF AllKept
  <2>1. sz \in [Procs -> Nat] /\ v \in Nat /\ sz[q] \in Nat
    BY DEF IInv, Typed, Pages
  <2>2. v <= sz[q] /\ ~(q = p /\ v = sz[p])
    <3>1. CASE q = p
      <4>1. sz'[p] = sz[p] - 1
        BY <1>1, <2>1
      <4> QED
        BY <2>1, <3>1, <4>1
    <3>2. CASE q # p
      BY <1>1, <2>1, <3>2
    <3> QED
      BY <3>1, <3>2
  <2>3. Keeps(q, v)
    BY <1>1, <2>2 DEF DataInv, AllKept
  <2>4. pte'[q][v] = pte[q][v]
    BY <1>1, <2>2
  <2>5. pte[q][v] \in Frames => pte[q][v] # pte[p][sz[p]]
    BY <1>1, <2>2, OneFrame
  <2>6. pte[q][v] \in Frames => mem'[pte[q][v]] = mem[pte[q][v]]
    BY <1>2, <2>5
  <2> QED
    BY <1>1, <2>3, <2>4, <2>6, KeepsStays
<1> QED
  BY <1>3, <1>6, <1>7 DEF DataInv

LEMMA ExecData ==
    ASSUME PageSwapAssumption, IInv, FInv, DataInv, NEW p \in Procs, ExecCommit(p) PROVE DataInv'
<1> DEFINE S == FramesOf(p) \cup {loc[p].frame}
<1>1. /\ UNCHANGED <<state, disk>> /\ state[p] = "live" /\ loc[p].pc = "exec"
      /\ loc[p].frame \in Frames /\ loc[p].frame \notin FramesOf(p)
      /\ \A v \in Pages : pte'[p][v] = IF v = 1 THEN loc[p].frame ELSE None
      /\ \A q \in Procs : q # p => pte'[q] = pte[q]
      /\ mem' = [f \in Frames |-> IF f \in FramesOf(p) THEN Junk
                                  ELSE IF f = loc[p].frame THEN Zero ELSE mem[f]]
      /\ sz' = [sz EXCEPT ![p] = 1]
      /\ written' = [written EXCEPT ![p] = [v \in Pages |-> Zero]]
      /\ OthersStay(p) /\ loc'[p] = AtRest
  BY ExecEffect
<1>2. /\ mem \in [Frames -> Contents] /\ written \in [Procs -> [Pages -> Contents]]
      /\ sz \in [Procs -> Nat]
  BY DEF DataInv, Stored, IInv, Typed
<1>3. mem' \in [Frames -> Contents]
  BY <1>1, <1>2, BlankPages
<1>4. /\ \A f \in Frames : f \notin S => mem'[f] = mem[f]
      /\ mem'[loc[p].frame] = Zero
  BY <1>1, <1>2
<1>5. /\ written' \in [Procs -> [Pages -> Contents]] /\ \A v \in Pages : written'[p][v] = Zero
      /\ \A q \in Procs : q # p => written'[q] = written[q]
  BY <1>1, <1>2, BlankPages
<1>6. Stored'
  BY <1>1, <1>3, <1>5 DEF DataInv, Stored
<1>7. AllCopied'
  <2>1. Copied(loc[p])'
    BY <1>1, RestCopied DEF AtRest
  <2>2. \A q \in Procs : q # p => loc[q] \in {AtRest, Rest("wait")}
    BY <1>1, OthersRest DEF Up, Busy
  <2> QED
    BY <1>1, <2>1, <2>2, CopiedStays
<1>8. AllKept'
  <2>1. S \in SUBSET Frames
    BY <1>1 DEF FramesOf, Resident
  <2>2. \A f \in S : (loc[p].pc \in Holding /\ loc[p].frame = f) \/ \E v \in Pages : pte[p][v] = f
    BY <1>1 DEF FramesOf, Resident, Holding
  <2>3. sz'[p] = 1 /\ \A q \in Procs : q # p => sz'[q] = sz[q]
    BY <1>1, <1>2
  <2>4. ASSUME NEW v \in Pages, v <= 1 PROVE Keeps(p, v)'
    <3>1. v = 1
      BY <2>4 DEF Pages
    <3>2. loc[p].frame \notin Slots /\ loc[p].frame # None
      BY <1>1 DEF Slots, None, PageSwapAssumption
    <3>3. pte'[p][v] = loc[p].frame
      BY <1>1, <3>1
    <3> QED
      BY <1>4, <1>5, <3>2, <3>3 DEF Keeps
  <2>5. \A q \in Procs : q # p => pte'[q] = pte[q] /\ written'[q] = written[q]
                                  /\ sz'[q] = sz[q] /\ (state'[q] = "live" => state[q] = "live")
    BY <1>1, <1>5, <2>3
  <2>6. \A v \in Pages : state'[p] = "live" /\ v <= sz'[p] => Keeps(p, v)'
    BY <2>3, <2>4
  <2>7. disk' = disk
    BY <1>1
  <2> HIDE DEF S
  <2> QED
    BY <1>4, <2>1, <2>2, <2>5, <2>6, <2>7, FreeData
<1> QED
  BY <1>6, <1>7, <1>8 DEF DataInv

LEMMA ExitData ==
    ASSUME IInv, FInv, DataInv, NEW p \in Procs, Exit(p) PROVE DataInv'
<1>1. /\ UNCHANGED <<sz, pte, mem, disk, written>>
      /\ state[p] = "live" /\ loc[p].pc \in {"user", "exit"} /\ state'[p] = "zombie"
      /\ \A q \in Procs : q # p => state'[q] = state[q]
      /\ OthersStay(p) /\ loc'[p] = AtRest
  BY ExitEffect
<1>2. AllCopied'
  <2>1. Copied(loc[p])'
    BY <1>1, RestCopied DEF AtRest
  <2>2. \A q \in Procs : q # p => loc[q] \in {AtRest, Rest("wait")}
    BY <1>1, OthersRest DEF Up, Busy
  <2> QED
    BY <1>1, <2>1, <2>2, CopiedStays
<1>3. AllKept'
  BY <1>1 DEF DataInv, AllKept, Keeps
<1>4. Stored'
  BY <1>1 DEF DataInv, Stored
<1> QED
  BY <1>2, <1>3, <1>4 DEF DataInv

LEMMA WaitData ==
    ASSUME PageSwapAssumption, Foreground, IInv, FInv, DataInv, NEW p \in Procs,
           NEW z \in Procs, Wait(p, z)
    PROVE  DataInv'
<1>1. /\ UNCHANGED <<sz, disk, written>>
      /\ state'[z] = "unused" /\ \A q \in Procs : q # z => state'[q] = state[q]
      /\ \A q \in Procs : loc[q] \in {AtRest, Rest("wait")}
      /\ mem' = [f \in Frames |-> IF f \in FramesOf(z) THEN Junk ELSE mem[f]]
      /\ \A q \in Procs : q # z => pte'[q] = pte[q]
      /\ OthersStay(p) /\ loc'[p] = AtRest
  BY WaitEffect DEF Freevm
<1>2. AllCopied'
  <2>1. Copied(loc[p])'
    BY <1>1, RestCopied DEF AtRest
  <2> QED
    BY <1>1, <2>1, CopiedStays
<1>3. Stored'
  <2>1. mem \in [Frames -> Contents]
    BY DEF DataInv, Stored
  <2>2. mem' \in [Frames -> Contents]
    BY <1>1, <2>1, BlankPages
  <2> QED
    BY <1>1, <2>2 DEF DataInv, Stored
<1>4. AllKept'
  <2> PICK S \in SUBSET Frames : S = FramesOf(z)
    BY DEF FramesOf, Resident
  <2>1. \A f \in S : (loc[z].pc \in Holding /\ loc[z].frame = f) \/ \E v \in Pages : pte[z][v] = f
    BY DEF FramesOf, Resident
  <2>2. \A f \in Frames : f \notin S => mem'[f] = mem[f]
    BY <1>1
  <2>3. \A q \in Procs : q # z => pte'[q] = pte[q] /\ written'[q] = written[q]
                                  /\ sz'[q] = sz[q] /\ (state'[q] = "live" => state[q] = "live")
    BY <1>1
  <2>4. \A v \in Pages : state'[z] = "live" /\ v <= sz'[z] => Keeps(z, v)'
    BY <1>1
  <2>5. disk' = disk
    BY <1>1
  <2> QED
    BY <2>1, <2>2, <2>3, <2>4, <2>5, FreeData
<1> QED
  BY <1>2, <1>3, <1>4 DEF DataInv

\* A program's store goes to its own page.
LEMMA StoreData ==
    ASSUME PageSwapAssumption, IInv, FInv, DataInv, OwnInv, NEW p \in Procs, NEW u \in Pages,
           NEW b \in 1..BLOCKS, NEW x \in Vals, Write(p, u, b, x)
    PROVE  DataInv'
<1>1. /\ state[p] = "live" /\ loc[p].pc = "user" /\ u <= sz[p]
      /\ pte[cr3[p]][u] \in Frames
      /\ mem' = [mem EXCEPT ![pte[cr3[p]][u]][b] = x]
      /\ written' = [written EXCEPT ![p][u][b] = x]
      /\ UNCHANGED <<state, sz, pte, disk, loc>>
  BY DEF Write, Running, table
<1>2. cr3[p] = p
  BY <1>1 DEF OwnInv, Own
<1> PICK f \in Frames : f = pte[p][u]
  BY <1>1, <1>2
<1>3. /\ mem \in [Frames -> Contents] /\ written \in [Procs -> [Pages -> Contents]]
      /\ mem[f] \in [1..BLOCKS -> Vals \cup {"zero", "junk"}]
      /\ written[p][u] \in [1..BLOCKS -> Vals \cup {"zero", "junk"}]
      /\ mem[f] \in Contents /\ written[p][u] \in Contents
  BY DEF DataInv, Stored, Contents
<1>4. /\ mem' = [mem EXCEPT ![f] = [mem[f] EXCEPT ![b] = x]]
      /\ mem'[f] = [mem[f] EXCEPT ![b] = x] /\ \A g \in Frames : g # f => mem'[g] = mem[g]
  BY <1>1, <1>2, <1>3
<1>5. written' = [written EXCEPT ![p] = [written[p] EXCEPT ![u] = [written[p][u] EXCEPT ![b] = x]]]
  BY <1>1
<1>6. [mem[f] EXCEPT ![b] = x] \in Contents /\ [written[p][u] EXCEPT ![b] = x] \in Contents
  BY <1>3, BlockStored
<1>7. written' \in [Procs -> [Pages -> Contents]] /\ mem' \in [Frames -> Contents]
  BY <1>3, <1>4, <1>5, <1>6
<1>8. /\ written'[p][u] = [written[p][u] EXCEPT ![b] = x]
      /\ \A q \in Procs, v \in Pages : ~(q = p /\ v = u) => written'[q][v] = written[q][v]
  BY <1>3, <1>5
<1>9. Stored'
  BY <1>1, <1>7 DEF DataInv, Stored
<1>10. AllCopied'
  <2>1. \A q \in Procs : loc[q] \in {AtRest, Rest("wait")}
    BY <1>1, OthersRest DEF Up, Busy, FInv, IdleInv
  <2>2. \A q \in Procs : loc'[q].pc \in {"user", "wait"}
    BY <1>1, <2>1 DEF AtRest, Rest
  <2> QED
    BY <2>2 DEF AllCopied, Copied
<1>11. AllKept'
  <2> SUFFICES ASSUME NEW q \in Procs, NEW v \in Pages, state'[q] = "live", v <= sz'[q]
               PROVE  Keeps(q, v)'
    BY DEF AllKept
  <2>1. Keeps(q, v)
    BY <1>1 DEF DataInv, AllKept
  <2>2. CASE q = p /\ v = u
    <3>1. mem[f] = written[p][u]
      BY <2>1, <2>2 DEF Keeps
    <3>2. f \notin Slots /\ f # None
      BY DEF Slots, None, PageSwapAssumption
    <3>3. mem'[f] = written'[p][u] /\ pte'[p][u] = f
      BY <1>1, <1>4, <1>8, <3>1
    <3> QED
      BY <2>2, <3>2, <3>3 DEF Keeps
  <2>3. CASE ~(q = p /\ v = u)
    <3>1. pte[q][v] # f
      <4>1. pte[p][u] = f
        OBVIOUS
      <4> QED
        BY <2>3, <4>1, OneFrame
    <3>2. pte[q][v] \in Frames => mem'[pte[q][v]] = mem[pte[q][v]]
      BY <1>4, <3>1
    <3> QED
      BY <1>1, <1>8, <2>1, <2>3, <3>2, KeepsStays
  <2> QED
    BY <2>2, <2>3
<1> QED
  BY <1>9, <1>10, <1>11 DEF DataInv

\* Steps that touch no page
LEMMA StillData ==
    ASSUME PageSwapAssumption, Foreground, IInv, FInv, PlainInv, DataInv, NEW p \in Procs,
           \/ \E v \in Pages : Fault(p, v) \/ Segfault(p, v) \/ Buffer(p, v)
           \/ Grow(p) \/ Exec(p) \/ Preempt(p) \/ KallocFails(p)
    PROVE  DataInv'
<1>1. CASE \/ \E v \in Pages : Fault(p, v) \/ Segfault(p, v)
           \/ Grow(p) \/ Exec(p) \/ KallocFails(p)
  <2>1. /\ UNCHANGED <<state, sz, pte, mem, disk, written>> /\ state[p] = "live"
        /\ loc[p].pc \in {"user", "kalloc"} /\ OthersStay(p)
        /\ loc'[p].pc \in {"user", "kalloc", "exit"}
    <3>1. CASE KallocFails(p)
      BY <3>1, FailEffect DEF Rest, AtRest
    <3>2. CASE ~KallocFails(p)
      BY <1>1, <3>2, UserEffect DEF Rest, AtRest
    <3> QED
      BY <3>1, <3>2
  <2>2. Copied(loc[p])'
    BY <2>1, RestCopied
  <2>3. \A q \in Procs : q # p => loc[q] \in {AtRest, Rest("wait")}
    BY <2>1, OthersRest DEF Up, Busy
  <2>4. AllCopied' /\ AllKept' /\ Stored'
    BY <2>1, <2>2, <2>3, CopiedStays, KeptStays DEF DataInv, Stored
  <2> QED
    BY <2>4 DEF DataInv
<1>2. CASE Preempt(p) \/ \E v \in Pages : Buffer(p, v)
  <2>1. UNCHANGED <<state, sz, pte, mem, disk, written, loc>>
    BY <1>2 DEF Preempt, Buffer, table, store
  <2>2. AllKept' /\ Stored'
    BY <2>1, KeptStays DEF DataInv, Stored
  <2>3. AllCopied'
    BY <2>1 DEF DataInv, AllCopied, Copied
  <2> QED
    BY <2>2, <2>3 DEF DataInv
<1> QED
  BY <1>1, <1>2

LEMMA NextData ==
    ASSUME PageSwapAssumption, Foreground, "fork" \notin Calls, IInv, FInv, PlainInv, OwnInv,
           DataInv, [Next]_vars
    PROVE  DataInv'
<1>1. ASSUME NEW p \in Procs, Kernel(p) PROVE DataInv'
  <2>1. /\ ~CopyPage(p) /\ ~CopyMap(p) /\ ~DupBlock(p) /\ ~DupFails(p) /\ ~ForkDone(p)
        /\ \A s \in Slots : ~DupSlot(p, s)
    BY DEF CopyPage, CopyMap, DupBlock, DupFails, ForkDone, DupSlot, Running, PlainInv, Plain
  <2> QED
    BY <1>1, <2>1, SearchData, KallocData, WriteData, ReadData, SetPteData, GrowData,
       MapInData, ExecData, StillData DEF Kernel
<1>2. ASSUME NEW p \in Procs, NEW v \in Pages,
             Fault(p, v) \/ Segfault(p, v) \/ Buffer(p, v) \/ Grow(p) \/ Exec(p) \/ Preempt(p)
      PROVE  DataInv'
  BY <1>2, StillData
<1>3. ASSUME NEW p \in Procs, NEW q \in Procs,
             Shrink(p) \/ Exit(p) \/ Fork(p, q) \/ Wait(p, q)
      PROVE  DataInv'
  <2>1. ~Fork(p, q)
    BY DEF Fork, Calling
  <2> QED
    BY <1>3, <2>1, ShrinkData, ExitData, WaitData
<1>4. ASSUME NEW p \in Procs, NEW v \in Pages, NEW b \in 1..BLOCKS, NEW x \in Vals,
             Write(p, v, b, x)
      PROVE  DataInv'
  BY <1>4, StoreData
<1>5. CASE UNCHANGED vars
  <2>1. UNCHANGED <<state, sz, pte, mem, disk, written, loc>>
    BY <1>5 DEF vars, table, store
  <2>2. AllKept' /\ Stored'
    BY <2>1, KeptStays DEF DataInv, Stored
  <2>3. AllCopied'
    BY <2>1 DEF DataInv, AllCopied, Copied
  <2> QED
    BY <2>2, <2>3 DEF DataInv
<1>6. ASSUME Next PROVE DataInv'
  <2>1. PICK p \in Procs :
            \/ Kernel(p)
            \/ \E v \in Pages : \/ Fault(p, v) \/ Segfault(p, v) \/ Buffer(p, v)
                                \/ \E b \in 1..BLOCKS, x \in Vals : Write(p, v, b, x)
            \/ Preempt(p) \/ Grow(p) \/ Shrink(p) \/ Exec(p) \/ Exit(p)
            \/ \E q \in Procs : Fork(p, q) \/ Wait(p, q)
    BY <1>6 DEF Next
  <2>2. 1 \in Pages
    BY DEF Pages, PageSwapAssumption
  <2> QED
    BY <1>1, <1>2, <1>3, <1>4, <2>1, <2>2
<1> QED
  BY <1>5, <1>6

\* PagesKept: swapping is invisible.  Every page of a live process, in memory or in its slot,
\* holds what the process last wrote there, through every interleaving of page-outs, faults
\* and the exits, sbrks and execs that free pages.
THEOREM SwappingIsInvisible ==
    ASSUME ~Background, ~Cached, Calls \cap {"stray", "fork"} = {}
    PROVE  Spec => []PagesKept
<1>1. Foreground /\ "fork" \notin Calls
  BY DEF Foreground
<1> DEFINE Inv == IInv /\ FInv /\ PlainInv /\ OwnInv /\ DataInv
<1>2. Init => Inv
  BY <1>1, PageSwapAssumption, InitIInv, InitFInv, InitPlain, InitOwn, InitData
<1>3. Inv /\ [Next]_vars => Inv'
  BY <1>1, PageSwapAssumption, NextIInv, NextFInv, NextPlain, NextOwn, NextData DEF Foreground
<1>4. Inv => PagesKept
  <2> SUFFICES ASSUME Inv, NEW p \in Procs, state[p] = "live", NEW v \in 1..sz[p]
               PROVE  pte[p][v] # None /\ Held(p, v) = written[p][v]
    BY DEF PagesKept
  <2>1. v \in Pages /\ v <= sz[p]
    BY PageSwapAssumption DEF IInv, Typed, Pages, PageSwapAssumption
  <2>2. Keeps(p, v)
    BY <2>1 DEF DataInv, AllKept
  <2>3. pte[p][v] \in Frames \cup Slots
    BY <2>1, <2>2 DEF IInv, Typed, Keeps
  <2> QED
    BY <2>2, <2>3 DEF Keeps, Held
<1> QED
  BY <1>2, <1>3, <1>4, PTL DEF Spec

-----------------------------------------------------------------------------
(* A process runs out of memory only when the swap area is full *)

\* p->rss does not wrap within what a process can have, and checkAndSwap swaps out a page
\* or more at a time.
Sensible == MaxPages < RSS_MOD /\ NPAGES > 0

Exact(p) == state[p] = "live" => rss[p] = Cardinality(Resident(p))
ExactInv == \A p \in Procs : Exact(p)

PolicyInv == threshold \in Nat /\ npages_to_swap \in Nat \ {0}

\* What a round of checkAndSwap is to bring about
Relieved == freelist # {} \/ freeSlots = {}

\* The last kalloc comes after a round of checkAndSwap, and a round that has brought about
\* nothing yet has a page to swap out.
Searching(p) ==
    /\ loc[p].pc = "kalloc" /\ loc[p].tries = 0 => Relieved
    /\ loc[p].pc \notin {"page", "out", "write", "set"} =>
           loc[p].swapped = 0 /\ loc[p].attempts = 0
    /\ loc[p].pc = "victim" => freelist = {}
    /\ loc[p].pc \in {"page", "out"} =>
           \/ Relieved
           \/ loc[p].swapped = 0 /\ loc[p].attempts = 0 /\ Resident(loc[p].victim) # {}

LastsInv == Frames # {} /\ ExactInv /\ PolicyInv /\ \A p \in Procs : Searching(p)

LEMMA PagesCounted ==
    ASSUME PageSwapAssumption, NEW S \in SUBSET Pages
    PROVE  IsFiniteSet(S) /\ Cardinality(S) \in 0..MaxPages
<1>1. MaxPages \in Nat
  BY DEF PageSwapAssumption
<1>2. IsFiniteSet(Pages) /\ Cardinality(Pages) = MaxPages
  BY <1>1, FS_Interval DEF Pages
<1>3. IsFiniteSet(S) /\ Cardinality(S) <= MaxPages
  BY <1>2, FS_Subset
<1> QED
  BY <1>1, <1>3, FS_CardinalityType

\* Among bounded counts there is a highest.
LEMMA Highest ==
    ASSUME NEW S, S # {}, NEW m \in Nat, NEW f, \A q \in S : f[q] \in 0..m
    PROVE  \E q \in S : \A r \in S : f[r] <= f[q]
<1> DEFINE Gaps == {m - f[q] : q \in S}
<1>1. Gaps \subseteq Nat /\ Gaps # {}
  OBVIOUS
<1> HIDE DEF Gaps
<1>2. PICK x \in Gaps : \A y \in Gaps : <<y, x>> \notin OpToRel(<, Nat)
  BY <1>1, WFMin, NatLessThanWellFounded, Zenon
<1>3. \A y \in Gaps : y \in Nat /\ x \in Nat /\ ~(y < x)
  <2>1. \A y \in Gaps : y \in Nat /\ x \in Nat
    BY <1>1, <1>2
  <2>2. \A y \in Gaps : ~(y < x)
    BY <1>2, <2>1, Zenon DEF OpToRel
  <2> QED
    BY <2>1, <2>2
<1>4. PICK q \in S : x = m - f[q]
  BY <1>2 DEF Gaps
<1>5. ASSUME NEW r \in S PROVE f[r] <= f[q]
  <2>1. m - f[r] \in Gaps
    BY DEF Gaps
  <2> QED
    BY <1>3, <1>4, <2>1
<1> QED
  BY <1>5

\* While a process looks for a frame everybody else is alive and has nothing in hand.
LEMMA AllAlive ==
    ASSUME IInv, FInv, PlainInv, NEW p \in Procs, state[p] = "live", loc[p].pc \in SwapOut
    PROVE  /\ \A q \in Procs : loc[q].pc \notin Holding
           /\ \A q \in Taken : state[q] = "live"
<1>1. Up(p)
  BY DEF Up, Busy, SwapOut
<1>2. ASSUME NEW q \in Procs, q # p PROVE loc[q].pc \notin Holding /\ state[q] # "zombie"
  BY <1>1, <1>2, OthersRest, RestIs DEF Up
<1>3. loc[p].pc \notin Holding /\ state[p] # "zombie"
  BY DEF Holding, SwapOut
<1>4. \A q \in Procs : state[q] # "zombie" /\ state[q] # "embryo" /\ loc[q].pc \notin Holding
  BY <1>2, <1>3 DEF PlainInv
<1> QED
  BY <1>4 DEF Taken, IInv, Typed

\* findVictimProc finds a process when no frame is free, and each that it may find has a page
\* in memory.
LEMMA SomeVictim ==
    ASSUME PageSwapAssumption, IInv, FInv, PlainInv, ExactInv, Frames # {}, freelist = {},
           NEW p \in Procs, state[p] = "live", loc[p].pc = "victim"
    PROVE  Victims # {} /\ \A q \in Victims : Resident(q) # {}
<1>1. \A q \in Procs : loc[q].pc \notin Holding
  BY AllAlive DEF SwapOut
<1>2. \A q \in Taken : q \in Procs /\ state[q] = "live"
  BY AllAlive DEF SwapOut, Taken
<1>3. \A q \in Taken : /\ rss[q] = Cardinality(Resident(q)) /\ rss[q] \in 0..MaxPages
                       /\ rss[q] > 0 <=> Resident(q) # {}
  <2> SUFFICES ASSUME NEW q \in Taken
               PROVE  /\ rss[q] = Cardinality(Resident(q)) /\ rss[q] \in 0..MaxPages
                      /\ rss[q] > 0 <=> Resident(q) # {}
    OBVIOUS
  <2>1. rss[q] = Cardinality(Resident(q))
    BY <1>2 DEF ExactInv, Exact
  <2>2. IsFiniteSet(Resident(q)) /\ Cardinality(Resident(q)) \in 0..MaxPages
    <3>1. Resident(q) \in SUBSET Pages
      BY DEF Resident
    <3> QED
      BY <3>1, PagesCounted
  <2>3. Cardinality(Resident(q)) = 0 <=> Resident(q) = {}
    BY <2>2, FS_EmptySet
  <2> QED
    BY <2>1, <2>2, <2>3
<1>4. \E q \in Taken : Resident(q) # {}
  <2>1. PICK f \in Frames : TRUE
    OBVIOUS
  <2>2. PICK q \in Procs, v \in Holders : FrameClaim(f, q, v)
    BY <2>1 DEF FInv, FramesInv
  <2>3. v \in Pages /\ pte[q][v] = f
    BY <1>1, <2>2 DEF FrameClaim
  <2>4. f # None
    BY <2>1 DEF PageSwapAssumption, None
  <2>5. state[q] # "unused"
    BY <2>3, <2>4 DEF IInv, Unborn
  <2> QED
    BY <2>1, <2>3, <2>5 DEF Taken, Resident
<1>5. MaxPages \in Nat
  BY DEF PageSwapAssumption
<1>6. PICK q \in Taken : \A r \in Taken : rss[r] <= rss[q]
  BY <1>3, <1>4, <1>5, Highest
<1>7. rss[q] > 0
  <2>1. PICK r \in Taken : rss[r] > 0
    BY <1>3, <1>4
  <2> QED
    BY <1>3, <1>6, <2>1
<1>8. q \in Victims
  BY <1>6, <1>7 DEF Victims
<1>9. \A r \in Victims : Resident(r) # {}
  BY <1>3 DEF Victims
<1> QED
  BY <1>8, <1>9

-----------------------------------------------------------------------------
(* rss counts the pages in memory *)

LEMMA ExactStays ==
    ASSUME ExactInv, NEW p \in Procs, Exact(p)',
           \A q \in Procs : q # p /\ state'[q] = "live" =>
               state[q] = "live" /\ rss'[q] = rss[q] /\ \A v \in Pages : pte'[q][v] = pte[q][v]
    PROVE  ExactInv'
<1>1. ASSUME NEW q \in Procs, q # p PROVE Exact(q)'
  <2> SUFFICES ASSUME state'[q] = "live" PROVE rss'[q] = Cardinality(Resident(q)')
    BY DEF Exact
  <2>1. Resident(q)' = Resident(q)
    BY <1>1 DEF Resident
  <2> QED
    BY <1>1, <2>1 DEF ExactInv, Exact
<1> QED
  BY <1>1 DEF ExactInv

\* One page more in memory is one more in rss, ...
LEMMA OnePageMore ==
    ASSUME PageSwapAssumption, Sensible, IInv, ExactInv, NEW p \in Procs, state[p] = "live",
           state' = state, Rss(p, 1),
           NEW v \in Pages, pte[p][v] \notin Frames, pte'[p][v] \in Frames,
           \A q \in Procs, w \in Pages : ~(q = p /\ w = v) => pte'[q][w] = pte[q][w]
    PROVE  ExactInv'
<1>1. Resident(p)' = Resident(p) \cup {v} /\ v \notin Resident(p)
  BY DEF Resident
<1>2. Resident(p) \in SUBSET Pages /\ Resident(p)' \in SUBSET Pages
  BY DEF Resident
<1>3. Cardinality(Resident(p)') = Cardinality(Resident(p)) + 1
  BY <1>1, <1>2, PagesCounted, FS_AddElement
<1>4. Cardinality(Resident(p)) \in 0..MaxPages /\ Cardinality(Resident(p)') \in 0..MaxPages
  BY <1>2, PagesCounted
<1>5. rss[p] = Cardinality(Resident(p))
  BY DEF ExactInv, Exact
<1>6. MaxPages \in Nat /\ RSS_MOD \in Nat /\ MaxPages < RSS_MOD
  BY DEF PageSwapAssumption, Sensible
<1>7. (rss[p] + 1) % RSS_MOD = rss[p] + 1
  BY <1>3, <1>4, <1>5, <1>6
<1>8. rss'[p] = (rss[p] + 1) % RSS_MOD /\ \A q \in Procs : q # p => rss'[q] = rss[q]
  BY DEF Rss, IInv, Typed
<1>9. Exact(p)'
  BY <1>3, <1>5, <1>7, <1>8 DEF Exact
<1> QED
  BY <1>8, <1>9, ExactStays

\* ... and one page less one less.
LEMMA OnePageLess ==
    ASSUME PageSwapAssumption, Sensible, IInv, ExactInv, NEW p \in Procs, state[p] = "live",
           state' = state, Rss(p, -1),
           NEW v \in Pages, pte[p][v] \in Frames, pte'[p][v] \notin Frames,
           \A q \in Procs, w \in Pages : ~(q = p /\ w = v) => pte'[q][w] = pte[q][w]
    PROVE  ExactInv'
<1>1. Resident(p)' = Resident(p) \ {v} /\ v \in Resident(p)
  BY DEF Resident
<1>2. Resident(p) \in SUBSET Pages /\ Resident(p)' \in SUBSET Pages
  BY DEF Resident
<1>3. Cardinality(Resident(p)') = Cardinality(Resident(p)) - 1
  BY <1>1, <1>2, PagesCounted, FS_RemoveElement
<1>4. Cardinality(Resident(p)) \in 0..MaxPages /\ Cardinality(Resident(p)') \in 0..MaxPages
  BY <1>2, PagesCounted
<1>5. rss[p] = Cardinality(Resident(p))
  BY DEF ExactInv, Exact
<1>6. MaxPages \in Nat /\ RSS_MOD \in Nat /\ MaxPages < RSS_MOD
  BY DEF PageSwapAssumption, Sensible
<1>7. (rss[p] + -1) % RSS_MOD = rss[p] - 1
  BY <1>3, <1>4, <1>5, <1>6
<1>8. rss'[p] = (rss[p] + -1) % RSS_MOD /\ \A q \in Procs : q # p => rss'[q] = rss[q]
  BY DEF Rss, IInv, Typed
<1>9. Exact(p)'
  BY <1>3, <1>5, <1>7, <1>8 DEF Exact
<1> QED
  BY <1>8, <1>9, ExactStays

LEMMA SwapsExact ==
    ASSUME PageSwapAssumption, Sensible, IInv, FInv, PlainInv, ExactInv, NEW p \in Procs,
           SetPte(p) \/ GrowMap(p) \/ MapIn(p)
    PROVE  ExactInv'
<1>1. CASE UNCHANGED <<state, rss, pte>>
  BY <1>1 DEF ExactInv, Exact, Resident
<1>2. CASE SetPte(p) /\ ~UNCHANGED <<state, rss, pte>>
  <2>1. Rss(loc[p].victim, -1) /\ loc[p].pa \notin freelist /\ freelist' = freelist \cup {loc[p].pa}
    BY <1>2, SetPteEffect DEF SetPte
  <2>2. freelist' # freelist
    BY <2>1
  <2>3. /\ loc[p].victim \in Procs /\ state[loc[p].victim] = "live" /\ state' = state
        /\ loc[p].va \in Pages
        /\ pte[loc[p].victim][loc[p].va] \in Frames
        /\ pte'[loc[p].victim][loc[p].va] \in Slots
        /\ \A q \in Procs, w \in Pages :
               ~(q = loc[p].victim /\ w = loc[p].va) => pte'[q][w] = pte[q][w]
    BY <1>2, <2>2, SetPteEffect
  <2>4. PICK q \in Procs, v \in Pages : q = loc[p].victim /\ v = loc[p].va
    BY <2>3
  <2>5. Slots \cap Frames = {}
    BY DEF PageSwapAssumption, Slots
  <2>6. /\ state[q] = "live" /\ Rss(q, -1) /\ pte[q][v] \in Frames /\ pte'[q][v] \notin Frames
        /\ \A r \in Procs, w \in Pages : ~(r = q /\ w = v) => pte'[r][w] = pte[r][w]
    BY <2>1, <2>3, <2>4, <2>5
  <2> QED
    <3>1. state[q] = "live" /\ Rss(q, -1) /\ pte[q][v] \in Frames /\ pte'[q][v] \notin Frames
      BY <2>6
    <3>2. \A r \in Procs, w \in Pages : ~(r = q /\ w = v) => pte'[r][w] = pte[r][w]
      BY <2>6
    <3>3. state' = state
      BY <2>3
    <3> QED
      BY <3>1, <3>2, <3>3, OnePageLess
<1>3. CASE GrowMap(p) /\ ~UNCHANGED <<state, rss, pte>>
  <2>1. Rss(p, 1) /\ loc' = [loc EXCEPT ![p] = AtRest] /\ loc[p].pc = "grow"
    BY <1>3, GrowEffect DEF GrowMap
  <2>2. loc' # loc
    BY <2>1 DEF IInv, Typed, LocTyped, AtRest
  <2>3. PICK v \in Pages :
            /\ state[p] = "live" /\ state' = state
            /\ pte[p][v] \notin Frames /\ pte'[p][v] \in Frames
            /\ \A r \in Procs, w \in Pages : ~(r = p /\ w = v) => pte'[r][w] = pte[r][w]
    BY <1>3, <2>2, GrowEffect
  <2> QED
    BY <2>1, <2>3, OnePageMore
<1>4. CASE MapIn(p) /\ ~UNCHANGED <<state, rss, pte>>
  <2>1. /\ Rss(p, 1) /\ loc[p].pc = "fault" /\ pte[p][loc[p].page] \notin Frames
        /\ loc[p].kid = None /\ loc' = [loc EXCEPT ![p] = AtRest]
    BY <1>4, MapInEffect DEF MapIn, PlainInv, Plain
  <2>2. loc' # loc
    BY <2>1 DEF IInv, Typed, LocTyped, AtRest
  <2>3. PICK v \in Pages :
            /\ state[p] = "live" /\ state' = state
            /\ pte[p][v] \notin Frames /\ pte'[p][v] \in Frames
            /\ \A r \in Procs, w \in Pages : ~(r = p /\ w = v) => pte'[r][w] = pte[r][w]
    BY <1>4, <2>1, <2>2, MapInEffect
  <2> QED
    BY <2>1, <2>3, OnePageMore
<1> QED
  BY <1>1, <1>2, <1>3, <1>4

LEMMA NextExact ==
    ASSUME PageSwapAssumption, Sensible, Foreground, Calls \cap {"fork", "shrink"} = {},
           IInv, FInv, PlainInv, ExactInv, [Next]_vars
    PROVE  ExactInv'
<1>1. CASE UNCHANGED <<state, rss, pte>>
  BY <1>1 DEF ExactInv, Exact, Resident
<1>2. ASSUME NEW p \in Procs, Kernel(p) PROVE ExactInv'
  <2>1. /\ ~CopyPage(p) /\ ~CopyMap(p) /\ ~DupBlock(p) /\ ~DupFails(p) /\ ~ForkDone(p)
        /\ \A s \in Slots : ~DupSlot(p, s)
    BY DEF CopyPage, CopyMap, DupBlock, DupFails, ForkDone, DupSlot, Running, PlainInv, Plain
  <2>2. CASE \/ Kalloc(p) \/ CheckAndSwap(p) \/ FindVictimProc(p) \/ FindVictimPage(p)
             \/ PageOut(p) \/ WriteOut(p) \/ ReadIn(p)
    <3>1. UNCHANGED <<state, rss, pte>>
      BY <2>2 DEF Kalloc, CheckAndSwap, FindVictimProc, FindVictimPage, PageOut, WriteOut, ReadIn, table
    <3> QED
      BY <1>1, <3>1
  <2>3. CASE KallocFails(p)
    <3>1. UNCHANGED <<state, rss, pte>>
      BY <2>3, FailEffect DEF KallocFails
    <3> QED
      BY <1>1, <3>1
  <2>4. CASE ExecCommit(p)
    <3>1. /\ state' = state /\ loc[p].frame \in Frames /\ rss' = [rss EXCEPT ![p] = 1]
          /\ \A v \in Pages : pte'[p][v] = IF v = 1 THEN loc[p].frame ELSE None
          /\ \A q \in Procs : q # p => pte'[q] = pte[q]
      BY <2>4, ExecEffect DEF ExecCommit
    <3>2. 1 \in Pages /\ None \notin Frames
      BY DEF PageSwapAssumption, Pages, None
    <3>3. Resident(p)' = {1}
      BY <3>1, <3>2 DEF Resident
    <3>4. rss'[p] = 1 /\ \A q \in Procs : q # p => rss'[q] = rss[q]
      BY <3>1 DEF IInv, Typed
    <3>5. Exact(p)'
      BY <3>3, <3>4, FS_Singleton DEF Exact
    <3> QED
      BY <3>1, <3>4, <3>5, ExactStays
  <2> QED
    BY <1>2, <2>1, <2>2, <2>3, <2>4, SwapsExact DEF Kernel
<1>3. ASSUME NEW p \in Procs,
             \/ \E v \in Pages : Fault(p, v) \/ Segfault(p, v) \/ Buffer(p, v)
             \/ \E v \in Pages, b \in 1..BLOCKS, x \in Vals : Write(p, v, b, x)
             \/ Preempt(p) \/ Grow(p) \/ Exec(p)
      PROVE  ExactInv'
  <2>1. UNCHANGED <<state, rss, pte>>
    BY <1>3 DEF Fault, Segfault, Buffer, Write, Preempt, Grow, Exec, table
  <2> QED
    BY <1>1, <2>1
<1>4. ASSUME NEW p \in Procs, Exit(p) PROVE ExactInv'
  <2>1. /\ UNCHANGED <<rss, pte>> /\ state'[p] = "zombie"
        /\ \A q \in Procs : q # p => state'[q] = state[q]
    BY <1>4, ExitEffect DEF Exit
  <2>2. Exact(p)'
    BY <2>1 DEF Exact
  <2> QED
    BY <2>1, <2>2, ExactStays
<1>5. ASSUME NEW p \in Procs, NEW z \in Procs, Wait(p, z) PROVE ExactInv'
  <2>0. rss' = rss
    BY <1>5 DEF Wait
  <2>1. /\ rss' = rss /\ state'[z] = "unused" /\ \A q \in Procs : q # z => state'[q] = state[q]
        /\ \A q \in Procs : q # z => pte'[q] = pte[q]
    BY <1>5, <2>0, WaitEffect
  <2>2. Exact(z)'
    BY <2>1 DEF Exact
  <2> QED
    BY <2>1, <2>2, ExactStays
<1>6. ASSUME NEW p \in Procs, NEW q \in Procs, Shrink(p) \/ Fork(p, q) PROVE FALSE
  BY <1>6 DEF Shrink, Fork, Calling
<1>7. CASE UNCHANGED vars
  BY <1>1, <1>7 DEF vars, table
<1> QED
  BY <1>2, <1>3, <1>4, <1>5, <1>6, <1>7 DEF Next

-----------------------------------------------------------------------------
(* What kalloc has tried before it gives up *)

LEMMA NextPolicy ==
    ASSUME PageSwapAssumption, Sensible, PolicyInv, [Next]_vars PROVE PolicyInv'
<1>1. CASE UNCHANGED policy
  BY <1>1 DEF PolicyInv, policy
<1>2. ASSUME NEW p \in Procs, Adapt(p) PROVE PolicyInv'
  <2>1. /\ threshold \in Nat /\ npages_to_swap \in Nat \ {0}
        /\ ALPHA \in Nat /\ BETA \in Nat /\ LIMIT \in Nat \ {0}
    BY DEF PolicyInv, PageSwapAssumption, Sensible
  <2>2. threshold' \in Nat
    <3>1. (threshold * BETA) \div 100 \in Int
      BY <2>1
    <3> QED
      BY <1>2, <2>1, <3>1 DEF Adapt
  <2>3. npages_to_swap' \in Nat \ {0}
    <3>1. npages_to_swap * ALPHA \in Nat
      BY <2>1
    <3>2. (npages_to_swap * ALPHA) \div 100 \in Nat
      BY <3>1
    <3> QED
      BY <1>2, <2>1, <3>2 DEF Adapt, Capped
  <2> QED
    BY <2>2, <2>3 DEF PolicyInv
<1>3. ASSUME NEW p \in Procs, Kernel(p) PROVE PolicyInv'
  <2>1. UNCHANGED policy \/ Adapt(p)
    BY <1>3 DEF Kernel, Kalloc, CheckAndSwap, FindVictimProc, FindVictimPage, PageOut, WriteOut,
       SetPte, GrowMap, ReadIn, MapIn, ExecCommit, KallocFails, CopyPage, CopyMap, DupBlock,
       DupFails, ForkDone, DupSlot
  <2> QED
    BY <1>1, <1>2, <2>1
<1>4. ASSUME NEW p \in Procs,
             \/ \E v \in Pages : \/ Fault(p, v) \/ Segfault(p, v) \/ Buffer(p, v)
                                 \/ \E b \in 1..BLOCKS, x \in Vals : Write(p, v, b, x)
             \/ Preempt(p) \/ Grow(p) \/ Shrink(p) \/ Exec(p) \/ Exit(p)
             \/ \E q \in Procs : Fork(p, q) \/ Wait(p, q)
      PROVE  PolicyInv'
  <2>1. UNCHANGED policy
    BY <1>4 DEF Fault, Segfault, Buffer, Write, Preempt, Grow, Shrink, Exec, Exit, Fork, Wait
  <2> QED
    BY <1>1, <2>1
<1>5. CASE UNCHANGED vars
  BY <1>1, <1>5 DEF vars
<1> QED
  BY <1>3, <1>4, <1>5 DEF Next

LEMMA RestSearches ==
    ASSUME NEW q, loc'[q] \in {AtRest, Rest("wait"), Rest("exit")} PROVE Searching(q)'
<1>1. loc'[q].pc \in {"user", "wait", "exit"} /\ loc'[q].swapped = 0 /\ loc'[q].attempts = 0
  BY DEF AtRest, Rest
<1> QED
  BY <1>1 DEF Searching

LEMMA OthersSearch ==
    ASSUME FInv, NEW p \in Procs, Up(p), OthersStay(p), Searching(p)'
    PROVE  \A q \in Procs : Searching(q)'
<1>1. ASSUME NEW q \in Procs, q # p PROVE Searching(q)'
  <2>1. loc'[q] \in {AtRest, Rest("wait")}
    BY <1>1, OthersRest DEF OthersStay
  <2> QED
    BY <2>1, RestSearches
<1> QED
  BY <1>1

\* A round of checkAndSwap ends where a frame is free, or no slot.
LEMMA RoundSearches ==
    ASSUME PageSwapAssumption, IInv, FInv, PlainInv, LastsInv, NEW p \in Procs,
           CheckAndSwap(p) \/ FindVictimProc(p) \/ FindVictimPage(p) \/ PageOut(p)
    PROVE  Searching(p)'
<1>1. /\ LocTyped /\ Placed(loc[p]) /\ Plain(loc[p]) /\ Searching(p) /\ state[p] = "live"
      /\ UNCHANGED <<pte, freelist>> /\ npages_to_swap \in Nat \ {0} /\ threshold \in Nat
      /\ loc[p].pc \in {"kalloc", "victim", "page", "out"}
  BY SearchEffect DEF IInv, Typed, FInv, PlaceInv, PlainInv, LastsInv, PolicyInv
<1>2. CASE CheckAndSwap(p)
  <2>1. loc[p].pc = "kalloc" /\ freelist = {}
    BY <1>1, <1>2 DEF CheckAndSwap, Starved, Running, Plain
  <2>2. ~(Cardinality(freelist) > threshold)
    BY <1>1, <2>1, FS_EmptySet
  <2>3. loc' = [loc EXCEPT ![p].tries = @ - 1, ![p].ret = loc[p].pc, ![p].pc = "victim"]
    BY <1>2, <2>2 DEF CheckAndSwap
  <2>4. /\ loc'[p].pc = "victim" /\ loc'[p].swapped = loc[p].swapped
        /\ loc'[p].attempts = loc[p].attempts
    BY <1>1, <2>3 DEF LocTyped, LocalsTyped, Fields
  <2> QED
    BY <1>1, <2>1, <2>4 DEF Searching
<1>3. ASSUME Relieved, freeSlots' = freeSlots, loc[p].pc = "page", Adapt(p) PROVE Searching(p)'
  <2>1. loc' = [loc EXCEPT ![p].pc = "kalloc", ![p].victim = None,
                           ![p].swapped = 0, ![p].attempts = 0]
    BY <1>1, <1>3 DEF Adapt, Plain, SwapOut
  <2>2. loc'[p].pc = "kalloc" /\ loc'[p].swapped = 0 /\ loc'[p].attempts = 0
    BY <1>1, <2>1 DEF LocTyped, LocalsTyped, Fields
  <2> QED
    BY <1>1, <1>3, <2>2 DEF Searching, Relieved
<1>4. CASE FindVictimProc(p)
  <2>1. loc[p].pc = "victim" /\ freelist = {} /\ loc[p].swapped = 0 /\ loc[p].attempts = 0
    BY <1>1, <1>4 DEF FindVictimProc, Running, Searching
  <2>2. Victims # {} /\ \A q \in Victims : Resident(q) # {}
    BY <1>1, <2>1, SomeVictim DEF LastsInv
  <2>3. PICK q \in Victims : loc' = [loc EXCEPT ![p].pc = "page", ![p].victim = q]
    BY <1>4, <2>2 DEF FindVictimProc
  <2>4. /\ loc'[p].pc = "page" /\ loc'[p].victim = q /\ loc'[p].swapped = 0
        /\ loc'[p].attempts = 0
    BY <1>1, <2>1, <2>3 DEF LocTyped, LocalsTyped, Fields
  <2>5. Resident(q)' # {}
    BY <1>1, <2>2 DEF Resident
  <2>6. Resident(loc[p].victim)' # {}
    BY <2>4, <2>5
  <2> QED
    BY <2>4, <2>6 DEF Searching
<1>5. CASE FindVictimPage(p)
  <2>1. /\ loc[p].pc = "page" /\ freeSlots' = freeSlots /\ loc[p].victim # None
        /\ \/ Relieved
           \/ loc[p].swapped = 0 /\ loc[p].attempts = 0 /\ Resident(loc[p].victim) # {}
    BY <1>1, <1>5 DEF FindVictimPage, Running, Searching, Placed, SwapOut, store
  <2>2. CASE ~SwapsMore(loc[p]) \/ Resident(loc[p].victim) = {}
    <3>1. Relieved
      BY <1>1, <2>1, <2>2 DEF SwapsMore
    <3>2. Adapt(p)
      BY <1>5, <2>1, <2>2 DEF FindVictimPage
    <3> QED
      BY <1>3, <2>1, <3>1, <3>2
  <2>3. CASE SwapsMore(loc[p]) /\ Resident(loc[p].victim) # {}
    <3>1. PICK v \in Resident(loc[p].victim) :
              loc' = [loc EXCEPT ![p].pc = "out", ![p].va = v, ![p].pa = pte[loc[p].victim][v]]
      BY <1>5, <2>1, <2>3 DEF FindVictimPage
    <3>2. /\ loc'[p].pc = "out" /\ loc'[p].victim = loc[p].victim
          /\ loc'[p].swapped = loc[p].swapped /\ loc'[p].attempts = loc[p].attempts
      BY <1>1, <3>1 DEF LocTyped, LocalsTyped, Fields
    <3>3. Resident(loc[p].victim)' = Resident(loc[p].victim)
      BY <1>1, <3>2 DEF Resident
    <3> QED
      BY <1>1, <2>1, <3>2, <3>3 DEF Searching, Relieved
  <2> QED
    BY <2>2, <2>3
<1>6. CASE PageOut(p)
  <2>1. /\ loc[p].pc = "out" /\ loc[p].victim # None
        /\ pte[loc[p].victim][loc[p].va] \in Frames
    BY <1>1, <1>6 DEF PageOut, Running, Placed, SwapOut, IInv, Swapping
  <2>2. CASE NoSlot(p)
    <3>1. freeSlots' = {}
      BY <2>2 DEF NoSlot
    <3>2. loc'[p].pc = "page"
      BY <1>1, <2>2 DEF NoSlot, LocTyped, LocalsTyped, Fields
    <3> QED
      BY <3>1, <3>2 DEF Searching, Relieved
  <2>3. CASE ~NoSlot(p)
    <3>1. PICK s \in Slots : loc' = [loc EXCEPT ![p].pc = "write", ![p].slot = s, ![p].blk = 1]
      BY <1>6, <2>1, <2>3 DEF PageOut, TakeSlot
    <3>2. loc'[p].pc = "write"
      BY <1>1, <3>1 DEF LocTyped, LocalsTyped, Fields
    <3> QED
      BY <3>2 DEF Searching
  <2> QED
    BY <2>2, <2>3
<1> QED
  BY <1>2, <1>4, <1>5, <1>6

\* In the other steps of a call, and after them, the search is over or goes on.
LEMMA CallSearches ==
    ASSUME PageSwapAssumption, Foreground, IInv, FInv, PlainInv, LastsInv, NEW p \in Procs,
           \/ Kalloc(p) \/ WriteOut(p) \/ SetPte(p) \/ ReadIn(p) \/ GrowMap(p) \/ MapIn(p)
           \/ KallocFails(p) \/ ExecCommit(p) \/ Exit(p)
           \/ \E v \in Pages : Fault(p, v) \/ Segfault(p, v)
           \/ Grow(p) \/ Exec(p)
    PROVE  Up(p) /\ OthersStay(p) /\ Searching(p)'
<1>1. LocTyped /\ Searching(p)
  BY DEF IInv, Typed, LastsInv
<1>2. CASE Kalloc(p)
  <2>1. PICK f : loc' = [loc EXCEPT ![p].pc = loc[p].call, ![p].frame = f,
                                    ![p].tries = 0, ![p].blk = 1]
    BY <1>2 DEF Kalloc
  <2>2. loc'[p].swapped = loc[p].swapped /\ loc'[p].attempts = loc[p].attempts
    BY <1>1, <2>1 DEF LocTyped, LocalsTyped, Fields
  <2>3. /\ state[p] = "live" /\ loc[p].pc = "kalloc" /\ OthersStay(p)
        /\ loc'[p].pc \in {"grow", "fault", "exec"}
    BY <1>2, KallocEffect
  <2> QED
    BY <1>1, <2>2, <2>3 DEF Searching, Up, Busy
<1>3. CASE WriteOut(p)
  <2>1. /\ state[p] = "live" /\ loc[p].pc = "write" /\ OthersStay(p)
        /\ loc'[p].pc \in {"write", "set"}
    BY <1>3, WriteEffect
  <2> QED
    BY <2>1 DEF Searching, Up, Busy
<1>4. CASE SetPte(p)
  <2>1. /\ state[p] = "live" /\ loc[p].pc = "set"
        /\ \/ loc' = loc
           \/ OthersStay(p) /\ loc'[p].pc = "page" /\ freelist' # {}
    BY <1>4, SetPteEffect
  <2> QED
    BY <2>1 DEF Searching, Relieved, Up, Busy, OthersStay
<1>5. CASE ReadIn(p)
  <2>1. loc' = [loc EXCEPT ![p].blk = @ + 1]
    BY <1>5 DEF ReadIn
  <2>2. loc'[p].swapped = loc[p].swapped /\ loc'[p].attempts = loc[p].attempts
    BY <1>1, <2>1 DEF LocTyped, LocalsTyped, Fields
  <2>3. state[p] = "live" /\ loc[p].pc = "fault" /\ OthersStay(p) /\ loc'[p].pc = "fault"
    BY <1>5, ReadEffect
  <2> QED
    BY <1>1, <2>2, <2>3 DEF Searching, Up, Busy
<1>6. CASE GrowMap(p) \/ MapIn(p)
  <2>1. /\ state[p] = "live" /\ loc[p].pc \in {"grow", "fault"}
        /\ loc' = loc \/ (OthersStay(p) /\ loc'[p] = AtRest)
    BY <1>6, GrowEffect, MapInEffect
  <2>2. CASE loc' = loc
    BY <1>1, <2>1, <2>2 DEF Searching, Up, Busy, OthersStay
  <2>3. CASE loc' # loc
    BY <2>1, <2>3, RestSearches DEF Up, Busy
  <2> QED
    BY <2>2, <2>3
<1>7. CASE KallocFails(p) \/ ExecCommit(p) \/ Exit(p)
  <2>1. /\ state[p] = "live" /\ loc[p].pc # "wait" /\ OthersStay(p)
        /\ loc'[p] \in {AtRest, Rest("exit")}
    BY <1>7, FailEffect, ExecEffect, ExitEffect
  <2> QED
    BY <2>1, RestSearches DEF Up, Busy
<1>8. CASE \E v \in Pages : Fault(p, v) \/ Segfault(p, v)
  <2>1. state[p] = "live" /\ loc[p].pc = "user" /\ loc[p] = AtRest /\ OthersStay(p)
    BY <1>8, UserEffect
  <2>2. CASE \E v \in Pages : Fault(p, v)
    <3>1. PICK v \in Pages :
              loc' = [loc EXCEPT ![p].pc = "kalloc", ![p].call = "fault", ![p].tries = 5,
                                 ![p].page = v, ![p].from = SlotIndex(pte[p][v])]
      BY <2>2 DEF Fault
    <3>2. /\ loc'[p].pc = "kalloc" /\ loc'[p].tries = 5
          /\ loc'[p].swapped = loc[p].swapped /\ loc'[p].attempts = loc[p].attempts
      BY <1>1, <3>1 DEF LocTyped, LocalsTyped, Fields
    <3> QED
      BY <1>1, <2>1, <3>2 DEF Searching, Up, Busy
  <2>3. CASE ~\E v \in Pages : Fault(p, v)
    <3>1. loc' = [loc EXCEPT ![p] = Rest("exit")]
      BY <1>8, <2>3 DEF Segfault
    <3>2. loc'[p] = Rest("exit")
      BY <1>1, <3>1 DEF LocTyped
    <3> QED
      BY <2>1, <3>2, RestSearches DEF Up, Busy
  <2> QED
    BY <2>2, <2>3
<1>9. CASE Grow(p) \/ Exec(p)
  <2>1. state[p] = "live" /\ loc[p].pc = "user" /\ OthersStay(p)
    BY <1>9, UserEffect
  <2>2. PICK c \in {"grow", "exec"} :
            loc' = [loc EXCEPT ![p].pc = "kalloc", ![p].call = c, ![p].tries = 8]
    BY <1>9 DEF Grow, Exec
  <2>3. /\ loc'[p].pc = "kalloc" /\ loc'[p].tries = 8
        /\ loc'[p].swapped = loc[p].swapped /\ loc'[p].attempts = loc[p].attempts
    BY <1>1, <2>2 DEF LocTyped, LocalsTyped, Fields
  <2> QED
    BY <1>1, <2>1, <2>3 DEF Searching, Up, Busy
<1> QED
  BY <1>2, <1>3, <1>4, <1>5, <1>6, <1>7, <1>8, <1>9

LEMMA NextLasts ==
    ASSUME PageSwapAssumption, Sensible, Foreground, Calls \cap {"fork", "shrink"} = {},
           IInv, FInv, PlainInv, LastsInv, [Next]_vars
    PROVE  LastsInv'
<1>1. Frames # {} /\ ExactInv' /\ PolicyInv'
  BY NextExact, NextPolicy DEF LastsInv
<1>2. CASE UNCHANGED <<pte, freelist, freeSlots, loc>>
  <2>1. ASSUME NEW q \in Procs PROVE Searching(q)'
    <3>1. Searching(q)
      BY DEF LastsInv
    <3>2. Resident(loc[q].victim)' = Resident(loc[q].victim)
      BY <1>2 DEF Resident
    <3> QED
      BY <1>2, <3>1, <3>2 DEF Searching, Relieved
  <2> QED
    BY <1>1, <2>1 DEF LastsInv
<1>3. ASSUME NEW p \in Procs, Kernel(p) PROVE LastsInv'
  <2>1. /\ ~CopyPage(p) /\ ~CopyMap(p) /\ ~DupBlock(p) /\ ~DupFails(p) /\ ~ForkDone(p)
        /\ \A s \in Slots : ~DupSlot(p, s)
    BY DEF CopyPage, CopyMap, DupBlock, DupFails, ForkDone, DupSlot, Running, PlainInv, Plain
  <2>2. Up(p) /\ OthersStay(p) /\ Searching(p)'
    <3>1. CASE CheckAndSwap(p) \/ FindVictimProc(p) \/ FindVictimPage(p) \/ PageOut(p)
      BY <3>1, SearchEffect, RoundSearches DEF Up, Busy
    <3>2. CASE ~(CheckAndSwap(p) \/ FindVictimProc(p) \/ FindVictimPage(p) \/ PageOut(p))
      BY <1>3, <2>1, <3>2, CallSearches DEF Kernel
    <3> QED
      BY <3>1, <3>2
  <2> QED
    BY <1>1, <2>2, OthersSearch DEF LastsInv
<1>4. ASSUME NEW p \in Procs,
             \/ \E v \in Pages : Fault(p, v) \/ Segfault(p, v)
             \/ Grow(p) \/ Exec(p) \/ Exit(p)
      PROVE  LastsInv'
  <2>1. Up(p) /\ OthersStay(p) /\ Searching(p)'
    BY <1>4, CallSearches
  <2> QED
    BY <1>1, <2>1, OthersSearch DEF LastsInv
<1>5. ASSUME NEW p \in Procs,
             \/ \E v \in Pages : Buffer(p, v)
             \/ \E v \in Pages, b \in 1..BLOCKS, x \in Vals : Write(p, v, b, x)
             \/ Preempt(p)
      PROVE  LastsInv'
  <2>1. UNCHANGED <<pte, freelist, freeSlots, loc>>
    BY <1>5 DEF Buffer, Write, Preempt, store
  <2> QED
    BY <1>2, <2>1
<1>6. ASSUME NEW p \in Procs, NEW z \in Procs, Wait(p, z) PROVE LastsInv'
  <2>1. \A q \in Procs : loc'[q] \in {AtRest, Rest("wait"), Rest("exit")}
    BY <1>6, WaitEffect DEF OthersStay
  <2>2. \A q \in Procs : Searching(q)'
    BY <2>1, RestSearches
  <2> QED
    BY <1>1, <2>2 DEF LastsInv
<1>7. ASSUME NEW p \in Procs, NEW q \in Procs, Shrink(p) \/ Fork(p, q) PROVE FALSE
  BY <1>7 DEF Shrink, Fork, Calling
<1>8. CASE UNCHANGED vars
  BY <1>2, <1>8 DEF vars, store
<1> QED
  BY <1>3, <1>4, <1>5, <1>6, <1>7, <1>8 DEF Next

LEMMA InitLasts == ASSUME PageSwapAssumption, Sensible, Init PROVE LastsInv
<1>1. PICK n \in Procs : InitProcs = 1..n
  BY DEF PageSwapAssumption, ChainOfParents
<1>2. PICK f \in [InitProcs -> Frames] :
          pte = [p \in Procs |-> [v \in Pages |->
                    IF p \in InitProcs /\ v = 1 THEN f[p] ELSE None]]
  BY DEF Init
<1>3. Frames # {}
  BY <1>1, <1>2 DEF PageSwapAssumption
<1>4. ExactInv
  <2> SUFFICES ASSUME NEW p \in Procs, state[p] = "live"
               PROVE  rss[p] = Cardinality(Resident(p))
    BY DEF ExactInv, Exact
  <2>1. p \in InitProcs /\ rss[p] = 1
    BY DEF Init
  <2>2. 1 \in Pages /\ None \notin Frames
    BY DEF PageSwapAssumption, Pages, None
  <2>3. Resident(p) = {1}
    BY <1>2, <2>1, <2>2 DEF Resident
  <2> QED
    BY <2>1, <2>3, FS_Singleton
<1>5. PolicyInv
  BY DEF Init, PolicyInv, PageSwapAssumption, Sensible
<1>6. ASSUME NEW p \in Procs PROVE Searching(p)
  <2>1. loc[p] \in {AtRest, Rest("wait")}
    BY DEF Init
  <2>2. loc[p].pc \in {"user", "wait"} /\ loc[p].swapped = 0 /\ loc[p].attempts = 0
    BY <2>1 DEF AtRest, Rest
  <2> QED
    BY <2>2 DEF Searching
<1> QED
  BY <1>3, <1>4, <1>5, <1>6 DEF LastsInv

\* MemoryLasts: kalloc fails a process only when the swap area is full, for programs that
\* neither fork nor shrink, whose rss is exact.  Its last attempt follows a call of
\* checkAndSwap, which finds the process with most pages in memory, and one of its pages.
THEOREM MemoryIsNotLost ==
    ASSUME Sensible, ~Background, Calls \cap {"stray", "fork", "shrink"} = {}
    PROVE  Spec => MemoryLasts
<1>1. /\ Foreground /\ "fork" \notin Calls /\ "stray" \notin Calls
      /\ Calls \cap {"fork", "shrink"} = {}
  BY DEF Foreground
<1> DEFINE Inv == IInv /\ FInv /\ PlainInv /\ LastsInv
<1>2. Init => Inv
  BY <1>1, PageSwapAssumption, InitIInv, InitFInv, InitPlain, InitLasts
<1>3. Inv /\ [Next]_vars => Inv'
  BY <1>1, PageSwapAssumption, NextIInv, NextFInv, NextPlain, NextLasts DEF Foreground
<1>4. Inv => \A p \in Procs : KallocFails(p) => freeSlots = {}
  <2> SUFFICES ASSUME Inv, NEW p \in Procs, KallocFails(p) PROVE freeSlots = {}
    OBVIOUS
  <2>1. Plain(loc[p]) /\ Searching(p)
    BY DEF PlainInv, LastsInv
  <2>2. loc[p].pc = "kalloc" /\ freelist = {} /\ loc[p].tries = 0
    BY <2>1 DEF KallocFails, NothingToDup, Running, Plain
  <2> QED
    BY <2>1, <2>2 DEF Searching, Relieved
<1>5. Inv /\ [Next]_vars => [\A p \in Procs : KallocFails(p) => freeSlots = {}]_vars
  BY <1>4
<1> QED
  BY <1>2, <1>3, <1>5, PTL DEF Spec, MemoryLasts

=============================================================================
