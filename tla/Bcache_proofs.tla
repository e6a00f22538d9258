---------------------------- MODULE Bcache_proofs ----------------------------
(* Proofs about Bcache, for any number of callers, buffers and blocks: type    *)
(* correctness, that bwrite returns when the disk has the block, that bget     *)
(* panics only when it must, and that the cache implements BlockStore when the *)
(* disk does not fail.                                                         *)
EXTENDS Bcache, FiniteSetTheorems, TLAPS

USE BcacheAssumption

-----------------------------------------------------------------------------
(* The inductive invariant, in parts.  Each says what one piece of state knows *)
(* about another.                                                              *)

\* The callers that a buffer's refcnt counts
Users(x) == {p \in Procs : buf[p] = x}

\* The labels between acquiresleep and releasesleep
Inside == Labels \ {"idle", "lock", "unref"}

IdleInv == \A p \in Procs : pc[p] = "idle" => buf[p] = NoBuf /\ want[p] = NoBlock

\* What a caller has is the buffer of the block it asked for.
NameInv == \A p \in Procs : pc[p] # "idle" =>
               buf[p] \in Bufs /\ want[p] \in Blocks /\ blockno[buf[p]] = want[p]

\* A block has at most one buffer.
OneBuffer == \A x, y \in Bufs : blockno[x] = blockno[y] /\ blockno[x] # NoBlock => x = y

NamedInv == \A x \in Bufs : flags[x] # {} => blockno[x] \in Blocks

CountInv == \A x \in Bufs : IsFiniteSet(Users(x)) /\ refcnt[x] = Cardinality(Users(x))

\* A buffer's lock is held by the caller that is inside, and by nobody else.
InsideInv == \A p \in Procs : pc[p] \in Inside => lock[buf[p]] = p
LockInv == \A x \in Bufs : lock[x] # NoProc => buf[lock[x]] = x /\ pc[lock[x]] \in Inside

DirtyInv == \A x \in Bufs : "DIRTY" \in flags[x] => "VALID" \in flags[x] /\ data[x] \in Vals

\* The flags of a buffer, by what its holder is doing
FlagsAt(l, f) ==
    /\ l \in {"bread", "reading"} => f = {}
    /\ l \in {"read", "wrote", "written"} => f = {"VALID"}
    /\ l = "held" => "VALID" \in f
    /\ l \in {"logged", "bwrite", "writing"} => "DIRTY" \in f
FlagsInv == \A p \in Procs : FlagsAt(pc[p], flags[buf[p]])

\* The requests in the queue are those of the callers asleep in iderw, one each.
QueuedInv == \A i \in 1..Len(idequeue) :
    lock[idequeue[i]] # NoProc /\ pc[lock[idequeue[i]]] \in {"reading", "writing"}
OnceInv == \A i, j \in 1..Len(idequeue) : idequeue[i] = idequeue[j] => i = j
AsleepInv == \A p \in Procs : pc[p] \in {"reading", "writing"} =>
                 \E i \in 1..Len(idequeue) : idequeue[i] = buf[p]

\* The disk works on the head of the queue, and has done so when it interrupts.
QuietInv == idequeue = <<>> => active = Idle /\ ~irq
ActiveInv == idequeue # <<>> /\ ~irq => active = Request(Head(idequeue))
DoneInv == idequeue # <<>> /\ irq =>
    /\ active = [block |-> blockno[Head(idequeue)],
                 write |-> "DIRTY" \in flags[Head(idequeue)],
                 data |-> disk[blockno[Head(idequeue)]]]
    /\ "DIRTY" \in flags[Head(idequeue)] =>
           disk[blockno[Head(idequeue)]] = data[Head(idequeue)]

\* What has been written stays on the disk until the buffer is given back.
WrittenInv == \A p \in Procs : pc[p] \in {"wrote", "written"} => disk[want[p]] = data[buf[p]]

\* Every buffer is in the list.
ListInv == \A x \in Bufs : \E i \in 1..NBUF : mru[i] = x

IInv == /\ TypeOK /\ IdleInv /\ NameInv /\ OneBuffer /\ NamedInv /\ CountInv
        /\ InsideInv /\ LockInv /\ DirtyInv /\ FlagsInv
        /\ QueuedInv /\ OnceInv /\ AsleepInv /\ QuietInv /\ ActiveInv /\ DoneInv
        /\ WrittenInv /\ ListInv

\* If the disk does not fail, a buffer that is valid and not dirty is as the disk.
CleanInv == \A x \in Bufs : flags[x] = {"VALID"} => data[x] = disk[blockno[x]]

-----------------------------------------------------------------------------
(* Facts that several actions need *)

LEMMA NoBufOut == NoBuf \notin Bufs
BY DEF NoBuf, Bufs

\* The caller at the head of the queue is asleep in iderw.
LEMMA HeadQueued ==
  ASSUME TypeOK, QueuedInv, idequeue # <<>>
  PROVE  /\ 1 \in 1..Len(idequeue) /\ Head(idequeue) = idequeue[1]
         /\ Head(idequeue) \in Bufs /\ lock[Head(idequeue)] \in Procs
         /\ pc[lock[Head(idequeue)]] \in {"reading", "writing"}
BY DEF TypeOK, QueuedInv

\* A caller inside has a buffer, no other caller is inside with that buffer, and
\* the buffer has the block it asked for.
LEMMA OneInside ==
  ASSUME TypeOK, NameInv, InsideInv
  PROVE  /\ \A q \in Procs : pc[q] \in Inside =>
                /\ buf[q] \in Bufs /\ want[q] \in Blocks /\ blockno[buf[q]] = want[q]
                /\ lock[buf[q]] = q
         /\ \A q, r \in Procs : pc[q] \in Inside /\ pc[r] \in Inside /\ buf[q] = buf[r] => q = r
<1>1. \A q \in Procs : pc[q] \in Inside => pc[q] # "idle"
  BY DEF Inside
<1> QED
  BY <1>1 DEF NameInv, InsideInv

\* A caller with a block has a buffer.
LEMMA HasBuffer ==
  ASSUME TypeOK, NameInv
  PROVE  \A q \in Procs : pc[q] # "idle" =>
             buf[q] \in Bufs /\ want[q] \in Blocks /\ blockno[buf[q]] = want[q]
BY DEF NameInv

\* brelse keeps every buffer in the list.
LEMMA MovedToFrontKeeps ==
  ASSUME mru \in [1..NBUF -> Bufs], ListInv, NEW x \in Bufs
  PROVE  /\ MovedToFront(x) \in [1..NBUF -> Bufs]
         /\ \A y \in Bufs : \E i \in 1..NBUF : MovedToFront(x)[i] = y
<1> DEFINE k == CHOOSE j \in 1..NBUF : mru[j] = x
           moved == [j \in 1..NBUF |-> IF j = 1 THEN x ELSE IF j <= k THEN mru[j - 1] ELSE mru[j]]
<1>1. k \in 1..NBUF /\ mru[k] = x
  BY DEF ListInv
<1>2. MovedToFront(x) = moved
  BY DEF MovedToFront
<1> HIDE DEF k
<1>3. moved \in [1..NBUF -> Bufs]
  BY <1>1
<1>4. ASSUME NEW y \in Bufs PROVE \E i \in 1..NBUF : moved[i] = y
  <2>1. PICK j \in 1..NBUF : mru[j] = y
    BY DEF ListInv
  <2>2. CASE j = k
    BY <2>1, <2>2, <1>1
  <2>3. CASE j < k
    <3>1. j + 1 \in 1..NBUF /\ j + 1 # 1 /\ j + 1 <= k /\ (j + 1) - 1 = j
      BY <2>3, <1>1
    <3>2. moved[j + 1] = mru[j]
      BY <3>1
    <3> QED
      BY <3>1, <3>2, <2>1
  <2>4. CASE j > k
    BY <2>1, <2>4, <1>1
  <2> QED
    BY <2>2, <2>3, <2>4, <1>1
<1> QED
  BY <1>2, <1>3, <1>4

\* The tables of iderw's labels
LEMMA Tables ==
  /\ DOMAIN Asleep = {"bread", "bwrite"}
  /\ Asleep["bread"] = "reading" /\ Asleep["bwrite"] = "writing"
  /\ DOMAIN Awake = {"reading", "writing"}
  /\ Awake["reading"] = "read" /\ Awake["writing"] = "wrote"
  /\ DOMAIN Returned = {"read", "wrote"}
  /\ Returned["read"] = "held" /\ Returned["wrote"] = "written"
BY DEF Asleep, Awake, Returned

LEMMA RequestType ==
  ASSUME TypeOK, NEW x \in Bufs
  PROVE  Request(x) \in [block : Blocks \cup {NoBlock}, write : BOOLEAN, data : Vals \cup {NoVal}]
<1>1. blockno[x] \in Blocks \cup {NoBlock} /\ data[x] \in Vals \cup {NoVal}
  BY DEF TypeOK
<1>2. (IF "DIRTY" \in flags[x] THEN data[x] ELSE NoVal) \in Vals \cup {NoVal}
  BY <1>1
<1>3. ("DIRTY" \in flags[x]) \in BOOLEAN
  OBVIOUS
<1> QED
  BY <1>1, <1>2, <1>3 DEF Request

LEMMA IdleType == Idle \in [block : Blocks \cup {NoBlock}, write : BOOLEAN, data : Vals \cup {NoVal}]
<1>1. NoBlock \in Blocks \cup {NoBlock} /\ FALSE \in BOOLEAN /\ NoVal \in Vals \cup {NoVal}
  OBVIOUS
<1> QED
  BY <1>1 DEF Idle

\* bget of a cached block: one more user
LEMMA BgetHitIInv == ASSUME IInv, NEW p \in Procs, NEW b \in Blocks, NEW x \in Cached(b),
           At(p, "idle"), refcnt' = Counted(x, "hit"), want' = [want EXCEPT ![p] = b],
           buf' = [buf EXCEPT ![p] = x], Goto(p, "lock"),
           UNCHANGED <<blockno, flags, data, lock, mru, idequeue, device, panic>>
    PROVE IInv'
<1>1. /\ TypeOK /\ IdleInv /\ NameInv /\ OneBuffer /\ NamedInv /\ CountInv
      /\ InsideInv /\ LockInv /\ DirtyInv /\ FlagsInv
      /\ QueuedInv /\ OnceInv /\ AsleepInv /\ QuietInv /\ ActiveInv /\ DoneInv
      /\ WrittenInv /\ ListInv
  BY DEF IInv
<1>2. /\ x \in Bufs /\ blockno[x] = b /\ pc[p] = "idle"
      /\ refcnt' = [refcnt EXCEPT ![x] = @ + 1]
      /\ want' = [want EXCEPT ![p] = b] /\ buf' = [buf EXCEPT ![p] = x]
      /\ pc' = [pc EXCEPT ![p] = "lock"]
      /\ UNCHANGED <<blockno, flags, data, lock, mru, idequeue, active, irq, disk, panic>>
  BY DEF Cached, At, Goto, Counted, device
<1>3. TypeOK'
  <2>0. refcnt[x] + 1 \in Nat
    BY <1>1, <1>2 DEF TypeOK
  <2>1. refcnt' \in [Bufs -> Nat]
    BY <1>1, <1>2, <2>0 DEF TypeOK
  <2>2. want' \in [Procs -> Blocks \cup {NoBlock}]
    BY <1>1, <1>2 DEF TypeOK, NameInv
  <2>3. buf' \in [Procs -> Bufs \cup {NoBuf}]
    BY <1>1, <1>2 DEF TypeOK, NameInv
  <2>4. pc' \in [Procs -> Labels]
    BY <1>1, <1>2 DEF TypeOK, Labels, NameInv
  <2> QED
    BY <1>1, <1>2, <2>1, <2>2, <2>3, <2>4 DEF TypeOK
<1>4. IdleInv'
  BY <1>1, <1>2 DEF IdleInv, TypeOK
<1>5. NameInv'
  BY <1>1, <1>2 DEF NameInv, TypeOK
<1>6. CountInv'
  <2> SUFFICES ASSUME NEW y \in Bufs
               PROVE  IsFiniteSet(Users(y)') /\ refcnt'[y] = Cardinality(Users(y)')
    BY DEF CountInv
  <2>1. /\ p \notin Users(x) /\ IsFiniteSet(Users(x)) /\ refcnt[x] = Cardinality(Users(x))
    BY <1>1, <1>2, NoBufOut DEF Users, IdleInv, CountInv
  <2>2. CASE y = x
    <3>1. Users(x)' = Users(x) \cup {p}
      BY <1>1, <1>2 DEF Users, TypeOK
    <3>2. refcnt'[x] = refcnt[x] + 1
      BY <1>1, <1>2 DEF TypeOK
    <3> QED
      BY <3>1, <3>2, <2>1, <2>2, FS_AddElement
  <2>3. CASE y # x
    <3>1. Users(y)' = Users(y)
      BY <1>1, <1>2, <2>3, NoBufOut DEF Users, TypeOK, IdleInv
    <3>2. refcnt'[y] = refcnt[y]
      BY <1>1, <1>2, <2>3 DEF TypeOK
    <3> QED
      BY <3>1, <3>2, <1>1 DEF CountInv
  <2> QED
    BY <2>2, <2>3
<1>7. InsideInv'
  BY <1>1, <1>2 DEF InsideInv, Inside, Labels, LockInv, NameInv, TypeOK
<1>8. LockInv'
  BY <1>1, <1>2 DEF LockInv, Inside, Labels, InsideInv, NameInv, TypeOK
<1>9. FlagsInv'
  <2> SUFFICES ASSUME NEW q \in Procs PROVE FlagsAt(pc'[q], flags[buf'[q]])
    BY <1>2 DEF FlagsInv
  <2>1. CASE q = p
    BY <2>1, <1>1, <1>2 DEF FlagsAt, TypeOK
  <2>2. CASE q # p
    BY <2>2, <1>1, <1>2 DEF FlagsInv, TypeOK
  <2> QED
    BY <2>1, <2>2
<1>10. QueuedInv'
  BY <1>1, <1>2 DEF QueuedInv, LockInv, InsideInv, NameInv, Inside, Labels, TypeOK
<1>11. AsleepInv'
  BY <1>1, <1>2 DEF AsleepInv, TypeOK
<1>12. WrittenInv'
  BY <1>1, <1>2 DEF WrittenInv, NameInv, InsideInv, Inside, Labels, TypeOK
<1>13. /\ OneBuffer' /\ NamedInv' /\ DirtyInv' /\ OnceInv' /\ QuietInv' /\ ActiveInv'
      /\ DoneInv' /\ ListInv'
  BY <1>1, <1>2 DEF OneBuffer, NamedInv, DirtyInv, OnceInv, QuietInv, ActiveInv,
     DoneInv, ListInv, Request
<1> QED
  BY <1>3, <1>4, <1>5, <1>6, <1>7, <1>8, <1>9, <1>10, <1>11, <1>12, <1>13 DEF IInv

\* bget's acquiresleep
LEMMA BgetLockIInv == ASSUME IInv, NEW p \in Procs, BgetLock(p) PROVE IInv'
<1>1. /\ TypeOK /\ IdleInv /\ NameInv /\ OneBuffer /\ NamedInv /\ CountInv
      /\ InsideInv /\ LockInv /\ DirtyInv /\ FlagsInv
      /\ QueuedInv /\ OnceInv /\ AsleepInv /\ QuietInv /\ ActiveInv /\ DoneInv
      /\ WrittenInv /\ ListInv
  BY DEF IInv
<1>2. /\ pc[p] = "lock" /\ lock[buf[p]] = NoProc /\ lock' = [lock EXCEPT ![buf[p]] = p]
      /\ pc' = [pc EXCEPT ![p] = IF "VALID" \in flags[buf[p]] THEN "held" ELSE "bread"]
      /\ UNCHANGED <<blockno, refcnt, mru, flags, data, idequeue, active, irq, disk,
                     want, buf, panic>>
  BY DEF BgetLock, At, Goto, bcache, device
<1>3. TypeOK'
  <2>1. lock' \in [Bufs -> Procs \cup {NoProc}]
    BY <1>1, <1>2 DEF TypeOK, NameInv
  <2>2. pc' \in [Procs -> Labels]
    BY <1>1, <1>2 DEF TypeOK, Labels, NameInv
  <2> QED
    BY <1>1, <1>2, <2>1, <2>2 DEF TypeOK
<1>4. IdleInv'
  BY <1>1, <1>2 DEF IdleInv, TypeOK
<1>5. NameInv'
  BY <1>1, <1>2 DEF NameInv, TypeOK
<1>6. InsideInv'
  BY <1>1, <1>2 DEF InsideInv, Inside, Labels, LockInv, NameInv, TypeOK
<1>7. LockInv'
  BY <1>1, <1>2 DEF LockInv, Inside, Labels, InsideInv, NameInv, TypeOK
<1>8. FlagsInv'
  <2> SUFFICES ASSUME NEW q \in Procs PROVE FlagsAt(pc'[q], flags[buf'[q]])
    BY <1>2 DEF FlagsInv
  <2>1. CASE q = p
    <3>1. flags[buf[p]] \in SUBSET {"VALID", "DIRTY"}
      BY <1>1, <1>2, HasBuffer DEF TypeOK
    <3>2. "VALID" \notin flags[buf[p]] => flags[buf[p]] = {}
      BY <3>1, <1>1, <1>2, HasBuffer DEF DirtyInv
    <3> QED
      BY <2>1, <3>2, <1>1, <1>2 DEF FlagsAt, TypeOK
  <2>2. CASE q # p
    BY <2>2, <1>1, <1>2 DEF FlagsInv, TypeOK
  <2> QED
    BY <2>1, <2>2
<1>9. QueuedInv'
  BY <1>1, <1>2 DEF QueuedInv, LockInv, InsideInv, NameInv, Inside, Labels, TypeOK
<1>10. AsleepInv'
  BY <1>1, <1>2 DEF AsleepInv, TypeOK
<1>11. WrittenInv'
  BY <1>1, <1>2 DEF WrittenInv, NameInv, InsideInv, Inside, Labels, TypeOK
<1>12. /\ OneBuffer' /\ NamedInv' /\ CountInv' /\ DirtyInv' /\ OnceInv' /\ QuietInv'
      /\ ActiveInv' /\ DoneInv' /\ ListInv'
  BY <1>1, <1>2 DEF OneBuffer, NamedInv, CountInv, DirtyInv, OnceInv, QuietInv,
     ActiveInv, DoneInv, ListInv, Request, Users
<1> QED
  BY <1>3, <1>4, <1>5, <1>6, <1>7, <1>8, <1>9, <1>10, <1>11, <1>12 DEF IInv

\* log_write: the holder's buffer becomes dirty
LEMMA LogWriteIInv == ASSUME IInv, NEW p \in Procs, NEW v \in Vals, LogWrite(p, v) PROVE IInv'
<1>1. /\ TypeOK /\ IdleInv /\ NameInv /\ OneBuffer /\ NamedInv /\ CountInv
      /\ InsideInv /\ LockInv /\ DirtyInv /\ FlagsInv
      /\ QueuedInv /\ OnceInv /\ AsleepInv /\ QuietInv /\ ActiveInv /\ DoneInv
      /\ WrittenInv /\ ListInv
  BY DEF IInv
<1>2. /\ pc[p] = "held" /\ data' = [data EXCEPT ![buf[p]] = v]
      /\ flags' = [flags EXCEPT ![buf[p]] = @ \cup {"DIRTY"}]
      /\ pc' = [pc EXCEPT ![p] = "logged"]
      /\ UNCHANGED <<blockno, refcnt, mru, lock, idequeue, active, irq, disk,
                     want, buf, panic>>
  BY DEF LogWrite, At, Goto, bcache, device
<1>3. TypeOK'
  <2>1. data' \in [Bufs -> Vals \cup {NoVal}]
    BY <1>1, <1>2 DEF TypeOK, Labels, NameInv
  <2>2. flags' \in [Bufs -> SUBSET {"VALID", "DIRTY"}]
    BY <1>1, <1>2 DEF TypeOK, Labels, NameInv
  <2>3. pc' \in [Procs -> Labels]
    BY <1>1, <1>2 DEF TypeOK, Labels, NameInv
  <2> QED
    BY <1>1, <1>2, <2>1, <2>2, <2>3 DEF TypeOK
<1>4. IdleInv'
  BY <1>1, <1>2 DEF IdleInv, TypeOK
<1>5. NameInv'
  BY <1>1, <1>2 DEF NameInv, TypeOK
<1>6. NamedInv'
  BY <1>1, <1>2 DEF NamedInv, NameInv, TypeOK
<1>7. InsideInv'
  BY <1>1, <1>2 DEF InsideInv, Inside, Labels, LockInv, NameInv, TypeOK
<1>8. LockInv'
  BY <1>1, <1>2 DEF LockInv, Inside, Labels, InsideInv, NameInv, TypeOK
<1>9. DirtyInv'
  BY <1>1, <1>2, HasBuffer DEF DirtyInv, FlagsInv, FlagsAt, TypeOK
<1>10. FlagsInv'
  <2>1. FlagsAt(pc'[p], flags'[buf'[p]])
    BY <1>1, <1>2, HasBuffer DEF FlagsAt, TypeOK
  <2>2. ASSUME NEW q \in Procs, q # p
        PROVE  FlagsAt(pc'[q], flags'[buf'[q]])
    <3>1. pc'[q] = pc[q] /\ buf'[q] = buf[q]
      BY <1>1, <1>2, <2>2 DEF TypeOK
    <3>2. CASE pc[q] \in Inside
      <4>1. pc[p] \in Inside
        BY <1>2 DEF Inside, Labels
      <4>2. buf[q] \in Bufs /\ buf[q] # buf[p]
        BY <1>1, <2>2, <3>2, <4>1, OneInside
      <4>3. flags'[buf[q]] = flags[buf[q]]
        BY <1>1, <1>2, <4>2 DEF TypeOK
      <4> QED
        BY <1>1, <3>1, <4>3 DEF FlagsInv
    <3>3. CASE pc[q] \notin Inside
      BY <1>1, <3>1, <3>3 DEF FlagsAt, Inside, Labels, TypeOK
    <3> QED
      BY <3>2, <3>3
  <2> QED
    BY <2>1, <2>2 DEF FlagsInv
<1>11. QueuedInv'
  <2>1. \A q \in Procs : pc[q] \in {"reading", "writing"} => pc'[q] = pc[q]
    BY <1>1, <1>2 DEF TypeOK
  <2>2. \A i \in 1..Len(idequeue) : lock[idequeue[i]] \in Procs
    BY <1>1 DEF QueuedInv, TypeOK
  <2> QED
    BY <2>1, <2>2, <1>1, <1>2 DEF QueuedInv
<1>12. AsleepInv'
  BY <1>1, <1>2 DEF AsleepInv, TypeOK
<1>13. ActiveInv'
  <2>1. idequeue # <<>> => Head(idequeue) \in Bufs /\ Head(idequeue) # buf[p]
    BY <1>1, <1>2, HeadQueued DEF InsideInv, Inside, Labels
  <2> QED
    BY <2>1, <1>1, <1>2 DEF ActiveInv, Request, TypeOK
<1>14. DoneInv'
  <2>1. idequeue # <<>> => Head(idequeue) \in Bufs /\ Head(idequeue) # buf[p]
    BY <1>1, <1>2, HeadQueued DEF InsideInv, Inside, Labels
  <2> QED
    BY <2>1, <1>1, <1>2 DEF DoneInv, TypeOK
<1>15. WrittenInv'
  <2>1. \A q \in Procs : pc'[q] \in {"wrote", "written"} => q # p /\ pc[q] \in {"wrote", "written"}
    BY <1>1, <1>2 DEF TypeOK
  <2>2. \A q \in Procs : pc[q] \in {"wrote", "written"} /\ q # p => buf[q] # buf[p]
    BY <1>1, <1>2, OneInside DEF Inside, Labels
  <2> QED
    BY <2>1, <2>2, <1>1, <1>2 DEF WrittenInv, TypeOK
<1>16. /\ OneBuffer' /\ CountInv' /\ OnceInv' /\ QuietInv' /\ ListInv'
  BY <1>1, <1>2 DEF OneBuffer, CountInv, OnceInv, QuietInv, ListInv, Users
<1> QED
  BY <1>3, <1>4, <1>5, <1>6, <1>7, <1>8, <1>9, <1>10, <1>11, <1>12, <1>13, <1>14,
     <1>15, <1>16 DEF IInv

\* brelse's releasesleep
LEMMA BrelseIInv == ASSUME IInv, NEW p \in Procs, Brelse(p) PROVE IInv'
<1>1. /\ TypeOK /\ IdleInv /\ NameInv /\ OneBuffer /\ NamedInv /\ CountInv
      /\ InsideInv /\ LockInv /\ DirtyInv /\ FlagsInv
      /\ QueuedInv /\ OnceInv /\ AsleepInv /\ QuietInv /\ ActiveInv /\ DoneInv
      /\ WrittenInv /\ ListInv
  BY DEF IInv
<1>2. /\ pc[p] \in {"held", "logged", "written"} /\ lock' = [lock EXCEPT ![buf[p]] = NoProc]
      /\ pc' = [pc EXCEPT ![p] = "unref"]
      /\ UNCHANGED <<blockno, refcnt, mru, flags, data, idequeue, active, irq, disk,
                     want, buf, panic>>
  BY DEF Brelse, At, Goto, bcache, device
<1>3. TypeOK'
  <2>1. lock' \in [Bufs -> Procs \cup {NoProc}]
    BY <1>1, <1>2 DEF TypeOK, NameInv
  <2>2. pc' \in [Procs -> Labels]
    BY <1>1, <1>2 DEF TypeOK, Labels, NameInv
  <2> QED
    BY <1>1, <1>2, <2>1, <2>2 DEF TypeOK
<1>4. IdleInv'
  BY <1>1, <1>2 DEF IdleInv, TypeOK
<1>5. NameInv'
  BY <1>1, <1>2 DEF NameInv, TypeOK
<1>6. InsideInv'
  <2>1. pc[p] \in Inside
    BY <1>2 DEF Inside, Labels
  <2>2. \A q \in Procs : pc'[q] \in Inside => q # p /\ pc[q] \in Inside
    BY <1>1, <1>2 DEF TypeOK, Inside
  <2>3. \A q \in Procs : pc'[q] \in Inside => buf[q] # buf[p] /\ buf[q] \in Bufs
    BY <2>1, <2>2, <1>1, OneInside
  <2> QED
    BY <2>2, <2>3, <1>1, <1>2 DEF InsideInv, TypeOK
<1>7. LockInv'
  BY <1>1, <1>2 DEF LockInv, Inside, Labels, InsideInv, NameInv, TypeOK
<1>8. FlagsInv'
  <2> SUFFICES ASSUME NEW q \in Procs PROVE FlagsAt(pc'[q], flags[buf'[q]])
    BY <1>2 DEF FlagsInv
  <2>1. CASE q = p
    BY <2>1, <1>1, <1>2 DEF FlagsAt, TypeOK
  <2>2. CASE q # p
    BY <2>2, <1>1, <1>2 DEF FlagsInv, TypeOK
  <2> QED
    BY <2>1, <2>2
<1>9. QueuedInv'
  <2>1. \A i \in 1..Len(idequeue) : /\ idequeue[i] \in Bufs /\ idequeue[i] # buf[p]
                                     /\ lock[idequeue[i]] # p /\ lock[idequeue[i]] \in Procs
    <3>1. \A i \in 1..Len(idequeue) :
              idequeue[i] \in Bufs /\ lock[idequeue[i]] # p /\ lock[idequeue[i]] \in Procs
      <4>1. \A i \in 1..Len(idequeue) : idequeue[i] \in Bufs
        BY <1>1 DEF TypeOK
      <4>2. \A x \in Bufs : lock[x] # NoProc => lock[x] \in Procs
        BY <1>1 DEF TypeOK
      <4> QED
        BY <4>1, <4>2, <1>1, <1>2 DEF QueuedInv
    <3>2. lock[buf[p]] = p
      BY <1>1, <1>2 DEF InsideInv, Inside, Labels
    <3> QED
      BY <3>1, <3>2
  <2>2. \A x \in Bufs : x # buf[p] => lock'[x] = lock[x]
    BY <1>1, <1>2 DEF TypeOK
  <2>3. \A q \in Procs : q # p => pc'[q] = pc[q]
    BY <1>1, <1>2 DEF TypeOK
  <2> QED
    BY <2>1, <2>2, <2>3, <1>1, <1>2 DEF QueuedInv
<1>10. AsleepInv'
  BY <1>1, <1>2 DEF AsleepInv, TypeOK
<1>11. WrittenInv'
  BY <1>1, <1>2 DEF WrittenInv, NameInv, InsideInv, Inside, Labels, TypeOK
<1>12. /\ OneBuffer' /\ NamedInv' /\ CountInv' /\ DirtyInv' /\ OnceInv' /\ QuietInv'
      /\ ActiveInv' /\ DoneInv' /\ ListInv'
  BY <1>1, <1>2 DEF OneBuffer, NamedInv, CountInv, DirtyInv, OnceInv, QuietInv,
     ActiveInv, DoneInv, ListInv, Request, Users
<1> QED
  BY <1>3, <1>4, <1>5, <1>6, <1>7, <1>8, <1>9, <1>10, <1>11, <1>12 DEF IInv

\* bwrite sets B_DIRTY
LEMMA BwriteIInv == ASSUME IInv, NEW p \in Procs, NEW v \in Vals, Bwrite(p, v) PROVE IInv'
<1>1. /\ TypeOK /\ IdleInv /\ NameInv /\ OneBuffer /\ NamedInv /\ CountInv
      /\ InsideInv /\ LockInv /\ DirtyInv /\ FlagsInv
      /\ QueuedInv /\ OnceInv /\ AsleepInv /\ QuietInv /\ ActiveInv /\ DoneInv
      /\ WrittenInv /\ ListInv
  BY DEF IInv
<1>2. /\ pc[p] = "held" /\ data' = [data EXCEPT ![buf[p]] = v]
      /\ flags' = [flags EXCEPT ![buf[p]] = @ \cup {"DIRTY"}]
      /\ pc' = [pc EXCEPT ![p] = "bwrite"]
      /\ UNCHANGED <<blockno, refcnt, mru, lock, idequeue, active, irq, disk,
                     want, buf, panic>>
  BY DEF Bwrite, At, Goto, bcache, device
<1>3. TypeOK'
  <2>1. data' \in [Bufs -> Vals \cup {NoVal}]
    BY <1>1, <1>2 DEF TypeOK, Labels, NameInv
  <2>2. flags' \in [Bufs -> SUBSET {"VALID", "DIRTY"}]
    BY <1>1, <1>2 DEF TypeOK, Labels, NameInv
  <2>3. pc' \in [Procs -> Labels]
    BY <1>1, <1>2 DEF TypeOK, Labels, NameInv
  <2> QED
    BY <1>1, <1>2, <2>1, <2>2, <2>3 DEF TypeOK
<1>4. IdleInv'
  BY <1>1, <1>2 DEF IdleInv, TypeOK
<1>5. NameInv'
  BY <1>1, <1>2 DEF NameInv, TypeOK
<1>6. NamedInv'
  BY <1>1, <1>2 DEF NamedInv, NameInv, TypeOK
<1>7. InsideInv'
  BY <1>1, <1>2 DEF InsideInv, Inside, Labels, LockInv, NameInv, TypeOK
<1>8. LockInv'
  BY <1>1, <1>2 DEF LockInv, Inside, Labels, InsideInv, NameInv, TypeOK
<1>9. DirtyInv'
  BY <1>1, <1>2, HasBuffer DEF DirtyInv, FlagsInv, FlagsAt, TypeOK
<1>10. FlagsInv'
  <2>1. FlagsAt(pc'[p], flags'[buf'[p]])
    BY <1>1, <1>2, HasBuffer DEF FlagsAt, TypeOK
  <2>2. ASSUME NEW q \in Procs, q # p
        PROVE  FlagsAt(pc'[q], flags'[buf'[q]])
    <3>1. pc'[q] = pc[q] /\ buf'[q] = buf[q]
      BY <1>1, <1>2, <2>2 DEF TypeOK
    <3>2. CASE pc[q] \in Inside
      <4>1. pc[p] \in Inside
        BY <1>2 DEF Inside, Labels
      <4>2. buf[q] \in Bufs /\ buf[q] # buf[p]
        BY <1>1, <2>2, <3>2, <4>1, OneInside
      <4>3. flags'[buf[q]] = flags[buf[q]]
        BY <1>1, <1>2, <4>2 DEF TypeOK
      <4> QED
        BY <1>1, <3>1, <4>3 DEF FlagsInv
    <3>3. CASE pc[q] \notin Inside
      BY <1>1, <3>1, <3>3 DEF FlagsAt, Inside, Labels, TypeOK
    <3> QED
      BY <3>2, <3>3
  <2> QED
    BY <2>1, <2>2 DEF FlagsInv
<1>11. QueuedInv'
  <2>1. \A q \in Procs : pc[q] \in {"reading", "writing"} => pc'[q] = pc[q]
    BY <1>1, <1>2 DEF TypeOK
  <2>2. \A i \in 1..Len(idequeue) : lock[idequeue[i]] \in Procs
    BY <1>1 DEF QueuedInv, TypeOK
  <2> QED
    BY <2>1, <2>2, <1>1, <1>2 DEF QueuedInv
<1>12. AsleepInv'
  BY <1>1, <1>2 DEF AsleepInv, TypeOK
<1>13. ActiveInv'
  <2>1. idequeue # <<>> => Head(idequeue) \in Bufs /\ Head(idequeue) # buf[p]
    BY <1>1, <1>2, HeadQueued DEF InsideInv, Inside, Labels
  <2> QED
    BY <2>1, <1>1, <1>2 DEF ActiveInv, Request, TypeOK
<1>14. DoneInv'
  <2>1. idequeue # <<>> => Head(idequeue) \in Bufs /\ Head(idequeue) # buf[p]
    BY <1>1, <1>2, HeadQueued DEF InsideInv, Inside, Labels
  <2> QED
    BY <2>1, <1>1, <1>2 DEF DoneInv, TypeOK
<1>15. WrittenInv'
  <2>1. \A q \in Procs : pc'[q] \in {"wrote", "written"} => q # p /\ pc[q] \in {"wrote", "written"}
    BY <1>1, <1>2 DEF TypeOK
  <2>2. \A q \in Procs : pc[q] \in {"wrote", "written"} /\ q # p => buf[q] # buf[p]
    BY <1>1, <1>2, OneInside DEF Inside, Labels
  <2> QED
    BY <2>1, <2>2, <1>1, <1>2 DEF WrittenInv, TypeOK
<1>16. /\ OneBuffer' /\ CountInv' /\ OnceInv' /\ QuietInv' /\ ListInv'
  BY <1>1, <1>2 DEF OneBuffer, CountInv, OnceInv, QuietInv, ListInv, Users
<1> QED
  BY <1>3, <1>4, <1>5, <1>6, <1>7, <1>8, <1>9, <1>10, <1>11, <1>12, <1>13, <1>14,
     <1>15, <1>16 DEF IInv

\* bget recycles the unused buffer x
LEMMA BgetMissIInv == ASSUME IInv, NEW p \in Procs, NEW b \in Blocks, NEW x \in Bufs,
           At(p, "idle"), Cached(b) = {}, Unused(x),
           blockno' = [blockno EXCEPT ![x] = b], flags' = [flags EXCEPT ![x] = {}],
           refcnt' = Counted(x, "miss"), want' = [want EXCEPT ![p] = b],
           buf' = [buf EXCEPT ![p] = x], Goto(p, "lock"),
           UNCHANGED <<data, lock, mru, idequeue, device, panic>>
    PROVE IInv'
<1>1. /\ TypeOK /\ IdleInv /\ NameInv /\ OneBuffer /\ NamedInv /\ CountInv
      /\ InsideInv /\ LockInv /\ DirtyInv /\ FlagsInv
      /\ QueuedInv /\ OnceInv /\ AsleepInv /\ QuietInv /\ ActiveInv /\ DoneInv
      /\ WrittenInv /\ ListInv
  BY DEF IInv
<1>2. /\ pc[p] = "idle" /\ \A y \in Bufs : blockno[y] # b
      /\ refcnt[x] = 0 /\ refcnt' = [refcnt EXCEPT ![x] = 1]
      /\ blockno' = [blockno EXCEPT ![x] = b] /\ flags' = [flags EXCEPT ![x] = {}]
      /\ want' = [want EXCEPT ![p] = b] /\ buf' = [buf EXCEPT ![p] = x]
      /\ pc' = [pc EXCEPT ![p] = "lock"]
      /\ UNCHANGED <<data, lock, mru, idequeue, active, irq, disk, panic>>
  BY DEF Cached, Unused, At, Goto, Counted, device
<1>3. Users(x) = {} /\ \A q \in Procs : buf[q] # x
  <2>1. Users(x) = {}
    BY <1>1, <1>2, FS_EmptySet DEF CountInv
  <2> QED
    BY <2>1 DEF Users
<1>4. lock[x] = NoProc
  BY <1>1, <1>3 DEF LockInv, TypeOK
<1>5. idequeue # <<>> => Head(idequeue) \in Bufs /\ Head(idequeue) # x
  BY <1>1, <1>4, HeadQueued DEF TypeOK
<1>6. TypeOK'
  <2>1. blockno' \in [Bufs -> Blocks \cup {NoBlock}]
    BY <1>1, <1>2 DEF TypeOK, NameInv
  <2>2. flags' \in [Bufs -> SUBSET {"VALID", "DIRTY"}]
    BY <1>1, <1>2 DEF TypeOK, Labels, NameInv
  <2>3. refcnt' \in [Bufs -> Nat]
    BY <1>1, <1>2 DEF TypeOK, NameInv
  <2>4. want' \in [Procs -> Blocks \cup {NoBlock}]
    BY <1>1, <1>2 DEF TypeOK, NameInv
  <2>5. buf' \in [Procs -> Bufs \cup {NoBuf}]
    BY <1>1, <1>2 DEF TypeOK, NameInv
  <2>6. pc' \in [Procs -> Labels]
    BY <1>1, <1>2 DEF TypeOK, Labels, NameInv
  <2> QED
    BY <1>1, <1>2, <2>1, <2>2, <2>3, <2>4, <2>5, <2>6 DEF TypeOK
<1>7. IdleInv'
  BY <1>1, <1>2, <1>3, <1>4, <1>5 DEF IdleInv, TypeOK
<1>8. NameInv'
  BY <1>1, <1>2, <1>3, <1>4, <1>5 DEF NameInv, TypeOK
<1>9. OneBuffer'
  BY <1>1, <1>2, <1>3, <1>4, <1>5 DEF OneBuffer, TypeOK
<1>10. NamedInv'
  BY <1>1, <1>2, <1>3, <1>4, <1>5 DEF NamedInv, NameInv, TypeOK
<1>11. CountInv'
  <2> SUFFICES ASSUME NEW y \in Bufs
               PROVE  IsFiniteSet(Users(y)') /\ refcnt'[y] = Cardinality(Users(y)')
    BY DEF CountInv
  <2>1. CASE y = x
    <3>1. Users(x)' = {p}
      BY <1>1, <1>2, <1>3 DEF Users, TypeOK
    <3>2. refcnt'[x] = 1
      BY <1>1, <1>2 DEF TypeOK
    <3> QED
      <4>1. IsFiniteSet({p}) /\ Cardinality({p}) = 1
        BY FS_Singleton
      <4> QED
        BY <3>1, <3>2, <4>1, <2>1
  <2>2. CASE y # x
    <3>1. Users(y)' = Users(y)
      BY <1>1, <1>2, <2>2, NoBufOut DEF Users, TypeOK, IdleInv
    <3>2. refcnt'[y] = refcnt[y]
      BY <1>1, <1>2, <2>2 DEF TypeOK
    <3> QED
      BY <3>1, <3>2, <1>1 DEF CountInv
  <2> QED
    BY <2>1, <2>2
<1>12. InsideInv'
  BY <1>1, <1>2, <1>3, <1>4, <1>5 DEF InsideInv, Inside, Labels, LockInv, NameInv,
     TypeOK
<1>13. LockInv'
  BY <1>1, <1>2, <1>3, <1>4, <1>5 DEF LockInv, Inside, Labels, InsideInv, NameInv,
     TypeOK
<1>14. DirtyInv'
  BY <1>1, <1>2, <1>3, <1>4, <1>5 DEF DirtyInv, FlagsInv, TypeOK
<1>15. FlagsInv'
  <2> SUFFICES ASSUME NEW q \in Procs PROVE FlagsAt(pc'[q], flags'[buf'[q]])
    BY DEF FlagsInv
  <2>1. CASE q = p
    BY <2>1, <1>1, <1>2 DEF FlagsAt, TypeOK
  <2>2. CASE q # p
    <3>1. pc'[q] = pc[q] /\ buf'[q] = buf[q] /\ buf[q] # x
      BY <1>1, <1>2, <1>3, <2>2 DEF TypeOK
    <3>2. CASE pc[q] = "idle"
      BY <3>1, <3>2 DEF FlagsAt
    <3>3. CASE pc[q] # "idle"
      <4>1. flags'[buf[q]] = flags[buf[q]]
        BY <3>1, <3>3, <1>1, <1>2, HasBuffer DEF TypeOK
      <4> QED
        BY <3>1, <4>1, <1>1 DEF FlagsInv
    <3> QED
      BY <3>2, <3>3
  <2> QED
    BY <2>1, <2>2
<1>16. QueuedInv'
  BY <1>1, <1>2, <1>3, <1>4, <1>5 DEF QueuedInv, LockInv, InsideInv, NameInv, Inside,
     Labels, TypeOK
<1>17. AsleepInv'
  <2>1. \A q \in Procs : pc'[q] \in {"reading", "writing"} => q # p /\ pc[q] \in {"reading", "writing"}
    BY <1>1, <1>2 DEF TypeOK
  <2>2. \A q \in Procs : q # p => buf'[q] = buf[q]
    BY <1>1, <1>2 DEF TypeOK
  <2> QED
    BY <2>1, <2>2, <1>1, <1>2 DEF AsleepInv
<1>18. ActiveInv'
  BY <1>1, <1>2, <1>3, <1>4, <1>5 DEF ActiveInv, Request, TypeOK, QueuedInv, LockInv,
     Inside, Labels
<1>19. DoneInv'
  BY <1>1, <1>2, <1>3, <1>4, <1>5 DEF DoneInv, TypeOK, QueuedInv, LockInv, Inside,
     Labels
<1>20. WrittenInv'
  BY <1>1, <1>2, <1>3, <1>4, <1>5 DEF WrittenInv, NameInv, InsideInv, Inside, Labels,
     TypeOK
<1>21. /\ OnceInv' /\ QuietInv' /\ ListInv'
  BY <1>1, <1>2 DEF OnceInv, QuietInv, ListInv
<1> QED
  BY <1>6, <1>7, <1>8, <1>9, <1>10, <1>11, <1>12, <1>13, <1>14, <1>15, <1>16, <1>17,
     <1>18, <1>19, <1>20, <1>21 DEF IInv

\* the rest of brelse: one user fewer
LEMMA BrelseUnrefIInv == ASSUME IInv, NEW p \in Procs, BrelseUnref(p) PROVE IInv'
<1>1. /\ TypeOK /\ IdleInv /\ NameInv /\ OneBuffer /\ NamedInv /\ CountInv
      /\ InsideInv /\ LockInv /\ DirtyInv /\ FlagsInv
      /\ QueuedInv /\ OnceInv /\ AsleepInv /\ QuietInv /\ ActiveInv /\ DoneInv
      /\ WrittenInv /\ ListInv
  BY DEF IInv
<1>2. /\ pc[p] = "unref" /\ refcnt' = [refcnt EXCEPT ![buf[p]] = @ - 1]
      /\ mru' = MovedToFront(buf[p]) \/ mru' = mru
      /\ want' = [want EXCEPT ![p] = NoBlock] /\ buf' = [buf EXCEPT ![p] = NoBuf]
      /\ pc' = [pc EXCEPT ![p] = "idle"]
      /\ UNCHANGED <<blockno, flags, data, lock, idequeue, active, irq, disk, panic>>
  BY DEF BrelseUnref, At, Goto, Released, device
<1>3. buf[p] \in Bufs
  BY <1>1, <1>2, HasBuffer
<1>4. /\ IsFiniteSet(Users(buf[p])) /\ refcnt[buf[p]] = Cardinality(Users(buf[p]))
      /\ p \in Users(buf[p]) /\ refcnt[buf[p]] - 1 \in Nat
  <2>1. /\ IsFiniteSet(Users(buf[p])) /\ refcnt[buf[p]] = Cardinality(Users(buf[p]))
        /\ p \in Users(buf[p])
    BY <1>1, <1>3 DEF CountInv, Users
  <2>2. Cardinality(Users(buf[p])) # 0
    BY <2>1, FS_EmptySet
  <2> QED
    BY <2>1, <2>2, <1>1, <1>3 DEF TypeOK
<1>5. mru' \in [1..NBUF -> Bufs] /\ ListInv'
  <2>1. CASE mru' = mru
    BY <2>1, <1>1 DEF TypeOK, ListInv
  <2>2. CASE mru' = MovedToFront(buf[p])
    <3>1. mru \in [1..NBUF -> Bufs]
      BY <1>1 DEF TypeOK
    <3>2. /\ MovedToFront(buf[p]) \in [1..NBUF -> Bufs]
          /\ \A y \in Bufs : \E i \in 1..NBUF : MovedToFront(buf[p])[i] = y
      BY <3>1, <1>1, <1>3, MovedToFrontKeeps
    <3> QED
      BY <3>2, <2>2 DEF ListInv
  <2> QED
    BY <2>1, <2>2, <1>2
<1>6. TypeOK'
  <2>1. refcnt' \in [Bufs -> Nat]
    BY <1>1, <1>2, <1>4 DEF TypeOK
  <2>2. mru' \in [1..NBUF -> Bufs]
    BY <1>1, <1>2, <1>5
  <2>3. want' \in [Procs -> Blocks \cup {NoBlock}]
    BY <1>1, <1>2 DEF TypeOK, NameInv
  <2>4. buf' \in [Procs -> Bufs \cup {NoBuf}]
    BY <1>1, <1>2 DEF TypeOK, NameInv
  <2>5. pc' \in [Procs -> Labels]
    BY <1>1, <1>2 DEF TypeOK, Labels, NameInv
  <2> QED
    BY <1>1, <1>2, <2>1, <2>2, <2>3, <2>4, <2>5 DEF TypeOK
<1>7. IdleInv'
  BY <1>1, <1>2, <1>3, <1>4, <1>5 DEF IdleInv, TypeOK
<1>8. NameInv'
  BY <1>1, <1>2, <1>3, <1>4, <1>5 DEF NameInv, TypeOK
<1>9. CountInv'
  <2> SUFFICES ASSUME NEW y \in Bufs
               PROVE  IsFiniteSet(Users(y)') /\ refcnt'[y] = Cardinality(Users(y)')
    BY DEF CountInv
  <2>1. CASE y = buf[p]
    <3>1. Users(y)' = Users(y) \ {p}
      BY <1>1, <1>2, <1>3, <2>1, NoBufOut DEF Users, TypeOK
    <3>2. refcnt'[y] = refcnt[y] - 1
      BY <1>1, <1>2, <1>3, <2>1 DEF TypeOK
    <3> QED
      BY <3>1, <3>2, <1>4, <2>1, FS_RemoveElement
  <2>2. CASE y # buf[p]
    <3>1. Users(y)' = Users(y)
      BY <1>1, <1>2, <1>3, <2>2, NoBufOut DEF Users, TypeOK
    <3>2. refcnt'[y] = refcnt[y]
      BY <1>1, <1>2, <1>3, <2>2 DEF TypeOK
    <3> QED
      BY <3>1, <3>2, <1>1 DEF CountInv
  <2> QED
    BY <2>1, <2>2
<1>10. InsideInv'
  BY <1>1, <1>2, <1>3, <1>4, <1>5 DEF InsideInv, Inside, Labels, LockInv, NameInv,
     TypeOK
<1>11. LockInv'
  BY <1>1, <1>2, <1>3, <1>4, <1>5 DEF LockInv, Inside, Labels, InsideInv, NameInv,
     TypeOK
<1>12. FlagsInv'
  <2> SUFFICES ASSUME NEW q \in Procs PROVE FlagsAt(pc'[q], flags[buf'[q]])
    BY <1>2 DEF FlagsInv
  <2>1. CASE q = p
    BY <2>1, <1>1, <1>2 DEF FlagsAt, TypeOK
  <2>2. CASE q # p
    BY <2>2, <1>1, <1>2 DEF FlagsInv, TypeOK
  <2> QED
    BY <2>1, <2>2
<1>13. QueuedInv'
  BY <1>1, <1>2, <1>3, <1>4, <1>5 DEF QueuedInv, LockInv, InsideInv, NameInv, Inside,
     Labels, TypeOK
<1>14. AsleepInv'
  <2>1. \A q \in Procs : pc'[q] \in {"reading", "writing"} => q # p /\ pc[q] \in {"reading", "writing"}
    BY <1>1, <1>2 DEF TypeOK
  <2>2. \A q \in Procs : q # p => buf'[q] = buf[q]
    BY <1>1, <1>2 DEF TypeOK
  <2> QED
    BY <2>1, <2>2, <1>1, <1>2 DEF AsleepInv
<1>15. WrittenInv'
  BY <1>1, <1>2, <1>3, <1>4, <1>5 DEF WrittenInv, NameInv, InsideInv, Inside, Labels,
     TypeOK
<1>16. /\ OneBuffer' /\ NamedInv' /\ DirtyInv' /\ OnceInv' /\ QuietInv' /\ ActiveInv'
      /\ DoneInv'
  BY <1>1, <1>2 DEF OneBuffer, NamedInv, DirtyInv, OnceInv, QuietInv, ActiveInv,
     DoneInv, Request
<1> QED
  BY <1>6, <1>7, <1>8, <1>9, <1>10, <1>11, <1>12, <1>13, <1>14, <1>15, <1>16, <1>5
     DEF IInv

\* iderw returns: its request has been done
LEMMA IderwReturnIInv == ASSUME IInv, NEW p \in Procs, IderwReturn(p) PROVE IInv'
<1>1. /\ TypeOK /\ IdleInv /\ NameInv /\ OneBuffer /\ NamedInv /\ CountInv
      /\ InsideInv /\ LockInv /\ DirtyInv /\ FlagsInv
      /\ QueuedInv /\ OnceInv /\ AsleepInv /\ QuietInv /\ ActiveInv /\ DoneInv
      /\ WrittenInv /\ ListInv
  BY DEF IInv
<1>2. /\ flags[buf[p]] = {"VALID"}
      /\ pc[p] \in {"read", "wrote"}
      /\ pc' = [pc EXCEPT ![p] = IF pc[p] = "read" THEN "held" ELSE "written"]
      /\ UNCHANGED <<blockno, refcnt, mru, flags, data, lock, idequeue, active, irq, disk,
                     want, buf, panic>>
  BY Tables DEF IderwReturn, Goto, bcache, device
<1>3. TypeOK'
  <2>1. pc' \in [Procs -> Labels]
    BY <1>1, <1>2 DEF TypeOK, Labels, NameInv
  <2> QED
    BY <1>1, <1>2, <2>1 DEF TypeOK
<1>4. IdleInv'
  BY <1>1, <1>2 DEF IdleInv, TypeOK
<1>5. NameInv'
  BY <1>1, <1>2 DEF NameInv, TypeOK
<1>6. InsideInv'
  BY <1>1, <1>2 DEF InsideInv, Inside, Labels, LockInv, NameInv, TypeOK
<1>7. LockInv'
  BY <1>1, <1>2 DEF LockInv, Inside, Labels, InsideInv, NameInv, TypeOK
<1>8. FlagsInv'
  <2> SUFFICES ASSUME NEW q \in Procs PROVE FlagsAt(pc'[q], flags[buf'[q]])
    BY <1>2 DEF FlagsInv
  <2>1. CASE q = p
    BY <2>1, <1>1, <1>2 DEF FlagsAt, TypeOK
  <2>2. CASE q # p
    BY <2>2, <1>1, <1>2 DEF FlagsInv, TypeOK
  <2> QED
    BY <2>1, <2>2
<1>9. QueuedInv'
  BY <1>1, <1>2 DEF QueuedInv, LockInv, InsideInv, NameInv, Inside, Labels, TypeOK
<1>10. AsleepInv'
  BY <1>1, <1>2 DEF AsleepInv, TypeOK
<1>11. WrittenInv'
  BY <1>1, <1>2 DEF WrittenInv, NameInv, InsideInv, Inside, Labels, TypeOK
<1>12. /\ OneBuffer' /\ NamedInv' /\ CountInv' /\ DirtyInv' /\ OnceInv' /\ QuietInv'
      /\ ActiveInv' /\ DoneInv' /\ ListInv'
  BY <1>1, <1>2 DEF OneBuffer, NamedInv, CountInv, DirtyInv, OnceInv, QuietInv,
     ActiveInv, DoneInv, ListInv, Request, Users
<1> QED
  BY <1>3, <1>4, <1>5, <1>6, <1>7, <1>8, <1>9, <1>10, <1>11, <1>12 DEF IInv

\* the disk does what it was told
LEMMA DiskIInv == ASSUME IInv, Disk PROVE IInv'
<1>1. /\ TypeOK /\ IdleInv /\ NameInv /\ OneBuffer /\ NamedInv /\ CountInv
      /\ InsideInv /\ LockInv /\ DirtyInv /\ FlagsInv
      /\ QueuedInv /\ OnceInv /\ AsleepInv /\ QuietInv /\ ActiveInv /\ DoneInv
      /\ WrittenInv /\ ListInv
  BY DEF IInv
<1>2. /\ active # Idle /\ ~irq /\ irq'
      /\ IF active.write
         THEN disk' = [disk EXCEPT ![active.block] = active.data] /\ active' = active
         ELSE active' = [active EXCEPT !.data = disk[active.block]] /\ disk' = disk
      /\ UNCHANGED <<blockno, refcnt, mru, flags, data, lock, idequeue, pc, want, buf, panic>>
  BY DEF Disk, bcache, caller
<1>3. idequeue # <<>>
  BY <1>1, <1>2 DEF QuietInv
<1> DEFINE x == Head(idequeue)
<1>4. /\ x \in Bufs /\ blockno[x] \in Blocks /\ lock[x] \in Procs /\ buf[lock[x]] = x
      /\ pc[lock[x]] \in {"reading", "writing"}
  BY <1>1, <1>3, HeadQueued DEF LockInv, TypeOK, Inside, Labels, NameInv
<1>5. active = [block |-> blockno[x], write |-> "DIRTY" \in flags[x],
                data |-> IF "DIRTY" \in flags[x] THEN data[x] ELSE NoVal]
  BY <1>1, <1>2, <1>3 DEF ActiveInv, Request
<1> HIDE DEF x
<1>6. IF "DIRTY" \in flags[x]
      THEN disk' = [disk EXCEPT ![blockno[x]] = data[x]] /\ active' = active /\ data[x] \in Vals
      ELSE /\ active' = [block |-> blockno[x], write |-> FALSE, data |-> disk[blockno[x]]]
           /\ disk' = disk
  <2>1. active.write = ("DIRTY" \in flags[x]) /\ active.block = blockno[x]
    BY <1>5
  <2>2. CASE "DIRTY" \in flags[x]
    <3>1. active.data = data[x] /\ data[x] \in Vals
      BY <1>1, <1>4, <1>5, <2>2 DEF DirtyInv
    <3> QED
      BY <3>1, <2>1, <2>2, <1>2
  <2>3. CASE "DIRTY" \notin flags[x]
    <3>1. active' = [active EXCEPT !.data = disk[blockno[x]]] /\ disk' = disk
      BY <2>1, <2>3, <1>2
    <3>2. ("DIRTY" \in flags[x]) = FALSE
      BY <2>3
    <3>3. active = [block |-> blockno[x], write |-> FALSE, data |-> NoVal]
      BY <1>5, <3>2
    <3> QED
      BY <3>1, <3>3, <2>3
  <2> QED
    BY <2>2, <2>3
<1>7. TypeOK'
  <2>0. disk[blockno[x]] \in Vals
    BY <1>1, <1>4 DEF TypeOK
  <2>1. active' \in [block : Blocks \cup {NoBlock}, write : BOOLEAN, data : Vals \cup {NoVal}]
    <3>1. CASE "DIRTY" \in flags[x]
      BY <3>1, <1>1, <1>6 DEF TypeOK
    <3>2. CASE "DIRTY" \notin flags[x]
      <4>1. active' = [block |-> blockno[x], write |-> FALSE, data |-> disk[blockno[x]]]
        BY <3>2, <1>6
      <4>2. FALSE \in BOOLEAN
        OBVIOUS
      <4>3. blockno[x] \in Blocks \cup {NoBlock} /\ disk[blockno[x]] \in Vals \cup {NoVal}
        BY <1>4, <2>0
      <4> HIDE BcacheAssumption
      <4> QED
        BY <4>1, <4>2, <4>3
    <3> QED
      BY <3>1, <3>2
  <2>2. irq' \in BOOLEAN
    BY <1>1, <1>2 DEF TypeOK, NameInv
  <2>3. disk' \in [Blocks -> Vals]
    BY <1>1, <1>2, <1>4, <1>6 DEF TypeOK
  <2> QED
    BY <1>1, <1>2, <2>1, <2>2, <2>3 DEF TypeOK
<1>8. QuietInv'
  BY <1>1, <1>2, <1>3, <1>4, <1>5, <1>6 DEF QuietInv, TypeOK
<1>9. ActiveInv'
  BY <1>1, <1>2, <1>3, <1>4, <1>5, <1>6 DEF ActiveInv, Request, TypeOK, QueuedInv,
     LockInv, Inside, Labels
<1>10. DoneInv'
  <2>1. active' = [block |-> blockno[x], write |-> "DIRTY" \in flags[x],
                   data |-> disk'[blockno[x]]]
    BY <1>1, <1>4, <1>5, <1>6 DEF TypeOK
  <2>2. "DIRTY" \in flags[x] => disk'[blockno[x]] = data[x]
    BY <1>1, <1>4, <1>6 DEF TypeOK
  <2> QED
    BY <2>1, <2>2, <1>2 DEF DoneInv, x
<1>11. WrittenInv'
  <2> SUFFICES ASSUME NEW q \in Procs, pc[q] \in {"wrote", "written"}
               PROVE  disk'[want[q]] = data[buf[q]]
    BY <1>2 DEF WrittenInv
  <2>1. buf[q] \in Bufs /\ want[q] \in Blocks /\ blockno[buf[q]] = want[q] /\ lock[buf[q]] = q
    BY <1>1, OneInside DEF Inside, Labels
  <2>2. buf[q] # x
    BY <2>1, <1>4
  <2>3. want[q] # blockno[x]
    BY <2>1, <2>2, <1>1, <1>4 DEF OneBuffer
  <2>4. disk'[want[q]] = disk[want[q]]
    BY <2>1, <2>3, <1>1, <1>6 DEF TypeOK
  <2> QED
    BY <2>4, <1>1 DEF WrittenInv
<1>12. /\ IdleInv' /\ NameInv' /\ OneBuffer' /\ NamedInv' /\ CountInv' /\ InsideInv'
      /\ LockInv' /\ DirtyInv' /\ FlagsInv' /\ QueuedInv' /\ OnceInv' /\ AsleepInv'
      /\ ListInv'
  BY <1>1, <1>2 DEF IdleInv, NameInv, OneBuffer, NamedInv, CountInv, InsideInv,
     LockInv, DirtyInv, FlagsInv, QueuedInv, OnceInv, AsleepInv, ListInv, Users
<1> QED
  BY <1>7, <1>8, <1>9, <1>10, <1>11, <1>12 DEF IInv

\* iderw queues the request
LEMMA IderwIInv == ASSUME IInv, NEW p \in Procs, Iderw(p) PROVE IInv'
<1>1. /\ TypeOK /\ IdleInv /\ NameInv /\ OneBuffer /\ NamedInv /\ CountInv
      /\ InsideInv /\ LockInv /\ DirtyInv /\ FlagsInv
      /\ QueuedInv /\ OnceInv /\ AsleepInv /\ QuietInv /\ ActiveInv /\ DoneInv
      /\ WrittenInv /\ ListInv
  BY DEF IInv
<1>2. /\ pc[p] \in {"bread", "bwrite"}
      /\ pc' = [pc EXCEPT ![p] = IF pc[p] = "bread" THEN "reading" ELSE "writing"]
      /\ idequeue' = Append(idequeue, buf[p])
      /\ active' = IF idequeue' = <<buf[p]>> THEN Request(buf[p]) ELSE active
      /\ UNCHANGED <<blockno, refcnt, mru, flags, data, lock, irq, disk, want, buf, panic>>
  BY Tables DEF Iderw, Goto, Started, bcache
<1>3. buf[p] \in Bufs /\ blockno[buf[p]] \in Blocks /\ lock[buf[p]] = p /\ p # NoProc
  BY <1>1, <1>2, OneInside DEF Inside, Labels
<1>4. /\ idequeue' \in Seq(Bufs) /\ Len(idequeue') = Len(idequeue) + 1 /\ Len(idequeue) \in Nat
      /\ idequeue'[Len(idequeue) + 1] = buf[p]
      /\ \A i \in 1..Len(idequeue) :
            idequeue'[i] = idequeue[i] /\ idequeue[i] \in Bufs /\ idequeue[i] # buf[p]
  <2>1. \A i \in 1..Len(idequeue) : idequeue[i] # buf[p]
    BY <1>1, <1>2, <1>3 DEF QueuedInv
  <2> QED
    BY <2>1, <1>1, <1>2, <1>3 DEF TypeOK
<1>5. IF idequeue = <<>>
      THEN active' = Request(buf[p]) /\ Head(idequeue') = buf[p] /\ ~irq
      ELSE active' = active /\ Head(idequeue') = Head(idequeue)
  <2>1. CASE idequeue = <<>>
    BY <2>1, <1>1, <1>2 DEF QuietInv
  <2>2. CASE idequeue # <<>>
    BY <2>2, <1>1, <1>2, <1>4 DEF TypeOK
  <2> QED
    BY <2>1, <2>2
<1>6. TypeOK'
  <2>0. active' \in [block : Blocks \cup {NoBlock}, write : BOOLEAN, data : Vals \cup {NoVal}]
    BY <1>1, <1>3, <1>5, RequestType DEF TypeOK
  <2>1. idequeue' \in Seq(Bufs)
    BY <1>1, <1>2, <1>4
  <2>2. active' \in [block : Blocks \cup {NoBlock}, write : BOOLEAN, data : Vals \cup {NoVal}]
    BY <1>1, <1>2, <2>0
  <2>3. pc' \in [Procs -> Labels]
    BY <1>1, <1>2 DEF TypeOK, Labels, NameInv
  <2> QED
    BY <1>1, <1>2, <2>1, <2>2, <2>3 DEF TypeOK
<1>7. IdleInv'
  BY <1>1, <1>2, <1>3, <1>4, <1>5 DEF IdleInv, TypeOK
<1>8. NameInv'
  BY <1>1, <1>2, <1>3, <1>4, <1>5 DEF NameInv, TypeOK
<1>9. InsideInv'
  BY <1>1, <1>2, <1>3, <1>4, <1>5 DEF InsideInv, Inside, Labels, LockInv, NameInv,
     TypeOK
<1>10. LockInv'
  BY <1>1, <1>2, <1>3, <1>4, <1>5 DEF LockInv, Inside, Labels, InsideInv, NameInv,
     TypeOK
<1>11. FlagsInv'
  <2> SUFFICES ASSUME NEW q \in Procs PROVE FlagsAt(pc'[q], flags[buf'[q]])
    BY <1>2 DEF FlagsInv
  <2>1. CASE q = p
    <3>1. FlagsAt(pc[p], flags[buf[p]])
      BY <1>1 DEF FlagsInv
    <3> QED
      BY <2>1, <3>1, <1>1, <1>2 DEF FlagsAt, TypeOK
  <2>2. CASE q # p
    BY <2>2, <1>1, <1>2 DEF FlagsInv, TypeOK
  <2> QED
    BY <2>1, <2>2
<1>12. QueuedInv'
  BY <1>1, <1>2, <1>3, <1>4, <1>5 DEF QueuedInv, LockInv, InsideInv, NameInv, Inside,
     Labels, TypeOK
<1>13. OnceInv'
  BY <1>1, <1>2, <1>3, <1>4, <1>5 DEF OnceInv, TypeOK
<1>14. AsleepInv'
  BY <1>1, <1>2, <1>3, <1>4, <1>5 DEF AsleepInv, TypeOK
<1>15. QuietInv'
  BY <1>1, <1>2, <1>3, <1>4, <1>5 DEF QuietInv, TypeOK
<1>16. ActiveInv'
  BY <1>1, <1>2, <1>3, <1>4, <1>5 DEF ActiveInv, Request, TypeOK, QueuedInv, LockInv,
     Inside, Labels
<1>17. DoneInv'
  BY <1>1, <1>2, <1>3, <1>4, <1>5 DEF DoneInv, TypeOK, QueuedInv, LockInv, Inside,
     Labels
<1>18. WrittenInv'
  BY <1>1, <1>2, <1>3, <1>4, <1>5 DEF WrittenInv, NameInv, InsideInv, Inside, Labels,
     TypeOK
<1>19. /\ OneBuffer' /\ NamedInv' /\ CountInv' /\ DirtyInv' /\ ListInv'
  BY <1>1, <1>2 DEF OneBuffer, NamedInv, CountInv, DirtyInv, ListInv, Users
<1> QED
  BY <1>6, <1>7, <1>8, <1>9, <1>10, <1>11, <1>12, <1>13, <1>14, <1>15, <1>16, <1>17,
     <1>18, <1>19 DEF IInv

\* the interrupt: the request at the head of the queue has been done
LEMMA IdeintrIInv == ASSUME IInv, Ideintr PROVE IInv'
<1>1. /\ TypeOK /\ IdleInv /\ NameInv /\ OneBuffer /\ NamedInv /\ CountInv
      /\ InsideInv /\ LockInv /\ DirtyInv /\ FlagsInv
      /\ QueuedInv /\ OnceInv /\ AsleepInv /\ QuietInv /\ ActiveInv /\ DoneInv
      /\ WrittenInv /\ ListInv
  BY DEF IInv
<1>2. /\ irq /\ irq' = FALSE
      /\ idequeue' = Tail(idequeue) /\ active' = NextRequest(idequeue')
      /\ \E failed \in Errors :
            data' = [data EXCEPT ![Head(idequeue)] =
                        IF "DIRTY" \in flags[Head(idequeue)] \/ failed THEN @ ELSE active.data]
      /\ flags' = [flags EXCEPT ![Head(idequeue)] = {"VALID"}]
      /\ pc' = [p \in Procs |-> IF pc[p] \in DOMAIN Awake /\ buf[p] = Head(idequeue)
                                THEN Awake[pc[p]] ELSE pc[p]]
      /\ UNCHANGED <<blockno, refcnt, mru, lock, disk, want, buf, panic>>
  BY DEF Ideintr, bcache
<1> DEFINE x == Head(idequeue)
           h == lock[x]
<1>3. idequeue # <<>>
  BY <1>1, <1>2 DEF QuietInv
<1>4. /\ 1 \in 1..Len(idequeue) /\ x = idequeue[1]
      /\ x \in Bufs /\ h \in Procs /\ buf[h] = x /\ pc[h] \in {"reading", "writing"}
      /\ blockno[x] \in Blocks /\ blockno[x] = want[h]
  BY <1>1, <1>3, HeadQueued DEF LockInv, TypeOK, Inside, Labels, NameInv
<1>5. /\ active = [block |-> blockno[x], write |-> "DIRTY" \in flags[x],
                   data |-> disk[blockno[x]]]
      /\ "DIRTY" \in flags[x] => disk[blockno[x]] = data[x]
  BY <1>1, <1>2, <1>3 DEF DoneInv
<1>6. pc' = [pc EXCEPT ![h] = IF pc[h] = "reading" THEN "read" ELSE "wrote"]
  <2>1. \A q \in Procs : pc[q] \in {"reading", "writing"} /\ buf[q] = x => q = h
    BY <1>1, <1>4, OneInside DEF Inside, Labels
  <2> QED
    BY <2>1, <1>1, <1>2, <1>4, Tables DEF TypeOK
<1>7. /\ flags' = [flags EXCEPT ![x] = {"VALID"}]
      /\ "DIRTY" \in flags[x] => data' = data
      /\ \E d \in Vals \cup {NoVal} : data' = [data EXCEPT ![x] = d]
  <2>1. PICK failed \in Errors :
            data' = [data EXCEPT ![x] = IF "DIRTY" \in flags[x] \/ failed THEN @ ELSE active.data]
    BY <1>2
  <2>2. active.data \in Vals /\ data[x] \in Vals \cup {NoVal}
    BY <1>1, <1>4, <1>5 DEF TypeOK
  <2>3. CASE "DIRTY" \in flags[x] \/ failed
    BY <2>1, <2>2, <2>3, <1>1, <1>2, <1>4 DEF TypeOK
  <2>4. CASE ~("DIRTY" \in flags[x] \/ failed)
    BY <2>1, <2>2, <2>4, <1>2
  <2> QED
    BY <2>3, <2>4
<1>8. /\ idequeue' \in Seq(Bufs) /\ Len(idequeue') = Len(idequeue) - 1
      /\ \A i \in 1..Len(idequeue') :
            /\ i + 1 \in 1..Len(idequeue) /\ idequeue'[i] = idequeue[i + 1]
            /\ idequeue'[i] \in Bufs /\ idequeue'[i] # x
  BY <1>1, <1>2, <1>3, <1>4 DEF TypeOK, OnceInv
<1>9. \A q \in Procs : q # h /\ pc[q] \in Inside => buf[q] \in Bufs /\ buf[q] # x
  BY <1>1, <1>4, OneInside DEF Inside, Labels
<1>10. IF idequeue' = <<>> THEN active' = Idle
       ELSE /\ active' = Request(Head(idequeue')) /\ Head(idequeue') = idequeue'[1]
            /\ Head(idequeue') \in Bufs /\ Head(idequeue') # x
  <2>1. CASE idequeue' = <<>>
    BY <2>1, <1>2 DEF NextRequest
  <2>2. CASE idequeue' # <<>>
    <3>1. 1 \in 1..Len(idequeue') /\ Head(idequeue') = idequeue'[1]
      BY <2>2, <1>8
    <3> QED
      BY <2>2, <3>1, <1>2, <1>8 DEF NextRequest
  <2> QED
    BY <2>1, <2>2
<1> HIDE DEF x, h
<1>11. TypeOK'
  <2>0. active' \in [block : Blocks \cup {NoBlock}, write : BOOLEAN, data : Vals \cup {NoVal}]
    BY <1>1, <1>10, RequestType, IdleType
  <2>1. idequeue' \in Seq(Bufs)
    BY <1>1, <1>2, <1>8
  <2>2. irq' \in BOOLEAN
    BY <1>1, <1>2
  <2>3. data' \in [Bufs -> Vals \cup {NoVal}]
    BY <1>1, <1>2, <1>4, <1>7 DEF TypeOK
  <2>4. flags' \in [Bufs -> SUBSET {"VALID", "DIRTY"}]
    BY <1>1, <1>2, <1>4, <1>7 DEF TypeOK
  <2>5. pc' \in [Procs -> Labels]
    BY <1>1, <1>2, <1>6 DEF TypeOK, Labels
  <2>6. active' \in [block : Blocks \cup {NoBlock}, write : BOOLEAN, data : Vals \cup {NoVal}]
    BY <1>1, <1>2, <2>0
  <2> QED
    BY <1>1, <1>2, <2>1, <2>2, <2>3, <2>4, <2>5, <2>6 DEF TypeOK
<1>12. IdleInv'
  BY <1>1, <1>2, <1>4, <1>6, <1>7, <1>8, <1>9, <1>10 DEF IdleInv, TypeOK
<1>13. NameInv'
  BY <1>1, <1>2, <1>4, <1>6, <1>7, <1>8, <1>9, <1>10 DEF NameInv, TypeOK
<1>14. NamedInv'
  BY <1>1, <1>2, <1>4, <1>6, <1>7, <1>8, <1>9, <1>10 DEF NamedInv, NameInv, TypeOK
<1>15. InsideInv'
  BY <1>1, <1>2, <1>4, <1>6, <1>7, <1>8, <1>9, <1>10 DEF InsideInv, Inside, Labels,
     LockInv, NameInv, TypeOK
<1>16. LockInv'
  BY <1>1, <1>2, <1>4, <1>6, <1>7, <1>8, <1>9, <1>10 DEF LockInv, Inside, Labels,
     InsideInv, NameInv, TypeOK
<1>17. DirtyInv'
  BY <1>1, <1>2, <1>4, <1>6, <1>7, <1>8, <1>9, <1>10 DEF DirtyInv, FlagsInv, TypeOK
<1>18. FlagsInv'
  <2>1. FlagsAt(pc'[h], flags'[buf'[h]])
    BY <1>1, <1>2, <1>4, <1>6, <1>7 DEF FlagsAt, TypeOK
  <2>2. ASSUME NEW q \in Procs, q # h
        PROVE  FlagsAt(pc'[q], flags'[buf'[q]])
    <3>1. pc'[q] = pc[q] /\ buf'[q] = buf[q]
      BY <1>1, <1>2, <1>6, <2>2 DEF TypeOK
    <3>2. CASE pc[q] \in Inside
      <4>1. flags'[buf[q]] = flags[buf[q]]
        BY <1>1, <1>7, <1>9, <2>2, <3>2 DEF TypeOK
      <4> QED
        BY <1>1, <3>1, <4>1 DEF FlagsInv
    <3>3. CASE pc[q] \notin Inside
      BY <1>1, <3>1, <3>3 DEF FlagsAt, Inside, Labels, TypeOK
    <3> QED
      BY <3>2, <3>3
  <2> QED
    BY <2>1, <2>2 DEF FlagsInv
<1>19. QueuedInv'
  BY <1>1, <1>2, <1>4, <1>6, <1>7, <1>8, <1>9, <1>10 DEF QueuedInv, LockInv,
     InsideInv, NameInv, Inside, Labels, TypeOK
<1>20. OnceInv'
  BY <1>1, <1>2, <1>4, <1>6, <1>7, <1>8, <1>9, <1>10 DEF OnceInv, TypeOK
<1>21. AsleepInv'
  <2> SUFFICES ASSUME NEW q \in Procs, pc'[q] \in {"reading", "writing"}
               PROVE  \E i \in 1..Len(idequeue') : idequeue'[i] = buf[q]
    BY <1>2 DEF AsleepInv
  <2>1. q # h /\ pc[q] \in {"reading", "writing"}
    BY <1>1, <1>4, <1>6 DEF TypeOK
  <2>2. PICK i \in 1..Len(idequeue) : idequeue[i] = buf[q]
    BY <2>1, <1>1 DEF AsleepInv
  <2>3. i # 1
    BY <2>1, <2>2, <1>4, <1>9 DEF Inside, Labels
  <2>4. i - 1 \in 1..Len(idequeue') /\ (i - 1) + 1 = i
    BY <2>2, <2>3, <1>1, <1>8 DEF TypeOK
  <2> QED
    BY <2>2, <2>4, <1>8
<1>22. QuietInv'
  BY <1>1, <1>2, <1>4, <1>6, <1>7, <1>8, <1>9, <1>10 DEF QuietInv, TypeOK
<1>23. ActiveInv'
  <2> SUFFICES ASSUME idequeue' # <<>>
               PROVE  active' = [block |-> blockno'[Head(idequeue')],
                                 write |-> "DIRTY" \in flags'[Head(idequeue')],
                                 data |-> IF "DIRTY" \in flags'[Head(idequeue')]
                                          THEN data'[Head(idequeue')] ELSE NoVal]
    BY DEF ActiveInv, Request
  <2> DEFINE y == Head(idequeue')
  <2>1. y \in Bufs /\ y # x /\ active' = Request(y)
    BY <1>10
  <2>2. flags'[y] = flags[y] /\ data'[y] = data[y] /\ blockno'[y] = blockno[y]
    BY <2>1, <1>1, <1>2, <1>7 DEF TypeOK
  <2> QED
    BY <2>1, <2>2 DEF Request
<1>24. DoneInv'
  BY <1>1, <1>2, <1>4, <1>6, <1>7, <1>8, <1>9, <1>10 DEF DoneInv, TypeOK, QueuedInv,
     LockInv, Inside, Labels
<1>25. WrittenInv'
  <2> SUFFICES ASSUME NEW q \in Procs, pc'[q] \in {"wrote", "written"}
               PROVE  disk[want[q]] = data'[buf[q]]
    BY <1>2 DEF WrittenInv
  <2>1. CASE q = h
    <3>1. pc[h] = "writing"
      BY <2>1, <1>1, <1>4, <1>6 DEF TypeOK
    <3>2. "DIRTY" \in flags[x]
      BY <3>1, <1>1, <1>4 DEF FlagsInv, FlagsAt
    <3> QED
      BY <2>1, <3>2, <1>4, <1>5, <1>7
  <2>2. CASE q # h
    <3>1. pc[q] \in {"wrote", "written"}
      BY <2>2, <1>1, <1>6 DEF TypeOK
    <3>2. buf[q] \in Bufs /\ buf[q] # x
      BY <2>2, <3>1, <1>9 DEF Inside, Labels
    <3> QED
      BY <3>1, <3>2, <1>1, <1>7 DEF WrittenInv, TypeOK
  <2> QED
    BY <2>1, <2>2
<1>26. /\ OneBuffer' /\ CountInv' /\ ListInv'
  BY <1>1, <1>2 DEF OneBuffer, CountInv, ListInv, Users
<1> QED
  BY <1>11, <1>12, <1>13, <1>14, <1>15, <1>16, <1>17, <1>18, <1>19, <1>20, <1>21,
     <1>22, <1>23, <1>24, <1>25, <1>26 DEF IInv

LEMMA InitIInv == Init => IInv
<1> SUFFICES ASSUME Init PROVE IInv
  OBVIOUS
<1>1. TypeOK
  <2>1. mru \in [1..NBUF -> Bufs] /\ refcnt \in [Bufs -> Nat]
    BY DEF Init, Bufs
  <2>2. flags \in [Bufs -> SUBSET {"VALID", "DIRTY"}] /\ pc \in [Procs -> Labels]
    BY DEF Init, Labels
  <2>3. <<>> \in Seq(Bufs) /\ FALSE \in BOOLEAN
    OBVIOUS
  <2> QED
    BY <2>1, <2>2, <2>3, IdleType DEF Init, TypeOK
<1>2. IdleInv /\ NameInv /\ OneBuffer /\ NamedInv /\ InsideInv /\ LockInv /\ DirtyInv
  BY DEF Init, IdleInv, NameInv, OneBuffer, NamedInv, InsideInv, LockInv, DirtyInv,
     Inside
<1>3. FlagsInv /\ QueuedInv /\ OnceInv /\ AsleepInv /\ WrittenInv
  BY DEF Init, FlagsInv, FlagsAt, QueuedInv, OnceInv, AsleepInv, WrittenInv
<1>4. QuietInv /\ ActiveInv /\ DoneInv
  BY DEF Init, QuietInv, ActiveInv, DoneInv
<1>5. CountInv
  <2> SUFFICES ASSUME NEW x \in Bufs
               PROVE  IsFiniteSet(Users(x)) /\ refcnt[x] = Cardinality(Users(x))
    BY DEF CountInv
  <2>1. Users(x) = {}
    BY NoBufOut DEF Users, Init
  <2> QED
    BY <2>1, FS_EmptySet DEF Init
<1>6. ListInv
  <2> SUFFICES ASSUME NEW x \in Bufs PROVE \E i \in 1..NBUF : mru[i] = x
    BY DEF ListInv
  <2>1. NBUF + 1 - x \in 1..NBUF /\ NBUF + 1 - (NBUF + 1 - x) = x
    BY DEF Bufs
  <2> QED
    BY <2>1 DEF Init
<1> QED
  BY <1>1, <1>2, <1>3, <1>4, <1>5, <1>6 DEF IInv

\* A step that changes nothing
LEMMA StutterIInv == IInv /\ UNCHANGED vars => IInv'
<1> SUFFICES ASSUME IInv, UNCHANGED vars PROVE IInv'
  OBVIOUS
<1>1. UNCHANGED <<blockno, flags, data, refcnt, lock, mru, idequeue, active, irq, disk,
                  pc, want, buf, panic>>
  BY DEF vars, device, caller
<1>2. TypeOK' /\ IdleInv' /\ NameInv' /\ OneBuffer' /\ NamedInv'
  BY <1>1 DEF IInv, TypeOK, IdleInv, NameInv, OneBuffer, NamedInv
<1>3. InsideInv' /\ LockInv' /\ DirtyInv' /\ FlagsInv' /\ ListInv' /\ WrittenInv'
  BY <1>1 DEF IInv, InsideInv, LockInv, DirtyInv, FlagsInv, ListInv, WrittenInv
<1>4. QueuedInv' /\ OnceInv' /\ AsleepInv' /\ QuietInv' /\ ActiveInv' /\ DoneInv'
  BY <1>1 DEF IInv, QueuedInv, OnceInv, AsleepInv, QuietInv, ActiveInv, DoneInv, Request
<1>5. CountInv'
  BY <1>1 DEF IInv, CountInv, Users
<1> QED
  BY <1>2, <1>3, <1>4, <1>5 DEF IInv

\* bget that does not find the block, whichever way it goes
LEMMA BgetMissStepIInv ==
  ASSUME IInv, NEW p \in Procs, NEW b \in Blocks, BgetMiss(p, b) PROVE IInv'
<1>1. CASE /\ panic' = TRUE /\ UNCHANGED <<blockno, flags, refcnt, want, buf, pc>>
  <2>1. /\ UNCHANGED <<blockno, flags, data, refcnt, lock, mru, idequeue, active, irq, disk,
                       pc, want, buf>>
        /\ panic' \in BOOLEAN
    BY <1>1 DEF BgetMiss, device
  <2>2. TypeOK' /\ IdleInv' /\ NameInv' /\ OneBuffer' /\ NamedInv'
    BY <2>1 DEF IInv, TypeOK, IdleInv, NameInv, OneBuffer, NamedInv
  <2>3. InsideInv' /\ LockInv' /\ DirtyInv' /\ FlagsInv' /\ ListInv' /\ WrittenInv'
    BY <2>1 DEF IInv, InsideInv, LockInv, DirtyInv, FlagsInv, ListInv, WrittenInv
  <2>4. QueuedInv' /\ OnceInv' /\ AsleepInv' /\ QuietInv' /\ ActiveInv' /\ DoneInv'
    BY <2>1 DEF IInv, QueuedInv, OnceInv, AsleepInv, QuietInv, ActiveInv, DoneInv,
       Request
  <2>5. CountInv'
    BY <2>1 DEF IInv, CountInv, Users
  <2> QED
    BY <2>2, <2>3, <2>4, <2>5 DEF IInv
<1>2. CASE \E i \in 1..NBUF : LET x == mru[i] IN
          /\ Unused(x)
          /\ blockno' = [blockno EXCEPT ![x] = b]
          /\ flags' = [flags EXCEPT ![x] = {}]
          /\ refcnt' = Counted(x, "miss")
          /\ want' = [want EXCEPT ![p] = b]
          /\ buf' = [buf EXCEPT ![p] = x]
          /\ Goto(p, "lock")
          /\ UNCHANGED panic
  <2>1. PICK i \in 1..NBUF :
          /\ Unused(mru[i])
          /\ blockno' = [blockno EXCEPT ![mru[i]] = b]
          /\ flags' = [flags EXCEPT ![mru[i]] = {}]
          /\ refcnt' = Counted(mru[i], "miss")
          /\ want' = [want EXCEPT ![p] = b]
          /\ buf' = [buf EXCEPT ![p] = mru[i]]
          /\ Goto(p, "lock")
          /\ UNCHANGED panic
    BY <1>2
  <2>2. mru[i] \in Bufs
    BY <2>1 DEF IInv, TypeOK
  <2>3. At(p, "idle") /\ Cached(b) = {} /\ UNCHANGED <<data, lock, mru, idequeue, device>>
    BY DEF BgetMiss
  <2> QED
    BY <2>1, <2>2, <2>3, BgetMissIInv
<1> QED
  BY <1>1, <1>2 DEF BgetMiss

LEMMA NextIInv == IInv /\ [Next]_vars => IInv'
<1> SUFFICES ASSUME IInv, [Next]_vars PROVE IInv'
  OBVIOUS
<1>1. CASE \E p \in Procs : Step(p)
  <2>1. PICK p \in Procs : Step(p)
    BY <1>1
  <2>2. CASE \E b \in Blocks : BgetHit(p, b)
    BY <2>2, BgetHitIInv DEF BgetHit
  <2>3. CASE \E b \in Blocks : BgetMiss(p, b)
    BY <2>3, BgetMissStepIInv
  <2>4. CASE \E v \in Vals : LogWrite(p, v) \/ Bwrite(p, v)
    BY <2>4, LogWriteIInv, BwriteIInv
  <2>5. CASE BgetLock(p) \/ Brelse(p) \/ BrelseUnref(p)
    BY <2>5, BgetLockIInv, BrelseIInv, BrelseUnrefIInv
  <2>6. CASE Iderw(p) \/ IderwReturn(p)
    BY <2>6, IderwIInv, IderwReturnIInv
  <2> QED
    BY <2>1, <2>2, <2>3, <2>4, <2>5, <2>6 DEF Step
<1>2. CASE Disk
  BY <1>2, DiskIInv
<1>3. CASE Ideintr
  BY <1>3, IdeintrIInv
<1>4. CASE Halted \/ UNCHANGED vars
  BY <1>4, StutterIInv DEF Halted
<1> QED
  BY <1>1, <1>2, <1>3, <1>4 DEF Next

LEMMA Invariance == Spec => []IInv
BY InitIInv, NextIInv, PTL DEF Spec

-----------------------------------------------------------------------------
(* Theorems *)

\* Every variable keeps its type, whatever the callers do and the disk answers.
THEOREM TypeCorrect == Spec => []TypeOK
<1>1. IInv => TypeOK
  BY DEF IInv
<1> QED
  BY <1>1, Invariance, PTL

\* When bwrite returns, the disk has the block, whether or not reads may fail and
\* however many requests are queued: the log may then write its header.
THEOREM BwriteWritesThrough == Spec => []WrittenThrough
<1>1. IInv => WrittenThrough
  BY DEF IInv, WrittenInv, WrittenThrough
<1> QED
  BY <1>1, Invariance, PTL

\* bget found no buffer that was neither referenced nor dirty, and the kernel has
\* stopped there.
PanicInv == panic => \A x \in Bufs : ~Unused(x)

LEMMA PanicStep == IInv /\ PanicInv /\ [Next]_vars => PanicInv'
<1> SUFFICES ASSUME IInv, PanicInv, [Next]_vars, panic' PROVE \A x \in Bufs : ~Unused(x)'
  BY DEF PanicInv
<1>1. CASE panic
  <2>1. UNCHANGED <<refcnt, flags>>
    BY <1>1 DEF Next, Step, BgetHit, BgetMiss, BgetLock, LogWrite, Bwrite, Brelse,
       BrelseUnref,
                Iderw, IderwReturn, Disk, Ideintr, Halted, At, vars
  <2> QED
    BY <1>1, <2>1 DEF PanicInv, Unused
<1>2. CASE ~panic
  <2>1. PICK p \in Procs, b \in Blocks : BgetMiss(p, b)
    BY <1>2 DEF Next, Step, BgetHit, BgetLock, LogWrite, Bwrite, Brelse, BrelseUnref,
       Iderw,
                IderwReturn, Disk, Ideintr, Halted, vars
  <2>2. (\A i \in 1..NBUF : ~Unused(mru[i])) /\ UNCHANGED <<refcnt, flags>>
    BY <1>2, <2>1 DEF BgetMiss
  <2>3. \A x \in Bufs : ~Unused(x)
    BY <2>2 DEF IInv, ListInv
  <2> QED
    BY <2>2, <2>3 DEF Unused
<1> QED
  BY <1>1, <1>2

\* bget panics only if every buffer is in a caller's hands or pinned by the log:
\* a hit, a recycling and a brelse, in whatever order, leave no reference behind.
THEOREM PanicsOnlyWhenFull == Spec => []PanicOnlyWhenFull
<1>1. Init => PanicInv
  BY DEF Init, PanicInv
<1>2. IInv /\ PanicInv => PanicOnlyWhenFull
  <2> SUFFICES ASSUME IInv, PanicInv, panic, NEW x \in Bufs
               PROVE  x \in Pinned \/ \E p \in Procs : x = buf[p]
    BY DEF PanicOnlyWhenFull
  <2>1. refcnt[x] # 0 \/ "DIRTY" \in flags[x]
    BY DEF PanicInv, Unused
  <2>2. CASE refcnt[x] # 0
    <3>1. Users(x) # {}
      BY <2>2, FS_EmptySet DEF IInv, CountInv
    <3> QED
      BY <3>1 DEF Users
  <2>3. CASE "DIRTY" \in flags[x] /\ x \in Range(idequeue)
    <3>1. PICK i \in 1..Len(idequeue) : idequeue[i] = x
      BY <2>3 DEF IInv, TypeOK, Range
    <3>2. lock[x] \in Procs /\ buf[lock[x]] = x
      BY <3>1 DEF IInv, TypeOK, QueuedInv, LockInv
    <3> QED
      BY <3>2
  <2>4. CASE "DIRTY" \in flags[x] /\ x \notin Range(idequeue)
    BY <2>4 DEF Pinned
  <2> QED
    BY <2>1, <2>2, <2>3, <2>4
<1> QED
  BY <1>1, <1>2, PanicStep, Invariance, PTL DEF Spec

-----------------------------------------------------------------------------
(* The cache implements BlockStore.  A disk that fails a read leaves the       *)
(* buffer marked valid (ideintr), so this is proved of a disk that does not.   *)

LEMMA HeldInside == Held \subseteq Inside
BY DEF Held, Inside, Labels

\* What Mem is: the flagged buffer of the block, else the disk.
MemFacts ==
    /\ \A x \in Bufs : flags[x] # {} => blockno[x] \in Blocks /\ Mem[blockno[x]] = data[x]
    /\ \A b \in Blocks : (\A x \in Bufs : blockno[x] = b => flags[x] = {}) => Mem[b] = disk[b]
    /\ Mem \in [Blocks -> Vals \cup {NoVal}]

LEMMA MemIs == IInv => MemFacts
<1> SUFFICES ASSUME IInv PROVE MemFacts
  OBVIOUS
<1>1. ASSUME NEW x \in Bufs, flags[x] # {} PROVE blockno[x] \in Blocks /\ Mem[blockno[x]] = data[x]
  <2>1. blockno[x] \in Blocks /\ \A y \in Cached(blockno[x]) : y = x
    BY <1>1 DEF IInv, NamedInv, OneBuffer, Cached
  <2>2. x \in Cached(blockno[x])
    BY DEF Cached
  <2>3. (CHOOSE y \in Cached(blockno[x]) : flags[y] # {}) = x
    BY <1>1, <2>1, <2>2
  <2> QED
    BY <1>1, <2>1, <2>2, <2>3 DEF Mem
<1>2. ASSUME NEW b \in Blocks, \A x \in Bufs : blockno[x] = b => flags[x] = {} PROVE Mem[b] = disk[b]
  BY <1>2 DEF Mem, Cached
<1>3. ASSUME NEW b \in Blocks PROVE Mem[b] \in Vals \cup {NoVal}
  <2>1. CASE \E x \in Bufs : blockno[x] = b /\ flags[x] # {}
    BY <2>1, <1>1 DEF IInv, TypeOK
  <2>2. CASE \A x \in Bufs : blockno[x] = b => flags[x] = {}
    BY <2>2, <1>2 DEF IInv, TypeOK
  <2> QED
    BY <2>1, <2>2
<1>4. Mem \in [Blocks -> Vals \cup {NoVal}]
  BY <1>3 DEF Mem
<1> QED
  BY <1>1, <1>2, <1>4 DEF MemFacts

LEMMA MemIsNext == IInv' => MemFacts'
BY MemIs, PTL

\* A holder has its block alone, and sees what the block holds.
LEMMA HolderAlone ==
  ASSUME IInv, NEW p \in Procs, pc[p] \in Held
  PROVE  /\ want[p] \in Blocks /\ buf[p] \in Bufs /\ blockno[buf[p]] = want[p]
         /\ Holders[want[p]] = {p} /\ flags[buf[p]] # {} /\ Mem[want[p]] = data[buf[p]]
<1>1. /\ want[p] \in Blocks /\ buf[p] \in Bufs /\ blockno[buf[p]] = want[p]
      /\ \A q \in Procs : pc[q] \in Held /\ want[q] = want[p] => q = p
  BY HeldInside, OneInside DEF IInv, OneBuffer
<1>2. Holders[want[p]] = {p}
  BY <1>1 DEF Holders
<1>3. flags[buf[p]] # {}
  BY DEF IInv, FlagsInv, FlagsAt, Held
<1> QED
  BY <1>1, <1>2, <1>3, MemIs DEF MemFacts

\* Steps that neither give nor take a block, nor change one
LEMMA SameHolders ==
  ASSUME \A q \in Procs : /\ pc'[q] \in Held <=> pc[q] \in Held
                          /\ pc[q] \in Held => want'[q] = want[q] /\ data'[buf'[q]] = data[buf[q]]
  PROVE  Holders' = Holders /\ Seen' = Seen
<1>1. \A b \in Blocks : {q \in Procs : pc'[q] \in Held /\ want'[q] = b}
                        = {q \in Procs : pc[q] \in Held /\ want[q] = b}
  OBVIOUS
<1>2. \A q \in Procs : (IF pc'[q] \in Held THEN data'[buf'[q]] ELSE NoVal)
                       = (IF pc[q] \in Held THEN data[buf[q]] ELSE NoVal)
  OBVIOUS
<1>3. Holders' = Holders
  BY <1>1 DEF Holders
<1>4. Seen' = Seen
  BY <1>2 DEF Seen
<1> QED
  BY <1>3, <1>4

LEMMA SameMem ==
  ASSUME blockno' = blockno, flags' = flags, data' = data, disk' = disk PROVE Mem' = Mem
BY DEF Mem, Cached

\* bread returns: p is given the block, alone.
LEMMA BreadReturns ==
  ASSUME IInv, NEW p \in Procs, pc[p] \notin Held, buf[p] \in Bufs, want[p] \in Blocks,
         blockno[buf[p]] = want[p], flags[buf[p]] # {},
         \A q \in Procs : pc[q] \in Inside /\ buf[q] = buf[p] => q = p,
         pc' = [pc EXCEPT ![p] = "held"],
         UNCHANGED <<blockno, flags, data, disk, want, buf>>
  PROVE  Store!Bread(p, want[p])
<1>1. \A q \in Procs : q # p /\ pc[q] \in Held => want[q] # want[p]
  BY HeldInside, OneInside DEF IInv, OneBuffer
<1>2. pc'[p] \in Held /\ \A q \in Procs : q # p => pc'[q] = pc[q]
  BY DEF IInv, TypeOK, Held
<1>3. Holders[want[p]] = {}
  BY <1>1 DEF Holders
<1>4. Holders' = [Holders EXCEPT ![want[p]] = {p}]
  <2>1. ASSUME NEW b \in Blocks
        PROVE  {q \in Procs : pc'[q] \in Held /\ want[q] = b}
               = IF b = want[p] THEN {p} ELSE {q \in Procs : pc[q] \in Held /\ want[q] = b}
    BY <1>1, <1>2
  <2> QED
    BY <2>1 DEF Holders
<1>5. Seen[p] = NoVal /\ Seen' = [Seen EXCEPT ![p] = data[buf[p]]]
  BY <1>2 DEF Seen
<1>6. Mem[want[p]] = data[buf[p]] /\ Mem' = Mem
  BY MemIs, SameMem DEF MemFacts
<1> QED
  BY <1>3, <1>4, <1>5, <1>6 DEF Store!Bread

\* log_write and bwrite: the holder changes the block.
LEMMA HolderModifies ==
  ASSUME IInv, IInv', NEW p \in Procs, NEW v \in Vals, NEW l \in Held, pc[p] \in Held,
         data' = [data EXCEPT ![buf[p]] = v],
         flags' = [flags EXCEPT ![buf[p]] = @ \cup {"DIRTY"}],
         pc' = [pc EXCEPT ![p] = l],
         UNCHANGED <<blockno, disk, want, buf>>
  PROVE  Store!Modify(p, want[p], v)
<1>1. /\ want[p] \in Blocks /\ buf[p] \in Bufs /\ blockno[buf[p]] = want[p]
      /\ p \in Holders[want[p]] /\ flags[buf[p]] # {}
  BY HolderAlone
<1>2. pc'[p] \in Held /\ \A q \in Procs : q # p => pc'[q] = pc[q]
  BY DEF IInv, TypeOK
<1>3. Holders' = Holders
  <2>1. \A q \in Procs : pc'[q] \in Held <=> pc[q] \in Held
    BY <1>2
  <2>2. \A b \in Blocks : {q \in Procs : pc'[q] \in Held /\ want'[q] = b}
                          = {q \in Procs : pc[q] \in Held /\ want[q] = b}
    BY <2>1
  <2> QED
    BY <2>2 DEF Holders
<1>4. Seen' = [Seen EXCEPT ![p] = v]
  <2>1. data'[buf[p]] = v
    BY <1>1 DEF IInv, TypeOK
  <2>2. ASSUME NEW q \in Procs, q # p, pc[q] \in Held PROVE data'[buf[q]] = data[buf[q]]
    BY <2>2, HeldInside, OneInside DEF IInv, TypeOK
  <2>3. \A q \in Procs : (IF pc'[q] \in Held THEN data'[buf[q]] ELSE NoVal)
                         = IF q = p THEN v ELSE IF pc[q] \in Held THEN data[buf[q]] ELSE NoVal
    BY <1>2, <2>1, <2>2
  <2> QED
    BY <2>3 DEF Seen
<1>5. Mem' = [Mem EXCEPT ![want[p]] = v]
  <2>1. ASSUME NEW b \in Blocks PROVE Mem'[b] = IF b = want[p] THEN v ELSE Mem[b]
    <3>1. CASE b = want[p]
      <4>1. flags'[buf[p]] # {} /\ data'[buf[p]] = v
        BY <1>1 DEF IInv, TypeOK
      <4> QED
        BY <3>1, <4>1, <1>1, MemIsNext DEF MemFacts
    <3>2. CASE b # want[p] /\ \E x \in Bufs : blockno[x] = b /\ flags[x] # {}
      <4>1. PICK x \in Bufs : blockno[x] = b /\ flags[x] # {}
        BY <3>2
      <4>2. x # buf[p] /\ flags'[x] = flags[x] /\ data'[x] = data[x]
        BY <3>2, <4>1, <1>1 DEF IInv, TypeOK
      <4> QED
        BY <3>2, <4>1, <4>2, MemIs, MemIsNext DEF MemFacts
    <3>3. CASE b # want[p] /\ \A x \in Bufs : blockno[x] = b => flags[x] = {}
      <4>1. \A x \in Bufs : blockno[x] = b => flags'[x] = {}
        BY <3>3, <1>1 DEF IInv, TypeOK
      <4> QED
        BY <3>3, <4>1, MemIs, MemIsNext DEF MemFacts
    <3> QED
      BY <3>1, <3>2, <3>3
  <2> QED
    BY <2>1, MemIs, MemIsNext DEF MemFacts
<1> QED
  BY <1>1, <1>3, <1>4, <1>5 DEF Store!Modify

\* brelse's releasesleep
LEMMA HolderReleases ==
  ASSUME IInv, NEW p \in Procs, pc[p] \in Held, pc' = [pc EXCEPT ![p] = "unref"],
         UNCHANGED <<blockno, flags, data, disk, want, buf>>
  PROVE  Store!Brelse(p, want[p])
<1>1. want[p] \in Blocks /\ Holders[want[p]] = {p}
  BY HolderAlone
<1>2. pc'[p] \notin Held /\ \A q \in Procs : q # p => pc'[q] = pc[q]
  BY DEF IInv, TypeOK, Held
<1>3. Holders' = [Holders EXCEPT ![want[p]] = {}]
  <2>1. ASSUME NEW b \in Blocks
        PROVE  {q \in Procs : pc'[q] \in Held /\ want'[q] = b}
               = IF b = want[p] THEN {} ELSE {q \in Procs : pc[q] \in Held /\ want[q] = b}
    BY <1>1, <1>2 DEF Holders
  <2> QED
    BY <2>1 DEF Holders
<1>4. Seen' = [Seen EXCEPT ![p] = NoVal]
  BY <1>2 DEF Seen
<1>5. Mem' = Mem
  BY SameMem
<1> QED
  BY <1>1, <1>3, <1>4, <1>5 DEF Store!Brelse

\* The disk writes a block: its buffer's holder waits in bwrite.
LEMMA DiskWrites ==
  ASSUME IInv, IInv', Disk, active.write
  PROVE  \E p \in Procs, b \in Blocks : Store!Bwrite(p, b)
<1> DEFINE x == Head(idequeue)
           p == lock[x]
<1>1. idequeue # <<>> /\ ~irq
  BY DEF IInv, QuietInv, Disk
<1>2. /\ x \in Bufs /\ p \in Procs /\ buf[p] = x /\ pc[p] \in {"reading", "writing"}
      /\ active = Request(x)
  BY <1>1, HeadQueued DEF IInv, LockInv, ActiveInv
<1> HIDE DEF x, p
<1>3. "DIRTY" \in flags[x] /\ active.block = blockno[x] /\ active.data = data[x]
  <2>1. active.write = ("DIRTY" \in flags[x]) /\ active.block = blockno[x]
    BY <1>2 DEF Request
  <2> QED
    BY <2>1, <1>2 DEF Request
<1>4. pc[p] \in Held
  BY <1>2, <1>3 DEF IInv, FlagsInv, FlagsAt, Held
<1>5. /\ want[p] \in Blocks /\ blockno[x] = want[p] /\ p \in Holders[want[p]]
      /\ Mem[want[p]] = data[x]
  BY <1>2, <1>4, HolderAlone
<1>6. /\ disk' = [disk EXCEPT ![want[p]] = Mem[want[p]]]
      /\ UNCHANGED <<blockno, flags, data, pc, want, buf>>
  BY <1>3, <1>5 DEF Disk, bcache, caller
<1>7. Holders' = Holders /\ Seen' = Seen
  BY <1>6, SameHolders
<1>8. Mem' = Mem
  <2>1. ASSUME NEW b \in Blocks PROVE Mem'[b] = Mem[b]
    <3>1. CASE \E y \in Bufs : blockno[y] = b /\ flags[y] # {}
      BY <3>1, <1>6, MemIs, MemIsNext DEF MemFacts
    <3>2. CASE \A y \in Bufs : blockno[y] = b => flags[y] = {}
      <4>1. b # want[p]
        BY <3>2, <1>2, <1>3, <1>5
      <4>2. disk'[b] = disk[b]
        BY <4>1, <1>5, <1>6 DEF IInv, TypeOK
      <4> QED
        BY <3>2, <4>2, <1>6, MemIs, MemIsNext DEF MemFacts
    <3> QED
      BY <3>1, <3>2
  <2> QED
    BY <2>1, MemIs, MemIsNext DEF MemFacts
<1>9. Store!Bwrite(p, want[p])
  BY <1>5, <1>6, <1>7, <1>8 DEF Store!Bwrite
<1> QED
  BY <1>2, <1>5, <1>9

\* bget recycles a buffer: what was in it is on the disk.
LEMMA RecycleKeepsMem ==
  ASSUME IInv, IInv', CleanInv, NEW x \in Bufs, NEW b \in Blocks, Cached(b) = {}, Unused(x),
         blockno' = [blockno EXCEPT ![x] = b], flags' = [flags EXCEPT ![x] = {}],
         data' = data, disk' = disk
  PROVE  Mem' = Mem
<1>1. \A y \in Bufs : y # x => blockno'[y] = blockno[y] /\ flags'[y] = flags[y]
  BY DEF IInv, TypeOK
<1>2. blockno'[x] = b /\ flags'[x] = {} /\ \A y \in Bufs : blockno[y] # b
  BY DEF IInv, TypeOK, Cached
<1>3. flags[x] = {} \/ flags[x] = {"VALID"}
  <2>1. flags[x] \in SUBSET {"VALID", "DIRTY"} /\ "DIRTY" \notin flags[x]
    BY DEF IInv, TypeOK, Unused
  <2>2. \A e \in flags[x] : e = "VALID"
    BY <2>1
  <2> QED
    BY <2>2
<1>4. ASSUME NEW c \in Blocks PROVE Mem'[c] = Mem[c]
  <2>1. CASE \E y \in Bufs : y # x /\ blockno[y] = c /\ flags[y] # {}
    BY <2>1, <1>1, MemIs, MemIsNext DEF MemFacts
  <2>2. CASE \A y \in Bufs : y # x /\ blockno[y] = c => flags[y] = {}
    <3>1. Mem'[c] = disk[c]
      BY <2>2, <1>1, <1>2, MemIsNext DEF MemFacts
    <3>2. CASE blockno[x] = c /\ flags[x] # {}
      BY <3>1, <3>2, <1>3, MemIs DEF MemFacts, CleanInv
    <3>3. CASE ~(blockno[x] = c /\ flags[x] # {})
      BY <2>2, <3>1, <3>3, MemIs DEF MemFacts
    <3> QED
      BY <3>2, <3>3
  <2> QED
    BY <2>1, <2>2
<1> QED
  BY <1>4, MemIs, MemIsNext DEF MemFacts

\* The interrupt: what a read has brought in is what is on the disk, and what a
\* write has written is what the buffer holds.
LEMMA InterruptKeepsStore ==
  ASSUME Errors = {FALSE}, IInv, IInv', Ideintr
  PROVE  Mem' = Mem /\ Holders' = Holders /\ Seen' = Seen
<1> DEFINE x == Head(idequeue)
           h == lock[x]
<1>1. idequeue # <<>> /\ irq
  BY DEF IInv, QuietInv, Ideintr
<1>2. /\ x \in Bufs /\ h \in Procs /\ buf[h] = x /\ pc[h] \in {"reading", "writing"}
      /\ blockno[x] \in Blocks
  BY <1>1, HeadQueued DEF IInv, LockInv, NameInv
<1>3. active.data = disk[blockno[x]] /\ ("DIRTY" \in flags[x] => disk[blockno[x]] = data[x])
  BY <1>1 DEF IInv, DoneInv
<1>4. \A q \in Procs : pc[q] \in Inside /\ buf[q] = x => q = h
  BY <1>2, OneInside DEF IInv, Inside, Labels
<1>5. /\ data' = [data EXCEPT ![x] = IF "DIRTY" \in flags[x] THEN @ ELSE active.data]
      /\ flags' = [flags EXCEPT ![x] = {"VALID"}]
      /\ UNCHANGED <<blockno, disk, want, buf>>
  BY DEF Ideintr, bcache
<1>6. \A q \in Procs : pc'[q] = IF pc[q] \in DOMAIN Awake /\ buf[q] = x
                                THEN Awake[pc[q]] ELSE pc[q]
  BY DEF Ideintr
<1> HIDE DEF x, h
<1>7. /\ data'[x] = disk[blockno[x]] /\ flags'[x] # {}
      /\ "DIRTY" \in flags[x] => data'[x] = data[x]
      /\ \A y \in Bufs : y # x => data'[y] = data[y] /\ flags'[y] = flags[y]
  BY <1>2, <1>3, <1>5 DEF IInv, TypeOK
<1>8. IF pc[h] = "writing" THEN "DIRTY" \in flags[x] ELSE flags[x] = {}
  BY <1>2 DEF IInv, FlagsInv, FlagsAt
<1>9. Holders' = Holders /\ Seen' = Seen
  <2>1. ASSUME NEW q \in Procs
        PROVE  /\ pc'[q] \in Held <=> pc[q] \in Held
               /\ pc[q] \in Held => want'[q] = want[q] /\ data'[buf'[q]] = data[buf[q]]
    <3>1. pc'[q] \in Held <=> pc[q] \in Held
      BY <1>6, Tables DEF Held
    <3>2. CASE pc[q] \in Held /\ buf[q] = x
      <4>1. q = h
        BY <3>2, <1>4, HeldInside
      <4> QED
        BY <3>1, <3>2, <4>1, <1>2, <1>5, <1>7, <1>8 DEF Held
    <3>3. CASE pc[q] \in Held /\ buf[q] # x
      BY <3>1, <3>3, <1>5, <1>7, HolderAlone
    <3> QED
      BY <3>1, <3>2, <3>3
  <2> QED
    BY <2>1, SameHolders
<1>10. ASSUME NEW c \in Blocks PROVE Mem'[c] = Mem[c]
  <2>1. CASE c = blockno[x]
    <3>1. Mem'[c] = data'[x]
      BY <2>1, <1>2, <1>5, <1>7, MemIsNext DEF MemFacts
    <3>2. CASE flags[x] # {}
      BY <2>1, <3>1, <3>2, <1>2, <1>7, <1>8, MemIs DEF MemFacts
    <3>3. CASE flags[x] = {}
      <4>1. \A y \in Bufs : blockno[y] = c => flags[y] = {}
        BY <2>1, <3>3, <1>2 DEF IInv, OneBuffer
      <4> QED
        BY <2>1, <3>1, <4>1, <1>7, MemIs DEF MemFacts
    <3> QED
      BY <3>2, <3>3
  <2>2. CASE c # blockno[x] /\ \E y \in Bufs : blockno[y] = c /\ flags[y] # {}
    BY <2>2, <1>5, <1>7, MemIs, MemIsNext DEF MemFacts
  <2>3. CASE c # blockno[x] /\ \A y \in Bufs : blockno[y] = c => flags[y] = {}
    BY <2>3, <1>5, <1>7, MemIs, MemIsNext DEF MemFacts
  <2> QED
    BY <2>1, <2>2, <2>3
<1>11. Mem' = Mem
  BY <1>10, MemIs, MemIsNext DEF MemFacts
<1> QED
  BY <1>9, <1>11

\* CleanInv is an invariant.
LEMMA CleanStep ==
  Errors = {FALSE} /\ IInv /\ CleanInv /\ [Next]_vars => CleanInv'
<1> SUFFICES ASSUME Errors = {FALSE}, IInv, CleanInv, [Next]_vars PROVE CleanInv'
  OBVIOUS
<1>1. CASE UNCHANGED <<blockno, flags, data, disk>>
  BY <1>1 DEF CleanInv
<1>2. CASE \E p \in Procs, b \in Blocks : BgetMiss(p, b)
  <2>1. PICK p \in Procs, b \in Blocks : BgetMiss(p, b)
    BY <1>2
  <2>2. CASE UNCHANGED <<blockno, flags>>
    BY <2>1, <2>2 DEF BgetMiss, CleanInv, device
  <2>3. CASE ~UNCHANGED <<blockno, flags>>
    <3>1. PICK i \in 1..NBUF : /\ blockno' = [blockno EXCEPT ![mru[i]] = b]
                               /\ flags' = [flags EXCEPT ![mru[i]] = {}]
      BY <2>1, <2>3 DEF BgetMiss
    <3>2. data' = data /\ disk' = disk
      BY <2>1 DEF BgetMiss, device
    <3> QED
      BY <3>1, <3>2 DEF CleanInv, IInv, TypeOK
  <2> QED
    BY <2>2, <2>3
<1>3. CASE \E p \in Procs, v \in Vals : LogWrite(p, v) \/ Bwrite(p, v)
  <2>1. PICK p \in Procs, v \in Vals : LogWrite(p, v) \/ Bwrite(p, v)
    BY <1>3
  <2>2. /\ data' = [data EXCEPT ![buf[p]] = v]
        /\ flags' = [flags EXCEPT ![buf[p]] = @ \cup {"DIRTY"}]
        /\ UNCHANGED <<blockno, disk>>
    BY <2>1 DEF LogWrite, Bwrite, bcache, device
  <2>3. ASSUME NEW x \in Bufs, flags'[x] = {"VALID"}
        PROVE  flags[x] = {"VALID"} /\ data'[x] = data[x]
    <3>1. x = buf[p] => "DIRTY" \in flags'[x]
      BY <2>2 DEF IInv, TypeOK
    <3>2. x # buf[p]
      BY <2>3, <3>1
    <3> QED
      BY <2>2, <2>3, <3>2 DEF IInv, TypeOK
  <2> QED
    BY <2>2, <2>3 DEF CleanInv
<1>4. CASE Disk
  <2>1. CASE disk' = disk
    BY <1>4, <2>1 DEF Disk, CleanInv, bcache
  <2>2. CASE disk' # disk
    <3> DEFINE x == Head(idequeue)
    <3>1. active.write /\ disk' = [disk EXCEPT ![active.block] = active.data]
      BY <1>4, <2>2 DEF Disk
    <3>2. idequeue # <<>> /\ ~irq
      BY <1>4 DEF IInv, QuietInv, Disk
    <3>3. x \in Bufs /\ active = Request(x)
      BY <3>2, HeadQueued DEF IInv, ActiveInv
    <3> HIDE DEF x
    <3>4. "DIRTY" \in flags[x] /\ active.block = blockno[x]
      <4>1. active.write = ("DIRTY" \in flags[x]) /\ active.block = blockno[x]
        BY <3>3 DEF Request
      <4> QED
        BY <4>1, <3>1
    <3>5. ASSUME NEW y \in Bufs, flags[y] = {"VALID"} PROVE disk'[blockno[y]] = disk[blockno[y]]
      <4>1. y # x /\ blockno[y] \in Blocks /\ blockno[x] \in Blocks
        BY <3>3, <3>4, <3>5 DEF IInv, NamedInv
      <4>2. blockno[y] # blockno[x]
        BY <4>1, <3>3 DEF IInv, OneBuffer
      <4> QED
        BY <4>1, <4>2, <3>1, <3>4 DEF IInv, TypeOK
    <3>6. UNCHANGED <<blockno, flags, data>>
      BY <1>4 DEF Disk, bcache
    <3> QED
      BY <3>5, <3>6 DEF CleanInv
  <2> QED
    BY <2>1, <2>2
<1>5. CASE Ideintr
  <2> DEFINE x == Head(idequeue)
  <2>1. idequeue # <<>> /\ irq
    BY <1>5 DEF IInv, QuietInv, Ideintr
  <2>2. x \in Bufs
    BY <2>1, HeadQueued DEF IInv
  <2>3. active.data = disk[blockno[x]] /\ ("DIRTY" \in flags[x] => disk[blockno[x]] = data[x])
    BY <2>1 DEF IInv, DoneInv
  <2>4. /\ data' = [data EXCEPT ![x] = IF "DIRTY" \in flags[x] THEN @ ELSE active.data]
        /\ flags' = [flags EXCEPT ![x] = {"VALID"}]
        /\ UNCHANGED <<blockno, disk>>
    BY <1>5 DEF Ideintr, bcache
  <2> HIDE DEF x
  <2>5. data'[x] = disk[blockno[x]]
    BY <2>2, <2>3, <2>4 DEF IInv, TypeOK
  <2>6. \A y \in Bufs : y # x => data'[y] = data[y] /\ flags'[y] = flags[y]
    BY <2>4 DEF IInv, TypeOK
  <2> QED
    BY <2>4, <2>5, <2>6 DEF CleanInv
<1> QED
  BY <1>1, <1>2, <1>3, <1>4, <1>5 DEF Next, Step, BgetHit, BgetLock, Brelse,
     BrelseUnref, Iderw,
      IderwReturn, Halted, vars, bcache, device, caller

\* Each step is one of BlockStore's, or changes nothing that it shows.
LEMMA StepSimulates ==
  Errors = {FALSE} /\ IInv /\ IInv' /\ CleanInv /\ [Next]_vars => [Store!Next]_(Store!vars)
<1> SUFFICES ASSUME Errors = {FALSE}, IInv, IInv', CleanInv, [Next]_vars
             PROVE  Store!Next \/ UNCHANGED <<Holders, Mem, Seen, disk>>
  BY DEF Store!vars
<1>1. CASE \E p \in Procs : Step(p)
  <2>1. PICK p \in Procs : Step(p)
    BY <1>1
  <2>2. CASE \E b \in Blocks : BgetHit(p, b) \/ BgetMiss(p, b)
    <3>1. PICK b \in Blocks : BgetHit(p, b) \/ BgetMiss(p, b)
      BY <2>2
    <3>2. /\ pc[p] = "idle" /\ data' = data /\ disk' = disk
          /\ \/ UNCHANGED <<pc, want, buf>>
             \/ \E x \in Bufs : /\ pc' = [pc EXCEPT ![p] = "lock"]
                                /\ want' = [want EXCEPT ![p] = b] /\ buf' = [buf EXCEPT ![p] = x]
      BY <3>1 DEF BgetHit, BgetMiss, Cached, At, Goto, device, IInv, TypeOK
    <3>3. Holders' = Holders /\ Seen' = Seen
      <4>1. \A q \in Procs : q # p => pc'[q] = pc[q] /\ want'[q] = want[q] /\ buf'[q] = buf[q]
        BY <3>2 DEF IInv, TypeOK
      <4>2. pc[p] \notin Held /\ pc'[p] \notin Held
        BY <3>2 DEF IInv, TypeOK, Held
      <4> QED
        BY <3>2, <4>1, <4>2, SameHolders
    <3>4. Mem' = Mem
      <4>1. CASE UNCHANGED <<blockno, flags>>
        BY <3>2, <4>1, SameMem
      <4>2. CASE ~UNCHANGED <<blockno, flags>>
        <5>1. BgetMiss(p, b)
          BY <3>1, <4>2 DEF BgetHit
        <5>2. PICK i \in 1..NBUF : /\ Unused(mru[i])
                                   /\ blockno' = [blockno EXCEPT ![mru[i]] = b]
                                   /\ flags' = [flags EXCEPT ![mru[i]] = {}]
          BY <5>1, <4>2 DEF BgetMiss
        <5>3. mru[i] \in Bufs /\ Cached(b) = {}
          BY <5>1 DEF IInv, TypeOK, BgetMiss
        <5> QED
          BY <3>2, <5>2, <5>3, RecycleKeepsMem
      <4> QED
        BY <4>1, <4>2
    <3> QED
      BY <3>2, <3>3, <3>4
  <2>3. CASE \E v \in Vals : LogWrite(p, v) \/ Bwrite(p, v)
    <3>1. PICK v \in Vals : LogWrite(p, v) \/ Bwrite(p, v)
      BY <2>3
    <3>2. PICK l \in Held : pc' = [pc EXCEPT ![p] = l]
      BY <3>1 DEF LogWrite, Bwrite, Goto, Held
    <3>3. /\ pc[p] \in Held /\ data' = [data EXCEPT ![buf[p]] = v]
          /\ flags' = [flags EXCEPT ![buf[p]] = @ \cup {"DIRTY"}]
          /\ UNCHANGED <<blockno, disk, want, buf>>
      BY <3>1 DEF LogWrite, Bwrite, At, Held, bcache, device
    <3>4. Store!Modify(p, want[p], v)
      BY <3>2, <3>3, HolderModifies
    <3> QED
      BY <3>3, <3>4, HolderAlone DEF Store!Next
  <2>4. CASE BgetLock(p)
    <3>1. /\ pc[p] = "lock" /\ lock[buf[p]] = NoProc
          /\ pc' = [pc EXCEPT ![p] = IF "VALID" \in flags[buf[p]] THEN "held" ELSE "bread"]
          /\ UNCHANGED <<blockno, flags, data, disk, want, buf>>
      BY <2>4 DEF BgetLock, At, Goto, bcache, device
    <3>2. buf[p] \in Bufs /\ want[p] \in Blocks /\ blockno[buf[p]] = want[p] /\ pc[p] \notin Held
      BY <3>1, HasBuffer DEF IInv, Held
    <3>3. CASE "VALID" \in flags[buf[p]]
      <4>1. \A q \in Procs : pc[q] \in Inside => buf[q] # buf[p]
        BY <3>1, OneInside DEF IInv
      <4>2. Store!Bread(p, want[p])
        BY <3>1, <3>2, <3>3, <4>1, BreadReturns
      <4> QED
        BY <3>2, <4>2 DEF Store!Next
    <3>4. CASE "VALID" \notin flags[buf[p]]
      <4>1. \A q \in Procs : pc'[q] = IF q = p THEN "bread" ELSE pc[q]
        BY <3>1, <3>4 DEF IInv, TypeOK
      <4>2. \A q \in Procs : pc'[q] \in Held <=> pc[q] \in Held
        BY <3>1, <4>1 DEF Held
      <4> QED
        BY <3>1, <4>2, SameHolders, SameMem
    <3> QED
      BY <3>3, <3>4
  <2>5. CASE Brelse(p)
    <3>1. /\ pc[p] \in Held /\ pc' = [pc EXCEPT ![p] = "unref"]
          /\ UNCHANGED <<blockno, flags, data, disk, want, buf>>
      BY <2>5 DEF Brelse, At, Goto, Held, bcache, device
    <3> QED
      BY <3>1, HolderReleases, HolderAlone DEF Store!Next
  <2>6. CASE BrelseUnref(p)
    <3>1. /\ pc[p] = "unref" /\ pc' = [pc EXCEPT ![p] = "idle"]
          /\ want' = [want EXCEPT ![p] = NoBlock] /\ buf' = [buf EXCEPT ![p] = NoBuf]
          /\ UNCHANGED <<blockno, flags, data, disk>>
      BY <2>6 DEF BrelseUnref, At, Goto, device
    <3>2. \A q \in Procs : q # p => pc'[q] = pc[q] /\ want'[q] = want[q] /\ buf'[q] = buf[q]
      BY <3>1 DEF IInv, TypeOK
    <3>3. pc[p] \notin Held /\ pc'[p] \notin Held
      BY <3>1 DEF IInv, TypeOK, Held
    <3> QED
      BY <3>1, <3>2, <3>3, SameHolders, SameMem
  <2>7. CASE Iderw(p)
    <3>1. /\ pc[p] \in {"bread", "bwrite"}
          /\ pc' = [pc EXCEPT ![p] = IF pc[p] = "bread" THEN "reading" ELSE "writing"]
          /\ UNCHANGED <<blockno, flags, data, disk, want, buf>>
      BY <2>7, Tables DEF Iderw, Goto, bcache
    <3>2. \A q \in Procs : pc'[q] \in Held <=> pc[q] \in Held
      BY <3>1 DEF IInv, TypeOK, Held
    <3> QED
      BY <3>1, <3>2, SameHolders, SameMem
  <2>8. CASE IderwReturn(p)
    <3>1. /\ pc[p] \in {"read", "wrote"} /\ flags[buf[p]] = {"VALID"}
          /\ pc' = [pc EXCEPT ![p] = IF pc[p] = "read" THEN "held" ELSE "written"]
          /\ UNCHANGED <<blockno, flags, data, disk, want, buf>>
      BY <2>8, Tables DEF IderwReturn, Goto, bcache, device
    <3>2. CASE pc[p] = "read"
      <4>1. /\ pc[p] \notin Held /\ pc[p] \in Inside /\ flags[buf[p]] # {}
            /\ pc' = [pc EXCEPT ![p] = "held"]
        BY <3>1, <3>2 DEF Held, Inside, Labels
      <4>2. /\ buf[p] \in Bufs /\ want[p] \in Blocks /\ blockno[buf[p]] = want[p]
            /\ \A q \in Procs : pc[q] \in Inside /\ buf[q] = buf[p] => q = p
        BY <4>1, OneInside DEF IInv
      <4>3. Store!Bread(p, want[p])
        BY <3>1, <4>1, <4>2, BreadReturns
      <4> QED
        BY <4>2, <4>3 DEF Store!Next
    <3>3. CASE pc[p] = "wrote"
      <4>1. \A q \in Procs : pc'[q] \in Held <=> pc[q] \in Held
        BY <3>1, <3>3 DEF IInv, TypeOK, Held
      <4> QED
        BY <3>1, <4>1, SameHolders, SameMem
    <3> QED
      BY <3>1, <3>2, <3>3
  <2> QED
    BY <2>1, <2>2, <2>3, <2>4, <2>5, <2>6, <2>7, <2>8 DEF Step
<1>2. CASE Disk
  <2>1. CASE active.write
    BY <1>2, <2>1, DiskWrites DEF Store!Next
  <2>2. CASE ~active.write
    <3>1. UNCHANGED <<blockno, flags, data, disk, pc, want, buf>>
      BY <1>2, <2>2 DEF Disk, bcache, caller
    <3> QED
      BY <3>1, SameHolders, SameMem
  <2> QED
    BY <2>1, <2>2
<1>3. CASE Ideintr
  BY <1>3, InterruptKeepsStore DEF Ideintr
<1>4. CASE Halted \/ UNCHANGED vars
  <2>1. UNCHANGED <<blockno, flags, data, disk, pc, want, buf>>
    BY <1>4 DEF Halted, vars, device, caller
  <2> QED
    BY <2>1, SameHolders, SameMem
<1> QED
  BY <1>1, <1>2, <1>3, <1>4 DEF Next

\* bget, the sleep-lock, the recycling and the driver's queue give each block to
\* one caller at a time, with what the last one left in it, and change the disk only
\* by writing what a holder's block holds, if the disk does not fail a read.
THEOREM Refinement == ASSUME Errors = {FALSE} PROVE Spec => ImplementsBlockStore
<1>1. Init => CleanInv
  BY DEF Init, CleanInv
<1>2. Init => Store!Init
  <2> SUFFICES ASSUME Init PROVE Store!Init
    OBVIOUS
  <2>1. \A b \in Blocks : {p \in Procs : pc[p] \in Held /\ want[p] = b} = {}
    BY DEF Init, Held
  <2>2. Holders = [b \in Blocks |-> {}]
    BY <2>1 DEF Holders
  <2>3. Seen = [p \in Procs |-> NoVal]
    BY DEF Seen, Init, Held
  <2>4. Mem = disk /\ disk \in [Blocks -> Vals]
    <3>1. \A b \in Blocks : Mem[b] = disk[b]
      BY DEF Mem, Cached, Init
    <3>2. Mem = [b \in Blocks |-> Mem[b]]
      BY DEF Mem
    <3> QED
      BY <3>1, <3>2 DEF Init
  <2> QED
    BY <2>2, <2>3, <2>4 DEF Store!Init
<1>3. IInv /\ IInv' /\ CleanInv /\ [Next]_vars => CleanInv' /\ [Store!Next]_(Store!vars)
  BY CleanStep, StepSimulates
<1> QED
  BY <1>1, <1>2, <1>3, Invariance, PTL DEF Spec, ImplementsBlockStore, Store!Spec

=============================================================================
