-------------------------- MODULE Sleepers_proofs --------------------------
(***************************************************************************)
(* Proofs about the two places of the file system where a process sleeps:  *)
(* the sleep-lock, down to its spinlocks, and the log, in whose begin_op a *)
(* call waits for room.                                                    *)
(*                                                                         *)
(* SleepLock, for any number of processes and CPUs: type correctness,      *)
(* mutual exclusion, no lost wakeup, no spinlock held off the CPU, and     *)
(* that the sleep-lock implements the abstract mutex.                      *)
(*                                                                         *)
(* Log, with any number of calls, blocks and sizes: IInv adds to TypeOK    *)
(* that the log never names a block twice (Names); that the blocks logged  *)
(* and the blocks still reserved fit in the log (Reserved); who may run in *)
(* which phase (Phased); and which copies of a block agree in which phase  *)
(* (Copies).                                                               *)
(***************************************************************************)
EXTENDS Log, SleepLock, FiniteSetTheorems, TLAPS

-----------------------------------------------------------------------------
(* The sleep-lock *)

\* Labels at which p holds lk->lk, and at which it holds ptable.lock.
LkLabels == {"a_test", "s_spin", "s_rel", "h_test", "r_clear", "w_spin", "w_wake", "r_rel"}
PtLabels == {"s_rel", "s_set", "w_wake"}

\* Each spinlock is held exactly where the program counters say.
SpinlocksInv == /\ \A p \in Procs : lk = p <=> place[p] \in LkLabels
                /\ \A p \in Procs : place[p] \in PtLabels => ptlock = p
                /\ \A p \in Procs : ptlock = p =>
                       \/ place[p] \in PtLabels
                       \/ state[p] = "RUNNING" /\ place[p] \in Preemptible \cup {"s_sched"}

\* A process leaves the CPU in sched() only: asleep, or after yield().
OnCpuInv == \A p \in Procs :
    /\ state[p] # "RUNNING" => place[p] \in Preemptible \cup {"s_sched"}
    /\ state[p] = "SLEEPING" => place[p] = "s_sched" /\ chan[p]
    /\ state[p] = "RUNNING" /\ place[p] = "s_sched" => ptlock = p

\* lk->locked and lk->pid say who is between acquiresleep and releasesleep.
OwnerInv == /\ \A p \in Procs : Holds(p) <=> owner = p
            /\ locked <=> owner # None
            /\ \A p \in Procs : place[p] # "panic"

\* A process that has seen lk->locked set goes to sleep only while the lock is
\* still held or its releaser has yet to run wakeup1.
SleepInv == /\ \A p \in Procs : place[p] \in {"s_spin", "s_rel"} => locked
            /\ \A p \in Procs : place[p] = "s_set" \/ state[p] = "SLEEPING" =>
                   locked \/ \E q \in Procs : place[q] \in {"w_spin", "w_wake"}

\* The inductive invariant.
LockInv == LockTypeOK /\ SpinlocksInv /\ OnCpuInv /\ OwnerInv /\ SleepInv

LEMMA InitLockInv == LockInit => LockInv
  BY ProcsAssumption
  DEF LockInit, LockInv, LockTypeOK, SpinlocksInv, OnCpuInv, OwnerInv, SleepInv, Labels,
      LkLabels, PtLabels, Preemptible, Holds

LEMMA NextLockInv == LockInv /\ [LockNext]_lockVars => LockInv'
<1> SUFFICES ASSUME LockInv, [LockNext]_lockVars PROVE LockInv'
  OBVIOUS
<1> USE ProcsAssumption DEF LockInv, LockTypeOK, SpinlocksInv, OnCpuInv, OwnerInv, SleepInv,
                            Holds, Goto, At, Labels, LkLabels, PtLabels, Preemptible
<1>1. ASSUME NEW p \in Procs, AcquireCall(p) PROVE LockInv'
  BY <1>1 DEF AcquireCall
<1>2. ASSUME NEW p \in Procs, AcquireSpin(p) PROVE LockInv'
  BY <1>2 DEF TakeLk, AcquireSpin
<1>3. ASSUME NEW p \in Procs, AcquireGet(p) PROVE LockInv'
  BY <1>3 DEF AcquireGet
<1>4. ASSUME NEW p \in Procs, AcquireBusy(p) PROVE LockInv'
  BY <1>4 DEF AcquireBusy
<1>5. ASSUME NEW p \in Procs, SleepSpin(p) PROVE LockInv'
  BY <1>5 DEF TakePtable, SleepSpin
<1>6. ASSUME NEW p \in Procs, SleepRelease(p) PROVE LockInv'
  BY <1>6 DEF SleepRelease
<1>7. ASSUME NEW p \in Procs, SleepSched(p) PROVE LockInv'
  BY <1>7 DEF SleepSched
<1>8. ASSUME NEW p \in Procs, SleepReturn(p) PROVE LockInv'
  BY <1>8 DEF SleepReturn
<1>9. ASSUME NEW p \in Procs, SleepReacquire(p) PROVE LockInv'
  BY <1>9 DEF SleepReacquire
<1>10. ASSUME NEW p \in Procs, ReleaseCall(p) PROVE LockInv'
  BY <1>10 DEF ReleaseCall
<1>11. ASSUME NEW p \in Procs, HoldingSpin(p) PROVE LockInv'
  BY <1>11 DEF TakeLk, HoldingSpin
<1>12. ASSUME NEW p \in Procs, HoldingTest(p) PROVE LockInv'
  BY <1>12 DEF HoldingTest
<1>13. ASSUME NEW p \in Procs, ReleaseSpin(p) PROVE LockInv'
  BY <1>13 DEF TakeLk, ReleaseSpin
<1>14. ASSUME NEW p \in Procs, ReleaseClear(p) PROVE LockInv'
  <2>1. LockTypeOK'
    BY <1>14 DEF ReleaseClear
  <2>2. SpinlocksInv'
    BY <1>14 DEF ReleaseClear
  <2>3. OnCpuInv'
    BY <1>14 DEF ReleaseClear
  <2>4. OwnerInv'
    BY <1>14 DEF ReleaseClear
  <2>5. place'[p] = "w_spin"
    BY <1>14 DEF ReleaseClear
  <2>6. \A q \in Procs : place'[q] \notin {"s_spin", "s_rel"}
    BY <1>14 DEF ReleaseClear
  <2> QED
    BY <2>1, <2>2, <2>3, <2>4, <2>5, <2>6
<1>15. ASSUME NEW p \in Procs, WakeupSpin(p) PROVE LockInv'
  BY <1>15 DEF TakePtable, WakeupSpin
<1>16. ASSUME NEW p \in Procs, WakeupAll(p) PROVE LockInv'
  BY <1>16 DEF Wakeup1, WakeupAll
<1>17. ASSUME NEW p \in Procs, ReleaseDone(p) PROVE LockInv'
  BY <1>17 DEF ReleaseDone
<1>18. ASSUME NEW p \in Procs, Yield(p) PROVE LockInv'
  BY <1>18 DEF Yield
<1>19. ASSUME NEW p \in Procs, YieldReturn(p) PROVE LockInv'
  BY <1>19 DEF YieldReturn
<1>20. ASSUME NEW p \in Procs, SchedPick(p) PROVE LockInv'
  BY <1>20 DEF SchedPick
<1>21. ASSUME NEW p \in Procs, Kill(p) PROVE LockInv'
  BY <1>21 DEF Kill
<1>22. CASE SchedAcquire
  BY <1>22 DEF SchedAcquire
<1>23. CASE SchedRelease
  BY <1>23 DEF SchedRelease
<1>24. CASE UNCHANGED lockVars
  BY <1>24 DEF lockVars
<1> QED
  BY <1>1, <1>2, <1>3, <1>4, <1>5, <1>6, <1>7, <1>8, <1>9, <1>10, <1>11, <1>12, <1>13, <1>14, <1>15, <1>16, <1>17, <1>18, <1>19, <1>20, <1>21, <1>22, <1>23, <1>24 DEF LockNext, Step

\* LockInv is an invariant of the sleep-lock.
THEOREM LockInvariance == LockSpec => []LockInv
  BY InitLockInv, NextLockInv, PTL DEF LockSpec

\* Type correctness of the sleep-lock's state and program counters.
THEOREM LockTypeCorrect == LockSpec => []LockTypeOK
<1>1. LockInv => LockTypeOK
  BY DEF LockInv
<1> QED
  BY LockInvariance, <1>1, PTL

\* Mutual exclusion of acquiresleep and releasesleep, for any number of
\* processes on any number of CPUs.
THEOREM MutexCorrect == LockSpec => []MutualExclusion
<1>1. LockInv => MutualExclusion
  BY DEF LockInv, OwnerInv, MutualExclusion
<1> QED
  BY LockInvariance, <1>1, PTL

\* No process sleeps on a lock that nobody is going to give up or wake for.
THEOREM WakeupCorrect == LockSpec => []NoLostWakeup
<1>1. LockInv => NoLostWakeup
  BY DEF LockInv, SleepInv, NoLostWakeup
<1> QED
  BY LockInvariance, <1>1, PTL

\* Nobody gives up the CPU with a spinlock held: sched()'s panics never fire.
THEOREM SchedCorrect == LockSpec => []OffCpuHoldsNoSpinlock
<1>1. LockInv => OffCpuHoldsNoSpinlock
  BY DEF LockInv, SpinlocksInv, OnCpuInv, OffCpuHoldsNoSpinlock, LkLabels, PtLabels, Preemptible
<1> QED
  BY LockInvariance, <1>1, PTL

\* The holdingsleep check of a caller that holds the lock never panics.
THEOREM NoPanic == LockSpec => []NeverPanics
<1>1. LockInv => NeverPanics
  BY DEF LockInv, OwnerInv, NeverPanics
<1> QED
  BY LockInvariance, <1>1, PTL

\* The two spinlocks, the sleep and the wakeup implement the abstract mutex:
\* the assignments to lk->pid under lk->lk are its Acquire and Release steps,
\* every other step stutters.
THEOREM MutexRefinement == LockSpec => ImplementsMutex
<1>1. LockInit => MX!Init
  BY DEF LockInit, MX!Init
<1>2. LockInv /\ [LockNext]_lockVars => [MX!Next]_owner
  <2> SUFFICES ASSUME LockInv, [LockNext]_lockVars, owner' # owner PROVE MX!Next
    OBVIOUS
  <2> USE DEF LockInv, OwnerInv, Holds, At
  <2>1. ASSUME NEW p \in Procs, AcquireGet(p) PROVE MX!Acquire(p)
    BY <2>1 DEF AcquireGet, MX!Acquire
  <2>2. ASSUME NEW p \in Procs, ReleaseClear(p) PROVE MX!Release(p)
    BY <2>2 DEF ReleaseClear, MX!Release
  <2>3. \E p \in Procs : AcquireGet(p) \/ ReleaseClear(p)
    BY DEF LockNext, Step, lockVars, AcquireCall, AcquireSpin, TakeLk, TakePtable, AcquireBusy,
           SleepSpin, SleepRelease, SleepSched, SleepReturn, SleepReacquire, ReleaseCall,
           HoldingSpin, HoldingTest, ReleaseSpin, WakeupSpin, WakeupAll, ReleaseDone,
           Yield, YieldReturn, SchedAcquire, SchedPick, SchedRelease, Kill
  <2> QED
    BY <2>1, <2>2, <2>3 DEF MX!Next
<1> QED
  BY <1>1, <1>2, LockInvariance, PTL DEF LockSpec, ImplementsMutex, MX!Spec

-----------------------------------------------------------------------------
(* The log *)

Distinct(s) == \A i, j \in 1..Len(s) : s[i] = s[j] => i = j

Names == /\ Distinct(lh) /\ Distinct(hdr)
         /\ \A p \in Ops : wrote[p] \subseteq Elems(lh)

\* One element for each block a call in progress may still log.
Room == {t \in Active \X (1..MAXOPBLOCKS) : t[2] > Cardinality(wrote[t[1]])}

Reserved == /\ outstanding = Cardinality(Active)
            /\ Len(lh) + Cardinality(Room) <= LOGSIZE
            /\ \A p \in Ops : /\ IsFiniteSet(wrote[p])
                              /\ Cardinality(wrote[p]) <= OpBlocks
                              /\ pc[p] \notin {"in", "logging"} => wrote[p] = {}

Committing == {"write_log", "write_head", "install", "clear", "committed"}
Booting == {"read_head", "re_install", "re_clear"}

Phased == /\ committing <=> phase \in Committing
          /\ \A p \in Ops : pc[p] \in {"in", "logging"} => phase = "idle"
          /\ phase \in Booting => \A p \in Ops : pc[p] = "out"
          /\ phase = "idle" /\ outstanding = 0 => lh = <<>>

Copied(dst, n) == \A i \in 1..n : dst[lh[i]] = slots[i]

Copies ==
    /\ \A i \in 1..Len(hdr) : slots[i] \in Vals
    /\ phase \in {"idle", "write_log", "write_head"} => hdr = <<>> /\ dirty = Elems(lh)
    /\ phase = "write_log" => tail < Len(lh) /\ Copied(cache, tail)
    /\ phase = "write_head" => Len(lh) > 0 /\ Copied(cache, Len(lh))
    /\ phase = "install" => /\ hdr = lh /\ tail < Len(lh)
                            /\ Copied(home, tail)
                            /\ \A i \in tail + 1..Len(lh) : cache[lh[i]] = slots[i]
                            /\ dirty = {lh[i] : i \in tail + 1..Len(lh)}
    /\ phase = "clear" => hdr = lh /\ dirty = {} /\ Copied(home, Len(lh))
    /\ phase = "committed" => hdr = <<>> /\ lh = <<>> /\ dirty = {}
    /\ phase = "read_head" => lh = <<>> /\ dirty = {} /\ tail = 0
    /\ phase = "re_install" => hdr = lh /\ tail < Len(lh) /\ dirty = {} /\ Copied(home, tail)
    /\ phase = "re_clear" => hdr = lh /\ dirty = {} /\ Copied(home, Len(lh))

IInv == TypeOK /\ Names /\ Reserved /\ Phased /\ Copies

-----------------------------------------------------------------------------
(* Reservations *)

\* The calls in progress and what they may still log are finitely many.
LEMMA RoomFinite == ASSUME TypeOK
                    PROVE  /\ IsFiniteSet(Active) /\ Cardinality(Active) \in Nat
                           /\ IsFiniteSet(Room) /\ Cardinality(Room) \in Nat
                           /\ Cardinality(Room) <= Cardinality(Active) * MAXOPBLOCKS
<1>1. IsFiniteSet(Active) /\ Cardinality(Active) \in Nat
  BY LogAssumption, FS_Subset, FS_CardinalityType DEF Active
<1>2. IsFiniteSet(1..MAXOPBLOCKS) /\ Cardinality(1..MAXOPBLOCKS) = MAXOPBLOCKS
  BY LogAssumption, FS_Interval
<1>3. /\ IsFiniteSet(Active \X (1..MAXOPBLOCKS))
      /\ Cardinality(Active \X (1..MAXOPBLOCKS)) = Cardinality(Active) * MAXOPBLOCKS
  BY <1>1, <1>2, FS_Product
<1>4. Room \subseteq Active \X (1..MAXOPBLOCKS)
  BY DEF Room
<1>5. /\ IsFiniteSet(Room) /\ Cardinality(Room) \in Nat
      /\ Cardinality(Room) <= Cardinality(Active \X (1..MAXOPBLOCKS))
  BY <1>3, <1>4, FS_Subset, FS_CardinalityType
<1> QED BY <1>1, <1>3, <1>5

\* A call that begins reserves MAXOPBLOCKS blocks.
LEMMA BeginReserves ==
    ASSUME TypeOK, Reserved, NEW p \in Ops, pc[p] = "begin",
           Len(lh) + (outstanding + 1) * MAXOPBLOCKS <= LOGSIZE,
           pc' = [pc EXCEPT ![p] = "in"], outstanding' = outstanding + 1,
           wrote' = wrote, lh' = lh
    PROVE  Reserved'
<1>1. Active' = Active \cup {p} /\ p \notin Active
  BY DEF Active, TypeOK
<1>2. /\ IsFiniteSet(Active) /\ Cardinality(Active) \in Nat
      /\ IsFiniteSet(Room) /\ Cardinality(Room) \in Nat
      /\ Cardinality(Room) <= Cardinality(Active) * MAXOPBLOCKS
  BY RoomFinite
<1>3. Cardinality(Active') = Cardinality(Active) + 1
  BY <1>1, <1>2, FS_AddElement
<1>4. Room' = Room \cup ({p} \X (1..MAXOPBLOCKS))
  <2>1. wrote[p] = {} /\ Cardinality(wrote[p]) = 0
    BY FS_EmptySet DEF Reserved
  <2>2. \A q \in Active : q # p
    BY <1>1
  <2>3. \A i \in 1..MAXOPBLOCKS : i > 0
    BY LogAssumption
  <2> DEFINE more == {p} \X (1..MAXOPBLOCKS)
  <2>4. Room' = {t \in (Active \cup {p}) \X (1..MAXOPBLOCKS) : t[2] > Cardinality(wrote[t[1]])}
    BY <1>1 DEF Room
  <2>5. (Active \cup {p}) \X (1..MAXOPBLOCKS) = (Active \X (1..MAXOPBLOCKS)) \cup more
    OBVIOUS
  <2>6. \A t \in more : t[2] > Cardinality(wrote[t[1]])
    BY <2>1, <2>3
  <2> HIDE DEF more
  <2>7. Room' = Room \cup more
    BY <2>4, <2>5, <2>6 DEF Room
  <2> QED BY <2>7 DEF more
<1>5. /\ IsFiniteSet({p} \X (1..MAXOPBLOCKS))
      /\ Cardinality({p} \X (1..MAXOPBLOCKS)) = MAXOPBLOCKS
  <2>1. IsFiniteSet({p}) /\ Cardinality({p}) = 1
    BY FS_Singleton
  <2>2. IsFiniteSet(1..MAXOPBLOCKS) /\ Cardinality(1..MAXOPBLOCKS) = MAXOPBLOCKS
    BY LogAssumption, FS_Interval
  <2>3. /\ IsFiniteSet({p} \X (1..MAXOPBLOCKS))
        /\ Cardinality({p} \X (1..MAXOPBLOCKS)) = Cardinality({p}) * Cardinality(1..MAXOPBLOCKS)
    BY <2>1, <2>2, FS_Product
  <2> QED BY <2>1, <2>2, <2>3, LogAssumption
<1>6. Room \cap ({p} \X (1..MAXOPBLOCKS)) = {}
  BY <1>1 DEF Room
<1>7. Cardinality(Room') = Cardinality(Room) + MAXOPBLOCKS
  <2> DEFINE more == {p} \X (1..MAXOPBLOCKS)
  <2>1. Cardinality(Room \cup more) = Cardinality(Room) + Cardinality(more) - Cardinality(Room \cap more)
    BY <1>2, <1>5, FS_Union
  <2>2. Cardinality(Room \cap more) = 0
    BY <1>6, FS_EmptySet
  <2> HIDE DEF more
  <2>3. Room' = Room \cup more /\ Cardinality(more) = MAXOPBLOCKS
    BY <1>4, <1>5 DEF more
  <2> QED BY <1>2, <2>1, <2>2, <2>3, LogAssumption
<1>8. Len(lh') + Cardinality(Room') <= LOGSIZE
  <2>1. outstanding = Cardinality(Active) /\ Len(lh) \in Nat
    BY DEF Reserved, TypeOK
  <2>2. (outstanding + 1) * MAXOPBLOCKS = outstanding * MAXOPBLOCKS + MAXOPBLOCKS
    BY <1>2, <2>1, LogAssumption
  <2>3. outstanding * MAXOPBLOCKS \in Nat
    BY <1>2, <2>1, LogAssumption
  <2> QED BY <1>2, <1>7, <2>1, <2>2, <2>3, LogAssumption
<1>9. \A q \in Ops : /\ IsFiniteSet(wrote'[q])
                     /\ Cardinality(wrote'[q]) <= OpBlocks
                     /\ pc'[q] \notin {"in", "logging"} => wrote'[q] = {}
  BY DEF Reserved, TypeOK
<1> QED BY <1>3, <1>8, <1>9 DEF Reserved

\* A block newly logged uses up one of the reserved blocks of its call.
LEMMA WriteUsesRoom ==
    ASSUME TypeOK, Reserved, NEW p \in Ops, NEW b \in Blocks, pc[p] = "logging",
           b \in wrote[p] \/ Cardinality(wrote[p]) < OpBlocks,
           b \in wrote[p] => b \in Elems(lh),
           lh' = Logged(b), wrote' = [wrote EXCEPT ![p] = @ \cup {b}],
           pc' = [pc EXCEPT ![p] = "in"], outstanding' = outstanding
    PROVE  Reserved' /\ Len(lh') <= LOGSIZE
<1>1. Active' = Active
  BY DEF Active, TypeOK
<1>2. IsFiniteSet(wrote[p]) /\ Cardinality(wrote[p]) \in Nat
  BY FS_CardinalityType DEF Reserved
<1>3. /\ IsFiniteSet(Room) /\ Cardinality(Room) \in Nat
  BY RoomFinite
<1>4. \A q \in Ops : /\ IsFiniteSet(wrote'[q])
                     /\ Cardinality(wrote'[q]) <= OpBlocks
                     /\ pc'[q] \notin {"in", "logging"} => wrote'[q] = {}
  <2>1. /\ IsFiniteSet(wrote[p] \cup {b})
        /\ Cardinality(wrote[p] \cup {b}) <= OpBlocks
    <3>1. CASE b \in wrote[p]
      <4>1. wrote[p] \cup {b} = wrote[p]
        BY <3>1
      <4> QED BY <1>2, <4>1 DEF Reserved
    <3>2. CASE b \notin wrote[p]
      <4>1. /\ IsFiniteSet(wrote[p] \cup {b})
            /\ Cardinality(wrote[p] \cup {b}) = Cardinality(wrote[p]) + 1
        BY <1>2, <3>2, FS_AddElement
      <4> QED BY <1>2, <3>2, <4>1, LogAssumption
    <3> QED BY <3>1, <3>2
  <2> QED BY <2>1 DEF Reserved, TypeOK
<1>5. Len(lh') + Cardinality(Room') <= LOGSIZE /\ Len(lh') <= LOGSIZE
  <2>1. CASE b \in wrote[p]
    <3>1. wrote' = wrote
      BY <2>1 DEF TypeOK
    <3>2. lh' = lh
      BY <2>1 DEF Logged
    <3> QED BY <1>1, <3>1, <3>2 DEF Room, Reserved, TypeOK
  <2>2. CASE b \notin wrote[p]
    <3> DEFINE k == Cardinality(wrote[p])
               t == <<p, k + 1>>
    <3>1. Cardinality(wrote'[p]) = k + 1 /\ \A q \in Ops \ {p} : wrote'[q] = wrote[q]
      BY <1>2, <2>2, FS_AddElement DEF TypeOK
    <3>2. t \in Room
      BY <1>2, <2>2, LogAssumption DEF Room, Active
    <3>3. Room' = Room \ {t}
      <4>1. ASSUME NEW u \in Active \X (1..MAXOPBLOCKS)
            PROVE  u[2] > Cardinality(wrote'[u[1]]) <=> u[2] > Cardinality(wrote[u[1]]) /\ u # t
        <5>1. CASE u[1] = p
          BY <1>2, <3>1, <5>1
        <5>2. CASE u[1] # p
          BY <3>1, <5>2 DEF Active
        <5> QED BY <5>1, <5>2
      <4>2. Room' = {u \in Active \X (1..MAXOPBLOCKS) : u[2] > Cardinality(wrote'[u[1]])}
        BY <1>1 DEF Room
      <4> HIDE DEF k, t
      <4> QED BY <4>1, <4>2 DEF Room
    <3>4. Cardinality(Room') = Cardinality(Room) - 1 /\ Cardinality(Room') \in Nat
      BY <1>3, <3>2, <3>3, FS_RemoveElement, FS_CardinalityType
    <3>5. Len(lh') <= Len(lh) + 1 /\ Len(lh') \in Nat /\ Len(lh) \in Nat
      BY DEF Logged, TypeOK
    <3> QED BY <1>3, <3>4, <3>5, LogAssumption DEF Reserved
  <2> QED BY <2>1, <2>2
<1> QED BY <1>1, <1>4, <1>5 DEF Reserved

\* A call that ends gives back what it did not use.
LEMMA EndReleases ==
    ASSUME TypeOK, Reserved, NEW p \in Ops, p \in Active,
           Active' = Active \ {p}, wrote' = [wrote EXCEPT ![p] = {}], lh' = lh,
           outstanding' = outstanding - 1,
           \A q \in Ops : q \notin Active => q \notin Active'
    PROVE  Reserved'
<1>1. /\ IsFiniteSet(Active) /\ Cardinality(Active) \in Nat
      /\ IsFiniteSet(Room) /\ Cardinality(Room) \in Nat
  BY RoomFinite
<1>2. Cardinality(Active') = Cardinality(Active) - 1
  BY <1>1, FS_RemoveElement
<1>3. Room' \subseteq Room
  BY DEF Room, TypeOK, Active
<1>4. Cardinality(Room') <= Cardinality(Room) /\ Cardinality(Room') \in Nat
  BY <1>1, <1>3, FS_Subset, FS_CardinalityType
<1>5. Len(lh') + Cardinality(Room') <= LOGSIZE
  BY <1>1, <1>4, LogAssumption DEF Reserved, TypeOK
<1>6. \A q \in Ops : /\ IsFiniteSet(wrote'[q])
                     /\ Cardinality(wrote'[q]) <= OpBlocks
                     /\ pc'[q] \notin {"in", "logging"} => wrote'[q] = {}
  <2>1. ASSUME NEW q \in Ops, q # p
        PROVE  wrote'[q] = wrote[q] /\ (pc'[q] \notin {"in", "logging"} => wrote'[q] = {})
    BY <2>1 DEF Reserved, TypeOK, Active
  <2>2. wrote'[p] = {} /\ IsFiniteSet(wrote'[p]) /\ Cardinality(wrote'[p]) = 0
    BY FS_EmptySet DEF TypeOK
  <2> QED BY <2>1, <2>2, LogAssumption DEF Reserved
<1> QED BY <1>1, <1>2, <1>5, <1>6 DEF Reserved

-----------------------------------------------------------------------------
(* Every step preserves the invariant *)

LEMMA InitIInv == Init => IInv
<1> SUFFICES ASSUME Init PROVE IInv
  OBVIOUS
<1>1. TypeOK
  <2>1. slots \in [1..LOGSIZE -> Vals \cup {NoVal}] /\ home \in [Blocks -> Vals]
    BY LogAssumption DEF Init
  <2>2. /\ hdr \in Seq(Blocks) /\ Len(hdr) = 0 /\ lh \in Seq(Blocks) /\ Len(lh) = 0
        /\ 0 <= LOGSIZE /\ tail \in 0..LOGSIZE
    BY LogAssumption DEF Init
  <2>3. pc \in [Ops -> {"out", "begin", "asleep", "in", "logging", "commit"}]
    BY DEF Init
  <2>4. wrote \in [Ops -> SUBSET Blocks]
    BY DEF Init
  <2> QED BY <2>1, <2>2, <2>3, <2>4 DEF Init, TypeOK, Phases
<1>2. Names
  BY DEF Init, Names, Distinct, Elems
<1>3. Reserved
  <2>1. Active = {} /\ Room = {}
    BY DEF Init, Active, Room
  <2> QED BY <2>1, FS_EmptySet, LogAssumption DEF Init, Reserved
<1>4. Phased /\ Copies
  BY DEF Init, Phased, Committing, Booting, Copies, Copied, Elems
<1> QED BY <1>1, <1>2, <1>3, <1>4 DEF IInv

\* Nothing changes the reservations as long as the calls in progress, what
\* they logged and the length of the log stay the same.
LEMMA ReservedKept ==
    ASSUME Reserved, TypeOK, Active' = Active, wrote' = wrote, outstanding' = outstanding,
           Len(lh') = Len(lh),
           \A p \in Ops : pc'[p] \notin {"in", "logging"} => pc[p] \notin {"in", "logging"}
    PROVE  Reserved'
<1>1. Room' = Room
  BY DEF Room
<1> QED BY <1>1 DEF Reserved

\* A step of commit or of recovery runs while no call is in progress, so an
\* emptied log needs no room.
LEMMA ReservedIdle ==
    ASSUME Reserved, TypeOK, Active = {}, Active' = {}, wrote' = wrote,
           outstanding' = outstanding, Len(lh') \in 0..LOGSIZE,
           \A p \in Ops : pc'[p] \notin {"in", "logging"} => pc[p] \notin {"in", "logging"}
    PROVE  Reserved'
<1>1. Room' = {} /\ Cardinality(Room') = 0
  BY FS_EmptySet DEF Room
<1>2. Len(lh') + Cardinality(Room') <= LOGSIZE
  BY <1>1, LogAssumption
<1>3. outstanding' = Cardinality(Active')
  BY DEF Reserved
<1> QED BY <1>2, <1>3 DEF Reserved

\* Calls run only while the log is idle.
LEMMA CallsIdle == ASSUME IInv PROVE  /\ Active # {} => phase = "idle" /\ ~committing
                                      /\ outstanding = 0 <=> Active = {}
<1>1. IsFiniteSet(Active)
  BY RoomFinite DEF IInv
<1> QED BY <1>1, FS_EmptySet DEF IInv, Phased, Reserved, Active, Committing

LEMMA CallIInv == ASSUME IInv, NEW p \in Ops, Call(p) \/ BeginSleep(p) PROVE IInv'
<1> USE DEF Call, BeginSleep, disk
<1>1. TypeOK' /\ Active' = Active
  BY DEF IInv, TypeOK, Active
<1>2. Names' /\ Copies'
  BY DEF IInv, Names, Copies, Copied
<1>3. Reserved'
  BY <1>1, ReservedKept DEF IInv, TypeOK
<1>4. Phased'
  BY DEF IInv, TypeOK, Phased, Committing, Booting, Running
<1> QED BY <1>1, <1>2, <1>3, <1>4 DEF IInv

LEMMA BeginOpIInv == ASSUME IInv, NEW p \in Ops, BeginOp(p) PROVE IInv'
<1> USE DEF BeginOp, disk
<1>1. TypeOK'
  BY DEF IInv, TypeOK
<1>2. Names' /\ Copies'
  BY DEF IInv, Names, Copies, Copied
<1>3. Reserved'
  <2>1. Len(lh) + (outstanding + 1) * MAXOPBLOCKS <= LOGSIZE
    BY LogAssumption DEF MustWait, IInv, TypeOK
  <2> QED BY <2>1, BeginReserves DEF IInv
<1>4. Phased'
  BY DEF IInv, TypeOK, Phased, Committing, Booting, Running, MustWait, Phases
<1> QED BY <1>1, <1>2, <1>3, <1>4 DEF IInv

LEMMA LogCheckIInv == ASSUME IInv, NEW p \in Ops, LogCheck(p) PROVE IInv'
<1> USE DEF LogCheck, disk
<1>1. TypeOK' /\ Active' = Active
  BY DEF IInv, TypeOK, Active
<1>2. Names' /\ Copies'
  BY DEF IInv, Names, Copies, Copied
<1>3. Reserved'
  BY <1>1, ReservedKept DEF IInv, TypeOK
<1>4. Phased'
  BY DEF IInv, TypeOK, Phased, Committing, Booting, Running
<1> QED BY <1>1, <1>2, <1>3, <1>4 DEF IInv

\* Absorption keeps the log free of duplicates, and the log's blocks pinned.
LEMMA LoggedOnce ==
    ASSUME NEW b \in Blocks, lh \in Seq(Blocks), Distinct(lh)
    PROVE  /\ Logged(b) \in Seq(Blocks)
           /\ Distinct(Logged(b))
           /\ Elems(Logged(b)) = Elems(lh) \cup {b}
<1>1. CASE b \in Elems(lh)
  BY <1>1 DEF Logged
<1>2. CASE b \notin Elems(lh)
  <2> DEFINE l == Append(lh, b)
  <2>1. /\ Logged(b) = l /\ l \in Seq(Blocks) /\ Len(l) = Len(lh) + 1
        /\ l[Len(lh) + 1] = b /\ \A i \in 1..Len(lh) : l[i] = lh[i]
    BY <1>2 DEF Logged
  <2>2. \A i \in 1..Len(lh) : lh[i] # b
    BY <1>2 DEF Elems
  <2> HIDE DEF l
  <2>3. Distinct(l)
    BY <2>1, <2>2 DEF Distinct
  <2>4. Elems(l) = Elems(lh) \cup {b}
    BY <2>1 DEF Elems
  <2> QED BY <2>1, <2>3, <2>4
<1> QED BY <1>1, <1>2

LEMMA LogWriteIInv ==
    ASSUME IInv, NEW p \in Ops, NEW b \in Blocks, NEW v \in Vals, LogWrite(p, b, v)
    PROVE  IInv'
<1> USE DEF LogWrite, disk
<1>1. Logged(b) \in Seq(Blocks) /\ Distinct(Logged(b)) /\ Elems(lh') = Elems(lh) \cup {b}
  BY LoggedOnce DEF IInv, TypeOK, Names
<1>2. Reserved' /\ Len(lh') <= LOGSIZE
  BY WriteUsesRoom DEF IInv, Names
<1>3. TypeOK'
  BY <1>1, <1>2 DEF IInv, TypeOK
<1>4. phase = "idle" /\ Active # {} /\ outstanding # 0
  BY CallsIdle DEF IInv, Phased, Active
<1>5. Names'
  <2>1. ASSUME NEW q \in Ops PROVE wrote'[q] \subseteq Elems(lh')
    BY <1>1 DEF IInv, TypeOK, Names
  <2> QED BY <1>1, <2>1 DEF IInv, Names
<1>6. Phased'
  BY <1>4 DEF IInv, TypeOK, Phased, Committing, Booting
<1>7. Copies'
  BY <1>1, <1>4 DEF IInv, Copies
<1> QED BY <1>2, <1>3, <1>5, <1>6, <1>7 DEF IInv

LEMMA EndOpIInv == ASSUME IInv, NEW p \in Ops, EndOp(p) PROVE IInv' /\ Active' = Active \ {p}
<1> USE DEF EndOp, disk, Wakeup
<1>1. p \in Active /\ Active' = Active \ {p}
  BY DEF IInv, TypeOK, Active
<1>2. phase = "idle" /\ outstanding # 0 /\ ~committing
  BY <1>1, CallsIdle
<1>3. TypeOK'
  BY <1>2 DEF IInv, TypeOK
<1>4. Names'
  BY DEF IInv, TypeOK, Names
<1>5. Reserved'
  BY <1>1, EndReleases DEF IInv
<1>6. Phased'
  BY <1>2 DEF IInv, TypeOK, Phased, Committing, Booting
<1>7. Copies'
  BY DEF IInv, Copies, Copied
<1> QED BY <1>1, <1>3, <1>4, <1>5, <1>6, <1>7 DEF IInv

LEMMA EndOpLastIInv ==
    ASSUME IInv, NEW p \in Ops, EndOpLast(p) PROVE IInv' /\ Active = {p} /\ Active' = {}
<1> USE DEF EndOpLast, disk
<1>1. p \in Active /\ Active' = Active \ {p}
  BY DEF IInv, TypeOK, Active
<1>2. Active = {p}
  <2>1. IsFiniteSet(Active) /\ Cardinality(Active) = 1
    BY RoomFinite DEF IInv, Reserved
  <2>2. IsFiniteSet(Active \ {p}) /\ Cardinality(Active \ {p}) = 0
    BY <1>1, <2>1, FS_RemoveElement
  <2>3. Active \ {p} = {}
    BY <2>2, FS_EmptySet
  <2> QED BY <1>1, <2>3
<1>3. phase = "idle" /\ ~committing /\ Len(lh) \in Nat
  BY <1>1, CallsIdle DEF IInv, TypeOK
<1>4. TypeOK'
  BY LogAssumption DEF IInv, TypeOK, Phases
<1>5. Names'
  BY DEF IInv, TypeOK, Names
<1>6. Reserved'
  <2>1. outstanding' = outstanding - 1
    OBVIOUS
  <2> QED BY <1>1, <2>1, EndReleases DEF IInv
<1>7. Phased'
  BY <1>1, <1>2, <1>3 DEF IInv, TypeOK, Phased, Committing, Booting, Active
<1>8. Copies'
  <2>1. hdr = <<>> /\ dirty = Elems(lh)
    BY <1>3 DEF IInv, Copies
  <2>2. CASE Len(lh) > 0
    BY <1>3, <2>1, <2>2 DEF Copies, Copied
  <2>3. CASE Len(lh) = 0
    <3>1. lh = <<>> /\ Elems(lh) = {}
      BY <2>3 DEF IInv, TypeOK, Elems
    <3> QED BY <2>1, <2>3, <3>1 DEF Copies
  <2> QED BY <1>3, <2>2, <2>3
<1> QED BY <1>1, <1>2, <1>4, <1>5, <1>6, <1>7, <1>8 DEF IInv

\* What the steps of commit and of recovery have in common: no call is in
\* progress, before or after.
LEMMA QuietStep ==
    ASSUME IInv, phase # "idle", wrote' = wrote, outstanding' = outstanding,
           lh' \in Seq(Blocks), Len(lh') <= LOGSIZE, Distinct(lh'), Distinct(hdr'),
           \A p \in Ops : pc'[p] \in {"in", "logging"} <=> pc[p] \in {"in", "logging"}
    PROVE  Active = {} /\ Active' = {} /\ outstanding = 0 /\ Reserved' /\ Names'
<1>1. Active = {} /\ Active' = {} /\ outstanding = 0
  BY CallsIdle DEF Active
<1>2. Reserved'
  <2>1. Len(lh') \in 0..LOGSIZE
    BY LogAssumption
  <2> QED BY <1>1, <2>1, ReservedIdle DEF IInv
<1>3. \A p \in Ops : wrote'[p] = {}
  BY <1>1 DEF IInv, Reserved, Active
<1> QED BY <1>1, <1>2, <1>3 DEF Names

LEMMA WriteLogIInv == ASSUME IInv, WriteLog PROVE IInv'
<1> USE DEF WriteLog
<1>1. tail + 1 \in 1..Len(lh) /\ tail + 1 \in 1..LOGSIZE /\ lh[tail + 1] \in Blocks
  BY LogAssumption DEF IInv, Copies, TypeOK
<1>2. Bread(lh[tail + 1]) = cache[lh[tail + 1]]
  BY <1>1 DEF IInv, Copies, Bread, Elems
<1>3. TypeOK'
  BY <1>1, <1>2 DEF IInv, TypeOK, Phases
<1>4. Reserved' /\ Names'
  BY QuietStep DEF IInv, TypeOK, Names
<1>5. Phased'
  BY DEF IInv, Phased, Committing, Booting
<1>6. Copies'
  <2>1. \A i \in 1..tail : slots'[i] = slots[i]
    BY <1>1 DEF IInv, TypeOK
  <2>2. slots'[tail + 1] = cache[lh[tail + 1]]
    BY <1>1, <1>2 DEF IInv, TypeOK
  <2>3. \A i \in 1..tail + 1 : cache'[lh'[i]] = slots'[i]
    <3>1. \A i \in 1..tail : cache[lh[i]] = slots[i]
      BY DEF IInv, Copies, Copied
    <3>2. \A i \in 1..tail + 1 : i \in 1..tail \/ i = tail + 1
      BY DEF IInv, TypeOK
    <3> QED BY <2>1, <2>2, <3>1, <3>2
  <2>4. Copied(cache, tail)' /\ hdr' = <<>> /\ dirty' = Elems(lh')
    BY <1>1, <2>3 DEF IInv, TypeOK, Copies, Copied
  <2>5. CASE tail + 1 = Len(lh)
    BY <1>1, <2>3, <2>4, <2>5 DEF Copies, Copied
  <2>6. CASE tail + 1 # Len(lh)
    BY <1>1, <2>3, <2>4, <2>6 DEF Copies, Copied, IInv, TypeOK
  <2> QED BY <2>5, <2>6
<1> QED BY <1>3, <1>4, <1>5, <1>6 DEF IInv

LEMMA WriteHeadIInv == ASSUME IInv, WriteHead PROVE IInv'
<1> USE DEF WriteHead
<1>1. TypeOK'
  BY LogAssumption DEF IInv, TypeOK, Phases
<1>2. Reserved' /\ Names'
  BY QuietStep DEF IInv, TypeOK, Names
<1>3. Phased'
  BY DEF IInv, Phased, Committing, Booting
<1>4. Copies'
  BY DEF IInv, TypeOK, Copies, Copied, Elems
<1> QED BY <1>1, <1>2, <1>3, <1>4 DEF IInv

\* One block copied home from the log: the blocks before it stay as they are.
LEMMA BlockInstalled ==
    ASSUME IInv, InstallBlock, UNCHANGED <<slots, lh>>, tail < Len(lh), Copied(home, tail)
    PROVE  /\ tail + 1 \in 1..Len(lh) /\ tail + 1 \in 1..LOGSIZE /\ lh[tail + 1] \in Blocks
           /\ Len(hdr) = Len(lh) => home' \in [Blocks -> Vals]
           /\ Copied(home, tail)'
           /\ tail' = tail + 1
<1> USE DEF InstallBlock
<1>1. tail + 1 \in 1..Len(lh) /\ tail + 1 \in 1..LOGSIZE /\ lh[tail + 1] \in Blocks
  BY LogAssumption DEF IInv, TypeOK
<1>2. home'[lh[tail + 1]] = slots[tail + 1]
  BY <1>1 DEF IInv, TypeOK
<1>3. \A i \in 1..tail : lh[i] # lh[tail + 1] /\ lh[i] \in Blocks
  BY <1>1 DEF IInv, TypeOK, Names, Distinct
<1>4. \A i \in 1..tail : home'[lh[i]] = slots[i]
  BY <1>3 DEF IInv, TypeOK, Copied
<1>5. \A i \in 1..tail + 1 : home'[lh[i]] = slots[i]
  BY <1>1, <1>2, <1>4 DEF IInv, TypeOK
<1>6. Copied(home, tail)'
  BY <1>5, <1>1 DEF Copied
<1>7. Len(hdr) = Len(lh) => home' \in [Blocks -> Vals]
  BY <1>1 DEF IInv, TypeOK, Copies
<1> QED BY <1>1, <1>6, <1>7

LEMMA InstallIInv == ASSUME IInv, Install PROVE IInv'
<1> USE DEF Install
<1>1. /\ hdr = lh /\ tail < Len(lh) /\ Copied(home, tail) /\ tail \in Nat
      /\ \A i \in tail + 1..Len(lh) : cache[lh[i]] = slots[i]
      /\ dirty = {lh[i] : i \in tail + 1..Len(lh)}
  BY DEF IInv, TypeOK, Copies
<1>2. /\ tail + 1 \in 1..Len(lh) /\ tail + 1 \in 1..LOGSIZE /\ lh[tail + 1] \in Blocks
      /\ home' \in [Blocks -> Vals] /\ Copied(home, tail)' /\ tail' = tail + 1
  BY <1>1, BlockInstalled
<1>3. TypeOK'
  BY <1>2 DEF IInv, TypeOK, Phases, InstallBlock
<1>4. Reserved' /\ Names'
  BY QuietStep DEF IInv, TypeOK, Names
<1>5. Phased'
  BY DEF IInv, Phased, Committing, Booting
<1>6. Copies'
  <2>1. \A i \in tail + 2..Len(lh) : lh[i] # lh[tail + 1] /\ i \in tail + 1..Len(lh)
    BY <1>1, <1>2 DEF IInv, Names, Distinct
  <2>2. \A i \in tail + 1..Len(lh) : i = tail + 1 \/ i \in tail + 2..Len(lh)
    BY <1>1
  <2>3. dirty' = {lh[i] : i \in tail + 2..Len(lh)}
    BY <1>1, <2>1, <2>2 DEF InstallBlock
  <2>4. \A i \in tail + 2..Len(lh) : cache[lh[i]] = slots[i]
    BY <1>1, <2>1
  <2>5. tail' + 1 = tail + 2
    BY <1>1, <1>2
  <2>6. \A i \in 1..Len(hdr') : slots'[i] \in Vals
    BY DEF IInv, Copies
  <2>7. CASE tail + 1 = Len(lh)
    <3>1. dirty' = {}
      BY <1>1, <2>3, <2>7
    <3> QED BY <1>1, <1>2, <2>6, <2>7, <3>1 DEF Copies
  <2>8. CASE tail + 1 # Len(lh)
    <3>1. tail' < Len(lh) /\ Len(lh) \in Nat
      BY <1>1, <1>2, <2>8 DEF IInv, TypeOK
    <3> QED BY <1>1, <1>2, <2>3, <2>4, <2>5, <2>6, <2>8, <3>1 DEF Copies
  <2> QED BY <2>7, <2>8
<1> QED BY <1>3, <1>4, <1>5, <1>6 DEF IInv

LEMMA ReinstallIInv == ASSUME IInv, Reinstall PROVE IInv'
<1> USE DEF Reinstall
<1>1. hdr = lh /\ tail < Len(lh) /\ dirty = {} /\ Copied(home, tail) /\ tail \in Nat
  BY DEF IInv, TypeOK, Copies
<1>2. /\ tail + 1 \in 1..Len(lh) /\ tail + 1 \in 1..LOGSIZE /\ lh[tail + 1] \in Blocks
      /\ home' \in [Blocks -> Vals] /\ Copied(home, tail)' /\ tail' = tail + 1
  BY <1>1, BlockInstalled
<1>3. TypeOK'
  BY <1>2 DEF IInv, TypeOK, Phases, InstallBlock
<1>4. Reserved' /\ Names'
  BY QuietStep DEF IInv, TypeOK, Names
<1>5. Phased'
  BY DEF IInv, Phased, Committing, Booting
<1>6. Copies'
  <2>1. \A i \in 1..Len(hdr') : slots'[i] \in Vals
    BY DEF IInv, Copies
  <2>2. dirty' = {}
    BY <1>1 DEF InstallBlock
  <2>3. tail + 1 # Len(lh) => tail' < Len(lh)
    BY <1>1, <1>2 DEF IInv, TypeOK
  <2> QED BY <1>1, <1>2, <2>1, <2>2, <2>3 DEF Copies
<1> QED BY <1>3, <1>4, <1>5, <1>6 DEF IInv

LEMMA ClearIInv == ASSUME IInv, Clear \/ Reclear PROVE IInv'
<1> USE DEF Clear, Reclear
<1>1. lh' \in Seq(Blocks) /\ hdr' \in Seq(Blocks) /\ Len(lh') <= LOGSIZE /\ Len(hdr') <= LOGSIZE
  <2>1. <<>> \in Seq(Blocks) /\ Len(<<>>) = 0 /\ 0 <= LOGSIZE
    BY LogAssumption
  <2> QED BY <2>1
<1>2. TypeOK'
  BY <1>1 DEF IInv, TypeOK, Phases
<1>3. Reserved' /\ Names'
  <2>1. Distinct(lh') /\ Distinct(hdr')
    BY DEF Distinct
  <2>2. phase # "idle" /\ \A p \in Ops : pc'[p] \in {"in", "logging"} <=> pc[p] \in {"in", "logging"}
    OBVIOUS
  <2>3. wrote' = wrote /\ outstanding' = outstanding
    OBVIOUS
  <2> QED BY <1>1, <2>1, <2>2, <2>3, QuietStep
<1>4. Phased'
  BY DEF IInv, Phased, Committing, Booting
<1>5. Copies'
  BY DEF IInv, Copies, Elems
<1> QED BY <1>2, <1>3, <1>4, <1>5 DEF IInv

LEMMA EndCommitIInv == ASSUME IInv, NEW p \in Ops, EndCommit(p) PROVE IInv'
<1> USE DEF EndCommit, disk, Wakeup
<1>1. TypeOK'
  BY DEF IInv, TypeOK, Phases
<1>2. \A q \in Ops : pc'[q] \in {"in", "logging"} <=> pc[q] \in {"in", "logging"}
  BY DEF IInv, TypeOK
<1>3. Reserved' /\ Names'
  BY <1>2, QuietStep DEF IInv, TypeOK, Names
<1>4. Phased'
  BY <1>2 DEF IInv, Phased, Copies, Committing, Booting
<1>5. Copies'
  BY DEF IInv, Copies, Elems
<1> QED BY <1>1, <1>3, <1>4, <1>5 DEF IInv

LEMMA CrashIInv == ASSUME IInv, Crash PROVE IInv' /\ Active' = {}
<1> USE DEF Crash, disk
<1>1. TypeOK'
  <2>1. /\ lh' \in Seq(Blocks) /\ Len(lh') = 0 /\ 0 <= LOGSIZE /\ tail' \in 0..LOGSIZE
        /\ cache' \in [Blocks -> Vals]
    BY LogAssumption
  <2>2. pc' \in [Ops -> {"out", "begin", "asleep", "in", "logging", "commit"}]
    OBVIOUS
  <2>3. wrote' \in [Ops -> SUBSET Blocks]
    OBVIOUS
  <2> QED BY <2>1, <2>2, <2>3 DEF IInv, TypeOK, Phases
<1>2. Names'
  BY DEF IInv, Names, Distinct
<1>3. Active' = {} /\ Room' = {}
  BY DEF Active, Room
<1>4. Reserved'
  BY <1>3, FS_EmptySet, LogAssumption DEF Reserved
<1>5. Phased'
  BY DEF Phased, Committing, Booting
<1>6. Copies'
  BY DEF IInv, Copies
<1> QED BY <1>1, <1>2, <1>3, <1>4, <1>5, <1>6 DEF IInv

LEMMA ReadHeadIInv == ASSUME IInv, ReadHead PROVE IInv'
<1> USE DEF ReadHead, disk
<1>1. TypeOK'
  BY DEF IInv, TypeOK, Phases
<1>2. Reserved' /\ Names'
  BY QuietStep DEF IInv, TypeOK, Names
<1>3. Phased'
  BY DEF IInv, Phased, Committing, Booting
<1>4. Copies'
  BY DEF IInv, TypeOK, Copies, Copied
<1> QED BY <1>1, <1>2, <1>3, <1>4 DEF IInv

LEMMA NextIInv == IInv /\ [Next]_vars => IInv'
<1> SUFFICES ASSUME IInv, [Next]_vars PROVE IInv'
  OBVIOUS
<1>1. ASSUME NEW p \in Ops, \/ Call(p) \/ BeginSleep(p) \/ BeginOp(p) \/ LogCheck(p)
                             \/ EndOp(p) \/ EndOpLast(p)
      PROVE  IInv'
  BY <1>1, CallIInv, BeginOpIInv, LogCheckIInv, EndOpIInv, EndOpLastIInv
<1>2. ASSUME NEW p \in Ops, NEW b \in Blocks, NEW v \in Vals, LogWrite(p, b, v) PROVE IInv'
  BY <1>2, LogWriteIInv
<1>3. CASE Commit
  BY <1>3, WriteLogIInv, WriteHeadIInv, InstallIInv, ClearIInv, EndCommitIInv DEF Commit
<1>4. CASE Recover
  BY <1>4, ReadHeadIInv, ReinstallIInv, ClearIInv DEF Recover
<1>5. CASE Crash
  BY <1>5, CrashIInv
<1>6. CASE UNCHANGED vars
  <2>1. TypeOK' /\ Names' /\ Phased' /\ Copies'
    BY <1>6 DEF vars, disk, IInv, TypeOK, Names, Distinct, Elems, Phased, Copies, Copied
  <2>2. Active' = Active
    BY <1>6 DEF vars, Active
  <2>3. Reserved'
    BY <1>6, <2>2, ReservedKept DEF vars, IInv
  <2> QED BY <2>1, <2>3 DEF IInv
<1> QED BY <1>1, <1>2, <1>3, <1>4, <1>5, <1>6 DEF Next

\* The invariant holds of the log with any number of calls, blocks and sizes.
THEOREM Invariance == Spec => []IInv
BY InitIInv, NextIInv, PTL DEF Spec

\* Type correctness: in particular log.lh never outgrows its array of LOGSIZE
\* block numbers, though log_write's test of the size is not atomic.
THEOREM TypeCorrect == Spec => []TypeOK
<1>1. IInv => TypeOK
  BY DEF IInv
<1> QED BY <1>1, Invariance, PTL

\* A commit runs alone, from write_log to the clearing of log.committing.
THEOREM CommitAloneCorrect == Spec => []CommitAlone
<1>1. IInv => CommitAlone
  BY CallsIdle DEF IInv, CommitAlone, Phased, Committing
<1> QED BY <1>1, Invariance, PTL

-----------------------------------------------------------------------------
(* Nobody sleeps on an idle log *)

LEMMA SleeperStep == IInv /\ NoIdleSleeper /\ [Next]_vars => NoIdleSleeper'
<1> SUFFICES ASSUME IInv, NoIdleSleeper, [Next]_vars PROVE NoIdleSleeper'
  OBVIOUS
<1> USE DEF NoIdleSleeper
<1>1. outstanding \in Nat
  BY DEF IInv, TypeOK
<1>2. ASSUME NEW p \in Ops, Call(p) \/ BeginOp(p) \/ LogCheck(p) \/ EndOp(p) \/ EndOpLast(p)
      PROVE  NoIdleSleeper'
  BY <1>1, <1>2 DEF Call, BeginOp, LogCheck, EndOp, EndOpLast, Wakeup, IInv, TypeOK
<1>3. ASSUME NEW p \in Ops, BeginSleep(p) PROVE NoIdleSleeper'
  <2>1. ASSUME ~committing, outstanding = 0 PROVE FALSE
    <3>1. phase = "idle"
      BY <1>3, <2>1 DEF BeginSleep, Running, IInv, TypeOK, Phases, Phased, Committing
    <3>2. lh = <<>> /\ Len(lh) = 0
      BY <2>1, <3>1 DEF IInv, Phased
    <3>3. Len(lh) + (outstanding + 1) * MAXOPBLOCKS = MAXOPBLOCKS
      BY <2>1, <3>2, LogAssumption
    <3> QED BY <1>3, <2>1, <3>3, LogAssumption DEF BeginSleep, MustWait
  <2> QED BY <1>1, <1>3, <2>1 DEF BeginSleep
<1>4. ASSUME NEW p \in Ops, NEW b \in Blocks, NEW v \in Vals, LogWrite(p, b, v)
      PROVE  NoIdleSleeper'
  BY <1>4 DEF LogWrite, IInv, TypeOK
<1>5. CASE Commit
  BY <1>5 DEF Commit, WriteLog, WriteHead, Install, Clear, EndCommit, Wakeup, IInv, TypeOK
<1>6. CASE Recover
  BY <1>6 DEF Recover, ReadHead, Reinstall, Reclear
<1>7. CASE Crash
  BY <1>7 DEF Crash
<1>8. CASE UNCHANGED vars
  BY <1>8 DEF vars
<1> QED BY <1>2, <1>3, <1>4, <1>5, <1>6, <1>7, <1>8 DEF Next

\* A caller that sleeps in begin_op has somebody to wake it.
THEOREM NoIdleSleeperCorrect == Spec => []NoIdleSleeper
<1>1. Init => NoIdleSleeper
  BY DEF Init, NoIdleSleeper
<1> QED BY <1>1, SleeperStep, Invariance, PTL DEF Spec

-----------------------------------------------------------------------------
(* The log does not overflow, given slack for the header and for absorption *)

\* A call in progress has room for the blocks it has not used of its
\* reservation, so the others have left that much of the log.
LEMMA Slack == ASSUME IInv, NEW p \in Active
               PROVE  /\ Cardinality(wrote[p]) \in Nat
                      /\ Len(lh) + MAXOPBLOCKS <= LOGSIZE + Cardinality(wrote[p])
<1> DEFINE k == Cardinality(wrote[p])
           rest == k + 1..MAXOPBLOCKS
<1>1. k \in Nat /\ k <= MAXOPBLOCKS
  BY FS_CardinalityType, LogAssumption DEF IInv, Reserved, Active
<1>2. IsFiniteSet(rest) /\ Cardinality(rest) = MAXOPBLOCKS - k
  <2>1. k + 1 \in Int /\ MAXOPBLOCKS \in Int
    BY <1>1, LogAssumption
  <2>2. Cardinality(rest) = IF k + 1 > MAXOPBLOCKS THEN 0 ELSE MAXOPBLOCKS - (k + 1) + 1
    BY <2>1, FS_Interval
  <2>3. IsFiniteSet(rest)
    BY <2>1, FS_Interval
  <2> HIDE DEF rest
  <2> QED BY <1>1, <2>2, <2>3, LogAssumption
<1> HIDE DEF k
<1>3. IsFiniteSet({p} \X rest) /\ Cardinality({p} \X rest) = MAXOPBLOCKS - k
  <2>1. IsFiniteSet({p}) /\ Cardinality({p}) = 1
    BY FS_Singleton
  <2>2. Cardinality({p} \X rest) = 1 * Cardinality(rest) /\ IsFiniteSet({p} \X rest)
    BY <1>2, <2>1, FS_Product
  <2> QED BY <1>1, <1>2, <2>2, LogAssumption
<1>4. {p} \X rest \subseteq Room
  BY <1>1, LogAssumption DEF Room, k
<1>5. IsFiniteSet(Room) /\ Cardinality(Room) \in Nat /\ MAXOPBLOCKS - k <= Cardinality(Room)
  BY <1>3, <1>4, RoomFinite, FS_Subset DEF IInv
<1> QED BY <1>1, <1>5, LogAssumption DEF IInv, Reserved, TypeOK, k

InSpace == ~panicked /\ LogFits /\ Len(hdr) < NLOG

LEMMA InSpaceStep ==
    ASSUME OpBlocks < MAXOPBLOCKS, LOGSIZE + OpBlocks + 2 <= NLOG + MAXOPBLOCKS,
           IInv, InSpace, [Next]_vars
    PROVE  InSpace'
<1> USE DEF InSpace, LogFits
<1>1. Len(lh) \in Nat /\ Len(hdr) \in Nat /\ outstanding \in Nat
  BY DEF IInv, TypeOK
<1>2. NLOG > 0
  BY LogAssumption
<1>3. ASSUME NEW p \in Ops, Call(p) \/ BeginSleep(p) \/ BeginOp(p)
      PROVE  InSpace'
  BY <1>3 DEF Call, BeginSleep, BeginOp, disk
<1>4. ASSUME NEW p \in Ops, LogCheck(p) PROVE InSpace'
  <2>1. p \in Active
    BY <1>4 DEF LogCheck, Active
  <2>2. Len(lh) + MAXOPBLOCKS <= LOGSIZE + OpBlocks
    BY <1>1, <2>1, Slack, LogAssumption DEF IInv, Reserved
  <2>3. outstanding # 0
    BY <2>1, CallsIdle
  <2>4. ~LogWritePanics
    BY <1>1, <2>2, <2>3, LogAssumption DEF LogWritePanics
  <2> QED BY <1>4, <2>4 DEF LogCheck, disk
<1>5. ASSUME NEW p \in Ops, NEW b \in Blocks, NEW v \in Vals, LogWrite(p, b, v) PROVE InSpace'
  <2>1. CASE b \in Elems(lh)
    BY <1>5, <2>1 DEF LogWrite, Logged, disk
  <2>2. CASE b \notin Elems(lh)
    <3>1. p \in Active /\ Cardinality(wrote[p]) < OpBlocks
      BY <1>5, <2>2 DEF LogWrite, Active, IInv, Names
    <3>2. Len(lh) + 2 < NLOG + 1
      BY <1>1, <3>1, Slack, LogAssumption
    <3>3. Len(lh') = Len(lh) + 1
      BY <1>5, <2>2 DEF LogWrite, Logged, IInv, TypeOK
    <3> QED BY <1>1, <1>5, <3>2, <3>3, LogAssumption DEF LogWrite, disk
  <2> QED BY <2>1, <2>2
<1>6. ASSUME NEW p \in Ops, EndOp(p) \/ EndOpLast(p) PROVE InSpace'
  <2>1. p \in Active
    BY <1>6 DEF EndOp, EndOpLast, Active
  <2>2. ~committing
    BY <2>1, CallsIdle
  <2> QED BY <1>6, <2>2 DEF EndOp, EndOpLast, disk
<1>7. CASE Commit
  <2>1. CASE Clear
    BY <1>2, <2>1 DEF Clear
  <2>2. CASE WriteLog \/ WriteHead
    BY <2>2 DEF WriteLog, WriteHead
  <2>3. CASE Install
    BY <2>3 DEF Install
  <2>4. ASSUME NEW p \in Ops, EndCommit(p) PROVE InSpace'
    BY <2>4 DEF EndCommit, disk
  <2> QED BY <1>7, <2>1, <2>2, <2>3, <2>4 DEF Commit
<1>8. CASE Recover
  <2>1. CASE Reclear
    BY <1>2, <2>1 DEF Reclear
  <2> QED BY <1>8, <2>1 DEF Recover, ReadHead, Reinstall, disk
<1>9. CASE Crash
  BY <1>2, <1>9 DEF Crash, disk
<1>10. CASE UNCHANGED vars
  BY <1>10 DEF vars, disk
<1> QED BY <1>3, <1>4, <1>5, <1>6, <1>7, <1>8, <1>9, <1>10 DEF Next

\* log_write never panics and the log stays within its disk blocks, if no call
\* logs all the blocks reserved for it (one is for absorption) and what the
\* reservations leave over makes up for the header that sb.nlog counts: with
\* mkfs's nlog = LOGSIZE, if a call writes at most MAXOPBLOCKS - 2 blocks.
THEOREM SpaceCorrect ==
    ASSUME OpBlocks < MAXOPBLOCKS, LOGSIZE + OpBlocks + 2 <= NLOG + MAXOPBLOCKS
    PROVE  Spec => [](NeverTooBig /\ LogFits)
<1>1. Init => InSpace
  BY LogAssumption DEF Init, InSpace, LogFits
<1>2. IInv /\ InSpace /\ [Next]_vars => InSpace'
  BY InSpaceStep
<1>3. InSpace => NeverTooBig /\ LogFits
  BY DEF InSpace, NeverTooBig
<1> QED BY <1>1, <1>2, <1>3, Invariance, PTL DEF Spec

-----------------------------------------------------------------------------
(* The log implements an atomic disk *)

\* Where recovery finds each block.
LEMMA RecoveredBlocks ==
    ASSUME TypeOK, Names
    PROVE  /\ \A i \in 1..Len(hdr) : hdr[i] \in Blocks /\ Recovered[hdr[i]] = slots[i]
           /\ \A b \in Blocks \ Elems(hdr) : Recovered[b] = home[b]
           /\ DOMAIN Recovered = Blocks
<1>1. ASSUME NEW i \in 1..Len(hdr)
      PROVE  hdr[i] \in Blocks /\ Recovered[hdr[i]] = slots[i]
  <2>1. hdr[i] \in Blocks /\ hdr[i] \in Elems(hdr)
    BY DEF TypeOK, Elems
  <2>2. \A j \in 1..Len(hdr) : hdr[j] = hdr[i] => j = i
    BY DEF Names, Distinct
  <2>3. (CHOOSE j \in 1..Len(hdr) : hdr[j] = hdr[i]) = i
    BY <2>2
  <2> QED BY <2>1, <2>3 DEF Recovered
<1> QED BY <1>1 DEF Recovered

\* While the disk's header is empty, recovery leaves the disk as it is.
LEMMA RecoveredHome == ASSUME TypeOK, hdr = <<>> PROVE Recovered = home
<1>1. Elems(hdr) = {}
  BY DEF Elems
<1> QED BY <1>1 DEF Recovered, TypeOK

\* Copying a block of the header home does not change what recovery leaves.
LEMMA InstallKeepsRecovered ==
    ASSUME IInv, InstallBlock, hdr = lh, tail < Len(lh), UNCHANGED <<slots, hdr, lh>>
    PROVE  Recovered' = Recovered
<1>1. tail + 1 \in 1..Len(lh) /\ lh[tail + 1] \in Blocks /\ lh[tail + 1] \in Elems(hdr)
  BY DEF IInv, TypeOK, Elems
<1>2. \A b \in Blocks \ Elems(hdr) : home'[b] = home[b]
  BY <1>1 DEF InstallBlock, IInv, TypeOK
<1>3. Elems(hdr') = Elems(hdr)
  OBVIOUS
<1>4. /\ Recovered = [b \in Blocks |-> IF b \in Elems(hdr)
                        THEN slots[CHOOSE i \in 1..Len(hdr) : hdr[i] = b] ELSE home[b]]
      /\ Recovered' = [b \in Blocks |-> IF b \in Elems(hdr)
                        THEN slots[CHOOSE i \in 1..Len(hdr) : hdr[i] = b] ELSE home'[b]]
  BY DEF Recovered
<1> QED BY <1>2, <1>4

\* When every block of the header is home, recovery leaves the disk as it is.
LEMMA RecoveredInstalled ==
    ASSUME IInv, hdr = lh, Copied(home, Len(lh)) PROVE Recovered = home
<1>1. \A i \in 1..Len(hdr) : Recovered[hdr[i]] = home[hdr[i]]
  BY RecoveredBlocks DEF IInv, Copied
<1>2. \A b \in Blocks : Recovered[b] = home[b]
  BY <1>1, RecoveredBlocks DEF IInv, Elems
<1> QED BY <1>2 DEF Recovered, IInv, TypeOK

Seen == [b \in Blocks |-> Bread(b)]

LEMMA SeenHome == ASSUME TypeOK, dirty = {} PROVE Seen = home
BY DEF Seen, Bread, TypeOK

\* What the calls see is the buffer cache once the system is up.
LEMMA CurrentSeen == /\ phase \notin Booting => Current = Seen
                     /\ phase \in Booting => Current = Recovered
BY DEF Current, Seen, Booting

LEMMA SameDisk ==
    ASSUME UNCHANGED <<disk, cache, dirty>>
    PROVE  Recovered' = Recovered /\ Seen' = Seen
BY DEF disk, Recovered, Seen, Bread, Elems

LEMMA CallMaps ==
    ASSUME IInv, NEW p \in Ops, Call(p) \/ BeginSleep(p) \/ LogCheck(p)
    PROVE  UNCHANGED AD!dvars
<1>1. Recovered' = Recovered /\ Current' = Current
  BY SameDisk, CurrentSeen DEF Call, BeginSleep, LogCheck, Current, Seen
<1>2. Active' = Active
  BY DEF Call, BeginSleep, LogCheck, Active, IInv, TypeOK
<1> QED BY <1>1, <1>2 DEF AD!dvars

LEMMA BeginMaps == ASSUME IInv, NEW p \in Ops, BeginOp(p) PROVE AD!Begin(p)
<1>1. Recovered' = Recovered /\ Current' = Current
  BY SameDisk DEF BeginOp, Current, Seen
<1>2. Active' = Active \cup {p} /\ p \notin Active
  BY DEF BeginOp, Active, IInv, TypeOK
<1> QED BY <1>1, <1>2 DEF AD!Begin

LEMMA WriteMaps ==
    ASSUME IInv, NEW p \in Ops, NEW b \in Blocks, NEW v \in Vals, LogWrite(p, b, v)
    PROVE  AD!Write(p, b, v)
<1> USE DEF LogWrite
<1>1. Recovered' = Recovered
  BY DEF disk, Recovered, Elems
<1>2. Active' = Active /\ p \in Active
  BY DEF Active, IInv, TypeOK
<1>3. phase \notin Booting /\ phase' = phase
  BY DEF IInv, Phased, Booting
<1>4. Seen' = [Seen EXCEPT ![b] = v]
  BY DEF Seen, Bread, disk, IInv, TypeOK
<1>5. Current' = [Current EXCEPT ![b] = v]
  BY <1>3, <1>4 DEF Current, Seen, Booting
<1> QED BY <1>1, <1>2, <1>5 DEF AD!Write

LEMMA EndMaps == ASSUME IInv, NEW p \in Ops, EndOp(p) \/ EndOpLast(p) PROVE AD!End(p)
<1> USE DEF EndOp, EndOpLast
<1>1. Recovered' = Recovered /\ Seen' = Seen
  BY SameDisk
<1>2. p \in Active
  BY DEF Active
<1>3. Active' = Active \ {p}
  BY EndOpIInv, EndOpLastIInv
<1>4. phase = "idle"
  BY <1>2, CallsIdle
<1>5. Current = Seen /\ Current' = Seen'
  BY <1>4 DEF Current, Seen
<1> QED BY <1>1, <1>2, <1>3, <1>5 DEF AD!End

LEMMA CommitMaps == ASSUME IInv, Commit PROVE AD!Commit \/ UNCHANGED AD!dvars
<1>1. CASE WriteLog
  <2>1. hdr = <<>> /\ Recovered' = Recovered /\ Seen' = Seen
    <3>1. hdr = <<>> /\ Elems(hdr) = {} /\ Elems(hdr') = {}
      BY <1>1 DEF WriteLog, IInv, Copies, Elems
    <3> QED BY <1>1, <3>1 DEF WriteLog, Recovered, Seen, Bread
  <2>2. Current' = Current /\ Active' = Active
    BY <1>1, <2>1 DEF WriteLog, Current, Seen, Active
  <2> QED BY <2>1, <2>2 DEF AD!dvars
<1>2. CASE WriteHead
  <2>1. Active = {} /\ Active' = {}
    BY <1>2, CallsIdle DEF WriteHead, Active
  <2>2. Current = Seen /\ Current' = Seen /\ Seen' = Seen
    BY <1>2 DEF WriteHead, Current, Seen, Bread
  <2>3. /\ \A i \in 1..Len(hdr') : hdr'[i] \in Blocks /\ Recovered'[hdr'[i]] = slots[i]
        /\ \A b \in Blocks \ Elems(hdr') : Recovered'[b] = home[b]
    <3>1. hdr' = lh /\ home' = home /\ slots' = slots /\ lh \in Seq(Blocks) /\ Distinct(lh)
      BY <1>2 DEF WriteHead, IInv, TypeOK, Names
    <3>2. Recovered' = [b \in Blocks |-> IF b \in Elems(lh)
                         THEN slots[CHOOSE i \in 1..Len(lh) : lh[i] = b] ELSE home[b]]
      BY <3>1 DEF Recovered, Elems
    <3>3. ASSUME NEW i \in 1..Len(lh) PROVE lh[i] \in Blocks /\ Recovered'[lh[i]] = slots[i]
      <4>1. lh[i] \in Blocks /\ lh[i] \in Elems(lh)
        BY <3>1 DEF Elems
      <4>2. (CHOOSE j \in 1..Len(lh) : lh[j] = lh[i]) = i
        BY <3>1 DEF Distinct
      <4> QED BY <3>2, <4>1, <4>2
    <3> QED BY <3>1, <3>2, <3>3
  <2>4. hdr' = lh /\ dirty = Elems(lh) /\ \A i \in 1..Len(lh) : cache[lh[i]] = slots[i]
    BY <1>2 DEF WriteHead, IInv, Copies, Copied
  <2>5. ASSUME NEW b \in Blocks PROVE Recovered'[b] = Seen[b]
    <3>1. CASE b \in Elems(lh)
      <4>1. PICK i \in 1..Len(lh) : b = lh[i]
        BY <3>1 DEF Elems
      <4> QED BY <2>3, <2>4, <3>1, <4>1 DEF Seen, Bread
    <3>2. CASE b \notin Elems(lh)
      BY <2>3, <2>4, <3>2 DEF Seen, Bread
    <3> QED BY <3>1, <3>2
  <2>6. Recovered' = Seen
    BY <2>5 DEF Recovered, Seen
  <2> QED BY <2>1, <2>2, <2>6 DEF AD!Commit
<1>3. CASE Install
  <2> USE DEF Install, InstallBlock
  <2>1. hdr = lh /\ tail < Len(lh) /\ tail \in Nat
    BY <1>3 DEF IInv, Copies, TypeOK
  <2>2. Recovered' = Recovered
    BY <1>3, <2>1, InstallKeepsRecovered
  <2> DEFINE c == lh[tail + 1]
  <2>3. c \in dirty /\ cache[c] = slots[tail + 1] /\ c \in Blocks
    BY <1>3, <2>1 DEF IInv, Copies, TypeOK
  <2>4. ASSUME NEW b \in Blocks PROVE Bread(b)' = Bread(b)
    BY <1>3, <2>3 DEF Bread, IInv, TypeOK
  <2>5. Seen' = Seen
    BY <2>4 DEF Seen
  <2>6. Current' = Current /\ Active' = Active
    BY <1>3, <2>5 DEF Current, Seen, Active
  <2> QED BY <2>2, <2>6 DEF AD!dvars
<1>4. CASE Clear
  <2>1. Recovered = home
    BY <1>4, RecoveredInstalled DEF Clear, IInv, Copies
  <2>2. Recovered' = home'
    <3>1. Elems(hdr') = {} /\ home' \in [Blocks -> Vals]
      BY <1>4 DEF Clear, Elems, IInv, TypeOK
    <3> QED BY <3>1 DEF Recovered, Elems
  <2>3. home' = home /\ Seen' = Seen
    BY <1>4 DEF Clear, Seen, Bread
  <2>4. Current' = Current /\ Active' = Active
    BY <1>4, <2>3 DEF Clear, Current, Seen, Active
  <2> QED BY <2>1, <2>2, <2>3, <2>4 DEF AD!dvars
<1>5. ASSUME NEW p \in Ops, EndCommit(p) PROVE UNCHANGED AD!dvars
  <2>1. Recovered' = Recovered /\ Seen' = Seen
    BY <1>5, SameDisk DEF EndCommit
  <2>2. Current' = Current
    BY <1>5, <2>1 DEF EndCommit, Current, Seen
  <2>3. Active' = Active
    BY <1>5 DEF EndCommit, Wakeup, Active, IInv, TypeOK
  <2> QED BY <2>1, <2>2, <2>3 DEF AD!dvars
<1> QED BY <1>1, <1>2, <1>3, <1>4, <1>5 DEF Commit

LEMMA RecoverMaps == ASSUME IInv, Recover PROVE UNCHANGED AD!dvars
<1>1. CASE ReadHead
  <2>1. Recovered' = Recovered /\ Active' = Active
    BY <1>1, SameDisk DEF ReadHead, Active
  <2>2. Current = Recovered /\ Current' = Recovered'
    BY <1>1 DEF ReadHead, Current
  <2> QED BY <2>1, <2>2 DEF AD!dvars
<1>2. CASE Reinstall
  <2>1. Recovered' = Recovered /\ Active' = Active
    BY <1>2, InstallKeepsRecovered DEF Reinstall, Active, IInv, Copies
  <2>2. Current = Recovered /\ Current' = Recovered'
    BY <1>2 DEF Reinstall, Current
  <2> QED BY <2>1, <2>2 DEF AD!dvars
<1>3. CASE Reclear
  <2>1. Recovered = home /\ Current = Recovered /\ dirty = {}
    BY <1>3, RecoveredInstalled DEF Reclear, IInv, Copies, Current
  <2>2. Recovered' = home'
    <3>1. Elems(hdr') = {} /\ home' \in [Blocks -> Vals]
      BY <1>3 DEF Reclear, Elems, IInv, TypeOK
    <3> QED BY <3>1 DEF Recovered, Elems
  <2>3. Seen = home /\ Seen' = Seen /\ home' = home
    BY <1>3, <2>1, SeenHome DEF Reclear, Seen, Bread, IInv
  <2>4. Current' = Seen' /\ Active' = Active
    BY <1>3 DEF Reclear, Current, Seen, Active
  <2> QED BY <2>1, <2>2, <2>3, <2>4 DEF AD!dvars
<1> QED BY <1>1, <1>2, <1>3 DEF Recover

LEMMA CrashMaps == ASSUME IInv, Crash PROVE AD!Crash
<1>1. Recovered' = Recovered /\ Current' = Recovered'
  BY DEF Crash, disk, Recovered, Elems, Current
<1> QED BY <1>1, CrashIInv DEF AD!Crash

LEMMA InitMaps == Init => AD!Init
<1> SUFFICES ASSUME Init PROVE AD!Init
  OBVIOUS
<1>1. Recovered = Blank
  BY InitIInv, RecoveredHome DEF Init, IInv
<1>2. Current = Recovered /\ Active = {}
  BY DEF Init, Current, Active
<1> QED BY <1>1, <1>2 DEF AD!Init

LEMMA NextMaps == IInv /\ [Next]_vars => [AD!Next]_AD!dvars
<1> SUFFICES ASSUME IInv, [Next]_vars PROVE [AD!Next]_AD!dvars
  OBVIOUS
<1>1. ASSUME NEW p \in Ops, Call(p) \/ BeginSleep(p) \/ LogCheck(p) PROVE UNCHANGED AD!dvars
  BY <1>1, CallMaps
<1>2. ASSUME NEW p \in Ops, BeginOp(p) \/ EndOp(p) \/ EndOpLast(p) PROVE AD!Next
  BY <1>2, BeginMaps, EndMaps DEF AD!Next
<1>3. ASSUME NEW p \in Ops, NEW b \in Blocks, NEW v \in Vals, LogWrite(p, b, v) PROVE AD!Next
  BY <1>3, WriteMaps DEF AD!Next
<1>4. CASE Commit
  BY <1>4, CommitMaps DEF AD!Next
<1>5. CASE Recover
  BY <1>5, RecoverMaps
<1>6. CASE Crash
  BY <1>6, CrashMaps DEF AD!Next
<1>7. CASE UNCHANGED vars
  <2>1. Recovered' = Recovered /\ Seen' = Seen
    BY <1>7, SameDisk DEF vars
  <2> QED BY <1>7, <2>1 DEF vars, Current, Seen, Active, AD!dvars
<1> QED BY <1>1, <1>2, <1>3, <1>4, <1>5, <1>6, <1>7 DEF Next

\* The log implements the atomic disk: wherever a crash falls, recovery brings
\* back the last committed transaction, whole and alone.
THEOREM Refinement == Spec => ImplementsAtomicDisk
BY InitMaps, NextMaps, Invariance, PTL DEF Spec, ImplementsAtomicDisk, AD!Spec
=============================================================================
