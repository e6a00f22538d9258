--------------------------- MODULE Spinlock_proofs ---------------------------
(* Proofs about Spinlock, for any number of CPUs, processes and interrupt      *)
(* frames: type correctness, mutual exclusion, that no panic is reached, that  *)
(* interrupts are on exactly where they should be, and that myproc returns its *)
(* caller.                                                                     *)
EXTENDS Spinlock, FiniteSetTheorems, TLAPS

USE SpinlockAssumption

-----------------------------------------------------------------------------
(* What a point of the code means, apart from the state it is reached in       *)

\* The places of the interrupt handler, which has a frame under it
HandlerPlaces == {"tick_acq", "wake_acq", "wake_up", "wake_rel", "tick_rel", "intr_end",
                  "yield_acq", "yield_sched", "yield_swtch", "yield_rel", "iret"}

\* Where only a process is, where only a scheduler is, and where swtch leaves a process
YieldPlaces == {"yield_acq", "yield_sched", "yield_swtch", "yield_rel"}
SchedPlaces == {"loop", "scan_acq", "scan", "scan_rel"}
SwitchPlaces == {"sleep_swtch", "yield_swtch"}
Plain == {"user", "sleep_sched", "sleep_swtch", "ret", "alloc", "fork_run", "wake_up",
          "intr_end", "yield_sched", "yield_swtch", "iret", "loop", "scan", "fret"}

Points == (Acquires \X (1..5)) \cup (Releases \X (1..4)) \cup ({"myproc"} \X (1..5))
          \cup (Plain \X {1})

\* How many pushclis are not yet popped
Depth(k) == (IF k[1] \in Inside["tickslock"] THEN 1 ELSE 0)
            + (IF k[1] \in Inside["ptable"] THEN 1 ELSE 0)
            + (IF k[1] \in Acquires \cup {"myproc"} /\ k[2] >= 3 THEN 1 ELSE 0)

\* Owns, of the point at which the CPU's thread is
OwnsAt(k, l) ==
    \/ k[1] \in Inside[l] /\ ~(k[1] \in Releases /\ LockOf(k[1]) = l /\ k[2] = 4)
    \/ k[1] \in Acquires /\ LockOf(k[1]) = l /\ k[2] = 5

\* The lock has the CPU's mark.
MarkedAt(k, l) == k[1] \in Inside[l] /\ ~(k[1] \in Releases /\ LockOf(k[1]) = l /\ k[2] \in {3, 4})

\* The points that are in t's code: a process is never in the scheduler's, nor a
\* scheduler outside it but for interrupts.
Fits(t, k) == IF t \in Procs THEN k[1] \notin SchedPlaces
              ELSE k[1] \in SchedPlaces \cup (HandlerPlaces \ YieldPlaces)

\* Where swtch leaves a thread
Left(t) == IF t \in Procs THEN SwitchPlaces \X {1} \cup {<<"forkret", 1>>} ELSE {<<"scan", 1>>}

\* Where the intena of the CPU may be another thread's
Foreign == SwitchPlaces \cup {"scan", "scan_rel", "forkret"}

Here(c) == pc[run[c]]

-----------------------------------------------------------------------------
(* The inductive invariant, in parts                                          *)

PointsInv ==
    /\ pc \in [Threads -> Points]
    /\ \A t \in Threads : Fits(t, pc[t])

\* A thread runs on one CPU at most, a scheduler on its own.
RunInv ==
    /\ \A c \in CPUs : run[c] \in Procs \cup {Sched(c)}
    /\ \A c, d \in CPUs : run[c] = run[d] => c = d
    /\ \A p \in Procs : state[p] = "RUNNING" <=> \E c \in CPUs : run[c] = p

\* A thread that does not run is where swtch has left it.
OffInv == \A t \in Threads : (\A c \in CPUs : run[c] # t) => pc[t] \in Left(t)

\* A handler has one frame under it, of a point at which interrupts were on.
FramesInv == \A t \in Threads :
    IF pc[t][1] \in HandlerPlaces
    THEN \E k \in Points, e \in BOOLEAN :
            /\ frames[t] = <<[pc |-> k, eflags |-> e]>>
            /\ k[1] \notin HandlerPlaces /\ Depth(k) = 0 /\ Fits(t, k)
            /\ k[2] = 2 => e
    ELSE frames[t] = <<>>

DepthInv == \A c \in CPUs : ncli[c] = Depth(Here(c))

FlagInv == \A c \in CPUs :
    /\ Depth(Here(c)) > 0 \/ Here(c)[1] \in HandlerPlaces => ~flag[c]
    /\ Depth(Here(c)) = 0 /\ Here(c)[1] \notin HandlerPlaces \cup {"loop", "fret"} => flag[c]

\* pushcli has read the flag, and it is still so.
EflagsInv == \A c \in CPUs :
    Here(c)[1] \in Acquires \cup {"myproc"} /\ Here(c)[2] = 2 => eflags[run[c]] = flag[c]

\* What popcli will restore; after a swtch, what sched will.
IntenaInv ==
    /\ \A c \in CPUs : Depth(Here(c)) > 0 /\ Here(c)[1] \notin Foreign
                       => intena[c] = (Here(c)[1] \notin HandlerPlaces)
    /\ \A p \in Procs : pc[p][1] \in SwitchPlaces => saved[p] = (pc[p][1] \notin HandlerPlaces)

\* The owners of the locks
LockInv == \A c \in CPUs, l \in Locks :
    /\ OwnsAt(Here(c), l) => locked[l]
    /\ holder[l] = c <=> MarkedAt(Here(c), l)
    /\ \A d \in CPUs : OwnsAt(Here(c), l) /\ OwnsAt(Here(d), l) => c = d

\* The CPU that myproc has found is the one it is on.
HereInv == \A c \in CPUs : Here(c) = <<"myproc", 4>> => here[run[c]] = c

\* A child that fork has allocated is nobody else's, and does not run.
KidInv ==
    /\ \A p \in Procs : kid[p] # NoKid => state[kid[p]] = "EMBRYO"
    /\ \A p, q \in Procs : kid[p] = kid[q] /\ kid[p] # NoKid => p = q

ValuesInv ==
    /\ flag \in [CPUs -> BOOLEAN] /\ intena \in [CPUs -> BOOLEAN] /\ ncli \in [CPUs -> Nat]
    /\ run \in [CPUs -> Threads] /\ pos \in [CPUs -> 1..(NPROC + 1)]
    /\ locked \in [Locks -> BOOLEAN] /\ holder \in [Locks -> CPUs \cup {NoCpu}]
    /\ state \in [Procs -> {"UNUSED", "EMBRYO", "SLEEPING", "RUNNABLE", "RUNNING"}]
    /\ eflags \in [Threads -> BOOLEAN] /\ DOMAIN frames = Threads
    /\ here \in [Procs -> CPUs \cup {NoCpu}] /\ saved \in [Procs -> BOOLEAN]
    /\ kid \in [Procs -> Procs \cup {NoKid}] /\ panicked \in BOOLEAN

IInv == /\ ValuesInv /\ PointsInv /\ RunInv /\ OffInv /\ FramesInv /\ DepthInv /\ FlagInv
        /\ EflagsInv /\ IntenaInv /\ LockInv /\ HereInv /\ KidInv /\ ~panicked

-----------------------------------------------------------------------------
(* The code, as tables                                                        *)

\* The edges of the code, one by one
LEMMA FlowIs == Flow = {
    <<"user", "myproc">>, <<"myproc", "sys_acq">>, <<"sys_acq", "sleep_acq">>,
    <<"sleep_acq", "sleep_rel">>, <<"sleep_rel", "sleep_sched">>,
    <<"sleep_sched", "sleep_swtch">>, <<"sleep_swtch", "sleep_back">>,
    <<"sleep_back", "sleep_reacq">>, <<"sleep_reacq", "sleep_acq">>,
    <<"sleep_reacq", "sys_rel">>, <<"sys_rel", "ret">>, <<"ret", "user">>,
    <<"sys_acq", "sys_rel">>, <<"myproc", "alloc_acq">>, <<"alloc_acq", "alloc">>,
    <<"alloc", "alloc_rel">>, <<"alloc_rel", "fork_acq">>,
    <<"fork_acq", "fork_run">>, <<"fork_run", "fork_rel">>, <<"fork_rel", "ret">>,
    <<"full_rel", "ret">>, <<"tick_acq", "wake_acq">>, <<"wake_acq", "wake_up">>,
    <<"wake_up", "wake_rel">>, <<"wake_rel", "tick_rel">>,
    <<"tick_rel", "intr_end">>, <<"yield_acq", "yield_sched">>,
    <<"yield_sched", "yield_swtch">>, <<"yield_swtch", "yield_rel">>,
    <<"yield_rel", "iret">>, <<"loop", "scan_acq">>, <<"scan_acq", "scan">>,
    <<"scan", "scan_rel">>, <<"scan_rel", "loop">>, <<"forkret", "fret">>,
    <<"fret", "user">>}
<1>1. Path(<<"user", "myproc", "sys_acq", "sleep_acq", "sleep_rel", "sleep_sched", "sleep_swtch", "sleep_back", "sleep_reacq", "sleep_acq">>)
      = {<<"user", "myproc">>, <<"myproc", "sys_acq">>, <<"sys_acq", "sleep_acq">>, <<"sleep_acq", "sleep_rel">>, <<"sleep_rel", "sleep_sched">>, <<"sleep_sched", "sleep_swtch">>, <<"sleep_swtch", "sleep_back">>, <<"sleep_back", "sleep_reacq">>, <<"sleep_reacq", "sleep_acq">>}
  BY DEF Path
<1>2. Path(<<"sleep_reacq", "sys_rel", "ret", "user">>)
      = {<<"sleep_reacq", "sys_rel">>, <<"sys_rel", "ret">>, <<"ret", "user">>}
  BY DEF Path
<1>3. Path(<<"sys_acq", "sys_rel">>)
      = {<<"sys_acq", "sys_rel">>}
  BY DEF Path
<1>4. Path(<<"myproc", "alloc_acq", "alloc", "alloc_rel", "fork_acq", "fork_run", "fork_rel", "ret">>)
      = {<<"myproc", "alloc_acq">>, <<"alloc_acq", "alloc">>, <<"alloc", "alloc_rel">>, <<"alloc_rel", "fork_acq">>, <<"fork_acq", "fork_run">>, <<"fork_run", "fork_rel">>, <<"fork_rel", "ret">>}
  BY DEF Path
<1>5. Path(<<"full_rel", "ret">>)
      = {<<"full_rel", "ret">>}
  BY DEF Path
<1>6. Path(<<"tick_acq", "wake_acq", "wake_up", "wake_rel", "tick_rel", "intr_end">>)
      = {<<"tick_acq", "wake_acq">>, <<"wake_acq", "wake_up">>, <<"wake_up", "wake_rel">>, <<"wake_rel", "tick_rel">>, <<"tick_rel", "intr_end">>}
  BY DEF Path
<1>7. Path(<<"yield_acq", "yield_sched", "yield_swtch", "yield_rel", "iret">>)
      = {<<"yield_acq", "yield_sched">>, <<"yield_sched", "yield_swtch">>, <<"yield_swtch", "yield_rel">>, <<"yield_rel", "iret">>}
  BY DEF Path
<1>8. Path(<<"loop", "scan_acq", "scan", "scan_rel", "loop">>)
      = {<<"loop", "scan_acq">>, <<"scan_acq", "scan">>, <<"scan", "scan_rel">>, <<"scan_rel", "loop">>}
  BY DEF Path
<1>9. Path(<<"forkret", "fret", "user">>)
      = {<<"forkret", "fret">>, <<"fret", "user">>}
  BY DEF Path
<1> QED
  BY <1>1, <1>2, <1>3, <1>4, <1>5, <1>6, <1>7, <1>8, <1>9 DEF Flow

LEMMA Steps ==
  /\ \A pl \in Acquires : StepsOf(pl) = AcquireSteps
  /\ \A pl \in Releases : StepsOf(pl) = ReleaseSteps
  /\ StepsOf("myproc") = MyprocSteps
  /\ \A pl \in Plain : StepsOf(pl) = <<pl>>
BY DEF StepsOf, Acquires, Releases, Plain

\* The points of each step
LEMMA StepPoints ==
  ASSUME NEW k \in Points, NEW st, st = StepsOf(k[1])[k[2]]
  PROVE  /\ st = "read" => k \in (Acquires \cup {"myproc"}) \X {1}
         /\ st = "push" => k \in (Acquires \cup {"myproc"}) \X {2}
         /\ st = "unheld" => k \in Acquires \X {3}
         /\ st = "xchg" => k \in Acquires \X {4}
         /\ st = "mark" => k \in Acquires \X {5}
         /\ st = "held" => k \in Releases \X {1}
         /\ st = "clear" => k \in Releases \X {2}
         /\ st = "unlock" => k \in Releases \X {3}
         /\ st = "pop" => k \in (Releases \X {4}) \cup ({"myproc"} \X {5})
         /\ st = "mycpu" => k = <<"myproc", 3>>
         /\ st = "load" => k = <<"myproc", 4>>
         /\ st \in Plain => k = <<st, 1>>
<1>1. CASE k \in Acquires \X (1..5)
  <2>1. k[2] \in 1..5 /\ st = AcquireSteps[k[2]]
    BY <1>1, Steps
  <2> QED
    BY <1>1, <2>1 DEF AcquireSteps, Plain
<1>2. CASE k \in Releases \X (1..4)
  <2>1. k[2] \in 1..4 /\ st = ReleaseSteps[k[2]]
    BY <1>2, Steps
  <2> QED
    BY <1>2, <2>1 DEF ReleaseSteps, Plain
<1>3. CASE k \in {"myproc"} \X (1..5)
  <2>1. k[2] \in 1..5 /\ st = MyprocSteps[k[2]]
    BY <1>3, Steps
  <2> QED
    BY <1>3, <2>1 DEF MyprocSteps, Plain
<1>4. CASE k \in Plain \X {1}
  <2>1. st = k[1] /\ k[1] \in Plain /\ k[2] = 1
    BY <1>4, Steps
  <2> QED
    BY <1>4, <2>1 DEF Plain
<1> QED
  BY <1>1, <1>2, <1>3, <1>4 DEF Points

\* What Advance leads to from k
After(k, k2) == IF k[2] < Len(StepsOf(k[1])) THEN k2 = <<k[1], k[2] + 1>>
                ELSE \E edge \in Flow : edge[1] = k[1] /\ k2 = Enter(edge[2])

\* The last points of the places
LastPoints == (Acquires \X {5}) \cup (Releases \X {4}) \cup {<<"myproc", 5>>} \cup (Plain \X {1})

LEMMA AfterWithin ==
  ASSUME NEW k \in Points \ LastPoints, NEW k2, After(k, k2)
  PROVE  k2 \in Points /\ k2 = <<k[1], k[2] + 1>>
<1>1. CASE k \in Acquires \X (1..4)
  <2>1. Len(StepsOf(k[1])) = 5
    BY <1>1, Steps DEF AcquireSteps
  <2> QED
    BY <1>1, <2>1 DEF After, Points
<1>2. CASE k \in Releases \X (1..3)
  <2>1. Len(StepsOf(k[1])) = 4
    BY <1>2, Steps DEF ReleaseSteps
  <2> QED
    BY <1>2, <2>1 DEF After, Points
<1>3. CASE k \in {"myproc"} \X (1..4)
  <2>1. Len(StepsOf(k[1])) = 5
    BY <1>3, Steps DEF MyprocSteps
  <2> QED
    BY <1>3, <2>1 DEF After, Points
<1> QED
  BY <1>1, <1>2, <1>3 DEF Points, LastPoints

\* The kind of place is the same, as only an interrupt changes it.
SameKind(a, b) == /\ a \in HandlerPlaces <=> b \in HandlerPlaces
                  /\ a \in SchedPlaces <=> b \in SchedPlaces
                  /\ a \in YieldPlaces => b \in YieldPlaces \cup {"iret"}
                  /\ b \in YieldPlaces => a \in YieldPlaces

LEMMA AfterLast ==
  ASSUME NEW k \in LastPoints, NEW k2, After(k, k2)
  PROVE  /\ k2 \in Points /\ k2[2] = 1
         /\ \E edge \in Flow : edge[1] = k[1] /\ k2[1] = edge[2]
<1>1. k[2] = Len(StepsOf(k[1]))
  <2>1. CASE k \in Acquires \X {5}
    <3>1. Len(StepsOf(k[1])) = 5
      BY <2>1, Steps DEF AcquireSteps
    <3> QED
      BY <2>1, <3>1
  <2>2. CASE k \in Releases \X {4}
    <3>1. Len(StepsOf(k[1])) = 4
      BY <2>2, Steps DEF ReleaseSteps
    <3> QED
      BY <2>2, <3>1
  <2>3. CASE k = <<"myproc", 5>>
    BY <2>3, Steps DEF MyprocSteps
  <2>4. CASE k \in Plain \X {1}
    <3>1. StepsOf(k[1]) = <<k[1]>>
      BY <2>4, Steps
    <3>2. Len(StepsOf(k[1])) = 1
      BY <3>1
    <3> QED
      BY <2>4, <3>2
  <2> QED
    BY <2>1, <2>2, <2>3, <2>4 DEF LastPoints
<1>2. PICK edge \in Flow : edge[1] = k[1] /\ k2 = <<edge[2], 1>>
  BY <1>1 DEF After, Enter
<1>3. edge[2] \in Acquires \cup Releases \cup {"myproc"} \cup Plain
  BY FlowIs DEF Acquires, Releases, Plain
<1> QED
  BY <1>2, <1>3 DEF Points

LEMMA EdgeKind == \A edge \in Flow : SameKind(edge[1], edge[2])
BY FlowIs DEF SameKind, HandlerPlaces, SchedPlaces, YieldPlaces

\* The locks that the next place is entered with
LEMMA EdgeInside ==
  ASSUME NEW edge \in Flow
  PROVE  \A l \in Locks : edge[2] \in Inside[l] <=>
            IF edge[1] \in Acquires /\ LockOf(edge[1]) = l THEN TRUE
            ELSE IF edge[1] \in Releases /\ LockOf(edge[1]) = l THEN FALSE
            ELSE edge[1] \in Inside[l]
BY FlowIs DEF Inside, Locks, LockOf, Acquires, Releases

\* A lock is acquired where it is not held, and released where it is.
LEMMA InsideKind ==
  /\ \A pl \in Acquires : LockOf(pl) \in Locks /\ pl \notin Inside[LockOf(pl)] /\ pl \notin Releases
  /\ \A pl \in Releases : LockOf(pl) \in Locks /\ pl \in Inside[LockOf(pl)] /\ pl \notin Acquires
  /\ \A pl \in Plain \cup {"myproc"} : pl \notin Acquires \cup Releases
  /\ \A l \in Locks : "myproc" \notin Inside[l]
BY DEF Inside, Locks, LockOf, Acquires, Releases, Plain

LEMMA EdgeForeign ==
  \A edge \in Flow :
      /\ edge[1] \in Foreign \ SwitchPlaces => edge[2] \in Foreign \cup {"loop", "fret"}
      /\ edge[2] \in {"loop", "fret"} => edge[1] \in {"scan_rel", "forkret"}
      /\ edge[2] \in SwitchPlaces => edge[1] \in {"sleep_sched", "yield_sched"}
BY FlowIs DEF Foreign, SwitchPlaces

-----------------------------------------------------------------------------
(* What a step does to what the point means: pushcli and popcli change the     *)
(* depth, the xchg and the store of release the ownership, the two stores to   *)
(* lk->cpu the mark, and nothing else does.                                    *)

Pushes == (Acquires \cup {"myproc"}) \X {2}
Pops == (Releases \X {4}) \cup {<<"myproc", 5>>}

LEMMA DepthAfter ==
  ASSUME NEW k \in Points, NEW k2, After(k, k2)
  PROVE  /\ Depth(k) \in Nat /\ Depth(k2) \in Nat
         /\ Depth(k2) = Depth(k) + (IF k \in Pushes THEN 1 ELSE IF k \in Pops THEN -1 ELSE 0)
<1>1. Depth(k) \in Nat /\ Depth(k2) \in Nat
  BY DEF Depth
<1>2. CASE k \notin LastPoints
  <2>1. k2 = <<k[1], k[2] + 1>> /\ k[2] \in Nat
    BY <1>2, AfterWithin DEF Points
  <2>2. k \notin Pops
    BY <1>2 DEF Pops, LastPoints
  <2>3. k \in Pushes <=> k[1] \in Acquires \cup {"myproc"} /\ k[2] = 2
    BY DEF Pushes, Points
  <2> QED
    BY <1>1, <2>1, <2>2, <2>3 DEF Depth
<1>3. CASE k \in LastPoints
  <2>1. PICK edge \in Flow : k[1] = edge[1] /\ k2[1] = edge[2] /\ k2[2] = 1
    BY <1>3, AfterLast
  <2>2. k \notin Pushes
    BY <1>3, InsideKind DEF Pushes, LastPoints, Plain
  <2>3. CASE k \in Acquires \X {5}
    <3>1. k \notin Pops
      BY <2>3, InsideKind DEF Pops
    <3> QED
      BY <2>1, <2>2, <2>3, <3>1, EdgeInside, InsideKind DEF Depth, Locks
  <2>4. CASE k \in Releases \X {4}
    <3>1. k \in Pops
      BY <2>4 DEF Pops
    <3> QED
      BY <2>1, <2>2, <2>4, <3>1, EdgeInside, InsideKind DEF Depth, Locks
  <2>5. CASE k = <<"myproc", 5>>
    <3>1. k \in Pops
      BY <2>5 DEF Pops
    <3> QED
      BY <2>1, <2>2, <2>5, <3>1, EdgeInside, InsideKind DEF Depth, Locks
  <2>6. CASE k \in Plain \X {1}
    <3>1. k \notin Pops
      BY <2>6 DEF Pops
    <3> QED
      BY <2>1, <2>2, <2>6, <3>1, EdgeInside, InsideKind DEF Depth, Locks
  <2> QED
    BY <1>3, <2>3, <2>4, <2>5, <2>6 DEF LastPoints
<1> QED
  BY <1>1, <1>2, <1>3

LEMMA OwnsAfter ==
  ASSUME NEW k \in Points, NEW k2, After(k, k2), NEW l \in Locks
  PROVE  OwnsAt(k2, l) <=> IF k \in Acquires \X {4} /\ LockOf(k[1]) = l THEN TRUE
                           ELSE IF k \in Releases \X {3} /\ LockOf(k[1]) = l THEN FALSE
                           ELSE OwnsAt(k, l)
<1>1. CASE k \notin LastPoints
  <2>1. k2 = <<k[1], k[2] + 1>> /\ k[2] \in Nat
    BY <1>1, AfterWithin DEF Points
  <2>2. k = <<k[1], k[2]>> /\ (k[1] \in Releases => k[2] \in 1..3) /\ (k[1] \in Acquires => k[2] \in 1..4)
    BY <1>1, InsideKind DEF Points, LastPoints
  <2> QED
    BY <2>1, <2>2, InsideKind DEF OwnsAt
<1>2. CASE k \in LastPoints
  <2>1. PICK edge \in Flow : k[1] = edge[1] /\ k2[1] = edge[2] /\ k2[2] = 1
    BY <1>2, AfterLast
  <2>2. (k[1] \in Releases => k[2] = 4) /\ (k[1] \in Acquires => k[2] = 5)
    BY <1>2, InsideKind DEF LastPoints
  <2> QED
    BY <2>1, <2>2, EdgeInside, InsideKind DEF OwnsAt
<1> QED
  BY <1>1, <1>2

LEMMA MarkedAfter ==
  ASSUME NEW k \in Points, NEW k2, After(k, k2), NEW l \in Locks
  PROVE  MarkedAt(k2, l) <=> IF k \in Acquires \X {5} /\ LockOf(k[1]) = l THEN TRUE
                             ELSE IF k \in Releases \X {2} /\ LockOf(k[1]) = l THEN FALSE
                             ELSE MarkedAt(k, l)
<1>1. CASE k \notin LastPoints
  <2>1. k2 = <<k[1], k[2] + 1>> /\ k[2] \in Nat
    BY <1>1, AfterWithin DEF Points
  <2>2. k = <<k[1], k[2]>> /\ (k[1] \in Releases => k[2] \in 1..3) /\ (k[1] \in Acquires => k[2] \in 1..4)
    BY <1>1, InsideKind DEF Points, LastPoints
  <2> QED
    BY <2>1, <2>2, InsideKind DEF MarkedAt
<1>2. CASE k \in LastPoints
  <2>1. PICK edge \in Flow : k[1] = edge[1] /\ k2[1] = edge[2] /\ k2[2] = 1
    BY <1>2, AfterLast
  <2>2. k = <<k[1], k[2]>> /\ (k[1] \in Releases => k[2] = 4) /\ (k[1] \in Acquires => k[2] = 5)
    BY <1>2, InsideKind DEF LastPoints
  <2> QED
    BY <2>1, <2>2, EdgeInside, InsideKind DEF MarkedAt
<1> QED
  BY <1>1, <1>2

LEMMA KindAfter ==
  ASSUME NEW k \in Points, NEW k2, After(k, k2) PROVE k2 \in Points /\ SameKind(k[1], k2[1])
<1>1. CASE k \notin LastPoints
  BY <1>1, AfterWithin DEF SameKind
<1>2. CASE k \in LastPoints
  BY <1>2, AfterLast, EdgeKind
<1> QED
  BY <1>1, <1>2

LEMMA PlaceAfter ==
  ASSUME NEW k \in Points, NEW k2, After(k, k2)
  PROVE  /\ k2[2] = 2 => k2[1] = k[1] /\ k[2] = 1
         /\ k2 = <<"myproc", 4>> => k = <<"myproc", 3>>
         /\ k2[1] \in SwitchPlaces => k \in {<<"sleep_sched", 1>>, <<"yield_sched", 1>>}
         /\ k2[1] \in {"loop", "fret"} => k \in {<<"scan_rel", 4>>, <<"forkret", 4>>}
         /\ k[1] \in Foreign \ SwitchPlaces => k2[1] \in Foreign \/ k2[1] \in {"loop", "fret"}
<1>1. CASE k \notin LastPoints
  <2>1. k2 = <<k[1], k[2] + 1>> /\ k[2] \in Nat
    BY <1>1, AfterWithin DEF Points
  <2>2. k \in (Acquires \X (1..4)) \cup (Releases \X (1..3)) \cup ({"myproc"} \X (1..4))
    BY <1>1 DEF Points, LastPoints
  <2>3. k[1] \notin SwitchPlaces \cup {"loop", "fret"}
    BY <2>2, InsideKind DEF SwitchPlaces, Plain
  <2> QED
    BY <2>1, <2>2, <2>3
<1>2. CASE k \in LastPoints
  <2>1. PICK edge \in Flow : k[1] = edge[1] /\ k2[1] = edge[2] /\ k2[2] = 1
    BY <1>2, AfterLast
  <2>2. k = <<k[1], k[2]>> /\ (k[1] \in Releases => k[2] = 4) /\ (k[1] \in Plain => k[2] = 1)
    BY <1>2, InsideKind DEF LastPoints, Plain
  <2>3. {"scan_rel", "forkret"} \subseteq Releases /\ {"sleep_sched", "yield_sched"} \subseteq Plain
    BY DEF Releases, Plain
  <2> QED
    BY <2>1, <2>2, <2>3, EdgeForeign
<1> QED
  BY <1>1, <1>2

\* Where nothing is pushed no lock is held, and every place that swtch leads from or to
\* has ptable.lock alone.
LEMMA DepthMeans ==
  ASSUME NEW k \in Points
  PROVE  /\ Depth(k) \in Nat
         /\ Depth(k) = 0 => /\ \A l \in Locks : ~OwnsAt(k, l) /\ ~MarkedAt(k, l)
                            /\ k[1] \notin Foreign /\ k # <<"myproc", 4>>
                            /\ k[2] = 2 => k[1] \in Acquires \cup {"myproc"}
         /\ k[1] \in {"sleep_sched", "yield_sched", "sleep_swtch", "yield_swtch", "scan"}
            \/ k = <<"forkret", 1>>
            => /\ Depth(k) = 1
               /\ \A l \in Locks : /\ OwnsAt(k, l) <=> l = "ptable"
                                   /\ MarkedAt(k, l) <=> l = "ptable"
<1>1. Depth(k) \in Nat
  BY DEF Depth
<1>2. ASSUME Depth(k) = 0
      PROVE  /\ \A l \in Locks : k[1] \notin Inside[l]
             /\ ~(k[1] \in Acquires \cup {"myproc"} /\ k[2] >= 3)
  BY <1>2 DEF Depth, Locks
<1>3. ASSUME Depth(k) = 0
      PROVE  /\ \A l \in Locks : ~OwnsAt(k, l) /\ ~MarkedAt(k, l)
             /\ k[1] \notin Foreign /\ k # <<"myproc", 4>>
             /\ k[2] = 2 => k[1] \in Acquires \cup {"myproc"}
  <2>1. \A l \in Locks : ~OwnsAt(k, l) /\ ~MarkedAt(k, l)
    BY <1>2, <1>3 DEF OwnsAt, MarkedAt
  <2>2. Foreign \subseteq Inside["ptable"] /\ "ptable" \in Locks
    BY DEF Foreign, SwitchPlaces, Inside, Locks
  <2>3. k[1] \notin Releases
    BY <1>2, <1>3, InsideKind
  <2>4. k[2] = 2 => k[1] \in Acquires \cup {"myproc"}
    BY <2>3 DEF Points
  <2> QED
    BY <1>2, <1>3, <2>1, <2>2, <2>4
<1>4. ASSUME k[1] \in {"sleep_sched", "yield_sched", "sleep_swtch", "yield_swtch", "scan"}
             \/ k = <<"forkret", 1>>
      PROVE  /\ Depth(k) = 1
             /\ \A l \in Locks : /\ OwnsAt(k, l) <=> l = "ptable"
                                 /\ MarkedAt(k, l) <=> l = "ptable"
  <2>1. /\ k[1] \notin Acquires \cup {"myproc"} /\ k[1] \in Inside["ptable"]
        /\ k[1] \notin Inside["tickslock"] /\ Locks = {"tickslock", "ptable"}
        /\ k[1] \in Releases => k[2] = 1
    BY <1>4 DEF Acquires, Releases, Inside, Locks
  <2> QED
    BY <2>1 DEF Depth, OwnsAt, MarkedAt
<1> QED
  BY <1>1, <1>3, <1>4

-----------------------------------------------------------------------------
(* The steps                                                                   *)

\* c's thread comes to be at k; the other CPUs are where they were.
Moves(c, k) == Here(c)' = k /\ \A d \in CPUs \ {c} : Here(d)' = Here(d)

\* A thread that stays on its CPU
LEMMA Stays ==
  ASSUME PointsInv, RunInv, OffInv, NEW c \in CPUs, NEW k \in Points, Fits(run[c], k),
         Goto(c, k), run' = run
  PROVE  Moves(c, k) /\ PointsInv' /\ OffInv'
<1>1. run[c] \in Threads /\ pc' = [pc EXCEPT ![run[c]] = k]
  BY DEF RunInv, Threads, Goto
<1>2. Moves(c, k)
  BY <1>1 DEF PointsInv, RunInv, Here, Moves
<1>3. PointsInv'
  BY <1>1 DEF PointsInv, Fits
<1>4. OffInv'
  BY <1>1 DEF PointsInv, OffInv
<1> QED
  BY <1>2, <1>3, <1>4

\* It neither enters nor leaves an interrupt.
LEMMA FramesKept ==
  ASSUME PointsInv, RunInv, FramesInv, NEW c \in CPUs, NEW k \in Points, Goto(c, k),
         Here(c)[1] \in HandlerPlaces <=> k[1] \in HandlerPlaces, frames' = frames
  PROVE  FramesInv'
<1>1. run[c] \in Threads /\ pc' = [pc EXCEPT ![run[c]] = k]
  BY DEF RunInv, Threads, Goto
<1> QED
  BY <1>1 DEF PointsInv, FramesInv, Here

LEMMA HereIs ==
  ASSUME PointsInv, RunInv, NEW c \in CPUs
  PROVE  /\ run[c] \in Threads /\ Here(c) \in Points /\ Fits(run[c], Here(c))
         /\ \A st : At(c, st) => st = StepsOf(Here(c)[1])[Here(c)[2]]
BY DEF PointsInv, RunInv, Threads, Here, At

\* What the next step of the running thread leads to
LEMMA Advances ==
  ASSUME PointsInv, RunInv, OffInv, FramesInv, NEW c \in CPUs, Advance(c), run' = run,
         frames' = frames
  PROVE  \E k \in Points : /\ After(Here(c), k) /\ SameKind(Here(c)[1], k[1]) /\ Moves(c, k)
                           /\ Goto(c, k) /\ PointsInv' /\ OffInv' /\ FramesInv'
<1>1. run[c] \in Threads /\ Here(c) \in Points /\ Fits(run[c], Here(c))
  BY HereIs
<1>2. PICK k : After(Here(c), k) /\ Goto(c, k)
  BY DEF Advance, After, Here
<1>3. k \in Points /\ SameKind(Here(c)[1], k[1])
  BY <1>1, <1>2, KindAfter
<1>4. Fits(run[c], k)
  BY <1>1, <1>3 DEF Fits, SameKind
<1> QED
  BY <1>2, <1>3, <1>4, Stays, FramesKept DEF SameKind

\* What is kept by the steps that do not concern it
LEMMA DepthKept ==
  ASSUME DepthInv, NEW c \in CPUs, NEW k, Moves(c, k), ncli' = ncli, Depth(k) = Depth(Here(c))
  PROVE  DepthInv'
BY DEF DepthInv, Moves

LEMMA FlagKept ==
  ASSUME FlagInv, NEW c \in CPUs, NEW k, Moves(c, k), flag' = flag, Depth(k) = Depth(Here(c)),
         Here(c)[1] \in HandlerPlaces <=> k[1] \in HandlerPlaces,
         Depth(k) = 0 => Here(c)[1] \notin {"loop", "fret"}
  PROVE  FlagInv'
<1>1. \A d \in CPUs : Here(d)' = IF d = c THEN k ELSE Here(d)
  BY DEF Moves
<1> QED
  BY <1>1 DEF FlagInv

LEMMA EflagsKept ==
  ASSUME EflagsInv, ValuesInv, RunInv, run' = run, NEW c \in CPUs, NEW k, Moves(c, k),
         k[1] \in Acquires \cup {"myproc"} => k[2] # 2,
         NEW f, flag' = [flag EXCEPT ![c] = f], NEW e, eflags' = [eflags EXCEPT ![run[c]] = e]
  PROVE  EflagsInv'
<1>1. \A d \in CPUs : Here(d)' = IF d = c THEN k ELSE Here(d)
  BY DEF Moves
<1>2. \A d \in CPUs \ {c} : run[d] # run[c] /\ eflags'[run[d]] = eflags[run[d]] /\ flag'[d] = flag[d]
  BY DEF RunInv, ValuesInv
<1> QED
  BY <1>1, <1>2 DEF EflagsInv

LEMMA IntenaKept ==
  ASSUME IntenaInv, PointsInv, RunInv, NEW c \in CPUs, NEW k, Moves(c, k), Goto(c, k),
         intena' = intena, saved' = saved, k[1] \notin SwitchPlaces,
         Here(c)[1] \in HandlerPlaces <=> k[1] \in HandlerPlaces,
         Depth(k) > 0 /\ k[1] \notin Foreign => Depth(Here(c)) > 0 /\ Here(c)[1] \notin Foreign
  PROVE  IntenaInv'
<1>1. \A d \in CPUs : Here(d)' = IF d = c THEN k ELSE Here(d)
  BY DEF Moves
<1>2. \A p \in Procs : pc'[p] = IF p = run[c] THEN k ELSE pc[p]
  BY DEF Goto, PointsInv, Threads
<1>3. \A d \in CPUs : Depth(Here(d)') > 0 /\ Here(d)'[1] \notin Foreign
                      => intena'[d] = (Here(d)'[1] \notin HandlerPlaces)
  BY <1>1 DEF IntenaInv
<1>4. \A p \in Procs : pc'[p][1] \in SwitchPlaces => saved'[p] = (pc'[p][1] \notin HandlerPlaces)
  BY <1>2 DEF IntenaInv
<1> QED
  BY <1>3, <1>4 DEF IntenaInv

LEMMA LockKept ==
  ASSUME LockInv, NEW c \in CPUs, NEW k, Moves(c, k), locked' = locked, holder' = holder,
         \A l \in Locks : /\ OwnsAt(k, l) <=> OwnsAt(Here(c), l)
                          /\ MarkedAt(k, l) <=> MarkedAt(Here(c), l)
  PROVE  LockInv'
<1>1. \A d \in CPUs, l \in Locks : /\ OwnsAt(Here(d)', l) <=> OwnsAt(Here(d), l)
                                   /\ MarkedAt(Here(d)', l) <=> MarkedAt(Here(d), l)
  BY DEF Moves
<1> QED
  BY <1>1 DEF LockInv

LEMMA HereKept ==
  ASSUME HereInv, run' = run, here' = here, NEW c \in CPUs, NEW k, Moves(c, k),
         k # <<"myproc", 4>>
  PROVE  HereInv'
BY DEF HereInv, Moves

\* The steps that leave the interrupts and who runs where alone
QuietSteps == {"unheld", "xchg", "mark", "held", "clear", "unlock", "mycpu", "load", "user",
               "alloc", "fork_run", "wake_up", "scan"}

LEMMA QuietStep ==
  ASSUME IInv, NEW c \in CPUs, NEW st \in QuietSteps, At(c, st), Advance(c),
         UNCHANGED <<flag, ncli, intena, run, frames, eflags, saved>>
  PROVE  /\ PointsInv' /\ OffInv' /\ FramesInv' /\ DepthInv' /\ FlagInv' /\ EflagsInv' /\ IntenaInv'
         /\ \E k \in Points : /\ After(Here(c), k) /\ Moves(c, k)
                              /\ k = <<"myproc", 4>> => st = "mycpu"
         /\ st \notin {"xchg", "mark", "clear", "unlock"} /\ UNCHANGED <<locked, holder>> => LockInv'
         /\ st # "mycpu" /\ here' = here => HereInv'
<1>1. /\ ValuesInv /\ PointsInv /\ RunInv /\ OffInv /\ FramesInv /\ DepthInv /\ FlagInv
      /\ EflagsInv /\ IntenaInv /\ LockInv /\ HereInv
  BY DEF IInv
<1>2. /\ Here(c) \in Points /\ run[c] \in Threads /\ Fits(run[c], Here(c))
      /\ st = StepsOf(Here(c)[1])[Here(c)[2]]
  BY <1>1, HereIs
<1>3. PICK k \in Points : /\ After(Here(c), k) /\ SameKind(Here(c)[1], k[1]) /\ Moves(c, k)
                          /\ Goto(c, k) /\ PointsInv' /\ OffInv' /\ FramesInv'
  BY <1>1, Advances
<1>4. Here(c) \in (Acquires \X {3, 4, 5}) \cup (Releases \X {1, 2, 3}) \cup ({"myproc"} \X {3, 4})
                  \cup ({"user", "alloc", "fork_run", "wake_up", "scan"} \X {1})
  BY <1>2, StepPoints DEF QuietSteps, Plain
<1>5. Here(c) \notin Pushes \cup Pops
  BY <1>4, InsideKind DEF Pushes, Pops, Plain
<1>6. Depth(Here(c)) \in Nat /\ Depth(k) = Depth(Here(c))
  BY <1>2, <1>3, <1>5, DepthAfter
<1>7. /\ Here(c)[1] \in HandlerPlaces <=> k[1] \in HandlerPlaces
      /\ k[1] \in Acquires \cup {"myproc"} => k[2] # 2
      /\ k = <<"myproc", 4>> => st = "mycpu"
      /\ k[1] \notin SwitchPlaces /\ Here(c)[1] \notin SwitchPlaces \cup {"loop", "fret"}
      /\ Here(c)[1] \in Foreign => k[1] \in Foreign
  <2>1. Here(c)[1] \notin SwitchPlaces \cup {"loop", "fret", "sleep_sched", "yield_sched"}
    BY <1>4, InsideKind DEF SwitchPlaces, Plain
  <2>2. Here(c) \notin {<<"scan_rel", 4>>, <<"forkret", 4>>}
    BY <1>4, InsideKind DEF Releases
  <2>3. Here(c)[2] = 1 => Here(c)[1] \notin Acquires \cup {"myproc"}
    BY <1>4, InsideKind DEF Plain
  <2>4. Here(c) = <<"myproc", 3>> => st = "mycpu"
    BY <1>2, Steps DEF MyprocSteps
  <2> QED
    BY <1>2, <1>3, <2>1, <2>2, <2>3, <2>4, PlaceAfter DEF SameKind
<1>8. DepthInv'
  BY <1>1, <1>3, <1>6, DepthKept
<1>9. FlagInv'
  BY <1>1, <1>3, <1>6, <1>7, FlagKept
<1>10. EflagsInv'
  <2>1. flag' = [flag EXCEPT ![c] = flag[c]] /\ eflags' = [eflags EXCEPT ![run[c]] = eflags[run[c]]]
    BY <1>1, <1>2 DEF ValuesInv
  <2> QED
    BY <1>1, <1>3, <1>7, <2>1, EflagsKept
<1>11. IntenaInv'
  BY <1>1, <1>3, <1>6, <1>7, IntenaKept
<1>12. ASSUME st \notin {"xchg", "mark", "clear", "unlock"}, UNCHANGED <<locked, holder>>
       PROVE  LockInv'
  <2>1. Here(c) \notin (Acquires \X {4, 5}) \cup (Releases \X {2, 3})
    <3>1. ASSUME Here(c) \in Acquires \X {4, 5} PROVE FALSE
      BY <1>2, <1>12, <3>1, Steps DEF AcquireSteps
    <3>2. ASSUME Here(c) \in Releases \X {2, 3} PROVE FALSE
      BY <1>2, <1>12, <3>2, Steps DEF ReleaseSteps
    <3> QED
      BY <3>1, <3>2
  <2>2. \A l \in Locks : /\ OwnsAt(k, l) <=> OwnsAt(Here(c), l)
                         /\ MarkedAt(k, l) <=> MarkedAt(Here(c), l)
    BY <1>2, <1>3, <2>1, OwnsAfter, MarkedAfter
  <2> QED
    BY <1>1, <1>3, <1>12, <2>2, LockKept
<1>13. ASSUME st # "mycpu", here' = here PROVE HereInv'
  BY <1>1, <1>3, <1>7, <1>13, HereKept
<1> QED
  BY <1>3, <1>7, <1>8, <1>9, <1>10, <1>11, <1>12, <1>13

\* pushcli reads the flag.
LEMMA ReadKeeps ==
  ASSUME IInv, NEW c \in CPUs, Read(c)
  PROVE  IInv'
<1>1. /\ ValuesInv /\ PointsInv /\ RunInv /\ OffInv /\ FramesInv /\ DepthInv /\ FlagInv
      /\ EflagsInv /\ IntenaInv /\ LockInv /\ HereInv /\ KidInv /\ ~panicked
  BY DEF IInv
<1>2. /\ Here(c) \in Points /\ Here(c) \in (Acquires \cup {"myproc"}) \X {1}
      /\ run[c] \in Threads /\ Fits(run[c], Here(c))
  <2>1. At(c, "read")
    BY DEF Read
  <2>2. Here(c) \in Points /\ run[c] \in Threads /\ Fits(run[c], Here(c))
    BY <1>1, HereIs
  <2>3. "read" = StepsOf(Here(c)[1])[Here(c)[2]]
    BY <1>1, <2>1, HereIs
  <2> QED
    BY <2>2, <2>3, StepPoints
<1>3. /\ eflags' = [eflags EXCEPT ![run[c]] = flag[c]]
      /\ UNCHANGED <<flag, ncli, intena, run, pos, locked, holder, state, frames, here, saved, kid, panicked>>
      /\ Advance(c)
  BY DEF Read, cpu, local, vars
<1>4. PICK k \in Points : /\ After(Here(c), k) /\ SameKind(Here(c)[1], k[1]) /\ Moves(c, k)
                          /\ Goto(c, k) /\ PointsInv' /\ OffInv' /\ FramesInv'
  BY <1>1, <1>3, Advances
<1>5. Depth(Here(c)) \in Nat /\ Depth(k) \in Nat /\ Depth(k) = Depth(Here(c))
  BY <1>2, <1>4, DepthAfter, InsideKind DEF Pushes, Pops, Plain
<1>6. \A l \in Locks : /\ OwnsAt(k, l) <=> OwnsAt(Here(c), l)
                       /\ MarkedAt(k, l) <=> MarkedAt(Here(c), l)
  BY <1>2, <1>4, OwnsAfter, MarkedAfter, InsideKind DEF Plain
<1>7. /\ Here(c)[1] \in HandlerPlaces <=> k[1] \in HandlerPlaces
      /\ k # <<"myproc", 4>>
      /\ k[1] \notin SwitchPlaces
      /\ Here(c)[1] \notin {"loop", "fret"}
      /\ Here(c)[1] \notin SwitchPlaces
      /\ Here(c)[1] \in Foreign => k[1] \in Foreign
  BY <1>2, <1>4, KindAfter, PlaceAfter, InsideKind
  DEF SameKind, Plain, SwitchPlaces, Releases
<1>8. ValuesInv'
  BY <1>1, <1>2, <1>3, <1>5 DEF ValuesInv
<1>9. RunInv'
  BY <1>1, <1>3 DEF RunInv
<1>10. DepthInv'
  BY <1>1, <1>3, <1>4, <1>5, DepthKept
<1>11. FlagInv'
  BY <1>1, <1>3, <1>4, <1>5, <1>7, FlagKept
<1>12. EflagsInv'
  <2>1. \A d \in CPUs \ {c} : run[d] # run[c] /\ eflags'[run[d]] = eflags[run[d]]
    BY <1>1, <1>3 DEF RunInv, ValuesInv
  <2>2. eflags'[run[c]] = flag'[c]
    BY <1>1, <1>2, <1>3 DEF ValuesInv
  <2> QED
    BY <1>1, <1>3, <1>4, <2>1, <2>2 DEF EflagsInv, Moves
<1>13. IntenaInv'
  BY <1>1, <1>3, <1>4, <1>5, <1>7, IntenaKept
<1>14. LockInv'
  BY <1>1, <1>3, <1>4, <1>6, LockKept
<1>15. HereInv'
  BY <1>1, <1>3, <1>4, <1>7, HereKept
<1>16. KidInv'
  BY <1>1, <1>3 DEF KidInv
<1> QED
  BY <1>1, <1>3, <1>4, <1>8, <1>9, <1>10, <1>11, <1>12, <1>13, <1>14, <1>15, <1>16
     DEF IInv

\* The rest of pushcli turns the interrupts off, and the outermost one saves the flag.
LEMMA PushKeeps ==
  ASSUME IInv, NEW c \in CPUs, Push(c)
  PROVE  IInv'
<1>1. /\ ValuesInv /\ PointsInv /\ RunInv /\ OffInv /\ FramesInv /\ DepthInv /\ FlagInv
      /\ EflagsInv /\ IntenaInv /\ LockInv /\ HereInv /\ KidInv /\ ~panicked
  BY DEF IInv
<1>2. /\ Here(c) \in Points /\ Here(c) \in (Acquires \cup {"myproc"}) \X {2}
      /\ run[c] \in Threads /\ Fits(run[c], Here(c))
  <2>1. At(c, "push")
    BY DEF Push
  <2>2. Here(c) \in Points /\ run[c] \in Threads /\ Fits(run[c], Here(c))
    BY <1>1, HereIs
  <2>3. "push" = StepsOf(Here(c)[1])[Here(c)[2]]
    BY <1>1, <2>1, HereIs
  <2> QED
    BY <2>2, <2>3, StepPoints
<1>3. /\ flag' = [flag EXCEPT ![c] = FALSE]
      /\ ncli' = [ncli EXCEPT ![c] = @ + 1]
      /\ intena' = [intena EXCEPT ![c] = IF ncli[c] = 0 THEN eflags[run[c]] ELSE intena[c]]
      /\ eflags' = [eflags EXCEPT ![run[c]] = FALSE]
      /\ UNCHANGED <<run, pos, locked, holder, state, frames, here, saved, kid, panicked>>
      /\ Advance(c)
  BY DEF Push, Intena, cpu, local, vars
<1>4. PICK k \in Points : /\ After(Here(c), k) /\ SameKind(Here(c)[1], k[1]) /\ Moves(c, k)
                          /\ Goto(c, k) /\ PointsInv' /\ OffInv' /\ FramesInv'
  BY <1>1, <1>3, Advances
<1>5. Depth(Here(c)) \in Nat /\ Depth(k) \in Nat /\ Depth(k) = Depth(Here(c)) + 1
  BY <1>2, <1>4, DepthAfter, InsideKind DEF Pushes, Pops, Plain
<1>6. \A l \in Locks : /\ OwnsAt(k, l) <=> OwnsAt(Here(c), l)
                       /\ MarkedAt(k, l) <=> MarkedAt(Here(c), l)
  BY <1>2, <1>4, OwnsAfter, MarkedAfter, InsideKind DEF Plain
<1>7. /\ Here(c)[1] \in HandlerPlaces <=> k[1] \in HandlerPlaces
      /\ k[1] \in Acquires \cup {"myproc"} => k[2] # 2
      /\ k # <<"myproc", 4>>
      /\ k[1] \notin SwitchPlaces
      /\ Here(c)[1] \notin {"loop", "fret"}
      /\ Here(c)[1] \notin SwitchPlaces
      /\ Here(c)[1] \in Foreign => k[1] \in Foreign
  BY <1>2, <1>4, KindAfter, PlaceAfter, InsideKind
  DEF SameKind, Plain, SwitchPlaces, Releases
<1>8. ValuesInv'
  BY <1>1, <1>2, <1>3, <1>5 DEF ValuesInv
<1>9. RunInv'
  BY <1>1, <1>3 DEF RunInv
<1>10. DepthInv'
  <2>1. \A d \in CPUs : ncli'[d] = IF d = c THEN ncli[d] + 1 ELSE ncli[d]
    BY <1>1, <1>3 DEF ValuesInv
  <2> QED
    BY <1>1, <1>4, <1>5, <2>1 DEF DepthInv, Moves
<1>11. FlagInv'
  <2>1. \A d \in CPUs : flag'[d] = IF d = c THEN FALSE ELSE flag[d]
    BY <1>1, <1>3 DEF ValuesInv
  <2>2. \A d \in CPUs : Here(d)' = IF d = c THEN k ELSE Here(d)
    BY <1>4 DEF Moves
  <2>3. k[1] \notin {"loop", "fret"} /\ Depth(k) > 0
    BY <1>2, <1>4, <1>5, PlaceAfter, InsideKind
  <2>4. ~flag'[c] /\ Here(c)' = k
    BY <2>1, <2>2
  <2>5. \A d \in CPUs \ {c} : flag'[d] = flag[d] /\ Here(d)' = Here(d)
    BY <2>1, <2>2
  <2> QED
    BY <1>1, <2>3, <2>4, <2>5 DEF FlagInv
<1>12. EflagsInv'
  BY <1>1, <1>3, <1>4, <1>7, EflagsKept
<1>13. IntenaInv'
  <2>1. \A d \in CPUs : intena'[d] = IF d = c THEN IF ncli[c] = 0 THEN eflags[run[c]] ELSE intena[c]
                                     ELSE intena[d]
    BY <1>1, <1>3 DEF ValuesInv
  <2>2. ncli[c] = Depth(Here(c)) /\ Here(c)[1] \notin Foreign
    <3>1. Foreign \cap (Acquires \cup {"myproc"}) = {}
      BY DEF Foreign, SwitchPlaces, Acquires
    <3> QED
      BY <1>1, <1>2, <3>1 DEF DepthInv
  <2>4. intena'[c] = (Here(c)[1] \notin HandlerPlaces)
    <3>1. CASE ncli[c] = 0
      <4>1. eflags[run[c]] = flag[c]
        BY <1>1, <1>2 DEF EflagsInv
      <4>2. flag[c] = (Here(c)[1] \notin HandlerPlaces)
        BY <1>1, <1>7, <2>2, <3>1 DEF FlagInv, ValuesInv
      <4> QED
        BY <2>1, <3>1, <4>1, <4>2
    <3>2. CASE ncli[c] # 0
      <4>1. Depth(Here(c)) > 0
        BY <1>5, <2>2, <3>2
      <4> QED
        BY <1>1, <2>1, <2>2, <3>2, <4>1 DEF IntenaInv
    <3> QED
      BY <3>1, <3>2
  <2>5. \A d \in CPUs : Depth(Here(d)') > 0 /\ Here(d)'[1] \notin Foreign
                        => intena'[d] = (Here(d)'[1] \notin HandlerPlaces)
    BY <1>1, <1>4, <1>7, <2>1, <2>4 DEF IntenaInv, Moves
  <2>6. \A p \in Procs : pc'[p] = IF p = run[c] THEN k ELSE pc[p]
    BY <1>1, <1>4 DEF Goto, PointsInv, Threads
  <2>7. \A p \in Procs : pc'[p][1] \in SwitchPlaces => saved'[p] = (pc'[p][1] \notin HandlerPlaces)
    BY <1>1, <1>3, <1>7, <2>6 DEF IntenaInv
  <2> QED
    BY <2>5, <2>7 DEF IntenaInv
<1>14. LockInv'
  BY <1>1, <1>3, <1>4, <1>6, LockKept
<1>15. HereInv'
  BY <1>1, <1>3, <1>4, <1>7, HereKept
<1>16. KidInv'
  BY <1>1, <1>3 DEF KidInv
<1> QED
  BY <1>1, <1>3, <1>4, <1>8, <1>9, <1>10, <1>11, <1>12, <1>13, <1>14, <1>15, <1>16
     DEF IInv

\* popcli does not panic, and the outermost one restores the flag.
LEMMA PopKeeps ==
  ASSUME IInv, NEW c \in CPUs, Pop(c)
  PROVE  IInv'
<1>1. /\ ValuesInv /\ PointsInv /\ RunInv /\ OffInv /\ FramesInv /\ DepthInv /\ FlagInv
      /\ EflagsInv /\ IntenaInv /\ LockInv /\ HereInv /\ KidInv /\ ~panicked
  BY DEF IInv
<1>2. /\ Here(c) \in Points /\ Here(c) \in (Releases \X {4}) \cup ({"myproc"} \X {5})
      /\ run[c] \in Threads /\ Fits(run[c], Here(c))
  <2>1. At(c, "pop")
    BY DEF Pop
  <2>2. Here(c) \in Points /\ run[c] \in Threads /\ Fits(run[c], Here(c))
    BY <1>1, HereIs
  <2>3. "pop" = StepsOf(Here(c)[1])[Here(c)[2]]
    BY <1>1, <2>1, HereIs
  <2> QED
    BY <2>2, <2>3, StepPoints
<1>0. ~flag[c] /\ ncli[c] # 0 /\ ncli[c] = Depth(Here(c))
  <2>1. Depth(Here(c)) \in Nat /\ Depth(Here(c)) > 0
    <3>1. Here(c)[1] \in Releases => \E l \in Locks : Here(c)[1] \in Inside[l]
      BY InsideKind
    <3>2. (Here(c)[1] \in Acquires \cup {"myproc"} /\ Here(c)[2] >= 3) \/ Here(c)[1] \in Releases
      BY <1>2
    <3> QED
      BY <3>1, <3>2 DEF Depth, Locks
  <2> QED
    BY <1>1, <2>1 DEF DepthInv, FlagInv
<1>3. /\ ncli' = [ncli EXCEPT ![c] = @ - 1]
      /\ flag' = [flag EXCEPT ![c] = Popped(c)]
      /\ UNCHANGED <<intena, run, pos, locked, holder, state, frames, eflags, here, saved, kid, panicked>>
      /\ Advance(c)
  BY <1>0 DEF Pop, cpu, local, vars
<1>4. PICK k \in Points : /\ After(Here(c), k) /\ SameKind(Here(c)[1], k[1]) /\ Moves(c, k)
                          /\ Goto(c, k) /\ PointsInv' /\ OffInv' /\ FramesInv'
  BY <1>1, <1>3, Advances
<1>5. Depth(Here(c)) \in Nat /\ Depth(k) \in Nat /\ Depth(k) = Depth(Here(c)) - 1
  BY <1>2, <1>4, DepthAfter, InsideKind DEF Pushes, Pops, Plain
<1>6. \A l \in Locks : /\ OwnsAt(k, l) <=> OwnsAt(Here(c), l)
                       /\ MarkedAt(k, l) <=> MarkedAt(Here(c), l)
  BY <1>2, <1>4, OwnsAfter, MarkedAfter, InsideKind DEF Plain
<1>7. /\ Here(c)[1] \in HandlerPlaces <=> k[1] \in HandlerPlaces
      /\ k[1] \in Acquires \cup {"myproc"} => k[2] # 2
      /\ k # <<"myproc", 4>>
      /\ k[1] \notin SwitchPlaces
      /\ Here(c)[1] \notin {"loop", "fret"}
      /\ Here(c)[1] \notin SwitchPlaces
      /\ Here(c)[1] \in Foreign \ SwitchPlaces => k[1] \in Foreign \cup {"loop", "fret"}
  BY <1>2, <1>4, KindAfter, PlaceAfter, InsideKind
  DEF SameKind, Plain, SwitchPlaces, Releases
<1>8. ValuesInv'
  <2>1. Popped(c) \in BOOLEAN /\ ncli[c] - 1 \in Nat
    BY <1>0, <1>1 DEF ValuesInv, Popped
  <2> QED
    BY <1>1, <1>3, <2>1 DEF ValuesInv
<1>9. RunInv'
  BY <1>1, <1>3 DEF RunInv
<1>10. DepthInv'
  <2>1. \A d \in CPUs : ncli'[d] = IF d = c THEN ncli[d] - 1 ELSE ncli[d]
    BY <1>1, <1>3 DEF ValuesInv
  <2> QED
    BY <1>1, <1>4, <1>5, <2>1 DEF DepthInv, Moves
<1>11. FlagInv'
  <2>1. \A d \in CPUs : flag'[d] = IF d = c THEN Popped(c) ELSE flag[d]
    BY <1>1, <1>3 DEF ValuesInv
  <2>2. \A d \in CPUs : Here(d)' = IF d = c THEN k ELSE Here(d)
    BY <1>4 DEF Moves
  <2>3. Depth(k) > 0 => ~Popped(c)
    BY <1>0, <1>5 DEF Popped
  <2>4. ASSUME Depth(k) = 0, Here(c)[1] \notin Foreign
        PROVE  Popped(c) <=> k[1] \notin HandlerPlaces
    <3>1. Depth(Here(c)) > 0 /\ ncli[c] = 1
      BY <1>0, <1>5, <2>4
    <3>2. intena[c] = (Here(c)[1] \notin HandlerPlaces)
      BY <1>1, <2>4, <3>1 DEF IntenaInv
    <3> QED
      BY <1>7, <3>1, <3>2 DEF Popped
  <2>5. ASSUME Depth(k) = 0, Here(c)[1] \in Foreign
        PROVE  k[1] \in {"loop", "fret"}
    BY <1>7, <2>5, DepthMeans
  <2>6. {"loop", "fret"} \cap HandlerPlaces = {}
    BY DEF HandlerPlaces
  <2>7. flag'[c] = Popped(c) /\ Here(c)' = k
    BY <2>1, <2>2
  <2>8. \A d \in CPUs \ {c} : flag'[d] = flag[d] /\ Here(d)' = Here(d)
    BY <2>1, <2>2
  <2>9. /\ Depth(k) > 0 \/ k[1] \in HandlerPlaces => ~Popped(c)
        /\ Depth(k) = 0 /\ k[1] \notin HandlerPlaces \cup {"loop", "fret"} => Popped(c)
    BY <1>5, <2>3, <2>4, <2>5, <2>6
  <2> QED
    BY <1>1, <2>7, <2>8, <2>9 DEF FlagInv
<1>12. EflagsInv'
  <2>1. flag' = [flag EXCEPT ![c] = flag'[c]] /\ eflags' = [eflags EXCEPT ![run[c]] = eflags'[run[c]]]
    BY <1>1, <1>2, <1>3 DEF ValuesInv
  <2> QED
    BY <1>1, <1>3, <1>4, <1>7, <2>1, EflagsKept
<1>13. IntenaInv'
  <2>1. ASSUME Depth(k) > 0, k[1] \notin Foreign
        PROVE  Here(c)[1] \notin Foreign
    <3>1. Depth(<<"loop", 1>>) = 0 /\ Depth(<<"fret", 1>>) = 0
      BY DEF Depth, Inside, Acquires
    <3>2. k[1] \in {"loop", "fret"} => k[2] = 1 /\ k = <<k[1], k[2]>>
      BY InsideKind DEF Points, Plain, Acquires, Releases
    <3> QED
      BY <1>7, <2>1, <3>1, <3>2
  <2> QED
    BY <1>1, <1>3, <1>4, <1>5, <1>7, <2>1, IntenaKept
<1>14. LockInv'
  BY <1>1, <1>3, <1>4, <1>6, LockKept
<1>15. HereInv'
  BY <1>1, <1>3, <1>4, <1>7, HereKept
<1>16. KidInv'
  BY <1>1, <1>3 DEF KidInv
<1> QED
  BY <1>1, <1>3, <1>4, <1>8, <1>9, <1>10, <1>11, <1>12, <1>13, <1>14, <1>15, <1>16
     DEF IInv

\* acquire does not panic: the place is entered without the lock.
LEMMA UnheldKeeps ==
  ASSUME IInv, NEW c \in CPUs, Unheld(c)
  PROVE  IInv'
<1>1. ValuesInv /\ PointsInv /\ RunInv /\ DepthInv /\ FlagInv /\ LockInv /\ HereInv /\ KidInv
  BY DEF IInv
<1>2. At(c, "unheld") /\ Here(c) \in Points /\ Here(c) \in Acquires \X {3}
      /\ run[c] \in Threads /\ Fits(run[c], Here(c))
  <2>1. At(c, "unheld")
    BY DEF Unheld
  <2>2. Here(c) \in Points /\ run[c] \in Threads /\ Fits(run[c], Here(c))
    BY <1>1, HereIs
  <2> QED
    BY <1>1, <2>1, <2>2, HereIs, StepPoints
<1>0. ~Holding(c, Lk(c))
  <2>1. ~MarkedAt(Here(c), Lk(c)) /\ Lk(c) \in Locks
    BY <1>2, InsideKind DEF MarkedAt, Lk, Here
  <2> QED
    BY <1>1, <2>1 DEF LockInv, Holding
<1>3. /\ UNCHANGED <<flag, ncli, intena, run, pos, locked, holder, state, frames, eflags, here, saved, kid, panicked>>
      /\ Advance(c)
  BY <1>0 DEF Unheld, cpu, local, vars
<1>4. /\ PointsInv' /\ OffInv' /\ FramesInv' /\ DepthInv' /\ FlagInv' /\ EflagsInv' /\ IntenaInv'
      /\ panicked' = panicked
      /\ LockInv' /\ HereInv'
  BY <1>2, <1>3, QuietStep DEF QuietSteps
<1>5. ValuesInv'
  BY <1>1, <1>3 DEF ValuesInv
<1>6. RunInv' /\ KidInv'
  BY <1>1, <1>3 DEF RunInv, KidInv
<1> QED
  BY <1>4, <1>5, <1>6 DEF IInv

\* xchg takes a free lock.
LEMMA XchgKeeps ==
  ASSUME IInv, NEW c \in CPUs, Xchg(c)
  PROVE  IInv'
<1>1. ValuesInv /\ PointsInv /\ RunInv /\ DepthInv /\ FlagInv /\ LockInv /\ HereInv /\ KidInv
  BY DEF IInv
<1>2. At(c, "xchg") /\ Here(c) \in Points /\ Here(c) \in Acquires \X {4}
      /\ run[c] \in Threads /\ Fits(run[c], Here(c))
  <2>1. At(c, "xchg")
    BY DEF Xchg
  <2>2. Here(c) \in Points /\ run[c] \in Threads /\ Fits(run[c], Here(c))
    BY <1>1, HereIs
  <2> QED
    BY <1>1, <2>1, <2>2, HereIs, StepPoints
<1>3. /\ locked' = [locked EXCEPT ![LockOf(Here(c)[1])] = TRUE]
      /\ ~locked[LockOf(Here(c)[1])]
      /\ UNCHANGED <<flag, ncli, intena, run, pos, holder, state, frames, eflags, here, saved, kid, panicked>>
      /\ Advance(c)
  BY DEF Xchg, Free, Lk, Here, cpu, local, vars
<1>4. /\ PointsInv' /\ OffInv' /\ FramesInv' /\ DepthInv' /\ FlagInv' /\ EflagsInv' /\ IntenaInv'
      /\ panicked' = panicked
  BY <1>2, <1>3, QuietStep DEF QuietSteps
<1>5. PICK k \in Points : After(Here(c), k) /\ Moves(c, k)
  BY <1>2, <1>3, QuietStep DEF QuietSteps
<1>6. \A l \in Locks : /\ OwnsAt(k, l) <=> l = LockOf(Here(c)[1]) \/ OwnsAt(Here(c), l)
                       /\ MarkedAt(k, l) <=> MarkedAt(Here(c), l)
  BY <1>2, <1>5, OwnsAfter, MarkedAfter, InsideKind DEF Plain
<1>7. ValuesInv'
  BY <1>1, <1>3 DEF ValuesInv
<1>8. RunInv' /\ KidInv'
  BY <1>1, <1>3 DEF RunInv, KidInv
<1>9. LockInv'
  <2>1. \A d \in CPUs : Here(d)' = IF d = c THEN k ELSE Here(d)
    BY <1>5 DEF Moves
  <2>2. \A l \in Locks : locked'[l] = (l = LockOf(Here(c)[1]) \/ locked[l])
    BY <1>1, <1>3 DEF ValuesInv
  <2>3. \A d \in CPUs : ~OwnsAt(Here(d), LockOf(Here(c)[1]))
    BY <1>1, <1>2, <1>3, InsideKind DEF LockInv
  <2>4. \A d \in CPUs, l \in Locks : OwnsAt(Here(d)', l) <=>
            (d = c /\ l = LockOf(Here(c)[1])) \/ OwnsAt(Here(d), l)
    BY <1>6, <2>1
  <2>5. \A d \in CPUs, l \in Locks : MarkedAt(Here(d)', l) <=> MarkedAt(Here(d), l)
    BY <1>6, <2>1
  <2>6. \A d \in CPUs, l \in Locks : holder'[l] = d <=> MarkedAt(Here(d)', l)
    BY <1>1, <1>3, <2>5 DEF LockInv
  <2>7. \A d \in CPUs, l \in Locks : OwnsAt(Here(d)', l) => locked'[l]
    BY <1>1, <2>2, <2>4 DEF LockInv
  <2>8. \A d, e \in CPUs, l \in Locks : OwnsAt(Here(d)', l) /\ OwnsAt(Here(e)', l) => d = e
    BY <1>1, <2>3, <2>4 DEF LockInv
  <2> QED
    BY <2>6, <2>7, <2>8 DEF LockInv
<1>10. HereInv'
  BY <1>2, <1>3, QuietStep DEF QuietSteps
<1> QED
  BY <1>4, <1>7, <1>8, <1>9, <1>10 DEF IInv

\* The holder is recorded.
LEMMA MarkKeeps ==
  ASSUME IInv, NEW c \in CPUs, Mark(c)
  PROVE  IInv'
<1>1. ValuesInv /\ PointsInv /\ RunInv /\ DepthInv /\ FlagInv /\ LockInv /\ HereInv /\ KidInv
  BY DEF IInv
<1>2. At(c, "mark") /\ Here(c) \in Points /\ Here(c) \in Acquires \X {5}
      /\ run[c] \in Threads /\ Fits(run[c], Here(c))
  <2>1. At(c, "mark")
    BY DEF Mark
  <2>2. Here(c) \in Points /\ run[c] \in Threads /\ Fits(run[c], Here(c))
    BY <1>1, HereIs
  <2> QED
    BY <1>1, <2>1, <2>2, HereIs, StepPoints
<1>3. /\ holder' = [holder EXCEPT ![LockOf(Here(c)[1])] = c]
      /\ UNCHANGED <<flag, ncli, intena, run, pos, locked, state, frames, eflags, here, saved, kid, panicked>>
      /\ Advance(c)
  BY DEF Mark, Lk, Here, cpu, local, vars
<1>4. /\ PointsInv' /\ OffInv' /\ FramesInv' /\ DepthInv' /\ FlagInv' /\ EflagsInv' /\ IntenaInv'
      /\ panicked' = panicked
  BY <1>2, <1>3, QuietStep DEF QuietSteps
<1>5. PICK k \in Points : After(Here(c), k) /\ Moves(c, k)
  BY <1>2, <1>3, QuietStep DEF QuietSteps
<1>6. \A l \in Locks : /\ OwnsAt(k, l) <=> OwnsAt(Here(c), l)
                       /\ MarkedAt(k, l) <=> l = LockOf(Here(c)[1]) \/ MarkedAt(Here(c), l)
  BY <1>2, <1>5, OwnsAfter, MarkedAfter, InsideKind DEF Plain
<1>7. ValuesInv'
  BY <1>1, <1>3 DEF ValuesInv
<1>8. RunInv' /\ KidInv'
  BY <1>1, <1>3 DEF RunInv, KidInv
<1>9. LockInv'
  <2>1. \A d \in CPUs : Here(d)' = IF d = c THEN k ELSE Here(d)
    BY <1>5 DEF Moves
  <2>2. \A l \in Locks : holder'[l] = IF l = LockOf(Here(c)[1]) THEN c ELSE holder[l]
    BY <1>1, <1>3 DEF ValuesInv
  <2>3. \A d \in CPUs \ {c} : ~MarkedAt(Here(d), LockOf(Here(c)[1]))
    <3>1. OwnsAt(Here(c), LockOf(Here(c)[1])) /\ LockOf(Here(c)[1]) \in Locks
      BY <1>2, InsideKind DEF OwnsAt
    <3>2. \A d \in CPUs, l \in Locks : MarkedAt(Here(d), l) => OwnsAt(Here(d), l)
      BY DEF MarkedAt, OwnsAt
    <3> QED
      BY <1>1, <3>1, <3>2 DEF LockInv
  <2>4. \A d \in CPUs, l \in Locks : holder'[l] = d <=> MarkedAt(Here(d)', l)
    BY <1>1, <1>2, <1>6, <2>1, <2>2, <2>3, InsideKind DEF LockInv
  <2>5. \A d \in CPUs, l \in Locks : OwnsAt(Here(d)', l) <=> OwnsAt(Here(d), l)
    BY <1>6, <2>1
  <2> QED
    BY <1>1, <1>3, <2>4, <2>5 DEF LockInv
<1>10. HereInv'
  BY <1>2, <1>3, QuietStep DEF QuietSteps
<1> QED
  BY <1>4, <1>7, <1>8, <1>9, <1>10 DEF IInv

\* release does not panic: the place is entered with the lock.
LEMMA HeldKeeps ==
  ASSUME IInv, NEW c \in CPUs, Held(c)
  PROVE  IInv'
<1>1. ValuesInv /\ PointsInv /\ RunInv /\ DepthInv /\ FlagInv /\ LockInv /\ HereInv /\ KidInv
  BY DEF IInv
<1>2. At(c, "held") /\ Here(c) \in Points /\ Here(c) \in Releases \X {1}
      /\ run[c] \in Threads /\ Fits(run[c], Here(c))
  <2>1. At(c, "held")
    BY DEF Held
  <2>2. Here(c) \in Points /\ run[c] \in Threads /\ Fits(run[c], Here(c))
    BY <1>1, HereIs
  <2> QED
    BY <1>1, <2>1, <2>2, HereIs, StepPoints
<1>0. Holding(c, Lk(c))
  <2>1. MarkedAt(Here(c), Lk(c)) /\ OwnsAt(Here(c), Lk(c)) /\ Lk(c) \in Locks
    BY <1>2, InsideKind DEF MarkedAt, OwnsAt, Lk, Here
  <2> QED
    BY <1>1, <2>1 DEF LockInv, Holding
<1>3. /\ UNCHANGED <<flag, ncli, intena, run, pos, locked, holder, state, frames, eflags, here, saved, kid, panicked>>
      /\ Advance(c)
  BY <1>0 DEF Held, cpu, local, vars
<1>4. /\ PointsInv' /\ OffInv' /\ FramesInv' /\ DepthInv' /\ FlagInv' /\ EflagsInv' /\ IntenaInv'
      /\ panicked' = panicked
      /\ LockInv' /\ HereInv'
  BY <1>2, <1>3, QuietStep DEF QuietSteps
<1>5. ValuesInv'
  BY <1>1, <1>3 DEF ValuesInv
<1>6. RunInv' /\ KidInv'
  BY <1>1, <1>3 DEF RunInv, KidInv
<1> QED
  BY <1>4, <1>5, <1>6 DEF IInv

\* release clears the holder before the lock.
LEMMA ClearKeeps ==
  ASSUME IInv, NEW c \in CPUs, Clear(c)
  PROVE  IInv'
<1>1. ValuesInv /\ PointsInv /\ RunInv /\ DepthInv /\ FlagInv /\ LockInv /\ HereInv /\ KidInv
  BY DEF IInv
<1>2. At(c, "clear") /\ Here(c) \in Points /\ Here(c) \in Releases \X {2}
      /\ run[c] \in Threads /\ Fits(run[c], Here(c))
  <2>1. At(c, "clear")
    BY DEF Clear
  <2>2. Here(c) \in Points /\ run[c] \in Threads /\ Fits(run[c], Here(c))
    BY <1>1, HereIs
  <2> QED
    BY <1>1, <2>1, <2>2, HereIs, StepPoints
<1>3. /\ holder' = [holder EXCEPT ![LockOf(Here(c)[1])] = NoCpu]
      /\ UNCHANGED <<flag, ncli, intena, run, pos, locked, state, frames, eflags, here, saved, kid, panicked>>
      /\ Advance(c)
  BY DEF Clear, Lk, Here, cpu, local, vars
<1>4. /\ PointsInv' /\ OffInv' /\ FramesInv' /\ DepthInv' /\ FlagInv' /\ EflagsInv' /\ IntenaInv'
      /\ panicked' = panicked
  BY <1>2, <1>3, QuietStep DEF QuietSteps
<1>5. PICK k \in Points : After(Here(c), k) /\ Moves(c, k)
  BY <1>2, <1>3, QuietStep DEF QuietSteps
<1>6. \A l \in Locks : /\ OwnsAt(k, l) <=> OwnsAt(Here(c), l)
                       /\ MarkedAt(k, l) <=> l # LockOf(Here(c)[1]) /\ MarkedAt(Here(c), l)
  BY <1>2, <1>5, OwnsAfter, MarkedAfter, InsideKind DEF Plain
<1>7. ValuesInv'
  BY <1>1, <1>3 DEF ValuesInv
<1>8. RunInv' /\ KidInv'
  BY <1>1, <1>3 DEF RunInv, KidInv
<1>9. LockInv'
  <2>1. \A d \in CPUs : Here(d)' = IF d = c THEN k ELSE Here(d)
    BY <1>5 DEF Moves
  <2>2. \A l \in Locks : holder'[l] = IF l = LockOf(Here(c)[1]) THEN NoCpu ELSE holder[l]
    BY <1>1, <1>3 DEF ValuesInv
  <2>3. holder[LockOf(Here(c)[1])] = c /\ LockOf(Here(c)[1]) \in Locks
    <3>1. MarkedAt(Here(c), LockOf(Here(c)[1])) /\ LockOf(Here(c)[1]) \in Locks
      BY <1>2, InsideKind DEF MarkedAt
    <3> QED
      BY <1>1, <3>1 DEF LockInv
  <2>4. \A d \in CPUs, l \in Locks : holder'[l] = d <=> MarkedAt(Here(d)', l)
    <3>1. \A d \in CPUs : d # NoCpu
      BY DEF CPUs, NoCpu
    <3> QED
      BY <1>1, <1>6, <2>1, <2>2, <2>3, <3>1 DEF LockInv
  <2>5. \A d \in CPUs, l \in Locks : OwnsAt(Here(d)', l) <=> OwnsAt(Here(d), l)
    BY <1>6, <2>1
  <2> QED
    BY <1>1, <1>3, <2>4, <2>5 DEF LockInv
<1>10. HereInv'
  BY <1>2, <1>3, QuietStep DEF QuietSteps
<1> QED
  BY <1>4, <1>7, <1>8, <1>9, <1>10 DEF IInv

\* The store that frees the lock.
LEMMA UnlockKeeps ==
  ASSUME IInv, NEW c \in CPUs, Unlock(c)
  PROVE  IInv'
<1>1. ValuesInv /\ PointsInv /\ RunInv /\ DepthInv /\ FlagInv /\ LockInv /\ HereInv /\ KidInv
  BY DEF IInv
<1>2. At(c, "unlock") /\ Here(c) \in Points /\ Here(c) \in Releases \X {3}
      /\ run[c] \in Threads /\ Fits(run[c], Here(c))
  <2>1. At(c, "unlock")
    BY DEF Unlock
  <2>2. Here(c) \in Points /\ run[c] \in Threads /\ Fits(run[c], Here(c))
    BY <1>1, HereIs
  <2> QED
    BY <1>1, <2>1, <2>2, HereIs, StepPoints
<1>3. /\ locked' = [locked EXCEPT ![LockOf(Here(c)[1])] = FALSE]
      /\ UNCHANGED <<flag, ncli, intena, run, pos, holder, state, frames, eflags, here, saved, kid, panicked>>
      /\ Advance(c)
  BY DEF Unlock, Lk, Here, cpu, local, vars
<1>4. /\ PointsInv' /\ OffInv' /\ FramesInv' /\ DepthInv' /\ FlagInv' /\ EflagsInv' /\ IntenaInv'
      /\ panicked' = panicked
  BY <1>2, <1>3, QuietStep DEF QuietSteps
<1>5. PICK k \in Points : After(Here(c), k) /\ Moves(c, k)
  BY <1>2, <1>3, QuietStep DEF QuietSteps
<1>6. \A l \in Locks : /\ OwnsAt(k, l) <=> l # LockOf(Here(c)[1]) /\ OwnsAt(Here(c), l)
                       /\ MarkedAt(k, l) <=> MarkedAt(Here(c), l)
  BY <1>2, <1>5, OwnsAfter, MarkedAfter, InsideKind DEF Plain
<1>7. ValuesInv'
  BY <1>1, <1>3 DEF ValuesInv
<1>8. RunInv' /\ KidInv'
  BY <1>1, <1>3 DEF RunInv, KidInv
<1>9. LockInv'
  <2>1. \A d \in CPUs : Here(d)' = IF d = c THEN k ELSE Here(d)
    BY <1>5 DEF Moves
  <2>2. \A l \in Locks : locked'[l] = (l # LockOf(Here(c)[1]) /\ locked[l])
    BY <1>1, <1>3 DEF ValuesInv
  <2>3. OwnsAt(Here(c), LockOf(Here(c)[1])) /\ LockOf(Here(c)[1]) \in Locks
    BY <1>2, InsideKind DEF OwnsAt
  <2> QED
    BY <1>1, <1>3, <1>6, <2>1, <2>2, <2>3 DEF LockInv
<1>10. HereInv'
  BY <1>2, <1>3, QuietStep DEF QuietSteps
<1> QED
  BY <1>4, <1>7, <1>8, <1>9, <1>10 DEF IInv

\* mycpu does not panic, and finds the CPU the thread is on.
LEMMA MycpuKeeps ==
  ASSUME IInv, NEW c \in CPUs, Mycpu(c)
  PROVE  IInv'
<1>1. ValuesInv /\ PointsInv /\ RunInv /\ DepthInv /\ FlagInv /\ LockInv /\ HereInv /\ KidInv
  BY DEF IInv
<1>2. At(c, "mycpu") /\ Here(c) \in Points /\ Here(c) \in {<<"myproc", 3>>}
      /\ run[c] \in Threads /\ Fits(run[c], Here(c))
  <2>1. At(c, "mycpu")
    BY DEF Mycpu
  <2>2. Here(c) \in Points /\ run[c] \in Threads /\ Fits(run[c], Here(c))
    BY <1>1, HereIs
  <2> QED
    BY <1>1, <2>1, <2>2, HereIs, StepPoints
<1>0. ~flag[c]
  <2>1. Depth(Here(c)) > 0
    BY <1>2 DEF Depth, Inside
  <2> QED
    BY <1>1, <2>1 DEF FlagInv
<1>3. /\ here' = [here EXCEPT ![run[c]] = c]
      /\ UNCHANGED <<flag, ncli, intena, run, pos, locked, holder, state, frames, eflags, saved, kid, panicked>>
      /\ Advance(c)
  BY <1>0 DEF Mycpu, cpu, local, vars
<1>4. /\ PointsInv' /\ OffInv' /\ FramesInv' /\ DepthInv' /\ FlagInv' /\ EflagsInv' /\ IntenaInv'
      /\ panicked' = panicked
  BY <1>2, <1>3, QuietStep DEF QuietSteps
<1>5. PICK k \in Points : After(Here(c), k) /\ Moves(c, k)
  BY <1>2, <1>3, QuietStep DEF QuietSteps
<1>6. ValuesInv'
  BY <1>1, <1>3 DEF ValuesInv
<1>7. RunInv' /\ KidInv'
  BY <1>1, <1>3 DEF RunInv, KidInv
<1>8. LockInv'
  BY <1>1, <1>2, <1>3, QuietStep DEF QuietSteps
<1>9. HereInv'
  <2>1. run[c] \in Procs
    BY <1>2 DEF Fits, SchedPlaces, HandlerPlaces
  <2>2. here'[run[c]] = c /\ \A d \in CPUs \ {c} : here'[run[d]] = here[run[d]]
    BY <1>1, <1>3, <2>1 DEF ValuesInv, RunInv
  <2>3. run' = run
    BY <1>3
  <2> QED
    BY <1>1, <1>5, <2>2, <2>3 DEF HereInv, Moves
<1> QED
  BY <1>4, <1>6, <1>7, <1>8, <1>9 DEF IInv

\* myproc reads the process of the CPU.
LEMMA LoadKeeps ==
  ASSUME IInv, NEW c \in CPUs, Load(c)
  PROVE  IInv'
<1>1. ValuesInv /\ PointsInv /\ RunInv /\ DepthInv /\ FlagInv /\ LockInv /\ HereInv /\ KidInv
  BY DEF IInv
<1>2. At(c, "load")
  BY DEF Load
<1>3. /\ here' = [here EXCEPT ![run[c]] = NoCpu]
      /\ UNCHANGED <<flag, ncli, intena, run, pos, locked, holder, state, frames, eflags, saved, kid, panicked>>
      /\ Advance(c)
  BY DEF Load, cpu, local, vars
<1>4. /\ PointsInv' /\ OffInv' /\ FramesInv' /\ DepthInv' /\ FlagInv' /\ EflagsInv' /\ IntenaInv'
      /\ panicked' = panicked
      /\ LockInv'
  BY <1>2, <1>3, QuietStep DEF QuietSteps
<1>5. PICK k \in Points : After(Here(c), k) /\ Moves(c, k) /\ k # <<"myproc", 4>>
  BY <1>2, <1>3, QuietStep DEF QuietSteps
<1>6. ValuesInv'
  BY <1>1, <1>3 DEF ValuesInv
<1>7. RunInv' /\ KidInv'
  BY <1>1, <1>3 DEF RunInv, KidInv
<1>8. HereInv'
  <2>1. \A d \in CPUs \ {c} : here'[run[d]] = here[run[d]]
    BY <1>1, <1>3 DEF ValuesInv, RunInv
  <2>2. run' = run
    BY <1>3
  <2> QED
    BY <1>1, <1>5, <2>1, <2>2 DEF HereInv, Moves
<1> QED
  BY <1>4, <1>6, <1>7, <1>8 DEF IInv

\* A system call starts.
LEMMA CallKeeps ==
  ASSUME IInv, NEW c \in CPUs, Call(c)
  PROVE  IInv'
<1>1. ValuesInv /\ PointsInv /\ RunInv /\ DepthInv /\ FlagInv /\ LockInv /\ HereInv /\ KidInv
  BY DEF IInv
<1>2. At(c, "user")
  BY DEF Call
<1>3. /\ UNCHANGED <<flag, ncli, intena, run, pos, locked, holder, state, frames, eflags, here, saved, kid, panicked>>
      /\ Advance(c)
  BY DEF Call, cpu, local, vars
<1>4. /\ PointsInv' /\ OffInv' /\ FramesInv' /\ DepthInv' /\ FlagInv' /\ EflagsInv' /\ IntenaInv'
      /\ panicked' = panicked
      /\ LockInv' /\ HereInv'
  BY <1>2, <1>3, QuietStep DEF QuietSteps
<1>5. ValuesInv'
  BY <1>1, <1>3 DEF ValuesInv
<1>6. RunInv' /\ KidInv'
  BY <1>1, <1>3 DEF RunInv, KidInv
<1> QED
  BY <1>4, <1>5, <1>6 DEF IInv

\* iret to user space turns the interrupts on.
LEMMA RetKeeps ==
  ASSUME IInv, NEW c \in CPUs, Ret(c)
  PROVE  IInv'
<1>1. /\ ValuesInv /\ PointsInv /\ RunInv /\ OffInv /\ FramesInv /\ DepthInv /\ FlagInv
      /\ EflagsInv /\ IntenaInv /\ LockInv /\ HereInv /\ KidInv /\ ~panicked
  BY DEF IInv
<1>2. /\ Here(c) \in Points /\ Here(c) \in {<<"ret", 1>>, <<"fret", 1>>}
      /\ run[c] \in Threads /\ Fits(run[c], Here(c))
  <2>1. At(c, "ret") \/ At(c, "fret")
    BY DEF Ret
  <2>2. Here(c) \in Points /\ run[c] \in Threads /\ Fits(run[c], Here(c))
    BY <1>1, HereIs
  <2>3. "ret" = StepsOf(Here(c)[1])[Here(c)[2]] \/ "fret" = StepsOf(Here(c)[1])[Here(c)[2]]
    BY <1>1, <2>1, HereIs
  <2> QED
    BY <2>2, <2>3, StepPoints DEF Plain
<1>3. /\ flag' = [flag EXCEPT ![c] = TRUE]
      /\ UNCHANGED <<ncli, intena, run, pos, locked, holder, state, frames, eflags, here, saved, kid, panicked>>
      /\ Advance(c)
  BY DEF Ret, cpu, local, vars
<1>4. PICK k \in Points : /\ After(Here(c), k) /\ SameKind(Here(c)[1], k[1]) /\ Moves(c, k)
                          /\ Goto(c, k) /\ PointsInv' /\ OffInv' /\ FramesInv'
  BY <1>1, <1>3, Advances
<1>5. Depth(Here(c)) \in Nat /\ Depth(k) \in Nat /\ Depth(k) = Depth(Here(c))
  BY <1>2, <1>4, DepthAfter, InsideKind DEF Pushes, Pops, Plain
<1>6. \A l \in Locks : /\ OwnsAt(k, l) <=> OwnsAt(Here(c), l)
                       /\ MarkedAt(k, l) <=> MarkedAt(Here(c), l)
  BY <1>2, <1>4, OwnsAfter, MarkedAfter, InsideKind DEF Plain
<1>7. /\ Here(c)[1] \in HandlerPlaces <=> k[1] \in HandlerPlaces
      /\ k[1] \in Acquires \cup {"myproc"} => k[2] # 2
      /\ k # <<"myproc", 4>>
      /\ k[1] \notin SwitchPlaces
      /\ Here(c)[1] \notin SwitchPlaces
      /\ Here(c)[1] \in Foreign => k[1] \in Foreign
  BY <1>2, <1>4, KindAfter, PlaceAfter, InsideKind
  DEF SameKind, Plain, SwitchPlaces, Releases
<1>8. ValuesInv'
  BY <1>1, <1>2, <1>3, <1>5 DEF ValuesInv
<1>9. RunInv'
  BY <1>1, <1>3 DEF RunInv
<1>10. DepthInv'
  BY <1>1, <1>3, <1>4, <1>5, DepthKept
<1>11. FlagInv'
  <2>1. Depth(k) = 0 /\ k[1] \notin HandlerPlaces
    BY <1>2, <1>5, <1>7 DEF Depth, Inside, Acquires, HandlerPlaces
  <2>2. flag'[c] /\ Here(c)' = k
    BY <1>1, <1>3, <1>4 DEF ValuesInv, Moves
  <2>3. \A d \in CPUs \ {c} : flag'[d] = flag[d] /\ Here(d)' = Here(d)
    BY <1>1, <1>3, <1>4 DEF ValuesInv, Moves
  <2> QED
    BY <1>1, <2>1, <2>2, <2>3 DEF FlagInv
<1>12. EflagsInv'
  <2>1. flag' = [flag EXCEPT ![c] = flag'[c]] /\ eflags' = [eflags EXCEPT ![run[c]] = eflags'[run[c]]]
    BY <1>1, <1>2, <1>3 DEF ValuesInv
  <2> QED
    BY <1>1, <1>3, <1>4, <1>7, <2>1, EflagsKept
<1>13. IntenaInv'
  BY <1>1, <1>3, <1>4, <1>5, <1>7, IntenaKept
<1>14. LockInv'
  BY <1>1, <1>3, <1>4, <1>6, LockKept
<1>15. HereInv'
  BY <1>1, <1>3, <1>4, <1>7, HereKept
<1>16. KidInv'
  BY <1>1, <1>3 DEF KidInv
<1> QED
  BY <1>1, <1>3, <1>4, <1>8, <1>9, <1>10, <1>11, <1>12, <1>13, <1>14, <1>15, <1>16
     DEF IInv

\* The scheduler turns the interrupts on.
LEMMA StiKeeps ==
  ASSUME IInv, NEW c \in CPUs, Sti(c)
  PROVE  IInv'
<1>1. /\ ValuesInv /\ PointsInv /\ RunInv /\ OffInv /\ FramesInv /\ DepthInv /\ FlagInv
      /\ EflagsInv /\ IntenaInv /\ LockInv /\ HereInv /\ KidInv /\ ~panicked
  BY DEF IInv
<1>2. /\ Here(c) \in Points /\ Here(c) \in {<<"loop", 1>>}
      /\ run[c] \in Threads /\ Fits(run[c], Here(c))
  <2>1. At(c, "loop")
    BY DEF Sti
  <2>2. Here(c) \in Points /\ run[c] \in Threads /\ Fits(run[c], Here(c))
    BY <1>1, HereIs
  <2>3. "loop" = StepsOf(Here(c)[1])[Here(c)[2]]
    BY <1>1, <2>1, HereIs
  <2> QED
    BY <2>2, <2>3, StepPoints DEF Plain
<1>3. /\ flag' = [flag EXCEPT ![c] = TRUE]
      /\ UNCHANGED <<ncli, intena, run, pos, locked, holder, state, frames, eflags, here, saved, kid, panicked>>
      /\ Advance(c)
  BY DEF Sti, cpu, local, vars
<1>4. PICK k \in Points : /\ After(Here(c), k) /\ SameKind(Here(c)[1], k[1]) /\ Moves(c, k)
                          /\ Goto(c, k) /\ PointsInv' /\ OffInv' /\ FramesInv'
  BY <1>1, <1>3, Advances
<1>5. Depth(Here(c)) \in Nat /\ Depth(k) \in Nat /\ Depth(k) = Depth(Here(c))
  BY <1>2, <1>4, DepthAfter, InsideKind DEF Pushes, Pops, Plain
<1>6. \A l \in Locks : /\ OwnsAt(k, l) <=> OwnsAt(Here(c), l)
                       /\ MarkedAt(k, l) <=> MarkedAt(Here(c), l)
  BY <1>2, <1>4, OwnsAfter, MarkedAfter, InsideKind DEF Plain
<1>7. /\ Here(c)[1] \in HandlerPlaces <=> k[1] \in HandlerPlaces
      /\ k[1] \in Acquires \cup {"myproc"} => k[2] # 2
      /\ k # <<"myproc", 4>>
      /\ k[1] \notin SwitchPlaces
      /\ Here(c)[1] \notin SwitchPlaces
  BY <1>2, <1>4, KindAfter, PlaceAfter, InsideKind
  DEF SameKind, Plain, SwitchPlaces, Releases
<1>8. ValuesInv'
  BY <1>1, <1>2, <1>3, <1>5 DEF ValuesInv
<1>9. RunInv'
  BY <1>1, <1>3 DEF RunInv
<1>10. DepthInv'
  BY <1>1, <1>3, <1>4, <1>5, DepthKept
<1>11. FlagInv'
  <2>1. Depth(k) = 0 /\ k[1] \notin HandlerPlaces
    BY <1>2, <1>5, <1>7 DEF Depth, Inside, Acquires, HandlerPlaces
  <2>2. flag'[c] /\ Here(c)' = k
    BY <1>1, <1>3, <1>4 DEF ValuesInv, Moves
  <2>3. \A d \in CPUs \ {c} : flag'[d] = flag[d] /\ Here(d)' = Here(d)
    BY <1>1, <1>3, <1>4 DEF ValuesInv, Moves
  <2> QED
    BY <1>1, <2>1, <2>2, <2>3 DEF FlagInv
<1>12. EflagsInv'
  <2>1. flag' = [flag EXCEPT ![c] = flag'[c]] /\ eflags' = [eflags EXCEPT ![run[c]] = eflags'[run[c]]]
    BY <1>1, <1>2, <1>3 DEF ValuesInv
  <2> QED
    BY <1>1, <1>3, <1>4, <1>7, <2>1, EflagsKept
<1>13. IntenaInv'
  <2>1. Depth(k) = 0
    BY <1>2, <1>5 DEF Depth, Inside, Acquires
  <2> QED
    BY <1>1, <1>3, <1>4, <1>7, <2>1, IntenaKept
<1>14. LockInv'
  BY <1>1, <1>3, <1>4, <1>6, LockKept
<1>15. HereInv'
  BY <1>1, <1>3, <1>4, <1>7, HereKept
<1>16. KidInv'
  BY <1>1, <1>3 DEF KidInv
<1> QED
  BY <1>1, <1>3, <1>4, <1>8, <1>9, <1>10, <1>11, <1>12, <1>13, <1>14, <1>15, <1>16
     DEF IInv

\* allocproc finds a slot.
LEMMA AllocFoundKeeps ==
  ASSUME IInv, NEW c \in CPUs, Alloc(c), NEW p \in Procs, state[p] = "UNUSED",
         state' = [state EXCEPT ![p] = "EMBRYO"], kid' = [kid EXCEPT ![run[c]] = p], Advance(c)
  PROVE  IInv'
<1>1. ValuesInv /\ PointsInv /\ RunInv /\ DepthInv /\ FlagInv /\ LockInv /\ HereInv /\ KidInv
  BY DEF IInv
<1>2. At(c, "alloc")
  BY DEF Alloc
<1>3. /\ state' = [state EXCEPT ![p] = "EMBRYO"]
      /\ kid' = [kid EXCEPT ![run[c]] = p]
      /\ UNCHANGED <<flag, ncli, intena, run, pos, locked, holder, frames, eflags, here, saved, panicked>>
      /\ Advance(c)
  BY DEF Alloc, cpu, local, vars
<1>4. /\ PointsInv' /\ OffInv' /\ FramesInv' /\ DepthInv' /\ FlagInv' /\ EflagsInv' /\ IntenaInv'
      /\ panicked' = panicked
      /\ LockInv' /\ HereInv'
  BY <1>2, <1>3, QuietStep DEF QuietSteps
<1>5. ValuesInv'
  BY <1>1, <1>3 DEF ValuesInv
<1>6. RunInv'
  BY <1>1, <1>3 DEF RunInv, ValuesInv
<1>7. KidInv'
  <2>1. p # NoKid /\ \A q \in Procs : kid[q] # p
    BY <1>1 DEF KidInv, Procs, NoKid
  <2>2. \A q \in Procs : kid'[q] = IF q = run[c] THEN p ELSE kid[q]
    BY <1>1, <1>3 DEF ValuesInv
  <2>3. \A q \in Procs : state'[q] = IF q = p THEN "EMBRYO" ELSE state[q]
    BY <1>1, <1>3 DEF ValuesInv
  <2>4. \A q \in Procs : kid[q] \in Procs \cup {NoKid}
    BY <1>1 DEF ValuesInv
  <2> QED
    BY <1>1, <2>1, <2>2, <2>3, <2>4 DEF KidInv
<1> QED
  BY <1>4, <1>5, <1>6, <1>7 DEF IInv

\* fork makes the child runnable.
LEMMA ForkRunKeeps ==
  ASSUME IInv, NEW c \in CPUs, ForkRun(c)
  PROVE  IInv'
<1>1. ValuesInv /\ PointsInv /\ RunInv /\ DepthInv /\ FlagInv /\ LockInv /\ HereInv /\ KidInv
  BY DEF IInv
<1>2. At(c, "fork_run") /\ Here(c) \in Points /\ Here(c) \in {<<"fork_run", 1>>}
      /\ run[c] \in Threads /\ Fits(run[c], Here(c))
  <2>1. At(c, "fork_run")
    BY DEF ForkRun
  <2>2. Here(c) \in Points /\ run[c] \in Threads /\ Fits(run[c], Here(c))
    BY <1>1, HereIs
  <2> QED
    BY <1>1, <2>1, <2>2, HereIs, StepPoints DEF Plain
<1>3. /\ state' = [state EXCEPT ![kid[run[c]]] = "RUNNABLE"]
      /\ kid' = [kid EXCEPT ![run[c]] = NoKid]
      /\ UNCHANGED <<flag, ncli, intena, run, pos, locked, holder, frames, eflags, here, saved, panicked>>
      /\ Advance(c)
  BY DEF ForkRun, cpu, local, vars
<1>4. /\ PointsInv' /\ OffInv' /\ FramesInv' /\ DepthInv' /\ FlagInv' /\ EflagsInv' /\ IntenaInv'
      /\ panicked' = panicked
      /\ LockInv' /\ HereInv'
  BY <1>2, <1>3, QuietStep DEF QuietSteps
<1>5. run[c] \in Procs /\ kid[run[c]] \in Procs \cup {NoKid}
  BY <1>1, <1>2 DEF Fits, SchedPlaces, HandlerPlaces, ValuesInv
<1>6. /\ \A q \in Procs : state'[q] = IF q = kid[run[c]] THEN "RUNNABLE" ELSE state[q]
      /\ \A q \in Procs : kid'[q] = IF q = run[c] THEN NoKid ELSE kid[q]
  BY <1>1, <1>3 DEF ValuesInv
<1>7. ValuesInv'
  BY <1>1, <1>3 DEF ValuesInv
<1>8. RunInv'
  BY <1>1, <1>3, <1>5, <1>6 DEF RunInv, KidInv, Procs, NoKid
<1>9. KidInv'
  <2>1. \A q \in Procs : kid[q] \in Procs \cup {NoKid}
    BY <1>1 DEF ValuesInv
  <2> QED
    BY <1>1, <1>5, <1>6, <2>1 DEF KidInv, Procs, NoKid
<1> QED
  BY <1>4, <1>7, <1>8, <1>9 DEF IInv

\* The sleepers on ticks are made runnable.
LEMMA WakeUpKeeps ==
  ASSUME IInv, NEW c \in CPUs, WakeUp(c)
  PROVE  IInv'
<1>1. ValuesInv /\ PointsInv /\ RunInv /\ DepthInv /\ FlagInv /\ LockInv /\ HereInv /\ KidInv
  BY DEF IInv
<1>2. At(c, "wake_up")
  BY DEF WakeUp
<1>3. /\ state' = [p \in Procs |-> IF state[p] = "SLEEPING" THEN "RUNNABLE" ELSE state[p]]
      /\ UNCHANGED <<flag, ncli, intena, run, pos, locked, holder, frames, eflags, here, saved, kid, panicked>>
      /\ Advance(c)
  BY DEF WakeUp, cpu, local, vars
<1>4. /\ PointsInv' /\ OffInv' /\ FramesInv' /\ DepthInv' /\ FlagInv' /\ EflagsInv' /\ IntenaInv'
      /\ panicked' = panicked
      /\ LockInv' /\ HereInv'
  BY <1>2, <1>3, QuietStep DEF QuietSteps
<1>5. ValuesInv'
  BY <1>1, <1>3 DEF ValuesInv
<1>6. RunInv'
  BY <1>1, <1>3 DEF RunInv
<1>7. KidInv'
  <2>1. \A q \in Procs : kid[q] \in Procs \cup {NoKid}
    BY <1>1 DEF ValuesInv
  <2> QED
    BY <1>1, <1>3, <2>1 DEF KidInv
<1> QED
  BY <1>4, <1>5, <1>6, <1>7 DEF IInv

\* sched restores the intena that its process had.
LEMMA SchedReturnKeeps ==
  ASSUME IInv, NEW c \in CPUs, SchedReturn(c)
  PROVE  IInv'
<1>1. /\ ValuesInv /\ PointsInv /\ RunInv /\ OffInv /\ FramesInv /\ DepthInv /\ FlagInv
      /\ EflagsInv /\ IntenaInv /\ LockInv /\ HereInv /\ KidInv /\ ~panicked
  BY DEF IInv
<1>2. /\ Here(c) \in Points /\ Here(c) \in {<<"sleep_swtch", 1>>, <<"yield_swtch", 1>>}
      /\ run[c] \in Threads /\ Fits(run[c], Here(c))
  <2>1. At(c, "sleep_swtch") \/ At(c, "yield_swtch")
    BY DEF SchedReturn
  <2>2. Here(c) \in Points /\ run[c] \in Threads /\ Fits(run[c], Here(c))
    BY <1>1, HereIs
  <2>3. "sleep_swtch" = StepsOf(Here(c)[1])[Here(c)[2]] \/ "yield_swtch" = StepsOf(Here(c)[1])[Here(c)[2]]
    BY <1>1, <2>1, HereIs
  <2> QED
    BY <2>2, <2>3, StepPoints DEF Plain
<1>3. /\ intena' = [intena EXCEPT ![c] = saved[run[c]]]
      /\ saved' = [saved EXCEPT ![run[c]] = FALSE]
      /\ UNCHANGED <<flag, ncli, run, pos, locked, holder, state, frames, eflags, here, kid, panicked>>
      /\ Advance(c)
  BY DEF SchedReturn, Restored, cpu, local, vars
<1>4. PICK k \in Points : /\ After(Here(c), k) /\ SameKind(Here(c)[1], k[1]) /\ Moves(c, k)
                          /\ Goto(c, k) /\ PointsInv' /\ OffInv' /\ FramesInv'
  BY <1>1, <1>3, Advances
<1>5. Depth(Here(c)) \in Nat /\ Depth(k) \in Nat /\ Depth(k) = Depth(Here(c))
  BY <1>2, <1>4, DepthAfter, InsideKind DEF Pushes, Pops, Plain
<1>6. \A l \in Locks : /\ OwnsAt(k, l) <=> OwnsAt(Here(c), l)
                       /\ MarkedAt(k, l) <=> MarkedAt(Here(c), l)
  BY <1>2, <1>4, OwnsAfter, MarkedAfter, InsideKind DEF Plain
<1>7. /\ Here(c)[1] \in HandlerPlaces <=> k[1] \in HandlerPlaces
      /\ k[1] \in Acquires \cup {"myproc"} => k[2] # 2
      /\ k # <<"myproc", 4>>
      /\ k[1] \notin SwitchPlaces
      /\ Here(c)[1] \notin {"loop", "fret"}
  BY <1>2, <1>4, KindAfter, PlaceAfter, InsideKind
  DEF SameKind, Plain, SwitchPlaces, Releases
<1>8. run[c] \in Procs
  BY <1>2 DEF Fits, SchedPlaces, HandlerPlaces, YieldPlaces
<1>9. ValuesInv'
  BY <1>1, <1>3, <1>8 DEF ValuesInv
<1>10. RunInv'
  BY <1>1, <1>3 DEF RunInv
<1>11. DepthInv'
  BY <1>1, <1>3, <1>4, <1>5, DepthKept
<1>12. FlagInv'
  BY <1>1, <1>3, <1>4, <1>5, <1>7, FlagKept
<1>13. EflagsInv'
  <2>1. flag' = [flag EXCEPT ![c] = flag'[c]] /\ eflags' = [eflags EXCEPT ![run[c]] = eflags'[run[c]]]
    BY <1>1, <1>2, <1>3 DEF ValuesInv
  <2> QED
    BY <1>1, <1>3, <1>4, <1>7, <2>1, EflagsKept
<1>14. IntenaInv'
  <2>1. pc[run[c]][1] \in SwitchPlaces
    BY <1>2 DEF SwitchPlaces, Here
  <2>2. intena'[c] = (Here(c)[1] \notin HandlerPlaces)
    BY <1>1, <1>3, <1>8, <2>1 DEF IntenaInv, ValuesInv, Here
  <2>3. Here(c)' = k /\ \A d \in CPUs \ {c} : intena'[d] = intena[d] /\ Here(d)' = Here(d)
    BY <1>1, <1>3, <1>4 DEF ValuesInv, Moves
  <2>4. \A d \in CPUs : Depth(Here(d)') > 0 /\ Here(d)'[1] \notin Foreign
                        => intena'[d] = (Here(d)'[1] \notin HandlerPlaces)
    BY <1>1, <1>7, <2>2, <2>3 DEF IntenaInv
  <2>5. \A p \in Procs : pc'[p] = IF p = run[c] THEN k ELSE pc[p]
    BY <1>1, <1>4 DEF Goto, PointsInv, Threads
  <2>6. \A p \in Procs \ {run[c]} : saved'[p] = saved[p]
    BY <1>1, <1>3 DEF ValuesInv
  <2>7. \A p \in Procs : pc'[p][1] \in SwitchPlaces => saved'[p] = (pc'[p][1] \notin HandlerPlaces)
    BY <1>1, <1>7, <2>5, <2>6 DEF IntenaInv
  <2> QED
    BY <2>4, <2>7 DEF IntenaInv
<1>15. LockInv'
  BY <1>1, <1>3, <1>4, <1>6, LockKept
<1>16. HereInv'
  BY <1>1, <1>3, <1>4, <1>7, HereKept
<1>17. KidInv'
  BY <1>1, <1>3 DEF KidInv
<1> QED
  BY <1>1, <1>3, <1>4, <1>9, <1>10, <1>11, <1>12, <1>13, <1>14, <1>15, <1>16,
     <1>17 DEF IInv

\* The scan ends.
LEMMA ScanEndKeeps ==
  ASSUME IInv, NEW c \in CPUs, Scan(c), pos' = [pos EXCEPT ![c] = 1], Advance(c), UNCHANGED <<state, run>>
  PROVE  IInv'
<1>1. ValuesInv /\ PointsInv /\ RunInv /\ DepthInv /\ FlagInv /\ LockInv /\ HereInv /\ KidInv
  BY DEF IInv
<1>2. At(c, "scan")
  BY DEF Scan
<1>3. /\ pos' = [pos EXCEPT ![c] = 1]
      /\ UNCHANGED <<flag, ncli, intena, run, locked, holder, state, frames, eflags, here, saved, kid, panicked>>
      /\ Advance(c)
  BY DEF Scan, cpu, local, vars
<1>4. /\ PointsInv' /\ OffInv' /\ FramesInv' /\ DepthInv' /\ FlagInv' /\ EflagsInv' /\ IntenaInv'
      /\ panicked' = panicked
      /\ LockInv' /\ HereInv'
  BY <1>2, <1>3, QuietStep DEF QuietSteps
<1>5. ValuesInv'
  BY <1>1, <1>3 DEF ValuesInv
<1>6. RunInv' /\ KidInv'
  BY <1>1, <1>3 DEF RunInv, KidInv
<1> QED
  BY <1>4, <1>5, <1>6 DEF IInv

\* The end of allocproc when there is no slot, and of an interrupt: the next place is
\* chosen, and nothing else changes.
LEMMA JumpKeeps ==
  ASSUME IInv, NEW c \in CPUs, NEW k \in Points, Goto(c, k), Fits(run[c], k),
         UNCHANGED <<flag, cpu, locked, holder, state, frames, local, panicked>>,
         Here(c)[1] \in HandlerPlaces <=> k[1] \in HandlerPlaces, Depth(k) = Depth(Here(c)),
         \A l \in Locks : /\ OwnsAt(k, l) <=> OwnsAt(Here(c), l)
                          /\ MarkedAt(k, l) <=> MarkedAt(Here(c), l),
         k[2] = 1, k[1] \notin SwitchPlaces, Here(c)[1] \notin Foreign \cup {"loop", "fret"}
  PROVE  IInv'
<1>1. /\ ValuesInv /\ PointsInv /\ RunInv /\ OffInv /\ FramesInv /\ DepthInv /\ FlagInv
      /\ EflagsInv /\ IntenaInv /\ LockInv /\ HereInv /\ KidInv /\ ~panicked
  BY DEF IInv
<1>2. UNCHANGED <<flag, ncli, intena, run, pos, locked, holder, state, frames, eflags, here, saved,
                  kid, panicked>>
  BY DEF cpu, local
<1>3. Moves(c, k) /\ PointsInv' /\ OffInv' /\ FramesInv'
  BY <1>1, <1>2, Stays, FramesKept
<1>4. ValuesInv' /\ RunInv' /\ KidInv'
  BY <1>1, <1>2 DEF ValuesInv, RunInv, KidInv
<1>5. DepthInv'
  BY <1>1, <1>2, <1>3, DepthKept
<1>6. FlagInv'
  BY <1>1, <1>2, <1>3, FlagKept
<1>7. EflagsInv'
  <2>1. flag' = [flag EXCEPT ![c] = flag[c]] /\ eflags' = [eflags EXCEPT ![run[c]] = eflags[run[c]]]
    BY <1>1, <1>2 DEF ValuesInv
  <2>2. k[1] \in Acquires \cup {"myproc"} => k[2] # 2
    OBVIOUS
  <2>3. run' = run
    BY <1>2
  <2> QED
    BY <1>1, <1>3, <2>1, <2>2, <2>3, EflagsKept
<1>8. IntenaInv'
  BY <1>1, <1>2, <1>3, IntenaKept
<1>9. LockInv'
  BY <1>1, <1>2, <1>3, LockKept
<1>10. HereInv'
  BY <1>1, <1>2, <1>3, HereKept
<1> QED
  BY <1>1, <1>2, <1>3, <1>4, <1>5, <1>6, <1>7, <1>8, <1>9, <1>10 DEF IInv

LEMMA AllocKeeps ==
  ASSUME IInv, NEW c \in CPUs, Alloc(c)
  PROVE  IInv'
<1>1. PointsInv /\ RunInv /\ At(c, "alloc")
  BY DEF IInv, Alloc
<1>2. Here(c) = <<"alloc", 1>> /\ Fits(run[c], Here(c))
  BY <1>1, HereIs, StepPoints DEF Plain
<1>3. CASE \E p \in Procs : /\ state[p] = "UNUSED" /\ state' = [state EXCEPT ![p] = "EMBRYO"]
                            /\ kid' = [kid EXCEPT ![run[c]] = p] /\ Advance(c)
  BY <1>3, AllocFoundKeeps
<1>4. CASE Goto(c, <<"full_rel", 1>>) /\ UNCHANGED <<state, kid>>
  <2> DEFINE k == <<"full_rel", 1>>
  <2>1. k \in Points /\ Fits(run[c], k) /\ k[2] = 1
    BY <1>2 DEF Points, Releases, Fits, SchedPlaces, HandlerPlaces
  <2>2. UNCHANGED <<flag, cpu, locked, holder, state, frames, local, panicked>>
    BY <1>4 DEF Alloc, local
  <2>3. /\ Here(c)[1] \notin HandlerPlaces /\ k[1] \notin HandlerPlaces
        /\ k[1] \notin SwitchPlaces /\ Here(c)[1] \notin Foreign \cup {"loop", "fret"}
    BY <1>2 DEF HandlerPlaces, SwitchPlaces, Foreign
  <2>4. Depth(k) = Depth(Here(c))
    BY <1>2 DEF Depth, Inside, Acquires
  <2>5. \A l \in Locks : /\ OwnsAt(k, l) <=> OwnsAt(Here(c), l)
                         /\ MarkedAt(k, l) <=> MarkedAt(Here(c), l)
    BY <1>2 DEF OwnsAt, MarkedAt, Inside, Acquires, Releases, Locks, LockOf
  <2> HIDE DEF k
  <2> QED
    BY <1>4, <2>1, <2>2, <2>3, <2>4, <2>5, JumpKeeps DEF k
<1> QED
  BY <1>3, <1>4 DEF Alloc, Enter

LEMMA IntrEndKeeps ==
  ASSUME IInv, NEW c \in CPUs, IntrEnd(c)
  PROVE  IInv'
<1>1. PointsInv /\ RunInv /\ At(c, "intr_end")
  BY DEF IInv, IntrEnd
<1>2. Here(c) = <<"intr_end", 1>> /\ Fits(run[c], Here(c))
  BY <1>1, HereIs, StepPoints DEF Plain
<1>3. PICK k \in {<<"yield_acq", 1>>, <<"iret", 1>>} :
        Goto(c, k) /\ (k = <<"yield_acq", 1>> => run[c] \in Procs)
  BY DEF IntrEnd, Enter
<1>4. k \in Points /\ Fits(run[c], k) /\ k[2] = 1
  BY <1>2, <1>3 DEF Points, Acquires, Plain, Fits, SchedPlaces, HandlerPlaces,
     YieldPlaces
<1>5. UNCHANGED <<flag, cpu, locked, holder, state, frames, local, panicked>>
  BY DEF IntrEnd
<1>6. /\ Here(c)[1] \in HandlerPlaces /\ k[1] \in HandlerPlaces
      /\ k[1] \notin SwitchPlaces /\ Here(c)[1] \notin Foreign \cup {"loop", "fret"}
  BY <1>2, <1>3 DEF HandlerPlaces, SwitchPlaces, Foreign
<1>7. Depth(k) = 0 /\ Depth(Here(c)) = 0
  BY <1>2, <1>3 DEF Depth, Inside, Acquires
<1>8. Here(c) \in Points
  BY <1>1, HereIs
<1>9. \A l \in Locks : /\ OwnsAt(k, l) <=> OwnsAt(Here(c), l)
                       /\ MarkedAt(k, l) <=> MarkedAt(Here(c), l)
  BY <1>4, <1>7, <1>8, DepthMeans
<1> QED
  BY <1>3, <1>4, <1>5, <1>6, <1>7, <1>9, JumpKeeps

\* An interrupt comes where nothing is pushed and in no handler.
LEMMA InterruptKeeps ==
  ASSUME IInv, NEW c \in CPUs, Interrupt(c)
  PROVE  IInv'
<1>1. /\ ValuesInv /\ PointsInv /\ RunInv /\ OffInv /\ FramesInv /\ DepthInv /\ FlagInv
      /\ EflagsInv /\ IntenaInv /\ LockInv /\ HereInv /\ KidInv /\ ~panicked
  BY DEF IInv
<1>2. /\ Here(c) \in Points /\ Depth(Here(c)) \in Nat
      /\ run[c] \in Threads /\ Fits(run[c], Here(c))
  BY <1>1, HereIs, DepthMeans
<1>3. PICK k \in {<<"tick_acq", 1>>, <<"intr_end", 1>>} : Goto(c, k)
  BY DEF Interrupt, Enter
<1>4. /\ flag[c] /\ flag' = [flag EXCEPT ![c] = FALSE]
      /\ frames' = [frames EXCEPT ![run[c]] =
                        <<[pc |-> Here(c), eflags |-> eflags[run[c]]]>> \o frames[run[c]]]
      /\ eflags' = [eflags EXCEPT ![run[c]] = FALSE]
      /\ UNCHANGED <<ncli, intena, run, pos, locked, holder, state, here, saved, kid, panicked>>
  BY DEF Interrupt, cpu, Here
<1>5. Depth(Here(c)) = 0 /\ Here(c)[1] \notin HandlerPlaces
  BY <1>1, <1>2, <1>4 DEF FlagInv
<1>6. k \in Points /\ Fits(run[c], k) /\ k[2] = 1 /\ k # <<"myproc", 4>>
  BY <1>3 DEF Points, Acquires, Plain, Fits, SchedPlaces, HandlerPlaces, YieldPlaces
<1>7. Depth(k) = 0 /\ k[1] \in HandlerPlaces /\ k[1] \notin SwitchPlaces
  BY <1>3 DEF Depth, Inside, Acquires, HandlerPlaces, SwitchPlaces
<1>8. Moves(c, k) /\ PointsInv' /\ OffInv'
  BY <1>1, <1>3, <1>4, <1>6, Stays
<1>9. \A d \in CPUs : Here(d)' = IF d = c THEN k ELSE Here(d)
  BY <1>8 DEF Moves
<1>10. ValuesInv' /\ RunInv' /\ KidInv'
  BY <1>1, <1>4 DEF ValuesInv, RunInv, KidInv
<1>11. FramesInv'
  <2>1. frames[run[c]] = <<>>
    BY <1>1, <1>2, <1>5 DEF FramesInv, Here
  <2>2. frames'[run[c]] = <<[pc |-> Here(c), eflags |-> eflags[run[c]]]>>
    BY <1>1, <1>2, <1>4, <2>1 DEF ValuesInv
  <2>3. Here(c)[2] = 2 => eflags[run[c]]
    BY <1>1, <1>2, <1>4, <1>5, DepthMeans DEF EflagsInv
  <2>4. eflags[run[c]] \in BOOLEAN
    BY <1>1, <1>2 DEF ValuesInv
  <2>5. \A t \in Threads \ {run[c]} : frames'[t] = frames[t] /\ pc'[t] = pc[t]
    BY <1>1, <1>3, <1>4 DEF ValuesInv, PointsInv, Goto
  <2>6. pc'[run[c]] = k
    BY <1>1, <1>2, <1>3 DEF PointsInv, Goto
  <2>7. \A t \in Threads \ {run[c]} :
          IF pc'[t][1] \in HandlerPlaces
          THEN \E q \in Points, e \in BOOLEAN :
                  /\ frames'[t] = <<[pc |-> q, eflags |-> e]>>
                  /\ q[1] \notin HandlerPlaces /\ Depth(q) = 0 /\ Fits(t, q)
                  /\ q[2] = 2 => e
          ELSE frames'[t] = <<>>
    BY <1>1, <2>5 DEF FramesInv
  <2> QED
    BY <1>2, <1>5, <1>7, <2>2, <2>3, <2>4, <2>6, <2>7 DEF FramesInv
<1>12. DepthInv'
  BY <1>1, <1>4, <1>5, <1>7, <1>8, DepthKept
<1>13. FlagInv'
  <2>1. ~flag'[c] /\ \A d \in CPUs \ {c} : flag'[d] = flag[d]
    BY <1>1, <1>4 DEF ValuesInv
  <2> QED
    BY <1>1, <1>7, <1>9, <2>1 DEF FlagInv
<1>14. EflagsInv'
  <2>1. (k[1] \in Acquires \cup {"myproc"} => k[2] # 2) /\ run' = run
    BY <1>4, <1>6
  <2> QED
    BY <1>1, <1>4, <1>8, <2>1, EflagsKept
<1>15. IntenaInv'
  <2>1. \A d \in CPUs : Depth(Here(d)') > 0 /\ Here(d)'[1] \notin Foreign
                        => intena'[d] = (Here(d)'[1] \notin HandlerPlaces)
    BY <1>1, <1>4, <1>7, <1>9 DEF IntenaInv
  <2>2. \A p \in Procs : pc'[p] = IF p = run[c] THEN k ELSE pc[p]
    BY <1>1, <1>3 DEF Goto, PointsInv, Threads
  <2>3. \A p \in Procs : pc'[p][1] \in SwitchPlaces => saved'[p] = (pc'[p][1] \notin HandlerPlaces)
    BY <1>1, <1>4, <1>7, <2>2 DEF IntenaInv
  <2> QED
    BY <2>1, <2>3 DEF IntenaInv
<1>16. LockInv'
  <2>1. \A l \in Locks : /\ OwnsAt(k, l) <=> OwnsAt(Here(c), l)
                         /\ MarkedAt(k, l) <=> MarkedAt(Here(c), l)
    BY <1>2, <1>5, <1>6, <1>7, DepthMeans
  <2> QED
    BY <1>1, <1>4, <1>8, <2>1, LockKept
<1>17. HereInv'
  BY <1>1, <1>4, <1>6, <1>8, HereKept
<1> QED
  BY <1>1, <1>4, <1>8, <1>10, <1>11, <1>12, <1>13, <1>14, <1>15, <1>16, <1>17 DEF IInv

\* iret returns to the interrupted point, with the interrupts on.
LEMMA IretKeeps ==
  ASSUME IInv, NEW c \in CPUs, Iret(c)
  PROVE  IInv'
<1>1. /\ ValuesInv /\ PointsInv /\ RunInv /\ OffInv /\ FramesInv /\ DepthInv /\ FlagInv
      /\ EflagsInv /\ IntenaInv /\ LockInv /\ HereInv /\ KidInv /\ ~panicked
  BY DEF IInv
<1>2. /\ Here(c) = <<"iret", 1>> /\ Here(c) \in Points /\ run[c] \in Threads
  <2>1. At(c, "iret")
    BY DEF Iret
  <2> QED
    BY <1>1, <2>1, HereIs, StepPoints DEF Plain
<1>3. Depth(Here(c)) = 0 /\ Here(c)[1] \in HandlerPlaces
  BY <1>2 DEF Depth, Inside, Acquires, HandlerPlaces
<1>4. PICK k \in Points, e \in BOOLEAN :
        /\ frames[run[c]] = <<[pc |-> k, eflags |-> e]>>
        /\ k[1] \notin HandlerPlaces /\ Depth(k) = 0 /\ Fits(run[c], k) /\ (k[2] = 2 => e)
  BY <1>1, <1>2, <1>3 DEF FramesInv, Here
<1>5. /\ Head(frames[run[c]]).pc = k /\ Head(frames[run[c]]).eflags = e
      /\ Tail(frames[run[c]]) = <<>>
  BY <1>4
<1>6. /\ flag' = [flag EXCEPT ![c] = TRUE] /\ Goto(c, k)
      /\ frames' = [frames EXCEPT ![run[c]] = <<>>] /\ eflags' = [eflags EXCEPT ![run[c]] = e]
      /\ UNCHANGED <<ncli, intena, run, pos, locked, holder, state, here, saved, kid, panicked>>
  BY <1>5 DEF Iret, cpu
<1>7. k[1] \notin Foreign /\ k # <<"myproc", 4>>
  BY <1>4, DepthMeans
<1>8. Moves(c, k) /\ PointsInv' /\ OffInv'
  BY <1>1, <1>4, <1>6, Stays
<1>9. \A d \in CPUs : Here(d)' = IF d = c THEN k ELSE Here(d)
  BY <1>8 DEF Moves
<1>10. ValuesInv' /\ RunInv' /\ KidInv'
  BY <1>1, <1>6 DEF ValuesInv, RunInv, KidInv
<1>11. FramesInv'
  <2>1. frames'[run[c]] = <<>> /\ pc'[run[c]] = k
    BY <1>1, <1>2, <1>6 DEF ValuesInv, PointsInv, Goto
  <2>2. \A t \in Threads \ {run[c]} : frames'[t] = frames[t] /\ pc'[t] = pc[t]
    BY <1>1, <1>6 DEF ValuesInv, PointsInv, Goto
  <2>3. \A t \in Threads \ {run[c]} :
          IF pc'[t][1] \in HandlerPlaces
          THEN \E q \in Points, f \in BOOLEAN :
                  /\ frames'[t] = <<[pc |-> q, eflags |-> f]>>
                  /\ q[1] \notin HandlerPlaces /\ Depth(q) = 0 /\ Fits(t, q)
                  /\ q[2] = 2 => f
          ELSE frames'[t] = <<>>
    BY <1>1, <2>2 DEF FramesInv
  <2> QED
    BY <1>4, <2>1, <2>3 DEF FramesInv
<1>12. DepthInv'
  BY <1>1, <1>3, <1>4, <1>6, <1>8, DepthKept
<1>13. FlagInv'
  <2>1. flag'[c] /\ \A d \in CPUs \ {c} : flag'[d] = flag[d]
    BY <1>1, <1>6 DEF ValuesInv
  <2> QED
    BY <1>1, <1>4, <1>9, <2>1 DEF FlagInv
<1>14. EflagsInv'
  <2>1. flag'[c] = TRUE /\ eflags'[run[c]] = e
    BY <1>1, <1>2, <1>6 DEF ValuesInv
  <2>2. \A d \in CPUs \ {c} : flag'[d] = flag[d] /\ eflags'[run[d]] = eflags[run[d]]
    BY <1>1, <1>6 DEF ValuesInv, RunInv
  <2>3. run' = run /\ (k[2] = 2 => e = TRUE)
    BY <1>4, <1>6
  <2> QED
    BY <1>1, <1>9, <2>1, <2>2, <2>3 DEF EflagsInv
<1>15. IntenaInv'
  <2>1. \A d \in CPUs : Depth(Here(d)') > 0 /\ Here(d)'[1] \notin Foreign
                        => intena'[d] = (Here(d)'[1] \notin HandlerPlaces)
    BY <1>1, <1>4, <1>6, <1>9 DEF IntenaInv
  <2>2. \A p \in Procs : pc'[p] = IF p = run[c] THEN k ELSE pc[p]
    BY <1>1, <1>6 DEF Goto, PointsInv, Threads
  <2>3. \A p \in Procs : pc'[p][1] \in SwitchPlaces => saved'[p] = (pc'[p][1] \notin HandlerPlaces)
    BY <1>1, <1>6, <1>7, <2>2 DEF IntenaInv, Foreign
  <2> QED
    BY <2>1, <2>3 DEF IntenaInv
<1>16. LockInv'
  <2>1. \A l \in Locks : /\ OwnsAt(k, l) <=> OwnsAt(Here(c), l)
                         /\ MarkedAt(k, l) <=> MarkedAt(Here(c), l)
    BY <1>2, <1>3, <1>4, DepthMeans
  <2> QED
    BY <1>1, <1>6, <1>8, <2>1, LockKept
<1>17. HereInv'
  BY <1>1, <1>6, <1>7, <1>8, HereKept
<1> QED
  BY <1>1, <1>6, <1>8, <1>10, <1>11, <1>12, <1>13, <1>14, <1>15, <1>16, <1>17 DEF IInv

\* sched does not panic: the process has ptable.lock and nothing else.  The scheduler
\* of the CPU goes on where its own swtch left it, with the lock.
LEMMA SchedCallKeeps ==
  ASSUME IInv, NEW c \in CPUs, NEW step \in {"sleep_sched", "yield_sched"},
         NEW st \in {"SLEEPING", "RUNNABLE"}, SchedCall(c, step, st)
  PROVE  IInv'
<1>1. /\ ValuesInv /\ PointsInv /\ RunInv /\ OffInv /\ FramesInv /\ DepthInv /\ FlagInv
      /\ EflagsInv /\ IntenaInv /\ LockInv /\ HereInv /\ KidInv /\ ~panicked
  BY DEF IInv
<1>2. /\ Here(c) = <<step, 1>> /\ Here(c) \in Points /\ run[c] \in Procs
  <2>1. At(c, step)
    BY DEF SchedCall
  <2>2. Here(c) = <<step, 1>> /\ Here(c) \in Points /\ Fits(run[c], Here(c))
    BY <1>1, <2>1, HereIs, StepPoints DEF Plain
  <2> QED
    BY <2>2 DEF Fits, SchedPlaces, HandlerPlaces, YieldPlaces
<1>3. /\ Depth(Here(c)) = 1
      /\ \A l \in Locks : /\ OwnsAt(Here(c), l) <=> l = "ptable"
                          /\ MarkedAt(Here(c), l) <=> l = "ptable"
  BY <1>2, DepthMeans
<1>4. Holding(c, "ptable") /\ ncli[c] = 1 /\ ~flag[c]
  <2>1. "ptable" \in Locks
    BY DEF Locks
  <2> QED
    BY <1>1, <1>3, <2>1 DEF LockInv, DepthInv, FlagInv, Holding
<1>5. /\ state' = [state EXCEPT ![run[c]] = st]
      /\ saved' = [saved EXCEPT ![run[c]] = intena[c]]
      /\ run' = [run EXCEPT ![c] = Sched(c)] /\ Advance(c)
      /\ UNCHANGED <<flag, ncli, intena, pos, locked, holder, frames, eflags, here, kid, panicked>>
  BY <1>4 DEF SchedCall
<1>6. PICK k \in Points : /\ Goto(c, k) /\ SameKind(Here(c)[1], k[1])
                          /\ k = <<IF step = "sleep_sched" THEN "sleep_swtch" ELSE "yield_swtch", 1>>
  <2>1. PICK k : After(Here(c), k) /\ Goto(c, k)
    BY <1>5 DEF Advance, After, Here
  <2>2. k \in Points /\ SameKind(Here(c)[1], k[1])
    BY <1>2, <2>1, KindAfter
  <2>3. StepsOf(step) = <<step>> /\ Len(StepsOf(step)) = 1
    BY Steps DEF Plain
  <2>4. PICK edge \in Flow : edge[1] = step /\ k = <<edge[2], 1>>
    BY <1>2, <2>1, <2>3 DEF After, Enter
  <2>5. edge[2] = IF step = "sleep_sched" THEN "sleep_swtch" ELSE "yield_swtch"
    BY <2>4, FlowIs
  <2> QED
    BY <2>1, <2>2, <2>4, <2>5
<1>7. /\ run[c] \in Threads /\ Sched(c) \in Threads \ Procs /\ run[c] # Sched(c)
      /\ \A d \in CPUs \ {c} : run[d] # run[c] /\ run[d] # Sched(c)
  <2>1. \A d \in CPUs : Sched(d) \in Threads \ Procs /\ (Sched(d) = Sched(c) => d = c)
    BY DEF Sched, Threads, Procs, CPUs
  <2> QED
    BY <1>1, <1>2, <2>1 DEF RunInv, Threads
<1>8. /\ \A d \in CPUs : run'[d] = IF d = c THEN Sched(c) ELSE run[d]
      /\ \A t \in Threads : pc'[t] = IF t = run[c] THEN k ELSE pc[t]
      /\ \A p \in Procs : state'[p] = IF p = run[c] THEN st ELSE state[p]
      /\ \A p \in Procs : saved'[p] = IF p = run[c] THEN intena[c] ELSE saved[p]
  BY <1>1, <1>5, <1>6 DEF ValuesInv, PointsInv, Goto
<1>9. pc[Sched(c)] = <<"scan", 1>>
  <2>1. \A d \in CPUs : run[d] # Sched(c)
    BY <1>7
  <2> QED
    BY <1>1, <1>7, <2>1 DEF OffInv, Left
<1>10. Moves(c, <<"scan", 1>>)
  <2>1. pc'[run'[c]] = <<"scan", 1>>
    BY <1>7, <1>8, <1>9
  <2>2. \A d \in CPUs \ {c} : run'[d] = run[d] /\ run[d] \in Threads /\ pc'[run[d]] = pc[run[d]]
    BY <1>1, <1>7, <1>8, HereIs
  <2> QED
    BY <2>1, <2>2 DEF Moves, Here
<1>11. /\ <<"scan", 1>> \in Points /\ Depth(<<"scan", 1>>) = 1
       /\ \A l \in Locks : /\ OwnsAt(<<"scan", 1>>, l) <=> l = "ptable"
                           /\ MarkedAt(<<"scan", 1>>, l) <=> l = "ptable"
  <2>1. <<"scan", 1>> \in Points
    BY DEF Points, Plain
  <2> QED
    BY <2>1, DepthMeans
<1>12. ValuesInv'
  BY <1>1, <1>5, <1>7 DEF ValuesInv
<1>13. PointsInv'
  <2>1. Fits(run[c], k)
    BY <1>2, <1>6 DEF Fits, SchedPlaces
  <2> QED
    BY <1>1, <1>6, <1>8, <2>1 DEF PointsInv, Goto
<1>14. RunInv'
  BY <1>1, <1>2, <1>7, <1>8 DEF RunInv
<1>15. OffInv'
  <2>1. k \in Left(run[c])
    BY <1>2, <1>6 DEF Left, SwitchPlaces
  <2> QED
    BY <1>1, <1>7, <1>8, <2>1 DEF OffInv
<1>16. FramesInv'
  <2>1. Here(c)[1] \in HandlerPlaces <=> k[1] \in HandlerPlaces
    BY <1>6 DEF SameKind
  <2> QED
    BY <1>1, <1>5, <1>6, <2>1, FramesKept
<1>17. DepthInv'
  BY <1>1, <1>3, <1>5, <1>10, <1>11, DepthKept
<1>18. FlagInv'
  <2>1. \A d \in CPUs : Here(d)' = IF d = c THEN <<"scan", 1>> ELSE Here(d)
    BY <1>10 DEF Moves
  <2> QED
    BY <1>1, <1>4, <1>5, <1>11, <2>1 DEF FlagInv
<1>19. EflagsInv'
  <2>1. \A d \in CPUs \ {c} : /\ Here(d)' = Here(d) /\ eflags'[run'[d]] = eflags[run[d]]
                              /\ flag'[d] = flag[d]
    BY <1>5, <1>8, <1>10 DEF Moves
  <2>2. Here(c)' = <<"scan", 1>>
    BY <1>10 DEF Moves
  <2> QED
    BY <1>1, <2>1, <2>2 DEF EflagsInv
<1>20. IntenaInv'
  <2>1. \A d \in CPUs : Depth(Here(d)') > 0 /\ Here(d)'[1] \notin Foreign
                        => intena'[d] = (Here(d)'[1] \notin HandlerPlaces)
    BY <1>1, <1>5, <1>10 DEF IntenaInv, Moves, Foreign
  <2>2. intena[c] = (k[1] \notin HandlerPlaces)
    <3>1. Here(c)[1] \notin Foreign
      BY <1>2 DEF Foreign, SwitchPlaces
    <3>2. intena[c] = (Here(c)[1] \notin HandlerPlaces)
      BY <1>1, <1>3, <3>1 DEF IntenaInv
    <3> QED
      BY <1>6, <3>2 DEF SameKind
  <2>3. \A p \in Procs : pc'[p][1] \in SwitchPlaces => saved'[p] = (pc'[p][1] \notin HandlerPlaces)
    BY <1>1, <1>8, <2>2 DEF IntenaInv, Threads
  <2> QED
    BY <2>1, <2>3 DEF IntenaInv
<1>21. LockInv'
  BY <1>1, <1>3, <1>5, <1>10, <1>11, LockKept
<1>22. HereInv'
  <2>1. \A d \in CPUs \ {c} : Here(d)' = Here(d) /\ here'[run'[d]] = here[run[d]]
    BY <1>5, <1>8, <1>10 DEF Moves
  <2>2. Here(c)' = <<"scan", 1>>
    BY <1>10 DEF Moves
  <2> QED
    BY <1>1, <2>1, <2>2 DEF HereInv
<1>23. KidInv'
  <2>1. state[run[c]] = "RUNNING"
    BY <1>1, <1>2 DEF RunInv
  <2>2. \A p \in Procs : kid[p] \in Procs \cup {NoKid}
    BY <1>1 DEF ValuesInv
  <2> QED
    BY <1>1, <1>5, <1>8, <2>1, <2>2 DEF KidInv
<1> QED
  BY <1>1, <1>5, <1>12, <1>13, <1>14, <1>15, <1>16, <1>17, <1>18, <1>19, <1>20, <1>21,
     <1>22,
     <1>23 DEF IInv

\* The scheduler switches to a process, which goes on where its own swtch left it.
LEMMA ScanFoundKeeps ==
  ASSUME IInv, NEW c \in CPUs, Scan(c), NEW p \in Procs, state[p] = "RUNNABLE",
         p >= pos[c], state' = [state EXCEPT ![p] = "RUNNING"], run' = [run EXCEPT ![c] = p],
         pos' = [pos EXCEPT ![c] = p + 1], UNCHANGED pc
  PROVE  IInv'
<1>1. /\ ValuesInv /\ PointsInv /\ RunInv /\ OffInv /\ FramesInv /\ DepthInv /\ FlagInv
      /\ EflagsInv /\ IntenaInv /\ LockInv /\ HereInv /\ KidInv /\ ~panicked
  BY DEF IInv
<1>2. /\ Here(c) = <<"scan", 1>> /\ Here(c) \in Points /\ run[c] = Sched(c)
      /\ run[c] \in Threads \ Procs
  <2>1. At(c, "scan")
    BY DEF Scan
  <2>2. Here(c) = <<"scan", 1>> /\ Here(c) \in Points /\ Fits(run[c], Here(c)) /\ run[c] \in Threads
    BY <1>1, <2>1, HereIs, StepPoints DEF Plain
  <2> QED
    BY <1>1, <2>2 DEF Fits, SchedPlaces, RunInv
<1>3. /\ Depth(Here(c)) = 1
      /\ \A l \in Locks : /\ OwnsAt(Here(c), l) <=> l = "ptable"
                          /\ MarkedAt(Here(c), l) <=> l = "ptable"
  BY <1>2, DepthMeans
<1>4. UNCHANGED <<flag, ncli, intena, locked, holder, frames, eflags, here, saved, kid, panicked>>
  BY DEF Scan, local
<1>5. \A d \in CPUs : run[d] # p
  BY <1>1 DEF RunInv
<1>6. pc[p] \in SwitchPlaces \X {1} \cup {<<"forkret", 1>>} /\ pc[p] \in Points /\ p \in Threads
  BY <1>1, <1>5 DEF OffInv, Left, Threads, PointsInv
<1>7. /\ Depth(pc[p]) = 1
      /\ \A l \in Locks : /\ OwnsAt(pc[p], l) <=> l = "ptable"
                          /\ MarkedAt(pc[p], l) <=> l = "ptable"
      /\ pc[p][1] \in Foreign /\ pc[p][2] = 1 /\ pc[p] # <<"myproc", 4>>
  <2>1. pc[p][1] \in {"sleep_swtch", "yield_swtch"} \/ pc[p] = <<"forkret", 1>>
    BY <1>6 DEF SwitchPlaces
  <2> QED
    BY <1>6, <2>1, DepthMeans DEF Foreign, SwitchPlaces
<1>8. /\ \A d \in CPUs : run'[d] = IF d = c THEN p ELSE run[d]
      /\ \A q \in Procs : state'[q] = IF q = p THEN "RUNNING" ELSE state[q]
  BY <1>1 DEF ValuesInv
<1>9. Moves(c, pc[p])
  BY <1>8 DEF Moves, Here
<1>10. ValuesInv'
  <2>1. p + 1 \in 1..(NPROC + 1)
    BY DEF Procs
  <2> QED
    BY <1>1, <1>4, <1>6, <2>1 DEF ValuesInv
<1>11. PointsInv' /\ FramesInv'
  BY <1>1, <1>4 DEF PointsInv, FramesInv
<1>12. RunInv'
  BY <1>1, <1>2, <1>5, <1>8 DEF RunInv
<1>13. OffInv'
  <2>1. pc[run[c]] \in Left(run[c])
    BY <1>2 DEF Left, Here
  <2> QED
    BY <1>1, <1>8, <2>1 DEF OffInv
<1>14. DepthInv'
  BY <1>1, <1>3, <1>4, <1>7, <1>9, DepthKept
<1>15. FlagInv'
  <2>1. \A d \in CPUs : Here(d)' = IF d = c THEN pc[p] ELSE Here(d)
    BY <1>9 DEF Moves
  <2> QED
    BY <1>1, <1>3, <1>4, <1>7, <2>1 DEF FlagInv
<1>16. EflagsInv'
  <2>1. \A d \in CPUs \ {c} : /\ Here(d)' = Here(d) /\ eflags'[run'[d]] = eflags[run[d]]
                              /\ flag'[d] = flag[d]
    BY <1>4, <1>8, <1>9 DEF Moves
  <2>2. Here(c)' = pc[p]
    BY <1>9 DEF Moves
  <2> QED
    BY <1>1, <1>7, <2>1, <2>2 DEF EflagsInv
<1>17. IntenaInv'
  <2>1. Here(c)' = pc[p] /\ \A d \in CPUs \ {c} : Here(d)' = Here(d)
    BY <1>9 DEF Moves
  <2> QED
    BY <1>1, <1>4, <1>7, <2>1 DEF IntenaInv
<1>18. LockInv'
  BY <1>1, <1>3, <1>4, <1>7, <1>9, LockKept
<1>19. HereInv'
  <2>1. \A d \in CPUs \ {c} : Here(d)' = Here(d) /\ here'[run'[d]] = here[run[d]]
    BY <1>4, <1>8, <1>9 DEF Moves
  <2>2. Here(c)' = pc[p]
    BY <1>9 DEF Moves
  <2> QED
    BY <1>1, <1>7, <2>1, <2>2 DEF HereInv
<1>20. KidInv'
  <2>1. \A q \in Procs : kid[q] \in Procs \cup {NoKid}
    BY <1>1 DEF ValuesInv
  <2> QED
    BY <1>1, <1>4, <1>8, <2>1 DEF KidInv
<1> QED
  BY <1>1, <1>4, <1>10, <1>11, <1>12, <1>13, <1>14, <1>15, <1>16, <1>17, <1>18, <1>19,
     <1>20
  DEF IInv

LEMMA ScanKeeps ==
  ASSUME IInv, NEW c \in CPUs, Scan(c)
  PROVE  IInv'
<1>1. CASE \E p \in Procs : /\ p >= pos[c] /\ state[p] = "RUNNABLE"
                            /\ state' = [state EXCEPT ![p] = "RUNNING"]
                            /\ run' = [run EXCEPT ![c] = p]
                            /\ pos' = [pos EXCEPT ![c] = p + 1]
                            /\ UNCHANGED pc
  BY <1>1, ScanFoundKeeps
<1>2. CASE pos' = [pos EXCEPT ![c] = 1] /\ Advance(c) /\ UNCHANGED <<state, run>>
  BY <1>2, ScanEndKeeps
<1> QED
  BY <1>1, <1>2 DEF Scan

-----------------------------------------------------------------------------
(* The theorems                                                                *)

LEMMA InitIInv == Init => IInv
<1> SUFFICES ASSUME Init PROVE IInv
  OBVIOUS
<1>1. /\ \A c \in CPUs : Sched(c) \in Threads \ Procs
      /\ \A c, d \in CPUs : Sched(c) = Sched(d) => c = d
  BY DEF Sched, Threads, Procs, CPUs
<1>2. /\ \A t \in Threads : pc[t] = IF t \in Procs THEN <<"forkret", 1>> ELSE <<"loop", 1>>
      /\ \A c \in CPUs : run[c] = Sched(c) /\ Here(c) = <<"loop", 1>>
  BY <1>1 DEF Init, Enter, Here
<1>3. /\ <<"forkret", 1>> \in Points /\ <<"loop", 1>> \in Points
      /\ Depth(<<"loop", 1>>) = 0
  BY DEF Points, Releases, Plain, Depth, Inside, Acquires
<1>4. ValuesInv
  <2>1. panicked \in BOOLEAN
    BY DEF Init
  <2> QED
    BY <1>1, <2>1 DEF Init, ValuesInv
<1>5. PointsInv
  <2>1. pc \in [Threads -> Points]
    BY <1>2, <1>3 DEF Init
  <2>2. \A t \in Threads : Fits(t, pc[t])
    BY <1>2 DEF Fits, SchedPlaces
  <2> QED
    BY <2>1, <2>2 DEF PointsInv
<1>6. RunInv
  BY <1>1, <1>2 DEF Init, RunInv
<1>7. OffInv
  <2>1. \A t \in Threads \ Procs : \E c \in CPUs : run[c] = t
    BY <1>2 DEF Threads
  <2> QED
    BY <1>2, <2>1 DEF OffInv, Left
<1>8. FramesInv
  BY <1>2 DEF Init, FramesInv, HandlerPlaces
<1>9. DepthInv
  BY <1>2, <1>3 DEF Init, DepthInv
<1>10. FlagInv
  BY <1>2, <1>3 DEF Init, FlagInv
<1>11. EflagsInv /\ HereInv
  BY <1>2 DEF EflagsInv, HereInv
<1>12. IntenaInv
  <2>1. \A p \in Procs : pc[p][1] \notin SwitchPlaces
    BY <1>2 DEF SwitchPlaces, Threads
  <2> QED
    BY <1>2, <1>3, <2>1 DEF IntenaInv
<1>13. LockInv
  <2>1. \A l \in Locks : ~OwnsAt(<<"loop", 1>>, l) /\ ~MarkedAt(<<"loop", 1>>, l)
    BY <1>3, DepthMeans
  <2>2. \A c \in CPUs : c # NoCpu
    BY DEF CPUs, NoCpu
  <2> QED
    BY <1>2, <2>1, <2>2 DEF Init, LockInv
<1>14. KidInv
  BY DEF Init, KidInv
<1> QED
  BY <1>4, <1>5, <1>6, <1>7, <1>8, <1>9, <1>10, <1>11, <1>12, <1>13, <1>14 DEF Init,
     IInv

LEMMA NextIInv == IInv /\ [Next]_vars => IInv'
<1> SUFFICES ASSUME IInv, [Next]_vars PROVE IInv'
  OBVIOUS
<1>1. ASSUME NEW c \in CPUs, CpuStep(c)
      PROVE  IInv'
  <2>1. CASE Read(c) \/ Push(c) \/ Pop(c) \/ Mycpu(c) \/ Load(c)
    BY <2>1, ReadKeeps, PushKeeps, PopKeeps, MycpuKeeps, LoadKeeps
  <2>2. CASE Unheld(c) \/ Xchg(c) \/ Mark(c) \/ Held(c) \/ Clear(c) \/ Unlock(c)
    BY <2>2, UnheldKeeps, XchgKeeps, MarkKeeps, HeldKeeps, ClearKeeps, UnlockKeeps
  <2>3. CASE Call(c) \/ Ret(c) \/ Alloc(c) \/ ForkRun(c)
    BY <2>3, CallKeeps, RetKeeps, AllocKeeps, ForkRunKeeps
  <2>4. CASE WakeUp(c) \/ IntrEnd(c) \/ Iret(c)
    BY <2>4, WakeUpKeeps, IntrEndKeeps, IretKeeps
  <2>5. CASE Sleep(c) \/ Yield(c) \/ SchedReturn(c) \/ Sti(c) \/ Scan(c)
    BY <2>5, SchedCallKeeps, SchedReturnKeeps, StiKeeps, ScanKeeps DEF Sleep, Yield
  <2> QED
    BY <1>1, <2>1, <2>2, <2>3, <2>4, <2>5 DEF CpuStep
<1>2. CASE Next
  BY <1>1, <1>2, InterruptKeeps DEF Next
<1>3. CASE UNCHANGED vars
  BY <1>3 DEF vars, IInv, ValuesInv, PointsInv, RunInv, OffInv, FramesInv, DepthInv,
     FlagInv,
     EflagsInv, IntenaInv, LockInv, HereInv, KidInv, Here
<1> QED
  BY <1>2, <1>3

\* In every state the points, the flags and the locks fit together as the parts of the
\* invariant say.
THEOREM Invariance == Spec => []IInv
BY InitIInv, NextIInv, PTL DEF Spec

\* Every variable keeps its type: ncli never exceeds three, and an interrupt frame is
\* never on top of another.
THEOREM TypeCorrect == Spec => []TypeOK
<1>1. IInv => TypeOK
  <2> SUFFICES ASSUME IInv PROVE TypeOK
    OBVIOUS
  <2>1. ValuesInv /\ PointsInv /\ RunInv /\ FramesInv /\ DepthInv
    BY DEF IInv
  <2>2. \A k : Depth(k) \in 0..3
    BY DEF Depth
  <2>3. ncli \in [CPUs -> 0..(Cardinality(Locks) + 1)]
    <3>1. Cardinality(Locks) = 2
      <4>1. IsFiniteSet({"ptable"}) /\ Cardinality({"ptable"}) = 1
        BY FS_Singleton
      <4>2. Locks = {"ptable"} \cup {"tickslock"} /\ "tickslock" \notin {"ptable"}
        BY DEF Locks
      <4> QED
        BY <4>1, <4>2, FS_AddElement
    <3> QED
      BY <2>1, <2>2, <3>1 DEF ValuesInv, DepthInv
  <2>4. Points \subseteq Pcs
    <3>1. \A pl \in Acquires : pl \in Places /\ Len(StepsOf(pl)) = 5
      <4>1. \A pl \in Acquires : \E edge \in Flow : edge[1] = pl
        BY FlowIs DEF Acquires
      <4> QED
        BY <4>1, Steps DEF Places, AcquireSteps
    <3>2. \A pl \in Releases : pl \in Places /\ Len(StepsOf(pl)) = 4
      <4>1. \A pl \in Releases : \E edge \in Flow : edge[1] = pl
        BY FlowIs DEF Releases
      <4> QED
        BY <4>1, Steps DEF Places, ReleaseSteps
    <3>3. "myproc" \in Places /\ Len(StepsOf("myproc")) = 5
      <4>1. \E edge \in Flow : edge[1] = "myproc"
        BY FlowIs
      <4> QED
        BY <4>1, Steps DEF Places, MyprocSteps
    <3>4. \A pl \in Plain : pl \in Places /\ Len(StepsOf(pl)) = 1
      <4>1. \A pl \in Plain \ {"intr_end", "iret"} : \E edge \in Flow : edge[1] = pl
        BY FlowIs DEF Plain
      <4> QED
        BY <4>1, Steps DEF Places
    <3>5. \A k \in Points : k[1] \in Places /\ k[2] \in 1..Len(StepsOf(k[1])) /\ k = <<k[1], k[2]>>
      <4> SUFFICES ASSUME NEW k \in Points
                   PROVE  k[1] \in Places /\ k[2] \in 1..Len(StepsOf(k[1])) /\ k = <<k[1], k[2]>>
        OBVIOUS
      <4>1. CASE k \in Acquires \X (1..5)
        <5>1. k[1] \in Acquires /\ k[2] \in 1..5 /\ k = <<k[1], k[2]>>
          BY <4>1
        <5>2. Len(StepsOf(k[1])) = 5 /\ k[1] \in Places
          BY <3>1, <5>1
        <5> QED
          BY <5>1, <5>2
      <4>2. CASE k \in Releases \X (1..4)
        <5>1. k[1] \in Releases /\ k[2] \in 1..4 /\ k = <<k[1], k[2]>>
          BY <4>2
        <5>2. Len(StepsOf(k[1])) = 4 /\ k[1] \in Places
          BY <3>2, <5>1
        <5> QED
          BY <5>1, <5>2
      <4>3. CASE k \in {"myproc"} \X (1..5)
        <5>1. k[1] \in {"myproc"} /\ k[2] \in 1..5 /\ k = <<k[1], k[2]>>
          BY <4>3
        <5>2. Len(StepsOf(k[1])) = 5 /\ k[1] \in Places
          BY <3>3, <5>1
        <5> QED
          BY <5>1, <5>2
      <4>4. CASE k \in Plain \X {1}
        <5>1. k[1] \in Plain /\ k[2] = 1 /\ k = <<k[1], k[2]>>
          BY <4>4
        <5>2. Len(StepsOf(k[1])) = 1 /\ k[1] \in Places
          BY <3>4, <5>1
        <5> QED
          BY <5>1, <5>2
      <4> QED
        BY <4>1, <4>2, <4>3, <4>4 DEF Points
    <3> QED
      BY <3>5 DEF Pcs
  <2>5. \A t \in Threads : Len(frames[t]) <= MaxNest
    <3> SUFFICES ASSUME NEW t \in Threads PROVE Len(frames[t]) <= MaxNest
      OBVIOUS
    <3>1. CASE pc[t][1] \in HandlerPlaces
      <4>1. PICK k \in Points, e \in BOOLEAN : frames[t] = <<[pc |-> k, eflags |-> e]>>
        BY <2>1, <3>1 DEF FramesInv
      <4>2. Len(frames[t]) = 1
        BY <4>1
      <4> QED
        BY <4>2
    <3>2. CASE pc[t][1] \notin HandlerPlaces
      <4>1. frames[t] = <<>>
        BY <2>1, <3>2 DEF FramesInv
      <4>2. Len(frames[t]) = 0
        BY <4>1
      <4> QED
        BY <4>2
    <3> QED
      BY <3>1, <3>2
  <2> QED
    BY <2>1, <2>3, <2>4, <2>5 DEF TypeOK, ValuesInv, PointsInv
<1> QED
  BY <1>1, Invariance, PTL

\* No two CPUs are in a critical section of one lock.
THEOREM Exclusion == Spec => []MutualExclusion
<1>1. IInv => MutualExclusion
  <2> SUFFICES ASSUME IInv, NEW c \in CPUs, NEW d \in CPUs, NEW l \in Locks, Owns(c, l), Owns(d, l)
               PROVE  c = d
    BY DEF MutualExclusion
  <2>1. LockInv /\ Here(c) \in Points /\ Here(d) \in Points
    BY HereIs DEF IInv
  <2>2. ASSUME NEW e \in CPUs, Owns(e, l), Here(e) \in Points
        PROVE  OwnsAt(Here(e), l)
    <3>1. Here(e)[2] = 4 => Here(e) = <<Here(e)[1], 4>>
      BY <2>2 DEF Points
    <3> QED
      BY <2>2, <3>1 DEF Owns, OwnsAt, Here
  <2> QED
    BY <2>1, <2>2 DEF LockInv
<1> QED
  BY <1>1, Invariance, PTL

\* acquire, release, popcli, mycpu and sched never panic.
THEOREM NoPanic == Spec => []NeverPanics
<1>1. IInv => NeverPanics
  BY DEF IInv, NeverPanics
<1> QED
  BY <1>1, Invariance, PTL

\* Interrupts are on exactly where the thread is in no pushcli and in no handler.
THEOREM InterruptsRightly == Spec => []InterruptsRight
<1>1. IInv => InterruptsRight
  <2> SUFFICES ASSUME IInv, NEW c \in CPUs, Here(c)[1] \notin {"loop", "fret"}
               PROVE  flag[c] <=> ncli[c] = 0 /\ frames[run[c]] = <<>>
    BY DEF InterruptsRight, Here
  <2>1. FlagInv /\ DepthInv /\ FramesInv /\ run[c] \in Threads /\ Depth(Here(c)) \in Nat
    BY HereIs, DepthMeans DEF IInv
  <2>2. frames[run[c]] = <<>> <=> Here(c)[1] \notin HandlerPlaces
    <3>1. \A r : <<r>> # <<>>
      OBVIOUS
    <3> QED
      BY <2>1, <3>1 DEF FramesInv, Here
  <2> QED
    BY <2>1, <2>2 DEF FlagInv, DepthInv
<1> QED
  BY <1>1, Invariance, PTL

\* The process that myproc loads is the one that called it.
THEOREM MyprocRight == Spec => MyprocIsCaller
<1>1. ASSUME IInv, NEW c \in CPUs, Load(c)
      PROVE  run[here[run[c]]] = run[c]
  <2>1. PointsInv /\ RunInv /\ HereInv /\ At(c, "load")
    BY <1>1 DEF IInv, Load
  <2>2. Here(c) = <<"myproc", 4>>
    BY <2>1, HereIs, StepPoints
  <2> QED
    BY <2>1, <2>2 DEF HereInv
<1>2. IInv => [\A c \in CPUs : Load(c) => run[here[run[c]]] = run[c]]_vars
  BY <1>1
<1> QED
  BY <1>2, Invariance, PTL DEF MyprocIsCaller
=============================================================================
