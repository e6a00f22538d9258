---------------------------- MODULE Proc_proofs ----------------------------
(***************************************************************************)
(* Proofs about Proc, for any size of the table, of the history and any    *)
(* number of CPUs: no exit is lost, every process has a live parent, pids  *)
(* are unique, the history lists the dead once, and slots go through the   *)
(* legal life cycle only.                                                  *)
(***************************************************************************)
EXTENDS Proc, TLAPS

Taken == {s \in Slots : state[s] # "UNUSED"}

\* A process in fork owns an EMBRYO of its own, younger than itself.
ForkInv == \A p \in Slots :
    /\ kid[p] # NoProc => pc[p] = "fork"
    /\ pc[p] = "fork" => /\ state[p] \in {"RUNNABLE", "RUNNING"}
                         /\ kid[p] \in Slots
                         /\ state[kid[p]] = "EMBRYO"
                         /\ pid[p] < pid[kid[p]]
                         /\ \A q \in Slots : kid[q] = kid[p] => p = q

\* Pids come from nextpid, which no taken slot or history entry has reached.
PidInv == /\ \A p \in Slots : pid[p] < nextpid
          /\ \A p \in Taken : pid[p] # 0
          /\ \A p, q \in Taken : pid[p] = pid[q] => p = q

\* The parent pointers: none from a free slot, live and older otherwise.
ParentInv == /\ initproc \in Live
             /\ \A p \in Slots \ Born : parent[p] = NoProc
             /\ ParentLive
             /\ ParentOlder
             /\ parent[initproc] = NoProc

HistoryInv == /\ \A i \in 1..Len(history) : history[i] < nextpid
              /\ \A i, j \in 1..Len(history) : history[i] = history[j] => i = j
              /\ \A i \in 1..Len(history), p \in Taken \ Zombies : history[i] # pid[p]

\* The inductive invariant.
IInv == TypeOK /\ ForkInv /\ PidInv /\ ParentInv /\ NoLostExit /\ HistoryInv

LEMMA InitIInv == Init => IInv
<1> SUFFICES ASSUME Init PROVE IInv
  OBVIOUS
<1> USE ProcAssumption DEF Init, Taken, Live, Born, Zombies, States, Labels, Slots, NoProc, initproc
<1>1. initproc \in Slots
  OBVIOUS
<1>2. TypeOK
  <2>1. history \in Seq(Nat)
    OBVIOUS
  <2>2. TypeOK!1 /\ TypeOK!2 /\ TypeOK!3 /\ TypeOK!4 /\ TypeOK!5
    BY <1>1 DEF TypeOK, table
  <2> QED
    BY <2>1, <2>2 DEF TypeOK
<1>3. ForkInv /\ PidInv /\ NoLostExit /\ HistoryInv
  BY DEF ForkInv, PidInv, NoLostExit, HistoryInv
<1>4. ParentInv
  BY <1>1 DEF ParentInv, ParentLive, ParentOlder
<1> QED
  BY <1>2, <1>3, <1>4 DEF IInv

\* exit's critical section preserves the invariant: whoever has to hear of the
\* new ZOMBIE, or of one it inherits, is awake after it.
LEMMA ExitZombieIInv == ASSUME IInv, NEW p \in Slots, ExitZombie(p) PROVE IInv'
<1> USE DEF Slots, initproc, NoProc
<1>1. /\ TypeOK /\ ForkInv /\ PidInv /\ ParentInv /\ NoLostExit /\ HistoryInv
      /\ initproc \in Slots
  BY ProcAssumption DEF IInv
<1>2. /\ state[p] = "RUNNING" /\ pc[p] = "exit" /\ p # initproc
      /\ state' = StatesAfterExit(p) /\ parent' = Reparent(p) /\ history' = Logged(p)
      /\ UNCHANGED <<pid, killed, chan, shell, blocked, pc, kid, nextpid, initsh, panicked>>
  BY DEF ExitZombie, At
<1>3. TypeOK'
  <2>1. state' \in [Slots -> States]
    <3>1. \A c : \A st \in [Slots -> States] : Wakeup1(st, c) \in [Slots -> States]
      BY DEF Wakeup1, States
    <3>2. state \in [Slots -> States] /\ "ZOMBIE" \in States
      BY <1>1 DEF TypeOK, States
    <3> QED
      BY <1>2, <3>1, <3>2 DEF StatesAfterExit
  <2>2. parent' \in [Slots -> Slots \cup {NoProc}]
    BY <1>1, <1>2 DEF TypeOK, Reparent
  <2>3. history' \in Seq(Nat)
    <3>1. history \in Seq(Nat) /\ pid[p] \in Nat
      BY <1>1 DEF TypeOK
    <3> QED
      BY <1>2, <3>1 DEF Logged
  <2> QED
    BY <1>1, <1>2, <2>1, <2>2, <2>3 DEF TypeOK
<1>4. p \in Live /\ parent[p] \in Slots \ {p}
  BY <1>1, <1>2 DEF TypeOK, ParentInv, ParentLive, ParentOlder, Live, Born, Zombies
<1>5. /\ state'[p] = "ZOMBIE"
      /\ \A q \in Slots \ {p} : \/ state'[q] = state[q]
                                \/ state[q] = "SLEEPING" /\ state'[q] = "RUNNABLE"
  BY <1>1, <1>2 DEF TypeOK, StatesAfterExit, Wakeup1
<1>6. /\ chan[parent[p]] = parent[p] => state'[parent[p]] # "SLEEPING"
      /\ chan[initproc] = initproc /\ Children(p) \cap Zombies # {}
             => state'[initproc] # "SLEEPING"
  BY <1>1, <1>2, <1>4 DEF TypeOK, StatesAfterExit, Wakeup1
<1>7. \A q \in Slots : /\ q \in Taken' <=> q \in Taken
                       /\ q \in Born' <=> q \in Born
                       /\ q \in Live' <=> q \in Live /\ q # p
                       /\ q \in Zombies' <=> q \in Zombies \/ q = p
  BY <1>4, <1>5 DEF Taken, Born, Live, Zombies
<1>8. \A q \in Slots : parent'[q] = IF parent[q] = p THEN initproc ELSE parent[q]
  BY <1>2 DEF Reparent
<1>9. ForkInv'
  <2>1. ForkInv /\ kid \in [Slots -> Slots \cup {NoProc}]
    BY <1>1 DEF TypeOK
  <2>2. UNCHANGED <<pc, kid, pid>> /\ state[p] = "RUNNING" /\ pc[p] # "fork"
    BY <1>2
  <2>3. \A q \in Slots : /\ state[q] = "EMBRYO" => state'[q] = "EMBRYO"
                         /\ state[q] \in {"RUNNABLE", "RUNNING"} => q = p \/ state'[q] = state[q]
    BY <1>5, <2>2
  <2> QED
    BY <2>1, <2>2, <2>3 DEF ForkInv
<1>10. PidInv'
  BY <1>1, <1>2, <1>7 DEF PidInv, Taken
<1>11. ParentInv'
  <2>1. initproc \in Live' /\ parent'[initproc] = NoProc
    BY <1>1, <1>2, <1>7, <1>8 DEF ParentInv
  <2>2. \A q \in Slots \ Born' : parent'[q] = NoProc
    BY <1>1, <1>7, <1>8 DEF ParentInv
  <2>3. ParentLive'
    <3>1. Born' \subseteq Slots /\ Born \subseteq Slots /\ Live \subseteq Slots
      BY DEF Born, Live
    <3>2. \A q \in Born' \ {initproc} : q \in Born /\ parent[q] \in Live
      BY <1>1, <1>7, <3>1 DEF ParentInv, ParentLive
    <3>3. \A q \in Born' \ {initproc} : parent'[q] \in Live \ {p}
      BY <1>1, <1>2, <1>8, <3>1, <3>2 DEF ParentInv
    <3> QED
      BY <1>7, <3>1, <3>3 DEF ParentLive
  <2>4. ParentOlder'
    BY <1>1, <1>2, <1>7, <1>8 DEF ParentInv, ParentOlder, Born
  <2> QED
    BY <2>1, <2>2, <2>3, <2>4 DEF ParentInv
<1>12. NoLostExit'
  <2> SUFFICES ASSUME NEW q \in Slots, state'[q] = "SLEEPING", chan[q] = q
               PROVE  /\ Children(q)' # {}
                      /\ Children(q)' \cap Zombies' = {}
                      /\ ~killed[q]
    BY <1>2 DEF NoLostExit
  <2>1. q # p /\ q # parent[p] /\ state[q] = "SLEEPING"
    BY <1>5, <1>6
  <2>2. Children(q) # {} /\ Children(q) \cap Zombies = {} /\ ~killed[q]
    BY <1>1, <2>1 DEF NoLostExit
  <2>3. Children(q) \subseteq Children(q)'
    BY <1>8, <2>1 DEF Children
  <2>4. ASSUME NEW z \in Children(q)', z \in Zombies' PROVE FALSE
    <3>1. z \in Slots /\ parent'[z] = q
      BY DEF Children
    <3>2. z # p
      BY <1>4, <1>8, <2>1, <3>1
    <3>3. z \in Zombies
      BY <1>7, <2>4, <3>1, <3>2
    <3>4. CASE parent[z] = p
      BY <1>6, <1>8, <2>1, <3>1, <3>3, <3>4 DEF Children
    <3>5. CASE parent[z] # p
      BY <1>8, <2>2, <3>1, <3>3, <3>5 DEF Children
    <3> QED
      BY <3>4, <3>5
  <2> QED
    BY <2>2, <2>3, <2>4
<1>13. HistoryInv'
  <2>1. CASE history' = history
    BY <1>1, <1>2, <1>7, <2>1 DEF HistoryInv, Taken, Zombies
  <2>2. CASE history' = Append(history, pid[p])
    <3>1. /\ Len(history) \in Nat
          /\ Len(history') = Len(history) + 1
          /\ \A i \in 1..Len(history) : history'[i] = history[i]
          /\ history'[Len(history) + 1] = pid[p]
      BY <1>1, <2>2 DEF TypeOK
    <3>2. \A i \in 1..Len(history) : history[i] # pid[p]
      BY <1>1, <1>4 DEF HistoryInv, Taken, Live, Born
    <3>3. \A i \in 1..Len(history') : i \in 1..Len(history) \/ i = Len(history) + 1
      BY <3>1
    <3>4. \A i \in 1..Len(history') : history'[i] < nextpid'
      BY <1>1, <1>2, <3>1, <3>3 DEF HistoryInv, PidInv
    <3>5. \A i, j \in 1..Len(history') : history'[i] = history'[j] => i = j
      BY <1>1, <3>1, <3>2, <3>3 DEF HistoryInv
    <3>6. \A q \in Taken' \ Zombies' : q \in Taken \ Zombies /\ pid'[q] = pid[q] /\ pid[q] # pid[p]
      BY <1>1, <1>2, <1>4, <1>7 DEF PidInv, Taken, Zombies, Live, Born
    <3>7. \A i \in 1..Len(history'), q \in Taken' \ Zombies' : history'[i] # pid'[q]
      BY <1>1, <3>1, <3>3, <3>6 DEF HistoryInv
    <3> QED
      BY <3>4, <3>5, <3>7 DEF HistoryInv
  <2> QED
    BY <1>2, <2>1, <2>2 DEF Logged
<1> QED
  BY <1>3, <1>9, <1>10, <1>11, <1>12, <1>13 DEF IInv

\* Steps that only move live processes on and off the CPU disturb neither pids,
\* nor parent pointers, nor the history.
LEMMA LiveStep ==
  ASSUME IInv, UNCHANGED <<pid, parent, nextpid, history>>,
         \A q \in Slots : \/ state'[q] = state[q]
                          \/ {state[q], state'[q]} \subseteq {"RUNNABLE", "RUNNING", "SLEEPING"}
  PROVE  PidInv' /\ ParentInv' /\ HistoryInv'
<1>1. \A q \in Slots : /\ q \in Taken' <=> q \in Taken
                       /\ q \in Born' <=> q \in Born
                       /\ q \in Live' <=> q \in Live
                       /\ q \in Zombies' <=> q \in Zombies
  BY DEF Taken, Born, Live, Zombies
<1>2. initproc \in Slots
  BY ProcAssumption DEF Slots, initproc
<1>3. Taken \subseteq Slots /\ Born \subseteq Slots /\ Live \subseteq Slots
  BY DEF Taken, Born, Live
<1>4. PidInv'
  BY <1>1, <1>3 DEF IInv, PidInv, Taken
<1>5. ParentInv'
  BY <1>1, <1>2, <1>3 DEF IInv, ParentInv, ParentLive, ParentOlder, Born, Live
<1>6. HistoryInv'
  BY <1>1, <1>3 DEF IInv, HistoryInv, Taken, Zombies
<1> QED
  BY <1>4, <1>5, <1>6

\* kill preserves the invariant: a sleeper it marks is awake afterwards.
LEMMA KillIInv == ASSUME IInv, NEW p \in Slots, KillCall(p) PROVE IInv'
<1>1. TypeOK /\ ForkInv /\ NoLostExit
  BY DEF IInv
<1> PICK s \in Slots : killed' = [killed EXCEPT ![s] = TRUE] /\ state' = StatesAfterKill(s)
  BY DEF KillCall
<1>2. UNCHANGED <<pid, parent, chan, shell, blocked, pc, kid, nextpid, initsh, history, panicked>>
  BY DEF KillCall
<1>3. /\ \A q \in Slots : \/ state'[q] = state[q]
                          \/ state[q] = "SLEEPING" /\ state'[q] = "RUNNABLE"
      /\ state'[s] # "SLEEPING"
  BY <1>1 DEF TypeOK, StatesAfterKill
<1>4. TypeOK'
  <2>1. state' \in [Slots -> States]
    BY <1>1 DEF TypeOK, StatesAfterKill, States
  <2> QED
    BY <1>1, <1>2, <2>1 DEF TypeOK
<1>5. ForkInv'
  BY <1>1, <1>2, <1>3 DEF ForkInv
<1>6. NoLostExit'
  <2> SUFFICES ASSUME NEW q \in Slots, state'[q] = "SLEEPING", chan[q] = q
               PROVE  /\ Children(q)' # {}
                      /\ Children(q)' \cap Zombies' = {}
                      /\ ~killed'[q]
    BY <1>2 DEF NoLostExit
  <2>1. q # s /\ state[q] = "SLEEPING"
    BY <1>3
  <2>2. Children(q)' = Children(q) /\ Zombies' = Zombies
    BY <1>2, <1>3 DEF Children, Zombies
  <2>3. killed'[q] = killed[q]
    BY <1>1, <2>1 DEF TypeOK
  <2> QED
    BY <1>1, <2>1, <2>2, <2>3 DEF NoLostExit
<1>7. PidInv' /\ ParentInv' /\ HistoryInv'
  BY <1>2, <1>3, LiveStep
<1> QED
  BY <1>4, <1>5, <1>6, <1>7 DEF IInv

\* allocproc's critical section preserves the invariant: the slot it takes is
\* nobody's, and its pid is new.
LEMMA ForkAllocIInv == ASSUME IInv, NEW p \in Slots, ForkAlloc(p) PROVE IInv'
<1> USE DEF Slots, NoProc
<1>1. TypeOK /\ ForkInv /\ PidInv /\ ParentInv /\ NoLostExit /\ HistoryInv
  BY DEF IInv
<1> PICK s \in Slots : /\ state[s] = "UNUSED"
                       /\ state' = [state EXCEPT ![s] = "EMBRYO"]
                       /\ pid' = [pid EXCEPT ![s] = nextpid]
                       /\ blocked' = [blocked EXCEPT ![s] = {}]
                       /\ kid' = [kid EXCEPT ![p] = s]
  BY DEF ForkAlloc, IsFirst, Unused
<1>2. /\ state[p] = "RUNNING" /\ pc[p] = "user"
      /\ nextpid' = nextpid + 1 /\ pc' = [pc EXCEPT ![p] = "fork"]
      /\ UNCHANGED <<parent, killed, chan, shell, initsh, history, panicked>>
  BY DEF ForkAlloc, Forks, Calls, At, Goto, NextPid
<1>3. /\ s # p /\ state'[s] = "EMBRYO" /\ pid'[s] = nextpid
      /\ \A q \in Slots \ {s} : state'[q] = state[q] /\ pid'[q] = pid[q]
  BY <1>1, <1>2 DEF TypeOK
<1>4. /\ kid'[p] = s /\ pc'[p] = "fork"
      /\ \A q \in Slots \ {p} : kid'[q] = kid[q] /\ pc'[q] = pc[q]
  BY <1>1, <1>2 DEF TypeOK
<1>5. /\ Taken' = Taken \cup {s} /\ s \notin Taken /\ Taken \subseteq Slots
      /\ Born' = Born /\ Live' = Live /\ Zombies' = Zombies
  BY <1>3 DEF Taken, Born, Live, Zombies
<1>6. TypeOK'
  <2>1. nextpid \in Nat /\ "EMBRYO" \in States /\ "fork" \in Labels
    BY <1>1 DEF TypeOK, States, Labels
  <2> QED
    BY <1>1, <1>2, <2>1 DEF TypeOK
<1>7. ForkInv'
  <2>1. \A q \in Slots : kid[q] # s
    BY <1>1 DEF ForkInv
  <2>2. pid[p] < nextpid
    BY <1>1 DEF PidInv
  <2> QED
    BY <1>1, <1>2, <1>3, <1>4, <2>1, <2>2 DEF ForkInv
<1>8. PidInv'
  <2>1. nextpid \in Nat /\ \A q \in Slots : pid[q] \in Nat /\ pid[q] < nextpid
    BY <1>1 DEF TypeOK, PidInv
  <2>2. nextpid # 0
    BY <2>1
  <2> QED
    BY <1>1, <1>2, <1>3, <1>5, <2>1, <2>2 DEF PidInv
<1>9. ParentInv'
  <2>1. ParentLive' /\ initproc \in Live' /\ parent'[initproc] = NoProc
    BY <1>1, <1>2, <1>5 DEF ParentInv, ParentLive
  <2>2. \A q \in Slots \ Born' : parent'[q] = NoProc
    BY <1>1, <1>2, <1>5 DEF ParentInv
  <2>3. ParentOlder'
    <3>1. \A q \in Live : q # s /\ pid'[q] = pid[q]
      BY <1>3 DEF Live, Born
    <3>2. \A q \in Born : q # s /\ pid'[q] = pid[q]
      BY <1>3 DEF Born
    <3> QED
      BY <1>1, <1>2, <1>5, <3>1, <3>2 DEF ParentInv, ParentLive, ParentOlder
  <2> QED
    BY <2>1, <2>2, <2>3 DEF ParentInv
<1>10. NoLostExit'
  BY <1>1, <1>2, <1>3, <1>5 DEF NoLostExit, Children
<1>11. HistoryInv'
  <2>1. nextpid \in Nat /\ \A i \in 1..Len(history) : history[i] \in Nat /\ history[i] < nextpid
    BY <1>1 DEF TypeOK, HistoryInv
  <2>2. \A i \in 1..Len(history), q \in Taken' \ Zombies' : history[i] # pid'[q]
    <3> SUFFICES ASSUME NEW i \in 1..Len(history), NEW q \in Taken' \ Zombies'
                 PROVE  history[i] # pid'[q]
      OBVIOUS
    <3>1. CASE q = s
      BY <1>3, <2>1, <3>1
    <3>2. CASE q # s
      BY <1>1, <1>3, <1>5, <3>2 DEF HistoryInv
    <3> QED
      BY <3>1, <3>2
  <2> QED
    BY <1>1, <1>2, <2>1, <2>2 DEF HistoryInv
<1> QED
  BY <1>6, <1>7, <1>8, <1>9, <1>10, <1>11 DEF IInv

\* fork's failure preserves the invariant: only its own EMBRYO is freed.
LEMMA ForkNoMemoryIInv == ASSUME IInv, NEW p \in Slots, ForkNoMemory(p) PROVE IInv'
<1> DEFINE k == kid[p]
<1> USE DEF Slots, NoProc
<1>1. TypeOK /\ ForkInv /\ PidInv /\ ParentInv /\ NoLostExit /\ HistoryInv
  BY DEF IInv
<1>2. /\ state[p] = "RUNNING" /\ pc[p] = "fork"
      /\ state' = [state EXCEPT ![k] = "UNUSED"] /\ kid' = [kid EXCEPT ![p] = NoProc]
      /\ pc' = [pc EXCEPT ![p] = IF p = initproc THEN "exit" ELSE "user"]
      /\ UNCHANGED <<pid, parent, killed, chan, shell, blocked, nextpid, initsh, history, panicked>>
  BY DEF ForkNoMemory, ForkFailed, At, Goto
<1>3. k \in Slots /\ state[k] = "EMBRYO" /\ k # p
  BY <1>1, <1>2 DEF ForkInv
<1>4. state'[k] = "UNUSED" /\ \A q \in Slots \ {k} : state'[q] = state[q]
  BY <1>1, <1>2, <1>3 DEF TypeOK
<1>5. /\ kid'[p] = NoProc /\ pc'[p] # "fork"
      /\ \A q \in Slots \ {p} : kid'[q] = kid[q] /\ pc'[q] = pc[q]
  BY <1>1, <1>2 DEF TypeOK
<1>6. /\ Taken' = Taken \ {k} /\ Born' = Born /\ Live' = Live /\ Zombies' = Zombies
  BY <1>3, <1>4 DEF Taken, Born, Live, Zombies
<1>7. TypeOK'
  <2>1. "UNUSED" \in States /\ {"exit", "user"} \subseteq Labels
    BY DEF States, Labels
  <2>2. pc' \in [Slots -> Labels]
    BY <1>1, <1>2, <2>1 DEF TypeOK
  <2> QED
    BY <1>1, <1>2, <2>1, <2>2 DEF TypeOK
<1>8. ForkInv'
  BY <1>1, <1>2, <1>3, <1>4, <1>5 DEF ForkInv
<1>9. PidInv'
  BY <1>1, <1>2, <1>6 DEF PidInv
<1>10. ParentInv'
  BY <1>1, <1>2, <1>6 DEF ParentInv, ParentLive, ParentOlder
<1>11. NoLostExit'
  BY <1>1, <1>2, <1>4, <1>6 DEF NoLostExit, Children
<1>12. HistoryInv'
  BY <1>1, <1>2, <1>6 DEF HistoryInv
<1> QED
  BY <1>7, <1>8, <1>9, <1>10, <1>11, <1>12 DEF IInv

\* The end of fork preserves the invariant: the child it lets run is younger than p.
LEMMA ForkRunIInv == ASSUME IInv, NEW p \in Slots, ForkRun(p) PROVE IInv'
<1> DEFINE k == kid[p]
<1> USE DEF Slots, NoProc
<1>1. TypeOK /\ ForkInv /\ PidInv /\ ParentInv /\ NoLostExit /\ HistoryInv
  BY DEF IInv
<1>2. /\ state[p] = "RUNNING" /\ pc[p] = "fork"
      /\ parent' = [parent EXCEPT ![k] = p]
      /\ shell' = [shell EXCEPT ![k] = shell[p]]
      /\ blocked' = [blocked EXCEPT ![k] = blocked[p]]
      /\ state' = [state EXCEPT ![k] = "RUNNABLE"]
      /\ pc' = [pc EXCEPT ![p] = "user", ![k] = "user"]
      /\ kid' = [kid EXCEPT ![p] = NoProc]
      /\ initsh' = IF p = initproc THEN pid[k] ELSE initsh
      /\ UNCHANGED <<pid, killed, chan, nextpid, history, panicked>>
  BY DEF ForkRun, At
<1>3. k \in Slots /\ state[k] = "EMBRYO" /\ k # p /\ pid[p] < pid[k]
  BY <1>1, <1>2 DEF ForkInv
<1>4. /\ state'[k] = "RUNNABLE" /\ parent'[k] = p
      /\ \A q \in Slots \ {k} : state'[q] = state[q] /\ parent'[q] = parent[q]
  BY <1>1, <1>2, <1>3 DEF TypeOK
<1>5. /\ kid'[p] = NoProc /\ pc'[p] = "user" /\ pc'[k] = "user"
      /\ \A q \in Slots \ {p} : kid'[q] = kid[q] /\ (q # k => pc'[q] = pc[q])
  BY <1>1, <1>2, <1>3 DEF TypeOK
<1>6. /\ Taken' = Taken /\ Born' = Born \cup {k} /\ Live' = Live \cup {k} /\ Zombies' = Zombies
      /\ k \notin Born /\ p \in Live /\ Born \subseteq Slots
  BY <1>2, <1>3, <1>4 DEF Taken, Born, Live, Zombies
<1>7. parent[k] = NoProc /\ k # initproc
  BY <1>1, <1>3, <1>6 DEF ParentInv, Live
<1>8. TypeOK'
  <2>1. "RUNNABLE" \in States /\ "user" \in Labels
    BY DEF States, Labels
  <2>2. state' \in [Slots -> States] /\ parent' \in [Slots -> Slots \cup {NoProc}]
    BY <1>1, <1>2, <2>1 DEF TypeOK
  <2>3. pc' \in [Slots -> Labels] /\ kid' \in [Slots -> Slots \cup {NoProc}]
    BY <1>1, <1>2, <2>1 DEF TypeOK
  <2>4. /\ shell' \in [Slots -> BOOLEAN] /\ blocked' \in [Slots -> SUBSET Blockable]
        /\ initsh' \in Nat
    BY <1>1, <1>2, <1>3 DEF TypeOK
  <2> QED
    BY <1>1, <1>2, <2>2, <2>3, <2>4 DEF TypeOK
<1>9. ForkInv'
  <2>1. kid[k] = NoProc
    BY <1>1, <1>3 DEF ForkInv
  <2> QED
    <3>1. pid' = pid /\ \A q \in Slots \ {p} : kid[q] # k
      BY <1>1, <1>2, <1>3 DEF ForkInv
    <3>2. \A q \in Slots : pc'[q] = "fork" => q \notin {p, k} /\ pc[q] = "fork"
      BY <1>5
    <3> QED
      BY <1>1, <1>4, <1>5, <2>1, <3>1, <3>2 DEF ForkInv
<1>10. PidInv'
  BY <1>1, <1>2, <1>6 DEF PidInv
<1>11. ParentInv'
  <2>1. initproc \in Live' /\ parent'[initproc] = NoProc
    <3>1. initproc \in Slots
      BY ProcAssumption DEF initproc
    <3> QED
      BY <1>1, <1>4, <1>6, <1>7, <3>1 DEF ParentInv
  <2>2. \A q \in Slots \ Born' : parent'[q] = NoProc
    BY <1>1, <1>4, <1>6 DEF ParentInv
  <2>3. ParentLive'
    BY <1>1, <1>4, <1>6 DEF ParentInv, ParentLive
  <2>4. ParentOlder'
    BY <1>1, <1>2, <1>3, <1>4, <1>6 DEF ParentInv, ParentOlder
  <2> QED
    BY <2>1, <2>2, <2>3, <2>4 DEF ParentInv
<1>12. NoLostExit'
  <2> SUFFICES ASSUME NEW q \in Slots, state'[q] = "SLEEPING", chan[q] = q
               PROVE  /\ Children(q)' # {}
                      /\ Children(q)' \cap Zombies' = {}
                      /\ ~killed[q]
    BY <1>2 DEF NoLostExit
  <2>1. q # p /\ state[q] = "SLEEPING"
    BY <1>2, <1>3, <1>4
  <2>2. Children(q)' = Children(q)
    BY <1>4, <1>7, <2>1 DEF Children
  <2> QED
    BY <1>1, <1>6, <2>1, <2>2 DEF NoLostExit
<1>13. HistoryInv'
  BY <1>1, <1>2, <1>6 DEF HistoryInv
<1> QED
  BY <1>8, <1>9, <1>10, <1>11, <1>12, <1>13 DEF IInv

\* Reaping a child preserves the invariant: nobody's parent pointer, and no
\* sleeper's set of children, names the slot that is freed.
LEMMA WaitReapIInv == ASSUME IInv, NEW p \in Slots, WaitReap(p) PROVE IInv'
<1> USE DEF Slots, NoProc
<1>1. TypeOK /\ ForkInv /\ PidInv /\ ParentInv /\ NoLostExit /\ HistoryInv
  BY DEF IInv
<1> PICK s \in Slots : /\ parent[s] = p /\ state[s] = "ZOMBIE"
                       /\ state' = [state EXCEPT ![s] = "UNUSED"]
                       /\ pid' = [pid EXCEPT ![s] = 0]
                       /\ parent' = [parent EXCEPT ![s] = NoProc]
                       /\ killed' = [killed EXCEPT ![s] = FALSE]
                       /\ shell' = [shell EXCEPT ![s] = FALSE]
                       /\ initsh' = IF p = initproc /\ pid[s] = initsh THEN 0 ELSE initsh
  BY DEF WaitReap, IsFirst, Children, Zombies
<1>2. /\ state[p] = "RUNNING" /\ pc[p] # "fork"
      /\ chan' = [chan EXCEPT ![p] = NoProc] /\ pc' = [pc EXCEPT ![p] = "user"]
      /\ UNCHANGED <<blocked, kid, nextpid, history, panicked>>
  BY DEF WaitReap, Waits, Calls, At, Goto
<1>3. /\ s # p /\ state'[s] = "UNUSED" /\ pid'[s] = 0 /\ parent'[s] = NoProc
      /\ \A q \in Slots \ {s} : /\ state'[q] = state[q] /\ pid'[q] = pid[q]
                                /\ parent'[q] = parent[q] /\ killed'[q] = killed[q]
  BY <1>1, <1>2 DEF TypeOK
<1>4. /\ pc'[p] = "user" /\ chan'[p] = NoProc
      /\ \A q \in Slots \ {p} : pc'[q] = pc[q] /\ chan'[q] = chan[q]
  BY <1>1, <1>2 DEF TypeOK
<1>5. /\ Taken' = Taken \ {s} /\ Born' = Born \ {s} /\ Live' = Live /\ Zombies' = Zombies \ {s}
      /\ s \in Zombies /\ s \in Born /\ s \notin Live /\ Taken \subseteq Slots /\ Born \subseteq Slots
  BY <1>3 DEF Taken, Born, Live, Zombies
<1>6. TypeOK'
  <2>1. "UNUSED" \in States /\ "user" \in Labels
    BY DEF States, Labels
  <2>2. /\ state' \in [Slots -> States] /\ pid' \in [Slots -> Nat]
        /\ parent' \in [Slots -> Slots \cup {NoProc}]
    BY <1>1, <2>1 DEF TypeOK
  <2>3. /\ killed' \in [Slots -> BOOLEAN] /\ shell' \in [Slots -> BOOLEAN] /\ initsh' \in Nat
    BY <1>1 DEF TypeOK
  <2>4. chan' \in [Slots -> Slots \cup Chans \cup {NoProc}] /\ pc' \in [Slots -> Labels]
    BY <1>1, <1>2, <2>1 DEF TypeOK
  <2> QED
    BY <1>1, <1>2, <2>2, <2>3, <2>4 DEF TypeOK
<1>7. ForkInv'
  BY <1>1, <1>2, <1>3, <1>4 DEF ForkInv
<1>8. PidInv'
  <2>1. pid[s] \in Nat /\ pid[s] < nextpid /\ nextpid \in Nat
    BY <1>1 DEF TypeOK, PidInv
  <2>2. \A q \in Slots : pid'[q] < nextpid'
    BY <1>1, <1>2, <1>3, <2>1 DEF PidInv
  <2> QED
    BY <1>1, <1>3, <1>5, <2>2 DEF PidInv
<1>9. ParentInv'
  <2>1. s # initproc
    BY <1>1, <1>5 DEF ParentInv
  <2>2. initproc \in Slots
    BY ProcAssumption DEF initproc
  <2>3. \A q \in Slots \ Born' : parent'[q] = NoProc
    BY <1>1, <1>3, <1>5 DEF ParentInv
  <2>4. ParentLive'
    BY <1>1, <1>3, <1>5 DEF ParentInv, ParentLive
  <2>5. ParentOlder'
    <3>1. \A q \in Born' \ {initproc} : parent[q] # s /\ parent[q] \in Slots
      BY <1>1, <1>5 DEF ParentInv, ParentLive, Live, Born
    <3> QED
      BY <1>1, <1>3, <1>5, <3>1 DEF ParentInv, ParentOlder
  <2> QED
    BY <1>1, <1>3, <1>5, <2>1, <2>2, <2>3, <2>4, <2>5 DEF ParentInv
<1>10. NoLostExit'
  <2> SUFFICES ASSUME NEW q \in Slots, state'[q] = "SLEEPING", chan'[q] = q
               PROVE  /\ Children(q)' # {}
                      /\ Children(q)' \cap Zombies' = {}
                      /\ ~killed'[q]
    BY DEF NoLostExit
  <2>1. q # p /\ q # s /\ state[q] = "SLEEPING" /\ chan[q] = q /\ killed'[q] = killed[q]
    <3>1. q # p /\ q # s
      BY <1>3, <1>4
    <3> QED
      BY <1>3, <1>4, <3>1
  <2>2. Children(q)' = Children(q)
    BY <1>3, <2>1 DEF Children
  <2> QED
    BY <1>1, <1>5, <2>1, <2>2 DEF NoLostExit
<1>11. HistoryInv'
  BY <1>1, <1>2, <1>3, <1>5 DEF HistoryInv
<1> QED
  BY <1>6, <1>7, <1>8, <1>9, <1>10, <1>11 DEF IInv

LEMMA NextIInv == IInv /\ [Next]_vars => IInv'
<1> SUFFICES ASSUME IInv, [Next]_vars PROVE IInv'
  OBVIOUS
<1> USE ProcAssumption DEF IInv, TypeOK, Taken, Live, Born, Zombies, Children, ParentLive, ParentOlder,
      States, Labels, Slots, NoProc, initproc, table, At, Calls, Goto
<1>1. ASSUME NEW p \in Slots, ForkFull(p) PROVE IInv'
  <2>1. TypeOK'
    BY <1>1 DEF Forks, ForkFailed, ForkFull
  <2>2. ForkInv' /\ NoLostExit'
    BY <1>1 DEF Forks, ForkFailed, ForkFull, ForkInv, NoLostExit
  <2>3. PidInv' /\ ParentInv' /\ HistoryInv'
    BY <1>1, LiveStep DEF Forks, ForkFailed, ForkFull
  <2> QED
    BY <2>1, <2>2, <2>3
<1>2. ASSUME NEW p \in Slots, ExitCall(p) PROVE IInv'
  <2>1. TypeOK'
    BY <1>2 DEF ExitCall
  <2>2. ForkInv' /\ NoLostExit'
    BY <1>2 DEF ExitCall, ForkInv, NoLostExit
  <2>3. PidInv' /\ ParentInv' /\ HistoryInv'
    BY <1>2, LiveStep DEF ExitCall
  <2> QED
    BY <2>1, <2>2, <2>3
<1>3. ASSUME NEW p \in Slots, ExitPanic(p) PROVE IInv'
  <2>1. TypeOK'
    BY <1>3 DEF ExitPanic
  <2>2. ForkInv' /\ NoLostExit'
    BY <1>3 DEF ExitPanic, ForkInv, NoLostExit
  <2>3. PidInv' /\ ParentInv' /\ HistoryInv'
    BY <1>3, LiveStep DEF ExitPanic
  <2> QED
    BY <2>1, <2>2, <2>3
<1>4. ASSUME NEW p \in Slots, Exec(p) PROVE IInv'
  <2>1. TypeOK'
    BY <1>4 DEF Exec
  <2>2. ForkInv' /\ NoLostExit'
    BY <1>4 DEF Exec, ForkInv, NoLostExit
  <2>3. PidInv' /\ ParentInv' /\ HistoryInv'
    BY <1>4, LiveStep DEF Exec
  <2> QED
    BY <2>1, <2>2, <2>3
<1>5. ASSUME NEW p \in Slots, Block(p) PROVE IInv'
  <2>1. TypeOK'
    BY <1>5 DEF Block
  <2>2. ForkInv' /\ NoLostExit'
    BY <1>5 DEF Block, ForkInv, NoLostExit
  <2>3. PidInv' /\ ParentInv' /\ HistoryInv'
    BY <1>5, LiveStep DEF Block
  <2> QED
    BY <2>1, <2>2, <2>3
<1>6. ASSUME NEW p \in Slots, Unblock(p) PROVE IInv'
  <2>1. TypeOK'
    BY <1>6 DEF Unblock
  <2>2. ForkInv' /\ NoLostExit'
    BY <1>6 DEF Unblock, ForkInv, NoLostExit
  <2>3. PidInv' /\ ParentInv' /\ HistoryInv'
    BY <1>6, LiveStep DEF Unblock
  <2> QED
    BY <2>1, <2>2, <2>3
<1>7. ASSUME NEW p \in Slots, NapCall(p) PROVE IInv'
  <2>1. TypeOK'
    BY <1>7 DEF NapCall
  <2>2. ForkInv' /\ NoLostExit'
    BY <1>7 DEF NapCall, ForkInv, NoLostExit
  <2>3. PidInv' /\ ParentInv' /\ HistoryInv'
    BY <1>7, LiveStep DEF NapCall
  <2> QED
    BY <2>1, <2>2, <2>3
<1>8. ASSUME NEW p \in Slots, Yield(p) PROVE IInv'
  <2>1. TypeOK'
    BY <1>8 DEF Yield
  <2>2. ForkInv' /\ NoLostExit'
    BY <1>8 DEF Yield, ForkInv, NoLostExit
  <2>3. PidInv' /\ ParentInv' /\ HistoryInv'
    BY <1>8, LiveStep DEF Yield
  <2> QED
    BY <2>1, <2>2, <2>3
<1>9. ASSUME NEW p \in Slots, Dispatch(p) PROVE IInv'
  <2>1. TypeOK'
    BY <1>9 DEF Dispatch
  <2>2. ForkInv' /\ NoLostExit'
    BY <1>9 DEF Dispatch, ForkInv, NoLostExit
  <2>3. PidInv' /\ ParentInv' /\ HistoryInv'
    BY <1>9, LiveStep DEF Dispatch
  <2> QED
    BY <2>1, <2>2, <2>3
<1>10. ASSUME NEW p \in Slots, NapSleep(p) PROVE IInv'
  <2>1. TypeOK'
    BY <1>10 DEF NapSleep
  <2>2. ForkInv' /\ NoLostExit'
    <3>1. ForkInv'
      BY <1>10 DEF NapSleep, ForkInv
    <3>2. NoLostExit'
      BY <1>10 DEF NapSleep, NoLostExit
    <3> QED
      BY <3>1, <3>2
  <2>3. PidInv' /\ ParentInv' /\ HistoryInv'
    BY <1>10, LiveStep DEF NapSleep
  <2> QED
    BY <2>1, <2>2, <2>3
<1>11. ASSUME NEW p \in Slots, NapReturn(p) PROVE IInv'
  <2>1. TypeOK'
    <3>1. pc' \in [Slots -> Labels]
      BY <1>11 DEF NapReturn
    <3> QED
      BY <1>11, <3>1 DEF NapReturn
  <2>2. ForkInv' /\ NoLostExit'
    BY <1>11 DEF NapReturn, ForkInv, NoLostExit
  <2>3. PidInv' /\ ParentInv' /\ HistoryInv'
    BY <1>11, LiveStep DEF NapReturn
  <2> QED
    BY <2>1, <2>2, <2>3
<1>12. ASSUME NEW p \in Slots, WaitFail(p) PROVE IInv'
  <2>1. TypeOK'
    BY <1>12 DEF Waits, WaitFail
  <2>2. ForkInv' /\ NoLostExit'
    BY <1>12 DEF Waits, WaitFail, ForkInv, NoLostExit
  <2>3. PidInv' /\ ParentInv' /\ HistoryInv'
    BY <1>12, LiveStep DEF Waits, WaitFail
  <2> QED
    BY <2>1, <2>2, <2>3
<1>13. ASSUME NEW p \in Slots, WaitSleep(p) PROVE IInv'
  <2>1. TypeOK'
    BY <1>13 DEF Waits, WaitSleep
  <2>2. ForkInv' /\ NoLostExit'
    BY <1>13 DEF Waits, WaitSleep, ForkInv, NoLostExit
  <2>3. PidInv' /\ ParentInv' /\ HistoryInv'
    BY <1>13, LiveStep DEF Waits, WaitSleep
  <2> QED
    BY <2>1, <2>2, <2>3
<1>14. ASSUME NEW p \in Slots, KillCall(p) PROVE IInv'
  BY <1>14, KillIInv
<1>15. ASSUME NEW c \in Chans, Wakeup(c) PROVE IInv'
  <2>1. TypeOK'
    BY <1>15 DEF Wakeup1, Wakeup
  <2>2. ForkInv' /\ NoLostExit'
    BY <1>15 DEF Wakeup1, Wakeup, ForkInv, NoLostExit
  <2>3. PidInv' /\ ParentInv' /\ HistoryInv'
    BY <1>15, LiveStep DEF Wakeup1, Wakeup
  <2> QED
    BY <2>1, <2>2, <2>3
<1>16. ASSUME NEW p \in Slots, ForkAlloc(p) PROVE IInv'
  BY <1>16, ForkAllocIInv
<1>17. ASSUME NEW p \in Slots, ForkNoMemory(p) PROVE IInv'
  BY <1>17, ForkNoMemoryIInv
<1>18. ASSUME NEW p \in Slots, ForkRun(p) PROVE IInv'
  BY <1>18, ForkRunIInv
<1>19. ASSUME NEW p \in Slots, WaitReap(p) PROVE IInv'
  BY <1>19, WaitReapIInv
<1>20. ASSUME NEW p \in Slots, ExitZombie(p) PROVE IInv'
  BY <1>20, ExitZombieIInv
<1>21. CASE UNCHANGED vars
  BY <1>21 DEF vars, ForkInv, PidInv, ParentInv, NoLostExit, HistoryInv
<1> QED
  BY <1>1, <1>2, <1>3, <1>4, <1>5, <1>6, <1>7, <1>8, <1>9, <1>10, <1>11, <1>12,
     <1>13, <1>14, <1>15, <1>16, <1>17, <1>18, <1>19, <1>20, <1>21
  DEF Next, Halted

\* IInv is an invariant of the process table.
THEOREM Invariance == Spec => []IInv
  BY InitIInv, NextIInv, PTL DEF Spec

\* Type correctness of the process table.
THEOREM TypeCorrect == Spec => []TypeOK
<1>1. IInv => TypeOK
  BY DEF IInv
<1> QED
  BY Invariance, <1>1, PTL

\* No parent asleep in wait() misses the exit of a child or its own kill.
THEOREM ExitNotLost == Spec => []NoLostExit
<1>1. IInv => NoLostExit
  BY DEF IInv
<1> QED
  BY Invariance, <1>1, PTL

\* Every process but init has a live parent.
THEOREM ParentsLive == Spec => []ParentLive
<1>1. IInv => ParentLive
  BY DEF IInv, ParentInv
<1> QED
  BY Invariance, <1>1, PTL

\* A parent other than init is older than its child.
THEOREM ParentsOlder == Spec => []ParentOlder
<1>1. IInv => ParentOlder
  BY DEF IInv, ParentInv
<1> QED
  BY Invariance, <1>1, PTL

\* No two processes share a pid.
THEOREM PidsUnique == Spec => []UniquePids
<1>1. IInv => UniquePids
  BY DEF IInv, PidInv, UniquePids, Taken, Born
<1> QED
  BY Invariance, <1>1, PTL

\* The history lists exited processes, each once.
THEOREM HistoryCorrect == Spec => []HistoryOfTheDead
<1>1. IInv => HistoryOfTheDead
  BY DEF IInv, HistoryInv, HistoryOfTheDead, Taken, Live, Born
<1> QED
  BY Invariance, <1>1, PTL

\* Every slot follows the life cycle: nothing wakes or runs a ZOMBIE, and only
\* wait frees one.
THEOREM LifecycleCorrect == Spec => Lifecycle
<1>1. IInv /\ [Next]_vars => [\A s \in Slots : LegalChange(state[s], state'[s])]_vars
  <2> SUFFICES ASSUME IInv, Next, NEW s \in Slots PROVE LegalChange(state[s], state'[s])
    BY DEF LegalChange
  <2> USE DEF IInv, TypeOK, LegalChange
  <2>1. CASE UNCHANGED state
    BY <2>1
  <2>2. ASSUME NEW p \in Slots,
               ForkAlloc(p) \/ ForkNoMemory(p) \/ ForkRun(p) \/ WaitReap(p) \/ KillCall(p)
        PROVE  LegalChange(state[s], state'[s])
    BY <2>2 DEF ForkAlloc, ForkNoMemory, ForkRun, WaitReap, KillCall, StatesAfterKill, ForkInv,
                IsFirst, Unused, Zombies, At
  <2>3. ASSUME NEW p \in Slots, WaitSleep(p) \/ NapSleep(p) \/ Yield(p) \/ Dispatch(p)
        PROVE  LegalChange(state[s], state'[s])
    BY <2>3 DEF WaitSleep, Waits, NapSleep, Yield, Dispatch, Calls, At
  <2>4. ASSUME NEW p \in Slots, ExitZombie(p) PROVE LegalChange(state[s], state'[s])
    BY <2>4 DEF ExitZombie, StatesAfterExit, Wakeup1, At
  <2>5. ASSUME NEW c \in Chans, Wakeup(c) PROVE LegalChange(state[s], state'[s])
    BY <2>5 DEF Wakeup, Wakeup1
  <2> QED
    BY <2>1, <2>2, <2>3, <2>4, <2>5
    DEF Next, ForkFull, ExitCall, ExitPanic, WaitFail, Exec, Block, Unblock, NapCall, NapReturn,
        Halted, vars, table
<1> QED
  BY Invariance, <1>1, PTL DEF Spec, Lifecycle
=============================================================================
