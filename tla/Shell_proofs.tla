---------------------------- MODULE Shell_proofs ----------------------------
(***************************************************************************)
(* Proofs about the file table, the descriptors and the pipes of Files, in *)
(* every run of Shell: for any number of processes, files and pipes, any   *)
(* lines and any kills the counts of RefsExact are exact.                  *)
(*                                                                         *)
(* A file's count is the number of its descriptors; an end of a pipe is in *)
(* the hands of one file or of one process that is closing it, never of    *)
(* two; and a process in a call of a pipe has a descriptor of its end.     *)
(*                                                                         *)
(* The second part is about the ring of Console: it always holds what has  *)
(* been handed over followed by the line, so that every step of the shell  *)
(* is a step of Terminal or leaves it alone.                               *)
(***************************************************************************)
EXTENDS Shell, FiniteSetTheorems, WellFoundedInduction, SequenceTheorems, TLAPS

-----------------------------------------------------------------------------
(* The inductive invariant, in parts *)

Types == {"NONE", "PIPE", "CONSOLE", "DISK"}

FileRecords == [ref : Nat, type : Types, pipe : Nat, writable : BOOLEAN]
EndRecords == [pipe : Nat, writable : BOOLEAN]

\* What the proofs need of the shape of a pipe and of a call
PipeShape(q) ==
    /\ q = [used |-> q.used, lock |-> q.lock, nread |-> q.nread, nwrite |-> q.nwrite,
            readopen |-> q.readopen, writeopen |-> q.writeopen, data |-> q.data]
    /\ q.used \in BOOLEAN /\ q.readopen \in BOOLEAN /\ q.writeopen \in BOOLEAN
CallShape(c) ==
    /\ c = [op |-> c.op, pipe |-> c.pipe, bytes |-> c.bytes, n |-> c.n]
    /\ c # NoCall => c.op \in {"read", "write"} /\ c.pipe \in Pipes

TypesInv == /\ ftable \in [Files -> FileRecords]
            /\ ofile \in [Procs -> [Fds -> Files \cup {NoFile}]]
            /\ pipes = [k \in Pipes |-> pipes[k]] /\ \A k \in Pipes : PipeShape(pipes[k])
            /\ closing \in [Procs -> EndRecords]
            /\ call = [p \in Procs |-> call[p]] /\ \A p \in Procs : CallShape(call[p])

\* A file's count is the number of its descriptors.
CountInv == \A f \in Files : ftable[f].ref = Cardinality(Holders(f))

\* File f is the end of pipe k that can be written, or the other one.
IsEnd(f, k, w) == /\ ftable[f].ref > 0 /\ ftable[f].type = "PIPE"
                  /\ ftable[f].pipe = k /\ ftable[f].writable = w
End(k, w) == [pipe |-> k, writable |-> w]

\* An end of a pipe is one file's or one closer's.
EndsInv ==
    /\ \A f \in Files, k \in Nat, w \in BOOLEAN : IsEnd(f, k, w) => k \in Pipes
    /\ \A p \in Procs : closing[p] # NoEnd => closing[p].pipe \in Pipes
    /\ \A f \in Files, g \in Files, k \in Pipes, w \in BOOLEAN :
           IsEnd(f, k, w) /\ IsEnd(g, k, w) => f = g
    /\ \A p \in Procs, q \in Procs, k \in Pipes, w \in BOOLEAN :
           closing[p] = End(k, w) /\ closing[q] = End(k, w) => p = q
    /\ \A f \in Files, p \in Procs, k \in Pipes, w \in BOOLEAN :
           IsEnd(f, k, w) => closing[p] # End(k, w)

\* An end is open as long as it is somebody's, and a pipe is used as long as an end is open.
Somebodys(k, w) == RefersTo(k, w) \/ AboutToClose(k, w)
PipesInv == \A k \in Pipes : /\ pipes[k].readopen <=> Somebodys(k, FALSE)
                             /\ pipes[k].writeopen <=> Somebodys(k, TRUE)
                             /\ pipes[k].used <=> (pipes[k].readopen \/ pipes[k].writeopen)

\* A process in a call has a descriptor of the pipe's end that it uses.
CallsInv == \A p \in Procs : call[p] # NoCall =>
    \E d \in Fds : /\ ofile[p][d] # NoFile
                   /\ IsEnd(ofile[p][d], call[p].pipe, call[p].op = "write")

FilesInv == TypesInv /\ CountInv /\ EndsInv /\ PipesInv /\ CallsInv

-----------------------------------------------------------------------------
(* Counting *)

\* The least of a set of numbers is in it.
LEMMA MinIn == ASSUME NEW S \in SUBSET Nat, S # {} PROVE Min(S) \in S
<1>1. PICK x \in S : \A y \in S : <<y, x>> \notin OpToRel(<, Nat)
  BY WFMin, NatLessThanWellFounded, Zenon
<1>2. \A y \in S : y \in Nat /\ x \in Nat
  OBVIOUS
<1>3. \A y \in S : ~(y < x)
  BY <1>1, <1>2, Zenon DEF OpToRel
<1>4. \E z \in S : \A y \in S : z <= y
  BY <1>2, <1>3
<1> QED
  BY <1>4, Zenon DEF Min

LEMMA FdsFinite == /\ Fds \subseteq Nat /\ 0 \in Fds /\ 1 \in Fds
                   /\ IsFiniteSet(Fds) /\ IsFiniteSet(Procs \X Fds)
                   /\ NoFile \notin Files /\ Files \subseteq Nat /\ Pipes \subseteq Nat
                   /\ NoPipe \notin Pipes
<1>1. IsFiniteSet(Fds)
  BY FilesAssumption, FS_Interval DEF Fds
<1>2. IsFiniteSet(Procs \X Fds)
  BY <1>1, FilesAssumption, FS_Product
<1>3. /\ Fds \subseteq Nat /\ 0 \in Fds /\ 1 \in Fds /\ NoFile \notin Files /\ Files \subseteq Nat
      /\ Pipes \subseteq Nat /\ NoPipe \notin Pipes
  BY FilesAssumption, ShellAssumption DEF Fds, Files, NoFile, Pipes, NoPipe
<1> QED
  BY <1>1, <1>2, <1>3

LEMMA HoldersFinite == ASSUME NEW f
                       PROVE  IsFiniteSet(Holders(f)) /\ Cardinality(Holders(f)) \in Nat
<1>1. Holders(f) \in SUBSET (Procs \X Fds)
  BY DEF Holders
<1> QED
  BY <1>1, FdsFinite, FS_Subset, FS_CardinalityType

\* A file with a descriptor is counted.
LEMMA HeldIsCounted == ASSUME TypesInv, CountInv, NEW p \in Procs, NEW d \in Fds, ofile[p][d] # NoFile
                       PROVE  ofile[p][d] \in Files /\ ftable[ofile[p][d]].ref > 0
<1>1. PICK f \in Files : f = ofile[p][d]
  BY DEF TypesInv
<1>2. <<p, d>> \in Holders(f)
  BY <1>1 DEF Holders
<1>3. Cardinality(Holders(f)) # 0
  BY <1>2, HoldersFinite, FS_EmptySet
<1>4. Cardinality(Holders(f)) > 0
  BY <1>3, HoldersFinite
<1> QED
  BY <1>1, <1>4 DEF CountInv

\* One descriptor that changes hands
LEMMA OneDescriptor ==
    ASSUME TypesInv, NEW p \in Procs, NEW d \in Fds, NEW x \in Files \cup {NoFile},
           ofile' = [ofile EXCEPT ![p][d] = x], NEW f \in Files
    PROVE  /\ ofile[p][d] = f /\ x # f => Cardinality(Holders(f)') = Cardinality(Holders(f)) - 1
           /\ ofile[p][d] # f /\ x = f => Cardinality(Holders(f)') = Cardinality(Holders(f)) + 1
           /\ ofile[p][d] # f /\ x # f => Cardinality(Holders(f)') = Cardinality(Holders(f))
<1>1. \A q \in Procs, e \in Fds : ofile'[q][e] = IF q = p /\ e = d THEN x ELSE ofile[q][e]
  BY DEF TypesInv
<1>2. \A h \in Procs \X Fds : ofile'[h[1]][h[2]] = IF h = <<p, d>> THEN x ELSE ofile[h[1]][h[2]]
  BY <1>1
<1>3. <<p, d>> \in Procs \X Fds /\ (<<p, d>> \in Holders(f) <=> ofile[p][d] = f)
  BY DEF Holders
<1>4. x = f => Holders(f)' = Holders(f) \cup {<<p, d>>}
  BY <1>2, <1>3 DEF Holders
<1>5. x # f => Holders(f)' = Holders(f) \ {<<p, d>>}
  BY <1>2, <1>3 DEF Holders
<1> QED
  BY <1>3, <1>4, <1>5, HoldersFinite, FS_AddElement, FS_RemoveElement

-----------------------------------------------------------------------------
(* The steps that leave the files alone *)

\* The ends of the pipes and their owners are as they were.
EndsStay == /\ \A f \in Files, k \in Nat, w \in BOOLEAN : IsEnd(f, k, w)' <=> IsEnd(f, k, w)
            /\ closing' = closing

LEMMA EndsKept == ASSUME TypesInv, EndsInv, EndsStay
                  PROVE  EndsInv' /\ \A k \in Pipes, w \in BOOLEAN : Somebodys(k, w)' <=> Somebodys(k, w)
<1>1. EndsInv'
  BY FdsFinite DEF EndsInv, EndsStay
<1>2. ASSUME NEW k \in Pipes, NEW w \in BOOLEAN PROVE Somebodys(k, w)' <=> Somebodys(k, w)
  <2>1. RefersTo(k, w) <=> \E f \in Files : IsEnd(f, k, w)
    BY DEF RefersTo, IsEnd
  <2>2. RefersTo(k, w)' <=> \E f \in Files : IsEnd(f, k, w)'
    BY DEF RefersTo, IsEnd
  <2>3. RefersTo(k, w)' <=> RefersTo(k, w)
    BY <2>1, <2>2, FdsFinite DEF EndsStay
  <2>4. AboutToClose(k, w)' <=> AboutToClose(k, w)
    BY DEF EndsStay, AboutToClose
  <2> QED
    BY <2>3, <2>4 DEF Somebodys
<1> QED
  BY <1>1, <1>2

\* A pipe's reads and writes open and close nothing.
PipesStay == /\ pipes' = [k \in Pipes |-> pipes'[k]]
             /\ \A k \in Pipes : /\ PipeShape(pipes'[k])
                                 /\ pipes'[k].used = pipes[k].used
                                 /\ pipes'[k].readopen = pipes[k].readopen
                                 /\ pipes'[k].writeopen = pipes[k].writeopen
CallsStay == /\ call' = [p \in Procs |-> call'[p]]
             /\ \A p \in Procs : call'[p] # NoCall =>
                    /\ CallShape(call'[p])
                    /\ call[p] # NoCall /\ call'[p].op = call[p].op /\ call'[p].pipe = call[p].pipe

LEMMA QuietStep == ASSUME FilesInv, UNCHANGED <<ftable, ofile, closing>>, PipesStay, CallsStay
                   PROVE  FilesInv'
<1>1. CallShape(NoCall)
  BY DEF CallShape, NoCall
<1>2. TypesInv'
  BY <1>1 DEF FilesInv, TypesInv, PipesStay, CallsStay
<1>3. CountInv'
  BY DEF FilesInv, CountInv, Holders
<1>4. EndsStay
  BY DEF EndsStay, IsEnd
<1>5. EndsInv' /\ \A k \in Pipes, w \in BOOLEAN : Somebodys(k, w)' <=> Somebodys(k, w)
  BY <1>4, EndsKept DEF FilesInv
<1>6. PipesInv'
  BY <1>5 DEF FilesInv, PipesInv, PipesStay
<1>7. CallsInv'
  BY DEF FilesInv, CallsInv, CallsStay, IsEnd
<1> QED
  BY <1>2, <1>3, <1>5, <1>6, <1>7 DEF FilesInv

\* One pipe whose ring or lock changes
LEMMA OnePipe == ASSUME TypesInv, NEW k \in Pipes, NEW q, pipes' = [pipes EXCEPT ![k] = q],
                        PipeShape(q), q.used = pipes[k].used, q.readopen = pipes[k].readopen,
                        q.writeopen = pipes[k].writeopen
                 PROVE  PipesStay
<1>1. \A l \in Pipes : pipes'[l] = IF l = k THEN q ELSE pipes[l]
  BY DEF TypesInv
<1>2. pipes' = [l \in Pipes |-> pipes'[l]]
  BY DEF TypesInv
<1> QED
  BY <1>1, <1>2 DEF PipesStay, TypesInv

LEMMA SameCalls == ASSUME TypesInv, call' = call PROVE CallsStay
  BY DEF CallsStay, TypesInv

LEMMA FinishedCalls == ASSUME TypesInv, NEW p \in Procs, Finish(p) PROVE CallsStay
<1>1. \A q \in Procs : call'[q] = IF q = p THEN NoCall ELSE call[q]
  BY DEF TypesInv, Finish
<1>2. call' = [q \in Procs |-> call'[q]]
  BY DEF TypesInv, Finish
<1> QED
  BY <1>1, <1>2 DEF CallsStay, TypesInv

\* The rings of the pipes change, and their locks.
Ring(q, l, r, w, d) == [used |-> q.used, lock |-> l, nread |-> r, nwrite |-> w,
                        readopen |-> q.readopen, writeopen |-> q.writeopen, data |-> d]
SameEnds(r, q) == /\ PipeShape(r) /\ r.used = q.used
                  /\ r.readopen = q.readopen /\ r.writeopen = q.writeopen

LEMMA RingEnds == ASSUME NEW q, PipeShape(q), NEW l, NEW r, NEW w, NEW d
                  PROVE  SameEnds(Ring(q, l, r, w, d), q)
  BY DEF SameEnds, Ring, PipeShape

LEMMA RingShapes == ASSUME NEW q, PipeShape(q), NEW s, NEW n, NEW h
                    PROVE  /\ SameEnds(Filled(q, s), q) /\ SameEnds(Drained(q, n), q)
                           /\ SameEnds([q EXCEPT !.lock = h], q)
                           /\ SameEnds([Filled(q, s) EXCEPT !.lock = h], q)
<1>1. q = Ring(q, q.lock, q.nread, q.nwrite, q.data)
  BY DEF PipeShape, Ring
<1>2. PICK l, r, w, d : q = Ring(q, l, r, w, d)
  BY <1>1
<1>3. \E x, y : Filled(q, s) = Ring(q, l, r, x, y)
  <2> DEFINE at(j) == (q.nwrite + j - 1) % PIPESIZE
             D == [i \in DOMAIN q.data |-> IF \E j \in 1..Len(s) : at(j) = i
                                           THEN s[CHOOSE j \in 1..Len(s) : at(j) = i] ELSE q.data[i]]
             W == (q.nwrite + Len(s)) % MOD
  <2>1. Filled(q, s) = [q EXCEPT !.data = D, !.nwrite = W]
    BY DEF Filled
  <2> HIDE DEF D, W
  <2>2. PICK g : g = [q EXCEPT !.data = D]
    OBVIOUS
  <2>3. g = Ring(q, l, r, w, D)
    BY <1>2, <2>2 DEF Ring
  <2>4. [g EXCEPT !.nwrite = W] = Ring(q, l, r, W, D)
    BY <2>3 DEF Ring
  <2>5. Filled(q, s) = [g EXCEPT !.nwrite = W]
    BY <2>1, <2>2
  <2> QED
    BY <2>4, <2>5
<1>4. PICK x, y : Filled(q, s) = Ring(q, l, r, x, y)
  BY <1>3
<1>5. \E z : Drained(q, n) = Ring(q, l, z, w, d)
  <2> DEFINE Z == (q.nread + Min({n, Used(q)})) % MOD
  <2>1. Drained(q, n) = [q EXCEPT !.nread = Z]
    BY DEF Drained
  <2> HIDE DEF Z
  <2>2. [q EXCEPT !.nread = Z] = Ring(q, l, Z, w, d)
    BY <1>2 DEF Ring
  <2> QED
    BY <2>1, <2>2
<1>6. [q EXCEPT !.lock = h] = Ring(q, h, r, w, d)
  BY <1>2 DEF Ring
<1>7. [Filled(q, s) EXCEPT !.lock = h] = Ring(q, h, r, x, y)
  BY <1>4 DEF Ring
<1> QED
  BY <1>4, <1>5, <1>6, <1>7, RingEnds

\* A process in a call uses a pipe that there is.
LEMMA CallPipe == ASSUME TypesInv, NEW p \in Procs,
                         call[p].op \in {"read", "write"} \/ call[p].pipe # NoPipe
                  PROVE  call[p] # NoCall /\ call[p].pipe \in Pipes /\ PipeShape(pipes[call[p].pipe])
<1>1. call[p] # NoCall
  BY DEF NoCall
<1>2. call[p].pipe \in Pipes
  BY <1>1 DEF TypesInv, CallShape
<1> QED
  BY <1>1, <1>2 DEF TypesInv

LEMMA RingStep == ASSUME FilesInv, NEW k \in Pipes, NEW q, pipes' = [pipes EXCEPT ![k] = q],
                         SameEnds(q, pipes[k]), UNCHANGED <<ftable, ofile, closing>>, CallsStay
                  PROVE  FilesInv'
<1>1. PipesStay
  BY OnePipe DEF FilesInv, SameEnds
<1> QED
  BY <1>1, QuietStep

\* Sleeping, waking, and the reads and writes of a pipe keep the counts.
LEMMA SleepKeeps == ASSUME FilesInv, NEW p \in Procs, FallAsleep(p) PROVE FilesInv'
<1> DEFINE k == call[p].pipe
<1>1. k \in Pipes /\ PipeShape(pipes[k])
  BY CallPipe DEF FallAsleep, FilesInv
<1>2. pipes' = [pipes EXCEPT ![k] = [pipes[k] EXCEPT !.lock = NoProc]]
  BY DEF FallAsleep
<1>3. SameEnds([pipes[k] EXCEPT !.lock = NoProc], pipes[k])
  BY <1>1, RingShapes
<1>4. UNCHANGED <<ftable, ofile, closing>> /\ CallsStay
  BY SameCalls DEF FallAsleep, FilesInv
<1> HIDE DEF k
<1> QED
  BY <1>1, <1>2, <1>3, <1>4, RingStep

LEMMA ReadKeeps == ASSUME FilesInv, NEW p \in Procs, ReadBlock(p) \/ ReadFail(p) \/ ReadDone(p)
                   PROVE  FilesInv'
<1> DEFINE k == call[p].pipe
<1>1. k \in Pipes /\ PipeShape(pipes[k])
  BY CallPipe DEF ReadBlock, ReadFail, ReadDone, InPipe, FilesInv
<1>2. CASE ReadBlock(p)
  <2>1. pipes' = [pipes EXCEPT ![k] = [pipes[k] EXCEPT !.lock = p]]
    BY <1>2 DEF ReadBlock
  <2>2. SameEnds([pipes[k] EXCEPT !.lock = p], pipes[k])
    BY <1>1, RingShapes
  <2>3. UNCHANGED <<ftable, ofile, closing>> /\ CallsStay
    BY <1>2, SameCalls DEF ReadBlock, FilesInv
  <2> HIDE DEF k
  <2> QED
    BY <1>1, <2>1, <2>2, <2>3, RingStep
<1>3. CASE ReadDone(p)
  <2>1. pipes' = [pipes EXCEPT ![k] = Drained(pipes[k], call[p].n)]
    BY <1>3 DEF ReadDone
  <2>2. SameEnds(Drained(pipes[k], call[p].n), pipes[k])
    BY <1>1, RingShapes
  <2>3. UNCHANGED <<ftable, ofile, closing>> /\ CallsStay
    BY <1>3, FinishedCalls DEF ReadDone, FilesInv
  <2> HIDE DEF k
  <2> QED
    BY <1>1, <2>1, <2>2, <2>3, RingStep
<1>4. CASE ReadFail(p)
  <2>1. UNCHANGED <<ftable, ofile, closing, pipes>> /\ CallsStay
    BY <1>4, FinishedCalls DEF ReadFail, FilesInv
  <2>2. PipesStay
    BY <2>1 DEF PipesStay, FilesInv, TypesInv
  <2> QED
    BY <2>1, <2>2, QuietStep
<1> QED
  BY <1>2, <1>3, <1>4

LEMMA WriteKeeps == ASSUME FilesInv, NEW p \in Procs, WriteDone(p) \/ WriteBlock(p) \/ WriteFail(p)
                    PROVE  FilesInv'
<1> DEFINE k == call[p].pipe
<1>1. k \in Pipes /\ PipeShape(pipes[k]) /\ call[p] # NoCall
  BY CallPipe DEF WriteDone, WriteBlock, WriteFail, InPipe, FilesInv
<1>2. CASE WriteDone(p)
  <2>1. pipes' = [pipes EXCEPT ![k] = Filled(pipes[k], call[p].bytes)]
    BY <1>2 DEF WriteDone
  <2>2. SameEnds(Filled(pipes[k], call[p].bytes), pipes[k])
    BY <1>1, RingShapes
  <2>3. UNCHANGED <<ftable, ofile, closing>> /\ CallsStay
    BY <1>2, FinishedCalls DEF WriteDone, FilesInv
  <2> HIDE DEF k
  <2> QED
    BY <1>1, <2>1, <2>2, <2>3, RingStep
<1>3. CASE WriteFail(p)
  <2>1. pipes' = [pipes EXCEPT ![k] = Filled(pipes[k], Fitting(p))]
    BY <1>3 DEF WriteFail
  <2>2. SameEnds(Filled(pipes[k], Fitting(p)), pipes[k])
    BY <1>1, RingShapes
  <2>3. UNCHANGED <<ftable, ofile, closing>> /\ CallsStay
    BY <1>3, FinishedCalls DEF WriteFail, FilesInv
  <2> HIDE DEF k
  <2> QED
    BY <1>1, <2>1, <2>2, <2>3, RingStep
<1>4. CASE WriteBlock(p)
  <2>1. pipes' = [pipes EXCEPT ![k] = [Filled(pipes[k], Fitting(p)) EXCEPT !.lock = p]]
    BY <1>4 DEF WriteBlock
  <2>2. SameEnds([Filled(pipes[k], Fitting(p)) EXCEPT !.lock = p], pipes[k])
    BY <1>1, RingShapes
  <2>3. UNCHANGED <<ftable, ofile, closing>>
    BY <1>4 DEF WriteBlock
  <2>4. CallsStay
    <3>1. PICK c : c = call[p]
      OBVIOUS
    <3>2. CallShape(c) /\ c # NoCall
      BY <1>1, <3>1 DEF FilesInv, TypesInv
    <3>3. PICK b : call' = [call EXCEPT ![p] = [c EXCEPT !.bytes = b]]
      BY <1>4, <3>1 DEF WriteBlock
    <3>4. PICK d : d = [c EXCEPT !.bytes = b]
      OBVIOUS
    <3>5. d = [op |-> c.op, pipe |-> c.pipe, bytes |-> b, n |-> c.n]
      BY <3>2, <3>4 DEF CallShape
    <3>6. CallShape(d) /\ d.op = c.op /\ d.pipe = c.pipe
      BY <3>2, <3>5 DEF CallShape
    <3>7. \A q \in Procs : call'[q] = IF q = p THEN d ELSE call[q]
      BY <3>3, <3>4 DEF FilesInv, TypesInv
    <3>8. call' = [q \in Procs |-> call'[q]]
      BY <3>3 DEF FilesInv, TypesInv
    <3> QED
      BY <3>1, <3>2, <3>6, <3>7, <3>8 DEF CallsStay, FilesInv, TypesInv
  <2> HIDE DEF k
  <2> QED
    BY <1>1, <2>1, <2>2, <2>3, <2>4, RingStep
<1> QED
  BY <1>2, <1>3, <1>4

LEMMA KillKeeps == ASSUME FilesInv, UNCHANGED <<ftable, ofile, pipes, closing, call>> PROVE FilesInv'
<1>1. PipesStay
  BY DEF PipesStay, FilesInv, TypesInv
<1> QED
  BY <1>1, QuietStep, SameCalls DEF FilesInv

\* A call begins with a descriptor of its end.
LEMMA CallKeeps == ASSUME FilesInv, NEW p \in Procs, NEW d \in Fds, NEW op \in {"read", "write"},
                          NEW bytes, NEW n, StartCall(p, d, op, bytes, n)
                   PROVE  FilesInv'
<1> DEFINE f == ofile[p][d]
           c == [op |-> op, pipe |-> ftable[f].pipe, bytes |-> bytes, n |-> n]
<1>1. f # NoFile /\ f \in Files /\ ftable[f].ref > 0
  BY HeldIsCounted DEF StartCall, FilesInv
<1>2. ftable[f] \in FileRecords
  BY <1>1 DEF FilesInv, TypesInv
<1>3. IsEnd(f, ftable[f].pipe, op = "write") /\ ftable[f].pipe \in Nat
  BY <1>1, <1>2 DEF StartCall, IsEnd, FileRecords
<1>4. ftable[f].pipe \in Pipes
  BY <1>1, <1>3 DEF FilesInv, EndsInv
<1>5. UNCHANGED <<ftable, ofile, pipes, closing>> /\ call' = [call EXCEPT ![p] = c]
  BY DEF StartCall
<1>6. c.op = op /\ c.pipe = ftable[f].pipe /\ CallShape(c)
  BY <1>4 DEF CallShape
<1> HIDE DEF c
<1>7. \A q \in Procs : call'[q] = IF q = p THEN c ELSE call[q]
  BY <1>5 DEF FilesInv, TypesInv
<1>8. call' = [q \in Procs |-> call'[q]]
  BY <1>5 DEF FilesInv, TypesInv
<1>9. TypesInv'
  BY <1>5, <1>6, <1>7, <1>8 DEF FilesInv, TypesInv
<1>10. CountInv' /\ EndsStay
  BY <1>5 DEF FilesInv, CountInv, Holders, EndsStay, IsEnd
<1>11. EndsInv' /\ PipesInv'
  BY <1>5, <1>10, EndsKept DEF FilesInv, PipesInv
<1>12. CallsInv'
  BY <1>1, <1>3, <1>5, <1>6, <1>7 DEF FilesInv, CallsInv, IsEnd
<1> QED
  BY <1>9, <1>10, <1>11, <1>12 DEF FilesInv

-----------------------------------------------------------------------------
(* Descriptors that come *)

\* Whoever is in a call keeps its descriptors, and a file that stays open stays what it is.
DescriptorsKept ==
    /\ \A p \in Procs, d \in Fds : call[p] # NoCall /\ ofile[p][d] # NoFile => ofile'[p][d] = ofile[p][d]
    /\ \A f \in Files, k \in Nat, w \in BOOLEAN :
           IsEnd(f, k, w) /\ ftable'[f].ref > 0 => IsEnd(f, k, w)'

LEMMA CallsKept == ASSUME FilesInv, TypesInv', CountInv', DescriptorsKept, call' = call
                   PROVE  CallsInv'
<1> SUFFICES ASSUME NEW p \in Procs, call[p] # NoCall
             PROVE  \E d \in Fds : /\ ofile'[p][d] # NoFile
                                   /\ IsEnd(ofile[p][d], call[p].pipe, call[p].op = "write")'
  BY DEF CallsInv
<1>1. PICK d \in Fds : ofile[p][d] # NoFile /\ IsEnd(ofile[p][d], call[p].pipe, call[p].op = "write")
  BY DEF FilesInv, CallsInv
<1>2. ofile'[p][d] = ofile[p][d] /\ ofile[p][d] \in Files
  BY <1>1 DEF DescriptorsKept, FilesInv, TypesInv
<1>3. ftable'[ofile'[p][d]].ref > 0
  <2>1. PICK f \in Files : f = ofile'[p][d]
    BY <1>2
  <2>2. <<p, d>> \in Holders(f)' /\ Holders(f)' \in SUBSET (Procs \X Fds)
    BY <2>1 DEF Holders
  <2>3. IsFiniteSet(Holders(f)')
    BY <2>2, FdsFinite, FS_Subset
  <2>4. Cardinality(Holders(f)') \in Nat /\ Cardinality(Holders(f)') # 0
    BY <2>2, <2>3, FS_CardinalityType, FS_EmptySet
  <2> QED
    BY <2>1, <2>4 DEF CountInv
<1>4. call[p].pipe \in Nat
  BY FdsFinite DEF FilesInv, TypesInv, CallShape
<1>5. IsEnd(ofile[p][d], call[p].pipe, call[p].op = "write")'
  BY <1>1, <1>2, <1>3, <1>4 DEF DescriptorsKept, IsEnd
<1> QED
  BY <1>1, <1>2, <1>5

\* A step that only adds descriptors of files
LEMMA DescriptorStep ==
    ASSUME FilesInv, TypesInv', CountInv', DescriptorsKept, EndsStay, UNCHANGED <<pipes, call>>
    PROVE  FilesInv'
<1>1. EndsInv' /\ PipesInv'
  BY EndsKept DEF FilesInv, PipesInv
<1> QED
  BY <1>1, CallsKept DEF FilesInv

\* dup: one more descriptor of an open file
LEMMA DupKeeps == ASSUME FilesInv, NEW p \in Procs, NEW d \in Fds, Dup(p, d) PROVE FilesInv'
<1> DEFINE f == ofile[p][d]
           e == Min(FreeFds(p))
<1>1. f \in Files /\ ftable[f].ref > 0 /\ ftable[f] \in FileRecords
  BY HeldIsCounted DEF Dup, FilesInv, TypesInv
<1>2. e \in Fds /\ ofile[p][e] = NoFile
  <2>1. FreeFds(p) \in SUBSET Nat /\ FreeFds(p) # {}
    BY FdsFinite DEF FreeFds, Dup
  <2> QED
    BY <2>1, MinIn DEF FreeFds
<1>3. /\ ofile' = [ofile EXCEPT ![p][e] = f] /\ UNCHANGED <<pipes, closing, call>>
      /\ ftable' = [ftable EXCEPT ![f].ref = @ + 1]
  BY DEF Dup
<1> HIDE DEF e, f
<1>4. \A g \in Files : /\ ftable'[g] \in FileRecords
                       /\ ftable'[g].type = ftable[g].type /\ ftable'[g].pipe = ftable[g].pipe
                       /\ ftable'[g].writable = ftable[g].writable
                       /\ ftable'[g].ref = IF g = f THEN ftable[g].ref + 1 ELSE ftable[g].ref
  BY <1>1, <1>3 DEF FilesInv, TypesInv, FileRecords
<1>5. \A g \in Files : Cardinality(Holders(g)') = IF g = f THEN Cardinality(Holders(g)) + 1
                                                         ELSE Cardinality(Holders(g))
  <2>1. f \in Files \cup {NoFile} /\ f # NoFile
    BY <1>1, FdsFinite
  <2>2. \A g \in Files : ofile[p][e] # g
    BY <1>2, FdsFinite
  <2> QED
    BY <1>2, <1>3, <2>1, <2>2, OneDescriptor DEF FilesInv
<1>6. TypesInv'
  <2>1. ftable' \in [Files -> FileRecords]
    BY <1>3, <1>4 DEF FilesInv, TypesInv
  <2>2. ofile' \in [Procs -> [Fds -> Files \cup {NoFile}]]
    BY <1>1, <1>2, <1>3 DEF FilesInv, TypesInv
  <2> QED
    BY <1>3, <2>1, <2>2 DEF FilesInv, TypesInv
<1>7. CountInv'
  BY <1>4, <1>5 DEF FilesInv, CountInv
<1>8. \A g \in Files : ftable[g].ref \in Nat /\ (ftable'[g].ref > 0 <=> ftable[g].ref > 0)
  BY <1>1, <1>4 DEF FilesInv, TypesInv, FileRecords
<1>9. EndsStay
  BY <1>3, <1>4, <1>8 DEF EndsStay, IsEnd
<1>10. DescriptorsKept
  <2>1. \A q \in Procs, x \in Fds : ofile'[q][x] = IF q = p /\ x = e THEN f ELSE ofile[q][x]
    BY <1>2, <1>3 DEF FilesInv, TypesInv
  <2> QED
    BY <1>2, <1>9, <2>1 DEF DescriptorsKept, EndsStay
<1> QED
  BY <1>3, <1>6, <1>7, <1>9, <1>10, DescriptorStep

\* open: a new file and a descriptor of it
LEMMA OpenKeeps == ASSUME FilesInv, NEW p \in Procs, Open(p, "DISK") PROVE FilesInv'
<1> DEFINE f == Min(FreeFiles)
           e == Min(FreeFds(p))
           new == [Unused EXCEPT !.ref = 1, !.type = "DISK"]
<1>1. f \in Files /\ ftable[f].ref = 0
  <2>1. FreeFiles \in SUBSET Nat /\ FreeFiles # {}
    BY FdsFinite DEF FreeFiles, Open, CanOpen
  <2> QED
    BY <2>1, MinIn DEF FreeFiles
<1>2. e \in Fds /\ ofile[p][e] = NoFile
  <2>1. FreeFds(p) \in SUBSET Nat /\ FreeFds(p) # {}
    BY FdsFinite DEF FreeFds, Open, CanOpen
  <2> QED
    BY <2>1, MinIn DEF FreeFds
<1>3. /\ ofile' = [ofile EXCEPT ![p][e] = f] /\ ftable' = [ftable EXCEPT ![f] = new]
      /\ UNCHANGED <<pipes, closing, call>>
  BY DEF Open
<1>4. new \in FileRecords /\ new.ref = 1 /\ new.type # "PIPE"
  BY DEF Unused, FileRecords, Types, NoPipe
<1> HIDE DEF e, f, new
<1>5. \A g \in Files : ftable'[g] = IF g = f THEN new ELSE ftable[g]
  BY <1>1, <1>3 DEF FilesInv, TypesInv
<1>6. \A g \in Files : Cardinality(Holders(g)') = IF g = f THEN Cardinality(Holders(g)) + 1
                                                         ELSE Cardinality(Holders(g))
  <2>1. f \in Files \cup {NoFile} /\ f # NoFile
    BY <1>1, FdsFinite
  <2>2. \A g \in Files : ofile[p][e] # g
    BY <1>2, FdsFinite
  <2> QED
    BY <1>2, <1>3, <2>1, <2>2, OneDescriptor DEF FilesInv
<1>7. TypesInv'
  <2>1. ftable' \in [Files -> FileRecords]
    BY <1>3, <1>4, <1>5 DEF FilesInv, TypesInv
  <2>2. ofile' \in [Procs -> [Fds -> Files \cup {NoFile}]]
    BY <1>1, <1>2, <1>3 DEF FilesInv, TypesInv
  <2> QED
    BY <1>3, <2>1, <2>2 DEF FilesInv, TypesInv
<1>8. CountInv'
  BY <1>1, <1>4, <1>5, <1>6 DEF FilesInv, CountInv
<1>9. EndsStay
  BY <1>1, <1>3, <1>4, <1>5 DEF EndsStay, IsEnd
<1>10. DescriptorsKept
  <2>1. \A q \in Procs, x \in Fds : ofile'[q][x] = IF q = p /\ x = e THEN f ELSE ofile[q][x]
    BY <1>2, <1>3 DEF FilesInv, TypesInv
  <2> QED
    BY <1>2, <1>9, <2>1 DEF DescriptorsKept, EndsStay
<1> QED
  BY <1>3, <1>7, <1>8, <1>9, <1>10, DescriptorStep

\* fork: every descriptor of the parent once more, for a child that had none
LEMMA ForkKeeps == ASSUME FilesInv, NEW p \in Procs, NEW c \in Procs, ForkFiles(p, c), call[c] = NoCall,
                          \A d \in Fds : ofile[c][d] = NoFile
                   PROVE  FilesInv'
<1>1. /\ ofile' = [ofile EXCEPT ![c] = ofile[p]] /\ UNCHANGED <<pipes, closing, call>>
      /\ ftable' = [f \in Files |-> [ftable[f] EXCEPT !.ref = @ + Cardinality(FdsOf(p, f))]]
  BY DEF ForkFiles, RefsAfterFork
<1>2. \A f \in Files : FdsOf(p, f) \in SUBSET Fds /\ IsFiniteSet(FdsOf(p, f))
                       /\ Cardinality(FdsOf(p, f)) \in Nat
  BY FdsFinite, FS_Subset, FS_CardinalityType DEF FdsOf
<1>3. \A f \in Files : /\ ftable'[f] \in FileRecords
                       /\ ftable'[f].type = ftable[f].type /\ ftable'[f].pipe = ftable[f].pipe
                       /\ ftable'[f].writable = ftable[f].writable
                       /\ ftable'[f].ref = ftable[f].ref + Cardinality(FdsOf(p, f))
  BY <1>1, <1>2 DEF FilesInv, TypesInv, FileRecords
<1>4. \A q \in Procs, d \in Fds : ofile'[q][d] = IF q = c THEN ofile[p][d] ELSE ofile[q][d]
  BY <1>1 DEF FilesInv, TypesInv
<1>5. \A f \in Files : Cardinality(Holders(f)') = Cardinality(Holders(f)) + Cardinality(FdsOf(p, f))
  <2> SUFFICES ASSUME NEW f \in Files
               PROVE  Cardinality(Holders(f)') = Cardinality(Holders(f)) + Cardinality(FdsOf(p, f))
    OBVIOUS
  <2> DEFINE S == {c} \X FdsOf(p, f)
  <2>1. f # NoFile
    BY FdsFinite
  <2>2. Holders(f)' = Holders(f) \cup S
    BY <1>4, <2>1 DEF Holders, FdsOf
  <2>3. Holders(f) \cap S = {}
    BY <2>1 DEF Holders
  <2>4. IsFiniteSet(S) /\ Cardinality(S) = 1 * Cardinality(FdsOf(p, f))
    <3>1. IsFiniteSet({c}) /\ Cardinality({c}) = 1
      BY FS_Singleton
    <3>2. PICK T : T = {c}
      OBVIOUS
    <3>3. PICK F : F = FdsOf(p, f)
      OBVIOUS
    <3>4. IsFiniteSet(T \X F) /\ Cardinality(T \X F) = Cardinality(T) * Cardinality(F)
      BY <1>2, <3>1, <3>2, <3>3, FS_Product
    <3> QED
      BY <3>1, <3>2, <3>3, <3>4
  <2>5. Cardinality(Holders(f) \cup S) = Cardinality(Holders(f)) + Cardinality(S) - Cardinality({})
    BY <2>3, <2>4, HoldersFinite, FS_Union
  <2> QED
    BY <1>2, <2>2, <2>4, <2>5, HoldersFinite, FS_EmptySet
<1>6. TypesInv'
  <2>1. ftable' \in [Files -> FileRecords]
    BY <1>1, <1>3
  <2>2. ofile' \in [Procs -> [Fds -> Files \cup {NoFile}]]
    BY <1>1 DEF FilesInv, TypesInv
  <2> QED
    BY <1>1, <2>1, <2>2 DEF FilesInv, TypesInv
<1>7. CountInv'
  BY <1>3, <1>5 DEF FilesInv, CountInv
<1>8. \A f \in Files : ftable'[f].ref > 0 <=> ftable[f].ref > 0
  <2> SUFFICES ASSUME NEW f \in Files, ftable[f].ref = 0 PROVE ftable'[f].ref = 0
    BY <1>2, <1>3 DEF FilesInv, TypesInv, FileRecords
  <2>1. Cardinality(Holders(f)) = 0
    BY DEF FilesInv, CountInv
  <2>2. Holders(f) = {}
    BY <2>1, HoldersFinite, FS_EmptySet
  <2>3. \A d \in Fds : ofile[p][d] # f
    <3> SUFFICES ASSUME NEW d \in Fds, ofile[p][d] = f PROVE FALSE
      OBVIOUS
    <3>1. <<p, d>> \in Holders(f)
      BY DEF Holders
    <3> QED
      BY <2>2, <3>1
  <2>4. FdsOf(p, f) = {}
    BY <2>3 DEF FdsOf
  <2>5. Cardinality(FdsOf(p, f)) = 0
    BY <2>4, FS_EmptySet
  <2> QED
    BY <1>3, <2>5
<1>9. EndsStay
  BY <1>1, <1>3, <1>8 DEF EndsStay, IsEnd
<1>10. DescriptorsKept
  BY <1>4, <1>9 DEF DescriptorsKept, EndsStay
<1> QED
  BY <1>1, <1>6, <1>7, <1>9, <1>10, DescriptorStep

\* The two least of a set with two members
LEMMA TwoLeast == ASSUME NEW S \in SUBSET Nat, IsFiniteSet(S), Cardinality(S) >= 2
                  PROVE  Min(S) \in S /\ Min(S \ {Min(S)}) \in S \ {Min(S)}
<1>1. S # {}
  BY FS_EmptySet
<1>2. PICK x : x = Min(S)
  OBVIOUS
<1>3. x \in S
  BY <1>1, <1>2, MinIn
<1>4. S # {x}
  BY FS_Singleton
<1>5. S \ {x} \in SUBSET Nat /\ S \ {x} # {}
  BY <1>3, <1>4
<1> QED
  BY <1>2, <1>3, <1>5, MinIn

\* What pipe takes: two free files, a free page and two free descriptors
LEMMA PipeTakes ==
    ASSUME FilesInv, NEW p \in Procs, CanPipe(p)
    PROVE  /\ ReadFd(p) \in Fds /\ WriteFd(p) \in Fds /\ ReadFd(p) # WriteFd(p)
           /\ ofile[p][ReadFd(p)] = NoFile /\ ofile[p][WriteFd(p)] = NoFile
           /\ Min(FreeFiles) \in FreeFiles
           /\ Min(FreeFiles \ {Min(FreeFiles)}) \in FreeFiles \ {Min(FreeFiles)}
           /\ Min(FreePipes) \in FreePipes
<1>1. FreeFiles \in SUBSET Files /\ IsFiniteSet(Files)
  <2>1. 1 \in Int /\ NFILE \in Int
    BY FilesAssumption
  <2>2. IsFiniteSet(Files)
    BY <2>1, FS_Interval DEF Files
  <2> QED
    BY <2>2 DEF FreeFiles
<1>2. FreeFds(p) \in SUBSET Fds /\ FreePipes \in SUBSET Nat
  BY FdsFinite DEF FreeFds, FreePipes
<1>3. IsFiniteSet(FreeFiles) /\ IsFiniteSet(FreeFds(p))
  BY <1>1, <1>2, FdsFinite, FS_Subset
<1>4. FreeFiles \in SUBSET Nat /\ FreeFds(p) \in SUBSET Nat
  BY <1>1, <1>2, FdsFinite
<1>5. Min(FreePipes) \in FreePipes
  BY <1>2, MinIn DEF CanPipe
<1>6. Min(FreeFiles) \in FreeFiles /\ Min(FreeFiles \ {Min(FreeFiles)}) \in FreeFiles \ {Min(FreeFiles)}
  BY <1>3, <1>4, TwoLeast DEF CanPipe
<1>7. ReadFd(p) \in FreeFds(p) /\ WriteFd(p) \in FreeFds(p) \ {ReadFd(p)}
  BY <1>3, <1>4, TwoLeast DEF CanPipe, ReadFd, WriteFd
<1> QED
  BY <1>5, <1>6, <1>7 DEF FreeFds

\* pipe: r and w become the ends of k, at the descriptors a and b.
NewPipe(p, r, w, k, a, b) ==
    /\ r \in Files /\ w \in Files /\ r # w /\ k \in Pipes /\ a \in Fds /\ b \in Fds /\ a # b
    /\ ftable[r].ref = 0 /\ ftable[w].ref = 0 /\ ~pipes[k].used
    /\ ofile[p][a] = NoFile /\ ofile[p][b] = NoFile
    /\ \A q \in Procs, d \in Fds :
           ofile'[q][d] = IF q = p /\ d = a THEN r ELSE IF q = p /\ d = b THEN w ELSE ofile[q][d]
    /\ ftable'[r] = [ref |-> 1, type |-> "PIPE", pipe |-> k, writable |-> FALSE]
    /\ ftable'[w] = [ref |-> 1, type |-> "PIPE", pipe |-> k, writable |-> TRUE]
    /\ \A f \in Files \ {r, w} : ftable'[f] = ftable[f]
    /\ \A l \in Pipes : l # k => pipes'[l] = pipes[l]
    /\ pipes'[k].used /\ pipes'[k].readopen /\ pipes'[k].writeopen
    /\ UNCHANGED <<closing, call>>

LEMMA PipeEffect == ASSUME FilesInv, NEW p \in Procs, SysPipe(p)
                    PROVE  TypesInv' /\ \E r, w, k, a, b : NewPipe(p, r, w, k, a, b)
<1>1. PICK a, b : a = ReadFd(p) /\ b = WriteFd(p)
  OBVIOUS
<1>2. PICK r : r = Min(FreeFiles)
  OBVIOUS
<1>3. PICK w : w = Min(FreeFiles \ {r})
  OBVIOUS
<1>4. PICK k : k = Min(FreePipes)
  OBVIOUS
<1>5. CanPipe(p)
  BY DEF SysPipe
<1>6. /\ r \in Files /\ w \in Files /\ r # w /\ k \in Pipes /\ a \in Fds /\ b \in Fds /\ a # b
      /\ ftable[r].ref = 0 /\ ftable[w].ref = 0 /\ ~pipes[k].used
      /\ ofile[p][a] = NoFile /\ ofile[p][b] = NoFile
  BY <1>1, <1>2, <1>3, <1>4, <1>5, PipeTakes DEF FreeFiles, FreePipes
<1> DEFINE file(wr) == [ref |-> 1, type |-> "PIPE", pipe |-> k, writable |-> wr]
           new == [Free EXCEPT !.used = TRUE, !.readopen = TRUE, !.writeopen = TRUE]
<1>7. /\ ftable' = [ftable EXCEPT ![r] = file(FALSE), ![w] = file(TRUE)]
      /\ ofile' = [ofile EXCEPT ![p][a] = r, ![p][b] = w]
      /\ pipes' = [pipes EXCEPT ![k] = new]
      /\ UNCHANGED <<closing, call>>
  BY <1>1, <1>2, <1>3, <1>4 DEF SysPipe
<1>8. \A q \in Procs, d \in Fds :
          ofile'[q][d] = IF q = p /\ d = a THEN r ELSE IF q = p /\ d = b THEN w ELSE ofile[q][d]
  BY <1>6, <1>7 DEF FilesInv, TypesInv
<1>9. /\ ftable'[r] = file(FALSE) /\ ftable'[w] = file(TRUE)
      /\ \A f \in Files \ {r, w} : ftable'[f] = ftable[f]
  BY <1>6, <1>7 DEF FilesInv, TypesInv
<1>10. PipeShape(new) /\ new.used /\ new.readopen /\ new.writeopen
  <2>1. PICK x : x = [i \in 0..PIPESIZE-1 |-> NoByte]
    OBVIOUS
  <2>2. new = [used |-> TRUE, lock |-> NoProc, nread |-> 0, nwrite |-> 0,
               readopen |-> TRUE, writeopen |-> TRUE, data |-> x]
    <3>1. PICK g : g = [Free EXCEPT !.used = TRUE]
      OBVIOUS
    <3>2. g = [used |-> TRUE, lock |-> NoProc, nread |-> 0, nwrite |-> 0,
               readopen |-> FALSE, writeopen |-> FALSE, data |-> x]
      BY <2>1, <3>1 DEF Free
    <3>3. PICK h : h = [g EXCEPT !.readopen = TRUE]
      OBVIOUS
    <3>4. h = [used |-> TRUE, lock |-> NoProc, nread |-> 0, nwrite |-> 0,
               readopen |-> TRUE, writeopen |-> FALSE, data |-> x]
      BY <3>2, <3>3
    <3>5. PICK j : j = [h EXCEPT !.writeopen = TRUE]
      OBVIOUS
    <3>6. j = [used |-> TRUE, lock |-> NoProc, nread |-> 0, nwrite |-> 0,
                readopen |-> TRUE, writeopen |-> TRUE, data |-> x]
      BY <3>4, <3>5
    <3>7. new = j
      BY <3>1, <3>3, <3>5
    <3> QED
      BY <3>6, <3>7
  <2> QED
    BY <2>2 DEF PipeShape
<1> HIDE DEF new
<1>11. \A l \in Pipes : pipes'[l] = IF l = k THEN new ELSE pipes[l]
  BY <1>7 DEF FilesInv, TypesInv
<1>12. \A wr \in BOOLEAN : file(wr) \in FileRecords
  BY <1>6, FdsFinite DEF FileRecords, Types
<1>13. TypesInv'
  <2>1. ftable' \in [Files -> FileRecords]
    BY <1>7, <1>12 DEF FilesInv, TypesInv
  <2>2. ofile' \in [Procs -> [Fds -> Files \cup {NoFile}]]
    BY <1>6, <1>7 DEF FilesInv, TypesInv
  <2>3. pipes' = [l \in Pipes |-> pipes'[l]]
    BY <1>7 DEF FilesInv, TypesInv
  <2> QED
    BY <1>7, <1>10, <1>11, <2>1, <2>2, <2>3 DEF FilesInv, TypesInv
<1>14. NewPipe(p, r, w, k, a, b)
  <2>1. pipes'[k].used /\ pipes'[k].readopen /\ pipes'[k].writeopen
    BY <1>6, <1>10, <1>11
  <2>2. \A l \in Pipes : l # k => pipes'[l] = pipes[l]
    BY <1>11
  <2> QED
    BY <1>6, <1>7, <1>8, <1>9, <2>1, <2>2 DEF NewPipe
<1> QED
  BY <1>13, <1>14

LEMMA PipeKeeps == ASSUME FilesInv, NEW p \in Procs, SysPipe(p) PROVE FilesInv'
<1>1. PICK r, w, k, a, b : NewPipe(p, r, w, k, a, b)
  BY PipeEffect
<1>2. TypesInv'
  BY PipeEffect
<1>3. /\ r \in Files /\ w \in Files /\ r # w /\ k \in Pipes /\ a \in Fds /\ b \in Fds /\ a # b
      /\ r # NoFile /\ w # NoFile
  BY <1>1, FdsFinite DEF NewPipe
<1>4. Holders(r) = {} /\ Holders(w) = {}
  BY <1>1, <1>3, HoldersFinite, FS_EmptySet DEF NewPipe, FilesInv, CountInv
<1>5. /\ Holders(r)' = {<<p, a>>} /\ Holders(w)' = {<<p, b>>}
      /\ \A f \in Files \ {r, w} : Holders(f)' = Holders(f)
  <2>1. \A h \in Procs \X Fds :
            ofile'[h[1]][h[2]] = IF h = <<p, a>> THEN r ELSE IF h = <<p, b>> THEN w ELSE ofile[h[1]][h[2]]
    BY <1>1 DEF NewPipe
  <2>2. \A h \in Procs \X Fds : ofile[h[1]][h[2]] \notin {r, w}
    BY <1>4 DEF Holders
  <2>3. <<p, a>> \in Procs \X Fds /\ <<p, b>> \in Procs \X Fds /\ <<p, a>> # <<p, b>>
    BY <1>3
  <2>4. ofile[<<p, a>>[1]][<<p, a>>[2]] = NoFile /\ ofile[<<p, b>>[1]][<<p, b>>[2]] = NoFile
    BY <1>1 DEF NewPipe
  <2>5. Holders(r)' = {<<p, a>>} /\ Holders(w)' = {<<p, b>>}
    BY <1>3, <2>1, <2>2, <2>3 DEF Holders
  <2>6. \A f \in Files \ {r, w} : Holders(f)' = Holders(f)
    BY <2>1, <2>3, <2>4, FdsFinite DEF Holders
  <2> QED
    BY <2>5, <2>6
<1>6. CountInv'
  <2>1. Cardinality(Holders(r)') = 1 /\ Cardinality(Holders(w)') = 1
    BY <1>5, FS_Singleton
  <2> QED
    <3>1. ftable'[r].ref = 1 /\ ftable'[w].ref = 1
      BY <1>1 DEF NewPipe
    <3>2. \A f \in Files \ {r, w} : ftable'[f].ref = Cardinality(Holders(f)')
      BY <1>1, <1>5 DEF NewPipe, FilesInv, CountInv
    <3> QED
      BY <2>1, <3>1, <3>2 DEF CountInv
<1>7. \A f \in Files, l \in Nat, v \in BOOLEAN :
          IsEnd(f, l, v)' <=> (IsEnd(f, l, v) \/ (f = r /\ l = k /\ ~v) \/ (f = w /\ l = k /\ v))
  <2> SUFFICES ASSUME NEW f \in Files, NEW l \in Nat, NEW v \in BOOLEAN
               PROVE  IsEnd(f, l, v)' <=> (IsEnd(f, l, v) \/ (f = r /\ l = k /\ ~v) \/ (f = w /\ l = k /\ v))
    OBVIOUS
  <2>1. CASE f = r
    <3>1. ~IsEnd(f, l, v)
      BY <1>1, <2>1 DEF NewPipe, IsEnd
    <3>2. /\ ftable'[f].ref > 0 /\ ftable'[f].type = "PIPE" /\ ftable'[f].pipe = k
          /\ ftable'[f].writable = FALSE
      BY <1>1, <2>1 DEF NewPipe
    <3>3. IsEnd(f, l, v)' <=> (l = k /\ v = FALSE)
      BY <3>2, Zenon DEF IsEnd
    <3> QED
      BY <1>3, <2>1, <3>1, <3>3
  <2>2. CASE f = w
    <3>1. ~IsEnd(f, l, v)
      BY <1>1, <2>2 DEF NewPipe, IsEnd
    <3>2. /\ ftable'[f].ref > 0 /\ ftable'[f].type = "PIPE" /\ ftable'[f].pipe = k
          /\ ftable'[f].writable = TRUE
      BY <1>1, <2>2 DEF NewPipe
    <3>3. IsEnd(f, l, v)' <=> (l = k /\ v = TRUE)
      BY <3>2, Zenon DEF IsEnd
    <3> QED
      BY <1>3, <2>2, <3>1, <3>3
  <2>3. CASE f \notin {r, w}
    BY <1>1, <2>3 DEF NewPipe, IsEnd
  <2> QED
    BY <2>1, <2>2, <2>3
<1>8. \A v \in BOOLEAN : ~Somebodys(k, v)
  BY <1>1, <1>3 DEF NewPipe, FilesInv, PipesInv, TypesInv, PipeShape
<1>9. \A f \in Files, v \in BOOLEAN : ~IsEnd(f, k, v)
  BY <1>8 DEF Somebodys, RefersTo, IsEnd
<1>10. \A q \in Procs, v \in BOOLEAN : closing[q] # End(k, v)
  BY <1>8 DEF Somebodys, AboutToClose, End
<1>11. closing' = closing /\ call' = call
  BY <1>1 DEF NewPipe
<1>12. EndsInv'
  <2>1. \A f \in Files, l \in Nat, v \in BOOLEAN : IsEnd(f, l, v)' => l \in Pipes
    BY <1>3, <1>7 DEF FilesInv, EndsInv
  <2>2. \A f \in Files, g \in Files, l \in Pipes, v \in BOOLEAN :
            IsEnd(f, l, v)' /\ IsEnd(g, l, v)' => f = g
    BY <1>3, <1>7, <1>9, FdsFinite DEF FilesInv, EndsInv
  <2>3. \A f \in Files, q \in Procs, l \in Pipes, v \in BOOLEAN :
            IsEnd(f, l, v)' => closing'[q] # End(l, v)
    <3> SUFFICES ASSUME NEW f \in Files, NEW q \in Procs, NEW l \in Pipes, NEW v \in BOOLEAN,
                        IsEnd(f, l, v)'
                 PROVE  closing[q] # End(l, v)
      BY <1>11
    <3>1. IsEnd(f, l, v) \/ l = k
      BY <1>7, FdsFinite
    <3> QED
      BY <1>10, <3>1 DEF FilesInv, EndsInv
  <2> QED
    BY <1>11, <2>1, <2>2, <2>3 DEF FilesInv, EndsInv, End
<1>13. \A l \in Pipes, v \in BOOLEAN : Somebodys(l, v)' <=> (Somebodys(l, v) \/ l = k)
  <2> SUFFICES ASSUME NEW l \in Pipes, NEW v \in BOOLEAN
               PROVE  Somebodys(l, v)' <=> (Somebodys(l, v) \/ l = k)
    OBVIOUS
  <2>1. RefersTo(l, v) <=> \E f \in Files : IsEnd(f, l, v)
    BY DEF RefersTo, IsEnd
  <2>2. RefersTo(l, v)' <=> \E f \in Files : IsEnd(f, l, v)'
    BY DEF RefersTo, IsEnd
  <2>3. RefersTo(l, v)' <=> (RefersTo(l, v) \/ l = k)
    BY <1>3, <1>7, <2>1, <2>2, FdsFinite
  <2>4. AboutToClose(l, v)' <=> AboutToClose(l, v)
    BY <1>11 DEF AboutToClose
  <2> QED
    BY <2>3, <2>4 DEF Somebodys
<1>14. PipesInv'
  <2> SUFFICES ASSUME NEW l \in Pipes
               PROVE  /\ pipes'[l].readopen <=> Somebodys(l, FALSE)'
                      /\ pipes'[l].writeopen <=> Somebodys(l, TRUE)'
                      /\ pipes'[l].used <=> (pipes'[l].readopen \/ pipes'[l].writeopen)
    BY DEF PipesInv
  <2> QED
    BY <1>1, <1>13 DEF NewPipe, FilesInv, PipesInv
<1>15. DescriptorsKept
  <2>1. \A q \in Procs, d \in Fds : ofile[q][d] # NoFile => ofile'[q][d] = ofile[q][d]
    BY <1>1 DEF NewPipe
  <2> QED
    BY <1>7, <2>1 DEF DescriptorsKept
<1>16. CallsInv'
  BY <1>2, <1>6, <1>11, <1>15, CallsKept
<1> QED
  BY <1>2, <1>6, <1>12, <1>14, <1>16 DEF FilesInv

-----------------------------------------------------------------------------
(* Descriptors that go *)

\* close: one descriptor less; with the last one the file's end of a pipe passes to the
\* process that closes it.
LEMMA CloseKeeps == ASSUME FilesInv, NEW p \in Procs, NEW d \in Fds, Ready(p), Close(p, d)
                    PROVE  FilesInv'
<1> DEFINE f == ofile[p][d]
           e == [pipe |-> ftable[f].pipe, writable |-> ftable[f].writable]
<1>1. f \in Files /\ f # NoFile /\ ftable[f].ref > 0 /\ ftable[f] \in FileRecords
  BY HeldIsCounted DEF Close, FilesInv, TypesInv
<1>2. call[p] = NoCall /\ closing[p] = NoEnd
  BY DEF Ready
<1>3. /\ ofile' = [ofile EXCEPT ![p][d] = NoFile] /\ UNCHANGED <<pipes, call>>
      /\ ftable' = [ftable EXCEPT ![f] = IF ftable[f].ref = 1 THEN Unused
                                          ELSE [ftable[f] EXCEPT !.ref = @ - 1]]
      /\ closing' = [closing EXCEPT ![p] = IF ftable[f].ref = 1 /\ ftable[f].type = "PIPE" THEN e ELSE NoEnd]
  BY DEF Close
<1>4. ofile[p][d] = f
  OBVIOUS
<1>5. e = End(ftable[f].pipe, ftable[f].writable) /\ ftable[f].writable \in BOOLEAN
      /\ ftable[f].pipe \in Nat
  BY <1>1 DEF End, FileRecords
<1> HIDE DEF f, e
<1>6. NoFile \in Files \cup {NoFile} /\ \A g \in Files : g # NoFile
  BY FdsFinite
<1>7. \A g \in Files : Cardinality(Holders(g)') = IF g = f THEN Cardinality(Holders(g)) - 1
                                                         ELSE Cardinality(Holders(g))
  BY <1>3, <1>4, <1>6, OneDescriptor DEF FilesInv
<1>8. Unused \in FileRecords /\ Unused.ref = 0
  BY DEF Unused, FileRecords, Types, NoPipe
<1>9. \A g \in Files : g # f => ftable'[g] = ftable[g]
  BY <1>3 DEF FilesInv, TypesInv
<1>10. \A q \in Procs, x \in Fds : ofile'[q][x] = IF q = p /\ x = d THEN NoFile ELSE ofile[q][x]
  BY <1>3 DEF FilesInv, TypesInv
<1>11. ofile' \in [Procs -> [Fds -> Files \cup {NoFile}]]
  BY <1>3 DEF FilesInv, TypesInv
<1>12. CASE ftable[f].ref # 1
  <2>1. /\ ftable'[f] \in FileRecords /\ ftable'[f].ref = ftable[f].ref - 1 /\ ftable'[f].ref > 0
        /\ ftable'[f].type = ftable[f].type /\ ftable'[f].pipe = ftable[f].pipe
        /\ ftable'[f].writable = ftable[f].writable
    <3>1. ftable'[f] = [ftable[f] EXCEPT !.ref = @ - 1]
      BY <1>1, <1>3, <1>12 DEF FilesInv, TypesInv
    <3>2. ftable[f].ref - 1 \in Nat /\ ftable[f].ref - 1 > 0
      BY <1>1, <1>12 DEF FileRecords
    <3> QED
      BY <1>1, <3>1, <3>2 DEF FileRecords
  <2>2. closing' = closing
    BY <1>2, <1>3, <1>12 DEF FilesInv, TypesInv
  <2>3. ftable' \in [Files -> FileRecords]
    BY <1>3, <1>9, <2>1 DEF FilesInv, TypesInv
  <2>4. TypesInv'
    BY <1>3, <1>11, <2>2, <2>3 DEF FilesInv, TypesInv
  <2>5. CountInv'
    BY <1>7, <1>9, <2>1 DEF FilesInv, CountInv
  <2>6. EndsStay
    BY <1>1, <1>9, <2>1, <2>2 DEF EndsStay, IsEnd
  <2>7. DescriptorsKept
    BY <1>2, <1>10, <2>6 DEF DescriptorsKept, EndsStay
  <2> QED
    BY <1>3, <2>4, <2>5, <2>6, <2>7, DescriptorStep
<1>13. CASE ftable[f].ref = 1
  <2>1. ftable'[f] = Unused
    BY <1>1, <1>3, <1>13 DEF FilesInv, TypesInv
  <2>2. ftable' \in [Files -> FileRecords]
    BY <1>3, <1>8, <1>13 DEF FilesInv, TypesInv
  <2>3. \A g \in Files, k \in Nat, w \in BOOLEAN : IsEnd(g, k, w)' <=> (g # f /\ IsEnd(g, k, w))
    BY <1>8, <1>9, <2>1 DEF IsEnd
  <2>4. CountInv'
    BY <1>1, <1>7, <1>8, <1>9, <1>13, <2>1 DEF FilesInv, CountInv
  <2>5. DescriptorsKept
    BY <1>2, <1>8, <1>10, <2>1, <2>3 DEF DescriptorsKept
  <2>6. CASE ftable[f].type # "PIPE"
    <3>1. closing' = closing
      BY <1>2, <1>3, <2>6 DEF FilesInv, TypesInv
    <3>2. TypesInv'
      BY <1>3, <1>11, <2>2, <3>1 DEF FilesInv, TypesInv
    <3>3. \A k \in Nat, w \in BOOLEAN : ~IsEnd(f, k, w)
      BY <2>6 DEF IsEnd
    <3>4. EndsStay
      BY <2>3, <3>1, <3>3 DEF EndsStay
    <3> QED
      BY <1>3, <2>4, <2>5, <3>2, <3>4, DescriptorStep
  <2>7. CASE ftable[f].type = "PIPE"
    <3>1. PICK k, w : k = ftable[f].pipe /\ w = ftable[f].writable
      OBVIOUS
    <3>2. w \in BOOLEAN /\ IsEnd(f, k, w) /\ k \in Pipes /\ k \in Nat
      BY <1>1, <1>5, <2>7, <3>1 DEF IsEnd, FilesInv, EndsInv
    <3>3. \A l \in Nat, v \in BOOLEAN : IsEnd(f, l, v) => l = k /\ v = w
      BY <3>1 DEF IsEnd
    <3>4. closing' = [closing EXCEPT ![p] = End(k, w)]
      BY <1>3, <1>5, <1>13, <2>7, <3>1
    <3>5. \A q \in Procs : closing'[q] = IF q = p THEN End(k, w) ELSE closing[q]
      BY <3>4 DEF FilesInv, TypesInv
    <3>6. End(k, w) \in EndRecords /\ End(k, w).pipe = k
      BY <3>2 DEF End, EndRecords
    <3>7. \A l \in Pipes, v \in BOOLEAN : End(l, v) = End(k, w) <=> l = k /\ v = w
      BY <3>2 DEF End
    <3>8. \A l \in Pipes, v \in BOOLEAN : closing[p] # End(l, v)
      BY <1>2, FdsFinite DEF End, NoEnd
    <3>9. TypesInv'
      <4>1. closing' \in [Procs -> EndRecords]
        BY <3>4, <3>6 DEF FilesInv, TypesInv
      <4> QED
        BY <1>3, <1>11, <2>2, <4>1 DEF FilesInv, TypesInv
    <3>10. EndsInv'
      <4>1. \A g \in Files, l \in Nat, v \in BOOLEAN : IsEnd(g, l, v)' => l \in Pipes
        BY <2>3 DEF FilesInv, EndsInv
      <4>2. \A q \in Procs : closing'[q] # NoEnd => closing'[q].pipe \in Pipes
        BY <3>2, <3>5, <3>6 DEF FilesInv, EndsInv
      <4>3. \A g \in Files, h \in Files, l \in Pipes, v \in BOOLEAN :
                IsEnd(g, l, v)' /\ IsEnd(h, l, v)' => g = h
        <5> SUFFICES ASSUME NEW g \in Files, NEW h \in Files, NEW l \in Pipes, NEW v \in BOOLEAN,
                            IsEnd(g, l, v)', IsEnd(h, l, v)'
                     PROVE  g = h
          OBVIOUS
        <5>1. IsEnd(g, l, v) /\ IsEnd(h, l, v)
          BY <2>3, FdsFinite
        <5> QED
          BY <5>1 DEF FilesInv, EndsInv
      <4>4. \A q \in Procs, r \in Procs, l \in Pipes, v \in BOOLEAN :
                closing'[q] = End(l, v) /\ closing'[r] = End(l, v) => q = r
        <5> SUFFICES ASSUME NEW q \in Procs, NEW r \in Procs, NEW l \in Pipes, NEW v \in BOOLEAN,
                            closing'[q] = End(l, v), closing'[r] = End(l, v), q # r
                     PROVE  FALSE
          OBVIOUS
        <5>1. CASE q # p /\ r # p
          BY <3>5, <5>1 DEF FilesInv, EndsInv
        <5>2. CASE q = p \/ r = p
          <6>1. PICK s \in Procs : closing[s] = End(l, v) /\ End(l, v) = End(k, w)
            BY <3>5, <5>2
          <6>2. closing[s] = End(k, w)
            BY <6>1
          <6> QED
            BY <1>1, <3>2, <6>2 DEF FilesInv, EndsInv
        <5> QED
          BY <5>1, <5>2
      <4>5. \A g \in Files, q \in Procs, l \in Pipes, v \in BOOLEAN :
                IsEnd(g, l, v)' => closing'[q] # End(l, v)
        <5> SUFFICES ASSUME NEW g \in Files, NEW q \in Procs, NEW l \in Pipes, NEW v \in BOOLEAN,
                            IsEnd(g, l, v)', closing'[q] = End(l, v)
                     PROVE  FALSE
          OBVIOUS
        <5>1. g # f /\ IsEnd(g, l, v)
          BY <2>3, FdsFinite
        <5>2. CASE q # p
          BY <3>5, <5>1, <5>2 DEF FilesInv, EndsInv
        <5>3. CASE q = p
          <6>1. l = k /\ v = w
            BY <3>5, <3>7, <5>3
          <6> QED
            BY <1>1, <3>2, <5>1, <6>1 DEF FilesInv, EndsInv
        <5> QED
          BY <5>2, <5>3
      <4> QED
        BY <4>1, <4>2, <4>3, <4>4, <4>5 DEF EndsInv, End
    <3>11. \A l \in Pipes, v \in BOOLEAN : Somebodys(l, v)' <=> Somebodys(l, v)
      <4> SUFFICES ASSUME NEW l \in Pipes, NEW v \in BOOLEAN PROVE Somebodys(l, v)' <=> Somebodys(l, v)
        OBVIOUS
      <4>1. RefersTo(l, v) <=> \E g \in Files : IsEnd(g, l, v)
        BY DEF RefersTo, IsEnd
      <4>2. RefersTo(l, v)' <=> \E g \in Files : IsEnd(g, l, v)'
        BY DEF RefersTo, IsEnd
      <4>3. AboutToClose(l, v) <=> \E q \in Procs : closing[q] = End(l, v)
        BY DEF AboutToClose, End
      <4>4. AboutToClose(l, v)' <=> \E q \in Procs : closing'[q] = End(l, v)
        BY DEF AboutToClose, End
      <4>5. l \in Nat /\ (AboutToClose(l, v)' <=> (AboutToClose(l, v) \/ (l = k /\ v = w)))
        BY <3>5, <3>7, <3>8, <4>3, <4>4, FdsFinite
      <4>6. RefersTo(l, v) <=> (RefersTo(l, v)' \/ (l = k /\ v = w))
        BY <1>1, <2>3, <3>2, <3>3, <4>1, <4>2, <4>5
      <4> QED
        BY <4>5, <4>6 DEF Somebodys
    <3>12. PipesInv'
      BY <1>3, <3>11 DEF FilesInv, PipesInv
    <3>13. CallsInv'
      BY <1>3, <2>4, <2>5, <3>9, CallsKept
    <3> QED
      BY <2>4, <3>9, <3>10, <3>12, <3>13 DEF FilesInv
  <2> QED
    BY <2>6, <2>7
<1> QED
  BY <1>12, <1>13

\* pipeclose: the end that a process has taken from its last file
LEMMA EndClosedShape ==
    ASSUME NEW q, PipeShape(q), NEW w \in BOOLEAN
    PROVE  LET t == EndClosed(q, w)
           IN  /\ PipeShape(t)
               /\ t.readopen = (q.readopen /\ w) /\ t.writeopen = (q.writeopen /\ ~w)
               /\ t.used <=> (q.used /\ (t.readopen \/ t.writeopen))
<1> DEFINE r == q.readopen /\ w
           v == q.writeopen /\ ~w
           t == EndClosed(q, w)
<1>1. r \in BOOLEAN /\ v \in BOOLEAN /\ q.used \in BOOLEAN
  BY DEF PipeShape
<1>2. CASE ~r /\ ~v
  <2>1. t = Free
    BY <1>2 DEF EndClosed
  <2>2. PICK x : x = [i \in 0..PIPESIZE-1 |-> NoByte]
    OBVIOUS
  <2>3. t = [used |-> FALSE, lock |-> NoProc, nread |-> 0, nwrite |-> 0,
             readopen |-> FALSE, writeopen |-> FALSE, data |-> x]
    BY <2>1, <2>2 DEF Free
  <2> HIDE DEF t
  <2>4. PipeShape(t) /\ t.used = FALSE /\ t.readopen = FALSE /\ t.writeopen = FALSE
    BY <2>3 DEF PipeShape
  <2>5. r = FALSE /\ v = FALSE
    BY <1>1, <1>2
  <2> QED
    BY <2>4, <2>5 DEF t
<1>3. CASE r \/ v
  <2>1. t = [q EXCEPT !.readopen = r, !.writeopen = v]
    BY <1>3 DEF EndClosed
  <2> HIDE DEF t
  <2>2. PICK a, b : a = r /\ b = v
    OBVIOUS
  <2>3. PICK g : g = [q EXCEPT !.readopen = a]
    OBVIOUS
  <2>4. g = [used |-> q.used, lock |-> q.lock, nread |-> q.nread, nwrite |-> q.nwrite,
             readopen |-> a, writeopen |-> q.writeopen, data |-> q.data]
    <3>1. PICK u, l, m, n, x, y, d : q = [used |-> u, lock |-> l, nread |-> m, nwrite |-> n,
                                          readopen |-> x, writeopen |-> y, data |-> d]
      BY DEF PipeShape
    <3> QED
      BY <2>3, <3>1
  <2>5. t = [g EXCEPT !.writeopen = b]
    BY <2>1, <2>2, <2>3
  <2>6. t = [used |-> q.used, lock |-> q.lock, nread |-> q.nread, nwrite |-> q.nwrite,
             readopen |-> a, writeopen |-> b, data |-> q.data]
    BY <2>4, <2>5
  <2>7. PipeShape(t) /\ t.used = q.used /\ t.readopen = a /\ t.writeopen = b
    BY <1>1, <2>2, <2>6 DEF PipeShape
  <2> QED
    BY <1>3, <2>2, <2>7 DEF t
<1> QED
  BY <1>1, <1>2, <1>3

LEMMA PipeCloseKeeps == ASSUME FilesInv, NEW p \in Procs, PipeClose(p) PROVE FilesInv'
<1>1. PICK k, w : k = closing[p].pipe /\ w = closing[p].writable
  OBVIOUS
<1>2. closing[p] = End(k, w) /\ w \in BOOLEAN /\ k \in Pipes
  BY <1>1 DEF PipeClose, FilesInv, TypesInv, EndsInv, EndRecords, End
<1>3. PICK t : t = EndClosed(pipes[k], w)
  OBVIOUS
<1>4. /\ UNCHANGED <<ftable, ofile, call>> /\ closing' = [closing EXCEPT ![p] = NoEnd]
      /\ pipes' = [pipes EXCEPT ![k] = t]
  BY <1>1, <1>3 DEF PipeClose
<1>5. \A q \in Procs : closing'[q] = IF q = p THEN NoEnd ELSE closing[q]
  BY <1>4 DEF FilesInv, TypesInv
<1>6. \A l \in Pipes : pipes'[l] = IF l = k THEN t ELSE pipes[l]
  BY <1>4 DEF FilesInv, TypesInv
<1>7. PipeShape(pipes[k])
  BY <1>2 DEF FilesInv, TypesInv
<1>8. /\ PipeShape(t) /\ t.readopen = (pipes[k].readopen /\ w) /\ t.writeopen = (pipes[k].writeopen /\ ~w)
      /\ t.used <=> (pipes[k].used /\ (t.readopen \/ t.writeopen))
  BY <1>2, <1>3, <1>7, EndClosedShape
<1>9. TypesInv'
  <2>1. NoEnd \in EndRecords
    BY DEF NoEnd, EndRecords, NoPipe
  <2>2. closing' \in [Procs -> EndRecords]
    BY <1>4, <2>1 DEF FilesInv, TypesInv
  <2>3. pipes' = [l \in Pipes |-> pipes'[l]]
    BY <1>4 DEF FilesInv, TypesInv
  <2> QED
    BY <1>4, <1>6, <1>8, <2>2, <2>3 DEF FilesInv, TypesInv
<1>10. CountInv' /\ CallsInv'
  BY <1>4 DEF FilesInv, CountInv, CallsInv, Holders, IsEnd
<1>11. \A f \in Files, l \in Nat, v \in BOOLEAN : IsEnd(f, l, v)' <=> IsEnd(f, l, v)
  BY <1>4 DEF IsEnd
<1>12. \A q \in Procs, l \in Pipes, v \in BOOLEAN :
           closing'[q] = End(l, v) => q # p /\ closing[q] = End(l, v)
  BY <1>5, FdsFinite DEF NoEnd, End
<1>13. EndsInv'
  <2>1. \A f \in Files, l \in Nat, v \in BOOLEAN : IsEnd(f, l, v)' => l \in Pipes
    BY <1>11 DEF FilesInv, EndsInv
  <2>2. \A q \in Procs : closing'[q] # NoEnd => closing'[q].pipe \in Pipes
    BY <1>5 DEF FilesInv, EndsInv
  <2>3. \A f \in Files, g \in Files, l \in Pipes, v \in BOOLEAN :
            IsEnd(f, l, v)' /\ IsEnd(g, l, v)' => f = g
    BY <1>11, FdsFinite DEF FilesInv, EndsInv
  <2>4. \A q \in Procs, r \in Procs, l \in Pipes, v \in BOOLEAN :
            closing'[q] = End(l, v) /\ closing'[r] = End(l, v) => q = r
    BY <1>12 DEF FilesInv, EndsInv
  <2>5. \A f \in Files, q \in Procs, l \in Pipes, v \in BOOLEAN :
            IsEnd(f, l, v)' => closing'[q] # End(l, v)
    BY <1>11, <1>12, FdsFinite DEF FilesInv, EndsInv
  <2> QED
    BY <2>1, <2>2, <2>3, <2>4, <2>5 DEF EndsInv, End
<1>14. \A l \in Pipes, v \in BOOLEAN :
           Somebodys(l, v)' <=> (Somebodys(l, v) /\ ~(l = k /\ v = w))
  <2> SUFFICES ASSUME NEW l \in Pipes, NEW v \in BOOLEAN
               PROVE  Somebodys(l, v)' <=> (Somebodys(l, v) /\ ~(l = k /\ v = w))
    OBVIOUS
  <2>1. RefersTo(l, v) <=> \E g \in Files : IsEnd(g, l, v)
    BY DEF RefersTo, IsEnd
  <2>2. RefersTo(l, v)' <=> RefersTo(l, v)
    BY <1>4 DEF RefersTo
  <2>3. AboutToClose(l, v) <=> \E q \in Procs : closing[q] = End(l, v)
    BY DEF AboutToClose, End
  <2>4. AboutToClose(l, v)' <=> \E q \in Procs : closing'[q] = End(l, v)
    BY DEF AboutToClose, End
  <2>5. CASE l = k /\ v = w
    <3>1. ~RefersTo(l, v)
      BY <1>2, <2>1, <2>5 DEF FilesInv, EndsInv
    <3>2. ~AboutToClose(l, v)'
      BY <1>2, <1>12, <2>4, <2>5 DEF FilesInv, EndsInv
    <3> QED
      BY <2>2, <2>5, <3>1, <3>2 DEF Somebodys
  <2>6. CASE ~(l = k /\ v = w)
    <3>1. closing[p] # End(l, v)
      BY <1>2, <2>6 DEF End
    <3>2. AboutToClose(l, v)' <=> AboutToClose(l, v)
      BY <1>5, <1>12, <2>3, <2>4, <3>1
    <3> QED
      BY <2>2, <2>6, <3>2 DEF Somebodys
  <2> QED
    BY <2>5, <2>6
<1>15. PipesInv'
  <2> SUFFICES ASSUME NEW l \in Pipes
               PROVE  /\ pipes'[l].readopen <=> Somebodys(l, FALSE)'
                      /\ pipes'[l].writeopen <=> Somebodys(l, TRUE)'
                      /\ pipes'[l].used <=> (pipes'[l].readopen \/ pipes'[l].writeopen)
    BY DEF PipesInv
  <2>1. /\ pipes[l].readopen <=> Somebodys(l, FALSE)
        /\ pipes[l].writeopen <=> Somebodys(l, TRUE)
        /\ pipes[l].used <=> (pipes[l].readopen \/ pipes[l].writeopen)
    BY DEF FilesInv, PipesInv
  <2>2. CASE l # k
    BY <1>6, <1>14, <2>1, <2>2
  <2>3. CASE l = k
    <3>1. Somebodys(l, FALSE)' <=> (Somebodys(l, FALSE) /\ w)
      BY <1>2, <1>14, <2>3
    <3>2. Somebodys(l, TRUE)' <=> (Somebodys(l, TRUE) /\ ~w)
      BY <1>2, <1>14, <2>3
    <3> QED
      BY <1>6, <1>8, <2>1, <2>3, <3>1, <3>2
  <2> QED
    BY <2>2, <2>3
<1> QED
  BY <1>9, <1>10, <1>13, <1>15 DEF FilesInv

-----------------------------------------------------------------------------
(* The processes of Shell *)

Cmds == Commands \cup {NoCmd, [type |-> "EXEC", prog |-> "?"]}

Gone == {"unused", "zombie"}
Idle(p) == call[p] = NoCall /\ closing[p] = NoEnd /\ \A d \in Fds : ofile[p][d] = NoFile

\* Where a process is in runcmd tells the type of its command.
Place(l, c) == /\ l = "open" => c.type = "REDIR"
               /\ l \in {"listwait", "right"} => c.type = "LIST"
               /\ l \in {"forkleft", "forkright", "std", "dup", "end1", "end2"} => c.type = "PIPE"

\* An unused slot and a zombie have no descriptors left and are in no call.
ShellInv == /\ pc = [p \in Procs |-> pc[p]]
            /\ cmd \in [Procs -> Cmds]
            /\ pfd \in [Procs -> Fds \X Fds]
            /\ \A p \in Procs : Place(pc[p], cmd[p])
            /\ \A p \in Procs : pc[p] \in Gone => Idle(p)

IInv == FilesInv /\ ShellInv

\* The parts of a command are commands, and what is redirected is a descriptor.
LEMMA CommandParts ==
    ASSUME NEW c \in Cmds
    PROVE  /\ c.type \in {"LIST", "PIPE"} => c.left \in Cmds /\ c.right \in Cmds
           /\ c.type \in {"BACK", "REDIR"} => c.cmd \in Cmds
           /\ c.type = "REDIR" => c.fd \in Fds
<1>1. CASE c \in Commands
  BY <1>1, ShellAssumption, FdsFinite DEF Parts, Cmds
<1>2. CASE c \notin Commands
  BY <1>2 DEF Cmds, NoCmd
<1> QED
  BY <1>1, <1>2

LEMMA ParsedCommand == ASSUME NEW line PROVE Parsed(line) \in Cmds
  BY ShellAssumption DEF Parsed, Cmds

\* A step that changes only what process p has open, and leaves p at l
OthersKeep(p) ==
    \A q \in Procs \ {p} : call'[q] = call[q] /\ closing'[q] = closing[q] /\ ofile'[q] = ofile[q]

\* The command and the pipe of p, which goes on at l, and of nobody else may change.
UserTyped(p, l) == /\ cmd' \in [Procs -> Cmds] /\ pfd' \in [Procs -> Fds \X Fds]
                   /\ Place(l, cmd'[p]) /\ \A q \in Procs \ {p} : cmd'[q] = cmd[q]

LEMMA OwnStep == ASSUME IInv, FilesInv', NEW p \in Procs, OthersKeep(p), NEW l, l \notin Gone,
                        Goto(p, l), UserTyped(p, l)
                 PROVE  IInv'
<1>1. \A q \in Procs : pc'[q] = IF q = p THEN l ELSE pc[q]
  BY DEF IInv, ShellInv, Goto
<1>2. pc' = [q \in Procs |-> pc'[q]]
  BY DEF IInv, ShellInv, Goto
<1>3. \A q \in Procs : pc'[q] \in Gone => Idle(q)'
  BY <1>1 DEF IInv, ShellInv, OthersKeep, Idle
<1>4. \A q \in Procs : Place(pc'[q], cmd'[q])
  BY <1>1 DEF IInv, ShellInv, UserTyped
<1> QED
  BY <1>2, <1>3, <1>4 DEF IInv, ShellInv, UserTyped, Place

\* A step that leaves the files alone
LEMMA PlainStep == ASSUME IInv, UNCHANGED fvars, pc' = [q \in Procs |-> pc'[q]],
                          \A q \in Procs : pc'[q] \in Gone => pc[q] \in Gone \/ Idle(q),
                          cmd' \in [Procs -> Cmds], pfd' \in [Procs -> Fds \X Fds],
                          \A q \in Procs : Place(pc'[q], cmd'[q])
                   PROVE  IInv'
<1>1. FilesInv'
  BY KillKeeps DEF IInv, fvars
<1>2. \A q \in Procs : pc'[q] \in Gone => Idle(q)'
  BY DEF IInv, ShellInv, Idle, fvars
<1> QED
  BY <1>1, <1>2 DEF IInv, ShellInv, Place

LEMMA PlainGoto == ASSUME IInv, UNCHANGED fvars, NEW p \in Procs, NEW l, l \notin Gone, Goto(p, l),
                          UserTyped(p, l)
                   PROVE  IInv'
<1>1. \A q \in Procs : pc'[q] = IF q = p THEN l ELSE pc[q]
  BY DEF IInv, ShellInv, Goto
<1>2. pc' = [q \in Procs |-> pc'[q]]
  BY DEF IInv, ShellInv, Goto
<1>3. \A q \in Procs : Place(pc'[q], cmd'[q])
  BY <1>1 DEF IInv, ShellInv, UserTyped
<1> QED
  BY <1>1, <1>2, <1>3, PlainStep DEF UserTyped

LEMMA SameUser == ASSUME IInv, NEW p \in Procs, NEW l, UNCHANGED <<cmd, pfd>>, Place(l, cmd[p])
                  PROVE  UserTyped(p, l)
  BY DEF IInv, ShellInv, UserTyped

\* fork1
LEMMA ForkStep ==
    ASSUME IInv, NEW p \in Procs, NEW l, l \notin Gone, NEW lc, lc \notin Gone, NEW lp, lp \notin Gone,
           NEW c \in Cmds, NEW s, Fork1(p, l, lc, c, s, lp), Place(lc, c), Place(lp, cmd[p])
    PROVE  IInv'
<1>1. CASE Slots = {}
  <2>1. UNCHANGED <<fvars, cmd, pfd>>
    BY <1>1 DEF Fork1, user
  <2>2. CASE Panic
    <3>1. \A q \in Procs : Place(pc'[q], cmd'[q])
      BY <2>2 DEF Panic, Place
    <3> QED
      BY <2>1, <2>2, <3>1, PlainStep DEF Panic, Gone, IInv, ShellInv
  <2>3. CASE Goto(p, "exit")
    BY <2>1, <2>3, PlainGoto, SameUser DEF Gone, Place
  <2> QED
    BY <1>1, <2>2, <2>3 DEF Fork1
<1>2. CASE Slots # {}
  <2>1. PICK k : k = Min(Slots)
    OBVIOUS
  <2>2. k \in Procs /\ pc[k] = "unused"
    <3>1. Slots \in SUBSET Nat
      BY ShellAssumption DEF Slots
    <3> QED
      BY <1>2, <2>1, <3>1, MinIn DEF Slots
  <2>3. /\ ForkFiles(p, k) /\ pc[p] = l
        /\ pc' = [pc EXCEPT ![k] = lc, ![p] = lp]
        /\ cmd' = [cmd EXCEPT ![k] = c] /\ pfd' = [pfd EXCEPT ![k] = pfd[p]]
    BY <1>2, <2>1 DEF Fork1, At
  <2>4. Idle(k) /\ k # p
    BY <2>2, <2>3 DEF IInv, ShellInv, Gone
  <2>5. FilesInv'
    BY <2>2, <2>3, <2>4, ForkKeeps DEF IInv, Idle
  <2>6. \A q \in Procs : pc'[q] = IF q = p THEN lp ELSE IF q = k THEN lc ELSE pc[q]
    BY <2>2, <2>3 DEF IInv, ShellInv
  <2>7. pc' = [q \in Procs |-> pc'[q]]
    BY <2>3 DEF IInv, ShellInv
  <2>8. cmd' \in [Procs -> Cmds] /\ pfd' \in [Procs -> Fds \X Fds]
    BY <2>2, <2>3 DEF IInv, ShellInv
  <2>9. \A q \in Procs : q # k => call'[q] = call[q] /\ closing'[q] = closing[q] /\ ofile'[q] = ofile[q]
    BY <2>2, <2>3 DEF ForkFiles, IInv, FilesInv, TypesInv
  <2>10. \A q \in Procs : pc'[q] \in Gone => Idle(q)'
    BY <2>6, <2>9 DEF IInv, ShellInv, Idle
  <2>11. \A q \in Procs : cmd'[q] = IF q = k THEN c ELSE cmd[q]
    BY <2>2, <2>3 DEF IInv, ShellInv
  <2>12. \A q \in Procs : Place(pc'[q], cmd'[q])
    BY <2>4, <2>6, <2>11 DEF IInv, ShellInv
  <2> QED
    BY <2>5, <2>7, <2>8, <2>10, <2>12 DEF IInv, ShellInv, Place
<1> QED
  BY <1>1, <1>2

\* wait
LEMMA ReapStep ==
    ASSUME IInv, UNCHANGED <<fvars, user>>, NEW p \in Procs, NEW c \in Procs, pc[c] = "zombie",
           NEW l, l \notin Gone, Place(l, cmd[p]),
           pc' = [pc EXCEPT ![c] = "unused", ![p] = l]
    PROVE  IInv'
<1>1. \A q \in Procs : pc'[q] = IF q = p THEN l ELSE IF q = c THEN "unused" ELSE pc[q]
  BY DEF IInv, ShellInv
<1>2. pc' = [q \in Procs |-> pc'[q]]
  BY DEF IInv, ShellInv
<1>3. UNCHANGED <<fvars, cmd, pfd>>
  BY DEF user
<1>4. \A q \in Procs : Place("unused", cmd[q])
  BY DEF Place
<1>5. \A q \in Procs : Place(pc'[q], cmd'[q])
  BY <1>1, <1>3, <1>4 DEF IInv, ShellInv
<1>6. \A q \in Procs : pc'[q] \in Gone => pc[q] \in Gone \/ Idle(q)
  BY <1>1 DEF Gone
<1> QED
  BY <1>2, <1>3, <1>5, <1>6, PlainStep DEF IInv, ShellInv

LEMMA WaitStep == ASSUME IInv, NEW p \in Procs, NEW l, NEW lp, lp \notin Gone, Wait(p, l, lp),
                         Place(lp, cmd[p])
                  PROVE  IInv'
<1>1. PICK c \in Procs : pc[c] = "zombie" /\ pc' = [pc EXCEPT ![c] = "unused", ![p] = lp]
  BY DEF Wait, Dead, Children
<1>2. UNCHANGED <<fvars, user>>
  BY DEF Wait
<1> QED
  BY <1>1, <1>2, ReapStep

\* close, on the way to l
LEMMA CloseStep == ASSUME IInv, NEW p \in Procs, NEW d \in Fds, Ready(p), Close(p, d),
                          NEW l, l \notin Gone, Goto(p, l), UserTyped(p, l)
                   PROVE  IInv'
<1>1. FilesInv'
  BY CloseKeeps DEF IInv
<1>2. OthersKeep(p)
  BY DEF Close, OthersKeep, IInv, FilesInv, TypesInv
<1> QED
  BY <1>1, <1>2, OwnStep

-----------------------------------------------------------------------------
(* The steps of Shell *)

LEMMA InitReapKeeps == ASSUME IInv, InitReap PROVE IInv'
<1>1. PICK c \in Dead(Init1) :
          /\ pc' = [pc EXCEPT ![c] = "unused",
                              ![Init1] = IF prog[c] = "sh" /\ cmd[c] = NoCmd THEN "start" ELSE @]
          /\ UNCHANGED <<fvars, user>>
  BY DEF InitReap
<1>2. c \in Procs /\ pc[c] = "zombie" /\ Init1 \in Procs
  BY ShellAssumption DEF Dead, Children
<1>3. pc' = [q \in Procs |-> pc'[q]]
  BY <1>1 DEF IInv, ShellInv
<1>4. \A q \in Procs : pc'[q] \in {"unused", "start", pc[q]} /\ (q \notin {c, Init1} => pc'[q] = pc[q])
  BY <1>1, <1>2 DEF IInv, ShellInv
<1>5. pc'[Init1] \in Gone => pc[Init1] \in Gone
  <2>1. CASE c = Init1
    BY <1>2, <2>1 DEF Gone
  <2>2. CASE c # Init1
    BY <1>1, <1>2, <2>2 DEF IInv, ShellInv, Gone
  <2> QED
    BY <2>1, <2>2
<1>6. \A q \in Procs : pc'[q] \in Gone => pc[q] \in Gone
  BY <1>2, <1>4, <1>5 DEF Gone
<1>7. UNCHANGED <<fvars, cmd, pfd>>
  BY <1>1 DEF user
<1>8. \A q \in Procs : Place(pc'[q], cmd'[q])
  BY <1>4, <1>7 DEF IInv, ShellInv, Place
<1> QED
  BY <1>3, <1>6, <1>7, <1>8, PlainStep DEF IInv, ShellInv

\* sh reads its lines, and runs the commands of each.
LEMMA LineKeeps == ASSUME IInv, NEW p \in Procs, GetChar(p) \/ GotChar(p) \/ RunLine(p) PROVE IInv'
<1>1. CASE GetChar(p)
  BY <1>1, PlainGoto, SameUser DEF GetChar, user, Gone, Place
<1>2. CASE GotChar(p)
  <2>1. PICK l : Goto(p, l) /\ l \in {"getcmd", "exit", "fork"}
    BY <1>2 DEF GotChar
  <2>2. UNCHANGED fvars /\ UserTyped(p, l)
    BY <1>2, <2>1, SameUser DEF GotChar, Place
  <2> QED
    BY <2>1, <2>2, PlainGoto DEF Gone
<1>3. CASE RunLine(p)
  BY <1>3, ForkStep, ParsedCommand DEF RunLine, Gone, Place
<1> QED
  BY <1>1, <1>2, <1>3

\* The commands that run a program, or one command after another
LEMMA CommandKeeps ==
    ASSUME IInv, NEW p \in Procs, RunExec(p) \/ RunRedir(p) \/ OpenRedir(p) \/ ListRight(p)
    PROVE  IInv'
<1>1. CASE RunExec(p)
  <2>1. PICK l : Goto(p, l) /\ l \in {"main", "exit"}
    BY <1>1 DEF RunExec
  <2>2. UNCHANGED fvars /\ cmd' = cmd
    BY <1>1 DEF RunExec
  <2>3. <<0, 0>> \in Fds \X Fds /\ pfd \in [Procs -> Fds \X Fds]
    BY FdsFinite DEF IInv, ShellInv
  <2>4. pfd' = pfd \/ pfd' = [pfd EXCEPT ![p] = <<0, 0>>]
    BY <1>1 DEF RunExec
  <2>5. pfd' \in [Procs -> Fds \X Fds]
    BY <2>3, <2>4
  <2>6. UserTyped(p, l)
    BY <2>1, <2>2, <2>5 DEF UserTyped, IInv, ShellInv, Place
  <2> QED
    BY <2>1, <2>2, <2>6, PlainGoto DEF Gone
<1>2. CASE RunRedir(p)
  <2>1. cmd[p].fd \in Fds /\ cmd[p].type = "REDIR"
    BY <1>2, CommandParts DEF RunRedir, Does, IInv, ShellInv
  <2>2. Place("open", cmd[p])
    BY <2>1 DEF Place
  <2> QED
    BY <1>2, <2>1, <2>2, CloseStep, SameUser DEF RunRedir, Does, At, user, Gone
<1>3. CASE OpenRedir(p) /\ CanOpen(p)
  <2>1. Open(p, "DISK") /\ Goto(p, "run") /\ cmd' = [cmd EXCEPT ![p] = cmd[p].cmd] /\ pfd' = pfd
    BY <1>3 DEF OpenRedir, Continue
  <2>2. FilesInv'
    BY <2>1, OpenKeeps DEF IInv
  <2>3. OthersKeep(p)
    BY <2>1 DEF Open, OthersKeep, IInv, FilesInv, TypesInv
  <2>4. cmd[p] \in Cmds /\ cmd[p].type = "REDIR"
    BY <1>3 DEF OpenRedir, At, IInv, ShellInv, Place
  <2>5. cmd[p].cmd \in Cmds
    BY <2>4, CommandParts
  <2>6. UserTyped(p, "run")
    BY <2>1, <2>5 DEF UserTyped, IInv, ShellInv, Place
  <2> QED
    BY <2>1, <2>2, <2>3, <2>6, OwnStep DEF Gone
<1>4. CASE OpenRedir(p) /\ ~CanOpen(p)
  BY <1>4, PlainGoto, SameUser DEF OpenRedir, Gone, Place
<1>5. CASE ListRight(p)
  <2>1. UNCHANGED fvars /\ Goto(p, "run") /\ cmd' = [cmd EXCEPT ![p] = cmd[p].right] /\ pfd' = pfd
    BY <1>5 DEF ListRight, Continue
  <2>2. cmd[p] \in Cmds /\ cmd[p].type = "LIST"
    BY <1>5 DEF ListRight, At, IInv, ShellInv, Place
  <2>3. cmd[p].right \in Cmds
    BY <2>2, CommandParts
  <2>4. UserTyped(p, "run")
    BY <2>1, <2>3 DEF UserTyped, IInv, ShellInv, Place
  <2> QED
    BY <2>1, <2>4, PlainGoto DEF Gone
<1> QED
  BY <1>1, <1>2, <1>3, <1>4, <1>5

\* The commands that run two others, and one in the background
LEMMA ForksKeep ==
    ASSUME IInv, NEW p \in Procs, RunList(p) \/ RunBack(p) \/ ForkLeft(p) \/ ForkRight(p)
    PROVE  IInv'
<1>1. cmd[p] \in Cmds
  BY DEF IInv, ShellInv
<1>2. CASE RunList(p)
  <2>1. cmd[p].left \in Cmds /\ Place("listwait", cmd[p]) /\ Place("run", cmd[p].left)
    BY <1>1, <1>2, CommandParts DEF RunList, Place
  <2> QED
    BY <1>2, <2>1, ForkStep DEF RunList, Gone
<1>3. CASE RunBack(p)
  <2>1. cmd[p].cmd \in Cmds /\ Place("exit", cmd[p]) /\ Place("run", cmd[p].cmd)
    BY <1>1, <1>3, CommandParts DEF RunBack, Place
  <2> QED
    BY <1>3, <2>1, ForkStep DEF RunBack, Gone
<1>4. CASE ForkLeft(p)
  <2>1. Place("std", cmd[p]) /\ Place("forkright", cmd[p])
    BY <1>4 DEF ForkLeft, Fork1, At, IInv, ShellInv, Place
  <2> QED
    BY <1>1, <1>4, <2>1, ForkStep DEF ForkLeft, Gone
<1>5. CASE ForkRight(p)
  <2>1. Place("std", cmd[p]) /\ Place("end1", cmd[p])
    BY <1>5 DEF ForkRight, Fork1, At, IInv, ShellInv, Place
  <2> QED
    BY <1>1, <1>5, <2>1, ForkStep DEF ForkRight, Gone
<1> QED
  BY <1>2, <1>3, <1>4, <1>5

LEMMA RunPipeKeeps == ASSUME IInv, NEW p \in Procs, RunPipe(p) PROVE IInv'
<1>1. CASE CanPipe(p)
  <2>1. /\ SysPipe(p) /\ Goto(p, "forkleft") /\ cmd' = cmd /\ cmd[p].type = "PIPE"
        /\ pfd' = [pfd EXCEPT ![p] = <<ReadFd(p), WriteFd(p)>>]
    BY <1>1 DEF RunPipe, Does, user
  <2>2. FilesInv'
    BY <2>1, PipeKeeps DEF IInv
  <2>3. OthersKeep(p)
    BY <2>1 DEF SysPipe, OthersKeep, IInv, FilesInv, TypesInv
  <2>4. <<ReadFd(p), WriteFd(p)>> \in Fds \X Fds
    BY <1>1, PipeTakes DEF IInv
  <2>5. pfd' \in [Procs -> Fds \X Fds]
    BY <2>1, <2>4 DEF IInv, ShellInv
  <2>6. UserTyped(p, "forkleft")
    BY <2>1, <2>5 DEF UserTyped, IInv, ShellInv, Place
  <2> QED
    BY <2>1, <2>2, <2>3, <2>6, OwnStep DEF Gone
<1>2. CASE ~CanPipe(p)
  BY <1>2, PlainGoto, SameUser DEF RunPipe, Gone, Place
<1> QED
  BY <1>1, <1>2

\* The ends of a pipe on their way to standard input and output
LEMMA EndsKeep ==
    ASSUME IInv, NEW p \in Procs, CloseStd(p) \/ DupEnd(p) \/ CloseEnd1(p) \/ CloseEnd2(p)
    PROVE  IInv'
<1>1. cmd[p] \in Cmds /\ cmd[p].type = "PIPE" /\ pfd[p][1] \in Fds /\ pfd[p][2] \in Fds
  BY DEF IInv, ShellInv, Place, CloseStd, DupEnd, CloseEnd1, CloseEnd2, At
<1>2. CASE CloseStd(p)
  <2>1. PICK d \in Fds : Close(p, d)
    BY <1>2, FdsFinite DEF CloseStd
  <2>2. Ready(p) /\ Goto(p, "dup") /\ UserTyped(p, "dup")
    BY <1>1, <1>2, SameUser DEF CloseStd, At, user, Place
  <2> QED
    BY <2>1, <2>2, CloseStep DEF Gone
<1>3. CASE DupEnd(p)
  <2>1. PICK d \in Fds : Dup(p, d)
    BY <1>1, <1>3 DEF DupEnd
  <2>2. Goto(p, "end1") /\ UserTyped(p, "end1")
    BY <1>1, <1>3, SameUser DEF DupEnd, user, Place
  <2>3. FilesInv'
    BY <2>1, DupKeeps DEF IInv
  <2>4. OthersKeep(p)
    BY <2>1 DEF Dup, OthersKeep, IInv, FilesInv, TypesInv
  <2> QED
    BY <2>2, <2>3, <2>4, OwnStep DEF Gone
<1>4. CASE CloseEnd1(p)
  <2>1. Ready(p) /\ Goto(p, "end2") /\ UserTyped(p, "end2")
    BY <1>1, <1>4, SameUser DEF CloseEnd1, At, user, Place
  <2> QED
    BY <1>1, <1>4, <2>1, CloseStep DEF CloseEnd1, Gone
<1>5. CASE CloseEnd2(p) /\ side[p] = "none"
  <2>1. Ready(p) /\ Goto(p, "wait1") /\ UserTyped(p, "wait1")
    BY <1>1, <1>5, SameUser DEF CloseEnd2, At, Place
  <2> QED
    BY <1>1, <1>5, <2>1, CloseStep DEF CloseEnd2, Gone
<1>6. CASE CloseEnd2(p) /\ side[p] # "none"
  <2>1. cmd[p].left \in Cmds /\ cmd[p].right \in Cmds
    BY <1>1, CommandParts
  <2>2. PICK c \in Cmds : cmd' = [cmd EXCEPT ![p] = c]
    BY <1>6, <2>1 DEF CloseEnd2, Continue
  <2>3. Ready(p) /\ Goto(p, "run") /\ pfd' = pfd
    BY <1>6 DEF CloseEnd2, At, Continue
  <2>4. UserTyped(p, "run")
    BY <2>2, <2>3 DEF UserTyped, IInv, ShellInv, Place
  <2> QED
    BY <1>1, <1>6, <2>3, <2>4, CloseStep DEF CloseEnd2, Gone
<1> QED
  BY <1>2, <1>3, <1>4, <1>5, <1>6

LEMMA WaitsKeep == ASSUME IInv, NEW p \in Procs, Waits(p) PROVE IInv'
<1>1. /\ Place("getcmd", cmd[p]) /\ Place("wait2", cmd[p]) /\ Place("exit", cmd[p])
      /\ pc[p] = "listwait" => Place("right", cmd[p])
  BY DEF IInv, ShellInv, Place
<1>2. CASE Wait(p, "linewait", "getcmd")
  BY <1>1, <1>2, WaitStep DEF Gone
<1>3. CASE Wait(p, "listwait", "right")
  <2>1. pc[p] = "listwait"
    BY <1>3 DEF Wait, At
  <2> QED
    BY <1>1, <1>3, <2>1, WaitStep DEF Gone
<1>4. CASE Wait(p, "wait1", "wait2")
  BY <1>1, <1>4, WaitStep DEF Gone
<1>5. CASE Wait(p, "wait2", "exit")
  BY <1>1, <1>5, WaitStep DEF Gone
<1> QED
  BY <1>2, <1>3, <1>4, <1>5 DEF Waits

\* echo and cat
LEMMA CallStep == ASSUME IInv, NEW p \in Procs, NEW d \in Fds, NEW op \in {"read", "write"},
                         NEW bytes, NEW n, StartCall(p, d, op, bytes, n),
                         NEW l \in {"writing", "catread"}, Goto(p, l), UNCHANGED <<cmd, pfd>>
                  PROVE  IInv'
<1>1. FilesInv'
  BY CallKeeps DEF IInv
<1>2. OthersKeep(p)
  BY DEF StartCall, OthersKeep, IInv, FilesInv, TypesInv
<1>3. UserTyped(p, l)
  BY SameUser DEF Place
<1> QED
  BY <1>1, <1>2, <1>3, OwnStep DEF Gone

LEMMA OutputKeeps == ASSUME IInv, NEW p \in Procs, NEW l, NEW s, Write(p, l, s), UNCHANGED <<cmd, pfd>>
                     PROVE  IInv'
<1>1. CASE ftable[ofile[p][1]].type = "PIPE"
  BY <1>1, CallStep, FdsFinite DEF Write
<1>2. CASE ftable[ofile[p][1]].type # "PIPE"
  <2>1. UNCHANGED fvars /\ Goto(p, "main") /\ UserTyped(p, "main")
    BY <1>2, SameUser DEF Write, Place
  <2> QED
    BY <2>1, PlainGoto DEF Gone
<1> QED
  BY <1>1, <1>2

LEMMA ProgramKeeps ==
    ASSUME IInv, NEW p \in Procs, EchoChar(p) \/ EchoExit(p) \/ CatRead(p) \/ CatWrite(p)
    PROVE  IInv'
<1>1. CASE EchoChar(p)
  BY <1>1, OutputKeeps DEF EchoChar
<1>2. CASE EchoExit(p)
  BY <1>2, PlainGoto, SameUser DEF EchoExit, user, Gone, Place
<1>3. CASE CatRead(p)
  <2>1. Goto(p, "catread") /\ UNCHANGED <<cmd, pfd>>
    BY <1>3 DEF CatRead, user
  <2>2. CASE ftable[ofile[p][0]].type = "PIPE"
    BY <1>3, <2>1, <2>2, CallStep, FdsFinite DEF CatRead
  <2>3. CASE ftable[ofile[p][0]].type # "PIPE"
    BY <1>3, <2>1, <2>3, PlainGoto, SameUser DEF CatRead, Gone, Place
  <2> QED
    BY <2>2, <2>3
<1>4. CASE CatWrite(p)
  BY <1>4, OutputKeeps DEF CatWrite
<1> QED
  BY <1>1, <1>2, <1>3, <1>4

\* A call or a close that p is still in
LEMMA BusyStep == ASSUME IInv, FilesInv', NEW p \in Procs, OthersKeep(p), ~Idle(p),
                         UNCHANGED <<pc, cmd, pfd>>
                  PROVE  IInv'
<1>1. \A q \in Procs : pc'[q] \in Gone => Idle(q)'
  BY DEF IInv, ShellInv, OthersKeep, Idle
<1> QED
  BY <1>1 DEF IInv, ShellInv, Place

LEMMA PipeStepKeeps == ASSUME IInv, NEW p \in Procs, PipeStep(p) PROVE IInv'
<1>1. CASE (ReadDone(p) \/ ReadFail(p) \/ WriteDone(p) \/ WriteFail(p))
           /\ UNCHANGED <<cmd, pfd>> /\ \E l \in {"exit", "output", "main"} : Goto(p, l)
  <2>1. PICK l \in {"exit", "output", "main"} : Goto(p, l)
    BY <1>1
  <2>2. FilesInv'
    BY <1>1, ReadKeeps, WriteKeeps DEF IInv
  <2>3. OthersKeep(p)
    BY <1>1 DEF ReadDone, ReadFail, WriteDone, WriteFail, Finish, OthersKeep, IInv, FilesInv, TypesInv
  <2>4. UserTyped(p, l)
    BY <1>1, <2>1, SameUser DEF Place
  <2> QED
    BY <2>1, <2>2, <2>3, <2>4, OwnStep DEF Gone
<1>2. CASE (ReadBlock(p) \/ WriteBlock(p) \/ FallAsleep(p) \/ PipeClose(p)) /\ UNCHANGED <<pc, user>>
  <2>1. FilesInv'
    BY <1>2, ReadKeeps, WriteKeeps, SleepKeeps, PipeCloseKeeps DEF IInv
  <2>2. OthersKeep(p)
    BY <1>2 DEF ReadBlock, WriteBlock, FallAsleep, PipeClose, OthersKeep, IInv, FilesInv, TypesInv
  <2>3. ~Idle(p)
    BY <1>2 DEF ReadBlock, WriteBlock, FallAsleep, PipeClose, InPipe, Idle, NoCall
  <2>4. UNCHANGED <<pc, cmd, pfd>>
    BY <1>2 DEF user
  <2> QED
    BY <2>1, <2>2, <2>3, <2>4, BusyStep
<1>3. CASE ReadDone(p) /\ CatGot(p, BytesRead(p))
  BY <1>1, <1>3 DEF CatGot
<1>4. CASE ReadFail(p) /\ CatGot(p, <<>>)
  BY <1>1, <1>4 DEF CatGot
<1>5. CASE WriteDone(p) /\ Goto(p, "main") /\ UNCHANGED user
  BY <1>1, <1>5 DEF user
<1>6. CASE WriteFail(p) /\ Goto(p, IF prog[p] = "cat" THEN "exit" ELSE "main") /\ UNCHANGED user
  BY <1>1, <1>6 DEF user
<1> QED
  BY <1>2, <1>3, <1>4, <1>5, <1>6 DEF PipeStep

LEMMA ConsoleStepKeeps == ASSUME IInv, NEW p \in Procs, ConsoleStep(p) PROVE IInv'
<1>1. CASE UNCHANGED fvars /\ CatGot(p, Got(p))
  <2>1. PICK l \in {"exit", "output"} : Goto(p, l)
    BY <1>1 DEF CatGot
  <2>2. UserTyped(p, l)
    BY <1>1, <2>1, SameUser DEF CatGot, Place
  <2> QED
    BY <1>1, <2>1, <2>2, PlainGoto DEF Gone
<1>2. CASE UNCHANGED <<fvars, user>> /\ Goto(p, "exit")
  BY <1>2, PlainGoto, SameUser DEF user, Gone, Place
<1>3. CASE UNCHANGED <<fvars, user>> /\ pc' = pc
  BY <1>3, PlainStep DEF user, IInv, ShellInv
<1>4. ASSUME pc' = [pc EXCEPT ![p] = IF killed[p] THEN "exit" ELSE @]
      PROVE  Goto(p, "exit") \/ pc' = pc
  <2>1. CASE killed[p]
    BY <1>4, <2>1 DEF Goto
  <2>2. CASE ~killed[p]
    BY <1>4, <2>2 DEF IInv, ShellInv
  <2> QED
    BY <2>1, <2>2
<1> QED
  BY <1>1, <1>2, <1>3, <1>4 DEF ConsoleStep

\* The end of a process
LEMMA ExitKeeps == ASSUME IInv, NEW p \in Procs, Die(p) \/ ExitClose(p) \/ ExitZombie(p) PROVE IInv'
<1>1. Place("exit", cmd[p]) /\ Place("zombie", cmd[p])
  BY DEF Place
<1>2. CASE Die(p)
  BY <1>1, <1>2, PlainGoto, SameUser DEF Die, user, Gone
<1>3. CASE ExitClose(p)
  <2>1. Opened(p) # {} /\ Opened(p) \in SUBSET Nat
    BY <1>3, FdsFinite DEF ExitClose, Opened
  <2>2. PICK d \in Fds : Close(p, d)
    BY <1>3, <2>1, MinIn DEF ExitClose, Opened
  <2>3. Goto(p, "exit")
    BY <1>3 DEF ExitClose, Goto, IInv, ShellInv
  <2>4. Ready(p) /\ UserTyped(p, "exit")
    BY <1>1, <1>3, SameUser DEF ExitClose, user
  <2> QED
    BY <2>2, <2>3, <2>4, CloseStep DEF Gone
<1>4. CASE ExitZombie(p)
  <2>1. UNCHANGED <<fvars, cmd, pfd>> /\ pc' = [pc EXCEPT ![p] = "zombie"]
    BY <1>4 DEF ExitZombie, user, Goto
  <2>2. Idle(p)
    BY <1>4 DEF ExitZombie, Ready, Opened, Idle
  <2>3. \A q \in Procs : pc'[q] = IF q = p THEN "zombie" ELSE pc[q]
    BY <2>1 DEF IInv, ShellInv
  <2>4. pc' = [q \in Procs |-> pc'[q]]
    BY <2>1 DEF IInv, ShellInv
  <2>5. \A q \in Procs : Place(pc'[q], cmd'[q])
    BY <1>1, <2>1, <2>3 DEF IInv, ShellInv
  <2>6. \A q \in Procs : pc'[q] \in Gone => pc[q] \in Gone \/ Idle(q)
    BY <2>2, <2>3
  <2> QED
    BY <2>1, <2>4, <2>5, <2>6, PlainStep DEF IInv, ShellInv
<1> QED
  BY <1>2, <1>3, <1>4

\* The user and the killer
LEMMA OutsideKeeps == ASSUME IInv, TypeKey \/ \E p \in Procs : KillOne(p) PROVE IInv'
<1>1. CASE TypeKey
  BY <1>1, PlainStep DEF TypeKey, user, IInv, ShellInv
<1>2. ASSUME NEW p \in Procs, KillOne(p) PROVE IInv'
  <2>1. UNCHANGED <<ftable, ofile, pipes, closing, call, pc, cmd, pfd>>
    BY <1>2 DEF KillOne, Kill, user
  <2>2. FilesInv'
    BY <2>1, KillKeeps DEF IInv
  <2> QED
    BY <2>1, <2>2 DEF IInv, ShellInv, Idle, Place
<1> QED
  BY <1>1, <1>2

LEMMA StutterKeeps == ASSUME IInv, UNCHANGED svars PROVE IInv'
  BY PlainStep DEF svars, user, IInv, ShellInv

-----------------------------------------------------------------------------
(* The theorems *)

\* init has its three descriptors of the console, and there is no pipe.
LEMMA InitCounts ==
    ASSUME ShellInit
    PROVE  TypesInv /\ CountInv
<1>1. /\ 1 \in Files /\ Init1 \in Procs /\ {0, 1, 2} \subseteq Fds
      /\ \A d \in Fds : d < 3 <=> d \in {0, 1, 2}
  BY FilesAssumption, ShellAssumption DEF Files, Fds
<1>2. PICK x : x = [i \in 0..PIPESIZE-1 |-> NoByte]
  OBVIOUS
<1>3. PipeShape(Free)
  <2>1. Free = [used |-> FALSE, lock |-> NoProc, nread |-> 0, nwrite |-> 0,
                readopen |-> FALSE, writeopen |-> FALSE, data |-> x]
    BY <1>2 DEF Free
  <2> QED
    BY <2>1 DEF PipeShape
<1>4. CallShape(NoCall) /\ NoEnd \in EndRecords
  BY DEF CallShape, NoCall, NoEnd, EndRecords, NoPipe
<1>5. PICK g : g = [Unused EXCEPT !.ref = 3, !.type = "CONSOLE"]
  OBVIOUS
<1>6. g = [ref |-> 3, type |-> "CONSOLE", pipe |-> NoPipe, writable |-> FALSE]
  BY <1>5 DEF Unused
<1>7. ftable = [f \in Files |-> IF f = 1 THEN g ELSE Unused]
  BY <1>5 DEF ShellInit
<1>8. g \in FileRecords /\ Unused \in FileRecords
  BY <1>6 DEF FileRecords, Unused, Types, NoPipe
<1>9. \A p \in Procs, d \in Fds : ofile[p][d] = IF p = Init1 /\ d \in {0, 1, 2} THEN 1 ELSE NoFile
  BY <1>1 DEF ShellInit
<1>10. TypesInv
  <2>1. ftable \in [Files -> FileRecords]
    BY <1>7, <1>8
  <2>2. ofile \in [Procs -> [Fds -> Files \cup {NoFile}]]
    BY <1>1 DEF ShellInit
  <2>3. pipes = [k \in Pipes |-> pipes[k]] /\ \A k \in Pipes : PipeShape(pipes[k])
    BY <1>3 DEF ShellInit
  <2>4. closing \in [Procs -> EndRecords]
    BY <1>4 DEF ShellInit
  <2>5. call = [p \in Procs |-> call[p]] /\ \A p \in Procs : CallShape(call[p])
    BY <1>4 DEF ShellInit
  <2> QED
    BY <2>1, <2>2, <2>3, <2>4, <2>5 DEF TypesInv
<1>11. Holders(1) = {<<Init1, 0>>, <<Init1, 1>>, <<Init1, 2>>}
  BY <1>1, <1>9 DEF Holders, NoFile
<1>12. Cardinality(Holders(1)) = 3
  <2>1. PICK x0, x1, x2 : x0 = <<Init1, 0>> /\ x1 = <<Init1, 1>> /\ x2 = <<Init1, 2>>
    OBVIOUS
  <2>2. x0 # x1 /\ x0 # x2 /\ x1 # x2
    BY <2>1
  <2>3. PICK S : S = {x0}
    OBVIOUS
  <2>4. IsFiniteSet(S) /\ Cardinality(S) = 1 /\ x1 \notin S
    BY <2>2, <2>3, FS_Singleton
  <2>5. PICK R : R = S \cup {x1}
    OBVIOUS
  <2>6. IsFiniteSet(R) /\ Cardinality(R) = 2 /\ x2 \notin R
    BY <2>2, <2>3, <2>4, <2>5, FS_AddElement
  <2>7. Cardinality(R \cup {x2}) = 3
    BY <2>6, FS_AddElement
  <2>8. Holders(1) = R \cup {x2}
    BY <1>11, <2>1, <2>3, <2>5
  <2> QED
    BY <2>7, <2>8
<1>13. \A f \in Files : f # 1 => Holders(f) = {}
  BY <1>9, FdsFinite DEF Holders
<1>14. CountInv
  <2>1. ftable[1].ref = 3
    BY <1>1, <1>6, <1>7
  <2>2. \A f \in Files : f # 1 => ftable[f].ref = 0
    BY <1>7 DEF Unused
  <2> QED
    BY <1>12, <1>13, <2>1, <2>2, FS_EmptySet DEF CountInv
<1> QED
  BY <1>10, <1>14

LEMMA InitIInv == ShellInit => IInv
<1> SUFFICES ASSUME ShellInit PROVE IInv
  OBVIOUS
<1>1. TypesInv /\ CountInv
  BY InitCounts
<1>2. \A f \in Files : ftable[f].type # "PIPE"
  <2>1. PICK g : g = [Unused EXCEPT !.ref = 3, !.type = "CONSOLE"]
    OBVIOUS
  <2>2. g.type = "CONSOLE" /\ Unused.type = "NONE"
    BY <2>1 DEF Unused
  <2>3. \A f \in Files : ftable[f] = IF f = 1 THEN g ELSE Unused
    BY <2>1 DEF ShellInit
  <2> QED
    BY <2>2, <2>3
<1>3. \A p \in Procs : closing[p] = NoEnd /\ call[p] = NoCall
  BY DEF ShellInit
<1>4. \A k \in Pipes, w \in BOOLEAN : End(k, w) # NoEnd
  BY FdsFinite DEF End, NoEnd
<1>5. EndsInv
  BY <1>2, <1>3, <1>4 DEF EndsInv, IsEnd
<1>6. \A k \in Pipes, w \in BOOLEAN : ~Somebodys(k, w)
  BY <1>2, <1>3, <1>4 DEF Somebodys, RefersTo, AboutToClose, End
<1>7. \A k \in Pipes : ~pipes[k].used /\ ~pipes[k].readopen /\ ~pipes[k].writeopen
  BY DEF ShellInit, Free
<1>8. PipesInv /\ CallsInv
  BY <1>3, <1>6, <1>7 DEF PipesInv, CallsInv
<1>9. \A p \in Procs : pc[p] \in Gone => Idle(p)
  BY <1>3 DEF ShellInit, Gone, Idle
<1>10. \A p \in Procs : Place(pc[p], cmd[p])
  BY DEF ShellInit, Place
<1>11. cmd \in [Procs -> Cmds] /\ pfd \in [Procs -> Fds \X Fds] /\ pc = [p \in Procs |-> pc[p]]
  BY FdsFinite DEF ShellInit, Cmds
<1> QED
  BY <1>1, <1>5, <1>8, <1>9, <1>10, <1>11 DEF IInv, FilesInv, ShellInv

LEMMA StepKeeps == ASSUME IInv, [Next]_svars PROVE IInv'
<1>1. ASSUME NEW p \in Procs, Step(p) PROVE IInv'
  BY <1>1, LineKeeps, CommandKeeps, ForksKeep, RunPipeKeeps, EndsKeep, WaitsKeep, ProgramKeeps,
     PipeStepKeeps, ConsoleStepKeeps, ExitKeeps DEF Step
<1>2. CASE InitStart
  <2>1. NoCmd \in Cmds /\ Init1 \in Procs
    BY ShellAssumption DEF Cmds
  <2>2. Place("getcmd", NoCmd) /\ Place("waiting", cmd[Init1])
    BY DEF Place
  <2> QED
    BY <1>2, <2>1, <2>2, ForkStep DEF InitStart, Gone
<1>3. CASE InitReap
  BY <1>3, InitReapKeeps
<1>4. CASE TypeKey \/ \E p \in Procs : KillOne(p)
  BY <1>4, OutsideKeeps
<1>5. CASE UNCHANGED svars
  BY <1>5, StutterKeeps
<1> QED
  BY <1>1, <1>2, <1>3, <1>4, <1>5 DEF Next

\* The inductive invariant of the files and the shell: a file's count is the number of
\* its descriptors, an end of a pipe is one file's or one closer's, and a slot that
\* freeproc has cleared, or exit is done with, holds nothing.
THEOREM Invariance == Spec => []IInv
<1>1. ShellInit => IInv
  BY InitIInv
<1>2. IInv /\ [Next]_svars => IInv'
  BY StepKeeps
<1> QED
  BY <1>1, <1>2, PTL DEF Spec

LEMMA IInvRefs == IInv => RefsExact
<1> SUFFICES ASSUME IInv PROVE RefsExact
  OBVIOUS
<1>1. \A k \in Pipes : /\ pipes[k].readopen <=> (RefersTo(k, FALSE) \/ AboutToClose(k, FALSE))
                       /\ pipes[k].writeopen <=> (RefersTo(k, TRUE) \/ AboutToClose(k, TRUE))
                       /\ pipes[k].used <=> (pipes[k].readopen \/ pipes[k].writeopen)
  BY DEF IInv, FilesInv, PipesInv, Somebodys
<1>2. ASSUME NEW p \in Procs, call[p] # NoCall
      PROVE  /\ pipes[call[p].pipe].used
             /\ IF call[p].op = "read" THEN pipes[call[p].pipe].readopen
                                       ELSE pipes[call[p].pipe].writeopen
  <2>1. PICK k : k = call[p].pipe
    OBVIOUS
  <2>2. k \in Pipes /\ call[p].op \in {"read", "write"}
    BY <1>2, <2>1 DEF IInv, FilesInv, TypesInv, CallShape
  <2>3. PICK d \in Fds : ofile[p][d] # NoFile /\ IsEnd(ofile[p][d], k, call[p].op = "write")
    BY <1>2, <2>1 DEF IInv, FilesInv, CallsInv
  <2>4. ofile[p][d] \in Files
    BY <2>3 DEF IInv, FilesInv, TypesInv
  <2>5. RefersTo(k, call[p].op = "write")
    BY <2>3, <2>4 DEF RefersTo, IsEnd
  <2>6. CASE call[p].op = "read"
    <3>1. RefersTo(k, FALSE)
      BY <2>3, <2>4, <2>6 DEF RefersTo, IsEnd
    <3> QED
      BY <1>1, <2>1, <2>2, <2>6, <3>1
  <2>7. CASE call[p].op = "write"
    <3>1. RefersTo(k, TRUE)
      BY <2>3, <2>4, <2>7 DEF RefersTo, IsEnd
    <3> QED
      BY <1>1, <2>1, <2>2, <2>7, <3>1
  <2> QED
    BY <2>2, <2>6, <2>7
<1> QED
  BY <1>1, <1>2 DEF RefsExact, IInv, FilesInv, CountInv

\* fork, dup, close, pipe and exit keep the counts behind a pipe exact, in every run of
\* the shell: a file is given up with its last descriptor and no earlier, an end of a
\* pipe is open as long as somebody has it, and a pipe's page is there for those in a
\* read or write of it.
THEOREM RefsStayExact == Spec => []RefsExact
<1>1. IInv => RefsExact
  BY IInvRefs
<1> QED
  BY <1>1, Invariance, PTL

-----------------------------------------------------------------------------
(* Positions in the console's ring *)

LEMMA Division == ASSUME NEW n \in Nat \ {0}, NEW a \in Nat
                  PROVE  \E q \in Nat, r \in 0..n-1 : a = n * q + r
<1>1. a % n \in 0..n-1 /\ a \div n \in Int
  OBVIOUS
<1>2. a = n * (a \div n) + (a % n)
  OBVIOUS
<1>3. a \div n \in Nat
  BY <1>1, <1>2
<1> QED
  BY <1>1, <1>2, <1>3

LEMMA Remainder == ASSUME NEW n \in Nat \ {0}, NEW k \in Nat, NEW r \in 0..n-1
                   PROVE  (n * k + r) % n = r
  OBVIOUS

LEMMA RemainderPlus == ASSUME NEW n \in Nat \ {0}, NEW a \in Nat, NEW k \in Nat
                       PROVE  (a + n * k) % n = a % n
<1>1. PICK q \in Nat, r \in 0..n-1 : a = n * q + r
  BY Division
<1>2. n * (q + k) = n * q + n * k /\ n * q \in Nat /\ n * k \in Nat
  OBVIOUS
<1>3. a + n * k = n * (q + k) + r /\ q + k \in Nat
  BY <1>1, <1>2
<1> QED
  BY <1>1, <1>3, Remainder

\* Numbers less than n apart have different remainders.
LEMMA RemaindersApart == ASSUME NEW n \in Nat \ {0}, NEW a \in Nat, NEW d \in 1..n-1
                         PROVE  (a + d) % n # a % n
<1>1. PICK q \in Nat, r \in 0..n-1 : a = n * q + r
  BY Division
<1>2. a % n = r
  BY <1>1, Remainder
<1>3. CASE r + d < n
  <2>1. (n * q + (r + d)) % n = r + d
    BY <1>3, Remainder
  <2>2. a + d = n * q + (r + d)
    BY <1>1
  <2> QED
    BY <1>2, <2>1, <2>2
<1>4. CASE r + d >= n
  <2> r + d - n \in 0..n-1 /\ q + 1 \in Nat
    BY <1>4
  <2>1. (n * (q + 1) + (r + d - n)) % n = r + d - n
    BY Remainder
  <2>2. n * (q + 1) = n * q + n /\ n * q \in Nat
    OBVIOUS
  <2>3. a + d = n * (q + 1) + (r + d - n)
    BY <1>1, <2>2
  <2> QED
    BY <1>2, <2>1, <2>3
<1> QED
  BY <1>3, <1>4

Indices == 0..CMOD-1

LEMMA RingSizes == /\ INPUT_BUF \in Nat \ {0} /\ CMOD \in Nat \ {0} /\ CMOD > INPUT_BUF
                   /\ \E k \in Nat : CMOD = INPUT_BUF * k
<1>1. /\ INPUT_BUF \in Nat \ {0} /\ CMOD \in Nat \ {0} /\ CMOD > INPUT_BUF
      /\ CMOD % INPUT_BUF = 0
  BY ConsoleAssumption
<1>2. PICK k \in Nat, r \in 0..INPUT_BUF-1 : CMOD = INPUT_BUF * k + r
  BY <1>1, Division
<1>3. r = 0
  BY <1>1, <1>2, Remainder
<1> QED
  BY <1>1, <1>2, <1>3

\* An index and the distance between two, without the remainders
LEMMA Wrapped == ASSUME NEW x \in 0..2*CMOD-1
                 PROVE  x % CMOD = IF x < CMOD THEN x ELSE x - CMOD
<1>1. CMOD \in Nat \ {0}
  BY RingSizes
<1>2. CASE x < CMOD
  BY <1>1, <1>2
<1>3. CASE x >= CMOD
  <2>1. (CMOD * 1 + (x - CMOD)) % CMOD = x - CMOD
    BY <1>1, <1>3, Remainder
  <2>2. CMOD * 1 + (x - CMOD) = x
    BY <1>1
  <2> QED
    BY <1>3, <1>1, <2>1, <2>2
<1> QED
  BY <1>1, <1>2, <1>3

LEMMA MinusIs == ASSUME NEW a \in Indices, NEW b \in Indices
                 PROVE  /\ Minus(a, b) \in Indices
                        /\ Minus(a, b) = IF a >= b THEN a - b ELSE a + CMOD - b
<1>1. a + CMOD - b \in 0..2*CMOD-1 /\ CMOD \in Nat
  BY RingSizes DEF Indices
<1>2. PICK x \in 0..2*CMOD-1 : x = a + CMOD - b
  BY <1>1
<1>3. Minus(a, b) = IF x < CMOD THEN x ELSE x - CMOD
  BY <1>2, Wrapped DEF Minus
<1> QED
  BY <1>1, <1>2, <1>3 DEF Indices

LEMMA Advanced == ASSUME NEW a \in Indices, NEW k \in 0..CMOD
                  PROVE  /\ (a + k) % CMOD \in Indices
                         /\ (a + k) % CMOD = IF a + k < CMOD THEN a + k ELSE a + k - CMOD
<1>1. a + k \in 0..2*CMOD-1 /\ CMOD \in Nat
  BY RingSizes DEF Indices
<1> QED
  BY <1>1, Wrapped DEF Indices

\* The slot of an index does not change when the index wraps.
LEMMA SlotOfWrapped == ASSUME NEW x \in 0..2*CMOD-1, NEW y \in Nat
                       PROVE  ((x % CMOD) + y) % INPUT_BUF = (x + y) % INPUT_BUF
<1>1. PICK k \in Nat : CMOD = INPUT_BUF * k
  BY RingSizes
<1>2. CASE x < CMOD
  BY <1>2, Wrapped
<1>3. CASE x >= CMOD
  <2>1. x - CMOD + y \in Nat /\ CMOD \in Nat
    BY <1>3, RingSizes
  <2>2. (x - CMOD + y + INPUT_BUF * k) % INPUT_BUF = (x - CMOD + y) % INPUT_BUF
    BY <2>1, RingSizes, RemainderPlus
  <2>3. x - CMOD + y + INPUT_BUF * k = x + y
    BY <1>1, <2>1
  <2>4. x % CMOD = x - CMOD
    BY <1>3, <2>1, Wrapped
  <2> QED
    BY <2>2, <2>3, <2>4
<1> QED
  BY <1>2, <1>3, RingSizes

LEMMA SlotsApart == ASSUME NEW a \in Nat, NEW i \in 0..INPUT_BUF-1, NEW j \in 0..INPUT_BUF-1, i # j
                    PROVE  (a + i) % INPUT_BUF # (a + j) % INPUT_BUF
<1>1. ASSUME NEW k \in 0..INPUT_BUF-1, NEW l \in 0..INPUT_BUF-1, k < l
      PROVE  (a + k) % INPUT_BUF # (a + l) % INPUT_BUF
  <2>1. l - k \in 1..INPUT_BUF-1 /\ a + k \in Nat
    BY <1>1, RingSizes
  <2>2. (a + k + (l - k)) % INPUT_BUF # (a + k) % INPUT_BUF
    BY <2>1, RingSizes, RemaindersApart
  <2>3. a + k + (l - k) = a + l
    BY RingSizes
  <2> QED
    BY <2>2, <2>3
<1>2. CASE i < j
  BY <1>1, <1>2
<1>3. CASE j < i
  BY <1>1, <1>3
<1> QED
  BY <1>2, <1>3, RingSizes

-----------------------------------------------------------------------------
(* What is in the ring *)

\* The jth of the characters from index a on, and n of them
Cell(f, a, j) == f[(a + j - 1) % INPUT_BUF]
Run(f, a, n) == [j \in 1..n |-> Cell(f, a, j)]
Rings == [0..INPUT_BUF-1 -> Chars]

LEMMA RunIs == ASSUME NEW f \in Rings, NEW a \in Nat, NEW n \in Nat
               PROVE  /\ Run(f, a, n) \in Seq(Chars) /\ Len(Run(f, a, n)) = n
                      /\ \A j \in 1..n : Run(f, a, n)[j] = Cell(f, a, j)
<1>1. \A j \in 1..n : (a + j - 1) % INPUT_BUF \in 0..INPUT_BUF-1
  BY RingSizes
<1>2. Run(f, a, n) \in [1..n -> Chars]
  BY <1>1 DEF Run, Rings, Cell
<1>3. Run(f, a, n) \in Seq(Chars)
  BY <1>2, SeqDef
<1>4. Len(Run(f, a, n)) = n
  BY <1>2, <1>3, LenProperties
<1> QED
  BY <1>3, <1>4 DEF Run

LEMMA RunShorter == ASSUME NEW f \in Rings, NEW a \in Nat, NEW n \in Nat, NEW m \in 0..n
                    PROVE  SubSeq(Run(f, a, n), 1, m) = Run(f, a, m)
<1> DEFINE s == Run(f, a, n)
           t == Run(f, a, m)
<1>0. m \in Nat /\ \A i \in 1..m : i \in 1..n
  OBVIOUS
<1>1. s \in Seq(Chars) /\ Len(s) = n /\ t \in Seq(Chars) /\ Len(t) = m
  BY <1>0, RunIs
<1>2. \A i \in 1..m : s[i] \in Chars /\ s[i] = t[i]
  <2>1. \A i \in 1..m : s[i] = t[i]
    BY <1>0, RunIs
  <2> QED
    BY <1>0, <1>1, <2>1, ElementOfSeq
<1> HIDE DEF s, t
<1>3. SubSeq(s, 1, m) \in Seq(Chars) /\ Len(SubSeq(s, 1, m)) = m
      /\ \A i \in 1..m : SubSeq(s, 1, m)[i] = s[i]
  BY <1>2, SubSeqProperties
<1>4. SubSeq(s, 1, m) = t
  BY <1>1, <1>2, <1>3, SeqEqual
<1> QED
  BY <1>4 DEF s, t

LEMMA RunDropped == ASSUME NEW f \in Rings, NEW a \in Indices, NEW n \in Indices, NEW k \in 0..n
                    PROVE  SubSeq(Run(f, a, n), k + 1, n) = Run(f, (a + k) % CMOD, n - k)
<1> DEFINE b == (a + k) % CMOD
           s == Run(f, a, n)
           t == Run(f, b, n - k)
<1>1. b \in Nat /\ a \in Nat /\ n \in Nat /\ k \in Nat /\ n - k \in Nat /\ a + k \in 0..2*CMOD-1
  BY Advanced, RingSizes DEF Indices
<1>2. s \in Seq(Chars) /\ Len(s) = n /\ t \in Seq(Chars) /\ Len(t) = n - k
  BY <1>1, RunIs
<1>3. \A i \in k + 1..n : s[i] \in Chars
  BY <1>1, <1>2, ElementOfSeq
<1>4. \A i \in 1..n - k : t[i] = s[k + i]
  <2> SUFFICES ASSUME NEW i \in 1..n - k PROVE t[i] = s[k + i]
    OBVIOUS
  <2> i \in Nat /\ k + i \in 1..n
    BY <1>1
  <2>1. t[i] = Cell(f, b, i) /\ s[k + i] = Cell(f, a, k + i)
    BY <1>1, RunIs
  <2>2. (b + (i - 1)) % INPUT_BUF = (a + k + (i - 1)) % INPUT_BUF
    BY <1>1, SlotOfWrapped
  <2>3. b + (i - 1) = b + i - 1 /\ a + k + (i - 1) = a + (k + i) - 1
    BY <1>1
  <2> QED
    BY <2>1, <2>2, <2>3 DEF Cell
<1> HIDE DEF s, t, b
<1>5. SubSeq(s, k + 1, n) \in Seq(Chars) /\ Len(SubSeq(s, k + 1, n)) = n - k
      /\ \A i \in 1..n - k : SubSeq(s, k + 1, n)[i] = s[k + i]
  <2>1. SubSeq(s, k + 1, n) \in Seq(Chars)
        /\ Len(SubSeq(s, k + 1, n)) = (IF k + 1 <= n THEN n - (k + 1) + 1 ELSE 0)
        /\ \A i \in 1..n - (k + 1) + 1 : SubSeq(s, k + 1, n)[i] = s[k + 1 + i - 1]
    BY <1>1, <1>3, SubSeqProperties
  <2> QED
    BY <1>1, <2>1
<1>6. SubSeq(s, k + 1, n) = t
  BY <1>2, <1>4, <1>5, SeqEqual
<1> QED
  BY <1>6 DEF s, t, b

LEMMA RunJoined == ASSUME NEW f \in Rings, NEW a \in Indices, NEW n \in Indices, NEW m \in Nat
                   PROVE  Run(f, a, n) \o Run(f, (a + n) % CMOD, m) = Run(f, a, n + m)
<1> DEFINE b == (a + n) % CMOD
           s == Run(f, a, n)
           t == Run(f, b, m)
           u == Run(f, a, n + m)
<1>1. b \in Nat /\ a \in Nat /\ n \in Nat /\ m \in Nat /\ n + m \in Nat /\ a + n \in 0..2*CMOD-1
  BY Advanced, RingSizes DEF Indices
<1>2. s \in Seq(Chars) /\ Len(s) = n /\ t \in Seq(Chars) /\ Len(t) = m /\ u \in Seq(Chars) /\ Len(u) = n + m
  BY <1>1, RunIs
<1>3. \A i \in 1..n + m : u[i] = IF i <= n THEN s[i] ELSE t[i - n]
  <2> SUFFICES ASSUME NEW i \in 1..n + m PROVE u[i] = IF i <= n THEN s[i] ELSE t[i - n]
    OBVIOUS
  <2>1. u[i] = Cell(f, a, i)
    BY <1>1, RunIs
  <2>2. CASE i <= n
    <3>1. i \in 1..n
      BY <2>2
    <3>2. s[i] = Cell(f, a, i)
      BY <1>1, <3>1, RunIs
    <3> QED
      BY <2>1, <2>2, <3>2
  <2>3. CASE i > n
    <3>0. i - n \in 1..m /\ i - n - 1 \in Nat
      BY <1>1, <2>3
    <3>1. t[i - n] = Cell(f, b, i - n)
      BY <1>1, <3>0, RunIs
    <3>2. (b + (i - n - 1)) % INPUT_BUF = (a + n + (i - n - 1)) % INPUT_BUF
      BY <1>1, <3>0, SlotOfWrapped
    <3>3. b + (i - n - 1) = b + (i - n) - 1 /\ a + n + (i - n - 1) = a + i - 1
      BY <1>1
    <3> QED
      BY <1>1, <2>1, <2>3, <3>1, <3>2, <3>3 DEF Cell
  <2> QED
    BY <1>1, <2>2, <2>3
<1> HIDE DEF s, t, u, b
<1>4. s \o t \in Seq(Chars) /\ Len(s \o t) = n + m
      /\ \A i \in 1..n + m : (s \o t)[i] = IF i <= n THEN s[i] ELSE t[i - n]
  BY <1>2, ConcatProperties
<1>5. s \o t = u
  BY <1>2, <1>3, <1>4, SeqEqual
<1> QED
  BY <1>5 DEF s, t, u, b

\* A character stored behind them
Stored(f, a, n, c) == [f EXCEPT ![((a + n) % CMOD) % INPUT_BUF] = c]

LEMMA RunStored ==
    ASSUME NEW f \in Rings, NEW a \in Indices, NEW n \in 0..INPUT_BUF-1, NEW c \in Chars
    PROVE  /\ Stored(f, a, n, c) \in Rings
           /\ \A m \in 0..n : Run(Stored(f, a, n, c), a, m) = Run(f, a, m)
           /\ Run(Stored(f, a, n, c), a, n + 1) = Append(Run(f, a, n), c)
<1> PICK g : g = Stored(f, a, n, c)
  OBVIOUS
<1> DEFINE e == (a + n) % INPUT_BUF
<1>1. /\ INPUT_BUF \in Nat \ {0} /\ CMOD \in Nat /\ CMOD > INPUT_BUF
      /\ a \in Nat /\ n \in Nat /\ a + n \in 0..2*CMOD-1
  BY RingSizes DEF Indices
<1>2. ((a + n) % CMOD) % INPUT_BUF = e
  <2>1. (((a + n) % CMOD) + 0) % INPUT_BUF = (a + n + 0) % INPUT_BUF
    BY <1>1, SlotOfWrapped
  <2>2. (a + n) % CMOD \in Nat
    BY <1>1
  <2> QED
    BY <1>1, <2>1, <2>2
<1>3. e \in 0..INPUT_BUF-1
  BY <1>1
<1>4. g = [f EXCEPT ![e] = c]
  BY <1>2 DEF Stored
<1>5. \A j \in 1..n : (a + j - 1) % INPUT_BUF # e
  <2> SUFFICES ASSUME NEW j \in 1..n PROVE (a + j - 1) % INPUT_BUF # e
    OBVIOUS
  <2>0. j - 1 \in 0..INPUT_BUF-1 /\ j - 1 # n
    BY <1>1
  <2>1. (a + (j - 1)) % INPUT_BUF # (a + n) % INPUT_BUF
    BY <1>1, <2>0, SlotsApart
  <2>2. a + (j - 1) = a + j - 1
    BY <1>1
  <2> QED
    BY <2>1, <2>2
<1> HIDE DEF e
<1>6. g \in Rings /\ g[e] = c /\ \A i \in 0..INPUT_BUF-1 : i # e => g[i] = f[i]
  BY <1>3, <1>4 DEF Rings
<1>7. \A j \in 1..n : Cell(g, a, j) = Cell(f, a, j)
  <2> SUFFICES ASSUME NEW j \in 1..n PROVE Cell(g, a, j) = Cell(f, a, j)
    OBVIOUS
  <2>1. a + j - 1 \in Nat
    BY <1>1
  <2>2. (a + j - 1) % INPUT_BUF \in 0..INPUT_BUF-1
    BY <1>1, <2>1
  <2> QED
    BY <1>5, <1>6, <2>2 DEF Cell
<1>8. \A m \in 0..n : Run(g, a, m) = Run(f, a, m)
  <2> SUFFICES ASSUME NEW m \in 0..n PROVE Run(g, a, m) = Run(f, a, m)
    OBVIOUS
  <2>1. \A j \in 1..m : j \in 1..n
    OBVIOUS
  <2> QED
    BY <1>7, <2>1 DEF Run
<1>9. Run(g, a, n + 1) = Append(Run(f, a, n), c)
  <2> DEFINE s == Run(f, a, n)
             u == Run(g, a, n + 1)
  <2>0. n + 1 \in Nat /\ \A j \in 1..n : j \in 1..n + 1
    BY <1>1
  <2>1. s \in Seq(Chars) /\ Len(s) = n /\ u \in Seq(Chars) /\ Len(u) = n + 1
    BY <1>1, <1>6, <2>0, RunIs
  <2>2. \A j \in 1..n : u[j] = s[j]
    <3>1. \A j \in 1..n : s[j] = Cell(f, a, j)
      BY <1>1, RunIs
    <3>2. \A j \in 1..n + 1 : u[j] = Cell(g, a, j)
      BY <1>1, <1>6, <2>0, RunIs
    <3> QED
      BY <1>7, <2>0, <3>1, <3>2
  <2>3. u[n + 1] = c
    <3>1. u[n + 1] = Cell(g, a, n + 1)
      BY <1>1, <1>6, <2>0, RunIs
    <3>2. a + (n + 1) - 1 = a + n
      BY <1>1
    <3> QED
      BY <3>1, <3>2, <1>6 DEF e, Cell
  <2> HIDE DEF s, u
  <2>4. Append(s, c) \in Seq(Chars) /\ Len(Append(s, c)) = n + 1
        /\ Append(s, c)[n + 1] = c /\ \A j \in 1..n : Append(s, c)[j] = s[j]
    BY <2>1
  <2>5. u = Append(s, c)
    <3>1. \A j \in 1..n + 1 : u[j] = Append(s, c)[j]
      BY <1>1, <2>2, <2>3, <2>4
    <3> QED
      BY <2>1, <2>4, <3>1, SeqEqual
  <2> QED
    BY <2>5 DEF s, u
<1> QED
  BY <1>6, <1>8, <1>9

-----------------------------------------------------------------------------
(* The console's input *)

Line == Between(iw, ie)
Handed == Between(ir, iw)
LineEnds == {"NL", "EOF"}

\* The ring holds no more than its size: what has been handed over, then the line, in
\* which nothing ends it.
RingInv == /\ ibuf \in Rings
           /\ ir \in Indices /\ iw \in Indices /\ ie \in Indices
           /\ Minus(iw, ir) + Minus(ie, iw) <= INPUT_BUF
           /\ \A j \in DOMAIN Line : Line[j] \notin LineEnds

ReadingInv == reading \in [Readers -> [n : Nat, got : Seq(Chars)]]
KeysInv == script \in Seq(Chars \cup {"BS", "KILL"})

ConsoleInv == RingInv /\ ReadingInv /\ KeysInv

LEMMA Distance == ASSUME NEW a \in Indices, NEW k \in Indices
                  PROVE  Minus((a + k) % CMOD, a) = k /\ Minus(a, a) = 0
<1>1. (a + k) % CMOD \in Indices
      /\ (a + k) % CMOD = IF a + k < CMOD THEN a + k ELSE a + k - CMOD
  BY Advanced, RingSizes DEF Indices
<1>2. PICK b \in Indices : b = (a + k) % CMOD
  BY <1>1
<1>3. Minus(b, a) = IF b >= a THEN b - a ELSE b + CMOD - a
  BY <1>2, MinusIs
<1>4. CMOD \in Nat /\ a \in Nat /\ k \in Nat /\ b \in Nat /\ a < CMOD /\ k < CMOD /\ b < CMOD
  BY RingSizes DEF Indices
<1>5. Minus(a, a) = 0
  <2>1. Minus(a, a) = IF a >= a THEN a - a ELSE a + CMOD - a
    BY MinusIs
  <2> QED
    BY <1>4, <2>1
<1>6. Minus(b, a) = k
  BY <1>1, <1>2, <1>3, <1>4
<1> QED
  BY <1>2, <1>5, <1>6

LEMMA Reached == ASSUME NEW a \in Indices, NEW b \in Indices
                 PROVE  (a + Minus(b, a)) % CMOD = b
<1>1. Minus(b, a) \in Indices /\ Minus(b, a) = IF b >= a THEN b - a ELSE b + CMOD - a
  BY MinusIs
<1>2. PICK k \in Indices : k = Minus(b, a)
  BY <1>1
<1>3. (a + k) % CMOD = IF a + k < CMOD THEN a + k ELSE a + k - CMOD
  BY Advanced, RingSizes DEF Indices
<1> QED
  BY <1>1, <1>2, <1>3, RingSizes DEF Indices

LEMMA Farther == ASSUME NEW a \in Indices, NEW k \in Nat, NEW l \in Nat, k + l <= CMOD
                 PROVE  (((a + k) % CMOD) + l) % CMOD = (a + (k + l)) % CMOD
<1>1. k \in 0..CMOD /\ k + l \in 0..CMOD /\ l \in 0..CMOD
  BY RingSizes
<1>2. PICK b \in Indices : b = (a + k) % CMOD
  BY <1>1, Advanced
<1>3. b = IF a + k < CMOD THEN a + k ELSE a + k - CMOD
  BY <1>1, <1>2, Advanced
<1>4. (b + l) % CMOD = IF b + l < CMOD THEN b + l ELSE b + l - CMOD
  BY <1>1, Advanced
<1>5. (a + (k + l)) % CMOD = IF a + (k + l) < CMOD THEN a + (k + l) ELSE a + (k + l) - CMOD
  BY <1>1, Advanced
<1> QED
  BY <1>2, <1>3, <1>4, <1>5, RingSizes DEF Indices

\* Where the indices are, by the lengths of the two parts
LEMMA RingIs ==
    ASSUME RingInv
    PROVE  LET R == Minus(iw, ir)
               L == Minus(ie, iw)
           IN  /\ R \in Nat /\ L \in Nat /\ R + L <= INPUT_BUF /\ R \in Indices /\ L \in Indices
               /\ iw = (ir + R) % CMOD /\ ie = (iw + L) % CMOD /\ ie = (ir + (R + L)) % CMOD
               /\ Minus(ie, ir) = R + L
               /\ Handed = Run(ibuf, ir, R) /\ Line = Run(ibuf, iw, L)
               /\ Handed \in Seq(Chars) /\ Len(Handed) = R
               /\ Line \in Seq(Chars) /\ Len(Line) = L
<1> DEFINE R == Minus(iw, ir)
           L == Minus(ie, iw)
<1>1. /\ R \in Indices /\ L \in Indices /\ R + L <= INPUT_BUF
      /\ ir \in Indices /\ iw \in Indices /\ ie \in Indices /\ ibuf \in Rings
  BY MinusIs DEF RingInv
<1>2. /\ R \in Nat /\ L \in Nat /\ R + L \in Indices /\ R + L <= CMOD
      /\ ir \in Nat /\ iw \in Nat /\ ie \in Nat
  BY <1>1, RingSizes DEF Indices
<1>3. iw = (ir + R) % CMOD /\ ie = (iw + L) % CMOD
  BY <1>1, Reached
<1>4. ie = (ir + (R + L)) % CMOD
  <2>1. (((ir + R) % CMOD) + L) % CMOD = (ir + (R + L)) % CMOD
    BY <1>1, <1>2, Farther
  <2> QED
    BY <1>3, <2>1
<1>5. Minus(ie, ir) = R + L
  BY <1>1, <1>2, <1>4, Distance
<1>6. Handed = Run(ibuf, ir, R) /\ Line = Run(ibuf, iw, L)
  BY DEF Handed, Line, Between, Run, Cell
<1>7. /\ Handed \in Seq(Chars) /\ Len(Handed) = R
      /\ Line \in Seq(Chars) /\ Len(Line) = L
  BY <1>1, <1>2, <1>6, RunIs
<1> QED
  BY <1>1, <1>2, <1>3, <1>4, <1>5, <1>6, <1>7

\* The same of what the ring is after a step
LEMMA NextParts == /\ Handed' = Run(ibuf', ir', Minus(iw', ir'))
                   /\ Line' = Run(ibuf', iw', Minus(ie', iw'))
  BY DEF Handed, Line, Between, Run, Cell, Minus

LEMMA EmptyRun == ASSUME NEW f, NEW a PROVE Run(f, a, 0) = <<>>
  BY DEF Run

LEMMA AppendJoined == ASSUME NEW s \in Seq(Chars), NEW t \in Seq(Chars), NEW c \in Chars
                      PROVE  Append(s \o t, c) = s \o Append(t, c)
<1>1. s \o t \in Seq(Chars) /\ <<c>> \in Seq(Chars)
  BY ConcatProperties
<1>2. Append(s \o t, c) = (s \o t) \o <<c>> /\ Append(t, c) = t \o <<c>>
  BY <1>1, AppendIsConcat
<1>3. (s \o t) \o <<c>> = s \o (t \o <<c>>)
  BY <1>1, ConcatAssociative
<1> QED
  BY <1>2, <1>3

\* consoleintr stores a character: it is typed, or handed over with its line.
LEMMA PutTypes == ASSUME RingInv, NEW c \in Chars, Put(c)
                  PROVE  RingInv' /\ [Lines!Next]_<<Line, Handed>>
<1> DEFINE R == Minus(iw, ir)
           L == Minus(ie, iw)
<1>1. /\ R \in Nat /\ L \in Nat /\ R + L <= INPUT_BUF /\ R \in Indices /\ L \in Indices
      /\ iw = (ir + R) % CMOD /\ ie = (iw + L) % CMOD /\ ie = (ir + (R + L)) % CMOD
      /\ Minus(ie, ir) = R + L
      /\ Handed = Run(ibuf, ir, R) /\ Line = Run(ibuf, iw, L)
      /\ Handed \in Seq(Chars) /\ Len(Handed) = R /\ Line \in Seq(Chars) /\ Len(Line) = L
  BY RingIs
<1>2. /\ ibuf \in Rings /\ ir \in Indices /\ iw \in Indices /\ ie \in Indices
      /\ \A j \in DOMAIN Line : Line[j] \notin LineEnds
  BY DEF RingInv
<1>3. CASE ~HasRoom
  <2>1. UNCHANGED ring
    BY <1>3 DEF Put, ring
  <2>2. UNCHANGED <<Line, Handed>>
    BY <2>1 DEF ring, Line, Handed, Between, Minus
  <2> QED
    BY <2>1, <2>2 DEF ring, RingInv, Minus
<1>4. CASE HasRoom
  <2> HIDE DEF R, L
  <2>1. /\ ibuf' = [ibuf EXCEPT ![ie % INPUT_BUF] = c] /\ ie' = (ie + 1) % CMOD /\ ir' = ir
        /\ IF c \in LineEnds \/ Minus(ie', ir) = INPUT_BUF THEN iw' = ie' ELSE iw' = iw
    BY <1>4 DEF Put, LineEnds
  <2>2. R + L < INPUT_BUF /\ INPUT_BUF < CMOD /\ R + L + 1 <= CMOD /\ L + 1 <= CMOD
        /\ R + L + 1 \in Indices /\ L + 1 \in Indices
        /\ R + L \in 0..INPUT_BUF-1 /\ L \in 0..INPUT_BUF-1 /\ R \in 0..R + L
        /\ R + L \in Nat /\ R + L \in Indices
    <3>1. Minus(ie, ir) < INPUT_BUF
      BY <1>4 DEF HasRoom
    <3>2. INPUT_BUF \in Nat /\ CMOD \in Nat /\ INPUT_BUF < CMOD /\ R + L < INPUT_BUF
      BY <1>1, <3>1, RingSizes
    <3>3. R \in Nat /\ L \in Nat
      BY <1>1
    <3> QED
      BY <3>2, <3>3 DEF Indices
  <2>3. ie' = (ir + (R + L + 1)) % CMOD /\ ie' = (iw + (L + 1)) % CMOD
    <3>1. (((ir + (R + L)) % CMOD) + 1) % CMOD = (ir + (R + L + 1)) % CMOD
      BY <1>2, <2>2, Farther
    <3>2. (((iw + L) % CMOD) + 1) % CMOD = (iw + (L + 1)) % CMOD
      BY <1>1, <1>2, <2>2, Farther
    <3> QED
      BY <1>1, <2>1, <3>1, <3>2
  <2>4. ie' \in Indices /\ Minus(ie', ir) = R + L + 1 /\ Minus(ie', iw) = L + 1 /\ Minus(ie', ie') = 0
    <3>1. ie' \in Indices
      BY <1>2, <2>1, Advanced, RingSizes
    <3> QED
      BY <1>2, <2>2, <2>3, <3>1, Distance
  <2>5. /\ ibuf' \in Rings
        /\ Run(ibuf', ir, R) = Handed
        /\ Run(ibuf', ir, R + L + 1) = Append(Run(ibuf, ir, R + L), c)
    <3>1. ibuf' = Stored(ibuf, ir, R + L, c)
      BY <1>1, <2>1 DEF Stored
    <3>2. /\ Stored(ibuf, ir, R + L, c) \in Rings
          /\ \A m \in 0..R + L : Run(Stored(ibuf, ir, R + L, c), ir, m) = Run(ibuf, ir, m)
          /\ Run(Stored(ibuf, ir, R + L, c), ir, (R + L) + 1) = Append(Run(ibuf, ir, R + L), c)
      BY <1>2, <2>2, RunStored
    <3> QED
      BY <1>1, <2>2, <3>1, <3>2
  <2>6. Run(ibuf', iw, L + 1) = Append(Line, c)
    <3>1. ibuf' = Stored(ibuf, iw, L, c)
      BY <1>1, <2>1 DEF Stored
    <3>2. Run(Stored(ibuf, iw, L, c), iw, L + 1) = Append(Run(ibuf, iw, L), c)
      BY <1>2, <2>2, RunStored
    <3> QED
      BY <1>1, <3>1, <3>2
  <2>7. Run(ibuf, ir, R + L) = Handed \o Line
    <3>1. Run(ibuf, ir, R) \o Run(ibuf, (ir + R) % CMOD, L) = Run(ibuf, ir, R + L)
      BY <1>1, <1>2, RunJoined
    <3> QED
      BY <1>1, <3>1
  <2>8. Len(Handed) + Len(Line) < INPUT_BUF
    BY <1>1, <2>2
  <2>9. CASE c \in LineEnds \/ Minus(ie', ir) = INPUT_BUF
    <3>1. iw' = ie'
      BY <2>1, <2>9
    <3>2. Line' = <<>> /\ DOMAIN Line' = {}
      BY <2>4, <3>1, NextParts, EmptyRun
    <3>3. Handed' = Handed \o Append(Line, c)
      <4>1. Handed' = Run(ibuf', ir', Minus(iw', ir'))
        BY NextParts
      <4>2. Handed' = Run(ibuf', ir, R + L + 1)
        BY <2>1, <2>4, <3>1, <4>1
      <4>3. Append(Handed \o Line, c) = Handed \o Append(Line, c)
        BY <1>1, AppendJoined
      <4> QED
        BY <2>5, <2>7, <4>2, <4>3
    <3>4. c \in LineEnds \/ Len(Handed) + Len(Line) + 1 = INPUT_BUF
      BY <1>1, <2>4, <2>9
    <3>5. Lines!Type(c)
      BY <2>8, <3>2, <3>3, <3>4 DEF Lines!Type, Line, Handed, LineEnds
    <3>6. Minus(iw', ir') + Minus(ie', iw') <= INPUT_BUF
      <4>1. Minus(iw', ir') = R + L + 1 /\ Minus(ie', iw') = 0
        BY <2>1, <2>4, <3>1
      <4> QED
        BY <2>2, <4>1, RingSizes
    <3>7. RingInv'
      BY <1>2, <2>1, <2>4, <2>5, <3>1, <3>2, <3>6 DEF RingInv
    <3> QED
      BY <3>5, <3>7 DEF Lines!Next
  <2>10. CASE c \notin LineEnds /\ Minus(ie', ir) # INPUT_BUF
    <3>1. iw' = iw
      BY <2>1, <2>10
    <3>2. Line' = Append(Line, c)
      BY <2>4, <2>6, <3>1, NextParts
    <3>3. Handed' = Handed
      <4>1. Minus(iw', ir') = R
        BY <2>1, <3>1 DEF R
      <4> QED
        BY <2>1, <2>5, <4>1, NextParts
    <3>4. ~(c \in LineEnds \/ Len(Handed) + Len(Line) + 1 = INPUT_BUF)
      BY <1>1, <2>4, <2>10
    <3>5. Lines!Type(c)
      BY <2>8, <3>2, <3>3, <3>4 DEF Lines!Type, Line, Handed, LineEnds
    <3>6. \A j \in DOMAIN Line' : Line'[j] \notin LineEnds
      BY <1>1, <1>2, <2>10, <3>2
    <3>7. Minus(iw', ir') + Minus(ie', iw') <= INPUT_BUF
      <4>1. Minus(iw', ir') = R /\ Minus(ie', iw') = L + 1
        BY <2>1, <2>4, <3>1 DEF R
      <4> QED
        BY <2>2, <4>1, RingSizes
    <3>8. RingInv'
      BY <1>2, <2>1, <2>4, <2>5, <3>1, <3>6, <3>7 DEF RingInv
    <3> QED
      BY <3>5, <3>8 DEF Lines!Next
  <2> QED
    BY <2>9, <2>10
<1> QED
  BY <1>3, <1>4

\* ^H takes the last character of the line, ^U all of them: there is no newline in it.
LEMMA BackspaceErases == ASSUME RingInv, Backspace PROVE RingInv' /\ [Lines!Next]_<<Line, Handed>>
<1> DEFINE R == Minus(iw, ir)
           L == Minus(ie, iw)
<1>1. /\ R \in Nat /\ L \in Nat /\ R + L <= INPUT_BUF /\ L \in Indices
      /\ ie = (iw + L) % CMOD
      /\ Handed = Run(ibuf, ir, R) /\ Line = Run(ibuf, iw, L)
      /\ Line \in Seq(Chars) /\ Len(Line) = L
  BY RingIs
<1>2. /\ ibuf \in Rings /\ ir \in Indices /\ iw \in Indices /\ ie \in Indices
      /\ \A j \in DOMAIN Line : Line[j] \notin LineEnds
  BY DEF RingInv
<1>3. ibuf' = ibuf /\ ir' = ir /\ iw' = iw /\ ie' = IF ie = iw THEN ie ELSE Minus(ie, 1)
  BY DEF Backspace
<1>4. Handed' = Handed
  BY <1>3 DEF Handed, Between, Minus
<1>5. CASE ie = iw
  <2>1. Line' = Line
    BY <1>3, <1>5 DEF Line, Between, Minus
  <2>2. UNCHANGED <<ibuf, ir, iw, ie>>
    BY <1>3, <1>5
  <2> QED
    BY <1>4, <2>1, <2>2 DEF RingInv, Minus
<1>6. CASE ie # iw
  <2> HIDE DEF R, L
  <2>1. L > 0
    <3>1. L = IF ie >= iw THEN ie - iw ELSE ie + CMOD - iw
      BY <1>2, MinusIs DEF L
    <3> QED
      BY <1>1, <1>2, <1>6, <3>1, RingSizes DEF Indices
  <2>2. L - 1 \in Indices /\ L - 1 \in Nat /\ L - 1 \in 0..L /\ 1 \in Indices
    BY <1>1, <2>1, RingSizes DEF Indices
  <2>3. ie' = (iw + (L - 1)) % CMOD /\ ie' \in Indices
    <3>1. /\ Minus(ie, 1) \in Indices
          /\ Minus(ie, 1) = IF ie >= 1 THEN ie - 1 ELSE ie + CMOD - 1
      BY <1>2, <2>2, MinusIs
    <3>2. ie = IF iw + L < CMOD THEN iw + L ELSE iw + L - CMOD
      BY <1>1, <1>2, Advanced, RingSizes DEF Indices
    <3>3. (iw + (L - 1)) % CMOD = IF iw + (L - 1) < CMOD THEN iw + (L - 1) ELSE iw + (L - 1) - CMOD
      <4>1. L - 1 \in 0..CMOD
        BY <2>2, RingSizes DEF Indices
      <4> QED
        BY <1>2, <4>1, Advanced
    <3> QED
      BY <1>1, <1>2, <1>3, <1>6, <2>2, <3>1, <3>2, <3>3, RingSizes DEF Indices
  <2>4. Minus(ie', iw') = L - 1
    BY <1>2, <1>3, <2>2, <2>3, Distance
  <2>5. Line' = Run(ibuf, iw, L - 1)
    BY <1>3, <2>4, NextParts
  <2>6. Line' = SubSeq(Line, 1, Len(Line) - 1)
    <3>1. iw \in Nat
      BY <1>2, RingSizes DEF Indices
    <3>2. SubSeq(Run(ibuf, iw, L), 1, L - 1) = Run(ibuf, iw, L - 1)
      BY <1>1, <1>2, <2>2, <3>1, RunShorter
    <3> QED
      BY <1>1, <2>5, <3>2
  <2>7. Line # <<>>
    BY <1>1, <2>1
  <2>8. Lines!Erase
    BY <1>4, <2>6, <2>7 DEF Lines!Erase, Line, Handed
  <2>9. Line' \in Seq(Chars) /\ Len(Line') = L - 1 /\ \A j \in 1..L - 1 : Line'[j] = Line[j]
    <3>1. \A j \in 1..L - 1 : Line[j] \in Chars
      BY <1>1, <2>2
    <3> QED
      BY <1>1, <2>2, <2>6, <3>1, SubSeqProperties
  <2>10. \A j \in DOMAIN Line' : Line'[j] \notin LineEnds
    <3>1. DOMAIN Line' = 1..L - 1 /\ DOMAIN Line = 1..L
      BY <1>1, <2>2, <2>9
    <3>2. \A j \in 1..L - 1 : j \in 1..L
      BY <1>1
    <3> QED
      BY <1>2, <2>9, <3>1, <3>2
  <2>11. Minus(iw', ir') + Minus(ie', iw') <= INPUT_BUF
    <3>1. Minus(iw', ir') = R
      BY <1>3 DEF R
    <3> QED
      BY <1>1, <2>4, <3>1, RingSizes
  <2>12. RingInv'
    BY <1>2, <1>3, <2>3, <2>10, <2>11 DEF RingInv
  <2> QED
    BY <2>8, <2>12 DEF Lines!Next
<1> QED
  BY <1>5, <1>6

LEMMA KillLineErases == ASSUME RingInv, KillLine PROVE RingInv' /\ [Lines!Next]_<<Line, Handed>>
<1>1. /\ ibuf \in Rings /\ ir \in Indices /\ iw \in Indices /\ ie \in Indices
      /\ \A j \in DOMAIN Line : Line[j] \notin LineEnds
  BY DEF RingInv
<1>2. {j \in DOMAIN Line : Line[j] = "NL"} = {}
  BY <1>1 DEF LineEnds
<1>3. ibuf' = ibuf /\ ir' = ir /\ iw' = iw /\ ie' = iw
  BY <1>2 DEF KillLine, Line
<1>4. Minus(ie', iw') = 0 /\ Minus(iw', ir') = Minus(iw, ir)
  BY <1>1, <1>3, Distance
<1>5. Line' = <<>> /\ DOMAIN Line' = {}
  BY <1>4, NextParts, EmptyRun
<1>6. Handed' = Handed
  BY <1>3 DEF Handed, Between, Minus
<1>7. Lines!Kill
  BY <1>5, <1>6 DEF Lines!Kill, Line, Handed
<1>8. Minus(iw, ir) + 0 <= INPUT_BUF
  BY RingIs, RingSizes
<1>9. RingInv'
  BY <1>1, <1>3, <1>4, <1>5, <1>8 DEF RingInv
<1> QED
  BY <1>7, <1>9 DEF Lines!Next

\* A reader takes k of the characters that have been handed over.
LEMMA Reads == ASSUME RingInv, NEW k \in 0..Len(Handed), ir' = (ir + k) % CMOD, UNCHANGED <<ibuf, iw, ie>>
               PROVE  RingInv' /\ [Lines!Next]_<<Line, Handed>>
<1> DEFINE R == Minus(iw, ir)
           L == Minus(ie, iw)
<1>1. /\ R \in Nat /\ L \in Nat /\ R + L <= INPUT_BUF /\ R \in Indices /\ L \in Indices
      /\ iw = (ir + R) % CMOD
      /\ Handed = Run(ibuf, ir, R)
      /\ Handed \in Seq(Chars) /\ Len(Handed) = R
  BY RingIs
<1>2. /\ ibuf \in Rings /\ ir \in Indices /\ iw \in Indices /\ ie \in Indices
      /\ \A j \in DOMAIN Line : Line[j] \notin LineEnds
  BY DEF RingInv
<1>3. Line' = Line
  BY DEF Line, Between, Minus
<1> HIDE DEF R, L
<1>4. /\ k \in 0..R /\ k \in Indices /\ R - k \in Indices /\ R - k \in Nat /\ k \in Nat
      /\ k + (R - k) = R /\ R <= CMOD /\ k \in 0..CMOD
  <2>1. R \in Nat /\ R < CMOD /\ CMOD \in Nat /\ k \in 0..R
    BY <1>1, RingSizes DEF Indices
  <2> QED
    BY <2>1 DEF Indices
<1>5. ir' \in Indices /\ iw = (ir' + (R - k)) % CMOD
  <2>1. ir' \in Indices
    BY <1>2, <1>4, Advanced
  <2>2. (((ir + k) % CMOD) + (R - k)) % CMOD = (ir + (k + (R - k))) % CMOD
    BY <1>2, <1>4, Farther
  <2> QED
    BY <1>1, <1>4, <2>1, <2>2
<1>6. Minus(iw', ir') = R - k
  BY <1>4, <1>5, Distance
<1>7. Handed' = Run(ibuf, (ir + k) % CMOD, R - k)
  BY <1>6, NextParts
<1>8. Handed' = SubSeq(Handed, k + 1, Len(Handed))
  <2>1. SubSeq(Run(ibuf, ir, R), k + 1, R) = Run(ibuf, (ir + k) % CMOD, R - k)
    BY <1>1, <1>2, <1>4, RunDropped
  <2> QED
    BY <1>1, <1>7, <2>1
<1>9. RingInv'
  <2>1. Minus(ie', iw') = L
    BY DEF L
  <2>2. Minus(iw', ir') + Minus(ie', iw') <= INPUT_BUF
    BY <1>1, <1>4, <1>6, <2>1, RingSizes
  <2> QED
    BY <1>2, <1>3, <1>5, <2>2 DEF RingInv
<1>10. CASE k = 0
  <2>1. Handed' = Handed
    BY <1>1, <1>8, <1>10, SubSeqFull
  <2> QED
    BY <1>3, <1>9, <2>1
<1>11. CASE k # 0
  <2>1. k \in 1..Len(Handed)
    BY <1>1, <1>4, <1>11
  <2>2. Lines!Read(k)
    BY <1>3, <1>8 DEF Lines!Read, Line, Handed
  <2> QED
    BY <1>9, <2>1, <2>2 DEF Lines!Next, Handed
<1> QED
  BY <1>10, <1>11

\* What consoleread takes is there, and no more than it wants.
LEMMA TakenIs == ASSUME RingInv, ReadingInv, NEW p \in Readers
                 PROVE  /\ Taken(p) \in Nat /\ Taken(p) <= reading[p].n /\ Taken(p) <= Len(Handed)
                        /\ Consumed(p) \in 0..Len(Handed) /\ Got(p) \in Seq(Chars)
<1> DEFINE most == Min({reading[p].n, Len(Handed)})
           ends == {j \in 1..most : Handed[j] \in {"NL", "EOF"}}
           back == IF EofTaken(p) THEN 1 ELSE 0
<1>1. /\ Handed \in Seq(Chars) /\ Len(Handed) \in Nat /\ \A j \in 1..Len(Handed) : Handed[j] \in Chars
      /\ reading[p].n \in Nat /\ reading[p].got \in Seq(Chars)
  BY RingIs, ElementOfSeq DEF ReadingInv
<1>2. most \in Nat /\ most <= reading[p].n /\ most <= Len(Handed)
  <2>1. \A a \in Nat, b \in Nat : Min({a, b}) \in Nat /\ Min({a, b}) <= a /\ Min({a, b}) <= b
    <3> SUFFICES ASSUME NEW a \in Nat, NEW b \in Nat
                 PROVE  Min({a, b}) \in Nat /\ Min({a, b}) <= a /\ Min({a, b}) <= b
      OBVIOUS
    <3>1. \E z \in {a, b} : \A y \in {a, b} : z <= y
      OBVIOUS
    <3>2. Min({a, b}) \in {a, b} /\ \A y \in {a, b} : Min({a, b}) <= y
      BY <3>1, Zenon DEF Min
    <3> QED
      BY <3>2
  <2> QED
    BY <1>1, <2>1
<1>3. Taken(p) = IF ends = {} THEN most ELSE Min(ends)
  BY DEF Taken, Handed
<1>4. ends # {} => Min(ends) \in ends
  <2> HIDE DEF most
  <2>1. ends \in SUBSET Nat
    BY <1>2
  <2> HIDE DEF ends
  <2> QED
    BY <2>1, MinIn
<1> HIDE DEF most, ends
<1>5. Taken(p) \in Nat /\ Taken(p) <= most
  BY <1>2, <1>3, <1>4 DEF ends
<1>6. EofTaken(p) => Taken(p) > 0
  BY DEF EofTaken
<1>7. Taken(p) - back \in Int /\ Taken(p) - back <= Len(Handed)
  BY <1>1, <1>2, <1>5
<1>8. SubSeq(Handed, 1, Taken(p) - back) \in Seq(Chars)
  <2>1. \A j \in 1..(Taken(p) - back) : Handed[j] \in Chars
    BY <1>1, <1>7
  <2> QED
    BY <1>7, <2>1, SubSeqProperties
<1>9. Got(p) \in Seq(Chars)
  BY <1>1, <1>8, ConcatProperties DEF Got, Handed
<1>10. Consumed(p) \in 0..Len(Handed)
  BY <1>1, <1>2, <1>5, <1>6 DEF Consumed
<1> QED
  BY <1>1, <1>2, <1>5, <1>9, <1>10

\* What the console and its readers do in a step
KeyStep == Backspace \/ KillLine \/ \E c \in Chars : Put(c)
ReaderStep(p) == \/ \E n \in Nat : ConsoleRead(p, n)
                 \/ ConsoleDone(p)
                 \/ \E dead : ConsoleWait(p, dead)
                 \/ ConsoleSleep(p)
                 \/ ConsoleKill(p)
ConsoleNext == KeyStep \/ \E p \in Readers : ReaderStep(p)

LEMMA RingStays == ASSUME RingInv, UNCHANGED ring PROVE RingInv' /\ UNCHANGED <<Line, Handed>>
<1>1. UNCHANGED <<Line, Handed>>
  BY DEF ring, Line, Handed, Between, Minus
<1> QED
  BY <1>1 DEF ring, RingInv, Minus

LEMMA KeyStepTypes == ASSUME RingInv, ReadingInv, KeyStep
                      PROVE  RingInv' /\ ReadingInv' /\ [Lines!Next]_<<Line, Handed>>
<1>1. UNCHANGED reading
  BY DEF KeyStep, Backspace, KillLine, Put
<1> QED
  BY <1>1, PutTypes, BackspaceErases, KillLineErases DEF KeyStep, ReadingInv

LEMMA ReaderStepReads == ASSUME RingInv, ReadingInv, NEW p \in Readers, ReaderStep(p)
                         PROVE  RingInv' /\ ReadingInv' /\ [Lines!Next]_<<Line, Handed>>
<1>1. CASE \E n \in Nat : ConsoleRead(p, n)
  <2>1. UNCHANGED ring /\ \E n \in Nat : reading' = [reading EXCEPT ![p].n = n]
    BY <1>1 DEF ConsoleRead
  <2> QED
    BY <2>1, RingStays DEF ReadingInv
<1>2. CASE ConsoleDone(p)
  <2>1. reading' = [reading EXCEPT ![p] = NotReading]
    BY <1>2 DEF ConsoleDone
  <2>2. ReadingInv'
    BY <2>1 DEF ReadingInv, NotReading
  <2>3. ir' = (ir + Consumed(p)) % CMOD /\ UNCHANGED <<ibuf, iw, ie>>
    BY <1>2 DEF ConsoleDone
  <2>4. Consumed(p) \in 0..Len(Handed)
    BY TakenIs
  <2> QED
    BY <2>2, <2>3, <2>4, Reads
<1>3. ASSUME NEW dead, ConsoleWait(p, dead)
      PROVE  RingInv' /\ ReadingInv' /\ [Lines!Next]_<<Line, Handed>>
  <2>1. reading[p].n - Taken(p) \in Nat /\ Got(p) \in Seq(Chars)
    <3>1. Taken(p) \in Nat /\ Taken(p) <= reading[p].n /\ Got(p) \in Seq(Chars)
      BY TakenIs
    <3>2. reading[p].n \in Nat
      BY DEF ReadingInv
    <3> QED
      BY <3>1, <3>2
  <2>2. \/ reading' = [reading EXCEPT ![p] = NotReading]
        \/ reading' = [reading EXCEPT ![p] = [n |-> reading[p].n - Taken(p), got |-> Got(p)]]
    BY <1>3 DEF ConsoleWait, ReadingInv
  <2>3. ReadingInv'
    <3>1. [n |-> reading[p].n - Taken(p), got |-> Got(p)] \in [n : Nat, got : Seq(Chars)]
          /\ NotReading \in [n : Nat, got : Seq(Chars)]
      BY <2>1 DEF NotReading
    <3>2. \E r \in [n : Nat, got : Seq(Chars)] : reading' = [reading EXCEPT ![p] = r]
      BY <2>2, <3>1, Zenon
    <3> QED
      BY <3>2 DEF ReadingInv
  <2>4. ir' = iw /\ UNCHANGED <<ibuf, iw, ie>>
    BY <1>3 DEF ConsoleWait
  <2>5. ir' = (ir + Len(Handed)) % CMOD /\ Len(Handed) \in 0..Len(Handed)
    <3>1. Len(Handed) = Minus(iw, ir) /\ Len(Handed) \in Nat /\ iw = (ir + Minus(iw, ir)) % CMOD
      BY RingIs
    <3> QED
      BY <2>4, <3>1
  <2> QED
    BY <2>3, <2>4, <2>5, Reads
<1>4. CASE ConsoleSleep(p) \/ ConsoleKill(p)
  <2>1. UNCHANGED ring /\ UNCHANGED reading
    BY <1>4 DEF ConsoleSleep, ConsoleKill
  <2> QED
    BY <2>1, RingStays DEF ReadingInv
<1> QED
  BY <1>1, <1>2, <1>3, <1>4 DEF ReaderStep

LEMMA ConsoleKeeps == ASSUME RingInv, ReadingInv, ConsoleNext \/ UNCHANGED cvars
                      PROVE  RingInv' /\ ReadingInv' /\ [Lines!Next]_<<Line, Handed>>
<1>1. CASE UNCHANGED cvars
  <2>1. UNCHANGED ring /\ UNCHANGED reading
    BY <1>1 DEF cvars, ring
  <2> QED
    BY <2>1, RingStays DEF ReadingInv
<1> QED
  BY <1>1, KeyStepTypes, ReaderStepReads DEF ConsoleNext

-----------------------------------------------------------------------------
(* The console in the shell *)

LEMMA KeyTyped == ASSUME KeysInv, TypeKey PROVE KeyStep /\ KeysInv'
<1> DEFINE Keys == Chars \cup {"BS", "KILL"}
<1>1. script \in Seq(Keys) /\ script # <<>> /\ script' = Tail(script)
  BY DEF TypeKey, KeysInv
<1>2. Head(script) \in Keys /\ Tail(script) \in Seq(Keys)
  BY <1>1, HeadTailProperties
<1>3. KeysInv'
  BY <1>1, <1>2 DEF KeysInv
<1>4. CASE Head(script) = "BS"
  <2>1. Backspace
    BY <1>4 DEF TypeKey
  <2> QED
    BY <1>3, <2>1 DEF KeyStep
<1>5. CASE Head(script) = "KILL"
  <2>1. KillLine
    BY <1>5 DEF TypeKey
  <2> QED
    BY <1>3, <2>1 DEF KeyStep
<1>6. CASE Head(script) \notin {"BS", "KILL"}
  <2>1. Put(Head(script)) /\ Head(script) \in Chars
    BY <1>2, <1>6 DEF TypeKey
  <2> QED
    BY <1>3, <2>1 DEF KeyStep
<1> QED
  BY <1>4, <1>5, <1>6

LEMMA ProcessReads == ASSUME NEW p \in Procs, Step(p) PROVE ReaderStep(p) \/ UNCHANGED cvars
<1>1. CASE GetChar(p) \/ GotChar(p)
  BY <1>1 DEF GetChar, GotChar, ReaderStep
<1>2. CASE \/ RunLine(p) \/ RunList(p) \/ RunBack(p) \/ ForkLeft(p) \/ ForkRight(p)
  BY <1>2 DEF RunLine, RunList, RunBack, ForkLeft, ForkRight, Fork1
<1>3. CASE RunExec(p) \/ RunRedir(p) \/ OpenRedir(p) \/ ListRight(p) \/ RunPipe(p)
  BY <1>3 DEF RunExec, RunRedir, OpenRedir, ListRight, RunPipe
<1>4. CASE CloseStd(p) \/ DupEnd(p) \/ CloseEnd1(p) \/ CloseEnd2(p) \/ Waits(p)
  BY <1>4 DEF CloseStd, DupEnd, CloseEnd1, CloseEnd2, Waits, Wait
<1>5. CASE EchoChar(p) \/ EchoExit(p) \/ CatWrite(p) \/ PipeStep(p)
  BY <1>5 DEF EchoChar, EchoExit, CatWrite, PipeStep
<1>6. CASE CatRead(p)
  <2>1. CATBUF \in Nat
    BY ShellAssumption
  <2>2. ConsoleRead(p, CATBUF) \/ UNCHANGED cvars
    BY <1>6 DEF CatRead
  <2> QED
    BY <2>1, <2>2 DEF ReaderStep
<1>7. CASE ConsoleStep(p)
  BY <1>7 DEF ConsoleStep, ReaderStep
<1>8. CASE Die(p) \/ ExitClose(p) \/ ExitZombie(p)
  BY <1>8 DEF Die, ExitClose, ExitZombie
<1> QED
  BY <1>1, <1>2, <1>3, <1>4, <1>5, <1>6, <1>7, <1>8 DEF Step

LEMMA ShellSteps == ASSUME KeysInv, [Next]_svars PROVE (ConsoleNext \/ UNCHANGED cvars) /\ KeysInv'
<1> Readers = Procs
  BY ShellAssumption
<1>1. CASE TypeKey
  BY <1>1, KeyTyped DEF ConsoleNext
<1>2. ASSUME NEW p \in Procs, Step(p) PROVE (ConsoleNext \/ UNCHANGED cvars) /\ KeysInv'
  <2>1. UNCHANGED script
    <3>1. CASE GetChar(p) \/ GotChar(p) \/ RunLine(p) \/ RunList(p) \/ RunBack(p) \/ ForkLeft(p) \/ ForkRight(p)
      BY <3>1 DEF GetChar, GotChar, RunLine, RunList, RunBack, ForkLeft, ForkRight, Fork1, outside
    <3>2. CASE RunExec(p) \/ RunRedir(p) \/ OpenRedir(p) \/ ListRight(p) \/ RunPipe(p)
      BY <3>2 DEF RunExec, RunRedir, OpenRedir, ListRight, RunPipe, outside
    <3>3. CASE CloseStd(p) \/ DupEnd(p) \/ CloseEnd1(p) \/ CloseEnd2(p) \/ Waits(p)
      BY <3>3 DEF CloseStd, DupEnd, CloseEnd1, CloseEnd2, Waits, Wait, outside
    <3>4. CASE EchoChar(p) \/ EchoExit(p) \/ CatWrite(p) \/ CatRead(p)
      BY <3>4 DEF EchoChar, EchoExit, CatWrite, CatRead, outside
    <3>5. CASE PipeStep(p) \/ ConsoleStep(p)
      BY <3>5 DEF PipeStep, ConsoleStep, CatGot, outside
    <3>6. CASE Die(p) \/ ExitClose(p) \/ ExitZombie(p)
      BY <3>6 DEF Die, ExitClose, ExitZombie, outside
    <3> QED
      BY <1>2, <3>1, <3>2, <3>3, <3>4, <3>5, <3>6 DEF Step
  <2> QED
    BY <1>2, <2>1, ProcessReads DEF ConsoleNext, KeysInv
<1>3. ASSUME NEW p \in Procs, KillOne(p) PROVE (ConsoleNext \/ UNCHANGED cvars) /\ KeysInv'
  BY <1>3 DEF KillOne, ConsoleNext, ReaderStep, KeysInv
<1>4. CASE InitStart \/ InitReap \/ UNCHANGED svars
  <2>1. UNCHANGED cvars /\ UNCHANGED script
    BY <1>4 DEF InitStart, InitReap, Fork1, outside, svars
  <2> QED
    BY <2>1 DEF KeysInv
<1> QED
  BY <1>1, <1>2, <1>3, <1>4 DEF Next

LEMMA ConsoleStarts == ASSUME ShellInit PROVE ConsoleInv /\ Line = <<>> /\ Handed = <<>>
<1>1. ibuf = [i \in 0..INPUT_BUF-1 |-> "NL"] /\ ir = 0 /\ iw = 0 /\ ie = 0
      /\ reading = [p \in Readers |-> NotReading] /\ script \in Scripts
  BY DEF ShellInit, ConsoleInit
<1>2. "NL" \in Chars /\ INPUT_BUF \in Nat
  BY ConsoleAssumption
<1>3. 0 \in Indices
  BY RingSizes DEF Indices
<1>4. Minus(iw, ir) = 0 /\ Minus(ie, iw) = 0
  <2>1. Minus(0, 0) = 0
    BY <1>3, Distance
  <2> QED
    BY <1>1, <2>1
<1>5. Line = <<>> /\ Handed = <<>>
  BY <1>4 DEF Line, Handed, Between
<1>6. RingInv
  BY <1>1, <1>2, <1>3, <1>4, <1>5 DEF RingInv, Rings
<1>7. ReadingInv
  BY <1>1 DEF ReadingInv, NotReading
<1>8. KeysInv
  BY <1>1, ShellAssumption DEF KeysInv
<1> QED
  BY <1>5, <1>6, <1>7, <1>8 DEF ConsoleInv

\* The ring always holds what has been handed over and then the line, in no more than
\* its size, and nothing in the line ends it: consoleintr has handed over all that does.
THEOREM ConsoleInvariance == Spec => []ConsoleInv
<1>1. ShellInit => ConsoleInv
  BY ConsoleStarts
<1>2. ConsoleInv /\ [Next]_svars => ConsoleInv'
  BY ShellSteps, ConsoleKeeps DEF ConsoleInv
<1> QED
  BY <1>1, <1>2, PTL DEF Spec

\* consoleintr's editing and consoleread, whose three indices wrap at different times, do
\* what Terminal promises: a line is edited until it is handed over, and is read once and
\* in order.
THEOREM TerminalImplemented == Spec => ImplementsTerminal
<1>1. ShellInit => Lines!Init
  BY ConsoleStarts DEF Lines!Init, Line, Handed
<1>2. ConsoleInv /\ [Next]_svars => [Lines!Next]_Lines!tvars
  <2> SUFFICES ASSUME ConsoleInv, [Next]_svars PROVE [Lines!Next]_Lines!tvars
    OBVIOUS
  <2>1. [Lines!Next]_<<Line, Handed>>
    BY ShellSteps, ConsoleKeeps DEF ConsoleInv
  <2> QED
    BY <2>1 DEF Lines!tvars, Line, Handed
<1> QED
  BY <1>1, <1>2, ConsoleInvariance, PTL DEF Spec, ImplementsTerminal, Lines!Spec
=============================================================================
