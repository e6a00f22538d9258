-------------------------------- MODULE Files --------------------------------
(* The file table, the descriptors and the pipes: file.c, pipe.c and the calls  *)
(* of sysfile.c and proc.c that hand files on.  One step is one critical        *)
(* section of ftable.lock or of a pipe's lock; a process that has found a pipe  *)
(* full or empty keeps the pipe's lock until it is asleep, and a kill may come   *)
(* in between.                                                                   *)
EXTENDS Naturals, Sequences, FiniteSets, FiniteSetsExt

CONSTANTS Procs,     \* processes
          NFILE,     \* files open in the system
          NOFILE,    \* descriptors of a process
          NPIPE,     \* pages that kalloc has for pipes
          PIPESIZE,  \* bytes in a pipe
          MOD,       \* the counters are kept modulo MOD (2^32)
          Bytes,     \* contents of a byte
          NoProc, NoByte

ASSUME FilesAssumption == /\ {NFILE, NOFILE, NPIPE, PIPESIZE, MOD} \subseteq Nat \ {0}
                          /\ MOD > PIPESIZE /\ MOD % PIPESIZE = 0
                          /\ IsFiniteSet(Procs) /\ NoProc \notin Procs
                          /\ NoByte \notin Bytes

Files == 1..NFILE
Fds == 0..NOFILE-1
Pipes == 1..NPIPE
NoFile == 0
NoPipe == 0

VARIABLES ftable,   \* ref, type, and the end of the pipe, of each file
          ofile,    \* each process's descriptors
          pipes,    \* struct pipe; lock is the holder of its spinlock
          closing,  \* the pipe's end that fileclose is about to close
          call,     \* the read or write of a pipe that a process is in
          chan,     \* what a process is asleep on
          killed

fvars == <<ftable, ofile, pipes, closing, call, chan, killed>>

Unused == [ref |-> 0, type |-> "NONE", pipe |-> NoPipe, writable |-> FALSE]
Free == [used |-> FALSE, lock |-> NoProc, nread |-> 0, nwrite |-> 0,
         readopen |-> FALSE, writeopen |-> FALSE,
         data |-> [i \in 0..PIPESIZE-1 |-> NoByte]]
NoEnd == [pipe |-> NoPipe, writable |-> FALSE]
NoCall == [op |-> "none", pipe |-> NoPipe, bytes |-> <<>>, n |-> 0]
Awake == <<NoPipe, "awake">>

-----------------------------------------------------------------------------
(* A pipe's ring *)

Used(q) == (q.nwrite + MOD - q.nread) % MOD

\* Mutant: the test for a full pipe is one off, and the ring is taken for empty.
RoomOneMore(q) == PIPESIZE + 1 - Used(q)

\* How many bytes pipewrite stores before it finds nwrite == nread + PIPESIZE
Room(q) == PIPESIZE - Used(q)

\* pipewrite's loop, for bytes s that fit
Filled(q, s) ==
    LET at(j) == (q.nwrite + j - 1) % PIPESIZE
    IN  [q EXCEPT !.data = [i \in DOMAIN @ |->
                               IF \E j \in 1..Len(s) : at(j) = i
                               THEN s[CHOOSE j \in 1..Len(s) : at(j) = i] ELSE @[i]],
                  !.nwrite = (@ + Len(s)) % MOD]

\* The bytes that piperead's loop copies when it is asked for n, and the ring then
FirstBytes(q, n) == [j \in 1..Min({n, Used(q)}) |-> q.data[(q.nread + j - 1) % PIPESIZE]]
Drained(q, n) == [q EXCEPT !.nread = (@ + Min({n, Used(q)})) % MOD]

-----------------------------------------------------------------------------
(* Files and descriptors *)

FreeFiles == {f \in Files : ftable[f].ref = 0}
FreeFds(p) == {d \in Fds : ofile[p][d] = NoFile}
FreePipes == {k \in Pipes : ~pipes[k].used}

\* p is in no call and has no pipe's end to close.
Ready(p) == call[p] = NoCall /\ closing[p] = NoEnd

\* sys_pipe, with pipealloc: two files, a page and two descriptors, or nothing
CanPipe(p) == /\ Cardinality(FreeFiles) >= 2
              /\ Cardinality(FreeFds(p)) >= 2
              /\ FreePipes # {}
ReadFd(p) == Min(FreeFds(p))
WriteFd(p) == Min(FreeFds(p) \ {ReadFd(p)})

SysPipe(p) ==
    /\ CanPipe(p)
    /\ LET r == Min(FreeFiles)
           w == Min(FreeFiles \ {r})
           k == Min(FreePipes)
           file(wr) == [ref |-> 1, type |-> "PIPE", pipe |-> k, writable |-> wr]
       IN  /\ ftable' = [ftable EXCEPT ![r] = file(FALSE), ![w] = file(TRUE)]
           /\ ofile' = [ofile EXCEPT ![p][ReadFd(p)] = r, ![p][WriteFd(p)] = w]
           /\ pipes' = [pipes EXCEPT ![k] = [Free EXCEPT !.used = TRUE, !.readopen = TRUE,
                                                         !.writeopen = TRUE]]
    /\ UNCHANGED <<closing, call, chan, killed>>

\* open: a file of the given type, if a file and a descriptor are free
CanOpen(p) == FreeFiles # {} /\ FreeFds(p) # {}
Open(p, type) ==
    /\ CanOpen(p)
    /\ LET f == Min(FreeFiles)
       IN  /\ ftable' = [ftable EXCEPT ![f] = [Unused EXCEPT !.ref = 1, !.type = type]]
           /\ ofile' = [ofile EXCEPT ![p][Min(FreeFds(p))] = f]
    /\ UNCHANGED <<pipes, closing, call, chan, killed>>

\* sys_dup
Dup(p, d) ==
    LET f == ofile[p][d]
    IN  /\ f # NoFile /\ FreeFds(p) # {}
        /\ ofile' = [ofile EXCEPT ![p][Min(FreeFds(p))] = f]
        /\ ftable' = [ftable EXCEPT ![f].ref = @ + 1]
        /\ UNCHANGED <<pipes, closing, call, chan, killed>>

FdsOf(p, f) == {d \in Fds : ofile[p][d] = f}

\* Mutant: fork counts each file once, however many descriptors the parent has.
RefsOnce(p) == [f \in Files |-> [ftable[f] EXCEPT !.ref = @ + IF FdsOf(p, f) = {} THEN 0 ELSE 1]]

\* fork duplicates each of the parent's descriptors.
RefsAfterFork(p) == [f \in Files |-> [ftable[f] EXCEPT !.ref = @ + Cardinality(FdsOf(p, f))]]

ForkFiles(p, c) == /\ ftable' = RefsAfterFork(p)
                   /\ ofile' = [ofile EXCEPT ![c] = ofile[p]]
                   /\ killed' = [killed EXCEPT ![c] = FALSE]
                   /\ UNCHANGED <<pipes, closing, call, chan>>

\* sys_close, and one round of exit's loop: fileclose gives the file up, and goes on
\* to the pipe without ftable.lock if that was the last descriptor.
Close(p, d) ==
    LET f == ofile[p][d]
        last == ftable[f].ref = 1
    IN  /\ f # NoFile
        /\ ofile' = [ofile EXCEPT ![p][d] = NoFile]
        /\ ftable' = [ftable EXCEPT ![f] = IF last THEN Unused
                                              ELSE [ftable[f] EXCEPT !.ref = @ - 1]]
        /\ closing' = [closing EXCEPT ![p] =
                          IF last /\ ftable[f].type = "PIPE"
                          THEN [pipe |-> ftable[f].pipe, writable |-> ftable[f].writable]
                          ELSE NoEnd]
        /\ UNCHANGED <<pipes, call, chan, killed>>

-----------------------------------------------------------------------------
(* pipe.c *)

Unlocked(k) == pipes[k].lock = NoProc

\* wakeup(c)
Wakeup(c) == [p \in Procs |-> IF chan[p] = c THEN Awake ELSE chan[p]]

\* Mutant: the other end is not woken.
EndWakeupNone(e) == chan

\* pipeclose wakes whoever waits for the end that closes.
EndWakeup(e) == Wakeup(<<e.pipe, IF e.writable THEN "nread" ELSE "nwrite">>)

EndClosed(q, writable) ==
    LET r == q.readopen /\ writable
        w == q.writeopen /\ ~writable
    IN  IF r \/ w THEN [q EXCEPT !.readopen = r, !.writeopen = w] ELSE Free

PipeClose(p) ==
    LET e == closing[p]
    IN  /\ e # NoEnd
        /\ Unlocked(e.pipe)
        /\ pipes' = [pipes EXCEPT ![e.pipe] = EndClosed(@, e.writable)]
        /\ chan' = EndWakeup(e)
        /\ closing' = [closing EXCEPT ![p] = NoEnd]
        /\ UNCHANGED <<ftable, ofile, call, killed>>

\* read and write on a pipe's descriptor
StartCall(p, d, op, bytes, n) ==
    LET f == ftable[ofile[p][d]]
    IN  /\ ofile[p][d] # NoFile
        /\ f.type = "PIPE" /\ f.writable = (op = "write")
        /\ call' = [call EXCEPT ![p] = [op |-> op, pipe |-> f.pipe, bytes |-> bytes, n |-> n]]
        /\ UNCHANGED <<ftable, ofile, pipes, closing, chan, killed>>

\* p goes on in its call: it is not asleep, and the lock is free.
InPipe(p, op) == /\ call[p].op = op
               /\ chan[p] = Awake
               /\ Unlocked(call[p].pipe)

Finish(p) == call' = [call EXCEPT ![p] = NoCall]

\* What a process waits for in a call
WaitsFor(p) == <<call[p].pipe, IF call[p].op = "read" THEN "nread" ELSE "nwrite">>

\* sleep, once it has ptable.lock and has given up the pipe's
FallAsleep(p) ==
    LET k == call[p].pipe
    IN  /\ k # NoPipe
        /\ pipes[k].lock = p
        /\ pipes' = [pipes EXCEPT ![k].lock = NoProc]
        /\ chan' = [chan EXCEPT ![p] = WaitsFor(p)]
        /\ UNCHANGED <<ftable, ofile, closing, call, killed>>

MustWaitToRead(k) == Used(pipes[k]) = 0 /\ pipes[k].writeopen

\* piperead finds the pipe empty.
ReadBlock(p) == LET k == call[p].pipe IN
    /\ InPipe(p, "read") /\ MustWaitToRead(k) /\ ~killed[p]
    /\ pipes' = [pipes EXCEPT ![k].lock = p]
    /\ UNCHANGED <<ftable, ofile, closing, call, chan, killed>>

\* piperead fails for a killed process that would have to wait.
ReadFail(p) ==
    /\ InPipe(p, "read") /\ MustWaitToRead(call[p].pipe) /\ killed[p]
    /\ Finish(p)
    /\ UNCHANGED <<ftable, ofile, pipes, closing, chan, killed>>

\* piperead returns BytesRead(p), none at the end of the file, and wakes writers.
BytesRead(p) == FirstBytes(pipes[call[p].pipe], call[p].n)
ReadDone(p) == LET k == call[p].pipe IN
    /\ InPipe(p, "read") /\ ~MustWaitToRead(k)
    /\ pipes' = [pipes EXCEPT ![k] = Drained(@, call[p].n)]
    /\ chan' = Wakeup(<<k, "nwrite">>)
    /\ Finish(p)
    /\ UNCHANGED <<ftable, ofile, closing, killed>>

Fits(p) == Len(call[p].bytes) <= Room(pipes[call[p].pipe])
Fitting(p) == SubSeq(call[p].bytes, 1, Room(pipes[call[p].pipe]))
Rest(p) == SubSeq(call[p].bytes, Room(pipes[call[p].pipe]) + 1, Len(call[p].bytes))
GivesUp(p) == killed[p] \/ ~pipes[call[p].pipe].readopen

\* pipewrite stores all it has left, and wakes readers.
WriteDone(p) == LET k == call[p].pipe IN
    /\ InPipe(p, "write") /\ Fits(p)
    /\ pipes' = [pipes EXCEPT ![k] = Filled(@, call[p].bytes)]
    /\ chan' = Wakeup(<<k, "nread">>)
    /\ Finish(p)
    /\ UNCHANGED <<ftable, ofile, closing, killed>>

\* pipewrite fills the pipe, wakes readers and has to wait.
WriteBlock(p) == LET k == call[p].pipe IN
    /\ InPipe(p, "write") /\ ~Fits(p) /\ ~GivesUp(p)
    /\ pipes' = [pipes EXCEPT ![k] = [Filled(@, Fitting(p)) EXCEPT !.lock = p]]
    /\ chan' = Wakeup(<<k, "nread">>)
    /\ call' = [call EXCEPT ![p].bytes = Rest(p)]
    /\ UNCHANGED <<ftable, ofile, closing, killed>>

\* pipewrite fills the pipe and gives up: no reader is left, or p is killed.
WriteFail(p) == LET k == call[p].pipe IN
    /\ InPipe(p, "write") /\ ~Fits(p) /\ GivesUp(p)
    /\ pipes' = [pipes EXCEPT ![k] = Filled(@, Fitting(p))]
    /\ Finish(p)
    /\ UNCHANGED <<ftable, ofile, closing, chan, killed>>

\* kill wakes p if it is asleep.
Kill(p) == /\ killed' = [killed EXCEPT ![p] = TRUE]
           /\ chan' = [chan EXCEPT ![p] = Awake]
           /\ UNCHANGED <<ftable, ofile, pipes, closing, call>>

-----------------------------------------------------------------------------
(* Properties *)

\* Who has the file open: a process and a descriptor each
Holders(f) == {h \in Procs \X Fds : ofile[h[1]][h[2]] = f}

RefersTo(k, writable) == \E f \in Files : /\ ftable[f].ref > 0 /\ ftable[f].type = "PIPE"
                                          /\ ftable[f].pipe = k /\ ftable[f].writable = writable
AboutToClose(k, writable) == \E p \in Procs : closing[p] = [pipe |-> k, writable |-> writable]

\* The counts behind a pipe agree through fork, dup, close and exit: a file's ref is
\* the number of its descriptors, an end of a pipe is open as long as a file refers
\* to it or is closing it, and the pipe's page is there for those who use it.
RefsExact ==
    /\ \A f \in Files : ftable[f].ref = Cardinality(Holders(f))
    /\ \A k \in Pipes :
          /\ pipes[k].readopen <=> (RefersTo(k, FALSE) \/ AboutToClose(k, FALSE))
          /\ pipes[k].writeopen <=> (RefersTo(k, TRUE) \/ AboutToClose(k, TRUE))
          /\ pipes[k].used <=> (pipes[k].readopen \/ pipes[k].writeopen)
    /\ \A p \in Procs : call[p] # NoCall =>
          /\ pipes[call[p].pipe].used
          /\ IF call[p].op = "read" THEN pipes[call[p].pipe].readopen
                                    ELSE pipes[call[p].pipe].writeopen
=============================================================================
