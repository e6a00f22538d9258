-------------------------------- MODULE Shell --------------------------------
(* The shell on its console and its pipes: sh.c with init.c, echo.c and cat.c as *)
(* its programs, over Files and Console.  init starts a shell; the shell reads   *)
(* lines and runs each as a tree of commands in processes of its own.            *)
EXTENDS Files, Console

CONSTANTS Init1,     \* init's slot; every process that it starts runs sh
          Scripts,   \* what the user types: sequences of keys
          Command,   \* the command that parsecmd makes of each line
          Commands,  \* those commands and the ones that they are made of
          Text,      \* what echo prints, a character a time
          CATBUF,    \* size of cat's buffer
          Kills      \* the scripts during which a process may be killed, once

\* parsecmd's trees: every part of a command is a command, and a redirection is of the
\* standard input or output.
Parts == \A c \in Commands :
    /\ c.type \in {"LIST", "PIPE"} => {c.left, c.right} \subseteq Commands
    /\ c.type \in {"BACK", "REDIR"} => c.cmd \in Commands
    /\ c.type = "REDIR" => c.fd \in {0, 1}

ASSUME ShellAssumption == /\ Procs \subseteq Nat /\ Init1 \in Procs /\ Readers = Procs
                          /\ NOFILE >= 3
                          /\ \A line \in DOMAIN Command : Command[line] \in Commands
                          /\ Parts
                          /\ CATBUF \in Nat \ {0} /\ Kills \subseteq Scripts
                          /\ Scripts \subseteq Seq(Chars \cup {"BS", "KILL"})

VARIABLES pc, parent,
          cmd,      \* the command that a process runs, or NoCmd
          side,     \* what it is of a PIPE: the one that forks, or its left or right child
          pfd,      \* int p[2]
          prog,     \* "init", "sh", and after exec "echo" or "cat"
          buf,      \* the bytes a program has in hand: sh's line, echo's rest, cat's buffer
          script,   \* the keys still to be typed
          kill,     \* a process may yet be killed
          doing,    \* the command of the last line
          given,    \* what cat has read from the console for it
          out,      \* what it has printed on the console
          faulty    \* a process has been killed, or a fork or pipe has failed

user == <<cmd, side, pfd, prog, buf>>
outside == <<script, kill>>
told == <<doing, given>>
log == <<told, out, faulty>>
svars == <<fvars, cvars, pc, parent, user, outside, log>>

-----------------------------------------------------------------------------
NoCmd == [type |-> "none"]

Goto(p, l) == pc' = [pc EXCEPT ![p] = l]

\* p is in user space before its next system call: not in one, and not killed.
At(p, l) == pc[p] = l /\ Ready(p) /\ reading[p] = NotReading /\ ~killed[p]

\* exit panics when init calls it, and all stops.
Panic == pc' = [p \in Procs |-> "panicked"]
Runs(p) == pc[p] # "panicked"

Slots == {p \in Procs : pc[p] = "unused"}
Children(p) == {c \in Procs : parent[c] = p /\ pc[c] # "unused"}
Dead(p) == {c \in Children(p) : pc[c] = "zombie"}

\* init has opened the console three times; its first fork is to come.
ShellInit ==
    /\ ConsoleInit
    /\ ftable = [f \in Files |-> IF f = 1 THEN [Unused EXCEPT !.ref = 3, !.type = "CONSOLE"]
                                          ELSE Unused]
    /\ ofile = [p \in Procs |-> [d \in Fds |-> IF p = Init1 /\ d < 3 THEN 1 ELSE NoFile]]
    /\ pipes = [k \in Pipes |-> Free]
    /\ closing = [p \in Procs |-> NoEnd]
    /\ call = [p \in Procs |-> NoCall]
    /\ chan = [p \in Procs |-> Awake]
    /\ killed = [p \in Procs |-> FALSE]
    /\ pc = [p \in Procs |-> IF p = Init1 THEN "start" ELSE "unused"]
    /\ parent = [p \in Procs |-> NoProc]
    /\ cmd = [p \in Procs |-> NoCmd]
    /\ side = [p \in Procs |-> "none"]
    /\ pfd = [p \in Procs |-> <<0, 0>>]
    /\ prog = [p \in Procs |-> IF p = Init1 THEN "init" ELSE "sh"]
    /\ buf = [p \in Procs |-> <<>>]
    /\ script \in Scripts /\ kill = (script \in Kills)
    /\ doing = NoCmd /\ given = <<>> /\ out = <<>> /\ faulty = FALSE

-----------------------------------------------------------------------------
(* fork, exit and wait as far as they concern the shell *)

\* fork1 at l: the child goes on at lc with command c as side s of it; the parent at
\* lp.  Without a free slot fork fails, and fork1 panics: the process exits.
Fork1(p, l, lc, c, s, lp) ==
    /\ At(p, l)
    /\ IF Slots = {}
       THEN /\ IF p = Init1 THEN Panic ELSE Goto(p, "exit")
            /\ faulty' = TRUE
            /\ UNCHANGED <<fvars, parent, user>>
       ELSE LET k == Min(Slots)
            IN  /\ ForkFiles(p, k)
                /\ pc' = [pc EXCEPT ![k] = lc, ![p] = lp]
                /\ parent' = [parent EXCEPT ![k] = p]
                /\ cmd' = [cmd EXCEPT ![k] = c]
                /\ side' = [side EXCEPT ![k] = s]
                /\ pfd' = [pfd EXCEPT ![k] = pfd[p]]
                /\ prog' = [prog EXCEPT ![k] = "sh"]
                /\ buf' = [buf EXCEPT ![k] = <<>>, ![p] = <<>>]
                /\ UNCHANGED faulty
    /\ UNCHANGED <<cvars, outside, told, out>>

\* wait at l: a child is reaped, and p goes on at lp.  (Who gets here has a child.)
Wait(p, l, lp) ==
    /\ At(p, l)
    /\ \E c \in Dead(p) : /\ pc' = [pc EXCEPT ![c] = "unused", ![p] = lp]
                          /\ parent' = [parent EXCEPT ![c] = NoProc]
    /\ UNCHANGED <<fvars, cvars, user, outside, log>>

\* A killed process exits on its way to or from user space.
Die(p) == /\ pc[p] \notin {"exit", "zombie", "unused", "panicked"}
          /\ Ready(p) /\ reading[p] = NotReading /\ killed[p]
          /\ Goto(p, "exit")
          /\ UNCHANGED <<fvars, cvars, parent, user, outside, log>>

Opened(p) == {d \in Fds : ofile[p][d] # NoFile}

\* exit closes the descriptors in order, then leaves a zombie and its children to init.
ExitClose(p) == /\ pc[p] = "exit" /\ Ready(p) /\ Opened(p) # {}
                /\ Close(p, Min(Opened(p)))
                /\ UNCHANGED <<cvars, pc, parent, user, outside, log>>
ExitZombie(p) == /\ pc[p] = "exit" /\ Ready(p) /\ Opened(p) = {}
                 /\ Goto(p, "zombie")
                 /\ parent' = [c \in Procs |-> IF parent[c] = p THEN Init1 ELSE parent[c]]
                 /\ UNCHANGED <<fvars, cvars, user, outside, log>>

\* init waits, and starts another shell when it has reaped its own.
InitStart == Fork1(Init1, "start", "getcmd", NoCmd, "none", "waiting")
InitReap == \E c \in Dead(Init1) :
    /\ pc' = [pc EXCEPT ![c] = "unused",
                        ![Init1] = IF prog[c] = "sh" /\ cmd[c] = NoCmd THEN "start" ELSE @]
    /\ parent' = [parent EXCEPT ![c] = NoProc]
    /\ UNCHANGED <<fvars, cvars, user, outside, log>>

-----------------------------------------------------------------------------
(* sh *)

\* getcmd: gets reads a character.
GetChar(p) == /\ At(p, "getcmd")
              /\ ConsoleRead(p, 1)
              /\ Goto(p, "gets")
              /\ UNCHANGED <<fvars, parent, user, outside, log>>

Parsed(line) == IF line \in DOMAIN Command THEN Command[line] ELSE [type |-> "EXEC", prog |-> "?"]

\* gets goes on until a newline or the end of file; the shell ends when that leaves
\* nothing.
GotChar(p) ==
    LET c == Got(p)
        line == buf[p] \o SelectSeq(c, LAMBDA x : x # "NL")
        more == c \notin {<<>>, <<"NL">>}
        eof == c = <<>> /\ line = <<>>
    IN  /\ pc[p] = "gets"
        /\ ConsoleDone(p)
        /\ Goto(p, IF more THEN "getcmd" ELSE IF eof THEN "exit" ELSE "fork")
        /\ buf' = [buf EXCEPT ![p] = line]
        /\ IF more \/ eof THEN UNCHANGED <<told, out>>
                         ELSE doing' = Parsed(line) /\ given' = <<>> /\ out' = <<>>
        /\ UNCHANGED <<fvars, parent, cmd, side, pfd, prog, outside, faulty>>

\* main: a child runs the line.
RunLine(p) == Fork1(p, "fork", "run", Parsed(buf[p]), "none", "linewait")

-----------------------------------------------------------------------------
(* runcmd *)

Does(p, type) == At(p, "run") /\ cmd[p].type = type

\* The command whose turn it is
Continue(p, c) == /\ cmd' = [cmd EXCEPT ![p] = c]
                  /\ side' = [side EXCEPT ![p] = "none"]
                  /\ Goto(p, "run")

RunExec(p) == /\ Does(p, "EXEC")
              /\ IF cmd[p].prog \in {"echo", "cat"}
                 THEN /\ prog' = [prog EXCEPT ![p] = cmd[p].prog]
                      /\ buf' = [buf EXCEPT ![p] = IF cmd[p].prog = "echo" THEN Text ELSE <<>>]
                      /\ pfd' = [pfd EXCEPT ![p] = <<0, 0>>]
                      /\ Goto(p, "main")
                 ELSE Goto(p, "exit") /\ UNCHANGED <<prog, buf, pfd>>
              /\ UNCHANGED <<fvars, cvars, parent, cmd, side, outside, log>>

RunRedir(p) == /\ Does(p, "REDIR")
               /\ Close(p, cmd[p].fd)
               /\ Goto(p, "open")
               /\ UNCHANGED <<cvars, parent, user, outside, log>>

OpenRedir(p) == /\ At(p, "open")
                /\ IF CanOpen(p)
                   THEN Open(p, "DISK") /\ Continue(p, cmd[p].cmd) /\ UNCHANGED faulty
                   ELSE Goto(p, "exit") /\ faulty' = TRUE /\ UNCHANGED <<fvars, cmd, side>>
                /\ UNCHANGED <<cvars, parent, pfd, prog, buf, outside, told, out>>

RunList(p) == cmd[p].type = "LIST" /\ Fork1(p, "run", "run", cmd[p].left, "none", "listwait")

ListRight(p) == /\ At(p, "right")
                /\ Continue(p, cmd[p].right)
                /\ UNCHANGED <<fvars, cvars, parent, pfd, prog, buf, outside, log>>

RunBack(p) == cmd[p].type = "BACK" /\ Fork1(p, "run", "run", cmd[p].cmd, "none", "exit")

RunPipe(p) == /\ Does(p, "PIPE")
              /\ IF CanPipe(p)
                 THEN /\ SysPipe(p)
                      /\ pfd' = [pfd EXCEPT ![p] = <<ReadFd(p), WriteFd(p)>>]
                      /\ Goto(p, "forkleft")
                      /\ UNCHANGED faulty
                 ELSE Goto(p, "exit") /\ faulty' = TRUE /\ UNCHANGED <<fvars, pfd>>
              /\ UNCHANGED <<cvars, parent, cmd, side, prog, buf, outside, told, out>>

ForkLeft(p) == Fork1(p, "forkleft", "std", cmd[p], "left", "forkright")
ForkRight(p) == Fork1(p, "forkright", "std", cmd[p], "right", "end1")

\* A child puts its end of the pipe in the place of its standard output or input.
CloseStd(p) == /\ At(p, "std")
               /\ Close(p, IF side[p] = "left" THEN 1 ELSE 0)
               /\ Goto(p, "dup")
               /\ UNCHANGED <<cvars, parent, user, outside, log>>
DupEnd(p) == /\ At(p, "dup")
             /\ Dup(p, IF side[p] = "left" THEN pfd[p][2] ELSE pfd[p][1])
             /\ Goto(p, "end1")
             /\ UNCHANGED <<cvars, parent, user, outside, log>>

\* All three close both of pipe's descriptors.
CloseEnd1(p) == /\ At(p, "end1")
                /\ Close(p, pfd[p][1])
                /\ Goto(p, "end2")
                /\ UNCHANGED <<cvars, parent, user, outside, log>>

CloseEnd2(p) == /\ At(p, "end2")
                /\ Close(p, pfd[p][2])
                /\ IF side[p] = "none"
                   THEN Goto(p, "wait1") /\ UNCHANGED <<cmd, side>>
                   ELSE Continue(p, IF side[p] = "left" THEN cmd[p].left ELSE cmd[p].right)
                /\ UNCHANGED <<cvars, parent, pfd, prog, buf, outside, log>>

Waits(p) == \/ Wait(p, "linewait", "getcmd")
            \/ Wait(p, "listwait", "right")
            \/ Wait(p, "wait1", "wait2")
            \/ Wait(p, "wait2", "exit")

-----------------------------------------------------------------------------
(* echo and cat *)

\* write(1, s) at l: a pipe, or the console or a file, which take it at once
Write(p, l, s) ==
    /\ At(p, l) /\ s # <<>>
    /\ IF ftable[ofile[p][1]].type = "PIPE"
       THEN StartCall(p, 1, "write", s, 0) /\ Goto(p, "writing") /\ UNCHANGED out
       ELSE /\ Goto(p, "main")
            /\ out' = IF ftable[ofile[p][1]].type = "CONSOLE" THEN out \o s ELSE out
            /\ UNCHANGED fvars

\* echo prints a character at a time, whatever write returns.
EchoChar(p) == /\ prog[p] = "echo" /\ buf[p] # <<>>
               /\ Write(p, "main", <<Head(buf[p])>>)
               /\ buf' = [buf EXCEPT ![p] = Tail(@)]
               /\ UNCHANGED <<cvars, parent, cmd, side, pfd, prog, outside, told, faulty>>
EchoExit(p) == /\ prog[p] = "echo" /\ buf[p] = <<>> /\ At(p, "main")
               /\ Goto(p, "exit")
               /\ UNCHANGED <<fvars, cvars, parent, user, outside, log>>

\* cat reads what there is, up to its buffer,
CatRead(p) == /\ prog[p] = "cat" /\ At(p, "main")
              /\ IF ftable[ofile[p][0]].type = "PIPE"
                 THEN StartCall(p, 0, "read", <<>>, CATBUF) /\ UNCHANGED cvars
                 ELSE ConsoleRead(p, CATBUF) /\ UNCHANGED fvars
              /\ Goto(p, "catread")
              /\ UNCHANGED <<parent, user, outside, log>>

\* and writes it, until there is nothing or read fails.
CatGot(p, s) == /\ pc[p] = "catread"
                /\ buf' = [buf EXCEPT ![p] = s]
                /\ Goto(p, IF s = <<>> THEN "exit" ELSE "output")
                /\ UNCHANGED <<parent, cmd, side, pfd, prog, outside, out, faulty>>
CatWrite(p) == /\ Write(p, "output", buf[p])
               /\ buf' = [buf EXCEPT ![p] = <<>>]
               /\ UNCHANGED <<cvars, parent, cmd, side, pfd, prog, outside, told, faulty>>

\* The steps of a pipe's read and write
PipeStep(p) ==
    \/ /\ ReadDone(p)
       /\ CatGot(p, BytesRead(p))
       /\ UNCHANGED <<cvars, told>>
    \/ /\ ReadFail(p)
       /\ CatGot(p, <<>>)
       /\ UNCHANGED <<cvars, told>>
    \/ /\ pc[p] = "writing"
       /\ WriteDone(p)
       /\ Goto(p, "main")
       /\ UNCHANGED <<cvars, parent, user, outside, log>>
    \/ /\ pc[p] = "writing"
       /\ WriteFail(p)
       /\ Goto(p, IF prog[p] = "cat" THEN "exit" ELSE "main")
       /\ UNCHANGED <<cvars, parent, user, outside, log>>
    \/ /\ Runs(p)
       /\ ReadBlock(p) \/ WriteBlock(p) \/ FallAsleep(p) \/ PipeClose(p)
       /\ UNCHANGED <<cvars, pc, parent, user, outside, log>>

\* The steps of a read of the console; what cat reads there it should print.
ConsoleStep(p) ==
    \/ /\ ConsoleDone(p)
       /\ CatGot(p, Got(p))
       /\ given' = given \o Got(p)
       /\ UNCHANGED doing
       /\ UNCHANGED fvars
    \/ /\ Runs(p)
       /\ ConsoleWait(p, killed[p])
       /\ pc' = [pc EXCEPT ![p] = IF killed[p] THEN "exit" ELSE @]
       /\ UNCHANGED <<fvars, parent, user, outside, log>>
    \/ /\ Runs(p)
       /\ ConsoleSleep(p)
       /\ UNCHANGED <<fvars, pc, parent, user, outside, log>>

-----------------------------------------------------------------------------
(* The world outside *)

TypeKey == /\ script # <<>> /\ Runs(Init1)
           /\ CASE Head(script) = "BS" -> Backspace
                [] Head(script) = "KILL" -> KillLine
                [] OTHER -> Put(Head(script))
           /\ script' = Tail(script)
           /\ UNCHANGED <<fvars, pc, parent, user, kill, log>>

\* Somebody kills a process that runs a command.
KillOne(p) == /\ kill
              /\ cmd[p] # NoCmd /\ pc[p] \notin {"unused", "zombie", "panicked"}
              /\ Kill(p) /\ ConsoleKill(p)
              /\ kill' = FALSE /\ faulty' = TRUE
              /\ UNCHANGED <<pc, parent, user, script, told, out>>

Step(p) == \/ GetChar(p) \/ GotChar(p) \/ RunLine(p)
           \/ RunExec(p) \/ RunRedir(p) \/ OpenRedir(p)
           \/ RunList(p) \/ ListRight(p) \/ RunBack(p)
           \/ RunPipe(p) \/ ForkLeft(p) \/ ForkRight(p)
           \/ CloseStd(p) \/ DupEnd(p) \/ CloseEnd1(p) \/ CloseEnd2(p) \/ Waits(p)
           \/ EchoChar(p) \/ EchoExit(p) \/ CatRead(p) \/ CatWrite(p)
           \/ PipeStep(p) \/ ConsoleStep(p)
           \/ Die(p) \/ ExitClose(p) \/ ExitZombie(p)

Next == \/ \E p \in Procs \ {Init1} : Step(p) \/ KillOne(p)
        \/ InitStart \/ InitReap \/ TypeKey

Spec == ShellInit /\ [][Next]_svars

\* Some process that can go on does, and all keys are typed.  (The scheduler promises
\* more, that every process does; nothing here goes on for ever, so this is enough.)
Fairness == WF_svars(Next)

FairSpec == Spec /\ Fairness

-----------------------------------------------------------------------------
(* Properties *)

\* The shell comes back from every line, also when a process of it is killed or could
\* not start: each pipe's other end is closed in the end and everyone hears of it.
Commanding == \E p \in Procs : pc[p] = "linewait"
PromptBack == Commanding ~> ~Commanding
=============================================================================
