---------------------------------- MODULE Fs ----------------------------------
(* Inodes, directories and the calls that name files: fs.c above the buffer      *)
(* cache, and sysfile.c.  A step is one critical section of icache.lock or of a  *)
(* buffer, taking an inode's sleep-lock, or all that is done under it up to the  *)
(* next lock; a process that waits for one inode may hold another's lock.  An    *)
(* inode's copy in memory, which all use, and the inode on the disk are apart.   *)
EXTENDS Naturals, Sequences, FiniteSets, FiniteSetsExt

CONSTANTS Procs,
          NINODES,  \* inodes on the disk
          NINODE,   \* entries of the inode cache
          NBLOCKS,  \* data blocks; a file or directory has at most one
          Names,    \* names of files, but for "." and ".."
          Scripts,  \* the calls that a process makes: sequences of records
          NoProc

Inums == 1..NINODES
Root == 1
None == 0
Bits == {"r", "w", "x"}

\* A path: a slash or none, then names, of which there is at least one
Absolute(s) == s # <<>> /\ Head(s) = "/"
Rest(s) == IF Absolute(s) THEN Tail(s) ELSE s
Paths == {s \in Seq(Names \cup {".", "..", "/"}) : Rest(s) \in Seq(Names \cup {".", ".."}) \ {<<>>}}

SysCalls == [op : {"create", "mkdir", "mknod", "unlink", "chdir"}, path : Paths]
            \cup [op : {"open"}, path : Paths, write : BOOLEAN]
            \cup [op : {"link"}, path : Paths, new : Paths]
            \cup [op : {"chmod"}, path : Paths, mode : SUBSET Bits]
            \cup [op : {"close", "write"}]

ASSUME FsAssumption == /\ {NINODES, NINODE, NBLOCKS} \subseteq Nat \ {0}
                       /\ NINODES > 1 /\ NBLOCKS > 1
                       /\ IsFiniteSet(Procs) /\ IsFiniteSet(Names)
                       /\ {".", "..", "/"} \cap Names = {}
                       /\ NoProc \notin Procs
                       /\ Scripts \subseteq Seq(SysCalls)

VARIABLES
    dinode,  \* on the disk: type, links, protection bits and block of each inode
    ents,    \* the entries of each directory but for "." and "..": name to inode
    up,      \* its entry ".."
    bitmap,  \* the data blocks in use
    copy, valid, ref, lock,  \* the inode cache
    cwd, fd, \* each process's directory, and the one file it may have open
    script,  \* the calls it has still to make, the present one first
    pc,      \* where it is in the call; calls that do the same share a label
    has,     \* TRUE if it has the lock that it needs there
    path,    \* the rest of the path
    cur,     \* namex's ip
    ip, dp,  \* the call's
    puts,    \* inodes that it is to iput before anything else, in order
    iputs,   \* how far it is in the first of them
    panicked,
    removed  \* what was made or linked in a directory that had no name any more

disk == <<dinode, ents, up, bitmap>>
icache == <<copy, valid, ref, lock>>
user == <<cwd, fd, script>>
local == <<pc, has, path, cur, ip, dp>>
vars == <<disk, icache, user, local, puts, iputs, panicked, removed>>

Free == [type |-> "FREE", nlink |-> 0, mode |-> {}, blk |-> None]
NoEntries == [n \in Names |-> None]

\* mkfs has made a root directory with one file in it.  The root is everybody's directory,
\* also that of the init process, which makes no calls here and stays in it.
Init ==
    /\ \E n \in Names :
          ents = [i \in Inums |-> IF i = Root THEN [NoEntries EXCEPT ![n] = 2] ELSE NoEntries]
    /\ dinode = [i \in Inums |->
                    CASE i = Root -> [type |-> "DIR", nlink |-> 1, mode |-> Bits, blk |-> 1]
                      [] i = 2 -> [type |-> "FILE", nlink |-> 1, mode |-> Bits, blk |-> 2]
                      [] OTHER -> Free]
    /\ up = [i \in Inums |-> Root]
    /\ bitmap = {1, 2}
    /\ copy = [i \in Inums |-> Free]
    /\ valid = [i \in Inums |-> FALSE]
    /\ ref = [i \in Inums |-> IF i = Root THEN Cardinality(Procs) + 1 ELSE 0]
    /\ lock = [i \in Inums |-> NoProc]
    /\ cwd = [p \in Procs |-> Root]
    /\ fd = [p \in Procs |-> None]
    /\ script \in [Procs -> Scripts]
    /\ pc = [p \in Procs |-> "idle"]
    /\ has = [p \in Procs |-> FALSE]
    /\ path = [p \in Procs |-> <<>>]
    /\ cur = [p \in Procs |-> None] /\ ip = cur /\ dp = cur
    /\ puts = [p \in Procs |-> <<>>]
    /\ iputs = [p \in Procs |-> "lock"]
    /\ panicked = {} /\ removed = {}

-----------------------------------------------------------------------------
(* The inode cache *)

\* iget panics if the inode is not there and there is no room for it.
NoEntry(i) == ref[i] = 0 /\ Cardinality({j \in Inums : ref[j] > 0}) = NINODE
Iget(i) == /\ ref' = [ref EXCEPT ![i] = @ + 1]
           /\ valid' = [valid EXCEPT ![i] = @ /\ ref[i] > 0]

\* iupdate of the inodes in the domain of f, which the process has locked
Iupdate(f) == LET new(old) == [i \in Inums |-> IF i \in DOMAIN f THEN f[i] ELSE old[i]]
              IN  copy' = new(copy) /\ dinode' = new(dinode)
Only(i, inode) == [j \in {i} |-> inode]

Ilock(p, i) == lock' = [lock EXCEPT ![i] = p]
Iunlock(i) == lock' = [lock EXCEPT ![i] = NoProc]

\* bmap and balloc of the only block of an inode; some blocks are in use
NewBlocks(i) == IF copy[i].blk = None THEN 1 ELSE 0
FreeBlocks == 1..NBLOCKS \ bitmap
Block(i, used) == IF copy[i].blk # None THEN copy[i].blk ELSE Min(1..NBLOCKS \ used)

Type(i) == copy[i].type
Lookup(i, n) == CASE n = "." -> i [] n = ".." -> up[i] [] OTHER -> ents[i][n]
Empty(i) == ents[i] = NoEntries

\* The entries that are i; Named: a path leads to i.
EntriesOf(i) == {e \in Inums \X Names : ents[e[1]][e[2]] = i}
Named(i) == i = Root \/ EntriesOf(i) # {}

-----------------------------------------------------------------------------
(* iput *)

Putting(p, l) == puts[p] # <<>> /\ iputs[p] = l /\ panicked = {}

\* Nobody else has a reference.
LastRef(i) == ref[i] = 1

\* The inode is locked; unless it has no links and this is the last reference to it,
\* that is all.
IputLock(p) == LET i == Head(puts[p]) IN
    /\ Putting(p, "lock")
    /\ lock[i] = NoProc
    /\ IF valid[i] /\ copy[i].nlink = 0 /\ LastRef(i)
       THEN Ilock(p, i) /\ iputs' = [iputs EXCEPT ![p] = "free"]
       ELSE iputs' = [iputs EXCEPT ![p] = "deref"] /\ UNCHANGED lock
    /\ UNCHANGED <<disk, copy, valid, ref, user, local, puts, panicked, removed>>

\* Mutant: the block stays in use.
BlockKept(i) == {}

BlocksOf(i) == {copy[i].blk} \ {None}

\* itrunc, type = 0 and iupdate
IputFree(p) == LET i == Head(puts[p]) IN
    /\ Putting(p, "free")
    /\ BlocksOf(i) \subseteq bitmap
    /\ bitmap' = bitmap \ BlocksOf(i)
    /\ ents' = [ents EXCEPT ![i] = NoEntries]
    /\ Iupdate(Only(i, Free))
    /\ iputs' = [iputs EXCEPT ![p] = "free2"]
    /\ removed' = removed \ {i}
    /\ UNCHANGED <<up, valid, ref, lock, user, local, puts, panicked>>

\* Mutant: the copy of the inode that has been freed stays valid.
StaysValid(i) == valid

Invalidated(i) == [valid EXCEPT ![i] = FALSE]

IputRelease(p) == LET i == Head(puts[p]) IN
    /\ Putting(p, "free2")
    /\ valid' = Invalidated(i)
    /\ Iunlock(i)
    /\ iputs' = [iputs EXCEPT ![p] = "deref"]
    /\ UNCHANGED <<disk, copy, ref, user, local, puts, panicked, removed>>

IputDeref(p) ==
    /\ Putting(p, "deref")
    /\ ref' = [ref EXCEPT ![Head(puts[p])] = @ - 1]
    /\ puts' = [puts EXCEPT ![p] = Tail(@)]
    /\ iputs' = [iputs EXCEPT ![p] = "lock"]
    /\ UNCHANGED <<disk, copy, valid, lock, user, local, panicked, removed>>

Iput(p) == IputLock(p) \/ IputFree(p) \/ IputRelease(p) \/ IputDeref(p)

-----------------------------------------------------------------------------
(* The calls *)

Call(p) == Head(script[p])

\* p is at label l with nothing to iput, and has the lock that it needs there.
At(p, l) == pc[p] = l /\ has[p] /\ puts[p] = <<>> /\ panicked = {}

\* The next label; Go keeps a lock for what follows there, and Return ends the call.
To(p, l, locked) == pc' = [pc EXCEPT ![p] = l] /\ has' = [has EXCEPT ![p] = locked]
Go(p, l) == To(p, l, FALSE) /\ UNCHANGED script
Return(p) == To(p, "idle", FALSE) /\ script' = [script EXCEPT ![p] = Tail(@)]

Put(p, s) == puts' = [puts EXCEPT ![p] = @ \o s]
Set(v, p, i) == [v EXCEPT ![p] = i]

\* The inode whose lock p needs at its label
Target(p) == CASE pc[p] = "walk" -> cur[p]
               [] pc[p] \in {"open", "exists", "new", "unlinked", "link", "bad", "chdir", "chmod"} -> ip[p]
               [] pc[p] \in {"create", "unlink", "dirlink"} -> dp[p]
               [] pc[p] = "write" -> fd[p]
               [] OTHER -> None

CanLock(p) == LET i == Target(p)
              IN  puts[p] = <<>> /\ panicked = {} /\ i # None /\ ~has[p] /\ lock[i] = NoProc
NoType(i) == ~valid[i] /\ dinode[i].type = "FREE"

\* ilock
Lock(p) == LET i == Target(p) IN
    /\ CanLock(p) /\ ~NoType(i)
    /\ Ilock(p, i)
    /\ copy' = [copy EXCEPT ![i] = IF valid[i] THEN @ ELSE dinode[i]]
    /\ valid' = [valid EXCEPT ![i] = TRUE]
    /\ has' = [has EXCEPT ![p] = TRUE]
    /\ UNCHANGED <<disk, ref, user, pc, path, cur, ip, dp, puts, iputs, panicked, removed>>

\* link walks to a file and then to a directory, the others to one of both.
Second(p) == Call(p).op = "link" /\ ip[p] # None
ToParent(p) == Call(p).op \in {"create", "mkdir", "mknod", "unlink"} \/ Second(p)

\* Where the call goes on after namex
Walked(p) == CASE Call(p).op \in {"create", "mkdir", "mknod"} -> "create"
               [] Second(p) -> "dirlink"
               [] OTHER -> Call(p).op

\* namex starts at the root or at the current directory.
StartWalk(p, s) ==
    LET i == IF Absolute(s) THEN Root ELSE cwd[p]
    IN  /\ ref' = [ref EXCEPT ![i] = @ + 1]
        /\ cur' = Set(cur, p, i)
        /\ path' = [path EXCEPT ![p] = Rest(s)]

Begin(p) ==
    /\ pc[p] = "idle" /\ puts[p] = <<>> /\ panicked = {}
    /\ script[p] # <<>> /\ Call(p).op \notin {"close", "write"}
    /\ StartWalk(p, Call(p).path)
    /\ Go(p, "walk")
    /\ UNCHANGED <<disk, copy, valid, lock, cwd, fd, ip, dp, puts, iputs, panicked, removed>>

\* A path that leads nowhere: the call fails, and link takes its link back.
WalkFails(p) == /\ IF Second(p) THEN Go(p, "bad") ELSE Return(p)
                /\ cur' = Set(cur, p, None)
                /\ UNCHANGED <<cwd, fd, path, ip, dp>>

\* One round of namex's loop
Walk(p) ==
    LET i == cur[p]
        next == Lookup(i, Head(path[p]))
        last == Len(path[p]) = 1
    IN  /\ At(p, "walk")
        /\ IF Type(i) = "DIR" /\ last /\ ToParent(p)
           THEN /\ dp' = Set(dp, p, i) /\ cur' = Set(cur, p, None)
                /\ Go(p, Walked(p))
                /\ UNCHANGED <<valid, ref, cwd, fd, path, ip, puts>>
           ELSE IF Type(i) # "DIR" \/ next = None
           THEN /\ WalkFails(p)
                /\ Put(p, <<i>>)
                /\ UNCHANGED <<valid, ref>>
           ELSE /\ ~NoEntry(next)
                /\ Iget(next)
                /\ Put(p, <<i>>)
                /\ IF last
                   THEN ip' = Set(ip, p, next) /\ cur' = Set(cur, p, None) /\ Go(p, Walked(p))
                   ELSE cur' = Set(cur, p, next) /\ Go(p, "walk") /\ UNCHANGED ip
                /\ path' = [path EXCEPT ![p] = Tail(@)]
                /\ UNCHANGED <<cwd, fd, dp>>
        /\ Iunlock(i)
        /\ UNCHANGED <<disk, copy, iputs, panicked, removed>>

\* iunlockput(ip) and the end of the call
PutIp(p) == /\ Iunlock(ip[p])
            /\ Put(p, <<ip[p]>>)
            /\ ip' = Set(ip, p, None)
            /\ Return(p)
            /\ UNCHANGED <<copy, valid, ref, cwd, fd, path, cur, dp, iputs, panicked>>

-----------------------------------------------------------------------------
(* open, create, mkdir, mknod *)

\* A directory can only be opened for reading; then there may be no free descriptor.
Open(p) ==
    /\ At(p, "open")
    /\ IF (Call(p).op = "open" /\ Call(p).write /\ Type(ip[p]) = "DIR") \/ fd[p] # None
       THEN PutIp(p)
       ELSE /\ fd' = Set(fd, p, ip[p]) /\ ip' = Set(ip, p, None)
            /\ Iunlock(ip[p])
            /\ Return(p)
            /\ UNCHANGED <<copy, valid, ref, cwd, path, cur, dp, puts, iputs, panicked>>
    /\ UNCHANGED <<disk, removed>>

NewType(p) == CASE Call(p).op = "create" -> "FILE"
                [] Call(p).op = "mkdir" -> "DIR"
                [] Call(p).op = "mknod" -> "DEV"
FreeInodes == {i \in Inums : dinode[i].type = "FREE"}

\* Mutant: create forgets the parent when the name is there.
KeepParent(p) == UNCHANGED <<lock, puts>>

\* iunlockput(dp)
PutParent(p) == Iunlock(dp[p]) /\ Put(p, <<dp[p]>>)

\* create has the parent: the name is there already, or an inode is allocated.
Create(p) ==
    LET old == Lookup(dp[p], Head(path[p]))
        new == Min(FreeInodes)
    IN  /\ At(p, "create")
        /\ IF old # None
           THEN /\ ~NoEntry(old)
                /\ Iget(old)
                /\ ip' = Set(ip, p, old) /\ dp' = Set(dp, p, None)
                /\ PutParent(p)
                /\ Go(p, "exists")
                /\ UNCHANGED dinode
           ELSE /\ FreeInodes # {} /\ ~NoEntry(new)
                /\ dinode' = [dinode EXCEPT ![new] = [Free EXCEPT !.type = NewType(p)]]
                /\ Iget(new)
                /\ ip' = Set(ip, p, new)
                /\ Go(p, "new")
                /\ UNCHANGED <<lock, dp, puts>>
        /\ UNCHANGED <<ents, up, bitmap, copy, cwd, fd, path, cur, iputs, panicked, removed>>

CreateExists(p) ==
    /\ At(p, "exists")
    /\ IF Call(p).op = "create" /\ Type(ip[p]) = "FILE"
       THEN To(p, "open", TRUE) /\ UNCHANGED <<icache, user, path, cur, ip, dp, puts, iputs, panicked>>
       ELSE PutIp(p)
    /\ UNCHANGED <<disk, removed>>

\* Blocks for the entries of a new directory, and for the first one of its parent
BlocksToMake(p) == NewBlocks(dp[p]) + IF Call(p).op = "mkdir" THEN NewBlocks(ip[p]) ELSE 0

\* create fills the new inode and enters it; ip stays locked while dp is given back.
CreateNew(p) ==
    LET i == ip[p]
        d == dp[p]
        isdir == Call(p).op = "mkdir"
        b == IF isdir THEN Block(i, bitmap) ELSE copy[i].blk
        bd == Block(d, bitmap \cup {b})
    IN  /\ At(p, "new")
        /\ Cardinality(FreeBlocks) >= BlocksToMake(p)
        /\ Iupdate([j \in {i, d} |->
              IF j = i THEN [copy[i] EXCEPT !.nlink = 1, !.mode = Bits, !.blk = b]
              ELSE [copy[d] EXCEPT !.nlink = @ + (IF isdir THEN 1 ELSE 0), !.blk = bd]])
        /\ bitmap' = bitmap \cup ({b, bd} \ {None})
        /\ ents' = [ents EXCEPT ![d][Head(path[p])] = i]
        /\ up' = [up EXCEPT ![i] = IF isdir THEN d ELSE @]
        /\ removed' = IF Named(d) THEN removed ELSE removed \cup {i}
        /\ PutParent(p)
        /\ dp' = Set(dp, p, None)
        /\ To(p, IF Call(p).op = "create" THEN "open" ELSE "made", TRUE)
        /\ UNCHANGED <<valid, ref, user, path, cur, ip, iputs, panicked>>

\* mkdir and mknod
Made(p) == At(p, "made") /\ PutIp(p) /\ UNCHANGED <<disk, removed>>

-----------------------------------------------------------------------------
(* link and unlink *)

Link(p) ==
    /\ At(p, "link")
    /\ IF Type(ip[p]) = "DIR"
       THEN PutIp(p) /\ UNCHANGED disk
       ELSE /\ Iupdate(Only(ip[p], [copy[ip[p]] EXCEPT !.nlink = @ + 1]))
            /\ Iunlock(ip[p])
            /\ StartWalk(p, Call(p).new)
            /\ Go(p, "walk")
            /\ UNCHANGED <<ents, up, bitmap, valid, cwd, fd, ip, dp, puts, iputs, panicked>>
    /\ UNCHANGED removed

\* dirlink: the name is there, and is put with dp still locked, or is entered.
DirLink(p) ==
    LET d == dp[p]
        old == Lookup(d, Head(path[p]))
    IN  /\ At(p, "dirlink")
        /\ IF old # None
           THEN /\ ~NoEntry(old)
                /\ Iget(old)
                /\ Put(p, <<old>>)
                /\ To(p, "linkfails", TRUE)
                /\ UNCHANGED <<disk, copy, lock, script, ip, dp, removed>>
           ELSE /\ Cardinality(FreeBlocks) >= NewBlocks(d)
                /\ Iupdate(Only(d, [copy[d] EXCEPT !.blk = Block(d, bitmap)]))
                /\ bitmap' = bitmap \cup {Block(d, bitmap)}
                /\ ents' = [ents EXCEPT ![d][Head(path[p])] = ip[p]]
                /\ removed' = IF Named(d) THEN removed ELSE removed \cup {ip[p]}
                /\ Iunlock(d)
                /\ Put(p, <<d, ip[p]>>)
                /\ ip' = Set(ip, p, None) /\ dp' = Set(dp, p, None)
                /\ Return(p)
                /\ UNCHANGED <<up, valid, ref>>
        /\ UNCHANGED <<cwd, fd, path, cur, iputs, panicked>>

LinkFails(p) ==
    /\ At(p, "linkfails")
    /\ PutParent(p)
    /\ dp' = Set(dp, p, None)
    /\ Go(p, "bad")
    /\ UNCHANGED <<disk, copy, valid, ref, cwd, fd, path, cur, ip, iputs, panicked, removed>>

\* Mutant: link's error path keeps the link.
LinkKept(i) == copy[i]

Unlinked(i) == [copy[i] EXCEPT !.nlink = @ - 1]

\* A link fewer, at unlink's end and on link's error path
Bad(p) == LET i == ip[p] IN
    /\ At(p, "bad") \/ At(p, "last")
    /\ Iupdate(Only(i, Unlinked(i)))
    /\ Iunlock(i)
    /\ Put(p, <<i>>)
    /\ ip' = Set(ip, p, None)
    /\ Return(p)
    /\ UNCHANGED <<ents, up, bitmap, valid, ref, cwd, fd, path, cur, dp, iputs, panicked, removed>>

\* iunlockput(dp) and the end of the call
PutDp(p) == /\ PutParent(p)
            /\ dp' = Set(dp, p, None)
            /\ Return(p)

Unlink(p) == LET old == Lookup(dp[p], Head(path[p])) IN
    /\ At(p, "unlink")
    /\ IF Head(path[p]) \in {".", ".."} \/ old = None
       THEN PutDp(p) /\ UNCHANGED <<valid, ref, ip>>
       ELSE /\ ~NoEntry(old)
            /\ Iget(old)
            /\ ip' = Set(ip, p, old)
            /\ Go(p, "unlinked")
            /\ UNCHANGED <<lock, dp, puts>>
    /\ UNCHANGED <<disk, copy, cwd, fd, path, cur, iputs, panicked, removed>>

\* The entry goes; ip stays locked while dp is given back.  A directory that is not
\* empty is put with dp still locked.
UnlinkEntry(p) ==
    LET i == ip[p]
        d == dp[p]
        isdir == Type(i) = "DIR"
    IN  /\ At(p, "unlinked")
        /\ copy[i].nlink > 0
        /\ IF isdir /\ ~Empty(i)
           THEN /\ Iunlock(i)
                /\ Put(p, <<i>>)
                /\ ip' = Set(ip, p, None)
                /\ To(p, "unlinkfails", TRUE)
                /\ UNCHANGED <<disk, copy, dp>>
           ELSE /\ ents' = [ents EXCEPT ![d][Head(path[p])] = None]
                /\ Iupdate(Only(d, [copy[d] EXCEPT !.nlink = @ - (IF isdir THEN 1 ELSE 0)]))
                /\ PutParent(p)
                /\ dp' = Set(dp, p, None)
                /\ To(p, "last", TRUE)
                /\ UNCHANGED <<up, bitmap, ip>>
        /\ UNCHANGED <<valid, ref, user, path, cur, iputs, panicked, removed>>

UnlinkFails(p) ==
    /\ At(p, "unlinkfails")
    /\ PutDp(p)
    /\ UNCHANGED <<disk, copy, valid, ref, cwd, fd, path, cur, ip, iputs, panicked, removed>>

-----------------------------------------------------------------------------
(* chdir, chmod, close, write *)

\* The old directory is put before cwd changes.
Chdir(p) ==
    /\ At(p, "chdir")
    /\ IF Type(ip[p]) # "DIR"
       THEN PutIp(p)
       ELSE /\ Iunlock(ip[p])
            /\ Put(p, <<cwd[p]>>)
            /\ To(p, "chdir2", TRUE)
            /\ UNCHANGED <<copy, valid, ref, user, path, cur, ip, dp, iputs, panicked>>
    /\ UNCHANGED <<disk, removed>>

SetCwd(p) ==
    /\ At(p, "chdir2")
    /\ cwd' = Set(cwd, p, ip[p]) /\ ip' = Set(ip, p, None)
    /\ Return(p)
    /\ UNCHANGED <<disk, icache, fd, path, cur, dp, puts, iputs, panicked, removed>>

Chmod(p) == LET i == ip[p] IN
    /\ At(p, "chmod")
    /\ Iupdate(Only(i, [copy[i] EXCEPT !.mode = Call(p).mode]))
    /\ Iunlock(i)
    /\ Put(p, <<i>>)
    /\ ip' = Set(ip, p, None)
    /\ Return(p)
    /\ UNCHANGED <<ents, up, bitmap, valid, ref, cwd, fd, path, cur, dp, iputs, panicked, removed>>

Calls(p, op) == /\ pc[p] = "idle" /\ puts[p] = <<>> /\ panicked = {}
                /\ script[p] # <<>> /\ Call(p).op = op

Close(p) ==
    /\ Calls(p, "close")
    /\ Put(p, IF fd[p] = None THEN <<>> ELSE <<fd[p]>>)
    /\ fd' = Set(fd, p, None)
    /\ Return(p)
    /\ UNCHANGED <<disk, icache, cwd, path, cur, ip, dp, iputs, panicked, removed>>

\* sys_write looks at the protection bits without the inode's lock.
MayWrite(p) == fd[p] # None /\ "w" \in copy[fd[p]].mode
StartWrite(p) ==
    /\ Calls(p, "write")
    /\ IF MayWrite(p) THEN Go(p, "write") ELSE Return(p)
    /\ UNCHANGED <<disk, icache, cwd, fd, path, cur, ip, dp, puts, iputs, panicked, removed>>

Write(p) == LET i == fd[p] IN
    /\ At(p, "write")
    /\ Cardinality(FreeBlocks) >= NewBlocks(i)
    /\ Iupdate(Only(i, [copy[i] EXCEPT !.blk = Block(i, bitmap)]))
    /\ bitmap' = bitmap \cup {Block(i, bitmap)}
    /\ Iunlock(i)
    /\ Return(p)
    /\ UNCHANGED <<ents, up, valid, ref, cwd, fd, path, cur, ip, dp, puts, iputs, panicked, removed>>

-----------------------------------------------------------------------------
(* panic *)

\* What p looks up at its label
Found(p) == Lookup(IF pc[p] = "walk" THEN cur[p] ELSE dp[p], Head(path[p]))
LooksUp(p) == \/ At(p, "walk") /\ Type(cur[p]) = "DIR" /\ ~(Len(path[p]) = 1 /\ ToParent(p))
              \/ At(p, "create") \/ At(p, "dirlink")
              \/ At(p, "unlink") /\ Head(path[p]) \notin {".", ".."}

Panic(p, what) ==
    /\ \/ what = "iget: no inodes" /\ LooksUp(p) /\ Found(p) # None /\ NoEntry(Found(p))
       \/ what = "iget: no inodes" /\ At(p, "create") /\ Found(p) = None
             /\ FreeInodes # {} /\ NoEntry(Min(FreeInodes))
       \/ what = "ialloc: no inodes" /\ At(p, "create") /\ Found(p) = None /\ FreeInodes = {}
       \/ what = "balloc: out of blocks" /\ Cardinality(FreeBlocks) <
             (IF At(p, "new") THEN BlocksToMake(p)
              ELSE IF At(p, "dirlink") /\ Found(p) = None THEN NewBlocks(dp[p])
              ELSE IF At(p, "write") THEN NewBlocks(fd[p]) ELSE 0)
       \/ what = "freeing free block" /\ Putting(p, "free") /\ ~(BlocksOf(Head(puts[p])) \subseteq bitmap)
       \/ what = "ilock: no type" /\ CanLock(p) /\ NoType(Target(p))
       \/ what = "unlink: nlink < 1" /\ At(p, "unlinked") /\ copy[ip[p]].nlink = 0
    /\ panicked' = {what}
    /\ UNCHANGED <<disk, icache, user, local, puts, iputs, removed>>

Messages == {"iget: no inodes", "ialloc: no inodes", "balloc: out of blocks",
             "freeing free block", "ilock: no type", "unlink: nlink < 1"}

Step(p) == \/ Begin(p) \/ Lock(p) \/ Walk(p) \/ Iput(p)
           \/ Open(p) \/ Create(p) \/ CreateExists(p) \/ CreateNew(p) \/ Made(p)
           \/ Link(p) \/ DirLink(p) \/ LinkFails(p) \/ Bad(p)
           \/ Unlink(p) \/ UnlinkEntry(p) \/ UnlinkFails(p)
           \/ Chdir(p) \/ SetCwd(p) \/ Chmod(p) \/ Close(p) \/ StartWrite(p) \/ Write(p)

Next == \E p \in Procs : Step(p) \/ \E what \in Messages : Panic(p, what)

Spec == Init /\ [][Next]_vars

-----------------------------------------------------------------------------
(* Properties *)

Allocated == {i \in Inums : dinode[i].type # "FREE"}
Subdirs(i) == {n \in Names : ents[i][n] # None /\ dinode[ents[i][n]].type = "DIR"}

\* Links that are counted without an entry: link has not made it yet, or unlink has
\* removed it.
Pending(i) == {p \in Procs : ip[p] = i /\ \/ pc[p] = "last"
                                          \/ Second(p) /\ pc[p] # "link"}

\* The links of an inode are its names, for a directory also its subdirectories, in
\* every state of any number of calls at once and on every path that fails: a file is
\* neither freed while it has a name, nor kept when it has none.  Only what is made
\* in a directory that somebody else has removed meanwhile is kept for ever.
LinksOf(i) == Cardinality(EntriesOf(i)) + Cardinality(Subdirs(i)) + Cardinality(Pending(i))
            + (IF i = Root THEN 1 ELSE 0)
LinksExact ==
    /\ \A d \in Inums, n \in Names : ents[d][n] # None => ents[d][n] \in Allocated
    /\ \A i \in Allocated : /\ dinode[i].nlink >= LinksOf(i)
                            /\ i \notin removed => dinode[i].nlink = LinksOf(i)

\* The directories that a process is in have a parent.  A call that opens ".." of a current
\* directory which has been removed, and whose parent has been, too, finds a free inode.
ParentsNamed == \A p \in Procs : \A d \in {cur[p], dp[p]} \ {None} : Named(up[d])

\* The inodes that p has a reference to, by place: its open file, its current directory,
\* what the call has, and what is to be put; and the places that hold inode i
Hand(p) == <<fd[p], IF pc[p] = "chdir2" THEN None ELSE cwd[p], cur[p], ip[p], dp[p]>> \o puts[p]
Uses(i) == UNION {{<<p, k>> : k \in {j \in DOMAIN Hand(p) : Hand(p)[j] = i}} : p \in Procs}

\* An inode in use stays what it is: the references counted are those that processes
\* have, what they use is allocated until they free it, and what is cached is what is
\* on the disk.  The kernel panics only when something has run out.
InodesKept ==
    /\ \A i \in Inums : /\ ref[i] = Cardinality(Uses(i)) + (IF i = Root THEN 1 ELSE 0)
                        /\ valid[i] /\ ref[i] > 0 /\ lock[i] = NoProc => copy[i] = dinode[i]
    /\ \A p \in Procs, k \in 1..5 : Hand(p)[k] \in Allocated \cup {None}
    /\ panicked \subseteq {"ialloc: no inodes", "iget: no inodes", "balloc: out of blocks"}

\* A block belongs to one inode and is marked in use exactly then.
BlocksOnce ==
    /\ bitmap = {dinode[i].blk : i \in Inums} \ {None}
    /\ \A i, j \in Inums : dinode[i].blk = dinode[j].blk /\ i # j => dinode[i].blk = None

\* What p waits for
Wanted(p) == IF puts[p] # <<>> THEN IF iputs[p] = "lock" THEN Head(puts[p]) ELSE None
             ELSE IF has[p] THEN None ELSE Target(p)
WaitsFor(p, q) == Wanted(p) # None /\ lock[Wanted(p)] = q

\* The order in which the calls lock inodes, a directory before what is in it, is
\* safe: two processes can only wait for each other's inodes if one of them does so in
\* iput, which locks an inode that the process had just unlocked.
OnlyIputDeadlocks == \A p, q \in Procs :
    WaitsFor(p, q) /\ WaitsFor(q, p) => puts[p] # <<>> \/ puts[q] # <<>>

\* "If that was the last reference and the inode has no links to it, free the inode
\* (and its content) on disk" (fs.c, iput).  Two processes that put the last two
\* references at once both see the other's.
LastPutFrees == \A i \in Allocated : ref[i] = 0 => dinode[i].nlink > 0
=============================================================================
