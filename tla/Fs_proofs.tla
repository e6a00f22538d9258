------------------------------ MODULE Fs_proofs ------------------------------
(***************************************************************************)
(* The file system's cache, references and blocks, for any number of       *)
(* processes, inodes and calls.  The invariant says what a process has and *)
(* has locked at each label of a call, that references are counted where   *)
(* they are, that an inode that is cached and in use is as on the disk     *)
(* unless its last user has just freed it, and that blocks and inodes      *)
(* agree.  A step is that of one process, and changes the locks,           *)
(* references and places of that process only: KeptNext shows once what    *)
(* this leaves alone, and each branch of each step is then one lemma about *)
(* what it does to its own process.                                        *)
(*                                                                         *)
(* A second invariant, LinkInv, says what entries, links and allocated     *)
(* inodes have to do with each other.  It holds while no process is in a   *)
(* directory whose parent has been removed (ParentsNamed).                 *)
(***************************************************************************)
EXTENDS Fs, FiniteSetTheorems, SequenceTheorems, WellFoundedInduction, TLAPS

-----------------------------------------------------------------------------
(* The invariant *)

Dots == {".", ".."}
Labels == {"idle", "walk", "create", "exists", "new", "made", "open", "link", "dirlink", "linkfails",
           "bad", "unlink", "unlinked", "unlinkfails", "last", "chdir", "chdir2", "chmod", "write"}
Slot == Inums \cup {None}
Inode == [type : {"FREE", "FILE", "DIR", "DEV"}, nlink : Int, mode : SUBSET Bits, blk : 0..NBLOCKS]

DataTypes ==
    /\ dinode \in [Inums -> Inode] /\ copy \in [Inums -> Inode]
    /\ ents \in [Inums -> [Names -> Slot]]
    /\ up \in [Inums -> Inums]
    /\ bitmap \subseteq 1..NBLOCKS
    /\ valid \in [Inums -> BOOLEAN]
    /\ ref \in [Inums -> Nat]
    /\ lock \in [Inums -> Procs \cup {NoProc}]
    /\ removed \subseteq Inums

LocalTypes ==
    /\ cwd \in [Procs -> Inums]
    /\ fd \in [Procs -> Slot] /\ cur \in [Procs -> Slot]
    /\ ip \in [Procs -> Slot] /\ dp \in [Procs -> Slot]
    /\ script \in [Procs -> Seq(SysCalls)]
    /\ pc \in [Procs -> Labels]
    /\ has \in [Procs -> BOOLEAN]
    /\ path \in [Procs -> Seq(Names \cup Dots)]
    /\ puts \in [Procs -> Seq(Inums)]
    /\ iputs \in [Procs -> {"lock", "free", "free2", "deref"}]

TypesInv == DataTypes /\ LocalTypes

\* The inodes that p has locked: the one that it needs at its label, one that it has kept
\* from the label before, or the one that it is freeing.
Holds(p, i) == \/ has[p] /\ Target(p) = i
               \/ pc[p] \in {"new", "unlinked"} /\ dp[p] = i
               \/ pc[p] \in {"linkfails", "unlinkfails"} /\ dp[p] = i
               \/ pc[p] \in {"made", "last"} /\ ip[p] = i
Locks(p, i) == Holds(p, i) \/ (puts[p] # <<>> /\ iputs[p] \in {"free", "free2"} /\ Head(puts[p]) = i)

AtName(p) == Len(path[p]) = 1
InCall(p, ops) == script[p] # <<>> /\ Call(p).op \in ops

\* Which of namex's ip and the call's ip and dp p has
Shape(p, c, i, d) == (cur[p] # None) = c /\ (ip[p] # None) = i /\ (dp[p] # None) = d

Creates == {"create", "mkdir", "mknod"}

\* What p has, and which call it is in, at each label
CallInv(p) ==
    /\ Len(puts[p]) <= 2
    /\ puts[p] = <<>> => iputs[p] = "lock"
    /\ puts[p] # <<>> /\ iputs[p] \in {"free", "free2"} => ~Holds(p, Head(puts[p]))
    /\ pc[p] = "idle" => Shape(p, FALSE, FALSE, FALSE) /\ ~has[p]
    /\ pc[p] # "idle" => script[p] # <<>>
    /\ pc[p] = "walk" => /\ Shape(p, TRUE, ip[p] # None, FALSE) /\ path[p] # <<>>
                         /\ InCall(p, Creates \cup {"unlink", "chdir", "open", "link", "chmod"})
                         /\ ip[p] # None => InCall(p, {"link"})
    /\ pc[p] = "create" => Shape(p, FALSE, FALSE, TRUE) /\ AtName(p) /\ InCall(p, Creates)
    /\ pc[p] = "exists" => Shape(p, FALSE, TRUE, FALSE) /\ InCall(p, Creates)
    /\ pc[p] = "new" => /\ Shape(p, FALSE, TRUE, TRUE) /\ AtName(p) /\ InCall(p, Creates)
                        /\ Head(path[p]) \in Names
                        /\ has[p] => ip[p] # dp[p]
    /\ pc[p] = "made" => Shape(p, FALSE, TRUE, FALSE) /\ InCall(p, {"mkdir", "mknod"}) /\ has[p]
    /\ pc[p] = "open" => Shape(p, FALSE, TRUE, FALSE) /\ InCall(p, {"open", "create"})
    /\ pc[p] = "link" => Shape(p, FALSE, TRUE, FALSE) /\ InCall(p, {"link"})
    /\ pc[p] = "dirlink" => Shape(p, FALSE, TRUE, TRUE) /\ AtName(p) /\ InCall(p, {"link"})
    /\ pc[p] = "linkfails" => Shape(p, FALSE, TRUE, TRUE) /\ InCall(p, {"link"}) /\ has[p]
    /\ pc[p] = "bad" => Shape(p, FALSE, TRUE, FALSE) /\ InCall(p, {"link"})
    /\ pc[p] = "unlink" => Shape(p, FALSE, FALSE, TRUE) /\ AtName(p) /\ InCall(p, {"unlink"})
    /\ pc[p] = "unlinked" => /\ Shape(p, FALSE, TRUE, TRUE) /\ AtName(p) /\ InCall(p, {"unlink"})
                             /\ Head(path[p]) \in Names
                             /\ has[p] => ip[p] # dp[p]
    /\ pc[p] = "unlinkfails" => Shape(p, FALSE, FALSE, TRUE) /\ InCall(p, {"unlink"}) /\ has[p]
    /\ pc[p] = "last" => Shape(p, FALSE, TRUE, FALSE) /\ InCall(p, {"unlink"}) /\ has[p]
    /\ pc[p] = "chdir" => Shape(p, FALSE, TRUE, FALSE) /\ InCall(p, {"chdir"})
    /\ pc[p] = "chdir2" => Shape(p, FALSE, TRUE, FALSE) /\ InCall(p, {"chdir"}) /\ has[p]
    /\ pc[p] = "chmod" => Shape(p, FALSE, TRUE, FALSE) /\ InCall(p, {"chmod"})
    /\ pc[p] = "write" => Shape(p, FALSE, FALSE, FALSE) /\ fd[p] # None /\ InCall(p, {"write"})

\* An inode is locked by who has its lock, and is then in the cache.
LocksInv == \A i \in Inums : /\ \A p \in Procs : lock[i] = p <=> Locks(p, i)
                             /\ lock[i] # NoProc => valid[i]

\* A reference for every place that has the inode, and one for the init process
RefsInv == \A i \in Inums : ref[i] = Cardinality(Uses(i)) + (IF i = Root THEN 1 ELSE 0)

\* Somebody has freed inode i and not yet marked its copy.
Freed(i) == \E p \in Procs : puts[p] # <<>> /\ iputs[p] = "free2" /\ Head(puts[p]) = i

\* What is in the cache is what is on the disk, of an inode in use; a free inode is empty.
CacheInv == \A i \in Inums :
    /\ valid[i] /\ ref[i] > 0 /\ ~Freed(i) => copy[i] = dinode[i] /\ dinode[i].type # "FREE"
    /\ dinode[i].type = "FREE" => dinode[i] = Free

BlocksInv == /\ TypesInv
             /\ \A p \in Procs : CallInv(p)
             /\ LocksInv /\ RefsInv /\ CacheInv
             /\ BlocksOnce

-----------------------------------------------------------------------------
(* Counting the places that have an inode *)

One(c) == IF c THEN 1 ELSE 0

LEMMA OneMore ==
    ASSUME NEW S, NEW n \in Nat
    PROVE  /\ IsFiniteSet(S \cap 1..n) => IsFiniteSet(S \cap 1..(n+1))
           /\ IsFiniteSet(S \cap 1..n) =>
                 Cardinality(S \cap 1..(n+1)) = Cardinality(S \cap 1..n) + One(n+1 \in S)
<1>1. CASE n+1 \in S
  <2>1. S \cap 1..(n+1) = (S \cap 1..n) \cup {n+1}
    BY <1>1
  <2>2. n+1 \notin S \cap 1..n
    OBVIOUS
  <2>3. ASSUME IsFiniteSet(S \cap 1..n)
        PROVE  /\ IsFiniteSet((S \cap 1..n) \cup {n+1})
               /\ Cardinality((S \cap 1..n) \cup {n+1}) = Cardinality(S \cap 1..n) + 1
    BY <2>2, <2>3, FS_AddElement
  <2> QED
    BY <2>1, <2>3, <1>1 DEF One
<1>2. CASE n+1 \notin S
  <2>1. S \cap 1..(n+1) = S \cap 1..n
    BY <1>2
  <2>2. IsFiniteSet(S \cap 1..n) => Cardinality(S \cap 1..n) \in Nat
    BY FS_CardinalityType
  <2>3. One(n+1 \in S) = 0
    BY <1>2 DEF One
  <2>4. \A m \in Nat : m = m + 0
    OBVIOUS
  <2> QED
    BY <2>1, <2>2, <2>3, <2>4
<1> QED
  BY <1>1, <1>2

LEMMA Seven ==
    ASSUME NEW S, S \subseteq 1..7
    PROVE  /\ IsFiniteSet(S)
           /\ Cardinality(S) = One(1 \in S) + One(2 \in S) + One(3 \in S) + One(4 \in S)
                               + One(5 \in S) + One(6 \in S) + One(7 \in S)
<1> DEFINE T(n) == S \cap 1..n
<1>0. IsFiniteSet(T(0)) /\ Cardinality(T(0)) = 0
  <2>1. T(0) = {}
    OBVIOUS
  <2> QED
    BY <2>1, FS_EmptySet
<1>1. IsFiniteSet(T(1)) /\ Cardinality(T(1)) = One(1 \in S)
  <2>1. 0 + 1 = 1 /\ 0 \in Nat
    OBVIOUS
  <2>2. IsFiniteSet(T(0+1)) /\ Cardinality(T(0+1)) = 0 + One(0+1 \in S)
    BY <1>0, OneMore, <2>1
  <2> QED
    BY <2>2 DEF One
<1>2. IsFiniteSet(T(2)) /\ Cardinality(T(2)) = Cardinality(T(1)) + One(2 \in S)
  <2>1. 1 + 1 = 2 /\ 1 \in Nat
    OBVIOUS
  <2>2. IsFiniteSet(T(1+1)) /\ Cardinality(T(1+1)) = Cardinality(T(1)) + One(1+1 \in S)
    BY <1>1, OneMore, <2>1
  <2> QED
    BY <2>2 DEF One
<1>3. IsFiniteSet(T(3)) /\ Cardinality(T(3)) = Cardinality(T(2)) + One(3 \in S)
  <2>2. IsFiniteSet(T(2+1)) /\ Cardinality(T(2+1)) = Cardinality(T(2)) + One(2+1 \in S)
    BY <1>2, OneMore, 2 \in Nat
  <2> QED
    BY <2>2 DEF One
<1>4. IsFiniteSet(T(4)) /\ Cardinality(T(4)) = Cardinality(T(3)) + One(4 \in S)
  <2>2. IsFiniteSet(T(3+1)) /\ Cardinality(T(3+1)) = Cardinality(T(3)) + One(3+1 \in S)
    BY <1>3, OneMore, 3 \in Nat
  <2> QED
    BY <2>2 DEF One
<1>5. IsFiniteSet(T(5)) /\ Cardinality(T(5)) = Cardinality(T(4)) + One(5 \in S)
  <2>2. IsFiniteSet(T(4+1)) /\ Cardinality(T(4+1)) = Cardinality(T(4)) + One(4+1 \in S)
    BY <1>4, OneMore, 4 \in Nat
  <2> QED
    BY <2>2 DEF One
<1>6. IsFiniteSet(T(6)) /\ Cardinality(T(6)) = Cardinality(T(5)) + One(6 \in S)
  <2>2. IsFiniteSet(T(5+1)) /\ Cardinality(T(5+1)) = Cardinality(T(5)) + One(5+1 \in S)
    BY <1>5, OneMore, 5 \in Nat
  <2> QED
    BY <2>2 DEF One
<1>7. IsFiniteSet(T(7)) /\ Cardinality(T(7)) = Cardinality(T(6)) + One(7 \in S)
  <2>2. IsFiniteSet(T(6+1)) /\ Cardinality(T(6+1)) = Cardinality(T(6)) + One(6+1 \in S)
    BY <1>6, OneMore, 6 \in Nat
  <2> QED
    BY <2>2 DEF One
<1>8. T(7) = S
  OBVIOUS
<1>9. \A b \in BOOLEAN : One(b) \in Nat
  BY DEF One
<1> QED
  BY <1>1, <1>2, <1>3, <1>4, <1>5, <1>6, <1>7, <1>8, <1>9

\* How often x is one of the five places and the at most two entries of s
Is(a, x) == One(a = x)
InSeq(s, x) == One(Len(s) >= 1 /\ s[1] = x) + One(Len(s) >= 2 /\ s[2] = x)
OfHand(f, c, u, i, d, s, x) == Is(f, x) + Is(c, x) + Is(u, x) + Is(i, x) + Is(d, x) + InSeq(s, x)
Places(h, x) == {j \in DOMAIN h : h[j] = x}

LEMMA HandCount ==
    ASSUME NEW f \in Slot, NEW c \in Slot, NEW u \in Slot, NEW i \in Slot, NEW d \in Slot,
           NEW s \in Seq(Inums), Len(s) <= 2, NEW x
    PROVE  /\ IsFiniteSet(Places(<<f, c, u, i, d>> \o s, x))
           /\ Cardinality(Places(<<f, c, u, i, d>> \o s, x)) = OfHand(f, c, u, i, d, s, x)
<1> DEFINE h == <<f, c, u, i, d>> \o s
           S == Places(h, x)
<1>1. <<f, c, u, i, d>> \in Seq(Slot) /\ s \in Seq(Slot)
  BY DEF Slot
<1>2. Len(s) \in Nat
  BY <1>1
<1>3. /\ Len(h) = 5 + Len(s)
      /\ h[1] = f /\ h[2] = c /\ h[3] = u /\ h[4] = i /\ h[5] = d
      /\ Len(s) >= 1 => h[6] = s[1]
      /\ Len(s) >= 2 => h[7] = s[2]
  BY <1>1
<1>4. DOMAIN h = 1..(5 + Len(s))
  BY <1>1, <1>3
<1> HIDE DEF h
<1>5. /\ S \subseteq 1..7
      /\ 1 \in S <=> f = x
      /\ 2 \in S <=> c = x
      /\ 3 \in S <=> u = x
      /\ 4 \in S <=> i = x
      /\ 5 \in S <=> d = x
      /\ 6 \in S <=> Len(s) >= 1 /\ s[1] = x
      /\ 7 \in S <=> Len(s) >= 2 /\ s[2] = x
  BY <1>2, <1>3, <1>4 DEF Places
<1> HIDE DEF S
<1>6. /\ IsFiniteSet(S)
      /\ Cardinality(S) = One(1 \in S) + One(2 \in S) + One(3 \in S) + One(4 \in S)
                          + One(5 \in S) + One(6 \in S) + One(7 \in S)
  BY <1>5, Seven
<1>7. /\ One(1 \in S) = Is(f, x) /\ One(2 \in S) = Is(c, x) /\ One(3 \in S) = Is(u, x)
      /\ One(4 \in S) = Is(i, x) /\ One(5 \in S) = Is(d, x)
      /\ One(6 \in S) = One(Len(s) >= 1 /\ s[1] = x)
      /\ One(7 \in S) = One(Len(s) >= 2 /\ s[2] = x)
  BY <1>5 DEF One, Is
<1>8. /\ Is(f, x) \in Nat /\ Is(c, x) \in Nat /\ Is(u, x) \in Nat /\ Is(i, x) \in Nat /\ Is(d, x) \in Nat
      /\ One(Len(s) >= 1 /\ s[1] = x) \in Nat /\ One(Len(s) >= 2 /\ s[2] = x) \in Nat
  BY DEF One, Is
<1>9. Cardinality(S) = Is(f, x) + Is(c, x) + Is(u, x) + Is(i, x) + Is(d, x)
                       + (One(Len(s) >= 1 /\ s[1] = x) + One(Len(s) >= 2 /\ s[2] = x))
  BY <1>6, <1>7, <1>8, SMTT(30)
<1> QED
  BY <1>6, <1>9, Zenon DEF OfHand, InSeq, S, h

\* The entries of the sequences H[q] that are x, of all q in P
AllTags(H, P, x) == UNION {{<<q, k>> : k \in Places(H[q], x)} : q \in P}

LEMMA Tagged ==
    ASSUME NEW q, NEW S, IsFiniteSet(S)
    PROVE  /\ IsFiniteSet({<<q, k>> : k \in S})
           /\ Cardinality({<<q, k>> : k \in S}) = Cardinality(S)
<1> DEFINE T == {<<q, k>> : k \in S}
           f == [k \in S |-> <<q, k>>]
<1>1. f \in Bijection(S, T)
  BY DEF Bijection, Injection, IsInjective, Surjection
<1> QED
  BY <1>1, FS_Bijection DEF ExistsBijection

LEMMA TagsSplit ==
    ASSUME NEW H, \A q \in Procs : DOMAIN H[q] \subseteq 1..7, NEW p \in Procs, NEW x
    PROVE  /\ Cardinality(AllTags(H, Procs \ {p}, x)) \in Nat
           /\ Cardinality(AllTags(H, Procs, x)) =
                 Cardinality(AllTags(H, Procs \ {p}, x)) + Cardinality(Places(H[p], x))
<1> DEFINE A == AllTags(H, Procs \ {p}, x)
           B == {<<p, k>> : k \in Places(H[p], x)}
<1>1. IsFiniteSet(Procs \X (1..7))
  <2>1. IsFiniteSet(1..7)
    BY FS_Interval, 1 \in Int, 7 \in Int
  <2> QED
    BY <2>1, FS_Product, FsAssumption
<1>2. A \subseteq Procs \X (1..7)
  BY DEF AllTags, Places
<1>3. IsFiniteSet(A)
  BY <1>1, <1>2, FS_Subset
<1>4. IsFiniteSet(Places(H[p], x))
  <2>1. Places(H[p], x) \subseteq 1..7
    BY DEF Places
  <2>2. IsFiniteSet(1..7)
    BY FS_Interval, 1 \in Int, 7 \in Int
  <2> QED
    BY <2>1, <2>2, FS_Subset
<1>5. IsFiniteSet(B) /\ Cardinality(B) = Cardinality(Places(H[p], x))
  BY <1>4, Tagged
<1>6. A \cap B = {}
  BY DEF AllTags
<1>7. AllTags(H, Procs, x) = A \cup B
  BY DEF AllTags
<1>8. Cardinality(A \cup B) = Cardinality(A) + Cardinality(B) - Cardinality(A \cap B)
  BY <1>3, <1>5, FS_Union
<1>9. Cardinality(A \cap B) = 0
  BY <1>6, FS_EmptySet
<1>10. Cardinality(A) \in Nat /\ Cardinality(B) \in Nat
  BY <1>3, <1>5, FS_CardinalityType
<1> HIDE DEF A, B
<1>11. Cardinality(AllTags(H, Procs, x)) = Cardinality(A) + Cardinality(B)
  BY <1>7, <1>8, <1>9, <1>10
<1> QED
  BY <1>5, <1>10, <1>11 DEF A

\* What p counts as its current directory, and how many references to inode x it has
Cwd(p) == IF pc[p] = "chdir2" THEN None ELSE cwd[p]
Count(p, x) == OfHand(fd[p], Cwd(p), cur[p], ip[p], dp[p], puts[p], x)

LEMMA HandPlaces ==
    ASSUME NEW f \in Slot, NEW c \in Slot, NEW u \in Slot, NEW i \in Slot, NEW d \in Slot,
           NEW s \in Seq(Inums), Len(s) <= 2
    PROVE  DOMAIN (<<f, c, u, i, d>> \o s) \subseteq 1..7
<1> DEFINE h == <<f, c, u, i, d>>
<1>1. h \in Seq(Slot) /\ s \in Seq(Slot)
  BY DEF Slot
<1>2. Len(s) \in Nat
  BY <1>1
<1>3. h \o s \in Seq(Slot) /\ Len(h \o s) = 5 + Len(s)
  BY <1>1
<1>4. DOMAIN (h \o s) = 1..(5 + Len(s))
  BY <1>3
<1> QED
  BY <1>2, <1>4

LEMMA HandTypes ==
    ASSUME LocalTypes, NEW q \in Procs, Len(puts[q]) <= 2
    PROVE  /\ DOMAIN Hand(q) \subseteq 1..7
           /\ \A x : Cardinality(Places(Hand(q), x)) = Count(q, x)
<1>1. /\ fd[q] \in Slot /\ Cwd(q) \in Slot /\ cur[q] \in Slot /\ ip[q] \in Slot /\ dp[q] \in Slot
      /\ puts[q] \in Seq(Inums)
  BY DEF LocalTypes, Slot, Cwd
<1>2. Hand(q) = <<fd[q], Cwd(q), cur[q], ip[q], dp[q]>> \o puts[q]
  BY DEF Hand, Cwd
<1>3. DOMAIN (<<fd[q], Cwd(q), cur[q], ip[q], dp[q]>> \o puts[q]) \subseteq 1..7
  BY <1>1, HandPlaces
<1>4. ASSUME NEW x
      PROVE  Cardinality(Places(<<fd[q], Cwd(q), cur[q], ip[q], dp[q]>> \o puts[q], x)) = Count(q, x)
  BY <1>1, HandCount DEF Count
<1> QED
  BY <1>2, <1>3, <1>4, Zenon

LEMMA HandTypesNext ==
    ASSUME LocalTypes', NEW q \in Procs, Len(puts'[q]) <= 2
    PROVE  /\ DOMAIN Hand(q)' \subseteq 1..7
           /\ \A x : Cardinality(Places(Hand(q)', x)) = Count(q, x)'
<1>1. /\ fd'[q] \in Slot /\ Cwd(q)' \in Slot /\ cur'[q] \in Slot /\ ip'[q] \in Slot /\ dp'[q] \in Slot
      /\ puts'[q] \in Seq(Inums)
  BY DEF LocalTypes, Slot, Cwd
<1>2. Hand(q)' = <<fd'[q], Cwd(q)', cur'[q], ip'[q], dp'[q]>> \o puts'[q]
  BY DEF Hand, Cwd
<1>3. ASSUME NEW x PROVE Count(q, x)' = OfHand(fd'[q], Cwd(q)', cur'[q], ip'[q], dp'[q], puts'[q], x)
  BY DEF Count, OfHand
<1>4. DOMAIN Hand(q)' \subseteq 1..7
  BY <1>1, <1>2, HandPlaces
<1>5. ASSUME NEW x
      PROVE  Cardinality(Places(Hand(q)', x))
                = OfHand(fd'[q], Cwd(q)', cur'[q], ip'[q], dp'[q], puts'[q], x)
  BY <1>1, <1>2, HandCount
<1> QED
  BY <1>3, <1>4, <1>5

LEMMA UsesSplit ==
    ASSUME LocalTypes, NEW p \in Procs, \A q \in Procs : Len(puts[q]) <= 2, NEW x
    PROVE  /\ Cardinality(AllTags([q \in Procs |-> Hand(q)], Procs \ {p}, x)) \in Nat
           /\ Cardinality(Uses(x)) =
                 Cardinality(AllTags([q \in Procs |-> Hand(q)], Procs \ {p}, x)) + Count(p, x)
<1> DEFINE H == [q \in Procs |-> Hand(q)]
<1>1. Uses(x) = AllTags(H, Procs, x)
  BY DEF Uses, AllTags, Places
<1>2. \A q \in Procs : DOMAIN H[q] \subseteq 1..7
  BY HandTypes
<1> HIDE DEF H
<1>3. /\ Cardinality(AllTags(H, Procs \ {p}, x)) \in Nat
      /\ Cardinality(AllTags(H, Procs, x)) =
            Cardinality(AllTags(H, Procs \ {p}, x)) + Cardinality(Places(H[p], x))
  BY <1>2, TagsSplit
<1>4. Cardinality(Places(H[p], x)) = Count(p, x)
  BY HandTypes DEF H
<1> QED
  BY <1>1, <1>3, <1>4 DEF H

LEMMA UsesSplitNext ==
    ASSUME LocalTypes', NEW p \in Procs, \A q \in Procs : Len(puts'[q]) <= 2, NEW x
    PROVE  /\ Cardinality(AllTags([q \in Procs |-> Hand(q)'], Procs \ {p}, x)) \in Nat
           /\ Cardinality(Uses(x)') =
                 Cardinality(AllTags([q \in Procs |-> Hand(q)'], Procs \ {p}, x)) + Count(p, x)'
<1>0. PICK H : H = [q \in Procs |-> Hand(q)']
  OBVIOUS
<1>1. Uses(x)' = AllTags(H, Procs, x)
  BY <1>0 DEF Uses, AllTags, Places
<1>2. \A q \in Procs : DOMAIN H[q] \subseteq 1..7
  BY <1>0, HandTypesNext
<1>3. /\ Cardinality(AllTags(H, Procs \ {p}, x)) \in Nat
      /\ Cardinality(AllTags(H, Procs, x)) =
            Cardinality(AllTags(H, Procs \ {p}, x)) + Cardinality(Places(H[p], x))
  BY <1>2, TagsSplit
<1>4. Cardinality(Places(H[p], x)) = Count(p, x)'
  BY <1>0, HandTypesNext
<1> QED
  BY <1>0, <1>1, <1>3, <1>4

LEMMA CountType == ASSUME NEW p, NEW x PROVE Count(p, x) \in Nat /\ Count(p, x)' \in Nat
  BY DEF Count, OfHand, InSeq, Is, One

\* A step of p changes the references by as much as what p has.
LEMMA RefsNext ==
    ASSUME LocalTypes, LocalTypes', RefsInv, NEW p \in Procs,
           \A q \in Procs : Len(puts[q]) <= 2, \A q \in Procs : Len(puts'[q]) <= 2,
           \A q \in Procs \ {p} : Hand(q)' = Hand(q),
           ref \in [Inums -> Nat], ref' \in [Inums -> Nat],
           \A x \in Inums : ref'[x] + Count(p, x) = ref[x] + Count(p, x)'
    PROVE  RefsInv'
<1>1. ASSUME NEW x \in Inums
      PROVE  ref'[x] = Cardinality(Uses(x)') + (IF x = Root THEN 1 ELSE 0)
  <2> DEFINE A == AllTags([q \in Procs |-> Hand(q)], Procs \ {p}, x)
             B == AllTags([q \in Procs |-> Hand(q)'], Procs \ {p}, x)
  <2>1. A = B
    BY DEF AllTags
  <2>2. Cardinality(A) \in Nat /\ Cardinality(Uses(x)) = Cardinality(A) + Count(p, x)
    BY UsesSplit
  <2>3. Cardinality(Uses(x)') = Cardinality(B) + Count(p, x)'
    BY UsesSplitNext
  <2> HIDE DEF A, B
  <2>4. PICK n \in Nat : n = Cardinality(A)
    BY <2>2
  <2>5. PICK a \in Nat : a = Count(p, x)
    BY CountType
  <2>6. PICK b \in Nat : b = Count(p, x)'
    BY CountType
  <2>7. PICK m \in Nat : m = ref[x]
    OBVIOUS
  <2>8. PICK k \in Nat : k = ref'[x]
    OBVIOUS
  <2>9. k + a = m + b
    BY <2>5, <2>6, <2>7, <2>8
  <2>10. m = n + a + (IF x = Root THEN 1 ELSE 0)
    BY <2>2, <2>4, <2>5, <2>7 DEF RefsInv
  <2>11. k = n + b + (IF x = Root THEN 1 ELSE 0)
    BY <2>9, <2>10
  <2>12. Cardinality(Uses(x)') = n + b
    BY <2>1, <2>3, <2>4, <2>6
  <2> QED
    BY <2>8, <2>11, <2>12
<1> QED
  BY <1>1 DEF RefsInv

\* Whoever has a reference is counted.
LEMMA RefsCounted ==
    ASSUME LocalTypes, RefsInv, NEW p \in Procs, \A q \in Procs : Len(puts[q]) <= 2, NEW x \in Inums
    PROVE  ref[x] >= Count(p, x) /\ (x = Root => ref[x] >= Count(p, x) + 1)
<1> DEFINE n == Cardinality(AllTags([q \in Procs |-> Hand(q)], Procs \ {p}, x))
<1>1. n \in Nat /\ Cardinality(Uses(x)) = n + Count(p, x)
  BY UsesSplit
<1>2. Count(p, x) \in Nat
  BY CountType
<1> HIDE DEF n
<1> QED
  BY <1>1, <1>2 DEF RefsInv

-----------------------------------------------------------------------------
(* What a step of one process leaves alone *)

\* Only what is p's own changes, of all that processes have.
Own(p) == /\ cwd' = [cwd EXCEPT ![p] = cwd'[p]] /\ fd' = [fd EXCEPT ![p] = fd'[p]]
          /\ script' = [script EXCEPT ![p] = script'[p]]
          /\ pc' = [pc EXCEPT ![p] = pc'[p]] /\ has' = [has EXCEPT ![p] = has'[p]]
          /\ path' = [path EXCEPT ![p] = path'[p]] /\ cur' = [cur EXCEPT ![p] = cur'[p]]
          /\ ip' = [ip EXCEPT ![p] = ip'[p]] /\ dp' = [dp EXCEPT ![p] = dp'[p]]
          /\ puts' = [puts EXCEPT ![p] = puts'[p]] /\ iputs' = [iputs EXCEPT ![p] = iputs'[p]]

OwnTypes(p) == /\ cwd'[p] \in Inums /\ fd'[p] \in Slot
               /\ script'[p] \in Seq(SysCalls)
               /\ pc'[p] \in Labels /\ has'[p] \in BOOLEAN
               /\ path'[p] \in Seq(Names \cup Dots)
               /\ cur'[p] \in Slot /\ ip'[p] \in Slot /\ dp'[p] \in Slot
               /\ puts'[p] \in Seq(Inums)
               /\ iputs'[p] \in {"lock", "free", "free2", "deref"}

\* Only p's locks change, as its label says, and what is locked is in the cache.
LocksStep(p) == \A x \in Inums : /\ lock'[x] = p <=> Locks(p, x)'
                                 /\ \A q \in Procs \ {p} : lock'[x] = q <=> lock[x] = q
                                 /\ lock'[x] # NoProc => valid'[x]

\* References are counted as p gets and loses them.
RefsStep(p) == /\ ref' \in [Inums -> Nat]
               /\ \A x \in Inums : ref'[x] + Count(p, x) = ref[x] + Count(p, x)'

Kept(p) == Own(p) /\ OwnTypes(p) /\ CallInv(p)' /\ LocksStep(p) /\ RefsStep(p)

LEMMA OwnLocalTypes ==
    ASSUME LocalTypes, NEW p \in Procs, Own(p), OwnTypes(p)
    PROVE  LocalTypes'
<1>1. cwd' \in [Procs -> Inums] /\ fd' \in [Procs -> Slot]
  BY DEF LocalTypes, Own, OwnTypes
<1>2. script' \in [Procs -> Seq(SysCalls)]
  BY DEF LocalTypes, Own, OwnTypes
<1>3. pc' \in [Procs -> Labels] /\ has' \in [Procs -> BOOLEAN]
  BY DEF LocalTypes, Own, OwnTypes
<1>4. path' \in [Procs -> Seq(Names \cup Dots)] /\ cur' \in [Procs -> Slot]
  BY DEF LocalTypes, Own, OwnTypes
<1>5. ip' \in [Procs -> Slot] /\ dp' \in [Procs -> Slot]
  BY DEF LocalTypes, Own, OwnTypes
<1>6. puts' \in [Procs -> Seq(Inums)] /\ iputs' \in [Procs -> {"lock", "free", "free2", "deref"}]
  BY DEF LocalTypes, Own, OwnTypes
<1> QED
  BY <1>1, <1>2, <1>3, <1>4, <1>5, <1>6 DEF LocalTypes

LEMMA OthersSame ==
    ASSUME LocalTypes, NEW p \in Procs, Own(p), NEW q \in Procs \ {p}
    PROVE  /\ cwd'[q] = cwd[q] /\ fd'[q] = fd[q] /\ script'[q] = script[q]
           /\ pc'[q] = pc[q] /\ has'[q] = has[q] /\ path'[q] = path[q]
           /\ cur'[q] = cur[q] /\ ip'[q] = ip[q] /\ dp'[q] = dp[q]
           /\ puts'[q] = puts[q] /\ iputs'[q] = iputs[q]
<1>1. cwd'[q] = cwd[q] /\ fd'[q] = fd[q] /\ script'[q] = script[q]
  BY DEF LocalTypes, Own
<1>2. pc'[q] = pc[q] /\ has'[q] = has[q] /\ path'[q] = path[q]
  BY DEF LocalTypes, Own
<1>3. cur'[q] = cur[q] /\ ip'[q] = ip[q] /\ dp'[q] = dp[q]
  BY DEF LocalTypes, Own
<1>4. puts'[q] = puts[q] /\ iputs'[q] = iputs[q]
  BY DEF LocalTypes, Own
<1> QED
  BY <1>1, <1>2, <1>3, <1>4

LEMMA OthersKept ==
    ASSUME LocalTypes, NEW p \in Procs, Own(p), NEW q \in Procs \ {p}, CallInv(q)
    PROVE  /\ CallInv(q)'
           /\ \A x : Locks(q, x)' <=> Locks(q, x)
           /\ Hand(q)' = Hand(q)
<1>1. /\ cwd'[q] = cwd[q] /\ fd'[q] = fd[q] /\ script'[q] = script[q]
      /\ pc'[q] = pc[q] /\ has'[q] = has[q] /\ path'[q] = path[q]
      /\ cur'[q] = cur[q] /\ ip'[q] = ip[q] /\ dp'[q] = dp[q]
      /\ puts'[q] = puts[q] /\ iputs'[q] = iputs[q]
  BY OthersSame
<1>2. Target(q)' = Target(q)
  BY <1>1 DEF Target
<1>3. ASSUME NEW x PROVE Holds(q, x)' <=> Holds(q, x)
  BY <1>1, <1>2 DEF Holds
<1>4. ASSUME NEW x PROVE Locks(q, x)' <=> Locks(q, x)
  BY <1>1, <1>3 DEF Locks
<1>5. Hand(q)' = Hand(q)
  BY <1>1, Zenon DEF Hand
<1>6. ASSUME NEW c, NEW i, NEW d PROVE Shape(q, c, i, d)' <=> Shape(q, c, i, d)
  BY <1>1 DEF Shape
<1>7. AtName(q)' <=> AtName(q)
  BY <1>1 DEF AtName
<1>8. ASSUME NEW ops PROVE InCall(q, ops)' <=> InCall(q, ops)
  BY <1>1 DEF InCall, Call
<1>9. CallInv(q)'
  BY <1>1, <1>3, SMTT(60) DEF CallInv, Shape, AtName, InCall, Call
<1> QED
  BY <1>4, <1>5, <1>9

LEMMA KeptNext ==
    ASSUME BlocksInv, NEW p \in Procs, Kept(p), DataTypes', CacheInv', BlocksOnce'
    PROVE  BlocksInv'
<1>1. LocalTypes /\ LocalTypes'
  BY OwnLocalTypes DEF BlocksInv, TypesInv, Kept
<1>2. ASSUME NEW q \in Procs \ {p}
      PROVE  CallInv(q)' /\ (\A x : Locks(q, x)' <=> Locks(q, x)) /\ Hand(q)' = Hand(q)
  BY <1>1, OthersKept DEF BlocksInv, Kept
<1>3. \A q \in Procs : CallInv(q)'
  BY <1>2 DEF Kept
<1>4. LocksInv'
  <2>1. ASSUME NEW x \in Inums, NEW q \in Procs \ {p} PROVE lock'[x] = q <=> Locks(q, x)'
    BY <1>2 DEF Kept, LocksStep, BlocksInv, LocksInv
  <2>2. ASSUME NEW x \in Inums
        PROVE  (lock'[x] = p <=> Locks(p, x)') /\ (lock'[x] # NoProc => valid'[x])
    BY DEF Kept, LocksStep
  <2> QED
    BY <2>1, <2>2 DEF LocksInv
<1>5. RefsInv'
  <2>1. \A q \in Procs : Len(puts[q]) <= 2
    BY DEF BlocksInv, CallInv
  <2>2. \A q \in Procs : Len(puts'[q]) <= 2
    BY <1>3 DEF CallInv
  <2>3. ref \in [Inums -> Nat] /\ ref' \in [Inums -> Nat]
    BY DEF BlocksInv, TypesInv, DataTypes
  <2>4. \A x \in Inums : ref'[x] + Count(p, x) = ref[x] + Count(p, x)'
    BY DEF Kept, RefsStep
  <2>5. \A q \in Procs \ {p} : Hand(q)' = Hand(q)
    BY <1>2
  <2>6. RefsInv
    BY DEF BlocksInv
  <2> QED
    BY <1>1, <2>1, <2>2, <2>3, <2>4, <2>5, <2>6, RefsNext
<1> QED
  BY <1>1, <1>3, <1>4, <1>5 DEF BlocksInv, TypesInv

\* An inode that a process has is in the cache.
LEMMA InHand ==
    ASSUME BlocksInv, NEW p \in Procs, NEW x \in Inums,
           \/ fd[p] = x \/ Cwd(p) = x \/ cur[p] = x \/ ip[p] = x \/ dp[p] = x
           \/ puts[p] # <<>> /\ Head(puts[p]) = x
    PROVE  ref[x] > 0
<1>1. puts[p] \in Seq(Inums) /\ \A q \in Procs : Len(puts[q]) <= 2
  BY DEF BlocksInv, TypesInv, LocalTypes, CallInv
<1>2. puts[p] # <<>> => Len(puts[p]) >= 1 /\ Head(puts[p]) = puts[p][1]
  BY <1>1
<1>3. Count(p, x) >= 1
  <2>1. \A a : Is(a, x) \in Nat /\ (a = x => Is(a, x) = 1)
    BY DEF Is, One
  <2>2. InSeq(puts[p], x) \in Nat /\ (puts[p] # <<>> /\ Head(puts[p]) = x => InSeq(puts[p], x) >= 1)
    BY <1>2 DEF InSeq, One
  <2> QED
    BY <2>1, <2>2 DEF Count, OfHand
<1>4. ref[x] >= Count(p, x) /\ ref[x] \in Nat /\ Count(p, x) \in Nat
  BY <1>1, RefsCounted, CountType DEF BlocksInv, TypesInv, DataTypes
<1> QED
  BY <1>3, <1>4

LEMMA RootHeld == ASSUME BlocksInv, NEW p \in Procs PROVE Root \in Inums /\ ref[Root] > 0
<1>1. Root \in Inums
  BY FsAssumption DEF Root, Inums
<1>2. ref[Root] >= Count(p, Root) + 1
  BY <1>1, RefsCounted DEF BlocksInv, TypesInv, CallInv
<1> QED
  BY <1>1, <1>2, CountType DEF BlocksInv, TypesInv, DataTypes

LEMMA TargetIs ==
    ASSUME NEW p
    PROVE  Target(p) \in {cur[p], ip[p], dp[p], fd[p], None}
  BY DEF Target

\* What a process has locked is in the cache, and it has a reference to it.
LEMMA LockedHeld ==
    ASSUME BlocksInv, NEW p \in Procs, NEW x \in Inums, lock[x] = p
    PROVE  Locks(p, x) /\ valid[x] /\ ref[x] > 0
<1>1. Locks(p, x) /\ valid[x]
  BY FsAssumption DEF BlocksInv, LocksInv
<1>2. x # None
  BY FsAssumption DEF None, Inums
<1>3. \/ fd[p] = x \/ cur[p] = x \/ ip[p] = x \/ dp[p] = x
      \/ puts[p] # <<>> /\ Head(puts[p]) = x
  BY <1>1, <1>2, TargetIs DEF Locks, Holds
<1> QED
  BY <1>1, <1>3, InHand

\* What a process has locked is as on the disk, but for an inode that it has just freed.
LEMMA LockedCopy ==
    ASSUME BlocksInv, NEW p \in Procs, NEW x \in Inums, lock[x] = p,
           ~(puts[p] # <<>> /\ iputs[p] = "free2" /\ Head(puts[p]) = x)
    PROVE  copy[x] = dinode[x] /\ dinode[x].type # "FREE"
<1>1. ~Freed(x)
  <2>1. SUFFICES ASSUME NEW q \in Procs, puts[q] # <<>>, iputs[q] = "free2", Head(puts[q]) = x
                 PROVE  FALSE
    BY DEF Freed
  <2>2. Locks(q, x)
    BY <2>1 DEF Locks
  <2>3. lock[x] = q
    BY <2>2 DEF BlocksInv, LocksInv
  <2> QED
    BY <2>1, <2>3
<1>2. valid[x] /\ ref[x] > 0
  BY LockedHeld
<1> QED
  BY <1>1, <1>2 DEF BlocksInv, CacheInv

-----------------------------------------------------------------------------
(* Blocks *)

LEMMA MinIn == ASSUME NEW S \in SUBSET Nat, S # {} PROVE Min(S) \in S
<1>1. PICK x \in S : \A y \in S : ~(<<y, x>> \in OpToRel(<, Nat))
  BY NatLessThanWellFounded, WFMin, Zenon
<1>2. \A y \in S : x <= y
  <2>1. ASSUME NEW y \in Nat, NEW z \in Nat, y < z PROVE <<y, z>> \in OpToRel(<, Nat)
    BY <2>1 DEF OpToRel
  <2>2. ASSUME NEW y \in S PROVE ~(y < x)
    BY <1>1, <2>1
  <2> QED
    BY <2>2
<1> QED
  BY <1>2, Zenon DEF Min

\* BlocksOnce of any inodes
OnceFor(g, used) == /\ used = {g[i] : i \in Inums} \ {None}
                    /\ \A i, j \in Inums : g[i] = g[j] /\ i # j => g[i] = None
Blocks == [i \in Inums |-> dinode[i].blk]

LEMMA OnceIs == BlocksOnce <=> OnceFor(Blocks, bitmap)
<1>1. {dinode[i].blk : i \in Inums} = {Blocks[i] : i \in Inums}
  BY DEF Blocks
<1> QED
  BY <1>1 DEF BlocksOnce, OnceFor, Blocks

LEMMA OnceNextIs == BlocksOnce' <=> OnceFor(Blocks', bitmap')
<1>1. {dinode'[i].blk : i \in Inums} = {Blocks'[i] : i \in Inums}
  BY DEF Blocks
<1>2. \A i \in Inums : Blocks'[i] = dinode'[i].blk
  BY DEF Blocks
<1> QED
  BY <1>1, <1>2 DEF BlocksOnce, OnceFor

LEMMA AddBlock ==
    ASSUME NEW g, g \in [Inums -> 0..NBLOCKS], NEW used, OnceFor(g, used), NEW i \in Inums,
           g[i] = None, NEW b \in 1..NBLOCKS, b \notin used
    PROVE  OnceFor([g EXCEPT ![i] = b], used \cup {b})
<1> DEFINE h == [g EXCEPT ![i] = b]
<1>1. h[i] = b /\ \A j \in Inums \ {i} : h[j] = g[j]
  OBVIOUS
<1>2. b # None /\ \A j \in Inums : g[j] # b
  BY FsAssumption DEF None, OnceFor
<1> HIDE DEF h
<1>3. {h[j] : j \in Inums} \ {None} = ({g[j] : j \in Inums} \ {None}) \cup {b}
  BY <1>1, <1>2
<1>4. \A j, k \in Inums : h[j] = h[k] /\ j # k => h[j] = None
  BY <1>1, <1>2 DEF OnceFor
<1> QED
  BY <1>3, <1>4 DEF OnceFor, h

LEMMA RemoveBlock ==
    ASSUME NEW g, g \in [Inums -> 0..NBLOCKS], NEW used, OnceFor(g, used), NEW i \in Inums
    PROVE  OnceFor([g EXCEPT ![i] = None], used \ ({g[i]} \ {None}))
<1> DEFINE h == [g EXCEPT ![i] = None]
<1>1. h[i] = None /\ \A j \in Inums \ {i} : h[j] = g[j]
  OBVIOUS
<1> HIDE DEF h
<1>2. {h[j] : j \in Inums} \ {None} = ({g[j] : j \in Inums} \ {None}) \ ({g[i]} \ {None})
  BY <1>1 DEF OnceFor
<1>3. \A j, k \in Inums : h[j] = h[k] /\ j # k => h[j] = None
  BY <1>1 DEF OnceFor
<1> QED
  BY <1>2, <1>3 DEF OnceFor, h

\* A block of an inode is the one that it has, or a free one.
LEMMA GrowBlock ==
    ASSUME NEW g, g \in [Inums -> 0..NBLOCKS], NEW used, OnceFor(g, used), NEW i \in Inums, NEW b,
           \/ g[i] # None /\ b = g[i]
           \/ g[i] = None /\ b \in 1..NBLOCKS /\ b \notin used
    PROVE  /\ OnceFor([g EXCEPT ![i] = b], used \cup {b})
           /\ b \in 1..NBLOCKS
           /\ [g EXCEPT ![i] = b] \in [Inums -> 0..NBLOCKS]
<1>1. CASE g[i] # None /\ b = g[i]
  <2>1. [g EXCEPT ![i] = b] = g
    BY <1>1
  <2>2. b \in used
    BY <1>1 DEF OnceFor
  <2>3. used \cup {b} = used
    BY <2>2
  <2>4. b \in 1..NBLOCKS
    BY <1>1, FsAssumption DEF None
  <2> QED
    BY <2>1, <2>3, <2>4
<1>2. CASE g[i] = None /\ b \in 1..NBLOCKS /\ b \notin used
  <2>1. [g EXCEPT ![i] = b] \in [Inums -> 0..NBLOCKS]
    BY <1>2, FsAssumption
  <2> QED
    BY <1>2, <2>1, AddBlock
<1> QED
  BY <1>1, <1>2

LEMMA SomeFree ==
    ASSUME NEW used, used \subseteq 1..NBLOCKS, Cardinality(1..NBLOCKS \ used) >= 1
    PROVE  Min(1..NBLOCKS \ used) \in 1..NBLOCKS \ used
<1>1. 1..NBLOCKS \ used # {}
  BY FS_EmptySet
<1> QED
  BY <1>1, MinIn

LEMMA MoreFree ==
    ASSUME NEW used, used \subseteq 1..NBLOCKS, Cardinality(1..NBLOCKS \ used) >= 2, NEW b
    PROVE  Min(1..NBLOCKS \ (used \cup {b})) \in 1..NBLOCKS \ (used \cup {b})
<1> DEFINE S == 1..NBLOCKS \ used
<1>1. IsFiniteSet(S) /\ Cardinality(S) \in Nat
  <2>1. IsFiniteSet(1..NBLOCKS)
    <3>1. 1 \in Int /\ NBLOCKS \in Int
      BY FsAssumption
    <3> QED
      BY <3>1, FS_Interval
  <2> QED
    BY <2>1, FS_Subset, FS_CardinalityType
<1>2. Cardinality(S \ {b}) >= 1
  BY <1>1, FS_RemoveElement
<1>3. S \ {b} # {}
  BY <1>2, FS_EmptySet
<1>4. S \ {b} = 1..NBLOCKS \ (used \cup {b})
  OBVIOUS
<1> QED
  BY <1>3, <1>4, MinIn

LEMMA BlocksType ==
    ASSUME BlocksInv
    PROVE  /\ Blocks \in [Inums -> 0..NBLOCKS] /\ bitmap \subseteq 1..NBLOCKS
           /\ OnceFor(Blocks, bitmap)
           /\ \A i \in Inums : Blocks[i] = dinode[i].blk
  BY OnceIs DEF BlocksInv, TypesInv, DataTypes, Blocks, Inode

-----------------------------------------------------------------------------
(* A step of a call *)

\* What is still to be freed stays so in a step that has nothing to put.
LEMMA FreedKept ==
    ASSUME BlocksInv, NEW p \in Procs, puts[p] = <<>>, Own(p)
    PROVE  \A x : Freed(x) => Freed(x)'
<1> SUFFICES ASSUME NEW x, Freed(x) PROVE Freed(x)'
  OBVIOUS
<1>1. PICK q \in Procs : puts[q] # <<>> /\ iputs[q] = "free2" /\ Head(puts[q]) = x
  BY DEF Freed
<1>2. q \in Procs \ {p}
  BY <1>1
<1>3. puts'[q] = puts[q] /\ iputs'[q] = iputs[q]
  BY <1>2, OthersSame DEF BlocksInv, TypesInv
<1> QED
  BY <1>1, <1>3 DEF Freed

\* An inode that is got again has to be read, unless it was in the cache.
Fetched == /\ valid' \in [Inums -> BOOLEAN]
           /\ \A x \in Inums : /\ valid'[x] /\ ref'[x] > 0 => valid[x] /\ ref[x] > 0
                               /\ valid[x] /\ ref[x] > 0 => valid'[x]

LEMMA FetchedSame == ASSUME BlocksInv, UNCHANGED <<valid, ref>> PROVE Fetched
  BY DEF BlocksInv, TypesInv, DataTypes, Fetched

LEMMA FetchedIget == ASSUME BlocksInv, NEW i \in Inums, Iget(i) PROVE Fetched
<1>1. valid \in [Inums -> BOOLEAN] /\ ref \in [Inums -> Nat]
  BY DEF BlocksInv, TypesInv, DataTypes
<1>2. valid'[i] = (valid[i] /\ ref[i] > 0) /\ ref'[i] = ref[i] + 1
  BY <1>1 DEF Iget
<1>3. \A x \in Inums \ {i} : valid'[x] = valid[x] /\ ref'[x] = ref[x]
  BY <1>1 DEF Iget
<1>4. valid' \in [Inums -> BOOLEAN]
  BY <1>1 DEF Iget
<1> QED
  BY <1>2, <1>3, <1>4 DEF Fetched

LEMMA FetchedStart ==
    ASSUME BlocksInv, NEW i \in Inums, ref[i] > 0, ref' = [ref EXCEPT ![i] = @ + 1], UNCHANGED valid
    PROVE  Fetched
  BY DEF BlocksInv, TypesInv, DataTypes, Fetched

\* A step gives back the locks of R.
Released(p, R) == /\ R \subseteq Inums
                  /\ \A x \in R : lock[x] = p
                  /\ lock' = [x \in Inums |-> IF x \in R THEN NoProc ELSE lock[x]]

LEMMA LocksNext ==
    ASSUME BlocksInv, NEW p \in Procs, puts[p] = <<>>, iputs'[p] = "lock", Fetched, NEW R, Released(p, R),
           \A x \in Inums : Holds(p, x)' <=> Holds(p, x) /\ x \notin R
    PROVE  LocksStep(p) /\ lock' \in [Inums -> Procs \cup {NoProc}]
<1>1. lock' \in [Inums -> Procs \cup {NoProc}]
  BY DEF Released, BlocksInv, TypesInv, DataTypes
<1>2. ASSUME NEW x \in Inums PROVE lock'[x] = p <=> Locks(p, x)'
  <2>1. Locks(p, x)' <=> Holds(p, x)'
    BY DEF Locks
  <2>2. Locks(p, x) <=> Holds(p, x)
    BY DEF Locks
  <2>3. lock[x] = p <=> Locks(p, x)
    BY DEF BlocksInv, LocksInv
  <2>4. lock'[x] = IF x \in R THEN NoProc ELSE lock[x]
    BY DEF Released
  <2>5. NoProc # p
    BY FsAssumption
  <2> QED
    BY <2>1, <2>2, <2>3, <2>4, <2>5
<1>3. ASSUME NEW x \in Inums, NEW q \in Procs \ {p} PROVE lock'[x] = q <=> lock[x] = q
  BY FsAssumption DEF Released
<1>4. ASSUME NEW x \in Inums, lock'[x] # NoProc PROVE valid'[x]
  <2>1. lock[x] # NoProc
    BY <1>4 DEF Released
  <2>2. PICK q \in Procs : lock[x] = q
    BY <2>1 DEF BlocksInv, TypesInv, DataTypes
  <2>3. valid[x] /\ ref[x] > 0
    BY <2>2, LockedHeld
  <2> QED
    BY <2>3 DEF Fetched
<1> QED
  BY <1>1, <1>2, <1>3, <1>4 DEF LocksStep

\* A step that changes nothing on the disk, nor the copies
LEMMA QuietStep ==
    ASSUME BlocksInv, NEW p \in Procs, puts[p] = <<>>, iputs'[p] = "lock",
           Own(p), OwnTypes(p), CallInv(p)', RefsStep(p), Fetched, NEW R, Released(p, R),
           \A x \in Inums : Holds(p, x)' <=> Holds(p, x) /\ x \notin R,
           UNCHANGED <<dinode, ents, up, bitmap, copy>>, removed' \subseteq Inums
    PROVE  BlocksInv'
<1>1. LocksStep(p) /\ lock' \in [Inums -> Procs \cup {NoProc}]
  BY LocksNext
<1>2. DataTypes'
  BY <1>1 DEF DataTypes, BlocksInv, TypesInv, Fetched, RefsStep
<1>3. CacheInv'
  <2>1. \A x : Freed(x) => Freed(x)'
    BY FreedKept
  <2>2. ASSUME NEW x \in Inums, valid'[x], ref'[x] > 0, ~Freed(x)'
        PROVE  copy'[x] = dinode'[x] /\ dinode'[x].type # "FREE"
    BY <2>1, <2>2 DEF BlocksInv, CacheInv, Fetched
  <2>3. ASSUME NEW x \in Inums, dinode'[x].type = "FREE" PROVE dinode'[x] = Free
    BY <2>3 DEF BlocksInv, CacheInv
  <2> QED
    BY <2>2, <2>3 DEF CacheInv
<1>4. BlocksOnce'
  BY DEF BlocksInv, BlocksOnce
<1>5. Kept(p)
  BY <1>1 DEF Kept
<1> QED
  BY <1>2, <1>3, <1>4, <1>5, KeptNext

\* A step that writes the inodes f, on the disk and in the cache
LEMMA UpdateStep ==
    ASSUME BlocksInv, NEW p \in Procs, puts[p] = <<>>, iputs'[p] = "lock",
           Own(p), OwnTypes(p), CallInv(p)', RefsStep(p), Fetched, NEW R, Released(p, R),
           \A x \in Inums : Holds(p, x)' <=> Holds(p, x) /\ x \notin R,
           NEW f, DOMAIN f \subseteq Inums, Iupdate(f),
           \A x \in DOMAIN f : f[x] \in Inode /\ f[x].type # "FREE",
           ents' \in [Inums -> [Names -> Slot]], up' \in [Inums -> Inums],
           bitmap' \subseteq 1..NBLOCKS, removed' \subseteq Inums, BlocksOnce'
    PROVE  BlocksInv'
<1>1. LocksStep(p) /\ lock' \in [Inums -> Procs \cup {NoProc}]
  BY LocksNext
<1>2. /\ copy' = [x \in Inums |-> IF x \in DOMAIN f THEN f[x] ELSE copy[x]]
      /\ dinode' = [x \in Inums |-> IF x \in DOMAIN f THEN f[x] ELSE dinode[x]]
  BY DEF Iupdate
<1>3. copy' \in [Inums -> Inode] /\ dinode' \in [Inums -> Inode]
  BY <1>2 DEF BlocksInv, TypesInv, DataTypes
<1>4. DataTypes'
  BY <1>1, <1>3 DEF DataTypes, Fetched, RefsStep
<1>5. CacheInv'
  <2>1. \A x : Freed(x) => Freed(x)'
    BY FreedKept
  <2>2. ASSUME NEW x \in Inums, valid'[x], ref'[x] > 0, ~Freed(x)'
        PROVE  copy'[x] = dinode'[x] /\ dinode'[x].type # "FREE"
    <3>1. CASE x \in DOMAIN f
      BY <3>1, <1>2
    <3>2. CASE x \notin DOMAIN f
      BY <3>2, <1>2, <2>1, <2>2 DEF BlocksInv, CacheInv, Fetched
    <3> QED
      BY <3>1, <3>2
  <2>3. ASSUME NEW x \in Inums, dinode'[x].type = "FREE" PROVE dinode'[x] = Free
    <3>1. x \notin DOMAIN f
      BY <2>3, <1>2
    <3>2. dinode'[x] = dinode[x]
      BY <3>1, <1>2
    <3> QED
      BY <3>2, <2>3 DEF BlocksInv, CacheInv
  <2> QED
    BY <2>2, <2>3 DEF CacheInv
<1>6. Kept(p)
  BY <1>1 DEF Kept
<1> QED
  BY <1>4, <1>5, <1>6, KeptNext

LEMMA RefsSame ==
    ASSUME BlocksInv, NEW p, UNCHANGED ref, \A x \in Inums : Count(p, x)' = Count(p, x)
    PROVE  RefsStep(p)
  BY DEF BlocksInv, TypesInv, DataTypes, RefsStep

LEMMA RefsUp ==
    ASSUME BlocksInv, NEW p, NEW i \in Inums, ref' = [ref EXCEPT ![i] = @ + 1],
           \A x \in Inums : Count(p, x)' = Count(p, x) + Is(i, x)
    PROVE  RefsStep(p)
<1>1. ref \in [Inums -> Nat]
  BY DEF BlocksInv, TypesInv, DataTypes
<1>2. ref' \in [Inums -> Nat]
  BY <1>1
<1>3. ASSUME NEW x \in Inums PROVE ref'[x] + Count(p, x) = ref[x] + Count(p, x)'
  <2>1. PICK n \in Nat : n = Count(p, x)
    BY CountType
  <2>2. Count(p, x)' = n + Is(i, x)
    BY <2>1
  <2>3. ref'[x] = ref[x] + Is(i, x)
    BY <1>1 DEF Is, One
  <2>4. ref[x] \in Nat /\ Is(i, x) \in Nat
    BY <1>1 DEF Is, One
  <2> QED
    BY <2>1, <2>2, <2>3, <2>4
<1> QED
  BY <1>2, <1>3 DEF RefsStep

LEMMA IsType == \A a, x : Is(a, x) \in Nat
  BY DEF Is, One

LEMMA IsNone == \A x \in Inums : Is(None, x) = 0
  BY FsAssumption DEF Is, One, None, Inums

\* What is to be put counts for one each.
LEMMA PutsCount ==
    \A x : /\ InSeq(<<>>, x) = 0
           /\ \A a : InSeq(<<a>>, x) = Is(a, x)
           /\ \A a, b : InSeq(<<a, b>>, x) = Is(a, x) + Is(b, x)
<1> SUFFICES ASSUME NEW x, NEW a, NEW b
             PROVE  /\ InSeq(<<>>, x) = 0
                    /\ InSeq(<<a>>, x) = Is(a, x)
                    /\ InSeq(<<a, b>>, x) = Is(a, x) + Is(b, x)
  OBVIOUS
<1>1. InSeq(<<>>, x) = 0
  BY DEF InSeq, One
<1>2. InSeq(<<a>>, x) = Is(a, x)
  BY DEF InSeq, One, Is
<1>3. InSeq(<<a, b>>, x) = Is(a, x) + Is(b, x)
  BY DEF InSeq, One, Is
<1> QED
  BY <1>1, <1>2, <1>3

LEMMA PutIs ==
    ASSUME BlocksInv, NEW p \in Procs, puts[p] = <<>>, NEW s, Put(p, s), s \in Seq(Inums)
    PROVE  puts'[p] = s /\ puts' = [puts EXCEPT ![p] = puts'[p]]
<1>1. puts' = [puts EXCEPT ![p] = s]
  BY DEF Put
<1> QED
  BY <1>1 DEF BlocksInv, TypesInv, LocalTypes

\* The system call that p is in
LEMMA CallIs ==
    ASSUME BlocksInv, NEW p \in Procs, script[p] # <<>>
    PROVE  Call(p) \in SysCalls /\ Tail(script[p]) \in Seq(SysCalls)
  BY DEF BlocksInv, TypesInv, LocalTypes, Call

\* What is found in a directory is an inode, or None.
LEMMA LookupType ==
    ASSUME BlocksInv, NEW i \in Inums, NEW n \in Names \cup Dots
    PROVE  Lookup(i, n) \in Slot /\ (Lookup(i, n) # None => Lookup(i, n) \in Inums)
<1>1. Lookup(i, n) \in Slot
  <2>1. CASE n \in Names
    <3>1. n # "." /\ n # ".."
      BY <2>1, FsAssumption
    <3> QED
      BY <2>1, <3>1 DEF Lookup, BlocksInv, TypesInv, DataTypes
  <2>2. CASE n \in Dots
    BY <2>2 DEF Lookup, Dots, Slot, BlocksInv, TypesInv, DataTypes
  <2> QED
    BY <2>1, <2>2
<1> QED
  BY <1>1 DEF Slot

LEMMA PathIs ==
    ASSUME BlocksInv, NEW p \in Procs, path[p] # <<>>
    PROVE  Head(path[p]) \in Names \cup Dots /\ Tail(path[p]) \in Seq(Names \cup Dots)
  BY DEF BlocksInv, TypesInv, LocalTypes

LEMMA NameIs ==
    ASSUME BlocksInv, NEW p \in Procs, AtName(p)
    PROVE  path[p] # <<>> /\ Head(path[p]) \in Names \cup Dots
<1>1. path[p] \in Seq(Names \cup Dots) /\ Len(path[p]) = 1
  BY DEF BlocksInv, TypesInv, LocalTypes, AtName
<1> QED
  BY <1>1

\* At the start of a step of a call: nothing is to be put, and p has what it needs.
LEMMA AtIs ==
    ASSUME BlocksInv, NEW p \in Procs, NEW l, At(p, l)
    PROVE  /\ pc[p] = l /\ has[p] /\ puts[p] = <<>> /\ iputs[p] = "lock"
           /\ LocalTypes /\ CallInv(p)
           /\ \A x \in Inums : lock[x] = p <=> Holds(p, x)
  BY DEF At, BlocksInv, TypesInv, CallInv, LocksInv, Locks

-----------------------------------------------------------------------------
(* Links: what the proof about them adds to the invariant *)

\* Inode x is in a place of p.  What p is putting and has looked at or freed, it has no more.
Has(p, x) == \/ fd[p] = x \/ Cwd(p) = x \/ cur[p] = x \/ ip[p] = x \/ dp[p] = x
             \/ puts[p] # <<>> /\ iputs[p] \in {"lock", "free"} /\ Head(puts[p]) = x
             \/ Len(puts[p]) >= 2 /\ puts[p][2] = x
Sole(p, x) == \A q \in Procs \ {p} : ~Has(q, x)

\* i has a link more than names, which p has made for a name or has still to take away.
Owes(p, i) == ip[p] = i /\ (pc[p] = "last" \/ (Second(p) /\ pc[p] # "link"))

\* Entries are in directories, a directory is only in its parent, and no two are in each other.
DirsInv ==
    /\ dinode[Root].type = "DIR"
    /\ \A d \in Inums, n \in Names : ents[d][n] # None =>
          /\ dinode[d].type = "DIR" /\ dinode[ents[d][n]].type # "FREE"
          /\ dinode[ents[d][n]].type = "DIR" => up[ents[d][n]] = d
          /\ \A m \in Names : ents[ents[d][n]][m] # d

UsedInv(p) == \A x \in Inums : Has(p, x) => dinode[x].type # "FREE"

\* What p knows of the inodes that it has: it is alone with one that is new, or to be freed.
PlacesInv(p) ==
    /\ dp[p] # None => dinode[dp[p]].type = "DIR"
    /\ ip[p] # None /\ Second(p) /\ pc[p] # "link" => dinode[ip[p]].type # "DIR"
    /\ pc[p] = "new" => /\ dinode[ip[p]].type = NewType(p) /\ dinode[ip[p]].nlink = 0 /\ Empty(ip[p])
                        /\ ents[dp[p]][Head(path[p])] = None
                        /\ Sole(p, ip[p]) /\ ip[p] # dp[p]
    /\ pc[p] = "unlinked" => ents[dp[p]][Head(path[p])] = ip[p]
    /\ puts[p] # <<>> /\ iputs[p] = "free" =>
          /\ dinode[Head(puts[p])].nlink = 0 /\ Sole(p, Head(puts[p]))
          /\ Head(puts[p]) \notin {fd[p], Cwd(p), cur[p], ip[p], dp[p]}
          /\ Len(puts[p]) >= 2 => puts[p][2] # Head(puts[p])

\* What is in a directory without a name has been made there after it was removed, and
\* nothing is made in that, since its parent has no name.
NamesInv == \A d \in Inums, n \in Names :
    dinode[d].type = "DIR" /\ ~Named(d) /\ ents[d][n] # None => ents[d][n] \in removed /\ Empty(ents[d][n])

CountInv == \A i \in Inums : dinode[i].type # "FREE" =>
    /\ dinode[i].nlink >= LinksOf(i)
    /\ i \notin removed => dinode[i].nlink = LinksOf(i)

LinkInv == DirsInv /\ (\A p \in Procs : UsedInv(p) /\ PlacesInv(p)) /\ NamesInv /\ CountInv

\* What a step keeps while the directories that processes are in have a parent
LinksKept == LinkInv /\ ParentsNamed => LinkInv'

LEMMA Differ ==
    ASSUME NEW S, NEW T, IsFiniteSet(S), NEW e, \A x : x # e => (x \in S <=> x \in T)
    PROVE  /\ IsFiniteSet(T) /\ Cardinality(S) \in Nat /\ Cardinality(T) \in Nat
           /\ Cardinality(T) + One(e \in S) = Cardinality(S) + One(e \in T)
<1> DEFINE R == S \ {e}
<1>1. IsFiniteSet(R) /\ e \notin R
  BY FS_Subset
<1>2. Cardinality(R) \in Nat /\ IsFiniteSet(R \cup {e}) /\ Cardinality(R \cup {e}) = Cardinality(R) + 1
  BY <1>1, FS_AddElement, FS_CardinalityType
<1>3. (e \in S => S = R \cup {e}) /\ (e \notin S => S = R)
  OBVIOUS
<1>4. (e \in T => T = R \cup {e}) /\ (e \notin T => T = R)
  OBVIOUS
<1> HIDE DEF R
<1>5. Cardinality(S) = Cardinality(R) + One(e \in S)
  <2>1. CASE e \in S
    BY <1>2, <1>3, <2>1 DEF One
  <2>2. CASE e \notin S
    BY <1>2, <1>3, <2>2 DEF One
  <2> QED
    BY <2>1, <2>2
<1>6. IsFiniteSet(T) /\ Cardinality(T) = Cardinality(R) + One(e \in T)
  <2>1. CASE e \in T
    BY <1>2, <1>4, <2>1 DEF One
  <2>2. CASE e \notin T
    BY <1>1, <1>2, <1>4, <2>2 DEF One
  <2> QED
    BY <2>1, <2>2
<1>7. One(e \in S) \in Nat /\ One(e \in T) \in Nat
  BY DEF One
<1> QED
  BY <1>2, <1>5, <1>6, <1>7

LEMMA LinksFinite ==
    ASSUME NEW i
    PROVE  IsFiniteSet(EntriesOf(i)) /\ IsFiniteSet(Subdirs(i)) /\ IsFiniteSet(Pending(i))
<1>1. IsFiniteSet(Inums \X Names)
  <2>1. 1 \in Int /\ NINODES \in Int
    BY FsAssumption
  <2>2. IsFiniteSet(Inums)
    BY <2>1, FS_Interval DEF Inums
  <2> QED
    BY <2>2, FS_Product, FsAssumption
<1>2. IsFiniteSet(EntriesOf(i))
  <2>1. EntriesOf(i) \subseteq Inums \X Names
    BY DEF EntriesOf
  <2> QED
    BY <1>1, <2>1, FS_Subset
<1>3. IsFiniteSet(Subdirs(i))
  <2>1. Subdirs(i) \subseteq Names
    BY DEF Subdirs
  <2> QED
    BY <2>1, FS_Subset, FsAssumption
<1>4. IsFiniteSet(Pending(i))
  <2>1. Pending(i) \subseteq Procs
    BY DEF Pending
  <2> QED
    BY <2>1, FS_Subset, FsAssumption
<1> QED
  BY <1>2, <1>3, <1>4

LEMMA LinksType ==
    ASSUME NEW i
    PROVE  /\ Cardinality(EntriesOf(i)) \in Nat /\ Cardinality(Subdirs(i)) \in Nat
           /\ Cardinality(Pending(i)) \in Nat /\ LinksOf(i) \in Nat
           /\ LinksOf(i) >= Cardinality(EntriesOf(i)) /\ LinksOf(i) >= Cardinality(Subdirs(i))
           /\ LinksOf(i) >= Cardinality(Pending(i))
           /\ i = Root => LinksOf(i) >= 1
<1>1. /\ Cardinality(EntriesOf(i)) \in Nat /\ Cardinality(Subdirs(i)) \in Nat
      /\ Cardinality(Pending(i)) \in Nat
  BY LinksFinite, FS_CardinalityType
<1> QED
  BY <1>1 DEF LinksOf

\* What has a name has a link.
LEMMA NamedHasLink ==
    ASSUME BlocksInv, LinkInv, NEW i \in Inums, Named(i)
    PROVE  dinode[i].type # "FREE" /\ dinode[i].nlink >= 1
<1>1. dinode[i].type # "FREE"
  <2>1. CASE i = Root
    BY <2>1 DEF LinkInv, DirsInv
  <2>2. CASE EntriesOf(i) # {}
    BY <2>2 DEF EntriesOf, LinkInv, DirsInv, None, Inums
  <2> QED
    BY <2>1, <2>2 DEF Named
<1>2. LinksOf(i) >= 1
  <2>1. CASE i = Root
    BY <2>1, LinksType
  <2>2. CASE EntriesOf(i) # {}
    <3>1. Cardinality(EntriesOf(i)) # 0
      BY <2>2, LinksFinite, FS_EmptySet
    <3> QED
      BY <3>1, LinksType
  <2> QED
    BY <2>1, <2>2 DEF Named
<1>3. dinode[i].nlink >= LinksOf(i) /\ dinode[i].nlink \in Int
  BY <1>1 DEF LinkInv, CountInv, BlocksInv, TypesInv, DataTypes, Inode
<1> QED
  BY <1>1, <1>2, <1>3, LinksType

\* What has no link has no name, no directory in it and nobody who owes it a link.
LEMMA NoLinks ==
    ASSUME BlocksInv, LinkInv, NEW i \in Inums, dinode[i].type # "FREE", dinode[i].nlink = 0
    PROVE  EntriesOf(i) = {} /\ Subdirs(i) = {} /\ Pending(i) = {} /\ i # Root
<1>1. LinksOf(i) <= 0
  BY LinksType DEF LinkInv, CountInv
<1>2. /\ Cardinality(EntriesOf(i)) = 0 /\ Cardinality(Subdirs(i)) = 0 /\ Cardinality(Pending(i)) = 0
      /\ i # Root
  BY <1>1, LinksType
<1> QED
  BY <1>2, LinksFinite, FS_EmptySet

\* How the links of inode i change with one entry, one subdirectory and what one process owes
LEMMA Balance ==
    ASSUME NEW p, NEW e, NEW n, NEW i,
           \A x : x # e => (x \in EntriesOf(i) <=> x \in EntriesOf(i)'),
           \A x : x # n => (x \in Subdirs(i) <=> x \in Subdirs(i)'),
           \A q : q # p => (q \in Pending(i) <=> q \in Pending(i)')
    PROVE  /\ LinksOf(i) \in Nat /\ LinksOf(i)' \in Nat
           /\ LinksOf(i)' + One(e \in EntriesOf(i)) + One(n \in Subdirs(i)) + One(p \in Pending(i))
                = LinksOf(i) + One(e \in EntriesOf(i)') + One(n \in Subdirs(i)') + One(p \in Pending(i)')
<1>1. IsFiniteSet(EntriesOf(i)) /\ IsFiniteSet(Subdirs(i)) /\ IsFiniteSet(Pending(i))
  BY LinksFinite
<1>2. /\ Cardinality(EntriesOf(i)) \in Nat /\ Cardinality(EntriesOf(i)') \in Nat
      /\ Cardinality(EntriesOf(i)') + One(e \in EntriesOf(i)) = Cardinality(EntriesOf(i)) + One(e \in EntriesOf(i)')
  BY <1>1, Differ
<1>3. /\ Cardinality(Subdirs(i)) \in Nat /\ Cardinality(Subdirs(i)') \in Nat
      /\ Cardinality(Subdirs(i)') + One(n \in Subdirs(i)) = Cardinality(Subdirs(i)) + One(n \in Subdirs(i)')
  BY <1>1, Differ
<1>4. /\ Cardinality(Pending(i)) \in Nat /\ Cardinality(Pending(i)') \in Nat
      /\ Cardinality(Pending(i)') + One(p \in Pending(i)) = Cardinality(Pending(i)) + One(p \in Pending(i)')
  BY <1>1, Differ
<1>5. \A b : One(b) \in Nat
  BY DEF One
<1>6. PICK a \in Nat, b \in Nat, c \in Nat, r \in Nat :
         /\ a = Cardinality(EntriesOf(i)) /\ b = Cardinality(Subdirs(i)) /\ c = Cardinality(Pending(i))
         /\ r = (IF i = Root THEN 1 ELSE 0)
  BY <1>2, <1>3, <1>4
<1>7. PICK a1 \in Nat, b1 \in Nat, c1 \in Nat :
         /\ a1 = Cardinality(EntriesOf(i)') /\ b1 = Cardinality(Subdirs(i)') /\ c1 = Cardinality(Pending(i)')
  BY <1>2, <1>3, <1>4
<1>8. LinksOf(i) = a + b + c + r /\ LinksOf(i)' = a1 + b1 + c1 + r
  BY <1>6, <1>7 DEF LinksOf
<1>9. PICK o1 \in Nat, o2 \in Nat, o3 \in Nat :
         o1 = One(e \in EntriesOf(i)) /\ o2 = One(n \in Subdirs(i)) /\ o3 = One(p \in Pending(i))
  BY <1>5
<1>10. PICK q1 \in Nat, q2 \in Nat, q3 \in Nat :
         q1 = One(e \in EntriesOf(i)') /\ q2 = One(n \in Subdirs(i)') /\ q3 = One(p \in Pending(i)')
  BY <1>5
<1>11. a1 + o1 = a + q1 /\ b1 + o2 = b + q2 /\ c1 + o3 = c + q3
  BY <1>2, <1>3, <1>4, <1>6, <1>7, <1>9, <1>10, Zenon
<1>12. (a1 + b1 + c1 + r) + o1 + o2 + o3 = (a + b + c + r) + q1 + q2 + q3
  BY <1>11
<1> QED
  BY <1>8, <1>9, <1>10, <1>12

LEMMA HasSame ==
    ASSUME LocalTypes, NEW p \in Procs, Own(p), NEW q \in Procs \ {p}
    PROVE  \A x : (Has(q, x)' <=> Has(q, x)) /\ (Owes(q, x)' <=> Owes(q, x))
<1>1. /\ cwd'[q] = cwd[q] /\ fd'[q] = fd[q] /\ script'[q] = script[q]
      /\ pc'[q] = pc[q] /\ has'[q] = has[q] /\ path'[q] = path[q]
      /\ cur'[q] = cur[q] /\ ip'[q] = ip[q] /\ dp'[q] = dp[q]
      /\ puts'[q] = puts[q] /\ iputs'[q] = iputs[q]
  BY OthersSame
<1>2. Cwd(q)' = Cwd(q) /\ (Second(q)' <=> Second(q))
  BY <1>1 DEF Cwd, Second, Call
<1> QED
  BY <1>1, <1>2 DEF Has, Owes

\* What a step may do to what others have: a type changes if nobody else has the inode,
\* links if p has it, and entries if p has locked the directory.
Alone(p) ==
    /\ Own(p)
    /\ \A x \in Inums : /\ Has(p, x)' => Has(p, x) \/ Named(x) \/ dinode[x].type = "FREE"
                        /\ dinode'[x].type # dinode[x].type => Sole(p, x)
                        /\ dinode'[x].nlink # dinode[x].nlink => Has(p, x) \/ dinode[x].type = "FREE"
                        /\ ents'[x] # ents[x] => Has(p, x) /\ lock[x] = p

LEMMA OthersLinks ==
    ASSUME BlocksInv, LinkInv, NEW p \in Procs, Alone(p), NEW q \in Procs \ {p}
    PROVE  UsedInv(q)' /\ PlacesInv(q)'
<1>1. /\ cwd'[q] = cwd[q] /\ fd'[q] = fd[q] /\ script'[q] = script[q]
      /\ pc'[q] = pc[q] /\ has'[q] = has[q] /\ path'[q] = path[q]
      /\ cur'[q] = cur[q] /\ ip'[q] = ip[q] /\ dp'[q] = dp[q]
      /\ puts'[q] = puts[q] /\ iputs'[q] = iputs[q]
  BY OthersSame DEF Alone, BlocksInv, TypesInv
<1>2. \A r \in Procs \ {p}, x \in Inums : Has(r, x)' <=> Has(r, x)
  BY HasSame DEF Alone, BlocksInv, TypesInv
<1>3. LocalTypes /\ CallInv(q) /\ UsedInv(q) /\ PlacesInv(q)
  BY DEF BlocksInv, TypesInv, LinkInv
<1>4. ASSUME NEW x \in Inums, Has(q, x)
      PROVE  dinode[x].type # "FREE" /\ dinode'[x].type = dinode[x].type
  BY <1>3, <1>4 DEF Alone, Sole, UsedInv
<1>5. ASSUME NEW x \in Inums, Has(q, x), Sole(q, x)
      PROVE  dinode'[x].nlink = dinode[x].nlink /\ ents'[x] = ents[x]
  BY <1>3, <1>4, <1>5 DEF Alone, Sole
<1>6. ASSUME NEW x \in Inums, Has(q, x), Sole(q, x), dinode[x].nlink = 0
      PROVE  Sole(q, x)'
  <2>1. ~Has(p, x) /\ ~Named(x) /\ dinode[x].type # "FREE"
    BY <1>4, <1>6, NamedHasLink DEF Sole
  <2>2. ~Has(p, x)'
    BY <2>1 DEF Alone
  <2>3. \A r \in Procs \ {p, q} : ~Has(r, x)'
    BY <1>2, <1>6 DEF Sole
  <2> QED
    BY <2>2, <2>3 DEF Sole
<1>7. UsedInv(q)'
  BY <1>2, <1>4, <1>3 DEF UsedInv
<1>8. ASSUME pc[q] \in {"new", "unlinked"}
      PROVE  dp[q] \in Inums /\ ip[q] \in Inums /\ Has(q, ip[q]) /\ ents'[dp[q]] = ents[dp[q]]
  <2>1. dp[q] \in Inums /\ ip[q] \in Inums
    BY <1>3, <1>8 DEF CallInv, Shape, LocalTypes, Slot
  <2>2. lock[dp[q]] = q
    BY <1>8, <2>1 DEF BlocksInv, LocksInv, Locks, Holds
  <2> QED
    BY <2>1, <2>2 DEF Alone, Has
<1>9. dp'[q] # None => dinode'[dp'[q]].type = "DIR"
  <2>1. dp[q] # None => dp[q] \in Inums /\ Has(q, dp[q])
    BY <1>3 DEF LocalTypes, Slot, Has
  <2> QED
    BY <1>1, <1>3, <1>4, <2>1 DEF PlacesInv
<1>10. ip'[q] # None /\ Second(q)' /\ pc'[q] # "link" => dinode'[ip'[q]].type # "DIR"
  <2>1. ip[q] # None => ip[q] \in Inums /\ Has(q, ip[q])
    BY <1>3 DEF LocalTypes, Slot, Has
  <2>2. Second(q)' <=> Second(q)
    BY <1>1 DEF Second, Call
  <2> QED
    BY <1>1, <1>3, <1>4, <2>1, <2>2 DEF PlacesInv
<1>11. pc'[q] = "new" =>
          /\ dinode'[ip'[q]].type = NewType(q)' /\ dinode'[ip'[q]].nlink = 0 /\ Empty(ip[q])'
          /\ ents'[dp'[q]][Head(path'[q])] = None
          /\ Sole(q, ip[q])' /\ ip'[q] # dp'[q]
  <2> SUFFICES ASSUME pc[q] = "new"
               PROVE  /\ dinode'[ip[q]].type = NewType(q)' /\ dinode'[ip[q]].nlink = 0 /\ Empty(ip[q])'
                      /\ ents'[dp[q]][Head(path[q])] = None
                      /\ Sole(q, ip[q])' /\ ip[q] # dp[q]
    BY <1>1
  <2>1. /\ dinode[ip[q]].type = NewType(q) /\ dinode[ip[q]].nlink = 0 /\ Empty(ip[q])
        /\ ents[dp[q]][Head(path[q])] = None
        /\ Sole(q, ip[q]) /\ ip[q] # dp[q]
    BY <1>3 DEF PlacesInv
  <2>2. NewType(q)' = NewType(q)
    BY <1>1 DEF NewType, Call
  <2>3. ip[q] \in Inums /\ Has(q, ip[q]) /\ ents'[dp[q]] = ents[dp[q]]
    BY <1>8
  <2>4. dinode'[ip[q]].type = dinode[ip[q]].type
    BY <2>3, <1>4
  <2>5. dinode'[ip[q]].nlink = 0 /\ ents'[ip[q]] = ents[ip[q]]
    BY <2>1, <2>3, <1>5
  <2>6. \A r \in Procs \ {q} : ~Has(r, ip[q])'
    <3>1. \A x \in Inums : x = ip[q] => Sole(q, x)'
      BY <2>1, <2>3, <1>6
    <3> QED
      BY <2>3, <3>1, <1>1 DEF Sole
  <2> QED
    BY <2>1, <2>2, <2>3, <2>4, <2>5, <2>6, <1>1 DEF Empty, Sole
<1>12. pc'[q] = "unlinked" => ents'[dp'[q]][Head(path'[q])] = ip'[q]
  BY <1>1, <1>3, <1>8 DEF PlacesInv
<1>13. puts'[q] # <<>> /\ iputs'[q] = "free" =>
          /\ dinode'[Head(puts'[q])].nlink = 0 /\ Sole(q, Head(puts[q]))'
          /\ Head(puts'[q]) \notin {fd'[q], Cwd(q)', cur'[q], ip'[q], dp'[q]}
          /\ Len(puts'[q]) >= 2 => puts'[q][2] # Head(puts'[q])
  <2> SUFFICES ASSUME puts[q] # <<>>, iputs[q] = "free"
               PROVE  /\ dinode'[Head(puts[q])].nlink = 0 /\ Sole(q, Head(puts[q]))'
                      /\ Head(puts[q]) \notin {fd[q], Cwd(q)', cur[q], ip[q], dp[q]}
                      /\ Len(puts[q]) >= 2 => puts[q][2] # Head(puts[q])
    BY <1>1
  <2>1. /\ dinode[Head(puts[q])].nlink = 0 /\ Sole(q, Head(puts[q]))
        /\ Head(puts[q]) \notin {fd[q], Cwd(q), cur[q], ip[q], dp[q]}
        /\ Len(puts[q]) >= 2 => puts[q][2] # Head(puts[q])
    BY <1>3 DEF PlacesInv
  <2>2. Head(puts[q]) \in Inums /\ Has(q, Head(puts[q]))
    BY <1>3 DEF LocalTypes, Has
  <2>3. dinode'[Head(puts[q])].nlink = 0
    BY <2>1, <2>2, <1>5
  <2>4. \A r \in Procs \ {q} : ~Has(r, Head(puts[q]))'
    <3>1. \A x \in Inums : x = Head(puts[q]) => Sole(q, x)'
      BY <2>1, <2>2, <1>6
    <3> QED
      BY <2>2, <3>1, <1>1 DEF Sole
  <2>5. Cwd(q)' = Cwd(q)
    BY <1>1 DEF Cwd
  <2> QED
    BY <2>1, <2>3, <2>4, <2>5, <1>1 DEF Sole
<1>14. PlacesInv(q)'
  BY <1>1, <1>9, <1>10, <1>11, <1>12, <1>13, Zenon DEF PlacesInv, Sole
<1> QED
  BY <1>7, <1>14

LEMMA PendingIs == ASSUME NEW i, NEW q PROVE q \in Pending(i) <=> q \in Procs /\ Owes(q, i)
  BY DEF Pending, Owes

LEMMA PendingNext == ASSUME NEW i, NEW q PROVE q \in Pending(i)' <=> q \in Procs /\ Owes(q, i)'
  BY DEF Pending, Owes

\* A step that changes no type and no entry, but what p owes and the links together
LEMMA OwedLinks ==
    ASSUME BlocksInv, LinkInv, NEW p \in Procs, Own(p),
           \A x \in Inums : dinode'[x].type = dinode[x].type,
           UNCHANGED <<ents, up, removed>>,
           \A x \in Inums : dinode'[x].nlink \in Int,
           \A x \in Inums : dinode'[x].nlink + One(Owes(p, x)) = dinode[x].nlink + One(Owes(p, x)'),
           \A x \in Inums : dinode'[x].nlink # dinode[x].nlink => Has(p, x),
           \A x \in Inums : Has(p, x)' => Has(p, x) \/ Named(x),
           PlacesInv(p)'
    PROVE  LinkInv'
<1>1. Alone(p)
  BY DEF Alone
<1>2. \A q \in Procs \ {p} : UsedInv(q)' /\ PlacesInv(q)'
  BY <1>1, OthersLinks
<1>3. UsedInv(p)'
  <2>1. ASSUME NEW x \in Inums, Named(x) PROVE dinode[x].type # "FREE"
    BY <2>1, NamedHasLink
  <2>2. UsedInv(p)
    BY DEF LinkInv
  <2> QED
    BY <2>1, <2>2 DEF UsedInv
<1>4. ents \in [Inums -> [Names -> Slot]]
  BY DEF BlocksInv, TypesInv, DataTypes
<1>5. \A i : EntriesOf(i)' = EntriesOf(i)
  BY DEF EntriesOf
<1>6. \A i \in Inums : Subdirs(i)' = Subdirs(i)
  <2> SUFFICES ASSUME NEW i \in Inums, NEW n \in Names
               PROVE  n \in Subdirs(i)' <=> n \in Subdirs(i)
    BY DEF Subdirs
  <2>1. ents[i][n] \in Slot
    BY <1>4
  <2> QED
    BY <2>1 DEF Subdirs, Slot
<1>7. ASSUME NEW i, NEW q, q # p PROVE q \in Pending(i) <=> q \in Pending(i)'
  BY <1>7, HasSame, PendingIs, PendingNext DEF BlocksInv, TypesInv
<1>8. ASSUME NEW i \in Inums
      PROVE  /\ LinksOf(i) \in Nat /\ LinksOf(i)' \in Nat
             /\ LinksOf(i)' + One(Owes(p, i)) = LinksOf(i) + One(Owes(p, i)')
  <2>1. /\ \A x : x # 0 => (x \in EntriesOf(i) <=> x \in EntriesOf(i)')
        /\ \A x : x # 0 => (x \in Subdirs(i) <=> x \in Subdirs(i)')
        /\ \A q : q # p => (q \in Pending(i) <=> q \in Pending(i)')
    BY <1>5, <1>6, <1>7
  <2>2. /\ LinksOf(i) \in Nat /\ LinksOf(i)' \in Nat
        /\ LinksOf(i)' + One(0 \in EntriesOf(i)) + One(0 \in Subdirs(i)) + One(p \in Pending(i))
             = LinksOf(i) + One(0 \in EntriesOf(i)') + One(0 \in Subdirs(i)') + One(p \in Pending(i)')
    BY <2>1, Balance
  <2>3. (p \in Pending(i) <=> Owes(p, i)) /\ (p \in Pending(i)' <=> Owes(p, i)')
    BY PendingIs, PendingNext
  <2>4. /\ One(p \in Pending(i)) = One(Owes(p, i)) /\ One(p \in Pending(i)') = One(Owes(p, i)')
        /\ One(0 \in EntriesOf(i)) = One(0 \in EntriesOf(i)') /\ One(0 \in Subdirs(i)) = One(0 \in Subdirs(i)')
    BY <1>5, <1>6, <2>3 DEF One
  <2>5. /\ One(0 \in EntriesOf(i)') \in Nat /\ One(0 \in Subdirs(i)') \in Nat
        /\ One(Owes(p, i)) \in Nat /\ One(Owes(p, i)') \in Nat
    BY DEF One
  <2> QED
    BY <2>2, <2>4, <2>5
<1>9. CountInv'
  <2> SUFFICES ASSUME NEW i \in Inums, dinode'[i].type # "FREE"
               PROVE  /\ dinode'[i].nlink >= LinksOf(i)'
                      /\ i \notin removed' => dinode'[i].nlink = LinksOf(i)'
    BY DEF CountInv
  <2>1. /\ dinode[i].nlink >= LinksOf(i)
        /\ i \notin removed => dinode[i].nlink = LinksOf(i)
    BY DEF LinkInv, CountInv
  <2>2. dinode'[i].nlink \in Int /\ dinode[i].nlink \in Int
    BY DEF BlocksInv, TypesInv, DataTypes, Inode
  <2>3. One(Owes(p, i)) \in Nat /\ One(Owes(p, i)') \in Nat
    BY DEF One
  <2> QED
    BY <1>8, <2>1, <2>2, <2>3
<1>10. DirsInv'
  <2>1. Root \in Inums
    BY FsAssumption DEF Root, Inums
  <2>2. ASSUME NEW d \in Inums, NEW n \in Names, ents'[d][n] # None
        PROVE  /\ dinode'[d].type = "DIR" /\ dinode'[ents'[d][n]].type # "FREE"
               /\ dinode'[ents'[d][n]].type = "DIR" => up'[ents'[d][n]] = d
               /\ \A m \in Names : ents'[ents'[d][n]][m] # d
    <3>1. ents[d][n] \in Inums
      BY <1>4, <2>2 DEF Slot
    <3> QED
      BY <2>2, <3>1 DEF LinkInv, DirsInv
  <2> QED
    BY <2>1, <2>2 DEF LinkInv, DirsInv
<1>11. NamesInv'
  <2>1. \A d : Named(d)' <=> Named(d)
    BY <1>5 DEF Named
  <2>2. ASSUME NEW d \in Inums, NEW n \in Names, dinode'[d].type = "DIR", ~Named(d)', ents'[d][n] # None
        PROVE  ents'[d][n] \in removed' /\ ents'[ents'[d][n]] = NoEntries
    <3>1. ents[d][n] \in removed /\ Empty(ents[d][n])
      BY <2>1, <2>2 DEF LinkInv, NamesInv
    <3> QED
      BY <3>1 DEF Empty
  <2> QED
    BY <2>2 DEF NamesInv, Empty
<1> QED
  BY <1>2, <1>3, <1>9, <1>10, <1>11 DEF LinkInv

\* A step that changes no type, no entry and no number of links
LEMMA QuietLinks ==
    ASSUME BlocksInv, LinkInv, NEW p \in Procs, Own(p),
           \A x \in Inums : dinode'[x].type = dinode[x].type /\ dinode'[x].nlink = dinode[x].nlink,
           UNCHANGED <<ents, up, removed>>,
           \A x \in Inums : Has(p, x)' => Has(p, x) \/ Named(x),
           \A x : Owes(p, x)' <=> Owes(p, x),
           PlacesInv(p)'
    PROVE  LinkInv'
<1>1. \A x \in Inums : dinode'[x].nlink + One(Owes(p, x)) = dinode[x].nlink + One(Owes(p, x)')
  BY DEF One
<1>2. \A x \in Inums : dinode'[x].nlink \in Int
  BY DEF BlocksInv, TypesInv, DataTypes, Inode
<1> QED
  BY <1>1, <1>2, OwedLinks

IsDir(x) == x # None /\ dinode[x].type = "DIR"

\* How the links change when entry n of d becomes v
Relinked(p, d, n, v) == \A i \in Inums :
    /\ LinksOf(i) \in Nat /\ LinksOf(i)' \in Nat
    /\ LinksOf(i)' + One(ents[d][n] = i) + One(i = d /\ IsDir(ents[d][n])) + One(Owes(p, i))
         = LinksOf(i) + One(v = i) + One(i = d /\ IsDir(v)) + One(Owes(p, i)')

LEMMA EntryLinks ==
    ASSUME BlocksInv, NEW p \in Procs, Own(p), NEW d \in Inums, NEW n \in Names, NEW v \in Slot,
           ents' = [ents EXCEPT ![d][n] = v],
           \A x \in Inums : dinode'[x].type = dinode[x].type
    PROVE  Relinked(p, d, n, v)
<1> SUFFICES ASSUME NEW i \in Inums
             PROVE  /\ LinksOf(i) \in Nat /\ LinksOf(i)' \in Nat
                    /\ LinksOf(i)' + One(ents[d][n] = i) + One(i = d /\ IsDir(ents[d][n])) + One(Owes(p, i))
                         = LinksOf(i) + One(v = i) + One(i = d /\ IsDir(v)) + One(Owes(p, i)')
  BY DEF Relinked
<1>1. ents \in [Inums -> [Names -> Slot]]
  BY DEF BlocksInv, TypesInv, DataTypes
<1>2. ents' \in [Inums -> [Names -> Slot]] /\ ents'[d][n] = v
  BY <1>1
<1>3. \A a \in Inums, m \in Names : <<a, m>> # <<d, n>> => ents'[a][m] = ents[a][m]
  BY <1>1
<1>4. ASSUME NEW x, x # <<d, n>> PROVE x \in EntriesOf(i) <=> x \in EntriesOf(i)'
  <2>1. ASSUME NEW a \in Inums, NEW m \in Names, x = <<a, m>> PROVE ents'[x[1]][x[2]] = ents[x[1]][x[2]]
    BY <1>3, <1>4, <2>1
  <2> QED
    BY <2>1 DEF EntriesOf
<1>5. ASSUME NEW m \in Names, i # d \/ m # n PROVE m \in Subdirs(i) <=> m \in Subdirs(i)'
  <2>1. ents'[i][m] = ents[i][m] /\ ents[i][m] \in Slot
    BY <1>1, <1>3, <1>5
  <2>2. ents[i][m] # None => dinode'[ents[i][m]].type = dinode[ents[i][m]].type
    BY <2>1 DEF Slot
  <2> QED
    BY <2>1, <2>2 DEF Subdirs
<1>6. \A m : m # n => (m \in Subdirs(i) <=> m \in Subdirs(i)')
  <2>1. \A m : m \notin Names => m \notin Subdirs(i) /\ m \notin Subdirs(i)'
    BY DEF Subdirs
  <2> QED
    BY <1>5, <2>1
<1>7. ASSUME NEW q, q # p PROVE q \in Pending(i) <=> q \in Pending(i)'
  BY <1>7, HasSame, PendingIs, PendingNext DEF BlocksInv, TypesInv
<1>8. /\ LinksOf(i) \in Nat /\ LinksOf(i)' \in Nat
      /\ LinksOf(i)' + One(<<d, n>> \in EntriesOf(i)) + One(n \in Subdirs(i)) + One(p \in Pending(i))
           = LinksOf(i) + One(<<d, n>> \in EntriesOf(i)') + One(n \in Subdirs(i)') + One(p \in Pending(i)')
  BY <1>4, <1>6, <1>7, Balance
<1>9. /\ One(<<d, n>> \in EntriesOf(i)) = One(ents[d][n] = i)
      /\ One(<<d, n>> \in EntriesOf(i)') = One(v = i)
  <2>1. (<<d, n>> \in EntriesOf(i) <=> ents[d][n] = i) /\ (<<d, n>> \in EntriesOf(i)' <=> v = i)
    BY <1>2 DEF EntriesOf
  <2> QED
    BY <2>1 DEF One
<1>10. One(p \in Pending(i)) = One(Owes(p, i)) /\ One(p \in Pending(i)') = One(Owes(p, i)')
  BY PendingIs, PendingNext DEF One
<1>11. /\ i # d => One(n \in Subdirs(i)) = One(n \in Subdirs(i)')
       /\ i = d => /\ One(n \in Subdirs(i)) = One(IsDir(ents[d][n]))
                   /\ One(n \in Subdirs(i)') = One(IsDir(v))
  <2>1. i # d => (n \in Subdirs(i) <=> n \in Subdirs(i)')
    BY <1>5
  <2>2. n \in Subdirs(d) <=> IsDir(ents[d][n])
    BY DEF Subdirs, IsDir
  <2>3. n \in Subdirs(d)' <=> IsDir(v)
    BY <1>2 DEF Subdirs, IsDir, Slot
  <2> QED
    BY <2>1, <2>2, <2>3 DEF One
<1>12. \A b : One(b) \in Nat
  BY DEF One
<1>13. LinksOf(i)' + One(ents[d][n] = i) + One(n \in Subdirs(i)) + One(Owes(p, i))
         = LinksOf(i) + One(v = i) + One(n \in Subdirs(i)') + One(Owes(p, i)')
  BY <1>8, <1>9, <1>10
<1>14. CASE i = d
  <2>1. /\ One(i = d /\ IsDir(ents[d][n])) = One(n \in Subdirs(i))
        /\ One(i = d /\ IsDir(v)) = One(n \in Subdirs(i)')
    BY <1>11, <1>14 DEF One
  <2> QED
    BY <1>8, <1>13, <2>1
<1>15. CASE i # d
  <2>1. One(i = d /\ IsDir(ents[d][n])) = 0 /\ One(i = d /\ IsDir(v)) = 0
    BY <1>15 DEF One
  <2>2. One(n \in Subdirs(i)) = One(n \in Subdirs(i)')
    BY <1>11, <1>15
  <2>3. PICK a \in Nat, b \in Nat, c \in Nat, e \in Nat, f \in Nat, g \in Nat, h \in Nat :
           /\ a = LinksOf(i)' /\ b = LinksOf(i) /\ c = One(ents[d][n] = i) /\ e = One(v = i)
           /\ f = One(Owes(p, i)) /\ g = One(Owes(p, i)') /\ h = One(n \in Subdirs(i))
    BY <1>8, <1>12
  <2>4. a + c + h + f = b + e + h + g
    BY <1>13, <2>2, <2>3, Zenon
  <2>5. a + c + 0 + f = b + e + 0 + g
    BY <2>4
  <2> QED
    BY <1>8, <2>1, <2>3, <2>5
<1> QED
  BY <1>14, <1>15

\* A step that makes v entry n of the directory d that p has locked, or removes the entry,
\* and counts the links accordingly
NameStep(p, d, n, v) ==
    /\ Own(p) /\ d = dp[p] /\ lock[d] = p
    /\ ents' = [ents EXCEPT ![d][n] = v]
    /\ v = None \/ ents[d][n] = None
    /\ ents[d][n] # None /\ dinode[ents[d][n]].type = "DIR" => Empty(ents[d][n])
    /\ v # None => Has(p, v) /\ Empty(v) /\ v # d /\ (dinode[v].type = "DIR" => up'[v] = d)
    /\ \A x \in Inums : up'[x] = up[x] \/ EntriesOf(x) = {}
    /\ removed' = IF v = None \/ Named(d) THEN removed ELSE removed \cup {v}
    /\ PlacesInv(p)'
    /\ \A x \in Inums :
          /\ dinode'[x].type = dinode[x].type /\ dinode'[x].nlink \in Int
          /\ dinode'[x].nlink # dinode[x].nlink => Has(p, x)
          /\ Has(p, x)' => Has(p, x) \/ Named(x)
          /\ dinode'[x].nlink + One(ents[d][n] = x) + One(x = d /\ IsDir(ents[d][n])) + One(Owes(p, x))
               = dinode[x].nlink + One(v = x) + One(x = d /\ IsDir(v)) + One(Owes(p, x)')

LEMMA NameLinks ==
    ASSUME BlocksInv, LinkInv, ParentsNamed, NEW p \in Procs,
           NEW d \in Inums, NEW n \in Names, NEW v \in Slot, NameStep(p, d, n, v)
    PROVE  LinkInv'
<1> SUFFICES
      ASSUME Own(p), d = dp[p], lock[d] = p,
             ents' = [ents EXCEPT ![d][n] = v],
             v = None \/ ents[d][n] = None,
             ents[d][n] # None /\ dinode[ents[d][n]].type = "DIR" => Empty(ents[d][n]),
             v # None => Has(p, v) /\ Empty(v) /\ v # d /\ (dinode[v].type = "DIR" => up'[v] = d),
             \A x \in Inums : up'[x] = up[x] \/ EntriesOf(x) = {},
             removed' = IF v = None \/ Named(d) THEN removed ELSE removed \cup {v},
             PlacesInv(p)',
             \A x \in Inums : dinode'[x].type = dinode[x].type /\ dinode'[x].nlink \in Int,
             \A x \in Inums : dinode'[x].nlink # dinode[x].nlink => Has(p, x),
             \A x \in Inums : Has(p, x)' => Has(p, x) \/ Named(x),
             \A x \in Inums :
                dinode'[x].nlink + One(ents[d][n] = x) + One(x = d /\ IsDir(ents[d][n])) + One(Owes(p, x))
                  = dinode[x].nlink + One(v = x) + One(x = d /\ IsDir(v)) + One(Owes(p, x)')
      PROVE  LinkInv'
  BY DEF NameStep
<1>1. ents \in [Inums -> [Names -> Slot]] /\ Root \in Inums /\ None \notin Inums
  BY FsAssumption DEF BlocksInv, TypesInv, DataTypes, Root, None, Inums
<1>2. /\ ents'[d][n] = v
      /\ \A a \in Inums, m \in Names : a # d \/ m # n => ents'[a][m] = ents[a][m]
      /\ \A a \in Inums : a # d => ents'[a] = ents[a]
  BY <1>1
<1>3. Alone(p)
  BY <1>2 DEF Alone, Has
<1>4. \A q \in Procs \ {p} : UsedInv(q)' /\ PlacesInv(q)'
  BY <1>3, OthersLinks
<1>5. UsedInv(p)'
  <2>1. ASSUME NEW x \in Inums, Named(x) PROVE dinode[x].type # "FREE"
    BY <2>1, NamedHasLink
  <2>2. UsedInv(p)
    BY DEF LinkInv
  <2> QED
    BY <2>1, <2>2 DEF UsedInv
<1>6. CountInv'
  <2> SUFFICES ASSUME NEW i \in Inums, dinode'[i].type # "FREE"
               PROVE  /\ dinode'[i].nlink >= LinksOf(i)'
                      /\ i \notin removed' => dinode'[i].nlink = LinksOf(i)'
    BY DEF CountInv
  <2>1. /\ dinode[i].nlink >= LinksOf(i)
        /\ i \notin removed => dinode[i].nlink = LinksOf(i)
    BY DEF LinkInv, CountInv
  <2>2. PICK a \in Int, b \in Int : a = dinode'[i].nlink /\ b = dinode[i].nlink
    BY DEF BlocksInv, TypesInv, DataTypes, Inode
  <2>3. PICK c \in Nat, e \in Nat, f \in Nat, g \in Nat, h \in Nat, k \in Nat :
           /\ c = One(ents[d][n] = i) /\ e = One(i = d /\ IsDir(ents[d][n])) /\ f = One(Owes(p, i))
           /\ g = One(v = i) /\ h = One(i = d /\ IsDir(v)) /\ k = One(Owes(p, i)')
    BY DEF One
  <2>8. /\ LinksOf(i) \in Nat /\ LinksOf(i)' \in Nat
        /\ LinksOf(i)' + One(ents[d][n] = i) + One(i = d /\ IsDir(ents[d][n])) + One(Owes(p, i))
             = LinksOf(i) + One(v = i) + One(i = d /\ IsDir(v)) + One(Owes(p, i)')
    <3>1. \A x \in Inums : dinode'[x].type = dinode[x].type
      OBVIOUS
    <3>2. Relinked(p, d, n, v)
      BY <3>1, EntryLinks
    <3> QED
      BY <3>2 DEF Relinked
  <2>4. PICK l \in Nat, m \in Nat : l = LinksOf(i) /\ m = LinksOf(i)'
    BY <2>8
  <2>9. m + c + e + f = l + g + h + k
    BY <2>3, <2>4, <2>8, Zenon
  <2>5. a + c + e + f = b + g + h + k
    BY <2>2, <2>3
  <2>6. a - b = m - l
    BY <2>5, <2>9
  <2>7. i \notin removed' => i \notin removed
    OBVIOUS
  <2> QED
    BY <2>1, <2>2, <2>4, <2>6, <2>7
<1>7. DirsInv /\ NamesInv /\ dinode[d].type = "DIR"
  BY <1>1 DEF LinkInv, PlacesInv
<1>8. v # None => v \in Inums /\ dinode[v].type # "FREE"
  <2>1. v # None => v \in Inums
    BY DEF Slot
  <2>2. UsedInv(p)
    BY DEF LinkInv
  <2> QED
    BY <2>1, <2>2 DEF UsedInv
<1>9. v # None => ents[v] = NoEntries /\ ents'[v] = NoEntries
  BY <1>2, <1>8 DEF Empty
<1>10. DirsInv'
  <2>1. dinode'[Root].type = "DIR"
    BY <1>1, <1>7 DEF DirsInv
  <2>2. ASSUME NEW a \in Inums, NEW m \in Names, ents'[a][m] # None
        PROVE  /\ dinode'[a].type = "DIR" /\ dinode'[ents'[a][m]].type # "FREE"
               /\ dinode'[ents'[a][m]].type = "DIR" => up'[ents'[a][m]] = a
               /\ \A k \in Names : ents'[ents'[a][m]][k] # a
    <3>1. CASE a = d /\ m = n
      <4>1. \A k \in Names : ents'[v][k] # d
        BY <1>1, <1>2, <1>9, <2>2, <3>1 DEF NoEntries
      <4> QED
        BY <1>2, <1>7, <1>8, <2>2, <3>1, <4>1
    <3>2. CASE a # d \/ m # n
      <4>1. PICK x \in Inums : x = ents[a][m] /\ x = ents'[a][m]
        BY <1>1, <1>2, <2>2, <3>2 DEF Slot
      <4>2. /\ dinode[a].type = "DIR" /\ dinode[x].type # "FREE"
            /\ dinode[x].type = "DIR" => up[x] = a
            /\ \A k \in Names : ents[x][k] # a
        <5>1. ents[a][m] # None
          BY <1>1, <4>1
        <5>2. /\ dinode[a].type = "DIR" /\ dinode[ents[a][m]].type # "FREE"
              /\ dinode[ents[a][m]].type = "DIR" => up[ents[a][m]] = a
              /\ \A k \in Names : ents[ents[a][m]][k] # a
          BY <1>7, <5>1 DEF DirsInv
        <5> QED
          BY <4>1, <5>2
      <4>3. up'[x] = up[x]
        <5>1. <<a, m>> \in EntriesOf(x)
          BY <4>1 DEF EntriesOf
        <5> QED
          BY <5>1
      <4>4. ASSUME NEW k \in Names PROVE ents'[x][k] # a
        <5>1. CASE x = d /\ k = n
          <6>1. v = a => ents[a] = NoEntries
            BY <1>1, <1>9
          <6>2. v # a
            BY <1>1, <2>2, <4>1, <6>1 DEF NoEntries
          <6> QED
            BY <1>2, <5>1, <6>2
        <5>2. CASE x # d \/ k # n
          BY <1>2, <4>2, <5>2
        <5> QED
          BY <5>1, <5>2
      <4>5. dinode'[a].type = "DIR" /\ dinode'[x].type # "FREE"
        BY <4>2
      <4>6. dinode'[x].type = "DIR" => up'[x] = a
        BY <4>2, <4>3
      <4>7. ents'[a][m] = x
        BY <4>1
      <4> QED
        BY <4>4, <4>5, <4>6, <4>7, Zenon
    <3> QED
      BY <3>1, <3>2
  <2> QED
    BY <2>1, <2>2 DEF DirsInv
<1>11. NamesInv'
  <2>1. ASSUME NEW a \in Inums, NEW m \in Names, dinode'[a].type = "DIR", ~Named(a)', ents'[a][m] # None
        PROVE  ents'[a][m] \in removed' /\ ents'[ents'[a][m]] = NoEntries
    <3>1. dinode[a].type = "DIR" /\ a # Root /\ EntriesOf(a)' = {}
      BY <2>1 DEF Named
    <3>2. ~Named(a)
      <4> SUFFICES ASSUME EntriesOf(a) # {} PROVE FALSE
        BY <3>1 DEF Named
      <4>1. PICK b \in Inums, k \in Names : ents[b][k] = a
        BY DEF EntriesOf
      <4>2. b = d /\ k = n
        <5>1. ASSUME ents'[b][k] = a PROVE FALSE
          <6>1. <<b, k>> \in EntriesOf(a)'
            BY <5>1 DEF EntriesOf
          <6> QED
            BY <3>1, <6>1
        <5> QED
          BY <1>2, <4>1, <5>1
      <4>3. a # d
        BY <1>1, <1>7, <4>1, <4>2 DEF DirsInv
      <4>4. ents'[a] = NoEntries
        BY <1>1, <1>2, <3>1, <4>1, <4>2, <4>3 DEF Empty
      <4> QED
        BY <2>1, <4>4 DEF NoEntries
    <3>3. CASE a = d /\ m = n
      BY <1>2, <1>9, <2>1, <3>2, <3>3
    <3>4. CASE a # d \/ m # n
      <4>1. PICK x \in Inums : x = ents[a][m] /\ x = ents'[a][m]
        BY <1>1, <1>2, <2>1, <3>4 DEF Slot
      <4>2. x \in removed /\ ents[x] = NoEntries
        <5>1. ents[a][m] # None
          BY <1>1, <4>1
        <5>2. ents[a][m] \in removed /\ ents[ents[a][m]] = NoEntries
          BY <1>7, <3>1, <3>2, <5>1 DEF NamesInv, Empty
        <5> QED
          BY <4>1, <5>2
      <4>3. x # d
        <5> SUFFICES ASSUME x = d PROVE FALSE
          OBVIOUS
        <5>1. up[d] = a
          BY SMTT(40), <1>7, <2>1, <4>1 DEF DirsInv
        <5>2. d \in {cur[p], dp[p]} \ {None}
          BY <1>1
        <5>3. Named(up[d])
          BY <5>2 DEF ParentsNamed
        <5> QED
          BY <3>2, <5>1, <5>3
      <4> QED
        BY <1>2, <4>1, <4>2, <4>3
    <3> QED
      BY <3>3, <3>4
  <2> QED
    BY <2>1 DEF NamesInv, Empty
<1> QED
  BY <1>4, <1>5, <1>6, <1>10, <1>11 DEF LinkInv

\* Whoever has an inode counts.
LEMMA HasCount ==
    ASSUME BlocksInv, NEW q \in Procs, NEW x \in Inums, Has(q, x)
    PROVE  Count(q, x) >= 1
<1>1. puts[q] \in Seq(Inums) /\ Len(puts[q]) <= 2
  BY DEF BlocksInv, TypesInv, LocalTypes, CallInv
<1>2. puts[q] # <<>> => Len(puts[q]) >= 1 /\ Head(puts[q]) = puts[q][1]
  BY <1>1
<1>3. \A a : Is(a, x) \in Nat /\ (a = x => Is(a, x) = 1)
  BY DEF Is, One
<1>4. InSeq(puts[q], x) \in Nat
  BY DEF InSeq, One
<1>5. ASSUME puts[q] # <<>> /\ Head(puts[q]) = x PROVE InSeq(puts[q], x) >= 1
  BY <1>2, <1>5 DEF InSeq, One
<1>6. ASSUME Len(puts[q]) >= 2 /\ puts[q][2] = x PROVE InSeq(puts[q], x) >= 1
  BY <1>6 DEF InSeq, One
<1> QED
  BY <1>3, <1>4, <1>5, <1>6 DEF Has, Count, OfHand

\* Who has the only reference to an inode is alone with it, and has it in one place.
LEMMA OneUser ==
    ASSUME BlocksInv, NEW p \in Procs, NEW x \in Inums, Count(p, x) >= 1, ref[x] = 1
    PROVE  Sole(p, x) /\ Count(p, x) = 1
<1> DEFINE H == [q \in Procs |-> Hand(q)]
           A == AllTags(H, Procs \ {p}, x)
<1>1. LocalTypes /\ \A q \in Procs : Len(puts[q]) <= 2
  BY DEF BlocksInv, TypesInv, CallInv
<1>2. Cardinality(A) \in Nat /\ Cardinality(Uses(x)) = Cardinality(A) + Count(p, x)
  BY <1>1, UsesSplit
<1>3. \A q \in Procs : H[q] = Hand(q) /\ DOMAIN H[q] \subseteq 1..7 /\ Cardinality(Places(H[q], x)) = Count(q, x)
  BY <1>1, HandTypes
<1> HIDE DEF H
<1>4. IsFiniteSet(A)
  <2>1. IsFiniteSet(1..7)
    BY FS_Interval, 1 \in Int, 7 \in Int
  <2>2. IsFiniteSet(Procs \X (1..7))
    BY <2>1, FS_Product, FsAssumption
  <2>3. \A q \in Procs : Places(H[q], x) \subseteq 1..7
    BY <1>3 DEF Places
  <2>4. A \subseteq Procs \X (1..7)
    BY <2>3 DEF AllTags
  <2> QED
    BY <2>2, <2>4, FS_Subset
<1> HIDE DEF A
<1>5. Cardinality(A) = 0 /\ Count(p, x) = 1
  <2>1. PICK n \in Nat, c \in Nat : n = Cardinality(A) /\ c = Count(p, x)
    BY <1>2, CountType
  <2>2. 1 = n + c + (IF x = Root THEN 1 ELSE 0) /\ c >= 1
    BY <1>2, <2>1 DEF BlocksInv, RefsInv
  <2> QED
    BY <2>1, <2>2
<1>6. A = {}
  BY <1>4, <1>5, FS_EmptySet
<1>7. ASSUME NEW q \in Procs \ {p} PROVE ~Has(q, x)
  <2>1. Places(H[q], x) = {}
    <3>1. ASSUME NEW k \in Places(H[q], x) PROVE <<q, k>> \in A
      BY DEF AllTags, A
    <3> QED
      BY <1>6, <3>1
  <2>2. Count(q, x) = 0
    BY <1>3, <2>1, FS_EmptySet
  <2> QED
    BY <2>2, HasCount
<1> QED
  BY <1>5, <1>7 DEF Sole

\* In particular, what iput is about to free
LEMMA SoleUser ==
    ASSUME BlocksInv, NEW p \in Procs, NEW x \in Inums, ref[x] = 1,
           puts[p] # <<>>, Head(puts[p]) = x
    PROVE  /\ Sole(p, x) /\ x \notin {fd[p], Cwd(p), cur[p], ip[p], dp[p]}
           /\ Len(puts[p]) >= 2 => puts[p][2] # x
<1>1. puts[p] \in Seq(Inums) /\ Len(puts[p]) <= 2
  BY DEF BlocksInv, TypesInv, LocalTypes, CallInv
<1>2. Len(puts[p]) >= 1 /\ puts[p][1] = x
  BY <1>1
<1>3. PICK f \in Nat, c \in Nat, u \in Nat, i \in Nat, d \in Nat, t \in Nat :
         /\ f = Is(fd[p], x) /\ c = Is(Cwd(p), x) /\ u = Is(cur[p], x) /\ i = Is(ip[p], x) /\ d = Is(dp[p], x)
         /\ t = One(Len(puts[p]) >= 2 /\ puts[p][2] = x)
  BY IsType DEF One
<1>4. InSeq(puts[p], x) = 1 + t
  BY <1>2, <1>3 DEF InSeq, One
<1>5. Count(p, x) = f + c + u + i + d + (1 + t)
  BY <1>3, <1>4 DEF Count, OfHand
<1>6. Sole(p, x) /\ Count(p, x) = 1
  <2>1. f + c + u + i + d + (1 + t) >= 1
    OBVIOUS
  <2> QED
    BY <1>5, <2>1, OneUser, Zenon
<1>7. f = 0 /\ c = 0 /\ u = 0 /\ i = 0 /\ d = 0 /\ t = 0
  <2>1. f + c + u + i + d + (1 + t) = 1
    BY <1>5, <1>6, Zenon
  <2> QED
    BY <2>1
<1>8. \A a : Is(a, x) = 0 => a # x
  BY DEF Is, One
<1>9. ~(Len(puts[p]) >= 2 /\ puts[p][2] = x)
  BY <1>3, <1>7 DEF One
<1> QED
  BY <1>3, <1>6, <1>7, <1>8, <1>9

\* Whatever is found in a directory that a process is in is that directory, or has a name.
LEMMA FoundNamed ==
    ASSUME BlocksInv, LinkInv, ParentsNamed, NEW p \in Procs, NEW d \in Inums, d \in {cur[p], dp[p]},
           NEW n \in Names \cup Dots, Lookup(d, n) # None
    PROVE  Lookup(d, n) = d \/ Named(Lookup(d, n))
<1>1. d # None
  BY FsAssumption DEF None, Inums
<1>2. Named(up[d])
  BY <1>1 DEF ParentsNamed
<1>3. CASE n \in Names
  <2>1. Lookup(d, n) = ents[d][n]
    BY <1>3, FsAssumption DEF Lookup
  <2>2. <<d, n>> \in EntriesOf(ents[d][n])
    BY <1>3 DEF EntriesOf
  <2> QED
    BY <2>1, <2>2 DEF Named
<1>4. CASE n \in Dots
  BY <1>2, <1>4 DEF Lookup, Dots
<1> QED
  BY <1>3, <1>4

\* What p has by places, when it has nothing or what it gives is to be put
LEMMA HasPut ==
    ASSUME BlocksInv, NEW p \in Procs, puts[p] = <<>>
    PROVE  \A x : Has(p, x) <=> \/ fd[p] = x \/ Cwd(p) = x \/ cur[p] = x \/ ip[p] = x \/ dp[p] = x
  BY DEF Has

-----------------------------------------------------------------------------
(* namex *)

\* Between two calls a process has nothing but its directory and its file.
LEMMA IdleIs ==
    ASSUME BlocksInv, NEW p \in Procs, pc[p] = "idle", puts[p] = <<>>
    PROVE  /\ pc[p] = "idle" /\ puts[p] = <<>> /\ iputs[p] = "lock"
           /\ LocalTypes /\ CallInv(p)
           /\ \A x \in Inums : lock[x] = p <=> Holds(p, x)
  BY DEF BlocksInv, TypesInv, CallInv, LocksInv, Locks

\* A path leads nowhere.
LEMMA WalkFailed ==
    ASSUME BlocksInv, NEW p \in Procs, Walk(p), ~Second(p),
           ~(Type(cur[p]) = "DIR" /\ Len(path[p]) = 1 /\ ToParent(p)),
           Type(cur[p]) # "DIR" \/ Lookup(cur[p], Head(path[p])) = None
    PROVE  BlocksInv' /\ LinksKept
<1>1. At(p, "walk")
  BY DEF Walk
<1>2. /\ pc[p] = "walk" /\ has[p] /\ puts[p] = <<>> /\ iputs[p] = "lock"
      /\ LocalTypes /\ CallInv(p)
      /\ \A x \in Inums : lock[x] = p <=> Holds(p, x)
  BY <1>1, AtIs
<1>3. /\ cur[p] \in Inums /\ ip[p] = None /\ dp[p] = None /\ script[p] # <<>>
      /\ Tail(script[p]) \in Seq(SysCalls)
  BY <1>2, CallIs DEF CallInv, Shape, InCall, Second, LocalTypes, Slot
<1>4. /\ script' = [script EXCEPT ![p] = Tail(script[p])] /\ pc' = [pc EXCEPT ![p] = "idle"]
      /\ has' = [has EXCEPT ![p] = FALSE] /\ cur' = [cur EXCEPT ![p] = None] /\ Put(p, <<cur[p]>>)
      /\ lock' = [lock EXCEPT ![cur[p]] = NoProc]
      /\ UNCHANGED <<cwd, fd, path, ip, dp, iputs, valid, ref, dinode, ents, up, bitmap, copy, removed>>
  BY <1>2, <1>3 DEF Walk, WalkFails, Return, To, Set, Iunlock, disk
<1>5. /\ puts'[p] = <<cur[p]>> /\ puts' = [puts EXCEPT ![p] = puts'[p]]
      /\ script'[p] = Tail(script[p]) /\ pc'[p] = "idle" /\ has'[p] = FALSE /\ cur'[p] = None
  <2>1. <<cur[p]>> \in Seq(Inums)
    BY <1>3, <1>2
  <2>2. puts'[p] = <<cur[p]>> /\ puts' = [puts EXCEPT ![p] = puts'[p]]
    BY <1>2, <1>4, <2>1, PutIs
  <2> QED
    BY <1>2, <1>4, <2>2 DEF LocalTypes
<1>6. Own(p)
  BY <1>2, <1>4, <1>5 DEF Own, LocalTypes
<1>7. OwnTypes(p)
  BY <1>2, <1>3, <1>4, <1>5 DEF OwnTypes, LocalTypes, Labels, Slot
<1>8. \A x \in Inums : Holds(p, x) <=> x = cur[p]
  BY <1>2, <1>3, FsAssumption DEF Holds, Target, None, Inums
<1>9. \A x \in Inums : ~Holds(p, x)'
  BY <1>2, <1>3, <1>4, <1>5, FsAssumption DEF Holds, Target, None, Inums
<1>10. CallInv(p)'
  BY <1>2, <1>3, <1>4, <1>5 DEF CallInv, Shape, AtName, InCall, Call, Creates, None, Inums
<1>11. Released(p, {cur[p]})
  BY <1>2, <1>3, <1>4, <1>8 DEF Released, BlocksInv, TypesInv, DataTypes
<1>12. ASSUME NEW x \in Inums PROVE Count(p, x)' = Count(p, x)
  <2>1. Count(p, x) = Is(fd[p], x) + Is(cwd[p], x) + Is(cur[p], x) + 0 + 0 + 0
    BY <1>2, <1>3, IsNone, PutsCount DEF Count, OfHand, Cwd
  <2>2. Count(p, x)' = Is(fd[p], x) + Is(cwd[p], x) + 0 + 0 + 0 + Is(cur[p], x)
    BY <1>2, <1>3, <1>4, <1>5, IsNone, PutsCount DEF Count, OfHand, Cwd
  <2> QED
    BY <2>1, <2>2, IsType
<1>13. RefsStep(p) /\ Fetched
  BY <1>4, <1>12, RefsSame, FetchedSame
<1>14. UNCHANGED <<dinode, ents, up, bitmap, copy>> /\ removed' \subseteq Inums /\ iputs'[p] = "lock"
  BY <1>2, <1>4 DEF BlocksInv, TypesInv, DataTypes
<1>15. BlocksInv'
  BY <1>2, <1>6, <1>7, <1>8, <1>9, <1>10, <1>11, <1>13, <1>14, QuietStep
<1>16. ASSUME LinkInv, ParentsNamed PROVE LinkInv'
  <2>1. \A x \in Inums : Has(p, x)' => Has(p, x) \/ Named(x)
    BY <1>2, <1>3, <1>4, <1>5 DEF Has, Cwd
  <2>2. \A x : Owes(p, x)' <=> Owes(p, x)
    BY <1>2, <1>3, <1>4, <1>5 DEF Owes, Second, Call
  <2>3. PlacesInv(p)'
    BY <1>16, <1>2, <1>3, <1>4, <1>5 DEF PlacesInv, LinkInv, Second, Call
  <2> QED
    BY <1>16, <2>1, <2>2, <2>3, <1>2, <1>4, <1>6, <1>14, QuietLinks
<1> QED
  BY <1>15, <1>16 DEF LinksKept

\* link's second path leads nowhere.
LEMMA SecondWalkFailed ==
    ASSUME BlocksInv, NEW p \in Procs, Walk(p), Second(p),
           ~(Type(cur[p]) = "DIR" /\ Len(path[p]) = 1 /\ ToParent(p)),
           Type(cur[p]) # "DIR" \/ Lookup(cur[p], Head(path[p])) = None
    PROVE  BlocksInv' /\ LinksKept
<1>1. At(p, "walk")
  BY DEF Walk
<1>2. /\ pc[p] = "walk" /\ has[p] /\ puts[p] = <<>> /\ iputs[p] = "lock"
      /\ LocalTypes /\ CallInv(p)
      /\ \A x \in Inums : lock[x] = p <=> Holds(p, x)
  BY <1>1, AtIs
<1>3. /\ cur[p] \in Inums /\ ip[p] \in Inums /\ dp[p] = None /\ script[p] # <<>>
      /\ Call(p).op = "link"
  BY <1>2, CallIs DEF CallInv, Shape, InCall, Second, LocalTypes, Slot
<1>4. /\ pc' = [pc EXCEPT ![p] = "bad"] /\ has' = [has EXCEPT ![p] = FALSE]
      /\ cur' = [cur EXCEPT ![p] = None] /\ Put(p, <<cur[p]>>)
      /\ lock' = [lock EXCEPT ![cur[p]] = NoProc]
      /\ UNCHANGED <<cwd, fd, script, path, ip, dp, iputs, valid, ref, dinode, ents, up, bitmap, copy, removed>>
  BY <1>2, <1>3 DEF Walk, WalkFails, Go, To, Set, Iunlock, disk
<1>5. /\ puts'[p] = <<cur[p]>> /\ puts' = [puts EXCEPT ![p] = puts'[p]] /\ pc'[p] = "bad"
      /\ has'[p] = FALSE /\ cur'[p] = None
  <2>1. <<cur[p]>> \in Seq(Inums)
    BY <1>3, <1>2
  <2>2. puts'[p] = <<cur[p]>> /\ puts' = [puts EXCEPT ![p] = puts'[p]]
    BY <1>2, <1>4, <2>1, PutIs
  <2> QED
    BY <1>2, <1>4, <2>2 DEF LocalTypes
<1>6. Own(p)
  BY <1>2, <1>4, <1>5 DEF Own, LocalTypes
<1>7. OwnTypes(p)
  BY <1>2, <1>3, <1>4, <1>5 DEF OwnTypes, LocalTypes, Labels, Slot
<1>8. \A x \in Inums : Holds(p, x) <=> x = cur[p]
  BY <1>2, <1>3, FsAssumption DEF Holds, Target, None, Inums
<1>9. \A x \in Inums : ~Holds(p, x)'
  BY <1>2, <1>3, <1>4, <1>5, FsAssumption DEF Holds, Target, None, Inums
<1>10. CallInv(p)'
  BY <1>2, <1>3, <1>4, <1>5 DEF CallInv, Shape, AtName, InCall, Call, Creates, None, Inums
<1>11. Released(p, {cur[p]})
  BY <1>2, <1>3, <1>4, <1>8 DEF Released, BlocksInv, TypesInv, DataTypes
<1>12. ASSUME NEW x \in Inums PROVE Count(p, x)' = Count(p, x)
  <2>1. Count(p, x) = Is(fd[p], x) + Is(cwd[p], x) + Is(cur[p], x) + Is(ip[p], x) + 0 + 0
    BY <1>2, <1>3, IsNone, PutsCount DEF Count, OfHand, Cwd
  <2>2. Count(p, x)' = Is(fd[p], x) + Is(cwd[p], x) + 0 + Is(ip[p], x) + 0 + Is(cur[p], x)
    BY <1>2, <1>3, <1>4, <1>5, IsNone, PutsCount DEF Count, OfHand, Cwd
  <2> QED
    BY <2>1, <2>2, IsType
<1>13. RefsStep(p) /\ Fetched
  BY <1>4, <1>12, RefsSame, FetchedSame
<1>14. UNCHANGED <<dinode, ents, up, bitmap, copy>> /\ removed' \subseteq Inums /\ iputs'[p] = "lock"
  BY <1>2, <1>4 DEF BlocksInv, TypesInv, DataTypes
<1>15. BlocksInv'
  BY <1>2, <1>6, <1>7, <1>8, <1>9, <1>10, <1>11, <1>13, <1>14, QuietStep
<1>16. ASSUME LinkInv, ParentsNamed PROVE LinkInv'
  <2>1. \A x \in Inums : Has(p, x)' => Has(p, x) \/ Named(x)
    BY <1>2, <1>3, <1>4, <1>5 DEF Has, Cwd
  <2>2. \A x : Owes(p, x)' <=> Owes(p, x)
    BY <1>2, <1>3, <1>4, <1>5 DEF Owes, Second, Call
  <2>3. PlacesInv(p)'
    BY <1>16, <1>2, <1>3, <1>4, <1>5 DEF PlacesInv, LinkInv, Second, Call
  <2> QED
    BY <1>16, <2>1, <2>2, <2>3, <1>2, <1>4, <1>6, <1>14, QuietLinks
<1> QED
  BY <1>15, <1>16 DEF LinksKept

\* The next directory of a path
LEMMA WalkFurther ==
    ASSUME BlocksInv, NEW p \in Procs, Walk(p), Type(cur[p]) = "DIR",
           Lookup(cur[p], Head(path[p])) # None, Len(path[p]) # 1
    PROVE  BlocksInv' /\ LinksKept
<1>1. At(p, "walk")
  BY DEF Walk
<1>2. /\ pc[p] = "walk" /\ has[p] /\ puts[p] = <<>> /\ iputs[p] = "lock"
      /\ LocalTypes /\ CallInv(p)
      /\ \A x \in Inums : lock[x] = p <=> Holds(p, x)
  BY <1>1, AtIs
<1>3. /\ cur[p] \in Inums /\ dp[p] = None /\ script[p] # <<>>
      /\ Lookup(cur[p], Head(path[p])) \in Inums /\ Tail(path[p]) \in Seq(Names \cup Dots)
      /\ Tail(path[p]) # <<>>
  <2>1. path[p] # <<>>
    BY <1>2 DEF CallInv
  <2>2. Head(path[p]) \in Names \cup Dots /\ Tail(path[p]) \in Seq(Names \cup Dots)
    BY <2>1, PathIs
  <2>3. cur[p] \in Inums /\ dp[p] = None /\ script[p] # <<>>
    BY <1>2 DEF CallInv, Shape, InCall, LocalTypes, Slot
  <2>4. Tail(path[p]) # <<>>
    <3>1. path[p] \in Seq(Names \cup Dots) /\ Len(path[p]) # 0
      BY <2>1, <1>2 DEF LocalTypes
    <3>2. Len(Tail(path[p])) = Len(path[p]) - 1 /\ Len(path[p]) \in Nat
      BY <2>1, <3>1
    <3>3. Len(Tail(path[p])) # 0 /\ Len(<<>>) = 0
      BY <3>1, <3>2
    <3> QED
      BY <3>3, Zenon
  <2> QED
    BY <2>2, <2>3, <2>4, LookupType
<1>4. /\ pc' = [pc EXCEPT ![p] = "walk"] /\ has' = [has EXCEPT ![p] = FALSE]
      /\ path' = [path EXCEPT ![p] = Tail(path[p])]
      /\ cur' = [cur EXCEPT ![p] = Lookup(cur[p], Head(path[p]))] /\ Put(p, <<cur[p]>>)
      /\ lock' = [lock EXCEPT ![cur[p]] = NoProc] /\ Iget(Lookup(cur[p], Head(path[p])))
      /\ UNCHANGED <<cwd, fd, script, ip, dp, iputs, dinode, ents, up, bitmap, copy, removed>>
  BY <1>2, <1>3 DEF Walk, Go, To, Set, Iunlock, disk
<1>5. /\ puts'[p] = <<cur[p]>> /\ puts' = [puts EXCEPT ![p] = puts'[p]] /\ pc'[p] = "walk"
      /\ has'[p] = FALSE /\ path'[p] = Tail(path[p]) /\ cur'[p] = Lookup(cur[p], Head(path[p]))
  <2>1. <<cur[p]>> \in Seq(Inums)
    BY <1>3, <1>2
  <2>2. puts'[p] = <<cur[p]>> /\ puts' = [puts EXCEPT ![p] = puts'[p]]
    BY <1>2, <1>4, <2>1, PutIs
  <2> QED
    BY <1>2, <1>4, <2>2 DEF LocalTypes
<1>6. Own(p)
  BY <1>2, <1>4, <1>5 DEF Own, LocalTypes
<1>7. OwnTypes(p)
  BY <1>2, <1>3, <1>4, <1>5 DEF OwnTypes, LocalTypes, Labels, Slot
<1>8. \A x \in Inums : Holds(p, x) <=> x = cur[p]
  BY <1>2, <1>3, FsAssumption DEF Holds, Target, None, Inums
<1>9. \A x \in Inums : ~Holds(p, x)'
  BY <1>2, <1>3, <1>4, <1>5, FsAssumption DEF Holds, Target, None, Inums
<1>10. CallInv(p)'
  BY <1>2, <1>3, <1>4, <1>5 DEF CallInv, Shape, AtName, InCall, Call, Creates, None, Inums
<1>11. Released(p, {cur[p]})
  BY <1>2, <1>3, <1>4, <1>8 DEF Released, BlocksInv, TypesInv, DataTypes
<1>12. ASSUME NEW x \in Inums PROVE Count(p, x)' = Count(p, x) + Is(Lookup(cur[p], Head(path[p])), x)
  <2>1. Count(p, x) = Is(fd[p], x) + Is(cwd[p], x) + Is(cur[p], x) + Is(ip[p], x) + 0 + 0
    BY <1>2, <1>3, IsNone, PutsCount DEF Count, OfHand, Cwd
  <2>2. Count(p, x)' = Is(fd[p], x) + Is(cwd[p], x) + Is(Lookup(cur[p], Head(path[p])), x) + Is(ip[p], x) + 0 + Is(cur[p], x)
    BY <1>2, <1>3, <1>4, <1>5, IsNone, PutsCount DEF Count, OfHand, Cwd
  <2> QED
    BY <2>1, <2>2, IsType
<1>13. RefsStep(p) /\ Fetched
  <2>1. ref' = [ref EXCEPT ![Lookup(cur[p], Head(path[p]))] = @ + 1]
    BY <1>4 DEF Iget
  <2> QED
    BY <1>3, <1>4, <1>12, <2>1, RefsUp, FetchedIget
<1>14. UNCHANGED <<dinode, ents, up, bitmap, copy>> /\ removed' \subseteq Inums /\ iputs'[p] = "lock"
  BY <1>2, <1>4 DEF BlocksInv, TypesInv, DataTypes
<1>15. BlocksInv'
  BY <1>2, <1>6, <1>7, <1>8, <1>9, <1>10, <1>11, <1>13, <1>14, QuietStep
<1>16. ASSUME LinkInv, ParentsNamed PROVE LinkInv'
  <2>4. Lookup(cur[p], Head(path[p])) = cur[p] \/ Named(Lookup(cur[p], Head(path[p])))
    <3>1. Head(path[p]) \in Names \cup Dots
      BY <1>2, PathIs DEF CallInv
    <3> QED
      BY <1>16, <1>3, <3>1, FoundNamed DEF None
  <2>1. \A x \in Inums : Has(p, x)' => Has(p, x) \/ Named(x)
    BY <1>2, <1>3, <1>4, <1>5, <2>4 DEF Has, Cwd
  <2>2. \A x : Owes(p, x)' <=> Owes(p, x)
    BY <1>2, <1>3, <1>4, <1>5 DEF Owes, Second, Call
  <2>3. PlacesInv(p)'
    BY <1>16, <1>2, <1>3, <1>4, <1>5 DEF PlacesInv, LinkInv, Second, Call
  <2> QED
    BY <1>16, <2>1, <2>2, <2>3, <1>2, <1>4, <1>6, <1>14, QuietLinks
<1> QED
  BY <1>15, <1>16 DEF LinksKept

\* The last name of a path, of an inode that the call is to have
LEMMA WalkEnds ==
    ASSUME BlocksInv, NEW p \in Procs, Walk(p), Type(cur[p]) = "DIR",
           Lookup(cur[p], Head(path[p])) # None, Len(path[p]) = 1, ~ToParent(p)
    PROVE  BlocksInv' /\ LinksKept
<1>1. At(p, "walk")
  BY DEF Walk
<1>2. /\ pc[p] = "walk" /\ has[p] /\ puts[p] = <<>> /\ iputs[p] = "lock"
      /\ LocalTypes /\ CallInv(p)
      /\ \A x \in Inums : lock[x] = p <=> Holds(p, x)
  BY <1>1, AtIs
<1>3. /\ cur[p] \in Inums /\ dp[p] = None /\ ip[p] = None /\ script[p] # <<>>
      /\ Lookup(cur[p], Head(path[p])) \in Inums /\ Tail(path[p]) \in Seq(Names \cup Dots)
      /\ Call(p).op \in {"chdir", "open", "link", "chmod"} /\ Walked(p) = Call(p).op
  <2>1. path[p] # <<>>
    BY <1>2 DEF CallInv
  <2>2. Head(path[p]) \in Names \cup Dots /\ Tail(path[p]) \in Seq(Names \cup Dots)
    BY <2>1, PathIs
  <2>3. cur[p] \in Inums /\ dp[p] = None /\ script[p] # <<>>
    BY <1>2 DEF CallInv, Shape, InCall, LocalTypes, Slot
  <2>4. Call(p).op \in {"chdir", "open", "link", "chmod"} /\ ip[p] = None
    BY <1>2 DEF CallInv, InCall, Creates, ToParent, Second
  <2>5. Walked(p) = Call(p).op
    BY <2>4 DEF Walked, Second
  <2> QED
    BY <2>2, <2>3, <2>4, <2>5, LookupType
<1>4. /\ pc' = [pc EXCEPT ![p] = Call(p).op] /\ has' = [has EXCEPT ![p] = FALSE]
      /\ path' = [path EXCEPT ![p] = Tail(path[p])] /\ cur' = [cur EXCEPT ![p] = None]
      /\ ip' = [ip EXCEPT ![p] = Lookup(cur[p], Head(path[p]))] /\ Put(p, <<cur[p]>>)
      /\ lock' = [lock EXCEPT ![cur[p]] = NoProc] /\ Iget(Lookup(cur[p], Head(path[p])))
      /\ UNCHANGED <<cwd, fd, script, dp, iputs, dinode, ents, up, bitmap, copy, removed>>
  BY <1>2, <1>3 DEF Walk, Go, To, Set, Iunlock, disk
<1>5. /\ puts'[p] = <<cur[p]>> /\ puts' = [puts EXCEPT ![p] = puts'[p]] /\ pc'[p] = Call(p).op
      /\ has'[p] = FALSE /\ path'[p] = Tail(path[p]) /\ cur'[p] = None
      /\ ip'[p] = Lookup(cur[p], Head(path[p]))
  <2>1. <<cur[p]>> \in Seq(Inums)
    BY <1>3, <1>2
  <2>2. puts'[p] = <<cur[p]>> /\ puts' = [puts EXCEPT ![p] = puts'[p]]
    BY <1>2, <1>4, <2>1, PutIs
  <2> QED
    BY <1>2, <1>4, <2>2 DEF LocalTypes
<1>6. Own(p)
  BY <1>2, <1>4, <1>5 DEF Own, LocalTypes
<1>7. OwnTypes(p)
  BY <1>2, <1>3, <1>4, <1>5 DEF OwnTypes, LocalTypes, Labels, Slot
<1>8. \A x \in Inums : Holds(p, x) <=> x = cur[p]
  BY <1>2, <1>3, FsAssumption DEF Holds, Target, None, Inums
<1>9. \A x \in Inums : ~Holds(p, x)'
  BY <1>2, <1>3, <1>4, <1>5, FsAssumption DEF Holds, Target, None, Inums
<1>10. CallInv(p)'
  BY <1>2, <1>3, <1>4, <1>5 DEF CallInv, Shape, AtName, InCall, Call, Creates, None, Inums
<1>11. Released(p, {cur[p]})
  BY <1>2, <1>3, <1>4, <1>8 DEF Released, BlocksInv, TypesInv, DataTypes
<1>12. ASSUME NEW x \in Inums PROVE Count(p, x)' = Count(p, x) + Is(Lookup(cur[p], Head(path[p])), x)
  <2>1. Count(p, x) = Is(fd[p], x) + Is(cwd[p], x) + Is(cur[p], x) + 0 + 0 + 0
    BY <1>2, <1>3, IsNone, PutsCount DEF Count, OfHand, Cwd
  <2>2. Count(p, x)' = Is(fd[p], x) + Is(cwd[p], x) + 0 + Is(Lookup(cur[p], Head(path[p])), x) + 0 + Is(cur[p], x)
    BY <1>2, <1>3, <1>4, <1>5, IsNone, PutsCount DEF Count, OfHand, Cwd
  <2> QED
    BY <2>1, <2>2, IsType
<1>13. RefsStep(p) /\ Fetched
  <2>1. ref' = [ref EXCEPT ![Lookup(cur[p], Head(path[p]))] = @ + 1]
    BY <1>4 DEF Iget
  <2> QED
    BY <1>3, <1>4, <1>12, <2>1, RefsUp, FetchedIget
<1>14. UNCHANGED <<dinode, ents, up, bitmap, copy>> /\ removed' \subseteq Inums /\ iputs'[p] = "lock"
  BY <1>2, <1>4 DEF BlocksInv, TypesInv, DataTypes
<1>15. BlocksInv'
  BY <1>2, <1>6, <1>7, <1>8, <1>9, <1>10, <1>11, <1>13, <1>14, QuietStep
<1>16. ASSUME LinkInv, ParentsNamed PROVE LinkInv'
  <2>4. Lookup(cur[p], Head(path[p])) = cur[p] \/ Named(Lookup(cur[p], Head(path[p])))
    <3>1. Head(path[p]) \in Names \cup Dots
      BY <1>2, PathIs DEF CallInv
    <3> QED
      BY <1>16, <1>3, <3>1, FoundNamed DEF None
  <2>1. \A x \in Inums : Has(p, x)' => Has(p, x) \/ Named(x)
    BY <1>2, <1>3, <1>4, <1>5, <2>4 DEF Has, Cwd
  <2>2. \A x : Owes(p, x)' <=> Owes(p, x)
    BY <1>2, <1>3, <1>4, <1>5 DEF Owes, Second, Call
  <2>3. PlacesInv(p)'
    BY <1>16, <1>2, <1>3, <1>4, <1>5 DEF PlacesInv, LinkInv, Second, Call
  <2> QED
    BY <1>16, <2>1, <2>2, <2>3, <1>2, <1>4, <1>6, <1>14, QuietLinks
<1> QED
  BY <1>15, <1>16 DEF LinksKept

\* The last name of a path, in the directory that the call is to have
LEMMA WalkParent ==
    ASSUME BlocksInv, NEW p \in Procs, Walk(p), Type(cur[p]) = "DIR", Len(path[p]) = 1, ToParent(p)
    PROVE  BlocksInv' /\ LinksKept
<1>1. At(p, "walk")
  BY DEF Walk
<1>2. /\ pc[p] = "walk" /\ has[p] /\ puts[p] = <<>> /\ iputs[p] = "lock"
      /\ LocalTypes /\ CallInv(p)
      /\ \A x \in Inums : lock[x] = p <=> Holds(p, x)
  BY <1>1, AtIs
<1>3. /\ cur[p] \in Inums /\ dp[p] = None /\ script[p] # <<>>
      /\ \/ Walked(p) = "create" /\ ip[p] = None /\ Call(p).op \in Creates
         \/ Walked(p) = "unlink" /\ ip[p] = None /\ Call(p).op = "unlink"
         \/ Walked(p) = "dirlink" /\ ip[p] # None /\ Call(p).op = "link"
  <2>1. path[p] # <<>>
    BY <1>2 DEF CallInv
  <2>2. Head(path[p]) \in Names \cup Dots /\ Tail(path[p]) \in Seq(Names \cup Dots)
    BY <2>1, PathIs
  <2>3. cur[p] \in Inums /\ dp[p] = None /\ script[p] # <<>>
    BY <1>2 DEF CallInv, Shape, InCall, LocalTypes, Slot
  <2>4. \/ Call(p).op \in Creates /\ ip[p] = None
        \/ Call(p).op = "unlink" /\ ip[p] = None
        \/ Call(p).op = "link" /\ ip[p] # None
    BY <1>2 DEF CallInv, InCall, Creates, ToParent, Second
  <2> QED
    BY <2>3, <2>4 DEF Walked, Second, Creates
<1>4. /\ pc' = [pc EXCEPT ![p] = Walked(p)] /\ has' = [has EXCEPT ![p] = FALSE]
      /\ cur' = [cur EXCEPT ![p] = None] /\ dp' = [dp EXCEPT ![p] = cur[p]]
      /\ lock' = [lock EXCEPT ![cur[p]] = NoProc]
      /\ UNCHANGED <<cwd, fd, script, path, ip, puts, iputs, valid, ref, dinode, ents, up, bitmap, copy, removed>>
  BY <1>2, <1>3 DEF Walk, Go, To, Set, Iunlock, disk
<1>5. /\ pc'[p] = Walked(p) /\ has'[p] = FALSE /\ cur'[p] = None /\ dp'[p] = cur[p]
  BY <1>2, <1>4 DEF LocalTypes
<1>6. Own(p)
  BY <1>2, <1>4, <1>5 DEF Own, LocalTypes
<1>7. OwnTypes(p)
  BY <1>2, <1>3, <1>4, <1>5 DEF OwnTypes, LocalTypes, Labels, Slot
<1>8. \A x \in Inums : Holds(p, x) <=> x = cur[p]
  BY <1>2, <1>3, FsAssumption DEF Holds, Target, None, Inums
<1>9. \A x \in Inums : ~Holds(p, x)'
  BY <1>2, <1>3, <1>4, <1>5, FsAssumption DEF Holds, Target, None, Inums
<1>10. CallInv(p)'
  BY <1>2, <1>3, <1>4, <1>5 DEF CallInv, Shape, AtName, InCall, Call, Creates, None, Inums
<1>11. Released(p, {cur[p]})
  BY <1>2, <1>3, <1>4, <1>8 DEF Released, BlocksInv, TypesInv, DataTypes
<1>12. ASSUME NEW x \in Inums PROVE Count(p, x)' = Count(p, x)
  <2>1. Count(p, x) = Is(fd[p], x) + Is(cwd[p], x) + Is(cur[p], x) + Is(ip[p], x) + 0 + 0
    BY <1>2, <1>3, IsNone, PutsCount DEF Count, OfHand, Cwd
  <2>2. Count(p, x)' = Is(fd[p], x) + Is(cwd[p], x) + 0 + Is(ip[p], x) + Is(cur[p], x) + 0
    BY <1>2, <1>3, <1>4, <1>5, IsNone, PutsCount DEF Count, OfHand, Cwd
  <2> QED
    BY <2>1, <2>2, IsType
<1>13. RefsStep(p) /\ Fetched
  BY <1>4, <1>12, RefsSame, FetchedSame
<1>14. UNCHANGED <<dinode, ents, up, bitmap, copy>> /\ removed' \subseteq Inums /\ iputs'[p] = "lock"
  BY <1>2, <1>4 DEF BlocksInv, TypesInv, DataTypes
<1>15. BlocksInv'
  BY <1>2, <1>6, <1>7, <1>8, <1>9, <1>10, <1>11, <1>13, <1>14, QuietStep
<1>16. ASSUME LinkInv, ParentsNamed PROVE LinkInv'
  <2>4. dinode[cur[p]].type = "DIR"
    <3>1. lock[cur[p]] = p
      BY <1>2, <1>3, <1>8
    <3> QED
      BY <1>2, <1>3, <3>1, LockedCopy DEF Type
  <2>1. \A x \in Inums : Has(p, x)' => Has(p, x) \/ Named(x)
    BY <1>2, <1>3, <1>4, <1>5 DEF Has, Cwd
  <2>2. \A x : Owes(p, x)' <=> Owes(p, x)
    BY <1>2, <1>3, <1>4, <1>5 DEF Owes, Second, Call
  <2>3. PlacesInv(p)'
    BY <1>16, <1>2, <1>3, <1>4, <1>5, <2>4 DEF PlacesInv, LinkInv, Second, Call
  <2> QED
    BY <1>16, <2>1, <2>2, <2>3, <1>2, <1>4, <1>6, <1>14, QuietLinks
<1> QED
  BY <1>15, <1>16 DEF LinksKept

\* The calls' arguments
LEMMA CallPaths ==
    ASSUME NEW c \in SysCalls
    PROVE  /\ c.op \notin {"close", "write"} =>
                 /\ c.path \in Paths
                 /\ c.op \in Creates \cup {"unlink", "chdir", "open", "link", "chmod"}
           /\ c.op = "link" => c.new \in Paths
           /\ c.op = "chmod" => c.mode \subseteq Bits
  BY DEF SysCalls, Creates

\* namex starts in a directory that is in the cache.
LEMMA Starts ==
    ASSUME BlocksInv, NEW p \in Procs, pc[p] # "chdir2", NEW s \in Paths
    PROVE  /\ (IF Absolute(s) THEN Root ELSE cwd[p]) \in Inums
           /\ ref[IF Absolute(s) THEN Root ELSE cwd[p]] > 0
           /\ Rest(s) \in Seq(Names \cup Dots) /\ Rest(s) # <<>>
<1>1. cwd[p] \in Inums
  BY DEF BlocksInv, TypesInv, LocalTypes
<1>2. ref[cwd[p]] > 0
  BY <1>1, InHand DEF Cwd
<1> QED
  BY <1>1, <1>2, RootHeld DEF Paths, Dots

\* A call with a path begins.
LEMMA BeginNext ==
    ASSUME BlocksInv, NEW p \in Procs, Begin(p)
    PROVE  BlocksInv' /\ LinksKept
<1>1. /\ pc[p] = "idle" /\ puts[p] = <<>> /\ iputs[p] = "lock"
      /\ LocalTypes /\ CallInv(p)
      /\ \A x \in Inums : lock[x] = p <=> Holds(p, x)
  BY IdleIs DEF Begin
<1>2. /\ cur[p] = None /\ ip[p] = None /\ dp[p] = None /\ script[p] # <<>> /\ Call(p) \in SysCalls
      /\ Call(p).op \in Creates \cup {"unlink", "chdir", "open", "link", "chmod"}
      /\ Rest(Call(p).path) \in Seq(Names \cup Dots) /\ Rest(Call(p).path) # <<>>
      /\ (IF Absolute(Call(p).path) THEN Root ELSE cwd[p]) \in Inums
      /\ ref[IF Absolute(Call(p).path) THEN Root ELSE cwd[p]] > 0
  <2>1. cur[p] = None /\ ip[p] = None /\ dp[p] = None /\ script[p] # <<>>
    BY <1>1 DEF Begin, CallInv, Shape
  <2>2. Call(p) \in SysCalls /\ Call(p).op \notin {"close", "write"}
    BY <2>1, CallIs DEF Begin
  <2>3. /\ Call(p).path \in Paths
        /\ Call(p).op \in Creates \cup {"unlink", "chdir", "open", "link", "chmod"}
    BY <2>2, CallPaths
  <2> QED
    BY <1>1, <2>1, <2>2, <2>3, Starts
<1>3. /\ pc' = [pc EXCEPT ![p] = "walk"] /\ has' = [has EXCEPT ![p] = FALSE]
      /\ path' = [path EXCEPT ![p] = Rest(Call(p).path)]
      /\ cur' = [cur EXCEPT ![p] = (IF Absolute(Call(p).path) THEN Root ELSE cwd[p])]
      /\ ref' = [ref EXCEPT ![(IF Absolute(Call(p).path) THEN Root ELSE cwd[p])] = @ + 1]
      /\ UNCHANGED <<cwd, fd, script, ip, dp, puts, iputs, lock, valid, dinode, ents, up, bitmap, copy, removed>>
  BY <1>1, <1>2 DEF Begin, StartWalk, Go, To, Set, disk
<1>4. /\ pc'[p] = "walk" /\ has'[p] = FALSE /\ path'[p] = Rest(Call(p).path)
      /\ cur'[p] = (IF Absolute(Call(p).path) THEN Root ELSE cwd[p])
  BY <1>1, <1>3 DEF LocalTypes
<1>5. Own(p)
  BY <1>1, <1>3, <1>4 DEF Own, LocalTypes
<1>6. OwnTypes(p)
  BY <1>1, <1>2, <1>3, <1>4 DEF OwnTypes, LocalTypes, Labels, Slot
<1>7. \A x \in Inums : ~Holds(p, x)
  BY <1>1, <1>2, FsAssumption DEF Holds, Target, None, Inums
<1>8. \A x \in Inums : ~Holds(p, x)'
  BY <1>1, <1>2, <1>3, <1>4, FsAssumption DEF Holds, Target, None, Inums
<1>9. CallInv(p)'
  BY <1>1, <1>2, <1>3, <1>4 DEF CallInv, Shape, AtName, InCall, Call, Creates, None, Inums
<1>10. Released(p, {})
  BY <1>1, <1>2, <1>3, <1>7 DEF Released, BlocksInv, TypesInv, DataTypes
<1>11. ASSUME NEW x \in Inums PROVE Count(p, x)' = Count(p, x) + Is((IF Absolute(Call(p).path) THEN Root ELSE cwd[p]), x)
  <2>1. Count(p, x) = Is(fd[p], x) + Is(cwd[p], x) + 0 + 0 + 0 + 0
    BY <1>1, <1>2, IsNone, PutsCount DEF Count, OfHand, Cwd
  <2>2. Count(p, x)' = Is(fd[p], x) + Is(cwd[p], x) + Is((IF Absolute(Call(p).path) THEN Root ELSE cwd[p]), x) + 0 + 0 + 0
    BY <1>1, <1>2, <1>3, <1>4, IsNone, PutsCount DEF Count, OfHand, Cwd
  <2> QED
    BY <2>1, <2>2, IsType
<1>12. RefsStep(p) /\ Fetched
  BY <1>2, <1>3, <1>11, RefsUp, FetchedStart
<1>13. UNCHANGED <<dinode, ents, up, bitmap, copy>> /\ removed' \subseteq Inums /\ iputs'[p] = "lock"
  BY <1>1, <1>3 DEF BlocksInv, TypesInv, DataTypes
<1>14. BlocksInv'
  BY <1>1, <1>5, <1>6, <1>7, <1>8, <1>9, <1>10, <1>12, <1>13, QuietStep
<1>15. ASSUME LinkInv, ParentsNamed PROVE LinkInv'
  <2>1. \A x \in Inums : Has(p, x)' => Has(p, x) \/ Named(x)
    BY <1>1, <1>2, <1>3, <1>4 DEF Has, Cwd, Named
  <2>2. \A x : Owes(p, x)' <=> Owes(p, x)
    BY <1>1, <1>2, <1>3, <1>4 DEF Owes, Second, Call
  <2>3. PlacesInv(p)'
    BY <1>15, <1>1, <1>2, <1>3, <1>4 DEF PlacesInv, LinkInv, Second, Call
  <2> QED
    BY <1>15, <2>1, <2>2, <2>3, <1>1, <1>3, <1>5, <1>13, QuietLinks
<1> QED
  BY <1>14, <1>15 DEF LinksKept

-----------------------------------------------------------------------------
(* Steps that write nothing *)

\* iunlockput(ip) and the end of the call
LEMMA PutIpStep ==
    ASSUME BlocksInv, NEW p \in Procs, NEW l \in {"open", "exists", "made", "link", "chdir"},
           At(p, l), PutIp(p), UNCHANGED <<disk, removed>>
    PROVE  BlocksInv' /\ LinksKept
<1>1. /\ pc[p] = l /\ has[p] /\ puts[p] = <<>> /\ iputs[p] = "lock"
      /\ LocalTypes /\ CallInv(p)
      /\ \A x \in Inums : lock[x] = p <=> Holds(p, x)
  BY AtIs
<1>2. /\ ip[p] \in Inums /\ cur[p] = None /\ dp[p] = None /\ script[p] # <<>>
      /\ Tail(script[p]) \in Seq(SysCalls)
  BY <1>1, CallIs DEF CallInv, Shape, InCall, LocalTypes, Slot
<1>3. /\ script' = [script EXCEPT ![p] = Tail(script[p])] /\ pc' = [pc EXCEPT ![p] = "idle"]
      /\ has' = [has EXCEPT ![p] = FALSE] /\ ip' = [ip EXCEPT ![p] = None] /\ Put(p, <<ip[p]>>)
      /\ lock' = [lock EXCEPT ![ip[p]] = NoProc]
      /\ UNCHANGED <<cwd, fd, path, cur, dp, iputs, valid, ref, dinode, ents, up, bitmap, copy, removed>>
  BY <1>1, <1>2 DEF PutIp, Return, To, Set, Iunlock, disk
<1>4. /\ puts'[p] = <<ip[p]>> /\ puts' = [puts EXCEPT ![p] = puts'[p]]
      /\ script'[p] = Tail(script[p]) /\ pc'[p] = "idle" /\ has'[p] = FALSE /\ ip'[p] = None
  <2>1. <<ip[p]>> \in Seq(Inums)
    BY <1>2, <1>1
  <2>2. puts'[p] = <<ip[p]>> /\ puts' = [puts EXCEPT ![p] = puts'[p]]
    BY <1>1, <1>3, <2>1, PutIs
  <2> QED
    BY <1>1, <1>3, <2>2 DEF LocalTypes
<1>5. Own(p)
  BY <1>1, <1>3, <1>4 DEF Own, LocalTypes
<1>6. OwnTypes(p)
  BY <1>1, <1>2, <1>3, <1>4 DEF OwnTypes, LocalTypes, Labels, Slot
<1>7. \A x \in Inums : Holds(p, x) <=> x = ip[p]
  BY <1>1, <1>2, FsAssumption DEF Holds, Target, None, Inums
<1>8. \A x \in Inums : ~Holds(p, x)'
  BY <1>1, <1>2, <1>3, <1>4, FsAssumption DEF Holds, Target, None, Inums
<1>9. CallInv(p)'
  BY <1>1, <1>2, <1>3, <1>4 DEF CallInv, Shape, AtName, InCall, Call, Creates, None, Inums
<1>10. Released(p, {ip[p]})
  BY <1>1, <1>2, <1>3, <1>7 DEF Released, BlocksInv, TypesInv, DataTypes
<1>11. ASSUME NEW x \in Inums PROVE Count(p, x)' = Count(p, x)
  <2>1. Count(p, x) = Is(fd[p], x) + Is(cwd[p], x) + 0 + Is(ip[p], x) + 0 + 0
    BY <1>1, <1>2, IsNone, PutsCount DEF Count, OfHand, Cwd
  <2>2. Count(p, x)' = Is(fd[p], x) + Is(cwd[p], x) + 0 + 0 + 0 + Is(ip[p], x)
    BY <1>1, <1>2, <1>3, <1>4, IsNone, PutsCount DEF Count, OfHand, Cwd
  <2> QED
    BY <2>1, <2>2, IsType
<1>12. RefsStep(p) /\ Fetched
  BY <1>3, <1>11, RefsSame, FetchedSame
<1>13. UNCHANGED <<dinode, ents, up, bitmap, copy>> /\ removed' \subseteq Inums /\ iputs'[p] = "lock"
  BY <1>1, <1>3 DEF BlocksInv, TypesInv, DataTypes
<1>14. BlocksInv'
  BY <1>1, <1>5, <1>6, <1>7, <1>8, <1>9, <1>10, <1>12, <1>13, QuietStep
<1>15. ASSUME LinkInv, ParentsNamed PROVE LinkInv'
  <2>1. \A x \in Inums : Has(p, x)' => Has(p, x) \/ Named(x)
    BY <1>1, <1>2, <1>3, <1>4 DEF Has, Cwd
  <2>2. \A x : Owes(p, x)' <=> Owes(p, x)
    BY <1>1, <1>2, <1>3, <1>4 DEF Owes, Second, Call, CallInv, InCall, Creates
  <2>3. PlacesInv(p)'
    BY <1>15, <1>1, <1>2, <1>3, <1>4 DEF PlacesInv, LinkInv, Second, Call
  <2> QED
    BY <1>15, <2>1, <2>2, <2>3, <1>1, <1>3, <1>5, <1>13, QuietLinks
<1> QED
  BY <1>14, <1>15 DEF LinksKept

LEMMA OpenNext ==
    ASSUME BlocksInv, NEW p \in Procs, Open(p),
           ~((Call(p).op = "open" /\ Call(p).write /\ Type(ip[p]) = "DIR") \/ fd[p] # None)
    PROVE  BlocksInv' /\ LinksKept
<1>1. At(p, "open")
  BY DEF Open
<1>2. /\ pc[p] = "open" /\ has[p] /\ puts[p] = <<>> /\ iputs[p] = "lock"
      /\ LocalTypes /\ CallInv(p)
      /\ \A x \in Inums : lock[x] = p <=> Holds(p, x)
  BY <1>1, AtIs
<1>3. /\ ip[p] \in Inums /\ cur[p] = None /\ dp[p] = None /\ fd[p] = None /\ script[p] # <<>>
      /\ Tail(script[p]) \in Seq(SysCalls)
  BY <1>2, CallIs DEF CallInv, Shape, InCall, LocalTypes, Slot
<1>4. /\ fd' = [fd EXCEPT ![p] = ip[p]] /\ script' = [script EXCEPT ![p] = Tail(script[p])]
      /\ pc' = [pc EXCEPT ![p] = "idle"] /\ has' = [has EXCEPT ![p] = FALSE]
      /\ ip' = [ip EXCEPT ![p] = None] /\ lock' = [lock EXCEPT ![ip[p]] = NoProc]
      /\ UNCHANGED <<cwd, path, cur, dp, puts, iputs, valid, ref, dinode, ents, up, bitmap, copy, removed>>
  BY <1>2, <1>3 DEF Open, Return, To, Set, Iunlock, disk
<1>5. /\ fd'[p] = ip[p] /\ script'[p] = Tail(script[p]) /\ pc'[p] = "idle" /\ has'[p] = FALSE
      /\ ip'[p] = None
  BY <1>2, <1>4 DEF LocalTypes
<1>6. Own(p)
  BY <1>2, <1>4, <1>5 DEF Own, LocalTypes
<1>7. OwnTypes(p)
  BY <1>2, <1>3, <1>4, <1>5 DEF OwnTypes, LocalTypes, Labels, Slot
<1>8. \A x \in Inums : Holds(p, x) <=> x = ip[p]
  BY <1>2, <1>3, FsAssumption DEF Holds, Target, None, Inums
<1>9. \A x \in Inums : ~Holds(p, x)'
  BY <1>2, <1>3, <1>4, <1>5, FsAssumption DEF Holds, Target, None, Inums
<1>10. CallInv(p)'
  BY <1>2, <1>3, <1>4, <1>5 DEF CallInv, Shape, AtName, InCall, Call, Creates, None, Inums
<1>11. Released(p, {ip[p]})
  BY <1>2, <1>3, <1>4, <1>8 DEF Released, BlocksInv, TypesInv, DataTypes
<1>12. ASSUME NEW x \in Inums PROVE Count(p, x)' = Count(p, x)
  <2>1. Count(p, x) = 0 + Is(cwd[p], x) + 0 + Is(ip[p], x) + 0 + 0
    BY <1>2, <1>3, IsNone, PutsCount DEF Count, OfHand, Cwd
  <2>2. Count(p, x)' = Is(ip[p], x) + Is(cwd[p], x) + 0 + 0 + 0 + 0
    BY <1>2, <1>3, <1>4, <1>5, IsNone, PutsCount DEF Count, OfHand, Cwd
  <2> QED
    BY <2>1, <2>2, IsType
<1>13. RefsStep(p) /\ Fetched
  BY <1>4, <1>12, RefsSame, FetchedSame
<1>14. UNCHANGED <<dinode, ents, up, bitmap, copy>> /\ removed' \subseteq Inums /\ iputs'[p] = "lock"
  BY <1>2, <1>4 DEF BlocksInv, TypesInv, DataTypes
<1>15. BlocksInv'
  BY <1>2, <1>6, <1>7, <1>8, <1>9, <1>10, <1>11, <1>13, <1>14, QuietStep
<1>16. ASSUME LinkInv, ParentsNamed PROVE LinkInv'
  <2>1. \A x \in Inums : Has(p, x)' => Has(p, x) \/ Named(x)
    BY <1>2, <1>3, <1>4, <1>5 DEF Has, Cwd
  <2>2. \A x : Owes(p, x)' <=> Owes(p, x)
    BY <1>2, <1>3, <1>4, <1>5 DEF Owes, Second, Call, CallInv, InCall, Creates
  <2>3. PlacesInv(p)'
    BY <1>16, <1>2, <1>3, <1>4, <1>5 DEF PlacesInv, LinkInv, Second, Call
  <2> QED
    BY <1>16, <2>1, <2>2, <2>3, <1>2, <1>4, <1>6, <1>14, QuietLinks
<1> QED
  BY <1>15, <1>16 DEF LinksKept

\* create of a file that is there opens it.
LEMMA ExistsNext ==
    ASSUME BlocksInv, NEW p \in Procs, CreateExists(p),
           Call(p).op = "create" /\ Type(ip[p]) = "FILE"
    PROVE  BlocksInv' /\ LinksKept
<1>1. At(p, "exists")
  BY DEF CreateExists
<1>2. /\ pc[p] = "exists" /\ has[p] /\ puts[p] = <<>> /\ iputs[p] = "lock"
      /\ LocalTypes /\ CallInv(p)
      /\ \A x \in Inums : lock[x] = p <=> Holds(p, x)
  BY <1>1, AtIs
<1>3. /\ ip[p] \in Inums /\ cur[p] = None /\ dp[p] = None /\ script[p] # <<>>
  BY <1>2, CallIs DEF CallInv, Shape, InCall, LocalTypes, Slot
<1>4. /\ pc' = [pc EXCEPT ![p] = "open"] /\ has' = [has EXCEPT ![p] = TRUE]
      /\ UNCHANGED <<cwd, fd, script, path, cur, ip, dp, puts, iputs, lock, valid, ref, dinode, ents, up, bitmap, copy, removed>>
  BY <1>2, <1>3 DEF CreateExists, To, disk, icache, user
<1>5. /\ pc'[p] = "open" /\ has'[p] = TRUE
  BY <1>2, <1>4 DEF LocalTypes
<1>6. Own(p)
  BY <1>2, <1>4, <1>5 DEF Own, LocalTypes
<1>7. OwnTypes(p)
  BY <1>2, <1>3, <1>4, <1>5 DEF OwnTypes, LocalTypes, Labels, Slot
<1>8. \A x \in Inums : Holds(p, x) <=> x = ip[p]
  BY <1>2, <1>3, FsAssumption DEF Holds, Target, None, Inums
<1>9. \A x \in Inums : Holds(p, x)' <=> x = ip[p]
  BY <1>2, <1>3, <1>4, <1>5, FsAssumption DEF Holds, Target, None, Inums
<1>10. CallInv(p)'
  BY <1>2, <1>3, <1>4, <1>5 DEF CallInv, Shape, AtName, InCall, Call, Creates, None, Inums
<1>11. Released(p, {})
  BY <1>2, <1>3, <1>4, <1>8 DEF Released, BlocksInv, TypesInv, DataTypes
<1>12. ASSUME NEW x \in Inums PROVE Count(p, x)' = Count(p, x)
  <2>1. Count(p, x) = Is(fd[p], x) + Is(cwd[p], x) + 0 + Is(ip[p], x) + 0 + 0
    BY <1>2, <1>3, IsNone, PutsCount DEF Count, OfHand, Cwd
  <2>2. Count(p, x)' = Is(fd[p], x) + Is(cwd[p], x) + 0 + Is(ip[p], x) + 0 + 0
    BY <1>2, <1>3, <1>4, <1>5, IsNone, PutsCount DEF Count, OfHand, Cwd
  <2> QED
    BY <2>1, <2>2, IsType
<1>13. RefsStep(p) /\ Fetched
  BY <1>4, <1>12, RefsSame, FetchedSame
<1>14. UNCHANGED <<dinode, ents, up, bitmap, copy>> /\ removed' \subseteq Inums /\ iputs'[p] = "lock"
  BY <1>2, <1>4 DEF BlocksInv, TypesInv, DataTypes
<1>15. BlocksInv'
  BY <1>2, <1>6, <1>7, <1>8, <1>9, <1>10, <1>11, <1>13, <1>14, QuietStep
<1>16. ASSUME LinkInv, ParentsNamed PROVE LinkInv'
  <2>1. \A x \in Inums : Has(p, x)' => Has(p, x) \/ Named(x)
    BY <1>2, <1>3, <1>4, <1>5 DEF Has, Cwd
  <2>2. \A x : Owes(p, x)' <=> Owes(p, x)
    BY <1>2, <1>3, <1>4, <1>5 DEF Owes, Second, Call
  <2>3. PlacesInv(p)'
    BY <1>16, <1>2, <1>3, <1>4, <1>5 DEF PlacesInv, LinkInv, Second, Call
  <2> QED
    BY <1>16, <2>1, <2>2, <2>3, <1>2, <1>4, <1>6, <1>14, QuietLinks
<1> QED
  BY <1>15, <1>16 DEF LinksKept

LEMMA ChdirNext ==
    ASSUME BlocksInv, NEW p \in Procs, Chdir(p), Type(ip[p]) = "DIR"
    PROVE  BlocksInv' /\ LinksKept
<1>1. At(p, "chdir")
  BY DEF Chdir
<1>2. /\ pc[p] = "chdir" /\ has[p] /\ puts[p] = <<>> /\ iputs[p] = "lock"
      /\ LocalTypes /\ CallInv(p)
      /\ \A x \in Inums : lock[x] = p <=> Holds(p, x)
  BY <1>1, AtIs
<1>3. /\ ip[p] \in Inums /\ cur[p] = None /\ dp[p] = None /\ cwd[p] \in Inums /\ script[p] # <<>>
  BY <1>2, CallIs DEF CallInv, Shape, InCall, LocalTypes, Slot
<1>4. /\ pc' = [pc EXCEPT ![p] = "chdir2"] /\ has' = [has EXCEPT ![p] = TRUE] /\ Put(p, <<cwd[p]>>)
      /\ lock' = [lock EXCEPT ![ip[p]] = NoProc]
      /\ UNCHANGED <<cwd, fd, script, path, cur, ip, dp, iputs, valid, ref, dinode, ents, up, bitmap, copy, removed>>
  BY <1>2, <1>3 DEF Chdir, To, Iunlock, disk, icache, user
<1>5. /\ puts'[p] = <<cwd[p]>> /\ puts' = [puts EXCEPT ![p] = puts'[p]] /\ pc'[p] = "chdir2"
      /\ has'[p] = TRUE
  <2>1. <<cwd[p]>> \in Seq(Inums)
    BY <1>3, <1>2
  <2>2. puts'[p] = <<cwd[p]>> /\ puts' = [puts EXCEPT ![p] = puts'[p]]
    BY <1>2, <1>4, <2>1, PutIs
  <2> QED
    BY <1>2, <1>4, <2>2 DEF LocalTypes
<1>6. Own(p)
  BY <1>2, <1>4, <1>5 DEF Own, LocalTypes
<1>7. OwnTypes(p)
  BY <1>2, <1>3, <1>4, <1>5 DEF OwnTypes, LocalTypes, Labels, Slot
<1>8. \A x \in Inums : Holds(p, x) <=> x = ip[p]
  BY <1>2, <1>3, FsAssumption DEF Holds, Target, None, Inums
<1>9. \A x \in Inums : ~Holds(p, x)'
  BY <1>2, <1>3, <1>4, <1>5, FsAssumption DEF Holds, Target, None, Inums
<1>10. CallInv(p)'
  BY <1>2, <1>3, <1>4, <1>5 DEF CallInv, Shape, AtName, InCall, Call, Creates, None, Inums
<1>11. Released(p, {ip[p]})
  BY <1>2, <1>3, <1>4, <1>8 DEF Released, BlocksInv, TypesInv, DataTypes
<1>12. ASSUME NEW x \in Inums PROVE Count(p, x)' = Count(p, x)
  <2>1. Count(p, x) = Is(fd[p], x) + Is(cwd[p], x) + 0 + Is(ip[p], x) + 0 + 0
    BY <1>2, <1>3, IsNone, PutsCount DEF Count, OfHand, Cwd
  <2>2. Count(p, x)' = Is(fd[p], x) + 0 + 0 + Is(ip[p], x) + 0 + Is(cwd[p], x)
    BY <1>2, <1>3, <1>4, <1>5, IsNone, PutsCount DEF Count, OfHand, Cwd
  <2> QED
    BY <2>1, <2>2, IsType
<1>13. RefsStep(p) /\ Fetched
  BY <1>4, <1>12, RefsSame, FetchedSame
<1>14. UNCHANGED <<dinode, ents, up, bitmap, copy>> /\ removed' \subseteq Inums /\ iputs'[p] = "lock"
  BY <1>2, <1>4 DEF BlocksInv, TypesInv, DataTypes
<1>15. BlocksInv'
  BY <1>2, <1>6, <1>7, <1>8, <1>9, <1>10, <1>11, <1>13, <1>14, QuietStep
<1>16. ASSUME LinkInv, ParentsNamed PROVE LinkInv'
  <2>1. \A x \in Inums : Has(p, x)' => Has(p, x) \/ Named(x)
    BY <1>2, <1>3, <1>4, <1>5 DEF Has, Cwd
  <2>2. \A x : Owes(p, x)' <=> Owes(p, x)
    BY <1>2, <1>3, <1>4, <1>5 DEF Owes, Second, Call
  <2>3. PlacesInv(p)'
    BY <1>16, <1>2, <1>3, <1>4, <1>5 DEF PlacesInv, LinkInv, Second, Call
  <2> QED
    BY <1>16, <2>1, <2>2, <2>3, <1>2, <1>4, <1>6, <1>14, QuietLinks
<1> QED
  BY <1>15, <1>16 DEF LinksKept

LEMMA SetCwdNext ==
    ASSUME BlocksInv, NEW p \in Procs, SetCwd(p)
    PROVE  BlocksInv' /\ LinksKept
<1>1. At(p, "chdir2")
  BY DEF SetCwd
<1>2. /\ pc[p] = "chdir2" /\ has[p] /\ puts[p] = <<>> /\ iputs[p] = "lock"
      /\ LocalTypes /\ CallInv(p)
      /\ \A x \in Inums : lock[x] = p <=> Holds(p, x)
  BY <1>1, AtIs
<1>3. /\ ip[p] \in Inums /\ cur[p] = None /\ dp[p] = None /\ script[p] # <<>>
      /\ Tail(script[p]) \in Seq(SysCalls)
  BY <1>2, CallIs DEF CallInv, Shape, InCall, LocalTypes, Slot
<1>4. /\ cwd' = [cwd EXCEPT ![p] = ip[p]] /\ script' = [script EXCEPT ![p] = Tail(script[p])]
      /\ pc' = [pc EXCEPT ![p] = "idle"] /\ has' = [has EXCEPT ![p] = FALSE]
      /\ ip' = [ip EXCEPT ![p] = None]
      /\ UNCHANGED <<fd, path, cur, dp, puts, iputs, lock, valid, ref, dinode, ents, up, bitmap, copy, removed>>
  BY <1>2, <1>3 DEF SetCwd, Return, To, Set, disk, icache
<1>5. /\ cwd'[p] = ip[p] /\ script'[p] = Tail(script[p]) /\ pc'[p] = "idle" /\ has'[p] = FALSE
      /\ ip'[p] = None
  BY <1>2, <1>4 DEF LocalTypes
<1>6. Own(p)
  BY <1>2, <1>4, <1>5 DEF Own, LocalTypes
<1>7. OwnTypes(p)
  BY <1>2, <1>3, <1>4, <1>5 DEF OwnTypes, LocalTypes, Labels, Slot
<1>8. \A x \in Inums : ~Holds(p, x)
  BY <1>2, <1>3, FsAssumption DEF Holds, Target, None, Inums
<1>9. \A x \in Inums : ~Holds(p, x)'
  BY <1>2, <1>3, <1>4, <1>5, FsAssumption DEF Holds, Target, None, Inums
<1>10. CallInv(p)'
  BY <1>2, <1>3, <1>4, <1>5 DEF CallInv, Shape, AtName, InCall, Call, Creates, None, Inums
<1>11. Released(p, {})
  BY <1>2, <1>3, <1>4, <1>8 DEF Released, BlocksInv, TypesInv, DataTypes
<1>12. ASSUME NEW x \in Inums PROVE Count(p, x)' = Count(p, x)
  <2>1. Count(p, x) = Is(fd[p], x) + 0 + 0 + Is(ip[p], x) + 0 + 0
    BY <1>2, <1>3, IsNone, PutsCount DEF Count, OfHand, Cwd
  <2>2. Count(p, x)' = Is(fd[p], x) + Is(ip[p], x) + 0 + 0 + 0 + 0
    BY <1>2, <1>3, <1>4, <1>5, IsNone, PutsCount DEF Count, OfHand, Cwd
  <2> QED
    BY <2>1, <2>2, IsType
<1>13. RefsStep(p) /\ Fetched
  BY <1>4, <1>12, RefsSame, FetchedSame
<1>14. UNCHANGED <<dinode, ents, up, bitmap, copy>> /\ removed' \subseteq Inums /\ iputs'[p] = "lock"
  BY <1>2, <1>4 DEF BlocksInv, TypesInv, DataTypes
<1>15. BlocksInv'
  BY <1>2, <1>6, <1>7, <1>8, <1>9, <1>10, <1>11, <1>13, <1>14, QuietStep
<1>16. ASSUME LinkInv, ParentsNamed PROVE LinkInv'
  <2>1. \A x \in Inums : Has(p, x)' => Has(p, x) \/ Named(x)
    BY <1>2, <1>3, <1>4, <1>5 DEF Has, Cwd
  <2>2. \A x : Owes(p, x)' <=> Owes(p, x)
    BY <1>2, <1>3, <1>4, <1>5 DEF Owes, Second, Call, CallInv, InCall, Creates
  <2>3. PlacesInv(p)'
    BY <1>16, <1>2, <1>3, <1>4, <1>5 DEF PlacesInv, LinkInv, Second, Call
  <2> QED
    BY <1>16, <2>1, <2>2, <2>3, <1>2, <1>4, <1>6, <1>14, QuietLinks
<1> QED
  BY <1>15, <1>16 DEF LinksKept

\* The name is there.
LEMMA CreateFound ==
    ASSUME BlocksInv, NEW p \in Procs, Create(p), Lookup(dp[p], Head(path[p])) # None
    PROVE  BlocksInv' /\ LinksKept
<1>1. At(p, "create")
  BY DEF Create
<1>2. /\ pc[p] = "create" /\ has[p] /\ puts[p] = <<>> /\ iputs[p] = "lock"
      /\ LocalTypes /\ CallInv(p)
      /\ \A x \in Inums : lock[x] = p <=> Holds(p, x)
  BY <1>1, AtIs
<1>3. /\ dp[p] \in Inums /\ ip[p] = None /\ cur[p] = None /\ Lookup(dp[p], Head(path[p])) \in Inums
      /\ script[p] # <<>>
  <2>1. AtName(p) /\ dp[p] \in Inums /\ cur[p] = None /\ script[p] # <<>>
    BY <1>2 DEF CallInv, Shape, InCall, LocalTypes, Slot
  <2>2. Head(path[p]) \in Names \cup Dots
    BY <2>1, NameIs
  <2> QED
    BY <1>2, <2>1, <2>2, LookupType, CallIs DEF CallInv, Shape, LocalTypes, Slot, InCall, Dots, Call
<1>4. /\ pc' = [pc EXCEPT ![p] = "exists"] /\ has' = [has EXCEPT ![p] = FALSE]
      /\ ip' = [ip EXCEPT ![p] = Lookup(dp[p], Head(path[p]))] /\ dp' = [dp EXCEPT ![p] = None]
      /\ Put(p, <<dp[p]>>) /\ lock' = [lock EXCEPT ![dp[p]] = NoProc]
      /\ Iget(Lookup(dp[p], Head(path[p])))
      /\ UNCHANGED <<cwd, fd, script, path, cur, iputs, dinode, ents, up, bitmap, copy, removed>>
  BY <1>2, <1>3 DEF Create, PutParent, Go, To, Set, Iunlock, disk
<1>5. /\ puts'[p] = <<dp[p]>> /\ puts' = [puts EXCEPT ![p] = puts'[p]] /\ pc'[p] = "exists"
      /\ has'[p] = FALSE /\ ip'[p] = Lookup(dp[p], Head(path[p])) /\ dp'[p] = None
  <2>1. <<dp[p]>> \in Seq(Inums)
    BY <1>3, <1>2
  <2>2. puts'[p] = <<dp[p]>> /\ puts' = [puts EXCEPT ![p] = puts'[p]]
    BY <1>2, <1>4, <2>1, PutIs
  <2> QED
    BY <1>2, <1>4, <2>2 DEF LocalTypes
<1>6. Own(p)
  BY <1>2, <1>4, <1>5 DEF Own, LocalTypes
<1>7. OwnTypes(p)
  BY <1>2, <1>3, <1>4, <1>5 DEF OwnTypes, LocalTypes, Labels, Slot
<1>8. \A x \in Inums : Holds(p, x) <=> x = dp[p]
  BY <1>2, <1>3, FsAssumption DEF Holds, Target, None, Inums
<1>9. \A x \in Inums : ~Holds(p, x)'
  BY <1>2, <1>3, <1>4, <1>5, FsAssumption DEF Holds, Target, None, Inums
<1>10. CallInv(p)'
  BY <1>2, <1>3, <1>4, <1>5 DEF CallInv, Shape, AtName, InCall, Call, Creates, None, Inums
<1>11. Released(p, {dp[p]})
  BY <1>2, <1>3, <1>4, <1>8 DEF Released, BlocksInv, TypesInv, DataTypes
<1>12. ASSUME NEW x \in Inums PROVE Count(p, x)' = Count(p, x) + Is(Lookup(dp[p], Head(path[p])), x)
  <2>1. Count(p, x) = Is(fd[p], x) + Is(cwd[p], x) + 0 + 0 + Is(dp[p], x) + 0
    BY <1>2, <1>3, IsNone, PutsCount DEF Count, OfHand, Cwd
  <2>2. Count(p, x)' = Is(fd[p], x) + Is(cwd[p], x) + 0 + Is(Lookup(dp[p], Head(path[p])), x) + 0 + Is(dp[p], x)
    BY <1>2, <1>3, <1>4, <1>5, IsNone, PutsCount DEF Count, OfHand, Cwd
  <2> QED
    BY <2>1, <2>2, IsType
<1>13. RefsStep(p) /\ Fetched
  <2>1. ref' = [ref EXCEPT ![Lookup(dp[p], Head(path[p]))] = @ + 1]
    BY <1>4 DEF Iget
  <2> QED
    BY <1>3, <1>4, <1>12, <2>1, RefsUp, FetchedIget
<1>14. UNCHANGED <<dinode, ents, up, bitmap, copy>> /\ removed' \subseteq Inums /\ iputs'[p] = "lock"
  BY <1>2, <1>4 DEF BlocksInv, TypesInv, DataTypes
<1>15. BlocksInv'
  BY <1>2, <1>6, <1>7, <1>8, <1>9, <1>10, <1>11, <1>13, <1>14, QuietStep
<1>16. ASSUME LinkInv, ParentsNamed PROVE LinkInv'
  <2>4. Lookup(dp[p], Head(path[p])) = dp[p] \/ Named(Lookup(dp[p], Head(path[p])))
    <3>1. Head(path[p]) \in Names \cup Dots
      BY <1>2, NameIs DEF CallInv
    <3> QED
      BY <1>16, <1>3, <3>1, FoundNamed, <1>3, FsAssumption DEF None, Inums
  <2>1. \A x \in Inums : Has(p, x)' => Has(p, x) \/ Named(x)
    BY <1>2, <1>3, <1>4, <1>5, <2>4 DEF Has, Cwd
  <2>2. \A x : Owes(p, x)' <=> Owes(p, x)
    BY <1>2, <1>3, <1>4, <1>5 DEF Owes, Second, Call, CallInv, InCall, Creates
  <2>3. PlacesInv(p)'
    BY <1>16, <1>2, <1>3, <1>4, <1>5 DEF PlacesInv, LinkInv, Second, Call, CallInv, InCall, Creates
  <2> QED
    BY <1>16, <2>1, <2>2, <2>3, <1>2, <1>4, <1>6, <1>14, QuietLinks
<1> QED
  BY <1>15, <1>16 DEF LinksKept

LEMMA UnlinkGivesUp ==
    ASSUME BlocksInv, NEW p \in Procs, Unlink(p),
           Head(path[p]) \in {".", ".."} \/ Lookup(dp[p], Head(path[p])) = None
    PROVE  BlocksInv' /\ LinksKept
<1>1. At(p, "unlink")
  BY DEF Unlink
<1>2. /\ pc[p] = "unlink" /\ has[p] /\ puts[p] = <<>> /\ iputs[p] = "lock"
      /\ LocalTypes /\ CallInv(p)
      /\ \A x \in Inums : lock[x] = p <=> Holds(p, x)
  BY <1>1, AtIs
<1>3. /\ dp[p] \in Inums /\ ip[p] = None /\ cur[p] = None /\ script[p] # <<>>
      /\ Tail(script[p]) \in Seq(SysCalls)
  BY <1>2, CallIs DEF CallInv, Shape, InCall, LocalTypes, Slot
<1>4. /\ script' = [script EXCEPT ![p] = Tail(script[p])] /\ pc' = [pc EXCEPT ![p] = "idle"]
      /\ has' = [has EXCEPT ![p] = FALSE] /\ dp' = [dp EXCEPT ![p] = None] /\ Put(p, <<dp[p]>>)
      /\ lock' = [lock EXCEPT ![dp[p]] = NoProc]
      /\ UNCHANGED <<cwd, fd, path, cur, ip, iputs, valid, ref, dinode, ents, up, bitmap, copy, removed>>
  BY <1>2, <1>3 DEF Unlink, PutDp, PutParent, Return, To, Set, Iunlock, disk
<1>5. /\ puts'[p] = <<dp[p]>> /\ puts' = [puts EXCEPT ![p] = puts'[p]]
      /\ script'[p] = Tail(script[p]) /\ pc'[p] = "idle" /\ has'[p] = FALSE /\ dp'[p] = None
  <2>1. <<dp[p]>> \in Seq(Inums)
    BY <1>3, <1>2
  <2>2. puts'[p] = <<dp[p]>> /\ puts' = [puts EXCEPT ![p] = puts'[p]]
    BY <1>2, <1>4, <2>1, PutIs
  <2> QED
    BY <1>2, <1>4, <2>2 DEF LocalTypes
<1>6. Own(p)
  BY <1>2, <1>4, <1>5 DEF Own, LocalTypes
<1>7. OwnTypes(p)
  BY <1>2, <1>3, <1>4, <1>5 DEF OwnTypes, LocalTypes, Labels, Slot
<1>8. \A x \in Inums : Holds(p, x) <=> x = dp[p]
  BY <1>2, <1>3, FsAssumption DEF Holds, Target, None, Inums
<1>9. \A x \in Inums : ~Holds(p, x)'
  BY <1>2, <1>3, <1>4, <1>5, FsAssumption DEF Holds, Target, None, Inums
<1>10. CallInv(p)'
  BY <1>2, <1>3, <1>4, <1>5 DEF CallInv, Shape, AtName, InCall, Call, Creates, None, Inums
<1>11. Released(p, {dp[p]})
  BY <1>2, <1>3, <1>4, <1>8 DEF Released, BlocksInv, TypesInv, DataTypes
<1>12. ASSUME NEW x \in Inums PROVE Count(p, x)' = Count(p, x)
  <2>1. Count(p, x) = Is(fd[p], x) + Is(cwd[p], x) + 0 + 0 + Is(dp[p], x) + 0
    BY <1>2, <1>3, IsNone, PutsCount DEF Count, OfHand, Cwd
  <2>2. Count(p, x)' = Is(fd[p], x) + Is(cwd[p], x) + 0 + 0 + 0 + Is(dp[p], x)
    BY <1>2, <1>3, <1>4, <1>5, IsNone, PutsCount DEF Count, OfHand, Cwd
  <2> QED
    BY <2>1, <2>2, IsType
<1>13. RefsStep(p) /\ Fetched
  BY <1>4, <1>12, RefsSame, FetchedSame
<1>14. UNCHANGED <<dinode, ents, up, bitmap, copy>> /\ removed' \subseteq Inums /\ iputs'[p] = "lock"
  BY <1>2, <1>4 DEF BlocksInv, TypesInv, DataTypes
<1>15. BlocksInv'
  BY <1>2, <1>6, <1>7, <1>8, <1>9, <1>10, <1>11, <1>13, <1>14, QuietStep
<1>16. ASSUME LinkInv, ParentsNamed PROVE LinkInv'
  <2>1. \A x \in Inums : Has(p, x)' => Has(p, x) \/ Named(x)
    BY <1>2, <1>3, <1>4, <1>5 DEF Has, Cwd
  <2>2. \A x : Owes(p, x)' <=> Owes(p, x)
    BY <1>2, <1>3, <1>4, <1>5 DEF Owes, Second, Call, CallInv, InCall, Creates
  <2>3. PlacesInv(p)'
    BY <1>16, <1>2, <1>3, <1>4, <1>5 DEF PlacesInv, LinkInv, Second, Call
  <2> QED
    BY <1>16, <2>1, <2>2, <2>3, <1>2, <1>4, <1>6, <1>14, QuietLinks
<1> QED
  BY <1>15, <1>16 DEF LinksKept

LEMMA UnlinkGets ==
    ASSUME BlocksInv, NEW p \in Procs, Unlink(p),
           ~(Head(path[p]) \in {".", ".."} \/ Lookup(dp[p], Head(path[p])) = None)
    PROVE  BlocksInv' /\ LinksKept
<1>1. At(p, "unlink")
  BY DEF Unlink
<1>2. /\ pc[p] = "unlink" /\ has[p] /\ puts[p] = <<>> /\ iputs[p] = "lock"
      /\ LocalTypes /\ CallInv(p)
      /\ \A x \in Inums : lock[x] = p <=> Holds(p, x)
  BY <1>1, AtIs
<1>3. /\ dp[p] \in Inums /\ ip[p] = None /\ cur[p] = None /\ Lookup(dp[p], Head(path[p])) \in Inums
      /\ script[p] # <<>> /\ Head(path[p]) \in Names
  <2>1. AtName(p) /\ dp[p] \in Inums /\ cur[p] = None /\ script[p] # <<>>
    BY <1>2 DEF CallInv, Shape, InCall, LocalTypes, Slot
  <2>2. Head(path[p]) \in Names \cup Dots
    BY <2>1, NameIs
  <2> QED
    BY <1>2, <2>1, <2>2, LookupType, CallIs DEF CallInv, Shape, LocalTypes, Slot, InCall, Dots, Call
<1>4. /\ pc' = [pc EXCEPT ![p] = "unlinked"] /\ has' = [has EXCEPT ![p] = FALSE]
      /\ ip' = [ip EXCEPT ![p] = Lookup(dp[p], Head(path[p]))] /\ Iget(Lookup(dp[p], Head(path[p])))
      /\ UNCHANGED <<cwd, fd, script, path, cur, dp, puts, iputs, lock, dinode, ents, up, bitmap, copy, removed>>
  BY <1>2, <1>3 DEF Unlink, Go, To, Set, Iunlock, disk
<1>5. /\ pc'[p] = "unlinked" /\ has'[p] = FALSE /\ ip'[p] = Lookup(dp[p], Head(path[p]))
  BY <1>2, <1>4 DEF LocalTypes
<1>6. Own(p)
  BY <1>2, <1>4, <1>5 DEF Own, LocalTypes
<1>7. OwnTypes(p)
  BY <1>2, <1>3, <1>4, <1>5 DEF OwnTypes, LocalTypes, Labels, Slot
<1>8. \A x \in Inums : Holds(p, x) <=> x = dp[p]
  BY <1>2, <1>3, FsAssumption DEF Holds, Target, None, Inums
<1>9. \A x \in Inums : Holds(p, x)' <=> x = dp[p]
  BY <1>2, <1>3, <1>4, <1>5, FsAssumption DEF Holds, Target, None, Inums
<1>10. CallInv(p)'
  BY <1>2, <1>3, <1>4, <1>5 DEF CallInv, Shape, AtName, InCall, Call, Creates, None, Inums
<1>11. Released(p, {})
  BY <1>2, <1>3, <1>4, <1>8 DEF Released, BlocksInv, TypesInv, DataTypes
<1>12. ASSUME NEW x \in Inums PROVE Count(p, x)' = Count(p, x) + Is(Lookup(dp[p], Head(path[p])), x)
  <2>1. Count(p, x) = Is(fd[p], x) + Is(cwd[p], x) + 0 + 0 + Is(dp[p], x) + 0
    BY <1>2, <1>3, IsNone, PutsCount DEF Count, OfHand, Cwd
  <2>2. Count(p, x)' = Is(fd[p], x) + Is(cwd[p], x) + 0 + Is(Lookup(dp[p], Head(path[p])), x) + Is(dp[p], x) + 0
    BY <1>2, <1>3, <1>4, <1>5, IsNone, PutsCount DEF Count, OfHand, Cwd
  <2> QED
    BY <2>1, <2>2, IsType
<1>13. RefsStep(p) /\ Fetched
  <2>1. ref' = [ref EXCEPT ![Lookup(dp[p], Head(path[p]))] = @ + 1]
    BY <1>4 DEF Iget
  <2> QED
    BY <1>3, <1>4, <1>12, <2>1, RefsUp, FetchedIget
<1>14. UNCHANGED <<dinode, ents, up, bitmap, copy>> /\ removed' \subseteq Inums /\ iputs'[p] = "lock"
  BY <1>2, <1>4 DEF BlocksInv, TypesInv, DataTypes
<1>15. BlocksInv'
  BY <1>2, <1>6, <1>7, <1>8, <1>9, <1>10, <1>11, <1>13, <1>14, QuietStep
<1>16. ASSUME LinkInv, ParentsNamed PROVE LinkInv'
  <2>4. Lookup(dp[p], Head(path[p])) = dp[p] \/ Named(Lookup(dp[p], Head(path[p])))
    <3>1. Head(path[p]) \in Names \cup Dots
      BY <1>2, NameIs DEF CallInv
    <3> QED
      BY <1>16, <1>3, <3>1, FoundNamed, <1>3, FsAssumption DEF None, Inums
  <2>5. Lookup(dp[p], Head(path[p])) = ents[dp[p]][Head(path[p])]
    BY <1>3, FsAssumption DEF Lookup
  <2>1. \A x \in Inums : Has(p, x)' => Has(p, x) \/ Named(x)
    BY <1>2, <1>3, <1>4, <1>5, <2>4 DEF Has, Cwd
  <2>2. \A x : Owes(p, x)' <=> Owes(p, x)
    BY <1>2, <1>3, <1>4, <1>5 DEF Owes, Second, Call, CallInv, InCall, Creates
  <2>3. PlacesInv(p)'
    BY <1>16, <1>2, <1>3, <1>4, <1>5, <2>5 DEF PlacesInv, LinkInv, Second, Call, CallInv, InCall, Creates
  <2> QED
    BY <1>16, <2>1, <2>2, <2>3, <1>2, <1>4, <1>6, <1>14, QuietLinks
<1> QED
  BY <1>15, <1>16 DEF LinksKept

LEMMA UnlinkFailsNext ==
    ASSUME BlocksInv, NEW p \in Procs, UnlinkFails(p)
    PROVE  BlocksInv' /\ LinksKept
<1>1. At(p, "unlinkfails")
  BY DEF UnlinkFails
<1>2. /\ pc[p] = "unlinkfails" /\ has[p] /\ puts[p] = <<>> /\ iputs[p] = "lock"
      /\ LocalTypes /\ CallInv(p)
      /\ \A x \in Inums : lock[x] = p <=> Holds(p, x)
  BY <1>1, AtIs
<1>3. /\ dp[p] \in Inums /\ ip[p] = None /\ cur[p] = None /\ script[p] # <<>>
      /\ Tail(script[p]) \in Seq(SysCalls)
  BY <1>2, CallIs DEF CallInv, Shape, InCall, LocalTypes, Slot
<1>4. /\ script' = [script EXCEPT ![p] = Tail(script[p])] /\ pc' = [pc EXCEPT ![p] = "idle"]
      /\ has' = [has EXCEPT ![p] = FALSE] /\ dp' = [dp EXCEPT ![p] = None] /\ Put(p, <<dp[p]>>)
      /\ lock' = [lock EXCEPT ![dp[p]] = NoProc]
      /\ UNCHANGED <<cwd, fd, path, cur, ip, iputs, valid, ref, dinode, ents, up, bitmap, copy, removed>>
  BY <1>2, <1>3 DEF UnlinkFails, PutDp, PutParent, Return, To, Set, Iunlock, disk
<1>5. /\ puts'[p] = <<dp[p]>> /\ puts' = [puts EXCEPT ![p] = puts'[p]]
      /\ script'[p] = Tail(script[p]) /\ pc'[p] = "idle" /\ has'[p] = FALSE /\ dp'[p] = None
  <2>1. <<dp[p]>> \in Seq(Inums)
    BY <1>3, <1>2
  <2>2. puts'[p] = <<dp[p]>> /\ puts' = [puts EXCEPT ![p] = puts'[p]]
    BY <1>2, <1>4, <2>1, PutIs
  <2> QED
    BY <1>2, <1>4, <2>2 DEF LocalTypes
<1>6. Own(p)
  BY <1>2, <1>4, <1>5 DEF Own, LocalTypes
<1>7. OwnTypes(p)
  BY <1>2, <1>3, <1>4, <1>5 DEF OwnTypes, LocalTypes, Labels, Slot
<1>8. \A x \in Inums : Holds(p, x) <=> x = dp[p]
  BY <1>2, <1>3, FsAssumption DEF Holds, Target, None, Inums
<1>9. \A x \in Inums : ~Holds(p, x)'
  BY <1>2, <1>3, <1>4, <1>5, FsAssumption DEF Holds, Target, None, Inums
<1>10. CallInv(p)'
  BY <1>2, <1>3, <1>4, <1>5 DEF CallInv, Shape, AtName, InCall, Call, Creates, None, Inums
<1>11. Released(p, {dp[p]})
  BY <1>2, <1>3, <1>4, <1>8 DEF Released, BlocksInv, TypesInv, DataTypes
<1>12. ASSUME NEW x \in Inums PROVE Count(p, x)' = Count(p, x)
  <2>1. Count(p, x) = Is(fd[p], x) + Is(cwd[p], x) + 0 + 0 + Is(dp[p], x) + 0
    BY <1>2, <1>3, IsNone, PutsCount DEF Count, OfHand, Cwd
  <2>2. Count(p, x)' = Is(fd[p], x) + Is(cwd[p], x) + 0 + 0 + 0 + Is(dp[p], x)
    BY <1>2, <1>3, <1>4, <1>5, IsNone, PutsCount DEF Count, OfHand, Cwd
  <2> QED
    BY <2>1, <2>2, IsType
<1>13. RefsStep(p) /\ Fetched
  BY <1>4, <1>12, RefsSame, FetchedSame
<1>14. UNCHANGED <<dinode, ents, up, bitmap, copy>> /\ removed' \subseteq Inums /\ iputs'[p] = "lock"
  BY <1>2, <1>4 DEF BlocksInv, TypesInv, DataTypes
<1>15. BlocksInv'
  BY <1>2, <1>6, <1>7, <1>8, <1>9, <1>10, <1>11, <1>13, <1>14, QuietStep
<1>16. ASSUME LinkInv, ParentsNamed PROVE LinkInv'
  <2>1. \A x \in Inums : Has(p, x)' => Has(p, x) \/ Named(x)
    BY <1>2, <1>3, <1>4, <1>5 DEF Has, Cwd
  <2>2. \A x : Owes(p, x)' <=> Owes(p, x)
    BY <1>2, <1>3, <1>4, <1>5 DEF Owes, Second, Call, CallInv, InCall, Creates
  <2>3. PlacesInv(p)'
    BY <1>16, <1>2, <1>3, <1>4, <1>5 DEF PlacesInv, LinkInv, Second, Call
  <2> QED
    BY <1>16, <2>1, <2>2, <2>3, <1>2, <1>4, <1>6, <1>14, QuietLinks
<1> QED
  BY <1>15, <1>16 DEF LinksKept

LEMMA LinkFailsNext ==
    ASSUME BlocksInv, NEW p \in Procs, LinkFails(p)
    PROVE  BlocksInv' /\ LinksKept
<1>1. At(p, "linkfails")
  BY DEF LinkFails
<1>2. /\ pc[p] = "linkfails" /\ has[p] /\ puts[p] = <<>> /\ iputs[p] = "lock"
      /\ LocalTypes /\ CallInv(p)
      /\ \A x \in Inums : lock[x] = p <=> Holds(p, x)
  BY <1>1, AtIs
<1>3. /\ dp[p] \in Inums /\ ip[p] \in Inums /\ cur[p] = None /\ script[p] # <<>>
  BY <1>2, CallIs DEF CallInv, Shape, InCall, LocalTypes, Slot
<1>4. /\ pc' = [pc EXCEPT ![p] = "bad"] /\ has' = [has EXCEPT ![p] = FALSE]
      /\ dp' = [dp EXCEPT ![p] = None] /\ Put(p, <<dp[p]>>)
      /\ lock' = [lock EXCEPT ![dp[p]] = NoProc]
      /\ UNCHANGED <<cwd, fd, script, path, cur, ip, iputs, valid, ref, dinode, ents, up, bitmap, copy, removed>>
  BY <1>2, <1>3 DEF LinkFails, PutParent, Go, To, Set, Iunlock, disk
<1>5. /\ puts'[p] = <<dp[p]>> /\ puts' = [puts EXCEPT ![p] = puts'[p]] /\ pc'[p] = "bad"
      /\ has'[p] = FALSE /\ dp'[p] = None
  <2>1. <<dp[p]>> \in Seq(Inums)
    BY <1>3, <1>2
  <2>2. puts'[p] = <<dp[p]>> /\ puts' = [puts EXCEPT ![p] = puts'[p]]
    BY <1>2, <1>4, <2>1, PutIs
  <2> QED
    BY <1>2, <1>4, <2>2 DEF LocalTypes
<1>6. Own(p)
  BY <1>2, <1>4, <1>5 DEF Own, LocalTypes
<1>7. OwnTypes(p)
  BY <1>2, <1>3, <1>4, <1>5 DEF OwnTypes, LocalTypes, Labels, Slot
<1>8. \A x \in Inums : Holds(p, x) <=> x = dp[p]
  BY <1>2, <1>3, FsAssumption DEF Holds, Target, None, Inums
<1>9. \A x \in Inums : ~Holds(p, x)'
  BY <1>2, <1>3, <1>4, <1>5, FsAssumption DEF Holds, Target, None, Inums
<1>10. CallInv(p)'
  BY <1>2, <1>3, <1>4, <1>5 DEF CallInv, Shape, AtName, InCall, Call, Creates, None, Inums
<1>11. Released(p, {dp[p]})
  BY <1>2, <1>3, <1>4, <1>8 DEF Released, BlocksInv, TypesInv, DataTypes
<1>12. ASSUME NEW x \in Inums PROVE Count(p, x)' = Count(p, x)
  <2>1. Count(p, x) = Is(fd[p], x) + Is(cwd[p], x) + 0 + Is(ip[p], x) + Is(dp[p], x) + 0
    BY <1>2, <1>3, IsNone, PutsCount DEF Count, OfHand, Cwd
  <2>2. Count(p, x)' = Is(fd[p], x) + Is(cwd[p], x) + 0 + Is(ip[p], x) + 0 + Is(dp[p], x)
    BY <1>2, <1>3, <1>4, <1>5, IsNone, PutsCount DEF Count, OfHand, Cwd
  <2> QED
    BY <2>1, <2>2, IsType
<1>13. RefsStep(p) /\ Fetched
  BY <1>4, <1>12, RefsSame, FetchedSame
<1>14. UNCHANGED <<dinode, ents, up, bitmap, copy>> /\ removed' \subseteq Inums /\ iputs'[p] = "lock"
  BY <1>2, <1>4 DEF BlocksInv, TypesInv, DataTypes
<1>15. BlocksInv'
  BY <1>2, <1>6, <1>7, <1>8, <1>9, <1>10, <1>11, <1>13, <1>14, QuietStep
<1>16. ASSUME LinkInv, ParentsNamed PROVE LinkInv'
  <2>1. \A x \in Inums : Has(p, x)' => Has(p, x) \/ Named(x)
    BY <1>2, <1>3, <1>4, <1>5 DEF Has, Cwd
  <2>2. \A x : Owes(p, x)' <=> Owes(p, x)
    BY <1>2, <1>3, <1>4, <1>5 DEF Owes, Second, Call, CallInv, InCall, Creates
  <2>3. PlacesInv(p)'
    BY <1>16, <1>2, <1>3, <1>4, <1>5 DEF PlacesInv, LinkInv, Second, Call
  <2> QED
    BY <1>16, <2>1, <2>2, <2>3, <1>2, <1>4, <1>6, <1>14, QuietLinks
<1> QED
  BY <1>15, <1>16 DEF LinksKept

LEMMA DirLinkOld ==
    ASSUME BlocksInv, NEW p \in Procs, DirLink(p), Lookup(dp[p], Head(path[p])) # None
    PROVE  BlocksInv' /\ LinksKept
<1>1. At(p, "dirlink")
  BY DEF DirLink
<1>2. /\ pc[p] = "dirlink" /\ has[p] /\ puts[p] = <<>> /\ iputs[p] = "lock"
      /\ LocalTypes /\ CallInv(p)
      /\ \A x \in Inums : lock[x] = p <=> Holds(p, x)
  BY <1>1, AtIs
<1>3. /\ dp[p] \in Inums /\ ip[p] \in Inums /\ cur[p] = None
      /\ Lookup(dp[p], Head(path[p])) \in Inums /\ script[p] # <<>>
  <2>1. AtName(p) /\ dp[p] \in Inums /\ cur[p] = None /\ script[p] # <<>>
    BY <1>2 DEF CallInv, Shape, InCall, LocalTypes, Slot
  <2>2. Head(path[p]) \in Names \cup Dots
    BY <2>1, NameIs
  <2> QED
    BY <1>2, <2>1, <2>2, LookupType, CallIs DEF CallInv, Shape, LocalTypes, Slot, InCall, Dots, Call
<1>4. /\ pc' = [pc EXCEPT ![p] = "linkfails"] /\ has' = [has EXCEPT ![p] = TRUE]
      /\ Put(p, <<Lookup(dp[p], Head(path[p]))>>) /\ Iget(Lookup(dp[p], Head(path[p])))
      /\ UNCHANGED <<cwd, fd, script, path, cur, ip, dp, iputs, lock, dinode, ents, up, bitmap, copy, removed>>
  BY <1>2, <1>3 DEF DirLink, To, disk
<1>5. /\ puts'[p] = <<Lookup(dp[p], Head(path[p]))>> /\ puts' = [puts EXCEPT ![p] = puts'[p]]
      /\ pc'[p] = "linkfails" /\ has'[p] = TRUE
  <2>1. <<Lookup(dp[p], Head(path[p]))>> \in Seq(Inums)
    BY <1>3, <1>2
  <2>2. puts'[p] = <<Lookup(dp[p], Head(path[p]))>> /\ puts' = [puts EXCEPT ![p] = puts'[p]]
    BY <1>2, <1>4, <2>1, PutIs
  <2> QED
    BY <1>2, <1>4, <2>2 DEF LocalTypes
<1>6. Own(p)
  BY <1>2, <1>4, <1>5 DEF Own, LocalTypes
<1>7. OwnTypes(p)
  BY <1>2, <1>3, <1>4, <1>5 DEF OwnTypes, LocalTypes, Labels, Slot
<1>8. \A x \in Inums : Holds(p, x) <=> x = dp[p]
  BY <1>2, <1>3, FsAssumption DEF Holds, Target, None, Inums
<1>9. \A x \in Inums : Holds(p, x)' <=> x = dp[p]
  BY <1>2, <1>3, <1>4, <1>5, FsAssumption DEF Holds, Target, None, Inums
<1>10. CallInv(p)'
  BY <1>2, <1>3, <1>4, <1>5 DEF CallInv, Shape, AtName, InCall, Call, Creates, None, Inums
<1>11. Released(p, {})
  BY <1>2, <1>3, <1>4, <1>8 DEF Released, BlocksInv, TypesInv, DataTypes
<1>12. ASSUME NEW x \in Inums PROVE Count(p, x)' = Count(p, x) + Is(Lookup(dp[p], Head(path[p])), x)
  <2>1. Count(p, x) = Is(fd[p], x) + Is(cwd[p], x) + 0 + Is(ip[p], x) + Is(dp[p], x) + 0
    BY <1>2, <1>3, IsNone, PutsCount DEF Count, OfHand, Cwd
  <2>2. Count(p, x)' = Is(fd[p], x) + Is(cwd[p], x) + 0 + Is(ip[p], x) + Is(dp[p], x) + Is(Lookup(dp[p], Head(path[p])), x)
    BY <1>2, <1>3, <1>4, <1>5, IsNone, PutsCount DEF Count, OfHand, Cwd
  <2> QED
    BY <2>1, <2>2, IsType
<1>13. RefsStep(p) /\ Fetched
  <2>1. ref' = [ref EXCEPT ![Lookup(dp[p], Head(path[p]))] = @ + 1]
    BY <1>4 DEF Iget
  <2> QED
    BY <1>3, <1>4, <1>12, <2>1, RefsUp, FetchedIget
<1>14. UNCHANGED <<dinode, ents, up, bitmap, copy>> /\ removed' \subseteq Inums /\ iputs'[p] = "lock"
  BY <1>2, <1>4 DEF BlocksInv, TypesInv, DataTypes
<1>15. BlocksInv'
  BY <1>2, <1>6, <1>7, <1>8, <1>9, <1>10, <1>11, <1>13, <1>14, QuietStep
<1>16. ASSUME LinkInv, ParentsNamed PROVE LinkInv'
  <2>4. Lookup(dp[p], Head(path[p])) = dp[p] \/ Named(Lookup(dp[p], Head(path[p])))
    <3>1. Head(path[p]) \in Names \cup Dots
      BY <1>2, NameIs DEF CallInv
    <3> QED
      BY <1>16, <1>3, <3>1, FoundNamed, <1>3, FsAssumption DEF None, Inums
  <2>1. \A x \in Inums : Has(p, x)' => Has(p, x) \/ Named(x)
    BY <1>2, <1>3, <1>4, <1>5, <2>4 DEF Has, Cwd
  <2>2. \A x : Owes(p, x)' <=> Owes(p, x)
    BY <1>2, <1>3, <1>4, <1>5 DEF Owes, Second, Call, CallInv, InCall, Creates
  <2>3. PlacesInv(p)'
    BY <1>16, <1>2, <1>3, <1>4, <1>5 DEF PlacesInv, LinkInv, Second, Call
  <2> QED
    BY <1>16, <2>1, <2>2, <2>3, <1>2, <1>4, <1>6, <1>14, QuietLinks
<1> QED
  BY <1>15, <1>16 DEF LinksKept

\* A directory that is not empty stays.
LEMMA UnlinkFull ==
    ASSUME BlocksInv, NEW p \in Procs, UnlinkEntry(p), Type(ip[p]) = "DIR" /\ ~Empty(ip[p])
    PROVE  BlocksInv' /\ LinksKept
<1>1. At(p, "unlinked")
  BY DEF UnlinkEntry
<1>2. /\ pc[p] = "unlinked" /\ has[p] /\ puts[p] = <<>> /\ iputs[p] = "lock"
      /\ LocalTypes /\ CallInv(p)
      /\ \A x \in Inums : lock[x] = p <=> Holds(p, x)
  BY <1>1, AtIs
<1>3. /\ dp[p] \in Inums /\ ip[p] \in Inums /\ cur[p] = None /\ ip[p] # dp[p] /\ script[p] # <<>>
  BY <1>2, CallIs DEF CallInv, Shape, InCall, LocalTypes, Slot
<1>4. /\ pc' = [pc EXCEPT ![p] = "unlinkfails"] /\ has' = [has EXCEPT ![p] = TRUE]
      /\ ip' = [ip EXCEPT ![p] = None] /\ Put(p, <<ip[p]>>)
      /\ lock' = [lock EXCEPT ![ip[p]] = NoProc]
      /\ UNCHANGED <<cwd, fd, script, path, cur, dp, iputs, valid, ref, dinode, ents, up, bitmap, copy, removed>>
  BY <1>2, <1>3 DEF UnlinkEntry, To, Set, Iunlock, disk, user
<1>5. /\ puts'[p] = <<ip[p]>> /\ puts' = [puts EXCEPT ![p] = puts'[p]] /\ pc'[p] = "unlinkfails"
      /\ has'[p] = TRUE /\ ip'[p] = None
  <2>1. <<ip[p]>> \in Seq(Inums)
    BY <1>3, <1>2
  <2>2. puts'[p] = <<ip[p]>> /\ puts' = [puts EXCEPT ![p] = puts'[p]]
    BY <1>2, <1>4, <2>1, PutIs
  <2> QED
    BY <1>2, <1>4, <2>2 DEF LocalTypes
<1>6. Own(p)
  BY <1>2, <1>4, <1>5 DEF Own, LocalTypes
<1>7. OwnTypes(p)
  BY <1>2, <1>3, <1>4, <1>5 DEF OwnTypes, LocalTypes, Labels, Slot
<1>8. \A x \in Inums : Holds(p, x) <=> x \in {ip[p], dp[p]}
  BY <1>2, <1>3, FsAssumption DEF Holds, Target, None, Inums
<1>9. \A x \in Inums : Holds(p, x)' <=> x = dp[p]
  BY <1>2, <1>3, <1>4, <1>5, FsAssumption DEF Holds, Target, None, Inums
<1>10. CallInv(p)'
  BY <1>2, <1>3, <1>4, <1>5 DEF CallInv, Shape, AtName, InCall, Call, Creates, None, Inums
<1>11. Released(p, {ip[p]})
  BY <1>2, <1>3, <1>4, <1>8 DEF Released, BlocksInv, TypesInv, DataTypes
<1>12. ASSUME NEW x \in Inums PROVE Count(p, x)' = Count(p, x)
  <2>1. Count(p, x) = Is(fd[p], x) + Is(cwd[p], x) + 0 + Is(ip[p], x) + Is(dp[p], x) + 0
    BY <1>2, <1>3, IsNone, PutsCount DEF Count, OfHand, Cwd
  <2>2. Count(p, x)' = Is(fd[p], x) + Is(cwd[p], x) + 0 + 0 + Is(dp[p], x) + Is(ip[p], x)
    BY <1>2, <1>3, <1>4, <1>5, IsNone, PutsCount DEF Count, OfHand, Cwd
  <2> QED
    BY <2>1, <2>2, IsType
<1>13. RefsStep(p) /\ Fetched
  BY <1>4, <1>12, RefsSame, FetchedSame
<1>14. UNCHANGED <<dinode, ents, up, bitmap, copy>> /\ removed' \subseteq Inums /\ iputs'[p] = "lock"
  BY <1>2, <1>4 DEF BlocksInv, TypesInv, DataTypes
<1>15. BlocksInv'
  BY <1>3, <1>2, <1>6, <1>7, <1>8, <1>9, <1>10, <1>11, <1>13, <1>14, QuietStep
<1>16. ASSUME LinkInv, ParentsNamed PROVE LinkInv'
  <2>1. \A x \in Inums : Has(p, x)' => Has(p, x) \/ Named(x)
    BY <1>2, <1>3, <1>4, <1>5 DEF Has, Cwd
  <2>2. \A x : Owes(p, x)' <=> Owes(p, x)
    BY <1>2, <1>3, <1>4, <1>5 DEF Owes, Second, Call, CallInv, InCall, Creates
  <2>3. PlacesInv(p)'
    BY <1>16, <1>2, <1>3, <1>4, <1>5 DEF PlacesInv, LinkInv, Second, Call
  <2> QED
    BY <1>16, <2>1, <2>2, <2>3, <1>2, <1>4, <1>6, <1>14, QuietLinks
<1> QED
  BY <1>15, <1>16 DEF LinksKept

LEMMA CloseNext ==
    ASSUME BlocksInv, NEW p \in Procs, Close(p), fd[p] # None
    PROVE  BlocksInv' /\ LinksKept
<1>1. /\ pc[p] = "idle" /\ puts[p] = <<>> /\ iputs[p] = "lock"
      /\ LocalTypes /\ CallInv(p)
      /\ \A x \in Inums : lock[x] = p <=> Holds(p, x)
  BY IdleIs DEF Close, Calls
<1>2. /\ cur[p] = None /\ ip[p] = None /\ dp[p] = None /\ fd[p] \in Inums /\ script[p] # <<>>
      /\ Tail(script[p]) \in Seq(SysCalls)
  BY <1>1, CallIs DEF CallInv, Shape, LocalTypes, Slot, Close, Calls
<1>3. /\ fd' = [fd EXCEPT ![p] = None] /\ script' = [script EXCEPT ![p] = Tail(script[p])]
      /\ pc' = [pc EXCEPT ![p] = "idle"] /\ has' = [has EXCEPT ![p] = FALSE] /\ Put(p, <<fd[p]>>)
      /\ UNCHANGED <<cwd, path, cur, ip, dp, iputs, lock, valid, ref, dinode, ents, up, bitmap, copy, removed>>
  BY <1>1, <1>2 DEF Close, Return, To, Set, disk, icache
<1>4. /\ puts'[p] = <<fd[p]>> /\ puts' = [puts EXCEPT ![p] = puts'[p]] /\ fd'[p] = None
      /\ script'[p] = Tail(script[p]) /\ pc'[p] = "idle" /\ has'[p] = FALSE
  <2>1. <<fd[p]>> \in Seq(Inums)
    BY <1>2, <1>1
  <2>2. puts'[p] = <<fd[p]>> /\ puts' = [puts EXCEPT ![p] = puts'[p]]
    BY <1>1, <1>3, <2>1, PutIs
  <2> QED
    BY <1>1, <1>3, <2>2 DEF LocalTypes
<1>5. Own(p)
  BY <1>1, <1>3, <1>4 DEF Own, LocalTypes
<1>6. OwnTypes(p)
  BY <1>1, <1>2, <1>3, <1>4 DEF OwnTypes, LocalTypes, Labels, Slot
<1>7. \A x \in Inums : ~Holds(p, x)
  BY <1>1, <1>2, FsAssumption DEF Holds, Target, None, Inums
<1>8. \A x \in Inums : ~Holds(p, x)'
  BY <1>1, <1>2, <1>3, <1>4, FsAssumption DEF Holds, Target, None, Inums
<1>9. CallInv(p)'
  BY <1>1, <1>2, <1>3, <1>4 DEF CallInv, Shape, AtName, InCall, Call, Creates, None, Inums
<1>10. Released(p, {})
  BY <1>1, <1>2, <1>3, <1>7 DEF Released, BlocksInv, TypesInv, DataTypes
<1>11. ASSUME NEW x \in Inums PROVE Count(p, x)' = Count(p, x)
  <2>1. Count(p, x) = Is(fd[p], x) + Is(cwd[p], x) + 0 + 0 + 0 + 0
    BY <1>1, <1>2, IsNone, PutsCount DEF Count, OfHand, Cwd
  <2>2. Count(p, x)' = 0 + Is(cwd[p], x) + 0 + 0 + 0 + Is(fd[p], x)
    BY <1>1, <1>2, <1>3, <1>4, IsNone, PutsCount DEF Count, OfHand, Cwd
  <2> QED
    BY <2>1, <2>2, IsType
<1>12. RefsStep(p) /\ Fetched
  BY <1>3, <1>11, RefsSame, FetchedSame
<1>13. UNCHANGED <<dinode, ents, up, bitmap, copy>> /\ removed' \subseteq Inums /\ iputs'[p] = "lock"
  BY <1>1, <1>3 DEF BlocksInv, TypesInv, DataTypes
<1>14. BlocksInv'
  BY <1>1, <1>5, <1>6, <1>7, <1>8, <1>9, <1>10, <1>12, <1>13, QuietStep
<1>15. ASSUME LinkInv, ParentsNamed PROVE LinkInv'
  <2>1. \A x \in Inums : Has(p, x)' => Has(p, x) \/ Named(x)
    BY <1>1, <1>2, <1>3, <1>4 DEF Has, Cwd
  <2>2. \A x : Owes(p, x)' <=> Owes(p, x)
    BY <1>1, <1>2, <1>3, <1>4 DEF Owes, Second, Call, CallInv, InCall, Creates
  <2>3. PlacesInv(p)'
    BY <1>15, <1>1, <1>2, <1>3, <1>4 DEF PlacesInv, LinkInv, Second, Call
  <2> QED
    BY <1>15, <2>1, <2>2, <2>3, <1>1, <1>3, <1>5, <1>13, QuietLinks
<1> QED
  BY <1>14, <1>15 DEF LinksKept

LEMMA CloseNothing ==
    ASSUME BlocksInv, NEW p \in Procs, Close(p), fd[p] = None
    PROVE  BlocksInv' /\ LinksKept
<1>1. /\ pc[p] = "idle" /\ puts[p] = <<>> /\ iputs[p] = "lock"
      /\ LocalTypes /\ CallInv(p)
      /\ \A x \in Inums : lock[x] = p <=> Holds(p, x)
  BY IdleIs DEF Close, Calls
<1>2. /\ cur[p] = None /\ ip[p] = None /\ dp[p] = None /\ fd[p] = None /\ script[p] # <<>>
      /\ Tail(script[p]) \in Seq(SysCalls)
  BY <1>1, CallIs DEF CallInv, Shape, LocalTypes, Slot, Close, Calls
<1>3. /\ fd' = [fd EXCEPT ![p] = None] /\ script' = [script EXCEPT ![p] = Tail(script[p])]
      /\ pc' = [pc EXCEPT ![p] = "idle"] /\ has' = [has EXCEPT ![p] = FALSE] /\ Put(p, <<>>)
      /\ UNCHANGED <<cwd, path, cur, ip, dp, iputs, lock, valid, ref, dinode, ents, up, bitmap, copy, removed>>
  BY <1>1, <1>2 DEF Close, Return, To, Set, disk, icache
<1>4. /\ puts'[p] = <<>> /\ puts' = [puts EXCEPT ![p] = puts'[p]] /\ fd'[p] = None
      /\ script'[p] = Tail(script[p]) /\ pc'[p] = "idle" /\ has'[p] = FALSE
  <2>1. <<>> \in Seq(Inums)
    OBVIOUS
  <2>2. puts'[p] = <<>> /\ puts' = [puts EXCEPT ![p] = puts'[p]]
    BY <1>1, <1>3, <2>1, PutIs
  <2> QED
    BY <1>1, <1>3, <2>2 DEF LocalTypes
<1>5. Own(p)
  BY <1>1, <1>3, <1>4 DEF Own, LocalTypes
<1>6. OwnTypes(p)
  BY <1>1, <1>2, <1>3, <1>4 DEF OwnTypes, LocalTypes, Labels, Slot
<1>7. \A x \in Inums : ~Holds(p, x)
  BY <1>1, <1>2, FsAssumption DEF Holds, Target, None, Inums
<1>8. \A x \in Inums : ~Holds(p, x)'
  BY <1>1, <1>2, <1>3, <1>4, FsAssumption DEF Holds, Target, None, Inums
<1>9. CallInv(p)'
  BY <1>1, <1>2, <1>3, <1>4 DEF CallInv, Shape, AtName, InCall, Call, Creates, None, Inums
<1>10. Released(p, {})
  BY <1>1, <1>2, <1>3, <1>7 DEF Released, BlocksInv, TypesInv, DataTypes
<1>11. ASSUME NEW x \in Inums PROVE Count(p, x)' = Count(p, x)
  <2>1. Count(p, x) = 0 + Is(cwd[p], x) + 0 + 0 + 0 + 0
    BY <1>1, <1>2, IsNone, PutsCount DEF Count, OfHand, Cwd
  <2>2. Count(p, x)' = 0 + Is(cwd[p], x) + 0 + 0 + 0 + 0
    BY <1>1, <1>2, <1>3, <1>4, IsNone, PutsCount DEF Count, OfHand, Cwd
  <2> QED
    BY <2>1, <2>2, IsType
<1>12. RefsStep(p) /\ Fetched
  BY <1>3, <1>11, RefsSame, FetchedSame
<1>13. UNCHANGED <<dinode, ents, up, bitmap, copy>> /\ removed' \subseteq Inums /\ iputs'[p] = "lock"
  BY <1>1, <1>3 DEF BlocksInv, TypesInv, DataTypes
<1>14. BlocksInv'
  BY <1>1, <1>5, <1>6, <1>7, <1>8, <1>9, <1>10, <1>12, <1>13, QuietStep
<1>15. ASSUME LinkInv, ParentsNamed PROVE LinkInv'
  <2>1. \A x \in Inums : Has(p, x)' => Has(p, x) \/ Named(x)
    BY <1>1, <1>2, <1>3, <1>4 DEF Has, Cwd
  <2>2. \A x : Owes(p, x)' <=> Owes(p, x)
    BY <1>1, <1>2, <1>3, <1>4 DEF Owes, Second, Call, CallInv, InCall, Creates
  <2>3. PlacesInv(p)'
    BY <1>15, <1>1, <1>2, <1>3, <1>4 DEF PlacesInv, LinkInv, Second, Call
  <2> QED
    BY <1>15, <2>1, <2>2, <2>3, <1>1, <1>3, <1>5, <1>13, QuietLinks
<1> QED
  BY <1>14, <1>15 DEF LinksKept

LEMMA WriteStarts ==
    ASSUME BlocksInv, NEW p \in Procs, StartWrite(p), MayWrite(p)
    PROVE  BlocksInv' /\ LinksKept
<1>1. /\ pc[p] = "idle" /\ puts[p] = <<>> /\ iputs[p] = "lock"
      /\ LocalTypes /\ CallInv(p)
      /\ \A x \in Inums : lock[x] = p <=> Holds(p, x)
  BY IdleIs DEF StartWrite, Calls
<1>2. /\ cur[p] = None /\ ip[p] = None /\ dp[p] = None /\ fd[p] \in Inums /\ script[p] # <<>>
      /\ Call(p).op = "write"
  BY <1>1, CallIs DEF CallInv, Shape, LocalTypes, Slot, StartWrite, Calls, MayWrite
<1>3. /\ pc' = [pc EXCEPT ![p] = "write"] /\ has' = [has EXCEPT ![p] = FALSE]
      /\ UNCHANGED <<cwd, fd, script, path, cur, ip, dp, puts, iputs, lock, valid, ref, dinode, ents, up, bitmap, copy, removed>>
  BY <1>1, <1>2 DEF StartWrite, Go, To, Set, disk, icache
<1>4. /\ pc'[p] = "write" /\ has'[p] = FALSE
  BY <1>1, <1>3 DEF LocalTypes
<1>5. Own(p)
  BY <1>1, <1>3, <1>4 DEF Own, LocalTypes
<1>6. OwnTypes(p)
  BY <1>1, <1>2, <1>3, <1>4 DEF OwnTypes, LocalTypes, Labels, Slot
<1>7. \A x \in Inums : ~Holds(p, x)
  BY <1>1, <1>2, FsAssumption DEF Holds, Target, None, Inums
<1>8. \A x \in Inums : ~Holds(p, x)'
  BY <1>1, <1>2, <1>3, <1>4, FsAssumption DEF Holds, Target, None, Inums
<1>9. CallInv(p)'
  BY <1>1, <1>2, <1>3, <1>4 DEF CallInv, Shape, AtName, InCall, Call, Creates, None, Inums
<1>10. Released(p, {})
  BY <1>1, <1>2, <1>3, <1>7 DEF Released, BlocksInv, TypesInv, DataTypes
<1>11. ASSUME NEW x \in Inums PROVE Count(p, x)' = Count(p, x)
  <2>1. Count(p, x) = Is(fd[p], x) + Is(cwd[p], x) + 0 + 0 + 0 + 0
    BY <1>1, <1>2, IsNone, PutsCount DEF Count, OfHand, Cwd
  <2>2. Count(p, x)' = Is(fd[p], x) + Is(cwd[p], x) + 0 + 0 + 0 + 0
    BY <1>1, <1>2, <1>3, <1>4, IsNone, PutsCount DEF Count, OfHand, Cwd
  <2> QED
    BY <2>1, <2>2, IsType
<1>12. RefsStep(p) /\ Fetched
  BY <1>3, <1>11, RefsSame, FetchedSame
<1>13. UNCHANGED <<dinode, ents, up, bitmap, copy>> /\ removed' \subseteq Inums /\ iputs'[p] = "lock"
  BY <1>1, <1>3 DEF BlocksInv, TypesInv, DataTypes
<1>14. BlocksInv'
  BY <1>1, <1>5, <1>6, <1>7, <1>8, <1>9, <1>10, <1>12, <1>13, QuietStep
<1>15. ASSUME LinkInv, ParentsNamed PROVE LinkInv'
  <2>1. \A x \in Inums : Has(p, x)' => Has(p, x) \/ Named(x)
    BY <1>1, <1>2, <1>3, <1>4 DEF Has, Cwd
  <2>2. \A x : Owes(p, x)' <=> Owes(p, x)
    BY <1>1, <1>2, <1>3, <1>4 DEF Owes, Second, Call, CallInv, InCall, Creates
  <2>3. PlacesInv(p)'
    BY <1>15, <1>1, <1>2, <1>3, <1>4 DEF PlacesInv, LinkInv, Second, Call
  <2> QED
    BY <1>15, <2>1, <2>2, <2>3, <1>1, <1>3, <1>5, <1>13, QuietLinks
<1> QED
  BY <1>14, <1>15 DEF LinksKept

LEMMA WriteDenied ==
    ASSUME BlocksInv, NEW p \in Procs, StartWrite(p), ~MayWrite(p)
    PROVE  BlocksInv' /\ LinksKept
<1>1. /\ pc[p] = "idle" /\ puts[p] = <<>> /\ iputs[p] = "lock"
      /\ LocalTypes /\ CallInv(p)
      /\ \A x \in Inums : lock[x] = p <=> Holds(p, x)
  BY IdleIs DEF StartWrite, Calls
<1>2. /\ cur[p] = None /\ ip[p] = None /\ dp[p] = None /\ script[p] # <<>>
      /\ Tail(script[p]) \in Seq(SysCalls)
  BY <1>1, CallIs DEF CallInv, Shape, LocalTypes, Slot, StartWrite, Calls
<1>3. /\ script' = [script EXCEPT ![p] = Tail(script[p])] /\ pc' = [pc EXCEPT ![p] = "idle"]
      /\ has' = [has EXCEPT ![p] = FALSE]
      /\ UNCHANGED <<cwd, fd, path, cur, ip, dp, puts, iputs, lock, valid, ref, dinode, ents, up, bitmap, copy, removed>>
  BY <1>1, <1>2 DEF StartWrite, Return, To, Set, disk, icache
<1>4. /\ script'[p] = Tail(script[p]) /\ pc'[p] = "idle" /\ has'[p] = FALSE
  BY <1>1, <1>3 DEF LocalTypes
<1>5. Own(p)
  BY <1>1, <1>3, <1>4 DEF Own, LocalTypes
<1>6. OwnTypes(p)
  BY <1>1, <1>2, <1>3, <1>4 DEF OwnTypes, LocalTypes, Labels, Slot
<1>7. \A x \in Inums : ~Holds(p, x)
  BY <1>1, <1>2, FsAssumption DEF Holds, Target, None, Inums
<1>8. \A x \in Inums : ~Holds(p, x)'
  BY <1>1, <1>2, <1>3, <1>4, FsAssumption DEF Holds, Target, None, Inums
<1>9. CallInv(p)'
  BY <1>1, <1>2, <1>3, <1>4 DEF CallInv, Shape, AtName, InCall, Call, Creates, None, Inums
<1>10. Released(p, {})
  BY <1>1, <1>2, <1>3, <1>7 DEF Released, BlocksInv, TypesInv, DataTypes
<1>11. ASSUME NEW x \in Inums PROVE Count(p, x)' = Count(p, x)
  <2>1. Count(p, x) = Is(fd[p], x) + Is(cwd[p], x) + 0 + 0 + 0 + 0
    BY <1>1, <1>2, IsNone, PutsCount DEF Count, OfHand, Cwd
  <2>2. Count(p, x)' = Is(fd[p], x) + Is(cwd[p], x) + 0 + 0 + 0 + 0
    BY <1>1, <1>2, <1>3, <1>4, IsNone, PutsCount DEF Count, OfHand, Cwd
  <2> QED
    BY <2>1, <2>2, IsType
<1>12. RefsStep(p) /\ Fetched
  BY <1>3, <1>11, RefsSame, FetchedSame
<1>13. UNCHANGED <<dinode, ents, up, bitmap, copy>> /\ removed' \subseteq Inums /\ iputs'[p] = "lock"
  BY <1>1, <1>3 DEF BlocksInv, TypesInv, DataTypes
<1>14. BlocksInv'
  BY <1>1, <1>5, <1>6, <1>7, <1>8, <1>9, <1>10, <1>12, <1>13, QuietStep
<1>15. ASSUME LinkInv, ParentsNamed PROVE LinkInv'
  <2>1. \A x \in Inums : Has(p, x)' => Has(p, x) \/ Named(x)
    BY <1>1, <1>2, <1>3, <1>4 DEF Has, Cwd
  <2>2. \A x : Owes(p, x)' <=> Owes(p, x)
    BY <1>1, <1>2, <1>3, <1>4 DEF Owes, Second, Call, CallInv, InCall, Creates
  <2>3. PlacesInv(p)'
    BY <1>15, <1>1, <1>2, <1>3, <1>4 DEF PlacesInv, LinkInv, Second, Call
  <2> QED
    BY <1>15, <2>1, <2>2, <2>3, <1>1, <1>3, <1>5, <1>13, QuietLinks
<1> QED
  BY <1>14, <1>15 DEF LinksKept

-----------------------------------------------------------------------------
(* Steps that write an inode *)

\* Who has locked an inode has a true copy of it.
LEMMA OwnInode ==
    ASSUME BlocksInv, NEW p \in Procs, puts[p] = <<>>, NEW x \in Inums, lock[x] = p
    PROVE  copy[x] = dinode[x] /\ copy[x] \in Inode /\ copy[x].type # "FREE"
<1>1. copy[x] = dinode[x] /\ dinode[x].type # "FREE"
  BY LockedCopy
<1>2. copy[x] \in Inode
  BY DEF BlocksInv, TypesInv, DataTypes
<1> QED
  BY <1>1, <1>2

LEMMA OnlyIs ==
    ASSUME NEW i \in Inums, NEW v, v \in Inode, v.type # "FREE"
    PROVE  /\ DOMAIN Only(i, v) \subseteq Inums
           /\ \A x \in DOMAIN Only(i, v) : Only(i, v)[x] \in Inode /\ Only(i, v)[x].type # "FREE"
  BY DEF Only

LEMMA OnlyBlocks ==
    ASSUME BlocksInv, NEW i \in Inums, NEW v, Iupdate(Only(i, v))
    PROVE  Blocks' = [Blocks EXCEPT ![i] = v.blk]
<1>1. dinode' = [x \in Inums |-> IF x \in {i} THEN v ELSE dinode[x]]
  BY DEF Iupdate, Only
<1>2. Blocks' = [x \in Inums |-> IF x = i THEN v.blk ELSE dinode[x].blk]
  BY <1>1 DEF Blocks
<1> QED
  BY <1>2 DEF Blocks

\* The inode keeps its block.
LEMMA SameBlock ==
    ASSUME BlocksInv, NEW i \in Inums, NEW v, v.blk = dinode[i].blk, Iupdate(Only(i, v)), UNCHANGED bitmap
    PROVE  BlocksOnce'
<1>1. Blocks' = Blocks
  BY OnlyBlocks DEF Blocks
<1> QED
  BY <1>1, OnceIs, OnceNextIs DEF BlocksInv

\* The inode gets a block if it has none.
LEMMA NewBlock ==
    ASSUME BlocksInv, NEW i \in Inums, copy[i] = dinode[i], Cardinality(FreeBlocks) >= NewBlocks(i),
           NEW v, v.blk = Block(i, bitmap), Iupdate(Only(i, v)), bitmap' = bitmap \cup {Block(i, bitmap)}
    PROVE  BlocksOnce' /\ bitmap' \subseteq 1..NBLOCKS /\ Block(i, bitmap) \in 1..NBLOCKS
<1> DEFINE b == Block(i, bitmap)
<1>1. /\ Blocks \in [Inums -> 0..NBLOCKS] /\ bitmap \subseteq 1..NBLOCKS
      /\ OnceFor(Blocks, bitmap) /\ Blocks[i] = dinode[i].blk
  BY BlocksType
<1>2. \/ Blocks[i] # None /\ b = Blocks[i]
      \/ Blocks[i] = None /\ b \in 1..NBLOCKS /\ b \notin bitmap
  <2>1. CASE Blocks[i] # None
    BY <1>1, <2>1 DEF Block
  <2>2. CASE Blocks[i] = None
    <3>1. Cardinality(1..NBLOCKS \ bitmap) >= 1 /\ b = Min(1..NBLOCKS \ bitmap)
      BY <1>1, <2>2 DEF Block, NewBlocks, FreeBlocks
    <3>2. Min(1..NBLOCKS \ bitmap) \in 1..NBLOCKS \ bitmap
      BY <1>1, <3>1, SomeFree
    <3> QED
      BY <2>2, <3>1, <3>2
  <2> QED
    BY <2>1, <2>2
<1>3. Blocks' = [Blocks EXCEPT ![i] = b]
  BY OnlyBlocks
<1> HIDE DEF b
<1>4. OnceFor([Blocks EXCEPT ![i] = b], bitmap \cup {b}) /\ b \in 1..NBLOCKS
  BY <1>1, <1>2, GrowBlock
<1>5. OnceFor(Blocks', bitmap')
  BY <1>3, <1>4 DEF b
<1> QED
  BY <1>1, <1>4, <1>5, OnceNextIs DEF b

\* A link fewer
LEMMA BadNext ==
    ASSUME BlocksInv, NEW p \in Procs, NEW l \in {"bad", "last"}, At(p, l), Bad(p)
    PROVE  BlocksInv' /\ LinksKept
<1>1. /\ pc[p] = l /\ has[p] /\ puts[p] = <<>> /\ iputs[p] = "lock"
      /\ LocalTypes /\ CallInv(p)
      /\ \A x \in Inums : lock[x] = p <=> Holds(p, x)
  BY AtIs
<1>2. /\ ip[p] \in Inums /\ cur[p] = None /\ dp[p] = None /\ script[p] # <<>>
      /\ Tail(script[p]) \in Seq(SysCalls)
  BY <1>1, CallIs DEF CallInv, Shape, InCall, LocalTypes, Slot
<1>3. /\ script' = [script EXCEPT ![p] = Tail(script[p])] /\ pc' = [pc EXCEPT ![p] = "idle"]
      /\ has' = [has EXCEPT ![p] = FALSE] /\ ip' = [ip EXCEPT ![p] = None] /\ Put(p, <<ip[p]>>)
      /\ lock' = [lock EXCEPT ![ip[p]] = NoProc] /\ Iupdate(Only(ip[p], Unlinked(ip[p])))
      /\ UNCHANGED <<cwd, fd, path, cur, dp, iputs, valid, ref, ents, up, bitmap, removed>>
  BY <1>1, <1>2 DEF Bad, Return, To, Set, Iunlock, disk
<1>4. /\ puts'[p] = <<ip[p]>> /\ puts' = [puts EXCEPT ![p] = puts'[p]]
      /\ script'[p] = Tail(script[p]) /\ pc'[p] = "idle" /\ has'[p] = FALSE /\ ip'[p] = None
  <2>1. <<ip[p]>> \in Seq(Inums)
    BY <1>2, <1>1
  <2>2. puts'[p] = <<ip[p]>> /\ puts' = [puts EXCEPT ![p] = puts'[p]]
    BY <1>1, <1>3, <2>1, PutIs
  <2> QED
    BY <1>1, <1>3, <2>2 DEF LocalTypes
<1>5. Own(p)
  BY <1>1, <1>3, <1>4 DEF Own, LocalTypes
<1>6. OwnTypes(p)
  BY <1>1, <1>2, <1>3, <1>4 DEF OwnTypes, LocalTypes, Labels, Slot
<1>7. \A x \in Inums : Holds(p, x) <=> x = ip[p]
  BY <1>1, <1>2, FsAssumption DEF Holds, Target, None, Inums
<1>8. \A x \in Inums : ~Holds(p, x)'
  BY <1>1, <1>2, <1>3, <1>4, FsAssumption DEF Holds, Target, None, Inums
<1>9. CallInv(p)'
  BY <1>1, <1>2, <1>3, <1>4 DEF CallInv, Shape, AtName, InCall, Call, Creates, None, Inums
<1>10. Released(p, {ip[p]})
  BY <1>1, <1>2, <1>3, <1>7 DEF Released, BlocksInv, TypesInv, DataTypes
<1>11. ASSUME NEW x \in Inums PROVE Count(p, x)' = Count(p, x)
  <2>1. Count(p, x) = Is(fd[p], x) + Is(cwd[p], x) + 0 + Is(ip[p], x) + 0 + 0
    BY <1>1, <1>2, IsNone, PutsCount DEF Count, OfHand, Cwd
  <2>2. Count(p, x)' = Is(fd[p], x) + Is(cwd[p], x) + 0 + 0 + 0 + Is(ip[p], x)
    BY <1>1, <1>2, <1>3, <1>4, IsNone, PutsCount DEF Count, OfHand, Cwd
  <2> QED
    BY <2>1, <2>2, IsType
<1>12. RefsStep(p) /\ Fetched
  BY <1>3, <1>11, RefsSame, FetchedSame
<1>13. copy[ip[p]] = dinode[ip[p]] /\ copy[ip[p]] \in Inode /\ copy[ip[p]].type # "FREE"
  <2>1. lock[ip[p]] = p
    BY <1>1, <1>2, <1>7
  <2> QED
    BY <1>1, <1>2, <2>1, OwnInode
<1>14. Iupdate(Only(ip[p], Unlinked(ip[p])))
  BY <1>3
<1>15. Unlinked(ip[p]) \in Inode /\ Unlinked(ip[p]).type # "FREE" /\ Unlinked(ip[p]).blk = dinode[ip[p]].blk
  BY <1>13, <1>2 DEF Inode, Unlinked
<1>16. BlocksOnce' /\ bitmap' \subseteq 1..NBLOCKS
  BY <1>2, <1>3, <1>15, <1>14, SameBlock DEF BlocksInv, TypesInv, DataTypes
<1>17. /\ ents' \in [Inums -> [Names -> Slot]] /\ up' \in [Inums -> Inums]
       /\ removed' \subseteq Inums /\ iputs'[p] = "lock"
  BY <1>1, <1>3 DEF BlocksInv, TypesInv, DataTypes
<1>18. /\ DOMAIN Only(ip[p], Unlinked(ip[p])) \subseteq Inums
       /\ \A x \in DOMAIN Only(ip[p], Unlinked(ip[p])) :
             /\ Only(ip[p], Unlinked(ip[p]))[x] \in Inode
             /\ Only(ip[p], Unlinked(ip[p]))[x].type # "FREE"
  BY <1>2, <1>15, OnlyIs
<1>19. BlocksInv'
  BY <1>1, <1>5, <1>6, <1>7, <1>8, <1>9, <1>10, <1>12, <1>14, <1>18, <1>17, <1>16, UpdateStep
<1>20. ASSUME LinkInv, ParentsNamed PROVE LinkInv'
  <2>1. \A x \in Inums : Has(p, x)' => Has(p, x) \/ Named(x)
    BY <1>1, <1>2, <1>3, <1>4 DEF Has, Cwd
  <2>2. \A x \in Inums : ~Owes(p, x)' /\ (Owes(p, x) <=> x = ip[p])
    <3>1. ip[p] # None
      BY <1>2, FsAssumption DEF None, Inums
    <3>2. l = "bad" => Call(p).op = "link"
      BY <1>1 DEF CallInv, InCall
    <3>3. \A x : ~Owes(p, x)'
      BY <1>4 DEF Owes, Second
    <3> QED
      BY <1>1, <3>1, <3>2, <3>3 DEF Owes, Second
  <2>3. PlacesInv(p)'
    BY <1>1, <1>2, <1>3, <1>4 DEF PlacesInv, Second
  <2>4. ASSUME NEW x \in Inums
        PROVE  /\ dinode'[x].type = dinode[x].type
               /\ dinode'[x].nlink = IF x = ip[p] THEN dinode[x].nlink - 1 ELSE dinode[x].nlink
    BY <1>13, <1>14, OnlyIs DEF Iupdate, Only, Unlinked, Inode
  <2>5. ASSUME NEW x \in Inums
        PROVE  /\ dinode'[x].nlink \in Int /\ (dinode'[x].nlink # dinode[x].nlink => Has(p, x))
               /\ dinode'[x].nlink + One(Owes(p, x)) = dinode[x].nlink + One(Owes(p, x)')
    <3>1. dinode[x].nlink \in Int
      BY DEF BlocksInv, TypesInv, DataTypes, Inode
    <3> QED
      BY <2>2, <2>4, <3>1 DEF One, Has
  <2> QED
    BY <1>20, <1>3, <1>5, <2>1, <2>3, <2>4, <2>5, OwedLinks
<1> QED
  BY <1>19, <1>20 DEF LinksKept

LEMMA ChmodNext ==
    ASSUME BlocksInv, NEW p \in Procs, Chmod(p)
    PROVE  BlocksInv' /\ LinksKept
<1>1. At(p, "chmod")
  BY DEF Chmod
<1>2. /\ pc[p] = "chmod" /\ has[p] /\ puts[p] = <<>> /\ iputs[p] = "lock"
      /\ LocalTypes /\ CallInv(p)
      /\ \A x \in Inums : lock[x] = p <=> Holds(p, x)
  BY <1>1, AtIs
<1>3. /\ ip[p] \in Inums /\ cur[p] = None /\ dp[p] = None /\ script[p] # <<>>
      /\ Tail(script[p]) \in Seq(SysCalls) /\ Call(p).mode \subseteq Bits
  BY <1>2, CallIs, CallPaths DEF CallInv, Shape, InCall, LocalTypes, Slot
<1>4. /\ script' = [script EXCEPT ![p] = Tail(script[p])] /\ pc' = [pc EXCEPT ![p] = "idle"]
      /\ has' = [has EXCEPT ![p] = FALSE] /\ ip' = [ip EXCEPT ![p] = None] /\ Put(p, <<ip[p]>>)
      /\ lock' = [lock EXCEPT ![ip[p]] = NoProc]
      /\ Iupdate(Only(ip[p], [copy[ip[p]] EXCEPT !.mode = Call(p).mode]))
      /\ UNCHANGED <<cwd, fd, path, cur, dp, iputs, valid, ref, ents, up, bitmap, removed>>
  BY <1>2, <1>3 DEF Chmod, Return, To, Set, Iunlock, disk
<1>5. /\ puts'[p] = <<ip[p]>> /\ puts' = [puts EXCEPT ![p] = puts'[p]]
      /\ script'[p] = Tail(script[p]) /\ pc'[p] = "idle" /\ has'[p] = FALSE /\ ip'[p] = None
  <2>1. <<ip[p]>> \in Seq(Inums)
    BY <1>3, <1>2
  <2>2. puts'[p] = <<ip[p]>> /\ puts' = [puts EXCEPT ![p] = puts'[p]]
    BY <1>2, <1>4, <2>1, PutIs
  <2> QED
    BY <1>2, <1>4, <2>2 DEF LocalTypes
<1>6. Own(p)
  BY <1>2, <1>4, <1>5 DEF Own, LocalTypes
<1>7. OwnTypes(p)
  BY <1>2, <1>3, <1>4, <1>5 DEF OwnTypes, LocalTypes, Labels, Slot
<1>8. \A x \in Inums : Holds(p, x) <=> x = ip[p]
  BY <1>2, <1>3, FsAssumption DEF Holds, Target, None, Inums
<1>9. \A x \in Inums : ~Holds(p, x)'
  BY <1>2, <1>3, <1>4, <1>5, FsAssumption DEF Holds, Target, None, Inums
<1>10. CallInv(p)'
  BY <1>2, <1>3, <1>4, <1>5 DEF CallInv, Shape, AtName, InCall, Call, Creates, None, Inums
<1>11. Released(p, {ip[p]})
  BY <1>2, <1>3, <1>4, <1>8 DEF Released, BlocksInv, TypesInv, DataTypes
<1>12. ASSUME NEW x \in Inums PROVE Count(p, x)' = Count(p, x)
  <2>1. Count(p, x) = Is(fd[p], x) + Is(cwd[p], x) + 0 + Is(ip[p], x) + 0 + 0
    BY <1>2, <1>3, IsNone, PutsCount DEF Count, OfHand, Cwd
  <2>2. Count(p, x)' = Is(fd[p], x) + Is(cwd[p], x) + 0 + 0 + 0 + Is(ip[p], x)
    BY <1>2, <1>3, <1>4, <1>5, IsNone, PutsCount DEF Count, OfHand, Cwd
  <2> QED
    BY <2>1, <2>2, IsType
<1>13. RefsStep(p) /\ Fetched
  BY <1>4, <1>12, RefsSame, FetchedSame
<1>14. copy[ip[p]] = dinode[ip[p]] /\ copy[ip[p]] \in Inode /\ copy[ip[p]].type # "FREE"
  <2>1. lock[ip[p]] = p
    BY <1>2, <1>3, <1>8
  <2> QED
    BY <1>2, <1>3, <2>1, OwnInode
<1>15. Iupdate(Only(ip[p], [copy[ip[p]] EXCEPT !.mode = Call(p).mode]))
  BY <1>4
<1>16. [copy[ip[p]] EXCEPT !.mode = Call(p).mode] \in Inode /\ [copy[ip[p]] EXCEPT !.mode = Call(p).mode].type # "FREE" /\ [copy[ip[p]] EXCEPT !.mode = Call(p).mode].blk = dinode[ip[p]].blk
  BY <1>14, <1>3 DEF Inode
<1>17. BlocksOnce' /\ bitmap' \subseteq 1..NBLOCKS
  BY <1>3, <1>4, <1>16, <1>15, SameBlock DEF BlocksInv, TypesInv, DataTypes
<1>18. /\ ents' \in [Inums -> [Names -> Slot]] /\ up' \in [Inums -> Inums]
       /\ removed' \subseteq Inums /\ iputs'[p] = "lock"
  BY <1>2, <1>4 DEF BlocksInv, TypesInv, DataTypes
<1>19. /\ DOMAIN Only(ip[p], [copy[ip[p]] EXCEPT !.mode = Call(p).mode]) \subseteq Inums
       /\ \A x \in DOMAIN Only(ip[p], [copy[ip[p]] EXCEPT !.mode = Call(p).mode]) :
             /\ Only(ip[p], [copy[ip[p]] EXCEPT !.mode = Call(p).mode])[x] \in Inode
             /\ Only(ip[p], [copy[ip[p]] EXCEPT !.mode = Call(p).mode])[x].type # "FREE"
  BY <1>3, <1>16, OnlyIs
<1>20. BlocksInv'
  BY <1>2, <1>6, <1>7, <1>8, <1>9, <1>10, <1>11, <1>13, <1>15, <1>19, <1>18, <1>17, UpdateStep
<1>21. ASSUME LinkInv, ParentsNamed PROVE LinkInv'
  <2>1. \A x \in Inums : Has(p, x)' => Has(p, x) \/ Named(x)
    BY <1>2, <1>3, <1>4, <1>5 DEF Has, Cwd
  <2>2. \A x : Owes(p, x)' <=> Owes(p, x)
    BY <1>2, <1>3, <1>4, <1>5 DEF Owes, Second, Call, CallInv, InCall
  <2>3. PlacesInv(p)'
    BY <1>2, <1>3, <1>4, <1>5 DEF PlacesInv, Second
  <2>4. \A x \in Inums : dinode'[x].type = dinode[x].type /\ dinode'[x].nlink = dinode[x].nlink
    BY <1>14, <1>15 DEF Iupdate, Only, Inode
  <2> QED
    BY <1>21, <1>4, <1>6, <2>1, <2>2, <2>3, <2>4, QuietLinks
<1> QED
  BY <1>20, <1>21 DEF LinksKept

\* A link more, before the second path
LEMMA LinkNext ==
    ASSUME BlocksInv, NEW p \in Procs, Link(p), Type(ip[p]) # "DIR"
    PROVE  BlocksInv' /\ LinksKept
<1>1. At(p, "link")
  BY DEF Link
<1>2. /\ pc[p] = "link" /\ has[p] /\ puts[p] = <<>> /\ iputs[p] = "lock"
      /\ LocalTypes /\ CallInv(p)
      /\ \A x \in Inums : lock[x] = p <=> Holds(p, x)
  BY <1>1, AtIs
<1>3. /\ ip[p] \in Inums /\ cur[p] = None /\ dp[p] = None /\ script[p] # <<>> /\ Call(p).op = "link"
      /\ Rest(Call(p).new) \in Seq(Names \cup Dots) /\ Rest(Call(p).new) # <<>>
      /\ (IF Absolute(Call(p).new) THEN Root ELSE cwd[p]) \in Inums
      /\ ref[(IF Absolute(Call(p).new) THEN Root ELSE cwd[p])] > 0
  <2>1. ip[p] \in Inums /\ cur[p] = None /\ dp[p] = None /\ script[p] # <<>> /\ Call(p).op = "link"
    BY <1>2 DEF CallInv, Shape, InCall, LocalTypes, Slot
  <2>2. Call(p).new \in Paths
    BY <2>1, CallIs, CallPaths
  <2> QED
    BY <1>2, <2>1, <2>2, Starts
<1>4. /\ pc' = [pc EXCEPT ![p] = "walk"] /\ has' = [has EXCEPT ![p] = FALSE]
      /\ path' = [path EXCEPT ![p] = Rest(Call(p).new)]
      /\ cur' = [cur EXCEPT ![p] = (IF Absolute(Call(p).new) THEN Root ELSE cwd[p])]
      /\ lock' = [lock EXCEPT ![ip[p]] = NoProc]
      /\ ref' = [ref EXCEPT ![(IF Absolute(Call(p).new) THEN Root ELSE cwd[p])] = @ + 1]
      /\ Iupdate(Only(ip[p], [copy[ip[p]] EXCEPT !.nlink = @ + 1]))
      /\ UNCHANGED <<cwd, fd, script, ip, dp, puts, iputs, valid, ents, up, bitmap, removed>>
  BY <1>2, <1>3 DEF Link, StartWalk, Go, To, Set, Iunlock, disk
<1>5. /\ pc'[p] = "walk" /\ has'[p] = FALSE /\ path'[p] = Rest(Call(p).new)
      /\ cur'[p] = (IF Absolute(Call(p).new) THEN Root ELSE cwd[p])
  BY <1>2, <1>4 DEF LocalTypes
<1>6. Own(p)
  BY <1>2, <1>4, <1>5 DEF Own, LocalTypes
<1>7. OwnTypes(p)
  BY <1>2, <1>3, <1>4, <1>5 DEF OwnTypes, LocalTypes, Labels, Slot
<1>8. \A x \in Inums : Holds(p, x) <=> x = ip[p]
  BY <1>2, <1>3, FsAssumption DEF Holds, Target, None, Inums
<1>9. \A x \in Inums : ~Holds(p, x)'
  BY <1>2, <1>3, <1>4, <1>5, FsAssumption DEF Holds, Target, None, Inums
<1>10. CallInv(p)'
  BY <1>2, <1>3, <1>4, <1>5 DEF CallInv, Shape, AtName, InCall, Call, Creates, None, Inums
<1>11. Released(p, {ip[p]})
  BY <1>2, <1>3, <1>4, <1>8 DEF Released, BlocksInv, TypesInv, DataTypes
<1>12. ASSUME NEW x \in Inums PROVE Count(p, x)' = Count(p, x) + Is((IF Absolute(Call(p).new) THEN Root ELSE cwd[p]), x)
  <2>1. Count(p, x) = Is(fd[p], x) + Is(cwd[p], x) + 0 + Is(ip[p], x) + 0 + 0
    BY <1>2, <1>3, IsNone, PutsCount DEF Count, OfHand, Cwd
  <2>2. Count(p, x)' = Is(fd[p], x) + Is(cwd[p], x) + Is((IF Absolute(Call(p).new) THEN Root ELSE cwd[p]), x) + Is(ip[p], x) + 0 + 0
    BY <1>2, <1>3, <1>4, <1>5, IsNone, PutsCount DEF Count, OfHand, Cwd
  <2> QED
    BY <2>1, <2>2, IsType
<1>13. RefsStep(p) /\ Fetched
  BY <1>3, <1>4, <1>12, RefsUp, FetchedStart
<1>14. copy[ip[p]] = dinode[ip[p]] /\ copy[ip[p]] \in Inode /\ copy[ip[p]].type # "FREE"
  <2>1. lock[ip[p]] = p
    BY <1>2, <1>3, <1>8
  <2> QED
    BY <1>2, <1>3, <2>1, OwnInode
<1>15. Iupdate(Only(ip[p], [copy[ip[p]] EXCEPT !.nlink = @ + 1]))
  BY <1>4
<1>16. [copy[ip[p]] EXCEPT !.nlink = @ + 1] \in Inode /\ [copy[ip[p]] EXCEPT !.nlink = @ + 1].type # "FREE" /\ [copy[ip[p]] EXCEPT !.nlink = @ + 1].blk = dinode[ip[p]].blk
  BY <1>14, <1>3 DEF Inode
<1>17. BlocksOnce' /\ bitmap' \subseteq 1..NBLOCKS
  BY <1>3, <1>4, <1>16, <1>15, SameBlock DEF BlocksInv, TypesInv, DataTypes
<1>18. /\ ents' \in [Inums -> [Names -> Slot]] /\ up' \in [Inums -> Inums]
       /\ removed' \subseteq Inums /\ iputs'[p] = "lock"
  BY <1>2, <1>4 DEF BlocksInv, TypesInv, DataTypes
<1>19. /\ DOMAIN Only(ip[p], [copy[ip[p]] EXCEPT !.nlink = @ + 1]) \subseteq Inums
       /\ \A x \in DOMAIN Only(ip[p], [copy[ip[p]] EXCEPT !.nlink = @ + 1]) :
             /\ Only(ip[p], [copy[ip[p]] EXCEPT !.nlink = @ + 1])[x] \in Inode
             /\ Only(ip[p], [copy[ip[p]] EXCEPT !.nlink = @ + 1])[x].type # "FREE"
  BY <1>3, <1>16, OnlyIs
<1>20. BlocksInv'
  BY <1>2, <1>6, <1>7, <1>8, <1>9, <1>10, <1>11, <1>13, <1>15, <1>19, <1>18, <1>17, UpdateStep
<1>21. ASSUME LinkInv, ParentsNamed PROVE LinkInv'
  <2>1. \A x \in Inums : Has(p, x)' => Has(p, x) \/ Named(x)
    BY <1>2, <1>3, <1>4, <1>5 DEF Has, Cwd, Named
  <2>2. \A x \in Inums : ~Owes(p, x) /\ (Owes(p, x)' <=> x = ip[p])
    BY <1>2, <1>3, <1>4, <1>5, FsAssumption DEF Owes, Second, Call, None, Inums
  <2>3. ASSUME NEW x \in Inums
        PROVE  /\ dinode'[x].type = dinode[x].type
               /\ dinode'[x].nlink = IF x = ip[p] THEN dinode[x].nlink + 1 ELSE dinode[x].nlink
    BY <1>14, <1>15, OnlyIs DEF Iupdate, Only, Inode
  <2>4. PlacesInv(p)'
    <3>1. dinode'[ip[p]].type # "DIR"
      BY <1>3, <1>14, <2>3 DEF Type
    <3> QED
      BY <3>1, <1>2, <1>3, <1>4, <1>5 DEF PlacesInv
  <2>5. ASSUME NEW x \in Inums
        PROVE  /\ dinode'[x].nlink \in Int /\ (dinode'[x].nlink # dinode[x].nlink => Has(p, x))
               /\ dinode'[x].nlink + One(Owes(p, x)) = dinode[x].nlink + One(Owes(p, x)')
    <3>1. dinode[x].nlink \in Int
      BY DEF BlocksInv, TypesInv, DataTypes, Inode
    <3> QED
      BY <2>2, <2>3, <3>1 DEF One, Has
  <2> QED
    BY <1>21, <1>4, <1>6, <2>1, <2>3, <2>4, <2>5, OwedLinks
<1> QED
  BY <1>20, <1>21 DEF LinksKept

LEMMA WriteNext ==
    ASSUME BlocksInv, NEW p \in Procs, Write(p)
    PROVE  BlocksInv' /\ LinksKept
<1>1. At(p, "write")
  BY DEF Write
<1>2. /\ pc[p] = "write" /\ has[p] /\ puts[p] = <<>> /\ iputs[p] = "lock"
      /\ LocalTypes /\ CallInv(p)
      /\ \A x \in Inums : lock[x] = p <=> Holds(p, x)
  BY <1>1, AtIs
<1>3. /\ fd[p] \in Inums /\ ip[p] = None /\ cur[p] = None /\ dp[p] = None /\ script[p] # <<>>
      /\ Tail(script[p]) \in Seq(SysCalls)
  BY <1>2, CallIs DEF CallInv, Shape, InCall, LocalTypes, Slot
<1>4. /\ script' = [script EXCEPT ![p] = Tail(script[p])] /\ pc' = [pc EXCEPT ![p] = "idle"]
      /\ has' = [has EXCEPT ![p] = FALSE] /\ lock' = [lock EXCEPT ![fd[p]] = NoProc]
      /\ Iupdate(Only(fd[p], [copy[fd[p]] EXCEPT !.blk = Block(fd[p], bitmap)]))
      /\ bitmap' = bitmap \cup {Block(fd[p], bitmap)} /\ Cardinality(FreeBlocks) >= NewBlocks(fd[p])
      /\ UNCHANGED <<cwd, fd, path, cur, ip, dp, puts, iputs, valid, ref, ents, up, removed>>
  BY <1>2, <1>3 DEF Write, Return, To, Set, Iunlock, disk
<1>5. /\ script'[p] = Tail(script[p]) /\ pc'[p] = "idle" /\ has'[p] = FALSE
  BY <1>2, <1>4 DEF LocalTypes
<1>6. Own(p)
  BY <1>2, <1>4, <1>5 DEF Own, LocalTypes
<1>7. OwnTypes(p)
  BY <1>2, <1>3, <1>4, <1>5 DEF OwnTypes, LocalTypes, Labels, Slot
<1>8. \A x \in Inums : Holds(p, x) <=> x = fd[p]
  BY <1>2, <1>3, FsAssumption DEF Holds, Target, None, Inums
<1>9. \A x \in Inums : ~Holds(p, x)'
  BY <1>2, <1>3, <1>4, <1>5, FsAssumption DEF Holds, Target, None, Inums
<1>10. CallInv(p)'
  BY <1>2, <1>3, <1>4, <1>5 DEF CallInv, Shape, AtName, InCall, Call, Creates, None, Inums
<1>11. Released(p, {fd[p]})
  BY <1>2, <1>3, <1>4, <1>8 DEF Released, BlocksInv, TypesInv, DataTypes
<1>12. ASSUME NEW x \in Inums PROVE Count(p, x)' = Count(p, x)
  <2>1. Count(p, x) = Is(fd[p], x) + Is(cwd[p], x) + 0 + 0 + 0 + 0
    BY <1>2, <1>3, IsNone, PutsCount DEF Count, OfHand, Cwd
  <2>2. Count(p, x)' = Is(fd[p], x) + Is(cwd[p], x) + 0 + 0 + 0 + 0
    BY <1>2, <1>3, <1>4, <1>5, IsNone, PutsCount DEF Count, OfHand, Cwd
  <2> QED
    BY <2>1, <2>2, IsType
<1>13. RefsStep(p) /\ Fetched
  BY <1>4, <1>12, RefsSame, FetchedSame
<1>14. copy[fd[p]] = dinode[fd[p]] /\ copy[fd[p]] \in Inode /\ copy[fd[p]].type # "FREE"
  <2>1. lock[fd[p]] = p
    BY <1>2, <1>3, <1>8
  <2> QED
    BY <1>2, <1>3, <2>1, OwnInode
<1>15. Iupdate(Only(fd[p], [copy[fd[p]] EXCEPT !.blk = Block(fd[p], bitmap)]))
  BY <1>4
<1>16. BlocksOnce' /\ bitmap' \subseteq 1..NBLOCKS /\ Block(fd[p], bitmap) \in 1..NBLOCKS
  <2>1. [copy[fd[p]] EXCEPT !.blk = Block(fd[p], bitmap)].blk = Block(fd[p], bitmap)
    BY <1>14 DEF Inode
  <2> QED
    BY <1>3, <1>4, <1>14, <1>15, <2>1, NewBlock
<1>17. [copy[fd[p]] EXCEPT !.blk = Block(fd[p], bitmap)] \in Inode /\ [copy[fd[p]] EXCEPT !.blk = Block(fd[p], bitmap)].type # "FREE"
  BY <1>14, <1>16, FsAssumption DEF Inode
<1>18. /\ ents' \in [Inums -> [Names -> Slot]] /\ up' \in [Inums -> Inums]
       /\ removed' \subseteq Inums /\ iputs'[p] = "lock"
  BY <1>2, <1>4 DEF BlocksInv, TypesInv, DataTypes
<1>19. /\ DOMAIN Only(fd[p], [copy[fd[p]] EXCEPT !.blk = Block(fd[p], bitmap)]) \subseteq Inums
       /\ \A x \in DOMAIN Only(fd[p], [copy[fd[p]] EXCEPT !.blk = Block(fd[p], bitmap)]) :
             /\ Only(fd[p], [copy[fd[p]] EXCEPT !.blk = Block(fd[p], bitmap)])[x] \in Inode
             /\ Only(fd[p], [copy[fd[p]] EXCEPT !.blk = Block(fd[p], bitmap)])[x].type # "FREE"
  BY <1>3, <1>17, OnlyIs
<1>20. BlocksInv'
  BY <1>2, <1>6, <1>7, <1>8, <1>9, <1>10, <1>11, <1>13, <1>15, <1>19, <1>18, <1>16, UpdateStep
<1>21. ASSUME LinkInv, ParentsNamed PROVE LinkInv'
  <2>1. \A x \in Inums : Has(p, x)' => Has(p, x) \/ Named(x)
    BY <1>2, <1>3, <1>4, <1>5 DEF Has, Cwd
  <2>2. \A x : Owes(p, x)' <=> Owes(p, x)
    BY <1>2, <1>3, <1>4, <1>5 DEF Owes, Second, Call, CallInv, InCall
  <2>3. PlacesInv(p)'
    BY <1>2, <1>3, <1>4, <1>5 DEF PlacesInv, Second
  <2>4. \A x \in Inums : dinode'[x].type = dinode[x].type /\ dinode'[x].nlink = dinode[x].nlink
    BY <1>14, <1>15 DEF Iupdate, Only, Inode
  <2> QED
    BY <1>21, <1>4, <1>6, <2>1, <2>2, <2>3, <2>4, QuietLinks
<1> QED
  BY <1>20, <1>21 DEF LinksKept

\* A name that is not there is neither "." nor "..".
LEMMA NotThere ==
    ASSUME BlocksInv, NEW d \in Inums, NEW n \in Names \cup Dots, Lookup(d, n) = None
    PROVE  n \in Names
<1>1. n # "."
  BY FsAssumption DEF Lookup, None, Inums
<1>2. n # ".."
  <2>1. up[d] # None
    BY FsAssumption DEF None, Inums, BlocksInv, TypesInv, DataTypes
  <2> QED
    BY <2>1 DEF Lookup
<1> QED
  BY <1>1, <1>2 DEF Dots

\* ialloc writes an inode that was free, on the disk only.
Alloc(i, v) == /\ i \in Inums /\ dinode[i].type = "FREE"
               /\ v \in Inode /\ v.type # "FREE" /\ v.blk = None
               /\ dinode' = [dinode EXCEPT ![i] = v]

LEMMA AllocStep ==
    ASSUME BlocksInv, NEW p \in Procs, puts[p] = <<>>, iputs'[p] = "lock",
           Own(p), OwnTypes(p), CallInv(p)', RefsStep(p), Fetched, NEW R, Released(p, R),
           \A x \in Inums : Holds(p, x)' <=> Holds(p, x) /\ x \notin R,
           NEW i, NEW v, Alloc(i, v),
           UNCHANGED <<ents, up, bitmap, copy>>, removed' \subseteq Inums
    PROVE  BlocksInv'
<1>1. LocksStep(p) /\ lock' \in [Inums -> Procs \cup {NoProc}]
  BY LocksNext
<1>2. DataTypes /\ dinode \in [Inums -> Inode] /\ i \in Inums /\ dinode[i].type = "FREE"
  BY DEF BlocksInv, TypesInv, DataTypes, Alloc
<1>3. dinode[i].blk = None
  BY <1>2 DEF BlocksInv, CacheInv, Free
<1>4. /\ dinode' \in [Inums -> Inode]
      /\ dinode'[i].type # "FREE" /\ dinode'[i].blk = None
      /\ \A x \in Inums \ {i} : dinode'[x] = dinode[x]
  BY <1>2 DEF Alloc
<1>5. DataTypes'
  BY <1>1, <1>2, <1>4 DEF DataTypes, Fetched, RefsStep
<1>6. CacheInv'
  <2>1. \A x : Freed(x) => Freed(x)'
    BY FreedKept
  <2>2. ASSUME NEW x \in Inums, valid'[x], ref'[x] > 0, ~Freed(x)'
        PROVE  copy'[x] = dinode'[x] /\ dinode'[x].type # "FREE"
    <3>1. copy[x] = dinode[x] /\ dinode[x].type # "FREE"
      BY <2>1, <2>2 DEF BlocksInv, CacheInv, Fetched
    <3> QED
      BY <3>1, <1>2, <1>4
  <2>3. ASSUME NEW x \in Inums, dinode'[x].type = "FREE" PROVE dinode'[x] = Free
    <3>1. x # i
      BY <2>3, <1>4
    <3> QED
      BY <3>1, <2>3, <1>4 DEF BlocksInv, CacheInv
  <2> QED
    BY <2>2, <2>3 DEF CacheInv
<1>7. BlocksOnce'
  <2>1. \A x \in Inums : dinode'[x].blk = dinode[x].blk
    BY <1>3, <1>4
  <2>2. Blocks' = Blocks
    BY <2>1 DEF Blocks
  <2> QED
    BY <2>2, OnceIs, OnceNextIs DEF BlocksInv
<1>8. Kept(p)
  BY <1>1 DEF Kept
<1> QED
  BY <1>5, <1>6, <1>7, <1>8, KeptNext

\* The new name
LEMMA DirLinkNew ==
    ASSUME BlocksInv, NEW p \in Procs, DirLink(p), Lookup(dp[p], Head(path[p])) = None
    PROVE  BlocksInv' /\ LinksKept
<1>1. At(p, "dirlink")
  BY DEF DirLink
<1>2. /\ pc[p] = "dirlink" /\ has[p] /\ puts[p] = <<>> /\ iputs[p] = "lock"
      /\ LocalTypes /\ CallInv(p)
      /\ \A x \in Inums : lock[x] = p <=> Holds(p, x)
  BY <1>1, AtIs
<1>3. /\ dp[p] \in Inums /\ ip[p] \in Inums /\ cur[p] = None /\ Head(path[p]) \in Names
      /\ script[p] # <<>> /\ Tail(script[p]) \in Seq(SysCalls)
  <2>1. AtName(p) /\ dp[p] \in Inums /\ cur[p] = None /\ script[p] # <<>>
    BY <1>2 DEF CallInv, Shape, InCall, LocalTypes, Slot
  <2>2. Head(path[p]) \in Names \cup Dots
    BY <2>1, NameIs
  <2> QED
    BY <1>2, <2>1, <2>2, NotThere, CallIs DEF CallInv, Shape, LocalTypes, Slot, InCall, Call
<1>4. /\ script' = [script EXCEPT ![p] = Tail(script[p])] /\ pc' = [pc EXCEPT ![p] = "idle"]
      /\ has' = [has EXCEPT ![p] = FALSE] /\ ip' = [ip EXCEPT ![p] = None]
      /\ dp' = [dp EXCEPT ![p] = None] /\ Put(p, <<dp[p], ip[p]>>)
      /\ lock' = [lock EXCEPT ![dp[p]] = NoProc]
      /\ Iupdate(Only(dp[p], [copy[dp[p]] EXCEPT !.blk = Block(dp[p], bitmap)]))
      /\ bitmap' = bitmap \cup {Block(dp[p], bitmap)} /\ Cardinality(FreeBlocks) >= NewBlocks(dp[p])
      /\ ents' = [ents EXCEPT ![dp[p]][Head(path[p])] = ip[p]]
      /\ removed' = IF Named(dp[p]) THEN removed ELSE removed \cup {ip[p]}
      /\ UNCHANGED <<cwd, fd, path, cur, iputs, valid, ref, up>>
  BY <1>2, <1>3 DEF DirLink, Return, To, Set, Iunlock, disk
<1>5. /\ puts'[p] = <<dp[p], ip[p]>> /\ puts' = [puts EXCEPT ![p] = puts'[p]]
      /\ script'[p] = Tail(script[p]) /\ pc'[p] = "idle" /\ has'[p] = FALSE /\ ip'[p] = None
      /\ dp'[p] = None
  <2>1. <<dp[p], ip[p]>> \in Seq(Inums)
    BY <1>3, <1>2
  <2>2. puts'[p] = <<dp[p], ip[p]>> /\ puts' = [puts EXCEPT ![p] = puts'[p]]
    BY <1>2, <1>4, <2>1, PutIs
  <2> QED
    BY <1>2, <1>4, <2>2 DEF LocalTypes
<1>6. Own(p)
  BY <1>2, <1>4, <1>5 DEF Own, LocalTypes
<1>7. OwnTypes(p)
  BY <1>2, <1>3, <1>4, <1>5 DEF OwnTypes, LocalTypes, Labels, Slot
<1>8. \A x \in Inums : Holds(p, x) <=> x = dp[p]
  BY <1>2, <1>3, FsAssumption DEF Holds, Target, None, Inums
<1>9. \A x \in Inums : ~Holds(p, x)'
  BY <1>2, <1>3, <1>4, <1>5, FsAssumption DEF Holds, Target, None, Inums
<1>10. CallInv(p)'
  BY <1>2, <1>3, <1>4, <1>5 DEF CallInv, Shape, AtName, InCall, Call, Creates, None, Inums
<1>11. Released(p, {dp[p]})
  BY <1>2, <1>3, <1>4, <1>8 DEF Released, BlocksInv, TypesInv, DataTypes
<1>12. ASSUME NEW x \in Inums PROVE Count(p, x)' = Count(p, x)
  <2>1. Count(p, x) = Is(fd[p], x) + Is(cwd[p], x) + 0 + Is(ip[p], x) + Is(dp[p], x) + 0
    BY <1>2, <1>3, IsNone, PutsCount DEF Count, OfHand, Cwd
  <2>2. InSeq(puts'[p], x) = Is(dp[p], x) + Is(ip[p], x)
    BY <1>5, PutsCount
  <2>3. Count(p, x)' = Is(fd[p], x) + Is(cwd[p], x) + 0 + 0 + 0 + (Is(dp[p], x) + Is(ip[p], x))
    BY <1>2, <1>3, <1>4, <1>5, <2>2, IsNone DEF Count, OfHand, Cwd
  <2> QED
    BY <2>1, <2>3, IsType
<1>13. RefsStep(p) /\ Fetched
  BY <1>4, <1>12, RefsSame, FetchedSame
<1>14. copy[dp[p]] = dinode[dp[p]] /\ copy[dp[p]] \in Inode /\ copy[dp[p]].type # "FREE"
  <2>1. lock[dp[p]] = p
    BY <1>2, <1>3, <1>8
  <2> QED
    BY <1>2, <1>3, <2>1, OwnInode
<1>15. Iupdate(Only(dp[p], [copy[dp[p]] EXCEPT !.blk = Block(dp[p], bitmap)]))
  BY <1>4
<1>16. BlocksOnce' /\ bitmap' \subseteq 1..NBLOCKS /\ Block(dp[p], bitmap) \in 1..NBLOCKS
  <2>1. [copy[dp[p]] EXCEPT !.blk = Block(dp[p], bitmap)].blk = Block(dp[p], bitmap)
    BY <1>14 DEF Inode
  <2> QED
    BY <1>3, <1>4, <1>14, <1>15, <2>1, NewBlock
<1>17. [copy[dp[p]] EXCEPT !.blk = Block(dp[p], bitmap)] \in Inode /\ [copy[dp[p]] EXCEPT !.blk = Block(dp[p], bitmap)].type # "FREE"
  BY <1>14, <1>16, FsAssumption DEF Inode
<1>18. /\ ents' \in [Inums -> [Names -> Slot]] /\ up' \in [Inums -> Inums]
       /\ removed' \subseteq Inums /\ iputs'[p] = "lock"
  BY <1>2, <1>3, <1>4 DEF BlocksInv, TypesInv, DataTypes, Slot
<1>19. /\ DOMAIN Only(dp[p], [copy[dp[p]] EXCEPT !.blk = Block(dp[p], bitmap)]) \subseteq Inums
       /\ \A x \in DOMAIN Only(dp[p], [copy[dp[p]] EXCEPT !.blk = Block(dp[p], bitmap)]) :
             /\ Only(dp[p], [copy[dp[p]] EXCEPT !.blk = Block(dp[p], bitmap)])[x] \in Inode
             /\ Only(dp[p], [copy[dp[p]] EXCEPT !.blk = Block(dp[p], bitmap)])[x].type # "FREE"
  BY <1>3, <1>17, OnlyIs
<1>20. BlocksInv'
  BY <1>2, <1>6, <1>7, <1>8, <1>9, <1>10, <1>11, <1>13, <1>15, <1>19, <1>18, <1>16, UpdateStep
<1>21. ASSUME LinkInv, ParentsNamed PROVE LinkInv'
  <2> DEFINE d == dp[p]
             n == Head(path[p])
             v == ip[p]
  <2>1. None \notin Inums /\ d \in Inums /\ n \in Names /\ v \in Inums
    BY <1>3, FsAssumption DEF None, Inums
  <2>2. ents[d][n] = None
    BY <2>1, FsAssumption DEF Lookup
  <2>3. \A x \in Inums : dinode'[x].type = dinode[x].type /\ dinode'[x].nlink = dinode[x].nlink
    BY <1>14, <1>15 DEF Iupdate, Only, Inode
  <2>4. \A x \in Inums : (Owes(p, x) <=> x = v) /\ ~Owes(p, x)'
    BY <1>2, <1>4, <1>5, <2>1 DEF Owes, Second, Call, CallInv, InCall
  <2>5. dinode[v].type # "DIR"
    BY <1>21, <1>2, <2>1 DEF PlacesInv, LinkInv, Second, Call, CallInv, InCall
  <2>6. Empty(v) /\ v # d
    <3>1. dinode[d].type = "DIR"
      BY <1>21, <2>1 DEF PlacesInv, LinkInv
    <3>2. \A m \in Names : ents[v][m] = None
      BY <1>21, <2>1, <2>5 DEF LinkInv, DirsInv
    <3>3. ents[v] \in [Names -> Slot]
      BY <2>1 DEF BlocksInv, TypesInv, DataTypes
    <3> QED
      BY <2>5, <3>1, <3>2, <3>3 DEF Empty, NoEntries
  <2>7. \A x \in Inums : Has(p, x)' => Has(p, x)
    BY <1>2, <1>3, <1>4, <1>5 DEF Has, Cwd
  <2>8. PlacesInv(p)'
    BY <1>2, <1>4, <1>5, <1>18 DEF PlacesInv
  <2>9. ASSUME NEW x \in Inums
        PROVE  /\ dinode'[x].nlink \in Int
               /\ dinode'[x].nlink + One(ents[d][n] = x) + One(x = d /\ IsDir(ents[d][n])) + One(Owes(p, x))
                    = dinode[x].nlink + One(v = x) + One(x = d /\ IsDir(v)) + One(Owes(p, x)')
    <3>1. dinode[x].nlink \in Int
      BY DEF BlocksInv, TypesInv, DataTypes, Inode
    <3>2. One(ents[d][n] = x) = 0 /\ One(x = d /\ IsDir(ents[d][n])) = 0 /\ One(x = d /\ IsDir(v)) = 0
      BY <2>1, <2>2, <2>5 DEF One, IsDir
    <3>3. One(Owes(p, x)) = One(v = x) /\ One(Owes(p, x)') = 0 /\ One(v = x) \in Nat
      BY <2>4 DEF One
    <3> QED
      BY <2>3, <3>1, <3>2, <3>3
  <2>10. Has(p, v) /\ lock[d] = p /\ v \in Slot
    BY <1>2, <1>8, <2>1 DEF Has, Slot
  <2>11. /\ ents' = [ents EXCEPT ![d][n] = v] /\ up' = up
         /\ removed' = IF v = None \/ Named(d) THEN removed ELSE removed \cup {v}
    BY <1>4, <2>1
  <2>12. d = dp[p]
    OBVIOUS
  <2> HIDE DEF d, n, v
  <2>13. NameStep(p, d, n, v)
    BY <1>6, <2>2, <2>3, <2>5, <2>6, <2>7, <2>8, <2>9, <2>10, <2>11, <2>12 DEF NameStep
  <2> QED
    BY <1>21, <2>1, <2>10, <2>13, NameLinks
<1> QED
  BY <1>20, <1>21 DEF LinksKept

\* The name goes.
LEMMA UnlinkOk ==
    ASSUME BlocksInv, NEW p \in Procs, UnlinkEntry(p), ~(Type(ip[p]) = "DIR" /\ ~Empty(ip[p]))
    PROVE  BlocksInv' /\ LinksKept
<1>1. At(p, "unlinked")
  BY DEF UnlinkEntry
<1>2. /\ pc[p] = "unlinked" /\ has[p] /\ puts[p] = <<>> /\ iputs[p] = "lock"
      /\ LocalTypes /\ CallInv(p)
      /\ \A x \in Inums : lock[x] = p <=> Holds(p, x)
  BY <1>1, AtIs
<1>3. /\ dp[p] \in Inums /\ ip[p] \in Inums /\ cur[p] = None /\ ip[p] # dp[p] /\ script[p] # <<>>
      /\ Head(path[p]) \in Names
  BY <1>2, CallIs DEF CallInv, Shape, InCall, LocalTypes, Slot
<1>4. /\ pc' = [pc EXCEPT ![p] = "last"] /\ has' = [has EXCEPT ![p] = TRUE]
      /\ dp' = [dp EXCEPT ![p] = None] /\ Put(p, <<dp[p]>>)
      /\ lock' = [lock EXCEPT ![dp[p]] = NoProc]
      /\ Iupdate(Only(dp[p], [copy[dp[p]] EXCEPT !.nlink = @ - (IF Type(ip[p]) = "DIR" THEN 1 ELSE 0)]))
      /\ ents' = [ents EXCEPT ![dp[p]][Head(path[p])] = None]
      /\ UNCHANGED <<cwd, fd, script, path, cur, ip, iputs, valid, ref, up, bitmap, removed>>
  BY <1>2, <1>3 DEF UnlinkEntry, PutParent, To, Set, Iunlock, disk, user
<1>5. /\ puts'[p] = <<dp[p]>> /\ puts' = [puts EXCEPT ![p] = puts'[p]] /\ pc'[p] = "last"
      /\ has'[p] = TRUE /\ dp'[p] = None
  <2>1. <<dp[p]>> \in Seq(Inums)
    BY <1>3, <1>2
  <2>2. puts'[p] = <<dp[p]>> /\ puts' = [puts EXCEPT ![p] = puts'[p]]
    BY <1>2, <1>4, <2>1, PutIs
  <2> QED
    BY <1>2, <1>4, <2>2 DEF LocalTypes
<1>6. Own(p)
  BY <1>2, <1>4, <1>5 DEF Own, LocalTypes
<1>7. OwnTypes(p)
  BY <1>2, <1>3, <1>4, <1>5 DEF OwnTypes, LocalTypes, Labels, Slot
<1>8. \A x \in Inums : Holds(p, x) <=> x \in {ip[p], dp[p]}
  BY <1>2, <1>3, FsAssumption DEF Holds, Target, None, Inums
<1>9. \A x \in Inums : Holds(p, x)' <=> x = ip[p]
  BY <1>2, <1>3, <1>4, <1>5, FsAssumption DEF Holds, Target, None, Inums
<1>10. CallInv(p)'
  BY <1>2, <1>3, <1>4, <1>5 DEF CallInv, Shape, AtName, InCall, Call, Creates, None, Inums
<1>11. Released(p, {dp[p]})
  BY <1>2, <1>3, <1>4, <1>8 DEF Released, BlocksInv, TypesInv, DataTypes
<1>12. ASSUME NEW x \in Inums PROVE Count(p, x)' = Count(p, x)
  <2>1. Count(p, x) = Is(fd[p], x) + Is(cwd[p], x) + 0 + Is(ip[p], x) + Is(dp[p], x) + 0
    BY <1>2, <1>3, IsNone, PutsCount DEF Count, OfHand, Cwd
  <2>2. Count(p, x)' = Is(fd[p], x) + Is(cwd[p], x) + 0 + Is(ip[p], x) + 0 + Is(dp[p], x)
    BY <1>2, <1>3, <1>4, <1>5, IsNone, PutsCount DEF Count, OfHand, Cwd
  <2> QED
    BY <2>1, <2>2, IsType
<1>13. RefsStep(p) /\ Fetched
  BY <1>4, <1>12, RefsSame, FetchedSame
<1>14. \A x \in Inums : Holds(p, x)' <=> Holds(p, x) /\ x \notin {dp[p]}
  BY <1>3, <1>8, <1>9
<1>15. copy[dp[p]] = dinode[dp[p]] /\ copy[dp[p]] \in Inode /\ copy[dp[p]].type # "FREE"
  <2>1. lock[dp[p]] = p
    BY <1>2, <1>3, <1>8
  <2> QED
    BY <1>2, <1>3, <2>1, OwnInode
<1>16. Iupdate(Only(dp[p], [copy[dp[p]] EXCEPT !.nlink = @ - (IF Type(ip[p]) = "DIR" THEN 1 ELSE 0)]))
  BY <1>4
<1>17. [copy[dp[p]] EXCEPT !.nlink = @ - (IF Type(ip[p]) = "DIR" THEN 1 ELSE 0)] \in Inode /\ [copy[dp[p]] EXCEPT !.nlink = @ - (IF Type(ip[p]) = "DIR" THEN 1 ELSE 0)].type # "FREE" /\ [copy[dp[p]] EXCEPT !.nlink = @ - (IF Type(ip[p]) = "DIR" THEN 1 ELSE 0)].blk = dinode[dp[p]].blk
  BY <1>15, <1>3 DEF Inode
<1>18. BlocksOnce' /\ bitmap' \subseteq 1..NBLOCKS
  BY <1>3, <1>4, <1>17, <1>16, SameBlock DEF BlocksInv, TypesInv, DataTypes
<1>19. /\ ents' \in [Inums -> [Names -> Slot]] /\ up' \in [Inums -> Inums]
       /\ removed' \subseteq Inums /\ iputs'[p] = "lock"
  BY <1>2, <1>3, <1>4 DEF BlocksInv, TypesInv, DataTypes, Slot
<1>20. /\ DOMAIN Only(dp[p], [copy[dp[p]] EXCEPT !.nlink = @ - (IF Type(ip[p]) = "DIR" THEN 1 ELSE 0)]) \subseteq Inums
       /\ \A x \in DOMAIN Only(dp[p], [copy[dp[p]] EXCEPT !.nlink = @ - (IF Type(ip[p]) = "DIR" THEN 1 ELSE 0)]) :
             /\ Only(dp[p], [copy[dp[p]] EXCEPT !.nlink = @ - (IF Type(ip[p]) = "DIR" THEN 1 ELSE 0)])[x] \in Inode
             /\ Only(dp[p], [copy[dp[p]] EXCEPT !.nlink = @ - (IF Type(ip[p]) = "DIR" THEN 1 ELSE 0)])[x].type # "FREE"
  BY <1>3, <1>17, OnlyIs
<1>21. BlocksInv'
  BY <1>2, <1>6, <1>7, <1>8, <1>14, <1>10, <1>11, <1>13, <1>16, <1>20, <1>19, <1>18, UpdateStep
<1>22. ASSUME LinkInv, ParentsNamed PROVE LinkInv'
  <2> DEFINE d == dp[p]
             n == Head(path[p])
             i == ip[p]
  <2>1. None \notin Inums /\ d \in Inums /\ n \in Names /\ i \in Inums /\ i # d
    BY <1>3, FsAssumption DEF None, Inums
  <2>2. ents[d][n] = i
    BY <1>22, <1>2 DEF LinkInv, PlacesInv
  <2>3. copy[i] = dinode[i]
    <3>1. lock[i] = p
      BY <1>2, <1>8, <2>1
    <3> QED
      BY <1>2, <2>1, <3>1, OwnInode
  <2>4. ASSUME NEW x \in Inums
        PROVE  /\ dinode'[x].type = dinode[x].type
               /\ dinode'[x].nlink = IF x = d THEN dinode[x].nlink - (IF dinode[i].type = "DIR" THEN 1 ELSE 0)
                                     ELSE dinode[x].nlink
    BY <1>15, <1>16, <2>3 DEF Iupdate, Only, Inode, Type
  <2>5. \A x \in Inums : ~Owes(p, x) /\ (Owes(p, x)' <=> x = i)
    BY <1>2, <1>4, <1>5, <2>1 DEF Owes, Second, Call, CallInv, InCall
  <2>6. dinode[i].type = "DIR" => Empty(i)
    BY <2>3 DEF Type
  <2>7. \A x \in Inums : Has(p, x)' => Has(p, x)
    BY <1>2, <1>3, <1>4, <1>5 DEF Has, Cwd
  <2>8. PlacesInv(p)'
    <3>1. Second(p)' <=> FALSE
      BY <1>2, <1>4 DEF Second, Call, CallInv, InCall
    <3> QED
      BY <1>2, <1>4, <1>5, <1>19, <3>1 DEF PlacesInv
  <2>9. ASSUME NEW x \in Inums
        PROVE  /\ dinode'[x].nlink \in Int
               /\ dinode'[x].nlink + One(ents[d][n] = x) + One(x = d /\ IsDir(ents[d][n])) + One(Owes(p, x))
                    = dinode[x].nlink + One(None = x) + One(x = d /\ IsDir(None)) + One(Owes(p, x)')
    <3>1. dinode[x].nlink \in Int
      BY DEF BlocksInv, TypesInv, DataTypes, Inode
    <3>2. One(None = x) = 0 /\ One(x = d /\ IsDir(None)) = 0 /\ One(Owes(p, x)) = 0
      BY <2>1, <2>5 DEF One, IsDir
    <3>3. /\ One(ents[d][n] = x) = One(Owes(p, x)') /\ One(Owes(p, x)') \in Nat
          /\ One(x = d /\ IsDir(ents[d][n])) = IF x = d /\ dinode[i].type = "DIR" THEN 1 ELSE 0
      BY <2>1, <2>2, <2>5 DEF One, IsDir
    <3> QED
      BY <2>4, <3>1, <3>2, <3>3
  <2>10. lock[d] = p /\ None \in Slot
    BY <1>2, <1>8, <2>1 DEF Slot
  <2>11. ents' = [ents EXCEPT ![d][n] = None] /\ up' = up /\ removed' = removed
    BY <1>4, <2>1
  <2>12. d = dp[p] /\ \A x \in Inums : x = d => Has(p, x)
    BY <2>1 DEF Has
  <2> HIDE DEF d, n, i
  <2>13. NameStep(p, d, n, None)
    BY <1>6, <2>1, <2>2, <2>4, <2>6, <2>7, <2>8, <2>9, <2>10, <2>11, <2>12 DEF NameStep
  <2> QED
    BY <1>22, <2>1, <2>10, <2>13, NameLinks
<1> QED
  BY <1>21, <1>22 DEF LinksKept

\* An inode for the new name
LEMMA CreateAllocs ==
    ASSUME BlocksInv, NEW p \in Procs, Create(p), Lookup(dp[p], Head(path[p])) = None
    PROVE  BlocksInv' /\ LinksKept
<1>1. At(p, "create")
  BY DEF Create
<1>2. /\ pc[p] = "create" /\ has[p] /\ puts[p] = <<>> /\ iputs[p] = "lock"
      /\ LocalTypes /\ CallInv(p)
      /\ \A x \in Inums : lock[x] = p <=> Holds(p, x)
  BY <1>1, AtIs
<1>3. /\ dp[p] \in Inums /\ ip[p] = None /\ cur[p] = None /\ Head(path[p]) \in Names
      /\ script[p] # <<>> /\ Min(FreeInodes) \in Inums /\ dinode[Min(FreeInodes)].type = "FREE"
      /\ NewType(p) \in {"FILE", "DIR", "DEV"}
  <2>1. AtName(p) /\ dp[p] \in Inums /\ cur[p] = None /\ ip[p] = None /\ script[p] # <<>>
    BY <1>2 DEF CallInv, Shape, InCall, LocalTypes, Slot
  <2>2. Head(path[p]) \in Names
    BY <2>1, NameIs, NotThere
  <2>3. FreeInodes # {} /\ FreeInodes \in SUBSET Nat
    BY DEF Create, FreeInodes, Inums
  <2>4. Min(FreeInodes) \in FreeInodes
    BY <2>3, MinIn
  <2>5. NewType(p) \in {"FILE", "DIR", "DEV"}
    BY <1>2 DEF NewType, CallInv, InCall, Creates
  <2> QED
    BY <2>1, <2>2, <2>4, <2>5 DEF FreeInodes
<1>4. /\ pc' = [pc EXCEPT ![p] = "new"] /\ has' = [has EXCEPT ![p] = FALSE]
      /\ ip' = [ip EXCEPT ![p] = Min(FreeInodes)] /\ Iget(Min(FreeInodes))
      /\ dinode' = [dinode EXCEPT ![Min(FreeInodes)] = [Free EXCEPT !.type = NewType(p)]]
      /\ UNCHANGED <<cwd, fd, script, path, cur, dp, puts, iputs, lock, ents, up, bitmap, copy, removed>>
  BY <1>2, <1>3 DEF Create, Go, To, Set, Iunlock, disk
<1>5. /\ pc'[p] = "new" /\ has'[p] = FALSE /\ ip'[p] = Min(FreeInodes)
  BY <1>2, <1>4 DEF LocalTypes
<1>6. Own(p)
  BY <1>2, <1>4, <1>5 DEF Own, LocalTypes
<1>7. OwnTypes(p)
  BY <1>2, <1>3, <1>4, <1>5 DEF OwnTypes, LocalTypes, Labels, Slot
<1>8. \A x \in Inums : Holds(p, x) <=> x = dp[p]
  BY <1>2, <1>3, FsAssumption DEF Holds, Target, None, Inums
<1>9. \A x \in Inums : Holds(p, x)' <=> x = dp[p]
  BY <1>2, <1>3, <1>4, <1>5, FsAssumption DEF Holds, Target, None, Inums
<1>10. CallInv(p)'
  BY <1>2, <1>3, <1>4, <1>5 DEF CallInv, Shape, AtName, InCall, Call, Creates, None, Inums
<1>11. Released(p, {})
  BY <1>2, <1>3, <1>4, <1>8 DEF Released, BlocksInv, TypesInv, DataTypes
<1>12. ASSUME NEW x \in Inums PROVE Count(p, x)' = Count(p, x) + Is(Min(FreeInodes), x)
  <2>1. Count(p, x) = Is(fd[p], x) + Is(cwd[p], x) + 0 + 0 + Is(dp[p], x) + 0
    BY <1>2, <1>3, IsNone, PutsCount DEF Count, OfHand, Cwd
  <2>2. Count(p, x)' = Is(fd[p], x) + Is(cwd[p], x) + 0 + Is(Min(FreeInodes), x) + Is(dp[p], x) + 0
    BY <1>2, <1>3, <1>4, <1>5, IsNone, PutsCount DEF Count, OfHand, Cwd
  <2> QED
    BY <2>1, <2>2, IsType
<1>13. RefsStep(p) /\ Fetched
  <2>1. ref' = [ref EXCEPT ![Min(FreeInodes)] = @ + 1]
    BY <1>4 DEF Iget
  <2> QED
    BY <1>3, <1>4, <1>12, <2>1, RefsUp, FetchedIget
<1>14. \A x \in Inums : Holds(p, x)' <=> Holds(p, x) /\ x \notin {}
  BY <1>3, <1>8, <1>9
<1>15. UNCHANGED <<ents, up, bitmap, copy>> /\ removed' \subseteq Inums /\ iputs'[p] = "lock"
  BY <1>2, <1>4 DEF BlocksInv, TypesInv, DataTypes
<1>16. Alloc(Min(FreeInodes), [Free EXCEPT !.type = NewType(p)])
  <2>1. /\ [Free EXCEPT !.type = NewType(p)] \in Inode
        /\ [Free EXCEPT !.type = NewType(p)].type # "FREE"
        /\ [Free EXCEPT !.type = NewType(p)].blk = None
    BY <1>3, FsAssumption DEF Free, Inode, None
  <2> QED
    BY <1>3, <1>4, <2>1, Zenon DEF Alloc
<1>17. BlocksInv'
  BY <1>2, <1>16, <1>6, <1>7, <1>8, <1>14, <1>10, <1>11, <1>13, <1>15, AllocStep
<1>18. ASSUME LinkInv, ParentsNamed PROVE LinkInv'
  <2>17. PICK i : i = Min(FreeInodes)
    OBVIOUS
  <2>1. /\ None \notin Inums /\ Root \in Inums /\ i \in Inums /\ dinode[i].type = "FREE"
        /\ dp[p] \in Inums /\ DirsInv
    BY <1>18, <1>3, <2>17, FsAssumption DEF None, Root, Inums, LinkInv
  <2>2. dinode[i].nlink = 0
    BY <2>1 DEF BlocksInv, CacheInv, Free
  <2>3. \A q \in Procs : ~Has(q, i)
    BY <1>18, <2>1 DEF LinkInv, UsedInv
  <2>4. \A a \in Inums, m \in Names : ents[a][m] # i /\ ents[i][m] = None
    BY <2>1 DEF DirsInv
  <2>5. Empty(i)
    <3>1. ents[i] \in [Names -> Slot]
      BY <2>1 DEF BlocksInv, TypesInv, DataTypes
    <3> QED
      BY <2>1, <2>4, <3>1 DEF Empty, NoEntries
  <2>6. /\ dinode'[i].type = NewType(p) /\ dinode'[i].type # "FREE" /\ dinode'[i].nlink = 0
        /\ \A x \in Inums : x # i => dinode'[x] = dinode[x]
    <3>1. dinode' = [dinode EXCEPT ![i] = [Free EXCEPT !.type = NewType(p)]]
      BY <1>4, <2>17
    <3>2. [Free EXCEPT !.type = NewType(p)].type = NewType(p) /\ [Free EXCEPT !.type = NewType(p)].nlink = 0
      BY DEF Free
    <3> QED
      BY <1>3, <2>1, <3>1, <3>2 DEF BlocksInv, TypesInv, DataTypes
  <2>7. ip'[p] = i /\ pc'[p] = "new" /\ UNCHANGED <<cwd, fd, script, path, cur, dp, puts, iputs, ents, up, removed>>
    BY <1>4, <1>5, <2>17
  <2>8. \A x \in Inums : Has(p, x)' => Has(p, x) \/ x = i
    BY <1>2, <2>7 DEF Has, Cwd
  <2>9. \A x \in Inums : ~Owes(p, x) /\ ~Owes(p, x)'
    <3>1. ~Second(p)'
      BY <1>2, <2>7 DEF Second, Call, CallInv, InCall, Creates
    <3>2. ip[p] = None
      BY <1>3
    <3> QED
      BY <2>1, <2>7, <3>1, <3>2 DEF Owes
  <2>10. Alone(p)
    BY <1>6, <2>2, <2>3, <2>6, <2>7, <2>8, <2>1 DEF Alone, Sole
  <2>11. \A q \in Procs \ {p} : UsedInv(q)' /\ PlacesInv(q)'
    BY <1>18, <2>10, OthersLinks
  <2>12. UsedInv(p)'
    BY <1>18, <2>6, <2>8 DEF UsedInv, LinkInv
  <2>13. PlacesInv(p)'
    <3>1. dinode'[dp[p]].type = "DIR" /\ dp[p] # i
      BY <1>18, <2>1, <2>6 DEF LinkInv, PlacesInv
    <3>2. Second(p)' <=> FALSE
      BY <1>2, <2>7 DEF Second, Call, CallInv, InCall, Creates
    <3>3. NewType(p)' = NewType(p)
      BY <2>7 DEF NewType, Call
    <3>4. ents[dp[p]][Head(path[p])] = None
      BY <1>3, FsAssumption DEF Lookup
    <3>5. \A q \in Procs \ {p} : ~Has(q, i)'
      BY <1>2, <1>6, <2>3, HasSame
    <3>6. Sole(p, ip[p])'
      BY <2>7, <3>5 DEF Sole
    <3>7. Empty(ip[p])'
      BY <2>5, <2>7 DEF Empty
    <3>8. iputs'[p] = "lock" /\ pc'[p] = "new" /\ ip'[p] = i /\ dp'[p] = dp[p] /\ path'[p] = path[p] /\ ents' = ents
      BY <1>2, <2>7
    <3>9. /\ dinode'[ip'[p]].type = NewType(p)' /\ dinode'[ip'[p]].nlink = 0
          /\ ents'[dp'[p]][Head(path'[p])] = None /\ ip'[p] # dp'[p]
      BY <2>6, <3>1, <3>3, <3>4, <3>8
    <3> QED
      BY <3>1, <3>2, <3>6, <3>7, <3>8, <3>9 DEF PlacesInv
  <2>14. CountInv'
    <3> SUFFICES ASSUME NEW x \in Inums, dinode'[x].type # "FREE"
                 PROVE  /\ dinode'[x].nlink >= LinksOf(x)'
                        /\ x \notin removed' => dinode'[x].nlink = LinksOf(x)'
      BY DEF CountInv
    <3>1. EntriesOf(x)' = EntriesOf(x)
      BY <2>7 DEF EntriesOf
    <3>2. Subdirs(x)' = Subdirs(x)
      <4>1. ASSUME NEW m \in Names PROVE m \in Subdirs(x)' <=> m \in Subdirs(x)
        <5>1. ents'[x][m] = ents[x][m] /\ ents[x][m] \in Slot
          BY <2>7 DEF BlocksInv, TypesInv, DataTypes
        <5>2. ents[x][m] # None => dinode'[ents[x][m]] = dinode[ents[x][m]]
          BY <2>4, <2>6, <5>1 DEF Slot
        <5> QED
          BY <5>1, <5>2 DEF Subdirs
      <4> QED
        BY <4>1 DEF Subdirs
    <3>3. Pending(x)' = Pending(x)
      <4>1. ASSUME NEW q PROVE q \in Pending(x)' <=> q \in Pending(x)
        <5>1. CASE q = p
          BY <5>1, <2>9, PendingIs, PendingNext
        <5>2. CASE q # p
          BY <5>2, <1>2, <1>6, HasSame, PendingIs, PendingNext
        <5> QED
          BY <5>1, <5>2
      <4> QED
        BY <4>1
    <3>4. LinksOf(x)' = LinksOf(x)
      BY <3>1, <3>2, <3>3 DEF LinksOf
    <3>5. CASE x # i
      BY <1>18, <2>6, <2>7, <3>4, <3>5 DEF LinkInv, CountInv
    <3>6. CASE x = i
      <4>1. EntriesOf(i) = {} /\ Subdirs(i) = {} /\ i # Root
        BY <2>1, <2>4 DEF EntriesOf, Subdirs, DirsInv
      <4>2. Pending(i) = {}
        BY <2>3 DEF Pending, Has
      <4>3. LinksOf(i) = 0
        BY <4>1, <4>2, FS_EmptySet DEF LinksOf
      <4> QED
        BY <2>6, <3>4, <3>6, <4>3
    <3> QED
      BY <3>5, <3>6
  <2>15. DirsInv'
    <3>1. dinode'[Root].type = "DIR"
      BY <2>1, <2>6 DEF DirsInv
    <3>2. ASSUME NEW a \in Inums, NEW m \in Names, ents[a][m] # None
          PROVE  /\ dinode'[a].type = "DIR" /\ dinode'[ents[a][m]].type # "FREE"
                 /\ dinode'[ents[a][m]].type = "DIR" => up[ents[a][m]] = a
                 /\ \A k \in Names : ents[ents[a][m]][k] # a
      <4>1. ents[a][m] \in Inums /\ ents[a][m] # i /\ a # i
        BY <2>4, <3>2 DEF BlocksInv, TypesInv, DataTypes, Slot
      <4>2. dinode'[a] = dinode[a] /\ dinode'[ents[a][m]] = dinode[ents[a][m]]
        BY <2>6, <4>1
      <4> QED
        BY <2>1, <3>2, <4>2 DEF DirsInv
    <3> QED
      BY <2>7, <3>1, <3>2 DEF DirsInv
  <2>16. NamesInv'
    <3>1. \A x : Named(x)' <=> Named(x)
      BY <2>7 DEF Named, EntriesOf
    <3>2. ASSUME NEW a \in Inums, NEW m \in Names, dinode'[a].type = "DIR", ~Named(a), ents[a][m] # None
          PROVE  ents[a][m] \in removed /\ ents[ents[a][m]] = NoEntries
      <4>1. a # i
        BY <2>4, <3>2
      <4>2. dinode[a].type = "DIR"
        BY <2>6, <3>2, <4>1
      <4> QED
        BY <1>18, <3>2, <4>2 DEF LinkInv, NamesInv, Empty
    <3> QED
      BY <2>7, <3>1, <3>2 DEF NamesInv, Empty
  <2> QED
    BY <2>11, <2>12, <2>13, <2>14, <2>15, <2>16 DEF LinkInv
<1> QED
  BY <1>17, <1>18 DEF LinksKept

\* What create writes
FirstBlock(p) == IF Call(p).op = "mkdir" THEN Block(ip[p], bitmap) ELSE copy[ip[p]].blk
ParentBlock(p) == Block(dp[p], bitmap \cup {FirstBlock(p)})
NewInode(p) == [copy[ip[p]] EXCEPT !.nlink = 1, !.mode = Bits, !.blk = FirstBlock(p)]
NewParent(p) == [copy[dp[p]] EXCEPT !.nlink = @ + (IF Call(p).op = "mkdir" THEN 1 ELSE 0), !.blk = ParentBlock(p)]
Created(p) == [j \in {ip[p], dp[p]} |-> IF j = ip[p] THEN NewInode(p) ELSE NewParent(p)]

LEMMA BlockNumbers == /\ NBLOCKS \in Nat /\ None \in 0..NBLOCKS /\ None \notin 1..NBLOCKS
                      /\ 1..NBLOCKS \subseteq 0..NBLOCKS
                      /\ \A b \in 0..NBLOCKS : b # None => b \in 1..NBLOCKS
<1>1. NBLOCKS \in Nat
  BY FsAssumption
<1> QED
  BY <1>1 DEF None

LEMMA InodeExcept ==
    ASSUME NEW r \in Inode
    PROVE  /\ \A n \in Int : [r EXCEPT !.nlink = n] \in Inode
           /\ \A m \in SUBSET Bits : [r EXCEPT !.mode = m] \in Inode
           /\ \A b \in 0..NBLOCKS : [r EXCEPT !.blk = b] \in Inode
  BY DEF Inode

\* create writes the new inode and its parent, which may each get a block.
LEMMA TwoBlocks ==
    ASSUME BlocksInv, NEW p \in Procs, ip[p] \in Inums, dp[p] \in Inums, ip[p] # dp[p],
           copy[ip[p]] = dinode[ip[p]], copy[dp[p]] = dinode[dp[p]],
           \/ /\ FirstBlock(p) = Block(ip[p], bitmap)
              /\ Cardinality(FreeBlocks) >= NewBlocks(dp[p]) + NewBlocks(ip[p])
           \/ /\ FirstBlock(p) = copy[ip[p]].blk
              /\ Cardinality(FreeBlocks) >= NewBlocks(dp[p]),
           NewInode(p).blk = FirstBlock(p), NewParent(p).blk = ParentBlock(p),
           dinode' = [x \in Inums |-> IF x = ip[p] THEN NewInode(p)
                                      ELSE IF x = dp[p] THEN NewParent(p) ELSE dinode[x]],
           bitmap' = bitmap \cup ({FirstBlock(p), ParentBlock(p)} \ {None})
    PROVE  /\ BlocksOnce' /\ bitmap' \subseteq 1..NBLOCKS
           /\ FirstBlock(p) \in 0..NBLOCKS /\ ParentBlock(p) \in 1..NBLOCKS
<1>1. PICK i, d, b, c, v, w :
         /\ i = ip[p] /\ d = dp[p] /\ b = FirstBlock(p) /\ c = ParentBlock(p)
         /\ v = NewInode(p) /\ w = NewParent(p)
  OBVIOUS
<1>2. i \in Inums /\ d \in Inums /\ i # d /\ copy[i] = dinode[i] /\ copy[d] = dinode[d]
  BY <1>1
<1>3. \/ b = Block(i, bitmap) /\ Cardinality(FreeBlocks) >= NewBlocks(d) + NewBlocks(i)
      \/ b = copy[i].blk /\ Cardinality(FreeBlocks) >= NewBlocks(d)
  BY <1>1
<1>4. c = Block(d, bitmap \cup {b})
  BY <1>1 DEF ParentBlock
<1>5. /\ v.blk = b /\ w.blk = c
      /\ dinode' = [x \in Inums |-> IF x = i THEN v ELSE IF x = d THEN w ELSE dinode[x]]
  BY <1>1
<1>6. bitmap' = bitmap \cup ({b, c} \ {None})
  BY <1>1
<1> DEFINE g == [Blocks EXCEPT ![i] = b]
           used == bitmap \cup ({b} \ {None})
<1>7. /\ Blocks \in [Inums -> 0..NBLOCKS] /\ bitmap \subseteq 1..NBLOCKS
      /\ OnceFor(Blocks, bitmap) /\ Blocks[i] = dinode[i].blk /\ Blocks[d] = dinode[d].blk
  BY <1>2, BlocksType
<1>8. ASSUME b = Blocks[i]
      PROVE  /\ OnceFor(g, used) /\ g \in [Inums -> 0..NBLOCKS] /\ b \in 0..NBLOCKS
             /\ used = bitmap
  <2>1. g = Blocks
    BY <1>2, <1>7, <1>8
  <2>2. used = bitmap
    BY <1>2, <1>7, <1>8 DEF OnceFor
  <2> QED
    BY <1>2, <1>7, <1>8, <2>1, <2>2
<1>9. ASSUME b # Blocks[i]
      PROVE  /\ Blocks[i] = None /\ b = Min(1..NBLOCKS \ bitmap)
             /\ Cardinality(FreeBlocks) >= NewBlocks(d) + 1
  BY <1>2, <1>3, <1>7, <1>9 DEF Block, NewBlocks
<1>10. ASSUME b # Blocks[i]
      PROVE  /\ OnceFor(g, used) /\ g \in [Inums -> 0..NBLOCKS] /\ b \in 0..NBLOCKS
             /\ b \in 1..NBLOCKS /\ used = bitmap \cup {b}
  <2>1. Cardinality(1..NBLOCKS \ bitmap) >= 1
    <3>1. NewBlocks(d) \in {0, 1}
      BY DEF NewBlocks
    <3>2. Cardinality(FreeBlocks) >= 1
      <4>1. IsFiniteSet(FreeBlocks)
        <5>1. 1 \in Int /\ NBLOCKS \in Int
          BY FsAssumption
        <5> QED
          BY <5>1, FS_Interval, FS_Subset DEF FreeBlocks
      <4>2. Cardinality(FreeBlocks) \in Nat
        BY <4>1, FS_CardinalityType
      <4> QED
        BY <1>9, <1>10, <3>1, <4>2
    <3> QED
      BY <3>2 DEF FreeBlocks
  <2>2. Min(1..NBLOCKS \ bitmap) \in 1..NBLOCKS \ bitmap
    BY <1>7, <2>1, SomeFree
  <2>3. Blocks[i] = None /\ b \in 1..NBLOCKS /\ b \notin bitmap
    BY <1>9, <1>10, <2>2
  <2>4. OnceFor(g, bitmap \cup {b}) /\ g \in [Inums -> 0..NBLOCKS]
    BY <1>2, <1>7, <2>3, GrowBlock
  <2>5. b # None
    BY <2>3, FsAssumption DEF None
  <2>6. used = bitmap \cup {b}
    BY <2>5
  <2> QED
    BY <2>3, <2>4, <2>6, BlockNumbers
<1>11. OnceFor(g, used) /\ g \in [Inums -> 0..NBLOCKS] /\ b \in 0..NBLOCKS
  BY <1>8, <1>10
<1>12. g[d] = dinode[d].blk
  BY <1>2, <1>7
<1>13. \/ g[d] # None /\ c = g[d]
       \/ g[d] = None /\ c \in 1..NBLOCKS /\ c \notin used
  <2>1. CASE g[d] # None
    <3>1. copy[d].blk # None /\ copy[d].blk = g[d]
      BY <1>2, <1>12, <2>1
    <3>2. Block(d, bitmap \cup {b}) = copy[d].blk
      BY <3>1 DEF Block
    <3>3. c = g[d]
      BY <1>4, <3>1, <3>2, Zenon
    <3> QED
      BY <2>1, <3>3
  <2>2. CASE g[d] = None
    <3>1. c = Min(1..NBLOCKS \ (bitmap \cup {b})) /\ NewBlocks(d) = 1
      BY <1>2, <1>4, <1>12, <2>2 DEF Block, NewBlocks
    <3>2. c \in 1..NBLOCKS \ (bitmap \cup {b})
      <4>1. CASE b = Blocks[i]
        <5>1. 1..NBLOCKS \ (bitmap \cup {b}) = 1..NBLOCKS \ bitmap
          BY <1>2, <4>1, <1>7 DEF OnceFor, None
        <5>2. Cardinality(1..NBLOCKS \ bitmap) >= 1
          <6>1. NewBlocks(i) \in {0, 1} /\ NewBlocks(d) = 1
            BY <3>1 DEF NewBlocks
          <6>2. IsFiniteSet(FreeBlocks)
            <7>1. 1 \in Int /\ NBLOCKS \in Int
              BY FsAssumption
            <7> QED
              BY <7>1, FS_Interval, FS_Subset DEF FreeBlocks
          <6>3. Cardinality(FreeBlocks) \in Nat
            BY <6>2, FS_CardinalityType
          <6> QED
            BY <1>3, <6>1, <6>3 DEF FreeBlocks
        <5>3. Min(1..NBLOCKS \ bitmap) \in 1..NBLOCKS \ bitmap
          BY <1>7, <5>2, SomeFree
        <5> QED
          BY <3>1, <5>1, <5>3
      <4>2. CASE b # Blocks[i]
        <5>1. Cardinality(1..NBLOCKS \ bitmap) >= 2
          BY <1>9, <3>1, <4>2 DEF FreeBlocks
        <5>2. Min(1..NBLOCKS \ (bitmap \cup {b})) \in 1..NBLOCKS \ (bitmap \cup {b})
          BY <1>7, <5>1, MoreFree
        <5> QED
          BY <3>1, <5>2
      <4> QED
        BY <4>1, <4>2
    <3> QED
      BY <2>2, <3>2
  <2> QED
    BY <2>1, <2>2
<1>14. Blocks' = [g EXCEPT ![d] = c]
  BY <1>2, <1>5 DEF Blocks
<1> HIDE DEF g, used
<1>15. OnceFor([g EXCEPT ![d] = c], used \cup {c}) /\ c \in 1..NBLOCKS
  BY <1>2, <1>11, <1>13, GrowBlock
<1>16. bitmap' = used \cup {c}
  BY <1>6, <1>15, FsAssumption DEF used, None
<1>17. BlocksOnce'
  BY <1>14, <1>15, <1>16, OnceNextIs
<1>18. bitmap' \subseteq 1..NBLOCKS
  BY <1>6, <1>7, <1>11, <1>15, BlockNumbers
<1> QED
  BY <1>1, <1>11, <1>15, <1>17, <1>18

\* The new name and its inode
LEMMA CreateNewNext ==
    ASSUME BlocksInv, NEW p \in Procs, CreateNew(p)
    PROVE  BlocksInv' /\ LinksKept
<1>1. At(p, "new")
  BY DEF CreateNew
<1>2. /\ pc[p] = "new" /\ has[p] /\ puts[p] = <<>> /\ iputs[p] = "lock"
      /\ LocalTypes /\ CallInv(p)
      /\ \A x \in Inums : lock[x] = p <=> Holds(p, x)
  BY <1>1, AtIs
<1>3. /\ dp[p] \in Inums /\ ip[p] \in Inums /\ cur[p] = None /\ ip[p] # dp[p] /\ script[p] # <<>>
      /\ Head(path[p]) \in Names /\ Call(p).op \in Creates
  BY <1>2, CallIs DEF CallInv, Shape, InCall, LocalTypes, Slot
<1>4. /\ pc' = [pc EXCEPT ![p] = (IF Call(p).op = "create" THEN "open" ELSE "made")]
      /\ has' = [has EXCEPT ![p] = TRUE] /\ dp' = [dp EXCEPT ![p] = None] /\ Put(p, <<dp[p]>>)
      /\ lock' = [lock EXCEPT ![dp[p]] = NoProc] /\ Iupdate(Created(p))
      /\ Cardinality(FreeBlocks) >= BlocksToMake(p)
      /\ bitmap' = bitmap \cup ({FirstBlock(p), ParentBlock(p)} \ {None})
      /\ ents' = [ents EXCEPT ![dp[p]][Head(path[p])] = ip[p]]
      /\ up' = [up EXCEPT ![ip[p]] = IF Call(p).op = "mkdir" THEN dp[p] ELSE @]
      /\ removed' = IF Named(dp[p]) THEN removed ELSE removed \cup {ip[p]}
      /\ UNCHANGED <<cwd, fd, script, path, cur, ip, iputs, valid, ref>>
  BY <1>2, <1>3 DEF CreateNew, PutParent, To, Set, Iunlock, disk, user,
         Created, NewInode, NewParent, FirstBlock, ParentBlock
<1>5. /\ puts'[p] = <<dp[p]>> /\ puts' = [puts EXCEPT ![p] = puts'[p]]
      /\ pc'[p] = (IF Call(p).op = "create" THEN "open" ELSE "made") /\ has'[p] = TRUE
      /\ dp'[p] = None
  <2>1. <<dp[p]>> \in Seq(Inums)
    BY <1>3, <1>2
  <2>2. puts'[p] = <<dp[p]>> /\ puts' = [puts EXCEPT ![p] = puts'[p]]
    BY <1>2, <1>4, <2>1, PutIs
  <2> QED
    BY <1>2, <1>4, <2>2 DEF LocalTypes
<1>6. Own(p)
  BY <1>2, <1>4, <1>5 DEF Own, LocalTypes
<1>7. OwnTypes(p)
  BY <1>2, <1>3, <1>4, <1>5 DEF OwnTypes, LocalTypes, Labels, Slot
<1>8. \A x \in Inums : Holds(p, x) <=> x \in {ip[p], dp[p]}
  BY <1>2, <1>3, FsAssumption DEF Holds, Target, None, Inums
<1>9. \A x \in Inums : Holds(p, x)' <=> x = ip[p]
  BY <1>2, <1>3, <1>4, <1>5, FsAssumption DEF Holds, Target, None, Inums
<1>10. CallInv(p)'
  BY <1>2, <1>3, <1>4, <1>5 DEF CallInv, Shape, AtName, InCall, Call, Creates, None, Inums
<1>11. Released(p, {dp[p]})
  BY <1>2, <1>3, <1>4, <1>8 DEF Released, BlocksInv, TypesInv, DataTypes
<1>12. ASSUME NEW x \in Inums PROVE Count(p, x)' = Count(p, x)
  <2>1. Count(p, x) = Is(fd[p], x) + Is(cwd[p], x) + 0 + Is(ip[p], x) + Is(dp[p], x) + 0
    BY <1>2, <1>3, IsNone, PutsCount DEF Count, OfHand, Cwd
  <2>2. Count(p, x)' = Is(fd[p], x) + Is(cwd[p], x) + 0 + Is(ip[p], x) + 0 + Is(dp[p], x)
    BY <1>2, <1>3, <1>4, <1>5, IsNone, PutsCount DEF Count, OfHand, Cwd
  <2> QED
    BY <2>1, <2>2, IsType
<1>13. RefsStep(p) /\ Fetched
  BY <1>4, <1>12, RefsSame, FetchedSame
<1>14. \A x \in Inums : Holds(p, x)' <=> Holds(p, x) /\ x \notin {dp[p]}
  BY <1>3, <1>8, <1>9
<1>15. copy[ip[p]] = dinode[ip[p]] /\ copy[ip[p]] \in Inode /\ copy[ip[p]].type # "FREE"
  <2>1. lock[ip[p]] = p
    BY <1>2, <1>3, <1>8
  <2> QED
    BY <1>2, <1>3, <2>1, OwnInode
<1>16. copy[dp[p]] = dinode[dp[p]] /\ copy[dp[p]] \in Inode /\ copy[dp[p]].type # "FREE"
  <2>1. lock[dp[p]] = p
    BY <1>2, <1>3, <1>8
  <2> QED
    BY <1>2, <1>3, <2>1, OwnInode
<1>17. /\ NewInode(p).blk = FirstBlock(p) /\ NewParent(p).blk = ParentBlock(p)
       /\ NewInode(p).type = copy[ip[p]].type /\ NewParent(p).type = copy[dp[p]].type
  BY <1>15, <1>16 DEF NewInode, NewParent, Inode
<1>18. dinode' = [x \in Inums |-> IF x = ip[p] THEN NewInode(p)
                                 ELSE IF x = dp[p] THEN NewParent(p) ELSE dinode[x]]
  BY <1>3, <1>4 DEF Iupdate, Created
<1>19. \/ FirstBlock(p) = Block(ip[p], bitmap) /\ Cardinality(FreeBlocks) >= NewBlocks(dp[p]) + NewBlocks(ip[p])
       \/ FirstBlock(p) = copy[ip[p]].blk /\ Cardinality(FreeBlocks) >= NewBlocks(dp[p])
  <2>1. CASE Call(p).op = "mkdir"
    <3>1. BlocksToMake(p) = NewBlocks(dp[p]) + NewBlocks(ip[p])
      BY <2>1 DEF BlocksToMake
    <3>2. Cardinality(FreeBlocks) >= BlocksToMake(p)
      BY <1>4
    <3>3. FirstBlock(p) = Block(ip[p], bitmap)
      BY <2>1 DEF FirstBlock
    <3>4. Cardinality(FreeBlocks) >= NewBlocks(dp[p]) + NewBlocks(ip[p])
      BY <3>1, <3>2
    <3> QED
      BY <3>3, <3>4
  <2>2. CASE Call(p).op # "mkdir"
    <3>1. NewBlocks(dp[p]) \in {0, 1} /\ BlocksToMake(p) = NewBlocks(dp[p]) + 0
      BY <2>2 DEF NewBlocks, BlocksToMake
    <3>2. BlocksToMake(p) = NewBlocks(dp[p])
      BY <3>1
    <3> QED
      BY <1>4, <2>2, <3>2 DEF FirstBlock
  <2> QED
    BY <2>1, <2>2
<1>20. BlocksOnce' /\ bitmap' \subseteq 1..NBLOCKS /\ FirstBlock(p) \in 0..NBLOCKS /\ ParentBlock(p) \in 1..NBLOCKS
  BY <1>3, <1>4, <1>15, <1>16, <1>17, <1>18, <1>19, TwoBlocks DEF ParentBlock
<1>21. NewInode(p) \in Inode /\ NewParent(p) \in Inode
  <2>1. copy[dp[p]].nlink + (IF Call(p).op = "mkdir" THEN 1 ELSE 0) \in Int
    BY <1>16 DEF Inode
  <2>2. NewInode(p) \in Inode
    <3>1. [copy[ip[p]] EXCEPT !.nlink = 1] \in Inode
      BY <1>15, InodeExcept
    <3>2. [[copy[ip[p]] EXCEPT !.nlink = 1] EXCEPT !.mode = Bits] \in Inode
      BY <3>1, InodeExcept
    <3> QED
      BY <1>20, <3>2, InodeExcept DEF NewInode
  <2>3. NewParent(p) \in Inode
    <3>1. [copy[dp[p]] EXCEPT !.nlink = @ + (IF Call(p).op = "mkdir" THEN 1 ELSE 0)] \in Inode
      BY <1>16, <2>1, InodeExcept
    <3>2. ParentBlock(p) \in 0..NBLOCKS
      BY <1>20, BlockNumbers
    <3> QED
      BY <3>1, <3>2, InodeExcept DEF NewParent
  <2> QED
    BY <2>2, <2>3
<1>22. /\ DOMAIN Created(p) \subseteq Inums
       /\ \A x \in DOMAIN Created(p) : Created(p)[x] \in Inode /\ Created(p)[x].type # "FREE"
  BY <1>3, <1>15, <1>16, <1>17, <1>21 DEF Created
<1>23. /\ ents' \in [Inums -> [Names -> Slot]] /\ up' \in [Inums -> Inums]
       /\ removed' \subseteq Inums /\ iputs'[p] = "lock"
  BY <1>2, <1>3, <1>4 DEF BlocksInv, TypesInv, DataTypes, Slot
<1>24. BlocksInv'
  BY <1>2, <1>6, <1>7, <1>14, <1>10, <1>11, <1>13, <1>4, <1>22, <1>23, <1>20, UpdateStep
<1>25. ASSUME LinkInv, ParentsNamed PROVE LinkInv'
  <2> DEFINE d == dp[p]
             n == Head(path[p])
             i == ip[p]
             more == IF Call(p).op = "mkdir" THEN 1 ELSE 0
  <2>1. None \notin Inums /\ d \in Inums /\ n \in Names /\ i \in Inums /\ i # d
    BY <1>3, FsAssumption DEF None, Inums
  <2>2. /\ dinode[i].type = NewType(p) /\ dinode[i].nlink = 0 /\ Empty(i)
        /\ ents[d][n] = None
    BY <1>25, <1>2 DEF LinkInv, PlacesInv
  <2>3. EntriesOf(i) = {}
    BY <1>25, <1>15, <2>1, <2>2, NoLinks
  <2>4. dinode[i].type = "DIR" <=> Call(p).op = "mkdir"
    BY <1>3, <2>2 DEF NewType, Creates
  <2>5. ASSUME NEW x \in Inums
        PROVE  /\ dinode'[x].type = dinode[x].type
               /\ dinode'[x].nlink = IF x = i THEN 1 ELSE IF x = d THEN dinode[x].nlink + more ELSE dinode[x].nlink
    <3>1. NewInode(p).nlink = 1 /\ NewParent(p).nlink = copy[d].nlink + more
      BY <1>15, <1>16 DEF NewInode, NewParent, Inode
    <3> QED
      BY <1>15, <1>16, <1>17, <1>18, <2>1, <3>1
  <2>6. \A x \in Inums : ~Owes(p, x) /\ ~Owes(p, x)'
    <3>1. ~Second(p) /\ ~Second(p)'
      BY <1>3, <1>4 DEF Second, Call, Creates
    <3> QED
      BY <1>2, <1>5, <3>1 DEF Owes
  <2>7. \A x \in Inums : Has(p, x)' => Has(p, x)
    BY <1>2, <1>3, <1>4, <1>5 DEF Has, Cwd
  <2>8. PlacesInv(p)'
    <3>1. Second(p)' <=> FALSE
      BY <1>3, <1>4 DEF Second, Call, Creates
    <3> QED
      BY <1>2, <1>4, <1>5, <1>23, <3>1 DEF PlacesInv
  <2>9. ASSUME NEW x \in Inums
        PROVE  /\ dinode'[x].nlink \in Int
               /\ dinode'[x].nlink + One(ents[d][n] = x) + One(x = d /\ IsDir(ents[d][n])) + One(Owes(p, x))
                    = dinode[x].nlink + One(i = x) + One(x = d /\ IsDir(i)) + One(Owes(p, x)')
    <3>1. dinode[x].nlink \in Int /\ more \in Int
      BY DEF BlocksInv, TypesInv, DataTypes, Inode
    <3>2. /\ One(ents[d][n] = x) = 0 /\ One(x = d /\ IsDir(ents[d][n])) = 0
          /\ One(Owes(p, x)) = 0 /\ One(Owes(p, x)') = 0
      BY <2>1, <2>2, <2>6 DEF One, IsDir
    <3>3. One(i = x) = (IF x = i THEN 1 ELSE 0) /\ One(x = d /\ IsDir(i)) = (IF x = d THEN more ELSE 0)
      BY <2>1, <2>4 DEF One, IsDir
    <3>4. dinode'[x].nlink = dinode[x].nlink + One(i = x) + One(x = d /\ IsDir(i))
      BY <2>1, <2>2, <2>5, <3>1, <3>3
    <3> QED
      BY <2>5, <3>1, <3>2, <3>3, <3>4
  <2>10. lock[d] = p /\ i \in Slot /\ Has(p, i) /\ Has(p, d)
    BY <1>2, <1>8, <2>1 DEF Slot, Has
  <2>11. /\ ents' = [ents EXCEPT ![d][n] = i]
         /\ removed' = IF i = None \/ Named(d) THEN removed ELSE removed \cup {i}
    BY <1>4, <2>1
  <2>12. d = dp[p]
    OBVIOUS
  <2>13. /\ \A x \in Inums : up'[x] = up[x] \/ EntriesOf(x) = {}
         /\ dinode[i].type = "DIR" => up'[i] = d
    <3>1. up \in [Inums -> Inums]
      BY DEF BlocksInv, TypesInv, DataTypes
    <3> QED
      BY <1>4, <2>1, <2>3, <2>4, <3>1
  <2>14. \A x \in Inums : dinode'[x].nlink # dinode[x].nlink => Has(p, x)
    BY <2>5, <2>10
  <2> HIDE DEF d, n, i, more
  <2>15. NameStep(p, d, n, i)
    BY <1>6, <2>1, <2>2, <2>5, <2>7, <2>8, <2>9, <2>10, <2>11, <2>12, <2>13, <2>14 DEF NameStep
  <2> QED
    BY <1>25, <2>1, <2>10, <2>15, NameLinks
<1> QED
  BY <1>24, <1>25 DEF LinksKept

-----------------------------------------------------------------------------
(* ilock *)

LEMMA LockNext ==
    ASSUME BlocksInv, NEW p \in Procs, Lock(p)
    PROVE  BlocksInv' /\ LinksKept
<1>1. PICK i : i = Target(p)
  OBVIOUS
<1>2. /\ puts[p] = <<>> /\ i # None /\ ~has[p] /\ lock[i] = NoProc
      /\ valid[i] \/ dinode[i].type # "FREE"
      /\ lock' = [lock EXCEPT ![i] = p]
      /\ copy' = [copy EXCEPT ![i] = IF valid[i] THEN @ ELSE dinode[i]]
      /\ valid' = [valid EXCEPT ![i] = TRUE]
      /\ has' = [has EXCEPT ![p] = TRUE]
      /\ UNCHANGED <<dinode, ents, up, bitmap, ref, cwd, fd, script, pc, path, cur, ip, dp, puts, iputs, removed>>
  BY <1>1 DEF Lock, CanLock, NoType, Ilock, disk, user
<1>3. /\ LocalTypes /\ DataTypes /\ CallInv(p) /\ iputs[p] = "lock"
      /\ \A x \in Inums : lock[x] = p <=> Holds(p, x)
  BY <1>2 DEF BlocksInv, TypesInv, CallInv, LocksInv, Locks
<1>4. i \in Inums
  <2>1. i \in {cur[p], ip[p], dp[p], fd[p], None}
    BY <1>1, TargetIs
  <2>2. {cur[p], ip[p], dp[p], fd[p]} \subseteq Slot
    BY <1>3 DEF LocalTypes
  <2> QED
    BY <1>2, <2>1, <2>2 DEF Slot
<1>5. Target(p)' = i /\ pc[p] # "idle"
  BY <1>1, <1>2 DEF Target
<1>6. has'[p] = TRUE /\ Own(p)
  BY <1>2, <1>3 DEF Own, LocalTypes
<1>7. OwnTypes(p)
  BY <1>2, <1>3, <1>6 DEF OwnTypes, LocalTypes
<1>8. \A x \in Inums : Holds(p, x)' <=> Holds(p, x) \/ x = i
  BY <1>1, <1>2, <1>3, <1>5, <1>6 DEF Holds, CallInv
<1>9. pc[p] \in {"new", "unlinked"} => ip[p] # dp[p]
  <2> SUFFICES ASSUME pc[p] \in {"new", "unlinked"} PROVE ip[p] # dp[p]
    OBVIOUS
  <2>1. i = ip[p]
    BY <1>1 DEF Target
  <2>2. Holds(p, dp[p]) /\ dp[p] \in Inums
    BY <1>3 DEF Holds, CallInv, Shape, LocalTypes, Slot
  <2>3. lock[dp[p]] = p /\ p # NoProc
    BY <1>3, <2>2, FsAssumption
  <2> QED
    BY <1>2, <2>1, <2>3
<1>10. CallInv(p)'
  BY <1>2, <1>3, <1>5, <1>6, <1>9 DEF CallInv, Shape, AtName, InCall, Call, Creates
<1>11. LocksStep(p) /\ lock' \in [Inums -> Procs \cup {NoProc}]
  <2>1. ASSUME NEW x \in Inums PROVE lock'[x] = p <=> Locks(p, x)'
    <3>1. Locks(p, x)' <=> Holds(p, x) \/ x = i
      BY <1>2, <1>8 DEF Locks
    <3>2. lock'[x] = IF x = i THEN p ELSE lock[x]
      BY <1>2, <1>3 DEF DataTypes
    <3> QED
      BY <1>3, <3>1, <3>2
  <2>2. ASSUME NEW x \in Inums, NEW q \in Procs \ {p} PROVE lock'[x] = q <=> lock[x] = q
    BY <1>2, <1>3, FsAssumption DEF DataTypes
  <2>3. ASSUME NEW x \in Inums, lock'[x] # NoProc PROVE valid'[x]
    BY <1>2, <1>3, <2>3 DEF DataTypes, BlocksInv, LocksInv
  <2>4. lock' \in [Inums -> Procs \cup {NoProc}]
    BY <1>2, <1>3 DEF DataTypes
  <2> QED
    BY <2>1, <2>2, <2>3, <2>4 DEF LocksStep
<1>12. RefsStep(p)
  <2>1. ASSUME NEW x \in Inums PROVE Count(p, x)' = Count(p, x)
    BY <1>2 DEF Count, Cwd
  <2> QED
    BY <1>2, <2>1, RefsSame
<1>13. DataTypes'
  <2>1. copy' \in [Inums -> Inode] /\ valid' \in [Inums -> BOOLEAN]
    BY <1>2, <1>3, <1>4 DEF DataTypes
  <2> QED
    BY <1>2, <1>3, <1>11, <2>1 DEF DataTypes
<1>14. CacheInv'
  <2>1. ASSUME NEW x \in Inums, valid'[x], ref'[x] > 0, ~Freed(x)'
        PROVE  copy'[x] = dinode'[x] /\ dinode'[x].type # "FREE"
    <3>1. ~Freed(x) /\ ref[x] > 0
      BY <1>2, <2>1 DEF Freed
    <3>2. CASE valid[x]
      <4>1. copy'[x] = copy[x]
        BY <1>2, <1>3, <3>2 DEF DataTypes
      <4> QED
        BY <1>2, <3>1, <3>2, <4>1 DEF BlocksInv, CacheInv
    <3>3. CASE ~valid[x]
      <4>1. x = i
        BY <1>2, <1>3, <2>1, <3>3 DEF DataTypes
      <4> QED
        BY <1>2, <1>3, <1>4, <3>3, <4>1 DEF DataTypes
    <3> QED
      BY <3>2, <3>3
  <2>2. \A x \in Inums : dinode'[x].type = "FREE" => dinode'[x] = Free
    BY <1>2 DEF BlocksInv, CacheInv
  <2> QED
    BY <2>1, <2>2 DEF CacheInv
<1>15. BlocksOnce'
  BY <1>2 DEF BlocksInv, BlocksOnce
<1>16. Kept(p)
  BY <1>6, <1>7, <1>10, <1>11, <1>12 DEF Kept
<1>17. BlocksInv'
  BY <1>13, <1>14, <1>15, <1>16, KeptNext
<1>18. ASSUME LinkInv, ParentsNamed PROVE LinkInv'
  <2>1. \A x : (Has(p, x)' <=> Has(p, x)) /\ (Owes(p, x)' <=> Owes(p, x))
    BY <1>2 DEF Has, Cwd, Owes, Second, Call
  <2>2. \A x : Sole(p, x) => Sole(p, x)'
    BY <1>3, <1>6, HasSame DEF Sole
  <2>3. PlacesInv(p)'
    BY <1>18, <1>2, <2>2 DEF PlacesInv, LinkInv, Second, Call, NewType, Empty, Cwd, Sole
  <2> QED
    BY <1>18, <1>2, <1>6, <2>1, <2>3, QuietLinks
<1> QED
  BY <1>17, <1>18 DEF LinksKept

-----------------------------------------------------------------------------
(* iput *)

\* What another process has freed, or p and not just now, is still to be marked.
LEMMA FreedStays ==
    ASSUME BlocksInv, NEW p \in Procs, Own(p), NEW x, Freed(x),
           ~(puts[p] # <<>> /\ iputs[p] = "free2" /\ Head(puts[p]) = x)
    PROVE  Freed(x)'
<1>1. PICK q \in Procs : puts[q] # <<>> /\ iputs[q] = "free2" /\ Head(puts[q]) = x
  BY DEF Freed
<1>2. q \in Procs \ {p}
  BY <1>1
<1>3. puts'[q] = puts[q] /\ iputs'[q] = iputs[q]
  BY <1>2, OthersSame DEF BlocksInv, TypesInv
<1> QED
  BY <1>1, <1>3 DEF Freed

\* p has an inode to put.
LEMMA PuttingIs ==
    ASSUME BlocksInv, NEW p \in Procs, NEW l, Putting(p, l)
    PROVE  /\ puts[p] # <<>> /\ iputs[p] = l /\ Head(puts[p]) \in Inums
           /\ Tail(puts[p]) \in Seq(Inums) /\ Len(Tail(puts[p])) <= 1
           /\ LocalTypes /\ DataTypes /\ CallInv(p)
           /\ \A x \in Inums : lock[x] = p <=> Locks(p, x)
<1>1. /\ puts[p] # <<>> /\ iputs[p] = l /\ LocalTypes /\ DataTypes /\ CallInv(p)
      /\ \A x \in Inums : lock[x] = p <=> Locks(p, x)
  BY DEF Putting, BlocksInv, TypesInv, LocksInv
<1>2. puts[p] \in Seq(Inums) /\ Len(puts[p]) <= 2
  BY <1>1 DEF LocalTypes, CallInv
<1>3. /\ Head(puts[p]) \in Inums /\ Tail(puts[p]) \in Seq(Inums)
      /\ Len(Tail(puts[p])) = Len(puts[p]) - 1 /\ Len(puts[p]) \in Nat
  BY <1>1, <1>2
<1> QED
  BY <1>1, <1>2, <1>3

\* iput leaves the call as it is.
LEMMA IputOwn ==
    ASSUME BlocksInv, NEW p \in Procs, UNCHANGED <<user, local>>,
           NEW s \in Seq(Inums), NEW l \in {"lock", "free", "free2", "deref"},
           puts' = [puts EXCEPT ![p] = s], iputs' = [iputs EXCEPT ![p] = l],
           Len(s) <= 2, s = <<>> => l = "lock", s # <<>> /\ l \in {"free", "free2"} => ~Holds(p, Head(s))
    PROVE  /\ Own(p) /\ OwnTypes(p) /\ CallInv(p)'
           /\ \A x : Holds(p, x)' <=> Holds(p, x)
           /\ puts'[p] = s /\ iputs'[p] = l
<1>1. LocalTypes /\ CallInv(p)
  BY DEF BlocksInv, TypesInv
<1>2. puts'[p] = s /\ iputs'[p] = l
  BY <1>1 DEF LocalTypes
<1>3. UNCHANGED <<cwd, fd, script, pc, has, path, cur, ip, dp>>
  BY DEF user, local
<1>4. Own(p)
  BY <1>1, <1>2, <1>3 DEF Own, LocalTypes
<1>5. OwnTypes(p)
  BY <1>1, <1>2, <1>3 DEF OwnTypes, LocalTypes
<1>6. Target(p)' = Target(p)
  BY <1>3 DEF Target
<1>7. \A x : Holds(p, x)' <=> Holds(p, x)
  BY <1>3, <1>6 DEF Holds
<1>8. CallInv(p)'
  BY <1>1, <1>2, <1>3, <1>7, SMTT(60) DEF CallInv, Shape, AtName, InCall, Call
<1> QED
  BY <1>2, <1>4, <1>5, <1>7, <1>8

\* What p has to put and its locks in a step of iput that does not touch another inode
LEMMA IputKept ==
    ASSUME BlocksInv, NEW p \in Procs, puts[p] # <<>>, Own(p), OwnTypes(p), CallInv(p)',
           \A x : Holds(p, x)' <=> Holds(p, x),
           UNCHANGED <<ref, user, local, puts>>,
           NEW i, i = Head(puts[p]), i \in Inums,
           \A x \in Inums \ {i} : lock'[x] = lock[x] /\ valid'[x] = valid[x],
           lock'[i] = p <=> Locks(p, i)', \A q \in Procs \ {p} : lock'[i] = q <=> lock[i] = q,
           lock'[i] # NoProc => valid'[i]
    PROVE  Kept(p)
<1>1. UNCHANGED <<cwd, fd, script, pc, has, path, cur, ip, dp, puts>>
  BY DEF user, local
<1>2. RefsStep(p)
  <2>1. ASSUME NEW x \in Inums PROVE Count(p, x)' = Count(p, x)
    BY <1>1 DEF Count, Cwd
  <2> QED
    BY <2>1, RefsSame
<1>3. ASSUME NEW x \in Inums PROVE lock'[x] = p <=> Locks(p, x)'
  <2>1. CASE x = i
    BY <2>1
  <2>2. CASE x # i
    BY <2>2 DEF Locks, BlocksInv, LocksInv
  <2> QED
    BY <2>1, <2>2
<1>4. ASSUME NEW x \in Inums, NEW q \in Procs \ {p} PROVE lock'[x] = q <=> lock[x] = q
  <2>1. CASE x = i
    BY <2>1
  <2>2. CASE x # i
    BY <2>2
  <2> QED
    BY <2>1, <2>2
<1>5. ASSUME NEW x \in Inums, lock'[x] # NoProc PROVE valid'[x]
  BY <1>5 DEF BlocksInv, LocksInv
<1>6. LocksStep(p)
  BY <1>3, <1>4, <1>5 DEF LocksStep
<1> QED
  BY <1>2, <1>6 DEF Kept

LEMMA IputLockNext ==
    ASSUME BlocksInv, NEW p \in Procs, IputLock(p)
    PROVE  BlocksInv' /\ LinksKept
<1>1. PICK i : i = Head(puts[p])
  OBVIOUS
<1>2. Putting(p, "lock")
  BY DEF IputLock
<1>3. /\ puts[p] # <<>> /\ iputs[p] = "lock" /\ i \in Inums
      /\ LocalTypes /\ DataTypes /\ CallInv(p)
      /\ \A x \in Inums : lock[x] = p <=> Locks(p, x)
  BY <1>1, <1>2, PuttingIs
<1>4. PICK l \in {"free", "deref"} :
         /\ iputs' = [iputs EXCEPT ![p] = l]
         /\ l = "free" => valid[i] /\ lock' = [lock EXCEPT ![i] = p]
         /\ l = "deref" => UNCHANGED lock
  BY <1>1 DEF IputLock, Ilock
<1>5. /\ lock[i] = NoProc
      /\ UNCHANGED <<dinode, ents, up, bitmap, copy, valid, ref, user, local, puts, removed>>
  BY <1>1 DEF IputLock, disk
<1>6. ~Holds(p, i)
  BY <1>3, <1>5, FsAssumption DEF Locks
<1>7. puts' = [puts EXCEPT ![p] = puts[p]] /\ puts[p] \in Seq(Inums) /\ Len(puts[p]) <= 2
  BY <1>3, <1>5 DEF LocalTypes, CallInv
<1>8. l \in {"lock", "free", "free2", "deref"} /\ UNCHANGED <<user, local>>
  BY <1>5
<1>9. /\ Own(p) /\ OwnTypes(p) /\ CallInv(p)' /\ iputs'[p] = l
      /\ \A x : Holds(p, x)' <=> Holds(p, x)
  BY <1>1, <1>3, <1>4, <1>6, <1>7, <1>8, IputOwn
<1>10. /\ \A x \in Inums \ {i} : lock'[x] = lock[x] /\ valid'[x] = valid[x]
       /\ lock'[i] = IF l = "free" THEN p ELSE NoProc
       /\ lock' \in [Inums -> Procs \cup {NoProc}]
  <2>1. lock \in [Inums -> Procs \cup {NoProc}] /\ UNCHANGED valid
    BY <1>3, <1>5 DEF DataTypes
  <2>2. CASE l = "free"
    BY <1>3, <1>4, <2>1, <2>2
  <2>3. CASE l = "deref"
    BY <1>4, <1>5, <2>1, <2>3
  <2> QED
    BY <2>2, <2>3
<1>11. Locks(p, i)' <=> l = "free"
  BY <1>1, <1>3, <1>4, <1>5, <1>6, <1>9 DEF Locks
<1>12. Kept(p)
  <2>1. UNCHANGED <<ref, user, local, puts>>
    BY <1>5
  <2>2. /\ lock'[i] = p <=> Locks(p, i)'
        /\ \A q \in Procs \ {p} : lock'[i] = q <=> lock[i] = q
        /\ lock'[i] # NoProc => valid'[i]
    BY <1>4, <1>5, <1>10, <1>11, FsAssumption
  <2> QED
    BY <1>1, <1>3, <1>9, <1>10, <2>1, <2>2, IputKept
<1>13. DataTypes'
  BY <1>3, <1>5, <1>10 DEF DataTypes
<1>14. CacheInv'
  <2>1. \A x : Freed(x) => Freed(x)'
    BY <1>3, <1>9, FreedStays
  <2> QED
    BY <1>5, <2>1 DEF BlocksInv, CacheInv
<1>15. BlocksOnce'
  BY <1>5 DEF BlocksInv, BlocksOnce
<1>16. BlocksInv'
  BY <1>12, <1>13, <1>14, <1>15, KeptNext
<1>17. ASSUME LinkInv, ParentsNamed PROVE LinkInv'
  <2>1. UNCHANGED <<fd, cwd, cur, ip, dp, pc, script, path, puts, dinode, ents, up, removed>>
    BY <1>5 DEF user, local
  <2>2. \A x \in Inums : Has(p, x)' => Has(p, x)
    BY <1>3, <1>9, <2>1 DEF Has, Cwd
  <2>3. \A x : Owes(p, x)' <=> Owes(p, x)
    BY <2>1 DEF Owes, Second, Call
  <2>4. \A x : Sole(p, x) => Sole(p, x)'
    BY <1>3, <1>9, HasSame DEF Sole
  <2>5. ASSUME l = "free"
        PROVE  /\ dinode[i].nlink = 0 /\ Sole(p, i)
               /\ i \notin {fd[p], Cwd(p), cur[p], ip[p], dp[p]}
               /\ Len(puts[p]) >= 2 => puts[p][2] # i
    <3>1. valid[i] /\ copy[i].nlink = 0 /\ ref[i] = 1
      BY <1>1, <1>3, <1>4, <2>5 DEF IputLock, LastRef, LocalTypes
    <3>2. ~Freed(i)
      <4>1. ASSUME NEW q \in Procs, puts[q] # <<>>, iputs[q] = "free2", Head(puts[q]) = i PROVE FALSE
        <5>1. lock[i] = q
          BY <1>3, <4>1 DEF Locks, BlocksInv, LocksInv
        <5> QED
          BY <1>5, <5>1, FsAssumption
      <4> QED
        BY <4>1 DEF Freed
    <3>3. copy[i] = dinode[i]
      BY <1>3, <3>1, <3>2 DEF BlocksInv, CacheInv
    <3> QED
      BY <1>1, <1>3, <3>1, <3>3, SoleUser
  <2>6. PlacesInv(p)'
    <3>1. PlacesInv(p)
      BY <1>17 DEF LinkInv
    <3>2. /\ dp'[p] # None => dinode'[dp'[p]].type = "DIR"
          /\ ip'[p] # None /\ Second(p)' /\ pc'[p] # "link" => dinode'[ip'[p]].type # "DIR"
          /\ pc'[p] = "unlinked" => ents'[dp'[p]][Head(path'[p])] = ip'[p]
      BY <2>1, <3>1 DEF PlacesInv, Second, Call
    <3>3. pc'[p] = "new" => /\ dinode'[ip'[p]].type = NewType(p)' /\ dinode'[ip'[p]].nlink = 0
                            /\ Empty(ip[p])' /\ ents'[dp'[p]][Head(path'[p])] = None
                            /\ Sole(p, ip[p])' /\ ip'[p] # dp'[p]
      BY <2>1, <2>4, <3>1 DEF PlacesInv, NewType, Call, Empty
    <3>4. puts'[p] # <<>> /\ iputs'[p] = "free" =>
             /\ dinode'[Head(puts'[p])].nlink = 0 /\ Sole(p, Head(puts[p]))'
             /\ Head(puts'[p]) \notin {fd'[p], Cwd(p)', cur'[p], ip'[p], dp'[p]}
             /\ Len(puts'[p]) >= 2 => puts'[p][2] # Head(puts'[p])
      <4>1. Cwd(p)' = Cwd(p) /\ (iputs'[p] = "free" => l = "free")
        BY <1>9, <2>1 DEF Cwd
      <4>2. Sole(p, i)' = Sole(p, Head(puts[p]))' /\ i = Head(puts[p])
        BY <1>1, <2>1 DEF Sole, Has, Cwd
      <4> QED
        BY <2>1, <2>4, <2>5, <4>1, <4>2
    <3> QED
      BY <3>2, <3>3, <3>4 DEF PlacesInv
  <2> QED
    BY <1>17, <1>9, <2>1, <2>2, <2>3, <2>6, QuietLinks
<1> QED
  BY <1>16, <1>17 DEF LinksKept

LEMMA IputFreeNext ==
    ASSUME BlocksInv, NEW p \in Procs, IputFree(p)
    PROVE  BlocksInv' /\ LinksKept
<1>1. PICK i : i = Head(puts[p])
  OBVIOUS
<1>2. Putting(p, "free")
  BY DEF IputFree
<1>3. /\ puts[p] # <<>> /\ iputs[p] = "free" /\ i \in Inums
      /\ LocalTypes /\ DataTypes /\ CallInv(p)
      /\ \A x \in Inums : lock[x] = p <=> Locks(p, x)
  BY <1>1, <1>2, PuttingIs
<1>4. /\ bitmap' = bitmap \ BlocksOf(i)
      /\ ents' = [ents EXCEPT ![i] = NoEntries]
      /\ Iupdate(Only(i, Free))
      /\ iputs' = [iputs EXCEPT ![p] = "free2"]
      /\ removed' = removed \ {i}
      /\ UNCHANGED <<up, valid, ref, lock, user, local, puts>>
  BY <1>1 DEF IputFree
<1>5. Locks(p, i) /\ lock[i] = p /\ ~Holds(p, i)
  BY <1>1, <1>3 DEF Locks, CallInv
<1>6. copy[i] = dinode[i] /\ valid[i]
  BY <1>3, <1>5, LockedCopy, LockedHeld
<1>7. puts' = [puts EXCEPT ![p] = puts[p]] /\ puts[p] \in Seq(Inums) /\ Len(puts[p]) <= 2
  BY <1>3, <1>4 DEF LocalTypes, CallInv
<1>8. UNCHANGED <<user, local>>
  BY <1>4
<1>9. /\ Own(p) /\ OwnTypes(p) /\ CallInv(p)' /\ iputs'[p] = "free2"
      /\ \A x : Holds(p, x)' <=> Holds(p, x)
  BY <1>1, <1>3, <1>4, <1>5, <1>7, <1>8, IputOwn
<1>10. Locks(p, i)'
  BY <1>1, <1>3, <1>4, <1>9 DEF Locks
<1>11. Kept(p)
  <2>1. UNCHANGED <<ref, user, local, puts>>
    BY <1>4
  <2>2. /\ lock'[i] = p <=> Locks(p, i)'
        /\ \A q \in Procs \ {p} : lock'[i] = q <=> lock[i] = q
        /\ lock'[i] # NoProc => valid'[i]
        /\ \A x \in Inums \ {i} : lock'[x] = lock[x] /\ valid'[x] = valid[x]
    BY <1>4, <1>5, <1>6, <1>10
  <2> QED
    BY <1>1, <1>3, <1>9, <2>1, <2>2, IputKept
<1>12. Free \in Inode /\ Free.type = "FREE" /\ Free.blk = None
  BY BlockNumbers DEF Free, Inode
<1>13. /\ copy' = [x \in Inums |-> IF x = i THEN Free ELSE copy[x]]
       /\ dinode' = [x \in Inums |-> IF x = i THEN Free ELSE dinode[x]]
  BY <1>4 DEF Iupdate, Only
<1>14. DataTypes'
  <2>1. copy' \in [Inums -> Inode] /\ dinode' \in [Inums -> Inode]
    BY <1>3, <1>12, <1>13 DEF DataTypes
  <2>2. NoEntries \in [Names -> Slot]
    BY DEF NoEntries, Slot
  <2>3. ents' \in [Inums -> [Names -> Slot]] /\ bitmap' \subseteq 1..NBLOCKS
    BY <1>3, <1>4, <2>2 DEF DataTypes
  <2> QED
    BY <1>3, <1>4, <2>1, <2>3 DEF DataTypes
<1>15. CacheInv'
  <2>1. Freed(i)'
    BY <1>1, <1>3, <1>4, <1>9 DEF Freed
  <2>2. \A x : Freed(x) => Freed(x)'
    BY <1>3, <1>9, FreedStays
  <2>3. ASSUME NEW x \in Inums
        PROVE  /\ valid'[x] /\ ref'[x] > 0 /\ ~Freed(x)' => copy'[x] = dinode'[x] /\ dinode'[x].type # "FREE"
               /\ dinode'[x].type = "FREE" => dinode'[x] = Free
    <3>1. CASE x = i
      BY <1>3, <1>13, <2>1, <3>1
    <3>2. CASE x # i
      <4>1. copy'[x] = copy[x] /\ dinode'[x] = dinode[x] /\ valid'[x] = valid[x] /\ ref'[x] = ref[x]
        BY <1>4, <1>13, <3>2
      <4> QED
        BY <2>2, <4>1 DEF BlocksInv, CacheInv
    <3> QED
      BY <3>1, <3>2
  <2> QED
    BY <2>3 DEF CacheInv
<1>16. BlocksOnce'
  <2>1. Blocks' = [Blocks EXCEPT ![i] = None]
    BY <1>3, <1>4, <1>12, OnlyBlocks
  <2>2. OnceFor([Blocks EXCEPT ![i] = None], bitmap \ ({Blocks[i]} \ {None}))
    BY <1>3, BlocksType, RemoveBlock
  <2>3. Blocks[i] = copy[i].blk
    BY <1>3, <1>6, BlocksType
  <2> QED
    BY <1>4, <2>1, <2>2, <2>3, OnceNextIs DEF BlocksOf
<1>17. BlocksInv'
  BY <1>11, <1>14, <1>15, <1>16, KeptNext
<1>18. ASSUME LinkInv, ParentsNamed PROVE LinkInv'
  <2>1. /\ dinode[i].nlink = 0 /\ Sole(p, i) /\ i \notin {fd[p], Cwd(p), cur[p], ip[p], dp[p]}
        /\ Len(puts[p]) >= 2 => puts[p][2] # i
    BY <1>18, <1>1, <1>3 DEF LinkInv, PlacesInv
  <2>2. Has(p, i) /\ dinode[i].type # "FREE" /\ DirsInv /\ NamesInv
    BY <1>18, <1>1, <1>3 DEF Has, LinkInv, UsedInv
  <2>3. EntriesOf(i) = {} /\ Pending(i) = {} /\ i # Root
    BY <1>18, <1>3, <2>1, <2>2, NoLinks
  <2>4. /\ None \notin Inums /\ Root \in Inums
        /\ \A a \in Inums, m \in Names : ents[a][m] \in Slot /\ ents[a][m] # i
    <3>1. None \notin Inums /\ Root \in Inums
      BY FsAssumption DEF None, Root, Inums
    <3>2. ASSUME NEW a \in Inums, NEW m \in Names PROVE ents[a][m] \in Slot /\ ents[a][m] # i
      <4>1. ents[a][m] # i
        <5>1. <<a, m>> \notin EntriesOf(i)
          BY <2>3
        <5> QED
          BY <5>1 DEF EntriesOf
      <4> QED
        BY <1>3, <4>1 DEF DataTypes
    <3> QED
      BY <3>1, <3>2
  <2>5. ~Named(i)
    BY <2>3 DEF Named
  <2>6. /\ dinode'[i].type = "FREE" /\ \A x \in Inums : x # i => dinode'[x] = dinode[x]
        /\ ents'[i] = NoEntries /\ \A x \in Inums : x # i => ents'[x] = ents[x]
    BY <1>3, <1>4, <1>12, <1>13 DEF DataTypes
  <2>7. /\ UNCHANGED <<fd, cwd, cur, ip, dp, pc, script, path, puts, up>>
        /\ iputs'[p] = "free2" /\ removed' = removed \ {i}
    BY <1>4, <1>9 DEF user, local
  <2>8. \A x \in Inums : Has(p, x)' => Has(p, x) /\ x # i
    BY <1>1, <1>3, <2>1, <2>7 DEF Has, Cwd
  <2>9. \A x : Owes(p, x)' <=> Owes(p, x)
    BY <2>7 DEF Owes, Second, Call
  <2>10. Alone(p)
    <3>1. lock[i] = p
      BY <1>5
    <3> QED
      BY <1>9, <2>1, <2>2, <2>6, <2>8, <3>1 DEF Alone
  <2>11. \A q \in Procs \ {p} : UsedInv(q)' /\ PlacesInv(q)'
    BY <1>18, <2>10, OthersLinks
  <2>12. UsedInv(p)'
    BY <1>18, <2>6, <2>8 DEF UsedInv, LinkInv
  <2>13. PlacesInv(p)'
    <3>1. PlacesInv(p)
      BY <1>18 DEF LinkInv
    <3>2. \A x : Sole(p, x) => Sole(p, x)'
      BY <1>3, <1>9, HasSame DEF Sole
    <3>3. (Second(p)' <=> Second(p)) /\ NewType(p)' = NewType(p)
      BY <2>7 DEF Second, Call, NewType
    <3>4. /\ dp[p] # None => dinode'[dp[p]] = dinode[dp[p]] /\ ents'[dp[p]] = ents[dp[p]]
          /\ ip[p] # None => dinode'[ip[p]] = dinode[ip[p]] /\ ents'[ip[p]] = ents[ip[p]]
      BY <1>3, <2>1, <2>6 DEF LocalTypes, Slot
    <3>5. pc[p] \in {"new", "unlinked"} => ip[p] # None /\ dp[p] # None
      BY <1>3 DEF CallInv, Shape
    <3> QED
      BY <2>7, <3>1, <3>2, <3>3, <3>4, <3>5 DEF PlacesInv, Empty, Sole
  <2>14. CountInv'
    <3> SUFFICES ASSUME NEW x \in Inums, dinode'[x].type # "FREE"
                 PROVE  /\ dinode'[x].nlink >= LinksOf(x)'
                        /\ x \notin removed' => dinode'[x].nlink = LinksOf(x)'
      BY DEF CountInv
    <3>1. x # i /\ dinode'[x] = dinode[x] /\ ents'[x] = ents[x]
      BY <2>6
    <3>2. EntriesOf(x)' \subseteq EntriesOf(x)
      <4>1. ASSUME NEW a \in Inums, NEW m \in Names, ents'[a][m] = x PROVE ents[a][m] = x
        BY <2>4, <2>6, <4>1 DEF NoEntries
      <4> QED
        BY <4>1 DEF EntriesOf
    <3>3. Subdirs(x)' = Subdirs(x)
      <4>1. ASSUME NEW m \in Names PROVE m \in Subdirs(x)' <=> m \in Subdirs(x)
        <5>1. ents[x][m] # None => dinode'[ents[x][m]] = dinode[ents[x][m]]
          BY <2>4, <2>6 DEF Slot
        <5> QED
          BY <3>1, <5>1 DEF Subdirs
      <4> QED
        BY <4>1 DEF Subdirs
    <3>4. Pending(x)' = Pending(x)
      <4>1. ASSUME NEW q PROVE q \in Pending(x)' <=> q \in Pending(x)
        <5>1. CASE q = p
          BY <5>1, <2>9, PendingIs, PendingNext
        <5>2. CASE q # p
          BY <5>2, <1>3, <1>9, HasSame, PendingIs, PendingNext
        <5> QED
          BY <5>1, <5>2
      <4> QED
        BY <4>1
    <3>5. x \notin removed => EntriesOf(x)' = EntriesOf(x)
      <4> SUFFICES ASSUME NEW a \in Inums, NEW m \in Names, ents[a][m] = x, ents'[a][m] # x PROVE x \in removed
        <5>1. (\A a \in Inums, m \in Names : ents[a][m] = x => ents'[a][m] = x) => EntriesOf(x) \subseteq EntriesOf(x)'
          BY DEF EntriesOf
        <5> QED
          BY <3>2, <5>1
      <4>1. a = i /\ ents[a][m] # None
        BY <2>4, <2>6
      <4>2. dinode[i].type = "DIR"
        BY <2>2, <4>1 DEF DirsInv
      <4> QED
        BY <1>3, <2>2, <2>5, <4>1, <4>2 DEF NamesInv
    <3>6. /\ Cardinality(EntriesOf(x)') <= Cardinality(EntriesOf(x))
          /\ Cardinality(EntriesOf(x)') \in Nat /\ Cardinality(EntriesOf(x)) \in Nat
      BY <3>2, LinksFinite, FS_Subset, FS_CardinalityType
    <3>7. PICK r : r = Cardinality(Subdirs(x)) /\ r \in Nat
      BY LinksType
    <3>8. PICK s : s = Cardinality(Pending(x)) /\ s \in Nat
      BY LinksType
    <3>9. PICK t \in {0, 1} : t = (IF x = Root THEN 1 ELSE 0)
      OBVIOUS
    <3>10. PICK c \in Nat, e \in Nat : c = Cardinality(EntriesOf(x)') /\ e = Cardinality(EntriesOf(x)) /\ c <= e
      BY <3>6
    <3>11. LinksOf(x)' = c + r + s + t /\ LinksOf(x) = e + r + s + t
      BY <3>3, <3>4, <3>7, <3>8, <3>9, <3>10 DEF LinksOf
    <3>12. /\ dinode[x].nlink >= LinksOf(x) /\ dinode[x].nlink \in Int
           /\ x \notin removed => dinode[x].nlink = LinksOf(x)
      BY <1>18, <1>3, <3>1 DEF LinkInv, CountInv, DataTypes, Inode
    <3>13. x \notin removed' => x \notin removed /\ c = e
      BY <2>7, <3>1, <3>5, <3>10
    <3>14. PICK k \in Int : k = dinode[x].nlink
      BY <3>12
    <3>15. e + r + s + t >= c + r + s + t /\ k >= e + r + s + t
      BY <3>7, <3>8, <3>10, <3>11, <3>12, <3>14
    <3>16. k >= c + r + s + t
      BY <3>7, <3>8, <3>10, <3>15
    <3>17. x \notin removed' => k = c + r + s + t
      BY <3>11, <3>12, <3>13, <3>14
    <3> QED
      BY <3>1, <3>11, <3>14, <3>16, <3>17
  <2>15. DirsInv'
    <3>1. dinode'[Root].type = "DIR"
      BY <2>2, <2>3, <2>4, <2>6 DEF DirsInv
    <3>2. ASSUME NEW a \in Inums, NEW m \in Names, ents'[a][m] # None
          PROVE  /\ dinode'[a].type = "DIR" /\ dinode'[ents'[a][m]].type # "FREE"
                 /\ dinode'[ents'[a][m]].type = "DIR" => up'[ents'[a][m]] = a
                 /\ \A k \in Names : ents'[ents'[a][m]][k] # a
      <4>1. a # i
        BY <2>6, <3>2 DEF NoEntries
      <4>2. PICK x \in Inums : x = ents[a][m] /\ ents'[a][m] = x /\ x # i
        BY <2>4, <2>6, <3>2, <4>1 DEF Slot
      <4>3. /\ dinode[a].type = "DIR" /\ dinode[ents[a][m]].type # "FREE"
            /\ dinode[ents[a][m]].type = "DIR" => up[ents[a][m]] = a
            /\ \A k \in Names : ents[ents[a][m]][k] # a
        BY <2>2, <2>4, <4>2 DEF DirsInv
      <4>4. dinode'[a] = dinode[a] /\ dinode'[x] = dinode[x] /\ ents'[x] = ents[x] /\ up' = up
        BY <2>6, <2>7, <4>1, <4>2
      <4> QED
        BY <4>2, <4>3, <4>4
    <3> QED
      BY <3>1, <3>2 DEF DirsInv
  <2>16. NamesInv'
    <3>1. ASSUME NEW a \in Inums, NEW m \in Names, dinode'[a].type = "DIR", ~Named(a)', ents'[a][m] # None
          PROVE  ents'[a][m] \in removed' /\ ents'[ents'[a][m]] = NoEntries
      <4>1. a # i /\ dinode[a].type = "DIR" /\ ents'[a] = ents[a]
        BY <2>6, <3>1
      <4>2. ~Named(a)
        <5> SUFFICES ASSUME EntriesOf(a) # {} PROVE FALSE
          BY <3>1 DEF Named
        <5>1. PICK b \in Inums, k \in Names : ents[b][k] = a
          BY DEF EntriesOf
        <5>2. b = i
          <6> SUFFICES ASSUME b # i PROVE FALSE
            OBVIOUS
          <6>1. <<b, k>> \in EntriesOf(a)'
            BY <2>6, <5>1 DEF EntriesOf
          <6> QED
            BY <3>1, <6>1 DEF Named
        <5>3. dinode[i].type = "DIR" /\ ents[i][k] # None
          BY <2>2, <2>4, <5>1, <5>2 DEF DirsInv
        <5>4. Empty(ents[i][k])
          BY <1>3, <2>2, <2>5, <5>3 DEF NamesInv
        <5>5. ents[a] = NoEntries
          BY <5>1, <5>2, <5>4 DEF Empty
        <5> QED
          BY <3>1, <4>1, <5>5 DEF NoEntries
      <4>3. PICK x \in Inums : x = ents[a][m] /\ ents'[a][m] = x /\ x # i
        BY <2>4, <3>1, <4>1 DEF Slot
      <4>4. ents[a][m] \in removed /\ ents[ents[a][m]] = NoEntries
        BY <2>2, <2>4, <4>1, <4>2, <4>3 DEF NamesInv, Empty
      <4>5. ents'[x] = ents[x] /\ removed' = removed \ {i}
        BY <2>6, <2>7, <4>3
      <4> QED
        BY <4>3, <4>4, <4>5
    <3> QED
      BY <3>1 DEF NamesInv, Empty
  <2> QED
    BY <2>11, <2>12, <2>13, <2>14, <2>15, <2>16 DEF LinkInv
<1> QED
  BY <1>17, <1>18 DEF LinksKept

LEMMA IputReleaseNext ==
    ASSUME BlocksInv, NEW p \in Procs, IputRelease(p)
    PROVE  BlocksInv' /\ LinksKept
<1>1. PICK i : i = Head(puts[p])
  OBVIOUS
<1>2. Putting(p, "free2")
  BY DEF IputRelease
<1>3. /\ puts[p] # <<>> /\ iputs[p] = "free2" /\ i \in Inums
      /\ LocalTypes /\ DataTypes /\ CallInv(p)
      /\ \A x \in Inums : lock[x] = p <=> Locks(p, x)
  BY <1>1, <1>2, PuttingIs
<1>4. /\ valid' = [valid EXCEPT ![i] = FALSE]
      /\ lock' = [lock EXCEPT ![i] = NoProc]
      /\ iputs' = [iputs EXCEPT ![p] = "deref"]
      /\ UNCHANGED <<dinode, ents, up, bitmap, copy, ref, user, local, puts, removed>>
  BY <1>1 DEF IputRelease, Iunlock, Invalidated, disk
<1>5. lock[i] = p /\ ~Holds(p, i)
  BY <1>1, <1>3 DEF Locks, CallInv
<1>6. puts' = [puts EXCEPT ![p] = puts[p]] /\ puts[p] \in Seq(Inums) /\ Len(puts[p]) <= 2
  BY <1>3, <1>4 DEF LocalTypes, CallInv
<1>7. UNCHANGED <<user, local>>
  BY <1>4
<1>8. /\ Own(p) /\ OwnTypes(p) /\ CallInv(p)' /\ iputs'[p] = "deref"
      /\ \A x : Holds(p, x)' <=> Holds(p, x)
  BY <1>1, <1>3, <1>4, <1>5, <1>6, <1>7, IputOwn
<1>9. ~Locks(p, i)'
  BY <1>5, <1>8 DEF Locks
<1>10. /\ lock'[i] = NoProc /\ ~valid'[i]
       /\ \A x \in Inums \ {i} : lock'[x] = lock[x] /\ valid'[x] = valid[x]
       /\ lock' \in [Inums -> Procs \cup {NoProc}] /\ valid' \in [Inums -> BOOLEAN]
  BY <1>3, <1>4 DEF DataTypes
<1>11. Kept(p)
  <2>1. UNCHANGED <<ref, user, local, puts>>
    BY <1>4
  <2>2. /\ lock'[i] = p <=> Locks(p, i)'
        /\ \A q \in Procs \ {p} : lock'[i] = q <=> lock[i] = q
        /\ lock'[i] # NoProc => valid'[i]
    BY <1>5, <1>9, <1>10, FsAssumption
  <2> QED
    BY <1>1, <1>3, <1>8, <1>10, <2>1, <2>2, IputKept
<1>12. DataTypes'
  BY <1>3, <1>4, <1>10 DEF DataTypes
<1>13. CacheInv'
  <2>1. ASSUME NEW x, x # i, Freed(x) PROVE Freed(x)'
    BY <1>1, <1>8, <2>1, FreedStays
  <2>2. ASSUME NEW x \in Inums, valid'[x], ref'[x] > 0, ~Freed(x)'
        PROVE  copy'[x] = dinode'[x] /\ dinode'[x].type # "FREE"
    <3>1. x # i /\ valid[x] /\ ref[x] > 0
      BY <1>4, <1>10, <2>2
    <3>2. ~Freed(x)
      BY <2>1, <2>2, <3>1
    <3> QED
      BY <1>4, <3>1, <3>2 DEF BlocksInv, CacheInv
  <2>3. \A x \in Inums : dinode'[x].type = "FREE" => dinode'[x] = Free
    BY <1>4 DEF BlocksInv, CacheInv
  <2> QED
    BY <2>2, <2>3 DEF CacheInv
<1>14. BlocksOnce'
  BY <1>4 DEF BlocksInv, BlocksOnce
<1>15. BlocksInv'
  BY <1>11, <1>12, <1>13, <1>14, KeptNext
<1>16. ASSUME LinkInv, ParentsNamed PROVE LinkInv'
  <2>1. UNCHANGED <<fd, cwd, cur, ip, dp, pc, script, path, puts, dinode, ents, up, removed>>
    BY <1>4 DEF user, local
  <2>2. \A x \in Inums : Has(p, x)' => Has(p, x)
    BY <1>3, <1>8, <2>1 DEF Has, Cwd
  <2>3. \A x : Owes(p, x)' <=> Owes(p, x)
    BY <2>1 DEF Owes, Second, Call
  <2>4. \A x : Sole(p, x) => Sole(p, x)'
    BY <1>3, <1>8, HasSame DEF Sole
  <2>5. PlacesInv(p)'
    BY <1>16, <1>8, <2>1, <2>4 DEF PlacesInv, LinkInv, Second, Call, NewType, Empty, Cwd, Sole
  <2> QED
    BY <1>16, <1>8, <2>1, <2>2, <2>3, <2>5, QuietLinks
<1> QED
  BY <1>15, <1>16 DEF LinksKept

LEMMA InSeqType == \A s, x : InSeq(s, x) \in Nat
<1> SUFFICES ASSUME NEW s, NEW x PROVE InSeq(s, x) \in Nat
  OBVIOUS
<1>1. \A c : One(c) \in Nat
  BY DEF One
<1> QED
  BY <1>1 DEF InSeq

LEMMA ShortCount ==
    \A s, x : (Len(s) = 0 => InSeq(s, x) = 0) /\ (Len(s) = 1 => InSeq(s, x) = Is(s[1], x))
  BY DEF InSeq, Is, One

LEMMA TailCount ==
    ASSUME NEW s \in Seq(Inums), s # <<>>, Len(s) <= 2, NEW x
    PROVE  InSeq(s, x) = Is(Head(s), x) + InSeq(Tail(s), x)
<1>1. /\ Len(s) \in Nat /\ Len(s) >= 1 /\ Head(s) = s[1]
      /\ Len(Tail(s)) = Len(s) - 1
      /\ Len(s) >= 2 => Tail(s)[1] = s[2]
  OBVIOUS
<1>2. PICK a, b : a = Is(s[1], x) /\ b = Is(s[2], x)
  OBVIOUS
<1>3. a \in Nat /\ b \in Nat
  BY <1>2, IsType
<1>4. CASE Len(s) = 1
  <2>1. Len(Tail(s)) = 0
    BY <1>1, <1>4
  <2>2. InSeq(Tail(s), x) = 0
    BY <2>1, ShortCount, Zenon
  <2>3. InSeq(s, x) = a
    BY <1>2, <1>4 DEF InSeq, Is, One
  <2> QED
    BY <1>1, <1>2, <1>3, <2>2, <2>3
<1>5. CASE Len(s) = 2
  <2>1. Len(Tail(s)) = 1 /\ Tail(s)[1] = s[2]
    BY <1>1, <1>5, SMTT(30)
  <2>2. InSeq(Tail(s), x) = b
    <3>1. InSeq(Tail(s), x) = Is(Tail(s)[1], x)
      BY <2>1, ShortCount, Zenon
    <3> QED
      BY <1>2, <2>1, <3>1, Zenon
  <2>3. InSeq(s, x) = a + b
    BY <1>2, <1>5 DEF InSeq, Is, One
  <2> QED
    BY <1>1, <1>2, <1>3, <2>2, <2>3
<1> QED
  BY <1>1, <1>4, <1>5

\* iput gives its reference back.
LEMMA IputDerefNext ==
    ASSUME BlocksInv, NEW p \in Procs, IputDeref(p)
    PROVE  BlocksInv' /\ LinksKept
<1>1. PICK i : i = Head(puts[p])
  OBVIOUS
<1>2. Putting(p, "deref")
  BY DEF IputDeref
<1>3. /\ puts[p] # <<>> /\ iputs[p] = "deref" /\ i \in Inums
      /\ Tail(puts[p]) \in Seq(Inums) /\ Len(Tail(puts[p])) <= 1
      /\ LocalTypes /\ DataTypes /\ CallInv(p)
      /\ \A x \in Inums : lock[x] = p <=> Locks(p, x)
  BY <1>1, <1>2, PuttingIs
<1>4. /\ ref' = [ref EXCEPT ![i] = @ - 1]
      /\ puts' = [puts EXCEPT ![p] = Tail(puts[p])]
      /\ iputs' = [iputs EXCEPT ![p] = "lock"]
      /\ UNCHANGED <<dinode, ents, up, bitmap, copy, valid, lock, user, local, removed>>
  BY <1>1 DEF IputDeref, disk
<1>5. UNCHANGED <<user, local>> /\ Len(Tail(puts[p])) <= 2
  <2>1. Len(Tail(puts[p])) \in Nat
    BY <1>3
  <2> QED
    BY <1>3, <1>4, <2>1
<1>6. /\ Own(p) /\ OwnTypes(p) /\ CallInv(p)' /\ puts'[p] = Tail(puts[p]) /\ iputs'[p] = "lock"
      /\ \A x : Holds(p, x)' <=> Holds(p, x)
  BY <1>3, <1>4, <1>5, IputOwn
<1>7. ref[i] > 0 /\ ref[i] \in Nat
  BY <1>1, <1>3, InHand DEF DataTypes
<1>8. RefsStep(p)
  <2>1. ref' \in [Inums -> Nat]
    BY <1>3, <1>4, <1>7 DEF DataTypes
  <2>2. ASSUME NEW x \in Inums PROVE ref'[x] + Count(p, x) = ref[x] + Count(p, x)'
    <3>1. PICK n : n = Is(fd[p], x) + Is(Cwd(p), x) + Is(cur[p], x) + Is(ip[p], x) + Is(dp[p], x)
      OBVIOUS
    <3>2. PICK t : t = InSeq(Tail(puts[p]), x)
      OBVIOUS
    <3>3. n \in Nat /\ t \in Nat /\ Is(i, x) \in Nat
      BY <3>1, <3>2, IsType, InSeqType
    <3>4. Count(p, x) = n + (Is(i, x) + t)
      <4>1. InSeq(puts[p], x) = Is(i, x) + t
        <5>1. puts[p] \in Seq(Inums) /\ Len(puts[p]) <= 2
          BY <1>3 DEF LocalTypes, CallInv
        <5> QED
          BY <1>1, <1>3, <3>2, <5>1, TailCount
      <4> QED
        BY <3>1, <4>1 DEF Count, OfHand
    <3>5. Count(p, x)' = n + t
      BY <1>5, <1>6, <3>1, <3>2 DEF Count, OfHand, Cwd, user, local
    <3>6. ref[x] \in Nat /\ ref'[x] = ref[x] - Is(i, x)
      BY <1>3, <1>4 DEF DataTypes, Is, One
    <3> QED
      BY <3>3, <3>4, <3>5, <3>6
  <2> QED
    BY <2>1, <2>2 DEF RefsStep
<1>9. LocksStep(p)
  BY <1>3, <1>4, <1>6 DEF LocksStep, Locks, BlocksInv, LocksInv
<1>10. Kept(p)
  BY <1>6, <1>8, <1>9 DEF Kept
<1>11. DataTypes'
  BY <1>3, <1>4, <1>8 DEF DataTypes, RefsStep
<1>12. CacheInv'
  <2>1. \A x : Freed(x) => Freed(x)'
    BY <1>3, <1>6, FreedStays
  <2>2. \A x \in Inums : ref'[x] > 0 => ref[x] > 0
    BY <1>3, <1>4, <1>7 DEF DataTypes
  <2> QED
    BY <1>4, <2>1, <2>2 DEF BlocksInv, CacheInv
<1>13. BlocksOnce'
  BY <1>4 DEF BlocksInv, BlocksOnce
<1>14. BlocksInv'
  BY <1>10, <1>11, <1>12, <1>13, KeptNext
<1>15. ASSUME LinkInv, ParentsNamed PROVE LinkInv'
  <2>1. UNCHANGED <<fd, cwd, cur, ip, dp, pc, script, path, dinode, ents, up, removed>>
    BY <1>4 DEF user, local
  <2>2. puts'[p] # <<>> => Len(puts[p]) >= 2 /\ Head(puts'[p]) = puts[p][2] /\ ~(Len(puts'[p]) >= 2)
    BY <1>3, <1>6 DEF LocalTypes
  <2>3. \A x \in Inums : Has(p, x)' => Has(p, x)
    BY <2>1, <2>2 DEF Has, Cwd
  <2>4. \A x : Owes(p, x)' <=> Owes(p, x)
    BY <2>1 DEF Owes, Second, Call
  <2>5. \A x : Sole(p, x) => Sole(p, x)'
    BY <1>3, <1>6, HasSame DEF Sole
  <2>6. PlacesInv(p)'
    BY <1>15, <1>6, <2>1, <2>5 DEF PlacesInv, LinkInv, Second, Call, NewType, Empty, Cwd, Sole
  <2> QED
    BY <1>15, <1>6, <2>1, <2>3, <2>4, <2>6, QuietLinks
<1> QED
  BY <1>14, <1>15 DEF LinksKept

-----------------------------------------------------------------------------
(* The invariant is inductive *)

LEMMA BlocksUntouched ==
    ASSUME BlocksInv, UNCHANGED <<disk, icache, user, local, puts, iputs, removed>>
    PROVE  BlocksInv'
<1> USE DEF disk, icache, user, local
<1>1. TypesInv'
  BY DEF BlocksInv, TypesInv, DataTypes, LocalTypes
<1>2. ASSUME NEW p \in Procs, NEW x PROVE Holds(p, x)' <=> Holds(p, x)
  BY DEF Holds, Target
<1>3. ASSUME NEW p \in Procs PROVE CallInv(p)'
  BY <1>2 DEF BlocksInv, CallInv, Shape, AtName, InCall, Call
<1>4. LocksInv'
  BY <1>2 DEF BlocksInv, LocksInv, Locks
<1>5. RefsInv'
  <2>1. \A x : Uses(x)' = Uses(x)
    BY DEF Uses, Hand
  <2> QED
    BY <2>1 DEF BlocksInv, RefsInv
<1>6. CacheInv' /\ BlocksOnce'
  BY DEF BlocksInv, CacheInv, BlocksOnce, Freed
<1> QED
  BY <1>1, <1>3, <1>4, <1>5, <1>6 DEF BlocksInv

LEMMA LinksUntouched ==
    ASSUME UNCHANGED <<disk, icache, user, local, puts, iputs, removed>>
    PROVE  LinksKept
<1> SUFFICES ASSUME LinkInv PROVE LinkInv'
  BY DEF LinksKept
<1> USE DEF disk, icache, user, local
<1>1. \A i : LinksOf(i)' = LinksOf(i) /\ (Named(i)' <=> Named(i))
  BY DEF LinksOf, EntriesOf, Subdirs, Pending, Second, Call, Named
<1>2. \A p, x : Has(p, x)' <=> Has(p, x)
  BY DEF Has, Cwd
<1>3. ASSUME NEW p \in Procs PROVE UsedInv(p)' /\ PlacesInv(p)'
  <2>1. UsedInv(p) /\ PlacesInv(p)
    BY DEF LinkInv
  <2>2. UsedInv(p)'
    BY <1>2, <2>1 DEF UsedInv
  <2>3. (Second(p)' <=> Second(p)) /\ NewType(p)' = NewType(p) /\ Cwd(p)' = Cwd(p)
    BY DEF Second, Call, NewType, Cwd
  <2>4. \A x : Sole(p, x) => Sole(p, x)'
    BY <1>2 DEF Sole
  <2> QED
    BY <2>1, <2>2, <2>3, <2>4 DEF PlacesInv, Empty, Sole
<1>4. DirsInv'
  BY DEF LinkInv, DirsInv
<1>5. NamesInv'
  BY <1>1 DEF LinkInv, NamesInv, Empty
<1>6. CountInv'
  BY <1>1 DEF LinkInv, CountInv
<1> QED
  BY <1>3, <1>4, <1>5, <1>6 DEF LinkInv

LEMMA StepInv == ASSUME BlocksInv, NEW p \in Procs, Step(p) PROVE BlocksInv' /\ LinksKept
<1>1. CASE Begin(p)
  BY <1>1, BeginNext
<1>2. CASE Lock(p)
  BY <1>2, LockNext
<1>3. CASE Walk(p)
  <2>1. CASE Type(cur[p]) = "DIR" /\ Len(path[p]) = 1 /\ ToParent(p)
    BY <1>3, <2>1, WalkParent
  <2>2. CASE /\ ~(Type(cur[p]) = "DIR" /\ Len(path[p]) = 1 /\ ToParent(p))
             /\ Type(cur[p]) # "DIR" \/ Lookup(cur[p], Head(path[p])) = None
    BY <1>3, <2>2, WalkFailed, SecondWalkFailed
  <2>3. CASE /\ ~(Type(cur[p]) = "DIR" /\ Len(path[p]) = 1 /\ ToParent(p))
             /\ Type(cur[p]) = "DIR" /\ Lookup(cur[p], Head(path[p])) # None
    BY <1>3, <2>3, WalkFurther, WalkEnds
  <2> QED
    BY <2>1, <2>2, <2>3
<1>4. CASE Iput(p)
  BY <1>4, IputLockNext, IputFreeNext, IputReleaseNext, IputDerefNext DEF Iput
<1>5. CASE Open(p)
  <2>1. CASE (Call(p).op = "open" /\ Call(p).write /\ Type(ip[p]) = "DIR") \/ fd[p] # None
    <3>1. At(p, "open") /\ PutIp(p) /\ UNCHANGED <<disk, removed>>
      BY <1>5, <2>1 DEF Open
    <3> QED
      BY <3>1, PutIpStep
  <2>2. CASE ~((Call(p).op = "open" /\ Call(p).write /\ Type(ip[p]) = "DIR") \/ fd[p] # None)
    BY <1>5, <2>2, OpenNext
  <2> QED
    BY <2>1, <2>2
<1>6. CASE Create(p)
  BY <1>6, CreateFound, CreateAllocs
<1>7. CASE CreateExists(p)
  <2>1. CASE Call(p).op = "create" /\ Type(ip[p]) = "FILE"
    BY <1>7, <2>1, ExistsNext
  <2>2. CASE ~(Call(p).op = "create" /\ Type(ip[p]) = "FILE")
    <3>1. At(p, "exists") /\ PutIp(p) /\ UNCHANGED <<disk, removed>>
      BY <1>7, <2>2 DEF CreateExists
    <3> QED
      BY <3>1, PutIpStep
  <2> QED
    BY <2>1, <2>2
<1>8. CASE CreateNew(p)
  BY <1>8, CreateNewNext
<1>9. CASE Made(p)
  <2>1. At(p, "made") /\ PutIp(p) /\ UNCHANGED <<disk, removed>>
    BY <1>9 DEF Made
  <2> QED
    BY <2>1, PutIpStep
<1>10. CASE Link(p)
  <2>1. CASE Type(ip[p]) = "DIR"
    <3>1. At(p, "link") /\ PutIp(p) /\ UNCHANGED <<disk, removed>>
      BY <1>10, <2>1 DEF Link
    <3> QED
      BY <3>1, PutIpStep
  <2>2. CASE Type(ip[p]) # "DIR"
    BY <1>10, <2>2, LinkNext
  <2> QED
    BY <2>1, <2>2
<1>11. CASE DirLink(p)
  BY <1>11, DirLinkOld, DirLinkNew
<1>12. CASE LinkFails(p)
  BY <1>12, LinkFailsNext
<1>13. CASE Bad(p)
  <2>1. At(p, "bad") \/ At(p, "last")
    BY <1>13 DEF Bad
  <2> QED
    BY <1>13, <2>1, BadNext
<1>14. CASE Unlink(p)
  BY <1>14, UnlinkGivesUp, UnlinkGets
<1>15. CASE UnlinkEntry(p)
  BY <1>15, UnlinkFull, UnlinkOk
<1>16. CASE UnlinkFails(p)
  BY <1>16, UnlinkFailsNext
<1>17. CASE Chdir(p)
  <2>1. CASE Type(ip[p]) # "DIR"
    <3>1. At(p, "chdir") /\ PutIp(p) /\ UNCHANGED <<disk, removed>>
      BY <1>17, <2>1 DEF Chdir
    <3> QED
      BY <3>1, PutIpStep
  <2>2. CASE Type(ip[p]) = "DIR"
    BY <1>17, <2>2, ChdirNext
  <2> QED
    BY <2>1, <2>2
<1>18. CASE SetCwd(p)
  BY <1>18, SetCwdNext
<1>19. CASE Chmod(p)
  BY <1>19, ChmodNext
<1>20. CASE Close(p)
  BY <1>20, CloseNext, CloseNothing
<1>21. CASE StartWrite(p)
  BY <1>21, WriteStarts, WriteDenied
<1>22. CASE Write(p)
  BY <1>22, WriteNext
<1> QED
  BY <1>1, <1>2, <1>3, <1>4, <1>5, <1>6, <1>7, <1>8, <1>9, <1>10, <1>11, <1>12, <1>13,
     <1>14, <1>15, <1>16, <1>17, <1>18, <1>19, <1>20, <1>21, <1>22 DEF Step

\* A panic stops the machine and changes nothing, which is a stutter of all else.
LEMMA PanicInv ==
    ASSUME BlocksInv, NEW p \in Procs, NEW what, Panic(p, what)
    PROVE  BlocksInv' /\ LinksKept
  BY BlocksUntouched, LinksUntouched DEF Panic

LEMMA NextInv == BlocksInv /\ [Next]_vars => BlocksInv' /\ LinksKept
<1> SUFFICES ASSUME BlocksInv, [Next]_vars PROVE BlocksInv' /\ LinksKept
  OBVIOUS
<1>1. ASSUME NEW p \in Procs, Step(p) PROVE BlocksInv' /\ LinksKept
  BY <1>1, StepInv
<1>2. ASSUME NEW p \in Procs, NEW what, Panic(p, what) PROVE BlocksInv' /\ LinksKept
  BY <1>2, PanicInv
<1>3. CASE UNCHANGED vars
  BY <1>3, BlocksUntouched, LinksUntouched DEF vars
<1> QED
  BY <1>1, <1>2, <1>3 DEF Next

-----------------------------------------------------------------------------
(* The first state *)

LEMMA InitTypes == Init => TypesInv
<1> SUFFICES ASSUME Init PROVE TypesInv
  OBVIOUS
<1>1. /\ Root \in Inums /\ 2 \in Inums /\ 1 \in 0..NBLOCKS /\ 2 \in 0..NBLOCKS
      /\ {1, 2} \subseteq 1..NBLOCKS /\ None \in Slot /\ 2 \in Slot
  BY FsAssumption DEF Root, Inums, Slot
<1>2. Free \in Inode
  BY BlockNumbers DEF Free, Inode
<1>3. dinode \in [Inums -> Inode] /\ copy \in [Inums -> Inode]
  BY <1>1, <1>2 DEF Init, Inode
<1>4. ents \in [Inums -> [Names -> Slot]]
  <2>1. PICK n \in Names :
           ents = [i \in Inums |-> IF i = Root THEN [NoEntries EXCEPT ![n] = 2] ELSE NoEntries]
    BY DEF Init
  <2>2. NoEntries \in [Names -> Slot]
    BY <1>1 DEF NoEntries
  <2>3. [NoEntries EXCEPT ![n] = 2] \in [Names -> Slot]
    BY <1>1, <2>2
  <2> QED
    BY <2>1, <2>2, <2>3
<1>5. ref \in [Inums -> Nat]
  BY FsAssumption, FS_CardinalityType DEF Init
<1>6. DataTypes
  BY <1>1, <1>3, <1>4, <1>5 DEF DataTypes, Init
<1>7. script \in [Procs -> Seq(SysCalls)]
  BY FsAssumption DEF Init
<1>8. /\ cwd \in [Procs -> Inums] /\ fd \in [Procs -> Slot] /\ cur \in [Procs -> Slot]
      /\ ip \in [Procs -> Slot] /\ dp \in [Procs -> Slot]
      /\ pc \in [Procs -> Labels] /\ has \in [Procs -> BOOLEAN]
      /\ path \in [Procs -> Seq(Names \cup Dots)] /\ puts \in [Procs -> Seq(Inums)]
      /\ iputs \in [Procs -> {"lock", "free", "free2", "deref"}]
  BY <1>1 DEF Init, Labels
<1> QED
  BY <1>6, <1>7, <1>8 DEF TypesInv, LocalTypes

\* Each process has one reference, to the root.
LEMMA InitRefs == Init => RefsInv
<1> SUFFICES ASSUME Init, NEW i \in Inums
             PROVE  ref[i] = Cardinality(Uses(i)) + (IF i = Root THEN 1 ELSE 0)
  BY DEF RefsInv
<1>1. ASSUME NEW q \in Procs PROVE {j \in DOMAIN Hand(q) : Hand(q)[j] = i} = IF i = Root THEN {2} ELSE {}
  <2>1. Hand(q) = <<None, Root, None, None, None>> \o <<>>
    BY DEF Init, Hand
  <2>2. <<None, Root, None, None, None>> \o <<>> = <<None, Root, None, None, None>>
    OBVIOUS
  <2>3. Hand(q) = <<None, Root, None, None, None>>
    BY <2>1, <2>2
  <2>4. i # None
    BY FsAssumption DEF None, Inums
  <2> QED
    BY <2>3, <2>4
<1>2. CASE i = Root
  <2>1. Uses(i) = {<<q, 2>> : q \in Procs}
    BY <1>1, <1>2 DEF Uses
  <2>2. Cardinality({<<q, 2>> : q \in Procs}) = Cardinality(Procs)
    <3> DEFINE f == [q \in Procs |-> <<q, 2>>]
    <3>1. f \in Bijection(Procs, {<<q, 2>> : q \in Procs})
      BY DEF Bijection, Injection, IsInjective, Surjection
    <3> QED
      BY <3>1, FsAssumption, FS_Bijection DEF ExistsBijection
  <2>3. ref[i] = Cardinality(Procs) + 1
    BY <1>2 DEF Init
  <2> QED
    BY <1>2, <2>1, <2>2, <2>3
<1>3. CASE i # Root
  <2>1. Uses(i) = {}
    BY <1>1, <1>3 DEF Uses
  <2>2. Cardinality({}) = 0
    BY FS_EmptySet
  <2>3. ref[i] = 0
    BY <1>3 DEF Init
  <2> QED
    BY <1>3, <2>1, <2>2, <2>3
<1> QED
  BY <1>2, <1>3

LEMMA InitBlocksInv == Init => BlocksInv
<1> SUFFICES ASSUME Init PROVE BlocksInv
  OBVIOUS
<1>1. TypesInv /\ RefsInv
  BY InitTypes, InitRefs
<1>2. \A p \in Procs : /\ pc[p] = "idle" /\ ~has[p] /\ puts[p] = <<>> /\ iputs[p] = "lock"
                       /\ cur[p] = None /\ ip[p] = None /\ dp[p] = None
  BY DEF Init
<1>3. \A p \in Procs : CallInv(p)
  BY <1>2 DEF CallInv, Shape
<1>4. LocksInv
  BY <1>2, FsAssumption DEF LocksInv, Locks, Holds, Init
<1>5. CacheInv
  BY DEF CacheInv, Init
<1>6. BlocksOnce
  <2>1. 1 \in Inums /\ 2 \in Inums
    BY FsAssumption DEF Inums
  <2>2. /\ dinode[1].blk = 1 /\ dinode[2].blk = 2
        /\ \A i \in Inums \ {1, 2} : dinode[i].blk = None
    BY <2>1 DEF Init, Root, Free
  <2> QED
    BY <2>1, <2>2 DEF BlocksOnce, Init, None
<1> QED
  BY <1>1, <1>3, <1>4, <1>5, <1>6 DEF BlocksInv

LEMMA InitLinkInv == Init => LinkInv
<1> SUFFICES ASSUME Init PROVE LinkInv
  OBVIOUS
<1>1. /\ Root \in Inums /\ 2 \in Inums /\ 2 # Root /\ None \notin Inums
      /\ \A x \in Inums : x # None
  BY FsAssumption DEF Root, Inums, None
<1>2. PICK n \in Names :
         ents = [i \in Inums |-> IF i = Root THEN [NoEntries EXCEPT ![n] = 2] ELSE NoEntries]
  BY DEF Init
<1>3. \A a \in Inums, m \in Names : ents[a][m] = IF a = Root /\ m = n THEN 2 ELSE None
  BY <1>2 DEF NoEntries
<1>4. /\ dinode[Root].type = "DIR" /\ dinode[Root].nlink = 1
      /\ dinode[2].type = "FILE" /\ dinode[2].nlink = 1
      /\ \A i \in Inums \ {Root, 2} : dinode[i].type = "FREE"
  BY <1>1 DEF Init, Free
<1>5. \A p \in Procs : /\ pc[p] = "idle" /\ puts[p] = <<>> /\ cwd[p] = Root /\ fd[p] = None
                       /\ cur[p] = None /\ ip[p] = None /\ dp[p] = None /\ iputs[p] = "lock"
  BY DEF Init
<1>6. DirsInv
  BY <1>1, <1>3, <1>4 DEF DirsInv, None
<1>7. ASSUME NEW p \in Procs PROVE UsedInv(p) /\ PlacesInv(p)
  <2>1. \A x \in Inums : Has(p, x) => x = Root
    BY <1>1, <1>5 DEF Has, Cwd
  <2>2. UsedInv(p)
    BY <1>4, <2>1 DEF UsedInv
  <2> QED
    BY <1>5, <2>2 DEF PlacesInv
<1>8. NamesInv
  BY <1>3 DEF NamesInv, Named
<1>9. \A i \in Inums : Pending(i) = {}
  BY <1>1, <1>5 DEF Pending
<1>10. EntriesOf(Root) = {} /\ EntriesOf(2) = {<<Root, n>>}
  <2>1. ASSUME NEW e PROVE e \in EntriesOf(Root) <=> FALSE
    BY <1>1, <1>3 DEF EntriesOf, None
  <2>2. ASSUME NEW a \in Inums, NEW m \in Names PROVE ents[a][m] = 2 <=> a = Root /\ m = n
    BY <1>1, <1>3 DEF None
  <2>3. ASSUME NEW e PROVE e \in EntriesOf(2) <=> e = <<Root, n>>
    BY <1>1, <2>2 DEF EntriesOf
  <2> QED
    BY <2>1, <2>3
<1>11. Subdirs(Root) = {} /\ Subdirs(2) = {}
  BY <1>1, <1>3, <1>4 DEF Subdirs
<1>12. LinksOf(Root) = 1 /\ LinksOf(2) = 1
  <2>1. Cardinality({}) = 0 /\ Cardinality({<<Root, n>>}) = 1
    BY FS_EmptySet, FS_Singleton
  <2> QED
    BY <1>1, <1>9, <1>10, <1>11, <2>1 DEF LinksOf
<1>13. CountInv
  BY <1>1, <1>4, <1>12 DEF CountInv
<1> QED
  BY <1>6, <1>7, <1>8, <1>13 DEF LinkInv

-----------------------------------------------------------------------------
(* The theorems *)

\* Locks, references, the cache and the blocks agree with what the calls have.
THEOREM BlocksInvariance == Spec => []BlocksInv
  BY InitBlocksInv, NextInv, PTL DEF Spec

\* balloc, bmap and itrunc: a block belongs to one inode and is marked in use exactly then.
THEOREM EachBlockOnce == Spec => []BlocksOnce
<1>1. BlocksInv => BlocksOnce
  BY DEF BlocksInv
<1> QED
  BY <1>1, BlocksInvariance, PTL

RefsAndCache ==
    \A i \in Inums : /\ ref[i] = Cardinality(Uses(i)) + (IF i = Root THEN 1 ELSE 0)
                     /\ valid[i] /\ ref[i] > 0 /\ lock[i] = NoProc => copy[i] = dinode[i]

\* iget, iput, ilock, iupdate: the references counted are those that processes have, and what
\* is cached of an inode that nobody has locked is what is on the disk.
THEOREM CacheKept == Spec => []RefsAndCache
<1>1. BlocksInv => RefsAndCache
  <2> SUFFICES ASSUME BlocksInv, NEW i \in Inums
               PROVE  /\ ref[i] = Cardinality(Uses(i)) + (IF i = Root THEN 1 ELSE 0)
                      /\ valid[i] /\ ref[i] > 0 /\ lock[i] = NoProc => copy[i] = dinode[i]
    BY DEF RefsAndCache
  <2>1. ASSUME lock[i] = NoProc PROVE ~Freed(i)
    BY <2>1, FsAssumption DEF Freed, BlocksInv, LocksInv, Locks
  <2> QED
    BY <2>1 DEF BlocksInv, RefsInv, CacheInv
<1> QED
  BY <1>1, BlocksInvariance, PTL

\* bfree never panics: whatever is freed is marked in use.
NoDoubleFree == "freeing free block" \notin panicked

LEMMA StepQuiet == ASSUME NEW p, Step(p) PROVE UNCHANGED panicked
  BY DEF Step, Begin, Lock, Walk, Iput, IputLock, IputFree, IputRelease, IputDeref, Open, PutIp,
     Create, CreateExists, CreateNew, Made, Link, DirLink, LinkFails, Bad, Unlink, UnlinkEntry,
     UnlinkFails, Chdir, SetCwd, Chmod, Close, StartWrite, Write

LEMMA FreesUsed ==
    ASSUME BlocksInv, NEW p \in Procs, Panic(p, "freeing free block")
    PROVE  FALSE
<1>1. PICK i : i = Head(puts[p])
  OBVIOUS
<1>2. Putting(p, "free") /\ ~(BlocksOf(i) \subseteq bitmap)
  BY <1>1 DEF Panic
<1>3. i \in Inums /\ lock[i] = p /\ iputs[p] = "free"
  BY <1>1, <1>2, PuttingIs DEF Locks
<1>4. copy[i] = dinode[i]
  BY <1>3, LockedCopy
<1>5. dinode[i].blk \in bitmap \cup {None}
  BY <1>3 DEF BlocksInv, BlocksOnce
<1> QED
  BY <1>2, <1>4, <1>5 DEF BlocksOf

THEOREM NothingFreedTwice == Spec => []NoDoubleFree
<1>1. Init => NoDoubleFree
  BY DEF Init, NoDoubleFree
<1>2. BlocksInv /\ NoDoubleFree /\ [Next]_vars => NoDoubleFree'
  <2> SUFFICES ASSUME BlocksInv, NoDoubleFree, [Next]_vars PROVE NoDoubleFree'
    OBVIOUS
  <2>1. ASSUME NEW p \in Procs, Step(p) PROVE NoDoubleFree'
    BY <2>1, StepQuiet DEF NoDoubleFree
  <2>2. ASSUME NEW p \in Procs, NEW what, Panic(p, what) PROVE NoDoubleFree'
    <3>1. what # "freeing free block"
      BY <2>2, FreesUsed
    <3> QED
      BY <2>2, <3>1 DEF Panic, NoDoubleFree
  <2>3. CASE UNCHANGED vars
    BY <2>3 DEF vars, NoDoubleFree
  <2> QED
    BY <2>1, <2>2, <2>3 DEF Next
<1> QED
  BY <1>1, <1>2, BlocksInvariance, PTL DEF Spec

\* What processes have is allocated, entries are to allocated inodes, and links are counted,
\* while the directories that processes are in have a parent.
THEOREM LinkInvariance == Spec /\ []ParentsNamed => []LinkInv
<1>1. BlocksInv /\ LinkInv /\ ParentsNamed /\ [Next]_vars => LinkInv'
  BY NextInv DEF LinksKept
<1> QED
  BY <1>1, InitLinkInv, BlocksInvariance, PTL DEF Spec

\* create, link, unlink, iput: an inode's links are its names, its subdirectories and what
\* calls under way owe it, on every path that fails, too.
THEOREM LinksCounted == Spec /\ []ParentsNamed => []LinksExact
<1>1. BlocksInv /\ LinkInv => LinksExact
  <2> SUFFICES ASSUME BlocksInv, LinkInv PROVE LinksExact
    OBVIOUS
  <2>1. ASSUME NEW d \in Inums, NEW n \in Names, ents[d][n] # None PROVE ents[d][n] \in Allocated
    <3>1. ents[d][n] \in Inums
      BY <2>1 DEF BlocksInv, TypesInv, DataTypes, Slot
    <3> QED
      BY <2>1, <3>1 DEF LinkInv, DirsInv, Allocated
  <2> QED
    BY <2>1 DEF LinksExact, LinkInv, CountInv, Allocated
<1> QED
  BY <1>1, BlocksInvariance, LinkInvariance, PTL

OnlyOut == panicked \subseteq {"ialloc: no inodes", "iget: no inodes", "balloc: out of blocks"}

\* ilock finds a type, and unlink a link.
LEMMA PanicsOut ==
    ASSUME BlocksInv, LinkInv, OnlyOut, [Next]_vars
    PROVE  OnlyOut'
<1>1. ASSUME NEW p \in Procs, Panic(p, "ilock: no type") PROVE FALSE
  <2>1. PICK x : x = Target(p)
    OBVIOUS
  <2>2. x # None /\ dinode[x].type = "FREE"
    BY <1>1, <2>1 DEF Panic, CanLock, NoType
  <2>3. x \in {fd[p], cur[p], ip[p], dp[p]}
    BY <2>1, <2>2, TargetIs
  <2>4. x \in Inums
    BY <2>2, <2>3 DEF BlocksInv, TypesInv, LocalTypes, Slot
  <2> QED
    BY <2>2, <2>3, <2>4 DEF LinkInv, UsedInv, Has
<1>2. ASSUME NEW p \in Procs, Panic(p, "unlink: nlink < 1") PROVE FALSE
  <2>1. At(p, "unlinked") /\ copy[ip[p]].nlink = 0
    BY <1>2 DEF Panic
  <2>2. /\ pc[p] = "unlinked" /\ has[p] /\ puts[p] = <<>> /\ LocalTypes /\ CallInv(p)
        /\ \A x \in Inums : lock[x] = p <=> Holds(p, x)
    BY <2>1, AtIs
  <2>3. dp[p] \in Inums /\ ip[p] \in Inums /\ Head(path[p]) \in Names
    BY <2>2 DEF CallInv, Shape, LocalTypes, Slot
  <2>4. lock[ip[p]] = p
    BY <2>2, <2>3 DEF Holds, Target
  <2>5. copy[ip[p]] = dinode[ip[p]]
    BY <2>2, <2>3, <2>4, OwnInode
  <2>6. Named(ip[p])
    <3>1. ents[dp[p]][Head(path[p])] = ip[p]
      BY <2>2 DEF LinkInv, PlacesInv
    <3>2. <<dp[p], Head(path[p])>> \in EntriesOf(ip[p])
      BY <2>3, <3>1 DEF EntriesOf
    <3> QED
      BY <3>2 DEF Named
  <2>7. dinode[ip[p]].nlink >= 1
    BY <2>3, <2>6, NamedHasLink
  <2> QED
    BY <2>1, <2>5, <2>7
<1>3. ASSUME NEW p \in Procs, Step(p) PROVE OnlyOut'
  BY <1>3, StepQuiet DEF OnlyOut
<1>4. ASSUME NEW p \in Procs, NEW what \in Messages, Panic(p, what) PROVE OnlyOut'
  <2>1. what \notin {"ilock: no type", "unlink: nlink < 1", "freeing free block"}
    BY <1>1, <1>2, <1>4, FreesUsed
  <2> QED
    BY <1>4, <2>1 DEF Panic, OnlyOut, Messages
<1>5. CASE UNCHANGED vars
  BY <1>5 DEF vars, OnlyOut
<1> QED
  BY <1>3, <1>4, <1>5 DEF Next

THEOREM OutOnly == Spec /\ []ParentsNamed => []OnlyOut
<1>1. Init => OnlyOut
  BY DEF Init, OnlyOut
<1>2. BlocksInv /\ LinkInv /\ OnlyOut /\ [Next]_vars => OnlyOut'
  BY PanicsOut
<1> QED
  BY <1>1, <1>2, BlocksInvariance, LinkInvariance, PTL DEF Spec

\* iget, iput, ilock, ialloc: what a process uses stays allocated until it is freed, and the
\* kernel panics only when something has run out.
THEOREM InodesInUseKept == Spec /\ []ParentsNamed => []InodesKept
<1>1. BlocksInv /\ LinkInv /\ RefsAndCache /\ OnlyOut => InodesKept
  <2> SUFFICES ASSUME BlocksInv, LinkInv, NEW p \in Procs, NEW k \in 1..5
               PROVE  Hand(p)[k] \in Allocated \cup {None}
    BY DEF InodesKept, RefsAndCache, OnlyOut
  <2>1. /\ fd[p] \in Slot /\ Cwd(p) \in Slot /\ cur[p] \in Slot /\ ip[p] \in Slot /\ dp[p] \in Slot
        /\ puts[p] \in Seq(Inums)
    BY DEF BlocksInv, TypesInv, LocalTypes, Slot, Cwd
  <2>2. Hand(p) = <<fd[p], Cwd(p), cur[p], ip[p], dp[p]>> \o puts[p]
    BY DEF Hand, Cwd
  <2>3. (<<fd[p], Cwd(p), cur[p], ip[p], dp[p]>> \o puts[p])[k] \in {fd[p], Cwd(p), cur[p], ip[p], dp[p]}
    BY <2>1
  <2>4. \A x \in {fd[p], Cwd(p), cur[p], ip[p], dp[p]} : x # None => x \in Inums /\ dinode[x].type # "FREE"
    BY <2>1 DEF Slot, LinkInv, UsedInv, Has
  <2> QED
    BY <2>2, <2>3, <2>4 DEF Allocated
<1> QED
  BY <1>1, BlocksInvariance, LinkInvariance, CacheKept, OutOnly, PTL

\* create and unlink lock a directory before what is in it: two processes wait for each
\* other's inodes only if one of them is in iput.
THEOREM IputOnlyDeadlocks == Spec /\ []ParentsNamed => []OnlyIputDeadlocks
<1>1. BlocksInv /\ LinkInv => OnlyIputDeadlocks
  <2> SUFFICES ASSUME BlocksInv, LinkInv, NEW p \in Procs, NEW q \in Procs,
                      WaitsFor(p, q), WaitsFor(q, p), puts[p] = <<>>, puts[q] = <<>>
               PROVE  FALSE
    BY DEF OnlyIputDeadlocks
  <2>1. ASSUME NEW a \in Procs, NEW b \in Procs, WaitsFor(a, b), puts[a] = <<>>, puts[b] = <<>>, ~has[b]
        PROVE  /\ pc[b] \in {"new", "unlinked"} /\ dp[b] \in Inums /\ dp[b] = Target(a)
               /\ ip[b] \in Inums /\ Target(b) = ip[b]
    <3>1. Target(a) # None /\ lock[Target(a)] = b
      BY <2>1 DEF WaitsFor, Wanted
    <3>2. Target(a) \in Inums
      BY <3>1, TargetIs DEF BlocksInv, TypesInv, LocalTypes, Slot
    <3>3. Holds(b, Target(a))
      BY <2>1, <3>1, <3>2, FsAssumption DEF BlocksInv, LocksInv, Locks
    <3>4. pc[b] \in {"new", "unlinked"} /\ dp[b] = Target(a)
      BY <2>1, <3>3 DEF Holds, BlocksInv, CallInv
    <3>5. ip[b] \in Inums
      BY <3>4 DEF BlocksInv, CallInv, Shape, TypesInv, LocalTypes, Slot
    <3> QED
      BY <3>2, <3>4, <3>5 DEF Target
  <2>2. ~has[p] /\ ~has[q]
    BY DEF WaitsFor, Wanted
  <2>3. /\ pc[p] \in {"new", "unlinked"} /\ dp[p] \in Inums /\ ip[p] \in Inums /\ dp[p] = ip[q]
        /\ pc[q] \in {"new", "unlinked"} /\ dp[q] \in Inums /\ ip[q] \in Inums /\ dp[q] = ip[p]
    BY <2>1, <2>2
  <2>4. PlacesInv(p) /\ PlacesInv(q) /\ CallInv(p) /\ CallInv(q)
    BY DEF LinkInv, BlocksInv
  <2>5. ASSUME NEW a \in Procs, NEW b \in Procs, pc[a] = "new", PlacesInv(a), dp[b] = ip[a], dp[a] = ip[b]
        PROVE  FALSE
    BY <2>5 DEF PlacesInv, Sole, Has
  <2>6. CASE pc[p] = "unlinked" /\ pc[q] = "unlinked"
    <3>1. ents[dp[p]][Head(path[p])] = dp[q] /\ ents[dp[q]][Head(path[q])] = dp[p]
      BY <2>3, <2>4, <2>6 DEF PlacesInv
    <3>2. Head(path[p]) \in Names /\ Head(path[q]) \in Names
      BY <2>4, <2>6 DEF CallInv
    <3>3. dp[p] # None /\ dp[q] # None
      BY <2>3, FsAssumption DEF None, Inums
    <3> QED
      BY <2>3, <3>1, <3>2, <3>3 DEF LinkInv, DirsInv
  <2> QED
    BY <2>3, <2>4, <2>5, <2>6
<1> QED
  BY <1>1, BlocksInvariance, LinkInvariance, PTL

=============================================================================
