----------------------------- MODULE BlockStore -----------------------------
(* What the buffer cache promises: a caller that bread has given a block has   *)
(* it alone and sees what the last holder left in it; the disk changes only   *)
(* when a holder writes the block, to what the block holds then.              *)
CONSTANTS Procs, Blocks, Vals, NoVal

VARIABLES holders,  \* who has each block
          mem,      \* what the block holds
          seen,     \* what each holder sees of it
          disk      \* what is on the disk

vars == <<holders, mem, seen, disk>>

Init == /\ holders = [b \in Blocks |-> {}]
        /\ disk \in [Blocks -> Vals]
        /\ mem = disk
        /\ seen = [p \in Procs |-> NoVal]

Bread(p, b) == /\ seen[p] = NoVal
               /\ holders[b] = {}
               /\ holders' = [holders EXCEPT ![b] = {p}]
               /\ seen' = [seen EXCEPT ![p] = mem[b]]
               /\ UNCHANGED <<mem, disk>>

Modify(p, b, v) == /\ p \in holders[b]
                   /\ mem' = [mem EXCEPT ![b] = v]
                   /\ seen' = [seen EXCEPT ![p] = v]
                   /\ UNCHANGED <<holders, disk>>

Bwrite(p, b) == /\ p \in holders[b]
                /\ disk' = [disk EXCEPT ![b] = mem[b]]
                /\ UNCHANGED <<holders, mem, seen>>

Brelse(p, b) == /\ p \in holders[b]
                /\ holders' = [holders EXCEPT ![b] = {}]
                /\ seen' = [seen EXCEPT ![p] = NoVal]
                /\ UNCHANGED <<mem, disk>>

Next == \E p \in Procs, b \in Blocks :
           \/ Bread(p, b) \/ Bwrite(p, b) \/ Brelse(p, b)
           \/ \E v \in Vals : Modify(p, b, v)

Spec == Init /\ [][Next]_vars
=============================================================================
