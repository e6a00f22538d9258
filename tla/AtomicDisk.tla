----------------------------- MODULE AtomicDisk -----------------------------
(***************************************************************************)
(* What the log promises to the file system: the calls in progress see one *)
(* disk, current; a crash brings back the disk as of the last commit,      *)
(* stable; and a commit happens only when no call is in progress, so that  *)
(* the writes of a call survive a crash all together or not at all.        *)
(***************************************************************************)
CONSTANTS Ops,     \* the processes that make file-system calls
          Blocks,  \* disk blocks
          Vals,    \* contents of a block
          Blank    \* the disk as mkfs made it

VARIABLES current,  \* what the calls read and write
          stable,   \* what survives a crash
          active    \* the calls in progress

dvars == <<current, stable, active>>

Init == /\ current = Blank
        /\ stable = Blank
        /\ active = {}

Begin(p) == /\ p \notin active
            /\ active' = active \cup {p}
            /\ UNCHANGED <<current, stable>>

Write(p, b, v) == /\ p \in active
                  /\ current' = [current EXCEPT ![b] = v]
                  /\ UNCHANGED <<stable, active>>

End(p) == /\ p \in active
          /\ active' = active \ {p}
          /\ UNCHANGED <<current, stable>>

Commit == /\ active = {}
          /\ stable' = current
          /\ UNCHANGED <<current, active>>

Crash == /\ current' = stable
         /\ active' = {}
         /\ UNCHANGED stable

Next == \/ \E p \in Ops : Begin(p) \/ End(p) \/ \E b \in Blocks, v \in Vals : Write(p, b, v)
        \/ Commit
        \/ Crash

Spec == Init /\ [][Next]_dvars
=============================================================================
