------------------------------ MODULE Terminal ------------------------------
(* What the console promises its readers: whole lines, edited.  What is typed   *)
(* stays on the line until a newline or an end of file hands the line over;     *)
(* until then it can be erased, afterwards it cannot, and readers take what has *)
(* been handed over in order.  A line that fills the console is handed over.    *)
EXTENDS Naturals, Sequences

CONSTANTS Chars, Ends, CAP

VARIABLES line,   \* what is being typed
          ready   \* what has been handed over and not been read

tvars == <<line, ready>>

Init == line = <<>> /\ ready = <<>>

Type(c) == /\ Len(ready) + Len(line) < CAP
           /\ IF c \in Ends \/ Len(ready) + Len(line) + 1 = CAP
              THEN ready' = ready \o Append(line, c) /\ line' = <<>>
              ELSE line' = Append(line, c) /\ UNCHANGED ready

Erase == /\ line # <<>>
         /\ line' = SubSeq(line, 1, Len(line) - 1)
         /\ UNCHANGED ready

Kill == line' = <<>> /\ UNCHANGED ready

Read(n) == ready' = SubSeq(ready, n + 1, Len(ready)) /\ UNCHANGED line

Next == \/ \E c \in Chars : Type(c)
        \/ Erase \/ Kill
        \/ \E n \in 1..Len(ready) : Read(n)

Spec == Init /\ [][Next]_tvars
=============================================================================
