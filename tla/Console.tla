------------------------------- MODULE Console -------------------------------
(* The console's input: consoleintr's line editing in a ring, and consoleread.  *)
(* consoleintr handles all characters it finds at once; one at a time comes to   *)
(* the same, as a reader it wakes waits for cons.lock.  A step is one critical  *)
(* section of cons.lock; a reader that has to wait keeps it until it is asleep.  *)
EXTENDS Naturals, Sequences, FiniteSets, FiniteSetsExt

CONSTANTS Readers,     \* processes that may read the console
          Chars,       \* characters but for the editing keys, with "NL" and "EOF"
          INPUT_BUF,   \* size of the ring
          CMOD,        \* the indices are kept modulo CMOD (2^32)
          Nobody

ASSUME ConsoleAssumption == /\ {INPUT_BUF, CMOD} \subseteq Nat \ {0}
                            /\ CMOD > INPUT_BUF /\ CMOD % INPUT_BUF = 0
                            /\ {"NL", "EOF"} \subseteq Chars
                            /\ Nobody \notin Readers

VARIABLES ibuf, ir, iw, ie,   \* input: the ring, the read, write and edit index
          clock,              \* the holder of cons.lock
          reading,            \* consoleread: how many characters are still wanted,
                              \* and those read so far
          dozing              \* readers asleep on &input.r

cvars == <<ibuf, ir, iw, ie, clock, reading, dozing>>
ring == <<ibuf, ir, iw, ie>>

NotReading == [n |-> 0, got |-> <<>>]

ConsoleInit == /\ ibuf = [i \in 0..INPUT_BUF-1 |-> "NL"]
               /\ ir = 0 /\ iw = 0 /\ ie = 0
               /\ clock = Nobody
               /\ reading = [p \in Readers |-> NotReading]
               /\ dozing = {}

Minus(a, b) == (a + CMOD - b) % CMOD
Between(from, to) == [j \in 1..Minus(to, from) |-> ibuf[(from + j - 1) % INPUT_BUF]]

-----------------------------------------------------------------------------
(* consoleintr *)

\* Mutant: one character more than the ring holds.
HasRoomOneMore == Minus(ie, ir) <= INPUT_BUF

HasRoom == Minus(ie, ir) < INPUT_BUF

\* An ordinary character, newline or ^D; it is dropped if the ring is full.
Put(c) == /\ clock = Nobody
          /\ IF HasRoom
             THEN /\ ibuf' = [ibuf EXCEPT ![ie % INPUT_BUF] = c]
                  /\ ie' = (ie + 1) % CMOD
                  /\ IF c \in {"NL", "EOF"} \/ Minus(ie', ir) = INPUT_BUF
                     THEN iw' = ie' /\ dozing' = {}
                     ELSE UNCHANGED <<iw, dozing>>
             ELSE UNCHANGED <<ibuf, ie, iw, dozing>>
          /\ UNCHANGED <<ir, clock, reading>>

\* ^H
Backspace == /\ clock = Nobody
             /\ ie' = IF ie = iw THEN ie ELSE Minus(ie, 1)
             /\ UNCHANGED <<ibuf, ir, iw, clock, reading, dozing>>

\* ^U: back to what has been handed over, or to the last newline
KillLine ==
    LET typed == Between(iw, ie)
        newlines == {j \in DOMAIN typed : typed[j] = "NL"}
    IN  /\ clock = Nobody
        /\ ie' = IF newlines = {} THEN iw ELSE (iw + Max(newlines)) % CMOD
        /\ UNCHANGED <<ibuf, ir, iw, clock, reading, dozing>>

-----------------------------------------------------------------------------
(* consoleread *)

ConsoleRead(p, n) == /\ reading[p] = NotReading
                     /\ reading' = [reading EXCEPT ![p].n = n]
                     /\ UNCHANGED <<ring, clock, dozing>>

\* How many characters one run of the loop takes, and whether it ends the call
Taken(p) == LET ready == Between(ir, iw)
                most == Min({reading[p].n, Len(ready)})
                ends == {j \in 1..most : ready[j] \in {"NL", "EOF"}}
            IN  IF ends = {} THEN most ELSE Min(ends)
Ended(p) == \/ Taken(p) = reading[p].n
            \/ Taken(p) > 0 /\ Between(ir, iw)[Taken(p)] \in {"NL", "EOF"}
EofTaken(p) == Taken(p) > 0 /\ Between(ir, iw)[Taken(p)] = "EOF"

\* What the call has got then: a ^D is not part of it, and stays for the next call if
\* there is something before it.
Got(p) == reading[p].got \o SubSeq(Between(ir, iw), 1, Taken(p) - IF EofTaken(p) THEN 1 ELSE 0)
Consumed(p) == IF EofTaken(p) /\ Got(p) # <<>> THEN Taken(p) - 1 ELSE Taken(p)

InConsole(p) == reading[p] # NotReading /\ p \notin dozing /\ clock = Nobody

\* consoleread returns Got(p).
ConsoleDone(p) == /\ InConsole(p) /\ Ended(p)
                  /\ ir' = (ir + Consumed(p)) % CMOD
                  /\ reading' = [reading EXCEPT ![p] = NotReading]
                  /\ UNCHANGED <<ibuf, iw, ie, clock, dozing>>

\* It has taken all there is and must wait, or fails if p has been killed.
ConsoleWait(p, dead) ==
    /\ InConsole(p) /\ ~Ended(p)
    /\ ir' = iw
    /\ IF dead
       THEN reading' = [reading EXCEPT ![p] = NotReading] /\ UNCHANGED clock
       ELSE /\ reading' = [reading EXCEPT ![p] = [n |-> @.n - Taken(p), got |-> Got(p)]]
            /\ clock' = p
    /\ UNCHANGED <<ibuf, iw, ie, dozing>>

ConsoleSleep(p) == /\ clock = p
                   /\ clock' = Nobody
                   /\ dozing' = dozing \cup {p}
                   /\ UNCHANGED <<ring, reading>>

\* kill wakes a reader.
ConsoleKill(p) == /\ dozing' = dozing \ {p}
                  /\ UNCHANGED <<ring, clock, reading>>

-----------------------------------------------------------------------------
(* Properties *)

Lines == INSTANCE Terminal WITH
    line <- Between(iw, ie), ready <- Between(ir, iw),
    Ends <- {"NL", "EOF"}, CAP <- INPUT_BUF

\* The ring and its three indices, which wrap at different times, implement lines
\* that are edited until they are handed over and read once, in order.
ImplementsTerminal == Lines!Spec
=============================================================================
