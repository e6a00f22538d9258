----------------------------- MODULE ShellOutput -----------------------------
(* What the commands that Shell runs are to print.                               *)
EXTENDS Shell, SequencesExt

\* What a command prints, given its input
RECURSIVE Prints(_, _)
Prints(c, in) ==
    CASE c.type = "EXEC" -> IF c.prog = "echo" THEN Text ELSE IF c.prog = "cat" THEN in ELSE <<>>
      [] c.type = "PIPE" -> Prints(c.right, Prints(c.left, in))
      [] c.type = "LIST" -> Prints(c.left, in) \o Prints(c.right, in)
      [] c.type = "BACK" -> Prints(c.cmd, in)
      [] c.type = "REDIR" -> <<>>

-----------------------------------------------------------------------------
(* Properties *)

\* What the commands of a line print is what echo wrote, through any number of pipes
\* and in any interleaving: nothing lost, doubled or out of order, and all of it when
\* the shell asks for the next line, unless a process was killed or could not start.
Meant == IF doing = NoCmd THEN <<>> ELSE Prints(doing, given)
OutputRight == ~faulty =>
    /\ IsPrefix(out, Meant)
    /\ (\E p \in Procs : pc[p] = "getcmd" /\ buf[p] = <<>>) /\ doing.type # "BACK" => out = Meant
=============================================================================
