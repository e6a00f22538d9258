------------------------------ MODULE MCShell -------------------------------
(* Shell for TLC: some lines and what they mean, and what the user types. *)
EXTENDS ShellOutput, TLC

Echo == [type |-> "EXEC", prog |-> "echo"]
Cat == [type |-> "EXEC", prog |-> "cat"]
ToFile == [type |-> "REDIR", fd |-> 1, cmd |-> Echo]
List(c) == [type |-> "LIST", left |-> c, right |-> Echo]
Back(c) == [type |-> "BACK", cmd |-> c]
Pipe(l, r) == [type |-> "PIPE", left |-> l, right |-> r]

\* The lines are named by a letter: "f" needs more processes and pipes than there are,
\* "o" more files; "1" to "4" run out of processes at a fork of each kind.
MCCommand ==
    <<"e">> :> Echo
 @@ <<"c">> :> Cat
 @@ <<"p">> :> Pipe(Echo, Cat)
 @@ <<"q">> :> Pipe(Echo, Pipe(Cat, Cat))
 @@ <<"l">> :> [type |-> "LIST", left |-> Echo, right |-> Pipe(Cat, Cat)]
 @@ <<"b">> :> Back(Echo)
 @@ <<"r">> :> ToFile
 @@ <<"f">> :> Pipe(Pipe(Echo, Cat), Pipe(Cat, Cat))
 @@ <<"o">> :> Pipe(Echo, Pipe(Cat, ToFile))
 @@ <<"1">> :> List(List(List(List(List(Echo)))))
 @@ <<"2">> :> List(List(List(List(Back(Echo)))))
 @@ <<"3">> :> List(List(List(List(Pipe(Echo, Cat)))))
 @@ <<"4">> :> List(List(List(Pipe(Echo, Cat))))

RECURSIVE PartsOf(_)
PartsOf(c) == {c} \cup UNION {PartsOf(c[i]) : i \in {"left", "right", "cmd"} \cap DOMAIN c}
MCCommands == UNION {PartsOf(MCCommand[line]) : line \in DOMAIN MCCommand}

MCText == <<"h", "i", "NL">>

Killing == {<<"p", "NL">>, <<"c", "NL", "x", "EOF">>}
MCChars == {"NL", "EOF"} \cup {"e", "c", "p", "q", "l", "b", "r", "f", "o", "1", "2", "3", "4", "x"}
MCScripts == {<<"1", "NL">>, <<"2", "NL">>, <<"3", "NL">>, <<"4", "NL">>,
              <<"q", "NL">>, <<"f", "NL">>, <<"o", "NL">>, <<"b", "NL">>, <<"r", "NL">>,
              <<"p", "NL", "p", "NL">>,
              <<"l", "NL", "x", "EOF", "e", "NL">>,
              <<"x", "BS", "e", "NL", "EOF">>,
              <<"x", "x", "KILL", "e", "NL", "x", "x", "x", "x">>} \cup Killing
MCBytes == {"h", "i", "x", "NL"}
=============================================================================
