----------------------------- MODULE MCRequest -------------------------------
(* Request with the values TLC runs it with.  A string has one byte for each *)
(* word of it.                                                               *)
EXTENDS Request

MCLetters ==
    <<"runesc", "--", "rows", "30", "audible_bell", "false", "bgcolor", "#ff0000", "odd">>

NewTermOf(argv, envp) ==
    [kind |-> "new_term",
     msg |-> [argc |-> Len(argv), argv |-> argv, envp |-> envp, cwd |-> <<9>>]]

\* No option; a value that looks like an option; a colour and one that is
\* none; an option without a value, after an argument that is none; the end of
\* the daemon; a message that is too big.
MCRequests ==
    {NewTermOf(<<<<1>>>>, <<>>),
     NewTermOf(<<<<1>>, <<2, 3>>, <<2, 5>>, <<4>>>>, <<<<>>, <<4>>>>),
     NewTermOf(<<<<1>>, <<2, 7>>, <<8>>, <<2, 7>>, <<9>>>>, <<>>),
     NewTermOf(<<<<1>>, <<9>>, <<2, 5>>, <<6>>, <<2, 3>>>>, <<>>),
     [kind |-> "kill"],
     NewTermOf(<<<<1>>>>, <<[i \in 1..60 |-> 9]>>)}

Only(place, lines, newline) ==
    [p \in {"xdg", "home", "etc"} |->
        IF p = place THEN [lines |-> lines, newline |-> newline] ELSE Missing]

\* No file; two plain ones, one of them hidden; a long comment; a line without
\* '='; a key at the end of the file.
MCFileSystems ==
    {Only("xdg", <<>>, FALSE),
     [Only("home", <<<<"rows", "=", "30">>, <<"#", "odd">>, <<"bgcolor", "=", "odd">>>>, FALSE)
        EXCEPT !["etc"] = [lines |-> <<<<"rows", "=", "0">>>>, newline |-> TRUE]],
     Only("etc", <<<<"command", "=", "odd", "30">>, <<>>, <<"rows", "=", "30">>,
                   <<"rows", "=", "0">>, <<"audible_bell", "=", "false">>>>, TRUE),
     Only("xdg", <<<<"#", "odd", "odd", "odd", "odd", "rows", "=", "30">>>>, TRUE),
     Only("xdg", <<<<"rows", "30">>, <<"rows">>>>, FALSE)}

=============================================================================
