---------------------------- MODULE MCTransport ----------------------------
(***************************************************************************)
(* Finite instances of Transport for TLC.                                  *)
(***************************************************************************)
EXTENDS Transport

MCLengthOf == [len1 |-> 1, len2 |-> 2, len3 |-> 3]

\* Bodies of one to three characters; one with a line break of its own; two with
\* a character that is not ASCII.
MCScripts ==
    {<<<<"x">>, <<"x", "x">>>>, <<<<"x", "x">>, <<"x", "x", "x">>>>,
     <<<<"x", "x", "x">>, <<"x">>>>, <<<<"x", "CR", "LF">>, <<"x">>>>,
     <<<<"x", "x">>, <<"x">>, <<"x", "x">>>>,
     <<<<"x", "u">>>>, <<<<"u", "u">>, <<"x">>>>}

\* Nothing, a line, a blank line, and a line of a console in text mode.
MCPrints == {<<>>, <<"text", "LF">>, <<"LF", "LF">>, <<"text", "CR", "LF">>}

OneMessage == {<<<<"x", "x">>>>}
OnlyShort == {TRUE}
NothingPrinted == {<<>>}

Both == {"reading", "writing"}
OnlyReading == {"reading"}
=============================================================================
