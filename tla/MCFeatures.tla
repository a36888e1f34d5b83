----------------------------- MODULE MCFeatures -----------------------------
(***************************************************************************)
(* Finite instances of Features for TLC.                                   *)
(***************************************************************************)
EXTENDS Features

CONSTANTS p1, p2, f1, f2, f3, e1, e2, w1, w2

MCProposals == {p1, p2}
MCFiles == {f1, f2, f3}
MCWorkspaceEdits == {e1, e2}
MCWindows == {w1, w2}
MCDocuments == {f1, f2}
MCNames == {"class", "method", "field"}

\* Errors, warnings and hints, of which hints have no style.
MCSeverities == {1, 2, 4}
MCStyled == {1, 2}

\* A removal, a replacement or insertion, and one that ends the line.
MCNewTexts == {<<>>, <<"b">>, <<"b", "N">>}

OnlySymbols == {"symbols"}
=============================================================================
