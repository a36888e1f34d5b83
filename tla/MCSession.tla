----------------------------- MODULE MCSession ------------------------------
(***************************************************************************)
(* Finite instances of Session for TLC.                                    *)
(***************************************************************************)
EXTENDS Session, TLC

CONSTANTS w1, w2, d1, d2, d3, u1, u2, t1

MCWindows == {w1, w2}
MCDocs == {d1, d2, d3}
MCUris == {u1, u2}

\* One file may be shown twice; the tab of the other may be moved.
MCUriOf == [d \in MCDocs |-> IF d = d3 THEN u2 ELSE u1]
MCMovable == {d3}
MCTimers == {t1}

\* Windows are interchangeable, and so are the two documents of one file.
Symmetry == Permutations(MCWindows) \cup Permutations({d1, d2})

OnlyInitError == {"init_error"}
NoFaults == {}
=============================================================================
