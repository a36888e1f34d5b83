-------------------------- MODULE MCLanguageServer --------------------------
(***************************************************************************)
(* Finite instances of LanguageServer for TLC.                             *)
(***************************************************************************)
EXTENDS LanguageServer, TLC

CONSTANTS u1, u2, t1, t2

MCUris == {u1, u2}
MCTimers == {t1, t2}

\* Buffers and timeout sources are interchangeable.
Symmetry == Permutations(MCUris) \cup Permutations(MCTimers)

AllFaults == FaultKinds
NoFaults == {}
OnlyInitError == {"init_error"}
OnlyMissingBinary == {"missing_binary"}
=============================================================================
