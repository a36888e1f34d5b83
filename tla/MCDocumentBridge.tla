-------------------------- MODULE MCDocumentBridge --------------------------
(***************************************************************************)
(* Finite instances of DocumentBridge for TLC.                             *)
(***************************************************************************)
EXTENDS DocumentBridge

MCChars == {"a", "b"}

\* One capability of each sync kind, and the rest that mean something else.
ThreeKinds == {"number_0", "options_1", "number_2"}
Incremental == {"options_2"}

Completion == {"completion"}
ThreeFeatures == {"completion", "hover", "rename"}
=============================================================================
