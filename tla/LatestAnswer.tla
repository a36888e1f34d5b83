---------------------------- MODULE LatestAnswer ----------------------------
(***************************************************************************)
(* What a feature controller of src/gedit_lsp/features/ promises about the *)
(* answers it gets: whatever the order they come in, only the answer to    *)
(* the newest question is used, and once.  A new question makes every      *)
(* earlier answer worthless; so does an act by which the controller gives  *)
(* up its question, which is an Ask of nothing.                            *)
(***************************************************************************)
EXTENDS Naturals

VARIABLES
    asked,  \* number of the newest question
    used    \* number of the question whose answer was used last

vars == <<asked, used>>

Init ==
    /\ asked = 0
    /\ used = 0

Ask ==
    /\ asked' = asked + 1
    /\ UNCHANGED used

Use ==
    /\ used # asked
    /\ used' = asked
    /\ UNCHANGED asked

Next == Ask \/ Use

Spec == Init /\ [][Next]_vars
=============================================================================
