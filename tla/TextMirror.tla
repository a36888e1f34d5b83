----------------------------- MODULE TextMirror -----------------------------
(***************************************************************************)
(* What document synchronisation promises: the language server's copy of   *)
(* an open document changes only by becoming, in one step, the text the    *)
(* buffer has at that moment; nothing is ever half applied, replayed or    *)
(* applied to the wrong base.  The one exception is the end: a document    *)
(* closed with unsaved edits may first be put back to the file's text.     *)
(***************************************************************************)
CONSTANT Texts     \* the texts a document can have

VARIABLES text,    \* the buffer in the editor
          file,    \* the text of the file on disk
          open,    \* the server has the document open
    wanted,  \* the server asked to be told of changes
          view     \* the server's copy; the last one it had when not open

vars == <<text, file, open, wanted, view>>

Init ==
    /\ text \in Texts
    /\ file = text
    /\ open = FALSE
    /\ wanted \in BOOLEAN
    /\ view = text

Open ==
    /\ ~open
    /\ open' = TRUE
    /\ wanted' \in BOOLEAN
    /\ view' = text
    /\ UNCHANGED <<text, file>>

Edit ==
    /\ text' \in Texts
    /\ UNCHANGED <<file, open, wanted, view>>

\* What the server asks for becomes known only once it is up.
Negotiate ==
    /\ wanted' \in BOOLEAN
    /\ UNCHANGED <<text, file, open, view>>

Sync ==
    /\ open
    /\ wanted
    /\ view' = text
    /\ UNCHANGED <<text, file, open, wanted>>

\* A save of an open document brings the server to the saved text as well,
\* unless it does not want to know.
Save ==
    /\ file' = text
    /\ view' = IF open /\ wanted THEN text ELSE view
    /\ UNCHANGED <<text, open, wanted>>

\* Closing forgets unsaved edits: the next buffer is loaded from the file.
Close ==
    /\ open
    /\ open' = FALSE
    /\ text' = file
    /\ view' \in {view, file}
    /\ UNCHANGED <<file, wanted>>

\* The plugin is switched off: the buffer stays, the server forgets it.
Release ==
    /\ open
    /\ open' = FALSE
    /\ UNCHANGED <<text, file, wanted, view>>

Next == Open \/ Edit \/ Negotiate \/ Sync \/ Save \/ Close \/ Release

Spec == Init /\ [][Next]_vars
=============================================================================
