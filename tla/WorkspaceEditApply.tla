------------------------- MODULE WorkspaceEditApply -------------------------
(***************************************************************************)
(* A workspace edit of rename or of a code action: _begin_apply of         *)
(* src/gedit_lsp/features/rename.py and _apply_with_load of                *)
(* src/gedit_lsp/features/code_action.py open the files that have no       *)
(* buffer (navigation.py, default_load_uri), wait until each is loaded,    *)
(* and then edit every buffer there is (workspace_edit.py).  Several edits *)
(* may be under way.  gedit may fail to load a file, which then stays      *)
(* "loading" in its tab, and the user may open and close tabs at any time. *)
(***************************************************************************)
EXTENDS Naturals, FiniteSets

CONSTANTS
    Files,
    WorkspaceEdits,
    MaxOpened   \* bound on the tabs that are opened

VARIABLES
    file,       \* "missing" (not on the disk), "closed", "loading", "open"
    wants,      \* the files of each edit
    stage,      \* of each edit: "new", "loading", "applied"
    remaining,  \* the countdown of each edit
    callbacks,  \* pairs <<edit, file>>: `loaded` handlers of present documents
    skipped,    \* failed_uris of each edit
    tabs,       \* history: number of tabs opened
    gone        \* history: files whose tab the user has closed

vars == <<file, wants, stage, remaining, callbacks, skipped, tabs, gone>>

Init ==
    /\ file \in [Files -> {"missing", "closed", "open"}]
    /\ wants \in [WorkspaceEdits -> SUBSET Files \ {{}}]
    /\ stage = [e \in WorkspaceEdits |-> "new"]
    /\ remaining = [e \in WorkspaceEdits |-> 0]
    /\ callbacks = {}
    /\ skipped = [e \in WorkspaceEdits |-> {}]
    /\ tabs = 0
    /\ gone = {}

\* window.get_documents() has the document from the moment its tab exists.
HasBuffer(f) == file[f] \in {"loading", "open"}

\* apply_workspace_edit: one file that fails does not keep the others back.  A
\* file whose edits are malformed has a buffer, raises, and is reported as failed
\* too; the edits here are well formed.
Apply(e) ==
    /\ stage' = [stage EXCEPT ![e] = "applied"]
    /\ skipped' = [skipped EXCEPT ![e] = {f \in wants[e] : ~ HasBuffer(f)}]

\* The callback of a file that is not on the disk is called at once; the
\* countdown starts at the number of all files without a buffer.
BeginApply(e) ==
    /\ stage[e] = "new"
    /\ LET toLoad == {f \in wants[e] : ~ HasBuffer(f)}
           opens  == {f \in toLoad : file[f] = "closed"}
       IN  /\ tabs + Cardinality(opens) <= MaxOpened
           /\ tabs' = tabs + Cardinality(opens)
           /\ file' = [f \in Files |-> IF f \in opens THEN "loading" ELSE file[f]]
           /\ callbacks' = callbacks \cup ({e} \X opens)
           /\ remaining' = [remaining EXCEPT ![e] = Cardinality(opens)]
           /\ IF opens = {}
              THEN Apply(e)
              ELSE /\ stage' = [stage EXCEPT ![e] = "loading"]
                   /\ UNCHANGED skipped
    /\ UNCHANGED <<wants, gone>>

\* _on_one_loaded.  A slip: the edit is applied when the first file is there.
CountDownFirst(e) ==
    /\ remaining' = [remaining EXCEPT ![e] = @ - 1]
    /\ IF stage[e] = "loading" THEN Apply(e) ELSE UNCHANGED <<stage, skipped>>

CountDown(e) ==
    /\ remaining' = [remaining EXCEPT ![e] = @ - 1]
    /\ IF remaining[e] = 1 THEN Apply(e) ELSE UNCHANGED <<stage, skipped>>

\* gedit has loaded the file of a tab.  At most one edit waits for it: another
\* one finds the document, and does not wait for it.
Loaded(f) ==
    /\ file[f] = "loading"
    /\ file' = [file EXCEPT ![f] = "open"]
    /\ \/ \E e \in WorkspaceEdits :
             /\ <<e, f>> \in callbacks
             /\ callbacks' = callbacks \ {<<e, f>>}
             /\ CountDown(e)
       \/ /\ ~ \E e \in WorkspaceEdits : <<e, f>> \in callbacks
          /\ UNCHANGED <<stage, remaining, callbacks, skipped>>
    /\ UNCHANGED <<wants, tabs, gone>>

UserOpens(f) ==
    /\ file[f] = "closed"
    /\ tabs < MaxOpened
    /\ tabs' = tabs + 1
    /\ file' = [file EXCEPT ![f] = "loading"]
    /\ UNCHANGED <<wants, stage, remaining, callbacks, skipped, gone>>

\* A tab is closed, loaded or not; a callback that waits for its document is
\* never called.
TabClosed(f) ==
    /\ HasBuffer(f)
    /\ file' = [file EXCEPT ![f] = "closed"]
    /\ callbacks' = callbacks \ (WorkspaceEdits \X {f})
    /\ gone' = gone \cup {f}
    /\ UNCHANGED <<wants, stage, remaining, skipped, tabs>>

Next ==
    \/ \E e \in WorkspaceEdits : BeginApply(e)
    \/ \E f \in Files : Loaded(f) \/ UserOpens(f) \/ TabClosed(f)

Spec == Init /\ [][Next]_vars

----------------------------------------------------------------------------
\* An edit is applied when every file that was opened for it is loaded, and
\* leaves out only files that are not on the disk or that the user has closed.
AppliedWhole ==
    \A e \in WorkspaceEdits : stage[e] = "applied" =>
       /\ \A f \in Files : <<e, f>> \notin callbacks
       /\ \A f \in skipped[e] : file[f] = "missing" \/ f \in gone
=============================================================================
