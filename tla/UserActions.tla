---------------------------- MODULE UserActions ----------------------------
(***************************************************************************)
(* One rename (src/gedit_lsp/features/rename.py) or code action            *)
(* (features/code_action.py) from the menu to its end: what is asked of    *)
(* the server, the popover in which the user types a name or picks an      *)
(* action, and the edit and the command that come of it.  Both controllers *)
(* keep all of this in callbacks, so that a second one interferes with     *)
(* nothing here.  WorkspaceEditApply has the files of an edit; here they   *)
(* are counted.                                                            *)
(***************************************************************************)
EXTENDS Naturals, Sequences, SequencesExt

CONSTANT MaxLoads   \* bound on the files an edit must open

VARIABLES
    kind,        \* "rename" or "codeAction"
    phase,       \* "idle", "offered" (prepare or list), "picking", "asked"
                 \* (rename or resolve), "loading", "ended"
    picker,      \* the popover: "none", "shown", "closing" (its closed signal
                 \* is still to come)
    committable, \* _on_commit of the popover is set
    carries,     \* what the rename or the action holds
    loading,     \* files that are still to be loaded
    window,      \* the window is there
    effects      \* history: what was asked and done, in order

vars == <<kind, phase, picker, committable, carries, loading, window, effects>>

Init ==
    /\ kind \in {"rename", "codeAction"}
    /\ phase = "idle"
    /\ picker = "none"
    /\ committable = FALSE
    /\ carries = {}
    /\ loading = 0
    /\ window = TRUE
    /\ effects = <<>>

\* RenamePopover.show, CodeActionPopover.show.
Show ==
    /\ phase' = "picking"
    /\ picker' = "shown"
    /\ committable' = TRUE

End ==
    /\ phase' = "ended"
    /\ UNCHANGED <<picker, committable>>

\* The popover is shown at once if the server cannot prepare a rename.
TriggerRename ==
    /\ window /\ kind = "rename" /\ phase = "idle"
    /\ Show \/ (phase' = "offered" /\ UNCHANGED <<picker, committable>>)
    /\ UNCHANGED <<kind, carries, loading, window, effects>>

\* on_prepare: null refuses, and an error does not.
OnPrepare ==
    /\ window /\ kind = "rename" /\ phase = "offered"
    /\ Show \/ End
    /\ UNCHANGED <<kind, carries, loading, window, effects>>

TriggerAction ==
    /\ window /\ kind = "codeAction" /\ phase = "idle"
    /\ phase' = "offered"
    /\ UNCHANGED <<kind, picker, committable, carries, loading, window, effects>>

\* _dispatch_response: an error, or no action that is well formed, ends it.
OnList ==
    /\ window /\ kind = "codeAction" /\ phase = "offered"
    /\ Show \/ End
    /\ UNCHANGED <<kind, carries, loading, window, effects>>

----------------------------------------------------------------------------
\* apply_workspace_edit, and _finish, which executes the command.  Nothing is
\* done when the window is closed.
Finish(parts, sofar) ==
    /\ phase' = "ended"
    /\ effects' = IF ~window THEN effects
                  ELSE sofar \o (IF "edit" \in parts THEN <<"edit">> ELSE <<>>)
                             \o (IF "command" \in parts THEN <<"command">> ELSE <<>>)

\* _execute, _begin_apply.  A slip: the command does not wait for the files.
ExecuteCommandFirst(parts, sofar) ==
    /\ carries' = parts
    /\ IF "edit" \notin parts THEN Finish(parts, sofar) /\ UNCHANGED loading
       ELSE \E n \in 0..MaxLoads :
              /\ loading' = n
              /\ IF n = 0 THEN Finish(parts, sofar)
                 ELSE /\ phase' = "loading"
                      /\ effects' = sofar \o (IF "command" \in parts
                                              THEN <<"command">> ELSE <<>>)

Execute(parts, sofar) ==
    /\ carries' = parts
    /\ IF "edit" \notin parts THEN Finish(parts, sofar) /\ UNCHANGED loading
       ELSE \E n \in 0..MaxLoads :
              /\ loading' = n
              /\ IF n = 0 THEN Finish(parts, sofar)
                 ELSE phase' = "loading" /\ effects' = sofar

Ask(request) ==
    /\ phase' = "asked"
    /\ effects' = Append(effects, request)
    /\ UNCHANGED <<carries, loading>>

\* An activation of the popover, which may come while it is closing, takes the
\* callback.  A slip: the callback is kept, for the popover goes anyway.
CommittingKeepsCallback ==
    /\ window /\ picker # "none"
    /\ committable
    /\ picker' = "closing"
    /\ UNCHANGED <<kind, committable, window>>

Committing ==
    /\ window /\ picker # "none"
    /\ committable
    /\ committable' = FALSE
    /\ picker' = "closing"
    /\ UNCHANGED <<kind, window>>

\* Enter in the entry, with on_commit: an empty name ends it.
EntryActivated ==
    /\ kind = "rename"
    /\ Committing
    /\ \/ Ask("rename")
       \/ phase' = "ended" /\ UNCHANGED <<carries, loading, effects>>

\* _commit of a code action.
NeedsResolve(parts) == parts \cap {"edit", "command"} = {}

Commit ==
    \E parts \in SUBSET {"edit", "command"} :
        IF NeedsResolve(parts) THEN Ask("resolve") ELSE Execute(parts, effects)

\* A click on a row, or Enter on it.
RowActivated ==
    /\ kind = "codeAction"
    /\ Committing
    /\ Commit

\* Escape in the entry clears the callbacks before popdown; in the list it only
\* pops down.
EscapeEntry ==
    /\ window /\ kind = "rename" /\ picker = "shown"
    /\ picker' = "closing"
    /\ committable' = FALSE
    /\ effects' = Append(effects, "escape")
    /\ UNCHANGED <<kind, phase, carries, loading, window>>

EscapeList ==
    /\ window /\ kind = "codeAction" /\ picker = "shown"
    /\ picker' = "closing"
    /\ UNCHANGED <<kind, phase, committable, carries, loading, window, effects>>

\* The closed signal, after popdown or a click elsewhere.
Closed ==
    /\ picker # "none"
    /\ picker' = "none"
    /\ committable' = (committable /\ kind = "codeAction")
    /\ UNCHANGED <<kind, phase, carries, loading, window, effects>>

----------------------------------------------------------------------------
\* An error, or nothing at all, ends either.
EndAsked == phase' = "ended" /\ UNCHANGED <<carries, loading, effects>>

OnRenamed ==
    /\ window /\ kind = "rename" /\ phase = "asked"
    /\ Execute({"edit"}, effects) \/ EndAsked
    /\ UNCHANGED <<kind, picker, committable, window>>

\* A resolved action may still hold neither edit nor command.
OnResolved ==
    /\ window /\ kind = "codeAction" /\ phase = "asked"
    /\ \/ \E parts \in SUBSET {"edit", "command"} : Execute(parts, effects)
       \/ EndAsked
    /\ UNCHANGED <<kind, picker, committable, window>>

\* _on_one_loaded, on_one_loaded: the last one applies the edit.
OneLoaded ==
    /\ phase = "loading"
    /\ loading' = loading - 1
    /\ IF loading = 1 THEN Finish(carries, effects) ELSE UNCHANGED <<phase, effects>>
    /\ UNCHANGED <<kind, picker, committable, carries, window>>

WindowCloses ==
    /\ window
    /\ window' = FALSE
    /\ UNCHANGED <<kind, phase, picker, committable, carries, loading, effects>>

Next ==
    \/ TriggerRename \/ OnPrepare \/ TriggerAction \/ OnList
    \/ EntryActivated \/ RowActivated
    \/ EscapeEntry \/ EscapeList \/ Closed
    \/ OnRenamed \/ OnResolved \/ OneLoaded
    \/ WindowCloses

----------------------------------------------------------------------------
\* The command of a code action is executed after its edit and never without
\* it, however long files take to load and popovers to close; nothing is asked
\* or done twice for one popover, and nothing after Escape in that of rename.
\* "Edit-before-command ordering is invariant", says the design of code actions.
CommandFollowsEdit ==
    /\ IsInjective(effects)
    /\ \A i \in DOMAIN effects :
          /\ effects[i] = "escape" => i = Len(effects)
          /\ (effects[i] = "command" /\ "edit" \in carries) =>
                \E j \in 1..(i - 1) : effects[j] = "edit"
          /\ effects[i] = "edit" => loading = 0
=============================================================================
