--------------------------- MODULE WorkspaceSymbol --------------------------
(***************************************************************************)
(* src/gedit_lsp/features/workspace_symbol.py and                          *)
(* src/gedit_lsp/ui/workspace_symbol_quickpick.py: the live search for     *)
(* symbols of the project.  The controller debounces what is typed and     *)
(* guards answers with a token; the quick-pick calls it back through hooks *)
(* that it clears before it closes its popover, whose `closed` signal may  *)
(* come at any later time.                                                 *)
(*                                                                         *)
(* A callback holds the token it has captured; beside it, for the history, *)
(* the number of the question, and that of a query the number of the       *)
(* session, which is that of its popover: <<token, question, session>>.    *)
(* That of a resolve is <<token, question>>.  The server supports the      *)
(* search and can resolve.                                                 *)
(***************************************************************************)
EXTENDS Requests, Sequences

CONSTANT MaxPopovers   \* bound on the popovers that are opened

VARIABLES
    token,     \* _token
    timer,     \* what _timer_id will fire: "none", or the kind of text typed
    inflight,  \* _inflight_id
    opened,    \* number of popovers opened
    popover,   \* the quick-pick's _popover: the number of the popover, or 0
    hooks,     \* _on_query, _on_activate, _on_cancel are set
    closing,   \* popovers whose `closed` is still to come
    listed     \* the session whose symbols the quick-pick lists, or 0

controllerVars == <<token, timer, inflight>>
quickpickVars == <<opened, popover, hooks, closing, listed>>
vars == <<requestVars, controllerVars, quickpickVars>>

Init ==
    /\ InitRequests
    /\ token = 0
    /\ timer = "none"
    /\ inflight = None
    /\ opened = 0
    /\ popover = 0
    /\ hooks = FALSE
    /\ closing = {}
    /\ listed = 0

\* popdown() of the popover there is.
PopDown == closing' = IF popover = 0 THEN closing ELSE closing \cup {popover}

\* trigger ends the earlier session, but leaves the token: an answer to the
\* last question of that session is still accepted.  The word at the cursor,
\* if there is one, is the first query.
Trigger(seeded) ==
    /\ opened < MaxPopovers
    /\ PopDown
    /\ opened' = opened + 1
    /\ popover' = opened'
    /\ hooks' = TRUE
    /\ listed' = 0
    /\ timer' = IF seeded THEN "query" ELSE "none"
    /\ inflight' = None
    /\ UNCHANGED <<requestVars, token>>

OnQuery(text) ==
    /\ hooks
    /\ timer' = text
    /\ UNCHANGED <<requestVars, token, inflight, quickpickVars>>

\* _fire, also after the quick-pick is gone.
FireQuery ==
    /\ timer = "query"
    /\ Ask
    /\ token' = token + 1
    /\ SendRequest(<<token', asked', opened>>)
    /\ inflight' = asked'
    /\ UNCHANGED <<used, listed>>

FireEmpty ==
    /\ timer = "empty"
    /\ Ask
    /\ token' = token + 1
    /\ inflight' = None
    /\ listed' = 0
    /\ UNCHANGED <<waiting, used>>

Fire ==
    /\ FireQuery \/ FireEmpty
    /\ timer' = "none"
    /\ UNCHANGED <<opened, popover, hooks, closing>>

\* The id in flight is that of the callback if the token is; set_results does
\* nothing without a popover.
OnResponse(callback, answer) ==
    /\ Answered(callback)
    /\ \/ /\ callback[1] # token
          /\ Ignore
          /\ UNCHANGED <<inflight, listed>>
       \/ /\ callback[1] = token
          /\ inflight' = None
          /\ Use(callback[2])
          /\ listed' = IF answer = "error" THEN listed
                       ELSE IF answer = "symbols" /\ popover # 0 THEN callback[3]
                       ELSE 0
    /\ UNCHANGED <<token, timer, opened, popover, hooks, closing>>

\* Enter or a click on a row.  _on_activate navigates at once, or after
\* workspaceSymbol/resolve, whose answer counts only while the token is the
\* same.  The debounce timer goes on.
ActivateSelected(direct) ==
    /\ hooks
    /\ listed # 0
    /\ hooks' = FALSE
    /\ PopDown
    /\ IF direct THEN UNCHANGED waiting
                 ELSE SendRequest(<<token, asked>>)
    /\ UNCHANGED <<asked, used, controllerVars, opened, popover, listed>>

OnResolved(callback) ==
    /\ Answered(callback)
    /\ IF callback[1] = token THEN Use(callback[2]) ELSE Ignore
    /\ UNCHANGED <<controllerVars, quickpickVars>>

\* _on_cancel.  A slip: the token is left.
CancelKeepsToken ==
    /\ Ask
    /\ timer' = "none"
    /\ inflight' = None
    /\ UNCHANGED <<waiting, used, token>>

Cancel ==
    /\ Ask
    /\ timer' = "none"
    /\ inflight' = None
    /\ token' = token + 1
    /\ UNCHANGED <<waiting, used>>

Escape ==
    /\ hooks
    /\ hooks' = FALSE
    /\ PopDown
    /\ Cancel
    /\ UNCHANGED <<opened, popover, listed>>

\* A click outside the modal popover.
ClickOutside ==
    /\ popover # 0
    /\ popover \notin closing
    /\ PopDown
    /\ UNCHANGED <<requestVars, controllerVars, opened, popover, hooks, listed>>

\* _on_closed ignores a popover that has been replaced, and cancels unless the
\* hooks are cleared.
Closed(p) ==
    /\ p \in closing
    /\ closing' = closing \ {p}
    /\ IF p = popover
       THEN /\ popover' = 0
            /\ hooks' = FALSE
            /\ listed' = 0
            /\ IF hooks THEN Cancel ELSE UNCHANGED <<requestVars, controllerVars>>
       ELSE UNCHANGED <<requestVars, controllerVars, popover, hooks, listed>>
    /\ UNCHANGED opened

Queries == {callback \in waiting : Len(callback) = 3}

Next ==
    \/ \E seeded \in BOOLEAN : Trigger(seeded)
    \/ \E text \in {"query", "empty"} : OnQuery(text)
    \/ Fire
    \/ \E callback \in Queries, answer \in {"error", "none", "symbols"} :
          OnResponse(callback, answer)
    \/ \E direct \in BOOLEAN : ActivateSelected(direct)
    \/ \E callback \in waiting \ Queries : OnResolved(callback)
    \/ Escape
    \/ ClickOutside
    \/ \E p \in closing : Closed(p)

----------------------------------------------------------------------------
\* What the quick-pick lists is the answer to a question of its own session: "a
\* stale response from a prior session [...] can never collide with a new
\* session's token", says the comment in trigger, which leaves the token.
DocPriorSessionIgnored == listed \in {0, opened}
=============================================================================
