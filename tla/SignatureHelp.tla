---------------------------- MODULE SignatureHelp ---------------------------
(***************************************************************************)
(* src/gedit_lsp/features/signature_help.py: the popover with the          *)
(* signature of the call that is being typed.                              *)
(***************************************************************************)
EXTENDS Requests

VARIABLES
    inflight,  \* _inflight_id
    visible,   \* the popover exists and is visible
    disposed   \* dispose() has disconnected the handlers

vars == <<requestVars, inflight, visible, disposed>>

Init ==
    /\ InitRequests
    /\ inflight = None
    /\ visible = FALSE
    /\ disposed = FALSE

\* _fire_request flushes the pending change and cancels the request in flight.
FireRequest ==
    /\ Ask
    /\ SendRequest(asked')
    /\ inflight' = asked'
    /\ UNCHANGED <<used, visible, disposed>>

\* A trigger character, or any text while the popover is up.
InsertText(isTrigger) ==
    /\ ~ disposed
    /\ isTrigger \/ visible
    /\ FireRequest

DeleteRange ==
    /\ ~ disposed
    /\ visible
    /\ FireRequest

\* Escape closes the popover and leaves the request in flight: its answer will
\* open it again.
Escape ==
    /\ ~ disposed
    /\ visible
    /\ visible' = FALSE
    /\ UNCHANGED <<requestVars, inflight, disposed>>

\* An error leaves the popover; an empty answer says that the call is over.
OnResponse(id, answer) ==
    /\ Answered(id)
    /\ \/ /\ inflight # id
          /\ Ignore
          /\ UNCHANGED <<inflight, visible>>
       \/ /\ inflight = id
          /\ inflight' = None
          /\ Use(id)
          /\ visible' = CASE answer = "error" -> visible
                          [] answer = "empty" -> FALSE
                          [] answer = "signature" -> TRUE
    /\ UNCHANGED disposed

\* dispose() leaves the request in flight, too.
Dispose ==
    /\ ~ disposed
    /\ disposed' = TRUE
    /\ visible' = FALSE
    /\ UNCHANGED <<requestVars, inflight>>

Next ==
    \/ \E isTrigger \in BOOLEAN : InsertText(isTrigger)
    \/ DeleteRange
    \/ Escape
    \/ \E id \in waiting, answer \in {"error", "empty", "signature"} :
          OnResponse(id, answer)
    \/ Dispose
=============================================================================
