----------------------------- MODULE Completion -----------------------------
(***************************************************************************)
(* src/gedit_lsp/features/completion.py, do_populate: the completion popup *)
(* asks for proposals, and asks again while the user types.                *)
(***************************************************************************)
EXTENDS Requests

VARIABLES
    inflight,    \* _inflight_id
    incomplete   \* _last_was_incomplete

vars == <<requestVars, inflight, incomplete>>

Init ==
    /\ InitRequests
    /\ inflight = None
    /\ incomplete = FALSE

\* do_populate flushes the pending change and cancels the request in flight,
\* which may have been answered already.
Populate ==
    /\ Ask
    /\ SendRequest(asked')
    /\ inflight' = asked'
    /\ UNCHANGED <<used, incomplete>>

\* The answer to the request id.  The id stays in flight after its answer.
OnResponse(id, answer) ==
    /\ Answered(id)
    /\ \/ /\ inflight # id
          /\ Ignore
          /\ UNCHANGED incomplete
       \/ /\ inflight = id
          /\ Use(id)
          /\ incomplete' = IF answer = "error" THEN incomplete
                           ELSE answer = "incomplete"
    /\ UNCHANGED inflight

Next ==
    \/ Populate
    \/ \E id \in waiting, answer \in {"error", "complete", "incomplete"} :
          OnResponse(id, answer)
=============================================================================
