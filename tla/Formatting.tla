----------------------------- MODULE Formatting -----------------------------
(***************************************************************************)
(* src/gedit_lsp/features/formatting.py, FormattingController: the answer  *)
(* to a format request changes the buffer (module TextEdits).  The server  *)
(* supports formatting; without it a trigger does nothing.                 *)
(***************************************************************************)
EXTENDS Requests

VARIABLE inflight   \* _inflight_id

vars == <<requestVars, inflight>>

Init ==
    /\ InitRequests
    /\ inflight = None

\* trigger flushes the pending change and cancels the request in flight.
Trigger ==
    /\ Ask
    /\ SendRequest(asked')
    /\ inflight' = asked'
    /\ UNCHANGED used

\* Edits, an error and an answer without edits differ in the buffer alone.
OnResponse(id) ==
    /\ Answered(id)
    /\ \/ /\ inflight # id
          /\ Ignore
          /\ UNCHANGED inflight
       \/ /\ inflight = id
          /\ inflight' = None
          /\ Use(id)

Next ==
    \/ Trigger
    \/ \E id \in waiting : OnResponse(id)
=============================================================================
