------------------------- MODULE CompletionResolve --------------------------
(***************************************************************************)
(* src/gedit_lsp/features/completion.py, do_update_info: the details pane  *)
(* shows the highlighted proposal, first as the list has it and then as    *)
(* completionItem/resolve completes it.  The proposals are those of one    *)
(* popup, and the server can resolve.                                      *)
(***************************************************************************)
EXTENDS Requests

CONSTANTS Proposals, NoProposal

VARIABLES
    inflight,     \* _resolve_inflight_id
    resolved,     \* _resolved_proposals
    highlighted,  \* the proposal GtkSource has highlighted
    label         \* the proposal whose text the details pane shows

vars == <<requestVars, inflight, resolved, highlighted, label>>

Init ==
    /\ InitRequests
    /\ inflight = None
    /\ resolved = {}
    /\ highlighted = NoProposal
    /\ label = NoProposal

\* A proposal that was resolved before is shown from the cache; the request
\* another proposal has in flight is left alone.
ShowCached(p) ==
    /\ p \in resolved
    /\ highlighted' = p
    /\ label' = p
    /\ UNCHANGED <<requestVars, inflight, resolved>>

ShowAndResolve(p) ==
    /\ p \notin resolved
    /\ highlighted' = p
    /\ label' = p
    /\ Ask
    /\ SendRequest(<<asked', p>>)
    /\ inflight' = asked'
    /\ UNCHANGED <<used, resolved>>

UpdateInfo(p) == ShowCached(p) \/ ShowAndResolve(p)

\* A slip: the id is not compared.
OnResolvedAnyId(callback, good) ==
    /\ Answered(callback)
    /\ inflight' = None
    /\ IF good THEN /\ resolved' = resolved \cup {callback[2]}
                    /\ label' = callback[2]
               ELSE UNCHANGED <<resolved, label>>
    /\ Ignore
    /\ UNCHANGED highlighted

OnResolved(callback, good) ==
    /\ Answered(callback)
    /\ \/ /\ inflight # callback[1]
          /\ UNCHANGED <<inflight, resolved, label>>
       \/ /\ inflight = callback[1]
          /\ inflight' = None
          /\ IF good THEN /\ resolved' = resolved \cup {callback[2]}
                          /\ label' = callback[2]
                     ELSE UNCHANGED <<resolved, label>>
    /\ Ignore
    /\ UNCHANGED highlighted

Next ==
    \/ \E p \in Proposals : UpdateInfo(p)
    \/ \E callback \in waiting, good \in BOOLEAN : OnResolved(callback, good)

----------------------------------------------------------------------------
\* The details pane shows the highlighted proposal, whatever answers come
\* late; a proposal shown from the cache is excepted.
LabelIsHighlighted == highlighted \in resolved \/ label = highlighted
=============================================================================
