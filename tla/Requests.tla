------------------------------ MODULE Requests ------------------------------
(***************************************************************************)
(* How a feature controller sends requests: LanguageServer._send_request   *)
(* registers a callback, the server may answer it once, at any later time, *)
(* and $/cancelRequest does not prevent that: RpcClient keeps the callback *)
(* until an answer comes.  A controller exists only after its document's   *)
(* attach_buffer, and from then on there is a transport, so that           *)
(* _send_request does return an id; the server may be dead, and then no    *)
(* answer comes.                                                           *)
(*                                                                         *)
(* Questions are numbered.  A question sends at most one request, whose id *)
(* is the number of the question.                                          *)
(***************************************************************************)
EXTENDS Naturals

CONSTANT MaxAsked   \* bound on the number of questions

VARIABLES
    waiting,  \* registered callbacks, each with what it has captured
    asked,    \* history: number of questions
    used      \* history: question whose answer was used last

requestVars == <<waiting, asked, used>>

None == 0   \* no request in flight

InitRequests ==
    /\ waiting = {}
    /\ asked = 0
    /\ used = 0

\* A question, and what else makes the earlier ones worthless.
Ask ==
    /\ asked < MaxAsked
    /\ asked' = asked + 1

SendRequest(callback) == waiting' = waiting \cup {callback}

\* RpcClient removes the callback and calls it.
Answered(callback) ==
    /\ callback \in waiting
    /\ waiting' = waiting \ {callback}

Use(question) ==
    /\ used' = question
    /\ UNCHANGED asked

Ignore == UNCHANGED <<asked, used>>
=============================================================================
