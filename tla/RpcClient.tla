------------------------------ MODULE RpcClient ------------------------------
(***************************************************************************)
(* src/gedit_lsp/rpc.py, the writing half of RpcClient and its pending     *)
(* requests, as LanguageServer uses them: messages queue for a single      *)
(* chain of asynchronous writes, answers come back in any order and find   *)
(* their callback by the request's id.  The reading half is FrameReader.   *)
(*                                                                         *)
(* A frame has two parts, its header and its body: enough to tell a frame  *)
(* that was written from one that was written in part.  The server reads   *)
(* the wire as what the headers promise, a header and a body in turn.      *)
(***************************************************************************)
EXTENDS Naturals, Sequences, SequencesExt

CONSTANTS
    MaxSends,       \* bound on the messages sent in a behaviour
    MaxAnswers,     \* bound on the answers to one request; more than one is
                    \* a fault of the server
    PartialWrites,  \* whether a write may accept a part of its chunk
    Stdins          \* whether start() has succeeded

ASSUME MaxSendsAssumption == MaxSends \in Nat
ASSUME MaxAnswersAssumption == MaxAnswers \in Nat
ASSUME PartialWritesAssumption == PartialWrites \subseteq BOOLEAN
ASSUME StdinsAssumption == Stdins \subseteq BOOLEAN

VARIABLES
    stdin,      \* _stdin is there
    partial,    \* the writes of this behaviour may be partial
    alive,      \* the subprocess runs
    queue,      \* _write_queue
    inflight,   \* the chunk of the outstanding write; empty: not _writing
    wire,       \* what the subprocess was given on its stdin
    nextId,     \* _req_ids of the LanguageServer
    callbacks,  \* the ids in _response_callbacks
    answered,   \* how many answers the server has given to each request
    answers,    \* stdout: answers not yet dispatched
    called,     \* history: how often each request's callback was called
    sent        \* history: the messages sent, in order

vars == <<stdin, partial, alive, queue, inflight, wire, nextId, callbacks,
          answered, answers, called, sent>>

Ids == 1..MaxSends
Messages == [kind : {"request", "cancel"}, id : Ids]
                \cup [kind : {"notification"}, id : {0}]

RequestOf(id) == [kind |-> "request", id |-> id]

Frame(m) == <<[part |-> "header", of |-> m], [part |-> "body", of |-> m]>>

\* What the server makes of the wire: a header followed by its own body is
\* the message, anything else is not a message at all.
Garbage == [kind |-> "garbage", id |-> 0]
Received ==
    [k \in 1..(Len(wire) \div 2) |->
        IF wire[2 * k - 1].part = "header" /\ wire[2 * k].part = "body"
               /\ wire[2 * k - 1].of = wire[2 * k].of
        THEN wire[2 * k].of ELSE Garbage]

TypeOK ==
    /\ stdin \in Stdins
    /\ partial \in PartialWrites
    /\ alive \in BOOLEAN
    /\ queue \in Seq(Messages)
    /\ inflight \in {<<>>} \cup {<<m>> : m \in Messages}
    /\ wire \in Seq([part : {"header", "body"}, of : Messages])
    /\ nextId \in 1..(MaxSends + 1)
    /\ callbacks \in SUBSET Ids
    /\ answered \in [Ids -> 0..MaxAnswers]
    /\ answers \in Seq(Ids)
    /\ called \in [Ids -> Nat]
    /\ sent \in Seq(Messages)

Init ==
    /\ stdin \in Stdins
    /\ partial \in PartialWrites
    /\ alive = stdin
    /\ queue = <<>>
    /\ inflight = <<>>
    /\ wire = <<>>
    /\ nextId = 1
    /\ callbacks = {}
    /\ answered = [id \in Ids |-> 0]
    /\ answers = <<>>
    /\ called = [id \in Ids |-> 0]
    /\ sent = <<>>

processVars == <<stdin, partial, alive>>
requestVars == <<nextId, callbacks>>
answerVars == <<answered, answers, called>>

----------------------------------------------------------------------------
\* A slip: the newest message first.
PumpNewest(q, busy) ==
    \/ /\ busy # <<>> \/ q = <<>> \/ ~stdin
       /\ queue' = q
       /\ inflight' = busy
    \/ /\ busy = <<>> /\ q # <<>> /\ stdin
       /\ queue' = Front(q)
       /\ inflight' = <<Last(q)>>

\* _pump_writes, with the queue and the outstanding chunk it finds.
PumpWrites(q, busy) ==
    \/ /\ busy # <<>> \/ q = <<>> \/ ~stdin
       /\ queue' = q
       /\ inflight' = busy
    \/ /\ busy = <<>> /\ q # <<>> /\ stdin
       /\ queue' = Tail(q)
       /\ inflight' = <<Head(q)>>

Send(m) ==
    /\ Len(sent) < MaxSends
    /\ sent' = Append(sent, m)
    /\ PumpWrites(Append(queue, m), inflight)

\* _send_request: the callback is there before the message is sent.
SendRequest ==
    /\ Send(RequestOf(nextId))
    /\ nextId' = nextId + 1
    /\ callbacks' = callbacks \cup {nextId}
    /\ UNCHANGED <<processVars, wire, answerVars>>

SendNotification ==
    /\ Send([kind |-> "notification", id |-> 0])
    /\ UNCHANGED <<processVars, wire, requestVars, answerVars>>

\* cancel_request tells the server; the callback stays.
CancelRequest(id) ==
    /\ id < nextId
    /\ Send([kind |-> "cancel", id |-> id])
    /\ UNCHANGED <<processVars, wire, requestVars, answerVars>>

----------------------------------------------------------------------------
\* A slip: the next write waits for the next message.
WriteDoneWithoutPump ==
    /\ alive
    /\ inflight # <<>>
    /\ \E n \in (IF partial THEN 1..2 ELSE {2}) :
          wire' = wire \o SubSeq(Frame(Head(inflight)), 1, n)
    /\ inflight' = <<>>
    /\ UNCHANGED <<processVars, queue, requestVars, answerVars, sent>>

(***************************************************************************)
(* _on_write_done.  How much of the chunk was accepted is not looked at; a *)
(* failed write is logged and its chunk is lost.                           *)
(***************************************************************************)
WriteDone ==
    /\ alive
    /\ inflight # <<>>
    /\ \E n \in (IF partial THEN 1..2 ELSE {2}) :
          wire' = wire \o SubSeq(Frame(Head(inflight)), 1, n)
    /\ PumpWrites(queue, <<>>)
    /\ UNCHANGED <<processVars, requestVars, answerVars, sent>>

WriteFails ==
    /\ ~alive
    /\ inflight # <<>>
    /\ PumpWrites(queue, <<>>)
    /\ UNCHANGED <<processVars, wire, requestVars, answerVars, sent>>

\* The subprocess ends.  Neither the queue nor the callbacks are cleared.
SubprocessEnds ==
    /\ alive
    /\ alive' = FALSE
    /\ UNCHANGED <<stdin, partial, queue, inflight, wire, requestVars,
                   answerVars, sent>>

\* The server answers a request it has read, in any order, perhaps again.
Answer(id) ==
    /\ alive
    /\ RequestOf(id) \in ToSet(Received)
    /\ answered[id] < MaxAnswers
    /\ answered' = [answered EXCEPT ![id] = @ + 1]
    /\ answers' = Append(answers, id)
    /\ UNCHANGED <<processVars, queue, inflight, wire, requestVars, called, sent>>

\* A slip: the callback is looked up and not removed.
DispatchKeepsSlot ==
    /\ answers # <<>>
    /\ called' = IF Head(answers) \in callbacks
                 THEN [called EXCEPT ![Head(answers)] = @ + 1] ELSE called
    /\ answers' = Tail(answers)
    /\ UNCHANGED <<processVars, queue, inflight, wire, requestVars, answered, sent>>

\* _dispatch of an answer: the callback is removed, then called; an answer
\* without one is dropped.
Dispatch ==
    /\ answers # <<>>
    /\ called' = IF Head(answers) \in callbacks
                 THEN [called EXCEPT ![Head(answers)] = @ + 1] ELSE called
    /\ callbacks' = callbacks \ {Head(answers)}
    /\ answers' = Tail(answers)
    /\ UNCHANGED <<processVars, queue, inflight, wire, nextId, answered,
                   sent>>

Next ==
    \/ SendRequest
    \/ SendNotification
    \/ \E id \in Ids : CancelRequest(id) \/ Answer(id)
    \/ WriteDone
    \/ WriteFails
    \/ SubprocessEnds
    \/ Dispatch

Spec == Init /\ [][Next]_vars

\* GIO completes a write, because the server reads its stdin, or fails it; and
\* the read loop dispatches what has come.
WritingFairness ==
    /\ WF_vars(WriteDone \/ WriteFails)
    /\ WF_vars(Dispatch)

----------------------------------------------------------------------------
\* Whole writes keep the order of the messages and lose none while the server
\* lives; what it has read when it dies is a prefix of them.
WritesAreOrdered ==
    ~partial =>
        /\ IsPrefix(Received, sent)
        /\ alive => Received \o inflight \o queue = sent

\* Every request's callback waits until it is called, and is called once at
\* most: repeated answers do not call it again, and the end of the process, a
\* failed write or a cancel does not take it away.  One that waits although the
\* server has answered has its answer on the way.
CallbackOnce ==
    \A id \in Ids :
        /\ called[id] = IF id < nextId /\ id \notin callbacks THEN 1 ELSE 0
        /\ id \in callbacks /\ answered[id] > 0 => id \in ToSet(answers)

\* A request whose callback waits reaches the server, unless it dies, was never
\* started, or a write was partial: the chain of writes never stops short.
RequestsArrive ==
    \A id \in Ids :
        id \in callbacks ~> \/ RequestOf(id) \in ToSet(Received)
                            \/ ~alive
                            \/ ~stdin
                            \/ partial
=============================================================================
