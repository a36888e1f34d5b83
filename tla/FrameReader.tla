----------------------------- MODULE FrameReader -----------------------------
(***************************************************************************)
(* src/gedit_lsp/rpc.py, the reading half of RpcClient: the loop of        *)
(* asynchronous reads on the subprocess's stdout that feeds the            *)
(* FrameDecoder and dispatches what comes out.                             *)
(*                                                                         *)
(* The server writes the frames of a script, of which the pipe makes any   *)
(* prefix available; it may print something else before the last of them.  *)
(* A read is one step: it completes when GIO has data, and its callback    *)
(* feeds the decoder, calls what waits for the message, and issues the     *)
(* next read.  A callback that raises takes the rest of the step with it.  *)
(***************************************************************************)
EXTENDS FrameDecoder

CONSTANTS
    Scripts,     \* sequences of bodies the server may write
    Prints,      \* what it may print before the frame of the last body
    ShortReads,  \* whether a body read may return less than it asked for
    MayEnd       \* the server may end and close the pipe

\* A header can name the length of every body.
ASSUME ScriptsAssumption ==
    /\ Scripts \subseteq Seq(Seq(Symbols))
    /\ \A bodies \in Scripts : \A body \in ToSet(bodies) :
          \E h \in DOMAIN LengthOf : LengthOf[h] = Len(body)

\* A message is a JSON object with nothing behind its brace: one that was cut off
\* is not one again when CR LF, or CR, is put behind it.
CutOff(body, n, end) == SubSeq(body, 1, n) \o SubSeq(CRLF, 1, end)

ASSUME JsonAssumption ==
    \A bodies \in Scripts : \A body, other \in ToSet(bodies) :
        \A n \in 0..(Len(body) - 1), end \in 1..2 :
            other = CutOff(body, n, end) /\ Len(other) = Len(body) => other = body

\* What is printed is not taken for the length of a message.
ASSUME PrintsAssumption == Prints \subseteq Seq(OtherSymbols)
ASSUME ShortReadsAssumption == ShortReads \subseteq BOOLEAN
ASSUME MayEndAssumption == MayEnd \in BOOLEAN

VARIABLES
    script,     \* the bodies the server writes
    printed,    \* what the server prints, often nothing
    raising,    \* number of the message whose callback raises, 0: none
    short,      \* the body reads of this behaviour may be short
    unsent,     \* the part of its output it has not written yet
    pipe,       \* stdout: written and not read yet
    closed,     \* the server has closed its end
    decoder,    \* _decoder
    loop,       \* the outstanding read: line, body; none after ended or dead
    delivered,  \* bodies that _dispatch took for messages
    refused     \* some body was logged as malformed JSON

givenVars == <<script, printed, raising, short>>

readingVars == <<givenVars, unsent, pipe, closed, decoder, loop, delivered, refused>>

Written(bodies, i) ==
    (IF i = Len(bodies) THEN printed ELSE <<>>)
        \o (IF i % 2 = 1 THEN EncodeFrame(bodies[i]) ELSE EncodeFrameTyped(bodies[i]))

Stream(bodies) == FlattenSeq([i \in 1..Len(bodies) |-> Written(bodies, i)])

ReadingInit ==
    /\ script \in Scripts
    /\ printed \in Prints
    /\ raising \in 0..Len(script)
    /\ short \in ShortReads
    /\ unsent = Stream(script)
    /\ pipe = <<>>
    /\ closed = FALSE
    /\ decoder = EmptyDecoder
    /\ loop = "line"
    /\ delivered = <<>>
    /\ refused = FALSE

----------------------------------------------------------------------------
\* The server writes, byte by byte as far as a reader can tell.
ServerWrites ==
    /\ ~closed
    /\ unsent # <<>>
    /\ pipe' = Append(pipe, Head(unsent))
    /\ unsent' = Tail(unsent)
    /\ UNCHANGED <<givenVars, closed, decoder, loop, delivered, refused>>

ServerEnds ==
    /\ MayEnd
    /\ ~closed
    /\ closed' = TRUE
    /\ UNCHANGED <<givenVars, unsent, pipe, decoder, loop, delivered, refused>>

(***************************************************************************)
(* _dispatch of the bodies of one feed, which are one at most.  Only a     *)
(* body that was written is taken for a JSON text; any other is logged and *)
(* dropped.  The callback of a message is called in the same step.         *)
(***************************************************************************)
IsJson(body) == body \in ToSet(script)

DispatchBodies(bodies) ==
    /\ delivered' = delivered \o
          FlattenSeq([i \in DOMAIN bodies |->
                         IF IsJson(bodies[i]) THEN <<bodies[i]>> ELSE <<>>])
    /\ refused' = (refused \/ \E i \in 1..Len(bodies) : ~IsJson(bodies[i]))

Raises(bodies) == bodies # <<>> /\ Len(delivered) + 1 = raising

(***************************************************************************)
(* _on_header_line.  The line is what precedes the next CRLF, or the last  *)
(* CRLF-less bytes before the end.  It is turned into ASCII with a CRLF    *)
(* put back; one that is not ASCII raises, and so does a malformed header, *)
(* and either way no further read is issued.                               *)
(***************************************************************************)
HeaderLine(line, rest) ==
    \E d \in {Feed(decoder, line \o CRLF)} :
    /\ pipe' = rest
    /\ IF "u" \in ToSet(line)
       THEN /\ loop' = "dead"
            /\ UNCHANGED <<decoder, delivered, refused>>
       ELSE IF ~d.ok
       THEN /\ loop' = "dead"
            /\ decoder' = d
            /\ UNCHANGED <<delivered, refused>>
       ELSE /\ decoder' = [d EXCEPT !.out = <<>>]
            /\ loop' = IF Raises(d.out) THEN "dead"
                       ELSE IF d.expected # NoLength THEN "body" ELSE "line"
            /\ DispatchBodies(d.out)

ReadHeaderLine ==
    /\ loop = "line"
    /\ LET end == Find(pipe, CRLF) IN
       \/ /\ end # 0
          /\ HeaderLine(SubSeq(pipe, 1, end - 1), Drop(pipe, end + 1))
       \/ /\ end = 0
          /\ closed
          /\ pipe # <<>>
          /\ HeaderLine(pipe, <<>>)
       \/ /\ closed
          /\ pipe = <<>>
          /\ loop' = "ended"
          /\ UNCHANGED <<pipe, decoder, delivered, refused>>
    /\ UNCHANGED <<givenVars, unsent, closed>>

(***************************************************************************)
(* _on_body.  The read asked for the rest of the body and returns at least *)
(* one byte of it, or none at the end of the stream.  Whether the body is  *)
(* complete or not, the next read is for a header line.                    *)
(***************************************************************************)
Remaining == decoder.expected - Len(decoder.buffer)

ReadLengths ==
    IF short
    THEN {n \in 1..Remaining : n <= Len(pipe)}
    ELSE {n \in {Remaining} : n <= Len(pipe)}

\* Slips: a byte after the body is read with it; no read follows a message.
BodyOneMore(n) ==
    \E d \in {Feed(decoder, SubSeq(pipe, 1, n))} :
    /\ pipe' = Drop(pipe, n + 1)
    /\ decoder' = [d EXCEPT !.out = <<>>]
    /\ loop' = IF d.ok /\ ~Raises(d.out) THEN "line" ELSE "dead"
    /\ DispatchBodies(d.out)

BodyLastRead(n) ==
    \E d \in {Feed(decoder, SubSeq(pipe, 1, n))} :
    /\ pipe' = Drop(pipe, n)
    /\ decoder' = [d EXCEPT !.out = <<>>]
    /\ loop' = IF d.ok /\ d.out = <<>> THEN "line" ELSE "ended"
    /\ DispatchBodies(d.out)

Body(n) ==
    \E d \in {Feed(decoder, SubSeq(pipe, 1, n))} :
    /\ pipe' = Drop(pipe, n)
    /\ decoder' = [d EXCEPT !.out = <<>>]
    /\ loop' = IF d.ok /\ ~Raises(d.out) THEN "line" ELSE "dead"
    /\ DispatchBodies(d.out)

ReadBody ==
    /\ loop = "body"
    /\ \/ \E n \in ReadLengths : Body(n)
       \/ /\ closed
          /\ ReadLengths = {}
          /\ Body(Len(pipe))
    /\ UNCHANGED <<givenVars, unsent, closed>>

ReadingNext ==
    \/ ServerWrites
    \/ ServerEnds
    \/ ReadHeaderLine
    \/ ReadBody

\* A read with data completes; the server writes what it has begun to write.
ReadingFairness ==
    /\ WF_readingVars(ServerWrites)
    /\ WF_readingVars(ReadHeaderLine \/ ReadBody)

----------------------------------------------------------------------------
\* Messages are delivered in the order they were written, none twice, none
\* skipped, none altered, however the pipe cuts the stream; and while the server
\* lives the JSON parser is given only what it wrote.
DeliveredAsWritten ==
    /\ IsPrefix(delivered, script)
    /\ ~closed => ~refused

\* A loop that still reads has lost no byte of the stream: what is delivered,
\* what the decoder holds and what is in the pipe are all of it.
NothingLost ==
    loop \in {"line", "body"} /\ ~closed =>
        LET held == (IF decoder.expected = NoLength THEN <<>>
                     ELSE <<LengthText(decoder.expected)>> \o CRLF \o CRLF)
                        \o decoder.buffer
        IN  IsSuffix(held \o pipe \o unsent, Stream(script))

\* What makes the client deaf while its server lives: text that was printed
\* before a frame, the callback of a message it got, or a short body read.
DeafForAReason ==
    loop \in {"dead", "ended"} =>
        \/ closed
        \/ printed # <<>> /\ Len(delivered) + 1 = Len(script)
        \/ raising # 0 /\ raising = Len(delivered)
        \/ short

\* All messages that have been written are delivered in the end, when body reads
\* are never short, the server lives and prints nothing else, and no callback
\* of an earlier message raises.
EveryMessageArrives ==
    (/\ unsent = <<>> /\ ~short /\ printed = <<>>
     /\ raising \notin 1..(Len(script) - 1))
         ~> (delivered = script \/ closed)

\* The design: read_bytes_async(N) gives "one full JSON message", so that every
\* message written by a living server is delivered, short reads or not.
DocOneFullMessage == (unsent = <<>>) ~> (delivered = script \/ closed)
=============================================================================
