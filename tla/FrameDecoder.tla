---------------------------- MODULE FrameDecoder ----------------------------
(***************************************************************************)
(* src/gedit_lsp/rpc.py, class FrameDecoder: bytes in, JSON bodies out.    *)
(*                                                                         *)
(* A byte stream is a sequence of symbols: the text of a Content-Length    *)
(* header, for each length, the text of any other header line ("type"),    *)
(* "CR" and "LF", the characters of bodies, "x" and "u", where "u" is one  *)
(* that is not ASCII, and "text", anything else in ASCII.                  *)
(***************************************************************************)
EXTENDS Integers, Sequences, SequencesExt

CONSTANT LengthOf   \* the length that each text of a Content-Length header names

OtherSymbols == {"CR", "LF", "type", "text", "x", "u"}
Symbols == DOMAIN LengthOf \cup OtherSymbols

ASSUME LengthOfAssumption ==
    /\ DOMAIN LengthOf \cap OtherSymbols = {}
    /\ \A h \in DOMAIN LengthOf : LengthOf[h] \in Nat \ {0}

LengthText(n) == CHOOSE h \in DOMAIN LengthOf : LengthOf[h] = n

CRLF == <<"CR", "LF">>

\* encode_frame, and the same frame with another header before the length.
EncodeFrame(body) == <<LengthText(Len(body))>> \o CRLF \o CRLF \o body
EncodeFrameTyped(body) == <<"type">> \o CRLF \o EncodeFrame(body)

NoLength == -1
Malformed == -2

Decoder == [buffer : Seq(Symbols), expected : Int, out : Seq(Seq(Symbols)),
            ok : BOOLEAN]

EmptyDecoder == [buffer |-> <<>>, expected |-> NoLength, out |-> <<>>, ok |-> TRUE]

\* bytearray.find: the first place of pattern in s, 0 if there is none.
Find(s, pattern) ==
    LET places == {i \in 1..(Len(s) - Len(pattern) + 1) :
                      SubSeq(s, i, i + Len(pattern) - 1) = pattern}
    IN  IF places = {} THEN 0 ELSE CHOOSE i \in places : \A j \in places : i <= j

Drop(s, n) == SubSeq(s, n + 1, Len(s))

(***************************************************************************)
(* _parse_content_length: the value in the first line of the block that    *)
(* names it.                                                               *)
(***************************************************************************)
LineStarts(block) ==
    {1} \cup {i \in 3..Len(block) : SubSeq(block, i - 2, i - 1) = CRLF}

\* A slip: the length is looked for in the first header only.
ParseFirstLine(block) ==
    IF block = <<>> \/ block[1] \notin DOMAIN LengthOf
    THEN Malformed
    ELSE LengthOf[block[1]]

ParseContentLength(block) ==
    LET named == {i \in LineStarts(block) :
                     i <= Len(block) /\ block[i] \in DOMAIN LengthOf}
        first == CHOOSE i \in named : \A j \in named : i <= j
    IN  IF named = {} \/ (first < Len(block) /\ block[first + 1] # "CR")
        THEN Malformed
        ELSE LengthOf[block[first]]

(***************************************************************************)
(* feed takes a header block, then a body, as long as they are there: in   *)
(* every turn but the last the buffer gets shorter.  An exception leaves   *)
(* ok FALSE.                                                               *)
(***************************************************************************)
TakeHeader(d) ==
    LET sep == Find(d.buffer, CRLF \o CRLF)
        length == ParseContentLength(SubSeq(d.buffer, 1, sep - 1))
        rest == Drop(d.buffer, sep + 3)
    IN  IF sep = 0
        THEN [d EXCEPT !.ok = Find(d.buffer, <<"LF", "LF">>) = 0]
        ELSE IF length = Malformed
             THEN [d EXCEPT !.buffer = rest, !.ok = FALSE]
             ELSE [d EXCEPT !.buffer = rest, !.expected = length]

\* A slip: what has come of the body is taken for all of it.
TakeBodyAsItComes(d) ==
    IF d.buffer = <<>>
    THEN d
    ELSE [d EXCEPT !.buffer = <<>>,
                   !.expected = NoLength,
                   !.out = Append(d.out, d.buffer)]

TakeBody(d) ==
    IF Len(d.buffer) < d.expected
    THEN d
    ELSE [d EXCEPT !.buffer = Drop(d.buffer, d.expected),
                   !.expected = NoLength,
                   !.out = Append(d.out, SubSeq(d.buffer, 1, d.expected))]

Turn[d \in Decoder] ==
    IF ~d.ok THEN d
    ELSE IF d.expected = NoLength THEN TakeHeader(d) ELSE TakeBody(d)

Drain(d) ==
    LET after[n \in 0..(Len(d.buffer) + 1)] ==
            IF n = 0 THEN d ELSE Turn[after[n - 1]]
    IN  after[Len(d.buffer) + 1]

\* feed: the bodies of this call are in out.
Feed(d, chunk) == Drain([d EXCEPT !.buffer = d.buffer \o chunk, !.out = <<>>])
=============================================================================
