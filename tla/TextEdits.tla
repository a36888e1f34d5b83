------------------------------ MODULE TextEdits -----------------------------
(***************************************************************************)
(* apply_text_edits of src/gedit_lsp/features/formatting.py, by which      *)
(* formatting, rename and code actions change a buffer, with the UTF-16    *)
(* positions of src/gedit_lsp/utf16.py.                                    *)
(*                                                                         *)
(* A text is a sequence of characters: "a" and "b" stand for those of one  *)
(* UTF-16 unit, "W" for those of two, "N" for a newline.  The server gives *)
(* the edits as positions (line, units) of the text before any edit; the   *)
(* code applies them one after the other to the buffer.                    *)
(***************************************************************************)
EXTENDS Naturals, FiniteSets, Sequences, SequencesExt

CONSTANTS
    MaxText,   \* bound on the length of the text
    MaxSpans,  \* bound on the number of edits
    NewTexts   \* texts that edits put in

Characters == {"a", "b", "W", "N"}

\* Those of the text before any edit.
Chars == Characters \ {"b"}
Texts == UNION {[1..n -> Chars] : n \in 0..MaxText}

VARIABLES
    text,   \* the buffer
    todo,   \* sorted_edits that are not applied yet
    goal,   \* history: the text the server means
    clear   \* history: no two edits start at the same place

vars == <<text, todo, goal, clear>>

----------------------------------------------------------------------------
(***************************************************************************)
(* utf16.py.  An iterator is the number of characters before it.           *)
(***************************************************************************)
Units(s) == Len(s) + Cardinality({i \in DOMAIN s : s[i] = "W"})

\* The iterators behind the newlines of t; line 0 starts at 0.
LineStarts(t) == {0} \cup {i \in DOMAIN t : t[i] = "N"}

LineStart(t, line) ==
    CHOOSE i \in LineStarts(t) : Cardinality({j \in LineStarts(t) : j < i}) = line

LineOf(t, it) == Cardinality({i \in LineStarts(t) : i <= it}) - 1

TextIterToUtf16(t, it) ==
    LET line == LineOf(t, it)
    IN  <<line, Units(SubSeq(t, LineStart(t, line) + 1, it))>>

\* The first iterator of the line that has at least that many units before it,
\* or the end of the line.  A line that does not exist is the end of the text.
Utf16ToTextIter(t, position) ==
    IF position[1] >= Cardinality(LineStarts(t)) THEN Len(t)
    ELSE LET start == LineStart(t, position[1])
             line  == {it \in start..Len(t) : LineOf(t, it) = position[1]}
         IN  CHOOSE it \in line :
                /\ Units(SubSeq(t, start + 1, it)) >= position[2] \/ it + 1 \notin line
                /\ \A other \in start..(it - 1) :
                      Units(SubSeq(t, start + 1, other)) < position[2]

----------------------------------------------------------------------------
\* sorted(edits, key, reverse=True): by start, descending; Python keeps edits
\* with equal keys in the order of the array.
Before(p, q) == p[1] < q[1] \/ (p[1] = q[1] /\ p[2] < q[2])

\* A slip: the edits are applied from the left.
Ascending(edits) ==
    [k \in DOMAIN edits |->
        edits[CHOOSE i \in DOMAIN edits :
                 k - 1 = Cardinality({j \in DOMAIN edits :
                            \/ Before(edits[j].start, edits[i].start)
                            \/ edits[j].start = edits[i].start /\ j < i})]]

Descending(edits) ==
    [k \in DOMAIN edits |->
        edits[CHOOSE i \in DOMAIN edits :
                 k - 1 = Cardinality({j \in DOMAIN edits :
                            \/ Before(edits[i].start, edits[j].start)
                            \/ edits[j].start = edits[i].start /\ j < i})]]

----------------------------------------------------------------------------
(***************************************************************************)
(* What the server means, in the words of LSP: the edits are positions of  *)
(* the original text and do not overlap; inserts at one position appear in *)
(* the order of the array.  A span is an edit with iterators.              *)
(***************************************************************************)
Spans(t) ==
    {s \in [from : 0..Len(t), to : 0..Len(t), new : NewTexts] : s.from <= s.to}

Disjoint(s, r) == s.to <= r.from \/ r.to <= s.from

SpanArrays(t) ==
    {a \in UNION {[1..n -> Spans(t)] : n \in 1..MaxSpans} :
        \A i, j \in DOMAIN a : i # j => Disjoint(a[i], a[j])}

\* What stands in the result at the place of iterator `it`: the texts put in
\* there, and the character behind it unless a span removes it.
Piece(t, spans, it) ==
    FlattenSeq([i \in DOMAIN spans |->
                   IF spans[i].from = it THEN spans[i].new ELSE <<>>])
    \o IF it = Len(t) \/ \E i \in DOMAIN spans : spans[i].from <= it /\ it < spans[i].to
       THEN <<>>
       ELSE <<t[it + 1]>>

Meant(t, spans) == FlattenSeq([k \in 1..(Len(t) + 1) |-> Piece(t, spans, k - 1)])

\* The whole text is often given as ending at the start of the line behind the
\* last.  An edit that reaches the end of the text may do so if it is alone there.
BehindLast(t) == <<Cardinality(LineStarts(t)), 0>>

MayEndBehind(t, spans, i) ==
    \A j \in DOMAIN spans : spans[j].to = Len(t) <=> i = j

EndPosition(t, spans, i, behind) ==
    IF i \in behind THEN BehindLast(t) ELSE TextIterToUtf16(t, spans[i].to)

Edits(t, spans, behind) ==
    [i \in DOMAIN spans |-> [start |-> TextIterToUtf16(t, spans[i].from),
                             end   |-> EndPosition(t, spans, i, behind),
                             new   |-> spans[i].new]]

----------------------------------------------------------------------------
Init ==
    \E t \in Texts : \E spans \in SpanArrays(t) :
       \E behind \in SUBSET {i \in DOMAIN spans : MayEndBehind(t, spans, i)} :
          /\ text = t
          /\ todo = Descending(Edits(t, spans, behind))
          /\ goal = Meant(t, spans)
          /\ clear = (Cardinality({spans[i].from : i \in DOMAIN spans}) = Len(spans))

\* buffer.delete and buffer.insert of the next edit.
ApplyNext ==
    /\ todo # <<>>
    /\ LET from == Utf16ToTextIter(text, Head(todo).start)
           to   == Utf16ToTextIter(text, Head(todo).end)
       IN  text' = SubSeq(text, 1, from) \o Head(todo).new
                      \o SubSeq(text, to + 1, Len(text))
    /\ todo' = Tail(todo)
    /\ UNCHANGED <<goal, clear>>

Next == ApplyNext

----------------------------------------------------------------------------
\* The buffer ends up as the text the server means, although every edit is
\* applied to what the edits before it have left.  Edits that start at one
\* position are excepted: the code applies the first of the array first, so
\* that the text of the last insert comes out in front, and a replacement
\* deletes some of what an insert before it has put in.
EditsMatchMeaning == todo = <<>> /\ clear => text = goal
=============================================================================
