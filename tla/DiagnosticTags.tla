--------------------------- MODULE DiagnosticTags ---------------------------
(***************************************************************************)
(* src/gedit_lsp/features/diagnostics.py, apply_diagnostics: which         *)
(* characters of the buffer get which lsp-diag-* tag.  The diagnostics of  *)
(* a publishDiagnostics are taken in the order of their severity, 1 being  *)
(* an error and 4 a hint; each gets what no earlier one has.  A step is    *)
(* one turn of the loop, after its range has been converted to offsets     *)
(* (TextEdits has the conversion).                                         *)
(***************************************************************************)
EXTENDS Naturals, Sequences, SequencesExt, FiniteSetsExt

CONSTANTS
    MaxTagged,       \* bound on the characters of the buffer
    MaxDiagnostics,  \* bound on the diagnostics of one publishDiagnostics
    Severities,      \* those the server uses
    Styled           \* those that severityUnderlineStyle gives a tag

VARIABLES
    chars,     \* the buffer: "a" or the line break "N"
    last,      \* severity of the newest diagnostic
    occupied,  \* the intervals <<from, to>> that are taken, in order
    tags,      \* the tags of each character, by severity
    seen       \* history: <<severity, from, to>> of the diagnostics so far

vars == <<chars, last, occupied, tags, seen>>

Init ==
    /\ chars \in SeqOf({"a", "N"}, MaxTagged)
    /\ last = 1
    /\ occupied = <<>>
    /\ tags = [c \in DOMAIN chars |-> {}]
    /\ seen = <<>>

Larger(a, b) == IF a < b THEN b ELSE a
Smaller(a, b) == IF a < b THEN a ELSE b

\* A slip in _subtract_intervals: after an interval the next piece begins where
\* the range begins.
SubtractForgets(s, e, intervals) ==
    LET Step(found, i) ==
            IF i[2] <= s \/ i[1] >= e \/ i[1] <= s THEN found
            ELSE Append(found, <<s, i[1]>>)
        pieces == FoldLeft(Step, <<>>, intervals)
    IN  IF pieces = <<>> /\ \A k \in DOMAIN intervals :
                                intervals[k][2] <= s \/ intervals[k][1] >= e
        THEN <<<<s, e>>>> ELSE pieces

\* _subtract_intervals: the pieces of <<s, e>> between the intervals.  One turn
\* of its loop, for the interval i, and the loop.
PieceBefore(found, i, e) ==
    IF i[2] <= found.cur \/ i[1] >= e THEN found
    ELSE [cur |-> Larger(found.cur, i[2]),
          pieces |-> IF found.cur < i[1] THEN Append(found.pieces, <<found.cur, i[1]>>)
                     ELSE found.pieces]

Subtract(s, e, intervals) ==
    LET found[k \in 0..Len(intervals)] ==
            IF k = 0 THEN [cur |-> s, pieces |-> <<>>]
            ELSE PieceBefore(found[k - 1], intervals[k], e)
        all == found[Len(intervals)]
    IN  IF all.cur < e THEN Append(all.pieces, <<all.cur, e>>) ELSE all.pieces

\* _union_intervals: the range swallows the intervals it touches.  Again a turn
\* and the loop.
Swallow(done, i) ==
    IF i[2] < done.s THEN [done EXCEPT !.out = Append(@, i)]
    ELSE IF done.e < i[1]
    THEN [done EXCEPT !.out = IF done.placed THEN Append(@, i)
                              ELSE Append(Append(@, <<done.s, done.e>>), i),
                      !.placed = TRUE]
    ELSE [done EXCEPT !.s = Smaller(@, i[1]), !.e = Larger(@, i[2])]

Union(intervals, s, e) ==
    LET done[k \in 0..Len(intervals)] ==
            IF k = 0 THEN [s |-> s, e |-> e, out |-> <<>>, placed |-> FALSE]
            ELSE Swallow(done[k - 1], intervals[k])
        all == done[Len(intervals)]
    IN  IF all.placed THEN all.out ELSE Append(all.out, <<all.s, all.e>>)

\* _widen_for_visibility: an empty range takes the character before it at the
\* end of a line, else the one after it, else the one before.
Widen(s, e) ==
    LET endsLine == s = Len(chars) \/ chars[s + 1] = "N"
        startsLine == s = 0 \/ chars[s] = "N"
    IN  IF s # e THEN <<s, e>>
        ELSE IF endsLine /\ ~startsLine THEN <<s - 1, s>>
        ELSE IF s < Len(chars) THEN <<s, s + 1>>
        ELSE IF s > 0 THEN <<s - 1, s>>
        ELSE <<s, s>>

\* apply_tag over the pieces.
Tagged(pieces, severity) ==
    [c \in DOMAIN chars |->
        IF \E k \in DOMAIN pieces : pieces[k][1] < c /\ c <= pieces[k][2]
        THEN tags[c] \cup {severity} ELSE tags[c]]

\* One diagnostic.  Its range may be empty or reversed.
ApplyDiagnostic(severity, from, to) ==
    /\ Len(seen) < MaxDiagnostics
    /\ severity >= last
    /\ last' = severity
    /\ LET range == Widen(from, to) IN
       IF severity \notin Styled \/ range[2] <= range[1]
       THEN UNCHANGED <<occupied, tags, seen>>
       ELSE /\ tags' = Tagged(Subtract(range[1], range[2], occupied), severity)
            /\ occupied' = Union(occupied, range[1], range[2])
            /\ seen' = Append(seen, <<severity, range[1], range[2]>>)
    /\ UNCHANGED chars

Next ==
    \E severity \in Severities, from, to \in 0..Len(chars) :
        ApplyDiagnostic(severity, from, to)

----------------------------------------------------------------------------
\* Each character has one tag, that of the most severe of the diagnostics that
\* cover it, and none if none does, whatever their ranges; the comment in
\* apply_diagnostics says "exactly one lsp-diag-* tag".
SeverestWins ==
    \A c \in DOMAIN chars :
        LET covering == {d \in ToSet(seen) : d[2] < c /\ c <= d[3]}
        IN  tags[c] = IF covering = {} THEN {} ELSE {Min({d[1] : d \in covering})}
=============================================================================
