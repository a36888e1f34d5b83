---------------------------- MODULE TransportProofs --------------------------
(***************************************************************************)
(* The theorems of Transport, for every script, header text and number of  *)
(* messages.                                                               *)
(*                                                                         *)
(* The reading half: DeliveredAsWritten, NothingLost and DeafForAReason.   *)
(* Its inductive invariant, ReadingInv, says where in the stream the       *)
(* reader is: at the beginning of a frame, of which the decoder has some   *)
(* lines of the header, or at the beginning of a body, of which it has a   *)
(* part.  The sections before it say what the operators of FrameDecoder    *)
(* make of a buffer, and where the frames and bodies of a stream begin.    *)
(*                                                                         *)
(* The writing half: WritesAreOrdered and CallbackOnce, from the           *)
(* invariant IInv at the end of the module.                                *)
(***************************************************************************)
EXTENDS Transport, Induction, SequenceTheorems

----------------------------------------------------------------------------
(***************************************************************************)
(* Reading: where line ends, blank lines and bare line feeds are found.    *)
(***************************************************************************)
LineAt(s, i) == i \in 1..(Len(s) - 1) /\ s[i] = "CR" /\ s[i + 1] = "LF"

\* A blank line begins behind the text of another: the end of a header.
BlankAt(s, i) ==
    /\ i \in 1..(Len(s) - 3)
    /\ s[i] = "CR" /\ s[i + 1] = "LF" /\ s[i + 2] = "CR" /\ s[i + 3] = "LF"

\* Two line feeds, which are taken for a wrong end of a header.
BareAt(s, i) == i \in 1..(Len(s) - 1) /\ s[i] = "LF" /\ s[i + 1] = "LF"

\* At has the places of the pattern p in s.
Places(s, p, At) ==
    \A i \in Nat : i \in At <=>
       i \in 1..(Len(s) - Len(p) + 1) /\ \A j \in 1..Len(p) : s[i + j - 1] = p[j]

\* Find gives the first.
LEMMA FindsFirst ==
    ASSUME NEW s \in Seq(Symbols), NEW p \in Seq(Symbols), Len(p) > 0,
           NEW At, Places(s, p, At)
    PROVE  /\ Find(s, p) \in Nat
           /\ Find(s, p) = 0 => \A i \in Nat : i \notin At
           /\ Find(s, p) # 0 => /\ Find(s, p) \in At
                                /\ \A i \in Nat : i \in At => Find(s, p) <= i
<1> DEFINE places == {i \in 1..(Len(s) - Len(p) + 1) :
                         SubSeq(s, i, i + Len(p) - 1) = p}
           first == CHOOSE i \in places : \A j \in places : i <= j
<1>1. ASSUME NEW i \in 1..(Len(s) - Len(p) + 1)
      PROVE  SubSeq(s, i, i + Len(p) - 1) = p <=> \A j \in 1..Len(p) : s[i + j - 1] = p[j]
  <2> DEFINE piece == SubSeq(s, i, i + Len(p) - 1)
  <2>1. /\ piece \in Seq(Symbols) /\ Len(piece) = Len(p)
        /\ \A j \in 1..Len(p) : piece[j] = s[i + j - 1]
    <3>1. \A j \in i..(i + Len(p) - 1) : s[j] \in Symbols
      OBVIOUS
    <3>2. /\ i \in Int /\ i + Len(p) - 1 \in Int /\ i <= i + Len(p) - 1
          /\ (i + Len(p) - 1) - i + 1 = Len(p)
      OBVIOUS
    <3>3. QED
      BY <3>1, <3>2, SubSeqProperties
  <2> HIDE DEF piece
  <2>2. piece = p <=> \A j \in 1..Len(p) : piece[j] = p[j]
    BY <2>1, SeqEqual
  <2>3. QED
    BY <2>1, <2>2 DEF piece
<1>2. \A i \in Nat : i \in places <=> i \in At
  BY <1>1 DEF Places
<1>3. places \subseteq Nat
  OBVIOUS
<1>4. Find(s, p) = IF places = {} THEN 0 ELSE first
  BY DEF Find
<1> HIDE DEF places
<1>5. CASE places = {}
  BY <1>2, <1>4, <1>5
<1>6. CASE places # {}
  <2>1. PICK x \in places : \A y \in places : x <= y
    BY <1>3, <1>6, LeastNumber
  <2>2. first \in places /\ \A y \in places : first <= y
    BY <2>1
  <2> HIDE DEF first
  <2>3. first \in Nat
    BY <1>3, <2>2
  <2>4. first # 0
    BY <2>2 DEF places
  <2>5. QED
    BY <1>2, <1>4, <1>6, <2>2, <2>3, <2>4
<1>7. QED
  BY <1>5, <1>6

\* The three patterns.
LEMMA CrlfIs ==
    /\ CRLF \in Seq(Symbols) /\ Len(CRLF) = 2 /\ Len(CRLF) > 0
    /\ CRLF[1] = "CR" /\ CRLF[2] = "LF"
BY DEF CRLF, Symbols, OtherSymbols

\* The end of the first line.
LEMMA FindsLine ==
    ASSUME NEW s \in Seq(Symbols)
    PROVE  /\ Find(s, CRLF) \in Nat
           /\ Find(s, CRLF) = 0 => \A i : ~LineAt(s, i)
           /\ Find(s, CRLF) # 0 => /\ LineAt(s, Find(s, CRLF))
                                   /\ \A i : LineAt(s, i) => Find(s, CRLF) <= i
<1> DEFINE At == {i \in Nat : LineAt(s, i)}
<1>1. Places(s, CRLF, At)
  BY CrlfIs DEF LineAt, Places
<1>2. \A i : LineAt(s, i) => i \in At
  BY DEF LineAt
<1>3. \A i : i \in At => LineAt(s, i)
  OBVIOUS
<1> HIDE DEF At
<1>4. /\ Find(s, CRLF) \in Nat
      /\ Find(s, CRLF) = 0 => \A i \in Nat : i \notin At
      /\ Find(s, CRLF) # 0 => /\ Find(s, CRLF) \in At
                              /\ \A i \in Nat : i \in At => Find(s, CRLF) <= i
  BY <1>1, CrlfIs, FindsFirst
<1>5. \A i : LineAt(s, i) => i \in Nat
  BY DEF LineAt
<1>6. QED
  BY <1>2, <1>3, <1>4, <1>5

\* The first end of a header.
LEMMA FindsBlank ==
    ASSUME NEW s \in Seq(Symbols)
    PROVE  LET sep == Find(s, CRLF \o CRLF)
           IN  /\ sep \in Nat
               /\ sep = 0 => \A i : ~BlankAt(s, i)
               /\ sep # 0 => BlankAt(s, sep) /\ \A i : BlankAt(s, i) => sep <= i
<1> DEFINE At == {i \in Nat : BlankAt(s, i)}
           blank == CRLF \o CRLF
<1>1. /\ blank \in Seq(Symbols) /\ Len(blank) = 4 /\ Len(blank) > 0
      /\ blank[1] = "CR" /\ blank[2] = "LF" /\ blank[3] = "CR" /\ blank[4] = "LF"
  <2>1. /\ blank \in Seq(Symbols) /\ Len(blank) = 4
        /\ \A i \in 1..4 : blank[i] = IF i <= 2 THEN CRLF[i] ELSE CRLF[i - 2]
    <3>1. /\ blank \in Seq(Symbols) /\ Len(blank) = Len(CRLF) + Len(CRLF)
          /\ \A i \in 1..(Len(CRLF) + Len(CRLF)) :
                blank[i] = IF i <= Len(CRLF) THEN CRLF[i] ELSE CRLF[i - Len(CRLF)]
      BY CrlfIs, ConcatProperties
    <3> HIDE DEF blank
    <3>2. QED
      BY <3>1, CrlfIs
  <2> HIDE DEF blank
  <2>2. QED
    BY <2>1, CrlfIs
<1> HIDE DEF blank
<1>2. Places(s, blank, At)
  <2>1. \A i \in Nat : (\A j \in 1..4 : s[i + j - 1] = blank[j]) <=>
           s[i] = "CR" /\ s[i + 1] = "LF" /\ s[i + 2] = "CR" /\ s[i + 3] = "LF"
    BY <1>1
  <2>2. QED
    BY <1>1, <2>1 DEF BlankAt, Places
<1>3. \A i : BlankAt(s, i) => i \in At
  BY DEF BlankAt
<1>4. \A i : i \in At => BlankAt(s, i)
  OBVIOUS
<1> HIDE DEF At
<1>5. /\ Find(s, blank) \in Nat
      /\ Find(s, blank) = 0 => \A i \in Nat : i \notin At
      /\ Find(s, blank) # 0 => /\ Find(s, blank) \in At
                               /\ \A i \in Nat : i \in At => Find(s, blank) <= i
  BY <1>1, <1>2, FindsFirst
<1>6. \A i : BlankAt(s, i) => i \in Nat
  BY DEF BlankAt
<1>7. QED
  BY <1>3, <1>4, <1>5, <1>6 DEF blank

\* The first two bare line feeds.
LEMMA FindsBare ==
    ASSUME NEW s \in Seq(Symbols)
    PROVE  Find(s, <<"LF", "LF">>) = 0 <=> \A i : ~BareAt(s, i)
<1> DEFINE At == {i \in Nat : BareAt(s, i)}
           bare == <<"LF", "LF">>
<1>1. bare \in Seq(Symbols) /\ Len(bare) = 2 /\ Len(bare) > 0 /\ bare[1] = "LF" /\ bare[2] = "LF"
  BY DEF Symbols, OtherSymbols
<1> HIDE DEF bare
<1>2. Places(s, bare, At)
  BY <1>1 DEF BareAt, Places
<1>3. \A i : BareAt(s, i) => i \in At
  BY DEF BareAt
<1>4. \A i : i \in At => BareAt(s, i) /\ i \in Nat
  OBVIOUS
<1> HIDE DEF At
<1>5. /\ Find(s, bare) = 0 => \A i \in Nat : i \notin At
      /\ Find(s, bare) # 0 => Find(s, bare) \in At
  BY <1>1, <1>2, FindsFirst
<1>6. QED
  BY <1>3, <1>4, <1>5 DEF bare

----------------------------------------------------------------------------
(***************************************************************************)
(* feed takes at most one message here: two turns are enough.              *)
(***************************************************************************)
LEMMA TwoTurns ==
    ASSUME NEW d \in Decoder, NEW e \in Decoder, NEW f \in Decoder,
           e = Turn[d], f = Turn[e], f = Turn[f], d.buffer # <<>> \/ e = f
    PROVE  Drain(d) = f
<1> DEFINE N == Len(d.buffer) + 1
           S == {d, e, f}
           R == {t \in (1..N) \X S \X S : t[3] = Turn[t[2]]}
           G(g) == [n \in 0..N |-> IF n = 0 THEN d ELSE Turn[g[n - 1]]]
           after == CHOOSE g : g = G(g)
<1>1. N \in Nat /\ N >= 1 /\ (N >= 2 \/ e = f)
  BY DEF Decoder
<1>2. Drain(d) = after[N]
  BY DEF Drain
<1>3. NeverStuck(R, S, N)
  BY DEF NeverStuck
<1> HIDE DEF N
<1>4. PICK g : Runs(g, d, R, S, N)
  <2> HIDE DEF R
  <2>1. QED
    BY <1>1, <1>3, ByRecursion
<1>5. g \in [0..N -> S] /\ g[0] = d /\ \A n \in 1..N : g[n] = Turn[g[n - 1]]
  BY <1>4 DEF Runs
<1>6. g = G(g)
  BY <1>1, <1>5
<1>7. after = G(after)
  BY <1>6
<1> HIDE DEF after, R
<1>8. after[0] = d /\ \A n \in 1..N : after[n] = Turn[after[n - 1]]
  BY <1>1, <1>7
<1>9. CASE e = f
  <2> DEFINE T == {n \in 0..N : n = 0 \/ after[n] = f}
  <2>1. 0 \in T
    BY <1>1
  <2>2. Hereditary(T, N)
    <3>1. ASSUME NEW n \in 1..N, n - 1 \in T PROVE after[n] = f
      BY <1>1, <1>8, <1>9, <3>1
    <3>2. QED
      BY <1>1, <3>1 DEF Hereditary
  <2> HIDE DEF T
  <2>3. N \in T
    BY <1>1, <2>1, <2>2, UpTo
  <2>4. QED
    BY <1>1, <1>2, <2>3 DEF T
<1>10. CASE N >= 2
  <2> DEFINE T == {n \in 0..N : n = 0 \/ (n = 1 /\ after[n] = e) \/ (n >= 2 /\ after[n] = f)}
  <2>1. 0 \in T
    BY <1>1
  <2>2. Hereditary(T, N)
    BY <1>1, <1>8 DEF Hereditary
  <2> HIDE DEF T
  <2>3. N \in T
    BY <1>1, <2>1, <2>2, UpTo
  <2>4. QED
    BY <1>1, <1>2, <1>10, <2>3 DEF T
<1>11. QED
  BY <1>1, <1>9, <1>10

----------------------------------------------------------------------------
(***************************************************************************)
(* What one call of feed makes of a buffer.                                *)
(***************************************************************************)
\* What a turn makes of a buffer that has no blank line.
LEMMA QuietTurn ==
    ASSUME NEW d \in Decoder, d.ok = TRUE, d.expected = NoLength,
           \A i : ~BlankAt(d.buffer, i)
    PROVE  LET e == [d EXCEPT !.ok = (\A i : ~BareAt(d.buffer, i))]
           IN  e \in Decoder /\ Turn[d] = e /\ Turn[e] = e
<1> DEFINE e == [d EXCEPT !.ok = (\A i : ~BareAt(d.buffer, i))]
           bare == [d EXCEPT !.ok = (Find(d.buffer, <<"LF", "LF">>) = 0)]
           blank == CRLF \o CRLF
<1>1. d.buffer \in Seq(Symbols)
  BY DEF Decoder
<1>2. e = bare
  BY <1>1, FindsBare
<1>3. e \in Decoder /\ bare \in Decoder
  BY <1>2 DEF Decoder
<1>4. Find(d.buffer, blank) = 0
  BY <1>1, FindsBlank
<1>5. Turn[d] = bare
  <2>1. Turn[d] = TakeHeader(d)
    BY DEF Turn
  <2> HIDE DEF bare
  <2>2. TakeHeader(d) = bare
    BY <1>4 DEF TakeHeader, bare
  <2>3. QED
    BY <2>1, <2>2
<1>6. CASE e.ok = FALSE
  <2>1. Turn[e] = e
    BY <1>3, <1>6 DEF Turn
  <2>2. QED
    BY <1>2, <1>3, <1>5, <2>1
<1>7. CASE e.ok # FALSE
  <2>1. e = d
    BY <1>7 DEF Decoder
  <2>2. QED
    BY <1>2, <1>3, <1>5, <2>1
<1>8. QED
  BY <1>6, <1>7

\* A body that is not there waits.
LEMMA BodyWaits ==
    ASSUME NEW d \in Decoder, d.ok = TRUE, d.expected \in Nat, Len(d.buffer) < d.expected
    PROVE  Turn[d] = d /\ Drain(d) = d
<1>1. d.expected # NoLength
  BY DEF NoLength
<1>2. Turn[d] = TakeBody(d)
  BY <1>1 DEF Turn
<1>3. Turn[d] = d
  BY <1>2 DEF TakeBody
<1>4. QED
  BY <1>3, TwoTurns

\* Without a blank line the buffer waits, or raises.
LEMMA HeaderWaits ==
    ASSUME NEW d \in Decoder, d.ok = TRUE, d.expected = NoLength,
           \A i : ~BlankAt(d.buffer, i)
    PROVE  Drain(d) = [d EXCEPT !.ok = (\A i : ~BareAt(d.buffer, i))]
<1> DEFINE e == [d EXCEPT !.ok = (\A i : ~BareAt(d.buffer, i))]
<1>1. e \in Decoder /\ Turn[d] = e /\ Turn[e] = e
  BY QuietTurn
<1> HIDE DEF e
<1>2. Drain(d) = e
  BY <1>1, TwoTurns
<1>3. QED
  BY <1>2 DEF e

\* What is left of a buffer.
LEMMA DropIs ==
    ASSUME NEW s \in Seq(Symbols), NEW n \in 0..Len(s)
    PROVE  /\ Drop(s, n) \in Seq(Symbols) /\ Len(Drop(s, n)) = Len(s) - n
           /\ \A i \in 1..(Len(s) - n) : Drop(s, n)[i] = s[n + i]
<1>1. \A i \in (n + 1)..Len(s) : s[i] \in Symbols
  OBVIOUS
<1>2. n + 1 \in Int /\ Len(s) \in Int
  OBVIOUS
<1> DEFINE t == SubSeq(s, n + 1, Len(s))
<1>3. /\ t \in Seq(Symbols)
      /\ Len(t) = IF n + 1 <= Len(s) THEN Len(s) - (n + 1) + 1 ELSE 0
      /\ \A i \in 1..(Len(s) - (n + 1) + 1) : t[i] = s[(n + 1) + i - 1]
  BY <1>1, <1>2, SubSeqProperties
<1> HIDE DEF t
<1>4. t \in Seq(Symbols) /\ Len(t) = Len(s) - n /\ \A i \in 1..(Len(s) - n) : t[i] = s[n + i]
  BY <1>3
<1>5. QED
  BY <1>4 DEF Drop, t

\* A body that is there is taken, and what is behind it has no blank line.
LEMMA BodyComes ==
    ASSUME NEW d \in Decoder, d.ok = TRUE, d.expected \in Nat \ {0},
           d.expected <= Len(d.buffer), d.out = <<>>,
           \A i : ~BlankAt(Drop(d.buffer, d.expected), i)
    PROVE  LET rest == Drop(d.buffer, d.expected)
           IN  Drain(d) = [buffer |-> rest, expected |-> NoLength,
                           out |-> <<SubSeq(d.buffer, 1, d.expected)>>,
                           ok |-> \A i : ~BareAt(rest, i)]
<1> DEFINE rest == Drop(d.buffer, d.expected)
           body == SubSeq(d.buffer, 1, d.expected)
           e == [buffer |-> rest, expected |-> NoLength, out |-> <<body>>, ok |-> TRUE]
           f == [e EXCEPT !.ok = (\A i : ~BareAt(e.buffer, i))]
<1>1. d.buffer \in Seq(Symbols) /\ d.expected \in 0..Len(d.buffer)
  BY DEF Decoder
<1>2. rest \in Seq(Symbols)
  BY <1>1, DropIs
<1>3. body \in Seq(Symbols)
  BY <1>1, FirstIs
<1> HIDE DEF rest, body
<1>4. e \in Decoder
  BY <1>2, <1>3 DEF Decoder, NoLength
<1>5. Turn[d] = e
  <2>1. d.expected # NoLength
    BY DEF NoLength
  <2>2. Turn[d] = TakeBody(d)
    BY <2>1 DEF Turn
  <2>3. ~(Len(d.buffer) < d.expected)
    BY <1>1
  <2>4. TakeBody(d) = [d EXCEPT !.buffer = rest, !.expected = NoLength,
                                !.out = Append(d.out, body)]
    BY <2>3 DEF TakeBody, rest, body
  <2>5. Append(d.out, body) = <<body>>
    OBVIOUS
  <2>6. QED
    BY <2>2, <2>4, <2>5 DEF Decoder
<1>6. e.ok = TRUE /\ e.expected = NoLength /\ \A i : ~BlankAt(e.buffer, i)
  BY DEF rest
<1>7. f \in Decoder /\ Turn[e] = f /\ Turn[f] = f
  BY <1>4, <1>6, QuietTurn
<1>8. d.buffer # <<>>
  BY <1>1
<1>9. f = [buffer |-> rest, expected |-> NoLength, out |-> <<body>>,
           ok |-> \A i : ~BareAt(rest, i)]
  <2>1. e.buffer = rest
    OBVIOUS
  <2>2. ASSUME NEW b
        PROVE  [e EXCEPT !.ok = b] =
                  [buffer |-> rest, expected |-> NoLength, out |-> <<body>>, ok |-> b]
    OBVIOUS
  <2> HIDE DEF e
  <2>3. QED
    BY <2>1, <2>2
<1> HIDE DEF e, f
<1>10. Drain(d) = f
  BY <1>4, <1>5, <1>7, <1>8, TwoTurns
<1>11. QED
  BY <1>9, <1>10 DEF rest, body

----------------------------------------------------------------------------
(***************************************************************************)
(* The header of a frame: p symbols, then the length of the body, two line *)
(* ends, and the body.                                                     *)
(***************************************************************************)
FrameAt(w, p, body) ==
    /\ p \in Nat /\ p + 5 + Len(body) <= Len(w)
    /\ \A i \in 1..p : w[i] \in OtherSymbols
    /\ w[p + 1] \in DOMAIN LengthOf /\ LengthOf[w[p + 1]] = Len(body)
    /\ BlankAt(w, p + 2)
    /\ \A i \in 1..Len(body) : w[p + 5 + i] = body[i]

\* Nothing, or one more header line.
Plain(w, p) == p = 0 \/ (p = 3 /\ w[1] = "type" /\ w[2] = "CR" /\ w[3] = "LF")

\* s is the beginning of w.
Begins(s, w) == Len(s) <= Len(w) /\ \A i \in 1..Len(s) : s[i] = w[i]

\* A length is no other symbol.
LEMMA LengthsApart ==
    ASSUME NEW x \in OtherSymbols
    PROVE  x \notin DOMAIN LengthOf
BY LengthOfAssumption

\* The only length in a header is that of its frame.
LEMMA HeaderParses ==
    ASSUME NEW w \in Seq(Symbols), NEW p, NEW body \in Seq(Symbols), FrameAt(w, p, body),
           NEW block \in Seq(Symbols), Begins(block, w), Len(block) <= p + 1
    PROVE  /\ ParseContentLength(block) # Malformed =>
                 Len(block) = p + 1 /\ ParseContentLength(block) = Len(body)
           /\ Len(block) = p + 1 /\ Plain(w, p) => ParseContentLength(block) # Malformed
<1> DEFINE named == {i \in LineStarts(block) : i <= Len(block) /\ block[i] \in DOMAIN LengthOf}
           first == CHOOSE i \in named : \A j \in named : i <= j
<1>1. /\ p \in Nat /\ Len(block) \in Nat /\ Len(body) \in Nat
      /\ \A i \in 1..p : w[i] \in OtherSymbols
      /\ w[p + 1] \in DOMAIN LengthOf /\ LengthOf[w[p + 1]] = Len(body)
  BY DEF FrameAt
<1>2. \A i \in 1..Len(block) : block[i] = w[i]
  BY DEF Begins
<1>3. \A i \in LineStarts(block) : i \in Nat \ {0}
  <2>1. 1 \in Nat \ {0} /\ \A i \in 3..Len(block) : i \in Nat \ {0}
    OBVIOUS
  <2>2. QED
    BY <2>1 DEF LineStarts
<1>4. ASSUME NEW i \in named PROVE i = p + 1 /\ Len(block) = p + 1
  <2>1. i \in 1..Len(block) /\ w[i] \in DOMAIN LengthOf
    BY <1>1, <1>2, <1>3
  <2>2. i \notin 1..p
    BY <1>1, <2>1, LengthsApart
  <2>3. QED
    BY <1>1, <2>1, <2>2
<1>5. ParseContentLength(block) =
         IF named = {} \/ (first < Len(block) /\ block[first + 1] # "CR")
         THEN Malformed ELSE LengthOf[block[first]]
  BY DEF ParseContentLength
<1>6. Len(body) # Malformed
  BY <1>1 DEF Malformed
<1> HIDE DEF named
<1>7. ASSUME named # {}
      PROVE  Len(block) = p + 1 /\ ParseContentLength(block) = Len(body)
  <2>1. named = {p + 1} /\ Len(block) = p + 1
    BY <1>4, <1>7
  <2>2. first = p + 1
    <3>1. p + 1 \in named /\ \A j \in named : p + 1 <= j
      BY <1>1, <2>1
    <3>2. first \in named
      BY <3>1
    <3>3. QED
      BY <2>1, <3>2
  <2> HIDE DEF first
  <2>3. block[p + 1] = w[p + 1] /\ ~(p + 1 < Len(block))
    BY <1>1, <1>2, <2>1
  <2>4. QED
    BY <1>1, <1>5, <1>7, <2>1, <2>2, <2>3
<1>8. ASSUME Len(block) = p + 1, Plain(w, p)
      PROVE  named # {}
  <2>1. p + 1 <= Len(block) /\ block[p + 1] \in DOMAIN LengthOf
    BY <1>1, <1>2, <1>8
  <2>2. p + 1 \in LineStarts(block)
    <3>1. CASE p = 0
      BY <3>1 DEF LineStarts
    <3>2. CASE p = 3 /\ w[1] = "type" /\ w[2] = "CR" /\ w[3] = "LF"
      <4>1. block[2] = "CR" /\ block[3] = "LF" /\ Len(block) = 4
        BY <1>2, <1>8, <3>2
      <4>2. SubSeq(block, 2, 3) = CRLF
        <5>1. \A i \in 2..3 : block[i] \in Symbols
          BY <4>1 DEF Symbols, OtherSymbols
        <5>2. 2 \in Int /\ 3 \in Int
          OBVIOUS
        <5> DEFINE t == SubSeq(block, 2, 3)
        <5>3. /\ t \in Seq(Symbols) /\ Len(t) = IF 2 <= 3 THEN 3 - 2 + 1 ELSE 0
              /\ \A i \in 1..(3 - 2 + 1) : t[i] = block[2 + i - 1]
          BY <5>1, <5>2, SubSeqProperties
        <5> HIDE DEF t
        <5>4. t \in Seq(Symbols) /\ Len(t) = 2 /\ t[1] = block[2] /\ t[2] = block[3]
          BY <5>3
        <5>5. Len(t) = Len(CRLF) /\ \A i \in 1..Len(t) : t[i] = CRLF[i]
          BY <4>1, <5>4, CrlfIs
        <5>6. t = CRLF
          BY <5>4, <5>5, CrlfIs, SeqEqual
        <5>7. QED
          BY <5>6 DEF t
      <4>3. 4 \in 3..Len(block) /\ SubSeq(block, 4 - 2, 4 - 1) = CRLF
        BY <4>1, <4>2
      <4>4. QED
        BY <3>2, <4>3 DEF LineStarts
    <3>3. QED
      BY <1>8, <3>1, <3>2 DEF Plain
  <2>3. QED
    BY <2>1, <2>2 DEF named
<1>9. CASE named = {}
  <2>1. ParseContentLength(block) = Malformed
    BY <1>5, <1>9
  <2>2. QED
    BY <1>8, <1>9, <2>1
<1>10. CASE named # {}
  BY <1>6, <1>7, <1>10
<1>11. QED
  BY <1>9, <1>10

\* What begins like a frame has no blank line but that of the frame, or one in
\* what was printed before it.
LEMMA BlanksOfFrame ==
    ASSUME NEW w \in Seq(Symbols), NEW p, NEW body \in Seq(Symbols), FrameAt(w, p, body),
           NEW s \in Seq(Symbols), Begins(s, w)
    PROVE  /\ \A i : BlankAt(s, i) => i + 3 <= p \/ i >= p + 2
           /\ p + 5 <= Len(s) => BlankAt(s, p + 2)
           /\ Plain(w, p) => \A i : BlankAt(s, i) => i >= p + 2
           /\ Plain(w, p) /\ Len(s) < p + 5 => \A i : ~BareAt(s, i)
<1>1. /\ p \in Nat /\ Len(s) \in Nat /\ Len(w) \in Nat
      /\ w[p + 1] \notin OtherSymbols
      /\ w[p + 2] = "CR" /\ w[p + 3] = "LF" /\ w[p + 4] = "CR" /\ w[p + 5] = "LF"
  <2>1. \A x \in DOMAIN LengthOf : x \notin OtherSymbols
    BY LengthsApart
  <2>2. p \in Nat /\ Len(s) \in Nat /\ Len(w) \in Nat /\ w[p + 1] \in DOMAIN LengthOf
    BY DEF FrameAt
  <2>3. /\ w[p + 2] = "CR" /\ w[p + 3] = "LF" /\ w[p + 4] = "CR" /\ w[p + 5] = "LF"
    BY <2>2 DEF FrameAt, BlankAt
  <2>4. QED
    BY <2>1, <2>2, <2>3
<1>2. Len(s) <= Len(w) /\ \A i \in 1..Len(s) : s[i] = w[i]
  BY DEF Begins
<1>3. w[p + 1] # "CR" /\ w[p + 1] # "LF"
  BY <1>1 DEF OtherSymbols
<1>4. ASSUME NEW i, BlankAt(s, i)
      PROVE  i + 3 <= p \/ i >= p + 2
  <2>1. /\ i \in 1..Len(s) /\ i + 1 \in 1..Len(s) /\ i + 2 \in 1..Len(s) /\ i + 3 \in 1..Len(s)
        /\ s[i] = "CR" /\ s[i + 1] = "LF" /\ s[i + 2] = "CR" /\ s[i + 3] = "LF"
    BY <1>1, <1>4, SMTT(30) DEF BlankAt
  <2>2. w[i] = "CR" /\ w[i + 1] = "LF" /\ w[i + 2] = "CR" /\ w[i + 3] = "LF"
    BY <1>2, <2>1
  <2>3. i # p + 1 /\ i + 1 # p + 1 /\ i + 2 # p + 1 /\ i + 3 # p + 1
    BY <1>3, <2>2
  <2>4. QED
    BY <1>1, <2>1, <2>3
<1>5. ASSUME p + 5 <= Len(s) PROVE BlankAt(s, p + 2)
  <2>1. p + 2 \in 1..Len(s) /\ p + 3 \in 1..Len(s) /\ p + 4 \in 1..Len(s) /\ p + 5 \in 1..Len(s)
    BY <1>1, <1>5
  <2>2. s[p + 2] = "CR" /\ s[p + 3] = "LF" /\ s[p + 4] = "CR" /\ s[p + 5] = "LF"
    BY <1>1, <1>2, <2>1
  <2>3. p + 2 \in 1..(Len(s) - 3) /\ (p + 2) + 1 = p + 3 /\ (p + 2) + 2 = p + 4 /\ (p + 2) + 3 = p + 5
    BY <1>1, <1>5
  <2>4. QED
    BY <2>2, <2>3 DEF BlankAt
<1>6. ASSUME Plain(w, p), NEW i, BlankAt(s, i) PROVE i >= p + 2
  <2>1. i \in Nat /\ i >= 1 /\ (p = 0 \/ p = 3)
    BY <1>1, <1>6 DEF BlankAt, Plain
  <2>2. QED
    BY <1>1, <1>4, <1>6, <2>1
<1>7. ASSUME Plain(w, p), Len(s) < p + 5, NEW i, BareAt(s, i) PROVE FALSE
  <2>1. i \in 1..(p + 3) /\ i \in 1..Len(s) /\ i + 1 \in 1..Len(s) /\ s[i] = "LF" /\ s[i + 1] = "LF"
    BY <1>1, <1>7 DEF BareAt
  <2>2. w[i] = "LF" /\ w[i + 1] = "LF"
    BY <1>2, <2>1
  <2>3. CASE p = 0
    <3>1. i = 1 \/ i = 2 \/ i = 3
      BY <2>1, <2>3
    <3>2. QED
      BY <1>1, <1>3, <2>2, <2>3, <3>1
  <2>4. CASE p = 3 /\ w[1] = "type" /\ w[2] = "CR" /\ w[3] = "LF"
    <3>1. i = 1 \/ i = 2 \/ i = 3 \/ i = 4 \/ i = 5 \/ i = 6
      BY <2>1, <2>4
    <3>2. QED
      BY <1>1, <1>3, <2>2, <2>4, <3>1
  <2>5. QED
    BY <1>7, <2>3, <2>4 DEF Plain
<1>8. QED
  BY <1>4, <1>5, <1>6, <1>7

\* A decoder whose buffer is emptied for a body of n characters.
LEMMA ExpectsBody ==
    ASSUME NEW d \in Decoder, NEW n \in Nat, d.ok = TRUE, d.out = <<>>
    PROVE  [d EXCEPT !.buffer = <<>>, !.expected = n] =
              [buffer |-> <<>>, expected |-> n, out |-> <<>>, ok |-> TRUE]
<1> DEFINE c == [d EXCEPT !.buffer = <<>>]
           e == [d EXCEPT !.buffer = <<>>, !.expected = n]
<1>1. c \in Decoder
  BY DEF Decoder
<1>2. c.buffer = <<>> /\ c.ok = TRUE /\ c.out = <<>>
  BY <1>1 DEF Decoder
<1>3. e = [c EXCEPT !.expected = n]
  BY DEF Decoder
<1> HIDE DEF c, e
<1>4. n \in Int
  OBVIOUS
<1>5. e \in Decoder /\ e.buffer = <<>> /\ e.ok = TRUE /\ e.out = <<>> /\ e.expected = n
  BY <1>1, <1>2, <1>3, <1>4 DEF Decoder
<1>6. e = [buffer |-> e.buffer, expected |-> e.expected, out |-> e.out, ok |-> e.ok]
  BY <1>5 DEF Decoder
<1>7. e = [buffer |-> <<>>, expected |-> n, out |-> <<>>, ok |-> TRUE]
  BY <1>5, <1>6
<1>8. QED
  BY <1>7 DEF e

\* What feed makes of a buffer d that begins like w, where the body comes after
\* p + 5 symbols: it waits for more of the header, or raises, or has taken it.
HeaderRead(w, p, body, d) ==
    \/ /\ \A i : ~BlankAt(d.buffer, i)
       /\ Drain(d) = [d EXCEPT !.ok = (\A i : ~BareAt(d.buffer, i))]
       /\ Plain(w, p) => Drain(d).ok
    \/ Drain(d).ok = FALSE /\ ~Plain(w, p)
    \/ /\ Len(d.buffer) = p + 5
       /\ Drain(d) = [buffer |-> <<>>, expected |-> Len(body), out |-> <<>>, ok |-> TRUE]

\* What feed makes of a buffer that begins like a frame, if the buffer ends with
\* the blank line: it waits for more, it raises because of what was printed, or
\* it knows the length of the body.
LEMMA HeaderComes ==
    ASSUME NEW w \in Seq(Symbols), NEW p, NEW body \in Seq(Symbols), FrameAt(w, p, body),
           NEW d \in Decoder, d.ok = TRUE, d.expected = NoLength, d.out = <<>>,
           Begins(d.buffer, w),
           \A i : BlankAt(d.buffer, i) => i + 3 = Len(d.buffer)
    PROVE  HeaderRead(w, p, body, d)
<1> USE DEF HeaderRead
<1> DEFINE s == d.buffer
           sep == Find(s, CRLF \o CRLF)
           block == SubSeq(s, 1, sep - 1)
           length == ParseContentLength(block)
<1>1. s \in Seq(Symbols) /\ Len(s) \in Nat /\ p \in Nat /\ Len(body) \in Nat \ {0}
  <2>1. s \in Seq(Symbols) /\ Len(s) \in Nat
    BY DEF Decoder
  <2>2. p \in Nat /\ Len(body) \in Nat \ {0}
    BY LengthOfAssumption DEF FrameAt
  <2>3. QED
    BY <2>1, <2>2
<1>2. /\ \A i : BlankAt(s, i) => i + 3 <= p \/ i >= p + 2
      /\ p + 5 <= Len(s) => BlankAt(s, p + 2)
      /\ Plain(w, p) => \A i : BlankAt(s, i) => i >= p + 2
      /\ Plain(w, p) /\ Len(s) < p + 5 => \A i : ~BareAt(s, i)
  BY <1>1, BlanksOfFrame
<1>3. CASE \A i : ~BlankAt(s, i)
  <2>1. Drain(d) = [d EXCEPT !.ok = (\A i : ~BareAt(d.buffer, i))]
    BY <1>3, HeaderWaits
  <2>2. Len(s) < p + 5
    BY <1>1, <1>2, <1>3
  <2>3. Plain(w, p) => \A i : ~BareAt(s, i)
    BY <1>2, <2>2
  <2>4. Drain(d).ok = (\A i : ~BareAt(s, i))
    BY <2>1 DEF Decoder
  <2>5. QED
    BY <1>3, <2>1, <2>3, <2>4
<1>4. CASE \E i : BlankAt(s, i)
  <2>1. sep \in Nat /\ sep # 0 /\ BlankAt(s, sep) /\ sep + 3 = Len(s) /\ sep >= 1
    <3>1. /\ sep \in Nat
          /\ sep = 0 => \A i : ~BlankAt(s, i)
          /\ sep # 0 => BlankAt(s, sep)
      BY <1>1, FindsBlank
    <3> HIDE DEF sep
    <3>2. QED
      BY <1>4, <3>1
  <2>2. sep - 1 \in 0..Len(s)
    <3> HIDE DEF sep, s
    <3>1. QED
      BY <1>1, <2>1
  <2>3. block \in Seq(Symbols) /\ Len(block) = sep - 1 /\ \A i \in 1..(sep - 1) : block[i] = s[i]
    BY <1>1, <2>2, FirstIs
  <2>4. Begins(block, w)
    <3> HIDE DEF block, sep
    <3>1. QED
      BY <1>1, <2>1, <2>3 DEF Begins
  <2>5. sep = p + 2 \/ sep + 3 <= p
    <3> HIDE DEF sep, s
    <3>1. ASSUME sep >= p + 2 PROVE sep = p + 2
      <4>1. BlankAt(s, p + 2)
        BY <1>1, <1>2, <2>1, <3>1
      <4>2. (p + 2) + 3 = Len(s)
        BY <4>1 DEF s
      <4>3. QED
        BY <1>1, <2>1, <4>2
    <3>2. QED
      BY <1>2, <2>1, <3>1
  <2>6. Len(block) <= p + 1 /\ (Len(block) = p + 1 <=> sep = p + 2)
    <3> HIDE DEF block, sep
    <3>1. QED
      BY <1>1, <2>1, <2>3, <2>5
  <2>7. /\ length # Malformed => sep = p + 2 /\ length = Len(body)
        /\ sep = p + 2 /\ Plain(w, p) => length # Malformed
    <3> HIDE DEF block, sep
    <3>1. QED
      BY <1>1, <2>3, <2>4, <2>6, HeaderParses
  <2>8. Drop(s, sep + 3) = <<>>
    <3> HIDE DEF sep
    <3>1. sep + 3 \in 0..Len(s)
      BY <1>1, <2>1
    <3>2. Drop(s, sep + 3) \in Seq(Symbols) /\ Len(Drop(s, sep + 3)) = Len(s) - (sep + 3)
      BY <1>1, <3>1, DropIs
    <3>3. QED
      BY <1>1, <2>1, <3>2
  <2>9. Turn[d] = IF length = Malformed
                  THEN [d EXCEPT !.buffer = <<>>, !.ok = FALSE]
                  ELSE [d EXCEPT !.buffer = <<>>, !.expected = length]
    <3>1. Turn[d] = TakeHeader(d)
      BY DEF Turn
    <3> HIDE DEF length
    <3>2. QED
      BY <2>1, <2>8, <3>1 DEF TakeHeader, length
  <2> HIDE DEF sep, block, length
  <2>10. CASE length = Malformed
    <3> DEFINE e == [d EXCEPT !.buffer = <<>>, !.ok = FALSE]
    <3>1. e \in Decoder /\ Turn[d] = e /\ e.ok = FALSE
      <4>1. <<>> \in Seq(Symbols)
        OBVIOUS
      <4>2. e \in Decoder /\ e.ok = FALSE
        BY <4>1 DEF Decoder
      <4>3. QED
        BY <2>9, <2>10, <4>2
    <3> HIDE DEF e
    <3>2. Turn[e] = e
      BY <3>1 DEF Turn
    <3>3. Drain(d) = e
      BY <3>1, <3>2, TwoTurns
    <3>4. ~Plain(w, p)
      <4>1. ASSUME Plain(w, p) PROVE FALSE
        <5>1. sep >= p + 2
          BY <1>2, <2>1, <4>1
        <5>2. sep = p + 2
          BY <1>1, <2>1, <2>5, <5>1
        <5>3. QED
          BY <2>7, <2>10, <4>1, <5>2
      <4>2. QED
        BY <4>1
    <3>5. QED
      BY <3>1, <3>3, <3>4
  <2>11. CASE length # Malformed
    <3> DEFINE e == [buffer |-> <<>>, expected |-> Len(body), out |-> <<>>, ok |-> TRUE]
    <3>1. sep = p + 2 /\ length = Len(body)
      BY <2>7, <2>11
    <3>2. e \in Decoder /\ Turn[d] = e
      <4>1. [d EXCEPT !.buffer = <<>>, !.expected = length] = e
        <5>1. length \in Nat
          BY <1>1, <3>1
        <5>2. [d EXCEPT !.buffer = <<>>, !.expected = length] =
                 [buffer |-> <<>>, expected |-> length, out |-> <<>>, ok |-> TRUE]
          BY <5>1, ExpectsBody
        <5>3. QED
          BY <3>1, <5>2
      <4>2. e \in Decoder
        BY <1>1 DEF Decoder
      <4>3. QED
        BY <2>9, <2>11, <4>1, <4>2
    <3>3. e.ok = TRUE /\ e.expected \in Nat /\ Len(e.buffer) < e.expected
      BY <1>1
    <3>4. e.buffer = <<>>
      OBVIOUS
    <3> HIDE DEF e
    <3>5. Turn[e] = e
      BY <3>2, <3>3, BodyWaits
    <3>6. Drain(d) = e
      BY <3>2, <3>5, TwoTurns
    <3>7. Len(s) = p + 5
      BY <1>1, <2>1, <3>1
    <3>8. QED
      BY <3>6, <3>7 DEF e
  <2>12. QED
    BY <2>10, <2>11
<1>5. QED
  BY <1>3, <1>4

----------------------------------------------------------------------------
(***************************************************************************)
(* The stream is made of the frames of the script.                         *)
(***************************************************************************)
\* The frames of the script follow each other: the k-th ends at pos[k].
LaidOut(bodies, pos, stream) ==
    /\ stream \in Seq(Symbols)
    /\ pos \in [0..Len(bodies) -> Nat]
    /\ pos[0] = 0
    /\ pos[Len(bodies)] = Len(stream)
    /\ \A k \in 1..Len(bodies) :
          /\ pos[k] = pos[k - 1] + Len(Written(bodies, k))
          /\ pos[k] <= Len(stream)
          /\ \A i \in 1..Len(Written(bodies, k)) :
                stream[pos[k - 1] + i] = Written(bodies, k)[i]

\* What the server writes is laid out: the frames come one after the other.
LEMMA StreamLaidOut ==
    ASSUME NEW bodies \in Seq(Seq(Symbols)),
           \A k \in 1..Len(bodies) : Written(bodies, k) \in Seq(Symbols)
    PROVE  \E pos : LaidOut(bodies, pos, Stream(bodies))
<1> DEFINE n == Len(bodies)
           parts == [k \in 1..n |-> Written(bodies, k)]
<1>1. n \in Nat /\ parts \in Seq(Seq(Symbols)) /\ Len(parts) = n
      /\ \A k \in 1..n : parts[k] = Written(bodies, k)
  OBVIOUS
<1>2. Stream(bodies) = FlattenSeq(parts)
  BY DEF Stream
<1> HIDE DEF parts
<1>3. CASE n = 0
  <2> DEFINE pos == [k \in 0..0 |-> 0]
  <2>1. parts = <<>>
    BY <1>1, <1>3
  <2>2. Stream(bodies) = <<>>
    BY <1>2, <2>1 DEF FlattenSeq
  <2>3. pos \in [0..0 -> Nat] /\ pos[0] = 0
    OBVIOUS
  <2> HIDE DEF pos
  <2>4. LaidOut(bodies, pos, <<>>)
    BY <1>3, <2>3 DEF LaidOut
  <2>5. QED
    BY <2>2, <2>4
<1>4. CASE n > 0
  <2>1. PICK f : /\ f \in [1..n -> Seq(Symbols)]
                 /\ f[1] = parts[1]
                 /\ \A i \in 2..n : f[i] = f[i - 1] \o parts[i]
                 /\ Stream(bodies) = f[n]
    <3> HIDE DEF n
    <3>1. Len(parts) > 0
      BY <1>1, <1>4
    <3>2. PICK f : /\ f \in [1..Len(parts) -> Seq(Symbols)]
                   /\ f[1] = parts[1]
                   /\ \A i \in 2..Len(parts) : f[i] = f[i - 1] \o parts[i]
                   /\ FlattenSeq(parts) = f[Len(parts)]
      BY <1>1, <3>1, FlattenIs
    <3>3. QED
      BY <1>1, <1>2, <3>2
  <2> HIDE DEF n
  <2> DEFINE pos == [k \in 0..n |-> IF k = 0 THEN 0 ELSE Len(f[k])]
             Begun(m) == \A k \in 1..m :
                /\ Len(f[k]) <= Len(f[m]) /\ \A i \in 1..Len(f[k]) : f[m][i] = f[k][i]
             T == {m \in 0..n : m = 0 \/ Begun(m)}
  <2>2. \A k \in 1..n : f[k] \in Seq(Symbols) /\ Len(f[k]) \in Nat
    BY <2>1
  <2>13. \A k \in 1..n : parts[k] \in Seq(Symbols) /\ Len(parts[k]) \in Nat
    <3>1. \A k \in 1..n : parts[k] \in Seq(Symbols)
      BY <1>1
    <3>2. QED
      BY <3>1
  <2>3. ASSUME NEW m \in 2..n
        PROVE  /\ Len(f[m]) = Len(f[m - 1]) + Len(parts[m])
               /\ \A i \in 1..Len(f[m - 1]) : f[m][i] = f[m - 1][i]
               /\ \A i \in 1..Len(parts[m]) : f[m][Len(f[m - 1]) + i] = parts[m][i]
    <3>1. m \in 1..n /\ m - 1 \in 1..n
      BY <1>1
    <3>2. f[m] = f[m - 1] \o parts[m]
      BY <2>1
    <3>3. f[m - 1] \in Seq(Symbols) /\ parts[m] \in Seq(Symbols)
      BY <2>2, <2>13, <3>1
    <3> DEFINE a == f[m - 1]
               b == parts[m]
    <3>4. a \in Seq(Symbols) /\ b \in Seq(Symbols) /\ f[m] = a \o b
      BY <3>2, <3>3
    <3> HIDE DEF a, b
    <3>5. /\ Len(f[m]) = Len(a) + Len(b)
          /\ \A i \in 1..Len(a) : f[m][i] = a[i]
          /\ \A i \in 1..Len(b) : f[m][Len(a) + i] = b[i]
      BY <3>4, Joined
    <3>6. QED
      BY <3>5 DEF a, b
  <2>4. 0 \in T
    BY <1>1
  <2>5. ASSUME NEW m \in 1..n, m - 1 \in T PROVE Begun(m)
    <3>1. ASSUME NEW k \in 1..m
          PROVE Len(f[k]) <= Len(f[m]) /\ \A i \in 1..Len(f[k]) : f[m][i] = f[k][i]
      <4>1. CASE k = m
        BY <1>1, <2>2, <4>1
      <4>2. CASE k # m
        <5>1. m \in 2..n /\ k \in 1..(m - 1) /\ m - 1 \in 1..n /\ k \in 1..n /\ m - 1 # 0
          BY <1>1, <4>2
        <5>2. Len(f[k]) <= Len(f[m - 1]) /\ \A i \in 1..Len(f[k]) : f[m - 1][i] = f[k][i]
          BY <2>5, <5>1
        <5>3. \A i \in 1..Len(f[m - 1]) : f[m][i] = f[m - 1][i]
          BY <2>3, <5>1
        <5>4. Len(f[m]) = Len(f[m - 1]) + Len(parts[m]) /\ Len(parts[m]) \in Nat
          BY <2>3, <2>13, <5>1
        <5>5. Len(f[k]) \in Nat /\ Len(f[m - 1]) \in Nat
          BY <2>2, <5>1
        <5>6. \A i \in 1..Len(f[k]) : i \in 1..Len(f[m - 1])
          BY <5>2, <5>5
        <5>7. Len(f[k]) <= Len(f[m])
          <6> DEFINE a == Len(f[k])
                     b == Len(f[m - 1])
                     c == Len(parts[m])
                     e == Len(f[m])
          <6>1. a \in Nat /\ b \in Nat /\ c \in Nat /\ a <= b /\ e = b + c
            BY <5>2, <5>4, <5>5
          <6> HIDE DEF a, b, c, e
          <6>2. a <= e
            BY <6>1
          <6>3. QED
            BY <6>2 DEF a, e
        <5>8. QED
          BY <5>2, <5>3, <5>6, <5>7
      <4>3. QED
        BY <4>1, <4>2
    <3>2. QED
      BY <3>1
  <2>6. n \in T
    <3>1. Hereditary(T, n)
      <4>1. \A m \in 1..n : m \in 0..n
        BY <1>1
      <4> HIDE DEF Begun
      <4>2. QED
        BY <2>5, <4>1 DEF Hereditary
    <3> HIDE DEF T
    <3>2. QED
      BY <1>1, <2>4, <3>1, UpTo
  <2>7. Begun(n)
    BY <1>4, <2>6
  <2>8. pos \in [0..n -> Nat] /\ pos[0] = 0 /\ \A k \in 1..n : pos[k] = Len(f[k])
    BY <1>1, <2>2
  <2> HIDE DEF pos
  <2>9. ASSUME NEW k \in 1..n
        PROVE  /\ pos[k] = pos[k - 1] + Len(parts[k])
               /\ pos[k] <= Len(f[n])
               /\ \A i \in 1..Len(parts[k]) : f[n][pos[k - 1] + i] = parts[k][i]
    <3>1. pos[k] <= Len(f[n]) /\ \A i \in 1..Len(f[k]) : f[n][i] = f[k][i]
      BY <2>7, <2>8
    <3>2. pos[k] = pos[k - 1] + Len(parts[k]) /\ pos[k - 1] \in Nat
          /\ \A i \in 1..Len(parts[k]) : f[k][pos[k - 1] + i] = parts[k][i]
      <4>1. CASE k = 1
        BY <1>1, <2>1, <2>8, <4>1
      <4>2. CASE k # 1
        <5>1. k \in 2..n /\ k - 1 \in 1..n
          BY <1>1, <4>2
        <5>2. QED
          BY <2>2, <2>3, <2>8, <5>1
      <4>3. QED
        BY <4>1, <4>2
    <3>3. \A i \in 1..Len(parts[k]) : pos[k - 1] + i \in 1..Len(f[k])
      BY <1>1, <2>8, <3>2
    <3>4. QED
      BY <3>1, <3>2, <3>3
  <2>10. n \in 1..n
    BY <1>1, <1>4
  <2>11. f[n] \in Seq(Symbols) /\ pos[n] = Len(f[n])
    BY <2>2, <2>8, <2>10
  <2>12. LaidOut(bodies, pos, f[n])
    BY <1>1, <2>8, <2>9, <2>11 DEF LaidOut, n
  <2>14. QED
    BY <2>1, <2>12
<1>5. QED
  BY <1>1, <1>3, <1>4

\* A frame without another header.
LEMMA EncodeIs ==
    ASSUME NEW body \in Seq(Symbols), NEW h \in DOMAIN LengthOf, LengthOf[h] = Len(body)
    PROVE  LET w == EncodeFrame(body)
           IN  /\ w \in Seq(Symbols) /\ Len(w) = 5 + Len(body)
               /\ FrameAt(w, 0, body) /\ w[1] = LengthText(Len(body))
<1> DEFINE text == LengthText(Len(body))
           first == <<text>>
           line == first \o CRLF
           header == line \o CRLF
           w == header \o body
<1>1. text \in DOMAIN LengthOf /\ LengthOf[text] = Len(body)
  BY DEF LengthText
<1>2. EncodeFrame(body) = w
  BY DEF EncodeFrame
<1>3. Len(body) \in Nat
  OBVIOUS
<1> HIDE DEF text
<1>4. text \in Symbols
  BY <1>1 DEF Symbols
<1>5. first \in Seq(Symbols) /\ Len(first) = 1 /\ first[1] = text
  BY <1>4
<1> HIDE DEF first
<1>6. /\ line \in Seq(Symbols) /\ Len(line) = 3
      /\ line[1] = text /\ line[2] = "CR" /\ line[3] = "LF"
  <2>1. /\ line \in Seq(Symbols) /\ Len(line) = Len(first) + Len(CRLF)
        /\ \A i \in 1..Len(first) : line[i] = first[i]
        /\ \A i \in 1..Len(CRLF) : line[Len(first) + i] = CRLF[i]
    <3>1. first \in Seq(Symbols) /\ CRLF \in Seq(Symbols)
      BY <1>5, CrlfIs
    <3>2. QED
      BY <3>1, Joined
  <2> HIDE DEF line
  <2>2. line[1] = text
    BY <1>5, <2>1
  <2>3. line[1 + 1] = "CR" /\ line[1 + 2] = "LF"
    BY <1>5, <2>1, CrlfIs
  <2>4. QED
    BY <1>5, <2>1, <2>2, <2>3, CrlfIs
<1> HIDE DEF line
<1>7. /\ header \in Seq(Symbols) /\ Len(header) = 5
      /\ header[1] = text /\ header[2] = "CR" /\ header[3] = "LF"
      /\ header[4] = "CR" /\ header[5] = "LF"
  <2>1. /\ header \in Seq(Symbols) /\ Len(header) = Len(line) + Len(CRLF)
        /\ \A i \in 1..Len(line) : header[i] = line[i]
        /\ \A i \in 1..Len(CRLF) : header[Len(line) + i] = CRLF[i]
    <3>1. line \in Seq(Symbols) /\ CRLF \in Seq(Symbols)
      BY <1>6, CrlfIs
    <3>2. QED
      BY <3>1, Joined
  <2> HIDE DEF header
  <2>2. header[1] = text /\ header[2] = "CR" /\ header[3] = "LF"
    BY <1>6, <2>1
  <2>3. header[3 + 1] = "CR" /\ header[3 + 2] = "LF"
    BY <1>6, <2>1, CrlfIs
  <2>4. QED
    BY <1>6, <2>1, <2>2, <2>3, CrlfIs
<1> HIDE DEF header
<1>8. /\ w \in Seq(Symbols) /\ Len(w) = 5 + Len(body)
      /\ w[1] = text /\ w[2] = "CR" /\ w[3] = "LF" /\ w[4] = "CR" /\ w[5] = "LF"
      /\ \A i \in 1..Len(body) : w[5 + i] = body[i]
  <2>1. /\ w \in Seq(Symbols) /\ Len(w) = Len(header) + Len(body)
        /\ \A i \in 1..Len(header) : w[i] = header[i]
        /\ \A i \in 1..Len(body) : w[Len(header) + i] = body[i]
    <3>1. header \in Seq(Symbols)
      BY <1>7
    <3>2. QED
      BY <3>1, Joined
  <2> HIDE DEF w
  <2>2. QED
    BY <1>7, <2>1
<1> HIDE DEF w
<1>9. FrameAt(w, 0, body)
  <2>1. BlankAt(w, 0 + 2)
    BY <1>3, <1>8 DEF BlankAt
  <2>2. w[0 + 1] \in DOMAIN LengthOf /\ LengthOf[w[0 + 1]] = Len(body)
    BY <1>1, <1>8
  <2>3. \A i \in 1..Len(body) : w[0 + 5 + i] = body[i]
    BY <1>3, <1>8
  <2>4. 0 \in Nat /\ 0 + 5 + Len(body) <= Len(w) /\ \A i \in 1..0 : w[i] \in OtherSymbols
    BY <1>3, <1>8
  <2>5. QED
    BY <2>1, <2>2, <2>3, <2>4 DEF FrameAt
<1>10. QED
  BY <1>2, <1>8, <1>9 DEF text

\* A frame behind other symbols.
LEMMA FrameMoved ==
    ASSUME NEW q \in Seq(OtherSymbols), NEW e \in Seq(Symbols), NEW p, NEW body \in Seq(Symbols),
           FrameAt(e, p, body)
    PROVE  LET w == q \o e
           IN  /\ w \in Seq(Symbols) /\ Len(w) = Len(q) + Len(e)
               /\ FrameAt(w, Len(q) + p, body)
               /\ w[(Len(q) + p) + 1] = e[p + 1]
<1> DEFINE w == q \o e
           m == Len(q) + p
<1>1. q \in Seq(Symbols)
  BY DEF Symbols
<1>2. /\ w \in Seq(Symbols) /\ Len(w) = Len(q) + Len(e)
      /\ \A i \in 1..Len(q) : w[i] = q[i]
      /\ \A i \in 1..Len(e) : w[Len(q) + i] = e[i]
  BY <1>1, Joined
<1>3. /\ p \in Nat /\ p + 5 + Len(body) <= Len(e) /\ Len(body) \in Nat
      /\ \A i \in 1..p : e[i] \in OtherSymbols
      /\ e[p + 1] \in DOMAIN LengthOf /\ LengthOf[e[p + 1]] = Len(body)
      /\ \A i \in 1..Len(body) : e[p + 5 + i] = body[i]
  BY DEF FrameAt
<1>4. e[p + 2] = "CR" /\ e[p + 3] = "LF" /\ e[p + 4] = "CR" /\ e[p + 5] = "LF"
  BY <1>3 DEF FrameAt, BlankAt
<1>5. Len(q) \in Nat /\ Len(e) \in Nat /\ \A i \in 1..Len(q) : q[i] \in OtherSymbols
  OBVIOUS
<1> HIDE DEF w
<1>6. m \in Nat /\ m + 5 + Len(body) <= Len(w)
  BY <1>2, <1>3, <1>5, SMTT(30)
<1>7. \A i \in 1..m : w[i] \in OtherSymbols
  <2>1. ASSUME NEW i \in 1..m PROVE w[i] \in OtherSymbols
    <3>1. CASE i <= Len(q)
      <4>1. i \in 1..Len(q)
        BY <1>3, <1>5, <3>1
      <4>2. QED
        BY <1>2, <1>5, <4>1
    <3>2. CASE i > Len(q)
      <4>1. i - Len(q) \in 1..p /\ i - Len(q) \in 1..Len(e) /\ Len(q) + (i - Len(q)) = i
        BY <1>3, <1>5, <3>2
      <4>2. w[i] = e[i - Len(q)]
        BY <1>2, <4>1
      <4>3. QED
        BY <1>3, <4>1, <4>2
    <3>3. QED
      BY <1>3, <1>5, <3>1, <3>2
  <2>2. QED
    BY <2>1
<1>8. ASSUME NEW j \in 1..(5 + Len(body)) PROVE w[m + j] = e[p + j]
  <2>1. p + j \in 1..Len(e) /\ Len(q) + (p + j) = m + j
    BY <1>3, <1>5
  <2>2. QED
    BY <1>2, <2>1
<1>9. w[m + 1] = e[p + 1] /\ w[m + 2] = "CR" /\ w[m + 3] = "LF" /\ w[m + 4] = "CR" /\ w[m + 5] = "LF"
  <2>1. \A j \in {1, 2, 3, 4, 5} : j \in 1..(5 + Len(body))
    BY <1>3
  <2>2. \A j \in {1, 2, 3, 4, 5} : w[m + j] = e[p + j]
    BY <1>8, <2>1
  <2> HIDE DEF m
  <2>3. QED
    BY <1>4, <2>2
<1>10. \A i \in 1..Len(body) : w[m + 5 + i] = body[i]
  <2>1. ASSUME NEW i \in 1..Len(body) PROVE w[m + 5 + i] = body[i]
    <3>1. 5 + i \in 1..(5 + Len(body)) /\ m + (5 + i) = m + 5 + i /\ p + (5 + i) = p + 5 + i
      BY <1>3, <1>6
    <3>2. QED
      BY <1>3, <1>8, <3>1
  <2>2. QED
    BY <2>1
<1> HIDE DEF m
<1>11. BlankAt(w, m + 2)
  <2>1. m + 2 \in 1..(Len(w) - 3) /\ (m + 2) + 1 = m + 3 /\ (m + 2) + 2 = m + 4 /\ (m + 2) + 3 = m + 5
    BY <1>2, <1>3, <1>5, <1>6
  <2>2. QED
    BY <1>9, <2>1 DEF BlankAt
<1>12. FrameAt(w, m, body)
  BY <1>3, <1>6, <1>7, <1>9, <1>10, <1>11 DEF FrameAt
<1>13. QED
  BY <1>2, <1>9, <1>12 DEF w, m

\* What the server writes can be framed.
Framable ==
    /\ script \in Seq(Seq(Symbols))
    /\ printed \in Seq(OtherSymbols)
    /\ \A k \in 1..Len(script) : \E h \in DOMAIN LengthOf : LengthOf[h] = Len(script[k])

\* It can: a header names the length of every body.
LEMMA ScriptsAreFramable ==
    ASSUME script \in Scripts \cup {<<>>}, printed \in Seq(OtherSymbols)
    PROVE  Framable
<1>1. CASE script \in Scripts
  <2>1. script \in Seq(Seq(Symbols))
    BY <1>1, ScriptsAssumption
  <2>2. ASSUME NEW k \in 1..Len(script)
        PROVE  \E h \in DOMAIN LengthOf : LengthOf[h] = Len(script[k])
    <3>1. script[k] \in ToSet(script)
      BY <2>1 DEF ToSet
    <3>2. QED
      BY <1>1, <3>1, ScriptsAssumption
  <2>3. QED
    BY <2>1, <2>2 DEF Framable
<1>2. CASE script = <<>>
  BY <1>2 DEF Framable
<1>3. QED
  BY <1>1, <1>2

\* s begins with the frame of the k-th body, behind p other symbols, which are
\* another header at most unless something was printed.
Framed(s, p, k) ==
    /\ FrameAt(s, p, script[k])
    /\ s[p + 1] = LengthText(Len(script[k]))
    /\ printed = <<>> \/ k # Len(script) => Plain(s, p)

\* What is written for the k-th body is its frame.
LEMMA WrittenIs ==
    ASSUME Framable, NEW k \in 1..Len(script)
    PROVE  LET w == Written(script, k)
           IN  /\ w \in Seq(Symbols)
               /\ \E p \in Nat : Len(w) = p + 5 + Len(script[k]) /\ Framed(w, p, k)
<1> DEFINE body == script[k]
           e == EncodeFrame(body)
           type == <<"type">> \o CRLF
           f == IF k % 2 = 1 THEN e ELSE type \o e
           q == IF k = Len(script) THEN printed ELSE <<>>
           w == q \o f
<1>1. Written(script, k) = w
  BY DEF Written, EncodeFrameTyped
<1>2. body \in Seq(Symbols) /\ Len(body) \in Nat
  <2>1. body \in Seq(Symbols)
    BY DEF Framable
  <2> HIDE DEF body
  <2>2. QED
    BY <2>1
<1>3. PICK h \in DOMAIN LengthOf : LengthOf[h] = Len(body)
  BY DEF Framable
<1>4. q \in Seq(OtherSymbols) /\ (printed = <<>> \/ k # Len(script) => q = <<>>)
  BY DEF Framable
<1> HIDE DEF body, q
<1>5. e \in Seq(Symbols) /\ Len(e) = 5 + Len(body) /\ FrameAt(e, 0, body)
      /\ e[1] = LengthText(Len(body))
  BY <1>2, <1>3, EncodeIs
<1> HIDE DEF e
<1>6. /\ type \in Seq(OtherSymbols) /\ Len(type) = 3
      /\ type[1] = "type" /\ type[2] = "CR" /\ type[3] = "LF"
  <2> DEFINE first == <<"type">>
             s == first \o CRLF
  <2>1. first \in Seq(OtherSymbols) /\ CRLF \in Seq(OtherSymbols)
    BY DEF CRLF, OtherSymbols
  <2>2. Len(first) = 1 /\ first[1] = "type"
    OBVIOUS
  <2> HIDE DEF first
  <2>3. /\ s \in Seq(OtherSymbols) /\ Len(s) = Len(first) + Len(CRLF)
        /\ \A i \in 1..Len(first) : s[i] = first[i]
        /\ \A i \in 1..Len(CRLF) : s[Len(first) + i] = CRLF[i]
    BY <2>1, Joined
  <2> HIDE DEF s
  <2>4. s[1] = "type"
    BY <2>2, <2>3
  <2>5. s[1 + 1] = "CR" /\ s[1 + 2] = "LF"
    BY <2>2, <2>3, CrlfIs
  <2>6. s \in Seq(OtherSymbols) /\ Len(s) = 3 /\ s[1] = "type" /\ s[2] = "CR" /\ s[3] = "LF"
    BY <2>2, <2>3, <2>4, <2>5, CrlfIs
  <2>7. QED
    BY <2>6 DEF s, first
<1> HIDE DEF type
<1>7. PICK p \in {0, 3} :
         /\ f \in Seq(Symbols) /\ Len(f) = p + 5 + Len(body) /\ FrameAt(f, p, body)
         /\ f[p + 1] = LengthText(Len(body)) /\ Plain(f, p)
  <2>1. CASE k % 2 = 1
    <3>1. f = e
      BY <2>1
    <3>2. Plain(e, 0)
      BY DEF Plain
    <3>3. Len(e) = 0 + 5 + Len(body) /\ e[0 + 1] = LengthText(Len(body))
      BY <1>2, <1>5
    <3>4. QED
      BY <1>5, <3>1, <3>2, <3>3
  <2>2. CASE k % 2 # 1
    <3> DEFINE t == type \o e
    <3>1. f = t
      BY <2>2
    <3>2. /\ t \in Seq(Symbols) /\ Len(t) = Len(type) + Len(e)
          /\ FrameAt(t, Len(type) + 0, body)
          /\ t[(Len(type) + 0) + 1] = e[0 + 1]
      BY <1>2, <1>5, <1>6, FrameMoved
    <3>3. \A i \in 1..Len(type) : t[i] = type[i]
      <4>1. type \in Seq(Symbols)
        BY <1>6 DEF Symbols
      <4>2. QED
        BY <1>5, <4>1, Joined
    <3> HIDE DEF t, f
    <3>4. Plain(t, 3)
      BY <1>6, <3>3 DEF Plain
    <3>5. Len(type) + 0 = 3 /\ (Len(type) + 0) + 1 = 3 + 1 /\ 0 + 1 = 1
      BY <1>6
    <3>6. t \in Seq(Symbols) /\ Len(t) = 3 + 5 + Len(body) /\ FrameAt(t, 3, body)
          /\ t[3 + 1] = LengthText(Len(body))
      BY <1>2, <1>5, <1>6, <3>2, <3>5
    <3>7. QED
      BY <3>1, <3>4, <3>6
  <2>3. QED
    BY <2>1, <2>2
<1> HIDE DEF f
<1>8. /\ w \in Seq(Symbols) /\ Len(w) = Len(q) + Len(f)
      /\ FrameAt(w, Len(q) + p, body)
      /\ w[(Len(q) + p) + 1] = f[p + 1]
  BY <1>2, <1>4, <1>7, FrameMoved
<1> DEFINE m == Len(q) + p
<1>9. Len(q) \in Nat
  BY <1>4
<1>10. m \in Nat /\ Len(w) = m + 5 + Len(body)
  <2> DEFINE x == Len(q)
             y == Len(w)
             z == Len(body)
  <2>1. Len(f) \in Nat /\ z \in Nat /\ p \in Nat /\ Len(f) = p + 5 + z
    BY <1>2, <1>7, LenProperties
  <2>2. x \in Nat /\ y = x + Len(f)
    BY <1>8, <1>9
  <2> HIDE DEF x, y, z
  <2>3. x + p \in Nat /\ y = (x + p) + 5 + z
    BY <2>1, <2>2
  <2>4. QED
    BY <2>3 DEF x, y, z
<1>11. printed = <<>> \/ k # Len(script) => Plain(w, m)
  <2>1. ASSUME q = <<>> PROVE w = f /\ m = p
    <3>1. <<>> \o f = f
      BY <1>7, ConcatEmptySeq
    <3>2. Len(<<>>) = 0
      OBVIOUS
    <3>3. QED
      BY <2>1, <3>1, <3>2
  <2> HIDE DEF w, m
  <2>2. QED
    BY <1>4, <1>7, <2>1
<1> HIDE DEF w, m
<1>12. Framed(w, m, k)
  <2>1. FrameAt(w, m, body) /\ w[m + 1] = LengthText(Len(body))
    BY <1>7, <1>8 DEF m
  <2>2. QED
    BY <1>11, <2>1 DEF Framed, body
<1>13. QED
  BY <1>1, <1>8, <1>10, <1>12 DEF body

\* A sequence that goes on where one with a frame ends has the frame.
LEMMA FrameGoesOn ==
    ASSUME NEW w \in Seq(Symbols), NEW p \in Nat, NEW k, Framed(w, p, k), Framable,
           k \in 1..Len(script),
           Len(w) = p + 5 + Len(script[k]),
           NEW s \in Seq(Symbols), Begins(w, s)
    PROVE  Framed(s, p, k)
<1> DEFINE body == script[k]
<1>1. body \in Seq(Symbols)
  BY DEF Framable
<1>2. FrameAt(w, p, body) /\ Len(w) = p + 5 + Len(body)
      /\ w[p + 1] = LengthText(Len(body))
      /\ (printed = <<>> \/ k # Len(script) => Plain(w, p))
  BY DEF Framed
<1> HIDE DEF body
<1>3. Len(body) \in Nat /\ Len(w) <= Len(s) /\ \A i \in 1..(p + 5 + Len(body)) : s[i] = w[i]
  <2>1. Len(body) \in Nat
    BY <1>1, LenProperties
  <2>2. Len(w) <= Len(s) /\ \A i \in 1..Len(w) : s[i] = w[i]
    BY DEF Begins
  <2>3. QED
    BY <1>2, <2>1, <2>2
<1>4. \A i \in 1..(p + 5) : i \in 1..(p + 5 + Len(body))
  BY <1>3
<1>5. \A i \in 1..p : s[i] \in OtherSymbols
  BY <1>2, <1>3, <1>4, SMTT(30) DEF FrameAt
<1>6. s[p + 1] = w[p + 1] /\ s[p + 2] = w[p + 2] /\ s[p + 3] = w[p + 3] /\ s[p + 4] = w[p + 4]
      /\ s[p + 5] = w[p + 5]
  <2>1. \A j \in {1, 2, 3, 4, 5} : p + j \in 1..(p + 5 + Len(body))
    BY <1>3
  <2>2. \A j \in {1, 2, 3, 4, 5} : s[p + j] = w[p + j]
    BY <1>3, <2>1
  <2>3. QED
    BY <2>2
<1>7. \A i \in 1..Len(body) : s[p + 5 + i] = body[i]
  <2>1. \A i \in 1..Len(body) : p + 5 + i \in 1..(p + 5 + Len(body))
    BY <1>3
  <2>2. \A i \in 1..Len(body) : w[p + 5 + i] = body[i]
    BY <1>2 DEF FrameAt
  <2>3. QED
    BY <1>3, <2>1, <2>2
<1>8. BlankAt(s, p + 2)
  <2>1. w[p + 2] = "CR" /\ w[p + 3] = "LF" /\ w[p + 4] = "CR" /\ w[p + 5] = "LF"
    <3>1. BlankAt(w, p + 2)
      BY <1>2 DEF FrameAt
    <3>2. (p + 2) + 1 = p + 3 /\ (p + 2) + 2 = p + 4 /\ (p + 2) + 3 = p + 5
      OBVIOUS
    <3>3. QED
      BY <3>1, <3>2 DEF BlankAt
  <2>2. p + 2 \in 1..(Len(s) - 3)
    <3>1. Len(s) \in Nat /\ Len(w) \in Nat
      BY LenProperties
    <3>2. Len(body) \in Nat /\ p + 5 + Len(body) <= Len(s)
      BY <1>2, <1>3
    <3>3. QED
      BY <3>1, <3>2
  <2>3. QED
    <3>1. (p + 2) + 1 = p + 3 /\ (p + 2) + 2 = p + 4 /\ (p + 2) + 3 = p + 5
      OBVIOUS
    <3>2. QED
      BY <1>6, <2>1, <2>2, <3>1 DEF BlankAt
<1>9. p + 5 + Len(body) <= Len(s)
  BY <1>2, <1>3
<1>10. w[p + 1] \in DOMAIN LengthOf /\ LengthOf[w[p + 1]] = Len(body)
  BY <1>2 DEF FrameAt
<1>11. FrameAt(s, p, body)
  BY <1>5, <1>6, <1>7, <1>8, <1>9, <1>10 DEF FrameAt
<1>12. Plain(w, p) => Plain(s, p)
  <2>1. CASE p = 0
    BY <2>1 DEF Plain
  <2>2. CASE p = 3
    <3>1. s[1] = w[1] /\ s[2] = w[2] /\ s[3] = w[3]
      BY <1>3, <2>2
    <3>2. QED
      BY <2>2, <3>1 DEF Plain
  <2>3. QED
    BY <2>1, <2>2 DEF Plain
<1>13. QED
  BY <1>2, <1>6, <1>11, <1>12 DEF Framed, body

----------------------------------------------------------------------------
(***************************************************************************)
(* The rest of the stream after some of its frames.                        *)
(***************************************************************************)
\* Dropping twice.
LEMMA DropDrop ==
    ASSUME NEW s \in Seq(Symbols), NEW i \in 0..Len(s), NEW j \in 0..(Len(s) - i)
    PROVE  Drop(Drop(s, i), j) = Drop(s, i + j)
<1> DEFINE t == Drop(s, i)
           u == Drop(t, j)
           v == Drop(s, i + j)
<1>1. Len(s) \in Nat /\ i \in Nat /\ j \in Nat /\ i + j \in 0..Len(s)
  BY LenProperties
<1>2. /\ t \in Seq(Symbols) /\ Len(t) = Len(s) - i
      /\ \A x \in 1..(Len(s) - i) : t[x] = s[i + x]
  BY DropIs
<1>3. /\ v \in Seq(Symbols) /\ Len(v) = Len(s) - (i + j)
      /\ \A x \in 1..(Len(s) - (i + j)) : v[x] = s[(i + j) + x]
  BY <1>1, DropIs
<1> HIDE DEF t, v
<1>4. j \in 0..Len(t)
  BY <1>2
<1>5. /\ u \in Seq(Symbols) /\ Len(u) = Len(t) - j
      /\ \A x \in 1..(Len(t) - j) : u[x] = t[j + x]
  BY <1>2, <1>4, DropIs
<1> HIDE DEF u
<1>6. Len(u) = Len(v)
  BY <1>1, <1>2, <1>3, <1>5
<1>7. ASSUME NEW x \in 1..Len(u) PROVE u[x] = v[x]
  <2>1. x \in 1..(Len(t) - j) /\ j + x \in 1..(Len(s) - i) /\ x \in 1..(Len(s) - (i + j))
        /\ i + (j + x) = (i + j) + x
    BY <1>1, <1>2, <1>5
  <2>2. QED
    BY <1>2, <1>3, <1>5, <2>1
<1>8. u = v
  BY <1>3, <1>5, <1>6, <1>7, SeqEqual
<1>9. QED
  BY <1>8 DEF t, u, v

\* Dropping nothing, and everything.
LEMMA DropNone ==
    ASSUME NEW s \in Seq(Symbols)
    PROVE  Drop(s, 0) = s /\ Drop(s, Len(s)) = <<>>
<1> DEFINE t == Drop(s, 0)
           u == Drop(s, Len(s))
<1>1. Len(s) \in Nat
  BY LenProperties
<1>2. 0 \in 0..Len(s) /\ Len(s) \in 0..Len(s)
  BY <1>1
<1>3. t \in Seq(Symbols) /\ Len(t) = Len(s) - 0 /\ \A x \in 1..(Len(s) - 0) : t[x] = s[0 + x]
  BY <1>2, DropIs
<1>4. u \in Seq(Symbols) /\ Len(u) = Len(s) - Len(s)
  BY <1>2, DropIs
<1> HIDE DEF t, u
<1>5. Len(t) = Len(s) /\ \A x \in 1..Len(t) : t[x] = s[x]
  BY <1>1, <1>3
<1>6. t = s
  BY <1>3, <1>5, SeqEqual
<1>7. u = <<>>
  BY <1>1, <1>4
<1>8. QED
  BY <1>6, <1>7 DEF t, u

\* What is left of a sequence is its end.
LEMMA DropIsSuffix ==
    ASSUME NEW s \in Seq(Symbols), NEW n \in 0..Len(s)
    PROVE  IsSuffix(Drop(s, n), s)
<1> DEFINE t == Drop(s, n)
           back == Reverse(t)
           all == Reverse(s)
           m == Len(t)
<1>1. /\ t \in Seq(Symbols) /\ Len(t) = Len(s) - n
      /\ \A i \in 1..(Len(s) - n) : t[i] = s[n + i]
  BY DropIs
<1>2. Len(s) \in Nat /\ n \in Nat /\ m \in Nat /\ m <= Len(s) /\ \A i \in 1..Len(s) : s[i] \in Symbols
  BY <1>1, LenProperties
<1>3. \A i \in 1..m : t[i] \in Symbols
  BY <1>1
<1> HIDE DEF t
<1>4. back \in Seq(Symbols) /\ Len(back) = m /\ \A i \in 1..m : back[i] = t[(m - i) + 1]
  <2>1. \A i \in 1..m : (m - i) + 1 \in 1..m
    BY <1>2
  <2>2. \A i \in 1..m : t[(m - i) + 1] \in Symbols
    BY <1>3, <2>1
  <2>3. back = [i \in 1..m |-> t[(m - i) + 1]]
    BY DEF Reverse
  <2> HIDE DEF back, m
  <2>4. QED
    BY <1>2, <2>2, <2>3
<1>5. all \in Seq(Symbols) /\ Len(all) = Len(s)
      /\ \A i \in 1..Len(s) : all[i] = s[(Len(s) - i) + 1]
  <2>1. \A i \in 1..Len(s) : (Len(s) - i) + 1 \in 1..Len(s)
    BY <1>2
  <2>2. \A i \in 1..Len(s) : s[(Len(s) - i) + 1] \in Symbols
    BY <1>2, <2>1
  <2>3. all = [i \in 1..Len(s) |-> s[(Len(s) - i) + 1]]
    BY DEF Reverse
  <2> HIDE DEF all
  <2>4. QED
    BY <1>2, <2>2, <2>3
<1> HIDE DEF back, all
<1>6. ASSUME NEW i \in 1..m PROVE back[i] = all[i]
  <2>1. (m - i) + 1 \in 1..(Len(s) - n) /\ n + ((m - i) + 1) = (Len(s) - i) + 1 /\ i \in 1..Len(s)
    BY <1>1, <1>2
  <2>2. QED
    BY <1>1, <1>4, <1>5, <2>1
<1>7. SubSeq(back, 1, m) = SubSeq(all, 1, m)
  <2> DEFINE a == SubSeq(back, 1, m)
             b == SubSeq(all, 1, m)
  <2>1. m \in 0..Len(back) /\ m \in 0..Len(all)
    BY <1>2, <1>4, <1>5
  <2>2. a \in Seq(Symbols) /\ Len(a) = m /\ \A i \in 1..m : a[i] = back[i]
    BY <1>4, <2>1, FirstIs
  <2>3. b \in Seq(Symbols) /\ Len(b) = m /\ \A i \in 1..m : b[i] = all[i]
    BY <1>5, <2>1, FirstIs
  <2> HIDE DEF a, b, m
  <2>4. Len(a) = Len(b) /\ \A i \in 1..Len(a) : a[i] = b[i]
    BY <1>6, <2>2, <2>3
  <2>5. a = b
    BY <2>2, <2>3, <2>4, SeqEqual
  <2>6. QED
    BY <2>5 DEF a, b
<1> HIDE DEF m
<1>8. IsPrefix(back, all)
  BY <1>2, <1>4, <1>5, <1>7 DEF IsPrefix
<1>9. QED
  BY <1>8 DEF IsSuffix, back, all, t

----------------------------------------------------------------------------
\* s is the stream from where the frames of the first k bodies end.
RestAfter(s, k) ==
    \E pos : /\ LaidOut(script, pos, Stream(script))
             /\ k \in 0..Len(script)
             /\ s = Drop(Stream(script), pos[k])

\* The frames end within the stream.
LEMMA PosIn ==
    ASSUME NEW pos, LaidOut(script, pos, Stream(script)), Framable, NEW k \in 0..Len(script)
    PROVE  pos[k] \in 0..Len(Stream(script))
<1>1. Stream(script) \in Seq(Symbols) /\ pos[k] \in Nat
  BY DEF LaidOut
<1>2. Len(Stream(script)) \in Nat
  BY <1>1, LenProperties
<1>3. CASE k = 0
  BY <1>1, <1>2, <1>3 DEF LaidOut
<1>4. CASE k # 0
  <2>1. k \in 1..Len(script)
    BY <1>4
  <2>2. pos[k] <= Len(Stream(script))
    BY <2>1 DEF LaidOut
  <2>3. QED
    BY <1>1, <1>2, <2>2
<1>5. QED
  BY <1>3, <1>4

\* Before the first frame, the rest is the stream.
LEMMA TailStart ==
    ASSUME Framable
    PROVE  Stream(script) \in Seq(Symbols) /\ RestAfter(Stream(script), 0)
<1>1. script \in Seq(Seq(Symbols)) /\ \A k \in 1..Len(script) : Written(script, k) \in Seq(Symbols)
  BY WrittenIs DEF Framable
<1>2. PICK pos : LaidOut(script, pos, Stream(script))
  BY <1>1, StreamLaidOut
<1>3. Stream(script) \in Seq(Symbols) /\ pos[0] = 0
  BY <1>2 DEF LaidOut
<1>4. Drop(Stream(script), 0) = Stream(script)
  BY <1>3, DropNone
<1>5. 0 \in 0..Len(script)
  BY <1>1, LenProperties
<1>6. QED
  BY <1>2, <1>3, <1>4, <1>5 DEF RestAfter

\* After the last, it is empty.
LEMMA TailEnds ==
    ASSUME Framable, NEW s, RestAfter(s, Len(script))
    PROVE  s = <<>>
<1>1. PICK pos : LaidOut(script, pos, Stream(script)) /\ s = Drop(Stream(script), pos[Len(script)])
  BY DEF RestAfter
<1>2. Stream(script) \in Seq(Symbols) /\ pos[Len(script)] = Len(Stream(script))
  BY <1>1 DEF LaidOut
<1>3. QED
  BY <1>1, <1>2, DropNone

\* What is left of the rest is a suffix of the stream.
LEMMA TailIsSuffix ==
    ASSUME Framable, NEW s, NEW k, RestAfter(s, k), NEW n \in 0..Len(s)
    PROVE  s \in Seq(Symbols) /\ IsSuffix(Drop(s, n), Stream(script))
<1> DEFINE all == Stream(script)
<1>1. PICK pos : LaidOut(script, pos, all) /\ k \in 0..Len(script) /\ s = Drop(all, pos[k])
  BY DEF RestAfter
<1>2. all \in Seq(Symbols) /\ pos[k] \in 0..Len(all)
  BY <1>1, PosIn DEF LaidOut
<1> DEFINE m == pos[k]
<1> HIDE DEF all, m
<1>3. s = Drop(all, m) /\ m \in 0..Len(all)
  BY <1>1, <1>2 DEF m
<1>4. s \in Seq(Symbols) /\ Len(s) = Len(all) - m
  BY <1>2, <1>3, DropIs
<1>5. Len(all) \in Nat /\ n \in 0..(Len(all) - m) /\ m + n \in 0..Len(all)
  <2>1. Len(all) \in Nat
    BY <1>2, LenProperties
  <2>2. QED
    BY <1>3, <1>4, <2>1
<1>6. Drop(s, n) = Drop(all, m + n)
  BY <1>2, <1>3, <1>5, DropDrop
<1>7. IsSuffix(Drop(all, m + n), all)
  BY <1>2, <1>5, DropIsSuffix
<1>8. QED
  BY <1>4, <1>6, <1>7 DEF all

\* Until then the rest begins with the next frame.
LEMMA TailFrame ==
    ASSUME Framable, NEW s, NEW k, RestAfter(s, k), k < Len(script)
    PROVE  /\ s \in Seq(Symbols)
           /\ \E p \in Nat : /\ Framed(s, p, k + 1)
                             /\ RestAfter(Drop(s, p + 5 + Len(script[k + 1])), k + 1)
<1> DEFINE all == Stream(script)
           w == Written(script, k + 1)
<1>1. PICK pos : LaidOut(script, pos, all) /\ k \in 0..Len(script) /\ s = Drop(all, pos[k])
  BY DEF RestAfter
<1>2. Len(script) \in Nat
  BY LenProperties DEF Framable
<1>3. k \in Nat /\ k + 1 \in 1..Len(script) /\ k + 1 \in 0..Len(script) /\ (k + 1) - 1 = k
  BY <1>1, <1>2
<1>4. PICK p \in Nat : Len(w) = p + 5 + Len(script[k + 1]) /\ Framed(w, p, k + 1)
  BY <1>3, WrittenIs
<1>5. w \in Seq(Symbols)
  BY <1>3, WrittenIs
<1>6. all \in Seq(Symbols)
  BY <1>1 DEF LaidOut
<1>7. pos[k] \in 0..Len(all) /\ pos[k + 1] \in 0..Len(all)
  BY <1>1, <1>3, PosIn
<1>8. pos[k + 1] = pos[k] + Len(w) /\ \A i \in 1..Len(w) : all[pos[k] + i] = w[i]
  <2> HIDE DEF all
  <2>1. \A j \in 1..Len(script) :
          /\ pos[j] = pos[j - 1] + Len(Written(script, j))
          /\ \A i \in 1..Len(Written(script, j)) : all[pos[j - 1] + i] = Written(script, j)[i]
    BY <1>1 DEF LaidOut
  <2>2. /\ pos[k + 1] = pos[(k + 1) - 1] + Len(Written(script, k + 1))
        /\ \A i \in 1..Len(Written(script, k + 1)) :
              all[pos[(k + 1) - 1] + i] = Written(script, k + 1)[i]
    BY <1>3, <2>1
  <2>3. QED
    BY <1>3, <2>2
<1> DEFINE m == pos[k]
           next == pos[k + 1]
<1> HIDE DEF all, w, m, next
<1>9. /\ m \in 0..Len(all) /\ next \in 0..Len(all) /\ next = m + Len(w)
      /\ s = Drop(all, m) /\ \A i \in 1..Len(w) : all[m + i] = w[i]
      /\ Len(all) \in Nat /\ Len(w) \in Nat
  <2>1. Len(all) \in Nat /\ Len(w) \in Nat
    BY <1>5, <1>6, LenProperties
  <2>2. QED
    BY <1>1, <1>7, <1>8, <2>1 DEF m, next
<1>10. /\ s \in Seq(Symbols) /\ Len(s) = Len(all) - m
       /\ \A i \in 1..(Len(all) - m) : s[i] = all[m + i]
  BY <1>6, <1>9, DropIs
<1>11. Begins(w, s)
  BY <1>9, <1>10 DEF Begins
<1>12. Framed(s, p, k + 1)
  BY <1>3, <1>4, <1>5, <1>10, <1>11, FrameGoesOn
<1>13. Drop(s, Len(w)) = Drop(all, next)
  <2>1. Len(w) \in 0..(Len(all) - m)
    BY <1>9
  <2>2. QED
    BY <1>6, <1>9, <2>1, DropDrop
<1>14. RestAfter(Drop(s, Len(w)), k + 1)
  BY <1>1, <1>3, <1>13 DEF RestAfter, all, next
<1>15. QED
  BY <1>4, <1>10, <1>12, <1>14

----------------------------------------------------------------------------
(***************************************************************************)
(* What a read takes from the pipe goes to the decoder's buffer.           *)
(***************************************************************************)
Regroups(s, t, u) == (s \o t) \o u = s \o (t \o u)

\* Concatenation is associative; the name keeps the three sequences apart.
LEMMA Associated ==
    ASSUME NEW s \in Seq(Symbols), NEW t \in Seq(Symbols), NEW u \in Seq(Symbols)
    PROVE  Regroups(s, t, u)
BY ConcatAssociative DEF Regroups

\* What the server writes goes from what is unsent to the pipe.
OneMoved(a, b, c) ==
    /\ Append(b, Head(c)) \in Seq(Symbols) /\ Tail(c) \in Seq(Symbols)
    /\ (a \o Append(b, Head(c))) \o Tail(c) = (a \o b) \o c

\* It is moved from the one to the other, and the order stays.
LEMMA OneWritten ==
    ASSUME NEW a \in Seq(Symbols), NEW b \in Seq(Symbols), NEW c \in Seq(Symbols), c # <<>>
    PROVE  OneMoved(a, b, c)
<1> DEFINE h == <<Head(c)>>
           t == Tail(c)
<1>1. Head(c) \in Symbols /\ t \in Seq(Symbols) /\ c = h \o t
  <2>1. Head(c) \in Symbols /\ t \in Seq(Symbols)
    OBVIOUS
  <2>2. c = h \o t
    OBVIOUS
  <2>3. QED
    BY <2>1, <2>2
<1>2. h \in Seq(Symbols) /\ Append(b, Head(c)) = b \o h
  BY <1>1, AppendIsConcat
<1> HIDE DEF h, t
<1>3. a \o b \in Seq(Symbols) /\ b \o h \in Seq(Symbols)
  BY <1>2, ConcatProperties
<1>4. (a \o (b \o h)) \o t = ((a \o b) \o h) \o t
  <2>1. a \in Seq(Symbols) /\ b \in Seq(Symbols) /\ h \in Seq(Symbols)
    BY <1>2
  <2>2. Regroups(a, b, h)
    BY <2>1, Associated
  <2>3. QED
    BY <2>2 DEF Regroups
<1>5. ((a \o b) \o h) \o t = (a \o b) \o (h \o t)
  <2> DEFINE ab == a \o b
  <2>1. ab \in Seq(Symbols) /\ h \in Seq(Symbols) /\ t \in Seq(Symbols)
    BY <1>1, <1>2, <1>3
  <2> HIDE DEF ab
  <2>2. Regroups(ab, h, t)
    BY <2>1, Associated
  <2>3. QED
    BY <2>2 DEF Regroups, ab
<1>6. QED
  BY <1>1, <1>2, <1>3, <1>4, <1>5 DEF t, OneMoved

\* The first n symbols of the pipe, b, behind those of the buffer, a; c is
\* unsent.
Advanced(a, b, c, n) ==
    LET s == a \o SubSeq(b, 1, n)
        all == (a \o b) \o c
    IN  /\ s \in Seq(Symbols) /\ all \in Seq(Symbols)
        /\ Len(s) = Len(a) + n /\ Len(all) = (Len(a) + Len(b)) + Len(c)
        /\ Begins(s, all)
        /\ Drop(b, n) \in Seq(Symbols)
        /\ \A j \in 0..Len(s) : (Drop(s, j) \o Drop(b, n)) \o c = Drop(all, j)

\* A read moves some of the pipe behind the buffer, and the order stays.
LEMMA Advance ==
    ASSUME NEW a \in Seq(Symbols), NEW b \in Seq(Symbols), NEW c \in Seq(Symbols),
           NEW n \in 0..Len(b)
    PROVE  Advanced(a, b, c, n)
<1> DEFINE chunk == SubSeq(b, 1, n)
           rest == Drop(b, n)
           s == a \o chunk
           all == (a \o b) \o c
<1>1. Len(a) \in Nat /\ Len(b) \in Nat /\ Len(c) \in Nat /\ n \in Nat /\ n <= Len(b)
  BY LenProperties
<1>2. chunk \in Seq(Symbols) /\ Len(chunk) = n /\ \A i \in 1..n : chunk[i] = b[i]
  BY FirstIs
<1>3. rest \in Seq(Symbols) /\ Len(rest) = Len(b) - n /\ \A i \in 1..(Len(b) - n) : rest[i] = b[n + i]
  BY DropIs
<1>4. chunk \o rest = b
  <2> DEFINE u == chunk \o rest
  <2> HIDE DEF chunk, rest
  <2>1. /\ u \in Seq(Symbols) /\ Len(u) = Len(chunk) + Len(rest)
        /\ \A i \in 1..Len(chunk) : u[i] = chunk[i]
        /\ \A i \in 1..Len(rest) : u[Len(chunk) + i] = rest[i]
    BY <1>2, <1>3, Joined
  <2> HIDE DEF u
  <2>2. Len(u) = Len(b)
    BY <1>1, <1>2, <1>3, <2>1
  <2>3. ASSUME NEW i \in 1..Len(u) PROVE u[i] = b[i]
    <3>1. CASE i <= n
      BY <1>1, <1>2, <2>1, <3>1
    <3>2. CASE i > n
      <4>1. i - n \in 1..(Len(b) - n) /\ n + (i - n) = i
        BY <1>1, <2>2, <3>2
      <4>2. u[n + (i - n)] = rest[i - n]
        BY <1>2, <1>3, <2>1, <4>1
      <4>3. QED
        BY <1>3, <4>1, <4>2
    <3>3. QED
      BY <1>1, <2>2, <3>1, <3>2
  <2>4. u = b
    BY <2>1, <2>2, <2>3, SeqEqual
  <2>5. QED
    BY <2>4 DEF u
<1> HIDE DEF chunk, rest
<1>5. /\ s \in Seq(Symbols) /\ Len(s) = Len(a) + Len(chunk)
  BY <1>2, Joined
<1>6. a \o b \in Seq(Symbols) /\ Len(a \o b) = Len(a) + Len(b)
  BY Joined
<1>7. all \in Seq(Symbols) /\ Len(all) = Len(a \o b) + Len(c)
  BY <1>6, Joined
<1>8. all = s \o (rest \o c)
  <2>1. a \o b = s \o rest
    <3>1. a \o (chunk \o rest) = (a \o chunk) \o rest
      <4>1. a \in Seq(Symbols) /\ chunk \in Seq(Symbols) /\ rest \in Seq(Symbols)
        BY <1>2, <1>3
      <4>2. Regroups(a, chunk, rest)
        BY <4>1, Associated
      <4>3. QED
        BY <4>2 DEF Regroups
    <3>2. QED
      BY <1>4, <3>1
  <2> HIDE DEF s
  <2>2. (s \o rest) \o c = s \o (rest \o c)
    <3>1. s \in Seq(Symbols) /\ rest \in Seq(Symbols) /\ c \in Seq(Symbols)
      BY <1>3, <1>5
    <3>2. Regroups(s, rest, c)
      BY <3>1, Associated
    <3>3. QED
      BY <3>2 DEF Regroups
  <2>3. QED
    BY <2>1, <2>2
<1>9. rest \o c \in Seq(Symbols)
  BY <1>3, Joined
<1> HIDE DEF s, all
<1>10. \A i \in 1..Len(s) : all[i] = s[i]
  BY <1>5, <1>8, <1>9, Joined
<1>11. Begins(s, all)
  <2>1. Len(s) <= Len(all)
    BY <1>1, <1>2, <1>5, <1>6, <1>7
  <2>2. QED
    BY <1>10, <2>1 DEF Begins
<1>12. ASSUME NEW j \in 0..Len(s)
       PROVE  (Drop(s, j) \o rest) \o c = Drop(all, j)
  <2> DEFINE t == Drop(s, j)
             u == rest \o c
             v == t \o u
             x == Drop(all, j)
  <2>1. t \in Seq(Symbols) /\ Len(t) = Len(s) - j /\ \A i \in 1..(Len(s) - j) : t[i] = s[j + i]
    BY <1>5, DropIs
  <2>2. Len(s) \in Nat /\ Len(all) \in Nat /\ Len(s) <= Len(all) /\ j \in 0..Len(all)
    BY <1>1, <1>2, <1>5, <1>6, <1>7
  <2>3. x \in Seq(Symbols) /\ Len(x) = Len(all) - j /\ \A i \in 1..(Len(all) - j) : x[i] = all[j + i]
    BY <1>7, <2>2, DropIs
  <2>4. Len(all) = Len(s) + Len(u) /\ u \in Seq(Symbols) /\ Len(u) \in Nat
        /\ \A i \in 1..Len(u) : all[Len(s) + i] = u[i]
    <3>1. Len(all) = Len(s) + Len(u) /\ \A i \in 1..Len(u) : all[Len(s) + i] = u[i]
      <4>1. s \in Seq(Symbols) /\ u \in Seq(Symbols) /\ all = s \o u
        BY <1>5, <1>8, <1>9
      <4> HIDE DEF u
      <4>2. QED
        BY <4>1, Joined
    <3>2. QED
      BY <1>9, <3>1, LenProperties
  <2> HIDE DEF t, u, x
  <2>5. /\ v \in Seq(Symbols) /\ Len(v) = Len(t) + Len(u)
        /\ \A i \in 1..Len(t) : v[i] = t[i]
        /\ \A i \in 1..Len(u) : v[Len(t) + i] = u[i]
    <3>1. t \in Seq(Symbols) /\ u \in Seq(Symbols)
      BY <2>1, <2>4
    <3>2. QED
      BY <3>1, Joined
  <2> HIDE DEF v
  <2>6. Len(v) = Len(x)
    BY <2>1, <2>2, <2>3, <2>4, <2>5
  <2>7. ASSUME NEW i \in 1..Len(v) PROVE v[i] = x[i]
    <3>1. CASE i <= Len(t)
      <4>1. i \in 1..(Len(s) - j) /\ i \in 1..Len(t) /\ i \in 1..(Len(all) - j) /\ j + i \in 1..Len(s)
        BY <2>1, <2>2, <2>5, <3>1
      <4>2. QED
        BY <1>10, <2>1, <2>3, <2>5, <4>1
    <3>2. CASE i > Len(t)
      <4>1. /\ i - Len(t) \in 1..Len(u) /\ Len(t) + (i - Len(t)) = i
            /\ i \in 1..(Len(all) - j) /\ Len(s) + (i - Len(t)) = j + i
        <5> DEFINE lt == Len(t)
                   lu == Len(u)
                   ls == Len(s)
                   la == Len(all)
        <5>1. /\ ls \in Nat /\ la \in Nat /\ lu \in Nat /\ j \in 0..ls
              /\ lt = ls - j /\ la = ls + lu
              /\ i \in 1..(lt + lu) /\ i > lt
          BY <2>1, <2>2, <2>4, <2>5, <3>2
        <5> HIDE DEF lt, lu, ls, la
        <5>2. i - lt \in 1..lu /\ lt + (i - lt) = i /\ i \in 1..(la - j) /\ ls + (i - lt) = j + i
          BY <5>1
        <5>3. QED
          BY <5>2 DEF lt, lu, ls, la
      <4>2. v[i] = u[i - Len(t)] /\ x[i] = all[j + i] /\ all[j + i] = u[i - Len(t)]
        BY <2>3, <2>4, <2>5, <4>1
      <4>3. QED
        BY <4>2
    <3>3. QED
      BY <2>1, <2>2, <3>1, <3>2
  <2>8. v = x
    BY <2>3, <2>5, <2>6, <2>7, SeqEqual
  <2>9. (t \o rest) \o c = v
    <3>1. t \in Seq(Symbols) /\ rest \in Seq(Symbols) /\ c \in Seq(Symbols)
      BY <1>3, <2>1
    <3>2. Regroups(t, rest, c)
      BY <3>1, Associated
    <3>3. QED
      BY <3>2 DEF Regroups, v, u
  <2>10. QED
    BY <2>8, <2>9 DEF t, x
<1>13. Len(s) = Len(a) + n /\ Len(all) = (Len(a) + Len(b)) + Len(c)
  BY <1>2, <1>5, <1>6, <1>7
<1>14. QED
  BY <1>3, <1>5, <1>7, <1>11, <1>12, <1>13 DEF s, all, chunk, rest, Advanced

----------------------------------------------------------------------------
(***************************************************************************)
(* Lines: a header line is read with its end, and the decoder has whole    *)
(* lines of a header.                                                      *)
(***************************************************************************)
\* A line with its end, as the decoder gets it.
OneLine(s) ==
    /\ Len(s) >= 2
    /\ LineAt(s, Len(s) - 1)
    /\ \A i : LineAt(s, i) => i = Len(s) - 1

\* A buffer of whole lines, none of them blank.
Lines(s) ==
    /\ \A i : ~BlankAt(s, i)
    /\ s = <<>> \/ s[Len(s)] = "LF"

\* With the line end put back, a line is what the pipe had.
LEMMA LineRead ==
    ASSUME NEW s \in Seq(Symbols), Find(s, CRLF) # 0
    PROVE  LET end == Find(s, CRLF)
           IN  /\ end \in Nat /\ end + 1 \in 0..Len(s)
               /\ SubSeq(s, 1, end - 1) \o CRLF = SubSeq(s, 1, end + 1)
               /\ OneLine(SubSeq(s, 1, end + 1))
<1> DEFINE end == Find(s, CRLF)
           a == SubSeq(s, 1, end - 1)
           b == SubSeq(s, 1, end + 1)
           c == a \o CRLF
<1>1. end \in Nat /\ end # 0 /\ LineAt(s, end) /\ \A i : LineAt(s, i) => end <= i
  BY FindsLine
<1> HIDE DEF end
<1>2. /\ Len(s) \in Nat /\ end \in Nat /\ end >= 1
      /\ end + 1 \in 0..Len(s) /\ end - 1 \in 0..Len(s)
  <2>1. Len(s) \in Nat
    BY LenProperties
  <2>2. QED
    BY <1>1, <2>1 DEF LineAt
<1>3. a \in Seq(Symbols) /\ Len(a) = end - 1 /\ \A i \in 1..(end - 1) : a[i] = s[i]
  BY <1>2, FirstIs
<1>4. b \in Seq(Symbols) /\ Len(b) = end + 1 /\ \A i \in 1..(end + 1) : b[i] = s[i]
  BY <1>2, FirstIs
<1> HIDE DEF a, b
<1>5. /\ c \in Seq(Symbols) /\ Len(c) = Len(a) + Len(CRLF)
      /\ \A i \in 1..Len(a) : c[i] = a[i]
      /\ \A i \in 1..Len(CRLF) : c[Len(a) + i] = CRLF[i]
  <2>1. a \in Seq(Symbols) /\ CRLF \in Seq(Symbols)
    BY <1>3, CrlfIs
  <2>2. QED
    BY <2>1, Joined
<1> HIDE DEF c
<1>6. s[end] = "CR" /\ s[end + 1] = "LF"
  BY <1>1 DEF LineAt
<1>7. Len(c) = end + 1 /\ c[end] = "CR" /\ c[end + 1] = "LF"
      /\ \A i \in 1..(end - 1) : c[i] = s[i]
  <2>1. c[Len(a) + 1] = "CR" /\ c[Len(a) + 2] = "LF"
    BY <1>5, CrlfIs
  <2>2. Len(a) + 1 = end /\ Len(a) + 2 = end + 1 /\ Len(CRLF) = 2
    BY <1>2, <1>3, CrlfIs
  <2>3. QED
    BY <1>2, <1>3, <1>5, <2>1, <2>2
<1>8. c = b
  <2>1. Len(c) = Len(b)
    BY <1>4, <1>7
  <2>2. ASSUME NEW i \in 1..Len(c) PROVE c[i] = b[i]
    <3>1. i \in 1..(end - 1) \/ i = end \/ i = end + 1
      BY <1>2, <1>7
    <3>2. i \in 1..(end + 1)
      BY <1>7
    <3>3. QED
      BY <1>4, <1>6, <1>7, <3>1, <3>2
  <2>3. QED
    BY <1>4, <1>5, <2>1, <2>2, SeqEqual
<1>9. OneLine(b)
  <2>1. \A i : LineAt(b, i) => LineAt(s, i) /\ i \in 1..end
    BY <1>2, <1>4 DEF LineAt
  <2>2. \A i : LineAt(b, i) => i = Len(b) - 1
    BY <1>1, <1>2, <1>4, <2>1
  <2>3. LineAt(b, Len(b) - 1)
    <3>1. Len(b) - 1 = end /\ end \in 1..(Len(b) - 1)
      BY <1>2, <1>4
    <3>2. end \in 1..(end + 1) /\ end + 1 \in 1..(end + 1)
      BY <1>2
    <3>3. b[end] = "CR" /\ b[end + 1] = "LF"
      BY <1>4, <1>6, <3>2
    <3>4. QED
      BY <3>1, <3>3 DEF LineAt
  <2>4. Len(b) >= 2
    BY <1>2, <1>4
  <2>5. QED
    BY <2>2, <2>3, <2>4 DEF OneLine
<1>10. QED
  BY <1>1, <1>2, <1>8, <1>9 DEF end, a, b, c

\* The last bytes get a line end.
LEMMA LastLine ==
    ASSUME NEW s \in Seq(Symbols), Find(s, CRLF) = 0
    PROVE  /\ s \o CRLF \in Seq(Symbols) /\ Len(s \o CRLF) = Len(s) + 2
           /\ OneLine(s \o CRLF)
<1> DEFINE c == s \o CRLF
<1>1. \A i : ~LineAt(s, i)
  BY FindsLine
<1>2. /\ c \in Seq(Symbols) /\ Len(c) = Len(s) + Len(CRLF)
      /\ \A i \in 1..Len(s) : c[i] = s[i]
      /\ \A i \in 1..Len(CRLF) : c[Len(s) + i] = CRLF[i]
  <2>1. s \in Seq(Symbols) /\ CRLF \in Seq(Symbols)
    BY CrlfIs
  <2>2. QED
    BY <2>1, Joined
<1> HIDE DEF c
<1>3. Len(s) \in Nat
  BY LenProperties
<1>4. Len(c) = Len(s) + 2 /\ c[Len(s) + 1] = "CR" /\ c[Len(s) + 2] = "LF"
  BY <1>2, CrlfIs
<1>5. LineAt(c, Len(c) - 1)
  BY <1>3, <1>4 DEF LineAt
<1>6. ASSUME NEW i, LineAt(c, i) PROVE i = Len(c) - 1
  <2>1. i \in 1..(Len(s) + 1) /\ c[i] = "CR" /\ c[i + 1] = "LF"
    BY <1>3, <1>4, <1>6 DEF LineAt
  <2>2. CASE i \in 1..(Len(s) - 1)
    <3>1. i \in 1..Len(s) /\ i + 1 \in 1..Len(s)
      BY <1>3, <2>2
    <3>2. s[i] = "CR" /\ s[i + 1] = "LF"
      BY <1>2, <2>1, <3>1
    <3>3. QED
      BY <1>1, <2>2, <3>2 DEF LineAt
  <2>3. CASE i = Len(s)
    BY <1>4, <2>1, <2>3
  <2>4. CASE i = Len(s) + 1
    BY <1>3, <1>4, <2>4
  <2>5. QED
    BY <1>3, <2>1, <2>2, <2>3, <2>4
<1>7. Len(c) >= 2
  BY <1>3, <1>4
<1>8. OneLine(c)
  BY <1>5, <1>6, <1>7 DEF OneLine
<1>9. QED
  BY <1>2, <1>4, <1>8 DEF c

\* A line put behind whole lines: only its end may be that of a blank line.
LEMMA BlanksAtEnd ==
    ASSUME NEW a \in Seq(Symbols), NEW b \in Seq(Symbols), Lines(a), OneLine(b)
    PROVE  LET s == a \o b
           IN  /\ \A i : BlankAt(s, i) => i + 3 = Len(s)
               /\ s[Len(s)] = "LF"
<1> DEFINE s == a \o b
<1>1. /\ s \in Seq(Symbols) /\ Len(s) = Len(a) + Len(b)
      /\ \A i \in 1..Len(a) : s[i] = a[i]
      /\ \A i \in 1..Len(b) : s[Len(a) + i] = b[i]
  BY Joined
<1> HIDE DEF s
<1>2. Len(a) \in Nat /\ Len(b) \in Nat /\ Len(b) >= 2
  BY LenProperties DEF OneLine
<1>3. b[Len(b)] = "LF"
  <2>1. LineAt(b, Len(b) - 1) /\ (Len(b) - 1) + 1 = Len(b)
    BY <1>2 DEF OneLine
  <2>2. QED
    BY <2>1 DEF LineAt
<1>4. s[Len(s)] = "LF"
  BY <1>1, <1>2, <1>3
<1>5. ASSUME NEW i, BlankAt(s, i) PROVE i + 3 = Len(s)
  <2>1. /\ i \in 1..(Len(a) + Len(b) - 3)
        /\ s[i] = "CR" /\ s[i + 1] = "LF" /\ s[i + 2] = "CR" /\ s[i + 3] = "LF"
    BY <1>1, <1>2, <1>5 DEF BlankAt
  <2>2. CASE i + 3 <= Len(a)
    <3>1. i \in 1..Len(a) /\ i + 1 \in 1..Len(a) /\ i + 2 \in 1..Len(a) /\ i + 3 \in 1..Len(a)
      BY <1>2, <2>1, <2>2
    <3>2. a[i] = "CR" /\ a[i + 1] = "LF" /\ a[i + 2] = "CR" /\ a[i + 3] = "LF"
      BY <1>1, <2>1, <3>1
    <3>3. BlankAt(a, i)
      BY <1>2, <2>1, <2>2, <3>2 DEF BlankAt
    <3>4. QED
      BY <3>3 DEF Lines
  <2>3. CASE i + 2 = Len(a)
    <3>1. i + 2 \in 1..Len(a) /\ a # <<>>
      BY <1>2, <2>1, <2>3
    <3>2. a[i + 2] = "CR" /\ a[Len(a)] = "LF"
      BY <1>1, <2>1, <3>1 DEF Lines
    <3>3. QED
      BY <2>3, <3>2
  <2>4. CASE i + 2 > Len(a)
    <3> DEFINE j == (i + 2) - Len(a)
    <3>1. /\ j \in 1..(Len(b) - 1) /\ j \in 1..Len(b) /\ j + 1 \in 1..Len(b)
          /\ Len(a) + j = i + 2 /\ Len(a) + (j + 1) = i + 3
      BY <1>2, <2>1, <2>4
    <3> HIDE DEF j
    <3>2. b[j] = "CR" /\ b[j + 1] = "LF"
      BY <1>1, <2>1, <3>1
    <3>3. LineAt(b, j)
      BY <3>1, <3>2 DEF LineAt
    <3>4. j = Len(b) - 1
      BY <3>3 DEF OneLine
    <3>5. QED
      BY <1>1, <1>2, <2>1, <3>1, <3>4
  <2>5. QED
    BY <1>2, <2>1, <2>2, <2>3, <2>4
<1>6. QED
  BY <1>4, <1>5 DEF s

\* What a body leaves of the line is a whole line, or nothing.
LEMMA RestOfLine ==
    ASSUME NEW a \in Seq(Symbols), NEW b \in Seq(Symbols), OneLine(b),
           NEW n \in Nat, Len(a) < n, n <= Len(a \o b)
    PROVE  Drop(a \o b, n) \in Seq(Symbols) /\ Lines(Drop(a \o b, n))
<1> DEFINE s == a \o b
           t == Drop(s, n)
<1>1. /\ s \in Seq(Symbols) /\ Len(s) = Len(a) + Len(b)
      /\ \A i \in 1..Len(b) : s[Len(a) + i] = b[i]
  BY Joined
<1>2. Len(a) \in Nat /\ Len(b) \in Nat
  BY LenProperties
<1>3. n <= Len(s)
  OBVIOUS
<1> HIDE DEF s
<1>4. n \in 0..Len(s)
  BY <1>1, <1>2, <1>3
<1>5. t \in Seq(Symbols) /\ Len(t) = Len(s) - n /\ \A i \in 1..(Len(s) - n) : t[i] = s[n + i]
  BY <1>1, <1>4, DropIs
<1> HIDE DEF t
<1> DEFINE m == n - Len(a)
<1>6. m \in 1..Len(b) /\ Len(t) = Len(b) - m
  BY <1>1, <1>2, <1>3, <1>5
<1>7. ASSUME NEW i \in 1..Len(t) PROVE t[i] = b[m + i]
  <2>1. i \in 1..(Len(s) - n) /\ m + i \in 1..Len(b) /\ Len(a) + (m + i) = n + i
    BY <1>1, <1>2, <1>5, <1>6
  <2>2. t[i] = s[n + i] /\ s[Len(a) + (m + i)] = b[m + i]
    BY <1>1, <1>5, <2>1
  <2>3. QED
    BY <2>1, <2>2
<1> HIDE DEF m
<1>8. ASSUME NEW i, BlankAt(t, i) PROVE FALSE
  <2>1. /\ i \in 1..(Len(t) - 3)
        /\ t[i] = "CR" /\ t[i + 1] = "LF" /\ t[i + 2] = "CR" /\ t[i + 3] = "LF"
    BY <1>8 DEF BlankAt
  <2>2. /\ i \in 1..Len(t) /\ i + 1 \in 1..Len(t)
        /\ m + i \in 1..(Len(b) - 1) /\ m + i # Len(b) - 1 /\ m + (i + 1) = (m + i) + 1
    BY <1>2, <1>6, <2>1
  <2>3. b[m + i] = "CR" /\ b[(m + i) + 1] = "LF"
    BY <1>7, <2>1, <2>2
  <2>4. LineAt(b, m + i)
    BY <2>2, <2>3 DEF LineAt
  <2>5. QED
    BY <2>2, <2>4 DEF OneLine
<1>9. ASSUME t # <<>> PROVE t[Len(t)] = "LF"
  <2>1. Len(t) \in 1..Len(t) /\ m + Len(t) = Len(b)
    <3>1. Len(t) \in Nat /\ Len(t) # 0
      BY <1>5, <1>9
    <3>2. QED
      BY <1>2, <1>6, <3>1
  <2>2. LineAt(b, Len(b) - 1) /\ (Len(b) - 1) + 1 = Len(b)
    BY <1>2 DEF OneLine
  <2>3. b[Len(b)] = "LF"
    BY <2>2 DEF LineAt
  <2>4. QED
    BY <1>7, <2>1, <2>3
<1>10. QED
  BY <1>5, <1>8, <1>9 DEF Lines, s, t

----------------------------------------------------------------------------
(***************************************************************************)
(* The decoder between two calls of feed, and what is dispatched.          *)
(***************************************************************************)
\* A header block has a length that is not 0, or it raises.
LEMMA ParsesToLength ==
    ASSUME NEW block \in Seq(Symbols), ParseContentLength(block) # Malformed
    PROVE  ParseContentLength(block) \in Nat \ {0}
<1> DEFINE named == {i \in LineStarts(block) : i <= Len(block) /\ block[i] \in DOMAIN LengthOf}
           first == CHOOSE i \in named : \A j \in named : i <= j
<1>1. ParseContentLength(block) =
         IF named = {} \/ (first < Len(block) /\ block[first + 1] # "CR")
         THEN Malformed ELSE LengthOf[block[first]]
  BY DEF ParseContentLength
<1>2. named \subseteq Nat
  <2>1. 1 \in Nat /\ \A i \in 3..Len(block) : i \in Nat
    OBVIOUS
  <2>2. QED
    BY <2>1 DEF LineStarts
<1>3. \A i \in named : block[i] \in DOMAIN LengthOf
  OBVIOUS
<1> HIDE DEF named
<1>4. named # {} /\ ParseContentLength(block) = LengthOf[block[first]]
  BY <1>1
<1>5. PICK x \in named : \A y \in named : x <= y
  BY <1>2, <1>4, LeastNumber
<1>6. first \in named
  BY <1>5
<1> HIDE DEF first
<1>7. QED
  BY <1>3, <1>4, <1>6, LengthOfAssumption

\* A decoder that waits: for a header line, or for the rest of a body.
Waits(d) ==
    /\ d \in Decoder
    /\ d.ok = TRUE
    /\ d.out = <<>>
    /\ d.expected = NoLength \/ (d.expected \in Nat /\ Len(d.buffer) < d.expected)

\* Whatever comes in front of a blank line: feed raises or waits.
LEMMA AnyHeaderWaits ==
    ASSUME NEW d \in Decoder, d.ok = TRUE, d.expected = NoLength, d.out = <<>>,
           \A i : BlankAt(d.buffer, i) => i + 3 = Len(d.buffer)
    PROVE  Drain(d).ok = FALSE \/ Waits(Drain(d))
<1> DEFINE s == d.buffer
           sep == Find(s, CRLF \o CRLF)
           block == SubSeq(s, 1, sep - 1)
           length == ParseContentLength(block)
<1>1. s \in Seq(Symbols) /\ Len(s) \in Nat
  BY LenProperties DEF Decoder
<1>2. CASE \A i : ~BlankAt(s, i)
  <2> DEFINE e == [d EXCEPT !.ok = (\A i : ~BareAt(d.buffer, i))]
  <2>1. Drain(d) = e
    BY <1>2, HeaderWaits
  <2>2. e \in Decoder /\ e.out = <<>> /\ e.expected = NoLength /\ e.ok \in BOOLEAN
    BY DEF Decoder
  <2> HIDE DEF e
  <2>3. QED
    BY <2>1, <2>2 DEF Waits
<1>3. CASE \E i : BlankAt(s, i)
  <2>1. sep \in Nat /\ sep # 0 /\ sep + 3 = Len(s) /\ sep >= 1
    <3>1. /\ sep \in Nat
          /\ sep = 0 => \A i : ~BlankAt(s, i)
          /\ sep # 0 => BlankAt(s, sep)
      BY <1>1, FindsBlank
    <3> HIDE DEF sep
    <3>2. QED
      BY <1>3, <3>1
  <2>2. sep - 1 \in 0..Len(s)
    <3> HIDE DEF sep, s
    <3>1. QED
      BY <1>1, <2>1
  <2>3. block \in Seq(Symbols)
    BY <1>1, <2>2, FirstIs
  <2>4. Drop(s, sep + 3) = <<>>
    BY <1>1, <2>1, DropNone
  <2>5. Turn[d] = IF length = Malformed
                  THEN [d EXCEPT !.buffer = <<>>, !.ok = FALSE]
                  ELSE [d EXCEPT !.buffer = <<>>, !.expected = length]
    <3>1. Turn[d] = TakeHeader(d)
      BY DEF Turn
    <3> HIDE DEF length
    <3>2. QED
      BY <2>1, <2>4, <3>1 DEF TakeHeader, length
  <2>6. length # Malformed => length \in Nat \ {0}
    BY <2>3, ParsesToLength
  <2> HIDE DEF sep, block, length
  <2>7. CASE length = Malformed
    <3> DEFINE e == [d EXCEPT !.buffer = <<>>, !.ok = FALSE]
    <3>1. e \in Decoder /\ Turn[d] = e /\ e.ok = FALSE
      <4>1. <<>> \in Seq(Symbols)
        OBVIOUS
      <4>2. e \in Decoder /\ e.ok = FALSE
        BY <4>1 DEF Decoder
      <4>3. QED
        BY <2>5, <2>7, <4>2
    <3> HIDE DEF e
    <3>2. Turn[e] = e
      BY <3>1 DEF Turn
    <3>3. Drain(d) = e
      BY <3>1, <3>2, TwoTurns
    <3>4. QED
      BY <3>1, <3>3
  <2>8. CASE length # Malformed
    <3> DEFINE e == [buffer |-> <<>>, expected |-> length, out |-> <<>>, ok |-> TRUE]
    <3>1. length \in Nat \ {0}
      BY <2>6, <2>8
    <3>2. e \in Decoder
      BY <3>1 DEF Decoder
    <3>3. Turn[d] = e
      BY <2>5, <2>8, <3>1, ExpectsBody
    <3>4. e.ok = TRUE /\ e.out = <<>> /\ e.expected \in Nat /\ Len(e.buffer) < e.expected
      BY <3>1
    <3> HIDE DEF e
    <3>5. Turn[e] = e
      BY <3>2, <3>4, BodyWaits
    <3>6. Drain(d) = e
      BY <3>2, <3>3, <3>5, TwoTurns
    <3>7. QED
      BY <3>2, <3>4, <3>6 DEF Waits
  <2>9. QED
    BY <2>7, <2>8
<1>4. QED
  BY <1>2, <1>3

----------------------------------------------------------------------------
\* What feed works on.
LEMMA FeedIs ==
    ASSUME NEW d \in Decoder, NEW chunk \in Seq(Symbols), d.ok = TRUE, d.out = <<>>
    PROVE  \E e \in Decoder : /\ Feed(d, chunk) = Drain(e)
                              /\ e.buffer = d.buffer \o chunk /\ e.expected = d.expected
                              /\ e.ok = TRUE /\ e.out = <<>>
<1> DEFINE s == d.buffer \o chunk
           c == [d EXCEPT !.buffer = s]
           e == [d EXCEPT !.buffer = s, !.out = <<>>]
<1>1. d.buffer \in Seq(Symbols)
  BY DEF Decoder
<1>2. s \in Seq(Symbols)
  BY <1>1, Joined
<1>3. Feed(d, chunk) = Drain(e)
  BY DEF Feed
<1> HIDE DEF s
<1>4. c \in Decoder /\ c.ok = TRUE /\ c.out = <<>> /\ c.buffer = s /\ c.expected = d.expected
  BY <1>2 DEF Decoder
<1>5. e = [c EXCEPT !.out = <<>>]
  BY DEF Decoder
<1> HIDE DEF c, e
<1>6. e \in Decoder /\ e.buffer = s /\ e.expected = d.expected /\ e.ok = TRUE /\ e.out = <<>>
  BY <1>4, <1>5 DEF Decoder
<1>7. QED
  BY <1>3, <1>6 DEF s

\* A turn that finds no body dispatches nothing.
LEMMA NoneDispatched ==
    ASSUME DispatchBodies(<<>>), delivered \in Seq(Seq(Symbols)), refused \in BOOLEAN
    PROVE  delivered' = delivered /\ refused' = refused
<1> DEFINE F == [i \in DOMAIN <<>> |-> IF IsJson(<<>>[i]) THEN <<<<>>[i]>> ELSE <<>>]
<1>1. F = <<>>
  OBVIOUS
<1>2. FlattenSeq(<<>>) = <<>>
  BY DEF FlattenSeq
<1>3. delivered' = delivered \o FlattenSeq(F)
  BY DEF DispatchBodies
<1> HIDE DEF F
<1>4. delivered' = delivered
  BY <1>1, <1>2, <1>3, ConcatEmptySeq
<1>5. refused' = refused
  BY DEF DispatchBodies
<1>6. QED
  BY <1>4, <1>5

\* One body is a message if it is JSON; any other is refused.
LEMMA OneDispatched ==
    ASSUME NEW body \in Seq(Symbols), DispatchBodies(<<body>>),
           delivered \in Seq(Seq(Symbols)), refused \in BOOLEAN
    PROVE  IF IsJson(body)
           THEN delivered' = Append(delivered, body) /\ refused' = refused
           ELSE delivered' = delivered /\ refused' = TRUE
<1> DEFINE one == <<body>>
           piece == IF IsJson(body) THEN <<body>> ELSE <<>>
           F == [i \in DOMAIN one |-> IF IsJson(one[i]) THEN <<one[i]>> ELSE <<>>]
<1>1. F \in Seq(Seq(Seq(Symbols))) /\ Len(F) = 1 /\ F[1] = piece
  <2>1. DOMAIN one = 1..1 /\ one[1] = body
    OBVIOUS
  <2>2. piece \in Seq(Seq(Symbols))
    OBVIOUS
  <2>3. F = [i \in 1..1 |-> piece]
    BY <2>1
  <2> HIDE DEF F, piece, one
  <2>4. QED
    BY <2>2, <2>3
<1>2. delivered' = delivered \o FlattenSeq(F)
  BY DEF DispatchBodies
<1>3. refused' = (refused \/ ~IsJson(body))
  BY DEF DispatchBodies
<1> HIDE DEF F
<1>4. FlattenSeq(F) = piece
  <2>1. Len(F) > 0
    BY <1>1
  <2>2. PICK f : f[1] = F[1] /\ FlattenSeq(F) = f[Len(F)]
    BY <1>1, <2>1, FlattenIs
  <2>3. QED
    BY <1>1, <2>2
<1>5. CASE IsJson(body)
  <2>1. delivered' = delivered \o <<body>>
    BY <1>2, <1>4, <1>5
  <2>2. delivered \o <<body>> = Append(delivered, body)
    BY AppendIsConcat
  <2>3. QED
    BY <1>3, <1>5, <2>1, <2>2
<1>6. CASE ~IsJson(body)
  <2>1. delivered' = delivered \o <<>>
    BY <1>2, <1>4, <1>6
  <2>2. delivered \o <<>> = delivered
    BY ConcatEmptySeq
  <2>3. QED
    BY <1>3, <1>6, <2>1, <2>2
<1>7. QED
  BY <1>5, <1>6

----------------------------------------------------------------------------
(***************************************************************************)
(* Places in the stream.                                                   *)
(***************************************************************************)
\* The rests of the stream that begin with a frame, or with the body of one, each
\* with the number of bodies before it.
FrameStarts == {t \in Seq(Symbols) \X Nat : RestAfter(t[1], t[2])}

\* The rests of the stream from a body, and the number of bodies before it.
BodyStarts ==
    {t \in Seq(Symbols) \X Nat :
        \E w \in Seq(Symbols), p \in Nat :
           /\ RestAfter(w, t[2])
           /\ t[2] < Len(script)
           /\ Framed(w, p, t[2] + 1)
           /\ RestAfter(Drop(w, p + 5 + Len(script[t[2] + 1])), t[2] + 1)
           /\ t[1] = Drop(w, p + 5)}

\* The places depend only on what is given.
LEMMA StartsStay ==
    ASSUME UNCHANGED <<script, printed>>
    PROVE  FrameStarts' = FrameStarts /\ BodyStarts' = BodyStarts
BY DEF FrameStarts, BodyStarts, RestAfter, LaidOut, Stream, Written, Framed

\* Before a frame.
LEMMA FrameStartIs ==
    ASSUME Framable, NEW s, NEW k, <<s, k>> \in FrameStarts
    PROVE  /\ s \in Seq(Symbols) /\ k \in Nat /\ k <= Len(script)
           /\ k = Len(script) => s = <<>>
           /\ IsSuffix(s, Stream(script))
           /\ k < Len(script) =>
                 \E p \in Nat : /\ FrameAt(s, p, script[k + 1])
                                /\ printed = <<>> \/ k + 1 # Len(script) => Plain(s, p)
                                /\ <<Drop(s, p + 5), k>> \in BodyStarts
<1>1. s \in Seq(Symbols) /\ k \in Nat /\ RestAfter(s, k)
  BY DEF FrameStarts
<1>2. k <= Len(script)
  <2>1. k \in 0..Len(script)
    BY <1>1 DEF RestAfter
  <2>2. QED
    BY <1>1, <2>1
<1>3. k = Len(script) => s = <<>>
  BY <1>1, TailEnds
<1>4. Len(s) \in Nat
  BY <1>1, LenProperties
<1>5. IsSuffix(s, Stream(script))
  <2>1. 0 \in 0..Len(s)
    BY <1>4
  <2>2. IsSuffix(Drop(s, 0), Stream(script))
    BY <1>1, <2>1, TailIsSuffix
  <2>3. QED
    BY <1>1, <2>2, DropNone
<1>6. ASSUME k < Len(script)
      PROVE  \E p \in Nat : /\ FrameAt(s, p, script[k + 1])
                            /\ printed = <<>> \/ k + 1 # Len(script) => Plain(s, p)
                            /\ <<Drop(s, p + 5), k>> \in BodyStarts
  <2>1. PICK p \in Nat : /\ Framed(s, p, k + 1)
                         /\ RestAfter(Drop(s, p + 5 + Len(script[k + 1])), k + 1)
    BY <1>1, <1>6, TailFrame
  <2>2. FrameAt(s, p, script[k + 1]) /\ (printed = <<>> \/ k + 1 # Len(script) => Plain(s, p))
    BY <2>1 DEF Framed
  <2>3. p + 5 \in 0..Len(s)
    <3>1. p + 5 + Len(script[k + 1]) <= Len(s)
      BY <2>2 DEF FrameAt
    <3>2. Len(script[k + 1]) \in Nat
      <4>1. Len(script) \in Nat
        BY LenProperties DEF Framable
      <4>2. k + 1 \in 1..Len(script)
        BY <1>1, <1>6, <4>1
      <4>3. script[k + 1] \in Seq(Symbols)
        BY <4>2 DEF Framable
      <4>4. QED
        BY <4>3, LenProperties
    <3>3. QED
      <4> DEFINE n == Len(script[k + 1])
                 m == Len(s)
      <4>1. n \in Nat /\ m \in Nat /\ p \in Nat /\ p + 5 + n <= m
        BY <1>4, <3>1, <3>2
      <4> HIDE DEF n, m
      <4>2. p + 5 \in 0..m
        BY <4>1
      <4>3. QED
        BY <4>2 DEF m
  <2>4. Drop(s, p + 5) \in Seq(Symbols)
    BY <1>1, <2>3, DropIs
  <2> DEFINE t == <<Drop(s, p + 5), k>>
  <2>5. t \in Seq(Symbols) \X Nat /\ t[1] = Drop(s, p + 5) /\ t[2] = k
    BY <1>1, <2>4
  <2> HIDE DEF t
  <2>6. t \in BodyStarts
    BY <1>1, <1>6, <2>1, <2>5 DEF BodyStarts
  <2>7. QED
    BY <2>2, <2>6 DEF t
<1>7. QED
  BY <1>1, <1>2, <1>3, <1>5, <1>6

\* Before a body.
LEMMA BodyStartIs ==
    ASSUME Framable, NEW s, NEW k, <<s, k>> \in BodyStarts
    PROVE  LET body == script[k + 1]
               header == <<LengthText(Len(body))>> \o CRLF \o CRLF
           IN  /\ s \in Seq(Symbols) /\ k \in Nat /\ k < Len(script)
               /\ body \in Seq(Symbols) /\ Len(body) \in Nat \ {0}
               /\ Begins(body, s)
               /\ <<Drop(s, Len(body)), k + 1>> \in FrameStarts
               /\ IsSuffix(header \o s, Stream(script))
<1> DEFINE body == script[k + 1]
           first == <<LengthText(Len(body))>>
           line == first \o CRLF
           header == line \o CRLF
           whole == header \o s
<1>1. s \in Seq(Symbols) /\ k \in Nat
  BY DEF BodyStarts
<1>2. PICK w \in Seq(Symbols), p \in Nat :
         /\ RestAfter(w, k) /\ k < Len(script) /\ Framed(w, p, k + 1)
         /\ RestAfter(Drop(w, p + 5 + Len(body)), k + 1)
         /\ s = Drop(w, p + 5)
  BY DEF BodyStarts
<1>3. body \in Seq(Symbols) /\ Len(body) \in Nat
  <2>1. Len(script) \in Nat
    BY LenProperties DEF Framable
  <2>2. k + 1 \in 1..Len(script)
    BY <1>1, <1>2, <2>1
  <2>3. body \in Seq(Symbols)
    BY <2>2 DEF Framable
  <2> HIDE DEF body
  <2>4. QED
    BY <2>3, LenProperties
<1>4. FrameAt(w, p, body) /\ w[p + 1] = LengthText(Len(body))
  BY <1>2 DEF Framed
<1> HIDE DEF body
<1>5. /\ p + 5 + Len(body) <= Len(w) /\ Len(w) \in Nat
      /\ w[p + 1] \in DOMAIN LengthOf /\ LengthOf[w[p + 1]] = Len(body)
      /\ \A i \in 1..Len(body) : w[p + 5 + i] = body[i]
      /\ BlankAt(w, p + 2)
  BY <1>4, LenProperties DEF FrameAt
<1>6. Len(body) \in Nat \ {0}
  BY <1>5, LengthOfAssumption
<1>7. s \in Seq(Symbols) /\ Len(s) = Len(w) - (p + 5) /\ \A i \in 1..(Len(w) - (p + 5)) : s[i] = w[(p + 5) + i]
  <2>1. p + 5 \in 0..Len(w)
    BY <1>3, <1>5
  <2>2. QED
    BY <1>2, <2>1, DropIs
<1>8. Begins(body, s)
  <2>1. Len(body) <= Len(s) /\ \A i \in 1..Len(body) : i \in 1..(Len(w) - (p + 5))
    BY <1>3, <1>5, <1>7
  <2>2. QED
    BY <1>5, <1>7, <2>1 DEF Begins
<1>9. <<Drop(s, Len(body)), k + 1>> \in FrameStarts
  <2> DEFINE u == Drop(s, Len(body))
             t == <<u, k + 1>>
  <2>1. u = Drop(w, p + 5 + Len(body)) /\ u \in Seq(Symbols)
    <3>1. p + 5 \in 0..Len(w) /\ Len(body) \in 0..(Len(w) - (p + 5)) /\ Len(body) \in 0..Len(s)
      BY <1>3, <1>5, <1>7
    <3>2. u \in Seq(Symbols)
      BY <1>7, <3>1, DropIs
    <3>3. Drop(Drop(w, p + 5), Len(body)) = Drop(w, (p + 5) + Len(body))
      BY <3>1, DropDrop
    <3>4. QED
      BY <1>2, <3>2, <3>3
  <2> HIDE DEF u
  <2>2. t \in Seq(Symbols) \X Nat /\ t[1] = u /\ t[2] = k + 1
    BY <1>1, <2>1
  <2>3. RestAfter(u, k + 1)
    BY <1>2, <2>1 DEF body
  <2> HIDE DEF t
  <2>4. t \in FrameStarts
    BY <2>2, <2>3 DEF FrameStarts
  <2>5. QED
    BY <2>4 DEF t, u
<1>10. IsSuffix(whole, Stream(script))
  <2>1. first \in Seq(Symbols) /\ Len(first) = 1 /\ first[1] = w[p + 1]
    BY <1>4, <1>5 DEF Symbols
  <2> HIDE DEF first
  <2>2. /\ line \in Seq(Symbols) /\ Len(line) = 3
        /\ line[1] = w[p + 1] /\ line[2] = "CR" /\ line[3] = "LF"
    <3>1. /\ line \in Seq(Symbols) /\ Len(line) = Len(first) + Len(CRLF)
          /\ \A i \in 1..Len(first) : line[i] = first[i]
          /\ \A i \in 1..Len(CRLF) : line[Len(first) + i] = CRLF[i]
      <4>1. first \in Seq(Symbols) /\ CRLF \in Seq(Symbols)
        BY <2>1, CrlfIs
      <4>2. QED
        BY <4>1, Joined
    <3> HIDE DEF line
    <3>2. line[1] = w[p + 1]
      BY <2>1, <3>1
    <3>3. line[1 + 1] = "CR" /\ line[1 + 2] = "LF"
      BY <2>1, <3>1, CrlfIs
    <3>4. QED
      BY <2>1, <3>1, <3>2, <3>3, CrlfIs
  <2> HIDE DEF line
  <2>3. /\ header \in Seq(Symbols) /\ Len(header) = 5
        /\ header[1] = w[p + 1] /\ header[2] = "CR" /\ header[3] = "LF"
        /\ header[4] = "CR" /\ header[5] = "LF"
    <3>1. /\ header \in Seq(Symbols) /\ Len(header) = Len(line) + Len(CRLF)
          /\ \A i \in 1..Len(line) : header[i] = line[i]
          /\ \A i \in 1..Len(CRLF) : header[Len(line) + i] = CRLF[i]
      <4>1. line \in Seq(Symbols) /\ CRLF \in Seq(Symbols)
        BY <2>2, CrlfIs
      <4>2. QED
        BY <4>1, Joined
    <3> HIDE DEF header
    <3>2. header[1] = w[p + 1] /\ header[2] = "CR" /\ header[3] = "LF"
      BY <2>2, <3>1
    <3>3. header[3 + 1] = "CR" /\ header[3 + 2] = "LF"
      BY <2>2, <3>1, CrlfIs
    <3>4. QED
      BY <2>2, <3>1, <3>2, <3>3, CrlfIs
  <2> HIDE DEF header
  <2>4. /\ whole \in Seq(Symbols) /\ Len(whole) = 5 + Len(s)
        /\ \A i \in 1..5 : whole[i] = header[i]
        /\ \A i \in 1..Len(s) : whole[5 + i] = s[i]
    <3>1. header \in Seq(Symbols) /\ s \in Seq(Symbols)
      BY <1>1, <2>3
    <3>2. /\ whole \in Seq(Symbols) /\ Len(whole) = Len(header) + Len(s)
          /\ \A i \in 1..Len(header) : whole[i] = header[i]
          /\ \A i \in 1..Len(s) : whole[Len(header) + i] = s[i]
      BY <3>1, Joined
    <3> HIDE DEF whole
    <3>3. QED
      BY <2>3, <3>2
  <2> HIDE DEF whole
  <2> DEFINE x == Drop(w, p)
  <2>5. x \in Seq(Symbols) /\ Len(x) = Len(w) - p /\ \A i \in 1..(Len(w) - p) : x[i] = w[p + i]
    <3>1. p \in 0..Len(w)
      BY <1>3, <1>5
    <3>2. QED
      BY <3>1, DropIs
  <2> HIDE DEF x
  <2>6. Len(whole) = Len(x)
    BY <1>5, <1>7, <2>4, <2>5
  <2>7. ASSUME NEW i \in 1..Len(whole) PROVE whole[i] = x[i]
    <3>1. Len(whole) \in Nat /\ Len(s) \in Nat /\ i \in 1..(Len(w) - p) /\ Len(whole) = 5 + Len(s)
      BY <1>5, <1>7, <2>4, <2>5, <2>6, LenProperties
    <3>2. CASE i \in 1..5
      <4>1. w[p + 2] = "CR" /\ w[p + 3] = "LF" /\ w[p + 4] = "CR" /\ w[p + 5] = "LF"
        <5>1. (p + 2) + 1 = p + 3 /\ (p + 2) + 2 = p + 4 /\ (p + 2) + 3 = p + 5
          OBVIOUS
        <5>2. QED
          BY <1>5, <5>1 DEF BlankAt
      <4>2. whole[i] = header[i] /\ x[i] = w[p + i]
        BY <2>4, <2>5, <3>1, <3>2
      <4>3. i = 1 \/ i = 2 \/ i = 3 \/ i = 4 \/ i = 5
        BY <3>2
      <4>4. header[i] = w[p + i]
        BY <2>3, <4>1, <4>3
      <4>5. QED
        BY <4>2, <4>4
    <3>3. CASE i > 5
      <4>1. i - 5 \in 1..Len(s) /\ 5 + (i - 5) = i /\ (p + 5) + (i - 5) = p + i
            /\ i - 5 \in 1..(Len(w) - (p + 5))
        BY <1>5, <1>7, <3>1, <3>3
      <4>2. whole[5 + (i - 5)] = s[i - 5] /\ s[i - 5] = w[(p + 5) + (i - 5)]
        BY <1>7, <2>4, <4>1
      <4>3. QED
        BY <2>5, <3>1, <4>1, <4>2
    <3>4. QED
      BY <3>1, <3>2, <3>3
  <2>8. whole = x
    BY <2>4, <2>5, <2>6, <2>7, SeqEqual
  <2>9. IsSuffix(x, Stream(script))
    <3>1. p \in 0..Len(w)
      BY <1>3, <1>5
    <3>2. QED
      BY <1>2, <3>1, TailIsSuffix DEF x
  <2>10. QED
    BY <2>8, <2>9
<1>11. QED
  BY <1>1, <1>2, <1>3, <1>6, <1>8, <1>9, <1>10 DEF body, whole, header, line, first

----------------------------------------------------------------------------
(***************************************************************************)
(* The inductive invariant of the reading half.                            *)
(***************************************************************************)
\* The types of the variables.
ReadingType ==
    /\ script \in Scripts \cup {<<>>}
    /\ printed \in Seq(OtherSymbols)
    /\ short \in BOOLEAN
    /\ closed \in BOOLEAN
    /\ refused \in BOOLEAN
    /\ unsent \in Seq(Symbols)
    /\ pipe \in Seq(Symbols)
    /\ loop \in {"line", "body", "ended", "dead"}
    /\ delivered \in Seq(Seq(Symbols))

\* What has not been taken for a message or thrown away, and how many messages
\* there were before it.
Ahead == decoder.buffer \o pipe \o unsent
\* Where the reader is in the stream.
Place == <<Ahead, Len(delivered)>>

\* The decoder is between two frames, and has some lines of a header.
AtHeader ==
    /\ loop = "line"
    /\ decoder.expected = NoLength
    /\ Lines(decoder.buffer)
    /\ Place \in FrameStarts

\* It is in the body of the next message, of which it has a part.
InBody ==
    /\ decoder.expected = Len(script[Len(delivered) + 1])
    /\ Place \in BodyStarts
    /\ loop = "line" => short \/ closed

\* The server has closed the pipe, and all that came was read.
Drained ==
    /\ closed
    /\ pipe = <<>>
    /\ loop = "body" => decoder.expected # NoLength

\* The reader knows its place: what is delivered is the beginning of the script,
\* and while a read is outstanding the decoder waits where a frame or a body of
\* the stream begins, unless the pipe is closed and empty.  A body is left for a
\* header line only when reads are short or the pipe is closed.
ReadingInv ==
    /\ ReadingType
    /\ Begins(delivered, script)
    /\ refused => closed
    /\ loop \in {"line", "body"} => Waits(decoder) /\ (AtHeader \/ InBody \/ Drained)
    /\ DeafForAReason

\* So the stream of a behaviour is made of frames.
LEMMA GivenIsFramable ==
    ASSUME ReadingType
    PROVE  Framable
BY ScriptsAreFramable DEF ReadingType

\* A step that finds no body.
LEMMA NoneComes ==
    ASSUME NEW d, Waits(d), decoder' = [d EXCEPT !.out = <<>>], DispatchBodies(d.out),
           delivered \in Seq(Seq(Symbols)), refused \in BOOLEAN
    PROVE  decoder' = d /\ delivered' = delivered /\ refused' = refused /\ ~Raises(d.out)
<1>1. d \in Decoder /\ d.out = <<>>
  BY DEF Waits
<1>2. decoder' = d
  BY <1>1 DEF Decoder
<1>3. delivered' = delivered /\ refused' = refused
  BY <1>1, NoneDispatched
<1>4. QED
  BY <1>1, <1>2, <1>3 DEF Raises

\* A step that finds one.
LEMMA OneComes ==
    ASSUME NEW rest \in Seq(Symbols), NEW body \in Seq(Symbols), NEW d,
           d = [buffer |-> rest, expected |-> NoLength, out |-> <<body>>, ok |-> TRUE],
           decoder' = [d EXCEPT !.out = <<>>], DispatchBodies(d.out),
           delivered \in Seq(Seq(Symbols)), refused \in BOOLEAN
    PROVE  /\ Waits(decoder') /\ decoder'.buffer = rest /\ decoder'.expected = NoLength
           /\ IF IsJson(body)
              THEN delivered' = Append(delivered, body) /\ refused' = refused
              ELSE delivered' = delivered /\ refused' = TRUE
           /\ Raises(d.out) <=> Len(delivered) + 1 = raising
<1>1. decoder' = [buffer |-> rest, expected |-> NoLength, out |-> <<>>, ok |-> TRUE]
  OBVIOUS
<1>2. Waits(decoder')
  <2> DEFINE c == [buffer |-> rest, expected |-> NoLength, out |-> <<>>, ok |-> TRUE]
  <2>1. c \in Decoder
    BY DEF Decoder, NoLength
  <2>2. c.ok = TRUE /\ c.out = <<>> /\ c.expected = NoLength
    OBVIOUS
  <2> HIDE DEF c
  <2>3. Waits(c)
    BY <2>1, <2>2 DEF Waits
  <2>4. QED
    BY <1>1, <2>3 DEF c
<1>3. d.out = <<body>>
  OBVIOUS
<1>4. DispatchBodies(<<body>>)
  BY <1>3
<1>5. IF IsJson(body)
      THEN delivered' = Append(delivered, body) /\ refused' = refused
      ELSE delivered' = delivered /\ refused' = TRUE
  BY <1>4, OneDispatched
<1>6. Raises(d.out) <=> Len(delivered) + 1 = raising
  BY <1>3 DEF Raises
<1>7. QED
  BY <1>1, <1>2, <1>5, <1>6

\* The next message of the script follows those that were delivered.
LEMMA NextDelivered ==
    ASSUME NEW old \in Seq(Seq(Symbols)), NEW bodies \in Seq(Seq(Symbols)),
           Begins(old, bodies), Len(old) < Len(bodies)
    PROVE  LET new == Append(old, bodies[Len(old) + 1])
           IN  new \in Seq(Seq(Symbols)) /\ Len(new) = Len(old) + 1 /\ Begins(new, bodies)
<1> DEFINE new == Append(old, bodies[Len(old) + 1])
<1>1. Len(old) \in Nat /\ Len(bodies) \in Nat /\ Len(old) + 1 \in 1..Len(bodies)
  BY LenProperties
<1>2. bodies[Len(old) + 1] \in Seq(Symbols)
  BY <1>1
<1>3. /\ new \in Seq(Seq(Symbols)) /\ Len(new) = Len(old) + 1
      /\ \A i \in 1..Len(old) : new[i] = old[i]
      /\ new[Len(old) + 1] = bodies[Len(old) + 1]
  BY <1>2, AppendProperties
<1> HIDE DEF new
<1>4. \A i \in 1..Len(old) : old[i] = bodies[i]
  BY DEF Begins
<1>5. Begins(new, bodies)
  <2>1. ASSUME NEW i \in 1..Len(new) PROVE new[i] = bodies[i]
    <3>1. i \in 1..Len(old) \/ i = Len(old) + 1
      BY <1>1, <1>3
    <3>2. QED
      BY <1>3, <1>4, <3>1
  <2>2. Len(new) <= Len(bodies)
    BY <1>1, <1>3
  <2>3. QED
    BY <2>1, <2>2 DEF Begins
<1>6. QED
  BY <1>3, <1>5 DEF new

\* A plain header is ASCII.
LEMMA PlainIsAscii ==
    ASSUME NEW w \in Seq(Symbols), NEW p, NEW body \in Seq(Symbols),
           FrameAt(w, p, body), Plain(w, p), NEW i \in 1..(p + 5)
    PROVE  w[i] # "u"
<1>1. /\ p \in Nat /\ w[p + 1] \in DOMAIN LengthOf
      /\ w[p + 2] = "CR" /\ w[p + 3] = "LF" /\ w[p + 4] = "CR" /\ w[p + 5] = "LF"
  <2>1. p \in Nat /\ w[p + 1] \in DOMAIN LengthOf /\ BlankAt(w, p + 2)
    BY DEF FrameAt
  <2>2. (p + 2) + 1 = p + 3 /\ (p + 2) + 2 = p + 4 /\ (p + 2) + 3 = p + 5
    BY <2>1
  <2>3. QED
    BY <2>1, <2>2 DEF BlankAt
<1>2. w[p + 1] # "u"
  <2>1. "u" \in OtherSymbols
    BY DEF OtherSymbols
  <2>2. "u" \notin DOMAIN LengthOf
    BY <2>1, LengthsApart
  <2>3. QED
    BY <1>1, <2>2
<1>3. CASE p = 0
  <2>1. i = p + 1 \/ i = p + 2 \/ i = p + 3 \/ i = p + 4 \/ i = p + 5
    BY <1>3
  <2>2. QED
    BY <1>1, <1>2, <2>1
<1>4. CASE p = 3 /\ w[1] = "type" /\ w[2] = "CR" /\ w[3] = "LF"
  <2>1. i = 1 \/ i = 2 \/ i = 3 \/ i = p + 1 \/ i = p + 2 \/ i = p + 3 \/ i = p + 4 \/ i = p + 5
    BY <1>4
  <2>2. QED
    BY <1>1, <1>2, <1>4, <2>1
<1>5. QED
  BY <1>3, <1>4 DEF Plain

----------------------------------------------------------------------------
(***************************************************************************)
(* The server writes or ends; a header line is read between two frames.    *)
(***************************************************************************)
\* The server writes a symbol: what is ahead of the reader stays.
LEMMA WritingKeeps ==
    ASSUME ReadingInv, ServerWrites
    PROVE  ReadingInv'
<1>1. ReadingType /\ Begins(delivered, script) /\ (refused => closed) /\ DeafForAReason
      /\ (loop \in {"line", "body"} => Waits(decoder) /\ (AtHeader \/ InBody \/ Drained))
  BY DEF ReadingInv
<1>2. /\ script' = script /\ printed' = printed /\ raising' = raising /\ short' = short
      /\ closed' = closed /\ decoder' = decoder /\ loop' = loop
      /\ delivered' = delivered /\ refused' = refused
      /\ unsent # <<>> /\ ~closed
      /\ pipe' = Append(pipe, Head(unsent)) /\ unsent' = Tail(unsent)
  BY DEF ServerWrites, givenVars
<1>3. unsent \in Seq(Symbols) /\ pipe \in Seq(Symbols)
  BY <1>1 DEF ReadingType
<1>4. pipe' \in Seq(Symbols) /\ unsent' \in Seq(Symbols)
  BY <1>2, <1>3, OneWritten DEF OneMoved
<1>5. ReadingType'
  BY <1>1, <1>2, <1>4 DEF ReadingType
<1>6. FrameStarts' = FrameStarts /\ BodyStarts' = BodyStarts
  BY <1>2, StartsStay
<1>7. ASSUME loop \in {"line", "body"}
      PROVE  Waits(decoder') /\ (AtHeader \/ InBody \/ Drained)'
  <2>1. decoder.buffer \in Seq(Symbols)
    BY <1>1, <1>7 DEF Waits, Decoder
  <2>2. Place' = Place
    <3>1. (decoder.buffer \o Append(pipe, Head(unsent))) \o Tail(unsent)
             = (decoder.buffer \o pipe) \o unsent
      <4> DEFINE a == decoder.buffer
      <4>1. a \in Seq(Symbols) /\ pipe \in Seq(Symbols) /\ unsent \in Seq(Symbols)
            /\ unsent # <<>>
        BY <1>2, <1>3, <2>1
      <4> HIDE DEF a
      <4>2. (a \o Append(pipe, Head(unsent))) \o Tail(unsent) = (a \o pipe) \o unsent
        <5>1. OneMoved(a, pipe, unsent)
          BY <4>1, OneWritten
        <5>2. QED
          BY <5>1 DEF OneMoved
      <4>3. QED
        BY <4>2 DEF a
    <3>2. QED
      BY <1>2, <3>1 DEF Place, Ahead
  <2>3. Waits(decoder')
    BY <1>1, <1>2, <1>7
  <2>4. CASE AtHeader
    BY <1>2, <1>6, <2>2, <2>3, <2>4 DEF AtHeader
  <2>5. CASE InBody
    BY <1>2, <1>6, <2>2, <2>3, <2>5 DEF InBody
  <2>6. ~Drained
    BY <1>2 DEF Drained
  <2>7. QED
    BY <1>1, <1>7, <2>4, <2>5, <2>6
<1>8. DeafForAReason'
  BY <1>1, <1>2 DEF DeafForAReason
<1>9. Begins(delivered, script)' /\ (refused => closed)'
  BY <1>1, <1>2
<1>10. (loop \in {"line", "body"})' => Waits(decoder)' /\ (AtHeader \/ InBody \/ Drained)'
  BY <1>2, <1>7
<1>11. QED
  BY <1>5, <1>8, <1>9, <1>10 DEF ReadingInv

\* The server ends.
LEMMA EndingKeeps ==
    ASSUME ReadingInv, ServerEnds
    PROVE  ReadingInv'
<1>1. ReadingType /\ Begins(delivered, script)
      /\ (loop \in {"line", "body"} => Waits(decoder) /\ (AtHeader \/ InBody \/ Drained))
  BY DEF ReadingInv
<1>2. /\ script' = script /\ printed' = printed /\ raising' = raising /\ short' = short
      /\ decoder' = decoder /\ loop' = loop /\ pipe' = pipe /\ unsent' = unsent
      /\ delivered' = delivered /\ refused' = refused /\ closed' = TRUE /\ ~closed
  BY DEF ServerEnds, givenVars
<1>3. ReadingType'
  BY <1>1, <1>2 DEF ReadingType
<1>4. FrameStarts' = FrameStarts /\ BodyStarts' = BodyStarts
  BY <1>2, StartsStay
<1>5. Place' = Place
  BY <1>2 DEF Place, Ahead
<1>6. ASSUME loop \in {"line", "body"}
      PROVE  (AtHeader \/ InBody \/ Drained)'
  <2>1. CASE AtHeader
    BY <1>2, <1>4, <1>5, <2>1 DEF AtHeader
  <2>2. CASE InBody
    BY <1>2, <1>4, <1>5, <2>2 DEF InBody
  <2>3. ~Drained
    BY <1>2 DEF Drained
  <2>4. QED
    BY <1>1, <1>6, <2>1, <2>2, <2>3
<1>7. DeafForAReason'
  BY <1>2 DEF DeafForAReason
<1>8. Begins(delivered, script)' /\ (refused => closed)'
  BY <1>1, <1>2
<1>9. (loop \in {"line", "body"})' => Waits(decoder)' /\ (AtHeader \/ InBody \/ Drained)'
  BY <1>1, <1>2, <1>6
<1>10. QED
  BY <1>3, <1>7, <1>8, <1>9 DEF ReadingInv

\* A header line that was read to its end, in front of a frame.
LEMMA HeaderLineKeeps ==
    ASSUME ReadingInv, AtHeader, Find(pipe, CRLF) # 0,
           HeaderLine(SubSeq(pipe, 1, Find(pipe, CRLF) - 1), Drop(pipe, Find(pipe, CRLF) + 1)),
           UNCHANGED <<givenVars, unsent, closed>>
    PROVE  ReadingInv'
<1> DEFINE end == Find(pipe, CRLF)
           n == end + 1
           line == SubSeq(pipe, 1, end - 1)
           chunk == SubSeq(pipe, 1, n)
           s == decoder.buffer \o chunk
           d == Feed(decoder, line \o CRLF)
           k == Len(delivered)
           body == script[k + 1]
<1>1. /\ ReadingType /\ Begins(delivered, script) /\ (refused => closed)
      /\ Waits(decoder) /\ loop = "line" /\ decoder.expected = NoLength
      /\ Lines(decoder.buffer) /\ Place \in FrameStarts
  BY DEF ReadingInv, AtHeader
<1>2. /\ script' = script /\ printed' = printed /\ raising' = raising /\ short' = short
      /\ unsent' = unsent /\ closed' = closed
  BY DEF givenVars
<1>3. /\ pipe \in Seq(Symbols) /\ unsent \in Seq(Symbols) /\ refused \in BOOLEAN
      /\ script \in Seq(Seq(Symbols)) /\ delivered \in Seq(Seq(Symbols)) /\ Framable
  <2>1. Framable
    BY <1>1, GivenIsFramable
  <2>2. QED
    BY <1>1, <2>1 DEF ReadingType, Framable
<1>4. /\ decoder \in Decoder /\ decoder.ok = TRUE /\ decoder.out = <<>>
      /\ decoder.buffer \in Seq(Symbols)
  BY <1>1 DEF Waits, Decoder
<1>5. /\ end \in Nat /\ n \in 0..Len(pipe) /\ line \o CRLF = chunk /\ OneLine(chunk)
  BY <1>3, LineRead
<1>6. pipe' = Drop(pipe, n)
  BY DEF HeaderLine
<1>7. \/ "u" \in ToSet(line) /\ loop' = "dead" /\ UNCHANGED <<delivered, refused>>
      \/ ~d.ok /\ loop' = "dead" /\ UNCHANGED <<delivered, refused>>
      \/ /\ d.ok
         /\ decoder' = [d EXCEPT !.out = <<>>]
         /\ loop' = IF Raises(d.out) THEN "dead"
                    ELSE IF d.expected # NoLength THEN "body" ELSE "line"
         /\ DispatchBodies(d.out)
  BY DEF HeaderLine
<1> HIDE DEF end, n, line, d
<1>8. chunk \in Seq(Symbols) /\ Len(chunk) = n /\ \A i \in 1..n : chunk[i] = pipe[i]
  BY <1>3, <1>5, FirstIs
<1>9. /\ s \in Seq(Symbols) /\ Len(s) = Len(decoder.buffer) + n
      /\ Ahead \in Seq(Symbols) /\ Begins(s, Ahead)
      /\ Drop(pipe, n) \in Seq(Symbols)
      /\ \A j \in 0..Len(s) : (Drop(s, j) \o Drop(pipe, n)) \o unsent = Drop(Ahead, j)
  <2> DEFINE a == decoder.buffer
             t == a \o SubSeq(pipe, 1, n)
             all == (a \o pipe) \o unsent
  <2>1. a \in Seq(Symbols) /\ pipe \in Seq(Symbols) /\ unsent \in Seq(Symbols) /\ n \in 0..Len(pipe)
    BY <1>3, <1>4, <1>5
  <2> HIDE DEF a
  <2>2. Advanced(a, pipe, unsent, n)
    BY <2>1, Advance
  <2>3. /\ t \in Seq(Symbols) /\ Len(t) = Len(a) + n
        /\ all \in Seq(Symbols) /\ Begins(t, all)
        /\ Drop(pipe, n) \in Seq(Symbols)
        /\ \A j \in 0..Len(t) : (Drop(t, j) \o Drop(pipe, n)) \o unsent = Drop(all, j)
    BY <2>2 DEF Advanced
  <2>4. s = t /\ Ahead = all
    BY DEF a, Ahead
  <2> HIDE DEF t, all
  <2>5. QED
    BY <2>3, <2>4 DEF a
<1>10. PICK e \in Decoder : /\ d = Drain(e) /\ e.buffer = s /\ e.expected = NoLength
                            /\ e.ok = TRUE /\ e.out = <<>>
  <2> HIDE DEF chunk
  <2>1. d = Feed(decoder, chunk)
    BY <1>5 DEF d
  <2>2. \E e \in Decoder : /\ Feed(decoder, chunk) = Drain(e)
                           /\ e.buffer = decoder.buffer \o chunk
                           /\ e.expected = decoder.expected
                           /\ e.ok = TRUE /\ e.out = <<>>
    BY <1>4, <1>8, FeedIs
  <2>3. QED
    BY <1>1, <2>1, <2>2
<1>11. (\A i : BlankAt(s, i) => i + 3 = Len(s)) /\ s[Len(s)] = "LF"
  <2> HIDE DEF chunk
  <2>1. QED
    BY <1>1, <1>4, <1>5, <1>8, BlanksAtEnd
<1> HIDE DEF chunk
<1>12. n >= 2 /\ Len(decoder.buffer) \in Nat /\ Len(s) \in Nat /\ n \in Nat
  <2>1. n >= 2 /\ n \in Nat
    BY <1>5, <1>8 DEF OneLine
  <2>2. QED
    BY <1>4, <1>9, <2>1, LenProperties
<1> HIDE DEF s
<1>13. <<Ahead, k>> \in FrameStarts
  BY <1>1 DEF Place
<1> HIDE DEF k
<1>14. k < Len(script)
  <2>1. k \in Nat /\ k <= Len(script) /\ (k = Len(script) => Ahead = <<>>)
    BY <1>3, <1>13, FrameStartIs
  <2>2. Ahead # <<>>
    <3>1. Len(s) <= Len(Ahead) /\ Len(s) > 0
      BY <1>9, <1>12 DEF Begins
    <3>2. QED
      BY <3>1, <1>12
  <2>3. Len(script) \in Nat
    BY <1>3, LenProperties
  <2>4. QED
    BY <2>1, <2>2, <2>3
<1>15. PICK p \in Nat : /\ FrameAt(Ahead, p, body)
                        /\ printed = <<>> \/ k + 1 # Len(script) => Plain(Ahead, p)
                        /\ <<Drop(Ahead, p + 5), k>> \in BodyStarts
  BY <1>3, <1>13, <1>14, FrameStartIs
<1>16. body \in Seq(Symbols) /\ Len(body) \in Nat \ {0} /\ k \in Nat
  BY <1>3, <1>15, BodyStartIs
<1> HIDE DEF body
<1>17. p + 5 <= Len(s) => Len(s) = p + 5
  <2>1. ASSUME p + 5 <= Len(s) PROVE Len(s) = p + 5
    <3>1. BlankAt(s, p + 2)
      BY <1>9, <1>15, <1>16, <2>1, BlanksOfFrame
    <3>2. (p + 2) + 3 = Len(s)
      BY <1>11, <3>1
    <3>3. QED
      BY <1>12, <3>2
  <2>2. QED
    BY <2>1
<1>18. ASSUME UNCHANGED <<delivered, refused>>, loop' \in {"line", "body", "dead"}
       PROVE  ReadingType' /\ Begins(delivered, script)' /\ (refused => closed)'
  BY <1>1, <1>2, <1>6, <1>9, <1>18 DEF ReadingType
<1>19. FrameStarts' = FrameStarts /\ BodyStarts' = BodyStarts
  BY <1>2, StartsStay
<1>20. ASSUME loop' = "dead", UNCHANGED <<delivered, refused>>, ~Plain(Ahead, p)
       PROVE  ReadingInv'
  <2>1. printed # <<>> /\ Len(delivered) + 1 = Len(script)
    BY <1>15, <1>20 DEF k
  <2>2. DeafForAReason'
    BY <1>2, <1>20, <2>1 DEF DeafForAReason
  <2>3. QED
    BY <1>18, <1>20, <2>2 DEF ReadingInv
<1>21. CASE "u" \in ToSet(line) /\ loop' = "dead" /\ UNCHANGED <<delivered, refused>>
  <2>1. PICK j \in 1..n : chunk[j] = "u"
    <3>1. end - 1 \in 0..Len(pipe) /\ end \in Nat
      <4>1. Len(pipe) \in Nat /\ end # 0
        BY <1>3, LenProperties DEF end
      <4>2. QED
        BY <1>5, <4>1 DEF n
    <3>2. line \in Seq(Symbols) /\ Len(line) = end - 1 /\ \A i \in 1..(end - 1) : line[i] = pipe[i]
      BY <1>3, <3>1, FirstIs DEF line
    <3>3. PICK j \in 1..(end - 1) : line[j] = "u"
      BY <1>21, <3>2 DEF ToSet
    <3>4. j \in 1..n
      BY <3>1 DEF n
    <3>5. QED
      BY <1>8, <3>2, <3>3, <3>4
  <2>2. Len(decoder.buffer) + j \in 1..Len(s) /\ s[Len(decoder.buffer) + j] = "u"
    <3>1. s[Len(decoder.buffer) + j] = chunk[j]
      BY <1>4, <1>8, <2>1, Joined DEF s
    <3>2. QED
      BY <1>9, <1>12, <2>1, <3>1
  <2> DEFINE i == Len(decoder.buffer) + j
  <2>3. i \in 1..(p + 5)
    BY <1>12, <1>17, <2>2
  <2>4. Ahead[i] = "u"
    BY <1>9, <2>2 DEF Begins
  <2> HIDE DEF i
  <2>5. ~Plain(Ahead, p)
    BY <1>9, <1>15, <1>16, <2>3, <2>4, PlainIsAscii
  <2>6. QED
    BY <1>20, <1>21, <2>5
<1>22. \/ /\ \A i : ~BlankAt(s, i)
          /\ d = [e EXCEPT !.ok = (\A i : ~BareAt(e.buffer, i))]
          /\ Plain(Ahead, p) => d.ok
       \/ d.ok = FALSE /\ ~Plain(Ahead, p)
       \/ /\ Len(s) = p + 5
          /\ d = [buffer |-> <<>>, expected |-> Len(body), out |-> <<>>, ok |-> TRUE]
  <2>1. Begins(e.buffer, Ahead) /\ \A i : BlankAt(e.buffer, i) => i + 3 = Len(e.buffer)
    BY <1>9, <1>10, <1>11
  <2>2. e.ok = TRUE /\ e.expected = NoLength /\ e.out = <<>> /\ Ahead \in Seq(Symbols)
        /\ body \in Seq(Symbols) /\ FrameAt(Ahead, p, body) /\ e \in Decoder
    BY <1>9, <1>10, <1>15, <1>16
  <2>3. HeaderRead(Ahead, p, body, e)
    BY <2>1, <2>2, HeaderComes
  <2>4. QED
    BY <1>10, <2>3 DEF HeaderRead
<1>23. CASE ~d.ok /\ loop' = "dead" /\ UNCHANGED <<delivered, refused>>
  <2>1. ~Plain(Ahead, p)
    BY <1>22, <1>23
  <2>2. QED
    BY <1>20, <1>23, <2>1
<1>24. CASE /\ d.ok
            /\ decoder' = [d EXCEPT !.out = <<>>]
            /\ loop' = IF Raises(d.out) THEN "dead"
                       ELSE IF d.expected # NoLength THEN "body" ELSE "line"
            /\ DispatchBodies(d.out)
  <2>1. ASSUME Waits(d)
        PROVE  /\ decoder' = d /\ delivered' = delivered /\ refused' = refused
               /\ loop' = IF d.expected # NoLength THEN "body" ELSE "line"
               /\ ReadingType' /\ Begins(delivered, script)' /\ (refused => closed)'
               /\ DeafForAReason'
    <3>1. decoder' = d /\ delivered' = delivered /\ refused' = refused /\ ~Raises(d.out)
      BY <1>3, <1>24, <2>1, NoneComes
    <3>2. loop' = IF d.expected # NoLength THEN "body" ELSE "line"
      BY <1>24, <3>1
    <3>3. loop' \in {"line", "body"}
      BY <3>2
    <3>4. DeafForAReason'
      BY <3>3 DEF DeafForAReason
    <3>5. QED
      BY <1>18, <3>1, <3>2, <3>3, <3>4
  <2>2. CASE /\ \A i : ~BlankAt(s, i)
             /\ d = [e EXCEPT !.ok = (\A i : ~BareAt(e.buffer, i))]
    <3>1. d = e
      <4> DEFINE b == \A i : ~BareAt(e.buffer, i)
      <4>1. b \in BOOLEAN /\ d = [e EXCEPT !.ok = b]
        BY <2>2
      <4> HIDE DEF b
      <4>2. d.ok = b
        BY <1>10, <4>1 DEF Decoder
      <4>3. b = TRUE
        BY <1>24, <4>1, <4>2
      <4>4. QED
        BY <1>10, <4>1, <4>3 DEF Decoder
    <3>2. Waits(d)
      BY <1>10, <3>1 DEF Waits
    <3>3. decoder' = d /\ d.buffer = s /\ d.expected = NoLength /\ loop' = "line" /\ delivered' = delivered
      BY <1>10, <2>1, <3>1, <3>2
    <3>4. Lines(s)
      BY <1>11, <2>2 DEF Lines
    <3>5. Place' = <<Ahead, k>>
      <4>1. 0 \in 0..Len(s)
        BY <1>12
      <4>2. (Drop(s, 0) \o Drop(pipe, n)) \o unsent = Drop(Ahead, 0)
        BY <1>9, <4>1
      <4>3. Drop(s, 0) = s /\ Drop(Ahead, 0) = Ahead
        BY <1>9, DropNone
      <4>4. QED
        BY <1>2, <1>6, <3>3, <4>2, <4>3 DEF Place, Ahead, k
    <3>6. AtHeader'
      BY <1>13, <1>19, <3>3, <3>4, <3>5 DEF AtHeader
    <3>7. QED
      BY <2>1, <3>2, <3>3, <3>6 DEF ReadingInv
  <2>3. CASE /\ Len(s) = p + 5
             /\ d = [buffer |-> <<>>, expected |-> Len(body), out |-> <<>>, ok |-> TRUE]
    <3>1. d \in Decoder
      BY <1>16, <2>3 DEF Decoder
    <3>2. d.ok = TRUE /\ d.out = <<>> /\ d.expected = Len(body) /\ d.buffer = <<>>
      BY <2>3
    <3>3. Len(d.buffer) < d.expected /\ d.expected \in Nat /\ d.expected # NoLength
      BY <1>16, <3>2 DEF NoLength
    <3>4. Waits(d)
      BY <3>1, <3>2, <3>3 DEF Waits
    <3>5. decoder' = d /\ loop' = "body" /\ delivered' = delivered
      BY <2>1, <3>3, <3>4
    <3>6. Place' = <<Drop(Ahead, p + 5), k>>
      <4>1. Len(s) \in 0..Len(s)
        BY <1>12
      <4>2. (Drop(s, Len(s)) \o Drop(pipe, n)) \o unsent = Drop(Ahead, Len(s))
        BY <1>9, <4>1
      <4>3. Drop(s, Len(s)) = <<>>
        BY <1>9, DropNone
      <4>4. (<<>> \o Drop(pipe, n)) \o unsent = Drop(Ahead, p + 5)
        BY <2>3, <4>2, <4>3
      <4>5. QED
        BY <1>2, <1>6, <3>2, <3>5, <4>4 DEF Place, Ahead, k
    <3>7. InBody'
      BY <1>2, <1>15, <1>19, <3>2, <3>5, <3>6 DEF InBody, body, k
    <3>8. QED
      BY <2>1, <3>4, <3>5, <3>7 DEF ReadingInv
  <2>4. QED
    BY <1>22, <1>24, <2>2, <2>3
<1>25. QED
  BY <1>7, <1>21, <1>23, <1>24

----------------------------------------------------------------------------
(***************************************************************************)
(* A part of a body is fed.                                                *)
(***************************************************************************)
\* Feeding the first n symbols of the pipe: s is what the buffer becomes, and e
\* what the decoder works on.
Fed(s, e, n) ==
    /\ s = decoder.buffer \o SubSeq(pipe, 1, n)
    /\ s \in Seq(Symbols) /\ Len(s) = Len(decoder.buffer) + n
    /\ Ahead \in Seq(Symbols) /\ Begins(s, Ahead)
    /\ Drop(pipe, n) \in Seq(Symbols)
    /\ \A j \in 0..Len(s) : (Drop(s, j) \o Drop(pipe, n)) \o unsent = Drop(Ahead, j)
    /\ Feed(decoder, SubSeq(pipe, 1, n)) = Drain(e)
    /\ e \in Decoder /\ e.buffer = s /\ e.expected = decoder.expected
    /\ e.ok = TRUE /\ e.out = <<>>

\* Any part of the pipe can be fed.
LEMMA ChunkIsFed ==
    ASSUME Waits(decoder), pipe \in Seq(Symbols), unsent \in Seq(Symbols), NEW n \in 0..Len(pipe)
    PROVE  \E s, e : Fed(s, e, n)
<1> DEFINE a == decoder.buffer
           chunk == SubSeq(pipe, 1, n)
           s == a \o chunk
           all == (a \o pipe) \o unsent
<1>1. decoder \in Decoder /\ decoder.ok = TRUE /\ decoder.out = <<>> /\ a \in Seq(Symbols)
  BY DEF Waits, Decoder
<1>2. chunk \in Seq(Symbols)
  BY FirstIs
<1>3. Advanced(a, pipe, unsent, n)
  <2> HIDE DEF a
  <2>1. QED
    BY <1>1, Advance
<1>4. Ahead = all
  BY DEF Ahead
<1>5. /\ s \in Seq(Symbols) /\ Len(s) = Len(a) + n
      /\ all \in Seq(Symbols) /\ Begins(s, all)
      /\ Drop(pipe, n) \in Seq(Symbols)
      /\ \A j \in 0..Len(s) : (Drop(s, j) \o Drop(pipe, n)) \o unsent = Drop(all, j)
  BY <1>3 DEF Advanced
<1> HIDE DEF chunk, all
<1>6. PICK e \in Decoder : /\ Feed(decoder, chunk) = Drain(e)
                           /\ e.buffer = decoder.buffer \o chunk /\ e.expected = decoder.expected
                           /\ e.ok = TRUE /\ e.out = <<>>
  BY <1>1, <1>2, FeedIs
<1>7. s = decoder.buffer \o SubSeq(pipe, 1, n) /\ e.buffer = s
  BY <1>6 DEF chunk
<1> HIDE DEF s
<1>8. Fed(s, e, n)
  BY <1>4, <1>5, <1>6, <1>7 DEF Fed, a, chunk
<1>9. QED
  BY <1>8

\* What feed makes of a part of a body.
LEMMA BodyFed ==
    ASSUME Framable, Waits(decoder), InBody, NEW n \in Nat, NEW s, NEW e, Fed(s, e, n)
    PROVE  LET body == script[Len(delivered) + 1]
               rest == Drop(s, Len(body))
           IN  /\ body \in Seq(Symbols) /\ Len(body) \in Nat \ {0} /\ Len(s) \in Nat
               /\ Len(s) < Len(body) => Waits(e) /\ Drain(e) = e /\ e.expected = Len(body)
               /\ Len(body) <= Len(s) /\ (\A i : ~BlankAt(rest, i)) =>
                     /\ rest \in Seq(Symbols)
                     /\ Drain(e) = [buffer |-> rest, expected |-> NoLength, out |-> <<body>>,
                                    ok |-> \A i : ~BareAt(rest, i)]
<1> DEFINE k == Len(delivered)
           body == script[k + 1]
           rest == Drop(s, Len(body))
<1>1. /\ s \in Seq(Symbols) /\ Begins(s, Ahead)
      /\ e \in Decoder /\ e.buffer = s /\ e.expected = decoder.expected
      /\ e.ok = TRUE /\ e.out = <<>>
  BY DEF Fed
<1>2. decoder.expected = Len(body) /\ <<Ahead, k>> \in BodyStarts
  BY DEF InBody, Place
<1> HIDE DEF k
<1>3. body \in Seq(Symbols) /\ Len(body) \in Nat \ {0} /\ Begins(body, Ahead)
  BY <1>2, BodyStartIs
<1> HIDE DEF body
<1>4. Len(s) \in Nat
  BY <1>1, LenProperties
<1>5. ASSUME Len(s) < Len(body)
      PROVE  Waits(e) /\ Drain(e) = e /\ e.expected = Len(body)
  <2>1. e.expected \in Nat /\ Len(e.buffer) < e.expected /\ e.expected = Len(body)
    BY <1>1, <1>2, <1>3, <1>5
  <2>2. Waits(e)
    BY <1>1, <2>1 DEF Waits
  <2>3. Drain(e) = e
    BY <1>1, <2>1, BodyWaits
  <2>4. QED
    BY <2>1, <2>2, <2>3
<1>6. ASSUME Len(body) <= Len(s), \A i : ~BlankAt(rest, i)
      PROVE  /\ rest \in Seq(Symbols)
             /\ Drain(e) = [buffer |-> rest, expected |-> NoLength, out |-> <<body>>,
                            ok |-> \A i : ~BareAt(rest, i)]
  <2> DEFINE part == SubSeq(s, 1, Len(body))
  <2>1. Len(body) \in 0..Len(s)
    BY <1>3, <1>4, <1>6
  <2>2. part \in Seq(Symbols) /\ Len(part) = Len(body) /\ \A i \in 1..Len(body) : part[i] = s[i]
    BY <1>1, <2>1, FirstIs
  <2>3. part = body
    <3> HIDE DEF part
    <3>1. \A i \in 1..Len(body) : i \in 1..Len(s)
      BY <2>1
    <3>2. \A i \in 1..Len(part) : part[i] = body[i]
      BY <1>1, <1>3, <2>2, <3>1 DEF Begins
    <3>3. QED
      BY <1>3, <2>2, <3>2, SeqEqual
  <2>4. rest \in Seq(Symbols)
    BY <1>1, <2>1, DropIs
  <2>5. e.expected \in Nat \ {0} /\ e.expected <= Len(e.buffer) /\ e.expected = Len(body)
        /\ Drop(e.buffer, e.expected) = rest /\ SubSeq(e.buffer, 1, e.expected) = part
    BY <1>1, <1>2, <1>3, <1>6
  <2> HIDE DEF rest, part
  <2>6. \A i : ~BlankAt(Drop(e.buffer, e.expected), i)
    BY <1>6, <2>5
  <2>7. Drain(e) = [buffer |-> Drop(e.buffer, e.expected), expected |-> NoLength,
                    out |-> <<SubSeq(e.buffer, 1, e.expected)>>,
                    ok |-> \A i : ~BareAt(Drop(e.buffer, e.expected), i)]
    BY <1>1, <2>5, <2>6, BodyComes
  <2>8. QED
    BY <2>3, <2>4, <2>5, <2>7
<1>7. QED
  BY <1>3, <1>4, <1>5, <1>6 DEF body, k

\* The body goes on.
LEMMA BodyGoesOn ==
    ASSUME ReadingInv, Waits(decoder), InBody, NEW n \in Nat, NEW s, NEW e, Fed(s, e, n),
           Len(s) < Len(script[Len(delivered) + 1]),
           decoder' = [Drain(e) EXCEPT !.out = <<>>], DispatchBodies(Drain(e).out),
           pipe' = Drop(pipe, n), loop' \in {"line", "body"}, loop' = "line" => short \/ closed,
           UNCHANGED <<givenVars, unsent, closed>>
    PROVE  ReadingInv'
<1>1. ReadingType /\ Begins(delivered, script) /\ (refused => closed)
  BY DEF ReadingInv
<1>2. Framable /\ delivered \in Seq(Seq(Symbols)) /\ refused \in BOOLEAN
  BY <1>1, GivenIsFramable DEF ReadingType
<1>3. /\ script' = script /\ printed' = printed /\ raising' = raising /\ short' = short
      /\ unsent' = unsent /\ closed' = closed
  BY DEF givenVars
<1>4. Waits(e) /\ Drain(e) = e /\ e.expected = Len(script[Len(delivered) + 1])
  BY <1>2, BodyFed
<1>5. decoder' = e /\ delivered' = delivered /\ refused' = refused
  BY <1>2, <1>4, NoneComes
<1>6. /\ s \in Seq(Symbols) /\ Ahead \in Seq(Symbols) /\ e.buffer = s /\ Drop(pipe, n) \in Seq(Symbols)
      /\ \A j \in 0..Len(s) : (Drop(s, j) \o Drop(pipe, n)) \o unsent = Drop(Ahead, j)
  BY DEF Fed
<1>7. Place' = Place
  <2>1. 0 \in 0..Len(s)
    BY <1>6, LenProperties
  <2>2. (Drop(s, 0) \o Drop(pipe, n)) \o unsent = Drop(Ahead, 0)
    BY <1>6, <2>1
  <2>3. Drop(s, 0) = s /\ Drop(Ahead, 0) = Ahead
    BY <1>6, DropNone
  <2>4. QED
    BY <1>3, <1>5, <1>6, <2>2, <2>3 DEF Place, Ahead
<1>8. BodyStarts' = BodyStarts
  BY <1>3, StartsStay
<1>9. InBody'
  BY <1>3, <1>4, <1>5, <1>7, <1>8 DEF InBody
<1>10. ReadingType' /\ Begins(delivered, script)' /\ (refused => closed)'
  BY <1>1, <1>3, <1>5, <1>6 DEF ReadingType
<1>11. DeafForAReason'
  BY DEF DeafForAReason
<1>12. QED
  BY <1>4, <1>5, <1>9, <1>10, <1>11 DEF ReadingInv

\* The body is complete.
LEMMA BodyIsComplete ==
    ASSUME ReadingInv, Waits(decoder), InBody, NEW n \in Nat, NEW s, NEW e, Fed(s, e, n),
           Len(script[Len(delivered) + 1]) <= Len(s),
           Lines(Drop(s, Len(script[Len(delivered) + 1]))),
           Drain(e).ok,
           decoder' = [Drain(e) EXCEPT !.out = <<>>], DispatchBodies(Drain(e).out),
           pipe' = Drop(pipe, n), loop' = IF Raises(Drain(e).out) THEN "dead" ELSE "line",
           UNCHANGED <<givenVars, unsent, closed>>
    PROVE  ReadingInv'
<1> DEFINE k == Len(delivered)
           body == script[k + 1]
           rest == Drop(s, Len(body))
<1>1. ReadingType /\ Begins(delivered, script) /\ (refused => closed)
  BY DEF ReadingInv
<1>2. /\ Framable /\ delivered \in Seq(Seq(Symbols)) /\ refused \in BOOLEAN
      /\ script \in Seq(Seq(Symbols))
  BY <1>1, GivenIsFramable DEF ReadingType, Framable
<1>3. /\ script' = script /\ printed' = printed /\ raising' = raising /\ short' = short
      /\ unsent' = unsent /\ closed' = closed
  BY DEF givenVars
<1>4. Lines(rest)
  OBVIOUS
<1>5. Len(body) <= Len(s) /\ \A i : ~BlankAt(rest, i)
  BY <1>4 DEF Lines
<1>6. /\ body \in Seq(Symbols) /\ Len(body) \in Nat \ {0} /\ Len(s) \in Nat
      /\ rest \in Seq(Symbols)
      /\ Drain(e) = [buffer |-> rest, expected |-> NoLength, out |-> <<body>>,
                     ok |-> \A i : ~BareAt(rest, i)]
  BY <1>2, <1>5, BodyFed
<1>7. Drain(e) = [buffer |-> rest, expected |-> NoLength, out |-> <<body>>, ok |-> TRUE]
  <2> DEFINE b == \A i : ~BareAt(rest, i)
  <2>1. b \in BOOLEAN /\ Drain(e) = [buffer |-> rest, expected |-> NoLength, out |-> <<body>>, ok |-> b]
    BY <1>6
  <2> HIDE DEF b, rest, body
  <2>2. b = TRUE
    BY <2>1
  <2>3. QED
    BY <2>1, <2>2
<1>8. k \in Nat /\ k < Len(script) /\ <<Drop(Ahead, Len(body)), k + 1>> \in FrameStarts
  <2>1. <<Ahead, k>> \in BodyStarts
    BY DEF InBody, Place
  <2> HIDE DEF k
  <2>2. QED
    BY <1>2, <2>1, BodyStartIs
<1>9. IsJson(body)
  <2>1. k + 1 \in 1..Len(script)
    <3>1. Len(script) \in Nat
      BY <1>2, LenProperties
    <3>2. QED
      BY <1>8, <3>1
  <2>2. QED
    BY <1>2, <2>1 DEF IsJson, ToSet
<1> HIDE DEF body, rest
<1>10. /\ Waits(decoder') /\ decoder'.buffer = rest /\ decoder'.expected = NoLength
       /\ delivered' = Append(delivered, body) /\ refused' = refused
       /\ (Raises(Drain(e).out) <=> k + 1 = raising)
  <2> DEFINE d == Drain(e)
  <2>1. /\ d = [buffer |-> rest, expected |-> NoLength, out |-> <<body>>, ok |-> TRUE]
        /\ decoder' = [d EXCEPT !.out = <<>>] /\ DispatchBodies(d.out)
    BY <1>7
  <2> HIDE DEF d
  <2>2. /\ Waits(decoder') /\ decoder'.buffer = rest /\ decoder'.expected = NoLength
        /\ IF IsJson(body)
           THEN delivered' = Append(delivered, body) /\ refused' = refused
           ELSE delivered' = delivered /\ refused' = TRUE
        /\ Raises(d.out) <=> Len(delivered) + 1 = raising
    BY <1>2, <1>6, <2>1, OneComes
  <2>3. QED
    BY <1>9, <2>2 DEF d
<1>11. delivered' \in Seq(Seq(Symbols)) /\ Len(delivered') = k + 1 /\ Begins(delivered', script)
  <2>1. delivered' = Append(delivered, script[Len(delivered) + 1])
    BY <1>10 DEF body
  <2>2. Len(delivered) < Len(script)
    BY <1>8
  <2>3. QED
    BY <1>1, <1>2, <2>1, <2>2, NextDelivered
<1>12. /\ Ahead \in Seq(Symbols) /\ Drop(pipe, n) \in Seq(Symbols)
       /\ \A j \in 0..Len(s) : (Drop(s, j) \o Drop(pipe, n)) \o unsent = Drop(Ahead, j)
  BY DEF Fed
<1>13. Place' = <<Drop(Ahead, Len(body)), k + 1>>
  <2>1. Len(body) \in 0..Len(s)
    BY <1>5, <1>6
  <2>2. (rest \o Drop(pipe, n)) \o unsent = Drop(Ahead, Len(body))
    BY <1>12, <2>1 DEF rest
  <2>3. QED
    BY <1>3, <1>10, <1>11, <2>2 DEF Place, Ahead
<1>14. FrameStarts' = FrameStarts
  BY <1>3, StartsStay
<1>15. loop' \in {"line", "dead"}
  OBVIOUS
<1>16. ReadingType' /\ Begins(delivered, script)' /\ (refused => closed)'
  BY <1>1, <1>3, <1>10, <1>11, <1>12, <1>15 DEF ReadingType
<1>17. CASE Raises(Drain(e).out)
  <2>1. loop' = "dead" /\ raising' = Len(delivered') /\ raising' # 0
    BY <1>3, <1>8, <1>10, <1>11, <1>17
  <2>2. DeafForAReason'
    BY <2>1 DEF DeafForAReason
  <2>3. QED
    BY <1>16, <2>1, <2>2 DEF ReadingInv
<1>18. CASE ~Raises(Drain(e).out)
  <2>1. loop' = "line"
    BY <1>18
  <2>2. AtHeader'
    BY <1>4, <1>8, <1>10, <1>13, <1>14, <2>1 DEF AtHeader
  <2>3. DeafForAReason'
    BY <2>1 DEF DeafForAReason
  <2>4. QED
    BY <1>10, <1>16, <2>1, <2>2, <2>3 DEF ReadingInv
<1>19. QED
  BY <1>17, <1>18

----------------------------------------------------------------------------
(***************************************************************************)
(* A header line is read where a body should be.                           *)
(***************************************************************************)
\* A header line read in a body: what follows a short read of the body.
LEMMA LineInBodyKeeps ==
    ASSUME ReadingInv, InBody, loop = "line", Find(pipe, CRLF) # 0,
           HeaderLine(SubSeq(pipe, 1, Find(pipe, CRLF) - 1), Drop(pipe, Find(pipe, CRLF) + 1)),
           UNCHANGED <<givenVars, unsent, closed>>
    PROVE  ReadingInv'
<1> DEFINE end == Find(pipe, CRLF)
           n == end + 1
           line == SubSeq(pipe, 1, end - 1)
           chunk == SubSeq(pipe, 1, n)
           d == Feed(decoder, line \o CRLF)
           body == script[Len(delivered) + 1]
<1>1. /\ ReadingType /\ Begins(delivered, script) /\ (refused => closed) /\ Waits(decoder)
      /\ decoder.expected = Len(body) /\ (short \/ closed)
  BY DEF ReadingInv, InBody
<1>2. /\ script' = script /\ printed' = printed /\ raising' = raising /\ short' = short
      /\ unsent' = unsent /\ closed' = closed
  BY DEF givenVars
<1>3. Framable /\ pipe \in Seq(Symbols) /\ unsent \in Seq(Symbols)
  BY <1>1, GivenIsFramable DEF ReadingType
<1>4. end \in Nat /\ n \in 0..Len(pipe) /\ line \o CRLF = chunk /\ OneLine(chunk)
  BY <1>3, LineRead
<1>5. pipe' = Drop(pipe, n)
  BY DEF HeaderLine
<1>6. \/ "u" \in ToSet(line) /\ loop' = "dead" /\ UNCHANGED <<delivered, refused>>
      \/ ~d.ok /\ loop' = "dead" /\ UNCHANGED <<delivered, refused>>
      \/ /\ d.ok
         /\ decoder' = [d EXCEPT !.out = <<>>]
         /\ loop' = IF Raises(d.out) THEN "dead"
                    ELSE IF d.expected # NoLength THEN "body" ELSE "line"
         /\ DispatchBodies(d.out)
  BY DEF HeaderLine
<1>7. d = Feed(decoder, chunk)
  BY <1>4
<1> HIDE DEF end, n, line, d
<1>8. chunk \in Seq(Symbols) /\ Drop(pipe, n) \in Seq(Symbols) /\ n \in Nat
  BY <1>3, <1>4, FirstIs, DropIs
<1>9. CASE loop' = "dead" /\ UNCHANGED <<delivered, refused>>
  <2>1. ReadingType' /\ Begins(delivered, script)' /\ (refused => closed)'
    BY <1>1, <1>2, <1>5, <1>8, <1>9 DEF ReadingType
  <2>2. DeafForAReason'
    BY <1>1, <1>2 DEF DeafForAReason
  <2>3. QED
    BY <1>9, <2>1, <2>2 DEF ReadingInv
<1>10. CASE /\ d.ok
            /\ decoder' = [d EXCEPT !.out = <<>>]
            /\ loop' = IF Raises(d.out) THEN "dead"
                       ELSE IF d.expected # NoLength THEN "body" ELSE "line"
            /\ DispatchBodies(d.out)
  <2>1. PICK s, e : Fed(s, e, n)
    BY <1>1, <1>3, <1>4, ChunkIsFed
  <2>2. d = Drain(e)
    BY <1>7, <2>1 DEF Fed
  <2>3. body \in Seq(Symbols) /\ Len(body) \in Nat \ {0} /\ Len(s) \in Nat
    BY <1>1, <1>3, <1>8, <2>1, BodyFed
  <2>4. CASE Len(s) < Len(body)
    <3>1. Waits(e) /\ Drain(e) = e /\ e.expected = Len(body)
      BY <1>1, <1>3, <1>8, <2>1, <2>4, BodyFed
    <3>2. e.out = <<>> /\ e.expected # NoLength
      BY <2>3, <3>1 DEF Waits, NoLength
    <3>3. ~Raises(d.out)
      BY <2>2, <3>1, <3>2 DEF Raises
    <3>4. loop' = "body"
      BY <1>10, <2>2, <3>1, <3>2, <3>3
    <3>5. /\ decoder' = [Drain(e) EXCEPT !.out = <<>>] /\ DispatchBodies(Drain(e).out)
      BY <1>10, <2>2
    <3>6. QED
      BY <1>1, <1>5, <1>8, <2>1, <2>4, <3>4, <3>5, BodyGoesOn
  <2>5. CASE Len(body) <= Len(s)
    <3> DEFINE rest == Drop(s, Len(body))
    <3>1. Lines(rest)
      <4> DEFINE a == decoder.buffer
      <4>1. a \in Seq(Symbols) /\ Len(a) < Len(body)
        BY <1>1, <2>3 DEF Waits, Decoder, NoLength
      <4>2. s = a \o chunk
        BY <2>1 DEF Fed
      <4> HIDE DEF a, chunk, body
      <4>3. Len(body) \in Nat /\ Len(body) <= Len(a \o chunk)
        BY <2>3, <2>5, <4>2
      <4>4. Lines(Drop(a \o chunk, Len(body)))
        BY <1>4, <1>8, <4>1, <4>3, RestOfLine
      <4>5. QED
        BY <4>2, <4>4
    <3>2. \A i : ~BlankAt(rest, i)
      BY <3>1 DEF Lines
    <3>3. Drain(e) = [buffer |-> rest, expected |-> NoLength, out |-> <<body>>,
                      ok |-> \A i : ~BareAt(rest, i)]
      BY <1>1, <1>3, <1>8, <2>1, <2>5, <3>2, BodyFed
    <3>4. Drain(e).expected = NoLength
      BY <3>3
    <3>5. /\ decoder' = [Drain(e) EXCEPT !.out = <<>>] /\ DispatchBodies(Drain(e).out)
          /\ Drain(e).ok /\ loop' = IF Raises(Drain(e).out) THEN "dead" ELSE "line"
      <4> DEFINE f == Drain(e)
      <4>1. f.expected = NoLength /\ d = f
        BY <2>2, <3>4
      <4> HIDE DEF f
      <4>2. QED
        BY <1>10, <4>1 DEF f
    <3> HIDE DEF rest
    <3>6. Lines(Drop(s, Len(script[Len(delivered) + 1])))
      BY <3>1 DEF rest
    <3>7. QED
      BY <1>1, <1>5, <1>8, <2>1, <2>5, <3>5, <3>6, BodyIsComplete
  <2>6. QED
    BY <2>3, <2>4, <2>5
<1>11. QED
  BY <1>6, <1>9, <1>10

\* A body that was cut off is not taken for another one.
LEMMA CutOffIsNoMessage ==
    ASSUME script \in Scripts, script \in Seq(Seq(Symbols)),
           NEW k \in 1..Len(script), NEW part, IsJson(part), Len(part) = Len(script[k]),
           NEW m \in 0..(Len(script[k]) - 1), NEW end \in 1..2, part = CutOff(script[k], m, end)
    PROVE  part = script[k]
<1>1. script[k] \in ToSet(script)
  BY DEF ToSet
<1>2. part \in ToSet(script)
  BY DEF IsJson
<1>3. QED
  BY <1>1, <1>2, JsonAssumption

\* In a pipe that is closed, the end of a body may be taken from the line end
\* that was put behind the last bytes.
LEMMA PartOfBody ==
    ASSUME script \in Scripts, script \in Seq(Seq(Symbols)),
           NEW a \in Seq(Symbols), pipe \in Seq(Symbols), unsent \in Seq(Symbols),
           NEW k \in 1..Len(script), script[k] \in Seq(Symbols), Len(script[k]) \in Nat \ {0},
           Begins(script[k], (a \o pipe) \o unsent),
           Len(script[k]) <= Len(a \o (pipe \o CRLF)),
           IsJson(SubSeq(a \o (pipe \o CRLF), 1, Len(script[k])))
    PROVE  SubSeq(a \o (pipe \o CRLF), 1, Len(script[k])) = script[k]
<1> DEFINE body == script[k]
           t == pipe \o CRLF
           s == a \o t
           u == a \o pipe
           all == u \o unsent
           L == Len(body)
           m == Len(a) + Len(pipe)
           part == SubSeq(s, 1, L)
<1>1. /\ t \in Seq(Symbols) /\ Len(t) = Len(pipe) + Len(CRLF)
      /\ \A i \in 1..Len(pipe) : t[i] = pipe[i]
      /\ \A i \in 1..Len(CRLF) : t[Len(pipe) + i] = CRLF[i]
  <2>1. pipe \in Seq(Symbols) /\ CRLF \in Seq(Symbols)
    BY CrlfIs
  <2>2. QED
    BY <2>1, Joined
<1>2. /\ u \in Seq(Symbols) /\ Len(u) = Len(a) + Len(pipe)
      /\ \A i \in 1..Len(a) : u[i] = a[i]
      /\ \A i \in 1..Len(pipe) : u[Len(a) + i] = pipe[i]
  BY Joined
<1> HIDE DEF t, u
<1>3. /\ s \in Seq(Symbols) /\ Len(s) = Len(a) + Len(t)
      /\ \A i \in 1..Len(a) : s[i] = a[i]
      /\ \A i \in 1..Len(t) : s[Len(a) + i] = t[i]
  <2>1. a \in Seq(Symbols) /\ t \in Seq(Symbols)
    BY <1>1
  <2>2. QED
    BY <2>1, Joined
<1>4. /\ all \in Seq(Symbols)
      /\ \A i \in 1..Len(u) : all[i] = u[i]
  BY <1>2, Joined
<1>5. Begins(body, all) /\ L <= Len(s) /\ IsJson(part) /\ body \in Seq(Symbols) /\ L \in Nat \ {0}
  BY DEF t, u
<1> HIDE DEF s, all, body
<1>6. Len(a) \in Nat /\ Len(pipe) \in Nat /\ m \in Nat
  BY LenProperties
<1>7. L \in 0..Len(s)
  BY <1>1, <1>3, <1>5, <1>6, CrlfIs
<1> HIDE DEF L
<1>8. part \in Seq(Symbols) /\ Len(part) = L /\ \A i \in 1..L : part[i] = s[i]
  BY <1>3, <1>7, FirstIs
<1> HIDE DEF part
<1>9. Len(s) = m + 2
  BY <1>1, <1>3, <1>6, CrlfIs
<1>10. ASSUME NEW i \in 1..m PROVE s[i] = all[i]
  <2>1. CASE i <= Len(a)
    BY <1>2, <1>3, <1>4, <1>6, <2>1, SMTT(30)
  <2>2. CASE i > Len(a)
    <3>1. i - Len(a) \in 1..Len(pipe) /\ i - Len(a) \in 1..Len(t) /\ Len(a) + (i - Len(a)) = i
          /\ i \in 1..Len(u)
      BY <1>1, <1>2, <1>6, <2>2, CrlfIs, SMTT(30)
    <3>2. s[i] = t[i - Len(a)] /\ u[i] = pipe[i - Len(a)] /\ t[i - Len(a)] = pipe[i - Len(a)]
      BY <1>1, <1>2, <1>3, <3>1
    <3>3. QED
      BY <1>4, <3>1, <3>2
  <2>3. QED
    BY <1>6, <2>1, <2>2
<1>11. \A i \in 1..L : all[i] = body[i]
  BY <1>5 DEF Begins, L
<1>12. CASE L <= m
  <2>1. \A i \in 1..L : i \in 1..m
    BY <1>5, <1>6, <1>12 DEF L
  <2>2. Len(part) = Len(body) /\ \A i \in 1..Len(part) : part[i] = body[i]
    BY <1>8, <1>10, <1>11, <2>1 DEF L
  <2>3. part = body
    BY <1>5, <1>8, <2>2, SeqEqual
  <2>4. QED
    BY <2>3 DEF part, s, t, L, body
<1>13. CASE L > m
  <2> DEFINE x == L - m
             front == SubSeq(body, 1, m)
             back == SubSeq(CRLF, 1, x)
             cut == front \o back
  <2>1. x \in 1..2 /\ m \in 0..(L - 1) /\ x \in 0..Len(CRLF) /\ m \in 0..Len(body)
    BY <1>5, <1>6, <1>7, <1>9, <1>13, CrlfIs, SMTT(30) DEF L
  <2>2. front \in Seq(Symbols) /\ Len(front) = m /\ \A i \in 1..m : front[i] = body[i]
    BY <1>5, <2>1, FirstIs
  <2>3. back \in Seq(Symbols) /\ Len(back) = x /\ \A i \in 1..x : back[i] = CRLF[i]
    BY <2>1, CrlfIs, FirstIs
  <2> HIDE DEF front, back, m
  <2>4. /\ cut \in Seq(Symbols) /\ Len(cut) = Len(front) + Len(back)
        /\ \A i \in 1..Len(front) : cut[i] = front[i]
        /\ \A i \in 1..Len(back) : cut[Len(front) + i] = back[i]
    <3>1. front \in Seq(Symbols) /\ back \in Seq(Symbols)
      BY <2>2, <2>3
    <3>2. QED
      BY <3>1, Joined
  <2> HIDE DEF cut
  <2>5. Len(cut) = Len(part)
    BY <1>6, <1>7, <1>8, <2>1, <2>2, <2>3, <2>4
  <2>6. ASSUME NEW i \in 1..Len(part) PROVE part[i] = cut[i]
    <3>1. i \in 1..L
      BY <1>8
    <3>2. CASE i <= m
      <4>1. i \in 1..m
        BY <1>6, <3>1, <3>2
      <4>2. part[i] = all[i] /\ all[i] = body[i]
        BY <1>8, <1>10, <1>11, <3>1, <4>1
      <4>3. cut[i] = front[i] /\ front[i] = body[i]
        BY <2>2, <2>4, <4>1
      <4>4. QED
        BY <4>2, <4>3
    <3>3. CASE i > m
      <4>1. i - m \in 1..x /\ m + (i - m) = i /\ i - m \in 1..Len(CRLF)
        BY <1>6, <1>7, <2>1, <3>1, <3>3
      <4>2. cut[i] = CRLF[i - m]
        BY <2>2, <2>3, <2>4, <4>1
      <4>3. Len(pipe) + (i - m) \in 1..Len(t) /\ Len(a) + (Len(pipe) + (i - m)) = i
        BY <1>1, <1>6, <4>1 DEF m
      <4>4. s[i] = CRLF[i - m]
        BY <1>1, <1>3, <4>1, <4>3
      <4>5. QED
        BY <1>8, <3>1, <4>2, <4>4
    <3>4. QED
      BY <1>6, <3>1, <3>2, <3>3
  <2>7. part = cut
    BY <1>8, <2>4, <2>5, <2>6, SeqEqual
  <2>8. part = CutOff(body, m, x)
    BY <2>7 DEF cut, front, back, CutOff
  <2> HIDE DEF x
  <2>9. /\ IsJson(part) /\ Len(part) = Len(script[k]) /\ m \in 0..(Len(script[k]) - 1)
        /\ x \in 1..2 /\ part = CutOff(script[k], m, x)
    BY <1>5, <1>8, <2>1, <2>8 DEF L, body
  <2>10. part = script[k]
    BY <2>9, CutOffIsNoMessage
  <2>11. QED
    BY <2>10 DEF part, s, t, L, body
<1>14. QED
  <2>1. L \in Int /\ m \in Int
    BY <1>6, <1>7
  <2> HIDE DEF m
  <2>2. L <= m \/ L > m
    BY <2>1
  <2>3. QED
    BY <1>12, <1>13, <2>2

\* The last bytes of a closed pipe, taken for a line: nothing comes after them.
LEMMA LastLineKeeps ==
    ASSUME ReadingInv, loop = "line", Find(pipe, CRLF) = 0, closed, pipe # <<>>,
           HeaderLine(pipe, <<>>),
           UNCHANGED <<givenVars, unsent, closed>>
    PROVE  ReadingInv'
<1> DEFINE chunk == pipe \o CRLF
           d == Feed(decoder, chunk)
           a == decoder.buffer
           s == a \o chunk
           k == Len(delivered)
           body == script[k + 1]
<1>1. /\ ReadingType /\ Begins(delivered, script) /\ (refused => closed) /\ Waits(decoder)
      /\ AtHeader \/ InBody
  BY DEF ReadingInv, Drained
<1>2. /\ script' = script /\ printed' = printed /\ raising' = raising /\ short' = short
      /\ unsent' = unsent /\ closed' = closed
  BY DEF givenVars
<1>3. /\ Framable /\ pipe \in Seq(Symbols) /\ unsent \in Seq(Symbols)
      /\ delivered \in Seq(Seq(Symbols)) /\ refused \in BOOLEAN
      /\ script \in Seq(Seq(Symbols)) /\ script \in Scripts \cup {<<>>}
  BY <1>1, GivenIsFramable DEF ReadingType, Framable
<1>4. chunk \in Seq(Symbols) /\ OneLine(chunk)
  BY <1>3, LastLine
<1>5. pipe' = <<>>
  BY DEF HeaderLine
<1>6. \/ loop' = "dead" /\ UNCHANGED <<delivered, refused>>
      \/ /\ d.ok
         /\ decoder' = [d EXCEPT !.out = <<>>]
         /\ loop' = IF Raises(d.out) THEN "dead"
                    ELSE IF d.expected # NoLength THEN "body" ELSE "line"
         /\ DispatchBodies(d.out)
  BY DEF HeaderLine
<1>7. ASSUME /\ delivered' \in Seq(Seq(Symbols)) /\ Begins(delivered', script)
             /\ refused' \in BOOLEAN /\ loop' \in {"line", "body", "dead"}
             /\ loop' = "dead" \/ (Waits(decoder') /\ (loop' = "body" => decoder'.expected # NoLength))
      PROVE  ReadingInv'
  <2>1. ReadingType' /\ Begins(delivered, script)'
    BY <1>1, <1>2, <1>5, <1>7 DEF ReadingType
  <2>2. (refused => closed)' /\ DeafForAReason'
    BY <1>2 DEF DeafForAReason
  <2>3. (loop \in {"line", "body"})' => Waits(decoder') /\ Drained'
    BY <1>2, <1>5, <1>7 DEF Drained
  <2>4. QED
    BY <2>1, <2>2, <2>3 DEF ReadingInv
<1> HIDE DEF d
<1>8. CASE loop' = "dead" /\ UNCHANGED <<delivered, refused>>
  BY <1>1, <1>3, <1>7, <1>8
<1>9. CASE /\ d.ok
           /\ decoder' = [d EXCEPT !.out = <<>>]
           /\ loop' = IF Raises(d.out) THEN "dead"
                      ELSE IF d.expected # NoLength THEN "body" ELSE "line"
           /\ DispatchBodies(d.out)
  <2>1. /\ decoder \in Decoder /\ decoder.ok = TRUE /\ decoder.out = <<>> /\ a \in Seq(Symbols)
        /\ decoder.expected = NoLength \/ (decoder.expected \in Nat /\ Len(a) < decoder.expected)
    BY <1>1 DEF Waits, Decoder
  <2>2. PICK e \in Decoder : /\ d = Drain(e) /\ e.buffer = s /\ e.expected = decoder.expected
                             /\ e.ok = TRUE /\ e.out = <<>>
    <3> HIDE DEF chunk
    <3>1. \E e \in Decoder : /\ Feed(decoder, chunk) = Drain(e)
                             /\ e.buffer = decoder.buffer \o chunk
                             /\ e.expected = decoder.expected
                             /\ e.ok = TRUE /\ e.out = <<>>
      BY <1>4, <2>1, FeedIs
    <3>2. QED
      BY <3>1 DEF d
  <2>3. ASSUME Waits(d) PROVE ReadingInv'
    <3>1. decoder' = d /\ delivered' = delivered /\ refused' = refused /\ ~Raises(d.out)
      BY <1>3, <1>9, <2>3, NoneComes
    <3>2. loop' = IF d.expected # NoLength THEN "body" ELSE "line"
      BY <1>9, <3>1
    <3>3. loop' \in {"line", "body"} /\ (loop' = "body" => decoder'.expected # NoLength)
      BY <3>1, <3>2
    <3>4. QED
      BY <1>1, <1>3, <1>7, <2>3, <3>1, <3>3
  <2>4. s \in Seq(Symbols) /\ Len(s) \in Nat
    <3> HIDE DEF chunk, a
    <3>1. s \in Seq(Symbols)
      BY <1>4, <2>1, Joined
    <3> HIDE DEF s
    <3>2. QED
      BY <3>1, LenProperties
  <2>5. CASE AtHeader
    <3>1. e.expected = NoLength /\ Lines(a)
      BY <2>2, <2>5 DEF AtHeader
    <3>2. \A i : BlankAt(s, i) => i + 3 = Len(s)
      <4> HIDE DEF chunk, a
      <4>1. QED
        BY <1>4, <2>1, <3>1, BlanksAtEnd
    <3>3. \A i : BlankAt(e.buffer, i) => i + 3 = Len(e.buffer)
      BY <2>2, <3>2
    <3>4. d.ok = FALSE \/ Waits(d)
      BY <2>2, <3>1, <3>3, AnyHeaderWaits
    <3>5. QED
      BY <1>9, <2>3, <3>4
  <2>6. CASE InBody
    <3>1. decoder.expected = Len(body) /\ <<Ahead, k>> \in BodyStarts
      BY <2>6 DEF InBody, Place
    <3>2. /\ k \in Nat /\ k < Len(script) /\ body \in Seq(Symbols) /\ Len(body) \in Nat \ {0}
          /\ Begins(body, Ahead)
      <4> HIDE DEF k
      <4>1. QED
        BY <1>3, <3>1, BodyStartIs
    <3>3. e.expected = Len(body) /\ Len(a) < Len(body)
      BY <2>1, <2>2, <3>1, <3>2 DEF NoLength
    <3>4. CASE Len(s) < Len(body)
      <4> HIDE DEF s, body
      <4>1. e.expected \in Nat /\ Len(e.buffer) < e.expected
        BY <2>2, <3>2, <3>3, <3>4
      <4>2. Drain(e) = e
        BY <2>2, <4>1, BodyWaits
      <4>3. Waits(d)
        BY <2>2, <4>1, <4>2 DEF Waits
      <4>4. QED
        BY <2>3, <4>3
    <3>5. CASE Len(body) <= Len(s)
      <4> DEFINE rest == Drop(s, Len(body))
                 part == SubSeq(s, 1, Len(body))
      <4>1. Lines(rest)
        <5> HIDE DEF chunk, a, body
        <5>1. Len(body) \in Nat /\ Len(a) < Len(body) /\ Len(body) <= Len(a \o chunk)
          BY <3>2, <3>3, <3>5
        <5>2. QED
          BY <1>4, <2>1, <5>1, RestOfLine
      <4>2. Len(body) \in 0..Len(s)
        <5> DEFINE x == Len(body)
                   y == Len(s)
        <5>1. x \in Nat /\ y \in Nat /\ x <= y
          BY <2>4, <3>2, <3>5
        <5> HIDE DEF x, y
        <5>2. x \in 0..y
          BY <5>1
        <5>3. QED
          BY <5>2 DEF x, y
      <4>3. rest \in Seq(Symbols) /\ part \in Seq(Symbols)
        BY <2>4, <4>2, DropIs, FirstIs
      <4>4. /\ e.expected \in Nat \ {0} /\ e.expected <= Len(e.buffer)
            /\ Drop(e.buffer, e.expected) = rest /\ SubSeq(e.buffer, 1, e.expected) = part
        BY <2>2, <3>2, <3>3, <3>5
      <4>5. IsJson(part) => part = body
        <5>1. ASSUME IsJson(part) PROVE part = body
          <6>1. script \in Scripts /\ k + 1 \in 1..Len(script)
            <7>1. Len(script) \in Nat
              BY <1>3, LenProperties
            <7>2. script # <<>>
              BY <3>2
            <7>3. QED
              BY <1>3, <3>2, <7>1, <7>2
          <6>2. Begins(body, (a \o pipe) \o unsent)
            BY <3>2 DEF Ahead
          <6> DEFINE j == k + 1
          <6>3. /\ j \in 1..Len(script) /\ script[j] \in Seq(Symbols)
                /\ Len(script[j]) \in Nat \ {0}
                /\ Begins(script[j], (a \o pipe) \o unsent)
                /\ Len(script[j]) <= Len(a \o (pipe \o CRLF))
                /\ IsJson(SubSeq(a \o (pipe \o CRLF), 1, Len(script[j])))
            BY <3>2, <3>5, <5>1, <6>1, <6>2
          <6> HIDE DEF j, a
          <6>4. SubSeq(a \o (pipe \o CRLF), 1, Len(script[j])) = script[j]
            BY <1>3, <2>1, <6>1, <6>3, PartOfBody
          <6>5. QED
            BY <6>4 DEF j
        <5>2. QED
          BY <5>1
      <4> HIDE DEF rest, part
      <4>6. \A i : ~BlankAt(Drop(e.buffer, e.expected), i)
        BY <4>1, <4>4 DEF Lines
      <4>7. Drain(e) = [buffer |-> Drop(e.buffer, e.expected), expected |-> NoLength,
                        out |-> <<SubSeq(e.buffer, 1, e.expected)>>,
                        ok |-> \A i : ~BareAt(Drop(e.buffer, e.expected), i)]
        BY <2>2, <4>4, <4>6, BodyComes
      <4>8. d = [buffer |-> rest, expected |-> NoLength, out |-> <<part>>,
                 ok |-> \A i : ~BareAt(rest, i)]
        BY <2>2, <4>4, <4>7
      <4>9. d = [buffer |-> rest, expected |-> NoLength, out |-> <<part>>, ok |-> TRUE]
        <5> DEFINE b == \A i : ~BareAt(rest, i)
        <5>1. b \in BOOLEAN
              /\ d = [buffer |-> rest, expected |-> NoLength, out |-> <<part>>, ok |-> b]
          BY <4>8
        <5> HIDE DEF b
        <5>2. b = TRUE
          BY <1>9, <5>1
        <5>3. QED
          BY <5>1, <5>2
      <4>10. /\ Waits(decoder') /\ decoder'.expected = NoLength
             /\ IF IsJson(part)
                THEN delivered' = Append(delivered, part) /\ refused' = refused
                ELSE delivered' = delivered /\ refused' = TRUE
        BY <1>3, <1>9, <4>3, <4>9, OneComes
      <4>11. d.expected = NoLength
        BY <4>9
      <4>12. loop' \in {"line", "dead"}
        BY <1>9, <4>11
      <4>13. delivered' \in Seq(Seq(Symbols)) /\ Begins(delivered', script) /\ refused' \in BOOLEAN
        <5>1. CASE IsJson(part)
          <6>1. delivered' = Append(delivered, script[Len(delivered) + 1]) /\ refused' = refused
            BY <4>5, <4>10, <5>1
          <6>2. Len(delivered) < Len(script)
            BY <3>2
          <6>3. QED
            BY <1>1, <1>3, <6>1, <6>2, NextDelivered
        <5>2. CASE ~IsJson(part)
          BY <1>1, <1>3, <4>10, <5>2
        <5>3. QED
          BY <5>1, <5>2
      <4>14. QED
        BY <1>7, <4>10, <4>12, <4>13
    <3>6. Len(s) < Len(body) \/ Len(body) <= Len(s)
      <4> DEFINE x == Len(body)
                 y == Len(s)
      <4>1. x \in Nat /\ y \in Nat
        BY <2>4, <3>2
      <4> HIDE DEF x, y
      <4>2. y < x \/ x <= y
        BY <4>1
      <4>3. QED
        BY <4>2 DEF x, y
    <3>7. QED
      BY <3>4, <3>5, <3>6
  <2>7. QED
    BY <1>1, <2>5, <2>6
<1>10. QED
  BY <1>6, <1>8, <1>9

\* The end of the stream.
LEMMA EndKeeps ==
    ASSUME ReadingInv, closed, pipe = <<>>, loop' = "ended",
           UNCHANGED <<pipe, decoder, delivered, refused>>,
           UNCHANGED <<givenVars, unsent, closed>>
    PROVE  ReadingInv'
<1>1. ReadingType /\ Begins(delivered, script) /\ (refused => closed)
  BY DEF ReadingInv
<1>2. /\ script' = script /\ printed' = printed /\ raising' = raising /\ short' = short
      /\ unsent' = unsent /\ closed' = closed
  BY DEF givenVars
<1>3. ReadingType' /\ Begins(delivered, script)' /\ (refused => closed)'
  BY <1>1, <1>2 DEF ReadingType
<1>4. DeafForAReason'
  BY <1>2 DEF DeafForAReason
<1>5. QED
  BY <1>3, <1>4 DEF ReadingInv

\* A header line is read, or what is taken for one.
LEMMA ReadHeaderLineKeeps ==
    ASSUME ReadingInv, ReadHeaderLine
    PROVE  ReadingInv'
<1> DEFINE end == Find(pipe, CRLF)
<1>1. loop = "line" /\ UNCHANGED <<givenVars, unsent, closed>>
  BY DEF ReadHeaderLine
<1>2. \/ end # 0 /\ HeaderLine(SubSeq(pipe, 1, end - 1), Drop(pipe, end + 1))
      \/ end = 0 /\ closed /\ pipe # <<>> /\ HeaderLine(pipe, <<>>)
      \/ /\ closed /\ pipe = <<>> /\ loop' = "ended"
         /\ UNCHANGED <<pipe, decoder, delivered, refused>>
  BY DEF ReadHeaderLine
<1>3. CASE end # 0 /\ HeaderLine(SubSeq(pipe, 1, end - 1), Drop(pipe, end + 1))
  <2>1. ~Drained
    <3>1. pipe \in Seq(Symbols)
      BY DEF ReadingInv, ReadingType
    <3>2. LineAt(pipe, end)
      BY <1>3, <3>1, FindsLine
    <3>3. pipe # <<>>
      BY <3>2 DEF LineAt
    <3>4. QED
      BY <3>3 DEF Drained
  <2>2. AtHeader \/ InBody
    BY <1>1, <2>1 DEF ReadingInv
  <2>3. QED
    BY <1>1, <1>3, <2>2, HeaderLineKeeps, LineInBodyKeeps
<1>4. CASE end = 0 /\ closed /\ pipe # <<>> /\ HeaderLine(pipe, <<>>)
  BY <1>1, <1>4, LastLineKeeps
<1>5. CASE /\ closed /\ pipe = <<>> /\ loop' = "ended"
           /\ UNCHANGED <<pipe, decoder, delivered, refused>>
  BY <1>1, <1>5, EndKeeps
<1>6. QED
  BY <1>2, <1>3, <1>4, <1>5

----------------------------------------------------------------------------
(***************************************************************************)
(* A body is read.                                                         *)
(***************************************************************************)
\* A read of the body takes what is in the pipe, no more than the rest of the
\* body, and less only when reads are short or the pipe is closed.
LEMMA BodyReadIs ==
    ASSUME Waits(decoder), decoder.expected # NoLength, pipe \in Seq(Symbols),
           short \in BOOLEAN, closed \in BOOLEAN,
           NEW n, n \in ReadLengths \/ (closed /\ ReadLengths = {} /\ n = Len(pipe))
    PROVE  /\ n \in 0..Len(pipe)
           /\ decoder.expected \in Nat /\ Len(decoder.buffer) \in Nat
           /\ Len(decoder.buffer) + n <= decoder.expected
           /\ Len(decoder.buffer) + n < decoder.expected => short \/ closed
           /\ n = 0 => closed
<1> DEFINE l == decoder.expected
           b == Len(decoder.buffer)
           p == Len(pipe)
<1>1. l \in Nat /\ b \in Nat /\ p \in Nat /\ b < l
  <2>1. decoder.buffer \in Seq(Symbols)
    BY DEF Waits, Decoder
  <2>2. b \in Nat /\ p \in Nat
    BY <2>1, LenProperties
  <2>3. QED
    BY <2>2 DEF Waits
<1>2. Remaining = l - b
  BY DEF Remaining
<1>3. ReadLengths = IF short THEN {m \in 1..(l - b) : m <= p} ELSE {m \in {l - b} : m <= p}
  BY <1>2 DEF ReadLengths
<1> HIDE DEF l, b, p
<1>4. CASE n \in ReadLengths
  <2>1. n \in 1..(l - b) /\ n <= p /\ (n = l - b \/ short)
    <3>1. CASE short
      BY <1>1, <1>3, <1>4, <3>1
    <3>2. CASE ~short
      BY <1>1, <1>3, <1>4, <3>2
    <3>3. QED
      BY <3>1, <3>2
  <2>2. n \in 0..p /\ b + n <= l /\ (b + n < l => short) /\ n # 0
    BY <1>1, <2>1
  <2>3. QED
    BY <1>1, <2>2 DEF l, b, p
<1>5. CASE closed /\ ReadLengths = {} /\ n = p
  <2>1. ~(l - b <= p)
    <3>1. ASSUME l - b <= p PROVE l - b \in ReadLengths
      <4>1. l - b \in 1..(l - b) /\ l - b \in {l - b}
        BY <1>1
      <4>2. QED
        BY <1>3, <3>1, <4>1
    <3>2. QED
      BY <1>5, <3>1
  <2>2. n \in 0..p /\ b + n <= l /\ closed
    BY <1>1, <1>5, <2>1
  <2>3. QED
    BY <1>1, <2>2 DEF l, b, p
<1>6. QED
  BY <1>4, <1>5 DEF p

\* With the pipe drained, such a read has nothing.
LEMMA DrainedKeeps ==
    ASSUME ReadingInv, loop = "body", Drained, Body(0),
           UNCHANGED <<givenVars, unsent, closed>>
    PROVE  ReadingInv'
<1>1. /\ ReadingType /\ Begins(delivered, script) /\ (refused => closed)
      /\ Waits(decoder)
  BY DEF ReadingInv
<1>2. /\ script' = script /\ printed' = printed /\ raising' = raising /\ short' = short
      /\ unsent' = unsent /\ closed' = closed
  BY DEF givenVars
<1>3. /\ closed /\ pipe = <<>> /\ decoder.expected # NoLength
      /\ delivered \in Seq(Seq(Symbols)) /\ refused \in BOOLEAN
      /\ unsent \in Seq(Symbols) /\ pipe \in Seq(Symbols)
  BY <1>1 DEF Drained, ReadingType
<1>4. 0 \in 0..Len(pipe)
  BY <1>3, LenProperties
<1>5. PICK s, e : Fed(s, e, 0)
  BY <1>1, <1>3, <1>4, ChunkIsFed
<1>6. /\ e \in Decoder /\ e.buffer = s /\ Len(s) = Len(decoder.buffer) + 0
      /\ e.expected = decoder.expected /\ e.ok = TRUE /\ e.out = <<>>
      /\ Feed(decoder, SubSeq(pipe, 1, 0)) = Drain(e)
      /\ Drop(pipe, 0) \in Seq(Symbols)
  BY <1>5 DEF Fed
<1>7. decoder.expected \in Nat /\ Len(decoder.buffer) < decoder.expected
      /\ Len(decoder.buffer) \in Nat
  <2>1. decoder.buffer \in Seq(Symbols)
    BY <1>1 DEF Waits, Decoder
  <2>2. Len(decoder.buffer) \in Nat
    BY <2>1, LenProperties
  <2>3. QED
    BY <1>1, <1>3, <2>2 DEF Waits
<1>8. e.expected \in Nat /\ Len(e.buffer) < e.expected
  BY <1>6, <1>7
<1>9. Waits(e) /\ Drain(e) = e
  BY <1>6, <1>8, BodyWaits DEF Waits
<1>10. /\ decoder' = [e EXCEPT !.out = <<>>] /\ DispatchBodies(e.out)
       /\ loop' = (IF e.ok /\ ~Raises(e.out) THEN "line" ELSE "dead")
       /\ pipe' = Drop(pipe, 0)
  BY <1>6, <1>9 DEF Body
<1>11. decoder' = e /\ delivered' = delivered /\ refused' = refused /\ ~Raises(e.out)
  BY <1>3, <1>9, <1>10, NoneComes
<1>12. loop' = "line"
  BY <1>6, <1>10, <1>11
<1>13. pipe' = <<>>
  BY <1>3, <1>10, DropNone
<1>14. Waits(decoder') /\ Drained'
  BY <1>2, <1>3, <1>9, <1>11, <1>12, <1>13 DEF Drained
<1>15. ReadingType'
  BY <1>1, <1>2, <1>3, <1>11, <1>12, <1>13 DEF ReadingType
<1>16. QED
  BY <1>1, <1>2, <1>11, <1>12, <1>14, <1>15 DEF ReadingInv, DeafForAReason

\* A read of a part of the body, or of the rest of it.
LEMMA BodyKeeps ==
    ASSUME ReadingInv, loop = "body", InBody, NEW n,
           n \in ReadLengths \/ (closed /\ ReadLengths = {} /\ n = Len(pipe)), Body(n),
           UNCHANGED <<givenVars, unsent, closed>>
    PROVE  ReadingInv'
<1> DEFINE body == script[Len(delivered) + 1]
<1>1. /\ ReadingType /\ Waits(decoder)
  BY DEF ReadingInv
<1>2. /\ Framable /\ pipe \in Seq(Symbols) /\ unsent \in Seq(Symbols)
      /\ delivered \in Seq(Seq(Symbols)) /\ refused \in BOOLEAN
      /\ short \in BOOLEAN /\ closed \in BOOLEAN
  BY <1>1, GivenIsFramable DEF ReadingType
<1>3. decoder.expected = Len(body)
  BY DEF InBody
<1>4. body \in Seq(Symbols) /\ Len(body) \in Nat \ {0}
  <2> DEFINE k == Len(delivered)
  <2>1. <<Ahead, k>> \in BodyStarts
    BY DEF InBody, Place
  <2> HIDE DEF k
  <2>2. script[k + 1] \in Seq(Symbols) /\ Len(script[k + 1]) \in Nat \ {0}
    BY <1>2, <2>1, BodyStartIs
  <2>3. QED
    BY <2>2 DEF k
<1>5. decoder.expected # NoLength
  <2> HIDE DEF body
  <2>1. QED
    BY <1>3, <1>4 DEF NoLength
<1>6. /\ n \in 0..Len(pipe) /\ decoder.expected \in Nat /\ Len(decoder.buffer) \in Nat
      /\ Len(decoder.buffer) + n <= decoder.expected
      /\ Len(decoder.buffer) + n < decoder.expected => short \/ closed
  BY <1>1, <1>2, <1>5, BodyReadIs
<1>7. PICK s, e : Fed(s, e, n)
  BY <1>1, <1>2, <1>6, ChunkIsFed
<1>8. /\ Len(s) = Len(decoder.buffer) + n /\ s \in Seq(Symbols)
      /\ Feed(decoder, SubSeq(pipe, 1, n)) = Drain(e) /\ e.ok = TRUE
  BY <1>7 DEF Fed
<1>9. Len(s) <= Len(body) /\ (Len(s) < Len(body) => short \/ closed) /\ n \in Nat
      /\ Len(s) \in Nat
  <2>1. Len(pipe) \in Nat
    BY <1>2, LenProperties
  <2> DEFINE p == Len(pipe)
  <2> HIDE DEF body, p
  <2>2. n \in 0..p /\ p \in Nat
    BY <1>6, <2>1 DEF p
  <2>3. n \in Nat
    BY <2>2
  <2>4. QED
    BY <1>3, <1>6, <1>8, <2>3
<1>10. /\ decoder' = [Drain(e) EXCEPT !.out = <<>>] /\ DispatchBodies(Drain(e).out)
       /\ loop' = (IF Drain(e).ok /\ ~Raises(Drain(e).out) THEN "line" ELSE "dead")
       /\ pipe' = Drop(pipe, n)
  BY <1>8 DEF Body
<1>11. CASE Len(s) < Len(body)
  <2>1. Waits(e) /\ Drain(e) = e
    BY <1>1, <1>2, <1>7, <1>9, <1>11, BodyFed
  <2>2. ~Raises(Drain(e).out)
    BY <2>1 DEF Raises, Waits
  <2>3. loop' = "line" /\ (short \/ closed)
    BY <1>8, <1>9, <1>10, <1>11, <2>1, <2>2
  <2>4. QED
    BY <1>1, <1>7, <1>9, <1>10, <1>11, <2>3, BodyGoesOn
<1>12. CASE Len(s) = Len(body)
  <2> DEFINE rest == Drop(s, Len(body))
  <2>1. rest = <<>>
    <3> HIDE DEF body
    <3>1. QED
      BY <1>8, <1>12, DropNone
  <2>2. Len(<<>>) = 0
    OBVIOUS
  <2>3. (\A i : ~BlankAt(rest, i)) /\ (\A i : ~BareAt(rest, i)) /\ Lines(rest)
    <3> HIDE DEF rest
    <3>1. QED
      BY <2>1, <2>2 DEF BlankAt, BareAt, Lines
  <2>4. Drain(e) = [buffer |-> rest, expected |-> NoLength, out |-> <<body>>,
                    ok |-> \A i : ~BareAt(rest, i)]
    <3>1. Len(body) <= Len(s)
      BY <1>9, <1>12
    <3>2. QED
      BY <1>1, <1>2, <1>7, <1>9, <2>3, <3>1, BodyFed
  <2>5. Drain(e).ok = TRUE
    <3> DEFINE b == \A i : ~BareAt(rest, i)
    <3>1. b = TRUE /\ Drain(e) = [buffer |-> rest, expected |-> NoLength, out |-> <<body>>, ok |-> b]
      BY <2>3, <2>4
    <3> HIDE DEF b, rest, body
    <3>2. QED
      BY <3>1
  <2>6. loop' = IF Raises(Drain(e).out) THEN "dead" ELSE "line"
    BY <1>10, <2>5
  <2>7. Len(body) <= Len(s) /\ Drain(e).ok
    BY <1>9, <1>12, <2>5
  <2>8. QED
    BY <1>1, <1>7, <1>9, <1>10, <2>3, <2>6, <2>7, BodyIsComplete
<1>13. QED
  <2> HIDE DEF body
  <2>1. Len(s) < Len(body) \/ Len(s) = Len(body)
    BY <1>4, <1>9
  <2>2. QED
    BY <1>11, <1>12, <2>1

\* A read of a body keeps the invariant.
LEMMA ReadBodyKeeps ==
    ASSUME ReadingInv, ReadBody
    PROVE  ReadingInv'
<1>1. loop = "body" /\ UNCHANGED <<givenVars, unsent, closed>>
  BY DEF ReadBody
<1>2. PICK n : /\ n \in ReadLengths \/ (closed /\ ReadLengths = {} /\ n = Len(pipe))
               /\ Body(n)
  BY DEF ReadBody
<1>3. ReadingType /\ Waits(decoder) /\ (InBody \/ Drained)
  BY <1>1 DEF ReadingInv, AtHeader
<1>4. CASE InBody
  BY <1>1, <1>2, <1>4, BodyKeeps
<1>5. CASE Drained
  <2>1. decoder.expected # NoLength /\ pipe = <<>> /\ pipe \in Seq(Symbols)
        /\ short \in BOOLEAN /\ closed \in BOOLEAN
    BY <1>1, <1>3, <1>5 DEF Drained, ReadingType
  <2>2. n \in 0..Len(pipe)
    BY <1>2, <1>3, <2>1, BodyReadIs
  <2>3. Len(pipe) = 0
    BY <2>1
  <2>4. n = 0
    BY <2>2, <2>3
  <2>5. QED
    BY <1>1, <1>2, <1>5, <2>4, DrainedKeeps
<1>6. QED
  BY <1>3, <1>4, <1>5

\* Every step of the reading half keeps the invariant.
LEMMA ReadingNextKeeps ==
    ASSUME ReadingInv, [ReadingNext]_readingVars
    PROVE  ReadingInv'
<1>1. CASE ServerWrites
  BY <1>1, WritingKeeps
<1>2. CASE ServerEnds
  BY <1>2, EndingKeeps
<1>3. CASE ReadHeaderLine
  BY <1>3, ReadHeaderLineKeeps
<1>4. CASE ReadBody
  BY <1>4, ReadBodyKeeps
<1>5. CASE UNCHANGED readingVars
  <2>1. /\ script' = script /\ printed' = printed /\ raising' = raising /\ short' = short
        /\ unsent' = unsent /\ closed' = closed /\ pipe' = pipe /\ decoder' = decoder
        /\ loop' = loop /\ delivered' = delivered /\ refused' = refused
    BY <1>5 DEF readingVars, givenVars
  <2>2. FrameStarts' = FrameStarts /\ BodyStarts' = BodyStarts
    BY <2>1, StartsStay
  <2>3. Place' = Place
    BY <2>1 DEF Place, Ahead
  <2>4. ReadingType' = ReadingType /\ DeafForAReason' = DeafForAReason /\ Drained' = Drained
    BY <2>1 DEF ReadingType, DeafForAReason, Drained
  <2>5. AtHeader' = AtHeader /\ InBody' = InBody
    BY <2>1, <2>2, <2>3 DEF AtHeader, InBody
  <2>6. QED
    BY <2>1, <2>4, <2>5 DEF ReadingInv
<1>6. QED
  BY <1>1, <1>2, <1>3, <1>4, <1>5 DEF ReadingNext

----------------------------------------------------------------------------
(***************************************************************************)
(* The invariant holds at first, and implies the properties.               *)
(***************************************************************************)
\* A client that has read nothing of a stream.
LEMMA NothingRead ==
    ASSUME script \in Scripts \cup {<<>>}, printed \in Seq(OtherSymbols), short \in BOOLEAN,
           unsent = Stream(script), pipe = <<>>, closed = FALSE, decoder = EmptyDecoder,
           loop = "line", delivered = <<>>, refused = FALSE
    PROVE  ReadingInv
<1>1. Framable
  BY ScriptsAreFramable
<1>2. unsent \in Seq(Symbols) /\ RestAfter(unsent, 0)
  BY <1>1, TailStart
<1>3. ReadingType
  <2>1. pipe \in Seq(Symbols) /\ delivered \in Seq(Seq(Symbols))
    OBVIOUS
  <2>2. loop \in {"line", "body", "ended", "dead"} /\ closed \in BOOLEAN /\ refused \in BOOLEAN
    OBVIOUS
  <2>3. QED
    BY <1>2, <2>1, <2>2 DEF ReadingType
<1>4. Waits(decoder) /\ decoder.buffer = <<>> /\ decoder.expected = NoLength
  BY DEF Waits, Decoder, EmptyDecoder, NoLength
<1>5. Place = <<unsent, 0>>
  <2>1. (<<>> \o <<>>) \o unsent = unsent
    BY <1>2, ConcatEmptySeq
  <2>2. QED
    BY <1>4, <2>1 DEF Place, Ahead
<1>6. <<unsent, 0>> \in FrameStarts
  BY <1>2 DEF FrameStarts
<1>7. Lines(<<>>)
  <2>1. Len(<<>>) = 0
    OBVIOUS
  <2>2. QED
    BY <2>1 DEF Lines, BlankAt
<1>8. AtHeader
  BY <1>4, <1>5, <1>6, <1>7 DEF AtHeader
<1>9. Begins(delivered, script)
  <2>1. Len(script) \in Nat
    BY <1>1, LenProperties DEF Framable
  <2>2. QED
    BY <2>1 DEF Begins
<1>10. DeafForAReason
  BY DEF DeafForAReason
<1>11. QED
  BY <1>3, <1>4, <1>8, <1>9, <1>10 DEF ReadingInv

\* What is delivered is the beginning of the script.
LEMMA InvDelivers == ReadingInv => DeliveredAsWritten
<1> SUFFICES ASSUME ReadingInv PROVE DeliveredAsWritten
  OBVIOUS
<1> DEFINE n == Len(delivered)
           s == SubSeq(delivered, 1, n)
           t == SubSeq(script, 1, n)
<1>1. ReadingType /\ Begins(delivered, script) /\ (refused => closed)
  BY DEF ReadingInv
<1>2. delivered \in Seq(Seq(Symbols)) /\ script \in Seq(Seq(Symbols))
  BY <1>1, GivenIsFramable DEF ReadingType, Framable
<1>3. n \in Nat /\ Len(script) \in Nat /\ n <= Len(script)
      /\ \A i \in 1..n : delivered[i] = script[i]
  BY <1>1, <1>2, LenProperties DEF Begins
<1>4. n \in 0..Len(delivered) /\ n \in 0..Len(script)
  BY <1>3
<1> HIDE DEF n
<1>5. s \in Seq(Seq(Symbols)) /\ Len(s) = n /\ \A i \in 1..n : s[i] = delivered[i]
  BY <1>2, <1>4, FirstIs
<1>6. t \in Seq(Seq(Symbols)) /\ Len(t) = n /\ \A i \in 1..n : t[i] = script[i]
  BY <1>2, <1>4, FirstIs
<1> HIDE DEF s, t
<1>7. s = t
  BY <1>3, <1>5, <1>6, SeqEqual
<1>8. IsPrefix(delivered, script)
  BY <1>3, <1>7 DEF IsPrefix, n, s, t
<1>9. QED
  BY <1>1, <1>8 DEF DeliveredAsWritten

\* What is still read of the stream is all of its rest.
LEMMA InvLosesNothing == ReadingInv => NothingLost
<1> SUFFICES ASSUME ReadingInv, loop \in {"line", "body"}, ~closed
             PROVE  IsSuffix((IF decoder.expected = NoLength THEN <<>>
                               ELSE <<LengthText(decoder.expected)>> \o CRLF \o CRLF)
                                 \o decoder.buffer \o pipe \o unsent, Stream(script))
  BY DEF NothingLost
<1> DEFINE a == decoder.buffer
           h == IF decoder.expected = NoLength THEN <<>>
                ELSE <<LengthText(decoder.expected)>> \o CRLF \o CRLF
<1>1. ReadingType /\ Waits(decoder) /\ (AtHeader \/ InBody)
  BY DEF ReadingInv, Drained
<1>2. Framable /\ pipe \in Seq(Symbols) /\ unsent \in Seq(Symbols) /\ a \in Seq(Symbols)
  BY <1>1, GivenIsFramable DEF ReadingType, Waits, Decoder
<1>3. CASE AtHeader
  <2>1. h = <<>> /\ <<Ahead, Len(delivered)>> \in FrameStarts
    BY <1>3 DEF AtHeader, Place
  <2>2. IsSuffix(Ahead, Stream(script))
    <3> DEFINE k == Len(delivered)
    <3>1. <<Ahead, k>> \in FrameStarts
      BY <2>1
    <3> HIDE DEF k
    <3>2. QED
      BY <1>2, <3>1, FrameStartIs
  <2> HIDE DEF h, a
  <2>3. h \o a = a
    BY <1>2, <2>1, ConcatEmptySeq
  <2>4. QED
    BY <2>2, <2>3 DEF Ahead, h, a
<1>4. CASE InBody
  <2> DEFINE k == Len(delivered)
             body == script[k + 1]
             header == <<LengthText(Len(body))>> \o CRLF \o CRLF
  <2>1. decoder.expected = Len(body) /\ <<Ahead, k>> \in BodyStarts
    BY <1>4 DEF InBody, Place
  <2>2. /\ k \in Nat /\ k < Len(script)
        /\ body \in Seq(Symbols) /\ Len(body) \in Nat \ {0}
        /\ IsSuffix(header \o Ahead, Stream(script))
    <3> HIDE DEF k
    <3>1. QED
      BY <1>2, <2>1, BodyStartIs
  <2>3. h = header
    <3>1. decoder.expected # NoLength
      <4> HIDE DEF body
      <4>1. QED
        BY <2>1, <2>2 DEF NoLength
    <3>2. QED
      BY <2>1, <3>1
  <2>4. LengthText(Len(body)) \in Symbols
    <3>1. k + 1 \in 1..Len(script)
      <4>1. Len(script) \in Nat
        BY <1>2, LenProperties DEF Framable
      <4> HIDE DEF k
      <4>2. QED
        BY <2>2, <4>1
    <3>2. \E x \in DOMAIN LengthOf : LengthOf[x] = Len(body)
      BY <1>2, <3>1 DEF Framable
    <3> HIDE DEF body
    <3>3. QED
      BY <3>2 DEF LengthText, Symbols
  <2>5. header \in Seq(Symbols)
    <3> DEFINE x == <<LengthText(Len(body))>>
    <3>1. x \in Seq(Symbols)
      BY <2>4
    <3>2. CRLF \in Seq(Symbols)
      BY DEF CRLF, Symbols, OtherSymbols
    <3> HIDE DEF x
    <3>3. x \o CRLF \o CRLF \in Seq(Symbols)
      BY <3>1, <3>2
    <3>4. QED
      BY <3>3 DEF x
  <2>6. ((header \o a) \o pipe) \o unsent = header \o ((a \o pipe) \o unsent)
    <3> HIDE DEF header, a
    <3>1. Regroups(header, a, pipe)
      BY <1>2, <2>5, Associated
    <3>2. a \o pipe \in Seq(Symbols)
      BY <1>2, Joined
    <3> DEFINE z == a \o pipe
    <3>3. z \in Seq(Symbols) /\ (header \o a) \o pipe = header \o z
      BY <3>1, <3>2 DEF Regroups
    <3> HIDE DEF z
    <3>4. Regroups(header, z, unsent)
      BY <1>2, <2>5, <3>3, Associated
    <3>5. QED
      BY <3>3, <3>4 DEF Regroups, z
  <2> HIDE DEF header, h, a
  <2>7. IsSuffix(((h \o a) \o pipe) \o unsent, Stream(script))
    BY <2>2, <2>3, <2>6 DEF Ahead, a
  <2>8. QED
    BY <2>7 DEF h, a
<1>5. QED
  BY <1>1, <1>3, <1>4

----------------------------------------------------------------------------
USE MaxSendsAssumption, MaxAnswersAssumption, PartialWritesAssumption,
    StdinsAssumption

----------------------------------------------------------------------------
(***************************************************************************)
(* The writing half: its inductive invariant.                              *)
(***************************************************************************)
Parts == [part : {"header", "body"}, of : Messages]

\* Ids are given out one by one, and at most one for each message.
IdInv ==
    /\ nextId <= Len(sent) + 1
    /\ Len(sent) <= MaxSends
    /\ \A id \in callbacks : id < nextId

\* Only requests that were sent are under way, and only those are answered.
Underway(m) ==
    \/ \E i \in 1..Len(queue) : queue[i] = m
    \/ inflight = <<m>>
    \/ \E i \in 1..Len(wire) : wire[i].of = m

KnownInv ==
    \A id \in Ids :
        /\ Underway(RequestOf(id)) => id < nextId
        /\ answered[id] > 0 => id < nextId

\* With whole writes the wire is made of frames, and the messages the server
\* has not got are those that wait, unless it died.
FrameInv ==
    ~partial =>
        /\ \E n \in Nat : Len(wire) = 2 * n
        /\ Received \in Seq(Messages)
        /\ \E rest \in Seq(Messages) :
              /\ sent = Received \o rest
              /\ alive => rest = inflight \o queue

IInv == TypeOK /\ IdInv /\ KnownInv /\ CallbackOnce /\ FrameInv

----------------------------------------------------------------------------
\* A request is a message if its id is one.
LEMMA RequestIsMessage == \A id \in Ids : RequestOf(id) \in Messages
BY DEF RequestOf, Messages

\* What waits is the same before and after the next chunk is taken.
LEMMA PumpKeepsOrder ==
    ASSUME NEW q \in Seq(Messages),
           NEW busy \in {<<>>} \cup {<<m>> : m \in Messages},
           PumpWrites(q, busy)
    PROVE  /\ queue' \in Seq(Messages)
           /\ inflight' \in {<<>>} \cup {<<m>> : m \in Messages}
           /\ inflight' \o queue' = busy \o q
           /\ \A m \in Messages :
                 (\E i \in 1..Len(queue') : queue'[i] = m) \/ inflight' = <<m>>
                 => (\E i \in 1..Len(q) : q[i] = m) \/ busy = <<m>>
<1>1. CASE queue' = q /\ inflight' = busy
  BY <1>1
<1>2. CASE busy = <<>> /\ q # <<>> /\ queue' = Tail(q) /\ inflight' = <<Head(q)>>
  <2>1. /\ Head(q) \in Messages /\ Tail(q) \in Seq(Messages)
        /\ Len(Tail(q)) = Len(q) - 1
        /\ \A i \in 1..Len(Tail(q)) : Tail(q)[i] = q[i + 1]
    BY <1>2, HeadTailProperties
  <2>2. Len(q) \in Nat /\ Len(q) >= 1 /\ q[1] = Head(q)
    BY <1>2
  <2>3. <<Head(q)>> \o Tail(q) = q
    <3>1. /\ <<Head(q)>> \o Tail(q) \in Seq(Messages)
          /\ Len(<<Head(q)>> \o Tail(q)) = Len(q)
      BY <2>1, <2>2
    <3>2. \A i \in 1..Len(q) : (<<Head(q)>> \o Tail(q))[i] = q[i]
      BY <2>1, <2>2
    <3>3. QED
      BY <3>1, <3>2, SeqEqual
  <2>4. <<>> \o q = q
    BY ConcatEmptySeq
  <2>5. ASSUME NEW m \in Messages,
               (\E i \in 1..Len(queue') : queue'[i] = m) \/ inflight' = <<m>>
        PROVE  \E i \in 1..Len(q) : q[i] = m
    <3>1. CASE inflight' = <<m>>
      BY <3>1, <1>2, <2>2
    <3>2. CASE \E i \in 1..Len(queue') : queue'[i] = m
      <4>1. PICK i \in 1..Len(Tail(q)) : Tail(q)[i] = m
        BY <3>2, <1>2
      <4>2. i + 1 \in 1..Len(q) /\ q[i + 1] = m
        BY <4>1, <2>1, <2>2
      <4>3. QED
        BY <4>2
    <3>3. QED
      BY <2>5, <3>1, <3>2
  <2>6. QED
    BY <1>2, <2>1, <2>3, <2>4, <2>5
<1>3. QED
  BY <1>1, <1>2 DEF PumpWrites

\* It holds initially.
LEMMA InitEstablishes == Init => IInv
<1> SUFFICES ASSUME Init PROVE IInv
  OBVIOUS
<1>1. TypeOK
  BY DEF Init, TypeOK, Ids
<1>2. IdInv /\ KnownInv /\ CallbackOnce
  BY DEF Init, IdInv, KnownInv, CallbackOnce, Underway, Ids
<1>3. FrameInv
  <2>1. Len(wire) = 0 /\ Received = <<>>
    BY DEF Init, Received
  <2>2. <<>> \o <<>> = <<>> /\ <<>> \in Seq(Messages)
    BY ConcatEmptySeq
  <2>3. sent = Received \o <<>> /\ inflight \o queue = <<>>
    BY <2>1, <2>2 DEF Init
  <2>4. Len(wire) = 2 * 0 /\ 0 \in Nat
    BY <2>1
  <2>5. QED
    BY <2>1, <2>2, <2>3, <2>4 DEF FrameInv
<1>4. QED
  BY <1>1, <1>2, <1>3 DEF IInv

----------------------------------------------------------------------------
\* A message that is sent waits behind those that wait already.
LEMMA SendQueuesLast ==
    ASSUME TypeOK, NEW m \in Messages, Send(m)
    PROVE  /\ queue' \in Seq(Messages)
           /\ inflight' \in {<<>>} \cup {<<k>> : k \in Messages}
           /\ sent' \in Seq(Messages)
           /\ sent' = sent \o <<m>> /\ Len(sent') = Len(sent) + 1
           /\ inflight' \o queue' = (inflight \o queue) \o <<m>>
           /\ \A k \in Messages :
                 (\E i \in 1..Len(queue') : queue'[i] = k) \/ inflight' = <<k>>
                 => (\E i \in 1..Len(queue) : queue[i] = k) \/ inflight = <<k>> \/ k = m
<1> DEFINE q == Append(queue, m)
<1>1. /\ queue \in Seq(Messages) /\ sent \in Seq(Messages) /\ <<m>> \in Seq(Messages)
      /\ inflight \in {<<>>} \cup {<<k>> : k \in Messages} /\ inflight \in Seq(Messages)
  <2>1. queue \in Seq(Messages) /\ sent \in Seq(Messages)
    BY DEF TypeOK
  <2>2. inflight \in {<<>>} \cup {<<k>> : k \in Messages}
    BY DEF TypeOK
  <2>3. \A k \in Messages : <<k>> \in Seq(Messages)
    OBVIOUS
  <2>4. inflight \in Seq(Messages)
    <3>1. CASE inflight = <<>>
      BY <3>1, EmptySeq
    <3>2. CASE inflight \in {<<k>> : k \in Messages}
      BY <2>3, <3>2
    <3>3. QED
      BY <2>2, <3>1, <3>2
  <2> HIDE DEF q
  <2>5. QED
    BY <2>1, <2>2, <2>3, <2>4
<1>2. /\ q \in Seq(Messages) /\ Len(q) = Len(queue) + 1 /\ q[Len(queue) + 1] = m
      /\ \A i \in 1..Len(queue) : q[i] = queue[i]
      /\ q = queue \o <<m>>
  BY <1>1, AppendProperties, AppendIsConcat
<1>3. sent' = sent \o <<m>> /\ sent' \in Seq(Messages) /\ Len(sent') = Len(sent) + 1
  BY <1>1, AppendProperties, AppendIsConcat DEF Send
<1>4. /\ queue' \in Seq(Messages)
      /\ inflight' \in {<<>>} \cup {<<k>> : k \in Messages}
      /\ inflight' \o queue' = inflight \o q
      /\ \A k \in Messages :
            (\E i \in 1..Len(queue') : queue'[i] = k) \/ inflight' = <<k>>
            => (\E i \in 1..Len(q) : q[i] = k) \/ inflight = <<k>>
  <2>1. PumpWrites(q, inflight)
    BY DEF Send
  <2> HIDE DEF q
  <2>2. QED
    BY <1>1, <1>2, <2>1, PumpKeepsOrder
<1>5. inflight \o q = (inflight \o queue) \o <<m>>
  BY <1>1, <1>2, ConcatAssociative
<1>6. \A k \in Messages :
         (\E i \in 1..Len(q) : q[i] = k) => (\E i \in 1..Len(queue) : queue[i] = k) \/ k = m
  BY <1>1, <1>2, LenProperties
<1> HIDE DEF q
<1>7. QED
  BY <1>3, <1>4, <1>5, <1>6

\* Sending keeps what is known of the wire and of the messages that wait.
LEMMA SendKeepsFrames ==
    ASSUME TypeOK, FrameInv, NEW m \in Messages, Send(m),
           wire' = wire, partial' = partial, alive' = alive
    PROVE  FrameInv'
<1> SUFFICES ASSUME ~partial
             PROVE  /\ \E n \in Nat : Len(wire) = 2 * n
                    /\ Received' \in Seq(Messages)
                    /\ \E rest \in Seq(Messages) :
                          /\ sent' = Received' \o rest
                          /\ alive => rest = inflight' \o queue'
  BY DEF FrameInv
<1>1. Received' = Received
  BY DEF Received
<1>2. /\ \E n \in Nat : Len(wire) = 2 * n
      /\ Received \in Seq(Messages)
  BY DEF FrameInv
<1>3. PICK rest \in Seq(Messages) :
        sent = Received \o rest /\ (alive => rest = inflight \o queue)
  BY DEF FrameInv
<1>4. sent' = sent \o <<m>> /\ inflight' \o queue' = (inflight \o queue) \o <<m>>
  BY SendQueuesLast
<1>5. <<m>> \in Seq(Messages) /\ rest \o <<m>> \in Seq(Messages)
  BY ConcatProperties
<1>6. (Received \o rest) \o <<m>> = Received \o (rest \o <<m>>)
  BY <1>2, <1>5, ConcatAssociative, SMTT(30)
<1>7. QED
  BY <1>1, <1>2, <1>3, <1>4, <1>5, <1>6

\* What a write adds to the wire is of the message that was in flight.
LEMMA WriteAddsParts ==
    ASSUME TypeOK, NEW m \in Messages, NEW n \in 1..2,
           wire' = wire \o SubSeq(Frame(m), 1, n)
    PROVE  /\ wire' \in Seq(Parts)
           /\ Len(wire') = Len(wire) + n
           /\ \A i \in 1..Len(wire) : wire'[i] = wire[i]
           /\ \A i \in 1..n : wire'[Len(wire) + i] = Frame(m)[i]
<1> DEFINE f == SubSeq(Frame(m), 1, n)
<1>1. wire \in Seq(Parts) /\ Len(wire) \in Nat
  BY DEF TypeOK, Parts
<1>2. f \in Seq(Parts) /\ Len(f) = n /\ \A i \in 1..n : f[i] = Frame(m)[i]
  <2>1. \A i \in 1..n : Frame(m)[i] \in Parts
    BY DEF Frame, Parts
  <2>2. QED
    BY <2>1, SubSeqProperties
<1> HIDE DEF f
<1>3. /\ wire \o f \in Seq(Parts) /\ Len(wire \o f) = Len(wire) + n
      /\ \A i \in 1..(Len(wire) + n) :
            (wire \o f)[i] = IF i <= Len(wire) THEN wire[i] ELSE f[i - Len(wire)]
  BY <1>1, <1>2, ConcatProperties
<1>4. wire' = wire \o f
  BY DEF f
<1>5. QED
  BY <1>1, <1>2, <1>3, <1>4

\* Half of the parts of whole frames is their number.
LEMMA HalfOfTwice == \A n \in Nat : (2 * n) \div 2 = n /\ (2 * n + 2) \div 2 = n + 1
OBVIOUS

\* A whole frame on a wire of whole frames is one more message for the server.
LEMMA WholeFrameIsReceived ==
    ASSUME TypeOK, NEW m \in Messages, NEW n \in Nat, Len(wire) = 2 * n,
           Received \in Seq(Messages),
           wire' = wire \o SubSeq(Frame(m), 1, 2)
    PROVE  /\ Len(wire') = 2 * (n + 1)
           /\ Received' = Received \o <<m>>
<1>1. /\ Len(wire') = 2 * n + 2
      /\ \A i \in 1..(2 * n) : wire'[i] = wire[i]
      /\ wire'[2 * n + 1] = [part |-> "header", of |-> m]
      /\ wire'[2 * n + 2] = [part |-> "body", of |-> m]
  <2>1. /\ Len(wire') = Len(wire) + 2
        /\ \A i \in 1..Len(wire) : wire'[i] = wire[i]
        /\ \A i \in 1..2 : wire'[Len(wire) + i] = Frame(m)[i]
    <3>1. 2 \in 1..2
      OBVIOUS
    <3>2. QED
      BY <3>1, WriteAddsParts, Zenon
  <2>2. Frame(m)[1] = [part |-> "header", of |-> m] /\ Frame(m)[2] = [part |-> "body", of |-> m]
    BY DEF Frame
  <2>3. wire'[Len(wire) + 1] = Frame(m)[1] /\ wire'[Len(wire) + 2] = Frame(m)[2]
    <3>1. 1 \in 1..2 /\ 2 \in 1..2
      OBVIOUS
    <3>2. QED
      BY ONLY <2>1, <3>1
  <2>4. QED
    BY ONLY <2>1, <2>2, <2>3, Len(wire) = 2 * n
<1>2. (2 * n) \div 2 = n /\ (2 * n + 2) \div 2 = n + 1
  BY HalfOfTwice
<1>3. Received = [k \in 1..n |->
        IF wire[2 * k - 1].part = "header" /\ wire[2 * k].part = "body"
               /\ wire[2 * k - 1].of = wire[2 * k].of
        THEN wire[2 * k].of ELSE Garbage]
  BY <1>2 DEF Received
<1>4. Received' = [k \in 1..(n + 1) |->
        IF wire'[2 * k - 1].part = "header" /\ wire'[2 * k].part = "body"
               /\ wire'[2 * k - 1].of = wire'[2 * k].of
        THEN wire'[2 * k].of ELSE Garbage]
  BY <1>1, <1>2 DEF Received, Garbage
<1>5. \A k \in 1..n : Received'[k] = Received[k]
  BY <1>1, <1>3, <1>4
<1>6. Received'[n + 1] = m
  <2>1. 2 * (n + 1) - 1 = 2 * n + 1 /\ 2 * (n + 1) = 2 * n + 2 /\ n + 1 \in 1..(n + 1)
    OBVIOUS
  <2>2. /\ wire'[2 * (n + 1) - 1] = [part |-> "header", of |-> m]
        /\ wire'[2 * (n + 1)] = [part |-> "body", of |-> m]
    BY <1>1, <2>1
  <2>3. QED
    BY <1>4, <2>1, <2>2
<1>7. Len(Received) = n /\ <<m>> \in Seq(Messages)
  <2>1. DOMAIN Received = 1..n
    BY <1>3
  <2>2. DOMAIN Received = 1..Len(Received) /\ Len(Received) \in Nat
    BY LenProperties
  <2>3. QED
    BY <2>1, <2>2
<1>8. /\ Received \o <<m>> \in Seq(Messages) /\ Len(Received \o <<m>>) = n + 1
      /\ \A i \in 1..(n + 1) :
            (Received \o <<m>>)[i] = IF i <= n THEN Received[i] ELSE m
  BY <1>7, ConcatProperties
<1>9. Received' \in Seq(Messages) /\ Len(Received') = n + 1
  <2>1. \A k \in 1..(n + 1) : Received'[k] \in Messages
    BY <1>5, <1>6, <1>7, ElementOfSeq
  <2>2. Received' \in [1..(n + 1) -> Messages]
    BY <1>4, <2>1
  <2>3. QED
    BY <2>2
<1>10. \A i \in 1..(n + 1) : Received'[i] = (Received \o <<m>>)[i]
  BY <1>5, <1>6, <1>8
<1>11. QED
  BY <1>1, <1>8, <1>9, <1>10, SeqEqual

----------------------------------------------------------------------------
\* Every step keeps the types and the numbering of the requests.
LEMMA TypeStep ==
    ASSUME IInv, [Next]_vars
    PROVE  TypeOK' /\ IdInv'
<1> USE DEF IInv, IdInv, processVars, requestVars, answerVars
<1>0. nextId \in 1..(MaxSends + 1) /\ Len(sent) \in Nat
  BY DEF TypeOK
<1>1. CASE SendRequest
  <2>1. nextId \in Ids /\ RequestOf(nextId) \in Messages
    BY <1>0, <1>1, RequestIsMessage DEF SendRequest, Send, Ids
  <2>2. /\ queue' \in Seq(Messages) /\ sent' \in Seq(Messages)
        /\ inflight' \in {<<>>} \cup {<<k>> : k \in Messages}
        /\ Len(sent') = Len(sent) + 1
    BY <1>1, <2>1, SendQueuesLast DEF SendRequest
  <2>3. Len(sent) < MaxSends
    BY <1>1 DEF SendRequest, Send
  <2>4. TypeOK'
    <3>1. nextId' \in 1..(MaxSends + 1)
      BY <1>0, <1>1, <2>3 DEF SendRequest
    <3>2. callbacks' \in SUBSET Ids
      BY <1>1, <2>1 DEF SendRequest, TypeOK
    <3>3. QED
      BY <1>1, <2>2, <3>1, <3>2 DEF TypeOK, SendRequest
  <2>5. IdInv'
    <3>1. nextId' = nextId + 1 /\ callbacks' = callbacks \cup {nextId}
      BY <1>1 DEF SendRequest
    <3>2. nextId' <= Len(sent') + 1
      BY <1>0, <2>2, <3>1
    <3>3. Len(sent') <= MaxSends
      BY <1>0, <2>2, <2>3
    <3>4. \A id \in callbacks' : id < nextId'
      <4>1. \A id \in callbacks : id \in Nat
        <5>1. callbacks \subseteq Ids
          BY DEF TypeOK
        <5>2. Ids \subseteq Nat
          BY DEF Ids
        <5>3. QED
          BY <5>1, <5>2
      <4>2. QED
        BY <1>0, <3>1, <4>1
    <3>5. QED
      BY <3>2, <3>3, <3>4
  <2>6. QED
    BY <2>4, <2>5
<1>2. ASSUME NEW m \in Messages, Send(m),
             UNCHANGED <<processVars, wire, requestVars, answerVars>>
      PROVE  TypeOK' /\ IdInv'
  <2>1. /\ queue' \in Seq(Messages) /\ sent' \in Seq(Messages)
        /\ inflight' \in {<<>>} \cup {<<k>> : k \in Messages}
        /\ Len(sent') = Len(sent) + 1
    BY <1>2, SendQueuesLast
  <2>2. Len(sent) < MaxSends
    BY <1>2 DEF Send
  <2>3. TypeOK'
    BY <1>2, <2>1 DEF TypeOK
  <2>4. IdInv'
    <3>1. nextId' = nextId /\ callbacks' = callbacks
      BY <1>2
    <3>2. nextId' <= Len(sent') + 1
      BY <1>0, <2>1, <3>1
    <3>3. Len(sent') <= MaxSends
      BY <1>0, <2>1, <2>2
    <3>4. QED
      BY <3>1, <3>2, <3>3
  <2>5. QED
    BY <2>3, <2>4
<1>3. CASE SendNotification
  BY <1>2, <1>3 DEF SendNotification, Messages
<1>4. ASSUME NEW id \in Ids, CancelRequest(id) PROVE TypeOK' /\ IdInv'
  BY <1>2, <1>4 DEF CancelRequest, Messages
<1>5. ASSUME NEW id \in Ids, Answer(id) PROVE TypeOK' /\ IdInv'
  BY <1>5, SMTT(30) DEF Answer, TypeOK
<1>6. CASE WriteDone \/ WriteFails
  <2>1. PumpWrites(queue, <<>>)
    BY <1>6 DEF WriteDone, WriteFails
  <2>2. queue' \in Seq(Messages) /\ inflight' \in {<<>>} \cup {<<k>> : k \in Messages}
    BY <2>1, PumpKeepsOrder DEF TypeOK
  <2>3. wire' \in Seq(Parts)
    <3>1. CASE WriteDone
      <4>1. PICK n \in 1..2 : wire' = wire \o SubSeq(Frame(Head(inflight)), 1, n)
        BY <3>1 DEF WriteDone
      <4>2. Head(inflight) \in Messages
        BY <3>1 DEF WriteDone, TypeOK
      <4>3. QED
        BY <4>1, <4>2, WriteAddsParts
    <3>2. CASE WriteFails
      BY <3>2 DEF WriteFails, TypeOK, Parts
    <3>3. QED
      BY <1>6, <3>1, <3>2
  <2>4. QED
    BY <1>6, <2>2, <2>3 DEF WriteDone, WriteFails, TypeOK, Parts
<1>7. CASE SubprocessEnds
  BY <1>7 DEF SubprocessEnds, TypeOK
<1>8. CASE Dispatch
  <2>1. answers' \in Seq(Ids)
    BY <1>8, HeadTailProperties DEF Dispatch, TypeOK
  <2>2. called' \in [Ids -> Nat]
    <3>1. Head(answers) \in Ids
      BY <1>8, HeadTailProperties DEF Dispatch, TypeOK
    <3>2. called \in [Ids -> Nat] /\ called[Head(answers)] + 1 \in Nat
      BY <3>1, SMTT(30) DEF TypeOK
    <3>3. called' = called \/ called' = [called EXCEPT ![Head(answers)] = called[Head(answers)] + 1]
      BY <1>8 DEF Dispatch
    <3>4. QED
      BY <3>1, <3>2, <3>3
  <2>3. QED
    BY <1>8, <2>1, <2>2 DEF Dispatch, TypeOK
<1>9. CASE UNCHANGED vars
  BY <1>9 DEF vars, TypeOK
<1>10. QED
  BY <1>1, <1>3, <1>4, <1>5, <1>6, <1>7, <1>8, <1>9 DEF Next

\* Every step puts only requests that were sent under way.
LEMMA KnownStep ==
    ASSUME IInv, [Next]_vars
    PROVE  KnownInv'
<1> USE DEF IInv, KnownInv, processVars, requestVars, answerVars
<1>0. nextId \in Nat /\ Ids \subseteq Nat
  BY DEF TypeOK, Ids
<1>1. ASSUME NEW m \in Messages, Send(m), UNCHANGED <<wire, answered>>,
             nextId' \in Nat, nextId <= nextId',
             \A id \in Ids : m = RequestOf(id) => id < nextId'
      PROVE  KnownInv'
  <2> SUFFICES ASSUME NEW id \in Ids
               PROVE  /\ Underway(RequestOf(id))' => id < nextId'
                      /\ answered[id] > 0 => id < nextId'
    BY <1>1
  <2>1. RequestOf(id) \in Messages /\ RequestOf(id)' = RequestOf(id)
    BY RequestIsMessage DEF RequestOf
  <2>2. Underway(RequestOf(id))' => Underway(RequestOf(id)) \/ m = RequestOf(id)
    BY <1>1, <2>1, SendQueuesLast DEF Underway
  <2>3. QED
    BY <1>0, <1>1, <2>2
<1>2. CASE SendRequest
  <2>1. nextId \in Ids /\ RequestOf(nextId) \in Messages
    BY <1>2, RequestIsMessage DEF SendRequest, Send, Ids, IdInv, TypeOK
  <2>2. \A id \in Ids : RequestOf(nextId) = RequestOf(id) => id = nextId
    BY DEF RequestOf
  <2>3. nextId' = nextId + 1 /\ Send(RequestOf(nextId)) /\ UNCHANGED <<wire, answered>>
    BY <1>2 DEF SendRequest
  <2>4. QED
    BY <1>0, <1>1, <2>1, <2>2, <2>3
<1>3. CASE SendNotification
  <2> DEFINE m == [kind |-> "notification", id |-> 0]
  <2>1. m \in Messages /\ \A id \in Ids : m # RequestOf(id)
    BY DEF Messages, RequestOf
  <2>2. Send(m) /\ UNCHANGED <<wire, answered, nextId>>
    BY <1>3 DEF SendNotification
  <2> HIDE DEF m
  <2>3. QED
    BY <1>0, <1>1, <2>1, <2>2
<1>4. ASSUME NEW j \in Ids, CancelRequest(j) PROVE KnownInv'
  <2> DEFINE m == [kind |-> "cancel", id |-> j]
  <2>1. m \in Messages /\ \A id \in Ids : m # RequestOf(id)
    BY DEF Messages, RequestOf
  <2>2. Send(m) /\ UNCHANGED <<wire, answered, nextId>>
    BY <1>4 DEF CancelRequest
  <2> HIDE DEF m
  <2>3. QED
    BY <1>0, <1>1, <2>1, <2>2
<1>5. ASSUME NEW id \in Ids, Answer(id) PROVE KnownInv'
  <2>1. Underway(RequestOf(id))
    <3>1. PICK k \in 1..(Len(wire) \div 2) : Received[k] = RequestOf(id)
      BY <1>5 DEF Answer, ToSet, Received
    <3>2. Len(wire) \in Nat /\ 2 * k \in 1..Len(wire)
      BY DEF TypeOK
    <3>3. wire[2 * k].of = RequestOf(id)
      BY <3>1 DEF Received, RequestOf, Garbage
    <3>4. QED
      BY <3>2, <3>3 DEF Underway
  <2>2. \A j \in Ids : answered'[j] > 0 => answered[j] > 0 \/ j = id
    BY <1>5 DEF Answer, TypeOK
  <2>3. QED
    BY <1>5, <2>1, <2>2 DEF Answer, Underway, RequestOf
<1>6. CASE WriteDone \/ WriteFails
  <2>1. \A m \in Messages :
          (\E i \in 1..Len(queue') : queue'[i] = m) \/ inflight' = <<m>>
          => \E i \in 1..Len(queue) : queue[i] = m
    BY <1>6, PumpKeepsOrder DEF WriteDone, WriteFails, TypeOK
  <2>2. ASSUME NEW m \in Messages, NEW i \in 1..Len(wire'), wire'[i].of = m
        PROVE  inflight = <<m>> \/ \E j \in 1..Len(wire) : wire[j].of = m
    <3>1. CASE WriteDone
      <4>1. PICK n \in 1..2 : wire' = wire \o SubSeq(Frame(Head(inflight)), 1, n)
        BY <3>1 DEF WriteDone
      <4>2. Head(inflight) \in Messages /\ inflight = <<Head(inflight)>>
        BY <3>1 DEF WriteDone, TypeOK
      <4>3. /\ Len(wire') = Len(wire) + n
            /\ \A j \in 1..Len(wire) : wire'[j] = wire[j]
            /\ \A j \in 1..n : wire'[Len(wire) + j] = Frame(Head(inflight))[j]
        BY <4>1, <4>2, WriteAddsParts
      <4>4. CASE i \in 1..Len(wire)
        BY <2>2, <4>3, <4>4
      <4>5. CASE i \notin 1..Len(wire)
        <5>1. Len(wire) \in Nat
          BY DEF TypeOK
        <5>2. i - Len(wire) \in 1..n /\ i = Len(wire) + (i - Len(wire))
          BY <4>3, <4>5, <5>1
        <5>3. wire'[i] = Frame(Head(inflight))[i - Len(wire)]
          BY <4>3, <5>2
        <5>4. Frame(Head(inflight))[i - Len(wire)].of = Head(inflight)
          BY <5>2 DEF Frame
        <5>5. QED
          BY <2>2, <4>2, <5>3, <5>4
      <4>6. QED
        BY <4>4, <4>5
    <3>2. CASE WriteFails
      BY <2>2, <3>2 DEF WriteFails
    <3>3. QED
      BY <1>6, <3>1, <3>2
  <2>3. \A id \in Ids : Underway(RequestOf(id))' => Underway(RequestOf(id))
    BY <2>1, <2>2, RequestIsMessage DEF Underway, RequestOf
  <2>4. QED
    BY <1>6, <2>3 DEF WriteDone, WriteFails
<1>7. CASE SubprocessEnds \/ Dispatch
  BY <1>7 DEF SubprocessEnds, Dispatch, Underway, RequestOf
<1>8. CASE UNCHANGED vars
  BY <1>8 DEF vars, Underway, RequestOf
<1>9. QED
  BY <1>2, <1>3, <1>4, <1>5, <1>6, <1>7, <1>8 DEF Next

\* Every step that removes a callback calls it, and none is called otherwise.
LEMMA CallbackStep ==
    ASSUME IInv, [Next]_vars
    PROVE  CallbackOnce'
<1> USE DEF IInv, CallbackOnce, processVars, requestVars, answerVars
<1>0. nextId \in Nat /\ Ids \subseteq Nat /\ called \in [Ids -> Nat]
  BY DEF TypeOK, Ids
<1>1. CASE SendRequest
  <2> SUFFICES ASSUME NEW id \in Ids
               PROVE  /\ called[id] = IF id < nextId' /\ id \notin callbacks' THEN 1 ELSE 0
                      /\ id \in callbacks' /\ answered[id] > 0
                         => \E i \in DOMAIN answers : answers[i] = id
    BY <1>1 DEF SendRequest, ToSet
  <2>1. nextId' = nextId + 1 /\ callbacks' = callbacks \cup {nextId}
    BY <1>1 DEF SendRequest
  <2>2. CASE id = nextId
    BY <1>0, <2>1, <2>2 DEF KnownInv, TypeOK
  <2>3. CASE id # nextId
    <3>1. (id < nextId' <=> id < nextId) /\ (id \in callbacks' <=> id \in callbacks)
      BY <1>0, <2>1, <2>3
    <3>2. QED
      BY <3>1 DEF ToSet
  <2>4. QED
    BY <2>2, <2>3
<1>2. CASE SendNotification \/ WriteDone \/ WriteFails \/ SubprocessEnds
  BY <1>2 DEF SendNotification, WriteDone, WriteFails, SubprocessEnds, ToSet
<1>3. ASSUME NEW id \in Ids, CancelRequest(id) PROVE CallbackOnce'
  BY <1>3 DEF CancelRequest, ToSet
<1>4. ASSUME NEW id \in Ids, Answer(id) PROVE CallbackOnce'
  <2>1. /\ answers \in Seq(Ids)
        /\ answers' = Append(answers, id)
        /\ \A i \in 1..Len(answers) : answers'[i] = answers[i]
        /\ answers'[Len(answers) + 1] = id
        /\ Len(answers') = Len(answers) + 1 /\ answers' \in Seq(Ids)
    BY <1>4, AppendProperties DEF Answer, TypeOK
  <2>2. ToSet(answers') = ToSet(answers) \cup {id}
    <3>1. DOMAIN answers = 1..Len(answers) /\ DOMAIN answers' = 1..(Len(answers) + 1)
          /\ Len(answers) \in Nat
      BY <2>1, LenProperties
    <3>2. QED
      BY <2>1, <3>1 DEF ToSet
  <2>3. \A j \in Ids : answered'[j] > 0 => answered[j] > 0 \/ j = id
    BY <1>4 DEF Answer, TypeOK
  <2>4. called' = called /\ nextId' = nextId /\ callbacks' = callbacks
    BY <1>4 DEF Answer
  <2>5. QED
    BY <2>2, <2>3, <2>4
<1>5. CASE Dispatch
  <2> DEFINE h == Head(answers)
  <2>1. /\ h \in Ids /\ answers' = Tail(answers) /\ callbacks' = callbacks \ {h}
        /\ called' = IF h \in callbacks THEN [called EXCEPT ![h] = @ + 1] ELSE called
        /\ nextId' = nextId /\ answered' = answered
    BY <1>5, HeadTailProperties DEF Dispatch, TypeOK
  <2>2. ToSet(answers) \subseteq ToSet(answers') \cup {h}
    <3>1. /\ answers \in Seq(Ids) /\ answers # <<>>
          /\ Len(answers') = Len(answers) - 1 /\ answers' \in Seq(Ids)
          /\ \A i \in 1..Len(answers') : answers'[i] = answers[i + 1]
      BY <1>5, HeadTailProperties DEF Dispatch, TypeOK
    <3>2. DOMAIN answers = 1..Len(answers) /\ DOMAIN answers' = 1..Len(answers')
          /\ Len(answers) \in Nat
      BY <3>1, LenProperties
    <3>3. ASSUME NEW i \in 1..Len(answers), answers[i] # h
          PROVE  \E k \in 1..Len(answers') : answers'[k] = answers[i]
      <4>1. i # 1
        BY <3>3, <3>1
      <4>2. i - 1 \in 1..Len(answers') /\ answers'[i - 1] = answers[i]
        BY <3>1, <3>2, <4>1
      <4>3. QED
        BY <4>2
    <3>4. QED
      BY <3>2, <3>3 DEF ToSet
  <2> HIDE DEF h
  <2>3. h \in callbacks => h < nextId
    BY DEF IdInv
  <2>4. QED
    BY <1>0, <2>1, <2>2, <2>3
<1>6. CASE UNCHANGED vars
  BY <1>6 DEF vars, ToSet
<1>7. QED
  BY <1>1, <1>2, <1>3, <1>4, <1>5, <1>6 DEF Next

\* Every step keeps the messages in order.
LEMMA FrameStep ==
    ASSUME IInv, [Next]_vars
    PROVE  FrameInv'
<1> USE DEF IInv, processVars, requestVars, answerVars
<1>1. CASE SendRequest
  <2>1. nextId \in Ids
    BY <1>1 DEF SendRequest, Send, Ids, IdInv, TypeOK
  <2>2. RequestOf(nextId) \in Messages
    BY <2>1, RequestIsMessage
  <2>3. QED
    BY <1>1, <2>2, SendKeepsFrames DEF SendRequest
<1>2. CASE SendNotification
  <2>1. [kind |-> "notification", id |-> 0] \in Messages
    BY DEF Messages
  <2>2. QED
    BY <1>2, <2>1, SendKeepsFrames DEF SendNotification
<1>3. ASSUME NEW id \in Ids, CancelRequest(id) PROVE FrameInv'
  <2>1. [kind |-> "cancel", id |-> id] \in Messages
    BY DEF Messages
  <2>2. QED
    BY <1>3, <2>1, SendKeepsFrames DEF CancelRequest
<1>4. CASE WriteDone
  <2> SUFFICES ASSUME ~partial
               PROVE  /\ \E n \in Nat : Len(wire') = 2 * n
                      /\ Received' \in Seq(Messages)
                      /\ \E rest \in Seq(Messages) :
                            sent = Received' \o rest /\ rest = inflight' \o queue'
    BY <1>4 DEF FrameInv, WriteDone
  <2>1. PICK m \in Messages : inflight = <<m>> /\ Head(inflight) = m
    BY <1>4 DEF WriteDone, TypeOK
  <2>2. wire' = wire \o SubSeq(Frame(m), 1, 2)
    BY <1>4, <2>1 DEF WriteDone
  <2>3. PICK n \in Nat : Len(wire) = 2 * n
    BY DEF FrameInv
  <2>4. Received \in Seq(Messages)
    BY DEF FrameInv
  <2>5. Len(wire') = 2 * (n + 1) /\ Received' = Received \o <<m>>
    BY <2>2, <2>3, <2>4, WholeFrameIsReceived
  <2>6. queue \in Seq(Messages) /\ <<m>> \in Seq(Messages)
    BY DEF TypeOK
  <2>7. inflight' \o queue' = queue
    <3>1. PumpWrites(queue, <<>>)
      BY <1>4 DEF WriteDone
    <3>2. inflight' \o queue' = <<>> \o queue
      BY <2>6, <3>1, PumpKeepsOrder
    <3>3. QED
      BY <2>6, <3>2, ConcatEmptySeq
  <2>8. sent = Received \o (<<m>> \o queue)
    BY <1>4, <2>1 DEF FrameInv, WriteDone
  <2>9. sent = Received' \o queue
    BY <2>4, <2>5, <2>6, <2>8, ConcatAssociative
  <2>10. Received' \in Seq(Messages)
    BY <2>4, <2>5, <2>6, ConcatProperties
  <2>11. n + 1 \in Nat
    OBVIOUS
  <2>12. QED
    BY <2>5, <2>6, <2>7, <2>9, <2>10, <2>11
<1>5. CASE WriteFails
  BY <1>5 DEF WriteFails, FrameInv, Received
<1>6. CASE SubprocessEnds
  BY <1>6 DEF SubprocessEnds, FrameInv, Received
<1>7. ASSUME NEW id \in Ids, Answer(id) PROVE FrameInv'
  BY <1>7 DEF Answer, FrameInv, Received
<1>8. CASE Dispatch
  BY <1>8 DEF Dispatch, FrameInv, Received
<1>9. CASE UNCHANGED vars
  BY <1>9 DEF vars, FrameInv, Received
<1>10. QED
  BY <1>1, <1>2, <1>3, <1>4, <1>5, <1>6, <1>7, <1>8, <1>9 DEF Next

----------------------------------------------------------------------------
\* The invariant holds of every behaviour.
THEOREM InductiveInvariant == Spec => []IInv
<1>1. IInv /\ [Next]_vars => IInv'
  BY TypeStep, KnownStep, CallbackStep, FrameStep DEF IInv
<1>2. QED
  BY InitEstablishes, <1>1, PTL DEF Spec

\* It has what CallbackOnce says.
LEMMA CallbackStaysOnce == Spec => []CallbackOnce
<1>1. IInv => CallbackOnce
  BY DEF IInv
<1>2. QED
  BY <1>1, InductiveInvariant, PTL

\* From it follows what WritesAreOrdered says: what is received is the beginning
\* of what was sent, and what waits is the rest.
LEMMA WritesStayOrdered == Spec => []WritesAreOrdered
<1>1. IInv => WritesAreOrdered
  <2> SUFFICES ASSUME IInv, ~partial
               PROVE  /\ IsPrefix(Received, sent)
                      /\ alive => Received \o inflight \o queue = sent
    BY DEF WritesAreOrdered
  <2>1. Received \in Seq(Messages)
    BY DEF IInv, FrameInv
  <2>2. PICK rest \in Seq(Messages) :
          sent = Received \o rest /\ (alive => rest = inflight \o queue)
    BY DEF IInv, FrameInv
  <2>3. IsPrefix(Received, sent)
    <3>1. /\ sent \in Seq(Messages) /\ Len(sent) = Len(Received) + Len(rest)
          /\ \A i \in 1..Len(Received) : sent[i] = Received[i]
      BY <2>1, <2>2, ConcatProperties
    <3>2. Len(Received) \in Nat /\ Len(rest) \in Nat
      BY <2>1
    <3>3. SubSeq(Received, 1, Len(Received)) = SubSeq(sent, 1, Len(Received))
      <4>1. \A i \in 1..Len(Received) : Received[i] \in Messages
        BY <2>1
      <4>2. /\ SubSeq(Received, 1, Len(Received)) \in Seq(Messages)
            /\ Len(SubSeq(Received, 1, Len(Received))) = Len(Received)
            /\ \A i \in 1..Len(Received) :
                  SubSeq(Received, 1, Len(Received))[i] = Received[i]
        BY <3>2, <4>1, SubSeqProperties
      <4>3. /\ SubSeq(sent, 1, Len(Received)) \in Seq(Messages)
            /\ Len(SubSeq(sent, 1, Len(Received))) = Len(Received)
            /\ \A i \in 1..Len(Received) :
                  SubSeq(sent, 1, Len(Received))[i] = sent[i]
        BY <3>1, <3>2, <4>1, SubSeqProperties
      <4>4. QED
        BY <3>1, <4>2, <4>3, SeqEqual
    <3>4. QED
      BY <3>1, <3>2, <3>3 DEF IsPrefix
  <2>4. ASSUME alive PROVE Received \o inflight \o queue = sent
    <3>1. inflight \in Seq(Messages) /\ queue \in Seq(Messages)
      <4>1. \A k \in Messages : <<k>> \in Seq(Messages)
        OBVIOUS
      <4>2. <<>> \in Seq(Messages)
        BY EmptySeq
      <4>3. QED
        BY <4>1, <4>2 DEF IInv, TypeOK
    <3>2. sent = Received \o (inflight \o queue)
      BY <2>2, <2>4
    <3>3. (Received \o inflight) \o queue = Received \o (inflight \o queue)
      BY <2>1, <3>1, ConcatAssociative, SMTT(20)
    <3>4. QED
      BY <3>2, <3>3
  <2>5. QED
    BY <2>3, <2>4
<1>2. QED
  BY <1>1, InductiveInvariant, PTL

----------------------------------------------------------------------------
(***************************************************************************)
(* The two halves together: a step of the one leaves the other as it is.   *)
(***************************************************************************)
\* What is written does not depend on the reading half.
LEMMA WritingHalf == TransportSpec => Spec
<1>1. TransportInit => Init
  BY DEF TransportInit
<1>2. [TransportNext]_transportVars => [Next]_vars
  BY DEF TransportNext, ReadingStep, WritingStep, transportVars
<1>3. QED
  BY <1>1, <1>2, PTL DEF TransportSpec, Spec

\* The reader knows its place in the stream, in every behaviour.
THEOREM ReaderInvariant == TransportSpec => []ReadingInv
<1>1. TransportInit => ReadingInv
  <2> SUFFICES ASSUME TransportInit PROVE ReadingInv
    OBVIOUS
  <2>1. CASE half = "reading"
    <3>1. /\ script \in Scripts /\ printed \in Prints /\ short \in ShortReads
          /\ unsent = Stream(script) /\ pipe = <<>> /\ closed = FALSE
          /\ decoder = EmptyDecoder /\ loop = "line" /\ delivered = <<>> /\ refused = FALSE
      BY <2>1 DEF TransportInit, ReadingInit
    <3>2. printed \in Seq(OtherSymbols) /\ short \in BOOLEAN
      BY <3>1, PrintsAssumption, ShortReadsAssumption
    <3>3. QED
      BY <3>1, <3>2, NothingRead
  <2>2. CASE half # "reading"
    <3>1. /\ script = <<>> /\ printed = <<>> /\ short = FALSE
          /\ unsent = <<>> /\ pipe = <<>> /\ closed = FALSE
          /\ decoder = EmptyDecoder /\ loop = "line" /\ delivered = <<>> /\ refused = FALSE
      BY <2>2 DEF TransportInit
    <3>2. printed \in Seq(OtherSymbols)
      BY <3>1
    <3>3. Stream(script) = <<>>
      <4>1. Framable
        BY <3>1, <3>2, ScriptsAreFramable
      <4>2. RestAfter(Stream(script), 0)
        BY <4>1, TailStart
      <4>3. Len(script) = 0
        BY <3>1
      <4>4. QED
        BY <4>1, <4>2, <4>3, TailEnds
    <3>4. QED
      BY <3>1, <3>2, <3>3, NothingRead
  <2>3. QED
    BY <2>1, <2>2
<1>2. ReadingInv /\ [TransportNext]_transportVars => ReadingInv'
  <2> SUFFICES ASSUME ReadingInv, [TransportNext]_transportVars PROVE ReadingInv'
    OBVIOUS
  <2>1. [ReadingNext]_readingVars
    BY DEF TransportNext, ReadingStep, WritingStep, transportVars
  <2>2. QED
    BY <2>1, ReadingNextKeeps
<1>3. QED
  BY <1>1, <1>2, PTL DEF TransportSpec

\* Messages are delivered in the order of the script, none twice, none skipped,
\* none altered, however the pipe cuts the stream, and while the server lives
\* nothing else is taken for a message.
THEOREM MessagesAreDeliveredAsWritten == TransportSpec => []DeliveredAsWritten
BY ReaderInvariant, InvDelivers, PTL

\* A loop that still reads has lost no byte of the stream.
THEOREM NothingIsLost == TransportSpec => []NothingLost
BY ReaderInvariant, InvLosesNothing, PTL

\* The client stops reading from a server that lives for one of four reasons.
THEOREM DeafnessHasAReason == TransportSpec => []DeafForAReason
<1>1. ReadingInv => DeafForAReason
  BY DEF ReadingInv
<1>2. QED
  BY <1>1, ReaderInvariant, PTL

\* The callback of a request is called at most once, and waits until then.
THEOREM CallbackIsCalledOnce == TransportSpec => []CallbackOnce
BY WritingHalf, CallbackStaysOnce, PTL

\* Whole writes bring the messages to the server in the order of their sending,
\* and none is lost while it lives.
THEOREM MessagesLeaveInOrder == TransportSpec => []WritesAreOrdered
BY WritingHalf, WritesStayOrdered, PTL
=============================================================================
