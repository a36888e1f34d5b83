--------------------------- MODULE TextEditsProofs --------------------------
(***************************************************************************)
(* EditsMatchMeaning of TextEdits, for texts of any length and any number  *)
(* of disjoint edits.  FeaturesProofs makes it a theorem about Features.   *)
(*                                                                         *)
(* The argument.  Positions: the position of an iterator leads back to it  *)
(* (IteratorIsFound), and does so in every text with the same characters   *)
(* up to there (SamePosition), since a line is known by what is before it  *)
(* and the units of a line grow with the characters (UnitsGrow).  Order:   *)
(* sorting makes the edits go from the right to the left (DescendingIs),   *)
(* so the text to the left of the last one applied is still the original.  *)
(* Meaning: what the server means is built place by place from the left    *)
(* (MeantIsBuilt); an edit adds its new text there, and the characters up  *)
(* to the next edit are copied (OneMeans, NoneMeans).                      *)
(*                                                                         *)
(* The invariant, TextInv, ties both: after k edits the buffer is what the *)
(* text was before the last one applied, and w; what the server means is   *)
(* what it means by that part, and the same w.                             *)
(***************************************************************************)
EXTENDS TextEdits, Induction, FiniteSetTheorems, SequenceTheorems

----------------------------------------------------------------------------
(***************************************************************************)
(* Lines.                                                                  *)
(***************************************************************************)
\* The line starts before i, and up to it.
StartsBefore(t, i) == {j \in LineStarts(t) : j < i}

StartsUpTo(t, i) == {j \in LineStarts(t) : j <= i}

\* There are finitely many, at iterators of the text.
LEMMA StartsAreFinite ==
    ASSUME NEW t \in Seq(Characters)
    PROVE  /\ LineStarts(t) \subseteq 0..Len(t)
           /\ IsFiniteSet(LineStarts(t))
           /\ \A i : /\ IsFiniteSet(StartsBefore(t, i)) /\ IsFiniteSet(StartsUpTo(t, i))
                     /\ Cardinality(StartsBefore(t, i)) \in Nat
                     /\ Cardinality(StartsUpTo(t, i)) \in Nat
                     /\ Cardinality(StartsUpTo(t, i)) <= Cardinality(LineStarts(t))
           /\ Cardinality(LineStarts(t)) \in Nat
<1>1. Len(t) \in Nat /\ DOMAIN t = 1..Len(t)
  BY LenProperties
<1>2. LineStarts(t) \subseteq 0..Len(t)
  BY <1>1 DEF LineStarts
<1>3. IsFiniteSet(LineStarts(t))
  <2>1. IsFiniteSet(0..Len(t))
    BY <1>1, FS_Interval
  <2>2. QED
    BY <1>2, <2>1, FS_Subset
<1>4. \A i : StartsBefore(t, i) \in SUBSET LineStarts(t) /\ StartsUpTo(t, i) \in SUBSET LineStarts(t)
  BY DEF StartsBefore, StartsUpTo
<1>5. QED
  BY <1>2, <1>3, <1>4, FS_Subset, FS_CardinalityType

\* A set that has all of another, and something more, is larger.
LEMMA Larger ==
    ASSUME NEW S, NEW T, IsFiniteSet(T), S \subseteq T, NEW x \in T, x \notin S
    PROVE  Cardinality(S) < Cardinality(T) /\ Cardinality(S) \in Nat /\ Cardinality(T) \in Nat
<1>1. S \in SUBSET T
  OBVIOUS
<1>2. IsFiniteSet(S) /\ Cardinality(S) <= Cardinality(T) /\ (Cardinality(T) = Cardinality(S) => T = S)
  BY <1>1, FS_Subset
<1>3. Cardinality(S) \in Nat /\ Cardinality(T) \in Nat
  BY <1>2, FS_CardinalityType
<1>4. QED
  BY <1>2, <1>3

\* Behind an iterator there is no earlier line.
LEMMA LinesInOrder ==
    ASSUME NEW t \in Seq(Characters), NEW i \in Nat, NEW j \in Nat, i <= j
    PROVE  LineOf(t, i) <= LineOf(t, j) /\ LineOf(t, i) \in Int /\ LineOf(t, j) \in Int
<1>1. StartsUpTo(t, i) \in SUBSET StartsUpTo(t, j) /\ IsFiniteSet(StartsUpTo(t, j))
  <2>1. LineStarts(t) \subseteq Int
    BY StartsAreFinite, LenProperties
  <2>2. StartsUpTo(t, i) \in SUBSET StartsUpTo(t, j)
    BY <2>1 DEF StartsUpTo
  <2>3. QED
    BY <2>2, StartsAreFinite
<1>2. /\ Cardinality(StartsUpTo(t, i)) <= Cardinality(StartsUpTo(t, j))
      /\ Cardinality(StartsUpTo(t, i)) \in Nat /\ Cardinality(StartsUpTo(t, j)) \in Nat
  BY <1>1, FS_Subset, StartsAreFinite
<1>3. QED
  BY <1>2 DEF LineOf, StartsUpTo

\* The line of an iterator starts at the last line start that is not behind it.
StartsLast(t, s, it) ==
    /\ s \in LineStarts(t) /\ s <= it
    /\ \A j \in LineStarts(t) : j <= it => j <= s

\* There is one.
LEMMA SomeStartsLast ==
    ASSUME NEW t \in Seq(Characters), NEW it \in Nat
    PROVE  \E s \in 0..it : StartsLast(t, s, it)
<1> DEFINE T == {k \in 0..it : it - k \in LineStarts(t)}
<1>1. LineStarts(t) \subseteq 0..Len(t) /\ Len(t) \in Nat /\ 0 \in LineStarts(t)
  BY StartsAreFinite, LenProperties DEF LineStarts
<1>2. T \subseteq Nat /\ it \in T
  BY <1>1
<1>3. PICK k \in T : \A l \in T : k <= l
  <2> HIDE DEF T
  <2>1. QED
    BY <1>2, LeastNumber
<1>4. \A j \in LineStarts(t) : j <= it => j <= it - k
  <2>1. ASSUME NEW j \in LineStarts(t), j <= it PROVE j <= it - k
    <3>1. j \in Nat /\ it - j \in 0..it /\ it - (it - j) = j
      BY <1>1, <2>1
    <3>2. it - j \in T
      BY <3>1
    <3>3. k <= it - j /\ k \in 0..it
      BY <1>3, <3>2
    <3>4. QED
      BY <3>1, <3>3
  <2>2. QED
    BY <2>1
<1>5. it - k \in 0..it /\ it - k \in LineStarts(t) /\ it - k <= it
  BY <1>3
<1>6. QED
  BY <1>4, <1>5 DEF StartsLast

\* LineStart finds it.
LEMMA StartOfLine ==
    ASSUME NEW t \in Seq(Characters), NEW it \in Nat, NEW s \in Nat, StartsLast(t, s, it)
    PROVE  /\ LineStart(t, LineOf(t, it)) = s
           /\ LineOf(t, it) \in Nat
           /\ LineOf(t, it) < Cardinality(LineStarts(t))
           /\ \A x \in s..it : LineOf(t, x) = LineOf(t, it)
<1> DEFINE line == LineOf(t, it)
<1>1. /\ LineStarts(t) \subseteq 0..Len(t) /\ Len(t) \in Nat
      /\ \A i : IsFiniteSet(StartsBefore(t, i)) /\ IsFiniteSet(StartsUpTo(t, i))
      /\ Cardinality(StartsUpTo(t, it)) \in Nat
      /\ Cardinality(StartsUpTo(t, it)) <= Cardinality(LineStarts(t))
      /\ Cardinality(LineStarts(t)) \in Nat
  BY StartsAreFinite, LenProperties
<1>2. s \in StartsUpTo(t, it) /\ StartsBefore(t, s) = StartsUpTo(t, it) \ {s}
  <2>1. s \in StartsUpTo(t, it)
    BY DEF StartsLast, StartsUpTo
  <2>2. \A j \in LineStarts(t) : j < s <=> (j <= it /\ j # s)
    BY <1>1 DEF StartsLast
  <2>3. QED
    BY <2>1, <2>2 DEF StartsBefore, StartsUpTo
<1>3. Cardinality(StartsBefore(t, s)) = Cardinality(StartsUpTo(t, it)) - 1
  <2>1. IsFiniteSet(StartsUpTo(t, it))
    BY StartsAreFinite
  <2> DEFINE S == StartsUpTo(t, it)
  <2> HIDE DEF S
  <2>2. Cardinality(S \ {s}) = IF s \in S THEN Cardinality(S) - 1 ELSE Cardinality(S)
    BY <2>1, FS_RemoveElement DEF S
  <2>3. QED
    BY <1>2, <2>2 DEF S
<1>4. line = Cardinality(StartsBefore(t, s))
  BY <1>3 DEF LineOf, StartsUpTo
<1>5. line \in Nat /\ line < Cardinality(LineStarts(t))
  <2>1. Cardinality(StartsBefore(t, s)) \in Nat
    BY StartsAreFinite
  <2>2. QED
    BY <1>1, <1>3, <1>4, <2>1
<1>6. ASSUME NEW i \in LineStarts(t), Cardinality(StartsBefore(t, i)) = line
      PROVE  i = s
  <2>1. s \in LineStarts(t) /\ i \in Nat
    BY <1>1 DEF StartsLast
  <2>2. CASE i < s
    <3>1. StartsBefore(t, i) \subseteq StartsBefore(t, s) /\ i \in StartsBefore(t, s)
          /\ i \notin StartsBefore(t, i)
      BY <1>1, <2>1, <2>2 DEF StartsBefore
    <3>2. QED
      BY <1>1, <1>4, <1>6, <3>1, Larger
  <2>3. CASE s < i
    <3>1. StartsBefore(t, s) \subseteq StartsBefore(t, i) /\ s \in StartsBefore(t, i)
          /\ s \notin StartsBefore(t, s)
      BY <1>1, <2>1, <2>3 DEF StartsBefore
    <3>2. QED
      BY <1>1, <1>4, <1>6, <3>1, Larger
  <2>4. QED
    BY <2>1, <2>2, <2>3
<1>7. LineStart(t, line) = s
  <2>1. s \in LineStarts(t) /\ Cardinality({j \in LineStarts(t) : j < s}) = line
    BY <1>4 DEF StartsLast, StartsBefore
  <2>2. \A i \in LineStarts(t) : Cardinality({j \in LineStarts(t) : j < i}) = line => i = s
    BY <1>6 DEF StartsBefore
  <2> HIDE DEF line
  <2>3. QED
    BY <2>1, <2>2 DEF LineStart
<1>8. ASSUME NEW x \in s..it PROVE LineOf(t, x) = line
  <2>1. StartsUpTo(t, x) = StartsUpTo(t, it)
    BY <1>1 DEF StartsUpTo, StartsLast
  <2>2. QED
    BY <2>1 DEF LineOf, StartsUpTo
<1>9. QED
  BY <1>5, <1>7, <1>8

----------------------------------------------------------------------------
(***************************************************************************)
(* Units.                                                                  *)
(***************************************************************************)
\* The characters from a to b.
LEMMA PartIs ==
    ASSUME NEW t \in Seq(Characters), NEW a \in 0..Len(t), NEW b \in a..Len(t)
    PROVE  /\ SubSeq(t, a + 1, b) \in Seq(Characters)
           /\ Len(SubSeq(t, a + 1, b)) = b - a
           /\ \A i \in 1..(b - a) : SubSeq(t, a + 1, b)[i] = t[a + i]
<1> DEFINE u == SubSeq(t, a + 1, b)
<1>1. Len(t) \in Nat /\ a \in Nat /\ b \in Nat /\ a <= b
  BY LenProperties
<1>2. \A i \in (a + 1)..b : t[i] \in Characters
  BY <1>1, ElementOfSeq
<1>3. /\ u \in Seq(Characters)
      /\ Len(u) = IF a + 1 <= b THEN b - (a + 1) + 1 ELSE 0
      /\ \A i \in 1..(b - (a + 1) + 1) : u[i] = t[a + 1 + i - 1]
  BY <1>1, <1>2, SubSeqProperties
<1> HIDE DEF u
<1>4. Len(u) = b - a /\ b - (a + 1) + 1 = b - a
  BY <1>1, <1>3
<1>5. \A i \in 1..(b - a) : u[i] = t[a + i]
  <2>1. \A i \in 1..(b - a) : a + 1 + i - 1 = a + i
    BY <1>1
  <2>2. QED
    BY <1>3, <1>4, <2>1
<1>6. QED
  BY <1>3, <1>4, <1>5 DEF u

\* There are more units up to a later iterator.
LEMMA UnitsGrow ==
    ASSUME NEW t \in Seq(Characters), NEW a \in 0..Len(t), NEW x \in a..Len(t),
           NEW y \in x..Len(t)
    PROVE  /\ x < y => Units(SubSeq(t, a + 1, x)) < Units(SubSeq(t, a + 1, y))
           /\ Units(SubSeq(t, a + 1, x)) \in Nat /\ Units(SubSeq(t, a + 1, y)) \in Nat
<1> DEFINE u == SubSeq(t, a + 1, x)
           v == SubSeq(t, a + 1, y)
           U == {i \in DOMAIN u : u[i] = "W"}
           V == {i \in DOMAIN v : v[i] = "W"}
<1>1. /\ Len(t) \in Nat /\ a \in Nat /\ x \in Nat /\ y \in Nat /\ a <= x /\ x <= y
      /\ y \in a..Len(t)
  BY LenProperties
<1>2. /\ u \in Seq(Characters) /\ Len(u) = x - a /\ \A i \in 1..(x - a) : u[i] = t[a + i]
      /\ v \in Seq(Characters) /\ Len(v) = y - a /\ \A i \in 1..(y - a) : v[i] = t[a + i]
  BY <1>1, PartIs
<1> HIDE DEF u, v
<1>3. DOMAIN u = 1..(x - a) /\ DOMAIN v = 1..(y - a)
  BY <1>2, LenProperties
<1>4. U \in SUBSET V /\ V \in SUBSET (1..(y - a))
  <2>1. 1..(x - a) \subseteq 1..(y - a)
    BY <1>1
  <2>2. \A i \in 1..(x - a) : u[i] = v[i]
    BY <1>2, <2>1
  <2>3. QED
    BY <1>3, <2>1, <2>2
<1>5. IsFiniteSet(V)
  <2> HIDE DEF V
  <2>1. IsFiniteSet(1..(y - a))
    BY <1>1, FS_Interval
  <2>2. QED
    BY <1>4, <2>1, FS_Subset
<1>6. IsFiniteSet(U) /\ Cardinality(U) <= Cardinality(V)
  <2> HIDE DEF U, V
  <2>1. QED
    BY <1>4, <1>5, FS_Subset
<1>7. Cardinality(U) \in Nat /\ Cardinality(V) \in Nat
  BY <1>5, <1>6, FS_CardinalityType
<1>8. Units(u) = x - a + Cardinality(U) /\ Units(v) = y - a + Cardinality(V)
  BY <1>2 DEF Units
<1> HIDE DEF U, V
<1>9. (x < y => Units(u) < Units(v)) /\ Units(u) \in Nat /\ Units(v) \in Nat
  BY <1>1, <1>6, <1>7, <1>8
<1>10. QED
  BY <1>9 DEF u, v

----------------------------------------------------------------------------
(***************************************************************************)
(* Positions.                                                              *)
(***************************************************************************)
\* The first n characters of both texts are the same.
SameUpTo(t, u, n) == n <= Len(t) /\ n <= Len(u) /\ \A i \in 1..n : t[i] = u[i]

\* A line starts at the same place in both, if that is in what is the same.
LEMMA SameStart ==
    ASSUME NEW t \in Seq(Characters), NEW u \in Seq(Characters), NEW it \in Nat,
           SameUpTo(t, u, it), NEW s, StartsLast(t, s, it)
    PROVE  StartsLast(u, s, it) /\ s \in 0..it
<1>1. /\ LineStarts(t) \subseteq 0..Len(t) /\ LineStarts(u) \subseteq 0..Len(u)
      /\ Len(t) \in Nat /\ Len(u) \in Nat /\ DOMAIN t = 1..Len(t) /\ DOMAIN u = 1..Len(u)
  BY StartsAreFinite, LenProperties
<1>2. \A i \in 1..it : i \in DOMAIN t /\ i \in DOMAIN u /\ t[i] = u[i]
  BY <1>1 DEF SameUpTo
<1>3. \A i \in 0..it : i \in LineStarts(t) <=> i \in LineStarts(u)
  BY <1>2 DEF LineStarts
<1>4. s \in 0..it /\ s \in LineStarts(u)
  BY <1>1, <1>3 DEF StartsLast
<1>5. \A j \in LineStarts(u) : j <= it => j <= s
  BY <1>1, <1>3 DEF StartsLast
<1>6. QED
  BY <1>4, <1>5 DEF StartsLast

\* The lines up to there have the same numbers.
LEMMA SameLine ==
    ASSUME NEW t \in Seq(Characters), NEW u \in Seq(Characters), NEW it \in Nat,
           SameUpTo(t, u, it)
    PROVE  LineOf(t, it) = LineOf(u, it)
<1>1. /\ LineStarts(t) \subseteq 0..Len(t) /\ LineStarts(u) \subseteq 0..Len(u)
      /\ Len(t) \in Nat /\ Len(u) \in Nat /\ DOMAIN t = 1..Len(t) /\ DOMAIN u = 1..Len(u)
  BY StartsAreFinite, LenProperties
<1>2. \A i \in 1..it : i \in DOMAIN t /\ i \in DOMAIN u /\ t[i] = u[i]
  BY <1>1 DEF SameUpTo
<1>3. \A i \in 0..it : i \in LineStarts(t) <=> i \in LineStarts(u)
  BY <1>2 DEF LineStarts
<1>4. StartsUpTo(t, it) = StartsUpTo(u, it)
  BY <1>1, <1>3 DEF StartsUpTo
<1>5. QED
  BY <1>4 DEF LineOf, StartsUpTo

\* The position of an iterator, by the start of its line.
LEMMA PositionIs ==
    ASSUME NEW t \in Seq(Characters), NEW it \in 0..Len(t), NEW s \in 0..it,
           StartsLast(t, s, it)
    PROVE  TextIterToUtf16(t, it) = <<LineOf(t, it), Units(SubSeq(t, s + 1, it))>>
<1>1. it \in Nat /\ s \in Nat
  BY LenProperties
<1>2. QED
  BY <1>1, StartOfLine DEF TextIterToUtf16

\* The text behind an iterator does not matter for its position.
LEMMA SamePosition ==
    ASSUME NEW t \in Seq(Characters), NEW u \in Seq(Characters), NEW it \in Nat,
           SameUpTo(t, u, it)
    PROVE  TextIterToUtf16(t, it) = TextIterToUtf16(u, it)
<1>1. PICK s \in 0..it : StartsLast(t, s, it)
  BY SomeStartsLast
<1>2. StartsLast(u, s, it)
  BY <1>1, SameStart
<1>3. /\ Len(t) \in Nat /\ Len(u) \in Nat /\ it <= Len(t) /\ it <= Len(u)
      /\ \A i \in 1..it : t[i] = u[i]
  BY LenProperties DEF SameUpTo
<1>4. SubSeq(t, s + 1, it) = SubSeq(u, s + 1, it)
  <2> DEFINE a == SubSeq(t, s + 1, it)
             b == SubSeq(u, s + 1, it)
  <2>1. /\ s \in 0..Len(t) /\ it \in s..Len(t) /\ s \in 0..Len(u) /\ it \in s..Len(u)
    BY <1>3
  <2>2. /\ a \in Seq(Characters) /\ Len(a) = it - s /\ \A i \in 1..(it - s) : a[i] = t[s + i]
        /\ b \in Seq(Characters) /\ Len(b) = it - s /\ \A i \in 1..(it - s) : b[i] = u[s + i]
    BY <2>1, PartIs
  <2> HIDE DEF a, b
  <2>3. \A i \in 1..(it - s) : s + i \in 1..it
    OBVIOUS
  <2>4. \A i \in 1..Len(a) : a[i] = b[i]
    BY <1>3, <2>2, <2>3
  <2>5. a = b
    BY <2>2, <2>4, SeqEqual
  <2>6. QED
    BY <2>5 DEF a, b
<1>5. it \in 0..Len(t) /\ it \in 0..Len(u)
  BY <1>3
<1>6. QED
  BY <1>1, <1>2, <1>4, <1>5, SameLine, PositionIs

\* utf16_to_text_iter gives the iterator whose position it is.
LEMMA PositionIsFound ==
    ASSUME NEW t \in Seq(Characters), NEW it \in 0..Len(t)
    PROVE  Utf16ToTextIter(t, TextIterToUtf16(t, it)) = it
<1>1. Len(t) \in Nat /\ it \in Nat /\ it <= Len(t)
  BY LenProperties
<1>2. PICK s \in 0..it : StartsLast(t, s, it)
  BY <1>1, SomeStartsLast
<1> DEFINE line == LineOf(t, it)
           upTo(x) == Units(SubSeq(t, s + 1, x))
           here == {x \in s..Len(t) : LineOf(t, x) = line}
           At(x) == /\ upTo(x) >= upTo(it) \/ x + 1 \notin here
                    /\ \A other \in s..(x - 1) : upTo(other) < upTo(it)
<1>3. /\ LineStart(t, line) = s /\ line \in Nat /\ line < Cardinality(LineStarts(t))
      /\ \A x \in s..it : LineOf(t, x) = line
  BY <1>1, <1>2, StartOfLine
<1>4. TextIterToUtf16(t, it) = <<line, upTo(it)>>
  BY <1>2, PositionIs
<1>5. ASSUME NEW x \in s..Len(t), NEW y \in x..Len(t)
      PROVE  upTo(x) \in Nat /\ upTo(y) \in Nat /\ (x < y => upTo(x) < upTo(y))
  <2>1. s \in 0..Len(t)
    BY <1>1
  <2>2. QED
    BY <2>1, UnitsGrow
<1> HIDE DEF upTo
<1>6. it \in here /\ At(it)
  <2>1. it \in here
    BY <1>1
  <2>2. upTo(it) >= upTo(it)
    BY <1>1, <1>5
  <2>3. \A other \in s..(it - 1) : upTo(other) < upTo(it)
    BY <1>1, <1>5
  <2>4. QED
    BY <2>1, <2>2, <2>3
<1>7. ASSUME NEW x \in here, At(x) PROVE x = it
  <2>1. x \in s..Len(t) /\ x \in Nat
    BY <1>1
  <2>2. CASE x < it
    <3>1. it \in x..Len(t) /\ x + 1 \in s..it /\ x + 1 \in s..Len(t)
      BY <1>1, <2>1, <2>2
    <3>2. upTo(x) < upTo(it) /\ upTo(x) \in Nat /\ upTo(it) \in Nat
      BY <1>5, <2>1, <2>2, <3>1
    <3>3. x + 1 \in here
      BY <1>3, <3>1
    <3>4. QED
      BY <1>7, <3>2, <3>3
  <2>3. CASE it < x
    <3>1. it \in s..(x - 1) /\ it \in s..Len(t)
      BY <1>1, <2>1, <2>3
    <3>2. upTo(it) < upTo(it) /\ upTo(it) \in Nat
      BY <1>5, <1>7, <3>1
    <3>3. QED
      BY <3>2
  <2>4. QED
    BY <1>1, <2>1, <2>2, <2>3
<1>8. it = CHOOSE x \in here : At(x)
  <2> HIDE DEF here, At
  <2>1. QED
    BY <1>6, <1>7
<1>9. Utf16ToTextIter(t, <<line, upTo(it)>>) = CHOOSE x \in here : At(x)
  <2>1. ~(line >= Cardinality(LineStarts(t)))
    <3>1. Cardinality(LineStarts(t)) \in Nat
      BY StartsAreFinite
    <3> HIDE DEF line
    <3>2. QED
      BY <1>3, <3>1
  <2>2. QED
    BY <1>3, <2>1 DEF Utf16ToTextIter, upTo
<1>10. QED
  BY <1>4, <1>8, <1>9

\* The edits behind an iterator do not move it.
LEMMA IteratorIsFound ==
    ASSUME NEW t \in Seq(Characters), NEW u \in Seq(Characters), NEW it \in Nat,
           SameUpTo(t, u, it)
    PROVE  Utf16ToTextIter(u, TextIterToUtf16(t, it)) = it
<1>1. it \in 0..Len(u)
  BY LenProperties DEF SameUpTo
<1>2. QED
  BY <1>1, SamePosition, PositionIsFound

\* The line behind the last is the end of the text.
LEMMA BehindLastIsEnd ==
    ASSUME NEW t \in Seq(Characters)
    PROVE  Utf16ToTextIter(t, BehindLast(t)) = Len(t)
<1>1. Cardinality(LineStarts(t)) \in Nat
  BY StartsAreFinite
<1>2. QED
  BY <1>1 DEF Utf16ToTextIter, BehindLast

\* Positions are in the order of their iterators.
LEMMA PositionsInOrder ==
    ASSUME NEW t \in Seq(Characters), NEW i \in 0..Len(t), NEW j \in 0..Len(t)
    PROVE  /\ Before(TextIterToUtf16(t, i), TextIterToUtf16(t, j)) <=> i < j
           /\ TextIterToUtf16(t, i) = TextIterToUtf16(t, j) => i = j
<1>1. /\ Len(t) \in Nat /\ i \in Nat /\ j \in Nat
      /\ Utf16ToTextIter(t, TextIterToUtf16(t, i)) = i
      /\ Utf16ToTextIter(t, TextIterToUtf16(t, j)) = j
  BY LenProperties, PositionIsFound
<1>2. ASSUME NEW x \in 0..Len(t), NEW y \in 0..Len(t), x < y
      PROVE  /\ Before(TextIterToUtf16(t, x), TextIterToUtf16(t, y))
             /\ ~Before(TextIterToUtf16(t, y), TextIterToUtf16(t, x))
  <2>1. x \in Nat /\ y \in Nat /\ x <= Len(t) /\ y <= Len(t)
    BY <1>1
  <2>2. PICK r \in 0..x : StartsLast(t, r, x)
    BY <2>1, SomeStartsLast
  <2>3. PICK s \in 0..y : StartsLast(t, s, y)
    BY <2>1, SomeStartsLast
  <2> DEFINE p == TextIterToUtf16(t, x)
             q == TextIterToUtf16(t, y)
  <2>4. /\ p = <<LineOf(t, x), Units(SubSeq(t, r + 1, x))>>
        /\ q = <<LineOf(t, y), Units(SubSeq(t, s + 1, y))>>
    BY <2>2, <2>3, PositionIs
  <2>5. LineOf(t, x) <= LineOf(t, y) /\ LineOf(t, x) \in Int /\ LineOf(t, y) \in Int
    BY <1>2, <2>1, LinesInOrder
  <2> HIDE DEF p, q
  <2>6. CASE LineOf(t, x) < LineOf(t, y)
    BY <2>4, <2>5, <2>6 DEF Before, p, q
  <2>7. CASE LineOf(t, x) = LineOf(t, y)
    <3>1. r = s
      <4>1. LineStart(t, LineOf(t, x)) = r
        BY <2>1, <2>2, StartOfLine
      <4>2. LineStart(t, LineOf(t, y)) = s
        BY <2>1, <2>3, StartOfLine
      <4>3. QED
        BY <2>7, <4>1, <4>2
    <3>2. r \in 0..Len(t) /\ x \in r..Len(t) /\ y \in x..Len(t)
      BY <1>1, <1>2, <2>1
    <3>3. /\ Units(SubSeq(t, r + 1, x)) < Units(SubSeq(t, r + 1, y))
          /\ Units(SubSeq(t, r + 1, x)) \in Nat /\ Units(SubSeq(t, r + 1, y)) \in Nat
      BY <1>2, <3>2, UnitsGrow
    <3> DEFINE m == Units(SubSeq(t, r + 1, x))
               n == Units(SubSeq(t, r + 1, y))
               line == LineOf(t, x)
    <3>4. p = <<line, m>> /\ q = <<line, n>> /\ m < n /\ m \in Nat /\ n \in Nat /\ line \in Int
      BY <2>4, <2>5, <2>7, <3>1, <3>3
    <3> HIDE DEF m, n, line
    <3>5. Before(p, q) /\ ~Before(q, p)
      BY <3>4 DEF Before
    <3>6. QED
      BY <3>5 DEF p, q
  <2>8. QED
    BY <2>5, <2>6, <2>7
<1>3. i = j => ~Before(TextIterToUtf16(t, i), TextIterToUtf16(t, j))
  <2>1. PICK r \in 0..i : StartsLast(t, r, i)
    BY <1>1, SomeStartsLast
  <2>2. TextIterToUtf16(t, i) = <<LineOf(t, i), Units(SubSeq(t, r + 1, i))>>
    BY <2>1, PositionIs
  <2>3. LineOf(t, i) \in Int /\ Units(SubSeq(t, r + 1, i)) \in Nat
    <3>1. r \in 0..Len(t) /\ i \in r..Len(t) /\ i <= i /\ i \in i..Len(t)
      BY <1>1
    <3>2. QED
      BY <1>1, <3>1, LinesInOrder, UnitsGrow
  <2>4. QED
    BY <2>2, <2>3 DEF Before
<1>4. QED
  BY <1>1, <1>2, <1>3
----------------------------------------------------------------------------
(***************************************************************************)
(* The order of the edits.                                                 *)
(***************************************************************************)
\* n edits that the server may send, no two of which start at the same place.
Given(t, spans, n) ==
    /\ t \in Seq(Characters)
    /\ n \in Nat \ {0}
    /\ spans \in [1..n -> Spans(t)]
    /\ \A i, j \in 1..n : i # j => Disjoint(spans[i], spans[j])
    /\ \A i, j \in 1..n : spans[i].from = spans[j].from => i = j

\* Those that start behind the i-th.
Later(spans, i) == {j \in DOMAIN spans : spans[i].from < spans[j].from}

\* pi lists them from the right to the left.
FromTheRight(spans, n, pi) ==
    /\ pi \in [1..n -> 1..n]
    /\ \A k, l \in 1..n : k < l => spans[pi[l]].from < spans[pi[k]].from
    /\ \A i \in 1..n : \E k \in 1..n : pi[k] = i

\* What a span is made of.
LEMMA SpanIs ==
    ASSUME NEW t, NEW spans, NEW n, Given(t, spans, n), NEW i \in 1..n
    PROVE  /\ spans[i].from \in 0..Len(t) /\ spans[i].to \in 0..Len(t)
           /\ spans[i].from \in Nat /\ spans[i].to \in Nat /\ Len(t) \in Nat
           /\ spans[i].from <= spans[i].to /\ spans[i].new \in NewTexts
<1>1. t \in Seq(Characters) /\ spans[i] \in Spans(t)
  BY DEF Given
<1>2. Len(t) \in Nat
  BY <1>1, LenProperties
<1>3. QED
  BY <1>1, <1>2 DEF Spans

\* The number of later edits tells the edits apart, and takes every value.
LEMMA RanksAreAll ==
    ASSUME NEW t, NEW spans, NEW n, Given(t, spans, n)
    PROVE  /\ \A i \in 1..n : Cardinality(Later(spans, i)) \in 0..(n - 1)
           /\ \A i, j \in 1..n : spans[i].from < spans[j].from
                 <=> Cardinality(Later(spans, j)) < Cardinality(Later(spans, i))
           /\ \A i, j \in 1..n :
                 Cardinality(Later(spans, i)) = Cardinality(Later(spans, j)) => i = j
           /\ \A r \in 0..(n - 1) : \E i \in 1..n : Cardinality(Later(spans, i)) = r
<1>1. /\ n \in Nat \ {0} /\ DOMAIN spans = 1..n /\ IsFiniteSet(1..n) /\ Cardinality(1..n) = n
      /\ IsFiniteSet(0..(n - 1)) /\ Cardinality(0..(n - 1)) = n
  BY FS_Interval DEF Given
<1>2. \A i \in 1..n : spans[i].from \in Nat
  BY SpanIs
<1>3. \A i, j \in 1..n : spans[i].from = spans[j].from => i = j
  BY DEF Given
<1>4. \A i \in 1..n : IsFiniteSet(Later(spans, i)) /\ Later(spans, i) \subseteq 1..n
                      /\ i \notin Later(spans, i)
  <2>1. ASSUME NEW i \in 1..n
        PROVE  Later(spans, i) \in SUBSET (1..n) /\ i \notin Later(spans, i)
    BY <1>1, <1>2 DEF Later
  <2>2. QED
    BY <1>1, <2>1, FS_Subset
<1>5. ASSUME NEW i \in 1..n PROVE Cardinality(Later(spans, i)) \in 0..(n - 1)
  <2>1. Cardinality(Later(spans, i)) < n /\ Cardinality(Later(spans, i)) \in Nat
    <3>1. /\ IsFiniteSet(1..n) /\ Later(spans, i) \subseteq 1..n
          /\ i \in 1..n /\ i \notin Later(spans, i)
      BY <1>1, <1>4
    <3>2. QED
      BY <1>1, <3>1, Larger
  <2>2. QED
    BY <1>1, <2>1
<1>6. ASSUME NEW i \in 1..n, NEW j \in 1..n, spans[i].from < spans[j].from
      PROVE  Cardinality(Later(spans, j)) < Cardinality(Later(spans, i))
  <2>1. /\ Later(spans, j) \subseteq Later(spans, i)
        /\ j \in Later(spans, i) /\ j \notin Later(spans, j)
    BY <1>1, <1>2, <1>6 DEF Later
  <2>2. QED
    BY <1>4, <2>1, Larger
<1>7. ASSUME NEW i \in 1..n, NEW j \in 1..n
      PROVE  /\ spans[i].from < spans[j].from
                  <=> Cardinality(Later(spans, j)) < Cardinality(Later(spans, i))
             /\ Cardinality(Later(spans, i)) = Cardinality(Later(spans, j)) => i = j
  <2> DEFINE a == spans[i].from
             b == spans[j].from
             p == Cardinality(Later(spans, i))
             q == Cardinality(Later(spans, j))
  <2>1. a \in Nat /\ b \in Nat /\ p \in Nat /\ q \in Nat
    BY <1>1, <1>2, <1>5
  <2>2. (a < b => q < p) /\ (b < a => p < q) /\ (a = b => i = j)
    BY <1>3, <1>6
  <2>3. i = j => a = b /\ p = q
    OBVIOUS
  <2> HIDE DEF a, b, p, q
  <2>4. (a < b <=> q < p) /\ (p = q => i = j)
    BY <2>1, <2>2, <2>3
  <2>5. QED
    BY <2>4 DEF a, b, p, q
<1> DEFINE rank == [i \in 1..n |-> Cardinality(Later(spans, i))]
<1>8. rank \in Injection(1..n, 0..(n - 1))
  <2>1. rank \in [1..n -> 0..(n - 1)]
    BY <1>5
  <2>2. \A i, j \in 1..n : rank[i] = rank[j] => i = j
    BY <1>7
  <2> HIDE DEF rank
  <2>3. QED
    BY <2>1, <2>2 DEF Injection, IsInjective
<1>9. rank \in Surjection(1..n, 0..(n - 1))
  <2> HIDE DEF rank
  <2>1. QED
    BY <1>1, <1>8, FS_Injection
<1>10. \A r \in 0..(n - 1) : \E i \in 1..n : rank[i] = r
  <2> HIDE DEF rank
  <2>1. QED
    BY <1>9 DEF Surjection
<1>11. \A r \in 0..(n - 1) : \E i \in 1..n : Cardinality(Later(spans, i)) = r
  BY <1>10
<1>12. QED
  BY <1>5, <1>7, <1>11

\* The edits that the sort puts before the i-th are those that start behind it.
LEMMA RankIs ==
    ASSUME NEW t, NEW spans, NEW n, Given(t, spans, n), NEW behind, NEW i \in 1..n
    PROVE  LET edits == Edits(t, spans, behind)
           IN  {j \in DOMAIN edits :
                   \/ Before(edits[i].start, edits[j].start)
                   \/ edits[j].start = edits[i].start /\ j < i} = Later(spans, i)
<1> DEFINE edits == Edits(t, spans, behind)
<1>1. t \in Seq(Characters) /\ DOMAIN spans = 1..n /\ DOMAIN edits = 1..n /\ n \in Nat
  BY DEF Given, Edits
<1>2. \A j \in 1..n : edits[j].start = TextIterToUtf16(t, spans[j].from)
  BY <1>1 DEF Edits
<1>3. \A j \in 1..n : spans[j].from \in 0..Len(t)
  BY SpanIs
<1> HIDE DEF edits
<1>4. ASSUME NEW j \in 1..n
      PROVE  (\/ Before(edits[i].start, edits[j].start)
              \/ edits[j].start = edits[i].start /\ j < i) <=> spans[i].from < spans[j].from
  <2>1. Before(edits[i].start, edits[j].start) <=> spans[i].from < spans[j].from
    BY <1>1, <1>2, <1>3, PositionsInOrder
  <2>2. edits[j].start = edits[i].start => j = i
    <3>1. edits[j].start = edits[i].start => spans[j].from = spans[i].from
      BY <1>1, <1>2, <1>3, PositionsInOrder
    <3>2. QED
      BY <3>1 DEF Given
  <2>3. ~(j = i /\ j < i)
    BY <1>1
  <2>4. QED
    BY <2>1, <2>2, <2>3
<1>5. {j \in DOMAIN edits :
          \/ Before(edits[i].start, edits[j].start)
          \/ edits[j].start = edits[i].start /\ j < i} = Later(spans, i)
  BY <1>1, <1>4 DEF Later
<1>6. QED
  BY <1>5 DEF edits

\* sorted(..., reverse=True) lists the edits from the right to the left.
LEMMA DescendingIs ==
    ASSUME NEW t, NEW spans, NEW n, Given(t, spans, n), NEW behind
    PROVE  \E pi : /\ FromTheRight(spans, n, pi)
                   /\ Descending(Edits(t, spans, behind)) =
                         [k \in 1..n |-> Edits(t, spans, behind)[pi[k]]]
<1> DEFINE edits == Edits(t, spans, behind)
           rank(i) == Cardinality(Later(spans, i))
           pi == [k \in 1..n |-> CHOOSE i \in 1..n : k - 1 = rank(i)]
<1>1. n \in Nat \ {0} /\ DOMAIN edits = 1..n
  BY DEF Given, Edits
<1>2. /\ \A i \in 1..n : rank(i) \in 0..(n - 1)
      /\ \A i, j \in 1..n : spans[i].from < spans[j].from <=> rank(j) < rank(i)
      /\ \A i, j \in 1..n : rank(i) = rank(j) => i = j
      /\ \A r \in 0..(n - 1) : \E i \in 1..n : rank(i) = r
  BY RanksAreAll
<1>3. ASSUME NEW k \in 1..n
      PROVE  /\ pi[k] \in 1..n /\ rank(pi[k]) = k - 1
             /\ Descending(edits)[k] = edits[pi[k]]
  <2>1. \A i \in 1..n :
           {j \in DOMAIN edits :
               \/ Before(edits[i].start, edits[j].start)
               \/ edits[j].start = edits[i].start /\ j < i} = Later(spans, i)
    BY RankIs
  <2>2. k - 1 \in 0..(n - 1)
    BY <1>1
  <2> HIDE DEF edits, rank
  <2>3. pi[k] \in 1..n /\ rank(pi[k]) = k - 1
    BY <1>2, <2>2
  <2>4. Descending(edits)[k] =
           edits[CHOOSE i \in 1..n :
                    k - 1 = Cardinality({j \in DOMAIN edits :
                               \/ Before(edits[i].start, edits[j].start)
                               \/ edits[j].start = edits[i].start /\ j < i})]
    BY <1>1 DEF Descending
  <2> DEFINE found == CHOOSE i \in 1..n :
                         k - 1 = Cardinality({j \in DOMAIN edits :
                                    \/ Before(edits[i].start, edits[j].start)
                                    \/ edits[j].start = edits[i].start /\ j < i})
  <2>5. found = pi[k]
    <3>1. \A i \in 1..n :
             k - 1 = Cardinality({j \in DOMAIN edits :
                        \/ Before(edits[i].start, edits[j].start)
                        \/ edits[j].start = edits[i].start /\ j < i}) <=> rank(i) = k - 1
      BY <2>1 DEF rank
    <3>2. found \in 1..n /\ rank(found) = k - 1
      BY <2>3, <3>1
    <3> HIDE DEF found, pi
    <3>3. QED
      BY <1>2, <2>3, <3>2
  <2>6. QED
    BY <2>3, <2>4, <2>5
<1>4. Descending(edits) = [k \in 1..n |-> edits[pi[k]]]
  <2>1. Descending(edits) = [k \in 1..n |-> Descending(edits)[k]]
    <3> HIDE DEF edits
    <3>1. QED
      BY <1>1 DEF Descending
  <2> HIDE DEF edits, pi
  <2>2. QED
    BY <1>3, <2>1
<1> HIDE DEF rank
<1>5. pi \in [1..n -> 1..n]
  BY <1>3
<1> HIDE DEF pi
<1>6. \A k, l \in 1..n : k < l => spans[pi[l]].from < spans[pi[k]].from
  <2>1. ASSUME NEW k \in 1..n, NEW l \in 1..n, k < l
        PROVE  spans[pi[l]].from < spans[pi[k]].from
    <3>1. /\ pi[k] \in 1..n /\ pi[l] \in 1..n /\ rank(pi[k]) = k - 1 /\ rank(pi[l]) = l - 1
      BY <1>3
    <3>2. k - 1 < l - 1
      BY <1>1, <2>1
    <3>3. QED
      BY <1>2, <3>1, <3>2
  <2>2. QED
    BY <2>1
<1>7. \A i \in 1..n : \E k \in 1..n : pi[k] = i
  <2>1. ASSUME NEW i \in 1..n PROVE \E k \in 1..n : pi[k] = i
    <3>1. rank(i) \in 0..(n - 1)
      BY <1>2
    <3>2. rank(i) + 1 \in 1..n /\ (rank(i) + 1) - 1 = rank(i)
      BY <1>1, <3>1
    <3>3. pi[rank(i) + 1] \in 1..n /\ rank(pi[rank(i) + 1]) = rank(i)
      BY <1>3, <3>2
    <3>4. pi[rank(i) + 1] = i
      BY <1>2, <3>3
    <3>5. QED
      BY <3>2, <3>4
  <2>2. QED
    BY <2>1
<1>8. FromTheRight(spans, n, pi)
  BY <1>5, <1>6, <1>7 DEF FromTheRight
<1>9. QED
  BY <1>4, <1>8
----------------------------------------------------------------------------
(***************************************************************************)
(* The meaning of the edits, from the left to the right.                   *)
(***************************************************************************)
\* The character at `it`, unless a span removes it.
Kept(t, spans, it) ==
    IF it = Len(t) \/ \E i \in DOMAIN spans : spans[i].from <= it /\ it < spans[i].to
    THEN <<>>
    ELSE <<t[it + 1]>>

\* What is put in at `it`.
Inserted(spans, it) ==
    FlattenSeq([i \in DOMAIN spans |-> IF spans[i].from = it THEN spans[i].new ELSE <<>>])

\* f[k] is what the server means by the first k places.
Builds(f, t, spans) ==
    /\ f \in [0..(Len(t) + 1) -> Seq(Characters)]
    /\ f[0] = <<>>
    /\ \A k \in 0..Len(t) : f[k + 1] = f[k] \o Piece(t, spans, k)
    /\ Meant(t, spans) = f[Len(t) + 1]

\* The characters of t between the places c and k.
Part(t, c, k) == SubSeq(t, c + 1, IF k <= Len(t) THEN k ELSE Len(t))

\* A place has at most one character.
LEMMA KeptIsSeq ==
    ASSUME NEW t \in Seq(Characters), NEW spans, NEW it \in 0..Len(t)
    PROVE  Kept(t, spans, it) \in Seq(Characters)
<1>1. Len(t) \in Nat
  BY LenProperties
<1>2. CASE it = Len(t) \/ \E i \in DOMAIN spans : spans[i].from <= it /\ it < spans[i].to
  BY <1>2 DEF Kept
<1>3. CASE ~(it = Len(t) \/ \E i \in DOMAIN spans : spans[i].from <= it /\ it < spans[i].to)
  <2>1. it + 1 \in 1..Len(t)
    BY <1>1, <1>3
  <2>2. t[it + 1] \in Characters
    BY <2>1, ElementOfSeq
  <2>3. QED
    BY <1>3, <2>2 DEF Kept
<1>4. QED
  BY <1>2, <1>3

\* At most one edit puts something in at one place.
LEMMA InsertedIs ==
    ASSUME NEW t, NEW spans, NEW n, Given(t, spans, n), NewTexts \subseteq Seq(Characters),
           NEW it
    PROVE  /\ \A j \in 1..n : spans[j].from = it => Inserted(spans, it) = spans[j].new
           /\ (\A j \in 1..n : spans[j].from # it) => Inserted(spans, it) = <<>>
<1> DEFINE parts == [i \in 1..n |-> IF spans[i].from = it THEN spans[i].new ELSE <<>>]
<1>1. n \in Nat /\ n >= 1 /\ DOMAIN spans = 1..n
  BY DEF Given
<1>2. \A i \in 1..n : spans[i].new \in Seq(Characters)
  BY SpanIs
<1>3. parts \in Seq(Seq(Characters)) /\ Len(parts) = n
  <2>1. \A i \in 1..n : (IF spans[i].from = it THEN spans[i].new ELSE <<>>) \in Seq(Characters)
    BY <1>2, EmptySeq
  <2>2. parts \in [1..n -> Seq(Characters)]
    BY <2>1
  <2> HIDE DEF parts
  <2>3. QED
    BY <1>1, <2>2
<1>4. \A i \in 1..n : /\ spans[i].from = it => parts[i] = spans[i].new
                      /\ spans[i].from # it => parts[i] = <<>>
  OBVIOUS
<1>5. Inserted(spans, it) = FlattenSeq(parts)
  BY <1>1 DEF Inserted
<1> HIDE DEF parts
<1>6. PICK f : /\ f \in [1..n -> Seq(Characters)]
               /\ f[1] = parts[1]
               /\ \A i \in 2..n : f[i] = f[i - 1] \o parts[i]
               /\ FlattenSeq(parts) = f[n]
  <2>1. Len(parts) > 0
    BY <1>1, <1>3
  <2>2. \E f : /\ f \in [1..Len(parts) -> Seq(Characters)]
               /\ f[1] = parts[1]
               /\ \A k \in 2..Len(parts) : f[k] = f[k - 1] \o parts[k]
               /\ FlattenSeq(parts) = f[Len(parts)]
    BY <1>3, <2>1, FlattenIs
  <2>3. QED
    BY <1>3, <2>2
<1>7. ASSUME NEW i \in 2..n, parts[i] = <<>> PROVE f[i] = f[i - 1]
  <2>1. f[i - 1] \in Seq(Characters)
    BY <1>1, <1>6
  <2>2. QED
    BY <1>6, <1>7, <2>1, ConcatEmptySeq
<1>8. ASSUME NEW j \in 1..n, spans[j].from = it PROVE Inserted(spans, it) = spans[j].new
  <2>1. parts[j] = spans[j].new /\ \A i \in 1..n : i # j => parts[i] = <<>>
    BY <1>4, <1>8 DEF Given
  <2> DEFINE T == {k \in 0..n : k = 0 \/ f[k] = IF k < j THEN <<>> ELSE spans[j].new}
  <2>2. ASSUME NEW k \in 1..n, k - 1 \in T PROVE k \in T
    <3>1. CASE k = 1
      BY <1>1, <1>6, <2>1, <3>1
    <3>2. CASE k # 1 /\ k # j
      <4>1. k \in 2..n /\ k - 1 \in 1..n /\ parts[k] = <<>>
        BY <1>1, <2>1, <3>2
      <4>2. f[k] = f[k - 1]
        BY <1>7, <4>1
      <4>3. k - 1 < j <=> k < j
        BY <1>1, <3>2
      <4>4. QED
        BY <2>2, <4>1, <4>2, <4>3
    <3>3. CASE k # 1 /\ k = j
      <4>1. k \in 2..n /\ k - 1 < j /\ ~(k < j) /\ k - 1 # 0
        BY <1>1, <3>3
      <4>2. f[k - 1] = <<>>
        BY <2>2, <4>1
      <4>3. f[k] = <<>> \o spans[j].new
        BY <1>6, <2>1, <3>3, <4>1, <4>2
      <4>4. f[k] = spans[j].new
        BY <1>2, <4>3, ConcatEmptySeq
      <4>5. QED
        BY <4>1, <4>4
    <3>4. QED
      BY <3>1, <3>2, <3>3
  <2>3. 0 \in T /\ Hereditary(T, n)
    <3>1. 0 \in T
      BY <1>1
    <3> HIDE DEF T
    <3>2. QED
      BY <2>2, <3>1 DEF Hereditary
  <2>4. n \in T
    <3> HIDE DEF T
    <3>1. QED
      BY <1>1, <2>3, UpTo
  <2>5. f[n] = spans[j].new
    BY <1>1, <2>4
  <2>6. QED
    BY <1>5, <1>6, <2>5
<1>9. ASSUME \A j \in 1..n : spans[j].from # it PROVE Inserted(spans, it) = <<>>
  <2>1. \A i \in 1..n : parts[i] = <<>>
    BY <1>4, <1>9
  <2> DEFINE T == {k \in 0..n : k = 0 \/ f[k] = <<>>}
  <2>2. ASSUME NEW k \in 1..n, k - 1 \in T PROVE k \in T
    <3>1. CASE k = 1
      BY <1>6, <2>1, <3>1
    <3>2. CASE k # 1
      <4>1. k \in 2..n /\ k - 1 # 0
        BY <1>1, <3>2
      <4>2. f[k] = f[k - 1]
        BY <1>7, <2>1, <4>1
      <4>3. QED
        BY <2>2, <4>1, <4>2
    <3>3. QED
      BY <3>1, <3>2
  <2>3. 0 \in T /\ Hereditary(T, n)
    <3>1. 0 \in T
      BY <1>1
    <3> HIDE DEF T
    <3>2. QED
      BY <2>2, <3>1 DEF Hereditary
  <2>4. n \in T
    <3> HIDE DEF T
    <3>1. QED
      BY <1>1, <2>3, UpTo
  <2>5. f[n] = <<>>
    BY <1>1, <2>4
  <2>6. QED
    BY <1>5, <1>6, <2>5
<1>10. QED
  BY <1>8, <1>9

\* What stands at a place: the text of the edit that starts there, and the
\* character behind it.
LEMMA PieceIs ==
    ASSUME NEW t, NEW spans, NEW n, Given(t, spans, n), NewTexts \subseteq Seq(Characters),
           NEW it \in 0..Len(t)
    PROVE  /\ Piece(t, spans, it) \in Seq(Characters)
           /\ \A j \in 1..n : spans[j].from = it
                 => Piece(t, spans, it) = spans[j].new \o Kept(t, spans, it)
           /\ (\A j \in 1..n : spans[j].from # it) => Piece(t, spans, it) = Kept(t, spans, it)
<1> DEFINE kept == Kept(t, spans, it)
           new == Inserted(spans, it)
<1>1. t \in Seq(Characters)
  BY DEF Given
<1>2. kept \in Seq(Characters)
  BY <1>1, KeptIsSeq
<1>3. Piece(t, spans, it) = new \o kept
  BY DEF Piece, Inserted, Kept
<1>4. \A j \in 1..n : spans[j].from = it => new = spans[j].new /\ new \in Seq(Characters)
  BY InsertedIs, SpanIs
<1>5. (\A j \in 1..n : spans[j].from # it) => new = <<>> /\ new \in Seq(Characters)
  <2>1. <<>> \in Seq(Characters)
    BY EmptySeq
  <2>2. (\A j \in 1..n : spans[j].from # it) => new = <<>>
    BY InsertedIs
  <2>3. QED
    BY <2>1, <2>2
<1> HIDE DEF kept, new
<1>6. new \in Seq(Characters)
  BY <1>4, <1>5
<1>7. new \o kept \in Seq(Characters)
  BY <1>2, <1>6, ConcatProperties
<1>8. <<>> \o kept = kept
  BY <1>2, ConcatEmptySeq
<1>9. /\ Piece(t, spans, it) \in Seq(Characters)
      /\ \A j \in 1..n : spans[j].from = it => Piece(t, spans, it) = spans[j].new \o kept
      /\ (\A j \in 1..n : spans[j].from # it) => Piece(t, spans, it) = kept
  BY <1>3, <1>4, <1>5, <1>7, <1>8
<1>10. QED
  BY <1>9 DEF kept

\* The meaning is built place by place.
LEMMA MeantIsBuilt ==
    ASSUME NEW t, NEW spans, NEW n, Given(t, spans, n), NewTexts \subseteq Seq(Characters)
    PROVE  \E f : Builds(f, t, spans)
<1> DEFINE m == Len(t) + 1
           parts == [k \in 1..m |-> Piece(t, spans, k - 1)]
<1>1. t \in Seq(Characters) /\ Len(t) \in Nat /\ m \in Nat /\ m >= 1
  BY LenProperties DEF Given
<1>2. \A k \in 1..m : parts[k] = Piece(t, spans, k - 1) /\ parts[k] \in Seq(Characters)
  <2>1. \A k \in 1..m : k - 1 \in 0..Len(t)
    BY <1>1
  <2>2. QED
    BY <2>1, PieceIs
<1>3. parts \in Seq(Seq(Characters)) /\ Len(parts) = m
  <2>1. parts \in [1..m -> Seq(Characters)]
    BY <1>2
  <2> HIDE DEF parts
  <2>2. QED
    BY <1>1, <2>1
<1>4. Meant(t, spans) = FlattenSeq(parts)
  BY DEF Meant
<1> HIDE DEF parts
<1>5. PICK g : /\ g \in [1..m -> Seq(Characters)]
               /\ g[1] = parts[1]
               /\ \A k \in 2..m : g[k] = g[k - 1] \o parts[k]
               /\ FlattenSeq(parts) = g[m]
  <2> HIDE DEF m
  <2>1. Len(parts) > 0
    BY <1>1, <1>3
  <2>2. \E g : /\ g \in [1..Len(parts) -> Seq(Characters)]
               /\ g[1] = parts[1]
               /\ \A k \in 2..Len(parts) : g[k] = g[k - 1] \o parts[k]
               /\ FlattenSeq(parts) = g[Len(parts)]
    BY <1>3, <2>1, FlattenIs
  <2>3. QED
    BY <1>3, <2>2
<1> DEFINE f == [k \in 0..(Len(t) + 1) |-> IF k = 0 THEN <<>> ELSE g[k]]
<1>6. f \in [0..(Len(t) + 1) -> Seq(Characters)] /\ f[0] = <<>> /\ f[Len(t) + 1] = g[m]
  BY <1>1, <1>5
<1>7. ASSUME NEW k \in 0..Len(t) PROVE f[k + 1] = f[k] \o Piece(t, spans, k)
  <2>1. k + 1 \in 1..m /\ (k + 1) - 1 = k /\ k + 1 # 0
    BY <1>1
  <2>2. parts[k + 1] = Piece(t, spans, k) /\ parts[k + 1] \in Seq(Characters)
    BY <1>2, <2>1
  <2>3. CASE k = 0
    <3>1. f[k + 1] = parts[1] /\ f[k] = <<>>
      BY <1>1, <1>5, <2>3
    <3>2. <<>> \o parts[1] = parts[1]
      BY <2>2, <2>3, ConcatEmptySeq
    <3>3. QED
      BY <2>2, <2>3, <3>1, <3>2
  <2>4. CASE k # 0
    <3>1. k + 1 \in 2..m
      BY <1>1, <2>4
    <3>2. g[k + 1] = g[k] \o parts[k + 1]
      BY <1>5, <2>1, <3>1
    <3>3. f[k + 1] = g[k + 1] /\ f[k] = g[k]
      BY <1>1, <2>1, <2>4
    <3> HIDE DEF f
    <3>4. QED
      BY <2>2, <3>2, <3>3
  <2>5. QED
    BY <2>3, <2>4
<1> HIDE DEF f
<1>8. Builds(f, t, spans)
  BY <1>4, <1>5, <1>6, <1>7 DEF Builds
<1>9. QED
  BY <1>8
\* The character at k, if it is behind c.
Behind(t, c, k) == IF k < c \/ k = Len(t) THEN <<>> ELSE <<t[k + 1]>>

\* A part is a sequence, and one that ends before it begins is empty.
LEMMA PartIsSeq ==
    ASSUME NEW t \in Seq(Characters), NEW c \in 0..Len(t), NEW k \in Nat
    PROVE  /\ Part(t, c, k) \in Seq(Characters)
           /\ k <= c => Part(t, c, k) = <<>>
           /\ k <= Len(t) => Part(t, c, k) = SubSeq(t, c + 1, k)
           /\ k >= Len(t) => Part(t, c, k) = SubSeq(t, c + 1, Len(t))
<1> DEFINE e == IF k <= Len(t) THEN k ELSE Len(t)
<1>1. Len(t) \in Nat /\ c \in Nat /\ c <= Len(t) /\ e \in Nat /\ e <= Len(t) /\ e <= k
  BY LenProperties
<1>2. k <= Len(t) => e = k
  OBVIOUS
<1>3. k >= Len(t) => e = Len(t)
  BY <1>1
<1>4. Part(t, c, k) = SubSeq(t, c + 1, e)
  BY DEF Part
<1> HIDE DEF e
<1>5. CASE e <= c
  <2>1. c + 1 \in Int /\ e \in Int /\ e < c + 1
    BY <1>1, <1>5
  <2>2. SubSeq(t, c + 1, e) = <<>>
    BY <2>1, SubSeqEmpty
  <2>3. QED
    BY <1>2, <1>3, <1>4, <2>2, EmptySeq
<1>6. CASE c < e
  <2>1. e \in c..Len(t)
    BY <1>1, <1>6
  <2>2. SubSeq(t, c + 1, e) \in Seq(Characters)
    BY <2>1, PartIs
  <2>3. ~(k <= c)
    BY <1>1, <1>6
  <2>4. QED
    BY <1>2, <1>3, <1>4, <2>2, <2>3
<1>7. QED
  BY <1>1, <1>5, <1>6

\* One more place of a part.
LEMMA PartGrows ==
    ASSUME NEW t \in Seq(Characters), NEW c \in 0..Len(t), NEW k \in 0..Len(t)
    PROVE  /\ Part(t, c, k) \o Behind(t, c, k) = Part(t, c, k + 1)
           /\ Behind(t, c, k) \in Seq(Characters)
<1>1. Len(t) \in Nat /\ c \in Nat /\ c <= Len(t) /\ k \in Nat /\ k <= Len(t) /\ k + 1 \in Nat
  BY LenProperties
<1>2. Part(t, c, k) \in Seq(Characters) /\ Part(t, c, k + 1) \in Seq(Characters)
  BY <1>1, PartIsSeq
<1>3. Part(t, c, k) \o <<>> = Part(t, c, k) /\ <<>> \in Seq(Characters)
  BY <1>2, ConcatEmptySeq, EmptySeq
<1>4. CASE k < c
  <2>1. k + 1 <= c /\ k <= c
    BY <1>1, <1>4
  <2>2. Part(t, c, k) = <<>> /\ Part(t, c, k + 1) = <<>>
    BY <1>1, <2>1, PartIsSeq
  <2>3. QED
    BY <1>3, <1>4, <2>2 DEF Behind
<1>5. CASE k = Len(t)
  <2>1. k + 1 >= Len(t) /\ k >= Len(t)
    BY <1>1, <1>5
  <2>2. Part(t, c, k) = SubSeq(t, c + 1, Len(t)) /\ Part(t, c, k + 1) = SubSeq(t, c + 1, Len(t))
    BY <1>1, <2>1, PartIsSeq
  <2>3. QED
    BY <1>3, <1>5, <2>2 DEF Behind
<1>6. CASE c <= k /\ k # Len(t)
  <2>1. /\ k + 1 <= Len(t) /\ c + 1 \in 1..Len(t) /\ k + 1 \in (c + 1)..Len(t)
        /\ (k + 1) - 1 = k
    BY <1>1, <1>6
  <2>2. Part(t, c, k) = SubSeq(t, c + 1, k) /\ Part(t, c, k + 1) = SubSeq(t, c + 1, k + 1)
    BY <1>1, <2>1, PartIsSeq
  <2>3. SubSeq(t, c + 1, k + 1) = SubSeq(t, c + 1, (k + 1) - 1) \o <<t[k + 1]>>
    BY <2>1, SubSeqRecursiveSecond
  <2>4. Behind(t, c, k) = <<t[k + 1]>>
    BY <1>1, <1>6 DEF Behind
  <2>5. t[k + 1] \in Characters
    BY <1>1, <2>1, ElementOfSeq
  <2>6. QED
    BY <2>1, <2>2, <2>3, <2>4, <2>5
<1>7. QED
  BY <1>1, <1>4, <1>5, <1>6

\* Concatenation is associative; the name keeps the three sequences apart.
Regroups(r, s, u) ==
    /\ (r \o s) \o u = r \o (s \o u)
    /\ r \o s \in Seq(Characters) /\ s \o u \in Seq(Characters)

\* It regroups any three.
LEMMA Associated ==
    ASSUME NEW r \in Seq(Characters), NEW s \in Seq(Characters), NEW u \in Seq(Characters)
    PROVE  Regroups(r, s, u)
BY ConcatAssociative, ConcatProperties DEF Regroups

\* From a to b, h adds the characters behind c.
Copies(h, t, a, b, c) ==
    \A k \in a..(b - 1) : h[k + 1] = h[k] \o Behind(t, c, k)

\* So it adds a part of the text.
LEMMA CopiesPart ==
    ASSUME NEW t \in Seq(Characters), NEW a \in Nat, NEW c \in a..Len(t),
           NEW b \in a..(Len(t) + 1), NEW h, Copies(h, t, a, b, c),
           h[a] \in Seq(Characters)
    PROVE  h[b] = h[a] \o Part(t, c, b)
<1> DEFINE g == h[a]
           T == {i \in 0..(b - a) : h[a + i] = g \o Part(t, c, a + i)}
<1>1. /\ Len(t) \in Nat /\ b \in Nat /\ c \in Nat /\ a <= c /\ c <= Len(t) /\ a <= b
      /\ b <= Len(t) + 1 /\ b - a \in Nat /\ c \in 0..Len(t)
  BY LenProperties
<1>2. 0 \in T
  <2>1. Part(t, c, a) = <<>> /\ a + 0 = a
    BY <1>1, PartIsSeq
  <2>2. g \o <<>> = g
    BY ConcatEmptySeq
  <2>3. QED
    BY <1>1, <2>1, <2>2
<1>3. ASSUME NEW i \in 1..(b - a), i - 1 \in T PROVE i \in T
  <2> DEFINE k == a + (i - 1)
  <2>1. k \in a..(b - 1) /\ k \in 0..Len(t) /\ k \in Nat /\ k + 1 = a + i /\ i \in 0..(b - a)
    BY <1>1
  <2>2. h[k] = g \o Part(t, c, k)
    BY <1>3
  <2> HIDE DEF k
  <2>3. h[k + 1] = h[k] \o Behind(t, c, k)
    BY <2>1 DEF Copies
  <2>4. /\ Part(t, c, k) \in Seq(Characters) /\ Behind(t, c, k) \in Seq(Characters)
        /\ Part(t, c, k) \o Behind(t, c, k) = Part(t, c, k + 1)
    BY <1>1, <2>1, PartIsSeq, PartGrows
  <2>5. Regroups(g, Part(t, c, k), Behind(t, c, k))
    BY <2>4, Associated
  <2>6. h[k + 1] = g \o Part(t, c, k + 1)
    <3> HIDE DEF g
    <3>1. QED
      BY <2>2, <2>3, <2>4, <2>5 DEF Regroups
  <2>7. QED
    BY <2>1, <2>6
<1>4. b - a \in T
  <2>1. Hereditary(T, b - a)
    <3> HIDE DEF T
    <3>1. QED
      BY <1>3 DEF Hereditary
  <2> HIDE DEF T
  <2>2. QED
    BY <1>1, <1>2, <2>1, UpTo
<1>5. a + (b - a) = b
  BY <1>1
<1>6. QED
  BY <1>4, <1>5

----------------------------------------------------------------------------
(***************************************************************************)
(* The meaning of what is behind a place.                                  *)
(***************************************************************************)
\* An edit that starts before another ends before it.
LEMMA EndsBefore ==
    ASSUME NEW t, NEW spans, NEW n, Given(t, spans, n), NEW i \in 1..n, NEW j \in 1..n,
           spans[i].from < spans[j].from
    PROVE  spans[i].to <= spans[j].from
<1>1. /\ spans[i].from \in Nat /\ spans[i].to \in Nat /\ spans[j].from \in Nat
      /\ spans[j].to \in Nat
      /\ spans[i].from <= spans[i].to /\ spans[j].from <= spans[j].to
  BY SpanIs
<1>2. i # j
  BY <1>1
<1>3. spans[i].to <= spans[j].from \/ spans[j].to <= spans[i].from
  BY <1>2 DEF Given, Disjoint
<1>4. QED
  BY <1>1, <1>3

\* Up to b a text means what it means up to the span, what the span puts in, and
\* the characters behind its end.
MeansSpan(f, t, span, b) == f[b] = (f[span.from] \o span.new) \o Part(t, span.to, b)

\* So it is where no other edit starts between the start of this one and b.
LEMMA OneMeans ==
    ASSUME NEW t, NEW spans, NEW n, Given(t, spans, n), NewTexts \subseteq Seq(Characters),
           NEW f, Builds(f, t, spans), NEW j \in 1..n, NEW b \in 0..(Len(t) + 1),
           spans[j].from < b, spans[j].to <= b,
           \A i \in 1..n : spans[i].from <= spans[j].from \/ b <= spans[i].from
    PROVE  MeansSpan(f, t, spans[j], b)
<1> DEFINE a == spans[j].from
           c == spans[j].to
           new == spans[j].new
<1>1. /\ t \in Seq(Characters) /\ Len(t) \in Nat /\ a \in Nat /\ c \in Nat /\ b \in Nat
      /\ a <= c /\ c <= Len(t) /\ c <= b /\ a < b /\ b <= Len(t) + 1 /\ new \in Seq(Characters)
      /\ DOMAIN spans = 1..n
  <2>1. t \in Seq(Characters) /\ DOMAIN spans = 1..n
    BY DEF Given
  <2>2. /\ a \in Nat /\ c \in Nat /\ Len(t) \in Nat /\ a <= c /\ c \in 0..Len(t)
        /\ new \in NewTexts
    BY SpanIs
  <2>3. a < b /\ c <= b
    OBVIOUS
  <2> HIDE DEF a, c, new
  <2>4. QED
    BY <2>1, <2>2, <2>3
<1>2. f \in [0..(Len(t) + 1) -> Seq(Characters)]
      /\ \A k \in 0..Len(t) : f[k + 1] = f[k] \o Piece(t, spans, k)
  BY DEF Builds
<1>3. ASSUME NEW k \in a..(b - 1)
      PROVE  Kept(t, spans, k) = Behind(t, c, k)
  <2>1. k \in Nat /\ k < b /\ a <= k
    BY <1>1
  <2>2. ASSUME NEW i \in 1..n, i # j
        PROVE  ~(spans[i].from <= k /\ k < spans[i].to)
    <3>1. spans[i].from \in Nat /\ spans[i].to \in Nat
      BY SpanIs
    <3>2. CASE b <= spans[i].from
      BY <1>1, <2>1, <3>1, <3>2
    <3>3. CASE spans[i].from <= a
      <4>1. spans[i].from < a
        <5>1. spans[i].from # a
          BY <2>2 DEF Given
        <5>2. QED
          BY <1>1, <3>1, <3>3, <5>1
      <4>2. spans[i].to <= a
        BY <4>1, EndsBefore
      <4>3. QED
        BY <1>1, <2>1, <3>1, <4>2
    <3>4. QED
      BY <3>2, <3>3
  <2>3. (\E i \in 1..n : spans[i].from <= k /\ k < spans[i].to) <=> k < c
    BY <1>1, <2>1, <2>2
  <2>4. QED
    BY <1>1, <2>3 DEF Kept, Behind
<1>4. ASSUME NEW k \in (a + 1)..(b - 1)
      PROVE  Piece(t, spans, k) = Behind(t, c, k)
  <2>1. k \in 0..Len(t) /\ k \in a..(b - 1)
    BY <1>1
  <2>2. \A i \in 1..n : spans[i].from # k
    <3>1. \A i \in 1..n : spans[i].from \in Nat
      BY SpanIs
    <3>2. QED
      BY <1>1, <3>1
  <2>3. QED
    BY <1>3, <2>1, <2>2, PieceIs
<1>5. Piece(t, spans, a) = new \o Behind(t, c, a)
  <2>1. a \in 0..Len(t) /\ a \in a..(b - 1)
    BY <1>1
  <2>2. QED
    BY <1>3, <2>1, PieceIs
<1>6. f[a] \in Seq(Characters)
  BY <1>1, <1>2
<1> DEFINE h == [k \in 0..(Len(t) + 1) |-> IF k = a THEN f[a] \o new ELSE f[k]]
<1>7. h[a] = f[a] \o new /\ h[a] \in Seq(Characters) /\ h[b] = f[b]
  <2>1. f[a] \o new \in Seq(Characters)
    BY <1>1, <1>6, ConcatProperties
  <2>2. a \in 0..(Len(t) + 1) /\ b \in 0..(Len(t) + 1) /\ b # a
    BY <1>1
  <2> HIDE DEF a, new
  <2>3. QED
    BY <2>1, <2>2
<1>8. Copies(h, t, a, b, c)
  <2>1. ASSUME NEW k \in a..(b - 1) PROVE h[k + 1] = h[k] \o Behind(t, c, k)
    <3>1. k \in 0..Len(t) /\ k + 1 \in 0..(Len(t) + 1) /\ k \in 0..(Len(t) + 1) /\ k + 1 # a
      BY <1>1
    <3>2. f[k + 1] = f[k] \o Piece(t, spans, k) /\ h[k + 1] = f[k + 1]
      BY <1>2, <3>1
    <3>3. CASE k = a
      <4>1. Regroups(f[a], new, Behind(t, c, a))
        <5>1. Behind(t, c, a) \in Seq(Characters)
          <6>1. a \in 0..Len(t) /\ c \in 0..Len(t)
            BY <1>1
          <6>2. QED
            BY <1>1, <6>1, PartGrows
        <5>2. QED
          BY <1>1, <1>6, <5>1, Associated
      <4> HIDE DEF h, a, new, c
      <4>2. QED
        BY <1>5, <1>7, <3>2, <3>3, <4>1 DEF Regroups
    <3>4. CASE k # a
      <4>1. k \in (a + 1)..(b - 1)
        BY <1>1, <3>4
      <4>2. h[k] = f[k] /\ Piece(t, spans, k) = Behind(t, c, k)
        BY <1>4, <3>1, <3>4, <4>1
      <4> HIDE DEF h
      <4>3. QED
        BY <3>2, <4>2
    <3>5. QED
      BY <3>3, <3>4
  <2> HIDE DEF h
  <2>2. QED
    BY <2>1 DEF Copies
<1> HIDE DEF h
<1>9. h[b] = h[a] \o Part(t, c, b)
  <2>1. c \in a..Len(t) /\ b \in a..(Len(t) + 1) /\ a \in Nat
    BY <1>1
  <2>2. /\ t \in Seq(Characters) /\ h[a] \in Seq(Characters)
        /\ Copies(h, t, a, b, c)
    BY <1>1, <1>7, <1>8
  <2> HIDE DEF a, c
  <2>3. QED
    BY <2>1, <2>2, CopiesPart
<1>10. QED
  BY <1>7, <1>9 DEF MeansSpan

\* Before the first edit the text means itself.
LEMMA NoneMeans ==
    ASSUME NEW t, NEW spans, NEW n, Given(t, spans, n), NewTexts \subseteq Seq(Characters),
           NEW f, Builds(f, t, spans), NEW b \in 0..(Len(t) + 1),
           \A i \in 1..n : b <= spans[i].from
    PROVE  f[b] = Part(t, 0, b)
<1>1. t \in Seq(Characters) /\ Len(t) \in Nat /\ b \in Nat /\ DOMAIN spans = 1..n
  BY LenProperties DEF Given
<1>2. /\ f[0] = <<>> /\ \A k \in 0..Len(t) : f[k + 1] = f[k] \o Piece(t, spans, k)
  BY DEF Builds
<1>3. ASSUME NEW k \in 0..(b - 1) PROVE f[k + 1] = f[k] \o Behind(t, 0, k)
  <2>1. k \in 0..Len(t) /\ k < b /\ ~(k < 0)
    BY <1>1
  <2>2. \A i \in 1..n : spans[i].from \in Nat
    BY SpanIs
  <2>3. \A i \in 1..n : spans[i].from # k /\ ~(spans[i].from <= k)
    BY <1>1, <2>1, <2>2
  <2>4. Piece(t, spans, k) = Kept(t, spans, k)
    BY <2>1, <2>3, PieceIs
  <2>5. Kept(t, spans, k) = Behind(t, 0, k)
    BY <1>1, <2>1, <2>3 DEF Kept, Behind
  <2>6. QED
    BY <1>2, <2>1, <2>4, <2>5
<1>4. Copies(f, t, 0, b, 0)
  BY <1>3 DEF Copies
<1>5. f[b] = f[0] \o Part(t, 0, b)
  <2>1. f[0] \in Seq(Characters) /\ 0 \in 0..Len(t) /\ 0 \in Nat
    BY <1>1, <1>2, EmptySeq
  <2>2. QED
    BY <1>1, <1>4, <2>1, CopiesPart
<1>6. Part(t, 0, b) \in Seq(Characters)
  <2>1. 0 \in 0..Len(t)
    BY <1>1
  <2>2. QED
    BY <1>1, <2>1, PartIsSeq
<1>7. QED
  BY <1>2, <1>5, <1>6, ConcatEmptySeq
----------------------------------------------------------------------------
(***************************************************************************)
(* The inductive invariant.                                                *)
(***************************************************************************)
\* The place from which k edits have been applied.
DoneFrom(t, spans, pi, k) == IF k = 0 THEN Len(t) + 1 ELSE spans[pi[k]].from

\* k of the n edits are applied: the buffer is what the text was before the last
\* of them, and w; what the server means is what it means by that part, and w.
Underway(t, spans, n, behind, pi, k, w, f) ==
    /\ Given(t, spans, n)
    /\ \A i \in behind : MayEndBehind(t, spans, i)
    /\ FromTheRight(spans, n, pi)
    /\ Builds(f, t, spans)
    /\ k \in 0..n
    /\ w \in Seq(Characters)
    /\ k = 0 => w = <<>>
    /\ todo = [l \in 1..(n - k) |-> Edits(t, spans, behind)[pi[k + l]]]
    /\ text = Part(t, 0, DoneFrom(t, spans, pi, k)) \o w
    /\ goal = f[DoneFrom(t, spans, pi, k)] \o w

\* With different starts, the edits are under way at some k.
TextInv ==
    clear => \E t, spans, n, behind, pi, k, w, f :
                Underway(t, spans, n, behind, pi, k, w, f)

\* The numbers and sequences of edits that are under way.
LEMMA UnderwayTypes ==
    ASSUME NEW t, NEW spans, NEW n, NEW behind, NEW pi, NEW k, NEW w, NEW f,
           Underway(t, spans, n, behind, pi, k, w, f)
    PROVE  /\ t \in Seq(Characters) /\ Len(t) \in Nat /\ n \in Nat /\ k \in Nat /\ k <= n
           /\ DoneFrom(t, spans, pi, k) \in 0..(Len(t) + 1)
           /\ DoneFrom(t, spans, pi, k) \in Nat
           /\ Part(t, 0, DoneFrom(t, spans, pi, k)) \in Seq(Characters)
           /\ w \in Seq(Characters)
<1>1. /\ t \in Seq(Characters) /\ n \in Nat /\ k \in Nat /\ k <= n /\ w \in Seq(Characters)
      /\ Given(t, spans, n) /\ pi \in [1..n -> 1..n]
  <2>1. /\ Given(t, spans, n) /\ FromTheRight(spans, n, pi)
        /\ k \in 0..n /\ w \in Seq(Characters)
    BY DEF Underway
  <2>2. t \in Seq(Characters) /\ n \in Nat /\ pi \in [1..n -> 1..n]
    BY <2>1 DEF Given, FromTheRight
  <2>3. QED
    BY <2>1, <2>2
<1>2. Len(t) \in Nat
  BY <1>1, LenProperties
<1>3. DoneFrom(t, spans, pi, k) \in 0..(Len(t) + 1)
  <2>1. CASE k = 0
    BY <1>2, <2>1 DEF DoneFrom
  <2>2. CASE k # 0
    <3>1. k \in 1..n
      BY <1>1, <2>2
    <3>2. pi[k] \in 1..n
      BY <1>1, <3>1
    <3>3. spans[pi[k]].from \in 0..Len(t)
      BY <1>1, <3>2, SpanIs
    <3>4. QED
      BY <1>2, <2>2, <3>3 DEF DoneFrom
  <2>3. QED
    BY <2>1, <2>2
<1>4. Part(t, 0, DoneFrom(t, spans, pi, k)) \in Seq(Characters)
  <2>1. 0 \in 0..Len(t) /\ DoneFrom(t, spans, pi, k) \in Nat
    BY <1>2, <1>3
  <2>2. QED
    BY <1>1, <2>1, PartIsSeq
<1>5. QED
  BY <1>1, <1>2, <1>3, <1>4

\* When the edits that start before a place are left, those that are done start
\* there or behind it.
LEMMA LeftAndDone ==
    ASSUME NEW t, NEW spans, NEW n, Given(t, spans, n), NEW pi, FromTheRight(spans, n, pi),
           NEW k \in 0..n, NEW i \in 1..n
    PROVE  \/ DoneFrom(t, spans, pi, k) <= spans[i].from /\ k # 0
           \/ k < n /\ spans[i].from <= spans[pi[k + 1]].from
<1>1. n \in Nat /\ k \in Nat /\ k <= n /\ pi \in [1..n -> 1..n]
  <2>1. n \in Nat /\ pi \in [1..n -> 1..n]
    BY DEF Given, FromTheRight
  <2>2. QED
    BY <2>1
<1>2. PICK l \in 1..n : pi[l] = i
  BY DEF FromTheRight
<1>3. \A x \in 1..n : spans[pi[x]].from \in Nat
  <2>1. \A x \in 1..n : pi[x] \in 1..n
    BY <1>1
  <2>2. QED
    BY <2>1, SpanIs
<1>4. CASE l <= k
  <2>1. k \in 1..n /\ k # 0 /\ (l < k \/ l = k)
    BY <1>1, <1>4
  <2>2. l < k => spans[pi[k]].from < spans[pi[l]].from
    BY <2>1 DEF FromTheRight
  <2>3. spans[pi[k]].from <= spans[pi[l]].from
    BY <1>3, <2>1, <2>2
  <2>4. QED
    BY <1>2, <2>1, <2>3 DEF DoneFrom
<1>5. CASE k < l
  <2>1. k + 1 \in 1..n /\ k < n /\ (k + 1 < l \/ k + 1 = l)
    BY <1>1, <1>5
  <2>2. k + 1 < l => spans[pi[l]].from < spans[pi[k + 1]].from
    BY <2>1 DEF FromTheRight
  <2>3. spans[pi[l]].from <= spans[pi[k + 1]].from
    BY <1>3, <2>1, <2>2
  <2>4. QED
    BY <1>2, <2>1, <2>3
<1>6. QED
  BY <1>1, <1>4, <1>5

\* When no edit is left the buffer is what the server means.
LEMMA UnderwayEnds ==
    ASSUME NEW t, NEW spans, NEW n, NEW behind, NEW pi, NEW k, NEW w, NEW f,
           Underway(t, spans, n, behind, pi, k, w, f),
           NewTexts \subseteq Seq(Characters), todo = <<>>
    PROVE  text = goal
<1> DEFINE b == DoneFrom(t, spans, pi, k)
<1>1. /\ n \in Nat /\ k \in Nat /\ k <= n /\ k \in 0..n /\ b \in 0..(Len(t) + 1)
      /\ Given(t, spans, n) /\ FromTheRight(spans, n, pi) /\ Builds(f, t, spans)
      /\ todo = [l \in 1..(n - k) |-> Edits(t, spans, behind)[pi[k + l]]]
      /\ text = Part(t, 0, b) \o w /\ goal = f[b] \o w
  BY UnderwayTypes DEF Underway
<1>2. k = n
  <2>1. DOMAIN todo = {}
    OBVIOUS
  <2>2. DOMAIN todo = 1..(n - k)
    BY <1>1
  <2>3. k < n => 1 \in 1..(n - k)
    BY <1>1
  <2>4. ~(k < n)
    BY <2>1, <2>2, <2>3
  <2>5. n \in Nat /\ k \in Nat /\ k <= n
    BY <1>1
  <2>6. QED
    BY <2>4, <2>5
<1>3. \A i \in 1..n : b <= spans[i].from
  <2>1. ~(k < n)
    BY <1>1, <1>2
  <2>2. QED
    BY <1>1, <2>1, LeftAndDone
<1>4. f[b] = Part(t, 0, b)
  <2> HIDE DEF b
  <2>1. QED
    BY <1>1, <1>3, NoneMeans
<1>5. QED
  BY <1>1, <1>4
\* The end of the next edit is found where it is in the text before any edit, or,
\* when it is the line behind the last, at the end of the buffer.
LEMMA EndIsFound ==
    ASSUME NEW t, NEW spans, NEW n, NEW behind, NEW pi, NEW k, NEW w, NEW f,
           Underway(t, spans, n, behind, pi, k, w, f), k < n,
           NEW b, b = DoneFrom(t, spans, pi, k),
           SameUpTo(t, text, IF b <= Len(t) THEN b ELSE Len(t)),
           text \in Seq(Characters),
           NEW i \in 1..n, i = pi[k + 1], spans[i].from < b, spans[i].to <= b
    PROVE  Utf16ToTextIter(text, EndPosition(t, spans, i, behind)) = spans[i].to
<1>1. /\ Given(t, spans, n) /\ FromTheRight(spans, n, pi) /\ t \in Seq(Characters)
      /\ k \in Nat /\ n \in Nat /\ b \in Nat /\ Len(t) \in Nat
      /\ \A x \in behind : MayEndBehind(t, spans, x)
  BY UnderwayTypes DEF Underway
<1>2. /\ spans[i].to \in Nat /\ spans[i].to <= Len(t) /\ spans[i].from \in Nat
      /\ spans[i].from <= spans[i].to /\ DOMAIN spans = 1..n
  <2>1. DOMAIN spans = 1..n
    BY <1>1 DEF Given
  <2>2. QED
    BY <1>1, <2>1, SpanIs
<1>3. CASE i \notin behind
  <2> DEFINE e == IF b <= Len(t) THEN b ELSE Len(t)
             to == spans[i].to
  <2>1. SameUpTo(t, text, e) /\ e \in Nat /\ to <= e /\ to \in Nat
    BY <1>1, <1>2
  <2> HIDE DEF e, to
  <2>2. SameUpTo(t, text, to)
    <3>1. Len(text) \in Nat
      BY LenProperties
    <3>2. QED
      BY <1>1, <2>1, <3>1 DEF SameUpTo
  <2>3. Utf16ToTextIter(text, TextIterToUtf16(t, to)) = to
    BY <1>1, <2>1, <2>2, IteratorIsFound
  <2>4. QED
    BY <1>2, <1>3, <2>3 DEF EndPosition, to
<1>4. CASE i \in behind
  <2>1. \A j \in 1..n : spans[j].to = Len(t) <=> i = j
    BY <1>1, <1>2, <1>4 DEF MayEndBehind
  <2>2. k = 0
    <3>1. SUFFICES ASSUME k # 0 PROVE FALSE
      OBVIOUS
    <3>2. k \in 1..n /\ b = spans[pi[k]].from
      BY <1>1, <3>1 DEF DoneFrom
    <3>3. pi[k] \in 1..n
      BY <1>1, <3>2 DEF FromTheRight
    <3> DEFINE j == pi[k]
    <3>4. /\ j \in 1..n /\ spans[j].from \in Nat /\ spans[j].to \in Nat
          /\ spans[j].to \in 0..Len(t) /\ spans[j].from <= spans[j].to
          /\ b = spans[j].from
      BY <1>1, <3>2, <3>3, SpanIs
    <3> HIDE DEF j
    <3>5. spans[i].to = Len(t)
      BY <2>1
    <3>6. spans[j].to = Len(t)
      BY <1>1, <1>2, <3>4, <3>5
    <3>7. i = j
      BY <2>1, <3>4, <3>6
    <3>8. QED
      BY <1>2, <3>4, <3>7
  <2>3. text = t
    <3>1. w = <<>> /\ text = Part(t, 0, b) \o w /\ b = Len(t) + 1
      BY <2>2 DEF Underway, DoneFrom
    <3>2. Part(t, 0, b) = SubSeq(t, 0 + 1, Len(t)) /\ Part(t, 0, b) \in Seq(Characters)
      <4>1. 0 \in 0..Len(t) /\ b >= Len(t)
        BY <1>1, <3>1
      <4>2. QED
        BY <1>1, <4>1, PartIsSeq
    <3>3. Part(t, 0, b) = t
      BY <1>1, <3>2, SubSeqFull
    <3>4. QED
      BY <1>1, <3>1, <3>3, ConcatEmptySeq
  <2>4. Utf16ToTextIter(text, BehindLast(t)) = Len(t)
    BY <1>1, <2>3, BehindLastIsEnd
  <2>5. spans[i].to = Len(t)
    BY <2>1
  <2>6. QED
    BY <1>1, <1>4, <2>4, <2>5 DEF EndPosition
<1>5. QED
  BY <1>3, <1>4

\* To put a text in for the characters from a to c of a part, and leave the rest.
Replaced(t, a, c, b, new, w) ==
    LET u == Part(t, 0, b) \o w
    IN  SubSeq(u, 1, a) \o new \o SubSeq(u, c + 1, Len(u))
           = Part(t, 0, a) \o ((new \o Part(t, c, b)) \o w)

\* This leaves the part up to a, and puts the text before the rest.
LEMMA ReplacesPart ==
    ASSUME NEW t \in Seq(Characters), NEW b \in 0..(Len(t) + 1), NEW a \in 0..Len(t),
           NEW c \in a..Len(t), a <= b, c <= b,
           NEW new \in Seq(Characters), NEW w \in Seq(Characters)
    PROVE  Replaced(t, a, c, b, new, w)
<1> DEFINE e == IF b <= Len(t) THEN b ELSE Len(t)
           p == Part(t, 0, b)
           u == p \o w
           head == SubSeq(t, 1, a)
           rest == Part(t, c, b)
<1>1. /\ Len(t) \in Nat /\ b \in Nat /\ a \in Nat /\ c \in Nat /\ e \in Nat
      /\ a <= c /\ c <= e /\ e <= Len(t) /\ 0 + 1 = 1
  BY LenProperties
<1>2. p = SubSeq(t, 1, e) /\ rest = SubSeq(t, c + 1, e)
  BY <1>1 DEF Part
<1> HIDE DEF e
<1>3. /\ p \in Seq(Characters) /\ Len(p) = e /\ \A i \in 1..e : p[i] = t[i]
  <2>1. e \in 0..Len(t)
    BY <1>1
  <2>2. /\ SubSeq(t, 1, e) \in Seq(Characters) /\ Len(SubSeq(t, 1, e)) = e
        /\ \A i \in 1..e : SubSeq(t, 1, e)[i] = t[i]
    BY <2>1, FirstIs
  <2>3. QED
    BY <1>2, <2>2
<1>4. /\ head \in Seq(Characters) /\ Len(head) = a /\ \A i \in 1..a : head[i] = t[i]
  BY <1>1, FirstIs
<1>5. /\ rest \in Seq(Characters) /\ Len(rest) = e - c /\ \A i \in 1..(e - c) : rest[i] = t[c + i]
  <2>1. c \in 0..Len(t) /\ e \in c..Len(t)
    BY <1>1
  <2>2. QED
    BY <1>2, <2>1, PartIs
<1>6. Part(t, 0, a) = head
  BY <1>1 DEF Part
<1> HIDE DEF p, head, rest
<1>7. /\ u \in Seq(Characters) /\ Len(u) = e + Len(w) /\ Len(w) \in Nat
      /\ \A i \in 1..e : u[i] = p[i]
      /\ \A i \in 1..Len(w) : u[e + i] = w[i]
  <2>1. /\ u \in Seq(Characters) /\ Len(u) = Len(p) + Len(w)
        /\ \A i \in 1..Len(p) : u[i] = p[i]
        /\ \A i \in 1..Len(w) : u[Len(p) + i] = w[i]
    <3>1. p \in Seq(Characters) /\ w \in Seq(Characters) /\ u = p \o w
      BY <1>3
    <3> HIDE DEF u
    <3>2. QED
      BY <3>1, Joined
  <2>2. Len(w) \in Nat
    BY LenProperties
  <2> HIDE DEF u
  <2>3. QED
    BY <1>3, <2>1, <2>2
<1> HIDE DEF u
<1>8. SubSeq(u, 1, a) = head
  <2> DEFINE v == SubSeq(u, 1, a)
  <2>1. /\ v \in Seq(Characters) /\ Len(v) = a /\ \A i \in 1..a : v[i] = u[i]
    <3>1. a \in 0..Len(u)
      BY <1>1, <1>7
    <3>2. QED
      BY <1>7, <3>1, FirstIs
  <2> HIDE DEF v
  <2>2. \A i \in 1..a : i \in 1..e
    BY <1>1
  <2>3. \A i \in 1..Len(v) : v[i] = head[i]
    BY <1>3, <1>4, <1>7, <2>1, <2>2
  <2>4. v = head
    BY <1>4, <2>1, <2>3, SeqEqual
  <2>5. QED
    BY <2>4 DEF v
<1>9. SubSeq(u, c + 1, Len(u)) = rest \o w
  <2> DEFINE v == SubSeq(u, c + 1, Len(u))
             x == rest \o w
             m == Len(w)
  <2>1. /\ v \in Seq(Characters) /\ Len(v) = Len(u) - c
        /\ \A i \in 1..(Len(u) - c) : v[i] = u[c + i]
    <3>1. c \in 0..Len(u) /\ Len(u) \in c..Len(u)
      BY <1>1, <1>7
    <3>2. QED
      BY <1>7, <3>1, PartIs
  <2>2. /\ x \in Seq(Characters) /\ Len(x) = (e - c) + m
        /\ \A i \in 1..(e - c) : x[i] = rest[i]
        /\ \A i \in 1..m : x[(e - c) + i] = w[i]
    <3>1. /\ x \in Seq(Characters) /\ Len(x) = Len(rest) + Len(w)
          /\ \A i \in 1..Len(rest) : x[i] = rest[i]
          /\ \A i \in 1..Len(w) : x[Len(rest) + i] = w[i]
      <4>1. rest \in Seq(Characters) /\ w \in Seq(Characters) /\ x = rest \o w
        BY <1>5
      <4> HIDE DEF x, m
      <4>2. QED
        BY <4>1, Joined
    <3> HIDE DEF x
    <3>2. QED
      BY <1>5, <3>1
  <2> HIDE DEF v, x
  <2>3. Len(v) = Len(x) /\ Len(v) = (e + m) - c /\ m \in Nat
    BY <1>1, <1>7, <2>1, <2>2
  <2>4. ASSUME NEW i \in 1..Len(v) PROVE v[i] = x[i]
    <3>1. v[i] = u[c + i] /\ i \in Nat /\ i >= 1 /\ i <= (e + m) - c
      <4>1. i \in 1..(Len(u) - c)
        BY <2>1, <2>4
      <4> HIDE DEF m
      <4>2. QED
        BY <1>1, <2>1, <2>3, <4>1
    <3> HIDE DEF m
    <3>2. CASE i <= e - c
      <4>1. i \in 1..(e - c) /\ c + i \in 1..e
        BY <1>1, <3>1, <3>2
      <4>2. x[i] = rest[i] /\ rest[i] = t[c + i] /\ u[c + i] = p[c + i] /\ p[c + i] = t[c + i]
        BY <1>3, <1>5, <1>7, <2>2, <4>1
      <4>3. QED
        BY <3>1, <4>2
    <3>3. CASE i > e - c
      <4> DEFINE l == i - (e - c)
      <4>1. l \in 1..m /\ (e - c) + l = i /\ e + l = c + i
        BY <1>1, <2>3, <3>1, <3>3
      <4> HIDE DEF l
      <4>2. x[(e - c) + l] = w[l] /\ u[e + l] = w[l]
        BY <1>7, <2>2, <4>1 DEF m
      <4>3. QED
        BY <3>1, <4>1, <4>2
    <3>4. QED
      BY <1>1, <3>1, <3>2, <3>3
  <2>5. v = x
    BY <2>1, <2>2, <2>3, <2>4, SeqEqual
  <2>6. QED
    BY <2>5 DEF v, x
<1>10. Regroups(new, rest, w)
  BY <1>5, Associated
<1>11. Regroups(head, new, rest \o w)
  <2>1. rest \o w \in Seq(Characters)
    BY <1>10 DEF Regroups
  <2>2. QED
    BY <1>4, <2>1, Associated
<1>12. (head \o new) \o (rest \o w) = head \o ((new \o rest) \o w)
  BY <1>10, <1>11 DEF Regroups
<1>13. SubSeq(u, 1, a) \o new \o SubSeq(u, c + 1, Len(u)) = Part(t, 0, a) \o ((new \o rest) \o w)
  BY <1>6, <1>8, <1>9, <1>12
<1>14. QED
  BY <1>13 DEF Replaced, u, p, rest
----------------------------------------------------------------------------
(***************************************************************************)
(* The steps.                                                              *)
(***************************************************************************)
\* What the next edit does to the buffer, in terms of the text before any edit.
Applies(t, span, b, w) ==
    /\ text' = Part(t, 0, span.from) \o ((span.new \o Part(t, span.to, b)) \o w)
    /\ todo' = Tail(todo) /\ todo # <<>> /\ goal' = goal

\* The next edit is that of the span i; it is applied where that text has it.
LEMMA NextIsApplied ==
    ASSUME NEW t, NEW spans, NEW n, NEW behind, NEW pi, NEW k, NEW w, NEW f,
           Underway(t, spans, n, behind, pi, k, w, f), k < n, ApplyNext,
           NewTexts \subseteq Seq(Characters),
           NEW i \in 1..n, i = pi[k + 1], NEW b, b = DoneFrom(t, spans, pi, k),
           spans[i].from < b, spans[i].to <= b
    PROVE  Applies(t, spans[i], b, w)
<1> DEFINE a == spans[i].from
           c == spans[i].to
           new == spans[i].new
           edit == Edits(t, spans, behind)[i]
           e == IF b <= Len(t) THEN b ELSE Len(t)
           p == Part(t, 0, b)
<1>1. /\ Given(t, spans, n) /\ t \in Seq(Characters) /\ Len(t) \in Nat /\ n \in Nat
      /\ k \in Nat /\ b \in Nat /\ b \in 0..(Len(t) + 1)
      /\ p \in Seq(Characters) /\ w \in Seq(Characters)
      /\ todo = [l \in 1..(n - k) |-> Edits(t, spans, behind)[pi[k + l]]]
      /\ text = p \o w
  BY UnderwayTypes DEF Underway
<1>2. /\ a \in Nat /\ c \in Nat /\ a <= c /\ c <= Len(t) /\ new \in Seq(Characters)
      /\ a < b /\ c <= b /\ DOMAIN spans = 1..n
  <2>1. DOMAIN spans = 1..n
    BY <1>1 DEF Given
  <2>2. a \in Nat /\ c \in Nat /\ a <= c /\ c \in 0..Len(t) /\ new \in NewTexts
    BY <1>1, SpanIs
  <2>3. a < b /\ c <= b
    OBVIOUS
  <2> HIDE DEF a, c, new
  <2>4. c <= Len(t) /\ new \in Seq(Characters)
    BY <1>1, <2>2
  <2>5. QED
    BY <2>1, <2>2, <2>3, <2>4
<1>3. Head(todo) = edit
  <2>1. 1 \in 1..(n - k)
    BY <1>1
  <2>2. Head(todo) = todo[1]
    OBVIOUS
  <2>3. QED
    BY <1>1, <2>1, <2>2
<1>4. /\ edit.start = TextIterToUtf16(t, a)
      /\ edit.end = EndPosition(t, spans, i, behind)
      /\ edit.new = new
  BY <1>2 DEF Edits
<1>5. SameUpTo(t, text, e) /\ text \in Seq(Characters) /\ e \in Nat
  <2>1. e \in 0..Len(t) /\ e \in Nat
    BY <1>1
  <2>2. p = SubSeq(t, 1, e)
    BY DEF Part
  <2>3. /\ SubSeq(t, 1, e) \in Seq(Characters) /\ Len(SubSeq(t, 1, e)) = e
        /\ \A l \in 1..e : SubSeq(t, 1, e)[l] = t[l]
    BY <1>1, <2>1, FirstIs
  <2> HIDE DEF p, e
  <2>4. /\ text \in Seq(Characters) /\ Len(text) = Len(p) + Len(w)
        /\ \A l \in 1..Len(p) : text[l] = p[l]
    <3>1. p \in Seq(Characters) /\ w \in Seq(Characters) /\ text = p \o w
      BY <1>1
    <3>2. QED
      BY <3>1, Joined
  <2>5. Len(w) \in Nat
    BY <1>1, LenProperties
  <2>6. Len(p) = e /\ \A l \in 1..e : p[l] = t[l]
    BY <2>2, <2>3
  <2>7. Len(text) = e + Len(w) /\ \A l \in 1..e : text[l] = t[l]
    BY <2>4, <2>6
  <2>8. e <= Len(t) /\ e <= Len(text)
    BY <1>1, <2>1, <2>5, <2>7
  <2>9. QED
    BY <2>1, <2>4, <2>7, <2>8 DEF SameUpTo
<1>6. Utf16ToTextIter(text, edit.start) = a
  <2>1. a \in Nat /\ b \in Nat /\ Len(t) \in Nat /\ a < b /\ a <= Len(t)
    <3>1. a \in Nat /\ a < b /\ a <= c /\ c <= Len(t) /\ c \in Nat
      BY <1>2
    <3>2. b \in Nat /\ Len(t) \in Nat
      BY <1>1
    <3> HIDE DEF a, c
    <3>3. QED
      BY <3>1, <3>2
  <2> HIDE DEF a
  <2>2. a <= e
    BY <2>1
  <2>3. Len(text) \in Nat
    BY <1>5, LenProperties
  <2> HIDE DEF e
  <2>4. SameUpTo(t, text, a)
    BY <1>5, <2>1, <2>2, <2>3 DEF SameUpTo
  <2>5. t \in Seq(Characters) /\ text \in Seq(Characters)
    BY <1>1, <1>5
  <2>6. Utf16ToTextIter(text, TextIterToUtf16(t, a)) = a
    BY <2>1, <2>4, <2>5, IteratorIsFound
  <2>7. QED
    BY <1>4, <2>6 DEF a
<1>7. Utf16ToTextIter(text, edit.end) = c
  <2>1. Utf16ToTextIter(text, EndPosition(t, spans, i, behind)) = c
    BY <1>5, EndIsFound
  <2>2. QED
    BY <1>4, <2>1
<1>8. Replaced(t, a, c, b, new, w)
  <2> HIDE DEF a, c, new
  <2>1. a \in 0..Len(t) /\ c \in a..Len(t) /\ a <= b /\ c <= b
    BY <1>1, <1>2
  <2>2. /\ t \in Seq(Characters) /\ w \in Seq(Characters)
        /\ new \in Seq(Characters) /\ b \in 0..(Len(t) + 1)
    BY <1>1, <1>2
  <2>3. QED
    BY <2>1, <2>2, ReplacesPart
<1>9. /\ todo # <<>> /\ todo' = Tail(todo) /\ goal' = goal
      /\ text' = SubSeq(text, 1, a) \o new \o SubSeq(text, c + 1, Len(text))
  <2> HIDE DEF a, c, new, edit
  <2>1. QED
    BY <1>3, <1>4, <1>6, <1>7 DEF ApplyNext
<1>10. text' = Part(t, 0, a) \o ((new \o Part(t, c, b)) \o w)
  BY <1>1, <1>8, <1>9 DEF Replaced
<1>11. QED
  BY <1>9, <1>10 DEF Applies

\* One more edit is applied, and what it puts in goes to the rest.
LEMMA UnderwayGoesOn ==
    ASSUME NEW t, NEW spans, NEW n, NEW behind, NEW pi, NEW k, NEW w, NEW f,
           Underway(t, spans, n, behind, pi, k, w, f), ApplyNext,
           NewTexts \subseteq Seq(Characters)
    PROVE  \E v : Underway(t, spans, n, behind, pi, k + 1, v, f)'
<1>1. PICK b : b = DoneFrom(t, spans, pi, k)
  OBVIOUS
<1>2. /\ Given(t, spans, n) /\ FromTheRight(spans, n, pi) /\ Builds(f, t, spans)
      /\ pi \in [1..n -> 1..n] /\ t \in Seq(Characters) /\ w \in Seq(Characters)
      /\ todo = [l \in 1..(n - k) |-> Edits(t, spans, behind)[pi[k + l]]]
      /\ goal = f[b] \o w
  <2>1. Given(t, spans, n) /\ FromTheRight(spans, n, pi)
    BY DEF Underway
  <2>2. pi \in [1..n -> 1..n] /\ t \in Seq(Characters)
    BY <2>1 DEF FromTheRight, Given
  <2>3. QED
    BY <1>1, <2>1, <2>2 DEF Underway
<1>3. /\ n \in Nat /\ k \in Nat /\ k <= n /\ Len(t) \in Nat /\ b \in Nat /\ b <= Len(t) + 1
  <2>1. b \in 0..(Len(t) + 1) /\ Len(t) \in Nat /\ n \in Nat /\ k \in Nat /\ k <= n
    BY <1>1, UnderwayTypes
  <2>2. QED
    BY <2>1
<1>4. k < n
  <2>1. todo # <<>>
    BY DEF ApplyNext
  <2>2. k # n
    <3>1. k = n => n - k = 0
      BY <1>3
    <3>2. [l \in 1..0 |-> Edits(t, spans, behind)[pi[k + l]]] = <<>>
      OBVIOUS
    <3>3. QED
      BY <1>2, <2>1, <3>1, <3>2
  <2>3. QED
    BY <1>3, <2>2
<1>5. k + 1 \in 1..n /\ k + 1 # 0 /\ k + 1 \in 0..n
  BY <1>3, <1>4
<1>6. PICK i \in 1..n : i = pi[k + 1]
  BY <1>2, <1>5
<1> DEFINE a == spans[i].from
           c == spans[i].to
           new == spans[i].new
           v == (new \o Part(t, c, b)) \o w
<1>7. /\ a \in Nat /\ c \in Nat /\ a <= c /\ c <= Len(t) /\ new \in Seq(Characters)
  <2>1. a \in Nat /\ c \in Nat /\ a <= c /\ c \in 0..Len(t) /\ new \in NewTexts
    BY <1>2, SpanIs
  <2>2. QED
    BY <1>3, <2>1
<1>8. a < b /\ c <= b
  <2>1. CASE k = 0
    <3>1. b = Len(t) + 1
      BY <1>1, <2>1 DEF DoneFrom
    <3> HIDE DEF a, c
    <3>2. QED
      BY <1>3, <1>7, <3>1
  <2>2. CASE k # 0
    <3>1. k \in 1..n /\ k < k + 1
      BY <1>3, <2>2
    <3>2. b = spans[pi[k]].from /\ pi[k] \in 1..n
      BY <1>1, <1>2, <2>2, <3>1 DEF DoneFrom
    <3>3. a < b
      BY <1>2, <1>5, <1>6, <3>1, <3>2 DEF FromTheRight
    <3>4. c <= b
      BY <1>2, <3>2, <3>3, EndsBefore
    <3>5. QED
      BY <3>3, <3>4
  <2>3. QED
    BY <2>1, <2>2
<1>9. \A x \in 1..n : spans[x].from <= a \/ b <= spans[x].from
  <2>1. k \in 0..n
    BY <1>3
  <2>2. QED
    BY <1>1, <1>2, <1>6, <2>1, LeftAndDone
<1>10. f[b] = (f[a] \o new) \o Part(t, c, b)
  <2>1. b \in 0..(Len(t) + 1)
    BY <1>3
  <2>2. /\ Given(t, spans, n) /\ NewTexts \subseteq Seq(Characters) /\ Builds(f, t, spans)
        /\ spans[i].from < b /\ spans[i].to <= b
        /\ \A x \in 1..n : spans[x].from <= spans[i].from \/ b <= spans[x].from
    BY <1>2, <1>8, <1>9
  <2>3. MeansSpan(f, t, spans[i], b)
    BY <2>1, <2>2, OneMeans
  <2>4. QED
    BY <2>3 DEF MeansSpan
<1>11. /\ text' = Part(t, 0, a) \o v
       /\ todo' = Tail(todo) /\ todo # <<>> /\ goal' = goal
  <2>1. /\ Underway(t, spans, n, behind, pi, k, w, f) /\ k < n /\ ApplyNext
        /\ NewTexts \subseteq Seq(Characters) /\ i = pi[k + 1]
        /\ b = DoneFrom(t, spans, pi, k) /\ spans[i].from < b /\ spans[i].to <= b
    BY <1>1, <1>4, <1>6, <1>8
  <2>2. Applies(t, spans[i], b, w)
    BY <2>1, NextIsApplied
  <2>3. QED
    BY <2>2 DEF Applies
<1>12. DoneFrom(t, spans, pi, k + 1) = a
  BY <1>5, <1>6 DEF DoneFrom
<1>13. goal' = f[a] \o v /\ v \in Seq(Characters)
  <2> DEFINE g == f[a]
             r == Part(t, c, b)
  <2>1. g \in Seq(Characters)
    <3>1. f \in [0..(Len(t) + 1) -> Seq(Characters)]
      BY <1>2 DEF Builds
    <3>2. a \in 0..(Len(t) + 1)
      <4> HIDE DEF a
      <4>1. QED
        BY <1>3, <1>7
    <3> HIDE DEF a
    <3>3. QED
      BY <3>1, <3>2
  <2>2. r \in Seq(Characters)
    <3>1. c \in 0..Len(t)
      <4> HIDE DEF c
      <4>1. QED
        BY <1>3, <1>7
    <3> HIDE DEF c
    <3>2. QED
      BY <1>2, <1>3, <3>1, PartIsSeq
  <2>3. goal' = ((g \o new) \o r) \o w
    BY <1>2, <1>10, <1>11
  <2> HIDE DEF g, r, new
  <2>4. Regroups(g, new, r)
    BY <1>7, <2>1, <2>2, Associated
  <2>5. new \o r \in Seq(Characters)
    BY <1>7, <2>2, ConcatProperties
  <2>6. Regroups(g, new \o r, w)
    BY <1>2, <2>1, <2>5, Associated
  <2>7. goal' = g \o ((new \o r) \o w) /\ (new \o r) \o w \in Seq(Characters)
    BY <2>3, <2>4, <2>6 DEF Regroups
  <2>8. QED
    BY <2>7 DEF g, r
<1>14. todo' = [l \in 1..(n - (k + 1)) |-> Edits(t, spans, behind)[pi[(k + 1) + l]]]
  <2> DEFINE edits == Edits(t, spans, behind)
             E == {edits[x] : x \in 1..n}
             rest == [l \in 1..(n - (k + 1)) |-> edits[pi[(k + 1) + l]]]
  <2>1. PICK m : m = n - k
    OBVIOUS
  <2>2. m \in Nat /\ m >= 1 /\ n - (k + 1) = m - 1 /\ m - 1 \in Nat
    BY <1>3, <1>4, <2>1
  <2>3. ASSUME NEW l \in 1..m PROVE edits[pi[k + l]] \in E
    <3>1. k + l \in 1..n
      BY <1>3, <2>1
    <3>2. pi[k + l] \in 1..n
      BY <1>2, <3>1
    <3> HIDE DEF edits
    <3>3. QED
      BY <3>2
  <2> HIDE DEF E
  <2>4. ASSUME NEW l \in 1..(m - 1)
        PROVE  l + 1 \in 1..m /\ edits[pi[(k + 1) + l]] = edits[pi[k + (l + 1)]]
               /\ edits[pi[(k + 1) + l]] \in E
    <3>1. l + 1 \in 1..m /\ (k + 1) + l = k + (l + 1)
      BY <1>3, <2>2
    <3> HIDE DEF edits
    <3>2. QED
      BY <2>3, <3>1
  <2>5. todo = [l \in 1..m |-> edits[pi[k + l]]]
    BY <1>2, <2>1
  <2>6. rest = [l \in 1..(m - 1) |-> edits[pi[(k + 1) + l]]]
    BY <2>2
  <2> HIDE DEF edits, rest
  <2>7. todo \in Seq(E) /\ Len(todo) = m /\ \A l \in 1..m : todo[l] = edits[pi[k + l]]
    BY <2>2, <2>3, <2>5
  <2>8. rest \in Seq(E) /\ Len(rest) = m - 1
        /\ \A l \in 1..(m - 1) : rest[l] = edits[pi[(k + 1) + l]]
    BY <2>2, <2>4, <2>6
  <2>9. /\ Tail(todo) \in Seq(E) /\ Len(Tail(todo)) = m - 1
        /\ \A l \in 1..(m - 1) : Tail(todo)[l] = todo[l + 1]
    BY <1>11, <2>7, HeadTailProperties
  <2>10. \A l \in 1..(m - 1) : Tail(todo)[l] = rest[l]
    BY <2>4, <2>7, <2>8, <2>9
  <2>11. Tail(todo) = rest
    BY <2>8, <2>9, <2>10, SeqEqual
  <2>12. QED
    BY <1>11, <2>11 DEF rest, edits
<1>15. \A x \in behind : MayEndBehind(t, spans, x)
  BY DEF Underway
<1> HIDE DEF a, c, v, new
<1>16. Underway(t, spans, n, behind, pi, k + 1, v, f)'
  BY <1>2, <1>5, <1>11, <1>12, <1>13, <1>14, <1>15 DEF Underway
<1>17. QED
  BY <1>16

\* Every step keeps the invariant.
LEMMA StepKeeps ==
    ASSUME NewTexts \subseteq Seq(Characters), TextInv, [Next]_vars
    PROVE  TextInv'
<1>1. CASE ApplyNext
  <2>1. SUFFICES ASSUME clear'
                 PROVE  \E t, spans, n, behind, pi, k, w, f :
                           Underway(t, spans, n, behind, pi, k, w, f)'
    BY DEF TextInv
  <2>2. clear
    BY <1>1, <2>1 DEF ApplyNext
  <2>3. PICK t, spans, n, behind, pi, k, w, f : Underway(t, spans, n, behind, pi, k, w, f)
    BY <2>2 DEF TextInv
  <2>4. \E v : Underway(t, spans, n, behind, pi, k + 1, v, f)'
    BY <1>1, <2>3, UnderwayGoesOn
  <2>5. QED
    BY <2>4
<1>2. CASE UNCHANGED vars
  <2>1. text' = text /\ todo' = todo /\ goal' = goal /\ clear' = clear
    BY <1>2 DEF vars
  <2>2. SUFFICES ASSUME clear'
                 PROVE  \E t, spans, n, behind, pi, k, w, f :
                           Underway(t, spans, n, behind, pi, k, w, f)'
    BY DEF TextInv
  <2>3. PICK t, spans, n, behind, pi, k, w, f : Underway(t, spans, n, behind, pi, k, w, f)
    BY <2>1, <2>2 DEF TextInv
  <2>4. Underway(t, spans, n, behind, pi, k, w, f)'
    BY <2>1, <2>3 DEF Underway
  <2>5. QED
    BY <2>4
<1>3. QED
  BY <1>1, <1>2 DEF Next

\* A behaviour begins with all edits to be applied.
LEMMA InitEstablishes ==
    ASSUME MaxText \in Nat, MaxSpans \in Nat, NewTexts \subseteq Seq(Characters), Init
    PROVE  TextInv
<1>1. PICK t \in Texts : \E spans \in SpanArrays(t) :
         \E behind \in SUBSET {i \in DOMAIN spans : MayEndBehind(t, spans, i)} :
            /\ text = t
            /\ todo = Descending(Edits(t, spans, behind))
            /\ goal = Meant(t, spans)
            /\ clear = (Cardinality({spans[i].from : i \in DOMAIN spans}) = Len(spans))
  BY DEF Init
<1>2. PICK spans \in SpanArrays(t) :
         \E behind \in SUBSET {i \in DOMAIN spans : MayEndBehind(t, spans, i)} :
            /\ text = t
            /\ todo = Descending(Edits(t, spans, behind))
            /\ goal = Meant(t, spans)
            /\ clear = (Cardinality({spans[i].from : i \in DOMAIN spans}) = Len(spans))
  BY <1>1
<1>3. PICK behind \in SUBSET {i \in DOMAIN spans : MayEndBehind(t, spans, i)} :
            /\ text = t
            /\ todo = Descending(Edits(t, spans, behind))
            /\ goal = Meant(t, spans)
            /\ clear = (Cardinality({spans[i].from : i \in DOMAIN spans}) = Len(spans))
  BY <1>2
<1>4. t \in Seq(Characters) /\ Len(t) \in Nat
  <2>1. PICK m \in 0..MaxText : t \in [1..m -> Chars]
    BY DEF Texts
  <2>2. m \in Nat /\ Chars \subseteq Characters
    BY DEF Chars
  <2>3. t \in [1..m -> Characters]
    BY <2>1, <2>2
  <2>4. t \in Seq(Characters)
    BY <2>2, <2>3
  <2>5. QED
    BY <2>4, LenProperties
<1>5. PICK n \in 1..MaxSpans : spans \in [1..n -> Spans(t)]
  BY DEF SpanArrays
<1>6. n \in Nat \ {0} /\ DOMAIN spans = 1..n /\ Len(spans) = n
  BY <1>5
<1>7. SUFFICES ASSUME clear PROVE \E pi, f : Underway(t, spans, n, behind, pi, 0, <<>>, f)
  BY DEF TextInv
<1>8. \A i, j \in 1..n : spans[i].from = spans[j].from => i = j
  <2> DEFINE starts == {spans[i].from : i \in 1..n}
             from == [i \in 1..n |-> spans[i].from]
  <2>1. Cardinality(starts) = n
    BY <1>3, <1>6, <1>7
  <2>2. from \in [1..n -> starts] /\ \A x \in starts : \E i \in 1..n : from[i] = x
    OBVIOUS
  <2>3. IsFiniteSet(1..n) /\ Cardinality(1..n) = n
    BY <1>6, FS_Interval
  <2> HIDE DEF from, starts
  <2>4. from \in Surjection(1..n, starts)
    BY <2>2 DEF Surjection
  <2>5. from \in Injection(1..n, starts)
    BY <2>1, <2>3, <2>4, FS_Surjection
  <2>6. \A i, j \in 1..n : from[i] = from[j] => i = j
    BY <2>2, <2>5 DEF Injection, IsInjective
  <2>7. QED
    BY <2>6 DEF from
<1>9. Given(t, spans, n)
  BY <1>4, <1>5, <1>6, <1>8 DEF Given, SpanArrays
<1>10. PICK pi : /\ FromTheRight(spans, n, pi)
                /\ Descending(Edits(t, spans, behind)) =
                      [k \in 1..n |-> Edits(t, spans, behind)[pi[k]]]
  BY <1>9, DescendingIs
<1>11. PICK f : Builds(f, t, spans)
  BY <1>9, MeantIsBuilt
<1> DEFINE b == DoneFrom(t, spans, pi, 0)
<1>12. b = Len(t) + 1
  BY DEF DoneFrom
<1>13. text = Part(t, 0, b) \o <<>>
  <2>1. Part(t, 0, b) = SubSeq(t, 0 + 1, Len(t))
    <3>1. b >= Len(t) /\ b \in Nat /\ 0 \in 0..Len(t)
      BY <1>4, <1>12
    <3> HIDE DEF b
    <3>2. QED
      BY <1>4, <3>1, PartIsSeq
  <2>2. SubSeq(t, 0 + 1, Len(t)) = t
    BY <1>4, SubSeqFull
  <2>3. t \o <<>> = t
    BY <1>4, ConcatEmptySeq
  <2>4. QED
    BY <1>3, <2>1, <2>2, <2>3
<1>14. goal = f[b] \o <<>>
  <2>1. f[b] \in Seq(Characters) /\ goal = f[b]
    BY <1>3, <1>4, <1>11, <1>12 DEF Builds
  <2>2. QED
    BY <2>1, ConcatEmptySeq
<1>15. todo = [l \in 1..(n - 0) |-> Edits(t, spans, behind)[pi[0 + l]]]
  <2>1. n - 0 = n /\ \A l \in 1..n : 0 + l = l
    BY <1>6
  <2> DEFINE edits == Edits(t, spans, behind)
  <2>2. todo = [l \in 1..n |-> edits[pi[l]]]
    BY <1>3, <1>10
  <2> HIDE DEF edits
  <2>3. todo = [l \in 1..(n - 0) |-> edits[pi[0 + l]]]
    BY <2>1, <2>2
  <2>4. QED
    BY <2>3 DEF edits
<1>16. \A i \in behind : MayEndBehind(t, spans, i)
  OBVIOUS
<1>17. <<>> \in Seq(Characters) /\ 0 \in 0..n
  BY <1>6, EmptySeq
<1> HIDE DEF b
<1>18. Underway(t, spans, n, behind, pi, 0, <<>>, f)
  BY <1>9, <1>10, <1>11, <1>13, <1>14, <1>15, <1>16, <1>17 DEF Underway, b
<1>19. QED
  BY <1>18

\* The invariant says what the buffer ends up as.
LEMMA InvariantSuffices ==
    ASSUME NewTexts \subseteq Seq(Characters), TextInv
    PROVE  EditsMatchMeaning
<1>1. SUFFICES ASSUME todo = <<>>, clear PROVE text = goal
  BY DEF EditsMatchMeaning
<1>2. PICK t, spans, n, behind, pi, k, w, f : Underway(t, spans, n, behind, pi, k, w, f)
  BY <1>1 DEF TextInv
<1>3. QED
  BY <1>1, <1>2, UnderwayEnds
=============================================================================
