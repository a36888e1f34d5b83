----------------------------- MODULE Induction -----------------------------
(***************************************************************************)
(* Induction and recursion over the numbers up to n, in a form without     *)
(* operator parameters: a set stands for the predicate, and a relation for *)
(* the step.  With these the recursive functions of the models, which run  *)
(* over a list of items, can be reasoned about, and so can FlattenSeq.     *)
(***************************************************************************)
EXTENDS Naturals, SequencesExt, SequenceTheorems, WellFoundedInduction, TLAPS

\* A set of numbers that is not empty has a least one.
LEMMA LeastNumber ==
    ASSUME NEW T, T \subseteq Nat, T # {}
    PROVE  \E x \in T : \A y \in T : x <= y
<1> DEFINE R == OpToRel(<, Nat)
<1>1. IsWellFoundedOn(R, Nat)
  BY NatLessThanWellFounded
<1> HIDE DEF R
<1>2. PICK x \in T : \A y \in T : ~ (<<y, x>> \in R)
  BY <1>1, WFMin
<1>3. \A y \in T : ~(y < x)
  BY <1>2 DEF R, OpToRel
<1>4. QED
  BY <1>3

----------------------------------------------------------------------------
\* T passes from each number up to n to the next.
Hereditary(T, n) == \A k \in 1..n : k - 1 \in T => k \in T

\* A value of f that agrees with g's is followed by one that does.
StepAlike(f, g, n) == \A k \in 1..n : f[k-1] = g[k-1] => f[k] = g[k]

\* In R every value x of S has, at every step k, a value that follows it.
NeverStuck(R, S, n) == \A k \in 1..n : \A x \in S : \E y \in S : <<k, x, y>> \in R

\* f starts at b and takes n steps of R, from value to value of S.
Runs(f, b, R, S, n) ==
    /\ f \in [0..n -> S]
    /\ f[0] = b
    /\ \A k \in 1..n : <<k, f[k-1], f[k]>> \in R

\* A hereditary set that has 0 has every number up to n.
LEMMA UpTo ==
    ASSUME NEW n \in Nat, NEW T, 0 \in T, Hereditary(T, n)
    PROVE  0..n \subseteq T
<1> SUFFICES ASSUME ~(0..n \subseteq T) PROVE FALSE
  OBVIOUS
<1> DEFINE missing == (0..n) \ T
<1>0. missing \subseteq Nat /\ missing # {}
  OBVIOUS
<1>1. PICK x \in missing : \A y \in missing : x <= y
  <2> HIDE DEF missing
  <2>1. QED
    BY <1>0, LeastNumber
<1>2. x \in 1..n /\ x - 1 \in 0..n /\ x - 1 \notin missing
  BY <1>1
<1>3. QED
  BY <1>1, <1>2 DEF Hereditary

\* Two functions that start alike and step alike have the same values.
LEMMA SameByRecursion ==
    ASSUME NEW n \in Nat, NEW f, NEW g, f[0] = g[0], StepAlike(f, g, n)
    PROVE  \A k \in 0..n : f[k] = g[k]
<1> DEFINE T == {k \in 0..n : f[k] = g[k]}
<1>1. 0 \in T
  OBVIOUS
<1>2. Hereditary(T, n)
  BY DEF Hereditary, StepAlike
<1>3. 0..n \subseteq T
  <2> HIDE DEF T
  <2>1. QED
    BY <1>1, <1>2, UpTo
<1>4. QED
  BY <1>3

\* Where the steps of R never get stuck, a function takes n of them.
LEMMA ByRecursion ==
    ASSUME NEW n \in Nat, NEW S, NEW b \in S, NEW R, NeverStuck(R, S, n)
    PROVE  \E f : Runs(f, b, R, S, n)
<1> DEFINE T == {m \in 0..n : \E f : Runs(f, b, R, S, m)}
<1>1. 0 \in T
  <2> DEFINE g == [k \in 0..0 |-> b]
  <2>1. Runs(g, b, R, S, 0)
    BY DEF Runs
  <2> HIDE DEF g
  <2>2. QED
    BY <2>1
<1>2. ASSUME NEW m \in 1..n, m - 1 \in T PROVE m \in T
  <2>1. PICK f : Runs(f, b, R, S, m - 1)
    BY <1>2
  <2>2. PICK y \in S : <<m, f[m-1], y>> \in R
    <3>1. f[m-1] \in S
      BY <2>1 DEF Runs
    <3>2. QED
      BY <3>1 DEF NeverStuck
  <2> DEFINE g == [k \in 0..m |-> IF k = m THEN y ELSE f[k]]
  <2>3. g \in [0..m -> S] /\ g[0] = b
    BY <2>1 DEF Runs
  <2>4. ASSUME NEW k \in 1..m PROVE <<k, g[k-1], g[k]>> \in R
    <3>1. CASE k = m
      BY <2>2, <3>1
    <3>2. CASE k # m
      BY <2>1, <3>2 DEF Runs
    <3>3. QED
      BY <3>1, <3>2
  <2>5. Runs(g, b, R, S, m)
    BY <2>3, <2>4 DEF Runs
  <2> HIDE DEF g
  <2>6. QED
    BY <2>5
<1>3. Hereditary(T, n)
  <2> HIDE DEF T
  <2>1. QED
    BY <1>2 DEF Hereditary
<1>4. 0..n \subseteq T
  <2> HIDE DEF T
  <2>1. QED
    BY <1>1, <1>3, UpTo
<1>5. n \in T
  BY <1>4
<1>6. QED
  BY <1>5

----------------------------------------------------------------------------
(***************************************************************************)
(* Sequences put together.                                                 *)
(***************************************************************************)
\* FlattenSeq adds the sequences one after the other, from the left.
LEMMA FlattenIs ==
    ASSUME NEW S, NEW seqs \in Seq(Seq(S)), Len(seqs) > 0
    PROVE  \E f : /\ f \in [1..Len(seqs) -> Seq(S)]
                  /\ f[1] = seqs[1]
                  /\ \A i \in 2..Len(seqs) : f[i] = f[i - 1] \o seqs[i]
                  /\ FlattenSeq(seqs) = f[Len(seqs)]
<1> DEFINE n == Len(seqs)
           G(g) == [i \in 1..n |-> IF i = 1 THEN seqs[i] ELSE g[i - 1] \o seqs[i]]
           flatten == CHOOSE g : g = G(g)
           R == {t \in (1..(n - 1)) \X Seq(S) \X Seq(S) : t[3] = t[2] \o seqs[t[1] + 1]}
<1>1. n \in Nat /\ n >= 1 /\ n - 1 \in Nat /\ \A i \in 1..n : seqs[i] \in Seq(S)
  OBVIOUS
<1>2. FlattenSeq(seqs) = flatten[n]
  BY <1>1 DEF FlattenSeq
<1>3. NeverStuck(R, Seq(S), n - 1)
  <2> HIDE DEF n
  <2>1. ASSUME NEW k \in 1..(n - 1), NEW x \in Seq(S)
        PROVE  x \o seqs[k + 1] \in Seq(S) /\ <<k, x, x \o seqs[k + 1]>> \in R
    <3>1. seqs[k + 1] \in Seq(S)
      BY <1>1
    <3>2. x \o seqs[k + 1] \in Seq(S)
      BY <3>1
    <3>3. QED
      BY <3>2
  <2> HIDE DEF R
  <2>2. QED
    BY <2>1 DEF NeverStuck
<1> HIDE DEF n
<1>4. PICK h : Runs(h, seqs[1], R, Seq(S), n - 1)
  <2> HIDE DEF R
  <2>1. seqs[1] \in Seq(S)
    BY <1>1
  <2>2. QED
    BY <1>1, <1>3, <2>1, ByRecursion
<1>5. /\ h \in [0..(n - 1) -> Seq(S)] /\ h[0] = seqs[1]
      /\ \A k \in 1..(n - 1) : h[k] = h[k - 1] \o seqs[k + 1]
  BY <1>4 DEF Runs
<1> DEFINE g == [i \in 1..n |-> h[i - 1]]
<1>6. /\ g \in [1..n -> Seq(S)] /\ g[1] = seqs[1]
      /\ \A i \in 2..n : g[i] = g[i - 1] \o seqs[i]
  <2>1. ASSUME NEW i \in 2..n PROVE g[i] = g[i - 1] \o seqs[i]
    <3>1. i - 1 \in 1..(n - 1) /\ (i - 1) + 1 = i /\ i \in 1..n /\ i - 1 \in 1..n
      BY <1>1
    <3>2. h[i - 1] = h[(i - 1) - 1] \o seqs[(i - 1) + 1]
      BY <1>5, <3>1
    <3>3. QED
      BY <3>1, <3>2
  <2>2. g \in [1..n -> Seq(S)] /\ g[1] = seqs[1]
    BY <1>1, <1>5
  <2>3. QED
    BY <2>1, <2>2
<1>7. g = G(g)
  <2> HIDE DEF g
  <2>1. ASSUME NEW i \in 1..n PROVE g[i] = IF i = 1 THEN seqs[i] ELSE g[i - 1] \o seqs[i]
    <3>1. CASE i = 1
      BY <1>6, <3>1
    <3>2. CASE i # 1
      <4>1. i \in 2..n
        BY <1>1, <3>2
      <4>2. QED
        BY <1>6, <3>2, <4>1
    <3>3. QED
      BY <3>1, <3>2
  <2>2. QED
    BY <1>6, <2>1
<1> HIDE DEF g
<1>8. flatten = G(flatten)
  BY <1>7
<1> HIDE DEF flatten
<1>9. \A i \in 1..n : flatten[i] = IF i = 1 THEN seqs[i] ELSE flatten[i - 1] \o seqs[i]
  <2> DEFINE F == flatten
  <2>1. F = [i \in 1..n |-> IF i = 1 THEN seqs[i] ELSE F[i - 1] \o seqs[i]]
    BY <1>8
  <2> HIDE DEF F
  <2>2. \A i \in 1..n : F[i] = IF i = 1 THEN seqs[i] ELSE F[i - 1] \o seqs[i]
    BY <2>1
  <2>3. QED
    BY <2>2 DEF F
<1> DEFINE T == {i \in 0..n : i = 0 \/ flatten[i] = g[i]}
<1>10. Hereditary(T, n)
  <2>1. ASSUME NEW i \in 1..n, i - 1 \in T PROVE flatten[i] = g[i]
    <3>1. CASE i = 1
      BY <1>1, <1>6, <1>9, <3>1
    <3>2. CASE i # 1
      <4>1. i \in 2..n /\ flatten[i - 1] = g[i - 1]
        BY <2>1, <3>2
      <4>2. QED
        BY <1>6, <1>9, <3>2, <4>1
    <3>3. QED
      BY <3>1, <3>2
  <2>2. QED
    BY <1>1, <2>1 DEF Hereditary
<1>11. 0 \in T
  BY <1>1
<1>12. n \in T
  <2> HIDE DEF T
  <2>1. QED
    BY <1>1, <1>10, <1>11, UpTo
<1>13. flatten[n] = g[n]
  BY <1>1, <1>12
<1>14. QED
  BY <1>2, <1>6, <1>13 DEF n

\* The i-th of two sequences put together.
LEMMA Joined ==
    ASSUME NEW S, NEW s \in Seq(S), NEW t \in Seq(S)
    PROVE  /\ s \o t \in Seq(S) /\ Len(s \o t) = Len(s) + Len(t)
           /\ \A i \in 1..Len(s) : (s \o t)[i] = s[i]
           /\ \A i \in 1..Len(t) : (s \o t)[Len(s) + i] = t[i]
<1> DEFINE u == s \o t
<1>1. /\ u \in Seq(S) /\ Len(u) = Len(s) + Len(t)
      /\ \A i \in 1..(Len(s) + Len(t)) : u[i] = IF i <= Len(s) THEN s[i] ELSE t[i - Len(s)]
  BY ConcatProperties
<1> HIDE DEF u
<1>2. \A i \in 1..Len(s) : u[i] = s[i]
  BY <1>1, SMTT(30)
<1>3. \A i \in 1..Len(t) : u[Len(s) + i] = t[i]
  BY <1>1, SMTT(30)
<1>4. QED
  BY <1>1, <1>2, <1>3 DEF u

\* The first n of a sequence.
LEMMA FirstIs ==
    ASSUME NEW S, NEW s \in Seq(S), NEW n \in 0..Len(s)
    PROVE  /\ SubSeq(s, 1, n) \in Seq(S) /\ Len(SubSeq(s, 1, n)) = n
           /\ \A i \in 1..n : SubSeq(s, 1, n)[i] = s[i]
<1>1. \A i \in 1..n : s[i] \in S
  OBVIOUS
<1>2. 1 \in Int /\ n \in Int
  OBVIOUS
<1> DEFINE t == SubSeq(s, 1, n)
<1>3. /\ t \in Seq(S)
      /\ Len(t) = IF 1 <= n THEN n - 1 + 1 ELSE 0
      /\ \A i \in 1..(n - 1 + 1) : t[i] = s[1 + i - 1]
  BY <1>1, <1>2, SubSeqProperties
<1> HIDE DEF t
<1>4. t \in Seq(S) /\ Len(t) = n /\ \A i \in 1..n : t[i] = s[i]
  BY <1>3
<1>5. QED
  BY <1>4 DEF t
=============================================================================
