--------------------------- MODULE FeaturesProofs ---------------------------
(***************************************************************************)
(* The features implement LatestAnswer, for any number of questions,       *)
(* popovers and proposals; the details pane, the history of definitions,   *)
(* the code actions, the outline, the tags and the views of diagnostics do *)
(* what Features says of them; and what is proved of workspace edits and   *)
(* of the edits of one buffer holds of them as parts of Features.          *)
(***************************************************************************)
EXTENDS Features, FiniteSets, Induction, SequenceTheorems

----------------------------------------------------------------------------
(***************************************************************************)
(* The inductive invariant: what ties the id in flight, or the token, to   *)
(* the number of questions.                                                *)
(***************************************************************************)
\* The id in flight is that of the newest question.
IdInv == inflight \in {0, asked} /\ 0 \notin waiting

\* No callback has a token of the future, and one with the present token is
\* that of the newest question.
TokenInv ==
    /\ token \in Nat
    /\ \A c \in waiting :
          c[1] \in Nat /\ c[1] <= token /\ (c[1] = token => c[2] = asked)

IInv ==
    /\ asked \in Nat
    /\ part \in {"completion", "signature", "formatting"} => IdInv
    /\ part \in {"symbols", "hover"} => TokenInv

\* Every step of a controller asks, uses the newest answer, or changes neither.
AnswerStep == [Answers!Next]_<<asked, used>>

----------------------------------------------------------------------------
\* It holds initially, and nothing is asked or used.
LEMMA InitEstablishes == Init => IInv /\ Answers!Init
BY DEF Init, Completing!Init, Completing!InitRequests, Symbols!Init,
       Completing!None, IInv, IdInv, TokenInv, Answers!Init

\* Completion compares the id.
LEMMA CompletionAnswers ==
    ASSUME IInv, CompletionStep
    PROVE  IInv' /\ AnswerStep
<1> USE DEF CompletionStep, IInv, IdInv, AnswerStep, Answers!Next, Answers!vars,
            Completing!Ask, Completing!Ignore, Completing!Use,
            Completing!Answered, Completing!SendRequest
<1>1. CASE Completing!Populate
  BY <1>1 DEF Completing!Populate, Answers!Ask
<1>2. ASSUME NEW id \in waiting, NEW answer \in {"error", "complete", "incomplete"},
             Completing!OnResponse(id, answer)
      PROVE  IInv' /\ AnswerStep
  BY <1>2 DEF Completing!OnResponse, Answers!Use
<1>3. QED
  BY <1>1, <1>2 DEF Completing!Next

\* Signature help compares the id, and Escape and dispose() leave it.
LEMMA SignatureAnswers ==
    ASSUME IInv, SignatureStep
    PROVE  IInv' /\ AnswerStep
<1> USE DEF SignatureStep, IInv, IdInv, AnswerStep, Answers!Next, Answers!vars,
            Signature!Ask, Signature!Ignore, Signature!Use, Signature!None,
            Signature!Answered, Signature!SendRequest, Signature!requestVars
<1>1. CASE Signature!FireRequest
  BY <1>1 DEF Signature!FireRequest, Answers!Ask
<1>2. ASSUME NEW id \in waiting, NEW answer \in {"error", "empty", "signature"},
             Signature!OnResponse(id, answer)
      PROVE  IInv' /\ AnswerStep
  BY <1>2 DEF Signature!OnResponse, Answers!Use
<1>3. CASE Signature!Escape \/ Signature!Dispose
  BY <1>3 DEF Signature!Escape, Signature!Dispose
<1>4. QED
  BY <1>1, <1>2, <1>3 DEF Signature!Next, Signature!InsertText, Signature!DeleteRange

\* So does formatting.
LEMMA FormattingAnswers ==
    ASSUME IInv, FormattingStep
    PROVE  IInv' /\ AnswerStep
<1> USE DEF FormattingStep, IInv, IdInv, AnswerStep, Answers!Next, Answers!vars,
            Format!Ask, Format!Ignore, Format!Use, Format!None,
            Format!Answered, Format!SendRequest
<1>1. CASE Format!Trigger
  BY <1>1 DEF Format!Trigger, Answers!Ask
<1>2. ASSUME NEW id \in waiting, Format!OnResponse(id)
      PROVE  IInv' /\ AnswerStep
  BY <1>2 DEF Format!OnResponse, Answers!Use
<1>3. QED
  BY <1>1, <1>2 DEF Format!Next

\* The symbol search compares the token, which every query and every
\* cancellation advances.
LEMMA SymbolsAnswer ==
    ASSUME IInv, SymbolsStep
    PROVE  IInv' /\ AnswerStep
<1> USE DEF SymbolsStep, IInv, TokenInv, AnswerStep, Answers!Next, Answers!vars,
            Symbols!Ask, Symbols!Ignore, Symbols!Use, Symbols!Answered,
            Symbols!SendRequest, Symbols!requestVars, Symbols!controllerVars
<1>1. ASSUME NEW seeded \in BOOLEAN, Symbols!Trigger(seeded)
      PROVE  IInv' /\ AnswerStep
  BY <1>1 DEF Symbols!Trigger
<1>2. ASSUME NEW typed \in {"query", "empty"}, Symbols!OnQuery(typed)
      PROVE  IInv' /\ AnswerStep
  BY <1>2 DEF Symbols!OnQuery
<1>3. CASE Symbols!Fire
  <2>1. CASE Symbols!FireQuery
    BY <1>3, <2>1 DEF Symbols!FireQuery, Answers!Ask
  <2>2. CASE Symbols!FireEmpty
    BY <1>3, <2>2 DEF Symbols!FireEmpty, Answers!Ask
  <2>3. QED
    BY <1>3, <2>1, <2>2 DEF Symbols!Fire
<1>4. ASSUME NEW callback \in Symbols!Queries,
             NEW answer \in {"error", "none", "symbols"},
             Symbols!OnResponse(callback, answer)
      PROVE  IInv' /\ AnswerStep
  BY <1>4 DEF Symbols!OnResponse, Symbols!Queries, Answers!Use
<1>5. ASSUME NEW direct \in BOOLEAN, Symbols!ActivateSelected(direct)
      PROVE  IInv' /\ AnswerStep
  BY <1>5 DEF Symbols!ActivateSelected
<1>6. ASSUME NEW callback \in waiting \ Symbols!Queries, Symbols!OnResolved(callback)
      PROVE  IInv' /\ AnswerStep
  BY <1>6 DEF Symbols!OnResolved, Answers!Use
<1>7. CASE Symbols!Escape
  BY <1>7 DEF Symbols!Escape, Symbols!Cancel, Answers!Ask
<1>8. CASE Symbols!ClickOutside
  BY <1>8 DEF Symbols!ClickOutside
<1>9. ASSUME NEW p \in closing, Symbols!Closed(p)
      PROVE  IInv' /\ AnswerStep
  BY <1>9 DEF Symbols!Closed, Symbols!Cancel, Answers!Ask
<1>10. QED
  BY <1>1, <1>2, <1>3, <1>4, <1>5, <1>6, <1>7, <1>8, <1>9 DEF Symbols!Next

\* Mouse hover compares the token, which every motion and every dismissal
\* advances; a dwell that fires asks with the present one.
LEMMA HoverAnswers ==
    ASSUME IInv, HoverStep
    PROVE  IInv' /\ AnswerStep
<1> USE DEF HoverStep, IInv, TokenInv, AnswerStep, Answers!Next, Answers!vars,
            Hover!Ask, Hover!Ignore, Hover!Use, Hover!Answered,
            Hover!SendRequest, Hover!requestVars
<1>1. ASSUME Hover!NewToken
      PROVE  IInv' /\ AnswerStep
  BY <1>1 DEF Hover!NewToken, Answers!Ask
<1>2. CASE Hover!MoveOverBlank \/ Hover!MoveOverAnchor \/ Hover!MoveOverText
  BY <1>1, <1>2 DEF Hover!MoveOverBlank, Hover!MoveOverAnchor, Hover!MoveOverText
<1>3. CASE Hover!Dismissed \/ Hover!Dispose
  BY <1>1, <1>3 DEF Hover!Dismissed, Hover!Dispose, Hover!DismissState
<1>4. CASE Hover!GraceExpired
  BY <1>1, <1>4 DEF Hover!GraceExpired, Hover!DismissState
<1>5. CASE Hover!Drag \/ Hover!ViewLeave \/ Hover!EnterPopover \/ Hover!LeavePopover
  BY <1>5 DEF Hover!Drag, Hover!ViewLeave, Hover!EnterPopover, Hover!LeavePopover
<1>6. ASSUME NEW overText \in BOOLEAN, Hover!Dwell(overText)
      PROVE  IInv' /\ AnswerStep
  BY <1>6 DEF Hover!Dwell
<1>7. ASSUME NEW callback \in waiting, NEW shows \in BOOLEAN,
             Hover!OnResponse(callback, shows)
      PROVE  IInv' /\ AnswerStep
  BY <1>7 DEF Hover!OnResponse, Answers!Use
<1>8. ASSUME NEW p \in closing, Hover!Closed(p)
      PROVE  IInv' /\ AnswerStep
  BY <1>8 DEF Hover!Closed, Hover!timerVars
<1>9. QED
  BY <1>2, <1>3, <1>4, <1>5, <1>6, <1>7, <1>8 DEF Hover!Next

\* The other parts use no answer, or any.
LEMMA OthersAnswer ==
    ASSUME IInv, ResolveStep \/ HistoryStep \/ EffectStep
    PROVE  IInv' /\ AnswerStep
<1> USE DEF IInv, AnswerStep, Answers!Next, Answers!vars
<1>1. CASE ResolveStep
  <2> USE DEF Resolving!Ignore, Resolving!requestVars
  <2>1. part = "resolve" /\ part' = part /\ Resolving!Next
    BY <1>1 DEF ResolveStep
  <2>2. ASSUME NEW p \in Proposals, Resolving!ShowAndResolve(p)
        PROVE  IInv' /\ AnswerStep
    BY <2>1, <2>2 DEF Resolving!ShowAndResolve, Resolving!Ask, Answers!Ask
  <2>3. ASSUME NEW p \in Proposals, Resolving!ShowCached(p)
        PROVE  IInv' /\ AnswerStep
    BY <2>1, <2>3 DEF Resolving!ShowCached
  <2>4. ASSUME NEW callback \in waiting, NEW good \in BOOLEAN,
               Resolving!OnResolved(callback, good)
        PROVE  IInv' /\ AnswerStep
    <3>1. asked' = asked /\ used' = used
      BY <2>4 DEF Resolving!OnResolved
    <3>2. QED
      BY <2>1, <3>1
  <2>5. QED
    BY <2>1, <2>2, <2>3, <2>4 DEF Resolving!Next, Resolving!UpdateInfo
<1>2. CASE HistoryStep
  BY <1>2 DEF HistoryStep, History!Next, History!Trigger, History!OnLocation,
     History!OnSeveral, History!OnNothing, History!Choose, History!CloseChooser,
     History!GoBack, History!Ask, History!requestVars, Answers!Ask
<1>3. CASE EffectStep
  BY <1>3 DEF EffectStep, EffectParts, requestVars
<1>4. QED
  BY <1>1, <1>2, <1>3

----------------------------------------------------------------------------
\* Every step keeps the invariant, and is a step of LatestAnswer or none.
LEMMA EveryStep == IInv /\ [Next]_vars => IInv' /\ AnswerStep
<1> SUFFICES ASSUME IInv, [Next]_vars PROVE IInv' /\ AnswerStep
  OBVIOUS
<1>1. CASE UNCHANGED vars
  BY <1>1 DEF vars, requestVars, popoverVars, IInv, IdInv, TokenInv, AnswerStep
<1>2. QED
  BY <1>1, CompletionAnswers, SignatureAnswers, FormattingAnswers,
     SymbolsAnswer, HoverAnswers, OthersAnswer DEF Next

\* The invariant holds of every behaviour.
THEOREM InductiveInvariant == Spec => []IInv
BY InitEstablishes, EveryStep, PTL DEF Spec

\* Whatever the order of the answers, and whatever the user does meanwhile,
\* completion, signature help, formatting, the symbol search and mouse hover use
\* only the answer to their newest question.
THEOREM OnlyLatestAnswersAreUsed == Spec => ImplementsLatestAnswer
<1>1. IInv /\ [Next]_vars => [Answers!Next]_Answers!vars
  BY EveryStep DEF AnswerStep, Answers!vars
<1>2. QED
  BY InitEstablishes, InductiveInvariant, <1>1, PTL
     DEF Spec, ImplementsLatestAnswer, Answers!Spec

----------------------------------------------------------------------------
(***************************************************************************)
(* The details pane of completion.                                         *)
(***************************************************************************)
\* The callback with the id in flight would show what is highlighted, if that
\* is not in the cache.
ResolveInv ==
    /\ asked \in Nat
    /\ \A c \in waiting :
          /\ c[1] \in Nat \ {0} /\ c[1] <= asked
          /\ c[1] = inflight => c[2] = highlighted \/ highlighted \in resolved

LabelInv == (part = "resolve" => ResolveInv) /\ LabelIsHighlighted

\* Its steps keep it, and the other parts leave the pane alone.
LEMMA LabelStep == LabelInv /\ [Next]_vars => LabelInv'
<1> SUFFICES ASSUME LabelInv, [Next]_vars PROVE LabelInv'
  OBVIOUS
<1> USE DEF LabelInv, LabelIsHighlighted, Resolving!LabelIsHighlighted
<1>1. CASE ResolveStep
  <2> USE DEF ResolveInv, Resolving!Ignore, Resolving!requestVars
  <2>1. part = "resolve" /\ part' = part /\ ResolveInv
    BY <1>1 DEF ResolveStep
  <2>2. ASSUME NEW p \in Proposals, Resolving!ShowAndResolve(p)
        PROVE  LabelInv'
    <3>1. /\ asked' = asked + 1 /\ inflight' = asked + 1 /\ resolved' = resolved
          /\ waiting' = waiting \cup {<<asked + 1, p>>} /\ highlighted' = p /\ label' = p
      BY <2>2 DEF Resolving!ShowAndResolve, Resolving!Ask, Resolving!SendRequest
    <3>2. ASSUME NEW c \in waiting'
          PROVE  /\ c[1] \in Nat \ {0} /\ c[1] <= asked'
                 /\ c[1] = inflight' => c[2] = highlighted'
      BY <2>1, <3>1
    <3>3. ResolveInv'
      BY <2>1, <3>1, <3>2
    <3>4. QED
      BY <3>1, <3>3
  <2>3. ASSUME NEW p \in Proposals, Resolving!ShowCached(p)
        PROVE  LabelInv'
    BY <2>1, <2>3 DEF Resolving!ShowCached
  <2>4. ASSUME NEW c \in waiting, NEW good \in BOOLEAN, Resolving!OnResolved(c, good)
        PROVE  LabelInv'
    <3>1. /\ waiting' \subseteq waiting /\ UNCHANGED <<asked, highlighted>>
      BY <2>4 DEF Resolving!OnResolved, Resolving!Answered
    <3>2. CASE UNCHANGED <<inflight, resolved, label>>
      BY <2>1, <3>1, <3>2
    <3>3. CASE /\ inflight = c[1] /\ inflight' = 0
               /\ resolved' = resolved \cup {c[2]} /\ label' = c[2]
      <4>1. label' = highlighted' \/ highlighted' \in resolved'
        BY <2>1, <3>1, <3>3
      <4>2. QED
        BY <2>1, <3>1, <3>3, <4>1
    <3>4. CASE inflight' = 0 /\ UNCHANGED <<resolved, label>>
      BY <2>1, <3>1, <3>4
    <3>5. QED
      BY <2>4, <3>2, <3>3, <3>4 DEF Resolving!OnResolved, Resolving!None
  <2>5. QED
    BY <2>1, <1>1, <2>2, <2>3, <2>4 DEF ResolveStep, Resolving!Next, Resolving!UpdateInfo
<1>2. CASE ~ResolveStep
  <2>1. UNCHANGED vars \/ (UNCHANGED <<part, resolveVars>> /\ part # "resolve")
    BY <1>2 DEF Next, CompletionStep, SignatureStep, FormattingStep, SymbolsStep,
                HoverStep, HistoryStep, EffectStep, EffectParts
  <2>2. QED
    BY <2>1 DEF vars, requestVars, resolveVars, ResolveInv
<1>3. QED
  BY <1>1, <1>2

\* The details pane shows the highlighted proposal, for any proposals and any
\* number of questions.
THEOREM LabelIsAlwaysHighlighted == Spec => []LabelIsHighlighted
<1>1. Init => LabelInv
  BY DEF Init, Resolving!Init, Resolving!InitRequests, LabelInv, ResolveInv,
         LabelIsHighlighted, Resolving!LabelIsHighlighted
<1>2. LabelInv => LabelIsHighlighted
  BY DEF LabelInv
<1>3. QED
  BY <1>1, <1>2, LabelStep, PTL DEF Spec

----------------------------------------------------------------------------
(***************************************************************************)
(* The history of definitions.                                             *)
(***************************************************************************)
Lists == Seq(Nat)

Increasing(s) == \A i, j \in 1..Len(s) : i < j => s[i] < s[j]

\* The places of a stack are those at its positions.
LEMMA PlacesOfList ==
    ASSUME NEW s \in Lists
    PROVE  /\ Len(s) \in Nat /\ DOMAIN s = 1..Len(s)
           /\ \A i \in 1..Len(s) : s[i] \in Nat
           /\ History!Range(s) = {s[i] : i \in 1..Len(s)}
<1>1. Len(s) \in Nat /\ DOMAIN s = 1..Len(s) /\ \A i \in 1..Len(s) : s[i] \in Nat
  BY DEF Lists
<1>2. QED
  BY <1>1 DEF History!Range

\* Front drops the newest place,
LEMMA FrontOfList ==
    ASSUME NEW s \in Lists, s # <<>>, Increasing(s)
    PROVE  /\ History!Front(s) \in Lists /\ Increasing(History!Front(s))
           /\ Len(s) \in Nat \ {0} /\ Len(History!Front(s)) = Len(s) - 1
           /\ History!Last(s) = s[Len(s)]
           /\ \A i \in 1..(Len(s) - 1) : History!Front(s)[i] = s[i]
           /\ History!Range(History!Front(s)) = History!Range(s) \ {History!Last(s)}
<1>1. /\ Len(s) \in Nat \ {0} /\ \A i \in 1..Len(s) : s[i] \in Nat
      /\ History!Range(s) = {s[i] : i \in 1..Len(s)}
      /\ History!Last(s) = s[Len(s)]
  BY PlacesOfList DEF Lists, History!Last
<1> DEFINE n == Len(s) - 1
           f == SubSeq(s, 1, n)
<1>2. n \in Nat /\ 1..Len(s) = 1..n \cup {Len(s)}
  BY <1>1
<1>3. \A i \in 1..n : s[i] \in Nat
  BY <1>1
<1> HIDE DEF n
<1>4. /\ f \in Seq(Nat) /\ Len(f) = IF 1 <= n THEN n - 1 + 1 ELSE 0
      /\ \A i \in 1..(n - 1 + 1) : f[i] = s[1 + i - 1]
  BY <1>2, <1>3, SubSeqProperties
<1> HIDE DEF f
<1>5. f \in Lists /\ Len(f) = n /\ \A i \in 1..n : f[i] = s[i]
  BY <1>2, <1>4 DEF Lists
<1>6. \A i, j \in 1..Len(s) : i < j => s[i] < s[j]
  BY DEF Increasing
<1>7. Increasing(f)
  BY <1>2, <1>5, <1>6 DEF Increasing
<1>8. History!Range(f) = History!Range(s) \ {s[Len(s)]}
  <2>1. History!Range(f) = {f[i] : i \in 1..n}
    BY <1>5, PlacesOfList
  <2>2. \A i \in 1..n : i < Len(s)
    BY <1>1 DEF n
  <2>3. \A i \in 1..n : s[i] \in Nat /\ s[Len(s)] \in Nat /\ s[i] < s[Len(s)]
    BY <1>1, <1>2, <1>6, <2>2
  <2>4. \A i \in 1..n : s[i] # s[Len(s)]
    BY <2>3
  <2>5. QED
    BY <1>1, <1>2, <1>5, <2>1, <2>4
<1>9. f = History!Front(s)
  BY DEF f, n, History!Front
<1>10. QED
  BY <1>1, <1>5, <1>7, <1>8, <1>9 DEF n

\* Tail the oldest,
LEMMA TailOfList ==
    ASSUME NEW s \in Lists, s # <<>>, Increasing(s)
    PROVE  /\ Tail(s) \in Lists /\ Increasing(Tail(s))
           /\ Len(s) \in Nat \ {0} /\ Len(Tail(s)) = Len(s) - 1
           /\ \A i \in 1..(Len(s) - 1) : Tail(s)[i] = s[i + 1]
           /\ History!Range(Tail(s)) = History!Range(s) \ {Head(s)}
<1> DEFINE n == Len(s) - 1
           t == Tail(s)
<1>1. /\ Len(s) \in Nat \ {0} /\ \A i \in 1..Len(s) : s[i] \in Nat
      /\ History!Range(s) = {s[i] : i \in 1..Len(s)}
      /\ Head(s) = s[1]
  BY PlacesOfList DEF Lists
<1>2. t \in Lists /\ Len(t) = n /\ \A i \in 1..n : t[i] = s[i + 1]
  BY <1>1 DEF Lists
<1> HIDE DEF t
<1>3. n \in Nat /\ \A i \in 1..n : i + 1 \in 1..Len(s) /\ 1 < i + 1
  BY <1>1
<1>4. \A i \in 1..Len(s) : i = 1 \/ (i - 1 \in 1..n /\ (i - 1) + 1 = i)
  BY <1>1
<1> HIDE DEF n
<1>5. \A i, j \in 1..Len(s) : i < j => s[i] < s[j]
  BY DEF Increasing
<1>6. Increasing(t)
  <2>1. \A i, j \in 1..n : i < j => i + 1 < j + 1
    BY <1>3
  <2>2. QED
    BY <1>2, <1>3, <1>5, <2>1 DEF Increasing
<1>7. History!Range(t) = History!Range(s) \ {s[1]}
  <2>1. History!Range(t) = {t[i] : i \in 1..n}
    BY <1>2, PlacesOfList
  <2>2. 1 \in 1..Len(s)
    BY <1>1
  <2>3. \A i \in 1..n : s[i + 1] \in Nat /\ s[1] \in Nat /\ s[1] < s[i + 1]
    BY <1>1, <1>3, <1>5, <2>2
  <2>4. \A i \in 1..n : s[i + 1] # s[1]
    BY <2>3
  <2>5. \A x \in History!Range(t) : x \in History!Range(s) /\ x # s[1]
    BY <1>1, <1>2, <1>3, <2>1, <2>4
  <2>6. ASSUME NEW x \in History!Range(s), x # s[1] PROVE x \in History!Range(t)
    <3>1. PICK i \in 1..Len(s) : x = s[i]
      BY <1>1
    <3>2. i # 1
      BY <2>6, <3>1
    <3>3. i - 1 \in 1..n /\ t[i - 1] = s[i]
      BY <1>2, <1>4, <3>2
    <3>4. QED
      BY <2>1, <3>1, <3>3
  <2>7. QED
    BY <2>5, <2>6
<1>8. QED
  BY <1>1, <1>2, <1>6, <1>7 DEF n, t

\* and a push adds one that is newer than all.
LEMMA AppendToList ==
    ASSUME NEW s \in Lists, NEW x \in Nat, Increasing(s), \A i \in 1..Len(s) : s[i] < x
    PROVE  /\ Append(s, x) \in Lists /\ Increasing(Append(s, x))
           /\ Append(s, x) # <<>> /\ Len(Append(s, x)) = Len(s) + 1
           /\ History!Last(Append(s, x)) = x
           /\ \A i \in 1..Len(s) : Append(s, x)[i] = s[i]
           /\ Append(s, x)[Len(s) + 1] = x
           /\ History!Range(Append(s, x)) = History!Range(s) \cup {x}
<1> DEFINE a == Append(s, x)
<1>1. /\ Len(s) \in Nat /\ \A i \in 1..Len(s) : s[i] \in Nat
      /\ History!Range(s) = {s[i] : i \in 1..Len(s)}
  BY PlacesOfList
<1>2. /\ a \in Lists /\ Len(a) = Len(s) + 1 /\ a # <<>>
      /\ \A i \in 1..Len(s) : a[i] = s[i]
      /\ a[Len(s) + 1] = x
  BY <1>1 DEF Lists
<1> HIDE DEF a
<1>3. 1..(Len(s) + 1) = 1..Len(s) \cup {Len(s) + 1}
  BY <1>1
<1>4. History!Last(a) = x
  BY <1>2 DEF History!Last
<1>5. ASSUME NEW i \in 1..Len(a), NEW j \in 1..Len(a), i < j PROVE a[i] < a[j]
  <2>1. i \in 1..Len(s)
    BY <1>1, <1>2, <1>5
  <2>2. CASE j \in 1..Len(s)
    <3>1. s[i] < s[j]
      BY <1>5, <2>1, <2>2 DEF Increasing
    <3>2. QED
      BY <1>2, <2>1, <2>2, <3>1
  <2>3. CASE j = Len(s) + 1
    BY <1>2, <2>1, <2>3
  <2>4. QED
    BY <1>2, <1>3, <2>2, <2>3
<1>6. History!Range(a) = History!Range(s) \cup {x}
  <2>1. History!Range(a) = {a[i] : i \in 1..(Len(s) + 1)}
    BY <1>2, PlacesOfList
  <2>2. QED
    BY <1>1, <1>2, <1>3, <2>1
<1>7. QED
  BY <1>2, <1>4, <1>5, <1>6 DEF a, Increasing

----------------------------------------------------------------------------
\* The stack grows with the number of the question, and a question still open
\* has led to no jump.
StackInv ==
    /\ asked \in Nat
    /\ history \in Lists /\ Increasing(history) /\ Len(history) <= MaxEntries
    /\ \A i \in 1..Len(history) : history[i] <= asked
    /\ waiting \subseteq 1..asked /\ unchosen \subseteq 1..asked
    /\ jumps \subseteq 1..asked
    /\ waiting \cap (jumps \cup unchosen) = {}
    /\ alone \in BOOLEAN

\* What is awaited is the newest place.
AwaitedInv ==
    /\ \A id \in waiting \cup choosers : history # <<>> /\ History!Last(history) = id
    /\ waiting # {} => choosers = {}

PlacesInv ==
    /\ jumps \subseteq History!Range(history)
    /\ History!Range(history) \subseteq jumps \cup unchosen \cup waiting

HistoryInv == StackInv /\ (alone => AwaitedInv /\ PlacesInv)

\* The newest place is a place of the stack.
LEMMA LastIsPlace ==
    ASSUME NEW s \in Lists, s # <<>>
    PROVE  History!Last(s) \in History!Range(s)
<1>1. Len(s) \in 1..Len(s)
  BY DEF Lists
<1>2. QED
  BY <1>1, PlacesOfList DEF History!Last

\* The push of a question is newer than all, and drops at most the oldest.
LEMMA TriggerKeeps ==
    ASSUME HistoryInv, History!Trigger
    PROVE  HistoryInv'
<1>1. /\ asked \in Nat /\ asked' = asked + 1 /\ waiting' = waiting \cup {asked'}
      /\ alone' = (alone /\ waiting = {} /\ choosers = {})
      /\ jumps' = IF Len(history) = MaxEntries THEN jumps \ {Head(history)} ELSE jumps
      /\ history' = IF Len(history) = MaxEntries THEN Append(Tail(history), asked')
                    ELSE Append(history, asked')
      /\ unchosen' = unchosen /\ choosers' = choosers
  BY DEF History!Trigger, History!Ask, History!SendRequest, History!Act, History!Push,
         History!Full, HistoryInv, StackInv
<1>2. /\ history \in Lists /\ Increasing(history) /\ Len(history) <= MaxEntries
      /\ \A i \in 1..Len(history) : history[i] <= asked
      /\ waiting \subseteq 1..asked /\ unchosen \subseteq 1..asked /\ jumps \subseteq 1..asked
      /\ waiting \cap (jumps \cup unchosen) = {} /\ alone \in BOOLEAN
  BY DEF HistoryInv, StackInv
<1>3. Len(history) \in Nat /\ \A i \in 1..Len(history) : history[i] \in Nat
  BY <1>2, PlacesOfList
<1>4. PICK rest \in Lists :
         /\ Increasing(rest) /\ Len(rest) < MaxEntries
         /\ \A i \in 1..Len(rest) : rest[i] < asked'
         /\ history' = Append(rest, asked')
         /\ \/ History!Range(rest) = History!Range(history) /\ jumps' = jumps
            \/ /\ History!Range(rest) = History!Range(history) \ {Head(history)}
               /\ jumps' = jumps \ {Head(history)}
  <2>1. CASE Len(history) = MaxEntries
    <3>1. history # <<>>
      BY <2>1, HistoryAssumption
    <3> DEFINE rest == Tail(history)
    <3>2. /\ rest \in Lists /\ Increasing(rest)
          /\ Len(history) \in Nat \ {0} /\ Len(rest) = Len(history) - 1
          /\ \A i \in 1..(Len(history) - 1) : rest[i] = history[i + 1]
          /\ History!Range(rest) = History!Range(history) \ {Head(history)}
      BY <1>2, <3>1, TailOfList
    <3> HIDE DEF rest
    <3>3. \A i \in 1..Len(rest) : i + 1 \in 1..Len(history) /\ rest[i] = history[i + 1]
      BY <3>2
    <3>4. \A i \in 1..Len(rest) : rest[i] < asked'
      BY <1>1, <1>2, <1>3, <3>3
    <3>5. Len(rest) < MaxEntries
      BY <2>1, <3>2
    <3>6. history' = Append(rest, asked') /\ jumps' = jumps \ {Head(history)}
      BY <1>1, <2>1 DEF rest
    <3>7. QED
      BY <3>2, <3>4, <3>5, <3>6
  <2>2. CASE Len(history) # MaxEntries
    <3>1. Len(history) < MaxEntries
      BY <1>2, <1>3, <2>2, HistoryAssumption
    <3>2. \A i \in 1..Len(history) : history[i] < asked'
      BY <1>1, <1>2, <1>3
    <3>3. QED
      BY <1>1, <1>2, <2>2, <3>1, <3>2
  <2>3. QED
    BY <2>1, <2>2
<1>5. asked' \in Nat /\ asked \in Nat
  BY <1>1
<1>6. /\ history' \in Lists /\ Increasing(history') /\ history' # <<>>
      /\ Len(history') = Len(rest) + 1
      /\ \A i \in 1..Len(rest) : history'[i] = rest[i]
      /\ history'[Len(rest) + 1] = asked'
      /\ History!Last(history') = asked'
      /\ History!Range(history') = History!Range(rest) \cup {asked'}
  BY <1>4, <1>5, AppendToList
<1>7. StackInv'
  <2>1. Len(rest) \in Nat /\ \A i \in 1..Len(rest) : rest[i] \in Nat
    BY PlacesOfList
  <2>2. Len(history') <= MaxEntries
    BY <1>4, <1>6, <2>1, HistoryAssumption
  <2>3. \A i \in 1..Len(history') : history'[i] <= asked'
    BY <1>4, <1>5, <1>6, <2>1
  <2>4. /\ waiting' \subseteq 1..asked' /\ unchosen' \subseteq 1..asked'
        /\ jumps' \subseteq 1..asked'
    <3>1. 1..asked \subseteq 1..asked' /\ asked' \in 1..asked'
      BY <1>1, <1>5
    <3>2. jumps' \subseteq jumps /\ unchosen' = unchosen
      BY <1>1
    <3>3. QED
      BY <1>1, <1>2, <3>1, <3>2
  <2>5. waiting' \cap (jumps' \cup unchosen') = {}
    <3>1. asked' \notin jumps' /\ asked' \notin unchosen'
      BY <1>1, <1>2
    <3>2. QED
      BY <1>1, <1>2, <3>1
  <2>6. alone' \in BOOLEAN
    BY <1>1
  <2>7. QED
    BY <1>5, <1>6, <2>2, <2>3, <2>4, <2>5, <2>6 DEF StackInv
<1>8. ASSUME alone' PROVE AwaitedInv' /\ PlacesInv'
  <2>1. alone /\ waiting = {} /\ choosers = {}
    BY <1>1, <1>8
  <2>2. PlacesInv
    BY <2>1 DEF HistoryInv
  <2>3. waiting' = {asked'} /\ choosers' = {}
    BY <1>1, <2>1
  <2>4. AwaitedInv'
    BY <1>6, <2>3 DEF AwaitedInv
  <2>5. PlacesInv'
    BY <1>1, <1>4, <1>6, <2>1, <2>2, <2>3 DEF PlacesInv
  <2>6. QED
    BY <2>4, <2>5
<1>9. QED
  BY <1>7, <1>8 DEF HistoryInv

\* The question that was awaited is the newest place, and becomes a jump,
LEMMA LocationKeeps ==
    ASSUME HistoryInv, NEW id \in waiting, History!OnLocation(id)
    PROVE  HistoryInv'
<1>1. /\ waiting' = waiting \ {id} /\ jumps' = jumps \cup {id}
      /\ UNCHANGED <<asked, history, choosers, unchosen, alone>>
  BY DEF History!OnLocation, History!Answered
<1>2. StackInv'
  BY <1>1 DEF HistoryInv, StackInv
<1>3. ASSUME alone' PROVE AwaitedInv' /\ PlacesInv'
  <2>1. AwaitedInv /\ PlacesInv /\ history \in Lists
    BY <1>1, <1>3 DEF HistoryInv, StackInv
  <2>2. id \in History!Range(history)
    BY <2>1, LastIsPlace DEF AwaitedInv
  <2>3. QED
    BY <1>1, <2>1, <2>2 DEF AwaitedInv, PlacesInv
<1>4. QED
  BY <1>2, <1>3 DEF HistoryInv

\* or waits for a choice,
LEMMA SeveralKeeps ==
    ASSUME HistoryInv, NEW id \in waiting, History!OnSeveral(id)
    PROVE  HistoryInv'
<1>1. /\ waiting' = waiting \ {id} /\ unchosen' = unchosen \cup {id}
      /\ choosers' \subseteq choosers \cup {id}
      /\ UNCHANGED <<asked, history, jumps, alone>>
  BY DEF History!OnSeveral, History!Answered
<1>2. StackInv'
  BY <1>1 DEF HistoryInv, StackInv
<1>3. ASSUME alone' PROVE AwaitedInv' /\ PlacesInv'
  <2>1. AwaitedInv /\ PlacesInv
    BY <1>1, <1>3 DEF HistoryInv
  <2>2. \A w \in waiting : w = id
    BY <2>1 DEF AwaitedInv
  <2>3. waiting' = {}
    BY <1>1, <2>2
  <2>4. QED
    BY <1>1, <2>1, <2>3 DEF AwaitedInv, PlacesInv
<1>4. QED
  BY <1>2, <1>3 DEF HistoryInv

\* and a choice is a jump.
LEMMA ChooserKeeps ==
    ASSUME HistoryInv, NEW id \in choosers, History!Choose(id) \/ History!CloseChooser(id)
    PROVE  HistoryInv'
<1>1. CASE History!Choose(id)
  <2>1. /\ id \in unchosen /\ jumps' = jumps \cup {id} /\ unchosen' = unchosen \ {id}
        /\ UNCHANGED <<waiting, asked, history, choosers, alone>>
    BY <1>1 DEF History!Choose, History!requestVars
  <2>2. StackInv'
    BY <2>1 DEF HistoryInv, StackInv
  <2>3. ASSUME alone' PROVE AwaitedInv' /\ PlacesInv'
    <3>1. AwaitedInv /\ PlacesInv /\ history \in Lists
      BY <2>1, <2>3 DEF HistoryInv, StackInv
    <3>2. id \in History!Range(history)
      BY <3>1, LastIsPlace DEF AwaitedInv
    <3>3. QED
      BY <2>1, <3>1, <3>2 DEF AwaitedInv, PlacesInv
  <2>4. QED
    BY <2>2, <2>3 DEF HistoryInv
<1>2. CASE History!CloseChooser(id)
  BY <1>2 DEF History!CloseChooser, History!requestVars, HistoryInv, StackInv,
              AwaitedInv, PlacesInv
<1>3. QED
  BY <1>1, <1>2

\* A pop keeps the stack one that grows.
LEMMA PopKeepsStack ==
    ASSUME StackInv, history # <<>>, History!Pop
    PROVE  /\ history' \in Lists /\ Increasing(history') /\ Len(history') <= MaxEntries
           /\ \A i \in 1..Len(history') : history'[i] <= asked
           /\ History!Range(history') = History!Range(history) \ {History!Last(history)}
<1>1. history' = History!Front(history)
  BY DEF History!Pop
<1>2. /\ history \in Lists /\ Increasing(history) /\ Len(history) <= MaxEntries
      /\ \A i \in 1..Len(history) : history[i] <= asked
  BY DEF StackInv
<1>3. /\ history' \in Lists /\ Increasing(history')
      /\ Len(history) \in Nat \ {0} /\ Len(history') = Len(history) - 1
      /\ \A i \in 1..(Len(history) - 1) : history'[i] = history[i]
      /\ History!Range(history') = History!Range(history) \ {History!Last(history)}
  BY <1>1, <1>2, FrontOfList
<1>4. Len(history') <= MaxEntries
  BY <1>2, <1>3, HistoryAssumption
<1>5. \A i \in 1..Len(history') : history'[i] <= asked
  BY <1>2, <1>3
<1>6. QED
  BY <1>3, <1>4, <1>5

\* The entry of the question that was awaited goes, and it is no jump.
LEMMA NothingKeeps ==
    ASSUME HistoryInv, NEW id \in waiting, History!OnNothing(id)
    PROVE  HistoryInv'
<1>1. /\ waiting' = waiting \ {id} /\ History!Pop
      /\ UNCHANGED <<asked, choosers, unchosen, jumps, alone>>
  BY DEF History!OnNothing, History!Answered
<1>2. StackInv'
  <2>1. CASE history = <<>>
    <3>1. history' = history
      BY <1>1, <2>1 DEF History!Pop
    <3>2. QED
      BY <1>1, <3>1 DEF HistoryInv, StackInv
  <2>2. CASE history # <<>>
    <3>1. /\ history' \in Lists /\ Increasing(history') /\ Len(history') <= MaxEntries
          /\ \A i \in 1..Len(history') : history'[i] <= asked
      BY <1>1, <2>2, PopKeepsStack DEF HistoryInv
    <3>2. QED
      BY <1>1, <3>1 DEF HistoryInv, StackInv
  <2>3. QED
    BY <2>1, <2>2
<1>3. ASSUME alone' PROVE AwaitedInv' /\ PlacesInv'
  <2>1. AwaitedInv /\ PlacesInv /\ StackInv
    BY <1>1, <1>3 DEF HistoryInv
  <2>2. /\ history # <<>> /\ History!Last(history) = id /\ \A w \in waiting : w = id
        /\ choosers = {}
    BY <2>1 DEF AwaitedInv
  <2>3. History!Range(history') = History!Range(history) \ {id}
    BY <1>1, <2>1, <2>2, PopKeepsStack
  <2>4. waiting' = {} /\ id \notin jumps
    BY <1>1, <2>1, <2>2 DEF StackInv
  <2>5. AwaitedInv'
    BY <1>1, <2>2, <2>4 DEF AwaitedInv
  <2>6. PlacesInv'
    BY <1>1, <2>1, <2>2, <2>3, <2>4 DEF PlacesInv
  <2>7. QED
    BY <2>5, <2>6
<1>4. QED
  BY <1>2, <1>3 DEF HistoryInv

\* Going back takes the newest place from the stack and from the jumps.
LEMMA GoBackKeeps ==
    ASSUME HistoryInv, History!GoBack
    PROVE  HistoryInv'
<1>1. /\ history # <<>> /\ History!Pop /\ jumps' = jumps \ {History!Last(history)}
      /\ alone' = (alone /\ waiting = {} /\ choosers = {})
      /\ UNCHANGED <<asked, waiting, choosers, unchosen>>
  BY DEF History!GoBack, History!Act, History!requestVars
<1>2. /\ history' \in Lists /\ Increasing(history') /\ Len(history') <= MaxEntries
      /\ \A i \in 1..Len(history') : history'[i] <= asked
      /\ History!Range(history') = History!Range(history) \ {History!Last(history)}
  BY <1>1, PopKeepsStack DEF HistoryInv
<1>3. alone' \in BOOLEAN
  BY <1>1
<1>4. StackInv'
  BY <1>1, <1>2, <1>3 DEF HistoryInv, StackInv
<1>5. ASSUME alone' PROVE AwaitedInv' /\ PlacesInv'
  <2>1. alone /\ waiting = {} /\ choosers = {}
    BY <1>1, <1>5
  <2>2. PlacesInv
    BY <2>1 DEF HistoryInv
  <2>3. AwaitedInv'
    BY <1>1, <2>1 DEF AwaitedInv
  <2>4. PlacesInv'
    BY <1>1, <1>2, <2>1, <2>2 DEF PlacesInv
  <2>5. QED
    BY <2>3, <2>4
<1>6. QED
  BY <1>4, <1>5 DEF HistoryInv

\* The other parts ask their own questions.
LEMMA HistoryStepKeeps ==
    (part = "history" => HistoryInv) /\ [Next]_vars => (part = "history" => HistoryInv)'
<1> SUFFICES ASSUME part = "history" => HistoryInv, [Next]_vars, part' = "history"
             PROVE  HistoryInv'
  OBVIOUS
<1>1. CASE HistoryStep
  <2>1. HistoryInv /\ History!Next
    BY <1>1 DEF HistoryStep
  <2>2. QED
    BY <2>1, TriggerKeeps, LocationKeeps, SeveralKeeps, NothingKeeps, ChooserKeeps,
       GoBackKeeps DEF History!Next
<1>2. CASE UNCHANGED vars
  BY <1>2 DEF vars, requestVars, historyVars, HistoryInv, StackInv, AwaitedInv, PlacesInv
<1>3. CASE Next /\ ~HistoryStep
  <2>1. part # "history" /\ part' = part
    BY <1>3 DEF Next, CompletionStep, ResolveStep, SignatureStep, FormattingStep,
       SymbolsStep, HoverStep, EffectStep, EffectParts
  <2>2. QED
    BY <2>1
<1>4. QED
  BY <1>1, <1>2, <1>3

\* As long as the user waits for every answer and chooser, going back undoes the
\* newest jumps, every one the stack has room for, and nothing but jumps and the
\* questions whose chooser was closed without a choice: for any length of the
\* history and any number of questions.
THEOREM HistoryIsAlwaysJumps == Spec => []HistoryIsJumps
<1>1. Init => (part = "history" => HistoryInv)
  <2> SUFFICES ASSUME Init PROVE HistoryInv
    OBVIOUS
  <2>1. /\ waiting = {} /\ asked = 0 /\ history = <<>> /\ jumps = {}
        /\ unchosen = {} /\ choosers = {} /\ alone = TRUE
    BY DEF Init, History!Init, History!InitRequests
  <2>2. <<>> \in Lists /\ Len(<<>>) = 0 /\ 1..0 = {} /\ 0 <= MaxEntries
    BY HistoryAssumption DEF Lists
  <2>3. StackInv
    BY <2>1, <2>2 DEF StackInv, Increasing
  <2>4. History!Range(history) = {}
    BY <2>1, <2>2, PlacesOfList
  <2>5. QED
    BY <2>1, <2>3, <2>4 DEF HistoryInv, AwaitedInv, PlacesInv
<1>2. (part = "history" => HistoryInv) => HistoryIsJumps
  <2> SUFFICES ASSUME HistoryInv PROVE History!HistoryIsJumps
    BY DEF HistoryIsJumps
  <2>1. DOMAIN history = 1..Len(history) /\ Increasing(history)
    BY PlacesOfList DEF HistoryInv, StackInv
  <2>2. ASSUME alone, waiting = {}
        PROVE  /\ jumps \subseteq History!Range(history)
               /\ History!Range(history) \subseteq jumps \cup unchosen
    BY <2>2 DEF HistoryInv, PlacesInv
  <2>3. QED
    BY <2>1, <2>2 DEF History!HistoryIsJumps, Increasing
<1>3. QED
  BY <1>1, <1>2, HistoryStepKeeps, PTL DEF Spec

----------------------------------------------------------------------------
(***************************************************************************)
(* Renames and code actions: what each phase has asked and done already.   *)
(***************************************************************************)
\* What has been asked of the server when an edit begins.
Asked == {<<>>, <<"rename">>, <<"resolve">>}

\* What is asked and done at the end of a rename or action that holds parts.
Done(parts, sofar) ==
    sofar \o (IF "edit" \in parts THEN <<"edit">> ELSE <<>>)
          \o (IF "command" \in parts THEN <<"command">> ELSE <<>>)

\* A popover that can still commit belongs to a phase that has done nothing.
PopoverInv ==
    /\ committable \in BOOLEAN
    /\ committable => phase = "picking" /\ effects = <<>>
    /\ picker = "shown" => phase = "picking" /\ effects = <<>>
    /\ phase \in {"idle", "offered"} => ~committable /\ picker = "none"

\* Files are counted down while an edit loads.
LoadingInv ==
    /\ loading \in Nat
    /\ phase = "loading" <=> loading # 0

EffectsInv ==
    /\ phase \in {"idle", "offered", "picking", "asked", "loading", "ended"}
    /\ phase \in {"idle", "offered"} => effects = <<>>
    /\ phase = "picking" => effects \in {<<>>, <<"escape">>}
    /\ phase \in {"asked", "loading"} => effects \in Asked
    /\ phase = "ended" =>
          effects \in Asked \/ \E sofar \in Asked : effects = Done(carries, sofar)

ActionInv == PopoverInv /\ LoadingInv /\ EffectsInv

\* Once the popover is gone, its part of the invariant is kept.
LEMMA PopoverIsGone ==
    ASSUME committable' = FALSE, picker' # "shown", phase' \in {"asked", "loading", "ended"}
    PROVE  PopoverInv'
BY DEF PopoverInv

\* The edit and the command are done once, in this order.
LEMMA FinishKeeps ==
    ASSUME effects \in Asked, loading' = 0,
           NEW parts, Acting!Finish(parts, effects), carries' = parts,
           committable' = FALSE, picker' # "shown"
    PROVE  ActionInv'
<1>1. effects' \in Asked \/ \E sofar \in Asked : effects' = Done(carries', sofar)
  BY DEF Acting!Finish, Done
<1>2. phase' = "ended"
  BY DEF Acting!Finish
<1>3. EffectsInv' /\ LoadingInv'
  BY <1>1, <1>2 DEF EffectsInv, LoadingInv
<1>4. QED
  BY <1>2, <1>3, PopoverIsGone DEF ActionInv

\* An edit begins when nothing is loading.
LEMMA ExecuteKeeps ==
    ASSUME effects \in Asked, MaxLoads \in Nat, loading = 0,
           NEW parts, Acting!Execute(parts, effects),
           committable' = FALSE, picker' # "shown"
    PROVE  ActionInv'
<1>1. CASE Acting!Finish(parts, effects) /\ loading' = 0 /\ carries' = parts
  BY <1>1, FinishKeeps
<1>2. CASE /\ loading' \in 0..MaxLoads /\ loading' # 0
           /\ phase' = "loading" /\ effects' = effects
  <2>1. EffectsInv' /\ LoadingInv'
    BY <1>2 DEF EffectsInv, LoadingInv
  <2>2. QED
    BY <1>2, <2>1, PopoverIsGone DEF ActionInv
<1>3. QED
  BY <1>1, <1>2 DEF Acting!Execute

\* The invariant holds initially.
LEMMA ActionInitially == Init => ActionInv
<1> SUFFICES ASSUME Init PROVE ActionInv
  OBVIOUS
<1>1. ActionInit
  BY DEF Init, EffectsInit
<1>2. phase = "idle" /\ picker = "none" /\ committable = FALSE
  BY <1>1 DEF ActionInit, Acting!Init
<1>3. loading = 0 /\ effects = <<>>
  BY <1>1 DEF ActionInit, Acting!Init
<1>4. QED
  BY <1>2, <1>3 DEF ActionInv, PopoverInv, LoadingInv, EffectsInv

\* Every step of a rename or code action keeps it.
LEMMA ActionKeeps ==
    ASSUME ActionInv, MaxLoads \in Nat, Acting!Next
    PROVE  ActionInv'
<1> USE DEF ActionInv, Acting!Show, Acting!End
<1>1. CASE Acting!TriggerRename
  <2>1. PopoverInv'
    <3>1. effects' = <<>> /\ phase = "idle"
      BY <1>1 DEF Acting!TriggerRename, EffectsInv
    <3>2. CASE phase' = "picking" /\ picker' = "shown" /\ committable' = TRUE
      BY <3>1, <3>2 DEF PopoverInv
    <3>3. CASE phase' = "offered" /\ UNCHANGED <<picker, committable>>
      BY <3>1, <3>3 DEF PopoverInv
    <3>4. QED
      BY <1>1, <3>2, <3>3 DEF Acting!TriggerRename
  <2>2. LoadingInv' /\ EffectsInv'
    BY <1>1 DEF Acting!TriggerRename, LoadingInv, EffectsInv
  <2>3. QED
    BY <2>1, <2>2
<1>2. CASE Acting!OnPrepare \/ Acting!OnList
  <2>1. PopoverInv'
    <3>1. effects' = <<>> /\ phase = "offered"
      BY <1>2 DEF Acting!OnPrepare, Acting!OnList, EffectsInv
    <3>2. CASE phase' = "picking" /\ picker' = "shown" /\ committable' = TRUE
      BY <3>1, <3>2 DEF PopoverInv
    <3>3. CASE phase' = "ended" /\ UNCHANGED <<picker, committable>>
      BY <3>1, <3>3 DEF PopoverInv
    <3>4. QED
      BY <1>2, <3>2, <3>3 DEF Acting!OnPrepare, Acting!OnList
  <2>2. LoadingInv' /\ EffectsInv'
    BY <1>2 DEF Acting!OnPrepare, Acting!OnList, LoadingInv, EffectsInv, Asked
  <2>3. QED
    BY <2>1, <2>2
<1>3. CASE Acting!TriggerAction
  <2>1. PopoverInv'
    BY <1>3 DEF Acting!TriggerAction, PopoverInv
  <2>2. LoadingInv' /\ EffectsInv'
    BY <1>3 DEF Acting!TriggerAction, LoadingInv, EffectsInv
  <2>3. QED
    BY <2>1, <2>2
<1>4. ASSUME Acting!Committing
      PROVE  /\ phase = "picking" /\ loading = 0
             /\ effects = <<>> /\ effects \in Asked
             /\ committable' = FALSE /\ picker' # "shown"
  BY <1>4 DEF Acting!Committing, PopoverInv, LoadingInv, Asked
<1>5. ASSUME NEW request \in {"rename", "resolve"}, Acting!Ask(request), Acting!Committing
      PROVE  ActionInv'
  <2>1. effects' = <<request>> /\ phase' = "asked" /\ loading' = 0
    BY <1>4, <1>5 DEF Acting!Ask
  <2>2. effects' \in Asked
    BY <2>1 DEF Asked
  <2>3. LoadingInv' /\ EffectsInv'
    BY <2>1, <2>2 DEF LoadingInv, EffectsInv
  <2>4. QED
    BY <1>4, <1>5, <2>1, <2>3, PopoverIsGone
<1>6. ASSUME phase' = "ended", UNCHANGED <<carries, loading, effects>>,
             effects \in Asked, loading = 0, committable' = FALSE, picker' # "shown"
      PROVE  ActionInv'
  BY <1>6, PopoverIsGone DEF LoadingInv, EffectsInv
<1>7. CASE Acting!EntryActivated
  BY <1>4, <1>5, <1>6, <1>7 DEF Acting!EntryActivated
<1>8. CASE Acting!RowActivated
  <2>1. CASE Acting!Ask("resolve")
    BY <1>5, <1>8, <2>1 DEF Acting!RowActivated
  <2>2. ASSUME NEW parts, Acting!Execute(parts, effects) PROVE ActionInv'
    BY <1>4, <1>8, <2>2, ExecuteKeeps DEF Acting!RowActivated
  <2>3. QED
    BY <1>8, <2>1, <2>2 DEF Acting!RowActivated, Acting!Commit
<1>9. CASE Acting!EscapeEntry
  <2>1. phase = "picking" /\ phase' = phase /\ effects' = <<"escape">> /\ loading' = loading
    BY <1>9 DEF Acting!EscapeEntry, PopoverInv
  <2>2. PopoverInv'
    BY <1>9, <2>1 DEF Acting!EscapeEntry, PopoverInv
  <2>3. LoadingInv' /\ EffectsInv'
    BY <2>1 DEF LoadingInv, EffectsInv
  <2>4. QED
    BY <2>2, <2>3
<1>10. CASE Acting!EscapeList \/ Acting!Closed \/ Acting!WindowCloses
  <2>1. UNCHANGED <<phase, carries, loading, effects>>
    BY <1>10 DEF Acting!EscapeList, Acting!Closed, Acting!WindowCloses
  <2>2. /\ committable' \in {committable, FALSE}
        /\ picker' \in {picker, "closing", "none"}
    <3>1. CASE Acting!Closed
      <4>1. committable' = (committable /\ kind = "codeAction") /\ picker' = "none"
        BY <3>1 DEF Acting!Closed
      <4>2. committable \in BOOLEAN
        BY DEF PopoverInv
      <4>3. QED
        BY <4>1, <4>2
    <3>2. CASE Acting!EscapeList \/ Acting!WindowCloses
      BY <3>2 DEF Acting!EscapeList, Acting!WindowCloses
    <3>3. QED
      BY <1>10, <3>1, <3>2
  <2>3. phase \in {"idle", "offered"} => picker' = "none"
    BY <1>10 DEF Acting!EscapeList, Acting!Closed, Acting!WindowCloses, PopoverInv
  <2>4. PopoverInv'
    <3>1. CASE committable' = FALSE
      BY <2>1, <2>2, <2>3, <3>1 DEF PopoverInv
    <3>2. CASE committable' = committable
      BY <2>1, <2>2, <2>3, <3>2 DEF PopoverInv
    <3>3. QED
      BY <2>2, <3>1, <3>2
  <2>5. LoadingInv' /\ EffectsInv'
    BY <2>1 DEF LoadingInv, EffectsInv
  <2>6. QED
    BY <2>4, <2>5
<1>11. CASE Acting!OnRenamed \/ Acting!OnResolved
  <2>1. /\ phase = "asked" /\ effects \in Asked /\ loading = 0
        /\ committable' = FALSE /\ picker' # "shown"
    BY <1>11 DEF Acting!OnRenamed, Acting!OnResolved, PopoverInv, LoadingInv, EffectsInv
  <2>2. CASE Acting!EndAsked
    BY <1>6, <2>1, <2>2 DEF Acting!EndAsked
  <2>3. ASSUME NEW parts, Acting!Execute(parts, effects) PROVE ActionInv'
    BY <2>1, <2>3, ExecuteKeeps
  <2>4. QED
    BY <1>11, <2>2, <2>3 DEF Acting!OnRenamed, Acting!OnResolved
<1>12. CASE Acting!OneLoaded
  <2>1. /\ phase = "loading" /\ effects \in Asked /\ carries' = carries
        /\ loading' = loading - 1
        /\ committable' = FALSE /\ picker' # "shown"
    BY <1>12 DEF Acting!OneLoaded, PopoverInv, EffectsInv
  <2>2. CASE loading = 1
    <3>1. loading' = 0 /\ Acting!Finish(carries, effects)
      BY <1>12, <2>2 DEF Acting!OneLoaded
    <3>2. QED
      BY <2>1, <3>1, FinishKeeps
  <2>3. CASE loading # 1
    <3>1. UNCHANGED <<phase, effects>>
      BY <1>12, <2>3 DEF Acting!OneLoaded
    <3>2. LoadingInv' /\ EffectsInv'
      BY <2>1, <2>3, <3>1 DEF LoadingInv, EffectsInv
    <3>3. QED
      BY <2>1, <3>1, <3>2, PopoverIsGone
  <2>4. QED
    BY <2>2, <2>3
<1>13. QED
  BY <1>1, <1>2, <1>3, <1>7, <1>8, <1>9, <1>10, <1>11, <1>12 DEF Acting!Next

\* What can be asked or done.
Deeds == {"rename", "resolve", "escape", "edit", "command"}

\* A list of one deed.
LEMMA OneDeed ==
    ASSUME NEW x \in Deeds
    PROVE  /\ <<x>> \in Seq(Deeds) /\ Len(<<x>>) = 1 /\ <<x>>[1] = x
           /\ DOMAIN <<x>> = {1}
OBVIOUS

\* A list that has at most one request, then at most one edit, then at most one
\* command.
InOrder(list, n, m) ==
    /\ list \in Seq(Deeds)
    /\ n \in {0, 1} /\ m \in {n, n + 1} /\ Len(list) \in {m, m + 1}
    /\ \A i \in 1..n : list[i] \in {"rename", "resolve"}
    /\ \A i \in (n+1)..m : list[i] = "edit"
    /\ \A i \in (m+1)..Len(list) : list[i] = "command"

\* What was done at the end is such a list, with the edit that was held.
LEMMA DoneInOrder ==
    ASSUME NEW parts, NEW sofar \in Asked
    PROVE  \E n, m : InOrder(Done(parts, sofar), n, m) /\ ("edit" \in parts => m = n + 1)
<1> DEFINE n == Len(sofar)
           edit == IF "edit" \in parts THEN <<"edit">> ELSE <<>>
           m == Len(sofar \o edit)
           list == Done(parts, sofar)
<1>1. sofar \in Seq(Deeds) /\ n \in {0, 1} /\ \A i \in 1..n : sofar[i] \in {"rename", "resolve"}
  <2>1. CASE sofar = <<>>
    BY <2>1
  <2>2. ASSUME NEW x \in {"rename", "resolve"}, sofar = <<x>>
        PROVE  sofar \in Seq(Deeds) /\ n = 1 /\ sofar[1] = x
    BY <2>2, OneDeed DEF Deeds
  <2>3. QED
    BY <2>1, <2>2 DEF Asked
<1>2. /\ sofar \o edit \in Seq(Deeds) /\ m \in {n, n + 1}
      /\ "edit" \in parts => m = n + 1
      /\ \A i \in 1..n : (sofar \o edit)[i] = sofar[i]
      /\ \A i \in (n+1)..m : (sofar \o edit)[i] = "edit"
  <2>1. CASE "edit" \in parts
    <3>1. edit \in Seq(Deeds) /\ Len(edit) = 1 /\ edit[1] = "edit"
      BY <2>1, OneDeed DEF Deeds
    <3> HIDE DEF edit
    <3>2. sofar \in Seq(Deeds) /\ n = Len(sofar) /\ n \in Nat
      BY <1>1
    <3>3. /\ sofar \o edit \in Seq(Deeds) /\ m = n + 1
          /\ \A i \in 1..n : (sofar \o edit)[i] = sofar[i]
          /\ (sofar \o edit)[n + 1] = "edit"
      <4>1. sofar \in Seq(Deeds) /\ edit \in Seq(Deeds)
        BY <3>1, <3>2
      <4>2. /\ sofar \o edit \in Seq(Deeds)
            /\ Len(sofar \o edit) = Len(sofar) + Len(edit)
            /\ \A i \in 1..Len(sofar) : (sofar \o edit)[i] = sofar[i]
            /\ \A i \in 1..Len(edit) : (sofar \o edit)[Len(sofar) + i] = edit[i]
        BY <4>1, Joined
      <4>3. QED
        BY <3>1, <3>2, <4>2
    <3> HIDE DEF n, m
    <3>4. (n + 1)..m = {n + 1} /\ m \in {n, n + 1}
      BY <3>2, <3>3
    <3>5. QED
      BY <2>1, <3>3, <3>4
  <2>2. CASE "edit" \notin parts
    BY <1>1, <2>2
  <2>3. QED
    BY <2>1, <2>2
<1> DEFINE head == sofar \o edit
<1>3. /\ list \in Seq(Deeds) /\ Len(list) \in {m, m + 1}
      /\ \A i \in 1..m : list[i] = head[i]
      /\ \A i \in (m+1)..Len(list) : list[i] = "command"
  <2>1. head \in Seq(Deeds) /\ m = Len(head)
    BY <1>2
  <2>2. CASE "command" \in parts
    <3> DEFINE command == <<"command">>
    <3>1. list = head \o command
      BY <2>2 DEF Done
    <3>2. command \in Seq(Deeds) /\ Len(command) = 1 /\ command[1] = "command"
      BY OneDeed DEF Deeds
    <3> HIDE DEF command, head, list, m
    <3>3. /\ list \in Seq(Deeds) /\ Len(list) = m + 1 /\ m \in Nat
          /\ \A i \in 1..(m+1) : list[i] = IF i <= m THEN head[i] ELSE command[i - m]
      <4>1. /\ list \in Seq(Deeds) /\ Len(list) = Len(head) + Len(command)
            /\ \A i \in 1..(Len(head) + Len(command)) :
                  list[i] = IF i <= Len(head) THEN head[i] ELSE command[i - Len(head)]
        BY <2>1, <3>1, <3>2, ConcatProperties, Zenon
      <4>2. Len(head) = m /\ m \in Nat /\ Len(command) = 1
        BY <2>1, <3>2
      <4>3. QED
        BY <4>1, <4>2
    <3>4. \A i \in 1..m : list[i] = head[i]
      BY <3>3
    <3>5. \A i \in (m+1)..Len(list) : i = m + 1 /\ list[i] = command[1]
      BY <3>3
    <3>6. QED
      BY <3>2, <3>3, <3>4, <3>5
  <2>3. CASE "command" \notin parts
    <3>1. list = head \o <<>>
      BY <2>3 DEF Done
    <3> HIDE DEF head, list
    <3>2. list = head
      BY <2>1, <3>1
    <3>3. QED
      BY <2>1, <3>2
  <2>4. QED
    BY <2>2, <2>3
<1>4. InOrder(list, n, m)
  <2> HIDE DEF list
  <2>1. \A i \in 1..n : list[i] \in {"rename", "resolve"}
    BY <1>1, <1>2, <1>3
  <2>2. \A i \in (n+1)..m : list[i] = "edit"
    BY <1>1, <1>2, <1>3
  <2>3. QED
    BY <1>1, <1>2, <1>3, <2>1, <2>2 DEF InOrder
<1>5. QED
  BY <1>2, <1>4

\* It says what the property asks.
LEMMA ActionInvSuffices == ActionInv => CommandFollowsEdit
<1> SUFFICES ASSUME ActionInv PROVE Acting!CommandFollowsEdit
  BY DEF CommandFollowsEdit
<1>1. CASE effects \in Asked \cup {<<"escape">>}
  <2>1. CASE effects = <<>>
    BY <2>1 DEF Acting!CommandFollowsEdit, Acting!IsInjective
  <2>2. ASSUME NEW x \in {"rename", "resolve", "escape"}, effects = <<x>>
        PROVE  Acting!CommandFollowsEdit
    <3>1. DOMAIN effects = {1} /\ Len(effects) = 1 /\ effects[1] \notin {"edit", "command"}
      BY <2>2, OneDeed DEF Deeds
    <3>2. QED
      BY <3>1 DEF Acting!CommandFollowsEdit, Acting!IsInjective
  <2>3. QED
    BY <1>1, <2>1, <2>2 DEF Asked
<1>2. ASSUME NEW sofar \in Asked, phase = "ended", effects = Done(carries, sofar)
      PROVE  Acting!CommandFollowsEdit
  <2>1. loading = 0
    BY <1>2 DEF ActionInv, LoadingInv
  <2>2. PICK n, m : InOrder(effects, n, m) /\ ("edit" \in carries => m = n + 1)
    BY <1>2, DoneInOrder
  <2>3. n \in {0, 1} /\ m \in {n, n + 1} /\ Len(effects) \in {m, m + 1}
    BY <2>2 DEF InOrder
  <2>4. n \in Nat /\ m \in Nat /\ Len(effects) \in Nat
    BY <2>3
  <2>5. DOMAIN effects = 1..Len(effects)
    BY <2>2 DEF InOrder
  <2>6. ASSUME NEW i \in DOMAIN effects
        PROVE  \/ i = n /\ n = 1 /\ effects[i] \in {"rename", "resolve"}
               \/ i = n + 1 /\ i = m /\ effects[i] = "edit"
               \/ i = m + 1 /\ effects[i] = "command"
    <3>1. i \in 1..Len(effects)
      BY <2>5
    <3>2. i \in 1..n \/ i \in (n+1)..m \/ i \in (m+1)..Len(effects)
      BY <2>3, <2>4, <3>1
    <3>3. QED
      BY <2>2, <2>3, <2>4, <3>2 DEF InOrder
  <2>7. Acting!IsInjective(effects)
    BY <2>4, <2>6 DEF Acting!IsInjective
  <2>8. ASSUME NEW i \in DOMAIN effects, effects[i] = "command", "edit" \in carries
        PROVE  \E j \in 1..(i - 1) : effects[j] = "edit"
    <3>1. i = m + 1 /\ m = n + 1
      BY <2>2, <2>6, <2>8
    <3>2. m \in 1..Len(effects) /\ m \in 1..(i - 1) /\ m # n /\ m # m + 1
      BY <2>4, <2>5, <3>1
    <3>3. m \in (n+1)..m
      BY <2>4, <3>1
    <3>4. effects[m] = "edit"
      BY <2>2, <3>3 DEF InOrder
    <3>5. QED
      BY <3>2, <3>4
  <2>9. \A i \in DOMAIN effects : effects[i] # "escape"
    BY <2>6
  <2>10. QED
    BY <2>1, <2>7, <2>8, <2>9 DEF Acting!CommandFollowsEdit
<1>3. phase = "ended" \/ effects \in Asked \cup {<<"escape">>}
  <2>1. CASE phase \in {"idle", "offered", "picking"}
    BY <2>1 DEF ActionInv, EffectsInv, Asked
  <2>2. CASE phase \in {"asked", "loading"}
    BY <2>2 DEF ActionInv, EffectsInv
  <2>3. QED
    BY <2>1, <2>2 DEF ActionInv, EffectsInv
<1>4. QED
  BY <1>1, <1>2, <1>3 DEF ActionInv, EffectsInv

\* Acting!Next is the part of code actions; the others leave it alone.
LEMMA ActionStepKeeps == ActionInv /\ [Next]_vars => ActionInv'
<1> SUFFICES ASSUME ActionInv, [Next]_vars PROVE ActionInv'
  OBVIOUS
<1>1. Acting!Next \/ UNCHANGED actionVars
  BY DEF Next, CompletionStep, ResolveStep, SignatureStep, FormattingStep,
         SymbolsStep, HoverStep, HistoryStep, EffectStep, EffectsNext, TextStep,
         ApplyStep, ActionStep, TagsStep, ViewsStep, OutlineStep, vars, effectVars
<1>2. CASE Acting!Next
  BY <1>2, ActionKeeps, MaxLoadsAssumption
<1>3. CASE UNCHANGED actionVars
  BY <1>3 DEF actionVars, ActionInv, PopoverInv, LoadingInv, EffectsInv, Done
<1>4. QED
  BY <1>1, <1>2, <1>3

\* The command of a code action is executed after its edit and never without it,
\* and nothing is done twice or after Escape, for any number of files to load.
THEOREM CommandAlwaysFollowsEdit == Spec => []CommandFollowsEdit
BY ActionInitially, ActionStepKeeps, ActionInvSuffices, PTL DEF Spec

----------------------------------------------------------------------------
(***************************************************************************)
(* The outline.                                                            *)
(***************************************************************************)
Item == [name : Names, container : Names \cup {Outlining!NoContainer}]

\* j is the newest of the first n items of the list that has the name, or 0.
Newest(list, j, name, n) ==
    /\ j \in 0..n
    /\ j # 0 => list[j].name = name
    /\ \A k \in 1..n : list[k].name = name => k <= j

\* by_name has the newest node of each name, and a node is under the newest
\* before it, unless that would be itself.
OutlineInv ==
    /\ items \in Seq(Item)
    /\ parent \in Seq(Nat) /\ Len(parent) = Len(items)
    /\ byName \in [Names -> Nat]
    /\ \A n \in Names : Newest(items, byName[n], n, Len(items))
    /\ \A i \in 1..Len(items) : items[i].name # items[i].container =>
          Newest(items, parent[i], items[i].container, i - 1)

\* An item that follows changes nothing for those before it.
LEMMA NewestOfLonger ==
    ASSUME NEW list \in Seq(Item), NEW x \in Item, NEW n \in 0..Len(list),
           NEW j, NEW name, Newest(list, j, name, n)
    PROVE  Newest(Append(list, x), j, name, n)
<1> DEFINE longer == Append(list, x)
<1>1. Len(list) \in Nat /\ \A k \in 1..Len(list) : longer[k] = list[k]
  OBVIOUS
<1> HIDE DEF longer
<1>2. Newest(longer, j, name, n)
  BY <1>1 DEF Newest
<1>3. QED
  BY <1>2 DEF longer

\* A new item keeps the invariant.
LEMMA AddKeeps ==
    ASSUME OutlineInv, NEW name \in Names,
           NEW container \in Names \cup {Outlining!NoContainer},
           Outlining!AddItem(name, container)
    PROVE  OutlineInv'
<1> DEFINE item == [name |-> name, container |-> container]
           m == Len(items)
           names == [byName EXCEPT ![name] = m + 1]
           under == IF container = Outlining!NoContainer THEN 0 ELSE names[container]
<1>1. /\ items' = Append(items, item) /\ byName' = names
      /\ parent' = Append(parent, under)
  BY DEF Outlining!AddItem, Outlining!Add
<1>2. item \in Item /\ items \in Seq(Item) /\ m \in Nat /\ parent \in Seq(Nat)
      /\ Len(parent) = m /\ byName \in [Names -> Nat]
  BY DEF Item, OutlineInv
<1>3. names \in [Names -> Nat] /\ names[name] = m + 1
      /\ \A n \in Names \ {name} : names[n] = byName[n]
  BY <1>2
<1>4. under \in Nat
  BY <1>3
<1>5. item.name = name /\ item.container = container
  OBVIOUS
<1> HIDE DEF item, names, under
<1>6. /\ items' \in Seq(Item) /\ Len(items') = m + 1 /\ items'[m + 1] = item
      /\ \A k \in 1..m : items'[k] = items[k]
  BY <1>1, <1>2
<1>7. /\ parent' \in Seq(Nat) /\ Len(parent') = m + 1 /\ parent'[m + 1] = under
      /\ \A k \in 1..m : parent'[k] = parent[k]
  BY <1>1, <1>2, <1>4
<1> HIDE DEF m
<1>8. ASSUME NEW n \in Names PROVE Newest(items', names[n], n, m + 1)
  <2>1. CASE n = name
    BY <1>2, <1>3, <1>5, <1>6, <2>1 DEF Newest
  <2>2. CASE n # name
    <3>1. Newest(items, byName[n], n, m)
      BY DEF OutlineInv, m
    <3>2. Newest(items', byName[n], n, m)
      BY <1>1, <1>2, <3>1, NewestOfLonger DEF m
    <3>3. items'[m + 1].name # n
      BY <1>5, <1>6, <2>2
    <3>4. QED
      BY <1>2, <1>3, <2>2, <3>2, <3>3 DEF Newest
  <2>3. QED
    BY <2>1, <2>2
<1>9. ASSUME NEW i \in 1..(m + 1), items'[i].name # items'[i].container
      PROVE  Newest(items', parent'[i], items'[i].container, i - 1)
  <2>1. CASE i = m + 1
    <3>1. name # container
      BY <1>5, <1>6, <1>9, <2>1
    <3>2. Newest(items, under, container, m)
      <4>1. CASE container = Outlining!NoContainer
        <5>1. \A k \in 1..m : items[k] \in Item
          BY <1>2 DEF m
        <5>2. \A k \in 1..m : items[k].name # container
          BY <4>1, <5>1, NamesAssumption DEF Item
        <5>3. under = 0
          BY <4>1 DEF under
        <5>4. QED
          BY <1>2, <5>2, <5>3 DEF Newest
      <4>2. CASE container # Outlining!NoContainer
        <5>1. container \in Names /\ under = byName[container]
          BY <1>3, <3>1, <4>2 DEF under
        <5>2. QED
          BY <5>1 DEF OutlineInv, m
      <4>3. QED
        BY <4>1, <4>2
    <3>3. Newest(items', under, container, m)
      <4>1. m \in 0..Len(items)
        BY <1>2 DEF m
      <4>2. Newest(Append(items, item), under, container, m)
        BY <1>2, <3>2, <4>1, NewestOfLonger
      <4>3. QED
        BY <1>1, <4>2
    <3>4. parent'[i] = under /\ items'[i].container = container /\ i - 1 = m
      BY <1>2, <1>5, <1>6, <1>7, <2>1
    <3>5. QED
      BY <3>3, <3>4
  <2>2. CASE i \in 1..m
    <3>1. items'[i] = items[i] /\ parent'[i] = parent[i] /\ i - 1 \in 0..m
      BY <1>2, <1>6, <1>7, <2>2
    <3>2. Newest(items, parent[i], items[i].container, i - 1)
      BY <1>9, <2>2, <3>1 DEF OutlineInv, m
    <3>3. Newest(items', parent[i], items[i].container, i - 1)
      BY <1>1, <1>2, <3>1, <3>2, NewestOfLonger DEF m
    <3>4. QED
      BY <3>1, <3>3
  <2>3. QED
    BY <1>2, <2>1, <2>2
<1>10. QED
  BY <1>1, <1>3, <1>6, <1>7, <1>8, <1>9 DEF OutlineInv

\* The function that Shown is defined by: the nodes that are not too deep.
Depth(f) ==
    f = [n \in 0..Len(items) |->
            IF n = 0 THEN {i \in DOMAIN items : parent[i] = 0}
            ELSE f[n - 1] \cup {i \in DOMAIN items : parent[i] \in f[n - 1]}]

\* It exists.
LEMMA DepthExists ==
    ASSUME items \in Seq(Item)
    PROVE  \E f : Depth(f)
<1> DEFINE n == Len(items)
           S == SUBSET (DOMAIN items)
           b == {i \in DOMAIN items : parent[i] = 0}
           R == {r \in (1..n) \X S \X S :
                    r[3] = r[2] \cup {i \in DOMAIN items : parent[i] \in r[2]}}
<1>1. ASSUME NEW k \in 1..n, NEW x \in S
      PROVE  \E y \in S : <<k, x, y>> \in R
  <2> DEFINE y == x \cup {i \in DOMAIN items : parent[i] \in x}
  <2>1. y \in S
    OBVIOUS
  <2>2. <<k, x, y>> \in R
    BY <2>1
  <2>3. QED
    BY <2>1, <2>2
<1>2. n \in Nat /\ b \in S
  OBVIOUS
<1>3. PICK f : Runs(f, b, R, S, n)
  <2> HIDE DEF R, n, S, b
  <2>1. QED
    BY <1>1, <1>2, ByRecursion DEF NeverStuck
<1>4. f \in [0..n -> S] /\ f[0] = b
  BY <1>3 DEF Runs
<1>5. \A k \in 1..n : f[k] = f[k-1] \cup {i \in DOMAIN items : parent[i] \in f[k-1]}
  <2> DEFINE Wider(x) == x \cup {i \in DOMAIN items : parent[i] \in x}
  <2>1. \A k, x, y : <<k, x, y>> \in R => y = Wider(x)
    OBVIOUS
  <2> HIDE DEF R, n, S, b, Wider
  <2>2. ASSUME NEW k \in 1..n PROVE f[k] = Wider(f[k-1])
    <3>1. <<k, f[k-1], f[k]>> \in R
      BY <1>3 DEF Runs
    <3>2. QED
      BY <2>1, <3>1
  <2>3. QED
    BY <2>2 DEF Wider
<1>6. f = [k \in 0..n |-> IF k = 0 THEN b
                          ELSE f[k-1] \cup {i \in DOMAIN items : parent[i] \in f[k-1]}]
  BY <1>2, <1>4, <1>5
<1>7. QED
  BY <1>6 DEF Depth

\* A node under one before it is reached.
LEMMA EarlierParentsAreShown ==
    ASSUME items \in Seq(Item), parent \in Seq(Nat), Len(parent) = Len(items),
           \A i \in 1..Len(items) : parent[i] \in 0..(i - 1)
    PROVE  Outlining!Shown = DOMAIN items
<1>1. \E g : Depth(g)
  BY DepthExists
<1>2. PICK f : Depth(f) /\ Outlining!Shown = f[Len(items)]
  BY <1>1 DEF Depth, Outlining!Shown
<1> DEFINE n == Len(items)
           roots == {i \in 1..n : parent[i] = 0}
           T == {k \in 0..n : roots \cup (1..k) \subseteq f[k] /\ f[k] \subseteq 1..n}
<1>3. n \in Nat /\ DOMAIN items = 1..n
  OBVIOUS
<1>4. f[0] = roots
  BY <1>2, <1>3 DEF Depth
<1>5. ASSUME NEW k \in 1..n
      PROVE  f[k] = f[k-1] \cup {i \in 1..n : parent[i] \in f[k-1]}
  <2>1. k \in 0..Len(items) /\ k # 0
    BY <1>3
  <2>2. f[k] = f[k-1] \cup {i \in DOMAIN items : parent[i] \in f[k-1]}
    BY <1>2, <2>1 DEF Depth
  <2>3. QED
    BY <1>3, <2>2
<1> HIDE DEF n
<1>6. 0 \in T
  BY <1>3, <1>4
<1>7. ASSUME NEW k \in 1..n, k - 1 \in T PROVE k \in T
  <2>1. /\ roots \subseteq f[k-1] /\ 1..(k-1) \subseteq f[k-1] /\ f[k-1] \subseteq 1..n
        /\ k \in 0..n
    BY <1>3, <1>7
  <2>2. f[k] = f[k-1] \cup {i \in 1..n : parent[i] \in f[k-1]}
    BY <1>5
  <2>3. k \in f[k]
    <3>1. parent[k] \in 0..(k - 1)
      BY DEF n
    <3>2. CASE parent[k] = 0
      BY <2>1, <2>2, <3>2
    <3>3. CASE parent[k] \in 1..(k - 1)
      BY <2>1, <2>2, <3>3
    <3>4. QED
      BY <1>3, <3>1, <3>2, <3>3
  <2>4. 1..k \subseteq f[k]
    <3>1. \A i \in 1..k : i = k \/ i \in 1..(k - 1)
      BY <1>3
    <3>2. QED
      BY <2>1, <2>2, <2>3, <3>1
  <2>5. roots \subseteq f[k] /\ f[k] \subseteq 1..n
    BY <2>1, <2>2
  <2>6. QED
    BY <2>1, <2>4, <2>5
<1>8. 0..n \subseteq T
  <2> HIDE DEF T
  <2>1. Hereditary(T, n)
    BY <1>7 DEF Hereditary
  <2>2. QED
    BY <1>3, <1>6, <2>1, UpTo
<1>9. n \in T
  BY <1>3, <1>8
<1>10. f[n] = 1..n
  BY <1>9
<1>11. QED
  BY <1>2, <1>3, <1>10 DEF n

\* Newest and Owner are the same.
LEMMA NewestIsOwner ==
    ASSUME items \in Seq(Item), NEW i \in DOMAIN items,
           NEW j, Newest(items, j, items[i].container, i - 1)
    PROVE  j = Outlining!Owner(i)
<1> DEFINE before == {k \in 1..(i - 1) : items[k].name = items[i].container}
<1>0. i \in Nat \ {0}
  OBVIOUS
<1>1. CASE before = {}
  <2>1. Outlining!Owner(i) = 0
    BY <1>1 DEF Outlining!Owner
  <2>2. j = 0
    BY <1>0, <1>1 DEF Newest
  <2>3. QED
    BY <2>1, <2>2
<1>2. CASE before # {}
  <2>1. j \in before /\ (\A k \in before : k <= j) /\ before \subseteq Nat
    BY <1>0, <1>2 DEF Newest
  <2>2. Outlining!Owner(i) = CHOOSE l \in before : \A k \in before : k <= l
    BY <1>2 DEF Outlining!Owner
  <2> HIDE DEF before
  <2> DEFINE o == CHOOSE l \in before : \A k \in before : k <= l
  <2>3. o \in before /\ \A k \in before : k <= o
    BY <2>1
  <2> HIDE DEF o
  <2>4. j <= o /\ o <= j /\ o \in Nat /\ j \in Nat
    BY <2>1, <2>3
  <2>5. QED
    BY <2>2, <2>4 DEF o
<1>3. QED
  BY <1>1, <1>2

\* The invariant says what the property asks.
LEMMA OutlineInvSuffices == OutlineInv => Outlining!EverySymbolShown
<1> SUFFICES ASSUME OutlineInv, \A i \in DOMAIN items : items[i].name # items[i].container
             PROVE  /\ Outlining!Shown = DOMAIN items
                    /\ \A i \in DOMAIN items : parent[i] = Outlining!Owner(i)
  BY DEF Outlining!EverySymbolShown
<1>1. items \in Seq(Item) /\ DOMAIN items = 1..Len(items)
  BY DEF OutlineInv
<1>2. ASSUME NEW i \in DOMAIN items
      PROVE  Newest(items, parent[i], items[i].container, i - 1)
  BY <1>1 DEF OutlineInv
<1>3. \A i \in DOMAIN items : parent[i] = Outlining!Owner(i)
  BY <1>1, <1>2, NewestIsOwner
<1>4. \A i \in 1..Len(items) : parent[i] \in 0..(i - 1)
  BY <1>1, <1>2 DEF Newest
<1>5. Outlining!Shown = DOMAIN items
  BY <1>4, EarlierParentsAreShown DEF OutlineInv
<1>6. QED
  BY <1>3, <1>5

\* The outline shows every symbol under its container, for any answer in which
\* no symbol has the name of its own container.
THEOREM EverySymbolIsShown == Spec => []EverySymbolShown
<1>1. Init => OutlineInv
  <2> SUFFICES ASSUME Init PROVE OutlineInv
    OBVIOUS
  <2>1. items = <<>> /\ parent = <<>> /\ byName = [n \in Names |-> 0]
    BY DEF Init, EffectsInit, Outlining!Init
  <2>2. Len(<<>>) = 0 /\ <<>> \in Seq(Item) /\ <<>> \in Seq(Nat)
    OBVIOUS
  <2>3. QED
    BY <2>1, <2>2 DEF OutlineInv, Newest
<1>2. OutlineInv /\ [Next]_vars => OutlineInv'
  <2> SUFFICES ASSUME OutlineInv, [Next]_vars PROVE OutlineInv'
    OBVIOUS
  <2>1. Outlining!Next \/ UNCHANGED outlineVars
    BY DEF Next, CompletionStep, ResolveStep, SignatureStep, FormattingStep,
           SymbolsStep, HoverStep, HistoryStep, EffectStep, EffectsNext, TextStep,
           ApplyStep, ActionStep, TagsStep, ViewsStep, OutlineStep, vars, effectVars
  <2>2. CASE Outlining!Next
    BY <2>2, AddKeeps DEF Outlining!Next
  <2>3. CASE UNCHANGED outlineVars
    BY <2>3 DEF outlineVars, OutlineInv, Newest
  <2>4. QED
    BY <2>1, <2>2, <2>3
<1>3. OutlineInv => EverySymbolShown
  BY OutlineInvSuffices DEF EverySymbolShown
<1>4. QED
  BY <1>1, <1>2, <1>3, PTL DEF Spec

----------------------------------------------------------------------------
(***************************************************************************)
(* The tags of diagnostics: lists of intervals of characters.              *)
(***************************************************************************)
Interval == {p \in Nat \X Nat : p[1] < p[2]}
Intervals == Seq(Interval)

Within(p, c) == p[1] < c /\ c <= p[2]

\* One of the first n intervals has the character c; any of them has it.
FirstHave(list, n, c) == \E k \in 1..n : Within(list[k], c)
Have(list, c) == FirstHave(list, Len(list), c)

\* They all end by x; each ends before the next.
EndBy(list, x) == \A k \in 1..Len(list) : list[k][2] <= x
InLine(list) == \A k \in 1..Len(list), l \in 1..Len(list) :
                   k < l => list[k][2] <= list[l][1]

\* What one more interval changes.
LEMMA OneMoreInterval ==
    ASSUME NEW list \in Intervals, NEW p \in Interval
    PROVE  /\ Append(list, p) \in Intervals
           /\ \A c : Have(Append(list, p), c) <=> Have(list, c) \/ Within(p, c)
           /\ InLine(list) /\ EndBy(list, p[1]) => InLine(Append(list, p))
           /\ \A x \in Nat : EndBy(list, x) /\ p[2] <= x => EndBy(Append(list, p), x)
<1> DEFINE more == Append(list, p)
           n == Len(list)
<1>1. /\ more \in Intervals /\ Len(more) = n + 1 /\ n \in Nat
      /\ more[n + 1] = p /\ \A k \in 1..n : more[k] = list[k]
  BY DEF Intervals
<1>2. /\ p[1] \in Nat /\ p[2] \in Nat
      /\ \A k \in 1..n : list[k][1] \in Nat /\ list[k][2] \in Nat
  BY DEF Intervals, Interval
<1> HIDE DEF more
<1>3. ASSUME NEW c PROVE Have(more, c) <=> Have(list, c) \/ Within(p, c)
  <2>1. ASSUME Have(more, c) PROVE Have(list, c) \/ Within(p, c)
    <3>1. PICK k \in 1..(n + 1) : Within(more[k], c)
      BY <1>1, <2>1 DEF Have, FirstHave
    <3>2. CASE k = n + 1
      BY <1>1, <3>1, <3>2
    <3>3. CASE k \in 1..n
      BY <1>1, <3>1, <3>3 DEF Have, FirstHave
    <3>4. QED
      BY <1>1, <3>2, <3>3
  <2>2. ASSUME Have(list, c) PROVE Have(more, c)
    <3>1. PICK k \in 1..n : Within(list[k], c)
      BY <2>2 DEF Have, FirstHave
    <3>2. k \in 1..(n + 1) /\ Within(more[k], c)
      BY <1>1, <3>1
    <3>3. QED
      BY <1>1, <3>2 DEF Have, FirstHave
  <2>3. ASSUME Within(p, c) PROVE Have(more, c)
    <3>1. n + 1 \in 1..(n + 1) /\ Within(more[n + 1], c)
      BY <1>1, <2>3
    <3>2. QED
      BY <1>1, <3>1 DEF Have, FirstHave
  <2>4. QED
    BY <2>1, <2>2, <2>3
<1>4. ASSUME InLine(list), EndBy(list, p[1]) PROVE InLine(more)
  <2>1. ASSUME NEW k \in 1..(n + 1), NEW l \in 1..(n + 1), k < l
        PROVE  more[k][2] <= more[l][1]
    <3>1. CASE l = n + 1
      <4>1. k \in 1..n
        BY <1>1, <2>1, <3>1
      <4>2. QED
        BY <1>1, <1>4, <3>1, <4>1 DEF EndBy
    <3>2. CASE l \in 1..n
      <4>1. k \in 1..n
        BY <1>1, <2>1, <3>2
      <4>2. QED
        BY <1>1, <1>4, <2>1, <3>2, <4>1 DEF InLine
    <3>3. QED
      BY <1>1, <3>1, <3>2
  <2>2. QED
    BY <1>1, <2>1 DEF InLine
<1>5. ASSUME NEW x \in Nat, EndBy(list, x), p[2] <= x PROVE EndBy(more, x)
  <2>1. ASSUME NEW k \in 1..(n + 1) PROVE more[k][2] <= x
    <3>1. CASE k = n + 1
      BY <1>1, <1>5, <3>1
    <3>2. CASE k \in 1..n
      BY <1>1, <1>5, <3>2 DEF EndBy
    <3>3. QED
      BY <1>1, <3>1, <3>2
  <2>2. QED
    BY <1>1, <2>1 DEF EndBy
<1>6. QED
  BY <1>1, <1>3, <1>4, <1>5 DEF more

\* The first n intervals are the first n - 1 and the nth.
LEMMA FirstAndNext ==
    ASSUME NEW list, NEW n \in Nat \ {0}, NEW c
    PROVE  FirstHave(list, n, c) <=> FirstHave(list, n - 1, c) \/ Within(list[n], c)
<1>1. 1..n = (1..(n - 1)) \cup {n}
  OBVIOUS
<1>2. QED
  BY <1>1 DEF FirstHave

----------------------------------------------------------------------------
(***************************************************************************)
(* _subtract_intervals.                                                    *)
(***************************************************************************)
Found == [cur : Nat, pieces : Intervals]

\* After n intervals the pieces are what is free up to cur, and nothing behind
\* it has been looked at.
FoundInv(found, s, e, list, n) ==
    /\ found \in Found
    /\ s <= found.cur
    /\ found.cur = s \/ \A l \in (n + 1)..Len(list) : found.cur <= list[l][1]
    /\ \A c \in Nat : found.cur < c /\ c <= e => ~FirstHave(list, n, c)
    /\ \A c \in Nat : Have(found.pieces, c) <=>
          s < c /\ c <= found.cur /\ c <= e /\ ~FirstHave(list, n, c)

\* A turn of the loop keeps it a state of the loop,
LEMMA PieceBeforeType ==
    ASSUME NEW found \in Found, NEW i \in Interval, NEW e \in Nat
    PROVE  Tagging!PieceBefore(found, i, e) \in Found
<1>1. found.cur \in Nat /\ found.pieces \in Intervals /\ i[1] \in Nat /\ i[2] \in Nat
  BY DEF Found, Interval
<1>2. Tagging!Larger(found.cur, i[2]) \in Nat
  BY <1>1 DEF Tagging!Larger
<1>3. ASSUME found.cur < i[1]
      PROVE  Append(found.pieces, <<found.cur, i[1]>>) \in Intervals
  <2>1. <<found.cur, i[1]>> \in Interval
    BY <1>1, <1>3 DEF Interval
  <2>2. QED
    BY <1>1, <2>1, OneMoreInterval
<1>4. QED
  BY <1>1, <1>2, <1>3 DEF Tagging!PieceBefore, Found

\* and keeps the invariant.
LEMMA PieceBeforeKeeps ==
    ASSUME NEW list \in Intervals, InLine(list), NEW s \in Nat, NEW e \in Nat,
           NEW n \in 1..Len(list), NEW found, FoundInv(found, s, e, list, n - 1)
    PROVE  FoundInv(Tagging!PieceBefore(found, list[n], e), s, e, list, n)
<1> DEFINE i == list[n]
           new == Tagging!PieceBefore(found, i, e)
           cur == found.cur
<1>1. /\ n \in Nat \ {0} /\ Len(list) \in Nat /\ n - 1 + 1 = n
      /\ i \in Interval /\ i[1] \in Nat /\ i[2] \in Nat /\ i[1] < i[2]
  BY DEF Intervals, Interval
<1>2. found \in Found /\ cur \in Nat /\ s <= cur /\ found.pieces \in Intervals
  BY DEF FoundInv, Found
<1>3. new \in Found
  BY <1>1, <1>2, PieceBeforeType
<1>4. cur = s \/ cur <= i[1]
  BY <1>1 DEF FoundInv
<1>5. ASSUME NEW l \in (n + 1)..Len(list)
      PROVE  list[l][1] \in Nat /\ i[2] <= list[l][1]
  <2>1. l \in 1..Len(list) /\ n < l
    BY <1>1
  <2>2. list[l] \in Interval
    BY <2>1 DEF Intervals
  <2>3. list[n][2] <= list[l][1]
    BY <2>1 DEF InLine
  <2>4. QED
    BY <2>2, <2>3 DEF Interval
<1>6. \A c : FirstHave(list, n, c) <=> FirstHave(list, n - 1, c) \/ Within(i, c)
  BY <1>1, FirstAndNext
<1>7. /\ \A c \in Nat : cur < c /\ c <= e => ~FirstHave(list, n - 1, c)
      /\ \A c \in Nat : Have(found.pieces, c) <=>
            s < c /\ c <= cur /\ c <= e /\ ~FirstHave(list, n - 1, c)
  BY DEF FoundInv
<1>8. CASE i[2] <= cur \/ i[1] >= e
  <2>1. new = found
    BY <1>8 DEF Tagging!PieceBefore
  <2>2. \A c \in Nat : s < c /\ c <= e => ~Within(i, c)
    <3> HIDE DEF cur, i, new
    <3>1. ASSUME NEW c \in Nat, s < c, c <= e PROVE ~(i[1] < c /\ c <= i[2])
      <4>1. CASE i[1] >= e
        BY <1>1, <3>1, <4>1
      <4>2. CASE i[2] <= cur
        <5>1. i[1] < cur
          BY <1>1, <1>2, <4>2
        <5>2. cur = s
          BY <1>1, <1>2, <1>4, <5>1
        <5>3. QED
          BY <1>1, <3>1, <4>2, <5>2
      <4>3. QED
        BY <1>8, <4>1, <4>2
    <3>2. QED
      BY <3>1 DEF Within
  <2>3. found.cur = s \/ \A l \in (n + 1)..Len(list) : found.cur <= list[l][1]
    BY <1>1 DEF FoundInv
  <2>4. \A c \in Nat : cur < c /\ c <= e => ~FirstHave(list, n, c)
    BY <1>2, <1>6, <1>7, <2>2
  <2>5. \A c \in Nat : Have(found.pieces, c) <=>
            s < c /\ c <= cur /\ c <= e /\ ~FirstHave(list, n, c)
    BY <1>6, <1>7, <2>2
  <2>6. FoundInv(found, s, e, list, n)
    BY <1>2, <2>3, <2>4, <2>5 DEF FoundInv
  <2>7. QED
    BY <2>1, <2>6
<1>9. CASE cur < i[2] /\ i[1] < e
  <2>1. ~(i[2] <= cur \/ i[1] >= e)
    BY <1>1, <1>2, <1>9
  <2>2. /\ new.cur = i[2]
        /\ new.pieces = IF cur < i[1] THEN Append(found.pieces, <<cur, i[1]>>)
                        ELSE found.pieces
    BY <1>1, <1>2, <1>9, <2>1 DEF Tagging!PieceBefore, Tagging!Larger
  <2>3. \A c \in Nat : Have(new.pieces, c) <=>
           Have(found.pieces, c) \/ (cur < c /\ c <= i[1])
    <3>1. CASE cur < i[1]
      <4>1. <<cur, i[1]>> \in Interval
        BY <1>1, <1>2, <3>1 DEF Interval
      <4>2. QED
        BY <1>2, <2>2, <3>1, <4>1, OneMoreInterval DEF Within
    <3>2. CASE ~(cur < i[1])
      BY <1>1, <1>2, <2>2, <3>2
    <3>3. QED
      BY <3>1, <3>2
  <2>4. ASSUME NEW c \in Nat, new.cur < c, c <= e PROVE ~FirstHave(list, n, c)
    <3> HIDE DEF i, new, cur
    <3>1. i[2] \in Nat /\ cur \in Nat /\ i[2] < c /\ cur < i[2]
      BY <1>1, <1>2, <1>9, <2>2, <2>4
    <3>2. cur < c /\ ~Within(i, c)
      BY <3>1 DEF Within
    <3>3. ~FirstHave(list, n - 1, c)
      BY <1>7, <2>4, <3>2
    <3>4. QED
      BY <1>6, <3>2, <3>3
  <2>5. ASSUME NEW c \in Nat
        PROVE  Have(new.pieces, c) <=>
                  s < c /\ c <= new.cur /\ c <= e /\ ~FirstHave(list, n, c)
    <3> HIDE DEF i, new, cur
    <3>1. CASE c <= cur
      <4>1. Have(new.pieces, c) <=> Have(found.pieces, c)
        BY <1>2, <2>3, <3>1
      <4>2. s < c => ~Within(i, c)
        BY <1>1, <1>2, <1>4, <3>1 DEF Within
      <4>3. c <= new.cur
        BY <1>1, <1>2, <1>9, <2>2, <3>1
      <4>4. QED
        BY <1>6, <1>7, <3>1, <4>1, <4>2, <4>3
    <3>2. CASE cur < c
      <4>1. ~Have(found.pieces, c)
        BY <1>2, <1>7, <3>2
      <4>2. Have(new.pieces, c) <=> c <= i[1]
        BY <2>3, <3>2, <4>1
      <4>3. s < c
        BY <1>2, <3>2
      <4>4. CASE c <= i[1]
        BY <1>1, <1>6, <1>7, <1>9, <2>2, <3>2, <4>2, <4>3, <4>4 DEF Within
      <4>5. CASE i[1] < c
        BY <1>1, <1>6, <2>2, <4>2, <4>5 DEF Within
      <4>6. QED
        BY <1>1, <4>4, <4>5
    <3>3. QED
      BY <1>2, <3>1, <3>2
  <2>6. s <= new.cur /\ \A l \in (n + 1)..Len(list) : new.cur <= list[l][1]
    BY <1>1, <1>2, <1>5, <1>9, <2>2
  <2> HIDE DEF i, new
  <2>7. FoundInv(new, s, e, list, n)
    BY <1>3, <2>4, <2>5, <2>6 DEF FoundInv
  <2>8. QED
    BY <2>7 DEF new, i
<1>10. QED
  BY <1>1, <1>2, <1>8, <1>9

\* The function that Subtract is defined by: what is found after n intervals.
SubtractTurns(f, s, e, list) ==
    f = [k \in 0..Len(list) |->
            IF k = 0 THEN [cur |-> s, pieces |-> <<>>]
            ELSE Tagging!PieceBefore(f[k - 1], list[k], e)]

\* It exists.
LEMMA SubtractTurnsExist ==
    ASSUME NEW list \in Intervals, NEW s \in Nat, NEW e \in Nat
    PROVE  \E f : SubtractTurns(f, s, e, list)
<1> DEFINE n == Len(list)
           b == [cur |-> s, pieces |-> <<>>]
           R == {r \in (1..n) \X Found \X Found :
                    r[3] = Tagging!PieceBefore(r[2], list[r[1]], e)}
<1>1. ASSUME NEW k \in 1..n, NEW x \in Found
      PROVE  \E y \in Found : <<k, x, y>> \in R
  <2> DEFINE y == Tagging!PieceBefore(x, list[k], e)
  <2>1. y \in Found
    <3>1. list[k] \in Interval
      BY DEF Intervals
    <3>2. QED
      BY <3>1, PieceBeforeType
  <2>2. <<k, x, y>> \in R
    BY <2>1
  <2>3. QED
    BY <2>1, <2>2
<1>2. n \in Nat /\ b \in Found
  BY DEF Intervals, Found
<1>3. PICK f : Runs(f, b, R, Found, n)
  <2> HIDE DEF R, n, b
  <2>1. QED
    BY <1>1, <1>2, ByRecursion DEF NeverStuck
<1>4. f \in [0..n -> Found] /\ f[0] = b
  BY <1>3 DEF Runs
<1>5. \A k \in 1..n : f[k] = Tagging!PieceBefore(f[k-1], list[k], e)
  BY <1>3 DEF Runs
<1>6. f = [k \in 0..n |-> IF k = 0 THEN b
                          ELSE Tagging!PieceBefore(f[k-1], list[k], e)]
  BY <1>2, <1>4, <1>5
<1>7. QED
  BY <1>6 DEF SubtractTurns

\* Subtract is what is left of the range by the intervals.
LEMMA SubtractIsRest ==
    ASSUME NEW list \in Intervals, InLine(list), NEW s \in Nat, NEW e \in Nat, s < e
    PROVE  LET rest == Tagging!Subtract(s, e, list)
           IN  /\ rest \in Intervals
               /\ \A c \in Nat : Have(rest, c) <=> s < c /\ c <= e /\ ~Have(list, c)
<1>1. \E f : SubtractTurns(f, s, e, list)
  BY SubtractTurnsExist
<1> DEFINE n == Len(list)
           rest == Tagging!Subtract(s, e, list)
<1>2. PICK f : /\ SubtractTurns(f, s, e, list)
               /\ rest = IF f[n].cur < e THEN Append(f[n].pieces, <<f[n].cur, e>>)
                         ELSE f[n].pieces
  BY <1>1 DEF SubtractTurns, Tagging!Subtract
<1> HIDE DEF rest
<1> DEFINE T == {k \in 0..n : FoundInv(f[k], s, e, list, k)}
<1>3. n \in Nat
  BY DEF Intervals
<1>4. 0 \in T
  <2>1. f[0] = [cur |-> s, pieces |-> <<>>]
    BY <1>2, <1>3 DEF SubtractTurns
  <2>2. f[0] \in Found /\ f[0].cur = s /\ f[0].pieces = <<>>
    BY <2>1 DEF Found, Intervals
  <2>3. (\A c : ~Have(<<>>, c)) /\ \A c : ~FirstHave(list, 0, c)
    BY DEF Have, FirstHave
  <2>4. FoundInv(f[0], s, e, list, 0)
    BY <2>2, <2>3 DEF FoundInv
  <2>5. QED
    BY <1>3, <2>4
<1>5. ASSUME NEW k \in 1..n, k - 1 \in T PROVE k \in T
  <2>1. k \in 0..n /\ k # 0
    BY <1>3
  <2>2. f[k] = Tagging!PieceBefore(f[k - 1], list[k], e)
    BY <1>2, <2>1 DEF SubtractTurns
  <2>3. FoundInv(f[k], s, e, list, k)
    BY <1>5, <2>2, PieceBeforeKeeps
  <2>4. QED
    BY <2>1, <2>3
<1>6. FoundInv(f[n], s, e, list, n)
  <2> HIDE DEF T, n
  <2>1. Hereditary(T, n)
    BY <1>5 DEF Hereditary
  <2>2. 0..n \subseteq T
    BY <1>3, <1>4, <2>1, UpTo
  <2>3. n \in T
    BY <1>3, <2>2
  <2>4. QED
    BY <2>3 DEF T
<1> DEFINE final == f[n]
<1>7. /\ final.cur \in Nat /\ final.pieces \in Intervals /\ s <= final.cur
      /\ \A c \in Nat : final.cur < c /\ c <= e => ~Have(list, c)
      /\ \A c \in Nat : Have(final.pieces, c) <=>
            s < c /\ c <= final.cur /\ c <= e /\ ~Have(list, c)
  BY <1>6 DEF FoundInv, Found, Have
<1>8. rest = IF final.cur < e THEN Append(final.pieces, <<final.cur, e>>) ELSE final.pieces
  BY <1>2
<1> HIDE DEF final, n
<1>9. CASE final.cur < e
  <2>1. <<final.cur, e>> \in Interval
    BY <1>7, <1>9 DEF Interval
  <2>2. /\ rest \in Intervals
        /\ \A c : Have(rest, c) <=> Have(final.pieces, c) \/ (final.cur < c /\ c <= e)
    BY <1>7, <1>8, <1>9, <2>1, OneMoreInterval DEF Within
  <2>3. ASSUME NEW c \in Nat
        PROVE  Have(rest, c) <=> s < c /\ c <= e /\ ~Have(list, c)
    <3>1. CASE c <= final.cur
      BY <1>7, <1>9, <2>2, <3>1
    <3>2. CASE final.cur < c
      BY <1>7, <1>9, <2>2, <3>2
    <3>3. QED
      BY <1>7, <3>1, <3>2
  <2>4. QED
    BY <2>2, <2>3 DEF rest
<1>10. CASE e <= final.cur
  <2>1. rest = final.pieces
    BY <1>7, <1>8, <1>10
  <2>2. \A c \in Nat : Have(rest, c) <=> s < c /\ c <= e /\ ~Have(list, c)
    BY <1>7, <1>10, <2>1
  <2>3. QED
    BY <1>7, <2>1, <2>2 DEF rest
<1>11. QED
  BY <1>7, <1>9, <1>10

----------------------------------------------------------------------------
(***************************************************************************)
(* _union_intervals.                                                       *)
(***************************************************************************)
Merged == [s : Nat, e : Nat, out : Intervals, placed : BOOLEAN]

\* After n intervals, which are in out or swallowed by the range.  The range
\* itself is in out once it is placed.
MergedInv(done, s, e, list, n) ==
    /\ done \in Merged
    /\ done.s < done.e /\ done.s <= s /\ e <= done.e
    /\ InLine(done.out)
    /\ \A l \in (n + 1)..Len(list) : EndBy(done.out, list[l][1])
    /\ done.placed = TRUE =>
          /\ \A l \in (n + 1)..Len(list) : done.e < list[l][1]
          /\ \A c \in Nat : Have(done.out, c) <=>
                FirstHave(list, n, c) \/ (s < c /\ c <= e)
    /\ done.placed = FALSE =>
          /\ EndBy(done.out, done.s)
          /\ \A c \in Nat : Have(done.out, c) \/ (done.s < c /\ c <= done.e) <=>
                FirstHave(list, n, c) \/ (s < c /\ c <= e)

\* A turn of the loop keeps it a state of the loop,
LEMMA SwallowType ==
    ASSUME NEW done \in Merged, done.s < done.e, NEW i \in Interval
    PROVE  Tagging!Swallow(done, i) \in Merged /\ Tagging!Swallow(done, i).s < Tagging!Swallow(done, i).e
<1> DEFINE new == Tagging!Swallow(done, i)
<1>1. /\ done.s \in Nat /\ done.e \in Nat /\ done.out \in Intervals
      /\ done.placed \in BOOLEAN /\ i[1] \in Nat /\ i[2] \in Nat /\ i[1] < i[2]
  BY DEF Merged, Interval
<1>2. Append(done.out, i) \in Intervals
  BY <1>1, OneMoreInterval
<1>3. CASE i[2] < done.s
  <2>1. new = [done EXCEPT !.out = Append(@, i)]
    BY <1>3 DEF Tagging!Swallow
  <2>2. QED
    BY <1>2, <2>1 DEF Merged
<1>4. CASE ~(i[2] < done.s) /\ done.e < i[1]
  <2>1. <<done.s, done.e>> \in Interval
    BY <1>1 DEF Interval
  <2>2. Append(Append(done.out, <<done.s, done.e>>), i) \in Intervals
    BY <1>1, <2>1, OneMoreInterval
  <2>3. new = [done EXCEPT !.out = IF done.placed THEN Append(@, i)
                                   ELSE Append(Append(@, <<done.s, done.e>>), i),
                           !.placed = TRUE]
    BY <1>4 DEF Tagging!Swallow
  <2>4. QED
    BY <1>2, <2>2, <2>3 DEF Merged
<1>5. CASE ~(i[2] < done.s) /\ ~(done.e < i[1])
  <2>1. new = [done EXCEPT !.s = Tagging!Smaller(@, i[1]), !.e = Tagging!Larger(@, i[2])]
    BY <1>5 DEF Tagging!Swallow
  <2>2. /\ Tagging!Smaller(done.s, i[1]) \in Nat /\ Tagging!Smaller(done.s, i[1]) <= done.s
        /\ Tagging!Larger(done.e, i[2]) \in Nat /\ done.e <= Tagging!Larger(done.e, i[2])
    BY <1>1 DEF Tagging!Smaller, Tagging!Larger
  <2>3. new \in Merged
    BY <2>1, <2>2 DEF Merged
  <2>4. new.s = Tagging!Smaller(done.s, i[1]) /\ new.e = Tagging!Larger(done.e, i[2])
    BY <2>1 DEF Merged
  <2> HIDE DEF new
  <2>5. new.s < new.e
    BY <1>1, <2>2, <2>4
  <2>6. QED
    BY <2>3, <2>5 DEF new
<1>6. QED
  BY <1>3, <1>4, <1>5

\* and keeps the invariant.
LEMMA SwallowKeeps ==
    ASSUME NEW list \in Intervals, InLine(list), NEW s \in Nat, NEW e \in Nat, s < e,
           NEW n \in 1..Len(list), NEW done, MergedInv(done, s, e, list, n - 1)
    PROVE  MergedInv(Tagging!Swallow(done, list[n]), s, e, list, n)
<1> DEFINE i == list[n]
           new == Tagging!Swallow(done, i)
<1>1. /\ n \in Nat \ {0} /\ Len(list) \in Nat /\ n - 1 + 1 = n
      /\ i \in Interval /\ i[1] \in Nat /\ i[2] \in Nat /\ i[1] < i[2]
  BY DEF Intervals, Interval
<1>2. /\ done \in Merged /\ done.s \in Nat /\ done.e \in Nat /\ done.out \in Intervals
      /\ done.placed \in BOOLEAN
      /\ done.s < done.e /\ done.s <= s /\ e <= done.e /\ InLine(done.out)
  BY DEF MergedInv, Merged
<1>3. new \in Merged /\ new.s < new.e
  <2>1. done \in Merged /\ done.s < done.e /\ i \in Interval
    BY <1>1, <1>2
  <2> HIDE DEF i
  <2>2. QED
    BY <2>1, SwallowType
<1>4. EndBy(done.out, i[1]) /\ \A l \in (n + 1)..Len(list) : EndBy(done.out, list[l][1])
  BY <1>1 DEF MergedInv
<1>5. ASSUME NEW l \in (n + 1)..Len(list)
      PROVE  list[l][1] \in Nat /\ i[2] <= list[l][1]
  <2>1. l \in 1..Len(list) /\ n < l
    BY <1>1
  <2>2. list[l] \in Interval
    BY <2>1 DEF Intervals
  <2>3. list[n][2] <= list[l][1]
    BY <2>1 DEF InLine
  <2>4. QED
    BY <2>2, <2>3 DEF Interval
<1>6. \A c : FirstHave(list, n, c) <=> FirstHave(list, n - 1, c) \/ Within(i, c)
  BY <1>1, FirstAndNext
<1>7. ASSUME done.placed = TRUE
      PROVE  /\ done.e < i[1] /\ \A l \in (n + 1)..Len(list) : done.e < list[l][1]
             /\ \A c \in Nat : Have(done.out, c) <=>
                   FirstHave(list, n - 1, c) \/ (s < c /\ c <= e)
  <2>1. n \in (n - 1 + 1)..Len(list) /\ (n + 1)..Len(list) \subseteq (n - 1 + 1)..Len(list)
    BY <1>1
  <2>2. /\ \A l \in (n - 1 + 1)..Len(list) : done.e < list[l][1]
        /\ \A c \in Nat : Have(done.out, c) <=>
              FirstHave(list, n - 1, c) \/ (s < c /\ c <= e)
    BY <1>7 DEF MergedInv
  <2>3. QED
    BY <2>1, <2>2
<1>8. ASSUME done.placed = FALSE
      PROVE  /\ EndBy(done.out, done.s)
             /\ \A c \in Nat : Have(done.out, c) \/ (done.s < c /\ c <= done.e) <=>
                   FirstHave(list, n - 1, c) \/ (s < c /\ c <= e)
  BY <1>8 DEF MergedInv
<1> DEFINE more == Append(done.out, i)
<1>9. /\ more \in Intervals /\ InLine(more)
      /\ \A l \in (n + 1)..Len(list) : EndBy(more, list[l][1])
      /\ \A c : Have(more, c) <=> Have(done.out, c) \/ Within(i, c)
  BY <1>1, <1>2, <1>4, <1>5, OneMoreInterval
<1>10. CASE i[2] < done.s
  <2>1. done.placed = FALSE
    <3>1. ASSUME done.placed = TRUE PROVE FALSE
      <4>1. done.e < i[1]
        BY <1>7, <3>1
      <4> HIDE DEF i
      <4>2. QED
        BY <1>1, <1>2, <1>10, <4>1
    <3>2. QED
      BY <1>2, <3>1
  <2>2. new = [done EXCEPT !.out = more]
    BY <1>10 DEF Tagging!Swallow
  <2>3. new.out = more /\ new.s = done.s /\ new.e = done.e /\ new.placed = FALSE
    BY <1>2, <2>1, <2>2 DEF Merged
  <2>4. EndBy(more, done.s)
    <3>1. EndBy(done.out, done.s)
      BY <1>8, <2>1
    <3> HIDE DEF i
    <3>2. i[2] <= done.s
      BY <1>1, <1>2, <1>10
    <3>3. QED
      BY <1>1, <1>2, <3>1, <3>2, OneMoreInterval DEF more
  <2>5. \A c \in Nat : Have(more, c) \/ (done.s < c /\ c <= done.e) <=>
                FirstHave(list, n, c) \/ (s < c /\ c <= e)
    BY <1>6, <1>8, <1>9, <2>1
  <2> HIDE DEF new, more, i
  <2>6. MergedInv(new, s, e, list, n)
    BY <1>2, <1>3, <1>9, <2>3, <2>4, <2>5 DEF MergedInv
  <2>7. QED
    BY <2>6 DEF new, i
<1>11. CASE ~(i[2] < done.s) /\ done.e < i[1]
  <2>1. CASE done.placed = TRUE
    <3>1. new = [done EXCEPT !.out = more, !.placed = TRUE]
      BY <1>11, <2>1 DEF Tagging!Swallow
    <3>2. new.out = more /\ new.s = done.s /\ new.e = done.e /\ new.placed = TRUE
      BY <1>2, <3>1 DEF Merged
    <3>3. \A c \in Nat : Have(more, c) <=> FirstHave(list, n, c) \/ (s < c /\ c <= e)
      BY <1>6, <1>7, <1>9, <2>1
    <3>4. \A l \in (n + 1)..Len(list) : done.e < list[l][1]
      BY <1>7, <2>1
    <3> HIDE DEF new, more, i
    <3>5. MergedInv(new, s, e, list, n)
      BY <1>2, <1>3, <1>9, <3>2, <3>3, <3>4 DEF MergedInv
    <3>6. QED
      BY <3>5 DEF new, i
  <2>2. CASE done.placed = FALSE
    <3> DEFINE range == <<done.s, done.e>>
               mid == Append(done.out, range)
               both == Append(mid, i)
    <3>1. range \in Interval /\ range[1] = done.s /\ range[2] = done.e
      BY <1>2 DEF Interval
    <3>2. new = [done EXCEPT !.out = both, !.placed = TRUE]
      BY <1>11, <2>2 DEF Tagging!Swallow
    <3>3. new.out = both /\ new.s = done.s /\ new.e = done.e /\ new.placed = TRUE
      BY <1>2, <3>2 DEF Merged
    <3> HIDE DEF range, mid, both
    <3>4. /\ mid \in Intervals /\ InLine(mid)
          /\ \A x \in Nat : EndBy(done.out, x) /\ done.e <= x => EndBy(mid, x)
          /\ \A c : Have(mid, c) <=> Have(done.out, c) \/ (done.s < c /\ c <= done.e)
      BY <1>2, <1>8, <2>2, <3>1, OneMoreInterval DEF mid, Within
    <3>5. EndBy(mid, i[1])
      BY <1>1, <1>2, <1>4, <1>11, <3>4
    <3>6. ASSUME NEW l \in (n + 1)..Len(list) PROVE done.e < list[l][1]
      <4> HIDE DEF i
      <4>1. done.e \in Nat /\ i[1] \in Nat /\ i[2] \in Nat /\ i[1] < i[2]
        BY <1>1, <1>2
      <4>2. done.e < i[1]
        BY <1>11
      <4>3. list[l][1] \in Nat /\ i[2] <= list[l][1]
        BY <1>5
      <4>4. \A w, x, y, z \in Nat : w < x /\ x < y /\ y <= z => w < z
        OBVIOUS
      <4> HIDE DEF new, more
      <4>5. QED
        BY <4>1, <4>2, <4>3, <4>4
    <3>7. \A l \in (n + 1)..Len(list) : EndBy(mid, list[l][1])
      <4> HIDE DEF i
      <4>1. QED
        BY <1>2, <1>4, <1>5, <3>4, <3>6
    <3>8. /\ InLine(both)
          /\ \A x \in Nat : EndBy(mid, x) /\ i[2] <= x => EndBy(both, x)
          /\ \A c : Have(both, c) <=> Have(mid, c) \/ Within(i, c)
      BY <1>1, <3>4, <3>5, OneMoreInterval DEF both
    <3>9. \A l \in (n + 1)..Len(list) : EndBy(both, list[l][1])
      <4> HIDE DEF i
      <4>1. QED
        BY <1>5, <3>7, <3>8
    <3>10. \A c \in Nat : Have(both, c) <=> FirstHave(list, n, c) \/ (s < c /\ c <= e)
      BY <1>6, <1>8, <2>2, <3>4, <3>8
    <3> HIDE DEF new, more, i
    <3>11. MergedInv(new, s, e, list, n)
      BY <1>2, <1>3, <3>3, <3>6, <3>8, <3>9, <3>10 DEF MergedInv
    <3>12. QED
      BY <3>11 DEF new, i
  <2>3. QED
    BY <1>2, <2>1, <2>2
<1>12. CASE ~(i[2] < done.s) /\ ~(done.e < i[1])
  <2> DEFINE low == Tagging!Smaller(done.s, i[1])
             high == Tagging!Larger(done.e, i[2])
  <2>1. done.placed = FALSE
    BY <1>2, <1>7, <1>12
  <2>2. new = [done EXCEPT !.s = low, !.e = high]
    BY <1>12 DEF Tagging!Swallow
  <2>3. new.out = done.out /\ new.s = low /\ new.e = high /\ new.placed = FALSE
    BY <1>2, <2>1, <2>2 DEF Merged
  <2>4. low \in {done.s, i[1]} /\ low <= s /\ e <= high
    BY <1>1, <1>2 DEF Tagging!Smaller, Tagging!Larger
  <2>5. EndBy(done.out, low)
    BY <1>4, <1>8, <2>1, <2>4
  <2>6. ASSUME NEW c \in Nat
        PROVE  low < c /\ c <= high <=> (done.s < c /\ c <= done.e) \/ Within(i, c)
    <3>1. /\ done.s \in Nat /\ done.e \in Nat /\ i[1] \in Nat /\ i[2] \in Nat
          /\ done.s <= i[2] /\ i[1] <= done.e
      <4> HIDE DEF i, new, low, high
      <4>1. done.s \in Nat /\ done.e \in Nat /\ i[1] \in Nat /\ i[2] \in Nat
        BY <1>1, <1>2
      <4>2. ~(i[2] < done.s) /\ ~(done.e < i[1])
        BY <1>12
      <4>3. QED
        BY <4>1, <4>2
    <3>2. low = IF done.s < i[1] THEN done.s ELSE i[1]
      BY DEF Tagging!Smaller
    <3>3. high = IF done.e < i[2] THEN i[2] ELSE done.e
      BY DEF Tagging!Larger
    <3> HIDE DEF low, high, i, new
    <3>4. low < c <=> done.s < c \/ i[1] < c
      <4>1. \A x, y \in Nat : (IF x < y THEN x ELSE y) < c <=> x < c \/ y < c
        OBVIOUS
      <4>2. QED
        BY <3>1, <3>2, <4>1
    <3>5. c <= high <=> c <= done.e \/ c <= i[2]
      <4>1. \A x, y \in Nat : c <= (IF x < y THEN y ELSE x) <=> c <= x \/ c <= y
        OBVIOUS
      <4>2. QED
        BY <3>1, <3>3, <4>1
    <3>6. QED
      BY <3>1, <3>4, <3>5 DEF Within
  <2> HIDE DEF low, high, i, new
  <2>7. \A c \in Nat : Have(done.out, c) \/ (low < c /\ c <= high) <=>
                FirstHave(list, n, c) \/ (s < c /\ c <= e)
    BY <1>6, <1>8, <2>1, <2>6
  <2>8. MergedInv(new, s, e, list, n)
    BY <1>2, <1>3, <1>4, <2>3, <2>4, <2>5, <2>7 DEF MergedInv
  <2>9. QED
    BY <2>8 DEF new, i
<1>13. QED
  BY <1>10, <1>11, <1>12

\* The function that Union is defined by.
UnionTurns(f, s, e, list) ==
    f = [k \in 0..Len(list) |->
            IF k = 0 THEN [s |-> s, e |-> e, out |-> <<>>, placed |-> FALSE]
            ELSE Tagging!Swallow(f[k - 1], list[k])]

\* It exists.
LEMMA UnionTurnsExist ==
    ASSUME NEW list \in Intervals, NEW s \in Nat, NEW e \in Nat, s < e
    PROVE  \E f : UnionTurns(f, s, e, list)
<1> DEFINE n == Len(list)
           b == [s |-> s, e |-> e, out |-> <<>>, placed |-> FALSE]
           S == {done \in Merged : done.s < done.e}
           R == {r \in (1..n) \X S \X S : r[3] = Tagging!Swallow(r[2], list[r[1]])}
<1>1. ASSUME NEW k \in 1..n, NEW x \in S
      PROVE  \E y \in S : <<k, x, y>> \in R
  <2> DEFINE y == Tagging!Swallow(x, list[k])
  <2>1. y \in S
    <3>1. list[k] \in Interval
      BY DEF Intervals
    <3>2. QED
      BY <3>1, SwallowType
  <2>2. <<k, x, y>> \in R
    BY <2>1
  <2>3. QED
    BY <2>1, <2>2
<1>2. n \in Nat /\ b \in S
  BY DEF Intervals, Merged
<1>3. PICK f : Runs(f, b, R, S, n)
  <2> HIDE DEF R, n, b, S
  <2>1. QED
    BY <1>1, <1>2, ByRecursion DEF NeverStuck
<1>4. f \in [0..n -> S] /\ f[0] = b
  BY <1>3 DEF Runs
<1>5. \A k \in 1..n : f[k] = Tagging!Swallow(f[k-1], list[k])
  BY <1>3 DEF Runs
<1>6. f = [k \in 0..n |-> IF k = 0 THEN b ELSE Tagging!Swallow(f[k-1], list[k])]
  BY <1>2, <1>4, <1>5
<1>7. QED
  BY <1>6 DEF UnionTurns

\* Union has the range and the intervals, in line.
LEMMA UnionIsBoth ==
    ASSUME NEW list \in Intervals, InLine(list), NEW s \in Nat, NEW e \in Nat, s < e
    PROVE  LET all == Tagging!Union(list, s, e)
           IN  /\ all \in Intervals /\ InLine(all)
               /\ \A c \in Nat : Have(all, c) <=> Have(list, c) \/ (s < c /\ c <= e)
<1>1. \E f : UnionTurns(f, s, e, list)
  BY UnionTurnsExist
<1> DEFINE n == Len(list)
           all == Tagging!Union(list, s, e)
<1>2. PICK f : /\ UnionTurns(f, s, e, list)
               /\ all = IF f[n].placed THEN f[n].out
                        ELSE Append(f[n].out, <<f[n].s, f[n].e>>)
  BY <1>1 DEF UnionTurns, Tagging!Union
<1> HIDE DEF all
<1> DEFINE T == {k \in 0..n : MergedInv(f[k], s, e, list, k)}
<1>3. n \in Nat
  BY DEF Intervals
<1>4. 0 \in T
  <2>1. f[0] = [s |-> s, e |-> e, out |-> <<>>, placed |-> FALSE]
    BY <1>2, <1>3 DEF UnionTurns
  <2>2. /\ f[0] \in Merged /\ f[0].s = s /\ f[0].e = e /\ f[0].out = <<>>
        /\ f[0].placed = FALSE
    BY <2>1 DEF Merged, Intervals
  <2>3. /\ (\A c : ~Have(<<>>, c)) /\ \A c : ~FirstHave(list, 0, c)
        /\ InLine(<<>>) /\ \A x : EndBy(<<>>, x)
    BY DEF Have, FirstHave, InLine, EndBy
  <2>4. MergedInv(f[0], s, e, list, 0)
    BY <2>2, <2>3 DEF MergedInv
  <2>5. QED
    BY <1>3, <2>4
<1>5. ASSUME NEW k \in 1..n, k - 1 \in T PROVE k \in T
  <2>1. k \in 0..n /\ k # 0
    BY <1>3
  <2>2. f[k] = Tagging!Swallow(f[k - 1], list[k])
    BY <1>2, <2>1 DEF UnionTurns
  <2>3. MergedInv(f[k], s, e, list, k)
    BY <1>5, <2>2, SwallowKeeps
  <2>4. QED
    BY <2>1, <2>3
<1>6. MergedInv(f[n], s, e, list, n)
  <2> HIDE DEF T, n
  <2>1. Hereditary(T, n)
    BY <1>5 DEF Hereditary
  <2>2. 0..n \subseteq T
    BY <1>3, <1>4, <2>1, UpTo
  <2>3. n \in T
    BY <1>3, <2>2
  <2>4. QED
    BY <2>3 DEF T
<1> DEFINE final == f[n]
<1>7. /\ final.s \in Nat /\ final.e \in Nat /\ final.s < final.e
      /\ final.out \in Intervals /\ InLine(final.out) /\ final.placed \in BOOLEAN
  BY <1>6 DEF MergedInv, Merged
<1>8. CASE final.placed = TRUE
  <2>1. all = final.out
    BY <1>2, <1>8
  <2>2. \A c \in Nat : Have(all, c) <=> Have(list, c) \/ (s < c /\ c <= e)
    BY <1>6, <1>8, <2>1 DEF MergedInv, Have
  <2>3. QED
    BY <1>7, <2>1, <2>2 DEF all
<1>9. CASE final.placed = FALSE
  <2>1. all = Append(final.out, <<final.s, final.e>>)
    BY <1>2, <1>9
  <2>2. EndBy(final.out, final.s)
        /\ \A c \in Nat : Have(final.out, c) \/ (final.s < c /\ c <= final.e) <=>
                FirstHave(list, n, c) \/ (s < c /\ c <= e)
    BY <1>6, <1>9 DEF MergedInv
  <2> HIDE DEF final
  <2>3. <<final.s, final.e>> \in Interval
    BY <1>7 DEF Interval
  <2>4. /\ all \in Intervals /\ InLine(all)
        /\ \A c : Have(all, c) <=> Have(final.out, c) \/ (final.s < c /\ c <= final.e)
    BY <1>7, <2>1, <2>2, <2>3, OneMoreInterval DEF Within
  <2>5. \A c \in Nat : Have(all, c) <=> Have(list, c) \/ (s < c /\ c <= e)
    <3>1. \A c : FirstHave(list, n, c) <=> Have(list, c)
      BY DEF Have
    <3>2. QED
      BY <2>2, <2>4, <3>1
  <2>6. QED
    BY <2>4, <2>5 DEF all
<1>10. QED
  BY <1>7, <1>8, <1>9

----------------------------------------------------------------------------
(***************************************************************************)
(* apply_diagnostics.                                                      *)
(***************************************************************************)
Diagnostic == {d \in Nat \X Nat \X Nat : d[2] < d[3]}
Seen == Tagging!ToSet(seen)
Over(d, c) == d[2] < c /\ c <= d[3]

\* What the diagnostics so far cover is occupied, and has the tag of the least
\* severity number among them.
OccupiedInv ==
    /\ occupied \in Intervals /\ InLine(occupied)
    /\ \A c \in Nat : Have(occupied, c) <=> \E d \in Seen : Over(d, c)

TaggedInv ==
    \A c \in DOMAIN chars :
       /\ ~Have(occupied, c) => tags[c] = {}
       /\ Have(occupied, c) =>
             \E d \in Seen : /\ Over(d, c)
                             /\ tags[c] = {d[1]}
                             /\ \A b \in Seen : Over(b, c) => d[1] <= b[1]

TagInv ==
    /\ chars \in Seq({"a", "N"})
    /\ last \in Nat
    /\ seen \in Seq(Diagnostic)
    /\ \A d \in Seen : d[1] <= last
    /\ OccupiedInv
    /\ TaggedInv

\* Widening keeps offsets offsets.
LEMMA WidenType ==
    ASSUME NEW s \in Nat, NEW e \in Nat
    PROVE  Tagging!Widen(s, e)[1] \in Nat /\ Tagging!Widen(s, e)[2] \in Nat
<1>1. s # 0 => s - 1 \in Nat
  OBVIOUS
<1>2. QED
  BY <1>1 DEF Tagging!Widen

\* One diagnostic, no less severe than the next.
LEMMA DiagnosticKeeps ==
    ASSUME TagInv, NEW severity \in Severities,
           NEW from \in 0..Len(chars), NEW to \in 0..Len(chars),
           Tagging!ApplyDiagnostic(severity, from, to)
    PROVE  TagInv'
<1> DEFINE range == Tagging!Widen(from, to)
           s == range[1]
           e == range[2]
           rest == Tagging!Subtract(s, e, occupied)
           d == <<severity, s, e>>
<1>1. /\ severity \in Nat /\ last \in Nat /\ last <= severity
      /\ last' = severity /\ chars' = chars /\ chars \in Seq({"a", "N"})
  BY SeveritiesAssumption DEF TagInv, Tagging!ApplyDiagnostic
<1>2. from \in Nat /\ to \in Nat
  BY <1>1
<1>3. s \in Nat /\ e \in Nat
  BY <1>2, WidenType
<1>4. \/ UNCHANGED <<occupied, tags, seen>>
      \/ /\ ~(e <= s)
         /\ tags' = Tagging!Tagged(rest, severity)
         /\ occupied' = Tagging!Union(occupied, s, e)
         /\ seen' = Append(seen, d)
  BY DEF Tagging!ApplyDiagnostic
<1>5. /\ seen \in Seq(Diagnostic) /\ occupied \in Intervals /\ InLine(occupied)
      /\ \A b \in Seen : b \in Diagnostic /\ b[1] \in Nat /\ b[1] <= last
      /\ \A c \in Nat : Have(occupied, c) <=> \E b \in Seen : Over(b, c)
  <2>1. seen \in Seq(Diagnostic) /\ \A b \in Seen : b[1] <= last
    BY DEF TagInv
  <2>2. \A b \in Seen : b \in Diagnostic
    BY <2>1 DEF Seen, Tagging!ToSet
  <2>3. \A b \in Diagnostic : b[1] \in Nat
    BY DEF Diagnostic
  <2>4. /\ occupied \in Intervals /\ InLine(occupied)
        /\ \A c \in Nat : Have(occupied, c) <=> \E b \in Seen : Over(b, c)
    BY DEF TagInv, OccupiedInv
  <2>5. QED
    BY <2>1, <2>2, <2>3, <2>4
<1> HIDE DEF s, e, rest
<1>6. CASE UNCHANGED <<occupied, tags, seen>>
  <2>1. \A b \in Seen : b[1] <= severity
    BY <1>1, <1>5
  <2>2. Seen' = Seen
    BY <1>6 DEF Seen
  <2>3. OccupiedInv' /\ TaggedInv'
    BY <1>1, <1>6, <2>2 DEF TagInv, OccupiedInv, TaggedInv
  <2>4. QED
    BY <1>1, <1>5, <1>6, <2>1, <2>2, <2>3 DEF TagInv
<1>7. CASE /\ ~(e <= s)
           /\ tags' = Tagging!Tagged(rest, severity)
           /\ occupied' = Tagging!Union(occupied, s, e)
           /\ seen' = Append(seen, d)
  <2>1. s < e
    BY <1>3, <1>7
  <2>2. d \in Diagnostic /\ d[1] = severity /\ \A c : Over(d, c) <=> (s < c /\ c <= e)
    BY <1>1, <1>3, <2>1 DEF Diagnostic, Over
  <2> HIDE DEF d
  <2>3. seen' \in Seq(Diagnostic) /\ Seen' = Seen \cup {d}
    <3>1. /\ Len(seen) \in Nat /\ seen' \in Seq(Diagnostic)
          /\ Len(seen') = Len(seen) + 1 /\ seen'[Len(seen) + 1] = d
          /\ \A k \in 1..Len(seen) : seen'[k] = seen[k]
          /\ DOMAIN seen = 1..Len(seen) /\ DOMAIN seen' = 1..Len(seen')
      BY <1>5, <1>7, <2>2
    <3>2. DOMAIN seen' = DOMAIN seen \cup {Len(seen) + 1}
      BY <3>1
    <3>3. QED
      BY <3>1, <3>2 DEF Seen, Tagging!ToSet
  <2>4. /\ occupied' \in Intervals /\ InLine(occupied')
        /\ \A c \in Nat : Have(occupied', c) <=> Have(occupied, c) \/ Over(d, c)
    BY <1>3, <1>5, <1>7, <2>1, <2>2, UnionIsBoth
  <2>5. /\ rest \in Intervals
        /\ \A c \in Nat : Have(rest, c) <=> Over(d, c) /\ ~Have(occupied, c)
    BY <1>3, <1>5, <2>1, <2>2, SubtractIsRest DEF rest
  <2>6. OccupiedInv'
    <3>1. \A c \in Nat : Have(occupied', c) <=> \E b \in Seen' : Over(b, c)
      BY <1>5, <2>3, <2>4
    <3>2. QED
      BY <2>4, <3>1 DEF OccupiedInv
  <2>7. ASSUME NEW c \in DOMAIN chars
        PROVE  /\ c \in Nat
               /\ tags'[c] = IF Have(rest, c) THEN tags[c] \cup {severity} ELSE tags[c]
    <3>1. c \in Nat
      BY <1>1
    <3>2. DOMAIN rest = 1..Len(rest)
      BY <2>5 DEF Intervals
    <3>3. Have(rest, c) <=> \E k \in DOMAIN rest : rest[k][1] < c /\ c <= rest[k][2]
      BY <3>2 DEF Have, FirstHave, Within
    <3>4. QED
      BY <1>7, <3>1, <3>3 DEF Tagging!Tagged
  <2>8. ASSUME NEW c \in DOMAIN chars
        PROVE  /\ ~Have(occupied', c) => tags'[c] = {}
               /\ Have(occupied', c) =>
                    \E b \in Seen' : /\ Over(b, c)
                                     /\ tags'[c] = {b[1]}
                                     /\ \A a \in Seen' : Over(a, c) => b[1] <= a[1]
    <3>1. c \in Nat
      BY <2>7
    <3>2. CASE Have(occupied, c)
      <4>1. PICK b \in Seen : /\ Over(b, c) /\ tags[c] = {b[1]}
                              /\ \A a \in Seen : Over(a, c) => b[1] <= a[1]
        BY <3>2 DEF TagInv, TaggedInv
      <4>2. tags'[c] = {b[1]}
        BY <2>5, <2>7, <3>1, <3>2, <4>1
      <4>3. b[1] <= d[1]
        BY <1>1, <1>5, <2>2
      <4>4. \A a \in Seen' : Over(a, c) => b[1] <= a[1]
        BY <2>3, <4>1, <4>3
      <4>5. Have(occupied', c)
        BY <2>4, <3>1, <3>2
      <4>6. QED
        BY <2>3, <4>1, <4>2, <4>4, <4>5
    <3>3. CASE ~Have(occupied, c)
      <4>1. tags[c] = {} /\ \A a \in Seen : ~Over(a, c)
        BY <1>5, <3>1, <3>3 DEF TagInv, TaggedInv
      <4>2. CASE Over(d, c)
        <5>1. tags'[c] = {d[1]}
          BY <2>2, <2>5, <2>7, <3>1, <3>3, <4>1, <4>2
        <5>2. d[1] <= d[1]
          BY <1>1, <2>2
        <5>3. \A a \in Seen' : Over(a, c) => d[1] <= a[1]
          BY <2>3, <4>1, <5>2
        <5>4. Have(occupied', c)
          BY <2>4, <3>1, <4>2
        <5>5. QED
          BY <2>3, <4>2, <5>1, <5>3, <5>4
      <4>3. CASE ~Over(d, c)
        BY <2>4, <2>5, <2>7, <3>1, <3>3, <4>1, <4>3
      <4>4. QED
        BY <4>2, <4>3
    <3>4. QED
      BY <3>2, <3>3
  <2>9. TaggedInv'
    BY <1>1, <2>8 DEF TaggedInv
  <2>10. \A b \in Seen' : b[1] <= severity
    BY <1>1, <1>5, <2>2, <2>3
  <2>11. QED
    BY <1>1, <2>3, <2>6, <2>9, <2>10 DEF TagInv
<1>8. QED
  BY <1>4, <1>6, <1>7

\* The invariant says what the property asks.
LEMMA TagInvSuffices == TagInv => SeverestWins
<1> SUFFICES ASSUME TagInv, NEW c \in DOMAIN chars
             PROVE  LET covering == {d \in Tagging!ToSet(seen) : d[2] < c /\ c <= d[3]}
                    IN  tags[c] = IF covering = {} THEN {}
                                  ELSE {Tagging!Min({d[1] : d \in covering})}
  BY DEF SeverestWins, Tagging!SeverestWins
<1> DEFINE covering == {d \in Tagging!ToSet(seen) : d[2] < c /\ c <= d[3]}
           numbers == {d[1] : d \in covering}
<1>1. c \in Nat
  BY DEF TagInv
<1>2. /\ \A d : d \in covering <=> d \in Seen /\ Over(d, c)
      /\ \A d \in Seen : d[1] \in Nat
  BY DEF Over, Seen, TagInv, Tagging!ToSet, Diagnostic
<1> HIDE DEF covering
<1>3. CASE covering = {}
  <2>1. ~Have(occupied, c)
    BY <1>1, <1>2, <1>3 DEF TagInv, OccupiedInv
  <2>2. tags[c] = {}
    BY <2>1 DEF TagInv, TaggedInv
  <2>3. QED
    BY <1>3, <2>2 DEF covering
<1>4. CASE covering # {}
  <2>1. Have(occupied, c)
    BY <1>1, <1>2, <1>4 DEF TagInv, OccupiedInv
  <2>2. PICK d \in Seen : /\ Over(d, c) /\ tags[c] = {d[1]}
                          /\ \A b \in Seen : Over(b, c) => d[1] <= b[1]
    BY <2>1 DEF TagInv, TaggedInv
  <2>3. d[1] \in numbers /\ numbers \subseteq Nat /\ \A x \in numbers : d[1] <= x
    BY <1>2, <2>2
  <2> DEFINE low == CHOOSE x \in numbers : \A y \in numbers : x <= y
  <2> HIDE DEF numbers
  <2>4. low \in numbers /\ \A y \in numbers : low <= y
    BY <2>3
  <2>5. Tagging!Min(numbers) = low
    BY DEF Tagging!Min
  <2> HIDE DEF low
  <2>6. low = d[1]
    <3>1. low \in Nat /\ d[1] \in Nat /\ low <= d[1] /\ d[1] <= low
      BY <2>3, <2>4
    <3>2. QED
      BY <3>1
  <2>7. QED
    BY <1>4, <2>2, <2>5, <2>6 DEF covering, numbers
<1>5. QED
  BY <1>3, <1>4

\* A character has the tag of the most severe diagnostic that covers it and no
\* other, for texts, diagnostics and severities of any number.
THEOREM SeverestAlwaysWins == Spec => []SeverestWins
<1>1. Init => TagInv
  <2> SUFFICES ASSUME Init PROVE TagInv
    OBVIOUS
  <2>1. /\ last = 1 /\ occupied = <<>> /\ seen = <<>>
        /\ \A c \in DOMAIN chars : tags[c] = {}
    BY DEF Init, EffectsInit, TagsInit, Tagging!Init
  <2>2. chars \in Seq({"a", "N"})
    <3>1. CASE part = "tags"
      <4>1. PICK m \in 0..MaxTagged : chars \in [1..m -> {"a", "N"}]
        BY <3>1 DEF Init, EffectsInit, TagsInit, Tagging!Init, Tagging!SeqOf
      <4>2. m \in Nat
        BY MaxTaggedAssumption
      <4>3. QED
        BY <4>1, <4>2
    <3>2. CASE part # "tags"
      BY <3>2 DEF Init, EffectsInit, TagsInit
    <3>3. QED
      BY <3>1, <3>2
  <2>3. Seen = {}
    BY <2>1 DEF Seen, Tagging!ToSet
  <2>4. /\ <<>> \in Intervals /\ InLine(<<>>) /\ \A c : ~Have(<<>>, c)
    BY DEF Intervals, InLine, Have, FirstHave
  <2>5. OccupiedInv /\ TaggedInv
    BY <2>1, <2>3, <2>4 DEF OccupiedInv, TaggedInv
  <2>6. QED
    BY <2>1, <2>2, <2>3, <2>5 DEF TagInv
<1>2. TagInv /\ [Next]_vars => TagInv'
  <2> SUFFICES ASSUME TagInv, [Next]_vars PROVE TagInv'
    OBVIOUS
  <2>1. Tagging!Next \/ UNCHANGED tagVars
    BY DEF Next, CompletionStep, ResolveStep, SignatureStep, FormattingStep,
           SymbolsStep, HoverStep, HistoryStep, EffectStep, EffectsNext, TextStep,
           ApplyStep, ActionStep, TagsStep, ViewsStep, OutlineStep, vars, effectVars
  <2>2. CASE Tagging!Next
    BY <2>2, DiagnosticKeeps DEF Tagging!Next
  <2>3. CASE UNCHANGED tagVars
    BY <2>3 DEF tagVars, TagInv, OccupiedInv, TaggedInv, Seen
  <2>4. QED
    BY <2>1, <2>2, <2>3
<1>3. QED
  BY <1>1, <1>2, TagInvSuffices, PTL DEF Spec

----------------------------------------------------------------------------
(***************************************************************************)
(* The views of diagnostics, as a part of Features: the invariant.         *)
(***************************************************************************)
ViewTypeInv ==
    /\ active \in SUBSET Windows
    /\ tab \in [Documents -> Windows \cup {NoWindow}]
    /\ hooked \in SUBSET Viewing!Pairs
    /\ bridges \in SUBSET Viewing!Pairs
    /\ gutters \in SUBSET Viewing!Pairs
    /\ tagged \in [Documents -> Nat]
    /\ rows \in [Viewing!Pairs -> Nat]
    /\ lit \in [Viewing!Pairs -> Nat]
    /\ context \in [Viewing!Pairs -> Nat]
    /\ news \in [Documents -> Nat]
    /\ published \in Nat
    /\ deaf \in BOOLEAN

\* Only an active plugin listens, and only the window that shows a document
\* has a gutter for it.
ListenInv ==
    /\ \A p \in hooked \cup bridges : p[1] \in active
    /\ gutters \subseteq bridges
    /\ \A p \in gutters : tab[p[2]] = p[1]

\* What an active window shows of a document, by what it has of it.
ShowInv ==
    ~deaf => \A p \in Viewing!Pairs : p[1] \in active =>
        /\ rows[p] = context[p]
        /\ p \notin bridges => context[p] = 0 /\ lit[p] = 0
        /\ p \in gutters => lit[p] = context[p]
        /\ context[p] # 0 => context[p] = news[p[2]] /\ tagged[p[2]] = context[p]

ViewInv == ViewTypeInv /\ ListenInv /\ ShowInv

----------------------------------------------------------------------------
\* It holds initially.
LEMMA ViewsInitially == Viewing!Init => ViewInv
<1> SUFFICES ASSUME Viewing!Init PROVE ViewInv
  OBVIOUS
<1>1. ViewTypeInv
  BY DEF Viewing!Init, ViewTypeInv, Viewing!Pairs
<1>2. ListenInv
  BY DEF Viewing!Init, ListenInv
<1>3. ShowInv
  BY DEF Viewing!Init, ShowInv
<1>4. QED
  BY <1>1, <1>2, <1>3 DEF ViewInv

\* A tab that is removed takes away what its pair has, and nothing else.
LEMMA TabRemovedOfPair ==
    ASSUME ViewTypeInv, NEW w \in Windows, NEW d \in Documents, Viewing!TabRemoved(w, d)
    PROVE  /\ bridges' \in SUBSET Viewing!Pairs /\ gutters' \in SUBSET Viewing!Pairs
           /\ rows' \in [Viewing!Pairs -> Nat]
           /\ lit' \in [Viewing!Pairs -> Nat]
           /\ context' \in [Viewing!Pairs -> Nat]
           /\ <<w, d>> \in Viewing!Pairs
           /\ bridges' = bridges \ {<<w, d>>} /\ gutters' = gutters \ {<<w, d>>}
           /\ \A p \in Viewing!Pairs : p # <<w, d>> =>
                 rows'[p] = rows[p] /\ lit'[p] = lit[p] /\ context'[p] = context[p]
           /\ lit'[<<w, d>>] = 0 /\ context'[<<w, d>>] = 0
           /\ rows'[<<w, d>>] = IF <<w, d>> \in bridges THEN 0 ELSE rows[<<w, d>>]
<1>1. <<w, d>> \in Viewing!Pairs
  BY DEF Viewing!Pairs
<1>2. QED
  BY <1>1 DEF ViewTypeInv, Viewing!TabRemoved

\* Every step keeps the types.
LEMMA ViewTypesKeep ==
    ASSUME ViewInv, [Viewing!Next]_viewVars
    PROVE  ViewTypeInv'
<1> USE DEF ViewInv, ViewTypeInv, Viewing!Pairs
<1>1. ASSUME NEW w \in Windows, NEW d \in Documents, Viewing!OpenTab(w, d)
      PROVE  ViewTypeInv'
  BY <1>1 DEF Viewing!OpenTab, Viewing!Hook
<1>2. ASSUME NEW d \in Documents, Viewing!CloseTab(d) PROVE ViewTypeInv'
  <2>1. CASE tab[d] \in active
    <3>1. Viewing!TabRemoved(tab[d], d) /\ tab[d] \in Windows
      BY <1>2, <2>1 DEF Viewing!CloseTab
    <3>2. QED
      BY <1>2, <2>1, <3>1, TabRemovedOfPair DEF Viewing!CloseTab
  <2>2. CASE tab[d] \notin active
    BY <1>2, <2>2 DEF Viewing!CloseTab
  <2>3. QED
    BY <2>1, <2>2
<1>3. ASSUME NEW w \in Windows, NEW d \in Documents, Viewing!MoveTab(d, w)
      PROVE  ViewTypeInv'
  <2>1. CASE tab[d] \in active
    <3>1. Viewing!TabRemoved(tab[d], d) /\ tab[d] \in Windows
      BY <1>3, <2>1 DEF Viewing!MoveTab
    <3>2. QED
      BY <1>3, <2>1, <3>1, TabRemovedOfPair DEF Viewing!MoveTab, Viewing!Hook
  <2>2. CASE tab[d] \notin active
    BY <1>3, <2>2 DEF Viewing!MoveTab, Viewing!Hook
  <2>3. QED
    BY <2>1, <2>2
<1>4. ASSUME NEW d \in Documents, Viewing!LoadedOrSaved(d) PROVE ViewTypeInv'
  BY <1>4 DEF Viewing!LoadedOrSaved, Viewing!AttachGutters
<1>5. ASSUME NEW w \in Windows, Viewing!Deactivate(w) PROVE ViewTypeInv'
  BY <1>5 DEF Viewing!Deactivate
<1>6. ASSUME NEW d \in Documents, Viewing!Publish(d) PROVE ViewTypeInv'
  BY <1>6 DEF Viewing!Publish, Viewing!Store, Viewing!Show, Viewing!Light, Viewing!Listening
<1>7. ASSUME NEW d \in Documents, Viewing!PublishMalformed(d) PROVE ViewTypeInv'
  BY <1>7 DEF Viewing!PublishMalformed, Viewing!Listening
<1>8. CASE UNCHANGED viewVars
  BY <1>8 DEF viewVars
<1>9. QED
  BY <1>1, <1>2, <1>3, <1>4, <1>5, <1>6, <1>7, <1>8 DEF Viewing!Next

\* Every step keeps listeners with active plugins and gutters with their tabs.
LEMMA ListenKeeps ==
    ASSUME ViewInv, [Viewing!Next]_viewVars
    PROVE  ListenInv'
<1> USE DEF ViewInv, ViewTypeInv, ListenInv, Viewing!Pairs
<1>1. ASSUME NEW w \in Windows, NEW d \in Documents, Viewing!OpenTab(w, d)
      PROVE  ListenInv'
  BY <1>1 DEF Viewing!OpenTab, Viewing!Hook
<1>2. ASSUME NEW d \in Documents, Viewing!CloseTab(d) PROVE ListenInv'
  BY <1>2 DEF Viewing!CloseTab, Viewing!TabRemoved
<1>3. ASSUME NEW w \in Windows, NEW d \in Documents, Viewing!MoveTab(d, w)
      PROVE  ListenInv'
  BY <1>3 DEF Viewing!MoveTab, Viewing!Hook, Viewing!TabRemoved
<1>4. ASSUME NEW d \in Documents, Viewing!LoadedOrSaved(d) PROVE ListenInv'
  BY <1>4 DEF Viewing!LoadedOrSaved, Viewing!AttachGutters
<1>5. ASSUME NEW w \in Windows, Viewing!Deactivate(w) PROVE ListenInv'
  BY <1>5 DEF Viewing!Deactivate
<1>6. ASSUME NEW d \in Documents, Viewing!Publish(d) PROVE ListenInv'
  BY <1>6 DEF Viewing!Publish
<1>7. ASSUME NEW d \in Documents, Viewing!PublishMalformed(d) PROVE ListenInv'
  BY <1>7 DEF Viewing!PublishMalformed
<1>8. CASE UNCHANGED viewVars
  BY <1>8 DEF viewVars
<1>9. QED
  BY <1>1, <1>2, <1>3, <1>4, <1>5, <1>6, <1>7, <1>8 DEF Viewing!Next

\* Every step keeps the views of a document in agreement.
LEMMA ShowKeeps ==
    ASSUME ViewInv, [Viewing!Next]_viewVars
    PROVE  ShowInv'
<1> USE DEF ViewInv, ViewTypeInv, ListenInv, ShowInv, Viewing!Pairs
<1>1. ASSUME NEW w \in Windows, NEW d \in Documents, Viewing!OpenTab(w, d)
      PROVE  ShowInv'
  BY <1>1 DEF Viewing!OpenTab
<1>2. ASSUME NEW d \in Documents, Viewing!CloseTab(d) PROVE ShowInv'
  <2>1. CASE tab[d] \in active
    <3> DEFINE q == <<tab[d], d>>
    <3>1. Viewing!TabRemoved(tab[d], d) /\ tab[d] \in Windows
      BY <1>2, <2>1 DEF Viewing!CloseTab
    <3>2. /\ q \in Viewing!Pairs /\ bridges' = bridges \ {q} /\ gutters' = gutters \ {q}
          /\ \A p \in Viewing!Pairs : p # q =>
                rows'[p] = rows[p] /\ lit'[p] = lit[p] /\ context'[p] = context[p]
          /\ lit'[q] = 0 /\ context'[q] = 0
          /\ rows'[q] = IF q \in bridges THEN 0 ELSE rows[q]
      BY <3>1, TabRemovedOfPair, ZenonT(60)
    <3>3. active' = active /\ news' = news /\ tagged' = tagged /\ deaf' = deaf
      BY <1>2 DEF Viewing!CloseTab
    <3>4. SUFFICES ASSUME ~deaf, NEW p \in Viewing!Pairs, p[1] \in active
                   PROVE  /\ rows'[p] = context'[p]
                          /\ p \notin bridges' => context'[p] = 0 /\ lit'[p] = 0
                          /\ p \in gutters' => lit'[p] = context'[p]
                          /\ context'[p] # 0 => /\ context'[p] = news[p[2]]
                                              /\ tagged[p[2]] = context'[p]
      BY <3>3
    <3>5. /\ rows[p] = context[p]
          /\ p \notin bridges => context[p] = 0 /\ lit[p] = 0
          /\ p \in gutters => lit[p] = context[p]
          /\ context[p] # 0 => context[p] = news[p[2]] /\ tagged[p[2]] = context[p]
      BY <3>4
    <3>6. CASE p = q
      <4> HIDE DEF q
      <4>1. rows'[p] = 0 /\ context'[p] = 0 /\ lit'[p] = 0
        BY <3>2, <3>5, <3>6
      <4>2. QED
        BY <4>1
    <3>7. CASE p # q
      <4> HIDE DEF q
      <4>1. rows'[p] = rows[p] /\ lit'[p] = lit[p] /\ context'[p] = context[p]
        BY <3>2, <3>7
      <4>2. (p \in bridges' <=> p \in bridges) /\ (p \in gutters' <=> p \in gutters)
        BY <3>2, <3>7
      <4>3. QED
        BY <3>5, <4>1, <4>2
    <3>8. QED
      BY <3>6, <3>7
  <2>2. CASE tab[d] \notin active
    BY <1>2, <2>2 DEF Viewing!CloseTab
  <2>3. QED
    BY <2>1, <2>2
<1>3. ASSUME NEW w \in Windows, NEW d \in Documents, Viewing!MoveTab(d, w)
      PROVE  ShowInv'
  <2>1. CASE tab[d] \in active
    <3> DEFINE q == <<tab[d], d>>
    <3>1. Viewing!TabRemoved(tab[d], d) /\ tab[d] \in Windows
      BY <1>3, <2>1 DEF Viewing!MoveTab
    <3>2. /\ q \in Viewing!Pairs /\ bridges' = bridges \ {q} /\ gutters' = gutters \ {q}
          /\ \A p \in Viewing!Pairs : p # q =>
                rows'[p] = rows[p] /\ lit'[p] = lit[p] /\ context'[p] = context[p]
          /\ lit'[q] = 0 /\ context'[q] = 0
          /\ rows'[q] = IF q \in bridges THEN 0 ELSE rows[q]
      BY <3>1, TabRemovedOfPair, ZenonT(60)
    <3>3. active' = active /\ news' = news /\ tagged' = tagged /\ deaf' = deaf
      BY <1>3 DEF Viewing!MoveTab
    <3>4. SUFFICES ASSUME ~deaf, NEW p \in Viewing!Pairs, p[1] \in active
                   PROVE  /\ rows'[p] = context'[p]
                          /\ p \notin bridges' => context'[p] = 0 /\ lit'[p] = 0
                          /\ p \in gutters' => lit'[p] = context'[p]
                          /\ context'[p] # 0 => /\ context'[p] = news[p[2]]
                                              /\ tagged[p[2]] = context'[p]
      BY <3>3
    <3>5. /\ rows[p] = context[p]
          /\ p \notin bridges => context[p] = 0 /\ lit[p] = 0
          /\ p \in gutters => lit[p] = context[p]
          /\ context[p] # 0 => context[p] = news[p[2]] /\ tagged[p[2]] = context[p]
      BY <3>4
    <3>6. CASE p = q
      <4> HIDE DEF q
      <4>1. rows'[p] = 0 /\ context'[p] = 0 /\ lit'[p] = 0
        BY <3>2, <3>5, <3>6
      <4>2. QED
        BY <4>1
    <3>7. CASE p # q
      <4> HIDE DEF q
      <4>1. rows'[p] = rows[p] /\ lit'[p] = lit[p] /\ context'[p] = context[p]
        BY <3>2, <3>7
      <4>2. (p \in bridges' <=> p \in bridges) /\ (p \in gutters' <=> p \in gutters)
        BY <3>2, <3>7
      <4>3. QED
        BY <3>5, <4>1, <4>2
    <3>8. QED
      BY <3>6, <3>7
  <2>2. CASE tab[d] \notin active
    BY <1>3, <2>2 DEF Viewing!MoveTab
  <2>3. QED
    BY <2>1, <2>2
<1>4. ASSUME NEW d \in Documents, Viewing!LoadedOrSaved(d) PROVE ShowInv'
  BY <1>4 DEF Viewing!LoadedOrSaved, Viewing!AttachGutters
<1>5. ASSUME NEW w \in Windows, Viewing!Deactivate(w) PROVE ShowInv'
  BY <1>5 DEF Viewing!Deactivate
<1>6. ASSUME NEW d \in Documents, Viewing!Publish(d) PROVE ShowInv'
  BY <1>6 DEF Viewing!Publish, Viewing!Store, Viewing!Show, Viewing!Light, Viewing!Listening
<1>7. ASSUME NEW d \in Documents, Viewing!PublishMalformed(d) PROVE ShowInv'
  BY <1>7 DEF Viewing!PublishMalformed
<1>8. CASE UNCHANGED viewVars
  BY <1>8 DEF viewVars
<1>9. QED
  BY <1>1, <1>2, <1>3, <1>4, <1>5, <1>6, <1>7, <1>8 DEF Viewing!Next

\* As long as no listener has raised, the panel, the tags, the light bulbs and
\* the context of code actions show the same list of a document in every active
\* window, and nothing of a document the window is not attached to, for any
\* windows and documents.
THEOREM ViewsAlwaysAgree == Spec => []ViewsAgree
<1>1. Init => ViewInv
  BY ViewsInitially DEF Init, EffectsInit
<1>2. [Next]_vars => [Viewing!Next]_viewVars
  BY DEF Next, CompletionStep, ResolveStep, SignatureStep, FormattingStep,
         SymbolsStep, HoverStep, HistoryStep, EffectStep, EffectsNext, TextStep,
         ApplyStep, ActionStep, TagsStep, ViewsStep, OutlineStep, vars, effectVars
<1>3. ViewInv /\ [Next]_vars => ViewInv'
  BY <1>2, ViewTypesKeep, ListenKeeps, ShowKeeps DEF ViewInv
<1>4. ViewInv => ViewsAgree
  BY DEF ViewInv, ViewTypeInv, ListenInv, ShowInv, ViewsAgree,
         Viewing!ViewsAgree, Viewing!Pairs
<1>5. QED
  BY <1>1, <1>3, <1>4, PTL DEF Spec

----------------------------------------------------------------------------
(***************************************************************************)
(* Workspace edits and the edits of one buffer, which have modules of      *)
(* their own for their invariants, as parts of Features.                   *)
(***************************************************************************)
ApplyProofs == INSTANCE WorkspaceEditApplyProofs
TextProofs == INSTANCE TextEditsProofs

\* An instance has its own copies of the operators of FiniteSets.
LEMMA SameSizes ==
    /\ \A S : Applying!Cardinality(S) = ApplyProofs!Cardinality(S)
    /\ \A S : IsFiniteSet(S) = ApplyProofs!IsFiniteSet(S)
<1>1. \A S : Applying!Cardinality(S) = ApplyProofs!Cardinality(S)
  BY DEF Applying!Cardinality, ApplyProofs!Cardinality
<1>2. \A S : IsFiniteSet(S) = ApplyProofs!IsFiniteSet(S)
  BY DEF IsFiniteSet, ApplyProofs!IsFiniteSet
<1>3. QED
  BY <1>1, <1>2

\* The part of workspace edits keeps the invariant its module is proved with.
LEMMA ApplyStepKeeps ==
    ASSUME IsFiniteSet(Files), part = "apply", ApplyProofs!IInv, [Next]_vars
    PROVE  ApplyProofs!IInv'
<1>1. Applying!Next => ApplyProofs!Next
  BY SameSizes
     DEF Applying!Next, Applying!BeginApply, Applying!Loaded, Applying!UserOpens,
         Applying!TabClosed, Applying!CountDown, Applying!Apply,
         Applying!HasBuffer,
         ApplyProofs!Next, ApplyProofs!BeginApply, ApplyProofs!Loaded,
         ApplyProofs!UserOpens, ApplyProofs!TabClosed, ApplyProofs!CountDown,
         ApplyProofs!Apply, ApplyProofs!HasBuffer
<1>2. [Applying!Next]_applyVars
  BY DEF Next, CompletionStep, ResolveStep, SignatureStep, FormattingStep,
         SymbolsStep, HoverStep, HistoryStep, EffectStep, EffectsNext, TextStep,
         ApplyStep, ActionStep, TagsStep, ViewsStep, OutlineStep, vars,
         effectVars, EffectParts
<1>3. [ApplyProofs!Next]_ApplyProofs!vars
  BY <1>1, <1>2 DEF applyVars, ApplyProofs!vars
<1>4. QED
  BY <1>3, SameSizes, ApplyProofs!EveryStep

\* A workspace edit waits for all files it has opened and leaves out none that
\* it could have edited, for any finite set of files.
THEOREM EditsAreAppliedWhole ==
    ASSUME IsFiniteSet(Files) PROVE Spec => []AppliedWhole
<1> DEFINE Inv == part = "apply" => ApplyProofs!IInv
<1>1. Init => Inv
  <2>1. Applying!Init => ApplyProofs!Init
    BY DEF Applying!Init, ApplyProofs!Init
  <2>2. QED
    BY <2>1, ApplyProofs!InitEstablishes DEF Init, EffectsInit, ApplyInit
<1>2. Inv /\ [Next]_vars => Inv'
  BY ApplyStepKeeps DEF Next, CompletionStep, ResolveStep, SignatureStep, FormattingStep,
         SymbolsStep, HoverStep, HistoryStep, EffectStep, EffectsNext, TextStep,
         ApplyStep, ActionStep, TagsStep, ViewsStep, OutlineStep, vars
<1>3. Inv => AppliedWhole
  BY DEF AppliedWhole, Applying!AppliedWhole, ApplyProofs!IInv, ApplyProofs!TypeInv,
         ApplyProofs!CountInv, ApplyProofs!ClosedInv, ApplyProofs!AwaitedBy
<1>4. QED
  BY <1>1, <1>2, <1>3, PTL DEF Spec

\* What the part of edits starts with, and every step of it.
LEMMA TextStepKeeps ==
    ASSUME part = "text", TextProofs!TextInv, [Next]_vars
    PROVE  TextProofs!TextInv'
<1>1. Editing!Next => TextProofs!Next
  BY DEF Editing!Next, Editing!ApplyNext, Editing!Utf16ToTextIter,
         Editing!LineStarts, Editing!LineStart, Editing!LineOf, Editing!Units,
         Editing!Cardinality,
         TextProofs!Next, TextProofs!ApplyNext, TextProofs!Utf16ToTextIter,
         TextProofs!LineStarts, TextProofs!LineStart, TextProofs!LineOf,
         TextProofs!Units, TextProofs!Cardinality
<1>2. [Editing!Next]_textVars
  BY DEF Next, CompletionStep, ResolveStep, SignatureStep, FormattingStep,
         SymbolsStep, HoverStep, HistoryStep, EffectStep, EffectsNext, TextStep,
         ApplyStep, ActionStep, TagsStep, ViewsStep, OutlineStep, vars,
         effectVars, EffectParts
<1>3. [TextProofs!Next]_TextProofs!vars
  BY <1>1, <1>2 DEF textVars, TextProofs!vars
<1>4. NewTexts \subseteq Seq(TextProofs!Characters)
  BY NewTextsAssumption DEF Editing!Characters, TextProofs!Characters
<1>5. QED
  BY <1>3, <1>4, TextProofs!StepKeeps

\* The part of edits begins as its module does.
LEMMA TextInitially ==
    ASSUME part = "text", Init
    PROVE  TextProofs!TextInv
<1>1. Editing!Init
  BY DEF Init, EffectsInit, TextInit
<1>2. Editing!Init => TextProofs!Init
  BY DEF Editing!Init, Editing!Texts, Editing!Chars, Editing!Characters,
         Editing!SpanArrays, Editing!Spans, Editing!Disjoint,
         Editing!MayEndBehind, Editing!Descending, Editing!Before,
         Editing!Edits, Editing!EndPosition, Editing!BehindLast,
         Editing!TextIterToUtf16, Editing!Meant, Editing!Piece,
         Editing!FlattenSeq, Editing!LineStarts, Editing!LineStart,
         Editing!LineOf, Editing!Units, Editing!Cardinality,
         TextProofs!Init, TextProofs!Texts, TextProofs!Chars,
         TextProofs!Characters, TextProofs!SpanArrays, TextProofs!Spans,
         TextProofs!Disjoint, TextProofs!MayEndBehind, TextProofs!Descending,
         TextProofs!Before, TextProofs!Edits, TextProofs!EndPosition,
         TextProofs!BehindLast, TextProofs!TextIterToUtf16, TextProofs!Meant,
         TextProofs!Piece, TextProofs!FlattenSeq, TextProofs!LineStarts,
         TextProofs!LineStart, TextProofs!LineOf, TextProofs!Units,
         TextProofs!Cardinality
<1>3. NewTexts \subseteq Seq(TextProofs!Characters)
  BY NewTextsAssumption DEF Editing!Characters, TextProofs!Characters
<1>4. MaxText \in Nat /\ MaxSpans \in Nat
  BY TextBoundsAssumption
<1>5. QED
  BY <1>1, <1>2, <1>3, <1>4, TextProofs!InitEstablishes

\* apply_text_edits turns any text into the text the server means by any number
\* of edits that do not overlap and start at different places, whatever lines
\* and characters of two UTF-16 units the text has.
THEOREM EditsAlwaysMatchMeaning == Spec => []EditsMatchMeaning
<1> DEFINE Inv == IF part = "text" THEN TextProofs!TextInv ELSE text = goal
<1>1. Init => Inv
  BY TextInitially DEF Init, EffectsInit, TextInit
<1>2. Inv /\ [Next]_vars => Inv'
  <2> SUFFICES ASSUME Inv, [Next]_vars PROVE Inv'
    OBVIOUS
  <2>1. part' = part
    BY DEF Next, CompletionStep, ResolveStep, SignatureStep, FormattingStep,
           SymbolsStep, HoverStep, HistoryStep, EffectStep, EffectsNext, TextStep,
           ApplyStep, ActionStep, TagsStep, ViewsStep, OutlineStep, vars
  <2>2. CASE part = "text"
    BY <2>1, <2>2, TextStepKeeps
  <2>3. CASE part # "text"
    <3>1. text' = text /\ goal' = goal
      BY <2>3 DEF Next, CompletionStep, ResolveStep, SignatureStep,
             FormattingStep, SymbolsStep, HoverStep, HistoryStep, EffectStep,
             EffectsNext, TextStep, ApplyStep, ActionStep, TagsStep, ViewsStep,
             OutlineStep, vars, effectVars, textVars
    <3>2. QED
      BY <2>1, <2>3, <3>1
  <2>4. QED
    BY <2>2, <2>3
<1>3. Inv => EditsMatchMeaning
  <2>1. NewTexts \subseteq Seq(TextProofs!Characters)
    BY NewTextsAssumption DEF Editing!Characters, TextProofs!Characters
  <2>2. TextProofs!TextInv => TextProofs!EditsMatchMeaning
    BY <2>1, TextProofs!InvariantSuffices
  <2>3. QED
    BY <2>2 DEF EditsMatchMeaning, Editing!EditsMatchMeaning,
           TextProofs!EditsMatchMeaning
<1>4. QED
  BY <1>1, <1>2, <1>3, PTL DEF Spec
=============================================================================
