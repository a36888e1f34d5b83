---------------------- MODULE WorkspaceEditApplyProofs ----------------------
(***************************************************************************)
(* AppliedWhole of WorkspaceEditApply, for every number of workspace edits *)
(* over any finite number of files.                                        *)
(***************************************************************************)
EXTENDS WorkspaceEditApply, FiniteSetTheorems, TLAPS

----------------------------------------------------------------------------
(***************************************************************************)
(* The inductive invariant.                                                *)
(***************************************************************************)
TypeInv ==
    /\ file \in [Files -> {"missing", "closed", "loading", "open"}]
    /\ wants \in [WorkspaceEdits -> SUBSET Files]
    /\ stage \in [WorkspaceEdits -> {"new", "loading", "applied"}]
    /\ remaining \in [WorkspaceEdits -> Nat]
    /\ callbacks \in SUBSET (WorkspaceEdits \X Files)
    /\ skipped \in [WorkspaceEdits -> SUBSET Files]
    /\ gone \in SUBSET Files

AwaitedBy(e) == {f \in Files : <<e, f>> \in callbacks}

\* The countdown of an edit is not below the number of callbacks that wait, so
\* that it cannot come to its end before the last of them.
CountInv ==
    \A e \in WorkspaceEdits :
        /\ stage[e] # "loading" => AwaitedBy(e) = {}
        /\ Cardinality(AwaitedBy(e)) <= remaining[e]

\* What an edit wants has been opened for it when it begins: what is closed
\* later was closed by the user.
ClosedInv ==
    \A e \in WorkspaceEdits :
        /\ stage[e] = "loading" =>
              \A f \in wants[e] : file[f] = "closed" => f \in gone
        /\ stage[e] = "applied" =>
              \A f \in skipped[e] : file[f] = "missing" \/ f \in gone

IInv == TypeInv /\ CountInv /\ ClosedInv

----------------------------------------------------------------------------
\* The files an edit waits for are finitely many.
LEMMA AwaitedFinite ==
    ASSUME IsFiniteSet(Files), NEW e
    PROVE  /\ IsFiniteSet(AwaitedBy(e)) /\ Cardinality(AwaitedBy(e)) \in Nat
           /\ IsFiniteSet(AwaitedBy(e)') /\ Cardinality(AwaitedBy(e)') \in Nat
BY FS_Subset, FS_CardinalityType DEF AwaitedBy

\* It holds initially.
LEMMA InitEstablishes == Init => IInv
<1> SUFFICES ASSUME Init PROVE IInv
  OBVIOUS
<1>1. TypeInv
  BY DEF Init, TypeInv
<1>2. CountInv
  <2>1. \A e \in WorkspaceEdits : AwaitedBy(e) = {} /\ remaining[e] = 0
    BY DEF Init, AwaitedBy
  <2>2. Cardinality({}) = 0
    BY FS_EmptySet
  <2>3. QED
    BY <2>1, <2>2 DEF CountInv
<1>3. ClosedInv
  BY DEF Init, ClosedInv
<1>4. QED
  BY <1>1, <1>2, <1>3 DEF IInv

\* Beginning an edit opens what it wants and waits for all of it.
LEMMA BeginStep ==
    ASSUME IsFiniteSet(Files), IInv, NEW e \in WorkspaceEdits, BeginApply(e)
    PROVE  IInv'
<1> USE DEF IInv, TypeInv
<1> DEFINE opens == {f \in {g \in wants[e] : ~HasBuffer(g)} : file[f] = "closed"}
<1>1. /\ opens \subseteq Files
      /\ stage[e] = "new"
      /\ file' = [f \in Files |-> IF f \in opens THEN "loading" ELSE file[f]]
      /\ callbacks' = callbacks \cup ({e} \X opens)
      /\ remaining' = [remaining EXCEPT ![e] = Cardinality(opens)]
      /\ UNCHANGED <<wants, gone>>
      /\ IF opens = {} THEN Apply(e)
         ELSE stage' = [stage EXCEPT ![e] = "loading"] /\ UNCHANGED skipped
  BY DEF BeginApply
<1>2. IsFiniteSet(opens) /\ Cardinality(opens) \in Nat
  BY <1>1, FS_Subset, FS_CardinalityType
<1>3. /\ \A f \in wants[e] : f \in Files /\ (f \in opens <=> file[f] = "closed")
      /\ \A f \in opens : file[f] = "closed"
  BY DEF HasBuffer
<1> HIDE DEF opens
<1>4. TypeInv'
  <2>1. CASE opens = {}
    BY <1>1, <1>2, <2>1 DEF Apply
  <2>2. CASE opens # {}
    BY <1>1, <1>2, <2>2
  <2>3. QED
    BY <2>1, <2>2
<1>5. CountInv'
  <2>1. AwaitedBy(e) = {}
    BY <1>1 DEF CountInv
  <2>2. AwaitedBy(e)' = opens
    BY <1>1, <2>1 DEF AwaitedBy
  <2>3. \A i \in WorkspaceEdits : i # e =>
           AwaitedBy(i)' = AwaitedBy(i) /\ stage'[i] = stage[i] /\ remaining'[i] = remaining[i]
    BY <1>1 DEF AwaitedBy, Apply
  <2>4. stage'[e] # "loading" => opens = {}
    BY <1>1
  <2>5. remaining'[e] = Cardinality(opens)
    BY <1>1
  <2>6. QED
    BY <1>2, <2>2, <2>3, <2>4, <2>5 DEF CountInv
<1>6. ClosedInv'
  <2>1. \A f \in Files : /\ file'[f] = "closed" => file[f] = "closed"
                         /\ file[f] = "missing" => file'[f] = "missing"
                         /\ f \in opens => file'[f] # "closed"
    BY <1>1, <1>3
  <2>2. \A i \in WorkspaceEdits : i # e =>
           stage'[i] = stage[i] /\ skipped'[i] = skipped[i]
    BY <1>1 DEF Apply
  <2>3. stage'[e] = "applied" => \A f \in skipped'[e] : file'[f] = "missing"
    <3>1. CASE opens = {}
      <4>1. \A f \in wants[e] : ~HasBuffer(f) => file[f] = "missing"
        BY <1>3, <3>1 DEF HasBuffer
      <4>2. file' = file
        BY <1>1, <3>1
      <4>3. skipped'[e] = {f \in wants[e] : ~HasBuffer(f)}
        BY <1>1, <3>1 DEF Apply
      <4>4. QED
        BY <4>1, <4>2, <4>3
    <3>2. CASE opens # {}
      BY <1>1, <3>2
    <3>3. QED
      BY <3>1, <3>2
  <2>4. \A f \in wants[e] : file'[f] # "closed"
    BY <1>3, <2>1
  <2>5. QED
    BY <1>1, <2>1, <2>2, <2>3, <2>4 DEF ClosedInv
<1>7. QED
  BY <1>4, <1>5, <1>6

\* A file that is loaded ends the wait of at most one edit.
LEMMA LoadedStep ==
    ASSUME IsFiniteSet(Files), IInv, NEW f \in Files, Loaded(f)
    PROVE  IInv'
<1> USE DEF IInv, TypeInv
<1>1. /\ file' = [file EXCEPT ![f] = "open"] /\ file[f] = "loading"
      /\ UNCHANGED <<wants, gone>>
  BY DEF Loaded
<1>2. CASE UNCHANGED <<stage, remaining, callbacks, skipped>>
  BY <1>1, <1>2 DEF CountInv, ClosedInv, AwaitedBy
<1>3. ASSUME NEW e \in WorkspaceEdits, <<e, f>> \in callbacks,
             callbacks' = callbacks \ {<<e, f>>}, CountDown(e)
      PROVE  IInv'
  <2>1. /\ f \in AwaitedBy(e) /\ stage[e] = "loading"
        /\ Cardinality(AwaitedBy(e)) <= remaining[e]
    BY <1>3 DEF AwaitedBy, CountInv
  <2>2. /\ IsFiniteSet(AwaitedBy(e)) /\ Cardinality(AwaitedBy(e)) \in Nat
        /\ Cardinality(AwaitedBy(e)) # 0
    BY <2>1, AwaitedFinite, FS_EmptySet
  <2>3. /\ AwaitedBy(e)' = AwaitedBy(e) \ {f}
        /\ \A i \in WorkspaceEdits : i # e => AwaitedBy(i)' = AwaitedBy(i)
    BY <1>3 DEF AwaitedBy
  <2>4. Cardinality(AwaitedBy(e)') = Cardinality(AwaitedBy(e)) - 1
    BY <2>1, <2>2, <2>3, FS_RemoveElement
  <2>5. /\ remaining' = [remaining EXCEPT ![e] = remaining[e] - 1]
        /\ remaining[e] \in Nat /\ remaining[e] - 1 \in Nat
    BY <1>3, <2>1, <2>2 DEF CountDown
  <2>6. \A i \in WorkspaceEdits : i # e =>
           stage'[i] = stage[i] /\ skipped'[i] = skipped[i]
    BY <1>3 DEF CountDown, Apply
  <2>7. TypeInv'
    <3>1. CASE remaining[e] = 1
      BY <1>1, <1>3, <2>5, <3>1 DEF CountDown, Apply
    <3>2. CASE remaining[e] # 1
      BY <1>1, <1>3, <2>5, <3>2 DEF CountDown
    <3>3. QED
      BY <3>1, <3>2
  <2>8. CountInv'
    <3>1. stage'[e] # "loading" => AwaitedBy(e)' = {}
      <4>1. CASE remaining[e] = 1
        <5>1. Cardinality(AwaitedBy(e)') = 0
          BY <2>1, <2>2, <2>4, <4>1
        <5>2. QED
          BY <5>1, AwaitedFinite, FS_EmptySet
      <4>2. CASE remaining[e] # 1
        BY <1>3, <2>1, <4>2 DEF CountDown
      <4>3. QED
        BY <4>1, <4>2
    <3>2. Cardinality(AwaitedBy(e)') <= remaining'[e]
      BY <2>1, <2>2, <2>4, <2>5
    <3>3. QED
      BY <2>3, <2>5, <2>6, <3>1, <3>2 DEF CountInv
  <2>9. ClosedInv'
    <3>1. \A g \in Files : (file'[g] = "closed" <=> file[g] = "closed")
                          /\ (file'[g] = "missing" <=> file[g] = "missing")
      BY <1>1
    <3>2. stage'[e] = "applied" => skipped'[e] = {g \in wants[e] : ~HasBuffer(g)}
      BY <1>3, <2>1 DEF CountDown, Apply
    <3>3. \A g \in wants[e] : ~HasBuffer(g) => file[g] = "missing" \/ g \in gone
      BY <1>1, <2>1 DEF HasBuffer, ClosedInv
    <3>4. stage'[e] = "applied" =>
             \A g \in skipped'[e] : file[g] = "missing" \/ g \in gone
      BY <3>2, <3>3
    <3>5. QED
      BY <1>1, <2>1, <2>6, <3>1, <3>4 DEF ClosedInv
  <2>10. QED
    BY <2>7, <2>8, <2>9
<1>4. QED
  BY <1>2, <1>3 DEF Loaded

\* A tab that is closed takes its callbacks with it, and not the countdown.
LEMMA ClosedStep ==
    ASSUME IsFiniteSet(Files), IInv, NEW f \in Files, TabClosed(f)
    PROVE  IInv'
<1> USE DEF IInv, TypeInv
<1>1. /\ file' = [file EXCEPT ![f] = "closed"] /\ gone' = gone \cup {f}
      /\ callbacks' = callbacks \ (WorkspaceEdits \X {f})
      /\ UNCHANGED <<wants, stage, remaining, skipped>>
  BY DEF TabClosed
<1>2. TypeInv'
  BY <1>1
<1>3. CountInv'
  <2> SUFFICES ASSUME NEW e \in WorkspaceEdits
               PROVE  /\ stage[e] # "loading" => AwaitedBy(e)' = {}
                      /\ Cardinality(AwaitedBy(e)') <= remaining[e]
    BY <1>1 DEF CountInv
  <2>1. AwaitedBy(e)' \in SUBSET AwaitedBy(e)
    BY <1>1 DEF AwaitedBy
  <2>2. Cardinality(AwaitedBy(e)') <= Cardinality(AwaitedBy(e))
    BY <2>1, AwaitedFinite, FS_Subset
  <2>3. QED
    BY <2>1, <2>2, AwaitedFinite DEF CountInv
<1>4. ClosedInv'
  BY <1>1 DEF ClosedInv, TabClosed, HasBuffer
<1>5. QED
  BY <1>2, <1>3, <1>4

\* Every step keeps the invariant.
LEMMA EveryStep ==
    ASSUME IsFiniteSet(Files), IInv, [Next]_vars
    PROVE  IInv'
<1>1. ASSUME NEW f \in Files, UserOpens(f) PROVE IInv'
  BY <1>1 DEF UserOpens, IInv, TypeInv, CountInv, ClosedInv, AwaitedBy
<1>2. CASE UNCHANGED vars
  BY <1>2 DEF vars, IInv, TypeInv, CountInv, ClosedInv, AwaitedBy
<1>3. QED
  BY <1>1, <1>2, BeginStep, LoadedStep, ClosedStep DEF Next

----------------------------------------------------------------------------
\* The invariant holds of every behaviour.
THEOREM InductiveInvariant == ASSUME IsFiniteSet(Files) PROVE Spec => []IInv
<1>1. IInv /\ [Next]_vars => IInv'
  BY EveryStep
<1>2. QED
  BY InitEstablishes, <1>1, PTL DEF Spec

\* An edit is applied when all the files that were opened for it are loaded, and
\* leaves out only what is not on the disk or was closed by the user.
THEOREM EditsAreAppliedWhole ==
    ASSUME IsFiniteSet(Files) PROVE Spec => []AppliedWhole
<1>1. IInv => AppliedWhole
  BY DEF IInv, TypeInv, CountInv, ClosedInv, AwaitedBy, AppliedWhole
<1>2. QED
  BY <1>1, InductiveInvariant, PTL
=============================================================================
