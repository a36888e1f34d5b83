------------------------ MODULE DocumentBridgeProofs ------------------------
(***************************************************************************)
(* DocumentBridge for every text and every number of edits: the protocol   *)
(* of open, change and close with any server; what queued changes make of  *)
(* a text; and, unless deltas are asked for while a whole text is pending, *)
(* what the server has, and that the bridge implements TextMirror.         *)
(***************************************************************************)
EXTENDS DocumentBridge, Induction, SequenceTheorems

----------------------------------------------------------------------------
(***************************************************************************)
(* What changes make of a text.                                            *)
(***************************************************************************)
\* A change makes a text of a text, one character longer at most.
LEMMA ApplyType ==
    ASSUME NEW t \in Seq(Chars), NEW e \in Changes
    PROVE  Apply(t, e) \in Seq(Chars) /\ Len(Apply(t, e)) <= Len(t) + 1
<1>1. e.at \in Nat /\ e.at >= 1
  BY MaxEditsAssumption DEF Changes, Insertions, Removals
<1>2. CASE e \in Insertions
  <2>1. e.char \in Chars /\ e.op = "insert"
    BY <1>2 DEF Insertions
  <2>2. CASE e.at > Len(t)
    BY <2>1, <2>2 DEF Apply
  <2>3. CASE e.at <= Len(t)
    <3> DEFINE left == SubSeq(t, 1, e.at - 1)
               right == SubSeq(t, e.at, Len(t))
               c == <<e.char>>
               head == left \o c
               whole == head \o right
    <3>1. /\ left \in Seq(Chars) /\ Len(left) = e.at - 1
          /\ right \in Seq(Chars) /\ Len(right) = Len(t) - e.at + 1
      BY <1>1, <2>3, SubSeqProperties
    <3>2. Apply(t, e) = whole
      <4>1. ~(e.at > Len(t))
        BY <1>1, <2>3
      <4>2. QED
        BY <2>1, <4>1, Zenon DEF Apply, InsertAt
    <3>3. c \in Seq(Chars) /\ Len(c) = 1
      BY <2>1
    <3> HIDE DEF left, right, c
    <3>4. head \in Seq(Chars) /\ Len(head) = Len(left) + Len(c)
      BY <3>1, <3>3, ConcatProperties, Zenon
    <3> HIDE DEF head
    <3>5. whole \in Seq(Chars) /\ Len(whole) = Len(head) + Len(right)
      BY <3>1, <3>4, ConcatProperties, Zenon
    <3> HIDE DEF whole
    <3>6. Len(whole) = Len(t) + 1
      <4>1. Len(t) \in Nat
        OBVIOUS
      <4>2. Len(left) = e.at - 1 /\ Len(right) = Len(t) - e.at + 1
        BY <3>1
      <4>3. Len(head) = Len(left) + 1 /\ Len(whole) = Len(head) + Len(right)
        BY <3>3, <3>4, <3>5, Zenon
      <4>4. Len(head) = e.at /\ Len(whole) = Len(head) + (Len(t) - e.at + 1)
        BY <1>1, <4>2, <4>3
      <4>5. QED
        BY ONLY <1>1, <4>1, <4>4
    <3>7. QED
      BY <3>2, <3>5, <3>6
  <2>4. QED
    BY <1>1, <2>2, <2>3
<1>3. CASE e \in Removals
  <2>1. e.op = "remove"
    BY <1>3 DEF Removals
  <2>2. CASE e.at > Len(t)
    BY <2>1, <2>2 DEF Apply
  <2>3. CASE e.at <= Len(t)
    <3> DEFINE left == SubSeq(t, 1, e.at - 1)
               right == SubSeq(t, e.at + 1, Len(t))
    <3>1. /\ left \in Seq(Chars) /\ Len(left) = e.at - 1
          /\ right \in Seq(Chars) /\ Len(right) = Len(t) - e.at
      BY <1>1, <2>3, SubSeqProperties
    <3>2. Apply(t, e) = left \o right
      <4>1. ~(e.at > Len(t)) /\ e.op # "insert"
        BY <1>1, <2>1, <2>3
      <4>2. QED
        BY <4>1, Zenon DEF Apply, RemoveAt
    <3> HIDE DEF left, right
    <3>3. left \o right \in Seq(Chars) /\ Len(left \o right) = Len(left) + Len(right)
      BY <3>1, ConcatProperties, Zenon
    <3>4. QED
      BY <1>1, <3>1, <3>2, <3>3
  <2>4. QED
    BY <1>1, <2>2, <2>3
<1>4. QED
  BY <1>2, <1>3 DEF Changes

\* The function that ApplyAll is defined by: the text after n of the changes.
After(f, t, es) ==
    f = [n \in 0..Len(es) |-> IF n = 0 THEN t ELSE Apply(f[n-1], es[n])]

\* It exists.
LEMMA AfterExists ==
    ASSUME NEW t \in Seq(Chars), NEW es \in Seq(Changes)
    PROVE  \E f \in [0..Len(es) -> Seq(Chars)] : After(f, t, es)
<1> DEFINE n == Len(es)
           S == Seq(Chars)
           R == {r \in (1..n) \X S \X S : r[3] = Apply(r[2], es[r[1]])}
<1>1. ASSUME NEW k \in 1..n, NEW x \in S
      PROVE  \E y \in S : <<k, x, y>> \in R
  <2>1. es[k] \in Changes
    OBVIOUS
  <2> DEFINE y == Apply(x, es[k])
  <2>2. y \in S
    BY <2>1, ApplyType
  <2>3. <<k, x, y>> \in R
    BY <2>2
  <2>4. QED
    BY <2>2, <2>3
<1>2. n \in Nat /\ t \in S
  OBVIOUS
<1>3. PICK f : Runs(f, t, R, S, n)
  <2> HIDE DEF R, n, S
  <2>1. QED
    BY <1>1, <1>2, ByRecursion DEF NeverStuck
<1>4. f \in [0..n -> S] /\ f[0] = t
  BY <1>3 DEF Runs
<1>5. \A k \in 1..n : f[k] = Apply(f[k-1], es[k])
  BY <1>3 DEF Runs
<1>6. f = [k \in 0..n |-> IF k = 0 THEN t ELSE Apply(f[k-1], es[k])]
  BY <1>2, <1>4, <1>5
<1>7. QED
  BY <1>4, <1>6 DEF After

\* ApplyAll is its last value, and any function like it has the same.
LEMMA ApplyAllIsAfter ==
    ASSUME NEW t \in Seq(Chars), NEW es \in Seq(Changes), NEW f, After(f, t, es)
    PROVE  ApplyAll(t, es) = f[Len(es)]
<1>1. \E g : After(g, t, es)
  BY AfterExists
<1>2. PICK g : After(g, t, es) /\ ApplyAll(t, es) = g[Len(es)]
  BY <1>1 DEF After, ApplyAll
<1> DEFINE n == Len(es)
<1>3. n \in Nat
  OBVIOUS
<1>4. f[0] = t /\ g[0] = t
  BY <1>2, <1>3 DEF After
<1>5. ASSUME NEW k \in 1..n, f[k-1] = g[k-1] PROVE f[k] = g[k]
  BY <1>2, <1>3, <1>5 DEF After
<1>6. f[n] = g[n]
  <2> HIDE DEF n
  <2>1. StepAlike(f, g, n)
    BY <1>5 DEF StepAlike
  <2>2. \A k \in 0..n : f[k] = g[k]
    BY <1>3, <1>4, <2>1, SameByRecursion
  <2>3. QED
    BY <1>3, <2>2
<1>7. QED
  BY <1>2, <1>6

\* Without changes the text is what it was.
LEMMA ApplyNothing ==
    ASSUME NEW t \in Seq(Chars)
    PROVE  ApplyAll(t, <<>>) = t
<1>0. <<>> \in Seq(Changes) /\ Len(<<>>) = 0
  OBVIOUS
<1>1. PICK f : After(f, t, <<>>)
  BY <1>0, AfterExists
<1>2. f[0] = t
  BY <1>1 DEF After
<1>3. QED
  BY <1>0, <1>1, <1>2, ApplyAllIsAfter

\* A change that is queued behind others is applied to what they make.
LEMMA ApplyOneMore ==
    ASSUME NEW t \in Seq(Chars), NEW es \in Seq(Changes), NEW e \in Changes
    PROVE  ApplyAll(t, Append(es, e)) = Apply(ApplyAll(t, es), e)
<1> DEFINE more == Append(es, e)
           n == Len(es)
<1>1. /\ more \in Seq(Changes) /\ n \in Nat /\ Len(more) = n + 1
      /\ more[n + 1] = e /\ \A k \in 1..n : more[k] = es[k]
  OBVIOUS
<1> HIDE DEF more
<1>2. PICK g : After(g, t, more)
  BY <1>1, AfterExists
<1>3. PICK f : After(f, t, es)
  BY AfterExists
<1>4. f[0] = t /\ g[0] = t
  BY <1>1, <1>2, <1>3 DEF After
<1>5. ASSUME NEW k \in 1..n, f[k-1] = g[k-1] PROVE f[k] = g[k]
  <2>1. f[k] = Apply(f[k-1], es[k])
    BY <1>1, <1>3 DEF After
  <2>2. g[k] = Apply(g[k-1], more[k])
    <3>1. k \in 0..Len(more) /\ k # 0
      BY <1>1
    <3>2. QED
      BY <1>2, <3>1 DEF After
  <2>3. QED
    BY <1>1, <1>5, <2>1, <2>2
<1>6. f[n] = g[n]
  <2> HIDE DEF n
  <2>1. StepAlike(f, g, n)
    BY <1>5 DEF StepAlike
  <2>2. \A k \in 0..n : f[k] = g[k]
    BY <1>1, <1>4, <2>1, SameByRecursion
  <2>3. QED
    BY <1>1, <2>2
<1>7. g[n + 1] = Apply(g[n], e)
  BY <1>1, <1>2 DEF After
<1>8. ApplyAll(t, es) = f[n] /\ ApplyAll(t, more) = g[n + 1]
  BY <1>1, <1>2, <1>3, ApplyAllIsAfter
<1>9. QED
  BY <1>6, <1>7, <1>8 DEF more

\* What queued changes make of a text is a text, longer by one for each at most.
LEMMA ApplyAllType ==
    ASSUME NEW t \in Seq(Chars), NEW es \in Seq(Changes)
    PROVE  ApplyAll(t, es) \in Seq(Chars) /\ Len(ApplyAll(t, es)) <= Len(t) + Len(es)
<1>1. PICK f \in [0..Len(es) -> Seq(Chars)] : After(f, t, es)
  BY AfterExists
<1>2. Len(es) \in Nat
  OBVIOUS
<1> DEFINE T == {k \in 0..Len(es) : Len(f[k]) <= Len(t) + k}
<1>3. 0 \in T
  BY <1>1, <1>2 DEF After
<1>4. ASSUME NEW k \in 1..Len(es), k - 1 \in T PROVE k \in T
  <2>0. k \in 0..Len(es) /\ k - 1 \in 0..Len(es) /\ k # 0
    BY <1>2
  <2>1. f[k] = Apply(f[k-1], es[k]) /\ f[k-1] \in Seq(Chars) /\ es[k] \in Changes
    <3>1. f[k] = Apply(f[k-1], es[k])
      BY <1>1, <2>0 DEF After
    <3>2. f[k-1] \in Seq(Chars)
      BY <1>1, <2>0
    <3>3. es[k] \in Changes
      OBVIOUS
    <3>4. QED
      BY <3>1, <3>2, <3>3
  <2>2. Len(f[k]) <= Len(f[k-1]) + 1 /\ f[k] \in Seq(Chars)
    BY <2>1, ApplyType
  <2>3. QED
    BY <1>2, <1>4, <2>1, <2>2
<1>5. 0..Len(es) \subseteq T
  <2> HIDE DEF T
  <2>1. QED
    BY <1>2, <1>3, <1>4, UpTo DEF Hereditary
<1>6. Len(f[Len(es)]) <= Len(t) + Len(es) /\ f[Len(es)] \in Seq(Chars)
  <2>1. Len(es) \in 0..Len(es)
    BY <1>2
  <2>2. QED
    BY <1>1, <1>5, <2>1
<1>7. QED
  BY <1>1, <1>6, ApplyAllIsAfter

----------------------------------------------------------------------------
(***************************************************************************)
(* The protocol of one document.                                           *)
(***************************************************************************)
USE MaxEditsAssumption, CapabilitiesAssumption, LateDeltasAssumption

\* The server has a document open exactly while it has a bridge, and the
\* version of the bridge; a timer is the timer of a bridge.
ProtocolInv ==
    /\ version \in Nat
    /\ bridged \in BOOLEAN /\ docOpen \in BOOLEAN /\ strays \in BOOLEAN
    /\ timer \in {"off", "armed", "due"}
    /\ docOpen <=> bridged
    /\ bridged => docVersion = version
    /\ timer # "off" => bridged
    /\ NoStrays

\* It holds initially.
LEMMA ProtocolInitially == Init => ProtocolInv
<1> SUFFICES ASSUME Init PROVE ProtocolInv
  OBVIOUS
<1>1. version \in Nat /\ timer = "off"
  BY DEF Init
<1>2. bridged = FALSE /\ docOpen = FALSE /\ strays = FALSE
  BY DEF Init
<1>3. QED
  BY <1>1, <1>2 DEF ProtocolInv, NoStrays

\* A flush, if the document has a bridge, sends the next version or nothing.
LEMMA FlushKeepsProtocol ==
    ASSUME ProtocolInv, FlushPendingChange, UNCHANGED bridged
    PROVE  ProtocolInv'
<1> USE DEF ProtocolInv, NoStrays
<1>1. CASE UNCHANGED <<version, serverVars>> /\ timer' \in {"off", timer}
  BY <1>1 DEF serverVars
<1>2. ASSUME NEW sent, version' = version + 1, DidChange(sent, version'),
             timer' = "off", timer # "off"
      PROVE  ProtocolInv'
  <2>1. bridged /\ docOpen /\ docVersion = version
    BY <1>2
  <2>2. docOpen' = docOpen /\ docVersion' = version'
    BY <1>2, <2>1 DEF DidChange
  <2>3. ~strays' /\ strays' \in BOOLEAN
    BY <1>2, <2>1 DEF DidChange
  <2>4. version' \in Nat
    BY <1>2
  <2>5. QED
    BY <1>2, <2>1, <2>2, <2>3, <2>4
<1>3. QED
  BY <1>1, <1>2 DEF FlushPendingChange, FlushChange

\* What a request, a trigger and a deferred request do to the bridge: a flush,
\* or nothing.
LEMMA RequestFlushes ==
    ASSUME NEW f, Request(f) \/ Trigger(f) \/ RequestLater(f)
    PROVE  /\ bridged /\ bridged' = bridged
           /\ UNCHANGED <<editorVars, text, syncKind, capabilityVars>>
           /\ FlushPendingChange \/ UNCHANGED <<timer, version, events, serverVars>>
<1>1. CASE Request(f)
  BY <1>1 DEF Request
<1>2. CASE Trigger(f)
  BY <1>2 DEF Trigger
<1>3. CASE RequestLater(f)
  BY <1>3 DEF RequestLater
<1>4. QED
  BY <1>1, <1>2, <1>3

\* Every step keeps the protocol.
LEMMA ProtocolStep ==
    ASSUME ProtocolInv, [Next]_vars
    PROVE  ProtocolInv'
<1> USE DEF ProtocolInv, NoStrays, editorVars, serverVars, capabilityVars,
            requestVars
<1>1. CASE Attach
  BY <1>1 DEF Attach
<1>2. CASE ServerReady
  BY <1>2 DEF ServerReady
<1>3. ASSUME NEW e \in ChangeEvents, Edit(e) PROVE ProtocolInv'
  BY <1>3 DEF Edit
<1>4. CASE DebounceElapses
  BY <1>4 DEF DebounceElapses
<1>5. CASE DebounceFires
  BY <1>5, FlushKeepsProtocol DEF DebounceFires, FlushPendingChange
<1>6. ASSUME NEW f \in Features, Request(f) \/ Trigger(f) \/ RequestLater(f)
      PROVE  ProtocolInv'
  <2>1. /\ bridged' = bridged
        /\ FlushPendingChange \/ UNCHANGED <<timer, version, events, serverVars>>
    BY <1>6, RequestFlushes
  <2>2. CASE FlushPendingChange
    BY <2>1, <2>2, FlushKeepsProtocol
  <2>3. CASE UNCHANGED <<timer, version, events, serverVars>>
    BY <2>1, <2>3
  <2>4. QED
    BY <2>1, <2>2, <2>3
<1>7. CASE Save
  BY <1>7, FlushKeepsProtocol DEF Save
<1>8. ASSUME NEW readable \in BOOLEAN, Close(readable) PROVE ProtocolInv'
  <2>1. docOpen /\ bridged' = FALSE /\ docOpen' = FALSE /\ timer' = "off"
    BY <1>8 DEF Close
  <2>2. ~strays' /\ strays' \in BOOLEAN
    BY <1>8, <2>1 DEF Close
  <2>3. version' \in Nat
    BY <1>8 DEF Close
  <2>4. QED
    BY <2>1, <2>2, <2>3
<1>9. CASE Deactivate
  BY <1>9 DEF Deactivate
<1>10. CASE UNCHANGED vars
  BY <1>10 DEF vars
<1>11. QED
  BY <1>1, <1>2, <1>3, <1>4, <1>5, <1>6, <1>7, <1>8, <1>9, <1>10 DEF Next

\* The protocol holds of every behaviour.
THEOREM ProtocolInvariant == Spec => []ProtocolInv
<1>1. Init => ProtocolInv
  BY ProtocolInitially
<1>2. ProtocolInv /\ [Next]_vars => ProtocolInv'
  BY ProtocolStep
<1>3. QED
  BY <1>1, <1>2, PTL DEF Spec

\* No notification reaches a server that does not have the document open, and
\* every change has a greater version than the one before.
THEOREM NothingStrays == Spec => []NoStrays
<1>1. ProtocolInv => NoStrays
  BY DEF ProtocolInv
<1>2. QED
  BY <1>1, ProtocolInvariant, PTL

----------------------------------------------------------------------------
(***************************************************************************)
(* The mirror, the queue and the types, with any server.                   *)
(***************************************************************************)
\* The mirror is the buffer; what is queued are changes of an incremental
\* bridge that its timer will send; a bridge made before the server is READY
\* sends whole texts.
QueueInv ==
    /\ syncKind \in SyncKinds
    /\ capability \in Capabilities
    /\ reported \in BOOLEAN
    /\ events \in Seq(Changes)
    /\ events # <<>> => bridged /\ syncKind = "INCREMENTAL" /\ timer # "off"
    /\ bridged => text = buffer
    /\ bridged /\ ~reported => syncKind = "FULL"

\* Texts are as long as there were edits at most, and so is what the queue can
\* make of the server's.
SizeInv ==
    /\ edits \in 0..MaxEdits
    /\ buffer \in Seq(Chars) /\ Len(buffer) <= edits
    /\ disk \in Seq(Chars) /\ Len(disk) <= edits
    /\ text \in Seq(Chars) /\ Len(text) <= edits
    /\ docText \in Seq(Chars) /\ Len(docText) + Len(events) <= edits

\* What the other two leave of the types.
FlagInv ==
    /\ modified \in BOOLEAN
    /\ docVersion \in Nat
    /\ triggered \subseteq DeferringFeatures
    /\ request \in {"none", "current", "early", "stale"}

TypeInv == ProtocolInv /\ QueueInv /\ SizeInv /\ FlagInv

\* The texts of the model are the sequences that are not too long.
LEMMA TextsAreSequences ==
    ASSUME NEW t \in Seq(Chars), Len(t) <= MaxEdits
    PROVE  t \in Texts
<1>1. Len(t) \in 0..MaxEdits /\ t \in [1..Len(t) -> Chars]
  OBVIOUS
<1>2. QED
  BY <1>1 DEF Texts

\* So the type invariant follows.
LEMMA TypeInvImpliesTypeOK == TypeInv => TypeOK
<1> SUFFICES ASSUME TypeInv PROVE TypeOK
  OBVIOUS
<1> USE DEF TypeInv, ProtocolInv, QueueInv, SizeInv, FlagInv
<1>1. buffer \in Texts /\ disk \in Texts /\ text \in Texts
  BY TextsAreSequences
<1>2. docText \in Texts
  <2>1. Len(events) \in Nat /\ Len(docText) \in Nat
    OBVIOUS
  <2>2. Len(docText) <= MaxEdits
    BY <2>1
  <2>3. QED
    BY <2>2, TextsAreSequences
<1>3. QED
  BY <1>1, <1>2 DEF TypeOK

\* It holds initially.
LEMMA TypeInitially == Init => TypeInv
<1> SUFFICES ASSUME Init PROVE TypeInv
  OBVIOUS
<1>1. ProtocolInv
  BY ProtocolInitially
<1>2. /\ syncKind = "FULL" /\ capability \in Capabilities /\ reported \in BOOLEAN
      /\ events = <<>> /\ bridged = FALSE
  BY DEF Init
<1>3. QueueInv
  <2>1. events \in Seq(Changes)
    BY <1>2
  <2>2. QED
    BY <1>2, <2>1 DEF QueueInv, SyncKinds
<1>4. SizeInv
  <2>1. edits = 0 /\ buffer = <<>> /\ disk = <<>> /\ text = <<>> /\ docText = <<>>
    BY DEF Init
  <2>2. QED
    BY <1>2, <2>1 DEF SizeInv
<1>5. FlagInv
  BY DEF Init, FlagInv
<1>6. QED
  BY <1>1, <1>3, <1>4, <1>5 DEF TypeInv

\* A change that is possible is one, and makes a text of the buffer.
LEMMA EditMakesText ==
    ASSUME SizeInv, NEW e \in ChangeEvents
    PROVE  /\ e \in Changes
           /\ Apply(buffer, e) \in Seq(Chars)
           /\ Len(Apply(buffer, e)) <= Len(buffer) + 1
<1>1. e \in Changes
  BY DEF ChangeEvents
<1>2. QED
  BY <1>1, ApplyType DEF SizeInv

\* A flush empties the queue; what it sends is a text of the right size.
LEMMA FlushKeepsSize ==
    ASSUME TypeInv, FlushPendingChange, bridged
    PROVE  /\ events' = <<>> /\ timer' = "off"
           /\ docText' \in Seq(Chars) /\ Len(docText') <= edits
           /\ docVersion' \in Nat
<1> USE DEF TypeInv
<1>1. docOpen /\ text = buffer /\ version \in Nat
  BY DEF ProtocolInv, QueueInv
<1>2. /\ Len(docText) \in Nat /\ Len(events) \in Nat /\ edits \in Nat
      /\ docText \in Seq(Chars) /\ events \in Seq(Changes) /\ docVersion \in Nat
      /\ Len(docText) + Len(events) <= edits
      /\ text \in Seq(Chars) /\ Len(text) <= edits
  BY DEF SizeInv, QueueInv, FlagInv
<1>3. CASE timer = "off" /\ UNCHANGED <<timer, version, events, serverVars>>
  BY <1>2, <1>3 DEF serverVars, QueueInv
<1>4. CASE timer # "off" /\ FlushChange
  <2>1. CASE syncKind = "NONE" /\ timer' = "off" /\ UNCHANGED <<version, events, serverVars>>
    BY <1>2, <2>1 DEF serverVars, QueueInv
  <2>2. CASE /\ events' = <<>> /\ timer' = "off" /\ version' = version + 1
             /\ DidChange(ApplyAll(docText, events), version')
    <3>1. /\ ApplyAll(docText, events) \in Seq(Chars)
          /\ Len(ApplyAll(docText, events)) <= Len(docText) + Len(events)
      BY <1>2, ApplyAllType
    <3>2. docText' = ApplyAll(docText, events) /\ docVersion' = version'
      BY <1>1, <2>2 DEF DidChange
    <3>3. Len(ApplyAll(docText, events)) <= edits
      BY <1>2, <3>1
    <3>4. QED
      BY <1>1, <2>2, <3>1, <3>2, <3>3
  <2>3. CASE /\ syncKind = "FULL" \/ (syncKind = "INCREMENTAL" /\ events = <<>>)
             /\ timer' = "off" /\ version' = version + 1 /\ UNCHANGED events
             /\ DidChange(text, version')
    <3>1. events = <<>>
      BY <2>3 DEF QueueInv
    <3>2. docText' = text /\ docVersion' = version'
      BY <1>1, <2>3 DEF DidChange
    <3>3. QED
      BY <1>1, <1>2, <2>3, <3>1, <3>2
  <2>4. QED
    BY <1>4, <2>1, <2>2, <2>3 DEF FlushChange
<1>5. QED
  BY <1>3, <1>4 DEF FlushPendingChange

\* Where only a flush happens, all of it is kept.
LEMMA FlushKeepsTypes ==
    ASSUME TypeInv, FlushPendingChange, bridged, request' \in {"none", "current", "early", "stale"},
           triggered' \subseteq DeferringFeatures,
           modified' \in BOOLEAN, disk' \in {disk, buffer},
           UNCHANGED <<buffer, edits, bridged, text, syncKind, capabilityVars>>
    PROVE  QueueInv' /\ SizeInv' /\ FlagInv'
<1> USE DEF TypeInv, capabilityVars
<1>1. /\ events' = <<>> /\ docText' \in Seq(Chars) /\ Len(docText') <= edits
      /\ docVersion' \in Nat
  BY FlushKeepsSize
<1>2. QueueInv'
  BY <1>1 DEF QueueInv
<1>3. SizeInv'
  <2>1. Len(docText') + Len(events') <= edits
    BY <1>1 DEF SizeInv
  <2>2. QED
    BY <1>1, <2>1 DEF SizeInv
<1>4. QED
  BY <1>1, <1>2, <1>3 DEF FlagInv

\* Every step keeps it.
LEMMA TypeStep ==
    ASSUME TypeInv, [Next]_vars
    PROVE  TypeInv'
<1> USE DEF TypeInv, editorVars, serverVars, capabilityVars,
            requestVars
<1>1. ProtocolInv'
  BY ProtocolStep
<1>2. \A c \in Capabilities \cup {"missing"} : SyncKindOf[c] \in SyncKinds
  BY DEF SyncKindOf, SyncKinds
<1>3. SyncKindOf["missing"] = "FULL" /\ <<>> \in Seq(Changes) /\ Len(<<>>) = 0
  BY DEF SyncKindOf
<1>4. CASE Attach
  <2>1. QueueInv'
    BY <1>2, <1>3, <1>4 DEF Attach, QueueInv
  <2>2. SizeInv'
    BY <1>3, <1>4 DEF Attach, SizeInv
  <2>3. FlagInv'
    BY <1>4 DEF Attach, FlagInv
  <2>4. QED
    BY <1>1, <2>1, <2>2, <2>3
<1>5. CASE ServerReady
  <2>1. QueueInv'
    BY <1>2, <1>5 DEF ServerReady, QueueInv
  <2>2. SizeInv' /\ FlagInv'
    BY <1>5 DEF ServerReady, SizeInv, FlagInv
  <2>3. QED
    BY <1>1, <2>1, <2>2
<1>6. ASSUME NEW e \in ChangeEvents, Edit(e) PROVE TypeInv'
  <2>1. /\ e \in Changes /\ buffer' \in Seq(Chars) /\ Len(buffer') <= Len(buffer) + 1
        /\ edits' = edits + 1 /\ edits < MaxEdits /\ edits \in Nat
    BY <1>6, EditMakesText DEF Edit, SizeInv
  <2>2. /\ events \in Seq(Changes) /\ events' \in Seq(Changes)
        /\ Len(events') <= Len(events) + 1
    BY <1>6, <2>1 DEF Edit, QueueInv
  <2>3. events' # <<>> => bridged' /\ syncKind' = "INCREMENTAL" /\ timer' # "off"
    BY <1>6 DEF Edit, QueueInv
  <2>4. QueueInv'
    BY <1>6, <2>2, <2>3 DEF Edit, QueueInv
  <2>5. SizeInv'
    <3>1. text' \in {text, buffer'} /\ disk' = disk /\ docText' = docText
      BY <1>6 DEF Edit
    <3>2. Len(buffer) \in Nat /\ Len(buffer') \in Nat /\ Len(text) \in Nat /\ Len(disk) \in Nat
          /\ Len(docText) \in Nat /\ Len(events) \in Nat /\ Len(events') \in Nat
      BY <2>1, <2>2 DEF SizeInv
    <3>3. Len(docText') + Len(events') <= edits'
      BY <2>1, <2>2, <3>1, <3>2 DEF SizeInv
    <3>4. Len(buffer') <= edits' /\ Len(text') <= edits' /\ Len(disk') <= edits'
      BY <2>1, <3>1, <3>2 DEF SizeInv
    <3>5. edits' \in 0..MaxEdits
      BY <2>1
    <3>6. QED
      BY <2>1, <3>1, <3>3, <3>4, <3>5 DEF SizeInv
  <2>6. FlagInv'
    BY <1>6 DEF Edit, FlagInv
  <2>7. QED
    BY <1>1, <2>4, <2>5, <2>6
<1>7. CASE DebounceElapses
  <2>1. QueueInv'
    BY <1>7 DEF DebounceElapses, QueueInv
  <2>2. SizeInv' /\ FlagInv'
    BY <1>7 DEF DebounceElapses, SizeInv, FlagInv
  <2>3. QED
    BY <1>1, <2>1, <2>2
<1>8. CASE DebounceFires
  <2>1. bridged /\ FlushPendingChange
    BY <1>8 DEF DebounceFires, FlushPendingChange, ProtocolInv
  <2>2. QED
    BY <1>1, <1>8, <2>1, FlushKeepsTypes DEF DebounceFires, FlagInv
<1>9. ASSUME NEW f \in Features, Request(f) \/ Trigger(f) \/ RequestLater(f)
      PROVE  TypeInv'
  <2>1. /\ request' \in {"none", "current", "early", "stale"}
        /\ triggered' \subseteq DeferringFeatures
    <3>1. request' = request \/ request' \in {"current", "early", "stale"}
      BY <1>9 DEF Request, Trigger, RequestLater, Asks
    <3>2. triggered' \subseteq triggered \cup (DeferringFeatures \cap {f})
      <4>1. CASE Request(f)
        BY <4>1 DEF Request
      <4>2. CASE Trigger(f)
        BY <4>2 DEF Trigger
      <4>3. CASE RequestLater(f)
        BY <4>3 DEF RequestLater
      <4>4. QED
        BY <1>9, <4>1, <4>2, <4>3
    <3>3. QED
      BY <3>1, <3>2 DEF FlagInv
  <2>2. /\ bridged /\ bridged' = bridged
        /\ UNCHANGED <<editorVars, text, syncKind, capabilityVars>>
        /\ FlushPendingChange \/ UNCHANGED <<timer, version, events, serverVars>>
    BY <1>9, RequestFlushes
  <2>3. CASE FlushPendingChange
    BY <1>1, <2>1, <2>2, <2>3, FlushKeepsTypes DEF FlagInv
  <2>4. CASE UNCHANGED <<timer, version, events, serverVars>>
    <3>1. QueueInv'
      BY <2>2, <2>4 DEF QueueInv
    <3>2. SizeInv' /\ FlagInv'
      BY <2>1, <2>2, <2>4 DEF SizeInv, FlagInv
    <3>3. QED
      BY <1>1, <3>1, <3>2
  <2>5. QED
    BY <2>2, <2>3, <2>4
<1>10. CASE Save
  <2>1. CASE bridged /\ FlushPendingChange
    BY <1>1, <1>10, <2>1, FlushKeepsTypes DEF Save, FlagInv
  <2>2. CASE ~bridged /\ UNCHANGED <<timer, version, events, serverVars>>
    <3>1. QueueInv'
      BY <1>10, <2>2 DEF Save, QueueInv
    <3>2. SizeInv'
      BY <1>10, <2>2 DEF Save, SizeInv
    <3>3. FlagInv'
      BY <1>10, <2>2 DEF Save, FlagInv
    <3>4. QED
      BY <1>1, <3>1, <3>2, <3>3
  <2>3. QED
    BY <1>10, <2>1, <2>2 DEF Save
<1>11. ASSUME NEW readable \in BOOLEAN, Close(readable) PROVE TypeInv'
  <2>1. QueueInv'
    BY <1>3, <1>11 DEF Close, QueueInv
  <2>2. SizeInv'
    <3>1. /\ buffer' = disk /\ disk' = disk /\ edits' = edits /\ events' = <<>>
          /\ text' \in {text, disk} /\ docText' \in {docText, disk}
      BY <1>11 DEF Close
    <3>2. Len(docText) \in Nat /\ Len(events) \in Nat /\ Len(docText) <= edits
      BY DEF SizeInv, QueueInv
    <3>3. QED
      BY <1>3, <3>1, <3>2 DEF SizeInv
  <2>3. FlagInv'
    <3>1. version' \in Nat /\ docVersion' \in {docVersion, version'}
      BY <1>11 DEF Close, ProtocolInv
    <3>2. modified' = FALSE /\ request' = request /\ triggered' = {}
      BY <1>11 DEF Close
    <3>3. QED
      BY <3>1, <3>2 DEF FlagInv
  <2>4. QED
    BY <1>1, <2>1, <2>2, <2>3
<1>12. CASE Deactivate
  <2>1. QueueInv'
    BY <1>3, <1>12 DEF Deactivate, QueueInv
  <2>2. SizeInv'
    <3>1. Len(docText) \in Nat /\ Len(events) \in Nat /\ Len(docText) <= edits
      BY DEF SizeInv, QueueInv
    <3>2. QED
      BY <1>3, <1>12, <3>1 DEF Deactivate, SizeInv
  <2>3. FlagInv'
    BY <1>12 DEF Deactivate, FlagInv
  <2>4. QED
    BY <1>1, <2>1, <2>2, <2>3
<1>13. CASE UNCHANGED vars
  BY <1>1, <1>13 DEF vars, QueueInv, SizeInv, FlagInv
<1>14. QED
  BY <1>4, <1>5, <1>6, <1>7, <1>8, <1>9, <1>10, <1>11, <1>12, <1>13 DEF Next

\* The types, sizes and the mirror, of every behaviour.
THEOREM TypeInvariant == Spec => []TypeInv
<1>1. Init => TypeInv
  BY TypeInitially
<1>2. TypeInv /\ [Next]_vars => TypeInv'
  BY TypeStep
<1>3. QED
  BY <1>1, <1>2, PTL DEF Spec

\* Every text that a buffer, a mirror, a file or the server has is one, and as
\* long as there were edits at most.
THEOREM TypeCorrect == Spec => []TypeOK
<1>1. TypeInv => TypeOK
  BY TypeInvImpliesTypeOK
<1>2. QED
  BY <1>1, TypeInvariant, PTL

\* A document closed with unsaved edits leaves the file's text with the server,
\* whatever the server takes and whatever was pending.
THEOREM ClosingLeavesDisk == Spec => CloseLeavesDisk
<1>1. TypeInv /\ [Next]_vars =>
          [Close(TRUE) /\ modified /\ buffer # disk => docText' = disk]_vars
  <2> SUFFICES ASSUME TypeInv, Close(TRUE), modified, buffer # disk
               PROVE  docText' = disk
    OBVIOUS
  <2>1. text = buffer /\ docOpen
    BY DEF Close, TypeInv, QueueInv, ProtocolInv
  <2>2. Reverts(TRUE)
    BY <2>1 DEF Reverts
  <2>3. QED
    BY <2>1, <2>2 DEF Close
<1>2. QED
  BY <1>1, TypeInvariant, PTL DEF Spec, CloseLeavesDisk

----------------------------------------------------------------------------
(***************************************************************************)
(* What the server has, unless deltas are asked for while a whole text is  *)
(* pending: then the first delta meets a text the server never had (the    *)
(* behaviour of the run BridgeLateIncremental).                            *)
(***************************************************************************)
NeverLate ==
    \/ ~LateDeltas
    \/ \A c \in Capabilities : SyncKindOf[c] # "INCREMENTAL"

\* The queue leads from the server's text to the buffer; nothing queued and no
\* timer means they are the same.
SyncInv ==
    /\ QuietIsSynced
    /\ bridged /\ syncKind = "INCREMENTAL" => ApplyAll(docText, events) = buffer
    /\ RequestsSeeBuffer

BridgeInv == TypeInv /\ SyncInv

\* A flush brings the server to the buffer.
LEMMA FlushSends ==
    ASSUME BridgeInv, FlushPendingChange, bridged
    PROVE  syncKind # "NONE" => docText' = buffer
<1> USE DEF BridgeInv, TypeInv, SyncInv
<1>1. docOpen /\ text = buffer
  BY DEF ProtocolInv, QueueInv
<1>2. CASE timer = "off" /\ UNCHANGED <<timer, version, events, serverVars>>
  BY <1>2 DEF serverVars, QuietIsSynced
<1>3. CASE timer # "off" /\ FlushChange
  <2>1. CASE syncKind = "NONE"
    BY <2>1
  <2>2. CASE syncKind = "INCREMENTAL" /\ DidChange(ApplyAll(docText, events), version')
    BY <1>1, <2>2 DEF DidChange
  <2>3. CASE DidChange(text, version')
    BY <1>1, <2>3 DEF DidChange
  <2>4. QED
    BY <1>3, <2>1, <2>2, <2>3 DEF FlushChange
<1>4. QED
  BY <1>2, <1>3 DEF FlushPendingChange

\* Where only a flush happens, the server keeps up.
LEMMA FlushKeepsSync ==
    ASSUME BridgeInv, FlushPendingChange, bridged,
           UNCHANGED <<buffer, bridged, syncKind>>
    PROVE  /\ QuietIsSynced'
           /\ bridged' /\ syncKind' = "INCREMENTAL" => ApplyAll(docText', events') = buffer'
<1>1. events' = <<>> /\ docText' \in Seq(Chars)
  BY FlushKeepsSize DEF BridgeInv
<1>2. syncKind # "NONE" => docText' = buffer
  BY FlushSends
<1>3. ApplyAll(docText', events') = docText'
  BY <1>1, ApplyNothing
<1>4. QED
  BY <1>2, <1>3 DEF QuietIsSynced

\* Every step keeps the server's text.
LEMMA SyncStep ==
    ASSUME NeverLate, BridgeInv, [Next]_vars
    PROVE  SyncInv'
<1> USE DEF BridgeInv, SyncInv, QuietIsSynced, RequestsSeeBuffer,
            editorVars, serverVars, capabilityVars,
            requestVars
<1>1. CASE Attach
  <2>1. docText' = buffer' /\ events' = <<>> /\ request' = request
    BY <1>1 DEF Attach
  <2>2. buffer' \in Seq(Chars)
    BY <1>1 DEF Attach, TypeInv, SizeInv
  <2>3. ApplyAll(docText', events') = buffer'
    BY <2>1, <2>2, ApplyNothing
  <2>4. QED
    BY <2>1, <2>3
<1>2. CASE ServerReady
  <2>1. ~reported /\ UNCHANGED <<buffer, bridged, docText, events, timer, request>>
    BY <1>2 DEF ServerReady
  <2>2. CASE ~bridged
    BY <2>1, <2>2
  <2>3. CASE bridged
    <3>1. syncKind = "FULL" /\ events = <<>>
      BY <2>1, <2>3 DEF TypeInv, QueueInv
    <3>2. timer = "off" => docText = buffer
      BY <2>3, <3>1
    <3>3. syncKind' = "INCREMENTAL" => timer = "off"
      <4>1. syncKind' = SyncKindOf[capability] /\ capability \in Capabilities
        BY <1>2, <2>3 DEF ServerReady, TypeInv, QueueInv
      <4>2. SyncKindOf[capability] = "INCREMENTAL" => ~LateDeltas
        BY <4>1 DEF NeverLate
      <4>3. QED
        BY <1>2, <2>3, <4>1, <4>2 DEF ServerReady
    <3>4. ApplyAll(docText, events) = docText
      BY <3>1, ApplyNothing DEF TypeInv, SizeInv
    <3>5. QED
      BY <2>1, <3>2, <3>3, <3>4
  <2>4. QED
    BY <2>2, <2>3
<1>3. ASSUME NEW e \in ChangeEvents, Edit(e) PROVE SyncInv'
  <2>1. UNCHANGED <<bridged, syncKind, docText, request>> /\ buffer' = Apply(buffer, e)
    BY <1>3 DEF Edit
  <2>2. QuietIsSynced'
    BY <1>3 DEF Edit
  <2>3. CASE bridged /\ syncKind = "INCREMENTAL"
    <3>1. events' = Append(events, e)
      BY <1>3, <2>3 DEF Edit
    <3>2. e \in Changes /\ docText \in Seq(Chars) /\ events \in Seq(Changes)
      BY EditMakesText DEF TypeInv, SizeInv, QueueInv
    <3>3. ApplyAll(docText, events') = Apply(ApplyAll(docText, events), e)
      BY <3>1, <3>2, ApplyOneMore
    <3>4. QED
      BY <2>1, <2>2, <2>3, <3>3
  <2>4. QED
    BY <2>1, <2>2, <2>3
<1>4. CASE DebounceElapses
  BY <1>4 DEF DebounceElapses
<1>5. CASE DebounceFires
  <2>1. bridged /\ FlushPendingChange
    BY <1>5 DEF DebounceFires, FlushPendingChange, TypeInv, ProtocolInv
  <2>2. QED
    BY <1>5, <2>1, FlushKeepsSync DEF DebounceFires
<1>6. ASSUME NEW f \in Features, Request(f) \/ Trigger(f) \/ RequestLater(f)
      PROVE  SyncInv'
  <2>1. /\ bridged /\ bridged' = bridged
        /\ UNCHANGED <<editorVars, text, syncKind, capabilityVars>>
        /\ FlushPendingChange \/ UNCHANGED <<timer, version, events, serverVars>>
    BY <1>6, RequestFlushes
  <2>2. CASE FlushPendingChange
    <3>1. QuietIsSynced' /\ (bridged' /\ syncKind' = "INCREMENTAL"
                               => ApplyAll(docText', events') = buffer')
      BY <2>1, <2>2, FlushKeepsSync
    <3>2. syncKind # "NONE" => docText' = buffer
      BY <2>1, <2>2, FlushSends
    <3>3. request' # "stale"
      BY <1>6, <3>2 DEF Request, Trigger, RequestLater, Asks
    <3>4. QED
      BY <3>1, <3>3
  <2>3. CASE ~FlushPendingChange /\ UNCHANGED <<timer, version, events, serverVars>>
    <3>1. request' # "stale"
      BY <1>6, <2>3 DEF Request, Trigger, RequestLater, Asks
    <3>2. QED
      BY <2>1, <2>3, <3>1
  <2>4. QED
    BY <2>1, <2>2, <2>3
<1>7. CASE Save
  <2>1. CASE bridged /\ FlushPendingChange
    BY <1>7, <2>1, FlushKeepsSync DEF Save
  <2>2. CASE ~bridged
    BY <1>7, <2>2 DEF Save
  <2>3. QED
    BY <1>7, <2>1, <2>2 DEF Save
<1>8. ASSUME NEW readable \in BOOLEAN, Close(readable) PROVE SyncInv'
  BY <1>8 DEF Close
<1>9. CASE Deactivate
  BY <1>9 DEF Deactivate
<1>10. CASE UNCHANGED vars
  BY <1>10 DEF vars
<1>11. QED
  BY <1>1, <1>2, <1>3, <1>4, <1>5, <1>6, <1>7, <1>8, <1>9, <1>10 DEF Next

\* All of it holds of every behaviour.
THEOREM BridgeInvariant == ASSUME NeverLate PROVE Spec => []BridgeInv
<1>1. Init => BridgeInv
  <2> SUFFICES ASSUME Init PROVE SyncInv
    BY TypeInitially DEF BridgeInv
  <2>1. bridged = FALSE /\ request = "none"
    BY DEF Init
  <2>2. QED
    BY <2>1 DEF SyncInv, QuietIsSynced, RequestsSeeBuffer
<1>2. BridgeInv /\ [Next]_vars => BridgeInv'
  BY TypeStep, SyncStep DEF BridgeInv
<1>3. QED
  BY <1>1, <1>2, PTL DEF Spec

\* With nothing pending the server has the buffer's text, whichever kind of sync
\* it asked for.
THEOREM QuietIsAlwaysSynced == ASSUME NeverLate PROVE Spec => []QuietIsSynced
<1>1. BridgeInv => QuietIsSynced
  BY DEF BridgeInv, SyncInv
<1>2. QED
  BY <1>1, BridgeInvariant, PTL

\* The queued deltas, applied in order to what the server has, make the buffer.
THEOREM DeltasAlwaysCompose == ASSUME NeverLate PROVE Spec => []DeltasCompose
<1>1. BridgeInv => DeltasCompose
  BY DEF BridgeInv, TypeInv, QueueInv, SyncInv, DeltasCompose
<1>2. QED
  BY <1>1, BridgeInvariant, PTL

\* A feature that flushes and sends its request in one step asks about the
\* buffer as it is; of a rename that is the prepareRename only, and of a search
\* nothing.
THEOREM RequestsAlwaysSeeBuffer == ASSUME NeverLate PROVE Spec => []RequestsSeeBuffer
<1>1. BridgeInv => RequestsSeeBuffer
  BY DEF BridgeInv, SyncInv
<1>2. QED
  BY <1>1, BridgeInvariant, PTL

----------------------------------------------------------------------------
(***************************************************************************)
(* The refinement of TextMirror.                                           *)
(***************************************************************************)
\* A flush is a Sync of the mirror or nothing.
LEMMA FlushIsSync ==
    ASSUME BridgeInv, FlushPendingChange, bridged,
           UNCHANGED <<buffer, disk, syncKind>>
    PROVE  [Mirror!Next]_(Mirror!vars)
<1>1. CASE syncKind = "NONE" \/ timer = "off"
  <2>1. UNCHANGED serverVars
    BY <1>1 DEF FlushPendingChange, FlushChange
  <2>2. QED
    BY <2>1 DEF serverVars, Mirror!vars
<1>2. CASE syncKind # "NONE" /\ timer # "off"
  <2>1. docText' = buffer
    BY <1>2, FlushSends
  <2>2. docOpen /\ docOpen' = docOpen
    <3>1. docOpen
      BY DEF BridgeInv, TypeInv, ProtocolInv
    <3>2. QED
      BY <1>2, <3>1 DEF FlushPendingChange, FlushChange, DidChange
  <2>3. QED
    BY <1>2, <2>1, <2>2 DEF Mirror!Next, Mirror!Sync
<1>3. QED
  BY <1>1, <1>2

\* Every step of the bridge is one of the mirror, or leaves it as it is.
LEMMA MirrorStep ==
    ASSUME BridgeInv, BridgeInv', [Next]_vars
    PROVE  [Mirror!Next]_(Mirror!vars)
<1> USE DEF editorVars, serverVars, capabilityVars,
            requestVars
<1>1. CASE Attach
  <2>1. ~docOpen
    BY <1>1 DEF Attach, BridgeInv, TypeInv, ProtocolInv
  <2>2. QED
    BY <1>1, <2>1 DEF Attach, Mirror!Next, Mirror!Open
<1>2. CASE ServerReady
  BY <1>2 DEF ServerReady, Mirror!Next, Mirror!Negotiate
<1>3. ASSUME NEW e \in ChangeEvents, Edit(e) PROVE Mirror!Edit
  <2>1. buffer' \in Texts
    BY TextsAreSequences DEF BridgeInv, TypeInv, SizeInv
  <2>2. QED
    BY <1>3, <2>1 DEF Edit, Mirror!Edit
<1>4. CASE DebounceElapses
  BY <1>4 DEF DebounceElapses, Mirror!vars
<1>5. CASE DebounceFires
  <2>1. bridged /\ FlushPendingChange
    BY <1>5 DEF DebounceFires, FlushPendingChange, BridgeInv, TypeInv, ProtocolInv
  <2>2. QED
    BY <1>5, <2>1, FlushIsSync DEF DebounceFires
<1>6. ASSUME NEW f \in Features, Request(f) \/ Trigger(f) \/ RequestLater(f)
      PROVE  [Mirror!Next]_(Mirror!vars)
  <2>1. /\ bridged
        /\ UNCHANGED <<editorVars, text, syncKind, capabilityVars>>
        /\ FlushPendingChange \/ UNCHANGED <<timer, version, events, serverVars>>
    BY <1>6, RequestFlushes
  <2>2. CASE FlushPendingChange
    BY <2>1, <2>2, FlushIsSync
  <2>3. CASE UNCHANGED <<timer, version, events, serverVars>>
    BY <2>1, <2>3 DEF Mirror!vars
  <2>4. QED
    BY <2>1, <2>2, <2>3
<1>7. CASE Save
  <2>1. UNCHANGED <<buffer, syncKind, bridged>> /\ disk' = buffer
    BY <1>7 DEF Save
  <2>2. CASE bridged /\ FlushPendingChange
    <3>1. docOpen /\ docOpen'
      BY <2>1, <2>2 DEF BridgeInv, TypeInv, ProtocolInv
    <3>2. syncKind # "NONE" => docText' = buffer
      BY <2>2, FlushSends
    <3>3. syncKind = "NONE" => docText' = docText
      BY <2>2 DEF FlushPendingChange, FlushChange
    <3>4. docOpen' = docOpen
      BY <2>1, <2>2, <3>1 DEF BridgeInv, TypeInv, ProtocolInv
    <3>5. QED
      BY <2>1, <3>1, <3>2, <3>3, <3>4 DEF Mirror!Next, Mirror!Save
  <2>3. CASE ~bridged /\ UNCHANGED <<timer, version, events, serverVars>>
    <3>1. ~docOpen
      BY <2>3 DEF BridgeInv, TypeInv, ProtocolInv
    <3>2. QED
      BY <2>1, <2>3, <3>1 DEF Mirror!Next, Mirror!Save
  <2>4. QED
    BY <1>7, <2>2, <2>3 DEF Save
<1>8. ASSUME NEW readable \in BOOLEAN, Close(readable) PROVE Mirror!Close
  <2>1. docOpen
    BY <1>8 DEF Close, BridgeInv, TypeInv, ProtocolInv
  <2>2. QED
    BY <1>8, <2>1 DEF Close, Mirror!Close
<1>9. CASE Deactivate
  <2>1. docOpen
    BY <1>9 DEF Deactivate, BridgeInv, TypeInv, ProtocolInv
  <2>2. QED
    BY <1>9, <2>1 DEF Deactivate, Mirror!Next, Mirror!Release
<1>10. CASE UNCHANGED vars
  BY <1>10 DEF vars, Mirror!vars
<1>11. QED
  <2>1. CASE \E e \in ChangeEvents : Edit(e)
    BY <1>3, <2>1 DEF Mirror!Next
  <2>2. CASE \E readable \in BOOLEAN : Close(readable)
    BY <1>8, <2>2 DEF Mirror!Next
  <2>3. CASE \E f \in Features : Request(f) \/ Trigger(f) \/ RequestLater(f)
    BY <1>6, <2>3
  <2>4. QED
    BY <1>1, <1>2, <1>4, <1>5, <1>7, <1>9, <1>10, <2>1, <2>2, <2>3 DEF Next

\* The bridge implements the mirror: the server's copy of a text only ever becomes,
\* in one step, what the buffer is, or what the file is at the close.
THEOREM BridgeImplementsMirror == ASSUME NeverLate PROVE Spec => ImplementsMirror
<1>1. Init => Mirror!Init
  <2> SUFFICES ASSUME Init PROVE Mirror!Init
    OBVIOUS
  <2>1. buffer \in Texts
    BY TypeInitially, TypeInvImpliesTypeOK DEF TypeOK
  <2>2. QED
    BY <2>1 DEF Init, Mirror!Init
<1>2. BridgeInv /\ BridgeInv' /\ [Next]_vars => [Mirror!Next]_(Mirror!vars)
  BY MirrorStep
<1>3. QED
  BY <1>1, <1>2, BridgeInvariant, PTL DEF Spec, ImplementsMirror, Mirror!Spec
=============================================================================
