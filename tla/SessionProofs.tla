---------------------------- MODULE SessionProofs ---------------------------
(***************************************************************************)
(* What the present subprocess was told in Session, who is told when the   *)
(* circuit opens, and that the supervisor of a session is a LanguageServer *)
(* with what is proved of it, for every number of windows, documents and   *)
(* subprocesses.                                                           *)
(***************************************************************************)
EXTENDS Session, TLAPS

USE NoWindowAssumption, MovableAssumption, UriAssumption

----------------------------------------------------------------------------
(***************************************************************************)
(* The inductive invariant.                                                *)
(***************************************************************************)
PairInv ==
    /\ tab \in [Docs -> Windows \cup {NoWindow}]
    /\ hooked \in SUBSET Pairs
    /\ bridges \in SUBSET Pairs
    /\ told \in SUBSET Uris
    /\ announced \in SUBSET bridges
    /\ parted \in SUBSET Uris

IInv == PairInv /\ ClosedIsForgotten /\ KnownToItsServer

----------------------------------------------------------------------------
\* Every pair has a file.
LEMMA FilesAreUris == \A B \in SUBSET Pairs : Files(B) \in SUBSET Uris
BY DEF Files, Pairs

\* It holds initially.
LEMMA InitEstablishes == Init => IInv
BY DEF Init, IInv, PairInv, ClosedIsForgotten, KnownToItsServer

\* Attaching a document tells the present subprocess of its file, or nobody.
LEMMA AttachStep ==
    ASSUME IInv, NEW w \in Windows, NEW d \in Docs, AttachDocument(w, d)
    PROVE  IInv'
<1> USE DEF IInv, PairInv, Pairs, tabVars, wireVars, Files
<1>1. /\ <<w, d>> \in hooked /\ bridges' = bridges \cup {<<w, d>>}
      /\ UNCHANGED <<tab, hooked, parted>> /\ UriOf[d] \in Uris
  BY DEF AttachDocument
<1>2. CASE UNCHANGED <<told, announced>>
  BY <1>1, <1>2 DEF ClosedIsForgotten, KnownToItsServer
<1>3. CASE /\ told' = Remembered(told) \cup {UriOf[d]}
           /\ announced' = Remembered(announced) \cup {<<w, d>>}
  <2>1. \/ told' = told \cup {UriOf[d]} /\ announced' = announced \cup {<<w, d>>}
        \/ told' = {UriOf[d]} /\ announced' = {<<w, d>>}
    BY <1>3 DEF Remembered
  <2>2. PairInv'
    BY <1>1, <2>1
  <2>3. ClosedIsForgotten'
    BY <1>1, <2>1 DEF ClosedIsForgotten
  <2>4. KnownToItsServer'
    BY <1>1, <2>1 DEF KnownToItsServer
  <2>5. QED
    BY <2>2, <2>3, <2>4
<1>4. QED
  BY <1>2, <1>3 DEF AttachDocument

\* Dropping bridges forgets their files, and no other file unless one of its
\* bridges is kept while another goes.
LEMMA DropStep ==
    ASSUME IInv, NEW B \in SUBSET Pairs, DropBridges(B)
    PROVE  /\ bridges' \in SUBSET Pairs /\ told' \in SUBSET Uris
           /\ announced' \in SUBSET bridges' /\ parted' \in SUBSET Uris
           /\ ClosedIsForgotten' /\ KnownToItsServer'
<1> USE DEF IInv, PairInv
<1>1. /\ bridges' = bridges \ B /\ announced' = announced \ B
      /\ told' = told \ Files(bridges \cap B)
      /\ parted' = (parted \cup Files(bridges \cap B)) \cap Files(bridges \ B)
  BY DEF DropBridges, Drop
<1>2. Files(bridges) = Files(bridges \cap B) \cup Files(bridges \ B)
  BY DEF Files
<1>3. Files(bridges \cap B) \in SUBSET Uris /\ Files(bridges \ B) \in SUBSET Uris
  BY FilesAreUris
<1>4. /\ bridges' \in SUBSET Pairs /\ told' \in SUBSET Uris
      /\ announced' \in SUBSET bridges' /\ parted' \in SUBSET Uris
  BY <1>1, <1>3
<1>5. ClosedIsForgotten'
  <2>1. told \subseteq Files(bridges)
    BY DEF ClosedIsForgotten
  <2>2. told' \subseteq Files(bridges \ B)
    BY <1>1, <1>2, <2>1
  <2>3. QED
    BY <1>1, <2>2 DEF ClosedIsForgotten, Files
<1>6. ASSUME NEW b \in announced', UriOf[b[2]] \notin parted'
      PROVE  UriOf[b[2]] \in told'
  <2>1. b \in announced /\ b \in bridges \ B
    BY <1>1
  <2>2. UriOf[b[2]] \in Files(bridges \ B)
    BY <2>1 DEF Files
  <2>3. UriOf[b[2]] \notin parted /\ UriOf[b[2]] \notin Files(bridges \cap B)
    BY <1>1, <1>6, <2>2
  <2>4. UriOf[b[2]] \in told
    BY <2>1, <2>3 DEF KnownToItsServer
  <2>5. QED
    BY <1>1, <2>3, <2>4
<1>7. KnownToItsServer'
  BY <1>6 DEF KnownToItsServer
<1>8. QED
  BY <1>4, <1>5, <1>7

\* Every step keeps the invariant.
LEMMA EveryStep ==
    ASSUME IInv, [Next]_vars
    PROVE  IInv'
<1> USE DEF IInv, PairInv, pairVars, wireVars, tabVars
<1>1. ASSUME UNCHANGED <<tab, hooked, bridges, told, announced, parted>>
      PROVE  IInv'
  BY <1>1 DEF ClosedIsForgotten, KnownToItsServer, Files
<1>2. ASSUME NEW w \in Windows, Activate(w) PROVE IInv'
  BY <1>1, <1>2 DEF Activate
<1>3. ASSUME NEW w \in Windows, Deactivate(w) PROVE IInv'
  <2>1. DropBridges({w} \X Docs) /\ UNCHANGED tab
        /\ hooked' = hooked \ ({w} \X Docs) /\ {w} \X Docs \in SUBSET Pairs
    BY <1>3 DEF Deactivate, Pairs
  <2>2. QED
    BY <2>1, DropStep
<1>4. ASSUME NEW w \in Windows, NEW d \in Docs, OpenTab(w, d) PROVE IInv'
  <2>1. /\ tab' = [tab EXCEPT ![d] = w]
        /\ hooked' \subseteq hooked \cup {<<w, d>>} /\ <<w, d>> \in Pairs
        /\ UNCHANGED <<bridges, told, announced, parted>>
    BY <1>4 DEF OpenTab, TabAdded, Pairs
  <2>2. PairInv'
    BY <2>1
  <2>3. QED
    BY <2>1, <2>2 DEF ClosedIsForgotten, KnownToItsServer, Files
<1>5. ASSUME NEW w \in Windows, NEW d \in Docs, CloseTab(w, d) PROVE IInv'
  <2>1. /\ DropBridges({<<w, d>>})
        /\ tab' = [tab EXCEPT ![d] = NoWindow]
        /\ hooked' = hooked \ (Windows \X {d}) /\ {<<w, d>>} \in SUBSET Pairs
    BY <1>5 DEF CloseTab, TabRemoved, Pairs
  <2>2. tab' \in [Docs -> Windows \cup {NoWindow}] /\ hooked' \in SUBSET Pairs
    BY <2>1
  <2>3. QED
    BY <2>1, <2>2, DropStep
<1>6. ASSUME NEW w \in Windows, NEW v \in Windows, NEW d \in Docs, MoveTab(w, v, d)
      PROVE  IInv'
  <2>1. /\ DropBridges({<<w, d>>}) /\ tab' = [tab EXCEPT ![d] = v]
        /\ hooked' \subseteq hooked \cup {<<v, d>>}
        /\ {<<w, d>>} \in SUBSET Pairs /\ <<v, d>> \in Pairs
    BY <1>6 DEF MoveTab, TabRemoved, TabAdded, Pairs
  <2>2. tab' \in [Docs -> Windows \cup {NoWindow}] /\ hooked' \in SUBSET Pairs
    BY <2>1
  <2>3. QED
    BY <2>1, <2>2, DropStep
<1>7. ASSUME NEW w \in Windows, NEW d \in Docs, AttachDocument(w, d) PROVE IInv'
  BY <1>7, AttachStep
<1>8. ASSUME NEW d \in Docs, RestartClicked(d) \/ BarDismissed(d) PROVE IInv'
  BY <1>1, <1>8 DEF RestartClicked, BarDismissed
<1>9. ASSUME NEW d \in Docs, RestartAttaches(d) PROVE IInv'
  <2>1. /\ told' = Remembered(told) /\ announced' = Remembered(announced)
        /\ UNCHANGED <<tab, hooked, bridges, parted>>
    BY <1>9 DEF RestartAttaches
  <2>2. CASE transport' = transport
    BY <1>1, <2>1, <2>2 DEF Remembered
  <2>3. CASE transport' # transport
    BY <2>1, <2>3 DEF Remembered, ClosedIsForgotten, KnownToItsServer
  <2>4. QED
    BY <2>2, <2>3
<1>10. ASSUME NEW p \in Server!Procs, ServerEvent(p) PROVE IInv'
  BY <1>1, <1>10 DEF ServerEvent
<1>11. CASE UNCHANGED vars
  BY <1>1, <1>11 DEF vars
<1>12. QED
  BY <1>2, <1>3, <1>4, <1>5, <1>6, <1>7, <1>8, <1>9, <1>10, <1>11 DEF Next

----------------------------------------------------------------------------
\* The invariant holds of every behaviour.
THEOREM InductiveInvariant == Spec => []IInv
BY InitEstablishes, EveryStep, PTL DEF Spec

\* A file nobody keeps a bridge for is not open for the present subprocess.
THEOREM ClosedIsAlwaysForgotten == Spec => []ClosedIsForgotten
<1>1. IInv => ClosedIsForgotten
  BY DEF IInv
<1>2. QED
  BY <1>1, InductiveInvariant, PTL

\* A bridge whose didOpen the present subprocess has read is that of a file it has
\* open, in however many windows the file is shown, unless another bridge of the
\* file was dropped meanwhile.
THEOREM ServerKnowsItsDocuments == Spec => []KnownToItsServer
<1>1. IInv => KnownToItsServer
  BY DEF IInv
<1>2. QED
  BY <1>1, InductiveInvariant, PTL
----------------------------------------------------------------------------
(***************************************************************************)
(* The supervisor in a session is a LanguageServer: what is proved of that *)
(* module holds here.                                                      *)
(***************************************************************************)
ServerProofs == INSTANCE LanguageServerProofs

\* The plugins do nothing to the supervisor but what its interface offers.
LEMMA ServerStep == [Next]_vars => [Server!Next]_serverVars
<1> SUFFICES ASSUME [Next]_vars PROVE [Server!Next]_serverVars
  OBVIOUS
<1> USE DEF Server!Next
<1>1. ASSUME NEW w \in Windows, Activate(w) \/ Deactivate(w) PROVE UNCHANGED serverVars
  BY <1>1 DEF Activate, Deactivate
<1>2. ASSUME NEW w \in Windows, NEW d \in Docs, OpenTab(w, d) \/ CloseTab(w, d)
      PROVE  UNCHANGED serverVars
  BY <1>2 DEF OpenTab, CloseTab
<1>3. ASSUME NEW w \in Windows, NEW v \in Windows, NEW d \in Docs, MoveTab(w, v, d)
      PROVE  UNCHANGED serverVars
  BY <1>3 DEF MoveTab
<1>4. ASSUME NEW w \in Windows, NEW d \in Docs, AttachDocument(w, d) PROVE Server!Next
  BY <1>4 DEF AttachDocument
<1>5. ASSUME NEW d \in Docs, RestartClicked(d) PROVE Server!Next
  BY <1>5 DEF RestartClicked
<1>6. ASSUME NEW d \in Docs, BarDismissed(d) PROVE UNCHANGED serverVars
  BY <1>6 DEF BarDismissed
<1>7. ASSUME NEW d \in Docs, RestartAttaches(d) PROVE Server!Next
  BY <1>7 DEF RestartAttaches
<1>8. ASSUME NEW p \in Server!Procs, ServerEvent(p) PROVE Server!Next
  BY <1>8 DEF ServerEvent
<1>9. CASE UNCHANGED vars
  BY <1>9 DEF vars
<1>10. QED
  BY <1>1, <1>2, <1>3, <1>4, <1>5, <1>6, <1>7, <1>8, <1>9 DEF Next

\* An instance has its own copies of the definitions.
LEMMA SameServer ==
    /\ Server!Init => ServerProofs!Init
    /\ [Server!Next]_serverVars => [ServerProofs!Next]_ServerProofs!vars
    /\ ServerProofs!TypeOK => Server!TypeOK
<1>1. Server!Init => ServerProofs!Init
  BY DEF Server!Init, Server!Procs, ServerProofs!Init, ServerProofs!Procs
<1>2. [Server!Next]_serverVars => [ServerProofs!Next]_ServerProofs!vars
  BY
     DEF serverVars, Server!AttachBuffer, Server!DetachBuffer, Server!KillNow,
         Server!AttachRefused, Server!AttachJoins, Server!AttachWakes,
         Server!AttachTrips, Server!AttachSpawns, Server!SpawnAndInitialize,
         Server!CancelIdleTimer, Server!DetachLast, Server!DetachOther,
         Server!IdleTimerFires, Server!BeginShutdown, Server!KillTransport,
         Server!KillNowReady, Server!KillNowUnready,
         Server!ResetCircuitBreaker, Server!ReplyReadable,
         Server!InitializeSucceeds, Server!InitializeFails,
         Server!ProcessExits, Server!SubprocessExit, Server!Procs,
         Server!handshakeVars, Server!timerVars, Server!processVars,
         Server!countVars, Server!vars, Server!Next, ServerProofs!AttachBuffer,
         ServerProofs!DetachBuffer, ServerProofs!KillNow,
         ServerProofs!AttachRefused, ServerProofs!AttachJoins,
         ServerProofs!AttachWakes, ServerProofs!AttachTrips,
         ServerProofs!AttachSpawns, ServerProofs!SpawnAndInitialize,
         ServerProofs!CancelIdleTimer, ServerProofs!DetachLast,
         ServerProofs!DetachOther, ServerProofs!IdleTimerFires,
         ServerProofs!BeginShutdown, ServerProofs!KillTransport,
         ServerProofs!KillNowReady, ServerProofs!KillNowUnready,
         ServerProofs!ResetCircuitBreaker, ServerProofs!ReplyReadable,
         ServerProofs!InitializeSucceeds, ServerProofs!InitializeFails,
         ServerProofs!ProcessExits, ServerProofs!SubprocessExit,
         ServerProofs!Procs, ServerProofs!handshakeVars,
         ServerProofs!timerVars, ServerProofs!processVars,
         ServerProofs!countVars, ServerProofs!vars, ServerProofs!Next
<1>3. ServerProofs!TypeOK => Server!TypeOK
  BY DEF ServerProofs!TypeOK, ServerProofs!ServerState, ServerProofs!ProcStatus,
         ServerProofs!Procs, Server!TypeOK, Server!ServerState, Server!ProcStatus,
         Server!Procs
<1>4. QED
  BY <1>1, <1>2, <1>3

\* All that is proved of the supervisor alone by its inductive invariant holds
\* of it in a session.
THEOREM SupervisorInvariant == Spec => []ServerProofs!IInv
<1>1. Init => ServerProofs!Init
  BY SameServer DEF Init
<1>2. [Next]_vars => [ServerProofs!Next]_ServerProofs!vars
  BY ServerStep, SameServer
<1>3. /\ MaxRestartAttempts \in Nat \ {0}
      /\ MaxSpawns \in Nat \ {0}
      /\ NoTimer \notin Timers
      /\ Faults \subseteq ServerProofs!FaultKinds
  BY ServerAssumption DEF Server!FaultKinds, ServerProofs!FaultKinds
<1>4. Init => ServerProofs!IInv
  BY <1>1, <1>3, ServerProofs!InitEstablishes
<1>5. ServerProofs!IInv /\ [Next]_vars => ServerProofs!IInv'
  BY <1>2, <1>3, ServerProofs!EveryStep
<1>6. QED
  BY <1>4, <1>5, PTL DEF Spec

----------------------------------------------------------------------------
(***************************************************************************)
(* The rest of the plugins' state.                                         *)
(***************************************************************************)
\* Every bridge has a listener, and every listener a bridge.
LinkInv ==
    /\ active \in SUBSET Windows
    /\ \A b \in hooked : b[1] \in active
    /\ listeners = bridges
    /\ bars \in SUBSET Docs
    /\ restarting \in SUBSET Docs

\* The bars are those of tabs.
LEMMA ShowBarsType ==
    ASSUME PairInv, LinkInv, ShowBars
    PROVE  bars' \in SUBSET Docs
BY DEF LinkInv, ShowBars, Found

\* Every step keeps it.
LEMMA LinkStep ==
    ASSUME PairInv, LinkInv, [Next]_vars
    PROVE  LinkInv'
<1> USE DEF LinkInv, pairVars, tabVars
<1>1. ASSUME NEW w \in Windows, Activate(w) PROVE LinkInv'
  BY <1>1 DEF Activate
<1>2. ASSUME NEW w \in Windows, Deactivate(w) PROVE LinkInv'
  BY <1>2 DEF Deactivate, DropBridges, Drop, PairInv, Pairs
<1>3. ASSUME NEW w \in Windows, NEW d \in Docs, OpenTab(w, d) PROVE LinkInv'
  BY <1>3 DEF OpenTab, TabAdded
<1>4. ASSUME NEW w \in Windows, NEW d \in Docs, CloseTab(w, d) PROVE LinkInv'
  BY <1>4 DEF CloseTab, TabRemoved, DropBridges, Drop
<1>5. ASSUME NEW w \in Windows, NEW v \in Windows, NEW d \in Docs, MoveTab(w, v, d)
      PROVE  LinkInv'
  BY <1>5 DEF MoveTab, TabRemoved, TabAdded, DropBridges, Drop
<1>6. ASSUME NEW w \in Windows, NEW d \in Docs, AttachDocument(w, d) PROVE LinkInv'
  BY <1>6, ShowBarsType DEF AttachDocument
<1>7. ASSUME NEW d \in Docs, RestartClicked(d) PROVE LinkInv'
  BY <1>7 DEF RestartClicked
<1>8. ASSUME NEW d \in Docs, BarDismissed(d) PROVE LinkInv'
  BY <1>8 DEF BarDismissed
<1>9. ASSUME NEW d \in Docs, RestartAttaches(d) PROVE LinkInv'
  BY <1>9, ShowBarsType DEF RestartAttaches
<1>10. ASSUME NEW p \in Server!Procs, ServerEvent(p) PROVE LinkInv'
  BY <1>10 DEF ServerEvent
<1>11. CASE UNCHANGED vars
  BY <1>11 DEF vars
<1>12. QED
  BY <1>1, <1>2, <1>3, <1>4, <1>5, <1>6, <1>7, <1>8, <1>9, <1>10, <1>11 DEF Next

\* It holds of every behaviour.
THEOREM LinkInvariant == Spec => []LinkInv
<1>1. Init => LinkInv
  BY DEF Init, LinkInv
<1>2. IInv /\ LinkInv /\ [Next]_vars => LinkInv'
  BY LinkStep DEF IInv
<1>3. QED
  BY <1>1, <1>2, InductiveInvariant, PTL DEF Spec

\* The state of a session is well formed: the supervisor's is, no listener or
\* announcement is left of a bridge that is gone, and only an active plugin has
\* connected signals.
THEOREM TypeCorrect == Spec => []TypeOK
<1>1. ServerProofs!IInv => Server!TypeOK
  BY SameServer DEF ServerProofs!IInv
<1>2. Server!TypeOK /\ IInv /\ LinkInv => TypeOK
  BY DEF IInv, PairInv, LinkInv, TypeOK
<1>3. QED
  BY <1>1, <1>2, SupervisorInvariant, InductiveInvariant, LinkInvariant, PTL

----------------------------------------------------------------------------
\* A session opens the circuit only where it shows the bars.
LEMMA TripsShowBars ==
    ASSUME [Next]_vars, state # "CIRCUIT_OPEN", state' = "CIRCUIT_OPEN"
    PROVE  ShowBars
<1>1. ASSUME NEW w \in Windows, Activate(w) \/ Deactivate(w) PROVE FALSE
  BY <1>1 DEF Activate, Deactivate, serverVars
<1>2. ASSUME NEW w \in Windows, NEW d \in Docs, OpenTab(w, d) \/ CloseTab(w, d)
      PROVE  FALSE
  BY <1>2 DEF OpenTab, CloseTab, serverVars
<1>3. ASSUME NEW w \in Windows, NEW v \in Windows, NEW d \in Docs, MoveTab(w, v, d)
      PROVE  FALSE
  BY <1>3 DEF MoveTab, serverVars
<1>4. ASSUME NEW d \in Docs, RestartClicked(d) PROVE FALSE
  BY <1>4 DEF RestartClicked, Server!ResetCircuitBreaker
<1>5. ASSUME NEW d \in Docs, BarDismissed(d) PROVE FALSE
  BY <1>5 DEF BarDismissed, serverVars
<1>6. ASSUME NEW p \in Server!Procs, ServerEvent(p) PROVE FALSE
  BY <1>6 DEF ServerEvent, Server!InitializeSucceeds, Server!InitializeFails,
     Server!ProcessExits, Server!SubprocessExit
<1>7. CASE UNCHANGED vars
  BY <1>7 DEF vars, serverVars
<1>8. ASSUME NEW w \in Windows, NEW d \in Docs, AttachDocument(w, d) PROVE ShowBars
  BY <1>8 DEF AttachDocument
<1>9. ASSUME NEW d \in Docs, RestartAttaches(d) PROVE ShowBars
  BY <1>9 DEF RestartAttaches
<1>10. QED
  BY <1>1, <1>2, <1>3, <1>4, <1>5, <1>6, <1>7, <1>8, <1>9 DEF Next

\* An info bar comes up, in every window in which a document was attached before,
\* for its file, whichever window the attach failed in that opened the circuit: a
\* listener is left out by none of the ways a bridge comes and goes.
THEOREM TripAlwaysReachesAttached == Spec => TripReachesAttached
<1>1. PairInv /\ LinkInv /\ [Next]_vars =>
        [state # "CIRCUIT_OPEN" /\ state' = "CIRCUIT_OPEN" =>
            \A b \in bridges : tab[b[2]] = b[1] =>
                \E d \in bars' : tab[d] = b[1] /\ UriOf[d] = UriOf[b[2]]]_vars
  <2> SUFFICES ASSUME PairInv, LinkInv, [Next]_vars,
                      state # "CIRCUIT_OPEN", state' = "CIRCUIT_OPEN",
                      NEW b \in bridges, tab[b[2]] = b[1]
               PROVE  \E d \in bars' : tab[d] = b[1] /\ UriOf[d] = UriOf[b[2]]
    OBVIOUS
  <2>1. b[2] \in Docs /\ b \in listeners
    BY DEF PairInv, LinkInv, Pairs
  <2>2. b[2] \in Found
    BY <2>1 DEF Found
  <2>3. PICK shown \in SUBSET Found :
           /\ \A d \in Found : \E e \in shown : tab[e] = tab[d] /\ UriOf[e] = UriOf[d]
           /\ bars' = bars \cup shown
    BY TripsShowBars DEF ShowBars
  <2>4. PICK e \in shown : tab[e] = tab[b[2]] /\ UriOf[e] = UriOf[b[2]]
    BY <2>2, <2>3
  <2>5. QED
    BY <2>3, <2>4
<1>2. IInv => PairInv
  BY DEF IInv
<1>3. QED
  BY <1>1, <1>2, InductiveInvariant, LinkInvariant, PTL DEF Spec, TripReachesAttached
=============================================================================
