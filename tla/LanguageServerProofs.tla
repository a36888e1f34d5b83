------------------------ MODULE LanguageServerProofs ------------------------
(***************************************************************************)
(* What holds of LanguageServer for every number of documents, timeout     *)
(* sources and subprocesses, every restartMaxAttempts and every choice of  *)
(* faults; and, without faults, that it implements ServerLifecycle.  The   *)
(* properties follow from one inductive invariant, whose parts are named   *)
(* after what they are about; each part has a lemma that every step        *)
(* preserves it.                                                           *)
(***************************************************************************)
EXTENDS LanguageServer, TLAPS

USE MaxRestartAttemptsAssumption, MaxSpawnsAssumption, NoTimerAssumption

----------------------------------------------------------------------------
(***************************************************************************)
(* The inductive invariant.                                                *)
(***************************************************************************)

\* The remembered timer can still be cancelled, so a supervisor that becomes
\* IDLE keeps the timer it arms until that timer fires or is cancelled.
TimerInv ==
    /\ idleSource # NoTimer => idleSource \in armed
    /\ IdleIsTimed

\* READY and IDLE are reached only through the handler that sends
\* `initialized` to the current transport.
HandshakeInv ==
    /\ state \in {"READY", "IDLE"} => transport \in initialized
    /\ ShutdownAfterHandshake

\* Every attempt but the one that is under way has been counted as failed.
BudgetInv ==
    /\ BreakerBudget
    /\ attempts <= failedStarts + (IF state = "STARTING" THEN 1 ELSE 0)
    /\ state = "STARTING" => attempts >= 1

\* No failure is missed by the code's own count, which also counts the ends
\* that the supervisor has asked for.
CountInv == failures <= failedStarts

\* A supervisor that is STARTING has a transport, and the spawn of that
\* transport is the last thing that happened to its process but its end.
StartingInv ==
    /\ StartingHasProcess
    /\ state = "STARTING" => transport \in Procs

IInv ==
    /\ TypeOK
    /\ TimerInv
    /\ HandshakeInv
    /\ BudgetInv
    /\ CountInv
    /\ BreakerIsJustified
    /\ StartingInv

----------------------------------------------------------------------------
\* A subprocess whose answer can be read was spawned, so there is a transport.
LEMMA ReplyNeedsTransport ==
    ASSUME TypeOK, NEW p \in Procs, ReplyReadable(p)
    PROVE  transport \in Procs
<1>1. proc[p] # "none"
  BY DEF TypeOK, ReplyReadable
<1>2. p <= transport
  BY <1>1 DEF TypeOK, Procs
<1>3. QED
  BY <1>2 DEF TypeOK, Procs

\* Killing the transport's process changes no process to or from `none`.
LEMMA KillTransportType ==
    ASSUME TypeOK, KillTransport
    PROVE  /\ proc' \in [Procs -> ProcStatus]
           /\ \A p \in Procs :
                 /\ proc'[p] = "none" <=> proc[p] = "none"
                 /\ proc'[p] = "absent" <=> proc[p] = "absent"
BY DEF TypeOK, KillTransport, ProcStatus, Procs

\* The initial state satisfies the invariant.
LEMMA InitEstablishes == Init => IInv
<1> SUFFICES ASSUME Init PROVE IInv
  OBVIOUS
<1>1. TypeOK
  BY DEF Init, TypeOK, ServerState, ProcStatus, Procs
<1>2. TimerInv
  BY DEF Init, TimerInv, IdleIsTimed
<1>3. HandshakeInv
  BY DEF Init, HandshakeInv, ShutdownAfterHandshake
<1>4. BudgetInv
  BY DEF Init, BudgetInv, BreakerBudget
<1>5. CountInv /\ BreakerIsJustified
  BY DEF Init, CountInv, BreakerIsJustified
<1>6. StartingInv
  BY DEF Init, StartingInv, StartingHasProcess
<1>7. QED
  BY <1>1, <1>2, <1>3, <1>4, <1>5, <1>6 DEF IInv

----------------------------------------------------------------------------
\* Every step keeps the types.
LEMMA TypeStep ==
    ASSUME TypeOK, HandshakeInv, BudgetInv, [Next]_vars
    PROVE  TypeOK'
<1> USE DEF handshakeVars, timerVars, processVars, countVars
<1>1. ASSUME NEW u \in Uris, AttachRefused(u) PROVE TypeOK'
  BY <1>1 DEF AttachRefused, vars, TypeOK
<1>2. ASSUME NEW u \in Uris, AttachJoins(u) PROVE TypeOK'
  BY <1>2 DEF AttachJoins, TypeOK
<1>3. ASSUME NEW u \in Uris, AttachWakes(u) PROVE TypeOK'
  BY <1>3 DEF AttachWakes, CancelIdleTimer, TypeOK, ServerState
<1>4. ASSUME NEW u \in Uris, AttachTrips(u) PROVE TypeOK'
  BY <1>4 DEF AttachTrips, TypeOK, ServerState
<1>5. ASSUME NEW u \in Uris, AttachSpawns(u) PROVE TypeOK'
  <2> DEFINE p == transport + 1
  <2>1. p \in Procs
    BY <1>5 DEF AttachSpawns, SpawnAndInitialize, TypeOK, Procs
  <2>2. /\ proc' \in [Procs -> ProcStatus]
        /\ reply' \in [Procs -> {"none", "awaited", "ok", "error"}]
    BY <1>5, <2>1 DEF AttachSpawns, SpawnAndInitialize, TypeOK, ProcStatus
  <2>3. \A q \in Procs :
           /\ proc'[q] = "none" <=> q > transport'
           /\ reply'[q] = "none" <=> proc'[q] \in {"none", "absent"}
    <3> SUFFICES ASSUME NEW q \in Procs
                 PROVE  /\ proc'[q] = "none" <=> q > transport'
                        /\ reply'[q] = "none" <=> proc'[q] \in {"none", "absent"}
      OBVIOUS
    <3>1. transport' = p /\ transport \in Nat /\ q \in Nat
      BY <1>5 DEF AttachSpawns, SpawnAndInitialize, TypeOK, Procs
    <3>2. CASE q = p
      BY <1>5, <2>1, <3>1, <3>2 DEF AttachSpawns, SpawnAndInitialize, TypeOK
    <3>3. CASE q # p
      BY <1>5, <2>1, <3>1, <3>3 DEF AttachSpawns, SpawnAndInitialize, TypeOK
    <3>4. QED
      BY <3>2, <3>3
  <2>4. QED
    BY <1>5, <2>1, <2>2, <2>3
       DEF AttachSpawns, SpawnAndInitialize, TypeOK, ServerState, Procs
<1>6. ASSUME NEW u \in Uris, DetachLast(u) PROVE TypeOK'
  BY <1>6 DEF DetachLast, TypeOK, ServerState
<1>7. ASSUME NEW u \in Uris, DetachOther(u) PROVE TypeOK'
  BY <1>7 DEF DetachOther, TypeOK
<1>8. ASSUME NEW t \in Timers, IdleTimerFires(t) PROVE TypeOK'
  <2>1. CASE state = "IDLE"
    <3>1. KillTransport /\ transport \in Procs
      BY <1>8, <2>1 DEF IdleTimerFires, BeginShutdown, HandshakeInv, TypeOK
    <3>2. QED
      BY <1>8, <2>1, <3>1, KillTransportType
         DEF IdleTimerFires, BeginShutdown, TypeOK, ServerState
  <2>2. CASE state # "IDLE"
    BY <1>8, <2>2 DEF IdleTimerFires, TypeOK
  <2>3. QED
    BY <2>1, <2>2
<1>9. ASSUME KillNowReady PROVE TypeOK'
  <2>1. KillTransport /\ transport \in Procs
    BY <1>9 DEF KillNowReady, BeginShutdown, HandshakeInv, TypeOK
  <2>2. QED
    BY <1>9, <2>1, KillTransportType
       DEF KillNowReady, CancelIdleTimer, BeginShutdown, TypeOK, ServerState
<1>10. ASSUME KillNowUnready PROVE TypeOK'
  <2>1. KillTransport
    BY <1>10 DEF KillNowUnready
  <2>2. attempts' \in Nat
    BY <1>10 DEF KillNowUnready, BudgetInv, TypeOK
  <2>3. QED
    BY <1>10, <2>1, <2>2, KillTransportType
       DEF KillNowUnready, TypeOK, ServerState
<1>11. ASSUME ResetCircuitBreaker PROVE TypeOK'
  BY <1>11 DEF ResetCircuitBreaker, TypeOK, ServerState
<1>12. ASSUME NEW p \in Procs, InitializeSucceeds(p) PROVE TypeOK'
  <2>1. transport \in Procs
    BY <1>12, ReplyNeedsTransport DEF InitializeSucceeds
  <2>2. reply[p] = "awaited"
    BY <1>12 DEF InitializeSucceeds, ReplyReadable
  <2>3. QED
    BY <1>12, <2>1, <2>2 DEF InitializeSucceeds, TypeOK, ServerState, Procs
<1>13. ASSUME NEW p \in Procs, InitializeFails(p) PROVE TypeOK'
  BY <1>13 DEF InitializeFails, ReplyReadable, TypeOK, ServerState
<1>14. ASSUME NEW p \in Procs, ProcessExits(p) PROVE TypeOK'
  BY <1>14 DEF ProcessExits, TypeOK, ProcStatus
<1>15. ASSUME NEW p \in Procs, SubprocessExit(p) PROVE TypeOK'
  BY <1>15 DEF SubprocessExit, TypeOK, ProcStatus, ServerState
<1>16. CASE UNCHANGED vars
  BY <1>16 DEF vars, TypeOK
<1>17. QED
  BY <1>1, <1>2, <1>3, <1>4, <1>5, <1>6, <1>7, <1>8, <1>9, <1>10, <1>11,
     <1>12, <1>13, <1>14, <1>15, <1>16
     DEF Next, AttachBuffer, DetachBuffer, KillNow

\* Every step keeps the timer of an idle supervisor armed.
LEMMA TimerStep ==
    ASSUME TypeOK, TimerInv, [Next]_vars
    PROVE  TimerInv'
<1> USE DEF TimerInv, IdleIsTimed, handshakeVars, timerVars, processVars, countVars
<1>1. ASSUME NEW u \in Uris, AttachRefused(u) PROVE TimerInv'
  BY <1>1 DEF AttachRefused, vars
<1>2. ASSUME NEW u \in Uris, AttachJoins(u) PROVE TimerInv'
  BY <1>2 DEF AttachJoins
<1>3. ASSUME NEW u \in Uris, AttachWakes(u) PROVE TimerInv'
  BY <1>3 DEF AttachWakes, CancelIdleTimer
<1>4. ASSUME NEW u \in Uris, AttachTrips(u) PROVE TimerInv'
  BY <1>4 DEF AttachTrips
<1>5. ASSUME NEW u \in Uris, AttachSpawns(u) PROVE TimerInv'
  BY <1>5 DEF AttachSpawns, SpawnAndInitialize
<1>6. ASSUME NEW u \in Uris, DetachLast(u) PROVE TimerInv'
  BY <1>6 DEF DetachLast
<1>7. ASSUME NEW u \in Uris, DetachOther(u) PROVE TimerInv'
  BY <1>7 DEF DetachOther
<1>8. ASSUME NEW t \in Timers, IdleTimerFires(t) PROVE TimerInv'
  BY <1>8 DEF IdleTimerFires, BeginShutdown
<1>9. ASSUME KillNowReady PROVE TimerInv'
  BY <1>9 DEF KillNowReady, CancelIdleTimer, BeginShutdown
<1>10. ASSUME KillNowUnready PROVE TimerInv'
  BY <1>10 DEF KillNowUnready
<1>11. ASSUME ResetCircuitBreaker PROVE TimerInv'
  BY <1>11 DEF ResetCircuitBreaker
<1>12. ASSUME NEW p \in Procs, InitializeSucceeds(p) PROVE TimerInv'
  BY <1>12 DEF InitializeSucceeds
<1>13. ASSUME NEW p \in Procs, InitializeFails(p) PROVE TimerInv'
  BY <1>13 DEF InitializeFails
<1>14. ASSUME NEW p \in Procs, ProcessExits(p) PROVE TimerInv'
  BY <1>14 DEF ProcessExits
<1>15. ASSUME NEW p \in Procs, SubprocessExit(p) PROVE TimerInv'
  BY <1>15 DEF SubprocessExit
<1>16. CASE UNCHANGED vars
  BY <1>16 DEF vars
<1>17. QED
  BY <1>1, <1>2, <1>3, <1>4, <1>5, <1>6, <1>7, <1>8, <1>9, <1>10, <1>11,
     <1>12, <1>13, <1>14, <1>15, <1>16
     DEF Next, AttachBuffer, DetachBuffer, KillNow

\* Every step keeps the transport of a serving supervisor initialized.
LEMMA HandshakeStep ==
    ASSUME TypeOK, HandshakeInv, [Next]_vars
    PROVE  HandshakeInv'
<1> USE DEF HandshakeInv, ShutdownAfterHandshake, handshakeVars,
            timerVars, processVars, countVars
<1>1. ASSUME NEW u \in Uris, AttachRefused(u) PROVE HandshakeInv'
  BY <1>1 DEF AttachRefused, vars
<1>2. ASSUME NEW u \in Uris, AttachJoins(u) PROVE HandshakeInv'
  BY <1>2 DEF AttachJoins
<1>3. ASSUME NEW u \in Uris, AttachWakes(u) PROVE HandshakeInv'
  BY <1>3 DEF AttachWakes
<1>4. ASSUME NEW u \in Uris, AttachTrips(u) PROVE HandshakeInv'
  BY <1>4 DEF AttachTrips
<1>5. ASSUME NEW u \in Uris, AttachSpawns(u) PROVE HandshakeInv'
  BY <1>5 DEF AttachSpawns, SpawnAndInitialize
<1>6. ASSUME NEW u \in Uris, DetachLast(u) PROVE HandshakeInv'
  BY <1>6 DEF DetachLast
<1>7. ASSUME NEW u \in Uris, DetachOther(u) PROVE HandshakeInv'
  BY <1>7 DEF DetachOther
<1>8. ASSUME NEW t \in Timers, IdleTimerFires(t) PROVE HandshakeInv'
  BY <1>8 DEF IdleTimerFires, BeginShutdown
<1>9. ASSUME KillNowReady PROVE HandshakeInv'
  BY <1>9 DEF KillNowReady, BeginShutdown
<1>10. ASSUME KillNowUnready PROVE HandshakeInv'
  BY <1>10 DEF KillNowUnready
<1>11. ASSUME ResetCircuitBreaker PROVE HandshakeInv'
  BY <1>11 DEF ResetCircuitBreaker
<1>12. ASSUME NEW p \in Procs, InitializeSucceeds(p) PROVE HandshakeInv'
  BY <1>12 DEF InitializeSucceeds
<1>13. ASSUME NEW p \in Procs, InitializeFails(p) PROVE HandshakeInv'
  BY <1>13 DEF InitializeFails
<1>14. ASSUME NEW p \in Procs, ProcessExits(p) PROVE HandshakeInv'
  BY <1>14 DEF ProcessExits
<1>15. ASSUME NEW p \in Procs, SubprocessExit(p) PROVE HandshakeInv'
  BY <1>15 DEF SubprocessExit
<1>16. CASE UNCHANGED vars
  BY <1>16 DEF vars
<1>17. QED
  BY <1>1, <1>2, <1>3, <1>4, <1>5, <1>6, <1>7, <1>8, <1>9, <1>10, <1>11,
     <1>12, <1>13, <1>14, <1>15, <1>16
     DEF Next, AttachBuffer, DetachBuffer, KillNow

\* Every step keeps the attempts within the budget.
LEMMA BudgetStep ==
    ASSUME TypeOK, BudgetInv, [Next]_vars
    PROVE  BudgetInv'
<1> USE DEF BudgetInv, BreakerBudget, TypeOK,
            handshakeVars, timerVars, processVars, countVars
<1>1. ASSUME NEW u \in Uris, AttachRefused(u) PROVE BudgetInv'
  BY <1>1 DEF AttachRefused, vars
<1>2. ASSUME NEW u \in Uris, AttachJoins(u) PROVE BudgetInv'
  BY <1>2 DEF AttachJoins
<1>3. ASSUME NEW u \in Uris, AttachWakes(u) PROVE BudgetInv'
  BY <1>3 DEF AttachWakes
<1>4. ASSUME NEW u \in Uris, AttachTrips(u) PROVE BudgetInv'
  BY <1>4 DEF AttachTrips
<1>5. ASSUME NEW u \in Uris, AttachSpawns(u) PROVE BudgetInv'
  BY <1>5 DEF AttachSpawns, SpawnAndInitialize
<1>6. ASSUME NEW u \in Uris, DetachLast(u) PROVE BudgetInv'
  BY <1>6 DEF DetachLast
<1>7. ASSUME NEW u \in Uris, DetachOther(u) PROVE BudgetInv'
  BY <1>7 DEF DetachOther
<1>8. ASSUME NEW t \in Timers, IdleTimerFires(t) PROVE BudgetInv'
  BY <1>8 DEF IdleTimerFires, BeginShutdown
<1>9. ASSUME KillNowReady PROVE BudgetInv'
  BY <1>9 DEF KillNowReady, BeginShutdown
<1>10. ASSUME KillNowUnready PROVE BudgetInv'
  BY <1>10 DEF KillNowUnready
<1>11. ASSUME ResetCircuitBreaker PROVE BudgetInv'
  BY <1>11 DEF ResetCircuitBreaker
<1>12. ASSUME NEW p \in Procs, InitializeSucceeds(p) PROVE BudgetInv'
  BY <1>12 DEF InitializeSucceeds
<1>13. ASSUME NEW p \in Procs, InitializeFails(p) PROVE BudgetInv'
  BY <1>13 DEF InitializeFails
<1>14. ASSUME NEW p \in Procs, ProcessExits(p) PROVE BudgetInv'
  BY <1>14 DEF ProcessExits
<1>15. ASSUME NEW p \in Procs, SubprocessExit(p) PROVE BudgetInv'
  BY <1>15 DEF SubprocessExit
<1>16. CASE UNCHANGED vars
  BY <1>16 DEF vars
<1>17. QED
  BY <1>1, <1>2, <1>3, <1>4, <1>5, <1>6, <1>7, <1>8, <1>9, <1>10, <1>11,
     <1>12, <1>13, <1>14, <1>15, <1>16
     DEF Next, AttachBuffer, DetachBuffer, KillNow

\* Every step that adds a failure adds it to the code's count as well.
LEMMA CountStep ==
    ASSUME TypeOK, CountInv, [Next]_vars
    PROVE  CountInv'
<1> USE DEF CountInv, TypeOK,
            handshakeVars, timerVars, processVars, countVars
<1>1. ASSUME NEW u \in Uris, AttachRefused(u) PROVE CountInv'
  BY <1>1 DEF AttachRefused, vars
<1>2. ASSUME NEW u \in Uris, AttachJoins(u) PROVE CountInv'
  BY <1>2 DEF AttachJoins
<1>3. ASSUME NEW u \in Uris, AttachWakes(u) PROVE CountInv'
  BY <1>3 DEF AttachWakes
<1>4. ASSUME NEW u \in Uris, AttachTrips(u) PROVE CountInv'
  BY <1>4 DEF AttachTrips
<1>5. ASSUME NEW u \in Uris, AttachSpawns(u) PROVE CountInv'
  BY <1>5 DEF AttachSpawns
<1>6. ASSUME NEW u \in Uris, DetachLast(u) PROVE CountInv'
  BY <1>6 DEF DetachLast
<1>7. ASSUME NEW u \in Uris, DetachOther(u) PROVE CountInv'
  BY <1>7 DEF DetachOther
<1>8. ASSUME NEW t \in Timers, IdleTimerFires(t) PROVE CountInv'
  BY <1>8 DEF IdleTimerFires
<1>9. ASSUME KillNowReady PROVE CountInv'
  BY <1>9 DEF KillNowReady
<1>10. ASSUME KillNowUnready PROVE CountInv'
  BY <1>10 DEF KillNowUnready
<1>11. ASSUME ResetCircuitBreaker PROVE CountInv'
  BY <1>11 DEF ResetCircuitBreaker
<1>12. ASSUME NEW p \in Procs, InitializeSucceeds(p) PROVE CountInv'
  BY <1>12 DEF InitializeSucceeds
<1>13. ASSUME NEW p \in Procs, InitializeFails(p) PROVE CountInv'
  BY <1>13 DEF InitializeFails
<1>14. ASSUME NEW p \in Procs, ProcessExits(p) PROVE CountInv'
  BY <1>14 DEF ProcessExits
<1>15. ASSUME NEW p \in Procs, SubprocessExit(p) PROVE CountInv'
  BY <1>15 DEF SubprocessExit
<1>16. CASE UNCHANGED vars
  BY <1>16 DEF vars
<1>17. QED
  BY <1>1, <1>2, <1>3, <1>4, <1>5, <1>6, <1>7, <1>8, <1>9, <1>10, <1>11,
     <1>12, <1>13, <1>14, <1>15, <1>16
     DEF Next, AttachBuffer, DetachBuffer, KillNow

\* Every step that lowers the count closes the circuit.
LEMMA BreakerStep ==
    ASSUME TypeOK, BreakerIsJustified, [Next]_vars
    PROVE  BreakerIsJustified'
<1> USE DEF BreakerIsJustified, TypeOK,
            handshakeVars, timerVars, processVars, countVars
<1>1. ASSUME NEW u \in Uris, AttachRefused(u) PROVE BreakerIsJustified'
  BY <1>1 DEF AttachRefused, vars
<1>2. ASSUME NEW u \in Uris, AttachJoins(u) PROVE BreakerIsJustified'
  BY <1>2 DEF AttachJoins
<1>3. ASSUME NEW u \in Uris, AttachWakes(u) PROVE BreakerIsJustified'
  BY <1>3 DEF AttachWakes
<1>4. ASSUME NEW u \in Uris, AttachTrips(u) PROVE BreakerIsJustified'
  BY <1>4 DEF AttachTrips
<1>5. ASSUME NEW u \in Uris, AttachSpawns(u) PROVE BreakerIsJustified'
  BY <1>5 DEF AttachSpawns, SpawnAndInitialize
<1>6. ASSUME NEW u \in Uris, DetachLast(u) PROVE BreakerIsJustified'
  BY <1>6 DEF DetachLast
<1>7. ASSUME NEW u \in Uris, DetachOther(u) PROVE BreakerIsJustified'
  BY <1>7 DEF DetachOther
<1>8. ASSUME NEW t \in Timers, IdleTimerFires(t) PROVE BreakerIsJustified'
  BY <1>8 DEF IdleTimerFires, BeginShutdown
<1>9. ASSUME KillNowReady PROVE BreakerIsJustified'
  BY <1>9 DEF KillNowReady, BeginShutdown
<1>10. ASSUME KillNowUnready PROVE BreakerIsJustified'
  BY <1>10 DEF KillNowUnready
<1>11. ASSUME ResetCircuitBreaker PROVE BreakerIsJustified'
  BY <1>11 DEF ResetCircuitBreaker
<1>12. ASSUME NEW p \in Procs, InitializeSucceeds(p) PROVE BreakerIsJustified'
  BY <1>12 DEF InitializeSucceeds
<1>13. ASSUME NEW p \in Procs, InitializeFails(p) PROVE BreakerIsJustified'
  BY <1>13 DEF InitializeFails
<1>14. ASSUME NEW p \in Procs, ProcessExits(p) PROVE BreakerIsJustified'
  BY <1>14 DEF ProcessExits
<1>15. ASSUME NEW p \in Procs, SubprocessExit(p) PROVE BreakerIsJustified'
  BY <1>15 DEF SubprocessExit
<1>16. CASE UNCHANGED vars
  BY <1>16 DEF vars
<1>17. QED
  BY <1>1, <1>2, <1>3, <1>4, <1>5, <1>6, <1>7, <1>8, <1>9, <1>10, <1>11,
     <1>12, <1>13, <1>14, <1>15, <1>16
     DEF Next, AttachBuffer, DetachBuffer, KillNow

\* Only a spawn makes a supervisor STARTING, and the exit report of any process
\* ends that.
LEMMA StartingStep ==
    ASSUME TypeOK, StartingInv, [Next]_vars
    PROVE  StartingInv'
<1> USE DEF StartingInv, StartingHasProcess, Unreported, TypeOK,
            handshakeVars, timerVars, processVars, countVars
<1>1. ASSUME NEW u \in Uris, AttachRefused(u) PROVE StartingInv'
  BY <1>1 DEF AttachRefused, vars
<1>2. ASSUME NEW u \in Uris, AttachJoins(u) PROVE StartingInv'
  BY <1>2 DEF AttachJoins
<1>3. ASSUME NEW u \in Uris, AttachWakes(u) PROVE StartingInv'
  BY <1>3 DEF AttachWakes
<1>4. ASSUME NEW u \in Uris, AttachTrips(u) PROVE StartingInv'
  BY <1>4 DEF AttachTrips
<1>5. ASSUME NEW u \in Uris, AttachSpawns(u) PROVE StartingInv'
  BY <1>5 DEF AttachSpawns, SpawnAndInitialize, Procs
<1>6. ASSUME NEW u \in Uris, DetachLast(u) PROVE StartingInv'
  BY <1>6 DEF DetachLast
<1>7. ASSUME NEW u \in Uris, DetachOther(u) PROVE StartingInv'
  BY <1>7 DEF DetachOther
<1>8. ASSUME NEW t \in Timers, IdleTimerFires(t) PROVE StartingInv'
  BY <1>8 DEF IdleTimerFires, BeginShutdown, KillTransport
<1>9. ASSUME KillNowReady PROVE StartingInv'
  BY <1>9 DEF KillNowReady, BeginShutdown
<1>10. ASSUME KillNowUnready PROVE StartingInv'
  BY <1>10 DEF KillNowUnready
<1>11. ASSUME ResetCircuitBreaker PROVE StartingInv'
  BY <1>11 DEF ResetCircuitBreaker
<1>12. ASSUME NEW p \in Procs, InitializeSucceeds(p) PROVE StartingInv'
  BY <1>12 DEF InitializeSucceeds
<1>13. ASSUME NEW p \in Procs, InitializeFails(p) PROVE StartingInv'
  BY <1>13 DEF InitializeFails
<1>14. ASSUME NEW p \in Procs, ProcessExits(p) PROVE StartingInv'
  BY <1>14 DEF ProcessExits
<1>15. ASSUME NEW p \in Procs, SubprocessExit(p) PROVE StartingInv'
  BY <1>15 DEF SubprocessExit
<1>16. CASE UNCHANGED vars
  BY <1>16 DEF vars
<1>17. QED
  BY <1>1, <1>2, <1>3, <1>4, <1>5, <1>6, <1>7, <1>8, <1>9, <1>10, <1>11,
     <1>12, <1>13, <1>14, <1>15, <1>16
     DEF Next, AttachBuffer, DetachBuffer, KillNow

----------------------------------------------------------------------------
\* Every step keeps all of the invariant,
LEMMA EveryStep == IInv /\ [Next]_vars => IInv'
BY TypeStep, TimerStep, HandshakeStep, BudgetStep, CountStep, BreakerStep,
   StartingStep DEF IInv

\* which holds of every behaviour.
THEOREM InductiveInvariant == Spec => []IInv
BY InitEstablishes, EveryStep, PTL DEF Spec

\* The supervisor's state, its timers and its subprocesses stay well formed:
\* the numbering of the subprocesses follows the transports, and an answer is
\* awaited only from a process that was spawned.
THEOREM TypeCorrect == Spec => []TypeOK
<1>1. IInv => TypeOK
  BY DEF IInv
<1>2. QED
  BY <1>1, InductiveInvariant, PTL

\* An idle supervisor always has an armed timer that will stop it, whatever
\* stray timers earlier idle periods have left behind.
THEOREM IdleIsAlwaysTimed == Spec => []IdleIsTimed
<1>1. IInv => IdleIsTimed
  BY DEF IInv, TimerInv
<1>2. QED
  BY <1>1, InductiveInvariant, PTL

\* `shutdown` is sent only to subprocesses that were sent `initialized`.
THEOREM ShutdownFollowsHandshake == Spec => []ShutdownAfterHandshake
<1>1. IInv => ShutdownAfterHandshake
  BY DEF IInv, HandshakeInv
<1>2. QED
  BY <1>1, InductiveInvariant, PTL

\* Between successes and resets at most restartMaxAttempts subprocesses are
\* spawned and left to themselves.
THEOREM BudgetIsKept == Spec => []BreakerBudget
<1>1. IInv => BreakerBudget
  BY DEF IInv, BudgetInv
<1>2. QED
  BY <1>1, InductiveInvariant, PTL

\* The open circuit is always backed by the failures that are counted.
THEOREM OpenCircuitIsJustified == Spec => []BreakerIsJustified
<1>1. IInv => BreakerIsJustified
  BY DEF IInv
<1>2. QED
  BY <1>1, InductiveInvariant, PTL

\* A supervisor that is STARTING has a process whose end is still to be
\* reported, or one that could not be spawned.
THEOREM StartingIsBacked == Spec => []StartingHasProcess
<1>1. IInv => StartingHasProcess
  BY DEF IInv, StartingInv
<1>2. QED
  BY <1>1, InductiveInvariant, PTL

\* No subprocess is spawned once restartMaxAttempts have failed in a row.
THEOREM FailuresStopSpawning == Spec => NoSpawnPastMaxFailures
<1>1. IInv /\ [Next]_vars
         => [transport' # transport => failures < MaxRestartAttempts]_vars
  <2> SUFFICES ASSUME IInv, Next, transport' # transport
               PROVE  failures < MaxRestartAttempts
    OBVIOUS
  <2>1. PICK u \in Uris : AttachSpawns(u)
    BY DEF Next, AttachBuffer, AttachRefused, AttachJoins, AttachWakes,
           AttachTrips, DetachBuffer, DetachLast, DetachOther, IdleTimerFires,
           KillNow, KillNowReady, KillNowUnready, ResetCircuitBreaker,
           InitializeSucceeds, InitializeFails, ProcessExits, SubprocessExit,
           vars, processVars
  <2>2. failedStarts < MaxRestartAttempts
    BY <2>1 DEF AttachSpawns
  <2>3. QED
    BY <2>2 DEF IInv, CountInv, TypeOK
<1>2. QED
  BY <1>1, InductiveInvariant, PTL DEF Spec, NoSpawnPastMaxFailures

----------------------------------------------------------------------------
(***************************************************************************)
(* In fault-free surroundings, where servers still crash at any time, for  *)
(* every number of documents, timeout sources and subprocesses: there is   *)
(* one subprocess, the features consult its own capabilities, and the      *)
(* supervisor implements the state diagram of ServerLifecycle.             *)
(***************************************************************************)
\* The states in which a process runs.
WithProcess == {"STARTING", "READY", "IDLE", "STOPPING"}

\* The process that is not reported yet is that of the transport, and there is
\* one in exactly the states that should have one.
LiveInv ==
    /\ state \in WithProcess => transport \in Procs
    /\ \A p \in Procs :
          /\ proc[p] # "absent"
          /\ proc[p] \in Unreported <=> p = transport /\ state \in WithProcess

\* Only a supervisor that is STARTING still waits for an answer.
AnswerInv ==
    /\ state = "STARTING" => reply[transport] = "awaited"
    /\ state \in WithProcess \ {"STARTING"} => reply[transport] = "ok"
    /\ CapabilitiesAreCurrent

OrderlyInv == TypeOK /\ LiveInv /\ AnswerInv

----------------------------------------------------------------------------
\* The answer that can be read is that of the process that is STARTING.
LEMMA ReadableIsCurrent ==
    ASSUME Faults = {}, OrderlyInv, NEW p \in Procs, ReplyReadable(p)
    PROVE  p = transport /\ state = "STARTING"
<1>1. proc[p] \notin {"none", "absent", "reaped"}
  BY DEF OrderlyInv, TypeOK, ReplyReadable
<1>2. p = transport /\ state \in WithProcess
  BY <1>1 DEF OrderlyInv, LiveInv, TypeOK, ProcStatus, Unreported
<1>3. QED
  BY <1>2 DEF OrderlyInv, AnswerInv, ReplyReadable

\* It holds initially.
LEMMA OrderlyInit == Init => LiveInv /\ AnswerInv
BY DEF Init, LiveInv, AnswerInv, CapabilitiesAreCurrent, WithProcess, Unreported

\* Every step keeps the one process in the states that have one.
LEMMA LiveStep ==
    ASSUME Faults = {}, OrderlyInv, [Next]_vars
    PROVE  LiveInv'
<1> USE DEF LiveInv, WithProcess, Unreported, OrderlyInv, TypeOK,
            handshakeVars, timerVars, processVars, countVars
<1>1. ASSUME NEW u \in Uris, AttachRefused(u) PROVE LiveInv'
  BY <1>1 DEF AttachRefused, vars
<1>2. ASSUME NEW u \in Uris, AttachJoins(u) PROVE LiveInv'
  BY <1>2 DEF AttachJoins
<1>3. ASSUME NEW u \in Uris, AttachWakes(u) PROVE LiveInv'
  BY <1>3 DEF AttachWakes
<1>4. ASSUME NEW u \in Uris, AttachTrips(u) PROVE LiveInv'
  BY <1>4 DEF AttachTrips
<1>5. ASSUME NEW u \in Uris, AttachSpawns(u) PROVE LiveInv'
  BY <1>5 DEF AttachSpawns, SpawnAndInitialize, Procs
<1>6. ASSUME NEW u \in Uris, DetachLast(u) PROVE LiveInv'
  BY <1>6 DEF DetachLast
<1>7. ASSUME NEW u \in Uris, DetachOther(u) PROVE LiveInv'
  BY <1>7 DEF DetachOther
<1>8. ASSUME NEW t \in Timers, IdleTimerFires(t) PROVE LiveInv'
  BY <1>8 DEF IdleTimerFires, BeginShutdown, KillTransport
<1>9. ASSUME KillNowReady PROVE LiveInv'
  BY <1>9 DEF KillNowReady, BeginShutdown, KillTransport
<1>10. ASSUME KillNowUnready PROVE LiveInv'
  BY <1>10 DEF KillNowUnready, KillTransport
<1>11. ASSUME ResetCircuitBreaker PROVE LiveInv'
  BY <1>11 DEF ResetCircuitBreaker
<1>12. ASSUME NEW p \in Procs, InitializeSucceeds(p) PROVE LiveInv'
  BY <1>12, ReadableIsCurrent DEF InitializeSucceeds
<1>13. ASSUME NEW p \in Procs, InitializeFails(p) PROVE LiveInv'
  BY <1>13 DEF InitializeFails
<1>14. ASSUME NEW p \in Procs, ProcessExits(p) PROVE LiveInv'
  BY <1>14 DEF ProcessExits
<1>15. ASSUME NEW p \in Procs, SubprocessExit(p) PROVE LiveInv'
  BY <1>15 DEF SubprocessExit
<1>16. CASE UNCHANGED vars
  BY <1>16 DEF vars
<1>17. QED
  BY <1>1, <1>2, <1>3, <1>4, <1>5, <1>6, <1>7, <1>8, <1>9, <1>10, <1>11,
     <1>12, <1>13, <1>14, <1>15, <1>16
     DEF Next, AttachBuffer, DetachBuffer, KillNow

\* Every step keeps the answer, and the capabilities, to the process it is of.
LEMMA AnswerStep ==
    ASSUME Faults = {}, OrderlyInv, [Next]_vars
    PROVE  AnswerInv'
<1> USE DEF AnswerInv, CapabilitiesAreCurrent, WithProcess, OrderlyInv, TypeOK,
            handshakeVars, timerVars, processVars, countVars
<1>1. ASSUME NEW u \in Uris, AttachRefused(u) PROVE AnswerInv'
  BY <1>1 DEF AttachRefused, vars
<1>2. ASSUME NEW u \in Uris, AttachJoins(u) PROVE AnswerInv'
  BY <1>2 DEF AttachJoins
<1>3. ASSUME NEW u \in Uris, AttachWakes(u) PROVE AnswerInv'
  BY <1>3 DEF AttachWakes
<1>4. ASSUME NEW u \in Uris, AttachTrips(u) PROVE AnswerInv'
  BY <1>4 DEF AttachTrips
<1>5. ASSUME NEW u \in Uris, AttachSpawns(u) PROVE AnswerInv'
  BY <1>5 DEF AttachSpawns, SpawnAndInitialize, Procs
<1>6. ASSUME NEW u \in Uris, DetachLast(u) PROVE AnswerInv'
  BY <1>6 DEF DetachLast
<1>7. ASSUME NEW u \in Uris, DetachOther(u) PROVE AnswerInv'
  BY <1>7 DEF DetachOther
<1>8. ASSUME NEW t \in Timers, IdleTimerFires(t) PROVE AnswerInv'
  BY <1>8 DEF IdleTimerFires, BeginShutdown
<1>9. ASSUME KillNowReady PROVE AnswerInv'
  BY <1>9 DEF KillNowReady, BeginShutdown
<1>10. ASSUME KillNowUnready PROVE AnswerInv'
  BY <1>10 DEF KillNowUnready
<1>11. ASSUME ResetCircuitBreaker PROVE AnswerInv'
  BY <1>11 DEF ResetCircuitBreaker
<1>12. ASSUME NEW p \in Procs, InitializeSucceeds(p) PROVE AnswerInv'
  BY <1>12, ReadableIsCurrent DEF InitializeSucceeds
<1>13. ASSUME NEW p \in Procs, InitializeFails(p) PROVE AnswerInv'
  BY <1>13 DEF InitializeFails
<1>14. ASSUME NEW p \in Procs, ProcessExits(p) PROVE AnswerInv'
  BY <1>14 DEF ProcessExits
<1>15. ASSUME NEW p \in Procs, SubprocessExit(p) PROVE AnswerInv'
  BY <1>15 DEF SubprocessExit
<1>16. CASE UNCHANGED vars
  BY <1>16 DEF vars
<1>17. QED
  BY <1>1, <1>2, <1>3, <1>4, <1>5, <1>6, <1>7, <1>8, <1>9, <1>10, <1>11,
     <1>12, <1>13, <1>14, <1>15, <1>16
     DEF Next, AttachBuffer, DetachBuffer, KillNow

----------------------------------------------------------------------------
\* The invariant holds of every behaviour without faults.
THEOREM OrderlyInvariant == ASSUME Faults = {} PROVE Spec => []OrderlyInv
<1>1. Init /\ TypeOK => OrderlyInv
  BY OrderlyInit DEF OrderlyInv
<1>2. OrderlyInv /\ TypeOK' /\ [Next]_vars => OrderlyInv'
  BY LiveStep, AnswerStep DEF OrderlyInv
<1>3. QED
  BY <1>1, <1>2, TypeCorrect, PTL DEF Spec

\* "one (lang, root) pair, one subprocess", says server.py: without an error
\* answer or a kill before the handshake, there is never a second process.
THEOREM OneProcessAtATime == ASSUME Faults = {} PROVE Spec => []OneSubprocess
<1>1. OrderlyInv => OneSubprocess
  BY DEF OrderlyInv, LiveInv, OneSubprocess
<1>2. QED
  BY <1>1, OrderlyInvariant, PTL

\* A serving supervisor talks to a process that has finished the handshake and
\* has the capabilities that this process has announced.
THEOREM CapabilitiesStayCurrent ==
    ASSUME Faults = {} PROVE Spec => []CapabilitiesAreCurrent
<1>1. OrderlyInv => CapabilitiesAreCurrent
  BY DEF OrderlyInv, AnswerInv
<1>2. QED
  BY <1>1, OrderlyInvariant, PTL

----------------------------------------------------------------------------
(***************************************************************************)
(* The refinement of ServerLifecycle.                                      *)
(***************************************************************************)

\* Every step of the supervisor is one of the state diagram, or none.
LEMMA LifecycleStep ==
    ASSUME Faults = {}, OrderlyInv, OrderlyInv', [Next]_vars
    PROVE  [Lifecycle!Next]_(Lifecycle!vars)
<1>0. /\ SomeProcess = (state \in WithProcess)
      /\ SomeProcess' = (state' \in WithProcess)
  <2>1. SomeProcess <=> state \in WithProcess
    BY DEF OrderlyInv, LiveInv, SomeProcess
  <2>2. SomeProcess' <=> state' \in WithProcess
    BY DEF OrderlyInv, LiveInv, SomeProcess
  <2>3. SomeProcess \in BOOLEAN /\ SomeProcess' \in BOOLEAN
    BY DEF SomeProcess
  <2>4. QED
    BY <2>1, <2>2, <2>3, Zenon
<1> USE DEF Lifecycle!Next, Lifecycle!vars, Lifecycle!WithProcess, WithProcess,
            handshakeVars, timerVars, processVars, countVars
<1>1. ASSUME NEW u \in Uris, AttachRefused(u) PROVE [Lifecycle!Next]_(Lifecycle!vars)
  BY <1>1, <1>0 DEF AttachRefused, vars
<1>2. ASSUME NEW u \in Uris, AttachJoins(u) PROVE [Lifecycle!Next]_(Lifecycle!vars)
  BY <1>2, <1>0 DEF AttachJoins, Lifecycle!Join
<1>3. ASSUME NEW u \in Uris, AttachWakes(u) PROVE [Lifecycle!Next]_(Lifecycle!vars)
  BY <1>3, <1>0 DEF AttachWakes, Lifecycle!Wake
<1>4. ASSUME NEW u \in Uris, AttachTrips(u) PROVE [Lifecycle!Next]_(Lifecycle!vars)
  BY <1>4, <1>0 DEF AttachTrips, Lifecycle!GiveUp
<1>5. ASSUME NEW u \in Uris, AttachSpawns(u) PROVE [Lifecycle!Next]_(Lifecycle!vars)
  BY <1>5, <1>0 DEF AttachSpawns, SpawnAndInitialize, Lifecycle!Start
<1>6. ASSUME NEW u \in Uris, DetachLast(u) PROVE [Lifecycle!Next]_(Lifecycle!vars)
  BY <1>6, <1>0 DEF DetachLast, Lifecycle!Leave
<1>7. ASSUME NEW u \in Uris, DetachOther(u) PROVE [Lifecycle!Next]_(Lifecycle!vars)
  BY <1>7, <1>0 DEF DetachOther, Lifecycle!Leave
<1>8. ASSUME NEW t \in Timers, IdleTimerFires(t) PROVE [Lifecycle!Next]_(Lifecycle!vars)
  BY <1>8, <1>0 DEF IdleTimerFires, BeginShutdown, Lifecycle!Stop
<1>9. ASSUME KillNowReady PROVE [Lifecycle!Next]_(Lifecycle!vars)
  BY <1>9, <1>0 DEF KillNowReady, BeginShutdown, Lifecycle!Stop
<1>10. ASSUME KillNowUnready PROVE [Lifecycle!Next]_(Lifecycle!vars)
  BY <1>10, <1>0 DEF KillNowUnready, Lifecycle!Retry
<1>11. ASSUME ResetCircuitBreaker PROVE [Lifecycle!Next]_(Lifecycle!vars)
  BY <1>11, <1>0 DEF ResetCircuitBreaker, Lifecycle!Retry
<1>12. ASSUME NEW p \in Procs, InitializeSucceeds(p) PROVE [Lifecycle!Next]_(Lifecycle!vars)
  BY <1>12, <1>0, ReadableIsCurrent DEF InitializeSucceeds, Lifecycle!Serve
<1>13. ASSUME NEW p \in Procs, InitializeFails(p) PROVE [Lifecycle!Next]_(Lifecycle!vars)
  BY <1>13, <1>0 DEF InitializeFails
<1>14. ASSUME NEW p \in Procs, ProcessExits(p) PROVE [Lifecycle!Next]_(Lifecycle!vars)
  BY <1>14, <1>0 DEF ProcessExits
<1>15. ASSUME NEW p \in Procs, SubprocessExit(p) PROVE [Lifecycle!Next]_(Lifecycle!vars)
  <2>1. state \in WithProcess
    BY <1>15 DEF SubprocessExit, OrderlyInv, LiveInv, Unreported
  <2>2. state' = "NOT_RUNNING" /\ UNCHANGED attached
    BY <1>15 DEF SubprocessExit
  <2>3. Lifecycle!ProcessEnds
    <3>1. ~SomeProcess'
      BY <2>2 DEF OrderlyInv, LiveInv, SomeProcess
    <3>2. SomeProcess' = FALSE
      BY <3>1 DEF SomeProcess
    <3>3. QED
      BY <2>1, <2>2, <3>2 DEF Lifecycle!ProcessEnds
  <2>4. QED
    BY <2>3
<1>16. CASE UNCHANGED vars
  BY <1>16, <1>0 DEF vars
<1>17. QED
  BY <1>1, <1>2, <1>3, <1>4, <1>5, <1>6, <1>7, <1>8, <1>9, <1>10, <1>11,
     <1>12, <1>13, <1>14, <1>15, <1>16
     DEF Next, AttachBuffer, DetachBuffer, KillNow

\* Without faults the supervisor is one process in its state diagram: it starts
\* once per use, shuts down only what has finished its handshake, and every end
\* of the process is noticed as one.
THEOREM SupervisorImplementsLifecycle ==
    ASSUME Faults = {} PROVE Spec => ImplementsLifecycle
<1>1. Init => Lifecycle!Init
  BY DEF Init, Lifecycle!Init, SomeProcess, Unreported
<1>2. OrderlyInv /\ OrderlyInv' /\ [Next]_vars
         => [Lifecycle!Next]_(Lifecycle!vars)
  BY LifecycleStep
<1>3. QED
  BY <1>1, <1>2, OrderlyInvariant, PTL
     DEF Spec, ImplementsLifecycle, Lifecycle!Spec
=============================================================================
