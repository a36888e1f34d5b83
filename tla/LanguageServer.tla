--------------------------- MODULE LanguageServer ---------------------------
(***************************************************************************)
(* src/gedit_lsp/server.py: one LanguageServer, the supervisor of the      *)
(* language-server subprocess of one (language, root) pair.                *)
(*                                                                         *)
(* Everything runs on GLib's main loop, so an action is one callback run   *)
(* to completion: a call of the public API, a timer, an answer read from   *)
(* the subprocess, or the report that a subprocess has ended.  What makes  *)
(* it hard is that the last three belong to a particular subprocess or     *)
(* timer, while the handlers act on the supervisor's current one.  The     *)
(* subprocesses are therefore numbered 1, 2, ... in the order of their     *)
(* spawning, and each keeps its own status and its own outstanding         *)
(* `initialize` call.                                                      *)
(***************************************************************************)
EXTENDS Naturals, FiniteSets

CONSTANTS
    Uris,                \* documents that buffers may attach
    MaxRestartAttempts,  \* restartMaxAttempts
    MaxSpawns,           \* bound on the number of subprocesses ever spawned
    Timers,              \* identifiers of GLib timeout sources
    NoTimer,             \* _idle_source_id is None
    Faults               \* which of FaultKinds the surroundings may commit

(***************************************************************************)
(* The faults of the surroundings.                                         *)
(*   missing_binary  spawning raises: the command does not exist           *)
(*   init_error      `initialize` is answered by an error                  *)
(*   late_reply      the answer to `initialize` was in the pipe when the   *)
(*                   process died, and is read after its end is reported   *)
(*   kill_unready    kill_now() is called while STARTING or STOPPING       *)
(* A crash of the subprocess at any time is no fault: it is always         *)
(* possible.                                                               *)
(***************************************************************************)
FaultKinds == {"missing_binary", "init_error", "late_reply", "kill_unready"}

ASSUME MaxRestartAttemptsAssumption == MaxRestartAttempts \in Nat \ {0}
ASSUME MaxSpawnsAssumption == MaxSpawns \in Nat \ {0}
ASSUME NoTimerAssumption == NoTimer \notin Timers
ASSUME FaultsAssumption == Faults \subseteq FaultKinds

VARIABLES
    state,         \* _state
    attached,      \* _attached_uris
    failedStarts,  \* _failed_starts
    transport,     \* number of _transport's subprocess, the newest; 0: None
    caps,          \* subprocess whose capabilities are stored, 0: none yet
    idleSource,    \* _idle_source_id
    armed,         \* timeout sources of the main loop that will still fire
    proc,          \* status of each subprocess
    reply,         \* its `initialize` call: none, awaited, ok, error
    initialized,   \* subprocesses that were sent `initialized`
    shutdown,      \* subprocesses that were sent `shutdown` and `exit`
    attempts,      \* history: spawns since then that kill_now did not undo
    failures       \* history: failed subprocesses since a success or reset

vars == <<state, attached, failedStarts, transport, caps, idleSource, armed,
          proc, reply, initialized, shutdown, attempts, failures>>

Procs == 1..MaxSpawns

ServerState == {"NOT_RUNNING", "STARTING", "READY", "IDLE", "STOPPING",
                "CIRCUIT_OPEN"}

(***************************************************************************)
(* none: not spawned; absent: spawning raised, there is no process;        *)
(* exited: ended by itself; killed: ended by force_exit(); reaped: its end *)
(* has been reported to the supervisor.                                    *)
(***************************************************************************)
ProcStatus == {"none", "absent", "running", "exited", "killed", "reaped"}

\* The processes whose end the main loop has not reported yet.
Unreported == {"running", "exited", "killed"}

TypeOK ==
    /\ state \in ServerState
    /\ attached \in SUBSET Uris
    /\ failedStarts \in Nat
    /\ transport \in 0..MaxSpawns
    /\ caps \in 0..MaxSpawns
    /\ idleSource \in Timers \cup {NoTimer}
    /\ armed \in SUBSET Timers
    /\ proc \in [Procs -> ProcStatus]
    /\ reply \in [Procs -> {"none", "awaited", "ok", "error"}]
    /\ initialized \in SUBSET Procs
    /\ shutdown \in SUBSET Procs
    /\ attempts \in Nat
    /\ failures \in Nat
    /\ \A p \in Procs :
          /\ proc[p] = "none" <=> p > transport
          /\ reply[p] = "none" <=> proc[p] \in {"none", "absent"}

Init ==
    /\ state = "NOT_RUNNING"
    /\ attached = {}
    /\ failedStarts = 0
    /\ transport = 0
    /\ caps = 0
    /\ idleSource = NoTimer
    /\ armed = {}
    /\ proc = [p \in Procs |-> "none"]
    /\ reply = [p \in Procs |-> "none"]
    /\ initialized = {}
    /\ shutdown = {}
    /\ attempts = 0
    /\ failures = 0

handshakeVars == <<caps, initialized>>
timerVars == <<idleSource, armed>>
processVars == <<transport, proc, reply>>
countVars == <<failedStarts, attempts, failures>>

----------------------------------------------------------------------------
(***************************************************************************)
(* attach_buffer, one action for each way through it.                      *)
(***************************************************************************)

\* The circuit breaker is open: nothing is recorded.
AttachRefused(u) ==
    /\ state = "CIRCUIT_OPEN"
    /\ UNCHANGED vars

\* The buffer is recorded and nothing else happens, even while STOPPING.
AttachJoins(u) ==
    /\ state \in {"STARTING", "READY", "STOPPING"}
    /\ attached' = attached \cup {u}
    /\ UNCHANGED <<state, handshakeVars, timerVars, processVars, countVars,
                   shutdown>>

CancelIdleTimer ==
    /\ armed' = armed \ {idleSource}
    /\ idleSource' = NoTimer

AttachWakes(u) ==
    /\ state = "IDLE"
    /\ attached' = attached \cup {u}
    /\ CancelIdleTimer
    /\ state' = "READY"
    /\ UNCHANGED <<handshakeVars, processVars, countVars, shutdown>>

\* Too many failed starts: the breaker opens instead of a spawn.
AttachTrips(u) ==
    /\ state = "NOT_RUNNING"
    /\ failedStarts >= MaxRestartAttempts
    /\ attached' = attached \cup {u}
    /\ state' = "CIRCUIT_OPEN"
    /\ UNCHANGED <<handshakeVars, timerVars, processVars, countVars, shutdown>>

\* A slip: the transport of the first subprocess is kept.
SpawnInFirstTransport ==
    LET p == transport + 1 IN
    /\ transport < MaxSpawns
    /\ transport' = 1
    /\ state' = "STARTING"
    /\ attempts' = attempts + 1
    /\ proc' = [proc EXCEPT ![p] = "running"]
    /\ reply' = [reply EXCEPT ![p] = "awaited"]

(***************************************************************************)
(* A new transport replaces the old one, whose process, if it is still     *)
(* there, is left as it is.  The state is STARTING before start() is       *)
(* called, so that a start() that raises leaves the supervisor STARTING    *)
(* with a transport that has no process and no `initialize` call.          *)
(***************************************************************************)
SpawnAndInitialize ==
    LET p == transport + 1 IN
    /\ transport < MaxSpawns
    /\ transport' = p
    /\ state' = "STARTING"
    /\ attempts' = attempts + 1
    /\ \/ /\ proc' = [proc EXCEPT ![p] = "running"]
          /\ reply' = [reply EXCEPT ![p] = "awaited"]
       \/ /\ "missing_binary" \in Faults
          /\ proc' = [proc EXCEPT ![p] = "absent"]
          /\ UNCHANGED reply

\* Slips: one attempt too many; a spawn while the old process is dying.
AttachSpawnsOnceMore(u) ==
    /\ state = "NOT_RUNNING"
    /\ failedStarts <= MaxRestartAttempts
    /\ attached' = attached \cup {u}
    /\ SpawnAndInitialize
    /\ UNCHANGED <<handshakeVars, timerVars, failedStarts, failures, shutdown>>

AttachSpawnsWhileStopping(u) ==
    /\ state \in {"NOT_RUNNING", "STOPPING"}
    /\ failedStarts < MaxRestartAttempts
    /\ attached' = attached \cup {u}
    /\ SpawnAndInitialize
    /\ UNCHANGED <<handshakeVars, timerVars, failedStarts, failures, shutdown>>

AttachSpawns(u) ==
    /\ state = "NOT_RUNNING"
    /\ failedStarts < MaxRestartAttempts
    /\ attached' = attached \cup {u}
    /\ SpawnAndInitialize
    /\ UNCHANGED <<handshakeVars, timerVars, failedStarts, failures, shutdown>>

AttachBuffer(u) ==
    \/ AttachRefused(u)
    \/ AttachJoins(u)
    \/ AttachWakes(u)
    \/ AttachTrips(u)
    \/ AttachSpawns(u)

(***************************************************************************)
(* detach_buffer.  A buffer that leaves before the handshake is over finds *)
(* the supervisor STARTING, and no timer is armed for it.                  *)
(***************************************************************************)
DetachLast(u) ==
    /\ state = "READY"
    /\ attached \subseteq {u}
    /\ attached' = {}
    /\ state' = "IDLE"
    /\ \E t \in Timers \ armed :
          /\ armed' = armed \cup {t}
          /\ idleSource' = t
    /\ UNCHANGED <<handshakeVars, processVars, countVars, shutdown>>

DetachOther(u) ==
    /\ ~ (state = "READY" /\ attached \subseteq {u})
    /\ attached' = attached \ {u}
    /\ UNCHANGED <<state, handshakeVars, timerVars, processVars, countVars,
                   shutdown>>

DetachBuffer(u) ==
    \/ DetachLast(u)
    \/ DetachOther(u)

----------------------------------------------------------------------------
(***************************************************************************)
(* The end of a server that is asked to go: shutdown and exit are queued,  *)
(* and the process is killed at once.  kill() does nothing to a process    *)
(* that is gone, or was never there.                                       *)
(***************************************************************************)
KillTransport ==
    proc' = IF transport # 0 /\ proc[transport] = "running"
            THEN [proc EXCEPT ![transport] = "killed"]
            ELSE proc

BeginShutdown ==
    /\ state' = "STOPPING"
    /\ shutdown' = shutdown \cup {transport}
    /\ KillTransport

\* _on_idle_timer of the source t, which may not be the one last armed.
IdleTimerFires(t) ==
    /\ t \in armed
    /\ idleSource' = NoTimer
    /\ \/ /\ state = "IDLE"
          /\ BeginShutdown
          /\ armed' = armed \ {t, idleSource}
       \/ /\ state # "IDLE"
          /\ armed' = armed \ {t}
          /\ UNCHANGED <<state, proc, shutdown>>
    /\ UNCHANGED <<attached, handshakeVars, transport, reply, countVars>>

\* Slips: a process that is still starting is told `shutdown` as well; the
\* supervisor does not wait for the end of the process.
KillNowAnyProcess ==
    /\ state \in {"STARTING", "READY", "IDLE"}
    /\ CancelIdleTimer
    /\ BeginShutdown
    /\ UNCHANGED <<attached, handshakeVars, transport, reply, countVars>>

KillNowForgets ==
    /\ state \in {"READY", "IDLE"}
    /\ CancelIdleTimer
    /\ shutdown' = shutdown \cup {transport}
    /\ KillTransport
    /\ state' = "NOT_RUNNING"
    /\ UNCHANGED <<attached, handshakeVars, transport, reply, countVars>>

\* kill_now in a state with a finished handshake.
KillNowReady ==
    /\ state \in {"READY", "IDLE"}
    /\ CancelIdleTimer
    /\ BeginShutdown
    /\ UNCHANGED <<attached, handshakeVars, transport, reply, countVars>>

\* kill_now otherwise: no message and no waiting for the end of the process.
KillNowUnready ==
    /\ \/ state \in {"NOT_RUNNING", "CIRCUIT_OPEN"}
       \/ /\ state \in {"STARTING", "STOPPING"}
          /\ "kill_unready" \in Faults
    /\ transport # 0
    /\ KillTransport
    /\ state' = "NOT_RUNNING"
    /\ attempts' = IF state = "STARTING" THEN attempts - 1 ELSE attempts
    /\ UNCHANGED <<attached, handshakeVars, timerVars, transport, reply,
                   failedStarts, failures, shutdown>>

KillNow ==
    \/ KillNowReady
    \/ KillNowUnready

\* A slip: the count is reset and the open circuit is left as it is.
ResetCountOnly ==
    /\ failedStarts' = 0
    /\ attempts' = IF state = "STARTING" THEN 1 ELSE 0
    /\ failures' = 0
    /\ UNCHANGED <<state, attached, handshakeVars, timerVars, processVars,
                   shutdown>>

ResetCircuitBreaker ==
    /\ failedStarts' = 0
    /\ attempts' = IF state = "STARTING" THEN 1 ELSE 0
    /\ failures' = 0
    /\ state' = IF state = "CIRCUIT_OPEN" THEN "NOT_RUNNING" ELSE state
    /\ UNCHANGED <<attached, handshakeVars, timerVars, processVars, shutdown>>

----------------------------------------------------------------------------
(***************************************************************************)
(* _on_initialize_response.  The answer belongs to the subprocess p it was *)
(* read from; the handler looks at neither p nor the state, and tells      *)
(* `initialized` to the process of the current transport.                  *)
(***************************************************************************)
ReplyReadable(p) ==
    /\ reply[p] = "awaited"
    /\ proc[p] = "reaped" => "late_reply" \in Faults

\* Slips: without buffers the supervisor becomes IDLE, and no timer is armed;
\* the capabilities of the first server are kept.
InitializeSucceedsIdle(p) ==
    /\ ReplyReadable(p)
    /\ reply' = [reply EXCEPT ![p] = "ok"]
    /\ caps' = p
    /\ initialized' = initialized \cup {transport}
    /\ failedStarts' = 0
    /\ attempts' = 0
    /\ failures' = 0
    /\ state' = IF attached = {} THEN "IDLE" ELSE "READY"
    /\ UNCHANGED <<attached, timerVars, transport, proc, shutdown>>

InitializeKeepsCapabilities(p) ==
    /\ ReplyReadable(p)
    /\ reply' = [reply EXCEPT ![p] = "ok"]
    /\ caps' = IF caps = 0 THEN p ELSE caps
    /\ initialized' = initialized \cup {transport}
    /\ failedStarts' = 0
    /\ attempts' = 0
    /\ failures' = 0
    /\ state' = "READY"
    /\ UNCHANGED <<attached, timerVars, transport, proc, shutdown>>

InitializeSucceeds(p) ==
    /\ ReplyReadable(p)
    /\ reply' = [reply EXCEPT ![p] = "ok"]
    /\ caps' = p
    /\ initialized' = initialized \cup {transport}
    /\ failedStarts' = 0
    /\ attempts' = 0
    /\ failures' = 0
    /\ state' = "READY"
    /\ UNCHANGED <<attached, timerVars, transport, proc, shutdown>>

\* _handle_failed_start: the process that answered with an error is left alone.
InitializeFails(p) ==
    /\ ReplyReadable(p)
    /\ "init_error" \in Faults
    /\ reply' = [reply EXCEPT ![p] = "error"]
    /\ failedStarts' = failedStarts + 1
    /\ failures' = failures + 1
    /\ state' = "NOT_RUNNING"
    /\ UNCHANGED <<attached, handshakeVars, timerVars, transport, proc,
                   attempts, shutdown>>

\* The subprocess ends by itself; nothing in the main loop knows it yet.
ProcessExits(p) ==
    /\ proc[p] = "running"
    /\ proc' = [proc EXCEPT ![p] = "exited"]
    /\ UNCHANGED <<state, attached, handshakeVars, timerVars, transport,
                   reply, countVars, shutdown>>

\* Slips: only a failed start counts; an end that was asked for is ignored;
\* a crash after the handshake goes unnoticed; one before it is left to the
\* answer.
SubprocessExitCountsStarts(p) ==
    /\ proc[p] \in {"exited", "killed"}
    /\ proc' = [proc EXCEPT ![p] = "reaped"]
    /\ failedStarts' = IF state = "STARTING" THEN failedStarts + 1 ELSE failedStarts
    /\ failures' = IF proc[p] = "exited" /\ reply[p] # "error"
                   THEN failures + 1 ELSE failures
    /\ state' = "NOT_RUNNING"
    /\ UNCHANGED <<attached, handshakeVars, timerVars, transport, reply,
                   attempts, shutdown>>

SubprocessExitExpected(p) ==
    /\ proc[p] \in {"exited", "killed"}
    /\ proc' = [proc EXCEPT ![p] = "reaped"]
    /\ failedStarts' = failedStarts + 1
    /\ failures' = failures + 1
    /\ state' = IF state = "STOPPING" THEN state ELSE "NOT_RUNNING"
    /\ UNCHANGED <<attached, handshakeVars, timerVars, transport, reply,
                   attempts, shutdown>>

SubprocessExitUnnoticed(p) ==
    /\ proc[p] \in {"exited", "killed"}
    /\ proc' = [proc EXCEPT ![p] = "reaped"]
    /\ failedStarts' = failedStarts + 1
    /\ failures' = failures + 1
    /\ state' = IF state \in {"READY", "IDLE"} THEN state ELSE "NOT_RUNNING"
    /\ UNCHANGED <<attached, handshakeVars, timerVars, transport, reply,
                   attempts, shutdown>>

SubprocessExitAwaitsAnswer(p) ==
    /\ proc[p] \in {"exited", "killed"}
    /\ proc' = [proc EXCEPT ![p] = "reaped"]
    /\ failedStarts' = failedStarts + 1
    /\ failures' = failures + 1
    /\ state' = IF state = "STARTING" THEN state ELSE "NOT_RUNNING"
    /\ UNCHANGED <<attached, handshakeVars, timerVars, transport, reply,
                   attempts, shutdown>>

(***************************************************************************)
(* _handle_subprocess_exit, of any subprocess: it does not ask which one   *)
(* ended, nor whether it was told to.                                      *)
(***************************************************************************)
SubprocessExit(p) ==
    /\ proc[p] \in {"exited", "killed"}
    /\ proc' = [proc EXCEPT ![p] = "reaped"]
    /\ failedStarts' = failedStarts + 1
    /\ failures' = IF proc[p] = "exited" /\ reply[p] # "error"
                   THEN failures + 1 ELSE failures
    /\ state' = "NOT_RUNNING"
    /\ UNCHANGED <<attached, handshakeVars, timerVars, transport, reply,
                   attempts, shutdown>>

Next ==
    \/ \E u \in Uris : AttachBuffer(u) \/ DetachBuffer(u)
    \/ \E t \in Timers : IdleTimerFires(t)
    \/ KillNow
    \/ ResetCircuitBreaker
    \/ \E p \in Procs : \/ InitializeSucceeds(p)
                        \/ InitializeFails(p)
                        \/ ProcessExits(p)
                        \/ SubprocessExit(p)

Spec == Init /\ [][Next]_vars

(***************************************************************************)
(* GLib dispatches every ready source: an armed timeout fires, and the end *)
(* of a subprocess is reported.  Nothing makes a server answer, a user     *)
(* open or close a buffer, or a process end by itself.                     *)
(***************************************************************************)
MainLoopFairness ==
    /\ \A t \in Timers : WF_vars(IdleTimerFires(t))
    /\ \A p \in Procs : WF_vars(SubprocessExit(p))

FairSpec == Spec /\ MainLoopFairness

\* A user who goes on opening documents.
EagerUser == \A u \in Uris : WF_vars(AttachBuffer(u))

EagerSpec == FairSpec /\ EagerUser

----------------------------------------------------------------------------
(***************************************************************************)
(* Safety, whatever the surroundings do.                                   *)
(***************************************************************************)

\* An idle supervisor has no buffer, and the timer it remembers will fire: no
\* crash, stale report or second timer can leave it warm for ever.
IdleIsTimed ==
    state = "IDLE" => attached = {} /\ idleSource \in armed

\* The circuit is open only while the failures that opened it are counted, in
\* spite of answers and exit reports of older subprocesses.
BreakerIsJustified ==
    state = "CIRCUIT_OPEN" => failedStarts >= MaxRestartAttempts

\* A supervisor that is STARTING has a process that will be reported, unless the
\* spawn raised: no exit report, of whichever process, leaves it STARTING with
\* a process that is gone.
StartingHasProcess ==
    state = "STARTING" => proc[transport] \in Unreported \cup {"absent"}

\* After restartMaxAttempts failed subprocesses in a row nothing is spawned
\* until the user resets the breaker.
NoSpawnPastMaxFailures ==
    [][transport' # transport => failures < MaxRestartAttempts]_vars

\* Between two successes or resets the supervisor spawns at most
\* restartMaxAttempts subprocesses, however they end and whichever of them
\* report late.  A starting server that kill_now takes back is not counted.
BreakerBudget == attempts <= MaxRestartAttempts

\* `shutdown` goes only to a process that was sent `initialized` before: the
\* transport a READY or IDLE supervisor holds is never a newer one.
ShutdownAfterHandshake == shutdown \subseteq initialized

----------------------------------------------------------------------------
(***************************************************************************)
(* Safety in fault-free surroundings, where subprocesses still crash.      *)
(***************************************************************************)

\* "one (lang, root) pair, one subprocess": a subprocess whose end has not
\* been reported is the one the supervisor talks to.
OneSubprocess == \A p \in Procs : proc[p] \in Unreported => p = transport

\* The capabilities features consult are those of the process they talk to,
\* which has answered `initialize` and been sent `initialized`.
CapabilitiesAreCurrent ==
    state \in {"READY", "IDLE"} =>
        caps = transport /\ transport \in initialized /\ reply[transport] = "ok"

(***************************************************************************)
(* Liveness under FairSpec, in fault-free surroundings.                    *)
(***************************************************************************)

\* Stopping comes to an end: the killed process is reported.
StoppingEnds == (state = "STOPPING") ~> (state # "STOPPING")

\* A crash of the current process is noticed in every state, so that the next
\* attach can start another.
CrashIsNoticed ==
    \A p \in Procs : (proc[p] = "exited") ~> (state = "NOT_RUNNING")

----------------------------------------------------------------------------
(***************************************************************************)
(* Refinement: the supervisor and its subprocesses, seen as one process.   *)
(***************************************************************************)
SomeProcess == \E p \in Procs : proc[p] \in Unreported

Lifecycle == INSTANCE ServerLifecycle
                 WITH phase <- state, users <- attached, live <- SomeProcess

\* In fault-free surroundings the supervisor implements the state diagram.
ImplementsLifecycle == Lifecycle!Spec

----------------------------------------------------------------------------
\* "One server process per (language, project root) pair", says the design;
\* refuted by the code in a run of its own.
DocOneServerProcess ==
    \A p, q \in Procs : proc[p] = "running" /\ proc[q] = "running" => p = q

\* A server command that does not exist opens the circuit, says the smoke test,
\* which then sees the info bar; refuted by the code in a run of its own.
DocMissingBinaryTrips ==
    (transport # 0 /\ proc[transport] = "absent") ~> (state = "CIRCUIT_OPEN")
=============================================================================
