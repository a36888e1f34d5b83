-------------------------- MODULE ServerLifecycle --------------------------
(***************************************************************************)
(* What one LanguageServer promises its callers: the state diagram of the  *)
(* supervisor, together with the one subprocess it supervises.  `phase` is *)
(* the enum ServerState, `users` the attached buffers, and `live` says     *)
(* whether there is a subprocess whose end has not been noticed yet.  The  *)
(* promise is that the process is live exactly in the four phases that     *)
(* have a process, and that phases change only along the drawn arrows.     *)
(*                                                                         *)
(* LanguageServer.tla is shown to implement this when its environment is   *)
(* free of the faults listed there.                                        *)
(***************************************************************************)
CONSTANT Uris     \* documents that may be attached

VARIABLES phase, users, live

vars == <<phase, users, live>>

WithProcess == {"STARTING", "READY", "IDLE", "STOPPING"}
WithoutProcess == {"NOT_RUNNING", "CIRCUIT_OPEN"}

TypeOK ==
    /\ phase \in WithProcess \cup WithoutProcess
    /\ users \in SUBSET Uris
    /\ live \in BOOLEAN

Init ==
    /\ phase = "NOT_RUNNING"
    /\ users = {}
    /\ live = FALSE

----------------------------------------------------------------------------
\* A first buffer starts the process; the buffer is known before the spawn.
Start(u) ==
    /\ phase = "NOT_RUNNING"
    /\ phase' = "STARTING"
    /\ users' = users \cup {u}
    /\ live' = TRUE

\* Instead of a start, the supervisor may give up.
GiveUp(u) ==
    /\ phase = "NOT_RUNNING"
    /\ phase' = "CIRCUIT_OPEN"
    /\ users' = users \cup {u}
    /\ UNCHANGED live

\* A buffer joins a supervisor that has a process already.
Join(u) ==
    /\ phase \in {"STARTING", "READY", "STOPPING"}
    /\ users' = users \cup {u}
    /\ UNCHANGED <<phase, live>>

\* A buffer wakes a warm process up.
Wake(u) ==
    /\ phase = "IDLE"
    /\ phase' = "READY"
    /\ users' = users \cup {u}
    /\ UNCHANGED live

\* A buffer leaves; the last one to leave a serving process lets it idle.
Leave(u) ==
    /\ users' = users \ {u}
    /\ phase' = IF phase = "READY" /\ users' = {} THEN "IDLE" ELSE phase
    /\ UNCHANGED live

Serve ==
    /\ phase = "STARTING"
    /\ phase' = "READY"
    /\ UNCHANGED <<users, live>>

\* Only a process that has finished its handshake is asked to shut down.
Stop ==
    /\ phase \in {"READY", "IDLE"}
    /\ phase' = "STOPPING"
    /\ UNCHANGED <<users, live>>

\* The end of the process is noticed, whatever the phase: all is as before it.
ProcessEnds ==
    /\ phase \in WithProcess
    /\ phase' = "NOT_RUNNING"
    /\ live' = FALSE
    /\ UNCHANGED users

Retry ==
    /\ phase = "CIRCUIT_OPEN"
    /\ phase' = "NOT_RUNNING"
    /\ UNCHANGED <<users, live>>

Next ==
    \/ \E u \in Uris : Start(u) \/ GiveUp(u) \/ Join(u) \/ Wake(u) \/ Leave(u)
    \/ Serve
    \/ Stop
    \/ ProcessEnds
    \/ Retry

Spec == Init /\ [][Next]_vars

----------------------------------------------------------------------------
\* The process is live in exactly the phases that are drawn with one.
LiveInPhase == live <=> phase \in WithProcess
=============================================================================
