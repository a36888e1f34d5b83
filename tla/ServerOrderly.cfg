SPECIFICATION FairSpec

CONSTANTS
    u1 = u1
    u2 = u2
    t1 = t1
    t2 = t2
    Uris <- MCUris
    Timers <- MCTimers
    NoTimer = NoTimer
    MaxRestartAttempts = 2
    MaxSpawns = 3
    Faults <- NoFaults

INVARIANT OneSubprocess
INVARIANT CapabilitiesAreCurrent
PROPERTY StoppingEnds
PROPERTY CrashIsNoticed
PROPERTY ImplementsLifecycle
