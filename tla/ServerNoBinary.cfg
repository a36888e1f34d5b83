SPECIFICATION EagerSpec

CONSTANTS
    u1 = u1
    u2 = u2
    t1 = t1
    t2 = t2
    Uris <- MCUris
    Timers <- MCTimers
    NoTimer = NoTimer
    MaxRestartAttempts = 2
    MaxSpawns = 3
    Faults <- OnlyMissingBinary

PROPERTY DocMissingBinaryTrips
