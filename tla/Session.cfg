SPECIFICATION Spec

CONSTANTS
    w1 = w1
    w2 = w2
    d1 = d1
    d2 = d2
    d3 = d3
    u1 = u1
    u2 = u2
    t1 = t1
    NoWindow = NoWindow
    NoTimer = NoTimer
    Windows <- MCWindows
    Uris <- MCUris
    Docs <- MCDocs
    UriOf <- MCUriOf
    Movable <- MCMovable
    Timers <- MCTimers
    MaxRestartAttempts = 1
    MaxSpawns = 2
    Faults <- OnlyInitError

SYMMETRY Symmetry

INVARIANT TypeOK
INVARIANT ClosedIsForgotten
INVARIANT KnownToItsServer
PROPERTY TripReachesAttached
