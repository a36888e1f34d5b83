SPECIFICATION TransportSpec

CONSTANTS
    LengthOf <- MCLengthOf
    Halves <- Both
    MaxSends = 3
    MaxAnswers = 2
    PartialWrites = {TRUE, FALSE}
    Stdins = {TRUE, FALSE}
    Scripts <- MCScripts
    Prints <- MCPrints
    ShortReads = {TRUE, FALSE}
    MayEnd = TRUE

INVARIANT WritesAreOrdered
INVARIANT CallbackOnce
INVARIANT DeliveredAsWritten
INVARIANT NothingLost
INVARIANT DeafForAReason
PROPERTY RequestsArrive
PROPERTY EveryMessageArrives

\* The messages of a behaviour are bounded.
CHECK_DEADLOCK FALSE
