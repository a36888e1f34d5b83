SPECIFICATION TransportSpec

CONSTANTS
    LengthOf <- MCLengthOf
    Halves <- OnlyReading
    MaxSends = 0
    MaxAnswers = 0
    PartialWrites = {FALSE}
    Stdins = {FALSE}
    Scripts <- OneMessage
    Prints <- NothingPrinted
    ShortReads <- OnlyShort
    MayEnd = FALSE

PROPERTY DocOneFullMessage
CHECK_DEADLOCK FALSE
