SPECIFICATION Spec

CONSTANTS
    Chars <- MCChars
    MaxEdits = 3
    Capabilities <- Incremental
    LateDeltas = TRUE
    Features <- Completion

INVARIANT DocRequestsSeeBuffer
