SPECIFICATION FairSpec

CONSTANTS
    Chars <- MCChars
    MaxEdits = 3
    Capabilities <- ThreeKinds
    LateDeltas = FALSE
    Features <- ThreeFeatures

INVARIANT TypeOK
INVARIANT QuietIsSynced
INVARIANT DeltasCompose
INVARIANT NoStrays
INVARIANT RequestsSeeBuffer
PROPERTY CloseLeavesDisk
PROPERTY EditsArrive
PROPERTY ImplementsMirror
