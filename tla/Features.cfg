SPECIFICATION Spec

CONSTANTS
    p1 = p1
    p2 = p2
    f1 = f1
    f2 = f2
    f3 = f3
    e1 = e1
    e2 = e2
    w1 = w1
    w2 = w2
    NoWindow = NoWindow
    NoProposal = NoProposal
    Parts <- AllParts
    Proposals <- MCProposals
    NewTexts <- MCNewTexts
    Files <- MCFiles
    WorkspaceEdits <- MCWorkspaceEdits
    MaxAsked = 4
    MaxPopovers = 3
    MaxText = 3
    MaxSpans = 2
    MaxEntries = 2
    MaxOpened = 4
    MaxLoads = 2
    MaxTagged = 4
    MaxDiagnostics = 3
    Severities <- MCSeverities
    Styled <- MCStyled
    Windows <- MCWindows
    Documents <- MCDocuments
    MaxNews = 3
    Names <- MCNames
    MaxItems = 4

INVARIANT LabelIsHighlighted
INVARIANT HistoryIsJumps
INVARIANT EditsMatchMeaning
INVARIANT AppliedWhole
INVARIANT CommandFollowsEdit
INVARIANT SeverestWins
INVARIANT ViewsAgree
INVARIANT EverySymbolShown
PROPERTY ImplementsLatestAnswer

\* The questions are bounded, and a text is done when its edits are applied.
CHECK_DEADLOCK FALSE
