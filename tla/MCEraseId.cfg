CONSTANTS
    p1 = p1
    q1 = q1
    e1 = e1
    e2 = e2
    Clear = Clear
    Other = Other
    Stray = Stray
    Network = Network
    Loaders <- MCLoaders
    Keystores <- MCNobody
    Rollers <- MCRollers
    KeyedRollers <- MCNobody
    Collectors <- MCNobody
    Erasers <- MCErasers
    KeyedErasers <- MCNobody
    Brings <- MCBrings
    Starts <- MCStarts
    Histories = {}
    Ledgerless = {}
    Keep = 1
    MaxKept = 2
    KnownFill = 4
    MaxKnown = 6
    KnownSpan = 3
    MaxGen = 3
    MaxOthers = 4
    MaxAttempts = 1
    MaxResends = 1
    MaxChurn = 1
    MaxLooks = 1
    MaxRollChurn = 1
    FenceAttempts = 2
    DiscardAttempts = 2
    MaxBusy = 2
SPECIFICATION Spec
INVARIANTS
    ErasedIdIsNotServed
    ReceiptIsTrue
    RefusedRewriteIsGone
    MissingPointerIsReported
PROPERTIES
    DeletesWhatItRead
CHECK_DEADLOCK FALSE
