CONSTANTS
    p1 = p1
    p2 = p2
    p3 = p3
    Clear = Clear
    Other = Other
    Loaders <- MCOneLoader
    Keystores <- MCOneLoader
    Casts <- MCOneCast
    Histories = {0, 1}
    Ledgerless = {1}
    Keep = 1
    MaxKept = 2
    KnownFill = 4
    MaxKnown = 6
    KnownSpan = 3
    MaxGen = 2
    MaxOthers = 4
    MaxAttempts = 3
    MaxResends = 2
    MaxChurn = 2
    MaxLooks = 1
SPECIFICATION FairSpec
INVARIANTS
    FenceCoversLaterChecks
PROPERTIES
    PublishReplacesTheRowRead
    EveryLoadEnds
CHECK_DEADLOCK FALSE
