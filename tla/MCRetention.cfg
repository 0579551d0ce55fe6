CONSTANTS
    p1 = p1
    d1 = d1
    s1 = s1
    s2 = s2
    w1 = w1
    w2 = w2
    Clear = Clear
    Other = Other
    Stray = Stray
    Network = Network
    Loaders <- MCLoaders
    Keystores <- MCLoaders
    Collectors <- MCSweepers
    Droppers <- MCDroppers
    Sweepers <- MCSweepers
    IndexSweepers <- MCIndexSweepers
    Setters <- MCSetters
    Starts <- MCStarts
    Expiries = {2, 3}
    Histories = {}
    Ledgerless = {}
    Keep = 1
    MaxKept = 2
    KnownFill = 4
    MaxKnown = 6
    KnownSpan = 3
    MaxGen = 2
    MaxOthers = 3
    MaxAttempts = 1
    MaxResends = 0
    MaxChurn = 1
    MaxLooks = 1
    DropAttempts = 2
    DropPasses = 2
    SetAttempts = 2
    MaxFaults = 1
    Grace = 2
    DaySpan = 2
    Lookback = 1
    MaxClock = 3
SPECIFICATION FairSpec
INVARIANTS
    PurgeStrandsNothing
    ShredIsTold
    DroppedStaysEmpty
    IndexedIsFound
PROPERTIES
    RetiresOnlyExpired
    AttestationsStay
    EveryDueIsRetired
    EveryRetiredRowGoes
CHECK_DEADLOCK FALSE
