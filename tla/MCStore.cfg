CONSTANTS
    p1 = p1
    p2 = p2
    c1 = c1
    q1 = q1
    Clear = Clear
    Other = Other
    Loaders <- MCLoaders
    Keystores <- MCNobody
    Collectors <- MCCollector
    Rollers <- MCRoller
    KeyedRollers <- MCNobody
    Casts <- MCCasts
    Histories = {2, 3}
    Ledgerless = {2}
    Keep = 1
    MaxKept = 2
    KnownFill = 4
    MaxKnown = 6
    KnownSpan = 3
    MaxGen = 3
    MaxOthers = 4
    MaxAttempts = 1
    MaxResends = 1
    MaxChurn = 1
    MaxLooks = 1
    MaxRollChurn = 1
SPECIFICATION Spec
SYMMETRY Symmetry
INVARIANTS
    MissingPointerIsReported
    CheckedRollbackKeepsItsObject
    RowVouchesForObjects
    SupersededSurvives
    PublishedByOwnWrite
CHECK_DEADLOCK FALSE
