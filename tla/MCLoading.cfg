CONSTANTS
    p1 = p1
    p2 = p2
    p3 = p3
    Clear = Clear
    Other = Other
    Loaders <- MCLoaders
    Keystores <- MCKeyed
    Casts <- MCCasts
    Histories = {0, 1}
    Ledgerless = {}
    Keep = 1
    MaxKept = 2
    KnownFill = 4
    MaxKnown = 6
    KnownSpan = 3
    MaxGen = 2
    MaxOthers = 2
    MaxAttempts = 2
    MaxResends = 1
    MaxChurn = 1
    MaxLooks = 1
SPECIFICATION Spec
SYMMETRY Symmetry
INVARIANTS
    PointerHasObject
    KeyOpensPointer
    RefusalIsFinal
    AtMostOneLands
PROPERTIES
    ReclaimTakesItsOwn
CHECK_DEADLOCK FALSE
