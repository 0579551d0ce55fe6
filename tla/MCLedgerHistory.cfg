CONSTANTS
    MaxKept = 1
    KnownFill = 3
    MaxKnown = 4
    KnownSpan = 2
    MaxGen = 5
    MaxLeases = 1
    Keeps = {0, 1, 2}
SPECIFICATION Spec
INVARIANTS
    LedgerFollowsHistory
PROPERTIES
    KeepsTheMostRecentlyCurrent
    HeldStayKnown
CHECK_DEADLOCK FALSE
