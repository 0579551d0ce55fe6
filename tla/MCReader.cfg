SPECIFICATION Spec
CONSTANTS
    Tasks = {t1, t2}
    t1 = t1
    t2 = t2
    Kinds <- MCKinds
    Unnamed = {2}
    TTL = 1
    Retry = 1
    MaxClock = 1
    MaxGen = 1
    MaxRows = 3
    MaxObjects = 2
    MaxReads = 2
    MaxFaults = 1
INVARIANTS
    AnswersAreFresh
    InvalidationIsHeeded
    MissIsARace
CHECK_DEADLOCK FALSE
