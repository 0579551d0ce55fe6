SPECIFICATION Spec
CONSTANTS
    Tasks = {t1, t2}
    t1 = t1
    t2 = t2
    Kinds <- MCChunks
    Unnamed = {2}
    TTL = 1
    Retry = 1
    MaxClock = 1
    MaxGen = 1
    MaxRows = 2
    MaxObjects = 2
    MaxReads = 2
    MaxFaults = 0
INVARIANTS
    OneMoveIsHealed
CHECK_DEADLOCK FALSE
