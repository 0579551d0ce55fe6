CONSTANTS
    r1 = r1
    r2 = r2
    w1 = w1
    Readers <- MCReaders
    Loaders <- MCLoaders
    Offset <- MCOffset
    Skew = 1
    MaxLease = 2
    MaxHolders = 2
    MaxTime = 4
    MaxGen = 2
SPECIFICATION Spec
INVARIANTS
    TypeOK
    LeasedGenerationStays
    LeaseStaysInRow
CHECK_DEADLOCK FALSE
