CONSTANTS
    Calls <- MCCalls
    MaxFaults = 1
SPECIFICATION FairSpec
INVARIANTS
    PublishedIsExact
    BudgetsHold
PROPERTIES
    NothingStaleIsPublished
    EveryOutputSettles
CHECK_DEADLOCK FALSE
