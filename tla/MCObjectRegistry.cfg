CONSTANTS
    p1 = p1
    p2 = p2
    Earlier = Earlier
    NoRow = NoRow
    Callers <- MCCallers
    MaxCalls <- MCMaxCalls
    MaxDeleteAttempts = 2
    MaxSends = 2
    Stores <- MCStores
SPECIFICATION Spec
PROPERTIES
    ImplementsRegistry
CHECK_DEADLOCK FALSE
