SPECIFICATION Spec
CONSTANTS
    MaxPrice = 3
    OrbLow = 1
    Breakeven = 2
    FirstStatus = "OPEN_POSITION"
    MaxRequests = 0
    MaxTrades = 1
    MaxRemote = 1
    MaxFills = 0
    CrossDevice = TRUE
    LoadBeforeCommit = FALSE
INVARIANTS
    BreachIsKept
