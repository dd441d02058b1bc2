SPECIFICATION LiveSpec
CONSTANTS
    MaxPrice = 3
    OrbLow = 1
    Breakeven = 2
    FirstStatus = "OPEN_POSITION"
    MaxRequests = 1
    MaxTrades = 3
    MaxRemote = 0
    MaxFills = 0
    CrossDevice = FALSE
    LoadBeforeCommit = FALSE
PROPERTIES
    HandoffLiquidates
