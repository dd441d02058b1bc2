SPECIFICATION Spec
CONSTANTS
    MaxPrice = 3
    OrbLow = 1
    Breakeven = 2
    FirstStatus = "PARTIAL_SELL"
    MaxRequests = 1
    MaxTrades = 0
    MaxRemote = 0
    MaxFills = 1
    CrossDevice = FALSE
    LoadBeforeCommit = FALSE
PROPERTIES
    StopNeverWidened
