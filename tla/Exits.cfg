\* The exit of one position: rejects, missing answers, gaps and a crash.
SPECIFICATION MCSpec
CONSTANTS
    Shares = 2
    StartsOpen = TRUE
    UiCommands = {"RequestPartialSell", "CancelPartialSell", "RequestSellAll"}
    MaxCommands = 2
    MaxStops = 1
    MaxOrders = 3
    MaxRejects = 1
    MaxUnknown = 1
    MaxCrashes = 1
    MaxGaps = 1
    UiDuringPass = FALSE
INVARIANTS
    OneSell
    ClosedIsFlat
    DemandHasCause
PROPERTIES
    SoldOnDemand
