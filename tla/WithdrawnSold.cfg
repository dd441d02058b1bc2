\* A queued exit withdrawn between the plan of the pass and its command.
SPECIFICATION Spec
CONSTANTS
    Shares = 2
    StartsOpen = FALSE
    UiCommands = {"RequestSellAll", "CancelQueuedSellAll"}
    MaxCommands = 2
    MaxStops = 0
    MaxOrders = 3
    MaxRejects = 0
    MaxUnknown = 0
    MaxCrashes = 0
    MaxGaps = 0
    UiDuringPass = TRUE
PROPERTY SoldOnDemand
