\* A partial sell asked for before the open.
SPECIFICATION Spec
CONSTANTS
    Shares = 2
    StartsOpen = FALSE
    UiCommands = {"RequestPartialSell"}
    MaxCommands = 1
    MaxStops = 0
    MaxOrders = 3
    MaxRejects = 0
    MaxUnknown = 0
    MaxCrashes = 0
    MaxGaps = 0
    UiDuringPass = FALSE
INVARIANT DemandHasCause
