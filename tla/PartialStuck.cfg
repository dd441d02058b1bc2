\* A rejected partial sell and a crash before the card is stored.
SPECIFICATION LiveSpec
CONSTANTS
    Shares = 2
    StartsOpen = TRUE
    UiCommands = {"RequestPartialSell"}
    MaxCommands = 1
    MaxStops = 0
    MaxOrders = 3
    MaxRejects = 1
    MaxUnknown = 0
    MaxCrashes = 1
    MaxGaps = 0
    UiDuringPass = FALSE
PROPERTY PartialCompletes
