\* The entry of a plan: cancels, exits, doubtful and rejected BUYs, crashes.
SPECIFICATION MCLiveSpec
CONSTANTS
    Target = 3
    MaxOrders = 3
    UiCommands = {"CancelEntry", "RequestSellAll"}
    Bounds <- TableBounds
    Scenarios = {"calm", "doubt", "crash", "retried"}
INVARIANTS
    BoughtWithinPlan
    NothingLeftBehind
PROPERTIES
    SellWaitsForBuy
    NoBuyAfterCancel
    SharesEndProtected
    UnwantedBuysEnd
