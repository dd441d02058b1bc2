\* An exit of the account pass while the completion BUY works.
SPECIFICATION MCSpec
CONSTANTS
    Target = 3
    MaxOrders = 3
    UiCommands = {"CancelEntry", "RequestSellAll"}
    Bounds <- TableBounds
    Scenarios = {"beside"}
PROPERTIES
    SellWaitsForBuy
