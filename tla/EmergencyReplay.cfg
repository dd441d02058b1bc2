\* NothingSoldAfterLeaseLoss as INVARIANT in its place: a sell after the switch of the operator.
SPECIFICATION MCSpec
CONSTANTS
    o1 = o1
    Order = {o1}
    Cancel = {}
    Target <- TargetOfCancels
    Allowance = 1
    CallTime = 1
    TakeoverAfter = 3
    MaxOutages = 1
    MaxCrashes = 2
    None = None
PROPERTIES
    FoldedOnce
CHECK_DEADLOCK FALSE
