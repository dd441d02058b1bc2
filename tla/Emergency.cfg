\* Protective exits of a device cut off from the database.
SPECIFICATION MCSpec
CONSTANTS
    o1 = o1
    Order = {o1, o2}
    Cancel = {c1}
    Target <- TargetOfCancels
    Allowance = 1
    CallTime = 1
    TakeoverAfter = 3
    MaxOutages = 1
    MaxCrashes = 1
    None = None
INVARIANTS
    NeverBesideNewOwner
    SentAtMostOnce
    DeadRowIsDead
PROPERTIES
    FoldedInTheEnd
CHECK_DEADLOCK FALSE
