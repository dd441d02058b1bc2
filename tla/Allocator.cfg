\* The legacy allocator: two entries seen by two devices.
SPECIFICATION Spec
CONSTANTS
    Device = {d1, d2}
    Entry = {e1, e2}
    Power = 3
    MaxAmount = 2
    MaxCrashes = 1
    MaxVersion = 3
INVARIANTS
    MirrorFollows
PROPERTIES
    ClosedForGood
CHECK_DEADLOCK FALSE
