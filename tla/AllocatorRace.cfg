SPECIFICATION Spec
CONSTANTS
    Device = {d1, d2}
    Entry = {e1, e2}
    Power = 3
    MaxAmount = 2
    MaxCrashes = 1
    MaxVersion = 2
INVARIANTS
    ReservedWithinPower
CHECK_DEADLOCK FALSE
