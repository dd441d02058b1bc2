\* Two devices that trade, alone or overlapping, and two entries.
SPECIFICATION Spec
CONSTANTS
    d1 = d1
    d2 = d2
    e1 = e1
    e2 = e2
    Device = {d1, d2}
    Entry = {e1, e2}
    Cash = 3
    MaxAmount = 2
    MaxReplaces = 1
INVARIANTS
    OrderCovered
    ReservedWithinCash
SYMMETRY Symmetry
CHECK_DEADLOCK FALSE
