\* Two devices, two entries: a hold that an overlapping pass shrinks below its order.
\* CashCoversOrders in place of Covered: a balance read before the orders.
SPECIFICATION Spec
CONSTANTS
    d1 = d1
    d2 = d2
    e1 = e1
    e2 = e2
    Device = {d1, d2}
    Entry = {e1, e2}
    Cash = 2
    MaxAmount = 2
    MaxReplaces = 1
INVARIANTS
    Covered
