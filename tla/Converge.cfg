\* What the heartbeat brings to an end, with a crash and with a failover.
SPECIFICATION MCSpec
CONSTANTS
    o1 = o1
    r1 = r1
    NoCid = NoCid
    Cid = {o1, r1}
    Replaces <- MCReplaces
    Root <- MCRoot
    d1 = d1
    d2 = d2
    Device = {d1, d2}
    k1 = k1
    CancelId = {}
    Qty = 1
    MaxCrashes = 0
    MaxEpoch = 2
    CancelAckMayPrecedeCancel = FALSE
    SnapshotMayBePartial = FALSE
    DatabaseMayFail = FALSE
    LateEndings = {}
PROPERTIES
    LedgerConverges
    CapitalComesBack
