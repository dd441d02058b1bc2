\* Safety of the gateway: failover, one device with faults, early cancel answers.
SPECIFICATION MCSpec
CONSTANTS
    o1 = o1
    r1 = r1
    NoCid = NoCid
    Cid = {o1, r1}
    Replaces <- MCReplaces
    Root <- MCRoot
    d1 = d1
    d2 = d2
    Device = {d1, d2}
    k1 = k1
    CancelId = {k1}
    Qty = 1
    MaxCrashes = 0
    MaxEpoch = 2
    CancelAckMayPrecedeCancel = TRUE
    SnapshotMayBePartial = FALSE
    DatabaseMayFail = FALSE
    LateEndings = {}
INVARIANTS
    AtMostOnceSend
    NeverTwoLegs
    TerminalMeansOver
    JournaledBeforeBroker
PROPERTIES
    LegalOrderStep
    ImplementsChain
