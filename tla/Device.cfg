\* The lease between two devices, and the lock file of a device.
SPECIFICATION MCSpec
CONSTANTS
    Device = {pc1, laptop}
    AutoClaim = {pc1}
    None = None
    MaxCrashes = 1
    MaxStalls = 0
    MaxDemotes = 1
    MaxSwitches = 0
    MaxCloses = 1
    CloseDuringClaim = FALSE
    p1 = p1
    p2 = p2
    p3 = p3
PROPERTIES
    LockIsBroken
    FencedForGood
    LiveOwnerKept
    ProtectedInTheEnd
CHECK_DEADLOCK FALSE
