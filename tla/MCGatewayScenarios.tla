-------------------------- MODULE MCGatewayScenarios --------------------------
(* The order gateway in one of three surroundings:                            *)
(*   "two"    two devices, between which the lease moves at any step of a     *)
(*            command;                                                        *)
(*   "one"    one device with a crash, transactions that fail, partial        *)
(*            snapshots and every way in which the broker may end an order;   *)
(*   "early"  one device, two crashes and cancel answers that come before the *)
(*            cancel.                                                         *)
(* The properties are those of OrderGateway itself, whose exception for early *)
(* cancel answers the third surrounding needs.                                *)
EXTENDS MCOrderGateway

VARIABLE scenario

Two == INSTANCE OrderGateway WITH CancelAckMayPrecedeCancel <- FALSE

One == INSTANCE OrderGateway WITH
    Device <- {d1}, Qty <- 2, MaxCrashes <- 1, MaxEpoch <- 1,
    CancelAckMayPrecedeCancel <- FALSE, SnapshotMayBePartial <- TRUE,
    DatabaseMayFail <- TRUE, LateEndings <- {"expired", "rejected"}

Early == INSTANCE OrderGateway WITH
    Device <- {d1}, Qty <- 2, MaxCrashes <- 2, MaxEpoch <- 1,
    CancelAckMayPrecedeCancel <- TRUE, SnapshotMayBePartial <- TRUE,
    DatabaseMayFail <- FALSE, LateEndings <- {"expired", "rejected"}

MCInit == Init /\ scenario \in {"two", "one", "early"}

MCNext ==
    /\ UNCHANGED scenario
    /\ \/ scenario = "early" /\ Early!Next
       \/ scenario = "one" /\ One!Next
       \/ scenario = "two" /\ Two!Next

MCSpec == MCInit /\ [][MCNext]_<<vars, scenario>>

===============================================================================
