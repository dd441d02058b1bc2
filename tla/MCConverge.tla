------------------------------ MODULE MCConverge ------------------------------
(* What the heartbeat brings to an end, in one of two surroundings:           *)
(*   "one"  one device with a crash, a plain cancel, cancel answers that come *)
(*          before the cancel and every way in which the broker may end an    *)
(*          order;                                                            *)
(*   "two"  two devices, between which the lease moves at any step of a       *)
(*          command.                                                          *)
EXTENDS MCOrderGateway

VARIABLE scenario

(* The constants of the configuration are those of "two".                    *)
One == INSTANCE OrderGateway WITH
    Device <- {d1}, CancelId <- {k1}, Qty <- 2, MaxCrashes <- 1, MaxEpoch <- 1,
    CancelAckMayPrecedeCancel <- TRUE, LateEndings <- {"expired", "rejected"}

MCInit == \/ scenario = "one" /\ One!Init
          \/ scenario = "two" /\ Init

Either(O, T) == /\ UNCHANGED scenario
                /\ \/ scenario = "one" /\ O
                   \/ scenario = "two" /\ T

(* The fairness of LiveSpec in OrderGateway.                                  *)
MCSpec ==
    /\ MCInit /\ [][Either(One!Next, Next)]_<<vars, scenario>>
    /\ WF_vars(Either(One!Continue(d1), Continue(d1)))
    /\ WF_vars(Either(One!RecSnapshot(d1), RecSnapshot(d1)))
    /\ WF_vars(Either(One!Boot(d1), Boot(d1)))
    /\ WF_vars(Either(FALSE, Continue(d2)))
    /\ WF_vars(Either(FALSE, RecSnapshot(d2)))
    /\ WF_vars(Either(FALSE, Boot(d2)))
===============================================================================
