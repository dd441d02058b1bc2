-------------------------- MODULE MCEmergencyJournal --------------------------
(* Two protective exits and a cancellation of the first, in one of two        *)
(* surroundings:                                                              *)
(*   "two"     both exits, an outage and a crash;                             *)
(*   "faults"  the first exit alone, two outages and two crashes.             *)
EXTENDS EmergencyJournal, TLC

CONSTANTS o1

VARIABLE scenario

TargetOfCancels == [c \in Cancel |-> o1]

ASSUME AllowanceAssumption /\ TargetAssumption

(* The constants of the configuration are those of "two".  The functions of   *)
(* "faults" keep an entry for the exit that is never asked for.               *)
Faults == INSTANCE EmergencyJournal WITH
    Order <- {o1}, MaxOutages <- 2, MaxCrashes <- 2

MCInit == Init /\ scenario \in {"two", "faults"}

MCNext ==
    /\ UNCHANGED scenario
    /\ \/ scenario = "two" /\ Next
       \/ scenario = "faults" /\ Faults!Next

Of(A) == A /\ UNCHANGED scenario

(* The fairness of LiveSpec; its actions name no constant in which the two    *)
(* surroundings differ.                                                       *)
MCSpec ==
    /\ MCInit /\ [][MCNext]_<<vars, scenario>>
    /\ WF_vars(Of(ProbeSucceeds)) /\ WF_vars(Of(Fold)) /\ WF_vars(Of(CallBroker))
    /\ WF_vars(Of(append_outcome)) /\ WF_vars(Of(Restart))
===============================================================================
