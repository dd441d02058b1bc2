----------------------------- MODULE MCOperators -----------------------------
(* Requests for one card:                                                     *)
(*   "calm"    three, of which two exclude each other; control and lease      *)
(*             move, nothing fails, nobody else writes the card;              *)
(*   "faults"  two, and an executor crashes, is taken over or cannot write    *)
(*             an answer; the control stays where it is.                      *)
EXTENDS OperatorCommands, TLC

CONSTANTS c1, c2, c3

VARIABLE scenario

MCConflict == (c1 :> {c1, c2}) @@ (c2 :> {c1, c2}) @@ (c3 :> {c3})

ASSUME CommandAssumption

Two == INSTANCE OperatorCommands WITH Command <- {c1, c3}

Calm ==
    /\ taken' = taken
    /\ \A what \in {"crashes", "failures", "writes"} : left'[what] = left[what]

MCInit == Init /\ scenario \in {"calm", "faults"}

MCNext ==
    /\ UNCHANGED scenario
    /\ \/ scenario = "calm" /\ Next /\ Calm
       \/ scenario = "faults" /\ Two!Next /\ UNCHANGED control

MCSpec ==
    /\ MCInit /\ [][MCNext]_<<vars, scenario>>
    /\ WF_vars(Claimed /\ UNCHANGED scenario)
    /\ \A d \in Device : WF_vars(_process_operator_commands(d) /\ UNCHANGED scenario)

-----------------------------------------------------------------------------
(* EveryRequestAnswered of OperatorCommands where nothing fails: a request    *)
(* gets its answer on whichever device the lease ends up                      *)
(* (require_operator_handoff_clear, _process_operator_commands).              *)
AnsweredWhenCalm ==
    \A c \in Command :
        (scenario = "calm" /\ cmd[c].status = "PENDING") ~> (cmd[c].status \in Answer)
===============================================================================
