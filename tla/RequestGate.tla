----------------------------- MODULE RequestGate -----------------------------
(****************************************************************************)
(* What the callers of the request scheduler rely on: one request at a      *)
(* time goes to the broker, the most urgent first, and a mutation that the  *)
(* broker has taken on, or whose fate is in doubt, never goes out again.    *)
(****************************************************************************)
EXTENDS Naturals

CONSTANTS Request,    \* the requests
          Mutations,  \* those that change something at the broker
          Priority    \* their priority, 1 is the most urgent

VARIABLE phase

Init == phase = [r \in Request |-> "idle"]

Becomes(r, to) == phase' = [phase EXCEPT ![r] = to]

Asks(r) == phase[r] = "idle" /\ Becomes(r, "waiting")

Served(r) ==
    /\ phase[r] = "waiting"
    /\ \A q \in Request :
         /\ phase[q] \notin {"served", "out", "taken"}
         /\ phase[q] = "waiting" => Priority[r] <= Priority[q]
    /\ Becomes(r, "served")

(* A request that is turned down has not been at the broker.                 *)
TurnedDown(r) ==
    /\ phase[r] = "served"
    /\ Becomes(r, IF r \in Mutations THEN "over" ELSE "idle")

GoesOut(r) == phase[r] = "served" /\ Becomes(r, "out")

(* The broker takes a mutation on: from here it must not go out again.       *)
Taken(r) == r \in Mutations /\ phase[r] = "out" /\ Becomes(r, "taken")

Answered(r) ==
    \/ phase[r] = "out" /\ Becomes(r, "idle")
    \/ /\ phase[r] \in {"out", "taken"} /\ r \in Mutations
       /\ \E end \in {"over", "doubt"} : Becomes(r, end)

Next == \E r \in Request :
    Asks(r) \/ Served(r) \/ TurnedDown(r) \/ GoesOut(r) \/ Taken(r) \/ Answered(r)

Spec == Init /\ [][Next]_phase
=============================================================================
