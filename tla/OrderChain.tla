------------------------------ MODULE OrderChain ------------------------------
(***************************************************************************)
(* What the guarded gateway promises of an entry order and the orders that *)
(* replace it, whatever devices, crashes, retries and reconciliations      *)
(* there are: an order is on record before it is sent, goes out once at    *)
(* most, never beside the order it replaces, and the application takes it  *)
(* for over only when it is, or is being cancelled.                        *)
(***************************************************************************)
CONSTANTS Cid,        \* client order ids
          NoCid,      \* "no client order id"
          Replaces    \* the order another one replaces, or NoCid

VARIABLES stage,      \* how far each order has come
          over        \* the orders the application takes for over

vars == <<stage, over>>

Stage == {"new", "journaled", "retired", "sent", "lost",
          "live", "cancelling", "cancelled", "done"}

Init == stage = [c \in Cid |-> "new"] /\ over = {}

Becomes(c, s) == stage' = [stage EXCEPT ![c] = s]

(* A replacement is put on record only when the broker has cancelled the     *)
(* order it replaces.                                                        *)
Journal(c) ==
    /\ stage[c] = "new"
    /\ Replaces[c] # NoCid => stage[Replaces[c]] = "cancelled"
    /\ Becomes(c, "journaled") /\ UNCHANGED over

(* An attempt that is given up before the call is never sent.                *)
Retire(c) == stage[c] = "journaled" /\ Becomes(c, "retired") /\ over' = over \cup {c}

Send(c) == stage[c] = "journaled" /\ Becomes(c, "sent") /\ UNCHANGED over

(* The broker refuses the order or never receives it, or works it.           *)
Arrive(c) ==
    /\ stage[c] = "sent"
    /\ \E s \in {"lost", "live"} : Becomes(c, s)
    /\ UNCHANGED over

(* A cancel is under way, which a fill or another ending may still overtake. *)
Cancel(c) == stage[c] = "live" /\ Becomes(c, "cancelling") /\ UNCHANGED over

End(c) ==
    /\ stage[c] \in {"live", "cancelling"}
    /\ \E s \in {"cancelled", "done"} : Becomes(c, s)
    /\ UNCHANGED over

Conclude(C) ==
    /\ \A c \in C : stage[c] \in {"lost", "cancelling", "cancelled", "done"}
    /\ over' = over \cup C
    /\ UNCHANGED stage

Next ==
    \/ \E c \in Cid : Journal(c) \/ Retire(c) \/ Send(c) \/ Arrive(c) \/ Cancel(c) \/ End(c)
    \/ \E C \in SUBSET Cid : Conclude(C)

Spec == Init /\ [][Next]_vars
=============================================================================
