------------------------------- MODULE MCEntry -------------------------------
(* The entry of a plan of three shares in one of these scenarios:             *)
(*   "calm"     three commands and two stop breaches, no fault;               *)
(*   "doubt"    a command, a stop breach, a pass with a gap, a BUY without an *)
(*              answer, a rejected one, one aborted at the last gate;         *)
(*   "crash"    a crash, perhaps between an identity and the call it was      *)
(*              stored for, with a command, a stop breach and a gap;          *)
(*   "retried"  a misrouted BUY, a rejected one, a command and a stop breach. *)
(* Each further one allows a single divergence and what it takes.             *)
EXTENDS EntryLifecycle

CONSTANT Scenarios

VARIABLE scenario

Few(b) == [missed |-> 0, waiting |-> 0, misrouted |-> 0, refused |-> 0, beside |-> 0,
           commands |-> b, stops |-> b, gaps |-> b, unknown |-> 0, rejects |-> b,
           aborts |-> b, crashes |-> 0]

Table ==
    [calm |-> [Few(0) EXCEPT !.commands = 3, !.stops = 2],
     doubt |-> [Few(1) EXCEPT !.unknown = 1],
     crash |-> [Few(1) EXCEPT !.rejects = 0, !.aborts = 0, !.crashes = 1],
     retried |-> [Few(0) EXCEPT !.commands = 1, !.stops = 1, !.misrouted = 1, !.rejects = 1],
     missed |-> [Few(0) EXCEPT !.commands = 1, !.missed = 1],
     waiting |-> [Few(0) EXCEPT !.commands = 1, !.waiting = 1],
     misrouted |-> [Few(0) EXCEPT !.misrouted = 1],
     refused |-> [Few(0) EXCEPT !.commands = 1, !.refused = 1],
     beside |-> [Few(0) EXCEPT !.commands = 1, !.beside = 1],
     aborted |-> [Few(0) EXCEPT !.aborts = 1, !.crashes = 1],
     fenced |-> [Few(0) EXCEPT !.commands = 1, !.crashes = 1]]

TableBounds == {Table[s] : s \in Scenarios}

mcvars == <<vars, scenario>>

MCInit == Init /\ scenario \in Scenarios /\ left = Table[scenario]

MCSpec == MCInit /\ [][Next /\ UNCHANGED scenario]_mcvars

MCLiveSpec == MCSpec /\ Fairness

-----------------------------------------------------------------------------
(* CancelEndsBuy and ExitReachesSale of EntryLifecycle, without faults: what  *)
(* the operator cancels stops working, and an exit gets past a working BUY    *)
(* (_entry_conflict_clear_for_liquidation).                                   *)
UnwantedBuysEnd ==
    /\ (scenario = "calm" /\ row.asked /\ LiveBuys # {}) ~> LiveBuys = {}
    /\ (scenario = "calm" /\ row.exitAll) ~> (at = "sold" \/ ~row.exitAll)
===============================================================================
