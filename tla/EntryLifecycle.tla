---------------------------- MODULE EntryLifecycle ----------------------------
(***************************************************************************)
(* The entry of one plan: the durable card in Buy Today, the BUY orders    *)
(* the worker sends for it, the cancel of an entry, the account pass that  *)
(* projects fills and refusals onto the card, and the fence that keeps a   *)
(* liquidation from being sent beside a working BUY.  It ends where the    *)
(* card leaves the board or a SELL is sent; ExitLifecycle goes on there.   *)
(*                                                                         *)
(* The orders of the plan share one attempt group, so a BUY is its attempt *)
(* number; the ledger row has the status `rec`, the broker's order the     *)
(* state `st`.  As in ExitLifecycle the worker is one thread, and the      *)
(* operator and the broker move between its steps.                         *)
(***************************************************************************)
EXTENDS Naturals, Sequences, FiniteSets, SequencesExt

CONSTANTS Target,      \* shares of the plan
          MaxOrders,   \* bound on BUY orders
          UiCommands,  \* commands the operator may give
          Bounds       \* values `left` may start with: how often each kind of
                       \* fault, command or known divergence may occur

(* What the bounds are about: commands of the operator and stop breaches;    *)
(* gaps in a pass; BUYs without an answer (unknown), rejected, misrouted or  *)
(* aborted at the last gate; crashes.  Then what some properties do not      *)
(* survive: a first fill missed by the pass, a cancel of a card that waits   *)
(* for its BUY, a refused completion, a liquidation beside a working BUY.    *)
Kinds == {"commands", "stops", "gaps", "unknown", "rejects", "misrouted", "aborts",
          "crashes", "missed", "waiting", "refused", "beside"}

ASSUME EntryAssumption ==
    /\ Target \in Nat \ {0} /\ MaxOrders \in Nat
    /\ UiCommands \subseteq {"CancelEntry", "RequestSellAll"}
    /\ Bounds \subseteq [Kinds -> Nat]

VARIABLES row,     \* trade_cards: the durable card
          cache,   \* the worker's copy
          current, \* who has read the version the row has now
          at,      \* where the worker is
          plan,    \* the account pass wants to liquidate
          seen,    \* holdings the account pass has fetched; Missing: failed
          ords,    \* BUY orders, oldest first
          held,    \* shares at the broker
          ui,      \* the operator's command under way
          left     \* what is left of the bounds

vars == <<row, cache, current, at, plan, seen, ords, held, ui, left>>
broker == <<ords, held>>
worker == <<cache, at, plan, seen>>

Missing == Target + 1
Idle == "none"

(* asked: entry_block_reason is cancel_requested; rest: the remaining target *)
(* quantity; cancel: the order entry_cancel_command_id was made for.         *)
Card == [status |-> "BUY_TODAY", asked |-> FALSE, id |-> 0, group |-> FALSE, count |-> 0,
         qty |-> 0, rest |-> 0, unresolved |-> FALSE, inflight |-> FALSE, cancel |-> 0,
         exitAll |-> FALSE, stop |-> FALSE]

Init ==
    /\ row = Card /\ cache = Card /\ current = {} /\ at = "load"
    /\ plan = FALSE /\ seen = 0
    /\ ords = <<>> /\ held = 0 /\ ui = Idle
    /\ left \in Bounds

Writes(c, who) == row' = c /\ current' = who
Unwritten == UNCHANGED <<row, current>>
Fresh == "worker" \in current

Less(bound) == left[bound] > 0 /\ left' = [left EXCEPT ![bound] = @ - 1]

Gap(n) == IF Target > n THEN Target - n ELSE 0

-----------------------------------------------------------------------------
(* The ledger and the broker.                                                *)

OpenRec(o) == o.rec \in {"WORKING", "CANCEL_PENDING", "UNKNOWN"}
Live(o) == o.st = "open"
LiveBuys == {i \in DOMAIN ords : Live(ords[i])}

(* find_runtime_order for a BUY: 0 if no order of the plan is open.          *)
find_open_entry_order ==
    LET found == {i \in DOMAIN ords : OpenRec(ords[i])}
    IN  IF found = {} THEN 0 ELSE Min(found)

(* A first fill that the fetch of the holdings has just missed is counted.   *)
BrokerFills(i) ==
    /\ Live(ords[i])
    /\ IF at = "reduce" /\ held = 0 THEN Less("missed") ELSE UNCHANGED left
    /\ ords' = [ords EXCEPT ![i].filled = @ + 1,
                            ![i].st = IF ords[i].filled + 1 = ords[i].qty THEN "done" ELSE @]
    /\ held' = held + 1
    /\ UNCHANGED <<row, current, worker, ui>>

BrokerCancels(i) ==
    /\ Live(ords[i]) /\ ords[i].rec = "CANCEL_PENDING"
    /\ ords' = [ords EXCEPT ![i].st = "done"]
    /\ UNCHANGED <<row, current, worker, held, ui, left>>

-----------------------------------------------------------------------------
(* What the handlers do to a card.                                           *)

_card_tracks_order(c, o) == c.id = o.id \/ c.group

_clear_entry_card_tracking(c, retire) ==
    [c EXCEPT !.id = 0, !.cancel = 0, !.inflight = FALSE, !.unresolved = FALSE,
              !.group = IF retire THEN FALSE ELSE @]

(* The broker never took the order: the plan is given up, unless it already  *)
(* holds shares.                                                             *)
_apply_definitive_entry_nonacceptance(c) ==
    [_clear_entry_card_tracking(c, TRUE) EXCEPT
        !.count = 0, !.rest = 0, !.asked = FALSE,
        !.status = IF c.qty > 0 THEN "OPEN_POSITION" ELSE "BUYLIST"]

confirm_flat(c) ==
    [_clear_entry_card_tracking(c, TRUE) EXCEPT
        !.status = "CLOSED", !.count = 0, !.qty = 0, !.rest = 0, !.exitAll = FALSE,
        !.stop = FALSE]

start_sell_all(c) == [c EXCEPT !.exitAll = TRUE, !.status = "SELL_ALL"]

-----------------------------------------------------------------------------
(* The operator's thread.                                                    *)

_require_board_action_not_conflicted(cmd, c) ==
    /\ ~c.unresolved /\ ~c.inflight
    /\ \A o \in Range(ords) : OpenRec(o) => o.rec # "UNKNOWN" /\ _card_tracks_order(c, o)
    /\ CASE cmd = "CancelEntry" -> ~c.asked /\ c.status \in {"BUY_TODAY", "ENTRY_PENDING"}
         [] cmd = "RequestSellAll" -> c.status = "OPEN_POSITION"

_apply_board_mutation(cmd, c) ==
    IF cmd = "RequestSellAll" THEN start_sell_all(c)
    ELSE IF c.status = "BUY_TODAY" /\ c.id = 0
    THEN [c EXCEPT !.status = "BUYLIST", !.asked = FALSE, !.group = FALSE, !.count = 0,
                   !.unresolved = FALSE]
    ELSE [c EXCEPT !.asked = TRUE]

(* The cancel of an entry that still waits for its BUY has its own bound.    *)
UiAsks(cmd) ==
    /\ ui = Idle
    /\ Less(IF cmd = "CancelEntry" /\ row.status = "BUY_TODAY" /\ row.id # 0
            THEN "waiting" ELSE "commands")
    /\ _require_board_action_not_conflicted(cmd, row)
    /\ ui' = cmd /\ current' = current \cup {"ui"}
    /\ UNCHANGED <<row, worker, broker>>

UiWrites ==
    /\ ui # Idle /\ ui' = Idle
    /\ IF "ui" \in current THEN Writes(_apply_board_mutation(ui, row), {}) ELSE Unwritten
    /\ UNCHANGED <<worker, broker, left>>

-----------------------------------------------------------------------------
(* The account pass.                                                         *)

Go(to) == at' = to

Load ==
    /\ at \in {"load", "load again"} /\ Go("tick") /\ cache' = row
    /\ current' = current \cup {"worker"}
    /\ UNCHANGED <<row, plan, seen, broker, ui, left>>

Fetch ==
    /\ at \in {"startup", "load"} /\ Go("reduce")
    /\ seen' = held
    /\ UNCHANGED <<row, current, cache, plan, broker, ui, left>>

FetchFails ==
    /\ at \in {"startup", "load"} /\ Go("reduce")
    /\ Less("gaps") /\ seen' = Missing
    /\ UNCHANGED <<row, current, cache, plan, broker, ui>>

(* An order the broker knows by its exact identity.                          *)
Exact(o) == o.rec \notin {"UNKNOWN", "REJECTED", "ABORTED"}

Reported(o) ==
    IF ~Exact(o) \/ Live(o) THEN o
    ELSE [o EXCEPT !.rec = IF o.filled = o.qty THEN "FILLED" ELSE "CANCELLED"]

(* The local orders first: a durable refusal, an open order of a waiting card.*)
Classified(c, o) ==
    LET d == IF /\ _card_tracks_order(c, o) /\ o.rec = "REJECTED"
                /\ c.status \in {"BUY_TODAY", "ENTRY_PENDING", "OPEN_POSITION"}
             THEN _apply_definitive_entry_nonacceptance(c) ELSE c
    IN  IF /\ _card_tracks_order(d, o) /\ o.rec \in {"WORKING", "CANCEL_PENDING"}
           /\ d.status = "BUY_TODAY"
        THEN [d EXCEPT !.status = "ENTRY_PENDING", !.group = TRUE, !.count = o.id]
        ELSE d

(* Variant: what a cancelled order has not bought stays to be bought.        *)
ProjectFillKeepsRest(c, o) ==
    LET q == IF seen \in {0, Missing} THEN Max({c.qty, o.filled}) ELSE seen
        d == [c EXCEPT !.status = "OPEN_POSITION", !.qty = q, !.rest = Gap(q), !.stop = TRUE,
                       !.id = o.id]
    IN  IF Live(o) THEN d ELSE _clear_entry_card_tracking(d, TRUE)

(* Variant: the position is opened when the order is over, not at the fill.  *)
ProjectFillAtEnd(c, o) ==
    IF Live(o) THEN [c EXCEPT !.status = "ENTRY_PENDING", !.id = o.id]
    ELSE [_clear_entry_card_tracking(c, TRUE) EXCEPT !.rest = 0, !.status = "OPEN_POSITION",
            !.qty = IF seen \in {0, Missing} THEN Max({c.qty, o.filled}) ELSE seen]

(* A report of an order with fills: the position is open and has its stop.   *)
ProjectFill(c, o) ==
    LET q == IF seen \in {0, Missing} THEN Max({c.qty, o.filled}) ELSE seen
        d == [c EXCEPT !.status = "OPEN_POSITION", !.qty = q, !.rest = Gap(q), !.stop = TRUE,
                       !.id = o.id]
    IN  IF Live(o) THEN d ELSE [_clear_entry_card_tracking(d, TRUE) EXCEPT !.rest = 0]

(* Variant: a cancel that the broker still works on counts as carried out.   *)
ProjectUnfilledEarly(c, o) ==
    IF Live(o) /\ o.rec # "CANCEL_PENDING"
    THEN [c EXCEPT !.status = "ENTRY_PENDING", !.id = o.id]
    ELSE [_clear_entry_card_tracking(c, TRUE) EXCEPT
            !.rest = 0, !.status = IF c.qty > 0 THEN "OPEN_POSITION" ELSE "BUYLIST"]

ProjectUnfilled(c, o) ==
    IF Live(o) THEN [c EXCEPT !.status = "ENTRY_PENDING", !.id = o.id]
    ELSE [_clear_entry_card_tracking(c, TRUE) EXCEPT
            !.rest = 0, !.status = IF c.qty > 0 THEN "OPEN_POSITION" ELSE "BUYLIST"]

_project_exact_order_to_card(c, o) ==
    IF ~Exact(o) \/ ~_card_tracks_order(c, o) THEN c
    ELSE IF o.filled > 0 THEN ProjectFill(c, o)
    ELSE ProjectUnfilled(c, o)

(* The card after all the orders, in the order the pass lists them: what the *)
(* local rows say, or what the broker reports.                               *)
ProjectOrder(of, c, o) ==
    IF of = "local" THEN Classified(c, o) ELSE _project_exact_order_to_card(c, o)

Projected(of, start, seq) ==
    LET c[i \in 0 .. Len(seq)] == IF i = 0 THEN start ELSE ProjectOrder(of, c[i - 1], seq[i])
    IN  c[Len(seq)]

(* The holdings: a card the broker holds shares for is open, with or without *)
(* a stop; a card it holds none for is flat.                                 *)
ProjectHolding(c) ==
    IF seen = Missing THEN c
    ELSE IF seen > 0 THEN
        LET opens == c.status \in {"BUYLIST", "BUY_TODAY", "ENTRY_PENDING"}
        IN  [c EXCEPT !.qty = seen, !.status = IF opens THEN "OPEN_POSITION" ELSE @,
                      !.asked = @ /\ (opens => c.stop)]
    ELSE IF c.qty = 0 THEN c
    ELSE IF c.status \in {"OPEN_POSITION", "SELL_ALL"} THEN confirm_flat(c)
    ELSE [c EXCEPT !.qty = 0]

(* decide_emergency_sell: the BUY orders of the symbol do not enter, except  *)
(* one that the ledger does not know by its identity.                        *)
decide_emergency_sell(c, listed) ==
    /\ c.status = "SELL_ALL" \/ c.exitAll
    /\ seen \notin {0, Missing}
    /\ listed # "none" => \A i \in LiveBuys : ords[i].rec # "UNKNOWN"

Listing(listed, s) == IF listed = "newest first" THEN Reverse(s) ELSE s

Reduce(listed) ==
    /\ at = "reduce" /\ Go("command")
    /\ LET c == Projected("local", row, Listing(listed, ords))
           d == IF listed = "none" THEN c ELSE Projected("broker", c, Listing(listed, ords))
           e == ProjectHolding(d)
       IN  /\ IF e = row THEN Unwritten ELSE Writes(e, {})
           /\ plan' = decide_emergency_sell(e, listed)
    /\ IF listed = "none" THEN Less("gaps") /\ UNCHANGED ords
       ELSE UNCHANGED left /\ ords' = [i \in DOMAIN ords |-> Reported(ords[i])]
    /\ UNCHANGED <<cache, seen, held, ui>>

(* EMERGENCY_SELL_ALL; beside a working BUY it has its own bound.            *)
EmergencySellAll ==
    /\ at = "command" /\ plan /\ Go("sold") /\ plan' = FALSE
    /\ IF LiveBuys = {} THEN UNCHANGED left ELSE Less("beside")
    /\ Writes(row, {})
    /\ UNCHANGED <<cache, seen, broker, ui>>

NoCommand ==
    /\ at = "command" /\ Go("load again") /\ plan' = FALSE
    /\ plan => LiveBuys # {} /\ left.beside = 0
    /\ UNCHANGED <<row, current, cache, seen, broker, ui, left>>

-----------------------------------------------------------------------------
(* Sending a BUY.                                                            *)

(* Variant: an identity the card already has is replaced by the next one.    *)
PrepareNext(c, failed) ==
    LET p == [c EXCEPT !.id = Max({c.id, c.count}) + 1, !.group = TRUE, !.unresolved = FALSE]
    IN  /\ cache' = p
        /\ IF Fresh THEN Writes(p, {"worker"}) /\ Go("send") ELSE Unwritten /\ Go(failed)

(* prepare_entry_identity: an identity the card already has is used again;   *)
(* otherwise the next one is stored under the card's version.                *)
prepare_entry_identity(c, failed) ==
    IF c.id # 0 THEN cache' = c /\ Go("send") /\ Unwritten
    ELSE LET p == [c EXCEPT !.id = c.count + 1, !.group = TRUE, !.unresolved = FALSE]
         IN  /\ cache' = p
             /\ IF Fresh THEN Writes(p, {"worker"}) /\ Go("send")
                ELSE Unwritten /\ Go(failed)

(* _evaluate_buy_today, on a quote or in the heartbeat.  A plan whose quote  *)
(* is not there, or whose price has gone, waits, and the reason for that     *)
(* takes the place of a cancel; so does being promoted again.                *)
Reasons == {cache.asked, FALSE}

EntryWaits ==
    /\ at = "buy" /\ Go("reconcile")
    /\ IF cache.status = "BUY_TODAY"
       THEN \E a \in Reasons : cache' = [cache EXCEPT !.asked = a]
       ELSE UNCHANGED cache
    /\ UNCHANGED <<row, current, plan, seen, broker, ui, left>>

EntryTriggers ==
    /\ at = "buy" /\ cache.status = "BUY_TODAY" /\ Len(ords) < MaxOrders
    /\ \E a \in Reasons : prepare_entry_identity([cache EXCEPT !.asked = a], "reconcile")
    /\ UNCHANGED <<plan, seen, broker, ui, left>>

(* _process_entry_completion: the rest of the plan, once its BUY is gone.    *)
CompletionWanted ==
    /\ cache.status = "OPEN_POSITION" /\ cache.rest > 0 /\ ~cache.exitAll
    /\ ~cache.unresolved /\ find_open_entry_order = 0

CompletionTriggers ==
    /\ at = "complete" /\ CompletionWanted /\ Len(ords) < MaxOrders
    /\ prepare_entry_identity(cache, "sell")
    /\ UNCHANGED <<plan, seen, broker, ui, left>>

CompletionWaits ==
    /\ at = "complete" /\ Go("sell")
    /\ UNCHANGED <<row, current, cache, plan, seen, broker, ui, left>>

(* What the gateway answers, and what the card becomes.                      *)
Waiting == cache.status = "BUY_TODAY"
Ids == {ords[i].id : i \in DOMAIN ords}

Answered(c) ==
    /\ Go(IF Waiting THEN "reconcile" ELSE "sell") /\ cache' = c /\ Unwritten
    /\ UNCHANGED <<plan, seen, held, ui>>

NewOrder(st, rec) ==
    Append(ords, [id |-> cache.id, qty |-> IF Waiting THEN Target ELSE cache.rest,
                  filled |-> 0, st |-> st, rec |-> rec])

Consumed(c) == [c EXCEPT !.count = IF Waiting THEN Max({@, c.id}) ELSE @]

Entered(unresolved) ==
    [Consumed(cache) EXCEPT !.status = IF Waiting THEN "ENTRY_PENDING" ELSE @,
                            !.unresolved = unresolved, !.asked = @ /\ unresolved]

(* The attempt is over and the card may try again with another identity.     *)
Retries(c) == [c EXCEPT !.id = 0, !.unresolved = FALSE]

SendAccepted ==
    /\ at = "send" /\ cache.id \notin Ids
    /\ ords' = NewOrder("open", "WORKING")
    /\ Answered(Entered(FALSE)) /\ UNCHANGED left

SendUnanswered ==
    /\ at = "send" /\ cache.id \notin Ids /\ Less("unknown")
    /\ \E st \in {"open", "none"} : ords' = NewOrder(st, "UNKNOWN")
    /\ Answered(Entered(TRUE))

SendDuplicate ==
    /\ at = "send" /\ cache.id \in Ids
    /\ Answered(Entered(TRUE)) /\ UNCHANGED <<ords, left>>

SendRejected ==
    /\ at = "send" /\ cache.id \notin Ids /\ Less("rejects")
    /\ ords' = NewOrder("none", "REJECTED")
    /\ Answered(_apply_definitive_entry_nonacceptance(cache))

(* The route was wrong: the plan stays and is tried again.                   *)
SendMisrouted ==
    /\ at = "send" /\ cache.id \notin Ids /\ Less("misrouted")
    /\ ords' = NewOrder("none", "REJECTED")
    /\ Answered([Retries(Consumed(cache)) EXCEPT !.asked = FALSE])

(* The last gate before the broker closes: the identity is used up.          *)
SendAborted ==
    /\ at = "send" /\ cache.id \notin Ids /\ Less("aborts")
    /\ ords' = NewOrder("none", "ABORTED")
    /\ Answered(Retries(Consumed(cache)))

(* Refused before anything is written: ownership, lease, budget, risk.       *)
SendRefused ==
    /\ at = "send"
    /\ IF Waiting THEN UNCHANGED left ELSE Less("refused")
    /\ Answered(Retries(cache)) /\ UNCHANGED ords

(* No capital, a cooldown or the rate limit: the identity is kept.           *)
SendHeldBack ==
    /\ at = "send"
    /\ Answered(cache) /\ UNCHANGED <<ords, left>>

-----------------------------------------------------------------------------
(* The working BUY.                                                          *)

(* Cancel of order i for card c: the command id is stored under the card's   *)
(* version before the broker is asked; one that was sent for another order   *)
(* is a duplicate.  The broker confirms, takes the cancel on (or does not    *)
(* answer), or has nothing left to cancel.  done is the card after a         *)
(* confirmed cancel.                                                         *)
CanCancel(i, c) ==
    ords[i].rec = "WORKING" /\ c.cancel \in {0, ords[i].id} /\ (c.cancel = 0 => Fresh)

Asked(i, c) == [c EXCEPT !.cancel = ords[i].id]

request_cancel(i, c, done) ==
    LET p == Asked(i, c)
        q == [c EXCEPT !.cancel = 0, !.inflight = FALSE]
        Stored(d) == IF Fresh THEN Writes(d, {"worker"}) ELSE Unwritten
    IN  \/ /\ Live(ords[i]) /\ ords' = [ords EXCEPT ![i].st = "done", ![i].rec = "CANCELLED"]
           /\ cache' = done
           /\ IF done.id = 0 THEN Stored(done)
              ELSE IF c.cancel = 0 THEN Writes(p, {"worker"}) ELSE Unwritten
        \/ /\ Live(ords[i]) /\ ords' = [ords EXCEPT ![i].rec = "CANCEL_PENDING"]
           /\ cache' = [p EXCEPT !.inflight = TRUE]
           /\ IF c.cancel = 0 THEN Writes(p, {"worker"}) ELSE Unwritten
        \/ /\ ~Live(ords[i]) /\ UNCHANGED ords
           /\ cache' = q /\ Stored(q)

(* The process dies between the store of the command id and the cancel.      *)
DiesCancelling(i, c) ==
    /\ CanCancel(i, c) /\ c.cancel = 0 /\ Less("crashes")
    /\ Writes([c EXCEPT !.cancel = ords[i].id], {}) /\ Go("startup")
    /\ plan' = FALSE /\ ui' = Idle
    /\ UNCHANGED <<cache, seen, broker>>

(* Variant: only a card without a fill is watched.                           *)
ScopeUnfilled == cache.status = "ENTRY_PENDING"

_entry_tracking_scope ==
    \/ cache.status = "ENTRY_PENDING"
    \/ cache.inflight
    \/ cache.status = "OPEN_POSITION" /\ cache.rest > 0

Unwatched == ~_entry_tracking_scope \/ find_open_entry_order = 0

_reconcile_entry_orders ==
    /\ at = "reconcile" /\ Go("complete")
    /\ LET i == find_open_entry_order IN
       IF ~Unwatched /\ cache.asked /\ CanCancel(i, cache)
       THEN request_cancel(i, cache, [Asked(i, cache) EXCEPT !.inflight = TRUE])
       ELSE /\ Unwritten /\ UNCHANGED ords
            /\ cache' = IF ~Unwatched /\ ords[i].rec = "CANCEL_PENDING"
                        THEN [cache EXCEPT !.inflight = TRUE] ELSE cache
    /\ UNCHANGED <<plan, seen, held, ui, left>>

(* Variant: a cancel that is under way does not hold the SELL back.          *)
ClearAtOnce(c) == find_open_entry_order = 0 \/ c.inflight

Clear(c) == find_open_entry_order = 0 /\ ~c.inflight /\ ~c.unresolved

(* A cancel of a BUY that completes a position ends its tracking at once.    *)
Released(p) ==
    IF p.exitAll /\ p.qty > 0 /\ p.id = ords[find_open_entry_order].id
    THEN [_clear_entry_card_tracking(p, TRUE) EXCEPT !.rest = 0, !.count = 0] ELSE p

(* _entry_conflict_clear_for_liquidation: the plan buys no more, and its     *)
(* working BUY is cancelled once.                                            *)
_entry_conflict_clear_for_liquidation(c) ==
    LET i == find_open_entry_order
        d == [c EXCEPT !.rest = 0]
        e == [d EXCEPT !.inflight = TRUE]
    IN  IF i # 0 /\ ~c.inflight /\ CanCancel(i, e) THEN request_cancel(i, e, Released(Asked(i, e)))
        ELSE /\ cache' = IF i # 0 THEN e ELSE d
             /\ Unwritten /\ UNCHANGED ords

(* A breach of the stop, or the escalation of an open card that must go.     *)
TickQuiet ==
    /\ at = "tick" /\ Go("buy")
    /\ UNCHANGED <<row, current, cache, plan, seen, broker, ui, left>>

Breached == cache.status = "OPEN_POSITION" /\ (cache.exitAll \/ cache.stop)

TickBreaches ==
    /\ at = "tick" /\ Go("buy") /\ Breached
    /\ IF cache.exitAll THEN UNCHANGED left ELSE Less("stops")
    /\ _entry_conflict_clear_for_liquidation(start_sell_all(cache))
    /\ UNCHANGED <<plan, seen, held, ui>>

(* _retry_incomplete_sell_alls.                                              *)
SellWaits ==
    /\ at = "sell" /\ Go("store")
    /\ \/ /\ cache.status = "SELL_ALL" /\ ~Clear(cache)
          /\ _entry_conflict_clear_for_liquidation(cache)
       \/ cache.status # "SELL_ALL" /\ UNCHANGED <<row, current, cache, ords>>
    /\ UNCHANGED <<plan, seen, held, ui, left>>

SellFlat ==
    /\ at = "sell" /\ Go("store") /\ cache.status = "SELL_ALL" /\ Clear(cache) /\ held = 0
    /\ cache' = confirm_flat(cache)
    /\ UNCHANGED <<row, current, plan, seen, broker, ui, left>>

(* The identity of the SELL is stored under the card's version first.        *)
SellSent ==
    /\ at = "sell" /\ cache.status = "SELL_ALL" /\ Clear(cache) /\ held > 0
    /\ LET c == [cache EXCEPT !.rest = 0, !.qty = held]
       IN  cache' = c /\ IF Fresh THEN Writes(c, {"worker"}) /\ Go("sold")
                         ELSE Unwritten /\ Go("store")
    /\ UNCHANGED <<plan, seen, broker, ui, left>>

Dies ==
    \E i \in DOMAIN ords :
        /\ i = find_open_entry_order
        /\ \/ at = "reconcile" /\ ~Unwatched /\ cache.asked /\ DiesCancelling(i, cache)
           \/ /\ at = "tick" /\ Breached /\ cache.exitAll /\ ~cache.inflight
              /\ DiesCancelling(i, [start_sell_all(cache) EXCEPT !.rest = 0, !.inflight = TRUE])
           \/ /\ at = "sell" /\ cache.status = "SELL_ALL" /\ ~cache.inflight
              /\ DiesCancelling(i, [cache EXCEPT !.rest = 0, !.inflight = TRUE])

(* _persist_changed: a version that moved on drops the cycle's change.       *)
Store ==
    /\ at = "store" /\ Go("load")
    /\ IF Fresh /\ cache # row THEN Writes(cache, {"worker"}) ELSE Unwritten
    /\ UNCHANGED <<cache, plan, seen, broker, ui, left>>

Crash ==
    /\ at \notin {"startup", "sold"} /\ Less("crashes") /\ Go("startup")
    /\ plan' = FALSE /\ ui' = Idle
    /\ UNCHANGED <<row, current, cache, seen, broker>>

(* ExitLifecycle goes on from here.                                          *)
HandedOver == at = "sold" /\ UNCHANGED vars

Broker == \E i \in DOMAIN ords : BrokerFills(i) \/ BrokerCancels(i)

Pass == Fetch \/ FetchFails \/ EmergencySellAll \/ NoCommand
        \/ \E listed \in {"none", "oldest first", "newest first"} : Reduce(listed)

Send == SendAccepted \/ SendUnanswered \/ SendDuplicate \/ SendRejected \/ SendMisrouted
        \/ SendAborted \/ SendRefused \/ SendHeldBack

Worker == Load \/ Pass \/ TickQuiet \/ TickBreaches \/ EntryWaits \/ EntryTriggers \/ Send
          \/ _reconcile_entry_orders \/ CompletionTriggers \/ CompletionWaits
          \/ SellWaits \/ SellFlat \/ SellSent \/ Store

Next == Broker \/ Worker \/ Crash \/ Dies \/ UiWrites \/ HandedOver
        \/ \E cmd \in UiCommands : UiAsks(cmd)

Spec == Init /\ [][Next]_vars

(* The cycle goes on, a pass falls due every minute, the broker answers      *)
(* cancels; nothing makes a BUY fill or a plan trigger.                      *)
Fairness ==
    /\ WF_vars(Worker) /\ WF_vars(UiWrites)
    /\ SF_vars(Fetch) /\ SF_vars(TickBreaches /\ cache.exitAll)
    /\ SF_vars(Reduce("oldest first"))
    /\ WF_vars(\E i \in DOMAIN ords : BrokerCancels(i))

LiveSpec == Spec /\ Fairness

-----------------------------------------------------------------------------
Remaining(o) == IF Live(o) THEN o.qty - o.filled ELSE 0

(* What is held and what the working BUYs may still add never exceed the     *)
(* plan: no retry, completion or restart buys a part of it twice.            *)
StillToCome == UNION {{i} \X (1 .. Remaining(ords[i])) : i \in DOMAIN ords}
BoughtWithinPlan == held + Cardinality(StillToCome) <= Target

(* A card that has left the board left nothing behind at the broker: neither *)
(* shares nor a working BUY.                                                 *)
LeftMeansGone ==
    row.status \in {"BUYLIST", "CLOSED"} => held = 0 /\ LiveBuys = {}

(* A BUY was sent although an earlier one of the plan was refused.           *)
RefusalRetried == \E i, j \in DOMAIN ords : i < j /\ ords[i].rec = "REJECTED"

(* LeftMeansGone, as long as no BUY refused for its route is tried again: the *)
(* next pass applies the old refusal to the card of the new BUY.             *)
NothingLeftBehind == ~RefusalRetried => LeftMeansGone

(* A liquidation goes out only when no BUY of the plan works at the broker.  *)
SellAlone == at' = "sold" /\ at # "sold" => LiveBuys = {}
SellWaitsForBuy == [][SellAlone]_vars

(* After the operator has cancelled the entry no more of the plan is bought: *)
(* the part that is filled stands, the rest is given up.                     *)
BuyUnasked == Len(ords') > Len(ords) => ~(cache.asked /\ row.asked)
NoBuyAfterCancel == [][BuyUnasked]_vars

Certain == \A o \in Range(ords) : o.rec # "UNKNOWN"

(* Shares that were bought end up on an open card with a stop, or sold,      *)
(* unless a BUY without an answer fences the plan or a refusal was retried.  *)
Protected == row.status \in {"OPEN_POSITION", "SELL_ALL"} /\ row.stop
Undisturbed == Certain /\ ~RefusalRetried
SharesEndProtected ==
    (held > 0 /\ Undisturbed) ~> (Protected \/ at = "sold" \/ ~Undisturbed)

(* A card that is fenced although no BUY is in doubt is released.            *)
FenceIsLifted == (row.unresolved /\ Certain) ~> (~row.unresolved \/ ~Certain)

(* A cancel of the entry ends its working BUY, and a demanded exit reaches   *)
(* its SELL whatever BUY stands in the way.                                  *)
CancelEndsBuy == (row.asked /\ LiveBuys # {}) ~> LiveBuys = {}
ExitReachesSale == row.exitAll ~> (at = "sold" \/ ~row.exitAll)
=============================================================================
