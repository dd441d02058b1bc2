---------------------------- MODULE ExitLifecycle ----------------------------
(***************************************************************************)
(* The exit of one position: the durable card and the operator's commands  *)
(* on it, the worker's cycle over a copy of the card, the SELL orders it   *)
(* sends, and the account pass that projects broker truth onto the card.   *)
(*                                                                         *)
(* A SELL has the identity <<group, number, kind>> of an attempt; the      *)
(* ledger row of the order has the status `rec`, the broker's order the    *)
(* state `st`.  The worker is one thread; the operator's thread and the    *)
(* broker move between its steps.                                          *)
(***************************************************************************)
EXTENDS Naturals, Sequences, FiniteSets, SequencesExt

CONSTANTS Shares,        \* shares held at the start
          StartsOpen,    \* the regular session is open at the start
          UiCommands,    \* commands the operator may give
          MaxCommands,   \* bound on them
          MaxStops,      \* bound on stop breaches
          MaxOrders,     \* bound on SELL orders; the last one is let fill
          MaxRejects,    \* bound on submissions the broker rejects
          MaxUnknown,    \* bound on submissions without an answer
          MaxCrashes,    \* bound on crashes
          MaxGaps,       \* bound on passes that miss holdings or orders
          UiDuringPass   \* the operator may act between a plan and its command

ASSUME ExitAssumption ==
    /\ Shares \in Nat \ {0} /\ StartsOpen \in BOOLEAN
    /\ UiCommands \subseteq {"RequestPartialSell", "CancelPartialSell",
                             "RequestSellAll", "CancelQueuedSellAll"}
    /\ {MaxCommands, MaxStops, MaxOrders, MaxRejects, MaxUnknown, MaxCrashes, MaxGaps}
         \subseteq Nat

VARIABLES row,     \* trade_cards: the durable card
          cache,   \* the worker's copy
          current, \* who has read the version the row has now
          at,      \* where the worker is
          lot,     \* the submission under way: quantity, and who sends it
          plan,    \* command of the account pass still to execute
          seen,    \* holdings the account pass has fetched; Missing: failed
          ords,    \* SELL orders, oldest first
          held,    \* shares at the broker
          open,    \* the regular session is open
          ui,      \* the operator's command under way
          cause,   \* history: somebody asked for the whole position to be sold
          left     \* what is left of the bounds

vars == <<row, cache, current, at, lot, plan, seen, ords, held, open, ui, cause, left>>
broker == <<held, open>>
worker == <<cache, at, lot, plan, seen>>

NoId == <<>>
Missing == Shares + 1
Idle == "none"
NoLot == [qty |-> 0, by |-> "none"]

Card == [status |-> "OPEN_POSITION", exitAll |-> FALSE, queued |-> FALSE, pend |-> 0,
         id |-> NoId, group |-> 0, count |-> 0, unresolved |-> FALSE,
         cancel |-> "none", reserved |-> FALSE, qty |-> Shares]

Init ==
    /\ row = Card /\ cache = Card /\ current = {} /\ at = "load" /\ lot = NoLot
    /\ plan = "none" /\ seen = Shares
    /\ ords = <<>> /\ held = Shares /\ open = StartsOpen
    /\ ui = Idle /\ cause = FALSE
    /\ left = [commands |-> MaxCommands, stops |-> MaxStops, rejects |-> MaxRejects,
               unknown |-> MaxUnknown, crashes |-> MaxCrashes, gaps |-> MaxGaps]

(* A write of the row leaves its version known to the writer only.           *)
Writes(c, who) == row' = c /\ current' = who
Unwritten == UNCHANGED <<row, current>>
Fresh == "worker" \in current
ReadBy(fresh) == row' = row /\ current' = IF fresh THEN current \cup {"worker"} ELSE current

Less(bound) == left[bound] > 0 /\ left' = [left EXCEPT ![bound] = @ - 1]

-----------------------------------------------------------------------------
(* The ledger and the broker.                                                *)

Over == {"FILLED", "CANCELLED", "REJECTED"}

(* Variant: an order whose cancel or submission is in doubt counts as gone.  *)
OpenRecForgetful(o) == o.rec = "WORKING"

(* Variant: only a filled order is over.                                     *)
OpenRecSticky(o) == o.rec # "FILLED"

(* guarded_open_statuses.                                                    *)
OpenRec(o) == o.rec \in {"WORKING", "CANCEL_PENDING", "UNKNOWN"}

(* find_open_sell_order: the first open SELL of the symbol, 0 if none.       *)
find_open_sell_order ==
    LET found == {i \in DOMAIN ords : OpenRec(ords[i])}
    IN  IF found = {} THEN 0 ELSE CHOOSE i \in found : \A j \in found : i <= j

Live(o) == o.st = "open"
Unfilled(o) == IF Live(o) THEN o.qty - o.filled ELSE 0

(* The shares that working orders are still to sell, one by one.             *)
ToSell == {s \in (DOMAIN ords) \X (1 .. Shares) : s[2] <= Unfilled(ords[s[1]])}

(* refresh_orderable_quantity: shares the broker lets us sell, from an answer *)
(* that names the holding (one without it would count as 0).                 *)
refresh_orderable_quantity == held - Cardinality(ToSell)

BrokerFills(i) ==
    /\ open /\ Live(ords[i])
    /\ ords' = [ords EXCEPT ![i].filled = @ + 1,
                            ![i].st = IF ords[i].filled + 1 = ords[i].qty THEN "done" ELSE @]
    /\ held' = held - 1
    /\ UNCHANGED <<row, current, worker, open, ui, cause, left>>

(* A cancel the broker has taken on takes effect.                            *)
BrokerCancels(i) ==
    /\ Live(ords[i]) /\ ords[i].rec = "CANCEL_PENDING"
    /\ ords' = [ords EXCEPT ![i].st = "done"]
    /\ UNCHANGED <<row, current, worker, broker, ui, cause, left>>

SessionOpens ==
    /\ ~open /\ open' = TRUE
    /\ UNCHANGED <<row, current, worker, ords, held, ui, cause, left>>

-----------------------------------------------------------------------------
(* What the handlers do to a card.                                           *)

_consume_exit_attempt(c) ==
    [c EXCEPT !.count = IF c.id # NoId /\ c.id[2] > @ THEN c.id[2]
                        ELSE IF c.id = NoId THEN @ + 1 ELSE @]

_back_off_exit_retry(c) ==
    [_consume_exit_attempt(c) EXCEPT !.id = NoId, !.unresolved = FALSE]

_retire_terminal_exit_attempt(c) ==
    IF c.id = NoId THEN [c EXCEPT !.cancel = "none"]
    ELSE [_back_off_exit_retry(c) EXCEPT !.cancel = "none"]

(* _clear_exit_card_tracking of the account pass.                            *)
_clear_exit_card_tracking(c, retire) ==
    [c EXCEPT !.id = NoId, !.cancel = "none", !.unresolved = FALSE, !.reserved = FALSE,
              !.group = IF retire THEN 0 ELSE @, !.count = IF retire THEN 0 ELSE @]

confirm_flat(c) ==
    [_clear_exit_card_tracking(c, TRUE) EXCEPT
        !.status = "CLOSED", !.exitAll = FALSE, !.queued = FALSE, !.qty = 0]

_complete_partial_exit(c, remaining) ==
    [_clear_exit_card_tracking(c, TRUE) EXCEPT
        !.status = "OPEN_POSITION", !.pend = 0, !.qty = remaining]

start_sell_all(c) == [c EXCEPT !.exitAll = TRUE, !.status = "SELL_ALL"]

-----------------------------------------------------------------------------
(* The operator's thread: request_board_action checks the card and the       *)
(* orders, then writes in a transaction that asks for the version again.     *)

_card_tracks_order(c, o) == c.id = o.id \/ (c.group # 0 /\ c.group = o.id[1])

_require_board_action_not_conflicted(cmd, c) ==
    LET active == {o \in Range(ords) : OpenRec(o)}
    IN  /\ ~c.unresolved /\ c.cancel # "in_flight"
        /\ \A o \in active : o.rec # "UNKNOWN" /\ _card_tracks_order(c, o)
        /\ CASE cmd = "RequestPartialSell" ->
                  /\ active = {} /\ c.qty > 0
                  /\ \/ c.status = "OPEN_POSITION"
                     \/ /\ c.status = "SELL_ALL" /\ c.id = NoId
                        /\ ~c.reserved /\ c.cancel = "none"
             [] cmd = "CancelPartialSell" -> c.status = "PARTIAL_SELL"
             [] cmd = "RequestSellAll" -> c.status \in {"OPEN_POSITION", "PARTIAL_SELL"}
             [] cmd = "CancelQueuedSellAll" ->
                  /\ c.status = "SELL_ALL" /\ c.queued
                  /\ c.id = NoId /\ active = {}

(* A partial sell is of one share; the last share makes it a Sell All.       *)
_apply_board_mutation(cmd, c) ==
    CASE cmd = "RequestPartialSell" ->
           IF c.qty = 1 THEN [c EXCEPT !.status = "SELL_ALL", !.exitAll = TRUE, !.pend = 0]
           ELSE IF c.status = "SELL_ALL"
           THEN [_clear_exit_card_tracking(c, TRUE) EXCEPT
                    !.status = "PARTIAL_SELL", !.exitAll = FALSE, !.queued = FALSE, !.pend = 1]
           ELSE [c EXCEPT !.status = "PARTIAL_SELL", !.pend = 1]
      [] cmd = "CancelPartialSell" ->
           IF c.id # NoId \/ c.reserved \/ find_open_sell_order # 0 THEN [c EXCEPT !.pend = 0]
           ELSE [_clear_exit_card_tracking(c, TRUE) EXCEPT !.status = "OPEN_POSITION", !.pend = 0]
      [] cmd = "RequestSellAll" ->
           [start_sell_all(c) EXCEPT !.pend = 0, !.queued = ~open]
      [] cmd = "CancelQueuedSellAll" ->
           [c EXCEPT !.status = "OPEN_POSITION", !.queued = FALSE, !.exitAll = FALSE]

UiAsks(cmd) ==
    /\ ui = Idle /\ Less("commands")
    /\ _require_board_action_not_conflicted(cmd, row)
    /\ ui' = cmd /\ current' = current \cup {"ui"}
    /\ UNCHANGED <<row, worker, ords, broker, cause>>

(* A version that moved on rejects the command.                              *)
UiWrites ==
    /\ ui # Idle /\ ui' = Idle
    /\ at = "command" /\ plan # "none" => UiDuringPass
    /\ IF "ui" \in current
       THEN /\ Writes(_apply_board_mutation(ui, row), {})
            /\ cause' = (cause \/ (row'.exitAll /\ ~row.exitAll))
       ELSE Unwritten /\ UNCHANGED cause
    /\ UNCHANGED <<worker, ords, broker, left>>

-----------------------------------------------------------------------------
(* The worker: load, account pass, market tick, heartbeat, store.            *)

Go(to) == at' = to

Load ==
    /\ at = "load" /\ Go("tick") /\ cache' = row
    /\ current' = current \cup {"worker"}
    /\ UNCHANGED <<row, lot, plan, seen, ords, broker, ui, cause, left>>

(* fetch_account_broker_snapshot: first the holdings.  Mandatory at startup. *)
Fetch ==
    /\ at \in {"startup", "load"} /\ Go("reduce")
    /\ seen' = held
    /\ UNCHANGED <<row, current, cache, lot, plan, ords, broker, ui, cause, left>>

FetchFails ==
    /\ at \in {"startup", "load"} /\ Go("reduce")
    /\ Less("gaps") /\ seen' = Missing
    /\ UNCHANGED <<row, current, cache, lot, plan, ords, broker, ui, cause>>

(* Variant: the order's being over is looked at before its intent.           *)
CategoryOverFirst(o, status) ==
    IF o.moo THEN "RESERVED_MOO_SELL"
    ELSE IF o.rec \in Over \/ status = "SELL_ALL" THEN "SELL_ALL"
    ELSE IF o.id[3] = "PARTIAL_EXIT" THEN "PARTIAL_SELL"
    ELSE "UNRECOGNIZED"

(* classify_execution_order and _operational_category.                       *)
Category(o, status) ==
    IF o.moo THEN "RESERVED_MOO_SELL"
    ELSE IF o.id[3] = "PARTIAL_EXIT" THEN "PARTIAL_SELL"
    ELSE IF o.rec \in Over \/ status = "SELL_ALL" THEN "SELL_ALL"
    ELSE "UNRECOGNIZED"

(* _apply_exact_order_snapshot: the row takes over what the broker reports.  *)
Reported(o) ==
    IF o.rec \in {"UNKNOWN", "REJECTED"} \/ Live(o) THEN o
    ELSE [o EXCEPT !.rec = IF o.filled = o.qty THEN "FILLED" ELSE "CANCELLED"]

(* Variant: holdings that could not be fetched are taken as none.            *)
ProjectTerminalBlindly(c, category) ==
    LET h == IF seen = Missing THEN 0 ELSE seen IN
    IF category = "PARTIAL_SELL" THEN
        (IF h = 0 THEN confirm_flat([c EXCEPT !.pend = 0]) ELSE _complete_partial_exit(c, h))
    ELSE IF h = 0 THEN confirm_flat(c)
    ELSE [start_sell_all(_clear_exit_card_tracking(c, FALSE)) EXCEPT !.queued = FALSE, !.qty = h]

ProjectTerminal(c, category) ==
    IF seen = Missing THEN [c EXCEPT !.unresolved = TRUE]
    ELSE IF category = "PARTIAL_SELL" THEN
        (IF seen = 0 THEN confirm_flat([c EXCEPT !.pend = 0]) ELSE _complete_partial_exit(c, seen))
    ELSE IF seen = 0 THEN confirm_flat(c)
    ELSE [start_sell_all(_clear_exit_card_tracking(c, FALSE)) EXCEPT !.queued = FALSE, !.qty = seen]

ProjectOpen(c, o, category) ==
    LET t == [c EXCEPT !.id = o.id, !.reserved = TRUE]
    IN  IF category = "PARTIAL_SELL" THEN [t EXCEPT !.status = "PARTIAL_SELL"]
        ELSE [start_sell_all(t) EXCEPT !.queued = (category = "RESERVED_MOO_SELL")]

_consume_exit_card_attempt(c, o) ==
    LET n == IF c.id # NoId /\ c.id[2] > o.id[2] THEN c.id[2] ELSE o.id[2]
    IN  [c EXCEPT !.count = IF n > @ THEN n ELSE @, !.group = o.id[1]]

_project_exact_order_to_card(c, o) ==
    LET category == Category(o, row.status)
        t == _consume_exit_card_attempt(c, o)
    IN  IF o.rec \in {"UNKNOWN", "REJECTED"} \/ ~_card_tracks_order(c, o) THEN c
        ELSE IF category = "UNRECOGNIZED" THEN t
        ELSE IF Live(o) THEN ProjectOpen(t, o, category)
        ELSE ProjectTerminal(t, category)

(* The card after all the orders of a pass, in the order they are listed.    *)
Projected(seq) ==
    LET c[i \in 0 .. Len(seq)] ==
            IF i = 0 THEN row ELSE _project_exact_order_to_card(c[i - 1], seq[i])
    IN  c[Len(seq)]

(* The holdings themselves: POSITION_QUANTITY_UPDATE.                        *)
ProjectHolding(c) ==
    IF seen = Missing THEN c
    ELSE IF seen = 0 /\ c.qty > 0 THEN
        (IF c.status = "CLOSED" THEN [c EXCEPT !.qty = 0] ELSE confirm_flat(c))
    ELSE [c EXCEPT !.qty = seen]

decide_emergency_sell(c, os) ==
    LET openRecs == {o \in Range(os) : OpenRec(o)}
    IN  IF (c.status # "SELL_ALL" /\ ~c.exitAll) \/ seen \in {0, Missing} THEN "none"
        ELSE IF openRecs = {} THEN "sell"
        ELSE IF \E o \in openRecs : o.rec # "WORKING" THEN "none"
        ELSE "cancel"

(* reduce_account_reconciliation and apply_reconciliation_plan.  Broker and  *)
(* ledger list the orders in either order; a pass may miss the orders.       *)
Reduce(listed) ==
    /\ at = "reduce" /\ Go("command")
    /\ LET os == IF listed = "none" THEN ords ELSE [i \in DOMAIN ords |-> Reported(ords[i])]
           seq == CASE listed = "none" -> <<>>
                    [] listed = "oldest first" -> ords
                    [] listed = "newest first" -> Reverse(ords)
           c == ProjectHolding(Projected(seq))
       IN  /\ ords' = os
           /\ IF c = row THEN Unwritten ELSE Writes(c, {})
           /\ plan' = decide_emergency_sell(c, os)
    /\ IF listed = "none" THEN Less("gaps") ELSE UNCHANGED left
    /\ UNCHANGED <<cache, lot, seen, broker, ui, cause>>

(* One cancel of order i on card c: the command id is stored first, under    *)
(* the version of the card; then the broker confirms it, takes it on, or     *)
(* has nothing left to cancel.                                               *)
Cancelled(i) ==
    \/ Live(ords[i]) /\ ords' = [ords EXCEPT ![i].st = "done", ![i].rec = "CANCELLED"]
    \/ Live(ords[i]) /\ ords' = [ords EXCEPT ![i].rec = "CANCEL_PENDING"]
    \/ ~Live(ords[i]) /\ UNCHANGED ords

(* c is the card as it is stored with the command id, x the card in memory   *)
(* once the broker has taken the cancel on.                                  *)
request_cancel(i, c, x) ==
    /\ ords[i].rec = "WORKING" /\ Len(ords) < MaxOrders
    /\ c.cancel # "none" \/ Fresh
    /\ Cancelled(i)
    /\ IF Fresh /\ (c.cancel = "none" \/ ~Live(ords[i]))
       THEN Writes([c EXCEPT !.cancel = IF Live(ords[i]) THEN "id" ELSE "none"], {"worker"})
       ELSE Unwritten
    /\ cache' = IF Live(ords[i]) THEN x ELSE [c EXCEPT !.cancel = "none"]

(* _execute_reconciliation_commands works on the row as it is now.           *)
NoCommand ==
    /\ at = "command" /\ Go("load again")
    /\ plan # "none" => Len(ords) >= MaxOrders - 1
    /\ plan' = "none"
    /\ UNCHANGED <<row, current, cache, lot, seen, ords, broker, ui, cause, left>>

(* A confirmed cancel retires the order's identity at once.                  *)
CancelKnownOrder ==
    LET i == find_open_sell_order IN
    /\ at = "command" /\ plan = "cancel" /\ i # 0
    /\ ords[i].rec = "WORKING" /\ Len(ords) < MaxOrders
    /\ Cancelled(i)
    /\ LET over == ords'[i].rec = "CANCELLED"
       IN  Writes([row EXCEPT
                    !.cancel = IF over \/ ~Live(ords[i]) THEN "none"
                               ELSE IF @ = "none" THEN "id" ELSE @,
                    !.id = IF over THEN NoId ELSE @,
                    !.reserved = IF over THEN FALSE ELSE @], {})
    /\ plan' = "none" /\ Go("load again")
    /\ UNCHANGED <<cache, lot, seen, broker, ui, cause, left>>

LoadAgain ==
    /\ at = "load again" /\ Go("tick") /\ cache' = row
    /\ current' = current \cup {"worker"}
    /\ UNCHANGED <<row, lot, plan, seen, ords, broker, ui, cause, left>>

(* A fresh attempt group: no order has it.                                   *)
NewGroup == 1 + Len(ords)

(* Variant: the identity is stored on whatever the card has become.          *)
PrepareUnversioned(c, fresh, kind, qty, by, failed) ==
    IF c.id # NoId
    THEN cache' = c /\ lot' = [qty |-> qty, by |-> by] /\ Go("send") /\ ReadBy(fresh)
    ELSE LET g == IF c.group = 0 THEN NewGroup ELSE c.group
         IN  /\ cache' = [c EXCEPT !.id = <<g, c.count + 1, kind>>, !.group = g,
                                   !.unresolved = FALSE]
             /\ Writes([row EXCEPT !.id = cache'.id, !.group = g], {"worker"})
             /\ lot' = [qty |-> qty, by |-> by] /\ Go("send")

(* prepare_exit_identity: an identity the card already has is used again;    *)
(* otherwise the next one is stored under the card's version.                *)
prepare_exit_identity(c, fresh, kind, qty, by, failed) ==
    IF c.id # NoId
    THEN cache' = c /\ lot' = [qty |-> qty, by |-> by] /\ Go("send") /\ ReadBy(fresh)
    ELSE LET g == IF c.group = 0 THEN NewGroup ELSE c.group
             p == [c EXCEPT !.id = <<g, c.count + 1, kind>>, !.group = g,
                            !.unresolved = FALSE]
         IN  IF fresh
             THEN /\ cache' = p /\ Writes(p, {"worker"})
                  /\ lot' = [qty |-> qty, by |-> by] /\ Go("send")
             ELSE /\ cache' = _back_off_exit_retry(p)
                  /\ Go(failed) /\ Unwritten /\ UNCHANGED lot

EmergencySellAll ==
    /\ at = "command" /\ plan = "sell" /\ plan' = "none" /\ Len(ords) < MaxOrders - 1
    /\ prepare_exit_identity(row, TRUE, "MANUAL_EXIT", seen, "pass", "load again")
    /\ UNCHANGED <<seen, ords, broker, ui, cause, left>>

(* The submission: the caller's reaction is part of the step.                *)
Ids == {ords[i].id : i \in DOMAIN ords}
After(by) == CASE by = "pass" -> "load again" [] by = "partial" -> "partial sold"
               [] by = "retry" -> "store"

(* After the pass's own command its card is stored under its version.        *)
Answered(c) ==
    /\ lot' = NoLot /\ Go(After(lot.by))
    /\ cache' = c
    /\ IF lot.by = "pass" /\ Fresh THEN Writes(c, {}) ELSE Unwritten

NewOrder(st, rec) ==
    Append(ords, [id |-> cache.id, moo |-> ~open, qty |-> lot.qty, filled |-> 0,
                  st |-> st, rec |-> rec])

SendAccepted ==
    /\ at = "send" /\ cache.id \notin Ids
    /\ lot.qty <= refresh_orderable_quantity /\ lot.qty > 0
    /\ ords' = NewOrder("open", "WORKING")
    /\ Answered(IF lot.by = "pass" THEN [cache EXCEPT !.reserved = TRUE, !.unresolved = FALSE]
                ELSE [_consume_exit_attempt(cache) EXCEPT
                        !.reserved = IF lot.by = "partial" THEN TRUE ELSE @,
                        !.queued = FALSE])
    /\ UNCHANGED <<plan, seen, broker, ui, cause, left>>

(* The broker refuses what it does not hold, and for reasons of its own.     *)
SendRejected ==
    /\ at = "send" /\ cache.id \notin Ids
    /\ IF lot.qty <= refresh_orderable_quantity
       THEN Len(ords) < MaxOrders - 1 /\ Less("rejects") ELSE UNCHANGED left
    /\ ords' = NewOrder("none", "REJECTED")
    /\ Answered(IF lot.by = "pass"
                THEN [cache EXCEPT !.count = @ + 1, !.id = NoId, !.unresolved = FALSE]
                ELSE _back_off_exit_retry(cache))
    /\ UNCHANGED <<plan, seen, broker, ui, cause>>

SendUnanswered ==
    /\ at = "send" /\ cache.id \notin Ids /\ Less("unknown")
    /\ \/ lot.qty <= refresh_orderable_quantity /\ ords' = NewOrder("open", "UNKNOWN")
       \/ ords' = NewOrder("none", "UNKNOWN")
    /\ Answered([cache EXCEPT !.unresolved = TRUE])
    /\ UNCHANGED <<plan, seen, broker, ui, cause>>

SendDuplicate ==
    /\ at = "send" /\ cache.id \in Ids
    /\ Answered([cache EXCEPT !.unresolved = TRUE])
    /\ UNCHANGED <<plan, seen, ords, broker, ui, cause, left>>

(* A market tick on an open card: evaluate_tick, then the escalation.        *)
TickQuiet ==
    /\ at = "tick" /\ Go("partial")
    /\ UNCHANGED <<row, current, cache, lot, plan, seen, ords, broker, ui, cause, left>>

Breached(c) == [start_sell_all(c) EXCEPT !.pend = IF c.status = "PARTIAL_SELL" THEN 0 ELSE @]

TickBreaches ==
    /\ at = "tick" /\ Go("partial")
    /\ cache.status \in {"OPEN_POSITION", "PARTIAL_SELL"}
    /\ cause' = (cause \/ ~cache.exitAll)
    /\ IF cache.exitAll THEN UNCHANGED left ELSE open /\ Less("stops")
    /\ LET i == find_open_sell_order IN
       IF cache.status = "PARTIAL_SELL" /\ i # 0
       THEN \/ request_cancel(i, [cache EXCEPT !.exitAll = TRUE],
                              [Breached(cache) EXCEPT !.cancel = "id"])
            \/ /\ ords[i].rec # "WORKING" \/ Len(ords) = MaxOrders
               /\ cache' = Breached(cache) /\ Unwritten /\ UNCHANGED ords
            \/ /\ cache.cancel = "none" /\ ~Fresh
               /\ UNCHANGED <<row, current, cache, ords>>
       ELSE cache' = Breached(cache) /\ Unwritten /\ UNCHANGED ords
    /\ UNCHANGED <<lot, plan, seen, broker, ui>>

(* _process_partial_sell_requests.                                           *)
PartialWanted ==
    /\ cache.status = "PARTIAL_SELL" /\ cache.pend > 0 /\ ~cache.unresolved
    /\ find_open_sell_order = 0 /\ refresh_orderable_quantity > 0
    /\ Len(ords) < MaxOrders - 1

PartialSubmits ==
    /\ at = "partial" /\ PartialWanted
    /\ prepare_exit_identity(cache, Fresh, "PARTIAL_EXIT", 1, "partial", "partial sold")
    /\ UNCHANGED <<plan, seen, ords, broker, ui, cause, left>>

PartialSkipped ==
    /\ at = "partial" /\ Go("partial sold") /\ ~PartialWanted
    /\ UNCHANGED <<row, current, cache, lot, plan, seen, ords, broker, ui, cause, left>>

(* Cancel of a working order whose deadline has passed, or which is not      *)
(* wanted any more (forced).                                                 *)
_escalate_exit_cancel_if_due(i, c) ==
    /\ cache.cancel # "in_flight"
    /\ request_cancel(i, c, [c EXCEPT !.cancel = "in_flight"])

Waits(i, forced) ==
    \/ ~forced \/ cache.cancel = "in_flight" \/ ords[i].rec # "WORKING"
    \/ Len(ords) = MaxOrders
    \/ cache.cancel = "none" /\ ~Fresh

_reconcile_partial_sell_fills ==
    /\ at = "partial sold" /\ Go("all")
    /\ LET i == find_open_sell_order IN
       IF cache.status # "PARTIAL_SELL" THEN UNCHANGED <<row, current, cache, ords>>
       ELSE IF i # 0
       THEN \/ _escalate_exit_cancel_if_due(i, cache)
            \/ Waits(i, cache.pend = 0) /\ UNCHANGED <<row, current, cache, ords>>
       ELSE /\ cache' = IF cache.pend = 0
                        THEN _complete_partial_exit(cache, refresh_orderable_quantity)
                        ELSE [cache EXCEPT !.cancel = "none"]
            /\ Unwritten /\ UNCHANGED ords
    /\ UNCHANGED <<lot, plan, seen, broker, ui, cause, left>>

_process_queued_market_open_sells(c) ==
    IF c.status = "SELL_ALL" /\ c.queued /\ open
    THEN [start_sell_all(c) EXCEPT !.queued = FALSE] ELSE c

_reconcile_sell_all_orders ==
    /\ at = "all" /\ Go("retry")
    /\ LET i == find_open_sell_order
           c == _process_queued_market_open_sells(cache)
       IN  IF cache.status = "SELL_ALL" /\ i # 0
           THEN \/ _escalate_exit_cancel_if_due(i, c)
                \/ /\ Waits(i, ords[i].id[3] = "PARTIAL_EXIT")
                   /\ cache' = c /\ Unwritten /\ UNCHANGED ords
           ELSE /\ cache' = IF cache.status = "SELL_ALL"
                            THEN _retire_terminal_exit_attempt(c) ELSE c
                /\ Unwritten /\ UNCHANGED ords
    /\ UNCHANGED <<lot, plan, seen, broker, ui, cause, left>>

(* _retry_incomplete_sell_alls: the only other place a liquidation is sent.  *)
ClearToSell ==
    cache.status = "SELL_ALL" /\ ~cache.unresolved /\ find_open_sell_order = 0

RetryFlat ==
    /\ at = "retry" /\ Go("store") /\ ClearToSell /\ refresh_orderable_quantity = 0
    /\ cache' = confirm_flat(_retire_terminal_exit_attempt(cache))
    /\ UNCHANGED <<row, current, lot, plan, seen, ords, broker, ui, cause, left>>

RetrySubmits ==
    /\ at = "retry" /\ ClearToSell /\ refresh_orderable_quantity > 0
    /\ open \/ cache.queued
    /\ Len(ords) < MaxOrders
    /\ LET c == [_retire_terminal_exit_attempt(cache) EXCEPT !.qty = refresh_orderable_quantity]
       IN  prepare_exit_identity(c, Fresh, "MANUAL_EXIT", refresh_orderable_quantity, "retry", "store")
    /\ UNCHANGED <<plan, seen, ords, broker, ui, cause, left>>

RetrySkipped ==
    /\ at = "retry" /\ Go("store")
    /\ \/ ~ClearToSell
       \/ refresh_orderable_quantity > 0 /\ (~(open \/ cache.queued) \/ Len(ords) = MaxOrders)
    /\ UNCHANGED <<row, current, cache, lot, plan, seen, ords, broker, ui, cause, left>>

(* _persist_changed: a version that moved on drops the cycle's change.       *)
Store ==
    /\ at = "store" /\ Go("load")
    /\ IF Fresh /\ cache # row THEN Writes(cache, {"worker"}) ELSE Unwritten
    /\ UNCHANGED <<cache, lot, plan, seen, ords, broker, ui, cause, left>>

(* The process dies and starts again; an order on its way has arrived.       *)
Crash ==
    /\ at # "startup" /\ Less("crashes") /\ at' = "startup"
    /\ lot' = NoLot /\ plan' = "none" /\ ui' = Idle
    /\ UNCHANGED <<row, current, cache, seen, ords, broker, cause>>

Broker == SessionOpens \/ \E i \in DOMAIN ords : BrokerFills(i) \/ BrokerCancels(i)

Pass == Fetch \/ FetchFails \/ NoCommand \/ CancelKnownOrder \/ EmergencySellAll
        \/ \E listed \in {"none", "oldest first", "newest first"} : Reduce(listed)

Send == SendAccepted \/ SendRejected \/ SendUnanswered \/ SendDuplicate

Heartbeat == PartialSubmits \/ PartialSkipped \/ _reconcile_partial_sell_fills
             \/ _reconcile_sell_all_orders \/ RetryFlat \/ RetrySubmits \/ RetrySkipped

Worker == Load \/ LoadAgain \/ Pass \/ Send \/ TickQuiet \/ TickBreaches
          \/ Heartbeat \/ Store

Next == Broker \/ Worker \/ Crash \/ UiWrites \/ \E cmd \in UiCommands : UiAsks(cmd)

Spec == Init /\ [][Next]_vars

(* The cycle goes on, a pass falls due every minute, quotes keep coming, the *)
(* broker answers cancels, and an order that works often enough is filled.   *)
Fairness ==
    /\ WF_vars(Worker) /\ WF_vars(UiWrites) /\ WF_vars(SessionOpens)
    /\ SF_vars(Fetch) /\ SF_vars(TickBreaches /\ cache.exitAll)
    /\ SF_vars(Reduce("oldest first"))
    /\ SF_vars(\E i \in DOMAIN ords : BrokerFills(i))
    /\ WF_vars(\E i \in DOMAIN ords : BrokerCancels(i))

LiveSpec == Spec /\ Fairness

-----------------------------------------------------------------------------
(* At most one SELL works at the broker at any time: no stage, pass, retry   *)
(* or restart sends another one while the outcome of the last is open.       *)
OneSell == \A i, j \in DOMAIN ords : Live(ords[i]) /\ Live(ords[j]) => i = j

(* The card is closed only when the broker holds nothing.                    *)
ClosedIsFlat == row.status = "CLOSED" => held = 0

(* A step that sends a liquidation of the whole position.                    *)
SendsSellAll ==
    Len(ords') > Len(ords) /\ ords'[Len(ords')].id[3] = "MANUAL_EXIT"

DemandedSale == SendsSellAll => row.exitAll

(* A liquidation is sent only while the stored card demands it: what the     *)
(* operator has withdrawn is not sold.                                       *)
SoldOnDemand == [][DemandedSale]_vars

(* The card demands a full exit only after the operator or a stop asked for  *)
(* one; a partial sell never grows into a liquidation.                       *)
DemandHasCause == row.exitAll => cause

Quiet == ~\E i \in DOMAIN ords : ords[i].rec = "UNKNOWN"

(* A demanded exit ends flat or is withdrawn, unless a submission without an *)
(* answer fences the symbol.                                                 *)
LiquidationCompletes == (row.exitAll /\ Quiet) ~> (~row.exitAll \/ ~Quiet)

(* A partial sell ends: filled, withdrawn, or taken over by a full exit, as  *)
(* long as the bound on orders leaves room for one.                          *)
Going == row.status = "PARTIAL_SELL" /\ Quiet /\ Len(ords) < MaxOrders - 1
PartialCompletes == Going ~> ~Going
=============================================================================
