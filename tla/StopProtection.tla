--------------------------- MODULE StopProtection ---------------------------
(***************************************************************************)
(* The stop of one open position: the durable card row, the worker's       *)
(* cached copy of it, the feed's rule and latches, and the stop change the *)
(* operator asked for.  The feed thread, the UI thread and the worker's    *)
(* cycle interleave; the per-card lock of StopChangeCoordinator is held    *)
(* by the worker from the rule sync to the acknowledgement.                *)
(*                                                                         *)
(* Prices are small numbers; 0 stands for "no price".  A request's command *)
(* id is its number, a quote's received_at the number of requests so far.  *)
(***************************************************************************)
EXTENDS Naturals, FiniteSets

CONSTANTS MaxPrice, OrbLow, Breakeven,
          FirstStatus,      \* board status of the position at the start
          MaxRequests,      \* bound on operator commands of this process
          MaxTrades,        \* bound on trades
          MaxRemote,        \* bound on card writes of another device
          MaxFills,         \* bound on partial exits that fill
          CrossDevice,      \* _cross_device_operator_sync
          LoadBeforeCommit  \* the worker may load between a write and its commit

PriceAssumption ==
    /\ MaxPrice \in Nat /\ OrbLow \in 1..MaxPrice /\ Breakeven \in 1..MaxPrice
    /\ FirstStatus \in {"OPEN_POSITION", "PARTIAL_SELL"}

VARIABLES row,       \* trade_cards: the durable card
          cache,     \* the worker's copy
          revision,  \* version the cache was loaded at
          marked,    \* local_trade_card_change_generation moved since the load
          at,        \* where the worker's cycle is
          changed,   \* the cycle has a change to persist
          durable,   \* card was in durably_liquidating_card_keys
          candidates,\* breach_ack_candidates
          request,   \* StopChangeCoordinator._pending
          ui,        \* the operator's command under way
          rule,      \* StopRule of the feed, version = generation
          bucket,    \* PendingMarketState since the last drain
          detached,  \* state cut off by a rule change
          breaches,  \* pending_breaches: generation, quote and stop price
          asked, trades, remote, fills,
          hit, handoff  \* history: a trade reached the rule / the request

worker == <<cache, revision, at, changed, durable, candidates>>
feed == <<rule, bucket, detached, breaches>>
history == <<hit, handoff>>
bounds == <<asked, trades, remote, fills>>
vars == <<row, worker, marked, request, ui, feed, bounds, history>>

NoStop == [price |-> 0, cmd |-> 0, at |-> 0]
NoQuote == [p |-> 0, t |-> 0]
Empty == [low |-> NoQuote, high |-> NoQuote, last |-> NoQuote]
NoWindow == [w |-> Empty, stop |-> 0]
IdleUi == [at |-> "idle", kind |-> "none", ver |-> 0, price |-> 0, t |-> 0, wrote |-> FALSE]
Reactive == {"OPEN_POSITION", "PARTIAL_SELL"}

FirstRow == [status |-> FirstStatus, stop |-> OrbLow, pend |-> NoStop,
             exit |-> FALSE, ver |-> 1]

Init ==
    /\ row = FirstRow /\ cache = FirstRow /\ revision = 1 /\ marked = FALSE
    /\ at = "load" /\ changed = FALSE /\ durable = FALSE /\ candidates = {}
    /\ request = [pend |-> NoStop, ver |-> 0] /\ ui = IdleUi
    /\ rule = [price |-> OrbLow, gen |-> 1] /\ bucket = Empty /\ detached = NoWindow
    /\ breaches = {}
    /\ asked = 0 /\ trades = 0 /\ remote = 0 /\ fills = 0
    /\ hit = FALSE /\ handoff = FALSE

Locked == at \in {"poll", "acknowledge", "poll again", "acknowledge again"}

-----------------------------------------------------------------------------
(* Market data: publish_trade.                                               *)

Least(q, r) == IF q = NoQuote \/ r.p < q.p THEN r ELSE q
Greatest(q, r) == IF q = NoQuote \/ r.p > q.p THEN r ELSE q
AddTrade(w, q) == [low |-> Least(w.low, q), high |-> Greatest(w.high, q), last |-> q]

(* One latch for a rule version: its first breaching trade.                  *)
publish_trade(p) ==
    /\ trades < MaxTrades /\ trades' = trades + 1
    /\ LET q == [p |-> p, t |-> asked]
           breached == rule.price # 0 /\ p <= rule.price
       IN  /\ bucket' = AddTrade(bucket, q)
           /\ breaches' = IF breached /\ \A b \in breaches : b.gen # rule.gen
                          THEN breaches \cup {[gen |-> rule.gen, q |-> q, stop |-> rule.price]}
                          ELSE breaches
           /\ hit' = (hit \/ (breached /\ row.status \in Reactive))
           /\ handoff' = (handoff \/ (/\ row.pend.cmd # 0 /\ row.status \in Reactive
                                      /\ asked >= row.pend.at /\ p <= row.pend.price))
    /\ UNCHANGED <<row, worker, marked, request, ui, rule, detached, asked, remote, fills>>

-----------------------------------------------------------------------------
(* The operator's thread: request_board_action.                              *)

(* The price a stop command would set, and whether it is refused.            *)
Wanted(kind, p) ==
    CASE kind = "SetOrbStop" -> OrbLow
      [] kind = "SetBreakevenStop" -> Breakeven
      [] OTHER -> p

Allowed(kind, price, card) ==
    /\ price >= card.stop
    /\ kind = "SetManualStop" => price >= Breakeven

(* The command is built from the card on screen, then read and checked.      *)
AskStop(kind, p) ==
    /\ ui = IdleUi /\ asked < MaxRequests /\ row.status \in Reactive
    /\ asked' = asked + 1
    /\ ui' = [at |-> "stop", kind |-> kind, ver |-> row.ver,
              price |-> Wanted(kind, p), t |-> asked + 1, wrote |-> FALSE]
    /\ UNCHANGED <<row, worker, marked, request, feed, trades, remote, fills, history>>

(* Another command of the card, such as a partial sell: no stop lock.        *)
AskOther ==
    /\ ui = IdleUi /\ asked < MaxRequests /\ row.status \in Reactive
    /\ asked' = asked + 1
    /\ ui' = [IdleUi EXCEPT !.at = "other", !.ver = row.ver]
    /\ UNCHANGED <<row, worker, marked, request, feed, trades, remote, fills, history>>

Current(v) == row.ver = v

(* The version and the guard are checked on the row in the transaction; one  *)
(* stop change at a time.                                                    *)
Refused ==
    \/ ~Current(ui.ver)
    \/ row.status \notin Reactive
    \/ ui.at = "stop" /\ (row.pend.cmd # 0 \/ ~Allowed(ui.kind, ui.price, row))

UiRejected ==
    /\ ui.at # "idle" /\ ~ui.wrote /\ Refused
    /\ ui' = IdleUi
    /\ UNCHANGED <<row, worker, marked, request, feed, bounds, history>>

(* The generation moves with the UPDATE statement, before the commit.  From  *)
(* here the database keeps other writers of the row waiting.                 *)
UiWrite ==
    /\ ui.at # "idle" /\ ~ui.wrote /\ ~Refused
    /\ ui.at = "stop" => ~Locked
    /\ marked' = TRUE /\ ui' = [ui EXCEPT !.wrote = TRUE]
    /\ UNCHANGED <<row, worker, request, feed, bounds, history>>

(* record_durable follows under the same lock.                               *)
UiCommit ==
    /\ ui.wrote
    /\ LET pend == IF ui.at = "stop" THEN [price |-> ui.price, cmd |-> ui.t, at |-> ui.t]
                   ELSE row.pend
       IN  /\ row' = [row EXCEPT !.ver = @ + 1, !.pend = pend]
           /\ request' = IF ui.at = "stop" THEN [pend |-> pend, ver |-> row.ver + 1]
                         ELSE request
    /\ ui' = IdleUi
    /\ UNCHANGED <<worker, marked, feed, bounds, history>>

(* Another device edits the card through its own process.                    *)
RemoteWrite ==
    /\ ~ui.wrote /\ remote < MaxRemote /\ row.status \in Reactive
    /\ row' = [row EXCEPT !.ver = @ + 1] /\ remote' = remote + 1
    /\ UNCHANGED <<worker, marked, request, ui, feed, asked, trades, fills, history>>

-----------------------------------------------------------------------------
(* The worker's cycle.                                                       *)

Reload == cache' = row /\ revision' = row.ver /\ marked' = FALSE

(* Variant: a moved revision does not replace the copy.                      *)
LoadKeepsOld ==
    /\ at = "load" /\ at' = "reconcile" /\ (marked \/ CrossDevice) /\ ~ui.wrote
    /\ marked' = FALSE
    /\ UNCHANGED <<cache, revision>>
    /\ UNCHANGED <<row, changed, durable, candidates, request, ui, feed, bounds, history>>

(* The revision is asked for after a local write and, across devices, when   *)
(* the pulse or the interval says so; the copy is replaced if it moved.      *)
LoadAsks ==
    /\ at = "load" /\ at' = "reconcile" /\ (marked \/ CrossDevice)
    /\ LoadBeforeCommit \/ ~ui.wrote
    /\ IF revision # row.ver THEN Reload
       ELSE marked' = FALSE /\ UNCHANGED <<cache, revision>>
    /\ UNCHANGED <<row, changed, durable, candidates, request, ui, feed, bounds, history>>

LoadCached ==
    /\ at = "load" /\ at' = "reconcile" /\ ~marked
    /\ UNCHANGED <<cache, revision, marked>>
    /\ UNCHANGED <<row, changed, durable, candidates, request, ui, feed, bounds, history>>

Superseded(card) == card.ver > request.ver /\ card.pend.cmd = 0

(* reconcile_durable: completed (matches_active) or superseded.              *)
Retired(card) ==
    IF request.pend.cmd # 0 /\ card.pend.cmd # request.pend.cmd
       /\ ((card.stop = request.pend.price /\ card.pend.cmd = 0) \/ Superseded(card))
    THEN [pend |-> NoStop, ver |-> 0] ELSE request

(* apply_breakeven_stop tightens only.                                       *)
WithBreakeven(card) ==
    [card EXCEPT !.status = "OPEN_POSITION",
                 !.stop = IF @ <= Breakeven THEN Breakeven ELSE @]

Flat(card) ==
    [card EXCEPT !.status = "CLOSED", !.stop = 0, !.pend = NoStop, !.exit = FALSE]

(* Account reconciliation writes the row and the worker loads it again.      *)
_refresh_account_state(new) ==
    /\ ~ui.wrote /\ at = "reconcile" /\ at' = "sync"
    /\ row' = [new EXCEPT !.ver = row.ver + 1]
    /\ request' = Retired(row')
    /\ cache' = row' /\ revision' = row'.ver /\ marked' = FALSE
    /\ durable' = row'.exit
    /\ UNCHANGED <<changed, candidates, ui, feed, asked, trades, remote, history>>

PartialExitReported ==
    /\ row.status = "PARTIAL_SELL" /\ fills < MaxFills /\ fills' = fills + 1
    /\ _refresh_account_state(WithBreakeven(row))

FlatReported ==
    /\ row.status # "CLOSED" /\ fills < MaxFills /\ fills' = fills + 1
    /\ _refresh_account_state(Flat(row))

NothingReported ==
    /\ at = "reconcile" /\ at' = "sync"
    /\ durable' = cache.exit
    /\ UNCHANGED <<row, cache, revision, marked, changed, candidates, request, ui, feed, bounds, history>>

(* overlay_pending.                                                          *)
Overlaid ==
    IF /\ request.pend.cmd # 0
       /\ cache.pend.cmd \in {0, request.pend.cmd}
       /\ cache.pend.cmd = request.pend.cmd
          \/ (cache.status \in Reactive /\ ~Superseded(cache)
              /\ ~(cache.stop = request.pend.price))
    THEN [cache EXCEPT !.pend = request.pend] ELSE cache

Dropped ==
    IF request.pend.cmd # 0 /\ cache.status \in Reactive
       /\ cache.stop # request.pend.price /\ Superseded(cache)
    THEN [pend |-> NoStop, ver |-> 0] ELSE request

(* Variant: the feed keeps the active stop until the card has changed.       *)
RulePriceActive(card) == IF card.status \notin Reactive THEN 0 ELSE card.stop

(* Under apply_pending_changes the requested price is the rule.              *)
RulePrice(card) ==
    IF card.status \notin Reactive THEN 0
    ELSE IF card.pend.cmd # 0 THEN card.pend.price ELSE card.stop

(* replace_stop_rules: a changed rule cuts the events so far off.            *)
replace_stop_rules(price) ==
    IF price = rule.price THEN UNCHANGED <<rule, bucket, detached>>
    ELSE /\ rule' = [price |-> price, gen |-> IF price = 0 THEN rule.gen ELSE rule.gen + 1]
         /\ bucket' = Empty
         /\ detached' = [w |-> bucket, stop |-> rule.price]

_sync_market_stop_rules(from) ==
    /\ at = from /\ ~(ui.wrote /\ ui.at = "stop")
    /\ cache' = Overlaid /\ request' = Dropped
    /\ replace_stop_rules(RulePrice(Overlaid))
    /\ UNCHANGED <<row, revision, marked, changed, durable, candidates, ui, breaches, bounds, history>>

Sync == _sync_market_stop_rules("sync") /\ at' = "poll"

SyncAgain ==
    /\ _sync_market_stop_rules("sync again")
    /\ at' = IF detached'.w # Empty THEN "poll again" ELSE "acknowledge again"

Representatives(w) == {w.low, w.high, w.last} \ {NoQuote}

(* poll_once: every drained quote with the stop it is judged by (0: the      *)
(* card's own), and the latched breaches no window stands for.               *)
Polled ==
    {[q |-> q, stop |-> detached.stop] : q \in Representatives(detached.w)}
    \cup {[q |-> q, stop |-> rule.price] : q \in Representatives(bucket)}
    \cup {[q |-> b.q, stop |-> b.stop] : b \in breaches}

(* evaluate_quote for a card that is open.                                   *)
Triggered(x) ==
    /\ cache.status \in Reactive
    /\ LET stop == IF x.stop = 0 THEN cache.stop ELSE x.stop
       IN  stop # 0 /\ x.q.p <= stop

evaluate_pending_stop_handoff(x) ==
    /\ cache.status \in Reactive /\ cache.pend.cmd # 0
    /\ x.q.t >= cache.pend.at /\ x.q.p <= cache.pend.price

(* A breach found only by the handoff is latched for the new generation.     *)
Poll(from, to) ==
    /\ at = from /\ at' = to
    /\ LET byRule == cache.exit \/ \E x \in Polled : Triggered(x)
           late == {x \in Polled : evaluate_pending_stop_handoff(x)}
           exit == byRule \/ late # {}
           latch == IF ~byRule /\ late # {} /\ \A b \in breaches : b.gen # rule.gen
                    THEN {[gen |-> rule.gen, q |-> (CHOOSE x \in late : TRUE).q,
                           stop |-> cache.pend.price]}
                    ELSE {}
       IN  /\ cache' = IF exit /\ cache.status \in Reactive
                       THEN [cache EXCEPT !.exit = TRUE, !.status = "SELL_ALL"] ELSE cache
           /\ changed' = (changed \/ cache' # cache)
           /\ breaches' = breaches \cup latch
           /\ candidates' = IF exit THEN candidates \cup {b.gen : b \in breaches \cup latch}
                            ELSE candidates
    /\ bucket' = Empty /\ detached' = NoWindow
    /\ UNCHANGED <<row, revision, marked, durable, request, ui, rule, bounds, history>>

(* acknowledge_pending_stop_change, once the feed has the new rule; the rule *)
(* of a card that no longer reacts has been kept or dropped with the card.   *)
Acknowledge(from, to) ==
    /\ at = from /\ at' = to
    /\ IF cache.pend.cmd # 0 /\ rule.price = cache.pend.price
       THEN cache' = [cache EXCEPT !.stop = cache.pend.price, !.pend = NoStop]
            /\ changed' = TRUE
       ELSE UNCHANGED <<cache, changed>>
    /\ UNCHANGED <<row, revision, marked, durable, candidates, request, ui, feed, bounds, history>>

(* run_heartbeat, as far as stops go: a partial exit has completed.          *)
_complete_partial_exit ==
    /\ at = "heartbeat" /\ at' = "sync again"
    /\ \/ /\ cache.status = "PARTIAL_SELL" /\ ~cache.exit /\ fills < MaxFills
          /\ fills' = fills + 1 /\ cache' = WithBreakeven(cache) /\ changed' = TRUE
       \/ UNCHANGED <<cache, changed, fills>>
    /\ UNCHANGED <<row, revision, marked, durable, candidates, request, ui, feed, asked, trades, remote, history>>

(* Breaches are acknowledged for a card whose exit was stored now, or that   *)
(* had it when the cycle began.                                              *)
Acknowledged(stored) ==
    IF durable \/ (stored /\ cache.exit) THEN candidates ELSE {}

(* A version conflict is logged and the change is dropped.                   *)
_persist_changed ==
    /\ ~ui.wrote /\ at = "persist" /\ at' = "load"
    /\ LET stored == changed /\ cache.ver = row.ver
       IN  /\ IF stored
              THEN /\ row' = [cache EXCEPT !.ver = @ + 1] /\ cache' = row'
                   /\ marked' = TRUE /\ request' = Retired(row')
              ELSE UNCHANGED <<row, cache, marked, request>>
           /\ breaches' = {b \in breaches : b.gen \notin Acknowledged(stored)}
    /\ changed' = FALSE /\ durable' = FALSE /\ candidates' = {}
    /\ UNCHANGED <<revision, ui, rule, bucket, detached, bounds, history>>

Ui == UiRejected \/ UiWrite \/ UiCommit

Cycle ==
    \/ LoadAsks \/ LoadCached \/ NothingReported
    \/ Sync \/ Poll("poll", "acknowledge") \/ Acknowledge("acknowledge", "heartbeat")
    \/ _complete_partial_exit
    \/ SyncAgain \/ Poll("poll again", "acknowledge again")
    \/ Acknowledge("acknowledge again", "persist")
    \/ _persist_changed

Next ==
    \/ \E p \in 1..MaxPrice : publish_trade(p)
    \/ \E kind \in {"SetOrbStop", "SetBreakevenStop"} : AskStop(kind, 0)
    \/ \E p \in 1..MaxPrice : AskStop("SetManualStop", p)
    \/ AskOther \/ Ui \/ RemoteWrite
    \/ PartialExitReported \/ FlatReported
    \/ Cycle

Spec == Init /\ [][Next]_vars

(* The worker's loop runs every second and asks for the revision once in an  *)
(* interval; a command's transaction ends.                                   *)
LiveSpec == Spec /\ WF_vars(Cycle) /\ SF_vars(LoadAsks) /\ WF_vars(Ui)

-----------------------------------------------------------------------------
Over == row.exit \/ row.status = "CLOSED"

(* A trade at or below the stop the feed watches leaves a latch behind until *)
(* the row of the card demands the exit: a conflicting write loses nothing.  *)
BreachIsKept == hit => Over \/ breaches # {}

(* The row's stop never moves down while the position is open.               *)
NotWidened == row'.status # "CLOSED" => row'.stop >= row.stop
StopNeverWidened == [][NotWidened]_vars

(* A trade at or below the watched stop ends in a durable exit.              *)
BreachLiquidates == hit ~> Over

(* A trade that came after a stop request was stored, at or below the        *)
(* requested price, ends in a durable exit though the feed still had the old *)
(* rule.                                                                     *)
HandoffLiquidates == handoff ~> Over

(* A stop request that was stored becomes the stop of the card, unless the   *)
(* position ends.                                                            *)
Requested(c, p) == row.pend.cmd = c /\ row.pend.price = p
RequestTakesEffect ==
    \A c \in 1..MaxRequests, p \in 1..MaxPrice :
        Requested(c, p) ~> (row.stop >= p \/ Over)

=============================================================================
