# TLA+ specifications of quant_app's execution core

This directory holds TLA+ models of the part of quant_app that moves money:
how an order is journaled, sent, recorded and reconciled, how capital is held
for it, which device may do so, how a position is protected and closed, and how
the broker's request limits are kept. TLC checks them on small instances; TLAPS
proves the central facts for every instance. File and line references are to
the repository (`src/src/...` is the application package).

## 1. The system

quant_app trades Korean equities through the KIS broker API. Several devices
run the same desktop application against one canonical database; one of them at
a time holds the *main-device lease* and may trade. A trading idea is a *card*
on a Kanban board. An entry, an exit or a change of an entry becomes an
*execution command* that the *guarded gateway* journals, sends to the broker and
records. A *reconciliation pass* compares the durable rows with broker truth, at
startup and in every heartbeat of the *runtime worker*. Every request to the
broker goes through one *request scheduler* per process.

### Inventory

| Component | State it keeps | Operations | Talks to |
|---|---|---|---|
| Execution order record (`core/execution_order_record.py`, `core/order_recovery_state.py`) | per client order id: status, broker identity, recovery state, filled quantity, version | `apply_status_transition`, `is_cancellable`, recovery transitions | used by gateway and reconciliation |
| Guarded gateway (`services/execution_command_gateway.py`) | the process state of the running command | `submit_guarded`, `cancel_guarded`, `replace_guarded`, `resume_replace_guarded`, emergency variants | ledgers, reservations, lease, broker adapter |
| Execution ledgers (`execution_command_repository.py`, `execution_order_repository.py`) | commands by idempotency key; order rows by client order id | insert once, answer once, compare-and-swap on the version | database |
| Capital reservations (`core/capital_reservation.py`, `capital_reservation_repository.py`, `buying_power_cache.py`) | one reservation per order chain: status, amounts, version; cached buying power | reserve, prepare, activate and restore for a replacement, settle, release | gateway, reconciliation |
| Legacy allocator (`capital_allocator.py`) with its lock (`utils/file_lock.py`) | a JSON mirror per device of the reservation rows | reserve, consume, release, expire | database, lock file |
| Account reconciliation (`account_reconciliation.py`) | absence evidence; otherwise a pure reducer | fetch snapshot, reduce, apply plan | broker, every ledger, cards |
| Discovered external orders | broker orders nobody claims, with a disposition | discover, dismiss, adopt | fences a symbol in the gateway |
| Main-device lease (`state_sync.py`, `execution_lease_protocol.py`, `control_ownership.py`) | holder, epoch and revision; a readiness row per device | claim, take over a stale holder, switch, release to a confirmed successor | gateway gates, runtime |
| Operator commands (`operator_commands.py`, `operator_command_service.py`) | the control row; requests with status, executor, expected card version | submit, claim, start, apply, answer, expire; guards on handing over | card repository, lease |
| Runtime worker (`ui/buyboard/runtime_worker.py`) | device phase, cached cards, timers | start, heartbeat, activation, stop | everything here |
| Trading engine (`trading_engine.py`, `buyboard_runtime.py`) | in-memory cards | entry, replacement, stop and exit decisions | gateway, cards |
| Trade card and board (`trade_card_state.py`, `kanban_transitions.py`, `trade_card_repository.py`) | board column; entry, position and exit dimensions; version | moves, projections of order outcomes | engine, reconciliation, operator |
| Entry attempts (`entry_attempt_manager.py`, `execution_workflow_service.py`) | attempt groups, deadlines | start, resolve, expire | engine, gateway |
| Stops and exits (`stop_change_coordinator.py`, `kis_realtime_market_data.py`, `eod_trading_service.py`, `position_manager.py`) | the feed's stop rule and latched breaches, a pending stop request, the exit of the card | stop change, breach, partial sell, liquidation, retries | card, gateway |
| Emergency journal (`emergency_journal.py`) | an allowance in memory and an fsynced journal used while the database is away | append, outcome, fold | gateway, database |
| Request scheduler (`kis_request_scheduler.py`, `kis_request_boundary.py`) | priority queue, budget buckets, spacing, cooldown | admit, pay, space, send, retry, defer | broker adapter |
| Broker adapter (`broker.py`, `api/kis_order.py`) | none | submit, cancel, inquire | KIS |
| Risk, strategy, market data, UI, reports | sizing, ORB windows, quotes, screens | | engine |

### What is hard

* **Crash points.** A command is three or more transactions around a broker
  call that cannot be rolled back; an emergency exit is a journal append, a
  call and another append.
* **An unreliable broker.** A request may arrive late, never, or be answered
  into the void; the acknowledgement of a cancel is not the cancel; a snapshot
  may miss pages.
* **Two writers.** Every device reconciles, the operator may sit at another
  device than the executor, and the lease may move while the old holder is
  inside a command. Version columns are the arbiter.
* **Stale copies.** A pass fetches broker truth first and reads the rows later;
  the worker acts on cached cards; a takeover is decided on an earlier read of
  the owner's row; a budget is paid before the sleep that precedes the request.
* **Shared capital.** A replacement works on the reservation of the order it
  replaces, so that its release has several possible authors.
* **Liveness.** A protective exit shares one turn with reads that never end; a
  lease must come to rest on a device that protects the positions; a journal
  written in an outage must reach the database.

The list with the line where each one bites is under `hazards` in
`PROJECT.json`, each with the properties that are about it.

### What makes each part correct

* Records: only edges of the two graphs, terminal is final, fills never shrink.
* Gateway: a client order id is sent at most once; nothing is sent before it is
  journaled; no two orders of a chain are at work together.
* Reservations: two devices never promise the same cash, an order is covered by
  its hold while it may fill, and the capital comes back when nothing can.
* Reconciliation: converges to broker truth; never concludes from a partial
  snapshot.
* Lease: after it moved, the old holder stays fenced; a live owner is left
  alone; some device ends up protecting.
* Emergency: a cut-off device never sells beside a device that took over by
  itself, and beside one the operator chose for no longer than its allowance; it
  never sells twice, and what it did reaches the database.
* Stops: a breach ends in a durable exit; a stored request takes effect.
* Entries: the plan is bought once; a cancelled rest is not bought; shares end on
  an open card with a stop; no SELL goes out while a BUY of the plan works.
* Exits: one SELL at a time; the card is closed only when flat; nothing is sold
  that nobody asked for; a demanded exit ends.
* Operator requests: the answer is true, the owner applies, each gets one.
* Scheduler: one request at a time, most urgent first, no mutation twice, no more
  than two budgets within a window.

## 2. Modules

| Module | Contents |
|---|---|
| `OrderRecord` | order statuses, both graphs, the row and its operations (pure) |
| `AccountReducer` | the order, capital and external-order part of the reconciliation reducer (pure); order chains |
| `OrderChain` | abstract: the way of an order and of the orders that replace it |
| `OrderGateway` | gateway, ledgers, reservations, lease, reconciliation passes and the broker for one symbol; implements `OrderChain` |
| `CapitalReservations` | the reservations of the gateway with amounts, the account lock, passes, the buying power cache |
| `CapitalAllocator` | the legacy allocator: database rows and the JSON mirror of each device |
| `FileLock` | the lock file behind the mirrors |
| `DeviceHandoff` | the lease, readiness rows, automatic and operator claims, the worker's phases, the owner's shutdown |
| `OperatorCommands` | requests of the device with the control, carried out by the device with the lease |
| `EmergencyJournal` | protective exits while the database is away |
| `StopProtection` | stop, breaches and stop requests of one open position |
| `EntryLifecycle` | the BUYs of one plan: attempts, completion, cancel, fills, refusals, and the fence before a SELL |
| `ExitLifecycle` | partial sells, full exits and queued exits of one position, with the account pass |
| `RequestGate` | abstract: what callers rely on from the request scheduler |
| `KisRequestScheduler` | the scheduler in detail; implements `RequestGate` |
| `MC...` | instances for TLC, one per run or pair of runs |
| `..._proofs` | theorems about `OrderGateway`, `CapitalReservations`, `CapitalAllocator`, `KisRequestScheduler`, `EmergencyJournal`, `ExitLifecycle`, `EntryLifecycle`; `Ownership_proofs` is about `DeviceHandoff` and `OperatorCommands` |

Operators whose comment starts with *Variant* are plausible mistakes in the
definition that follows them; each property is known to catch one.
In every machine, a database transaction is one action, and so is every send,
every receive and every append to a file. Locals of a thread are part of its
`pc`, `at` or `proc`. `MaxCrashes` and the other `Max...` constants, and the
budgets in `left`, bound how often the environment acts.

### OrderGateway (with OrderRecord and AccountReducer)

One symbol of one account. Each device has one thread of execution: it runs a
command or a pass (`proc[d].pc`), or is idle.

| Variable | In the code |
|---|---|
| `order` | `execution_orders`: status, identity, recovery, filled |
| `cmd` | `execution_commands`, by kind and idempotency key |
| `res` | `capital_reservations`, by the root of the chain |
| `ext` | `discovered_external_orders` |
| `pending` | `pending_entry_replacement` of the card and whether the engine would still resume it |
| `lease`, `held`, `phase` | authoritative row, epoch a gateway presents, runtime device state |
| `proc`, `snap` | locals of the running command or pass |
| `brk`, `net`, `ans`, `sent` | the broker, messages, and how often a submit crossed the boundary |

The version column of a row is represented by what it is for: `proc[d].rowOk`
(and `resOk` for the reservation) says that nobody wrote the row since `d` read
it. `Commit(d, p, C, R)` is the write of the rows `C` and the reservations `R`;
it takes the flag away from every other reader, as the bumped version does.

* `SubmitPrepare`, `MarkSubmitting`, `SubmitGate`/`SubmitAbort`, `CallSubmit`,
  `SubmitAccepted`/`SubmitRefused`/`SubmitAmbiguous`: `_do_submit`.
* `CancelStart`, `JournalCancel`, `CancelGate`/`CancelAbort`, `CallCancel`,
  `CancelAnswered`/`CancelRefused`/`CancelAmbiguous`: `_do_cancel`.
* `ReplaceIntent` (runtime), `ReplaceJournal`, `CancelJournal`, then the cancel,
  `Fence`, `PollApplies`/`PollSkips`/`PollTimesOut`,
  `ReplaceSubmit`/`ReplaceAbandon`, then the submit, and one of `Complete`,
  `Release`, `ReleasePrepared`, `Restore`, followed by `SaveCard`:
  `replace_guarded` and its caller.
* `ResumeSubmit`, `ResumeAdopt`, `ResumeClose`: `resume_replace_guarded` and the
  engine's decision to call it or to give up.
* `TxError`: a transaction that rolls back, by a database failure or a version
  conflict, with the code's own continuation (`AfterTxError`).
* `RecSnapshot`, `RecApply`: a pass. A complete one under the current lease is
  what makes a device active.
* `Boot`, `LeaseMoves`, `Stop`, `Crash`: the runtime around it.
* `Broker...`: external, as the adapter sees it.

`CancelAckMayPrecedeCancel` lets the answer to a cancel say CANCELLED before the
exchange has cancelled. `SnapshotMayBePartial` lets a pass miss broker pages,
`DatabaseMayFail` lets any transaction roll back, `LateEndings` says how else
the broker may end an open order.

### CapitalReservations, CapitalAllocator, FileLock

`CapitalReservations` gives the reservations of the gateway their amounts. An
entry is one chain; an amount is a notional at the limit price. `res` is the
row with `requested`, `remaining` and a version; `cmd[d]` the gateway command
(`Reserve` under the account lock, `Submit`, `prepare_reservation_for_replacement`,
`JournalCancel`, `RestoreHold`, `CancelProven`/`CancelAmbiguous`, `Activate`);
`pass[d]` a reconciliation pass in the code's order (`PassBalance`, then
`PassOrders`, then `PassApply`); `power[d]` the buying power cache with its
expiry; `cash` and `book` the broker. `overlap` is a history variable: a pass
has run beside a command of another device.

`CapitalAllocator` is the compatibility path: `Check` reads the active rows and
the mirror, `Insert` writes the row, `Append` the mirror; `Mutate` and `Store`
consume, release or expire with the repair of a conflicting mirror. The file
lock makes a device run one operation at a time, hence one `op[d]`.

`FileLock` is `exclusive_file_lock`: atomic creation, the age test, the breaking
of a stale file, and the unconditional unlink by the holder.

### DeviceHandoff

| Variable | In the code |
|---|---|
| `lease` | the `main_device` row: device, epoch, revision |
| `row` | `runtime_device_state`: state, generation, confirmation, freshness |
| `app` | the main window: does it believe to be main, the last look at the owner, a sync under way, the close dialog |
| `wk` | the runtime worker: mode, state, lease token, stop request |
| `want` | an operator's switch under way |

`Sync`, `auto_claim_main_device` and `claim_main_device` are the ways to the
lease (`state_sync.py`); `WorkerStarts` ... `WorkerEnds` the phases of the
worker; `confirm_standby_handoff`, `_authorize_execution_shutdown`,
`StoppedAndAsked`, `DecidedAgain` the owner's two decisions when its window is
closed, with the release tombstone. The age of a row is only whether it is
within the heartbeat limit (`Age`, `AgesAlone`); positions are open throughout.

### OperatorCommands

`submit_operator_command` (one active request per conflict group, the card
version the requester saw), `claim_next_operator_command` (oldest second
first), `start_operator_command`, `request_board_action` (applied only at the
expected version), `finish_operator_command` and its failure; the lease moves
by `switch_execution_owner` (guarded by `require_operator_handoff_clear`),
release, free claim and takeover from a stale owner (not guarded). All requests
are for one card, of which only the version matters.

### EmergencyJournal

The probe (`ProbeFails`, `ProbeSucceeds`), the allowance (`record_verified`,
`begin_outage`, `require_valid`), the emergency command in its three steps
(`append_requested`, `CallBroker`, `append_outcome`), a lost or torn append, the
fold (`reconcile_into_canonical`, then `append_reconciled`), crash and restart.
A database lost again during the fold keeps an allowance that has not expired.

The lease can leave the device in two ways. Another device claims it by itself
after `TakeoverAfter` ticks of silence (`claim_main_device_if_stale`, which
reads the heartbeat under the row lock); `AllowanceAssumption` states that the
allowance and a call end before (`EMERGENCY_LEASE_ALLOWANCE_SECONDS` against the
takeover threshold). Or the operator moves it (`switch_execution_owner`), which
on the path of `deferred_market_data_handoff` and in `claim_main_device` looks at
the target only and so waits for nothing. `owner` tells the two apart, `since`
counts the ticks from then on. A worker that reaches the database finds the
lease gone and stops (`_lease_still_current`); one that is cut off cannot, and
goes on under its allowance.

### StopProtection

The feed thread (`publish_trade`, the rule's generation, windows of lowest,
highest and latest trade, latched breaches), the operator's thread (`UiWrite`
and `UiCommit` around the bump of the local change generation) and the worker's
cycle in the code's order: load, account pass, rule sync, poll, acknowledge,
sync and poll again, acknowledge, persist, acknowledge the breaches. The lock of
`StopChangeCoordinator` is held from sync to acknowledgement (`Locked`).

### ExitLifecycle

The durable card, the worker's copy, who has read the row's current version
(`current`), the SELL orders with their ledger row (`rec`) and their state at
the broker (`st`). The worker loads, fetches, reduces, executes the plan of the
pass, evaluates quotes, then runs the stages of the engine: partial sells, their
fills, queued opens, sell-all reconciliation, retries, store. The operator's
commands go through the conflict rules of `_require_board_action_not_conflicted`
and the version check. `StartsOpen`, `UiCommands` and the `left` budgets choose
the surroundings.

### EntryLifecycle

It ends where `ExitLifecycle` begins and is built in the same way.

| Variable | In the code |
|---|---|
| `row`, `cache`, `current` | the durable card, the worker's copy, who has read the row's version |
| `at` | the stage of the worker's cycle: load, account pass, its commands, quotes, `_evaluate_buy_today`, the send, `_reconcile_entry_orders`, `_process_entry_completion`, `_retry_incomplete_sell_alls`, store |
| `ords` | BUY orders: attempt number, quantity, fills, ledger status (`rec`), state at the broker (`st`) |
| `held`, `seen` | shares at the broker, and what the pass has fetched of them |
| `ui`, `plan` | a command of the operator under way; the pass wants to liquidate |

* `EntryTriggers` and `CompletionTriggers` are the two places that decide to
  buy; both store the identity first (`prepare_entry_identity`).
* `SendAccepted` ... `SendHeldBack` are the outcomes of the attempt manager
  (`_attempt_entry_locked`) with what the engine makes of the card.
* `Fetch`, `FetchFails`, `Reduce` are the pass: refusals first (`Classified`),
  then the exact orders (`ProjectFill`, `ProjectUnfilled`), then the holdings
  (`ProjectHolding`), then `decide_emergency_sell`. A pass may list the orders
  in either direction, or miss orders or holdings.
* `request_cancel` has the three ends of a cancel; `Dies` is a crash between its
  stored identity and the call.
* `_entry_conflict_clear_for_liquidation` is the fence before a SELL.

The strategy is left open: a trigger, a wait, and the price may come at any
cycle. A plan that waits has its block reason overwritten, hence `Reasons`.

### KisRequestScheduler and RequestGate

A request is a calling thread: `Asks`, `_acquire_turn` (priority, then arrival),
`Pays` (`require_available`), `_wait_for_request_spacing`, the broker, and the
outcomes of reads and mutations with their retries and the broker-wide cooldown
(`Defer`). Times are kept as ticks still to go. `RequestGate` sees only a phase
per request; `PhaseOf` is the refinement mapping.

## 3. Runs

A run whose module is called `MC...` puts a component into one or more
*scenarios*: the variable `scenario` is chosen by `MCInit`, never changes, and
selects the instance (`INSTANCE ... WITH` its constants) that takes the steps. A
question that needs two devices and one that needs a crash then share a run
without the product of both. A property that is only promised in some scenarios
names them.

| Run | Instance | Checks | Distinct states |
|---|---|---|---|
| `gateway` | `two`: two devices, the lease moves once at any step; `one`: one device, a crash, failing transactions, partial snapshots, expiry and rejection; `early`: one device, two crashes, early cancel answers | `AtMostOnceSend`, `NeverTwoLegs`, `TerminalMeansOver`, `JournaledBeforeBroker`, `LegalOrderStep`, `ImplementsChain` | 808,216 |
| `converge` | `one`: one device, a crash, early cancel answers, expiry and rejection; `two`: two devices, the lease moves once | `LedgerConverges`, `CapitalComesBack` | 100,462 |
| `capital` | `CapitalReservations`: two devices that trade in turn or overlapping, two entries, one replacement, a cash of three | `OrderCovered`, `ReservedWithinCash` | 4,234,761 |
| `allocator` | `CapitalAllocator`: two devices, a crash, three writes of a row | `MirrorFollows`, `ClosedForGood` | 2,541,922 |
| `emergency` | `two`: two exits and a cancel, an outage, a crash; `faults`: one exit, two outages, two crashes; in both a takeover or a switch at any step | `NeverBesideNewOwner`, `SentAtMostOnce`, `DeadRowIsDead`, `FoldedInTheEnd` | 474,936 |
| `device` | `close`: an unattended and a supervised device, a crash, a closed window, a lost readiness; `switch`: a stall and two switches; `lock`: three waiters, two deaths | `LockIsBroken`, `FencedForGood`, `LiveOwnerKept`, `ProtectedInTheEnd` | 144,010 |
| `operators` | `calm`: three requests, two of which exclude each other, a change of the control and of the lease; `faults`: two requests, a crash, a takeover, a failed write, another writer | `AnswerIsTrue`, `OwnerApplies`, `AnsweredWhenCalm` | 696,200 |
| `exits` | two shares; `open`: partial sells, full exits, a breach; `closed`: queued exits and their withdrawal; two commands, a reject, a missing answer, an incomplete pass, a crash | `OneSell`, `ClosedIsFlat`, `DemandHasCause`, `SoldOnDemand` | 3,472,069 |
| `exits_end` | `StopProtection`: `trades`: a trade and two requests; `windows`: two trades, a request, a partial exit; `requests`: two requests in a partial exit, another device's write. `ExitLifecycle`: `open`: one command, a breach, a crash; `closed`: a queued exit, perhaps withdrawn | `ExitsComplete`, `RequestsTakeEffect` | 189,088 |
| `entries` | a plan of three shares, three BUYs; `calm`: three commands, two stop breaches; `doubt`: a command, a breach, an incomplete pass, a BUY without an answer, a rejected and an aborted one; `crash`: a crash, perhaps inside a cancel, with a command, a breach and an incomplete pass; `retried`: a misrouted BUY, a rejected one, a command, a breach | `BoughtWithinPlan`, `NothingLeftBehind`, `SellWaitsForBuy`, `NoBuyAfterCancel`, `SharesEndProtected`, `UnwantedBuysEnd` | 98,097 |
| `scheduler` | an exit, an entry and a read that is repeated for ever; budgets of one per window of four ticks, a reserve of one, cooldown three | `AtMostOneAhead`, `CooldownHolds`, `BurstBounded`, `ImplementsGate`, `ExitsGetThrough` | 318,823 |

Why the bounds are enough:

* One chain of an order and one replacement: the questions of `gateway` are
  about one order or the two legs of one replacement. `Qty = 2` makes unfilled,
  partially filled and filled distinct; `Qty = 1` is used where only the
  existence of an order matters. One change of the lease lets the old holder be
  at every point of every command while the new one runs a full pass, a resume
  and a submit.
* Two entries and a cash of three with amounts up to two are the smallest in
  which one entry fits and two do not. The two entries are symmetric, so are the
  two devices, and no property of `capital` is a liveness property, so the
  symmetry is sound.
* Two exits are needed for a journal with more than one entry and a cancel for
  the order of the two; a second outage is needed to fold into rows an earlier
  outage has written.
* A stall, a switch and a switch back let one device have two workers of
  different claims; three processes are the least in which two of them judge
  one lock file while a third dies.
* Two conflicting requests and an independent one meet every rule of the
  submission; two seconds order them or not.
* Two trades in one window make its lowest, highest and latest trade differ.
* Two shares make a partial sell leave a position behind; three SELL orders are
  a partial sell, a full exit and its retry.
* Three shares of a plan let one be bought, one be bought after the last pass and
  one be left (with two, a completion bought twice is never seen); three BUYs are a
  first one, its retry and a completion. What leads to a known divergence has a
  bound of zero, except the retry of a misrouted BUY: `NothingLeftBehind` and
  `SharesEndProtected` say themselves that they end there (`RefusalRetried`).
* The scheduler's three callers have three urgencies and both budgets; the
  window is longer than the mutation spacing and the cooldown, so that all three
  waits overlap.

Deadlock is checked in `gateway`, `converge`, `exits`, `exits_end`, `entries` and
`scheduler`, where something can always happen (a pass, a cycle, a tick). The
other configurations turn the check off because their budgets may be used up
while every device is at rest.

### Fairness

Nothing is ever assumed of the operator, the strategy, the market or the length
of an outage, and no fault is promised or excluded beyond its bound.

* `converge`: the heartbeat thread finishes the command or pass it is in, since
  every broker call and every poll has a timeout (`Continue`); it starts a pass
  in every period (`RecSnapshot`); a stopped application is started again
  (`Boot`). Snapshots are complete and the database is up there: with a database
  that fails for ever nothing converges. An order may stay open for ever.
* `emergency`: the probe runs in every heartbeat and goes on (`ProbeSucceeds`,
  `Fold`), a broker call returns, the append after it is tried, a dead process
  is started again. That the database returns is not assumed; `FoldedInTheEnd`
  is about a database that stays reachable.
* `device`: the timers of the window, the thread of the worker, the close dialog
  and the claim under way go on, a closed or dead application is started
  again, and the row of a dead device ages. A waiter for a file lock polls.
* `operators`: the worker polls the queue in its heartbeat, and a standby claims
  a free lease.
* `exits_end`: the worker's cycle and the operator's transaction go on, the
  session opens and the broker carries out a cancel (weak). The collection
  revision is asked for again and again and is seen in some cycle (strong). A broker that is asked again and again answers at some point, a
  fresh quote arrives at some point, and an order that can fill for infinitely
  many steps does (strong). The last SELL within the bound is let fill, as the
  code retries without a bound.
* `entries`: the worker's cycle and the operator's transaction go on and the
  broker carries out a cancel (weak). An account pass falls due every minute and
  is complete at some point, and a card that must be sold is evaluated at some
  point (strong). Nothing makes a BUY fill or a plan trigger.
* `scheduler`: time passes and every thread goes on. The read that is repeated
  for ever is part of the instance.

### Refinement

`KisRequestScheduler` implements `RequestGate` under the mapping `PhaseOf`
(`ImplementsGate`, a property of `scheduler` and a theorem). The abstract
specification is what the adapter's callers rely on: nothing is said of budgets,
spacing and cooldown, which the detailed specification adds as delays.

`OrderGateway` implements `OrderChain` under the mapping `stages`, `closed`
(`ImplementsChain`, a property of `gateway` and a theorem). The abstract
specification has neither devices nor transactions, messages or passes: an order is
put on record, retired or sent, worked, perhaps cancelled, and ended; a
replacement is put on record only after the broker has cancelled its old leg; and
the application takes an order for over only when it is, or is being cancelled.
That is what the trading engine and the card rely on, on whichever device they
run. An order that comes to the broker after the answer was given up is still
`sent` until it arrives, which is why a timeout closes nothing.

## 4. Where the code and its documents disagree

One run checks a property the repository states and finds a behaviour of the
code that breaks it; `findings` in `PROJECT.json` quotes the statement.

`sell_beside_buy`: the operator asks for Sell All while the BUY that completes a
partial fill works. The account pass of the next cycle finds holdings and a
demanded exit; `decide_emergency_sell` looks at SELL orders only, and
EMERGENCY_SELL_ALL goes out beside the BUY, past the fence that every other
origin of a liquidation meets (`SellWaitsForBuy` of `EntryLifecycle`;
`account_reconciliation.py:479`, `kanban_production_readiness.md:874`).

The same happens in more places. Each configuration below belongs to the
module beside it and TLC finds its property violated in under a minute; they are
kept out of the list of runs so that it stays short.

| Configuration, module | Property | What it shows |
|---|---|---|
| `StopBreachLost`, `StopProtection` | `BreachIsKept` | The worker's exit fails its version check against another device's write; the next cycle still has the exit in memory and acknowledges the breach as durable (`runtime_worker.py:2110`). |
| `PartialMoo`, `ExitLifecycle` | `DemandHasCause` | A partial sell asked for before the open is sent as a market-on-open order, which the account pass takes for a full exit (`account_reconciliation.py:441`). |
| `EarlyAckFailover`, `MCOrderGateway` | `NeverTwoLegs` | Cancel answer and discovery fence are two transactions (line 1065). A device that takes the lease between them resumes the replacement on an unproven cancel (`kanban_architecture.md:468`). With `Device = {d1}` and `DatabaseMayFail = TRUE` in its place one device is enough: the transaction of the fence fails, then the one that would close the card, and the engine resumes. |
| `StaleRelease`, `MCOrderGateway` | `ExposureIsReserved` | A device that lost the lease releases the reservation the new main device already uses (line 1098; `kanban_production_readiness.md:974`). |
| `PreparedRestart`, `MCOrderGateway` | `PreparedIsResolved` | A row left PREPARED by a crash is never retired or resumed (`account_reconciliation.py:1037`; `kanban_production_readiness.md:527`). |
| `PreparedRestart`, `MCOrderGateway` | `ProvenReplacementSurvivesRestart` in its place | The startup pass settles the chain and closes the card before the engine could resume a proven replacement (`account_reconciliation.py:1045`; `test_execution_command_gateway.py:1668`). |
| `SharedCapital`, `MCCapital` | `Covered` | A pass of one device beside a command of another: the transition hold rewrites the requested amount and settlement subtracts the cumulative fill from it once more (`capital_reservation_repository.py:528`, `account_reconciliation.py:1013`). `OrderCovered` is what is left: covered until that happens. |
| `SharedCapital`, `MCCapital` | `CashCoversOrders` in its place | The balance of a pass is read before its orders and stamped as fresh (`account_reconciliation.py:398`): a fill in between is neither reserved nor missing from the balance. |
| `AllocatorRace`, `CapitalAllocator` | `ReservedWithinPower` | The legacy allocator checks and inserts in two transactions under a lock of one device (`capital_allocator.py:125`, comment at line 46). |
| `EmergencyReplay`, `MCEmergencyJournal` | `FoldedOnce` | A crash between the fold and the RECONCILED append folds the entry again, although its marker is there (`emergency_journal.py:509`). |
| `EmergencyReplay`, `MCEmergencyJournal` | `NothingSoldAfterLeaseLoss` in its place, as an invariant | The operator switches to a ready standby while the old owner is cut off: `require_valid` compares the cached lease only with itself (`emergency_journal.py:186`), so the old owner sells beside the new one until its allowance ends (`control_ownership.py:195`; `kanban_production_readiness.md:974`). `NeverBesideNewOwner` is what is left. |
| `StopWidened`, `StopProtection` | `StopNeverWidened` | A request stored while a partial exit works lowers the stop again after the pass has moved it to breakeven (`trade_card_state.py:546`; `kanban_architecture.md:481`). |
| `StopHandoff`, `StopProtection` | `HandoffLiquidates` | A window keeps its lowest trade, not the lowest one since the request, so a trade that reaches the requested stop may be dropped (`trading_engine.py:530`). |
| `PartialStuck`, `ExitLifecycle` | `PartialCompletes` | A partial sell that is rejected before a crash leaves an identity that no pass resolves (`trading_engine.py:2041`; `kanban_architecture.md:187`). |
| `WithdrawnSold`, `ExitLifecycle` | `SoldOnDemand` | The worker executes EMERGENCY_SELL_ALL without asking again whether the card still demands it (`runtime_worker.py:3229`; `kanban_architecture.md:249`). |

`EarlyAckFailover` depends on a broker that may answer a cancel before
performing it; so does a plain cancel that trusts the answer and releases the
capital (`execution_command_gateway.py:2846`, against the docstring at line
1473). That is the one exception `TerminalMeansOver` of `OrderGateway` makes: a
record that says CANCELLED while its order is being cancelled.

For the entries, `MCEntry` has a scenario per divergence. `Scenarios` in
`Entries.cfg` is replaced by the one named, and the properties by the one named:

| Scenario | Property | What it shows |
|---|---|---|
| `missed` | `NothingLeftBehind` | A fill after the holdings were fetched: the card is closed as flat while the broker holds shares (`position_manager.py:382`). |
| `misrouted` | `LeftMeansGone` | A BUY refused for its route is retried, and the next pass applies the old refusal to the card, whose second BUY works (`account_reconciliation.py:1441`). |
| `waiting` | `NoBuyAfterCancel`, `NothingLeftBehind` | A card that waits for its BUY keeps the cancel as a block reason, which the next evaluation overwrites (`execution_workflow_service.py:1245`, `trading_engine.py:837`). If the BUY was accepted and only the store of the card is outstanding, the cancel takes the version away from that store; a refused attempt then drops the identity, and a second cancel sends the card back to the Buy List while the BUY works. |
| `refused` | `NoBuyAfterCancel`, `BoughtWithinPlan` | A completion refused before it is written forgets the identity but not the rest (`trading_engine.py:1975`) and buys it after the cooldown of three seconds, perhaps before the next pass: also after a cancel of the operator, and more than the plan if the last fills came after the rest was computed. |
| `aborted` | `FenceIsLifted` | A crash after a BUY was aborted at the last gate: the retry is a duplicate of a used identity and fences the card for good (`execution_command_gateway.py:231`). |
| `fenced` | `ExitReachesSale` | A crash between the stored identity of a cancel and the call: the fence it leaves is the documented one, and nobody lifts it without the operator. |

Further observations, which follow from a constant or a property of the modules:

* One request may start within a cooldown: `_requests_not_before_at` is read
  without the lock before the sleep, and the docstring of `defer_requests` says
  none does. `CooldownHolds` allows the one; `CooldownKept` would not.
* A takeover from a stale owner, or a crash, leaves a request ACCEPTED or
  EXECUTING with nobody to answer it, and `require_operator_handoff_clear` then
  blocks every switch (`kanban_architecture.md:391`); hence the scenario of
  `AnsweredWhenCalm`. A request may be applied and yet answered FAILED when the
  write of COMPLETED fails, and after a takeover a stalled executor still applies
  what it has started.
* CANCEL_ENTRY through the queue is always rejected
  (`execution_workflow_service.py:1483`; `kanban_architecture.md:386`).
* `MutualExclusion` of `FileLock` does not hold: a waiter that found the file
  stale unlinks the path without looking again (`file_lock.py:51`) and may remove
  another's fresh lock. `LockIsBroken` is about the end of a dead one.
* An account pass that sees holdings but not the orders opens the card and
  replaces a pending cancel by its own block reason
  (`account_reconciliation.py:1775`), so that the cancel is forgotten; hence
  `UnwantedBuysEnd` only in `calm`.
* A holdings answer without the symbol counts as nothing held
  (`buyboard_runtime.py:397`), and the retry of a full exit then closes the card
  (`trading_engine.py:2344`). A page that fails raises instead, but a comment of
  the adapter says that holdings may be missing until they settle
  (`kis_account_snapshot_dual.py:583`). `ClosedIsFlat` assumes an answer that
  names the holding (section 6).
* With `CloseDuringClaim = TRUE`, a window closed while a claim is under way
  leaves a lease without a worker (`LeavesNoLease`); a standby confirmed before
  the claim stays confirmed (`main_window.py`, around line 3370).

## 5. Proofs

TLAPS proves the following for every value of the constants that meets the
named assumptions of the module.

**OrderGateway**, from `QtyAssumption`, `ChainAssumption`, `GatewayAssumption`:

* `TypeCorrect`: `Spec => []TypeOK`. `TypeOK` is not inductive. A step indexes
  the ledgers by the order its process works on, so the proof carries that a
  process that is in a command has one (`GoodProc`), that a replace has its
  replacement, and that an open broker order has room for a fill
  (`RoomToFill`). `TypeInv` is the conjunction. The lemmas before it say what
  the operators of `OrderRecord` and `AccountReducer` return; one lemma per group
  of actions follows.
* `SentAtMostOnce`: `Spec => []AtMostOnceSend`. The strengthening `SendInv`
  says: a client order id without a SUBMIT command has not been sent and nobody
  is on the way to send it (`Fresh`); a process between transaction 1 and the
  broker call has not sent its order (`NotYetSent`); no two devices are on that
  way with one order (`OneSubmitter`). The argument has two active cases,
  transaction 1 (`PreparesOnce`, the duplicate-command check) and the call
  (`CallsOnce`); every other step is quiet (`QuietStep`). The lease appears
  nowhere in the invariant: at-most-once rests on the ledger alone, whichever
  devices believe themselves to be main.

* `LedgerInvariant`. `LedgerInv` relates the records to
  each other and to the broker: a submit on its way is alone and its order is not
  yet at the broker (`BrokerInv`); a row is one the gateway's rules can produce,
  and a device that holds its current version knows the status its step needs
  (`RowsInv`); a row or a snapshot never counts more fills than the broker
  (`FillsInv`); whoever was sent, or is on the way to be sent, has a command and
  a row past PREPARED (`RecordInv`). A step of a device is first described by
  its effect on each row (the `...Effect` lemmas); the parts follow from the
  effect. From it:
  * `BrokerOrdersAreJournaled`: `Spec => []JournaledBeforeBroker`;
  * `RecordsFollowTheGraph`: `Spec => LegalOrderStep`.
* `TruthInvariant`. `TruthInv` relates each final word about an order to the
  broker's own: in a row (`RowsTrue`), in a snapshot (`ViewsTrue`), in an answer
  under way (`AnswersTrue`); and a replacement that has a command replaces an
  order that is cancelled (`LegsApart`). From it:
  * `OneLegAtATime`: `~CancelAckMayPrecedeCancel` implies
    `Spec => []NeverTwoLegs`. The hypothesis is about the broker. Without it the
    property fails between two devices (`EarlyAckFailover.cfg`).
  * `NothingForgotten`: `Spec => []TerminalMeansOver`, with no hypothesis; the
    exception of the early answer is part of the property. The cfg of `gateway`
    sets the constant for the property of all three scenarios; that the exception
    is not needed in the other two is what the theorem adds.
* `OneLegOnOneDevice`: `Alone` implies `Spec => []NeverTwoLegs`, early answers or
  not. `Alone` says that one device trades and its transactions do not fail;
  crashes, partial snapshots, resumes and late endings remain, and without either
  half the property fails (§4). What protects the device is the order of its steps,
  not the ledger, so `AloneInv` is about the one row that may lie: a record
  `Unproven`, CANCELLED without discovery although the broker has not cancelled it.
  Such a record has its capital closed, so that nothing can be resumed on it, or
  the device is at the fence that will put it under discovery (`HoldClosed`);
  after a crash `phase` is not `active` until a pass has run, and the
  pass that meets such a record has seen its order open and does not take it
  for cancelled (`SeenOpen`, `ViewsProven`); a process that goes on to
  the replacement has an order the broker cancelled (`CancelProven`). That nobody
  else writes is `Current`; what a replace works on is `OnRoute`; that a
  replacement on record has the root of its chain on record is `RootKnown`.
* `GatewayIsChain`: `~CancelAckMayPrecedeCancel \/ Alone` implies
  `Spec => Chain!Spec`. `StageOf` reads the stage of an order off the broker, the
  messages, the journal and the row, in this order of authority; `closed` is the
  set of terminal records. A step of the device changes the stage of one order at
  most (`OneStage`): transaction 1 journals (`JournalChain`), the last gate
  retires (`RetireChain`), the call sends (`SendChain`), the broker moves the rest
  (`BrokerChain`). Every other step leaves the stages alone and may only close
  records of orders that are over (`TrueOver`), which is `TruthInv`. That a
  replacement is journaled only after the broker cancelled its old leg is
  `LegsProven`, which is where the hypothesis comes in. The replacement's two
  transactions, the crash between them and the resume on another device all map to
  the same few steps.

**CapitalReservations**, from `CapitalAssumption`. Sums over an account are
counted as units of capital, pairs of an entry and a number up to what its row
holds (`Units`), so that they need no induction.

* `NeverOverReserved`: `Spec => []ReservedWithinCash`, any number of devices,
  overlapping or not. `CashInv`: a command has its entry to itself
  (`OneCommand`); what a row has left and what its order has filled make up what
  was requested (`RowsRemain`); what a replacement would restore is within its
  hold as long as the version of the row is still the hold's (`HoldsKept`). The
  version is what makes a restore harmless after another device has settled the
  row.
* `OrdersStayCovered`: `Spec => []OrderCovered`. `CoverInv` adds what holds until
  a pass runs beside a command: rows, commands and what a pass has seen agree with
  the order at the broker (`OrderFits`, `CommandFits`, `ViewFits`). The condition
  is needed: `SharedCapital.cfg` shows what happens beside a command.

**KisRequestScheduler**, from `Callers` and `Limits`. The invariant: types, at
most one thread has the turn, `passed` counts the one who had it when a more
urgent thread queued, and a thread in its spacing sleep sleeps at least to the
time it will have to be checked against.

* `SchedulerIsGate`: `Spec => Gate!Spec`, step by step with one case per action.
* `OneAhead`: at most one less urgent request starts while a request waits.
* `OneSlips`: at most one request starts within a cooldown: only the thread
  that read the old deadline before its sleep can.
* `TwoBudgetsAtMost`: `Spec => []BurstBounded`, for both request classes. The
  budget is paid before the spacing sleep, so a request may start in a later window
  than the one it was paid in. The invariant (`Covered`) therefore counts the
  starts together with the one still owed by a sleeper: what was started since the
  bucket's refill, plus what is owed, was paid out of it, and a whole window was
  paid out of two. A refill happens only with the turn and before paying, hence
  while nothing is owed (`WindowOver`); a tick maps the starts of the last n + 1
  ticks one to one into those of the last n before it (`StartsAge`). The bound is
  tight: TLC reaches `2 * Capacity` starts within a window.

**DeviceHandoff** (`Ownership_proofs`), from `HandoffAssumption`. The invariant is the type invariant
and `Behind`: the lease an owner's worker was started with
has an epoch no later than the row's, and if it is the current epoch no other
device holds the row.

* `StaleStaysStale`: a worker that lost its lease never finds it current again.
* `NoLiveTakeover`: an automatic claim takes the lease from no one or from an
  owner that is gone at that moment.

**EmergencyJournal**, from `AllowanceAssumption` and `TargetAssumption`.
`OverlapIsBounded`: `Spec => []NeverBesideNewOwner`. While a protective call is
under way no device has taken over by itself, and one the operator switched to
has owned the account for no longer than the allowance and a call last. The
invariant says that a successor has waited for its takeover time (`Waited`), that
a call under way is younger than the allowance and a call time (`Young`), and
that the lease is not verified again once it has moved, so that `since` is at
most `age` (`Unrenewed`).
`EachKeyOnce`: `Spec => []SentAtMostOnce`, for whatever crashes, outages and
replays. `KeyInv`: a key that was called is in the journal or has a command
(`CallsOnRecord`); a device with a grant knows every key that has a command
(`GrantKnows`); the fold leaves no journaled key without one (`FoldUnderWay`); so
the call under way is the first for its key (`FirstCall`).
`NoDeadRowWorks`: `Spec => []DeadRowIsDead`; `RowInv` follows an answer from the
broker through the journal and the fold to the row.

**CapitalAllocator**, from `AllocatorAssumption`. The invariant: types, a row
that gave its capital back has none left, the mirror of a device is a row as it
was, and so is what an operation carries (or a legal successor of it).

* `MirrorIsBehind`: under the same version mirror and row are equal.
* `NeverReopened`: no step, and no mutation from a stale mirror, reopens a row.

**OperatorCommands** (`Ownership_proofs`), from `CommandAssumption`. The invariant ties an
executor's step to the row it works on: it is the one named in the row, the row
has the status of that step, and what it is about to answer is what it did.

* `AnswersAreTrue`: `Spec => []AnswerIsTrue`.
* `OwnersApply`: `Spec => OwnerApplies`. A switch waits for the requests in
  flight and a release for the worker, so the lease stays with the executor.

**ExitLifecycle**, from `ExitAssumption`: any number of shares, any set of the
operator's commands and any bounds. The inductive invariant `ExitInv` has three
parts.

* `CardsFit`: what the row and the worker's copy may say of the holdings and of
  the demand (`Fits`). The lemmas follow each thing a handler does to a card: an
  edit that leaves column, demand and identity (`Bookkeeping`), a closed card, a
  finished partial sell, a demand. `ProjectedFits` takes this through the fold of
  an account pass over the orders in any order.
* `OrdersFit`: at most one order is open in the ledger, what works at the broker
  is open in the ledger, and its rest is covered by the shares held. Hence
  nothing is left to wait for when `find_open_sell_order` finds nothing, and
  every share held can be sold (`AllOrderable`).
* `Control`: a SELL is on its way only while no other is open (`SellsAlone`); the
  holdings a pass has seen can only have become fewer (`SeenBefore`); the
  identity about to be sent is on the row (`SameId`, `PrepareFits`); the operator's
  command still fits the row it has looked at as long as the version has not moved
  (`AskedOfRow`); as long as nobody has asked, nothing but partial sells in the
  session exists (`NothingAsked`).

From it, one lemma per action:

* `OneSellWorks`: `Spec => []OneSell`, and `ClosedMeansFlat`:
  `Spec => []ClosedIsFlat`, without a hypothesis.
* `DemandsHaveCause`: `Spec => []DemandHasCause`, if the session is open from the
  start or no partial sell is ever asked for. `PartialMoo.cfg` is the
  counterexample without the hypothesis.
* `DemandedSales`: `Spec => SoldOnDemand`, if the operator does not act between
  the plan of a pass and its command (`~UiDuringPass`). `WithdrawnSold.cfg` is the
  counterexample without it. Nothing else lets a withdrawn exit go out:
  `PrepareFits` shows that a worker that has lost the version sends nothing.

**EntryLifecycle**, from `EntryAssumption`: any plan, any bound on its BUYs, any
commands and any bounds on what may go wrong. The properties do not survive the
divergences of §4, so the theorems name the ones that must not happen: `Never(k)`
says that no value of `Bounds` allows kind `k`, and the scenario of the same name
is the counterexample without it. `TypeCorrect` needs no hypothesis. The proofs
first say what each handler does to a card: the cancel of a BUY (`Follows`), an
order in an account pass (`Onward`), the holdings (`HoldingOnward`), the answer of
the gateway (`TakenOn`, `TurnedDown`, `Retried`). `PassKeeps` takes what holds of
one order through the fold of a pass over all of them, in either direction.

* `NoSellBesideBuy`: `Spec => SellWaitsForBuy`, given `Never("beside")`. Whatever
  works at the broker is open in the ledger (`OrderFits`), and the worker's sale
  waits until nothing is open. The account pass does not, which is the finding.
* `PlanIsBoughtOnce`: `Spec => []BoughtWithinPlan`, given `Never("refused")`.
  `PlanInv`: at most one BUY was kept by the broker and it is the last
  (`OrdersFit`); a card that waits for its BUY would send the identity of the kept
  one, and a rest always belongs to an identity that was used (`PlanFits`). A
  second BUY would therefore be a duplicate (`FirstBuy`): the card of a partly
  filled BUY buys its rest only after the identity was forgotten, which is the
  hypothesis.
* `CancelledIsNotBought`: `Spec => NoBuyAfterCancel`, given also
  `Never("waiting")`: a card that waits for its BUY does not carry a cancel.
* `NothingIsLeft`: `Spec => []NothingLeftBehind`, given also `Never("missed")`.
  `LeftInv` says when a card may leave: a card without an identity has only BUYs in
  doubt, a command that will be carried out still finds the card it was given for
  (`StillAsked`), and a BUY that was taken but is not on the card yet is about to be
  stored, or found by the pass of the restart (`Unstored`, `PassFinds`). A retried
  refusal ends the invariant and is part of the property.

Only model-checked: every liveness property, since fairness and `ENABLED` are
outside what the prover handles; and `StopProtection` and `FileLock` as a whole. `SentAtMostOnce` is the
name of a theorem about `OrderGateway` and of a property of `EmergencyJournal`,
which is the theorem `EachKeyOnce`.

## 6. Not modelled, and why

In the modelled components:

* Gateway: the in-memory record caches of `find_runtime_order`; a replace
  without a portfolio risk specification; legacy mode; orders adopted by the
  operator; the heuristic match of a submission (the KIS adapter supplies no
  submission time, so it never finds a candidate); retries inside the adapter
  before the broker accepted anything. Quotes, sessions, scores and risk
  decisions are nondeterministic.
* Reconciliation: absence evidence (two complete generations at least a minute
  apart; it hands an order to the operator and releases an orphaned
  reservation), foreign orders in the entry, stop and exit models.
* Entries: the replacement of a working BUY (its orders are those of
  `OrderGateway`), reactivation from the Buy List, partial sells beside a BUY,
  resizing by risk, the end-of-day cleanup; the cooldown and the rate limit are
  an attempt held back.
* Stops and exits: trading halts, price collars, the end-of-day selection rules.
  `refresh_orderable_quantity` is taken to name the holding; in the code an
  answer without the section or the symbol is 0.
* Reservations: when a cancel reports new fills the command releases its hold in
  a transaction of its own; here the settlement of a pass does.
* Emergency: the new owner sends its own orders under its own identities, as in
  `OrderGateway`; what the overlap after a switch means for the shares is not
  followed.
* Operator requests: the payloads and the publication of the plan before the
  market. BROKER_SUBMITTED, PARTIALLY_FILLED, FILLED, CANCELLED and EXPIRED are
  never written by the code. The conflict check is atomic with its insert; a
  snapshot read of the database could separate them.
* Scheduler: metrics, and `synchronize_budget` and `mark_budget_uncertain`,
  which nothing calls.
* Lease: synchronised user documents and the queue reconciliation after a
  handoff. Releasing another device's tombstone raises and changes nothing.

Components left out, in the order in which they would be worth adding:

* Risk and sizing, ORB strategy, exit policy: floating-point formulas without
  state.
* Market data beyond the feed's stop rules: sockets and parsing.
* The legacy manual order path, superseded by the guarded engine; schema
  migration and activation gates, a deployment procedure.
* HTTP, parsing, user interface, web, research and reports. These are the bulk
  of the repository's lines, so that the mapped lines are a small share of it
  although the execution core is covered.
