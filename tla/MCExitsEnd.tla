----------------------------- MODULE MCExitsEnd -----------------------------
(* What ends in the exit of a position, in one of five surroundings.          *)
(* StopProtection, from a trade or a request to a durable exit or stop:       *)
(*   "trades"    a trade and requests of one device;                          *)
(*   "windows"   two trades, which one drain may hand over as one window, a   *)
(*               request and a partial exit;                                  *)
(*   "requests"  requests in a partial exit, with writes of another device.   *)
(* ExitLifecycle, from a demanded exit to no shares, with the session         *)
(*   "open"      from the start: a partial sell or a full exit, a breach;     *)
(*   "closed"    at first: an exit queued for the open, or withdrawn.         *)
EXTENDS Naturals

VARIABLES row, cache, at, ui,                       \* of either component
          revision, marked, changed, durable, candidates, request, rule, bucket,
          detached, breaches, asked, trades, remote, fills, hit, handoff,
          current, lot, plan, seen, ords, held, open, cause, left,
          scenario

Trades == INSTANCE StopProtection WITH
    MaxPrice <- 3, OrbLow <- 1, Breakeven <- 2, FirstStatus <- "OPEN_POSITION",
    MaxRequests <- 2, MaxTrades <- 1, MaxRemote <- 0, MaxFills <- 0,
    CrossDevice <- FALSE, LoadBeforeCommit <- FALSE

Windows == INSTANCE StopProtection WITH
    MaxPrice <- 3, OrbLow <- 1, Breakeven <- 2, FirstStatus <- "OPEN_POSITION",
    MaxRequests <- 1, MaxTrades <- 2, MaxRemote <- 0, MaxFills <- 1,
    CrossDevice <- FALSE, LoadBeforeCommit <- FALSE

Requests == INSTANCE StopProtection WITH
    MaxPrice <- 3, OrbLow <- 1, Breakeven <- 2, FirstStatus <- "PARTIAL_SELL",
    MaxRequests <- 2, MaxTrades <- 0, MaxRemote <- 1, MaxFills <- 1,
    CrossDevice <- TRUE, LoadBeforeCommit <- FALSE

Open == INSTANCE ExitLifecycle WITH
    Shares <- 2, StartsOpen <- TRUE, MaxOrders <- 3, MaxStops <- 1, MaxCrashes <- 1,
    UiCommands <- {"RequestPartialSell", "CancelPartialSell", "RequestSellAll"},
    MaxCommands <- 1, MaxRejects <- 0, MaxUnknown <- 0, MaxGaps <- 0,
    UiDuringPass <- FALSE

Closed == INSTANCE ExitLifecycle WITH
    Shares <- 2, StartsOpen <- FALSE, MaxOrders <- 3, MaxStops <- 0, MaxCrashes <- 0,
    UiCommands <- {"RequestSellAll", "CancelQueuedSellAll"},
    MaxCommands <- 1, MaxRejects <- 0, MaxUnknown <- 0, MaxGaps <- 0,
    UiDuringPass <- FALSE

ASSUME Trades!PriceAssumption /\ Windows!PriceAssumption /\ Requests!PriceAssumption

(* The variables of the other component stay as they are.                    *)
ofStops == <<revision, marked, changed, durable, candidates, request, rule, bucket,
             detached, breaches, asked, trades, remote, fills, hit, handoff>>
ofExits == <<current, lot, plan, seen, ords, held, open, cause, left>>
vars == <<row, cache, at, ui, ofStops, ofExits, scenario>>

Stops == {"trades", "windows", "requests"}

MCInit ==
    \/ /\ \/ scenario = "trades" /\ Trades!Init
          \/ scenario = "windows" /\ Windows!Init
          \/ scenario = "requests" /\ Requests!Init
       /\ current = {} /\ lot = 0 /\ plan = "none" /\ seen = 0 /\ ords = <<>> /\ held = 0
       /\ open = FALSE /\ cause = FALSE /\ left = 0
    \/ /\ \/ scenario = "open" /\ Open!Init
          \/ scenario = "closed" /\ Closed!Init
       /\ revision = 0 /\ marked = FALSE /\ changed = FALSE /\ durable = FALSE
       /\ candidates = {} /\ request = 0 /\ rule = 0 /\ bucket = 0 /\ detached = 0
       /\ breaches = {} /\ asked = 0 /\ trades = 0 /\ remote = 0 /\ fills = 0
       /\ hit = FALSE /\ handoff = FALSE

Stop(T, W, R) ==
    /\ UNCHANGED <<scenario, ofExits>>
    /\ \/ scenario = "trades" /\ T
       \/ scenario = "windows" /\ W
       \/ scenario = "requests" /\ R

Exit(O, C) ==
    /\ UNCHANGED <<scenario, ofStops>>
    /\ \/ scenario = "open" /\ O
       \/ scenario = "closed" /\ C

(* The fairness of LiveSpec in both components: the cycle of the worker and   *)
(* the operator's thread go on in either.                                     *)
MCSpec ==
    /\ MCInit
    /\ [][Stop(Trades!Next, Windows!Next, Requests!Next) \/ Exit(Open!Next, Closed!Next)]_vars
    /\ WF_vars(Stop(Trades!Cycle, Windows!Cycle, Requests!Cycle) \/ Exit(Open!Worker, Closed!Worker))
    /\ WF_vars(Stop(Trades!Ui, Windows!Ui, Requests!Ui) \/ Exit(Open!UiWrites, Closed!UiWrites))
    /\ SF_vars(Stop(Trades!LoadAsks, Windows!LoadAsks, Requests!LoadAsks) \/ Exit(Open!Fetch, Closed!Fetch))
    /\ WF_vars(Exit(Open!SessionOpens, Closed!SessionOpens))
    /\ SF_vars(Exit(cache.exitAll /\ Open!TickBreaches, cache.exitAll /\ Closed!TickBreaches))
    /\ SF_vars(Exit(Open!Reduce("oldest first"), Closed!Reduce("oldest first")))
    /\ SF_vars(Exit(\E i \in DOMAIN ords : Open!BrokerFills(i),
                    \E i \in DOMAIN ords : Closed!BrokerFills(i)))
    /\ WF_vars(Exit(\E i \in DOMAIN ords : Open!BrokerCancels(i),
                    \E i \in DOMAIN ords : Closed!BrokerCancels(i)))

-----------------------------------------------------------------------------
(* What presses for an exit.  In StopProtection: a trade at or below the      *)
(* watched stop, or at or below a stored request the feed does not know yet.  *)
(* In ExitLifecycle: a stored exit the broker does not know of yet.           *)
Struck == scenario \in {"trades", "windows"} /\ (hit \/ handoff) /\ ~Trades!Over
Demanded == scenario \in {"open", "closed"} /\ row.exitAll /\ Open!Quiet
Pressed == Struck \/ Demanded

(* BreachLiquidates, HandoffLiquidates and LiquidationCompletes: a breach     *)
(* ends in a durable exit, and a demanded exit ends flat or is withdrawn,     *)
(* through cancels, retries and a restart.                                    *)
ExitsComplete == Pressed ~> ~Pressed

(* RequestTakesEffect of StopProtection: a stored stop request becomes the    *)
(* stop of the card, unless the position ends.                                *)
RequestsTakeEffect ==
    \A p \in 2..3 :
        (scenario = "requests" /\ \E c \in 1..2 : Requests!Requested(c, p))
            ~> (scenario = "requests" => row.stop >= p \/ Requests!Over)
===============================================================================
