------------------------ MODULE CapitalReservations ------------------------
(***************************************************************************)
(* Capital of one account under the guarded gateway: the reservation rows   *)
(* with their amounts, the account lock, the transition hold of a           *)
(* replacement, the settlement by reconciliation passes, and the buying     *)
(* power cache that the availability check reads.                           *)
(*                                                                          *)
(* An entry is one chain of orders: an order and what replaces it.  Amounts *)
(* are notionals at the limit price, so that a fill of n spends n.  The     *)
(* lease does not appear: any device may run a command, one per entry, as   *)
(* after a takeover in the middle of one.                                   *)
(***************************************************************************)
EXTENDS Integers, FiniteSets, FiniteSetsExt

CONSTANTS Device, Entry,
          Cash,           \* cash of the account at the start
          MaxAmount,      \* largest order
          MaxReplaces     \* bound on the replacements of the account

ASSUME CapitalAssumption ==
    /\ Cash \in Nat /\ MaxAmount \in Nat \ {0} /\ MaxReplaces \in Nat
    /\ IsFiniteSet(Entry)

NoSnapshot == -1

VARIABLES
    cash,     \* the broker's cash
    book,     \* the broker's order of each entry
    row,      \* execution order row of the leaf of each entry
    res,      \* capital reservation row of each entry
    power,    \* buying power cache of each device
    pass,     \* reconciliation pass of each device
    cmd,      \* command each device runs
    replaces, \* replacements started so far
    overlap   \* history: a pass ran beside a command of another device

vars == <<cash, book, row, res, power, pass, cmd, replaces, overlap>>

OpenReservation == {"RESERVED", "PARTIALLY_CONSUMED"}
ReservationStatus == OpenReservation \cup {"CONSUMED", "RELEASED"}
NoReservation == [status |-> "NONE", requested |-> 0, remaining |-> 0, version |-> 0]
NoOrder == [st |-> "none", total |-> 0, filled |-> 0]
NoRow == [st |-> "NONE", filled |-> 0]
NoCommand == [pc |-> "idle", entry |-> "none", amount |-> 0, power |-> 0,
              held |-> NoReservation, prev |-> NoReservation]
NoPass == [pc |-> "idle", balance |-> 0, view |-> [e \in Entry |-> NoOrder]]

IsOpen(r) == r.status \in OpenReservation

(* The units of capital that the active rows among S hold.                   *)
Units(rows, S) == UNION {{e} \X (1 .. rows[e].remaining) : e \in {x \in S : IsOpen(rows[x])}}

(* What the active rows of a set of entries hold together.                   *)
Reserved(S) == Cardinality(Units(res, S))

(* update_reservation bumps the version of every row it writes.              *)
Write(r) == [r EXCEPT !.version = @ + 1]

Larger(a, b) == IF a > b THEN a ELSE b
LeftOf(o) == o.total - o.filled

Reservation == [status : ReservationStatus \cup {"NONE"}, requested : 0 .. MaxAmount,
                remaining : 0 .. MaxAmount, version : Nat]
Order == [st : {"none", "open", "over"}, total : 0 .. MaxAmount, filled : 0 .. MaxAmount]

TypeOK ==
    /\ cash \in 0 .. Cash
    /\ book \in [Entry -> Order]
    /\ row \in [Entry -> [st : {"NONE", "SUBMITTING", "WORKING", "CANCEL_PENDING", "OVER"},
                         filled : 0 .. MaxAmount]]
    /\ res \in [Entry -> Reservation]
    /\ power \in [Device -> NoSnapshot .. Cash]
    /\ pass \in [Device -> [pc : {"idle", "orders", "apply"}, balance : 0 .. Cash,
                            view : [Entry -> Order]]]
    /\ cmd \in [Device -> [pc : {"idle", "reserve", "submit", "replace",
                                 "cancel", "cancelling", "cancelled"},
                           entry : Entry \cup {"none"}, amount : 0 .. MaxAmount,
                           power : 0 .. Cash, held : Reservation, prev : Reservation]]
    /\ replaces \in 0 .. MaxReplaces

Init ==
    /\ cash = Cash
    /\ book = [e \in Entry |-> NoOrder]
    /\ row = [e \in Entry |-> NoRow]
    /\ res = [e \in Entry |-> NoReservation]
    /\ power = [d \in Device |-> NoSnapshot]
    /\ pass = [d \in Device |-> NoPass]
    /\ cmd = [d \in Device |-> NoCommand]
    /\ replaces = 0
    /\ overlap = FALSE

-----------------------------------------------------------------------------
(* Entry commands.                                                           *)

(* One thread of a device runs its commands and its passes.                  *)
Free(d, e) == cmd[d].pc = "idle" /\ pass[d].pc = "idle" /\ \A x \in Device : cmd[x].entry # e
At(d, e, l) == cmd[d].pc = l /\ cmd[d].entry = e
Step(d, l) == cmd' = [cmd EXCEPT ![d].pc = l]
Done(d) == cmd' = [cmd EXCEPT ![d] = NoCommand]

(* The provider fails closed without a fresh snapshot.                       *)
buying_power_provider(d) == IF power[d] = NoSnapshot THEN 0 ELSE power[d]

(* An entry decision reads the cache before the gateway opens a transaction. *)
StartEntry(d, e, a) ==
    /\ Free(d, e) /\ res[e] = NoReservation
    /\ cmd' = [cmd EXCEPT ![d] = [NoCommand EXCEPT !.pc = "reserve", !.entry = e,
                 !.amount = a, !.power = buying_power_provider(d)]]
    /\ UNCHANGED <<cash, book, row, res, power, pass, replaces>>

(* Variant: the check counts the other entries of this device only once they *)
(* have an order row, as a check outside the account lock would.             *)
AvailableUnlocked(d, e) ==
    cmd[d].power - Reserved({x \in Entry \ {e} : row[x].st # "SUBMITTING"})

(* Active rows are read and locked together with the account row.            *)
Available(d, e) == cmd[d].power - Reserved(Entry \ {e})

(* insert_reservation_if_available, in the transaction of the PREPARED row.  *)
Reserve(d, e) ==
    /\ At(d, e, "reserve")
    /\ \/ /\ Available(d, e) >= cmd[d].amount
          /\ res' = [res EXCEPT ![e] = [status |-> "RESERVED", requested |-> cmd[d].amount,
                                        remaining |-> cmd[d].amount, version |-> 1]]
          /\ row' = [row EXCEPT ![e] = [st |-> "SUBMITTING", filled |-> 0]]
          /\ Step(d, "submit")
       \/ /\ Available(d, e) < cmd[d].amount
          /\ Done(d)
          /\ UNCHANGED <<res, row>>
    /\ UNCHANGED <<cash, book, power, pass, replaces>>

(* The broker takes the order and the answer is recorded, or it refuses and  *)
(* the reservation is released.                                              *)
Submit(d, e) ==
    /\ At(d, e, "submit")
    /\ \/ /\ book' = [book EXCEPT ![e] = [st |-> "open", total |-> cmd[d].amount, filled |-> 0]]
          /\ row' = [row EXCEPT ![e].st = "WORKING"]
          /\ UNCHANGED res
       \/ /\ row' = [row EXCEPT ![e].st = "OVER"]
          /\ res' = [res EXCEPT ![e] = Write([@ EXCEPT !.status = "RELEASED", !.remaining = 0])]
          /\ UNCHANGED book
    /\ Done(d)
    /\ UNCHANGED <<cash, power, pass, replaces>>

-----------------------------------------------------------------------------
(* Replacement of a working entry.                                           *)

(* The runtime refuses a filled order; the gateway opens its transaction     *)
(* later.                                                                    *)
StartReplace(d, e, a) ==
    /\ Free(d, e) /\ replaces < MaxReplaces
    /\ row[e] = [st |-> "WORKING", filled |-> 0]
    /\ cmd' = [cmd EXCEPT ![d] = [NoCommand EXCEPT !.pc = "replace", !.entry = e,
                 !.amount = a, !.power = buying_power_provider(d)]]
    /\ replaces' = replaces + 1
    /\ UNCHANGED <<cash, book, row, res, power, pass>>

(* Both legs are excluded by one another at the broker, so the row holds the *)
(* larger of them until the cancellation is settled.                         *)
TransitionHold(r, a) ==
    Write([r EXCEPT !.requested = Larger(r.remaining, a), !.remaining = Larger(r.remaining, a)])

prepare_reservation_for_replacement(d, e) ==
    /\ At(d, e, "replace")
    /\ \/ /\ IsOpen(res[e]) /\ Available(d, e) >= cmd[d].amount
          /\ LET h == TransitionHold(res[e], cmd[d].amount) IN
             /\ res' = [res EXCEPT ![e] = h]
             /\ cmd' = [cmd EXCEPT ![d].pc = "cancel", ![d].held = h, ![d].prev = res[e]]
       \/ /\ ~IsOpen(res[e]) \/ Available(d, e) < cmd[d].amount
          /\ Done(d)
          /\ UNCHANGED res
    /\ UNCHANGED <<cash, book, row, power, pass, replaces>>

(* The cancel is journaled if the row is still cancellable.                  *)
JournalCancel(d, e) ==
    /\ At(d, e, "cancel") /\ row[e].st = "WORKING"
    /\ row' = [row EXCEPT ![e].st = "CANCEL_PENDING"]
    /\ Step(d, "cancelling")
    /\ UNCHANGED <<cash, book, res, power, pass, replaces>>

(* restore_prepared_replacement_reservation wants the version it prepared.   *)
Restorable(d, e) == res[e].version = cmd[d].held.version

(* A cancel that was never sent or was refused gives the previous hold back,  *)
(* also if it was refused because the order had ended.                       *)
RestoreHold(d, e) ==
    /\ At(d, e, "cancel") \/ At(d, e, "cancelling")
    /\ row' = IF row[e].st = "CANCEL_PENDING" THEN [row EXCEPT ![e].st = "WORKING"] ELSE row
    /\ res' = IF Restorable(d, e)
              THEN [res EXCEPT ![e] = [cmd[d].prev EXCEPT !.version = res[e].version + 1]]
              ELSE res
    /\ Done(d)
    /\ UNCHANGED <<cash, book, power, pass, replaces>>

(* The inquiry proved the cancellation with no new fill.                     *)
CancelProven(d, e) ==
    /\ At(d, e, "cancelling")
    /\ book[e].st = "over" /\ book[e].filled = row[e].filled
    /\ row' = [row EXCEPT ![e].st = "OVER"]
    /\ Step(d, "cancelled")
    /\ UNCHANGED <<cash, book, res, power, pass, replaces>>

(* The outcome is not known: the hold stays for a pass to settle.            *)
CancelAmbiguous(d, e) ==
    /\ At(d, e, "cancelling")
    /\ Done(d)
    /\ UNCHANGED <<cash, book, row, res, power, pass, replaces>>

(* activate_prepared_replacement_reservation's conditions on the row.        *)
Activatable(d, e) ==
    /\ IsOpen(res[e]) /\ res[e].version = cmd[d].held.version
    /\ cmd[d].amount <= res[e].remaining

(* The hold becomes the exact reservation of the replacement, or the submit  *)
(* is blocked and the hold is released if it is still open.                  *)
Activate(d, e) ==
    /\ At(d, e, "cancelled")
    /\ \/ /\ Activatable(d, e)
          /\ res' = [res EXCEPT ![e] = Write([@ EXCEPT !.status = "RESERVED",
                        !.requested = cmd[d].amount, !.remaining = cmd[d].amount])]
          /\ row' = [row EXCEPT ![e] = [st |-> "SUBMITTING", filled |-> 0]]
          /\ Step(d, "submit")
       \/ /\ ~Activatable(d, e)
          /\ res' = IF IsOpen(res[e])
                    THEN [res EXCEPT ![e] = Write([@ EXCEPT !.status = "RELEASED", !.remaining = 0])]
                    ELSE res
          /\ Done(d)
          /\ UNCHANGED row
    /\ UNCHANGED <<cash, book, power, pass, replaces>>

-----------------------------------------------------------------------------
(* Reconciliation and balance.                                               *)

(* fetch_account_broker_snapshot asks for the position snapshot, which holds *)
(* the balance, and then for the orders.                                     *)
PassBalance(d) ==
    /\ pass[d].pc = "idle" /\ cmd[d].pc = "idle"
    /\ pass' = [pass EXCEPT ![d] = [NoPass EXCEPT !.pc = "orders", !.balance = cash]]
    /\ UNCHANGED <<cash, book, row, res, power, cmd, replaces>>

PassOrders(d) ==
    /\ pass[d].pc = "orders"
    /\ pass' = [pass EXCEPT ![d].pc = "apply", ![d].view = book]
    /\ UNCHANGED <<cash, book, row, res, power, cmd, replaces>>

(* The row after the broker's view of its order.  A row that is being        *)
(* submitted or cancelled keeps its status against an open order, and a view *)
(* from before the current leaf says nothing about it.                       *)
RowAfter(e, v) ==
    IF row[e].st \notin {"WORKING", "CANCEL_PENDING"} \/ v.st = "none" \/ v.total # book[e].total
    THEN row[e]
    ELSE [st |-> IF v.st = "over" THEN "OVER" ELSE row[e].st,
          filled |-> Larger(row[e].filled, v.filled)]

(* Variant: cumulative fills are taken off what remains, once per pass.      *)
SettleAgain(r, o) ==
    LET left == Larger(0, r.remaining - o.filled) IN
    IF ~IsOpen(r) THEN r
    ELSE IF o.st = "OVER" THEN Write([r EXCEPT !.remaining = 0, !.status = "RELEASED"])
    ELSE IF o.st = "WORKING" /\ left # r.remaining
    THEN Write([r EXCEPT !.remaining = left,
                         !.status = IF left = 0 THEN "CONSUMED" ELSE "PARTIALLY_CONSUMED"])
    ELSE r

(* _settle_capital_reservation, behind the transition hold statuses.         *)
Settle(r, o) ==
    LET left == Larger(0, r.requested - o.filled) IN
    IF ~IsOpen(r) THEN r
    ELSE IF o.st = "OVER"
    THEN Write([r EXCEPT !.remaining = 0,
                         !.status = IF o.filled >= r.requested THEN "CONSUMED" ELSE "RELEASED"])
    ELSE IF o.st = "WORKING" /\ left # r.remaining
    THEN Write([r EXCEPT !.remaining = left,
                         !.status = IF left = 0 THEN "CONSUMED" ELSE "PARTIALLY_CONSUMED"])
    ELSE r

(* The plan is applied to the rows as they are now, and the balance of the   *)
(* snapshot becomes the device's buying power.                               *)
PassApply(d) ==
    /\ pass[d].pc = "apply"
    /\ row' = [e \in Entry |-> RowAfter(e, pass[d].view[e])]
    /\ res' = [e \in Entry |-> Settle(res[e], row'[e])]
    /\ power' = [power EXCEPT ![d] = pass[d].balance]
    /\ pass' = [pass EXCEPT ![d] = NoPass]
    /\ UNCHANGED <<cash, book, cmd, replaces>>

(* The periodic refresh, or the dashboard's own account worker, which does   *)
(* not wait for a pass.                                                      *)
RefreshBalance(d) ==
    /\ power' = [power EXCEPT ![d] = cash]
    /\ UNCHANGED <<cash, book, row, res, pass, cmd, replaces>>

(* A snapshot older than DEFAULT_MAX_SNAPSHOT_AGE_SECONDS is not used.       *)
SnapshotExpires(d) ==
    /\ power[d] # NoSnapshot
    /\ power' = [power EXCEPT ![d] = NoSnapshot]
    /\ UNCHANGED <<cash, book, row, res, pass, cmd, replaces>>

-----------------------------------------------------------------------------
(* The broker (external).                                                    *)

(* A fill the account can pay for.  The exchange does not fill on credit.    *)
BrokerFills(e) ==
    /\ book[e].st = "open" /\ cash > 0
    /\ cash' = cash - 1
    /\ book' = [book EXCEPT ![e].filled = @ + 1,
                            ![e].st = IF LeftOf(book[e]) = 1 THEN "over" ELSE "open"]
    /\ UNCHANGED <<row, res, power, pass, cmd, replaces>>

(* A cancel arrives, or the order ends by itself.                            *)
BrokerEnds(e) ==
    /\ book[e].st = "open"
    /\ book' = [book EXCEPT ![e].st = "over"]
    /\ UNCHANGED <<cash, row, res, power, pass, cmd, replaces>>

(* Only two devices at once, as around a takeover, can do this.              *)
Beside == \E d, x \in Device : pass[d].pc # "idle" /\ cmd[x].pc # "idle"

Next ==
    /\ \/ \E d \in Device, e \in Entry :
             \/ \E a \in 1 .. MaxAmount : StartEntry(d, e, a) \/ StartReplace(d, e, a)
             \/ Reserve(d, e) \/ Submit(d, e)
             \/ prepare_reservation_for_replacement(d, e) \/ JournalCancel(d, e)
             \/ RestoreHold(d, e) \/ CancelProven(d, e) \/ CancelAmbiguous(d, e)
             \/ Activate(d, e)
       \/ \E d \in Device :
             PassBalance(d) \/ PassOrders(d) \/ PassApply(d)
             \/ RefreshBalance(d) \/ SnapshotExpires(d)
       \/ \E e \in Entry : BrokerFills(e) \/ BrokerEnds(e)
    /\ overlap' = (overlap \/ Beside')

Spec == Init /\ [][Next]_vars

-----------------------------------------------------------------------------
(* Properties.                                                               *)

(* Two entries never share the last capital: whatever devices, holds and     *)
(* settlements do, the active rows of the account together ask for no more   *)
(* than it ever had.                                                         *)
ReservedWithinCash == Reserved(Entry) <= Cash

(* What the broker may still fill of an entry is covered by its own          *)
(* reservation.                                                              *)
Covered ==
    \A e \in Entry :
       book[e].st = "open" => IsOpen(res[e]) /\ LeftOf(book[e]) <= res[e].remaining

(* An order never works on capital that was given back, be it by a           *)
(* settlement, a restore or the activation of a replacement, as long as no   *)
(* device has reconciled while another one ran a command.                    *)
OrderCovered == ~overlap => Covered

(* The availability check is against live buying power: the cash of the      *)
(* account covers everything the broker may still fill.                      *)
CashCoversOrders ==
    MapThenSumSet(LAMBDA e : LeftOf(book[e]), {e \in Entry : book[e].st = "open"}) <= cash
============================================================================
