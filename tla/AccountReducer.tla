----------------------------- MODULE AccountReducer -----------------------------
(***************************************************************************)
(* The order and capital part of the pure reducer of                         *)
(* src/services/account_reconciliation.py: what one broker snapshot makes of *)
(* the durable rows of the account.  The card projections of the same reducer*)
(* appear here only as far as an order chain needs them (ReducePending).     *)
(***************************************************************************)
EXTENDS OrderRecord, FiniteSets

CONSTANTS
    Cid,           \* client order ids
    NoCid,         \* "no client order id"
    Replaces,      \* replaces_execution_order_id, fixed by the caller
    Root           \* the order whose capital reservation a chain shares

ASSUME ChainAssumption ==
    /\ NoCid \notin Cid
    /\ Replaces \in [Cid -> Cid \cup {NoCid}]
    /\ Root \in [Cid -> Cid]
    /\ \A c \in Cid :
         /\ Replaces[c] = NoCid => Root[c] = c
         /\ Replaces[c] # NoCid => Root[c] = Root[Replaces[c]] /\ Replaces[c] # c

Replacement == {c \in Cid : Replaces[c] # NoCid}

(* What a snapshot says of one broker order.  A broker order that is not in  *)
(* the snapshot, because it does not exist or because its page was not read, *)
(* is Unseen.                                                                *)
Unseen == "UNSEEN"
OrderView ==
    [status: {"WORKING", "PARTIALLY_FILLED", "FILLED", "CANCEL_PENDING",
              "CANCELLED", "REJECTED", "EXPIRED", Unseen},
     filled: 0 .. Qty]
Snapshot == [complete: BOOLEAN, view: [Cid -> OrderView]]

-----------------------------------------------------------------------------
(* The exact-identity pass. *)

(* Variant: even the broker's final word does not resolve an ambiguous cancel. *)
PreserveEveryCancel(o, v) ==
    /\ o.status = "CANCEL_PENDING"
    /\ o.recovery = "DISCOVERING"

(* While an ambiguous cancel is unresolved an open broker status proves      *)
(* nothing: the record keeps CANCEL_PENDING and DISCOVERING.                 *)
PreserveAmbiguousCancel(o, v) ==
    /\ o.status = "CANCEL_PENDING"
    /\ o.recovery = "DISCOVERING"
    /\ v.status \in OpenStatus

(* A snapshot may skip the local CANCEL_PENDING on the way to CANCELLED. *)
ReachableStatus(o, target) ==
    \/ target \in allowed_status_transitions(o.status)
    \/ /\ target = "CANCELLED"
       /\ "CANCEL_PENDING" \in allowed_status_transitions(o.status)

ClearDiscovery(o, v) ==
    CASE o.recovery = "DISCOVERING" -> SetRecovery(o, "NONE")
      [] v.status \in TerminalStatus
            /\ o.recovery = "AWAITING_CANCEL_CONFIRMATION" ->
                SetRecovery(o, "TERMINAL_RECONCILED")
      [] OTHER -> o

ApplyExactSnapshot(o, v) ==
    LET f == WithFill(o, v.filled) IN
    IF PreserveAmbiguousCancel(o, v) THEN f ELSE
    CASE v.status = o.status -> ClearDiscovery(f, v)
      [] v.status # o.status /\ ReachableStatus(o, v.status) ->
            ClearDiscovery(ApplyStatus(f, v.status), v)
      [] OTHER -> SetRecovery(f, "MANUAL_INTERVENTION_REQUIRED")

-----------------------------------------------------------------------------
(* A4a: a submission whose outcome is unknown is never matched by resemblance*)
(* (the KIS adapter supplies no submission time, so there is no candidate):  *)
(* complete evidence hands it to the operator.                               *)
IsAmbiguousSubmission(o) ==
    /\ o.identity = "AMBIGUOUS"
    /\ o.status \in {"SUBMITTING", "UNKNOWN_SUBMISSION_STATE"}

ReduceOrder(o, v, complete) ==
    CASE o.identity = "EXACT" /\ v.status # Unseen -> ApplyExactSnapshot(o, v)
      [] IsAmbiguousSubmission(o) /\ complete ->
            SetRecovery(o, "MANUAL_INTERVENTION_REQUIRED")
      [] OTHER -> o

ReduceOrders(order, s) ==
    [c \in Cid |-> ReduceOrder(order[c], s.view[c], s.complete)]

(* A4b: a broker order no exact local record claims fences the symbol until  *)
(* the broker reports it terminal.                                           *)
ExternalDisposition == {"NONE", "DISCOVERED_UNOWNED", "DISMISSED_TERMINAL"}

ReduceExternal(ext, order, s) ==
    [c \in Cid |->
        IF order[c].identity = "EXACT" \/ s.view[c].status = Unseen THEN ext[c] ELSE
        CASE ext[c] # "DISMISSED_TERMINAL" /\ s.view[c].status \in TerminalStatus ->
                "DISMISSED_TERMINAL"
          [] ext[c] = "NONE" /\ s.view[c].status \notin TerminalStatus ->
                "DISCOVERED_UNOWNED"
          [] OTHER -> ext[c]]

-----------------------------------------------------------------------------
(* Capital: a chain shares one reservation, settled from its one live order  *)
(* or, when nothing is live, from its one leaf.                              *)

ReservationStatus ==
    {"RESERVED", "PARTIALLY_CONSUMED", "CONSUMED", "RELEASED"}
OpenReservation == {"RESERVED", "PARTIALLY_CONSUMED"}

TransitionHoldStatus ==
    {"PREPARED", "SUBMITTING", "CANCEL_PENDING", "UNKNOWN_SUBMISSION_STATE"}

(* _settle_capital_reservation with one unit of capital per share. *)
Settle(r, o) ==
    CASE o.status \in TerminalStatus ->
            IF o.filled >= Qty THEN "CONSUMED" ELSE "RELEASED"
      [] o.status \notin TerminalStatus /\ o.filled >= Qty -> "CONSUMED"
      [] o.status \notin TerminalStatus /\ o.filled \in 1 .. Qty - 1 ->
            "PARTIALLY_CONSUMED"
      [] OTHER -> r

(* Variant: only a chain with a live order is settled. *)
SettleLiveChain(r, root, order) ==
    LET live == {c \in Cid : Root[c] = root /\ order[c].status \in OpenStatus}
    IN  IF r \in OpenReservation /\ \E c \in Cid : live = {c}
        THEN Settle(r, order[CHOOSE c \in Cid : live = {c}]) ELSE r

SettleChain(r, root, order) ==
    LET linked == {c \in Cid : Root[c] = root /\ order[c].status # Absent}
        leaves == linked \ {Replaces[c] : c \in linked}
        live == {c \in linked : order[c].status \in OpenStatus}
    IN  CASE r \notin OpenReservation -> r
          [] r \in OpenReservation /\ live # {} ->
                IF \E c \in leaves : live = {c} /\ order[c].status \notin TransitionHoldStatus
                THEN Settle(r, order[CHOOSE c \in leaves : live = {c}])
                ELSE r
          [] r \in OpenReservation /\ live = {} ->
                IF \E c \in Cid : leaves = {c}
                THEN Settle(r, order[CHOOSE c \in Cid : leaves = {c}])
                ELSE r

ReduceReservations(res, order) ==
    [c \in Cid |-> SettleChain(res[c], c, order)]

(* The card side of a replacement: a terminal exact report of an order of    *)
(* the attempt, or a durable record that the broker never accepted it, takes *)
(* the card out of ENTRY_PENDING, and with it out of the scope in which the  *)
(* engine would resume the replacement.                                      *)
EntryIsOver(o, v) ==
    \/ o.identity = "EXACT" /\ v.status \in TerminalStatus
    \/ o.identity = "NO_BROKER_ORDER_CONFIRMED"

ReducePending(pending, order, s) ==
    [n \in Cid |->
        IF /\ pending[n] = "PENDING"
           /\ \E c \in {n, Replaces[n]} : EntryIsOver(order[c], s.view[c])
        THEN "CLOSED" ELSE pending[n]]

=============================================================================
