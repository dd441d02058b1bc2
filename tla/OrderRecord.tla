------------------------------ MODULE OrderRecord ------------------------------
(***************************************************************************)
(* The durable local record of one broker order: the status graph of        *)
(* src/core/execution_order_record.py, the independent recovery dimension of *)
(* src/core/order_recovery_state.py, and the pure operations the gateway and *)
(* the reconciliation engine apply to a record.                              *)
(*                                                                           *)
(* A record keeps the four fields the rest of the system decides on.  The    *)
(* broker order id is not stored: a client order id is sent at most once, so *)
(* the broker order of c, if there is one, is the one the model indexes by c,*)
(* and identity = "EXACT" says that the id is known locally.                 *)
(***************************************************************************)
EXTENDS Integers

CONSTANT
    Qty            \* submitted_quantity of every order

ASSUME QtyAssumption == Qty \in Nat \ {0}

ExecutionOrderStatus ==
    {"PREPARED", "SUBMITTING", "ACKNOWLEDGED", "UNKNOWN_SUBMISSION_STATE",
     "NOT_ACCEPTED_CONFIRMED", "REJECTED", "WORKING", "PARTIALLY_FILLED",
     "FILLED", "CANCEL_PENDING", "CANCELLED", "EXPIRED", "CANCELLED_LOCALLY"}

TerminalStatus ==
    {"FILLED", "CANCELLED", "REJECTED", "EXPIRED", "CANCELLED_LOCALLY",
     "NOT_ACCEPTED_CONFIRMED"}

OpenStatus == ExecutionOrderStatus \ TerminalStatus

(* A client order id no row has been inserted for yet. *)
Absent == "ABSENT"

StatusEdges ==
    [PREPARED |-> {"SUBMITTING", "CANCELLED_LOCALLY"},
     SUBMITTING |-> {"ACKNOWLEDGED", "REJECTED", "UNKNOWN_SUBMISSION_STATE",
                     "CANCELLED_LOCALLY"},
     UNKNOWN_SUBMISSION_STATE |-> {"ACKNOWLEDGED", "REJECTED",
                                   "NOT_ACCEPTED_CONFIRMED"},
     ACKNOWLEDGED |-> {"WORKING", "PARTIALLY_FILLED", "FILLED", "REJECTED",
                       "CANCEL_PENDING"},
     WORKING |-> {"PARTIALLY_FILLED", "FILLED", "REJECTED", "EXPIRED",
                  "CANCEL_PENDING"},
     PARTIALLY_FILLED |-> {"FILLED", "EXPIRED", "CANCEL_PENDING"},
     CANCEL_PENDING |-> {"CANCELLED", "FILLED", "PARTIALLY_FILLED", "WORKING",
                         "EXPIRED", "ACKNOWLEDGED"}]

allowed_status_transitions(s) ==
    IF s \in OpenStatus THEN StatusEdges[s] ELSE {}

BrokerIdentityStatus ==
    {"NOT_ASSIGNED", "AMBIGUOUS", "EXACT", "NO_BROKER_ORDER_CONFIRMED"}

(* Which identities validate_consistency accepts beside a status. *)
LegalIdentity(s) ==
    CASE s \in {"PREPARED", "CANCELLED_LOCALLY"} -> {"NOT_ASSIGNED"}
      [] s \in {"SUBMITTING", "UNKNOWN_SUBMISSION_STATE"} -> {"AMBIGUOUS"}
      [] s = "NOT_ACCEPTED_CONFIRMED" -> {"NO_BROKER_ORDER_CONFIRMED"}
      [] s = "REJECTED" -> {"NO_BROKER_ORDER_CONFIRMED", "EXACT"}
      [] OTHER -> {"EXACT"}

-----------------------------------------------------------------------------
(* Recovery: does the application trust its own view of the record? *)

OrderRecoveryState ==
    {"NONE", "DISCOVERING", "BROKER_IDENTITY_UNCERTAIN", "CANCEL_REQUIRED",
     "CANCEL_REQUESTED", "AWAITING_CANCEL_CONFIRMATION", "TERMINAL_RECONCILED",
     "MANUAL_INTERVENTION_REQUIRED"}

RecoveryEdges ==
    [NONE |-> {"DISCOVERING"},
     DISCOVERING |-> {"NONE", "BROKER_IDENTITY_UNCERTAIN"},
     BROKER_IDENTITY_UNCERTAIN |-> {"CANCEL_REQUIRED"},
     CANCEL_REQUIRED |-> {"CANCEL_REQUESTED"},
     CANCEL_REQUESTED |-> {"AWAITING_CANCEL_CONFIRMATION"},
     AWAITING_CANCEL_CONFIRMATION |-> {"TERMINAL_RECONCILED"},
     TERMINAL_RECONCILED |-> {},
     MANUAL_INTERVENTION_REQUIRED |-> {}]

(* Every state but MANUAL_INTERVENTION_REQUIRED may escalate to it. *)
allowed_recovery_transitions(r) ==
    RecoveryEdges[r] \cup
    IF r = "MANUAL_INTERVENTION_REQUIRED"
    THEN {} ELSE {"MANUAL_INTERVENTION_REQUIRED"}

-----------------------------------------------------------------------------
(* The record and its operations. *)

OrderRow ==
    [status: ExecutionOrderStatus \cup {Absent}, identity: BrokerIdentityStatus,
     recovery: OrderRecoveryState, filled: 0 .. Qty]

NoRow ==
    [status |-> Absent, identity |-> "NOT_ASSIGNED", recovery |-> "NONE",
     filled |-> 0]

PreparedRow == [NoRow EXCEPT !.status = "PREPARED"]

IdentityAfter(o, target) ==
    CASE target = "ACKNOWLEDGED" -> "EXACT"
      [] target \in {"SUBMITTING", "UNKNOWN_SUBMISSION_STATE"}
            /\ o.identity = "NOT_ASSIGNED" -> "AMBIGUOUS"
      [] target \in {"REJECTED", "NOT_ACCEPTED_CONFIRMED"}
            /\ o.identity = "AMBIGUOUS" -> "NO_BROKER_ORDER_CONFIRMED"
      [] target = "CANCELLED_LOCALLY" /\ o.status = "SUBMITTING" ->
            "NOT_ASSIGNED"
      [] OTHER -> o.identity

(* apply_status_transition.  The graph is enforced by a raised exception in  *)
(* the code; here the assignment is unconditional and LegalOrderStep of the  *)
(* specifications that use it says that the exception is never raised.       *)
ApplyStatus(o, target) ==
    [o EXCEPT !.status = target, !.identity = IdentityAfter(o, target)]

(* Fill reports are cumulative: the largest one counts. *)
WithFill(o, f) == [o EXCEPT !.filled = IF f > @ THEN f ELSE @]

CancellableStatus == {s \in OpenStatus : "CANCEL_PENDING" \in StatusEdges[s]}

(* is_cancellable for an order the application itself submitted.  *)
is_cancellable(o) ==
    /\ o.identity = "EXACT"
    /\ o.recovery \in {"NONE", "CANCEL_REQUIRED"}
    /\ o.status \in CancellableStatus

(* _set_recovery_state: an illegal target becomes manual intervention. *)
SetRecovery(o, target) ==
    IF target = o.recovery \/ o.recovery = "MANUAL_INTERVENTION_REQUIRED"
    THEN o
    ELSE [o EXCEPT !.recovery =
            IF target \in allowed_recovery_transitions(@)
            THEN target ELSE "MANUAL_INTERVENTION_REQUIRED"]

=============================================================================
