------------------------------ MODULE OrderGateway ------------------------------
(***************************************************************************)
(* The guarded execution gateway (src/services/execution_command_gateway.py) *)
(* with the parts it cannot be judged without: the canonical database it     *)
(* journals in, the main-device lease, the account reconciliation that runs  *)
(* before and between its commands, and the broker at the other end of an    *)
(* unreliable connection.                                                    *)
(*                                                                           *)
(* One symbol of one account.  A device runs one command or one              *)
(* reconciliation pass at a time (one runtime worker thread per device).     *)
(* Every database transaction is one step; every broker call is a send, the  *)
(* broker's own step and a receive; a crash may fall between any two steps.  *)
(*                                                                           *)
(* Rows carry a version column and every update is a compare-and-swap on the *)
(* version the writer read.  The counter itself never matters, only whether  *)
(* somebody else wrote the row since: proc[d].rowOk and proc[d].resOk say    *)
(* that nobody did.                                                          *)
(***************************************************************************)
EXTENDS AccountReducer

CONSTANTS
    Device,              \* application instances
    CancelId,            \* caller-generated ids of plain cancel commands
    MaxCrashes,          \* bound: process crashes
    MaxEpoch,            \* bound: lease epochs
    CancelAckMayPrecedeCancel, \* a cancel answer may say CANCELLED too early
    SnapshotMayBePartial,      \* a reconciliation may miss broker pages
    DatabaseMayFail,           \* a transaction may roll back
    LateEndings                \* how else the broker may end an open order

ASSUME GatewayAssumption ==
    /\ MaxCrashes \in Nat
    /\ MaxEpoch \in Nat \ {0}
    /\ CancelAckMayPrecedeCancel \in BOOLEAN
    /\ SnapshotMayBePartial \in BOOLEAN
    /\ DatabaseMayFail \in BOOLEAN
    /\ LateEndings \subseteq {"expired", "rejected"}

VARIABLES
    order,     \* execution_orders
    cmd,       \* execution_commands, by idempotency key
    res,       \* capital_reservations, by the root of the chain
    ext,       \* discovered_external_orders
    pending,   \* the card's pending_entry_replacement
    lease,     \* the authoritative main-device row
    phase,     \* runtime device state of each device
    held,      \* the lease epoch each device's gateway presents
    proc,      \* the command a device is executing
    snap,      \* the broker snapshot a device is reconciling with
    brk,       \* the broker's orders
    net,       \* requests on their way to the broker
    ans,       \* the broker's answer on its way to a device
    sent,      \* how often a submit for c crossed the broker boundary
    crashes    \* crashes so far

db == <<order, cmd, res, ext>>
runtime == <<lease, phase, held>>
world == <<brk, net, ans, sent>>
vars == <<order, cmd, res, ext, pending, lease, phase, held, proc, snap,
          brk, net, ans, sent, crashes>>

-----------------------------------------------------------------------------
(* Commands and processes. *)

CmdKey == ({"SUBMIT", "REPLACE"} \X Cid) \cup ({"CANCEL"} \X (Cid \cup CancelId))
CmdStatus == {Absent, "REQUESTED", "ACKNOWLEDGED", "AMBIGUOUS", "FAILED",
              "PRE_BROKER_ABORTED", "COMPLETED"}

PendingState == {"NONE", "PENDING", "CLOSED", "DONE"}

Pc == {"idle", "reconcile",
       "prepared", "submitGate", "submitCall", "submitWait",
       "cancelGate", "cancelCall", "cancelWait",
       "replaceJournal", "cancelJournal", "fence", "poll", "revalidate",
       "complete", "restore", "release", "releasePrepared", "saveCard"}

ProcState ==
    [pc: Pc,
     cur: Cid \cup {NoCid},                \* the order being mutated
     rep: Cid \cup {NoCid},                \* the replacement, in a replace
     key: Cid \cup CancelId \cup {NoCid},  \* id of the cancel command
     pre: ExecutionOrderStatus \cup {Absent},  \* status held in memory
     base: 0 .. Qty,                       \* pre_cancel_filled_quantity
     fill: 0 .. Qty,                       \* filled_quantity held in memory
     rowOk: BOOLEAN,                       \* cur's version is the one read
     resOk: BOOLEAN,                       \* the reservation's version likewise
     card: PendingState]                   \* state to persist on the card

Idle ==
    [pc |-> "idle", cur |-> NoCid, rep |-> NoCid, key |-> NoCid, pre |-> Absent,
     base |-> 0, fill |-> 0, rowOk |-> TRUE, resOk |-> TRUE, card |-> "NONE"]

NoSnapshot ==
    [complete |-> FALSE, view |-> [c \in Cid |-> [status |-> Unseen, filled |-> 0]]]

BrokerState == {"none", "open", "filled", "cancelled"} \cup {"expired", "rejected"}
BrokerRow == [st: BrokerState, filled: 0 .. Qty, cancelling: BOOLEAN]
NoBrokerOrder == [st |-> "none", filled |-> 0, cancelling |-> FALSE]

Request == {"submit", "cancel"} \X Cid \X Device
Answer == [st: {"none", "accepted", "refused", "CANCELLED", "CANCEL_REQUESTED",
                "FILLED", "PARTIALLY_FILLED"}, filled: 0 .. Qty]
NoAnswer == [st |-> "none", filled |-> 0]

TypeOK ==
    /\ order \in [Cid -> OrderRow]
    /\ cmd \in [CmdKey -> CmdStatus]
    /\ res \in [Cid -> ReservationStatus \cup {Absent}]
    /\ ext \in [Cid -> ExternalDisposition]
    /\ pending \in [Cid -> PendingState]
    /\ lease \in [holder: Device, epoch: 1 .. MaxEpoch]
    /\ phase \in [Device -> {"down", "standby", "active"}]
    /\ held \in [Device -> 0 .. MaxEpoch]
    /\ proc \in [Device -> ProcState]
    /\ snap \in [Device -> Snapshot]
    /\ brk \in [Cid -> BrokerRow]
    /\ net \subseteq Request
    /\ ans \in [Device -> Answer]
    /\ sent \in [Cid -> Nat]
    /\ crashes \in 0 .. MaxCrashes

Init ==
    /\ order = [c \in Cid |-> NoRow]
    /\ cmd = [k \in CmdKey |-> Absent]
    /\ res = [c \in Cid |-> Absent]
    /\ ext = [c \in Cid |-> "NONE"]
    /\ pending = [c \in Cid |-> "NONE"]
    /\ \E d \in Device : lease = [holder |-> d, epoch |-> 1]
    /\ phase = [d \in Device |-> "down"]
    /\ held = [d \in Device |-> 0]
    /\ proc = [d \in Device |-> Idle]
    /\ snap = [d \in Device |-> NoSnapshot]
    /\ brk = [c \in Cid |-> NoBrokerOrder]
    /\ net = {}
    /\ ans = [d \in Device |-> NoAnswer]
    /\ sent = [c \in Cid |-> 0]
    /\ crashes = 0

-----------------------------------------------------------------------------
(* Gates. *)

(* _require_verified_lease: holder and epoch are read from the database. *)
LeaseCurrent(d) == lease.holder = d /\ lease.epoch = held[d]

(* require_no_active_unowned_external_order. *)
Fenced == \E c \in Cid : ext[c] = "DISCOVERED_UNOWNED"

MayStart(d) ==
    /\ phase[d] = "active"
    /\ proc[d].pc = "idle"
    /\ LeaseCurrent(d)
    /\ ~Fenced

IsOpen(r) == r \in OpenReservation

(* Variant: no version column, so that a stale writer goes unnoticed. *)
CommitUnversioned(d, p, C, R) == proc' = [proc EXCEPT ![d] = p]

(* Device d moves on to p and has written the orders in C and the            *)
(* reservations in R: every other reader of these rows now has an old version.*)
Commit(d, p, C, R) ==
    proc' = [e \in Device |->
        IF e = d THEN p
        ELSE [proc[e] EXCEPT
                !.rowOk = @ /\ proc[e].cur \notin C,
                !.resOk = @ /\ (proc[e].cur # NoCid => Root[proc[e].cur] \notin R)]]

Step(d, p) == Commit(d, p, {}, {})

(* A command that is over: a replacement still has its card to save. *)
Finished(p, card) ==
    IF p.rep = NoCid THEN Idle ELSE [p EXCEPT !.pc = "saveCard", !.card = card]

-----------------------------------------------------------------------------
(* submit_guarded / _do_submit. *)

(* Variant: the command ledger does not refuse a key it knows. *)
SubmitPrepareAgain(d, c) ==
    /\ MayStart(d)
    /\ c \notin Replacement
    /\ cmd' = [cmd EXCEPT ![<<"SUBMIT", c>>] = "REQUESTED"]
    /\ order' = [order EXCEPT ![c] = PreparedRow]
    /\ res' = [res EXCEPT ![c] = "RESERVED"]
    /\ Commit(d, [Idle EXCEPT !.pc = "prepared", !.cur = c], {c}, {c})
    /\ UNCHANGED <<ext, pending, runtime, snap, world, crashes>>

(* Transaction 1: command, reservation and PREPARED row.  A second command   *)
(* with the same key is a DuplicateCommandError; a refused reservation rolls *)
(* everything back: both leave no trace and are no step here.                *)
SubmitPrepare(d, c) ==
    /\ MayStart(d)
    /\ c \notin Replacement
    /\ cmd[<<"SUBMIT", c>>] = Absent
    /\ cmd' = [cmd EXCEPT ![<<"SUBMIT", c>>] = "REQUESTED"]
    /\ order' = [order EXCEPT ![c] = PreparedRow]
    /\ res' = [res EXCEPT ![c] = "RESERVED"]
    /\ Commit(d, [Idle EXCEPT !.pc = "prepared", !.cur = c], {c}, {c})
    /\ UNCHANGED <<ext, pending, runtime, snap, world, crashes>>

(* Variant: the broker is called before SUBMITTING is committed. *)
MarkSubmittingLate(d) ==
    /\ proc[d].pc = "prepared" /\ proc[d].rowOk
    /\ Step(d, [proc[d] EXCEPT !.pc = "submitGate"])
    /\ UNCHANGED <<db, pending, runtime, snap, world, crashes>>

(* Transaction 2: PREPARED -> SUBMITTING, before anything reaches the broker. *)
MarkSubmitting(d) ==
    LET p == proc[d] IN
    /\ p.pc = "prepared" /\ p.rowOk
    /\ order' = [order EXCEPT ![p.cur] = ApplyStatus(@, "SUBMITTING")]
    /\ Commit(d, [p EXCEPT !.pc = "submitGate"], {p.cur}, {})
    /\ UNCHANGED <<cmd, res, ext, pending, runtime, snap, world, crashes>>

(* The gates are read once more at the last moment... *)
SubmitGate(d) ==
    /\ proc[d].pc = "submitGate"
    /\ LeaseCurrent(d) /\ ~Fenced
    /\ Step(d, [proc[d] EXCEPT !.pc = "submitCall"])
    /\ UNCHANGED <<db, pending, runtime, snap, world, crashes>>

(* ... and one that fails (lease, fence, ownership, risk approval too old)   *)
(* retires the attempt in one transaction: nothing was sent.                 *)
SubmitAbort(d) ==
    LET p == proc[d] IN
    /\ p.pc = "submitGate" /\ p.rowOk /\ p.resOk
    /\ order' = [order EXCEPT ![p.cur] = ApplyStatus(@, "CANCELLED_LOCALLY")]
    /\ cmd' = [cmd EXCEPT ![<<"SUBMIT", p.cur>>] = "PRE_BROKER_ABORTED"]
    /\ res' = [res EXCEPT ![Root[p.cur]] = "RELEASED"]
    /\ Commit(d, Finished(p, "CLOSED"), {p.cur}, {Root[p.cur]})
    /\ UNCHANGED <<ext, pending, runtime, snap, world, crashes>>

(* The broker boundary is crossed; the lease may have moved since the gate.  *)
CallSubmit(d) ==
    LET p == proc[d] IN
    /\ p.pc = "submitCall"
    /\ net' = net \cup {<<"submit", p.cur, d>>}
    /\ sent' = [sent EXCEPT ![p.cur] = @ + 1]
    /\ Step(d, [p EXCEPT !.pc = "submitWait"])
    /\ UNCHANGED <<db, pending, runtime, snap, brk, ans, crashes>>

SubmitAccepted(d) ==
    LET p == proc[d] IN
    /\ p.pc = "submitWait" /\ p.rowOk /\ ans[d].st = "accepted"
    /\ order' = [order EXCEPT ![p.cur] = ApplyStatus(@, "ACKNOWLEDGED")]
    /\ cmd' = [cmd EXCEPT ![<<"SUBMIT", p.cur>>] = "ACKNOWLEDGED"]
    /\ ans' = [ans EXCEPT ![d] = NoAnswer]
    /\ Commit(d, IF p.rep = NoCid THEN Idle ELSE [p EXCEPT !.pc = "complete"],
              {p.cur}, {})
    /\ UNCHANGED <<res, ext, pending, runtime, snap, brk, net, sent, crashes>>

(* A clean rejection gives the capital back. *)
SubmitRefused(d) ==
    LET p == proc[d] IN
    /\ p.pc = "submitWait" /\ p.rowOk /\ p.resOk /\ ans[d].st = "refused"
    /\ order' = [order EXCEPT ![p.cur] = ApplyStatus(@, "REJECTED")]
    /\ cmd' = [cmd EXCEPT ![<<"SUBMIT", p.cur>>] = "FAILED"]
    /\ res' = [res EXCEPT ![Root[p.cur]] = "RELEASED"]
    /\ ans' = [ans EXCEPT ![d] = NoAnswer]
    /\ Commit(d, Finished(p, "CLOSED"), {p.cur}, {Root[p.cur]})
    /\ UNCHANGED <<ext, pending, runtime, snap, brk, net, sent, crashes>>

(* A variant that takes a timeout for a refusal. *)
SubmitTimeoutIsRefusal(d) ==
    LET p == proc[d] IN
    /\ p.pc = "submitWait" /\ p.rowOk /\ p.resOk
    /\ order' = [order EXCEPT ![p.cur] = ApplyStatus(@, "REJECTED")]
    /\ cmd' = [cmd EXCEPT ![<<"SUBMIT", p.cur>>] = "FAILED"]
    /\ res' = [res EXCEPT ![Root[p.cur]] = "RELEASED"]
    /\ ans' = [ans EXCEPT ![d] = NoAnswer]
    /\ Commit(d, Finished(p, "CLOSED"), {p.cur}, {Root[p.cur]})
    /\ UNCHANGED <<ext, pending, runtime, snap, brk, net, sent, crashes>>

(* A timeout, a dropped connection or an unreadable answer: the order may or *)
(* may not exist, now or later.  The capital stays reserved.                 *)
SubmitAmbiguous(d) ==
    LET p == proc[d] IN
    /\ p.pc = "submitWait" /\ p.rowOk
    /\ order' = [order EXCEPT ![p.cur] = ApplyStatus(@, "UNKNOWN_SUBMISSION_STATE")]
    /\ cmd' = [cmd EXCEPT ![<<"SUBMIT", p.cur>>] = "AMBIGUOUS"]
    /\ ans' = [ans EXCEPT ![d] = NoAnswer]
    /\ Commit(d, Finished(p, "PENDING"), {p.cur}, {})
    /\ UNCHANGED <<res, ext, pending, runtime, snap, brk, net, sent, crashes>>

-----------------------------------------------------------------------------
(* cancel_guarded / _do_cancel, which a replace shares. *)

JournalCancel(d, p) ==
    /\ cmd[<<"CANCEL", p.key>>] = Absent
    /\ cmd' = [cmd EXCEPT ![<<"CANCEL", p.key>>] = "REQUESTED"]
    /\ order' = [order EXCEPT ![p.cur] = ApplyStatus(@, "CANCEL_PENDING")]
    /\ Commit(d, [p EXCEPT !.pc = "cancelGate", !.pre = order[p.cur].status],
              {p.cur}, {})
    /\ UNCHANGED <<res, ext, pending, runtime, snap, world, crashes>>

CancelStart(d, c, k) ==
    /\ MayStart(d)
    /\ is_cancellable(order[c])
    /\ JournalCancel(d, [Idle EXCEPT !.cur = c, !.key = k,
                                     !.fill = order[c].filled])

CancelGate(d) ==
    /\ proc[d].pc = "cancelGate"
    /\ LeaseCurrent(d) /\ ~Fenced
    /\ Step(d, [proc[d] EXCEPT !.pc = "cancelCall"])
    /\ UNCHANGED <<db, pending, runtime, snap, world, crashes>>

AfterCancelFailure(p) ==
    IF p.rep = NoCid THEN Idle ELSE [p EXCEPT !.pc = "restore"]

CancelAbort(d) ==
    LET p == proc[d] IN
    /\ p.pc = "cancelGate" /\ p.rowOk
    /\ order' = [order EXCEPT ![p.cur] = ApplyStatus(@, p.pre)]
    /\ cmd' = [cmd EXCEPT ![<<"CANCEL", p.key>>] = "PRE_BROKER_ABORTED"]
    /\ Commit(d, AfterCancelFailure(p), {p.cur}, {})
    /\ UNCHANGED <<res, ext, pending, runtime, snap, world, crashes>>

CallCancel(d) ==
    LET p == proc[d] IN
    /\ p.pc = "cancelCall"
    /\ net' = net \cup {<<"cancel", p.cur, d>>}
    /\ Step(d, [p EXCEPT !.pc = "cancelWait"])
    /\ UNCHANGED <<db, pending, runtime, snap, brk, ans, sent, crashes>>

(* Variant: an accepted cancel request counts as a cancelled order. *)
AcceptedMeansCancelled(o, a) ==
    IF a.st \in {"FILLED", "PARTIALLY_FILLED"}
    THEN [ApplyStatus(o, a.st) EXCEPT !.filled = a.filled]
    ELSE ApplyStatus(WithFill(o, a.filled), "CANCELLED")

(* What the answer to a cancel makes of the row. *)
AfterCancelAnswer(o, a) ==
    LET f == WithFill(o, a.filled) IN
    CASE a.st = "CANCELLED" -> ApplyStatus(f, "CANCELLED")
      [] a.st = "FILLED" -> [ApplyStatus(o, "FILLED") EXCEPT !.filled = a.filled]
      [] a.st = "PARTIALLY_FILLED" ->
            [ApplyStatus(o, "PARTIALLY_FILLED") EXCEPT !.filled = a.filled]
      [] OTHER -> [f EXCEPT !.recovery = "DISCOVERING"]

(* The answer is persisted with the command; a plain cancel that ended the   *)
(* order settles its reservation in the same transaction, a replace keeps it.*)
CancelAnswered(d) ==
    LET p == proc[d]
        o == AfterCancelAnswer(order[p.cur], ans[d])
        r == Root[p.cur]
        settles == /\ p.rep = NoCid
                   /\ o.status \in {"CANCELLED", "FILLED"}
                   /\ IsOpen(res[r])
    IN
    /\ p.pc = "cancelWait" /\ p.rowOk
    /\ ans[d].st \notin {"none", "refused"}
    /\ order' = [order EXCEPT ![p.cur] = o]
    /\ cmd' = [cmd EXCEPT ![<<"CANCEL", p.key>>] = "ACKNOWLEDGED"]
    /\ res' = [res EXCEPT ![r] = IF settles THEN Settle(@, o) ELSE @]
    /\ ans' = [ans EXCEPT ![d] = NoAnswer]
    /\ Commit(d, IF p.rep = NoCid THEN Idle ELSE [p EXCEPT !.pc = "fence"],
              {p.cur}, IF settles THEN {r} ELSE {})
    /\ UNCHANGED <<ext, pending, runtime, snap, brk, net, sent, crashes>>

CancelRefused(d) ==
    LET p == proc[d] IN
    /\ p.pc = "cancelWait" /\ p.rowOk /\ ans[d].st = "refused"
    /\ order' = [order EXCEPT ![p.cur] = ApplyStatus(@, "WORKING")]
    /\ cmd' = [cmd EXCEPT ![<<"CANCEL", p.key>>] = "FAILED"]
    /\ ans' = [ans EXCEPT ![d] = NoAnswer]
    /\ Commit(d, AfterCancelFailure(p), {p.cur}, {})
    /\ UNCHANGED <<res, ext, pending, runtime, snap, brk, net, sent, crashes>>

CancelAmbiguous(d) ==
    LET p == proc[d] IN
    /\ p.pc = "cancelWait" /\ p.rowOk
    /\ order' = [order EXCEPT ![p.cur].recovery = "DISCOVERING"]
    /\ cmd' = [cmd EXCEPT ![<<"CANCEL", p.key>>] = "AMBIGUOUS"]
    /\ ans' = [ans EXCEPT ![d] = NoAnswer]
    /\ Commit(d, Finished(p, "PENDING"), {p.cur}, {})
    /\ UNCHANGED <<res, ext, pending, runtime, snap, brk, net, sent, crashes>>

-----------------------------------------------------------------------------
(* replace_guarded: cancel the old order, prove it cancelled without a new   *)
(* fill, and only then submit one linked replacement on the same capital.    *)

(* The runtime checks the old order and saves the intent on the card... *)
ReplaceIntent(d, n) ==
    LET old == Replaces[n] IN
    /\ MayStart(d)
    /\ n \in Replacement
    /\ pending[n] = "NONE"
    /\ order[old].status = "WORKING" /\ order[old].filled = 0
    /\ order[n].status = Absent
    /\ pending' = [pending EXCEPT ![n] = "PENDING"]
    /\ Step(d, [Idle EXCEPT !.pc = "replaceJournal", !.cur = old, !.rep = n])
    /\ UNCHANGED <<db, runtime, snap, world, crashes>>

(* ... and the gateway reads the order again before it journals the parent   *)
(* command and grows the reservation into a transition hold.                 *)
ReplaceJournal(d) ==
    LET p == proc[d]
        f == order[p.cur].filled IN
    /\ p.pc = "replaceJournal"
    /\ LeaseCurrent(d) /\ ~Fenced
    /\ is_cancellable(order[p.cur])
    /\ order[p.rep].status = Absent
    /\ IsOpen(res[Root[p.cur]])
    /\ cmd[<<"REPLACE", p.rep>>] = Absent
    /\ cmd' = [cmd EXCEPT ![<<"REPLACE", p.rep>>] = "REQUESTED"]
    /\ Commit(d, [p EXCEPT !.pc = "cancelJournal", !.key = p.rep,
                           !.base = f, !.fill = f,
                           !.rowOk = TRUE, !.resOk = TRUE],
              {}, {Root[p.cur]})
    /\ UNCHANGED <<order, res, ext, pending, runtime, snap, world, crashes>>

CancelJournal(d) ==
    /\ proc[d].pc = "cancelJournal" /\ proc[d].rowOk
    /\ LeaseCurrent(d) /\ ~Fenced
    /\ JournalCancel(d, proc[d])

(* A variant of Fence that takes the cancel answer's word. *)
FenceTrusts(d) ==
    LET p == proc[d]
        o == order[p.cur]
        q == [p EXCEPT !.pre = o.status, !.fill = o.filled, !.rowOk = TRUE] IN
    /\ p.pc = "fence"
    /\ Step(d, CASE o.status = "CANCELLED" -> [q EXCEPT !.pc = "revalidate"]
                 [] o.status = "CANCEL_PENDING" -> [q EXCEPT !.pc = "poll"]
                 [] o.status = "FILLED" -> [q EXCEPT !.pc = "releasePrepared"]
                 [] OTHER -> Finished(q, "PENDING"))
    /\ UNCHANGED <<db, pending, runtime, snap, world, crashes>>

(* The cancel answer alone proves nothing: an order it calls CANCELLED is put *)
(* under discovery until an inquiry says so too.                             *)
Fence(d) ==
    LET p == proc[d]
        o == order[p.cur]
        discover == o.status = "CANCELLED" /\ o.recovery = "NONE"
        q == [p EXCEPT !.pre = o.status, !.fill = o.filled, !.rowOk = TRUE] IN
    /\ p.pc = "fence"
    /\ order' = IF discover
                THEN [order EXCEPT ![p.cur].recovery = "DISCOVERING"] ELSE order
    /\ Commit(d,
         CASE o.status \in {"CANCEL_PENDING", "CANCELLED"} -> [q EXCEPT !.pc = "poll"]
           [] o.status = "FILLED" -> [q EXCEPT !.pc = "releasePrepared"]
           [] OTHER -> Finished(q, "PENDING"),
         IF discover THEN {p.cur} ELSE {}, {})
    /\ UNCHANGED <<cmd, res, ext, pending, runtime, snap, world, crashes>>

(* _wait_for_authoritative_cancel_terminal: one inquiry.  An order that still *)
(* works unfilled gives no target and the loop goes on.                      *)
InquiryTarget(b) ==
    CASE b.st = "cancelled" -> "CANCELLED"
      [] b.st = "filled" -> "FILLED"
      [] b.st = "expired" -> "EXPIRED"
      [] b.st = "rejected" -> "REJECTED"
      [] b.st = "open" /\ b.filled > 0 -> "PARTIALLY_FILLED"
      [] OTHER -> Absent

(* What replace_guarded does with the record the wait returned. *)
AfterInquiry(p, o) ==
    CASE o.status = "CANCELLED" /\ o.filled > p.base -> [p EXCEPT !.pc = "release"]
      [] o.status = "CANCELLED" /\ o.filled <= p.base /\ o.recovery = "NONE" ->
            [p EXCEPT !.pc = "revalidate"]
      [] o.status = "FILLED" -> [p EXCEPT !.pc = "releasePrepared"]
      [] OTHER -> Finished(p, "PENDING")

PollApplies(d) ==
    LET p == proc[d]
        b == brk[p.cur]
        t == InquiryTarget(b)
        f == WithFill(order[p.cur], b.filled)
        s == IF t = p.pre THEN f ELSE ApplyStatus(f, t)
        o == IF s.recovery = "DISCOVERING" THEN [s EXCEPT !.recovery = "NONE"] ELSE s
    IN
    /\ p.pc = "poll" /\ p.rowOk
    /\ t = p.pre \/ t \in allowed_status_transitions(p.pre)
    /\ order' = [order EXCEPT ![p.cur] = o]
    /\ Commit(d, AfterInquiry([p EXCEPT !.fill = o.filled], o), {p.cur}, {})
    /\ UNCHANGED <<cmd, res, ext, pending, runtime, snap, world, crashes>>

(* A target the status graph refuses updates only the copy in memory. *)
PollSkips(d) ==
    LET p == proc[d]
        b == brk[p.cur]
        t == InquiryTarget(b) IN
    /\ p.pc = "poll"
    /\ t # Absent /\ t # p.pre /\ t \notin allowed_status_transitions(p.pre)
    /\ b.filled > p.fill
    /\ Step(d, [p EXCEPT !.fill = b.filled])
    /\ UNCHANGED <<db, pending, runtime, snap, world, crashes>>

PollTimesOut(d) ==
    LET p == proc[d] IN
    /\ p.pc = "poll"
    /\ Step(d, IF p.pre = "CANCELLED" /\ p.fill > p.base
               THEN [p EXCEPT !.pc = "release"] ELSE Finished(p, "PENDING"))
    /\ UNCHANGED <<db, pending, runtime, snap, world, crashes>>

(* The linked submit: transaction 1 of _do_submit, with the transition hold  *)
(* turned into the replacement's own reservation.                            *)
ReplaceSubmit(d) ==
    LET p == proc[d]
        n == p.rep
        r == Root[n] IN
    /\ p.pc = "revalidate"
    /\ LeaseCurrent(d) /\ ~Fenced
    /\ order[Replaces[n]].status = "CANCELLED"
    /\ IsOpen(res[r]) /\ p.resOk
    /\ cmd[<<"SUBMIT", n>>] = Absent
    /\ cmd' = [cmd EXCEPT ![<<"SUBMIT", n>>] = "REQUESTED"]
    /\ order' = [order EXCEPT ![n] = PreparedRow]
    /\ res' = [res EXCEPT ![r] = "RESERVED"]
    /\ Commit(d, [p EXCEPT !.pc = "prepared", !.cur = n, !.rowOk = TRUE], {n}, {r})
    /\ UNCHANGED <<ext, pending, runtime, snap, world, crashes>>

(* Quote, session or risk changed while the cancel was on its way, or the    *)
(* submit was refused before its first transaction.                          *)
ReplaceAbandon(d) ==
    /\ proc[d].pc = "revalidate"
    /\ Step(d, [proc[d] EXCEPT !.pc = "release"])
    /\ UNCHANGED <<db, pending, runtime, snap, world, crashes>>

(* Give back the hold as it is now in the database. *)
Release(d) ==
    LET p == proc[d]
        r == Root[p.cur] IN
    /\ p.pc = "release"
    /\ res' = [res EXCEPT ![r] = IF IsOpen(@) THEN "RELEASED" ELSE @]
    /\ Commit(d, Finished(p, "CLOSED"), {}, IF IsOpen(res[r]) THEN {r} ELSE {})
    /\ UNCHANGED <<order, cmd, ext, pending, runtime, snap, world, crashes>>

(* Give back the hold as this command prepared it. *)
ReleasePrepared(d) ==
    LET p == proc[d]
        r == Root[p.cur] IN
    /\ p.pc = "releasePrepared" /\ p.resOk
    /\ res' = [res EXCEPT ![r] = "RELEASED"]
    /\ Commit(d, Finished(p, "CLOSED"), {}, {r})
    /\ UNCHANGED <<order, cmd, ext, pending, runtime, snap, world, crashes>>

(* The cancel definitely failed: the old order's own hold comes back. *)
Restore(d) ==
    LET p == proc[d] IN
    /\ p.pc = "restore" /\ p.resOk
    /\ Commit(d, Finished(p, "CLOSED"), {}, {Root[p.cur]})
    /\ UNCHANGED <<db, pending, runtime, snap, world, crashes>>

Complete(d) ==
    LET p == proc[d] IN
    /\ p.pc = "complete"
    /\ cmd' = [cmd EXCEPT ![<<"REPLACE", p.rep>>] = "COMPLETED"]
    /\ Step(d, Finished(p, "DONE"))
    /\ UNCHANGED <<order, res, ext, pending, runtime, snap, world, crashes>>

(* The engine's outcome reaches the card unless a reconciliation closed the  *)
(* replacement first (a version conflict on the card row).                   *)
SaveCard(d) ==
    LET p == proc[d] IN
    /\ p.pc = "saveCard"
    /\ pending' = [pending EXCEPT ![p.rep] = IF @ = "PENDING" THEN p.card ELSE @]
    /\ Step(d, Idle)
    /\ UNCHANGED <<db, runtime, snap, world, crashes>>

-----------------------------------------------------------------------------
(* resume_replace_guarded, which the engine's heartbeat calls for a saved    *)
(* replacement whose old order is cancelled and that has no order at work.   *)

Resumable(d, n) ==
    /\ MayStart(d)
    /\ pending[n] = "PENDING"
    /\ order[Replaces[n]].status = "CANCELLED"
    /\ order[Replaces[n]].filled = 0
    /\ order[Replaces[n]].recovery = "NONE"
    /\ cmd[<<"REPLACE", n>>] \in {"REQUESTED", "COMPLETED"}

ResumeSubmit(d, n) ==
    /\ Resumable(d, n)
    /\ cmd[<<"REPLACE", n>>] = "REQUESTED"
    /\ order[n].status = Absent
    /\ IsOpen(res[Root[n]])
    /\ Step(d, [Idle EXCEPT !.pc = "revalidate", !.cur = Replaces[n], !.rep = n])
    /\ UNCHANGED <<db, pending, runtime, snap, world, crashes>>

(* The replacement was submitted before the restart: only the parent command *)
(* and the card are behind.                                                  *)
ResumeAdopt(d, n) ==
    /\ Resumable(d, n)
    /\ order[n].status = "FILLED"
    /\ Step(d, [Idle EXCEPT !.pc = "complete", !.cur = n, !.rep = n])
    /\ UNCHANGED <<db, pending, runtime, snap, world, crashes>>

(* Everything else that ends the attempt: a fill or a working order in its   *)
(* way, a refused risk decision, a closed reservation, a dead replacement.   *)
ResumeClose(d, n) ==
    LET live == {c \in {n, Replaces[n]} : order[c].status \in OpenStatus} IN
    /\ MayStart(d)
    /\ pending[n] = "PENDING"
    /\ \/ \E c \in live : order[c].filled > 0 \/ order[c].status = "WORKING"
       \/ live = {} /\ order[Replaces[n]].filled > 0
       \/ /\ live = {} /\ order[Replaces[n]].status = "CANCELLED"
          /\ order[Replaces[n]].recovery = "NONE"
    /\ pending' = [pending EXCEPT ![n] = "CLOSED"]
    /\ UNCHANGED <<db, runtime, proc, snap, world, crashes>>

-----------------------------------------------------------------------------
(* A transaction that does not commit: the database fails, a row has another *)
(* version than the one read, or a journalling check refuses.                *)

Journaling == {"replaceJournal", "cancelJournal"}
Transaction == {"reconcile", "prepared", "submitGate", "submitWait",
                "cancelGate", "cancelWait", "fence", "poll", "complete",
                "restore", "release", "releasePrepared", "saveCard"}

AfterTxError(p) ==
    CASE p.pc \in {"reconcile", "saveCard"} -> Idle
      [] p.pc \in {"submitWait", "cancelWait"} -> Finished(p, "PENDING")
      [] p.pc \in {"cancelJournal", "cancelGate"} -> AfterCancelFailure(p)
      [] OTHER -> Finished(p, "CLOSED")

TxError(d) ==
    LET p == proc[d] IN
    /\ \/ p.pc \in Journaling
       \/ p.pc \in Transaction /\ (DatabaseMayFail \/ ~p.rowOk \/ ~p.resOk)
    /\ Step(d, AfterTxError(p))
    /\ snap' = [snap EXCEPT ![d] = NoSnapshot]
    /\ ans' = [ans EXCEPT ![d] = NoAnswer]
    /\ UNCHANGED <<db, pending, runtime, brk, net, sent, crashes>>

-----------------------------------------------------------------------------
(* Account reconciliation: broker truth is fetched first, the durable rows   *)
(* are read, reduced and written back later.                                 *)

ViewOf(b) ==
    CASE b.st = "none" -> {[status |-> Unseen, filled |-> 0]}
      [] b.st = "open" /\ b.filled > 0 ->
            {[status |-> "PARTIALLY_FILLED", filled |-> b.filled]}
      [] b.st = "open" /\ b.filled = 0 ->
            [status: {"WORKING"} \cup IF b.cancelling THEN {"CANCEL_PENDING"} ELSE {},
             filled: {0}]
      [] OTHER -> {[status |-> InquiryTarget(b), filled |-> b.filled]}

RecSnapshot(d) ==
    /\ phase[d] # "down"
    /\ proc[d].pc = "idle"
    /\ \E missed \in IF SnapshotMayBePartial THEN SUBSET Cid ELSE {{}} :
       \E v \in [Cid -> UNION {ViewOf(brk[c]) : c \in Cid}
                        \cup {[status |-> Unseen, filled |-> 0]}] :
         /\ \A c \in Cid : v[c] \in ViewOf(IF c \in missed THEN NoBrokerOrder ELSE brk[c])
         /\ snap' = [snap EXCEPT ![d] = [complete |-> missed = {}, view |-> v]]
    /\ Step(d, [Idle EXCEPT !.pc = "reconcile"])
    /\ UNCHANGED <<db, pending, runtime, world, crashes>>

(* Rows that change are written; the observation time of an unchanged, still *)
(* open row is stamped only now and then (_stamp_exact_order_observation_if_due).*)
StampedRow(orders, s) ==
    SUBSET {c \in Cid : /\ orders[c].identity = "EXACT"
                        /\ orders[c].status \in OpenStatus
                        /\ s.view[c].status # Unseen}

(* A complete pass under the current lease is what lets a device trade. *)
RecApply(d) ==
    LET s == snap[d]
        orders == ReduceOrders(order, s)
        holds == ReduceReservations(res, orders)
    IN
    /\ proc[d].pc = "reconcile"
    /\ order' = orders
    /\ res' = holds
    /\ ext' = ReduceExternal(ext, orders, s)
    /\ pending' = ReducePending(pending, orders, s)
    /\ \E stamped \in StampedRow(orders, s) :
         Commit(d, Idle, stamped \cup {c \in Cid : orders[c] # order[c]},
                         {c \in Cid : holds[c] # res[c]})
    /\ phase' = [phase EXCEPT ![d] = IF s.complete /\ LeaseCurrent(d) THEN "active" ELSE @]
    /\ snap' = [snap EXCEPT ![d] = NoSnapshot]
    /\ UNCHANGED <<cmd, lease, held, world, crashes>>

-----------------------------------------------------------------------------
(* The broker (external).  A request that left a device arrives at any later *)
(* time or never; its answer is lost when nobody waits for it any more.      *)

Reply(m, a) ==
    LET d == m[3]
        waits == /\ proc[d].cur = m[2]
                 /\ proc[d].pc = IF m[1] = "submit" THEN "submitWait" ELSE "cancelWait"
    IN  /\ net' = net \ {m}
        /\ ans' = IF waits THEN [ans EXCEPT ![d] = a] ELSE ans

BrokerOnly == UNCHANGED <<db, pending, runtime, proc, snap, sent, crashes>>

BrokerAcceptsSubmit(m) ==
    /\ m[1] = "submit"
    /\ brk' = [brk EXCEPT ![m[2]] = [st |-> "open", filled |-> 0, cancelling |-> FALSE]]
    /\ Reply(m, [st |-> "accepted", filled |-> 0])
    /\ BrokerOnly

BrokerRefuses(m) ==
    /\ Reply(m, [st |-> "refused", filled |-> 0])
    /\ UNCHANGED brk
    /\ BrokerOnly

BrokerNeverReceives(m) ==
    /\ net' = net \ {m}
    /\ UNCHANGED <<brk, ans>>
    /\ BrokerOnly

(* A cancel of an open order takes effect at once or starts one; what the    *)
(* answer says of it is one of the statuses the adapter reads out of the     *)
(* broker's message.                                                         *)
BrokerCancels(m) ==
    LET b == brk[m[2]] IN
    /\ m[1] = "cancel" /\ b.st = "open"
    /\ \/ /\ brk' = [brk EXCEPT ![m[2]].st = "cancelled"]
          /\ Reply(m, [st |-> "CANCELLED", filled |-> b.filled])
       \/ /\ brk' = [brk EXCEPT ![m[2]].cancelling = TRUE]
          /\ \E st \in {"CANCEL_REQUESTED"}
                    \cup (IF CancelAckMayPrecedeCancel THEN {"CANCELLED"} ELSE {})
                    \cup (IF b.filled > 0 THEN {"PARTIALLY_FILLED"} ELSE {}) :
               Reply(m, [st |-> st, filled |-> b.filled])
    /\ BrokerOnly

BrokerSaysFilled(m) ==
    /\ m[1] = "cancel" /\ brk[m[2]].st = "filled"
    /\ Reply(m, [st |-> "FILLED", filled |-> Qty])
    /\ UNCHANGED brk
    /\ BrokerOnly

BrokerCompletesCancel(c) ==
    /\ brk[c].st = "open" /\ brk[c].cancelling
    /\ brk' = [brk EXCEPT ![c].st = "cancelled"]
    /\ UNCHANGED <<net, ans>>
    /\ BrokerOnly

BrokerFills(c) ==
    /\ brk[c].st = "open"
    /\ brk' = [brk EXCEPT ![c].filled = @ + 1,
                          ![c].st = IF brk[c].filled + 1 = Qty THEN "filled" ELSE @]
    /\ UNCHANGED <<net, ans>>
    /\ BrokerOnly

BrokerEnds(c, how) ==
    /\ brk[c].st = "open" /\ (how = "rejected" => brk[c].filled = 0)
    /\ brk' = [brk EXCEPT ![c].st = how]
    /\ UNCHANGED <<net, ans>>
    /\ BrokerOnly

-----------------------------------------------------------------------------
(* The runtime around the gateway. *)

(* A device observes, and trades only after its first complete pass. *)
Boot(d) ==
    /\ phase[d] = "down"
    /\ phase' = [phase EXCEPT ![d] = "standby"]
    /\ held' = [held EXCEPT ![d] = IF lease.holder = d THEN lease.epoch ELSE 0]
    /\ UNCHANGED <<db, pending, lease, proc, snap, world, crashes>>

(* Another device takes the main role: a new epoch, while the old holder may *)
(* be anywhere in a command.                                                 *)
LeaseMoves(d) ==
    /\ phase[d] = "standby" /\ proc[d].pc = "idle"
    /\ lease.holder # d /\ lease.epoch < MaxEpoch
    /\ lease' = [holder |-> d, epoch |-> lease.epoch + 1]
    /\ held' = [held EXCEPT ![d] = lease.epoch + 1]
    /\ UNCHANGED <<db, pending, phase, proc, snap, world, crashes>>

(* A device that finds its lease gone leaves the active role. *)
Stop(d) ==
    /\ phase[d] # "down" /\ proc[d].pc = "idle"
    /\ held[d] # 0 /\ ~LeaseCurrent(d)
    /\ phase' = [phase EXCEPT ![d] = "down"]
    /\ held' = [held EXCEPT ![d] = 0]
    /\ UNCHANGED <<db, pending, lease, proc, snap, world, crashes>>

Crash(d) ==
    /\ phase[d] # "down" /\ crashes < MaxCrashes
    /\ crashes' = crashes + 1
    /\ phase' = [phase EXCEPT ![d] = "down"]
    /\ held' = [held EXCEPT ![d] = 0]
    /\ Step(d, Idle)
    /\ snap' = [snap EXCEPT ![d] = NoSnapshot]
    /\ ans' = [ans EXCEPT ![d] = NoAnswer]
    /\ UNCHANGED <<db, pending, lease, brk, net, sent>>

-----------------------------------------------------------------------------

(* One step of the command or the pass device d is in. *)
Continue(d) ==
    \/ MarkSubmitting(d) \/ SubmitGate(d) \/ SubmitAbort(d) \/ CallSubmit(d)
    \/ SubmitAccepted(d) \/ SubmitRefused(d) \/ SubmitAmbiguous(d)
    \/ CancelGate(d) \/ CancelAbort(d) \/ CallCancel(d)
    \/ CancelAnswered(d) \/ CancelRefused(d) \/ CancelAmbiguous(d)
    \/ ReplaceJournal(d) \/ CancelJournal(d) \/ Fence(d)
    \/ PollApplies(d) \/ PollSkips(d) \/ PollTimesOut(d)
    \/ ReplaceSubmit(d) \/ ReplaceAbandon(d)
    \/ Release(d) \/ ReleasePrepared(d) \/ Restore(d) \/ Complete(d) \/ SaveCard(d)
    \/ TxError(d) \/ RecApply(d)

(* What the operator and the strategy may start. *)
Start(d) ==
    \/ \E c \in Cid : SubmitPrepare(d, c)
    \/ \E c \in Cid, k \in CancelId : CancelStart(d, c, k)
    \/ \E n \in Replacement : \/ ReplaceIntent(d, n)
                              \/ ResumeSubmit(d, n)
                              \/ ResumeAdopt(d, n)
                              \/ ResumeClose(d, n)

Broker ==
    \/ \E m \in net : \/ BrokerAcceptsSubmit(m) \/ BrokerRefuses(m)
                      \/ BrokerNeverReceives(m) \/ BrokerCancels(m)
                      \/ BrokerSaysFilled(m)
    \/ \E c \in Cid : \/ BrokerCompletesCancel(c)
                      \/ BrokerFills(c)
                      \/ \E how \in LateEndings : BrokerEnds(c, how)

Next ==
    \/ \E d \in Device : \/ Start(d) \/ Continue(d) \/ RecSnapshot(d)
                         \/ Boot(d) \/ LeaseMoves(d) \/ Stop(d) \/ Crash(d)
    \/ Broker

Spec == Init /\ [][Next]_vars

-----------------------------------------------------------------------------
(* Safety. *)

(* A client order id crosses the broker boundary at most once, whatever      *)
(* crashes, retries, resumes and changes of the main device happen.  The     *)
(* duplicate-command check and the order of _do_submit's two transactions    *)
(* before the broker call are what this rests on.                            *)
AtMostOnceSend == \A c \in Cid : sent[c] <= 1

(* Whatever may be at the broker has a durable record that says so: a submit *)
(* that was sent is never found again as not inserted, PREPARED or retired   *)
(* locally, nor its command as aborted before the broker (_do_submit commits *)
(* SUBMITTING first and retires only at the last gate).                      *)
JournaledBeforeBroker ==
    \A c \in Cid : sent[c] > 0 \/ brk[c].st # "none" =>
        /\ order[c].status \notin {Absent, "PREPARED", "CANCELLED_LOCALLY"}
        /\ cmd[<<"SUBMIT", c>>] \notin {Absent, "PRE_BROKER_ABORTED"}

(* replace_guarded and resume_replace_guarded never overlap two orders of a  *)
(* chain: when a replacement is sent, the broker itself has ended the old    *)
(* order by cancelling it, even when the answer to the cancel came too early.*)
NeverTwoLegs ==
    \A n \in Replacement : sent[n] > 0 => brk[Replaces[n]].st = "cancelled"

(* A record the application considers over (a terminal status, after which   *)
(* no pass looks for its order) has no order at work or on its way at the    *)
(* broker: nothing is forgotten while it can still trade.  Where the adapter *)
(* reads CANCELLED out of a cancel that has only been accepted, the order is *)
(* at least being cancelled.                                                 *)
TerminalMeansOver ==
    \A c \in Cid : order[c].status \in TerminalStatus =>
        /\ \/ brk[c].st # "open"
           \/ /\ CancelAckMayPrecedeCancel
              /\ order[c].status = "CANCELLED" /\ brk[c].cancelling
        /\ \A d \in Device : <<"submit", c, d>> \notin net

(* While an order works at the broker, or a submit is on its way there, the  *)
(* chain's capital reservation is open: the same capital is never available  *)
(* to another entry.                                                         *)
ExposureIsReserved ==
    \A c \in Cid :
        brk[c].st = "open" \/ (\E d \in Device : <<"submit", c, d>> \in net)
            => IsOpen(res[Root[c]])

(* How far an order has come, as OrderChain tells it. *)
StageOf(c) ==
    LET b == brk[c] IN
    CASE b.st = "cancelled" -> "cancelled"
      [] b.st \in {"filled", "expired", "rejected"} -> "done"
      [] b.st = "open" -> IF b.cancelling THEN "cancelling" ELSE "live"
      [] b.st = "none" /\ sent[c] > 0 ->
            IF \E d \in Device : <<"submit", c, d>> \in net THEN "sent" ELSE "lost"
      [] b.st = "none" /\ sent[c] = 0 ->
            IF cmd[<<"SUBMIT", c>>] = Absent THEN "new"
            ELSE IF order[c].status = "CANCELLED_LOCALLY" THEN "retired" ELSE "journaled"

stages == [c \in Cid |-> StageOf(c)]

(* The orders no pass looks for any more. *)
closed == {c \in Cid : order[c].status \in TerminalStatus}

Chain == INSTANCE OrderChain WITH stage <- stages, over <- closed

(* submit_guarded, cancel_guarded, replace_guarded, resume_replace_guarded    *)
(* and the reconciliation implement the chain of orders: no device, crash or *)
(* lost answer makes them skip one of its stages or take one twice.          *)
ImplementsChain == Chain!Spec

(* What a step may do to a record (apply_status_transition and its callers): *)
(* follow the status and recovery graphs, the reducer's one shortcut to      *)
(* CANCELLED included; keep a terminal status, a known broker identity and   *)
(* every reported fill; keep a status and an identity that belong together.  *)
LegalStep ==
    \A c \in Cid :
        LET o == order[c]
            n == order'[c]
        IN  /\ o.status # n.status =>
                 \/ o.status = Absent /\ n.status = "PREPARED"
                 \/ ReachableStatus(o, n.status)
            /\ o.recovery # n.recovery =>
                 n.recovery \in allowed_recovery_transitions(o.recovery)
            /\ o.identity = "EXACT" => n.identity = "EXACT"
            /\ n.filled >= o.filled
            /\ n.status # Absent => n.identity \in LegalIdentity(n.status)

(* No step breaks the rules of the order record's state machine.             *)
LegalOrderStep == [][LegalStep]_vars

-----------------------------------------------------------------------------
(* Liveness.  The runtime's heartbeat thread finishes the command or pass it *)
(* is in (every broker call and every poll has a timeout), starts another    *)
(* reconciliation pass in every period, and is started again after a stop.   *)
(* Nothing is assumed of the broker, the operator or the strategy.           *)
Fairness ==
    \A d \in Device : /\ WF_vars(Continue(d))
                      /\ WF_vars(RecSnapshot(d))
                      /\ WF_vars(Boot(d))

LiveSpec == Spec /\ Fairness

BrokerOver(c) == brk[c].st \in BrokerState \ {"none", "open"}

(* "Every restart converges to broker truth": when the broker is done with an *)
(* order whose identity is known, the record becomes terminal or is handed to *)
(* the operator.                                                             *)
LedgerConverges ==
    \A c \in Cid :
        BrokerOver(c) /\ order[c].identity = "EXACT"
            ~> \/ order[c].status \in TerminalStatus
               \/ order[c].recovery = "MANUAL_INTERVENTION_REQUIRED"

ChainOver(r) ==
    /\ res[r] # Absent
    /\ \A c \in Cid : Root[c] = r => order[c].status \in TerminalStatus \cup {Absent}

(* Capital is not held forever: once every order of a chain is over and no   *)
(* replacement joins it, the shared reservation is closed, by the gateway or *)
(* by a later pass.                                                          *)
CapitalComesBack ==
    \A r \in Cid : ChainOver(r) ~> ~IsOpen(res[r]) \/ ~ChainOver(r)

-----------------------------------------------------------------------------
(* What the documents and tests of the repository say and the code does not  *)
(* keep; each of these is refuted by a run of its own.                       *)

(* docs/kanban_production_readiness.md, recovery semantics: a row found      *)
(* PREPARED after a restart is retired or resumed.                           *)
PreparedIsResolved ==
    \A c \in Cid : order[c].status = "PREPARED" ~> order[c].status # "PREPARED"

(* tests/test_execution_command_gateway.py, a restart after a confirmed      *)
(* cancel resumes the submit: only the attempt itself, or the engine's own   *)
(* decision to give up, ends a replacement whose cancel is proven.           *)
Proven(n) ==
    /\ pending[n] = "PENDING"
    /\ cmd[<<"REPLACE", n>>] = "REQUESTED"
    /\ order[n].status = Absent
    /\ order[Replaces[n]].status = "CANCELLED"
    /\ order[Replaces[n]].recovery = "NONE" /\ order[Replaces[n]].filled = 0
    /\ IsOpen(res[Root[n]])

ProvenReplacementSurvivesRestart ==
    [][\A n \in Replacement :
         Proven(n) /\ (\A d \in Device : proc[d].pc \in {"idle", "reconcile"})
            => Proven(n)' \/ \E d \in Device : ResumeClose(d, n)]_vars

=============================================================================
