--------------------------- MODULE EmergencyJournal ---------------------------
(***************************************************************************)
(* Protective exits while the canonical database is away.  The gateway     *)
(* keeps a lease allowance in memory and a journal file on disk: a request *)
(* is fsynced before the broker is called, its outcome after, and when the *)
(* database answers again the probe folds the journal into the command,    *)
(* order and card rows before anything else is sent.                       *)
(*                                                                         *)
(* One device is modelled in detail.  The other one takes the lease over   *)
(* when this device has been silent for long enough, or is given it by the *)
(* operator, who does not wait.                                            *)
(***************************************************************************)
EXTENDS Integers, Sequences, SequencesExt, FiniteSets

CONSTANTS Order,          \* protective SELL submissions, by client_order_id
          Cancel,         \* cancellations, by cancel_command_id
          Target,         \* the order a cancellation is for
          Allowance,      \* EMERGENCY_LEASE_ALLOWANCE_SECONDS, in ticks
          CallTime,       \* how long a broker call may be under way
          TakeoverAfter,  \* least silence after which another device claims by itself
          MaxOutages, MaxCrashes,
          None

Key == Order \cup Cancel

AllowanceAssumption ==
    /\ Allowance \in Nat /\ CallTime \in Nat /\ TakeoverAfter \in Nat
    /\ Allowance + CallTime < TakeoverAfter
TargetAssumption == Target \in [Cancel -> Order] /\ Order \cap Cancel = {}

VARIABLES reach,    \* this device reaches the database
          writable, \* the worker's _database_writable
          age,      \* ticks since the lease was last verified
          tried,    \* keys this process knows to be used: its cards and records
          grant,    \* EmergencyLeaseAllowance: "none", "verified" or "outage"
          owner,    \* holder of the lease: "self", a "successor" or "switched"
          since,    \* ticks since the lease left this device
          proc,     \* what the worker is doing
          log,      \* REQUESTED entries of the journal, in order
          out,      \* OUTCOME entries: key -> status
          rec,      \* keys with a RECONCILED entry
          torn,     \* the last append was cut short
          sent,     \* key -> broker calls made for it
          live,     \* order -> "none", "working", "over" at the broker
          cmd, row, \* execution_commands and execution_orders
          marker,   \* emergency_journal_reconciliation
          card,     \* exit_client_order_id and exit_submission_unresolved
          outages, crashes

file == <<log, out, rec, torn>>
database == <<cmd, row, marker, card>>
broker == <<sent, live>>
lease == <<age, grant, owner, since, tried>>
vars == <<reach, writable, lease, proc, file, broker, database, outages, crashes>>

Idle == [at |-> "idle", key |-> None, answer |-> "none", todo |-> {}]
NoExit == [exit |-> None, unresolved |-> FALSE]

Written(k) == Contains(log, k)
Pending == {k \in Key : Written(k) /\ k \notin rec}

Init ==
    /\ reach = TRUE /\ writable = FALSE /\ age = 0 /\ grant = "none" /\ owner = "self" /\ since = 0
    /\ proc = Idle /\ tried = {}
    /\ log = <<>> /\ out = [k \in Key |-> "none"] /\ rec = {} /\ torn = FALSE
    /\ sent = [k \in Key |-> 0] /\ live = [o \in Order |-> "none"]
    /\ cmd = [k \in Key |-> "none"] /\ row = [o \in Order |-> "none"]
    /\ marker = {} /\ card = NoExit
    /\ outages = 0 /\ crashes = 0

Alive == proc.at # "dead"

-----------------------------------------------------------------------------
(* The environment: the connection, the clock, the broker, the other device. *)

LoseDatabase ==
    /\ reach /\ outages < MaxOutages
    /\ reach' = FALSE /\ outages' = outages + 1
    /\ UNCHANGED <<writable, lease, proc, file, broker, database, crashes>>

DatabaseBack ==
    /\ ~reach /\ reach' = TRUE
    /\ UNCHANGED <<writable, lease, proc, file, broker, database, outages, crashes>>

(* A device that is connected and running renews the lease it holds; time     *)
(* counts for one that is cut off, dead or replaced.  A call ends within      *)
(* CallTime.                                                                  *)
Tick ==
    /\ ~reach \/ ~Alive \/ owner # "self"
    /\ age < TakeoverAfter
    /\ proc.at = "requested" => age < Allowance + CallTime
    /\ age' = age + 1
    /\ since' = IF owner = "self" THEN 0 ELSE since + 1
    /\ UNCHANGED <<reach, writable, grant, owner, tried, proc, file, broker, database, outages, crashes>>

(* Another device claims by itself only from an owner whose heartbeat is old. *)
claim_main_device_if_stale ==
    /\ owner = "self" /\ age >= TakeoverAfter
    /\ owner' = "successor"
    /\ UNCHANGED <<reach, writable, age, since, grant, tried, proc, file, broker, database, outages, crashes>>

(* The operator moves the lease to a ready device.  Neither the readiness     *)
(* check nor claim_main_device looks at the heartbeat of the old owner.       *)
switch_execution_owner ==
    /\ owner = "self"
    /\ owner' = "switched"
    /\ UNCHANGED <<reach, writable, age, since, grant, tried, proc, file, broker, database, outages, crashes>>

Over(o) ==
    /\ live[o] = "working" /\ live' = [live EXCEPT ![o] = "over"]
    /\ UNCHANGED <<reach, writable, lease, proc, file, sent, database, outages, crashes>>

(* Account reconciliation of whoever holds the lease finds the exit over.    *)
ExitSettled(o) ==
    /\ card.exit = o /\ live[o] # "working"
    /\ owner # "self" \/ (reach /\ writable /\ proc = Idle)
    /\ card' = NoExit
    /\ UNCHANGED <<reach, writable, lease, proc, file, broker, cmd, row, marker, outages, crashes>>

-----------------------------------------------------------------------------
(* The lease allowance.                                                      *)

record_verified ==
    /\ proc = Idle /\ reach /\ writable /\ owner = "self"
    /\ age' = 0 /\ grant' = "verified"
    /\ tried' = tried \cup {k \in Key : cmd[k] # "none"}
    /\ UNCHANGED <<reach, writable, owner, since, proc, file, broker, database, outages, crashes>>

(* Also for an allowance that is in use: the database may be lost again while *)
(* the journal is folded in.                                                  *)
begin_outage ==
    IF grant # "none" /\ age < Allowance THEN "outage" ELSE "none"

(* Variant: the expiry is not looked at when the action is requested.        *)
ValidForever == grant = "outage"

require_valid == grant = "outage" /\ age < Allowance

-----------------------------------------------------------------------------
(* The database probe.                                                       *)

ProbeFails ==
    /\ Alive /\ ~reach /\ proc.at \in {"idle", "folding", "marking"}
    /\ proc # Idle \/ writable
    /\ proc' = Idle /\ writable' = FALSE
    /\ grant' = IF writable THEN begin_outage ELSE grant
    /\ UNCHANGED <<reach, age, owner, since, tried, file, broker, database, outages, crashes>>

(* Variant: the journal is left for later when the database answers.         *)
ProbeSkipsJournal ==
    /\ Alive /\ reach /\ proc = Idle /\ ~writable
    /\ writable' = TRUE /\ grant' = "none"
    /\ UNCHANGED <<reach, age, owner, since, tried, proc, file, broker, database, outages, crashes>>

(* Reading a torn journal raises: the database then counts as not writable.  *)
ProbeSucceeds ==
    /\ Alive /\ reach /\ proc = Idle /\ ~torn
    /\ ~writable
    /\ writable' = TRUE
    /\ IF Pending = {}
       THEN grant' = "none" /\ UNCHANGED proc
       ELSE proc' = [Idle EXCEPT !.at = "folding", !.todo = Pending] /\ UNCHANGED grant
    /\ UNCHANGED <<reach, age, owner, since, tried, file, broker, database, outages, crashes>>

(* Variant: a request without an outcome counts as one the broker refused.   *)
FailedUnlessKnown(k) == IF out[k] = "none" THEN "FAILED" ELSE out[k]

Outcome(k) == IF out[k] = "none" THEN "AMBIGUOUS" ELSE out[k]

FoldedRow(k) ==
    CASE Outcome(k) = "ACKNOWLEDGED" -> "ACKNOWLEDGED"
      [] Outcome(k) = "FAILED" -> "REJECTED"
      [] OTHER -> "UNKNOWN_SUBMISSION_STATE"

FoldedCommand(k) ==
    /\ cmd' = [cmd EXCEPT ![k] =
                  IF @ \in {"none", "REQUESTED"}
                  THEN IF out[k] = "none" THEN "REQUESTED" ELSE out[k]
                  ELSE @]
    /\ marker' = marker \cup {k}

(* One transaction.  The marker is written and never asked about.            *)
FoldSubmit(k) ==
    /\ k \in Order /\ FoldedCommand(k)
    /\ row' = [row EXCEPT ![k] = IF @ = "none" THEN FoldedRow(k) ELSE @]
    /\ card' = IF Outcome(k) = "FAILED" THEN NoExit
               ELSE [exit |-> k, unresolved |-> Outcome(k) # "ACKNOWLEDGED"]

(* An acknowledged cancellation carries the broker's normalized status, here  *)
(* always CANCELLED; DISCOVERING stands for the row's recovery_state.         *)
FoldCancel(k) ==
    /\ k \in Cancel /\ FoldedCommand(k)
    /\ row' = [row EXCEPT ![Target[k]] =
                  IF @ \in {"none", "REJECTED", "CANCELLED"} THEN @
                  ELSE CASE out[k] = "ACKNOWLEDGED" -> "CANCELLED"
                         [] out[k] = "AMBIGUOUS" -> "DISCOVERING"
                         [] OTHER -> @]
    /\ UNCHANGED card

(* Entries are taken in the order in which they were written.                *)
NextEntry(k) ==
    /\ k \in proc.todo
    /\ \E i \in DOMAIN log : log[i] = k /\ \A j \in 1 .. i - 1 : log[j] \notin proc.todo

reconcile_into_canonical ==
    /\ proc.at = "folding" /\ reach
    /\ \E k \in Key :
         /\ NextEntry(k)
         /\ FoldSubmit(k) \/ FoldCancel(k)
         /\ proc' = IF proc.todo = {k} THEN [Idle EXCEPT !.at = "marking", !.todo = Pending]
                    ELSE [proc EXCEPT !.todo = @ \ {k}]
    /\ UNCHANGED <<reach, writable, lease, file, broker, outages, crashes>>

append_reconciled ==
    /\ proc.at = "marking"
    /\ \E k \in Key :
         /\ NextEntry(k)
         /\ rec' = rec \cup {k}
         /\ IF proc.todo = {k}
            THEN proc' = Idle /\ grant' = "none"
            ELSE /\ proc' = [Idle EXCEPT !.at = "marking", !.todo = proc.todo \ {k}]
                 /\ UNCHANGED grant
    /\ UNCHANGED <<reach, writable, age, owner, since, tried, log, out, torn, broker, database, outages, crashes>>

-----------------------------------------------------------------------------
(* Commands.                                                                 *)

(* An exit through the database, in one step: OrderGateway has the detail.   *)
SubmitThroughDatabase(o) ==
    /\ proc = Idle /\ reach /\ writable /\ owner = "self" /\ cmd[o] = "none"
    /\ sent' = [sent EXCEPT ![o] = @ + 1]
    /\ live' = [live EXCEPT ![o] = "working"]
    /\ cmd' = [cmd EXCEPT ![o] = "ACKNOWLEDGED"]
    /\ row' = [row EXCEPT ![o] = "ACKNOWLEDGED"]
    /\ card' = [exit |-> o, unresolved |-> FALSE]
    /\ tried' = tried \cup {o}
    /\ UNCHANGED <<reach, writable, age, grant, owner, since, proc, file, marker, outages, crashes>>

(* A cancellation names an order the broker has given a number.  The engine  *)
(* does not ask again for an attempt its card or its records know of.        *)
append_requested(k) ==
    /\ proc = Idle /\ ~writable /\ require_valid /\ ~torn
    /\ ~Written(k) /\ k \notin tried
    /\ k \in Cancel => "ACKNOWLEDGED" \in {out[Target[k]], row[Target[k]]}
    /\ log' = Append(log, k) /\ tried' = tried \cup {k}
    /\ proc' = [Idle EXCEPT !.at = "requested", !.key = k]
    /\ UNCHANGED <<reach, writable, age, grant, owner, since, out, rec, torn, broker, database, outages, crashes>>

(* The broker accepts, refuses, or the answer is lost either way.            *)
CallBroker ==
    /\ proc.at = "requested"
    /\ sent' = [sent EXCEPT ![proc.key] = @ + 1]
    /\ \E answer \in {"ACKNOWLEDGED", "FAILED", "AMBIGUOUS"}, took \in BOOLEAN :
         /\ answer # "AMBIGUOUS" => took = (answer = "ACKNOWLEDGED")
         /\ took /\ proc.key \in Cancel => live[Target[proc.key]] = "working"
         /\ proc' = [proc EXCEPT !.at = "answered", !.answer = answer]
         /\ live' = CASE ~took -> live
                      [] took /\ proc.key \in Order -> [live EXCEPT ![proc.key] = "working"]
                      [] OTHER -> [live EXCEPT ![Target[proc.key]] = "over"]
    /\ UNCHANGED <<reach, writable, lease, file, database, outages, crashes>>

append_outcome ==
    /\ proc.at = "answered"
    /\ out' = [out EXCEPT ![proc.key] = proc.answer] /\ proc' = Idle
    /\ UNCHANGED <<reach, writable, lease, log, rec, torn, broker, database, outages, crashes>>

(* The append fails or is cut short; the caller is told never to retry.      *)
OutcomeLost ==
    /\ proc.at = "answered" /\ crashes < MaxCrashes
    /\ torn' \in BOOLEAN /\ proc' = Idle /\ crashes' = crashes + 1
    /\ UNCHANGED <<reach, writable, lease, log, out, rec, broker, database, outages>>

(* The allowance lives in memory only.                                       *)
Ends ==
    /\ proc' = [Idle EXCEPT !.at = "dead"]
    /\ writable' = FALSE /\ grant' = "none" /\ tried' = {}
    /\ UNCHANGED <<reach, age, owner, since, file, broker, database, outages>>

Crash ==
    /\ Alive /\ crashes < MaxCrashes /\ Ends
    /\ crashes' = crashes + 1

(* A worker that held the lease finds it with another device and stops.  One  *)
(* without a grant stays as a standby or stops: it can send nothing more.     *)
_lease_still_current ==
    /\ proc = Idle /\ reach /\ writable /\ grant # "none" /\ owner # "self" /\ Ends
    /\ UNCHANGED crashes

Restart ==
    /\ ~Alive /\ proc' = Idle
    /\ UNCHANGED <<reach, writable, lease, file, broker, database, outages, crashes>>

Fold == reconcile_into_canonical \/ append_reconciled

Next ==
    \/ LoseDatabase \/ DatabaseBack \/ Tick
    \/ claim_main_device_if_stale \/ switch_execution_owner \/ _lease_still_current
    \/ record_verified \/ ProbeFails \/ ProbeSucceeds \/ Fold
    \/ CallBroker \/ append_outcome \/ OutcomeLost \/ Crash \/ Restart
    \/ \E o \in Order : Over(o) \/ ExitSettled(o) \/ SubmitThroughDatabase(o)
    \/ \E k \in Key : append_requested(k)

Spec == Init /\ [][Next]_vars

(* The worker's loop probes, folds and finishes its calls; the supervisor    *)
(* starts a dead process again.  The database is not promised to come back.  *)
LiveSpec ==
    Spec /\ WF_vars(ProbeSucceeds) /\ WF_vars(Fold) /\ WF_vars(CallBroker)
         /\ WF_vars(append_outcome) /\ WF_vars(Restart)

-----------------------------------------------------------------------------
(* A protective call of a cut-off device is never under way beside a device   *)
(* that took over by itself; beside one the operator chose, for no longer     *)
(* after the switch than the allowance and a call last.                       *)
NeverBesideNewOwner ==
    proc.at = "requested" =>
        \/ owner = "self"
        \/ owner = "switched" /\ since <= Allowance + CallTime

(* The strict form, which the operator's switch breaks: nothing is sold after *)
(* the lease is lost (docs/kanban_production_readiness.md:974).               *)
NothingSoldAfterLeaseLoss == proc.at = "requested" => owner = "self"

(* One client_order_id reaches the broker once, whether it went through the  *)
(* journal or the database, and whatever crashed in between.                 *)
SentAtMostOnce == \A k \in Key : sent[k] <= 1

(* The rows never call an order dead that the broker is working: an outcome  *)
(* that was never written down is folded as unknown.                         *)
DeadRowIsDead ==
    \A o \in Order : row[o] \in {"REJECTED", "CANCELLED"} => live[o] # "working"

(* A request in the journal gets into the database, unless the journal is    *)
(* damaged or the database stays away.                                       *)
FoldedInTheEnd ==
    \A k \in Key : Written(k) ~> (k \in rec \/ torn \/ ~reach)

(* A request the database has marked as folded in is not applied again: the  *)
(* card is left as account reconciliation has put it.                        *)
FoldedOnce ==
    [][\A k \in Order : (k \in marker /\ card.exit # k) => card'.exit # k]_vars
===============================================================================
