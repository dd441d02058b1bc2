---------------------------- MODULE DeviceHandoff ----------------------------
(***************************************************************************)
(* Which device may execute: the main-device lease, the readiness row each *)
(* device publishes, automatic and operator claims, the runtime worker's   *)
(* way from start to ACTIVE, and the shutdown of the owner with a confirmed*)
(* successor.                                                              *)
(*                                                                         *)
(* Positions are open throughout.  A lease token is minted per claim and   *)
(* is identified with the epoch of that claim.  The age of a row is only   *)
(* whether it is within the heartbeat limit.                               *)
(***************************************************************************)
EXTENDS Naturals

CONSTANTS Device,
          AutoClaim,   \* the unattended devices: _auto_claim_main_enabled
          None,        \* no device
          MaxCrashes, MaxStalls, MaxDemotes, MaxSwitches, MaxCloses,
          CloseDuringClaim  \* the window may be closed before the result of a sync is seen

HandoffAssumption == AutoClaim \subseteq Device /\ None \notin Device

VARIABLES lease,  \* the main_device row
          row,    \* runtime_device_state
          app,    \* the main window of each device; busy: a sync is under way
          wk,     \* its runtime worker
          want,   \* an operator's switch under way
          left    \* what may still happen

vars == <<lease, row, app, wk, want, left>>

Larger(a, b) == IF a > b THEN a ELSE b

NoLook == [owner |-> None, gen |-> 0]
NoWorker == [mode |-> "none", state |-> "off", lease |-> 0, stop |-> FALSE]
Fresh(state, gen) ==
    [state |-> state, gen |-> gen, conf |-> FALSE, confGen |-> 0, confEpoch |-> 0, fresh |-> TRUE]

Init ==
    /\ lease = [dev |-> None, epoch |-> 0, rev |-> 0]
    /\ row = [d \in Device |-> [Fresh("none", 0) EXCEPT !.fresh = FALSE]]
    /\ app = [d \in Device |-> [up |-> TRUE, main |-> FALSE, epoch |-> 0,
                                look |-> NoLook, busy |-> FALSE, closing |-> "no",
                                accepted |-> FALSE]]
    /\ wk = [d \in Device |-> NoWorker]
    /\ want = [dev |-> None, gen |-> 0]
    /\ left = [crashes |-> MaxCrashes, stalls |-> MaxStalls, demotes |-> MaxDemotes,
               switches |-> MaxSwitches, closes |-> MaxCloses]

Spend(what) == left[what] > 0 /\ left' = [left EXCEPT ![what] = @ - 1]

-----------------------------------------------------------------------------
(* The readiness row.                                                        *)

(* save_runtime_device_state and publish_runtime_device_state_transition:    *)
(* entering STANDBY_READY is a new generation, staying in it keeps the       *)
(* confirmation, everything else clears it.                                  *)
Publish(d, state) ==
    LET r == row[d] IN
    row' = [row EXCEPT ![d] =
              IF state = "STANDBY_READY" /\ r.state = state THEN [r EXCEPT !.fresh = TRUE]
              ELSE Fresh(state, IF state = "STANDBY_READY" THEN r.gen + 1 ELSE r.gen)]

(* verify_standby_generation_for_claim.                                      *)
Ready(d, gen) == row[d].state = "STANDBY_READY" /\ row[d].fresh /\ gen > 0 /\ row[d].gen = gen

(* runtime_device_row_is_stale, get_runtime_device_liveness.                 *)
Gone(d) == ~row[d].fresh \/ row[d].state \in {"STOPPED", "FAILED"}

(* Nobody has refreshed the row for the heartbeat limit; for a running       *)
(* worker that is a stall or an outage.                                      *)
Age(d) ==
    /\ row[d].fresh
    /\ IF wk[d].mode = "none" THEN UNCHANGED left ELSE Spend("stalls")
    /\ row' = [row EXCEPT ![d].fresh = FALSE]
    /\ UNCHANGED <<lease, app, wk, want>>

AgesAlone(d) == wk[d].mode = "none" /\ Age(d)

-----------------------------------------------------------------------------
(* Claims.  Every claim is one transaction on the locked main_device row.    *)

(* Variant: a claim keeps the epoch it finds.                                *)
ClaimedSameEpoch(d) == [dev |-> d, epoch |-> Larger(lease.epoch, 1), rev |-> lease.rev + 1]

Claimed(d) ==
    [dev |-> d, epoch |-> Larger(lease.epoch, lease.rev) + 1, rev |-> lease.rev + 1]

(* _sync_buyboard_runtime_worker: a worker in the wrong role is asked to     *)
(* stop, the right one is started when there is none.                        *)
WorkerFor(d) ==
    LET mode == IF lease.dev = d THEN "owner" ELSE "standby" IN
    IF wk[d].mode = "none"
    THEN [mode |-> mode, state |-> "off", stop |-> FALSE,
          lease |-> IF lease.dev = d THEN lease.epoch ELSE 0]
    ELSE [wk[d] EXCEPT !.stop = @ \/ wk[d].mode # mode]

(* reconcile_state_with_remote and _on_state_sync_completed: the role follows*)
(* the row, then the worker the role; should_auto_claim_main decides on a    *)
(* claim for the next round.                                                 *)
Sync(d) ==
    LET mine == lease.dev = d
        claims == /\ ~mine /\ d \in AutoClaim
                  /\ lease.dev = None \/ Gone(lease.dev)
                  /\ wk[d].mode = "standby" /\ wk[d].state = "STANDBY_READY"
                  /\ Ready(d, row[d].gen)
    IN  /\ app[d].up /\ app[d].closing = "no" /\ app[d].look = NoLook
        /\ app' = [app EXCEPT ![d] =
                     [@ EXCEPT !.main = mine, !.epoch = IF mine THEN lease.epoch ELSE 0,
                               !.busy = claims,
                               !.look = IF claims THEN [owner |-> lease.dev, gen |-> row[d].gen]
                                        ELSE NoLook]]
        /\ wk' = [wk EXCEPT ![d] = WorkerFor(d)]
        /\ UNCHANGED <<lease, row, want, left>>

(* Variant: what was observed is taken as still true.                        *)
TrustsTheLook(d) == Ready(d, app[d].look.gen)

(* claim_main_device_if_stale, claim_main_device_if_unclaimed.               *)
MayClaim(d) ==
    /\ Ready(d, app[d].look.gen)
    /\ lease.dev = app[d].look.owner
    /\ lease.dev = None \/ Gone(lease.dev)

auto_claim_main_device(d) ==
    /\ app[d].up /\ app[d].look # NoLook
    /\ IF MayClaim(d) THEN lease' = Claimed(d) ELSE UNCHANGED lease
    /\ app' = [app EXCEPT ![d].look = NoLook]
    /\ UNCHANGED <<row, wk, want, left>>

(* switch_execution_owner by an operator: readiness is looked at first ...   *)
check_executor_readiness(d) ==
    /\ Spend("switches") /\ want.dev = None
    /\ lease.dev # d /\ Ready(d, row[d].gen)
    /\ want' = [dev |-> d, gen |-> row[d].gen]
    /\ UNCHANGED <<lease, row, app, wk>>

(* ... and again in the claim, which an operator command in flight refuses.  *)
claim_main_device ==
    /\ want.dev # None
    /\ want' = [dev |-> None, gen |-> 0]
    /\ \/ Ready(want.dev, want.gen) /\ lease' = Claimed(want.dev)
       \/ UNCHANGED lease
    /\ UNCHANGED <<row, app, wk, left>>

-----------------------------------------------------------------------------
(* The runtime worker.                                                       *)

Current(d) == lease.dev = d /\ lease.epoch = wk[d].lease

Works(d, state) ==
    /\ wk' = [wk EXCEPT ![d].state = state] /\ Publish(d, state)
    /\ UNCHANGED <<lease, app, want, left>>

WorkerStarts(d) == wk[d].mode # "none" /\ wk[d].state = "off" /\ Works(d, "STARTING")

(* The startup pass; an owner must hold its lease.                           *)
WorkerStandsBy(d) ==
    /\ wk[d].state = "STARTING" /\ (wk[d].mode = "owner" => Current(d))
    /\ Works(d, "STANDBY")

WorkerFails(d) ==
    /\ wk[d].state = "STARTING" /\ wk[d].mode = "owner" /\ ~Current(d)
    /\ wk' = [wk EXCEPT ![d] = NoWorker] /\ Publish(d, "FAILED")
    /\ UNCHANGED <<lease, app, want, left>>

(* Variant: the row is published when the readiness is reached and not again.*)
StandbyReadyOnce(d) ==
    /\ wk[d].mode = "standby" /\ ~wk[d].stop
    /\ wk[d].state = "STANDBY"
    /\ Works(d, "STANDBY_READY")

(* A standby that has reconciled publishes its readiness and keeps it fresh. *)
StandbyReady(d) ==
    /\ wk[d].mode = "standby" /\ ~wk[d].stop
    /\ \/ wk[d].state = "STANDBY"
       \/ wk[d].state = "STANDBY_READY" /\ ~row[d].fresh
    /\ Works(d, "STANDBY_READY")

_demote_standby_readiness(d) ==
    /\ wk[d].state = "STANDBY_READY" /\ Spend("demotes")
    /\ wk' = [wk EXCEPT ![d].state = "STANDBY"] /\ Publish(d, "STANDBY")
    /\ UNCHANGED <<lease, app, want>>

(* _advance_startup_readiness of an owner: the lease is read again, then     *)
(* STANDBY_READY and ACTIVE are published.                                   *)
OwnerReady(d) ==
    /\ wk[d].mode = "owner" /\ ~wk[d].stop /\ wk[d].state = "STANDBY" /\ Current(d)
    /\ Works(d, "STANDBY_READY")

OwnerActivates(d) ==
    /\ wk[d].mode = "owner" /\ wk[d].state = "STANDBY_READY"
    /\ Works(d, "ACTIVE")

Heartbeat(d) == wk[d].state = "ACTIVE" /\ ~row[d].fresh /\ Works(d, "ACTIVE")

(* Asked to stop, or the lease is no longer current.                         *)
WorkerShutsDown(d) ==
    /\ wk[d].state \in {"STANDBY", "STANDBY_READY", "ACTIVE"}
    /\ wk[d].stop \/ (wk[d].mode = "owner" /\ ~Current(d))
    /\ Works(d, "SHUTTING_DOWN")

(* _perform_shutdown_sequence: FAILED when one of its steps failed.          *)
WorkerEnds(d) ==
    /\ wk[d].state = "SHUTTING_DOWN"
    /\ \E state \in {"STOPPED", "FAILED"} : Publish(d, state)
    /\ wk' = [wk EXCEPT ![d] = NoWorker]
    /\ UNCHANGED <<lease, app, want, left>>

-----------------------------------------------------------------------------
(* closeEvent of the main window.                                            *)

(* confirm_standby_handoff for the successor found, unless it is confirmed.  *)
confirm_standby_handoff(d) ==
    LET c == {e \in Device \ {d} : Ready(e, row[e].gen)} IN
    \/ app[d].main /\ app[d].epoch > 0
       /\ \E e \in c : row' = IF row[e].conf THEN row
                              ELSE [row EXCEPT ![e].conf = TRUE, ![e].confGen = row[e].gen,
                                               ![e].confEpoch = app[d].epoch]
    \/ (~app[d].main \/ app[d].epoch = 0 \/ c = {}) /\ UNCHANGED row

(* find_confirmed_standby_successor.                                         *)
Successor(d) ==
    \E e \in Device \ {d} :
        /\ Ready(e, row[e].gen) /\ row[e].conf /\ row[e].confGen = row[e].gen
        /\ row[e].confEpoch = app[d].epoch

CloseAsked(d) ==
    /\ Spend("closes") /\ app[d].up /\ app[d].closing = "no"
    /\ CloseDuringClaim \/ ~app[d].busy
    /\ app' = [app EXCEPT ![d].closing = "asked"]
    /\ confirm_standby_handoff(d)
    /\ UNCHANGED <<lease, wk, want>>

Stops(d, accepted) ==
    /\ app' = [app EXCEPT ![d].closing = "stopping", ![d].accepted = accepted]
    /\ wk' = [wk EXCEPT ![d].stop = @ \/ wk[d].mode # "none"]

Stays(d) == app' = [app EXCEPT ![d].closing = "no", ![d].accepted = FALSE] /\ UNCHANGED wk

(* decide_shutdown_lease_release with open positions: without a successor an *)
(* unattended device stays, the user of a supervised one may accept to leave *)
(* the positions unprotected.                                                *)
_authorize_execution_shutdown(d) ==
    /\ app[d].closing = "asked"
    /\ \/ (~app[d].main \/ Successor(d)) /\ Stops(d, app[d].accepted)
       \/ app[d].main /\ ~Successor(d) /\ Stays(d)
       \/ /\ app[d].main /\ ~Successor(d) /\ d \notin AutoClaim
          /\ Stops(d, TRUE)
    /\ UNCHANGED <<lease, row, want, left>>

(* The workers have stopped; the decision is taken a second time.            *)
StoppedAndAsked(d) ==
    /\ app[d].closing = "stopping" /\ wk[d].mode = "none" /\ app[d].look = NoLook
    /\ app' = [app EXCEPT ![d].closing = "asked again"]
    /\ confirm_standby_handoff(d)
    /\ UNCHANGED <<lease, wk, want, left>>

Down == [up |-> FALSE, main |-> FALSE, epoch |-> 0, look |-> NoLook,
         busy |-> FALSE, closing |-> "no", accepted |-> FALSE]

(* Refused: unattended, protection starts again; supervised, the user may    *)
(* leave all the same and keep the lease.                                    *)
Refused(d) ==
    \/ app' = [app EXCEPT ![d].closing = "no"]
    \/ d \notin AutoClaim /\ app' = [app EXCEPT ![d] = Down]

(* Refused without a successor or an acceptance, when the worker did not     *)
(* stop cleanly, and when the final save or the publication of the snapshot  *)
(* fails.                                                                    *)
DecidedAgain(d) ==
    /\ app[d].closing = "asked again"
    /\ \/ ~app[d].main /\ app' = [app EXCEPT ![d] = Down]
       \/ /\ app[d].main /\ (Successor(d) \/ (d \notin AutoClaim /\ app[d].accepted))
          /\ row[d].state = "STOPPED"
          /\ app' = [app EXCEPT ![d].closing = "releasing"]
       \/ app[d].main /\ Refused(d)
    /\ UNCHANGED <<lease, row, wk, want, left>>

(* The tombstone of a released lease keeps its epoch.                        *)
Tombstone == [dev |-> None, epoch |-> lease.epoch, rev |-> lease.rev + 1]

(* A lease of another device is not ours to release; the tombstone of one is *)
(* an error.                                                                 *)
release_main_device(d) ==
    /\ app[d].closing = "releasing"
    /\ \/ /\ lease.dev = d /\ lease.epoch = app[d].epoch
          /\ lease' = Tombstone /\ app' = [app EXCEPT ![d] = Down]
       \/ lease.dev \notin {d, None} /\ app' = [app EXCEPT ![d] = Down] /\ UNCHANGED lease
       \/ (lease.dev = None \/ (lease.dev = d /\ lease.epoch # app[d].epoch))
          /\ Refused(d) /\ UNCHANGED lease
    /\ UNCHANGED <<row, wk, want, left>>

-----------------------------------------------------------------------------
Crash(d) ==
    /\ Spend("crashes") /\ app[d].up
    /\ app' = [app EXCEPT ![d] = Down] /\ wk' = [wk EXCEPT ![d] = NoWorker]
    /\ UNCHANGED <<lease, row, want>>

Restart(d) ==
    /\ ~app[d].up /\ app' = [app EXCEPT ![d].up = TRUE, ![d].busy = TRUE]
    /\ UNCHANGED <<lease, row, wk, want, left>>

Worker(d) ==
    \/ WorkerStarts(d) \/ WorkerStandsBy(d) \/ WorkerFails(d) \/ StandbyReady(d)
    \/ OwnerReady(d) \/ OwnerActivates(d) \/ Heartbeat(d)
    \/ WorkerShutsDown(d) \/ WorkerEnds(d)

Syncs(d) == Sync(d) \/ auto_claim_main_device(d)

Closing(d) ==
    \/ _authorize_execution_shutdown(d) \/ StoppedAndAsked(d) \/ DecidedAgain(d)
    \/ release_main_device(d)

Next ==
    \/ claim_main_device
    \/ \E d \in Device :
         \/ Syncs(d) \/ Worker(d) \/ Closing(d)
         \/ Age(d) \/ check_executor_readiness(d) \/ _demote_standby_readiness(d)
         \/ CloseAsked(d) \/ Crash(d) \/ Restart(d)

Spec == Init /\ [][Next]_vars

(* The timers and threads run, rows that nobody refreshes grow old, and a    *)
(* device that is down is started again.                                     *)
LiveSpec ==
    /\ Spec
    /\ WF_vars(claim_main_device)
    /\ \A d \in Device :
         /\ WF_vars(Syncs(d))
         /\ WF_vars(Worker(d)) /\ WF_vars(Closing(d)) /\ WF_vars(Restart(d))
         /\ WF_vars(AgesAlone(d))

-----------------------------------------------------------------------------
(* A worker that lost its lease never holds it again: the epochs of later    *)
(* claims are new, also after a release and when its own device claims       *)
(* again, so what it still sends stays fenced (require_current_lease).       *)
Fenced ==
    \A d \in Device :
        (wk[d].mode = "owner" /\ wk'[d].mode = "owner" /\ ~Current(d)) => ~Current(d)'

FencedForGood == [][Fenced]_vars

(* An automatic claim takes the lease from no one, or from an owner that is  *)
(* gone at that moment, though it was decided on an earlier look             *)
(* (claim_main_device_if_stale).                                             *)
Takeover ==
    (lease'.dev \notin {None, lease.dev} /\ want' = want) => lease.dev = None \/ Gone(lease.dev)

LiveOwnerKept == [][Takeover]_vars

(* An unattended device that goes down by itself does not keep the lease     *)
(* (_release_main_device_ownership_for_shutdown, closeEvent).                *)
Departure ==
    \A d \in AutoClaim : (app[d].up /\ ~app'[d].up) => lease'.dev # d \/ left' # left

LeavesNoLease == [][Departure]_vars

(* Whatever crashes, stalls or is closed, some device ends up ACTIVE under   *)
(* the current lease again.                                                  *)
Protected == \E d \in Device : wk[d].mode = "owner" /\ wk[d].state = "ACTIVE" /\ Current(d)

ProtectedAgain == ~Protected ~> Protected
=============================================================================
