------------------------ MODULE Ownership_proofs ------------------------
(***************************************************************************)
(* Who owns execution.  First the lease itself: for any devices and any    *)
(* number of crashes, stalls, switches and closed windows a worker that    *)
(* lost its lease is fenced for good, and an automatic claim never         *)
(* displaces a live owner.  Then what the owner does with the requests of  *)
(* other devices, for any devices, requests and conflicts.                 *)
(***************************************************************************)
EXTENDS DeviceHandoff, TLAPS

States == {"off", "STARTING", "STANDBY", "STANDBY_READY", "ACTIVE", "SHUTTING_DOWN"}
WorkerType == [mode : {"none", "owner", "standby"}, state : States, lease : Nat, stop : BOOLEAN]

TypeInv ==
    /\ lease \in [dev : Device \cup {None}, epoch : Nat, rev : Nat]
    /\ wk \in [Device -> WorkerType]
    /\ want.dev \in Device \cup {None}

(* The lease an owner's worker was started with was granted at or before the *)
(* current one, and if it carries the current epoch no other device does.    *)
Behind(d) ==
    wk[d].mode = "owner" =>
        /\ wk[d].lease <= lease.epoch
        /\ wk[d].lease = lease.epoch => lease.dev \in {d, None}

IInv == TypeInv /\ \A d \in Device : Behind(d)

-----------------------------------------------------------------------------
(* What a step may do to the lease and to a worker.                          *)

Granted == \E e \in Device : lease' = Claimed(e)
LeaseStep == lease' = lease \/ Granted \/ lease' = Tombstone

Same(d) == wk'[d] \in WorkerType /\ wk'[d].mode = wk[d].mode /\ wk'[d].lease = wk[d].lease
Begun(d) ==
    /\ wk[d].mode = "none" /\ wk'[d] \in WorkerType /\ lease' = lease
    /\ wk'[d].mode = "owner" => lease.dev = d /\ wk'[d].lease = lease.epoch
WorkerStep(d) == Same(d) \/ Begun(d) \/ wk'[d] = NoWorker
WorkersStep ==
    /\ DOMAIN wk' = Device /\ wk' = [d \in Device |-> wk'[d]]
    /\ \A d \in Device : WorkerStep(d)

WantStep == want'.dev \in Device \cup {None}

(* Nothing happens to the workers.                                           *)
LEMMA WorkersKept == ASSUME TypeInv, wk' = wk PROVE WorkersStep
  <1>1. \A d \in Device : wk[d] \in WorkerType
    BY DEF TypeInv
  <1>. QED  BY <1>1 DEF TypeInv, WorkersStep, WorkerStep, Same

(* The state of one worker changes, or its stop flag.                        *)
LEMMA OneWorker ==
    ASSUME TypeInv, NEW d \in Device, NEW w, wk' = [wk EXCEPT ![d] = w],
           w \in WorkerType,
           \/ w.mode = wk[d].mode /\ w.lease = wk[d].lease
           \/ w = NoWorker
           \/ /\ wk[d].mode = "none" /\ lease' = lease
              /\ w.mode = "owner" => lease.dev = d /\ w.lease = lease.epoch
    PROVE  WorkersStep
  <1>1. wk' = [e \in Device |-> IF e = d THEN w ELSE wk[e]]
    BY DEF TypeInv
  <1>2. \A e \in Device : wk[e] \in WorkerType
    BY DEF TypeInv
  <1>3. ASSUME NEW e \in Device PROVE WorkerStep(e)
    <2>1. CASE e = d
      <3>1. wk'[e] = w  BY <2>1, <1>1
      <3>. QED  BY <3>1, <2>1 DEF WorkerStep, Same, Begun
    <2>2. CASE e # d
      <3>1. wk'[e] = wk[e]  BY <2>2, <1>1
      <3>. QED  BY <3>1, <1>2 DEF WorkerStep, Same
    <2>. QED  BY <2>1, <2>2
  <1>. QED  BY <1>1, <1>3 DEF WorkersStep

LEMMA Written ==
    ASSUME TypeInv, NEW d \in Device, NEW state \in States, Works(d, state)
    PROVE  WorkersStep /\ lease' = lease /\ want' = want
  <1>. DEFINE w == [wk[d] EXCEPT !.state = state]
  <1>1. wk[d] \in WorkerType  BY DEF TypeInv
  <1>2. w \in WorkerType /\ w.mode = wk[d].mode /\ w.lease = wk[d].lease
    BY <1>1 DEF WorkerType
  <1>3. wk' = [wk EXCEPT ![d] = w]  BY DEF Works
  <1>4. WorkersStep  BY <1>2, <1>3, OneWorker
  <1>. QED  BY <1>4 DEF Works

LEMMA Ends ==
    ASSUME TypeInv, NEW d \in Device, wk' = [wk EXCEPT ![d] = NoWorker]
    PROVE  WorkersStep
  <1>1. NoWorker \in WorkerType  BY DEF NoWorker, WorkerType, States
  <1>. QED  BY <1>1, OneWorker

LEMMA Flagged ==
    ASSUME TypeInv, NEW d \in Device, NEW b \in BOOLEAN, wk' = [wk EXCEPT ![d].stop = b]
    PROVE  WorkersStep
  <1>. DEFINE w == [wk[d] EXCEPT !.stop = b]
  <1>1. wk[d] \in WorkerType  BY DEF TypeInv
  <1>2. w \in WorkerType /\ w.mode = wk[d].mode /\ w.lease = wk[d].lease
    BY <1>1 DEF WorkerType
  <1>3. wk' = [wk EXCEPT ![d] = w]  OBVIOUS
  <1>. QED  BY <1>2, <1>3, OneWorker

-----------------------------------------------------------------------------
(* Every action takes such steps.                                            *)
Step == LeaseStep /\ WorkersStep /\ WantStep

LEMMA Quiet ==
    ASSUME TypeInv, lease' = lease, WorkersStep, want' = want
    PROVE  Step
  BY DEF Step, LeaseStep, WantStep, TypeInv

LEMMA WorkerActs ==
    ASSUME TypeInv, NEW d \in Device, Worker(d)
    PROVE  Step
  <1>1. CASE WorkerStarts(d)
    BY <1>1, Written, Quiet DEF WorkerStarts, States
  <1>2. CASE WorkerStandsBy(d)
    BY <1>2, Written, Quiet DEF WorkerStandsBy, States
  <1>3. CASE WorkerFails(d)
    BY <1>3, Ends, Quiet DEF WorkerFails
  <1>4. CASE StandbyReady(d)
    BY <1>4, Written, Quiet DEF StandbyReady, States
  <1>5. CASE OwnerReady(d)
    BY <1>5, Written, Quiet DEF OwnerReady, States
  <1>6. CASE OwnerActivates(d)
    BY <1>6, Written, Quiet DEF OwnerActivates, States
  <1>7. CASE Heartbeat(d)
    BY <1>7, Written, Quiet DEF Heartbeat, States
  <1>8. CASE WorkerShutsDown(d)
    BY <1>8, Written, Quiet DEF WorkerShutsDown, States
  <1>9. CASE WorkerEnds(d)
    BY <1>9, Ends, Quiet DEF WorkerEnds
  <1>. QED  BY <1>1, <1>2, <1>3, <1>4, <1>5, <1>6, <1>7, <1>8, <1>9 DEF Worker

LEMMA SyncActs ==
    ASSUME TypeInv, NEW d \in Device, Sync(d)
    PROVE  Step
  <1>. DEFINE mine == lease.dev = d
              mode == IF mine THEN "owner" ELSE "standby"
              new == [mode |-> mode, state |-> "off", stop |-> FALSE,
                      lease |-> IF mine THEN lease.epoch ELSE 0]
              old == [wk[d] EXCEPT !.stop = @ \/ wk[d].mode # mode]
  <1>1. lease' = lease /\ want' = want
    BY DEF Sync
  <1>2. wk' = [wk EXCEPT ![d] = WorkerFor(d)]
    BY DEF Sync
  <1>3. wk[d] \in WorkerType /\ lease.epoch \in Nat
    BY DEF TypeInv
  <1>4. CASE wk[d].mode = "none"
    <2>1. new \in WorkerType
      BY <1>3 DEF WorkerType, States
    <2>2. new.mode = "owner" => lease.dev = d /\ new.lease = lease.epoch
      OBVIOUS
    <2>3. wk' = [wk EXCEPT ![d] = new]
      BY <1>2, <1>4 DEF WorkerFor
    <2>4. WorkersStep
      BY <1>1, <1>4, <2>1, <2>2, <2>3, OneWorker
    <2>. QED  BY <1>1, <2>4, Quiet
  <1>5. CASE wk[d].mode # "none"
    <2>1. old \in WorkerType /\ old.mode = wk[d].mode /\ old.lease = wk[d].lease
      BY <1>3 DEF WorkerType
    <2>2. wk' = [wk EXCEPT ![d] = old]
      BY <1>2, <1>5 DEF WorkerFor
    <2>3. WorkersStep
      BY <2>1, <2>2, OneWorker
    <2>. QED  BY <1>1, <2>3, Quiet
  <1>. QED  BY <1>4, <1>5

LEMMA ClaimActs ==
    ASSUME TypeInv, NEW d \in Device, auto_claim_main_device(d)
    PROVE  Step
  <1>1. WorkersStep /\ WantStep
    BY WorkersKept DEF auto_claim_main_device, WantStep, TypeInv
  <1>2. LeaseStep
    BY DEF auto_claim_main_device, LeaseStep, Granted
  <1>. QED  BY <1>1, <1>2 DEF Step

LEMMA SwitchActs ==
    ASSUME TypeInv, claim_main_device, HandoffAssumption
    PROVE  Step
  <1>1. WorkersStep /\ WantStep
    BY WorkersKept DEF claim_main_device, WantStep
  <1>2. want.dev \in Device
    BY DEF claim_main_device, TypeInv
  <1>3. LeaseStep
    BY <1>2 DEF claim_main_device, LeaseStep, Granted
  <1>. QED  BY <1>1, <1>3 DEF Step

LEMMA ClosingActs ==
    ASSUME TypeInv, NEW d \in Device, Closing(d)
    PROVE  Step
  <1>0. ASSUME NEW a, Stops(d, a) PROVE WorkersStep
    <2>1. wk' = [wk EXCEPT ![d].stop = wk[d].stop \/ wk[d].mode # "none"]
      BY <1>0 DEF Stops
    <2>2. (wk[d].stop \/ wk[d].mode # "none") \in BOOLEAN
      OBVIOUS
    <2>. QED  BY <2>1, <2>2, Flagged
  <1>1. CASE _authorize_execution_shutdown(d)
    <2>1. lease' = lease /\ want' = want
      BY <1>1 DEF _authorize_execution_shutdown
    <2>2. WorkersStep
      BY <1>1, <1>0, WorkersKept DEF _authorize_execution_shutdown, Stays
    <2>. QED  BY <2>1, <2>2, Quiet
  <1>2. CASE StoppedAndAsked(d)
    BY <1>2, WorkersKept, Quiet DEF StoppedAndAsked
  <1>3. CASE DecidedAgain(d)
    BY <1>3, WorkersKept, Quiet DEF DecidedAgain
  <1>4. CASE release_main_device(d)
    <2>1. WorkersStep /\ WantStep
      BY <1>4, WorkersKept DEF release_main_device, WantStep, TypeInv
    <2>2. LeaseStep
      BY <1>4 DEF release_main_device, LeaseStep
    <2>. QED  BY <2>1, <2>2 DEF Step
  <1>. QED  BY <1>1, <1>2, <1>3, <1>4 DEF Closing

LEMMA OtherActs ==
    ASSUME TypeInv, NEW d \in Device,
           \/ Age(d) \/ check_executor_readiness(d) \/ _demote_standby_readiness(d)
           \/ CloseAsked(d) \/ Crash(d) \/ Restart(d)
    PROVE  Step
  <1>1. CASE Age(d)
    BY <1>1, WorkersKept, Quiet DEF Age
  <1>2. CASE check_executor_readiness(d)
    <2>1. WorkersStep /\ LeaseStep
      BY <1>2, WorkersKept DEF check_executor_readiness, LeaseStep
    <2>2. WantStep
      BY <1>2 DEF check_executor_readiness, WantStep
    <2>. QED  BY <2>1, <2>2 DEF Step
  <1>3. CASE _demote_standby_readiness(d)
    <2>. DEFINE w == [wk[d] EXCEPT !.state = "STANDBY"]
    <2>1. w \in WorkerType /\ w.mode = wk[d].mode /\ w.lease = wk[d].lease
      BY DEF TypeInv, WorkerType, States
    <2>2. wk' = [wk EXCEPT ![d] = w] /\ lease' = lease /\ want' = want
      BY <1>3 DEF _demote_standby_readiness
    <2>3. WorkersStep
      BY <2>1, <2>2, OneWorker
    <2>. QED  BY <2>2, <2>3, Quiet
  <1>4. CASE CloseAsked(d)
    BY <1>4, WorkersKept, Quiet DEF CloseAsked
  <1>5. CASE Crash(d)
    BY <1>5, Ends, Quiet DEF Crash
  <1>6. CASE Restart(d)
    BY <1>6, WorkersKept, Quiet DEF Restart
  <1>. QED  BY <1>1, <1>2, <1>3, <1>4, <1>5, <1>6

LEMMA NextSteps ==
    ASSUME TypeInv, [Next]_vars, HandoffAssumption
    PROVE  Step
  <1>1. CASE UNCHANGED vars
    BY <1>1, WorkersKept, Quiet DEF vars
  <1>2. CASE claim_main_device
    BY <1>2, SwitchActs
  <1>3. ASSUME NEW d \in Device,
               \/ Syncs(d) \/ Worker(d) \/ Closing(d)
               \/ Age(d) \/ check_executor_readiness(d) \/ _demote_standby_readiness(d)
               \/ CloseAsked(d) \/ Crash(d) \/ Restart(d)
        PROVE  Step
    BY <1>3, SyncActs, ClaimActs, WorkerActs, ClosingActs, OtherActs DEF Syncs
  <1>. QED  BY <1>1, <1>2, <1>3 DEF Next

-----------------------------------------------------------------------------
LEMMA InitIInv == ASSUME Init PROVE IInv
  <1>1. TypeInv
    BY DEF Init, TypeInv, WorkerType, States, NoWorker
  <1>2. \A d \in Device : Behind(d)
    BY DEF Init, Behind, NoWorker
  <1>. QED  BY <1>1, <1>2 DEF IInv

LEMMA StepTypes == ASSUME TypeInv, Step PROVE TypeInv'
  <1>1. lease' \in [dev : Device \cup {None}, epoch : Nat, rev : Nat]
    <2>1. CASE lease' = lease
      BY <2>1 DEF TypeInv
    <2>2. CASE Granted
      <3>1. PICK e \in Device : lease' = Claimed(e)
        BY <2>2 DEF Granted
      <3>2. lease.rev \in Nat /\ lease.epoch \in Nat
        BY DEF TypeInv
      <3>3. Larger(lease.epoch, lease.rev) + 1 \in Nat /\ lease.rev + 1 \in Nat
        BY <3>2 DEF Larger
      <3>. QED  BY <3>1, <3>3 DEF Claimed
    <2>3. CASE lease' = Tombstone
      BY <2>3 DEF Tombstone, TypeInv
    <2>. QED  BY <2>1, <2>2, <2>3 DEF Step, LeaseStep
  <1>2. \A d \in Device : wk'[d] \in WorkerType
    <2>1. NoWorker \in WorkerType
      BY DEF NoWorker, WorkerType, States
    <2>. QED  BY <2>1 DEF Step, WorkersStep, WorkerStep, Same, Begun
  <1>3. wk' \in [Device -> WorkerType]
    BY <1>2 DEF Step, WorkersStep
  <1>. QED  BY <1>1, <1>3 DEF TypeInv, Step, WantStep

(* How far a step moves the epoch.                                           *)
LEMMA EpochMoves ==
    ASSUME TypeInv, Step
    PROVE  \/ lease' = lease
           \/ lease'.epoch \in Nat /\ lease'.epoch > lease.epoch
           \/ lease'.epoch = lease.epoch /\ lease'.dev = None
  <1>1. CASE Granted
    BY <1>1 DEF Granted, Claimed, Larger, TypeInv
  <1>2. CASE lease' = Tombstone
    BY <1>2 DEF Tombstone, TypeInv
  <1>. QED  BY <1>1, <1>2 DEF Step, LeaseStep

LEMMA StepBehind ==
    ASSUME IInv, Step, NEW d \in Device
    PROVE  Behind(d)'
  <1>. SUFFICES ASSUME wk'[d].mode = "owner"
                PROVE  /\ wk'[d].lease <= lease'.epoch
                       /\ wk'[d].lease = lease'.epoch => lease'.dev \in {d, None}
    BY DEF Behind
  <1>0. lease.epoch \in Nat /\ wk[d].lease \in Nat
    BY DEF IInv, TypeInv, WorkerType
  <1>1. CASE Same(d)
    <2>1. Behind(d) /\ wk[d].mode = "owner" /\ wk'[d].lease = wk[d].lease
      BY <1>1 DEF IInv, Same
    <2>. QED  BY <2>1, <1>0, EpochMoves DEF IInv, Behind
  <1>2. CASE Begun(d)
    BY <1>2, <1>0 DEF Begun
  <1>3. CASE wk'[d] = NoWorker
    BY <1>3 DEF NoWorker
  <1>. QED  BY <1>1, <1>2, <1>3 DEF Step, WorkersStep, WorkerStep

LEMMA StepFenced == ASSUME IInv, Step, HandoffAssumption PROVE Fenced
  <1>. SUFFICES ASSUME NEW d \in Device, wk[d].mode = "owner", wk'[d].mode = "owner",
                       ~Current(d)
                PROVE  ~(Current(d)')
    BY DEF Fenced
  <1>0. lease.epoch \in Nat /\ wk[d].lease \in Nat /\ d # None /\ wk[d].lease <= lease.epoch
    BY DEF IInv, TypeInv, WorkerType, HandoffAssumption, Behind
  <1>1. wk'[d].lease = wk[d].lease
    BY DEF Step, WorkersStep, WorkerStep, Same, Begun, NoWorker
  <1>. QED  BY <1>0, <1>1, EpochMoves DEF IInv, Current

LEMMA NextInv == ASSUME IInv, [Next]_vars, HandoffAssumption PROVE IInv'
  <1>1. TypeInv /\ Step
    BY NextSteps DEF IInv
  <1>2. TypeInv'
    BY <1>1, StepTypes
  <1>3. \A d \in Device : Behind(d)'
    BY <1>1, StepBehind
  <1>. QED  BY <1>2, <1>3 DEF IInv

(* Whatever the devices, faults and switches, the lease a running owner      *)
(* works under is never newer than the row, and no other device holds its    *)
(* epoch.                                                                    *)
THEOREM LeaseInvariant ==
    ASSUME HandoffAssumption PROVE Spec => []IInv
  <1>1. Init => IInv
    BY InitIInv
  <1>2. IInv /\ [Next]_vars => IInv'
    BY NextInv
  <1>. QED  BY <1>1, <1>2, PTL DEF Spec

(* A worker that lost its lease is fenced for good (require_current_lease).  *)
THEOREM StaleStaysStale ==
    ASSUME HandoffAssumption PROVE Spec => FencedForGood
  <1>1. IInv /\ [Next]_vars => [Fenced]_vars
    BY NextSteps, StepFenced DEF IInv
  <1>. QED  BY <1>1, LeaseInvariant, PTL DEF Spec, FencedForGood

(* An automatic claim never displaces a live owner                           *)
(* (claim_main_device_if_stale).                                             *)
THEOREM NoLiveTakeover ==
    ASSUME HandoffAssumption PROVE Spec => LiveOwnerKept
  <1>1. IInv /\ [Next]_vars => [Takeover]_vars
    <2>. SUFFICES ASSUME IInv, [Next]_vars, want' = want,
                         lease'.dev \notin {None, lease.dev}
                  PROVE  lease.dev = None \/ Gone(lease.dev)
      BY DEF Takeover
    <2>1. lease' # lease
      OBVIOUS
    <2>2. ~claim_main_device
      BY DEF claim_main_device
    <2>3. ASSUME NEW d \in Device, auto_claim_main_device(d)
          PROVE  lease.dev = None \/ Gone(lease.dev)
      BY <2>1, <2>3 DEF auto_claim_main_device, MayClaim
    <2>4. ASSUME NEW d \in Device, release_main_device(d) PROVE FALSE
      BY <2>1, <2>4 DEF release_main_device, Tombstone, IInv, TypeInv
    <2>5. ASSUME NEW d \in Device, Worker(d) PROVE FALSE
      BY <2>1, <2>5 DEF Worker, Works, WorkerStarts, WorkerStandsBy, WorkerFails, StandbyReady,
         OwnerReady, OwnerActivates, Heartbeat, WorkerShutsDown, WorkerEnds
    <2>6. ASSUME NEW d \in Device,
                 \/ Sync(d) \/ _authorize_execution_shutdown(d) \/ StoppedAndAsked(d)
                 \/ DecidedAgain(d) \/ Age(d) \/ check_executor_readiness(d)
                 \/ _demote_standby_readiness(d) \/ CloseAsked(d) \/ Crash(d) \/ Restart(d)
          PROVE  FALSE
      BY <2>1, <2>6 DEF Sync, _authorize_execution_shutdown, StoppedAndAsked, DecidedAgain,
         Age, check_executor_readiness, _demote_standby_readiness, CloseAsked, Crash, Restart
    <2>7. ~UNCHANGED vars
      BY <2>1 DEF vars
    <2>. QED  BY <2>2, <2>3, <2>4, <2>5, <2>6, <2>7 DEF Next, Syncs, Closing
  <1>. QED  BY <1>1, LeaseInvariant, PTL DEF Spec, LiveOwnerKept
-----------------------------------------------------------------------------
(***************************************************************************)
(* Operator requests.  Two models, one module: OperatorCommands keeps its  *)
(* own variables, and of the lease only who holds it.                      *)
(***************************************************************************)
CONSTANTS Command, Conflict, MaxSeconds, MaxControls, MaxMoves, MaxTakeovers, MaxFailures,
          MaxWrites
VARIABLES cmd, holder, control, version, applied, at, taken, chances

Op == INSTANCE OperatorCommands WITH lease <- holder, left <- chances

(* Where the executor of a request is, the row of the request and the card    *)
(* belong together.                                                           *)
Working(d) ==
    at[d].pc # "idle" =>
        /\ at[d].key \in Command
        /\ cmd[at[d].key].by = d
        /\ cmd[at[d].key].status = IF at[d].pc = "accepted" THEN "ACCEPTED" ELSE "EXECUTING"
        /\ at[d].pc \in {"executing", "REJECTED"} => applied[at[d].key] = 0
        /\ at[d].pc = "COMPLETED" => applied[at[d].key] = 1

IdleIsIdle == \A d \in Device : at[d].pc = "idle" => at[d] = Op!Idle

(* Without a takeover whoever works on a request holds the lease.              *)
Owned == taken = 0 => \A d \in Device : at[d].pc # "idle" => holder = d

CommandInv ==
    /\ Op!TypeOK /\ Op!AnswerIsTrue /\ IdleIsIdle /\ Owned
    /\ \A d \in Device : Working(d)

USE DEF Op!Idle, Op!Active, Op!InFlight, Op!Answer

(* The initial states satisfy the invariant: nothing is requested.            *)
LEMMA NothingRequested ==
    ASSUME Op!CommandAssumption, Op!Init
    PROVE  CommandInv
<1>1. Op!TypeOK
  BY DEF Op!Init, Op!TypeOK, Op!NoRow
<1>2. Op!AnswerIsTrue
  BY DEF Op!Init, Op!AnswerIsTrue, Op!NoRow
<1>3. IdleIsIdle /\ Owned /\ \A d \in Device : Working(d)
  BY DEF Op!Init, IdleIsIdle, Owned, Working
<1> QED BY <1>1, <1>2, <1>3 DEF CommandInv

(* Two executors never work on the same request: its row names one of them.   *)
LEMMA Alone ==
    ASSUME CommandInv, NEW d \in Device, NEW e \in Device, d # e,
           at[d].pc # "idle", at[e].pc # "idle"
    PROVE  at[d].key # at[e].key
  BY DEF CommandInv, Working

(* A step that leaves the requests, the card and their executors alone keeps  *)
(* the invariant if it keeps the lease with whoever works.                    *)
LEMMA LeaseLeft ==
    ASSUME CommandInv, UNCHANGED <<cmd, applied, at>>, holder' \in Device \cup {None},
           taken' \in Nat, Owned'
    PROVE  CommandInv'
<1>1. Op!TypeOK' BY DEF CommandInv, Op!TypeOK
<1>2. Op!AnswerIsTrue' BY DEF CommandInv, Op!AnswerIsTrue
<1>3. IdleIsIdle' BY DEF CommandInv, IdleIsIdle
<1>4. \A d \in Device : Working(d)' BY DEF CommandInv, Working
<1> QED BY <1>1, <1>2, <1>3, <1>4 DEF CommandInv

(* A new request is not being worked on.                                      *)
LEMMA SubmitStep ==
    ASSUME Op!CommandAssumption, CommandInv, NEW d \in Device, NEW c \in Command,
           Op!submit_operator_command(d, c)
    PROVE  CommandInv'
<1> USE DEF Op!submit_operator_command
<1>1. PICK seen \in 1 .. version, now \in 1 .. MaxSeconds :
         cmd' = [cmd EXCEPT ![c] = [status |-> "PENDING", by |-> None, born |-> now,
                                    expects |-> seen]]
  OBVIOUS
<1>2. seen \in Nat /\ now \in Nat OBVIOUS
<1>3. Op!TypeOK' BY <1>1, <1>2 DEF CommandInv, Op!TypeOK
<1>4. Op!AnswerIsTrue' BY <1>1 DEF CommandInv, Op!AnswerIsTrue, Op!TypeOK, Op!NoRow
<1>5. IdleIsIdle' /\ Owned' BY DEF CommandInv, IdleIsIdle, Owned
<1>6. \A e \in Device : Working(e)'
  <2> SUFFICES ASSUME NEW e \in Device, at[e].pc # "idle" PROVE Working(e)'
    BY DEF Working
  <2>1. at[e].key # c BY DEF CommandInv, Working, Op!NoRow
  <2> QED BY <1>1, <2>1 DEF CommandInv, Working, Op!TypeOK
<1> QED BY <1>3, <1>4, <1>5, <1>6 DEF CommandInv

(* The executor of a step: it works on c from now on, or becomes idle; the    *)
(* others work on other requests, whose rows the step does not touch.         *)
LEMMA ExecutorStep ==
    ASSUME CommandInv, NEW d \in Device, NEW c \in Command,
           \A e \in Device \ {d} : at[e].pc # "idle" => at[e].key # c,
           NEW p, at' = [at EXCEPT ![d] = p],
           p = Op!Idle \/ (p.pc # "idle" /\ p.key = c),
           \A x \in Command \ {c} : cmd'[x] = cmd[x] /\ applied'[x] = applied[x],
           Op!TypeOK', Op!AnswerIsTrue', Owned', Working(d)'
    PROVE  CommandInv'
<1>1. at'[d] = p /\ \A e \in Device \ {d} : at'[e] = at[e]
  BY DEF CommandInv, Op!TypeOK
<1>2. IdleIsIdle'
  BY <1>1 DEF CommandInv, IdleIsIdle
<1>3. ASSUME NEW e \in Device \ {d} PROVE Working(e)'
  BY <1>1, <1>3 DEF CommandInv, Working
<1> QED BY <1>2, <1>3 DEF CommandInv

(* The others do not work on the request of d.                                *)
LEMMA Others ==
    ASSUME CommandInv, NEW d \in Device, at[d].pc # "idle"
    PROVE  \A e \in Device \ {d} : at[e].pc # "idle" => at[e].key # at[d].key
  BY Alone

(* A pending request is not being worked on.                                  *)
LEMMA ClaimStep ==
    ASSUME CommandInv, NEW d \in Device, NEW c \in Command, Op!claim_next_operator_command(d, c)
    PROVE  CommandInv'
<1> DEFINE p == [pc |-> "accepted", key |-> c]
<1> USE DEF Op!claim_next_operator_command, Op!Goes
<1>1. cmd[c].status = "PENDING" BY DEF Op!Pending
<1>2. \A e \in Device \ {d} : at[e].pc # "idle" => at[e].key # c
  BY <1>1 DEF CommandInv, Working
<1>3. Op!TypeOK'
  <2>1. cmd' \in [Command -> [status : {"none"} \cup Op!Active \cup Op!Answer,
                             by : Device \cup {None}, born : Nat, expects : Nat]]
    <3>1. cmd[c] \in [status : {"none"} \cup Op!Active \cup Op!Answer,
                     by : Device \cup {None}, born : Nat, expects : Nat]
      BY DEF CommandInv, Op!TypeOK
    <3>2. [cmd[c] EXCEPT !.status = "ACCEPTED", !.by = d]
            \in [status : {"none"} \cup Op!Active \cup Op!Answer,
                by : Device \cup {None}, born : Nat, expects : Nat]
      BY <3>1 DEF Op!Active, Op!InFlight
    <3>3. cmd' = [cmd EXCEPT ![c] = [cmd[c] EXCEPT !.status = "ACCEPTED", !.by = d]]
      OBVIOUS
    <3> QED BY <3>2, <3>3 DEF CommandInv, Op!TypeOK
  <2>2. at' \in [Device -> [pc : {"idle", "accepted", "executing"} \cup Op!Answer,
                           key : Command \cup {None}]]
    BY DEF CommandInv, Op!TypeOK
  <2> QED BY <2>1, <2>2 DEF CommandInv, Op!TypeOK
<1>4. Op!AnswerIsTrue' BY <1>1 DEF CommandInv, Op!AnswerIsTrue, Op!TypeOK
<1>5. Owned' BY DEF CommandInv, Owned, Op!TypeOK
<1>6. Working(d)' BY DEF CommandInv, Working, Op!TypeOK
<1>7. at' = [at EXCEPT ![d] = p] /\ p.pc # "idle" /\ p.key = c OBVIOUS
<1>8. \A x \in Command \ {c} : cmd'[x] = cmd[x] /\ applied'[x] = applied[x]
  BY DEF CommandInv, Op!TypeOK
<1> QED BY <1>2, <1>3, <1>4, <1>5, <1>6, <1>7, <1>8, ExecutorStep

(* A started request has not been applied.                                    *)
LEMMA StartStep ==
    ASSUME CommandInv, NEW d \in Device, NEW c \in Command, Op!start_operator_command(d, c)
    PROVE  CommandInv'
<1> DEFINE runs == holder = d /\ cmd[c].status = "ACCEPTED" /\ cmd[c].by = d
           p == IF runs THEN [pc |-> "executing", key |-> c] ELSE Op!Idle
<1> USE DEF Op!start_operator_command, Op!Goes
<1>1. at[d].pc # "idle" /\ at[d].key = c OBVIOUS
<1>2. \A e \in Device \ {d} : at[e].pc # "idle" => at[e].key # c
  BY <1>1, Others
<1>3. Op!TypeOK'
  <2>1. CASE runs
    <3>1. at' = [at EXCEPT ![d] = [pc |-> "executing", key |-> c]]
          /\ cmd' = [cmd EXCEPT ![c].status = "EXECUTING"]
      BY <2>1
    <3> QED BY <3>1 DEF CommandInv, Op!TypeOK
  <2>2. CASE ~runs
    <3>1. at' = [at EXCEPT ![d] = Op!Idle] /\ cmd' = cmd /\ UNCHANGED <<holder, applied, taken>>
      BY <2>2
    <3>2. Op!Idle \in [pc : {"idle", "accepted", "executing"} \cup Op!Answer,
    key : Command \cup {None}]
      OBVIOUS
    <3>3. at' \in [Device -> [pc : {"idle", "accepted", "executing"} \cup Op!Answer,
                             key : Command \cup {None}]]
      BY <3>1, <3>2 DEF CommandInv, Op!TypeOK
    <3> HIDE DEF Op!start_operator_command
    <3> QED BY <3>1, <3>3 DEF CommandInv, Op!TypeOK
  <2> QED BY <2>1, <2>2
<1>4. Op!AnswerIsTrue' BY DEF CommandInv, Op!AnswerIsTrue, Op!TypeOK
<1>5. Owned' BY <1>1 DEF CommandInv, Owned, Op!TypeOK
<1>6. Working(d)' BY DEF CommandInv, Working, Op!TypeOK, Op!AnswerIsTrue
<1>7. at' = [at EXCEPT ![d] = p] /\ (p = Op!Idle \/ (p.pc # "idle" /\ p.key = c)) OBVIOUS
<1>8. \A x \in Command \ {c} : cmd'[x] = cmd[x] /\ applied'[x] = applied[x]
  BY DEF CommandInv, Op!TypeOK
<1> HIDE DEF p
<1> QED BY <1>2, <1>3, <1>4, <1>5, <1>6, <1>7, <1>8, ExecutorStep

(* The row of a request that is being applied stays EXECUTING.                *)
LEMMA ApplyStep ==
    ASSUME CommandInv, NEW d \in Device, NEW c \in Command, Op!request_board_action(d, c)
    PROVE  CommandInv'
<1> USE DEF Op!request_board_action, Op!Goes
<1>1. PICK pc \in Op!Answer :
         /\ at' = [at EXCEPT ![d] = [pc |-> pc, key |-> c]]
         /\ \/ pc # "COMPLETED" /\ applied' = applied
            \/ pc # "REJECTED" /\ applied' = [applied EXCEPT ![c] = @ + 1]
  OBVIOUS
<1>2. at[d].pc = "executing" /\ at[d].key = c OBVIOUS
<1>3. cmd[c].status = "EXECUTING" /\ cmd[c].by = d /\ applied[c] = 0
  BY <1>2 DEF CommandInv, Working
<1>4. \A e \in Device \ {d} : at[e].pc # "idle" => at[e].key # c
  BY <1>2, Others
<1>5. Op!TypeOK' BY <1>1 DEF CommandInv, Op!TypeOK
<1>6. Op!AnswerIsTrue' BY <1>1, <1>3 DEF CommandInv, Op!AnswerIsTrue, Op!TypeOK
<1>7. Owned' BY <1>1, <1>2 DEF CommandInv, Owned, Op!TypeOK
<1>8. Working(d)' BY <1>1, <1>3 DEF CommandInv, Working, Op!TypeOK
<1>9. \A x \in Command \ {c} : cmd'[x] = cmd[x] /\ applied'[x] = applied[x]
  BY <1>1 DEF CommandInv, Op!TypeOK
<1> DEFINE p == [pc |-> pc, key |-> c]
<1>10. at' = [at EXCEPT ![d] = p] /\ p.pc # "idle" /\ p.key = c BY <1>1
<1> HIDE DEF p
<1> QED BY <1>4, <1>5, <1>6, <1>7, <1>8, <1>9, <1>10, ExecutorStep

(* The answer written is the one that was found.                              *)
LEMMA FinishStep ==
    ASSUME CommandInv, NEW d \in Device, NEW c \in Command, Op!finish_operator_command(d, c)
    PROVE  CommandInv'
<1> USE DEF Op!finish_operator_command
<1>1. at[d].pc \in Op!Answer /\ at[d].key = c OBVIOUS
<1>2. cmd[c].status = "EXECUTING" /\ cmd[c].by = d
      /\ (at[d].pc = "REJECTED" => applied[c] = 0) /\ (at[d].pc = "COMPLETED" => applied[c] = 1)
  BY <1>1 DEF CommandInv, Working
<1>3. \A e \in Device \ {d} : at[e].pc # "idle" => at[e].key # c
  BY <1>1, Others
<1>4. Op!TypeOK'
  <2>1. cmd' = [cmd EXCEPT ![c].status = at[d].pc] /\ at' = [at EXCEPT ![d] = Op!Idle]
    BY <1>2
  <2> QED BY <1>1, <2>1 DEF CommandInv, Op!TypeOK
<1>5. Op!AnswerIsTrue' BY <1>1, <1>2 DEF CommandInv, Op!AnswerIsTrue, Op!TypeOK
<1>6. Owned' BY DEF CommandInv, Owned, Op!TypeOK
<1>7. Working(d)' BY DEF CommandInv, Working, Op!TypeOK
<1>8. \A x \in Command \ {c} : cmd'[x] = cmd[x] /\ applied'[x] = applied[x]
  BY DEF CommandInv, Op!TypeOK
<1> QED BY <1>3, <1>4, <1>5, <1>6, <1>7, <1>8, ExecutorStep

(* A failed answer is FAILED or none.                                         *)
LEMMA FinishFailsStep ==
    ASSUME CommandInv, NEW d \in Device, NEW c \in Command, Op!FinishFails(d, c)
    PROVE  CommandInv'
<1> DEFINE p == IF at[d].pc = "COMPLETED" THEN [pc |-> "FAILED", key |-> c] ELSE Op!Idle
<1> USE DEF Op!FinishFails, Op!Goes
<1>1. at[d].pc \in Op!Answer /\ at[d].key = c OBVIOUS
<1>2. \A e \in Device \ {d} : at[e].pc # "idle" => at[e].key # c
  BY <1>1, Others
<1>3. Op!TypeOK' BY <1>1 DEF CommandInv, Op!TypeOK
<1>4. Op!AnswerIsTrue' BY DEF CommandInv, Op!AnswerIsTrue
<1>5. Owned' BY <1>1 DEF CommandInv, Owned, Op!TypeOK
<1>6. Working(d)' BY <1>1 DEF CommandInv, Working, Op!TypeOK
<1>7. at' = [at EXCEPT ![d] = p] /\ (p = Op!Idle \/ (p.pc # "idle" /\ p.key = c)) BY <1>1
<1>8. \A x \in Command \ {c} : cmd'[x] = cmd[x] /\ applied'[x] = applied[x]
  OBVIOUS
<1> HIDE DEF p
<1> QED BY <1>2, <1>3, <1>4, <1>5, <1>6, <1>7, <1>8, ExecutorStep

(* A crash leaves the row behind.                                             *)
LEMMA CrashStep ==
    ASSUME CommandInv, NEW d \in Device, Op!Crash(d)
    PROVE  CommandInv'
<1> USE DEF Op!Crash
<1>1. at[d].pc # "idle" BY DEF CommandInv, IdleIsIdle
<1>2. at[d].key \in Command BY <1>1 DEF CommandInv, Working
<1>3. \A e \in Device \ {d} : at[e].pc # "idle" => at[e].key # at[d].key
  BY <1>1, Others
<1>4. Op!TypeOK' BY DEF CommandInv, Op!TypeOK
<1>5. Op!AnswerIsTrue' BY DEF CommandInv, Op!AnswerIsTrue
<1>6. Owned' BY DEF CommandInv, Owned, Op!TypeOK
<1>7. Working(d)' BY DEF CommandInv, Working, Op!TypeOK
<1> QED BY <1>2, <1>3, <1>4, <1>5, <1>6, <1>7, ExecutorStep

(* A switch finds nobody at work, a release nobody but the idle owner, a free *)
(* lease nobody: without a takeover the lease stays with whoever works.        *)
LEMMA MoveStep ==
    ASSUME Op!CommandAssumption, CommandInv, NEW d \in Device,
           \/ Op!switch_execution_owner(d) \/ Op!release_main_device(d)
           \/ Op!claim_main_device_if_unclaimed(d) \/ Op!claim_main_device_if_stale(d)
    PROVE  CommandInv'
<1>1. UNCHANGED <<cmd, applied, at>> /\ holder' \in Device \cup {None}
  BY DEF Op!switch_execution_owner, Op!release_main_device, Op!claim_main_device_if_unclaimed,
         Op!claim_main_device_if_stale, Op!Moves
<1>2. taken' \in Nat
  BY DEF CommandInv, Op!TypeOK, Op!switch_execution_owner, Op!release_main_device,
         Op!claim_main_device_if_unclaimed, Op!claim_main_device_if_stale
<1>3. Owned'
  <2>1. CASE Op!switch_execution_owner(d)
    <3>1. \A e \in Device : at[e].pc = "idle"
      BY <2>1 DEF Op!switch_execution_owner, CommandInv, Working
    <3> QED BY <1>1, <3>1 DEF Owned
  <2>2. CASE Op!release_main_device(d)
    BY <1>1, <2>2 DEF Op!release_main_device, CommandInv, Owned
  <2>3. CASE Op!claim_main_device_if_unclaimed(d)
    BY <1>1, <2>3 DEF Op!claim_main_device_if_unclaimed, CommandInv, Owned, Op!CommandAssumption
  <2>4. CASE Op!claim_main_device_if_stale(d)
    BY <2>4 DEF Op!claim_main_device_if_stale, CommandInv, Op!TypeOK, Owned
  <2> QED BY <2>1, <2>2, <2>3, <2>4
<1> QED BY <1>1, <1>2, <1>3, LeaseLeft

(* Every step keeps the invariant.                                            *)
LEMMA CommandsStep ==
    ASSUME Op!CommandAssumption, CommandInv, [Op!Next]_(Op!vars)
    PROVE  CommandInv'
<1>1. CASE UNCHANGED <<cmd, applied, at, holder, taken>>
  BY <1>1, LeaseLeft DEF CommandInv, Op!TypeOK, Owned
<1>2. CASE Op!OtherWrite
  BY <1>1, <1>2 DEF Op!OtherWrite
<1>3. CASE Op!Claimed
  BY <1>3, MoveStep DEF Op!Claimed
<1>4. CASE \E o \in Device \cup {None} : Op!set_operator_control(o)
  BY <1>1, <1>4 DEF Op!set_operator_control
<1>5. ASSUME NEW d \in Device, Op!_process_operator_commands(d) PROVE CommandInv'
  BY <1>5, ClaimStep, StartStep, ApplyStep, FinishStep DEF Op!_process_operator_commands
<1>6. ASSUME NEW d \in Device, NEW c \in Command,
             Op!submit_operator_command(d, c) \/ Op!FinishFails(d, c)
      PROVE  CommandInv'
  BY <1>6, SubmitStep, FinishFailsStep
<1>7. ASSUME NEW d \in Device,
             \/ Op!switch_execution_owner(d) \/ Op!release_main_device(d)
             \/ Op!claim_main_device_if_stale(d) \/ Op!Crash(d)
      PROVE  CommandInv'
  BY <1>7, MoveStep, CrashStep
<1>8. CASE UNCHANGED Op!vars
  BY <1>1, <1>8 DEF Op!vars
<1> QED BY <1>2, <1>3, <1>4, <1>5, <1>6, <1>7, <1>8 DEF Op!Next

(* What the requester is told is what happened (AnswerIsTrue), whatever       *)
(* crashes, takeovers and failed writes came in between.                      *)
THEOREM AnswersAreTrue ==
    ASSUME Op!CommandAssumption
    PROVE  Op!Spec => []Op!AnswerIsTrue
<1>1. Op!Init => CommandInv BY NothingRequested
<1>2. CommandInv /\ [Op!Next]_(Op!vars) => CommandInv' BY CommandsStep
<1>3. CommandInv => Op!AnswerIsTrue BY DEF CommandInv
<1> QED BY <1>1, <1>2, <1>3, PTL DEF Op!Spec

(* Only request_board_action applies a request, and its executor holds the    *)
(* lease while no takeover has happened.                                      *)
LEMMA AppliesAsOwner ==
    ASSUME Op!CommandAssumption, CommandInv, [Op!Next]_(Op!vars)
    PROVE  [Op!OwnerStep]_(Op!vars)
<1> SUFFICES ASSUME NEW c \in Command, applied'[c] # applied[c], taken = 0
             PROVE  holder = cmd[c].by
  BY DEF Op!OwnerStep
<1>1. PICK d \in Device, x \in Command : Op!request_board_action(d, x)
  BY DEF Op!Next, Op!vars, Op!OtherWrite, Op!Claimed, Op!set_operator_control,
         Op!_process_operator_commands,
         Op!claim_next_operator_command, Op!start_operator_command, Op!finish_operator_command,
         Op!submit_operator_command, Op!FinishFails, Op!switch_execution_owner,
         Op!release_main_device,
         Op!claim_main_device_if_stale, Op!claim_main_device_if_unclaimed, Op!Crash, Op!Moves
<1>2. x = c
  BY <1>1 DEF Op!request_board_action, CommandInv, Op!TypeOK
<1> QED BY <1>1, <1>2 DEF Op!request_board_action, CommandInv, Working, Owned

(* A request is applied by the holder of the lease (OwnerApplies).            *)
THEOREM OwnersApply ==
    ASSUME Op!CommandAssumption
    PROVE  Op!Spec => Op!OwnerApplies
<1>1. Op!Init => CommandInv BY NothingRequested
<1>2. CommandInv /\ [Op!Next]_(Op!vars) => CommandInv' BY CommandsStep
<1>3. CommandInv /\ [Op!Next]_(Op!vars) => [Op!OwnerStep]_(Op!vars) BY AppliesAsOwner
<1> QED BY <1>1, <1>2, <1>3, PTL DEF Op!Spec, Op!OwnerApplies
=============================================================================
