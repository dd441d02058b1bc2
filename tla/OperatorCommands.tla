--------------------------- MODULE OperatorCommands ---------------------------
(***************************************************************************)
(* Human requests between devices: the device with Operator Control writes *)
(* a request to operator_commands, the device with the main-device lease   *)
(* accepts, starts, applies and answers it, each in a transaction of its   *)
(* own, while both roles may move.                                         *)
(*                                                                         *)
(* All requests are for one card, of which only the version matters.  The  *)
(* transactions lock the control or the lease row first and are atomic.    *)
(***************************************************************************)
EXTENDS Naturals

CONSTANTS Device,
          Command,    \* requests by command_id, which is their idempotency key
          Conflict,   \* the requests that exclude a request while active
          None,       \* nobody: a locked control, a released lease
          MaxSeconds, \* bound on the seconds in which requests are made
          MaxControls, MaxMoves, MaxTakeovers, MaxCrashes, MaxFailures, MaxWrites

CommandAssumption == None \notin Device /\ Conflict \in [Command -> SUBSET Command]

VARIABLES cmd,      \* operator_commands; by: executor_device_id, born: created_at
          lease,    \* device of the main_device row
          control,  \* device of the operator_control row
          version,  \* version of the card
          applied,  \* how often each request has changed the card
          at,       \* the request each executor is working on
          taken,    \* how often the lease was taken over from a stale owner
          left      \* what may still happen

vars == <<cmd, lease, control, version, applied, at, taken, left>>

InFlight == {"ACCEPTED", "EXECUTING"}
Active == InFlight \cup {"PENDING"}
Answer == {"COMPLETED", "REJECTED", "FAILED"}
NoRow == [status |-> "none", by |-> None, born |-> 0, expects |-> 0]
Idle == [pc |-> "idle", key |-> None]

Init ==
    /\ cmd = [c \in Command |-> NoRow]
    /\ lease \in Device /\ control \in Device \cup {None}
    /\ version = 1 /\ applied = [c \in Command |-> 0]
    /\ at = [d \in Device |-> Idle] /\ taken = 0
    /\ left = [controls |-> MaxControls, moves |-> MaxMoves, crashes |-> MaxCrashes,
               failures |-> MaxFailures, writes |-> MaxWrites]

Spend(what) == left[what] > 0 /\ left' = [left EXCEPT ![what] = @ - 1]

-----------------------------------------------------------------------------
(* The requesting side.                                                      *)

set_operator_control(o) ==
    /\ control # o /\ Spend("controls")
    /\ control' = o
    /\ UNCHANGED <<cmd, lease, version, applied, at, taken>>

Pending == {c \in Command : cmd[c].status = "PENDING"}
Rows == {c \in Command : cmd[c] # NoRow}

(* A known key returns its row, a conflicting request that is still active   *)
(* refuses this one.  The requester saw the card as it is or as it was, and  *)
(* created_at counts in seconds.                                             *)
submit_operator_command(d, c) ==
    /\ cmd[c] = NoRow /\ control = d
    /\ \A e \in Conflict[c] : cmd[e].status \notin Active
    /\ \E seen \in 1 .. version, now \in 1 .. MaxSeconds :
         /\ \A e \in Rows : cmd[e].born <= now
         /\ cmd' = [cmd EXCEPT ![c] = [status |-> "PENDING", by |-> None, born |-> now,
                                       expects |-> seen]]
    /\ UNCHANGED <<lease, control, version, applied, at, taken, left>>

-----------------------------------------------------------------------------
(* The executing side: _process_operator_commands of the runtime worker.     *)

Goes(d, pc, c) == at' = [at EXCEPT ![d] = [pc |-> pc, key |-> c]]

(* Variant: a request some executor left behind is accepted again.           *)
ClaimAgain(d, c) ==
    /\ at[d] = Idle /\ lease = d
    /\ cmd[c].status \in Active
    /\ cmd' = [cmd EXCEPT ![c].status = "ACCEPTED", ![c].by = d]
    /\ Goes(d, "accepted", c)
    /\ UNCHANGED <<lease, control, version, applied, taken, left>>

(* The oldest pending request; ids decide between those of one second.       *)
claim_next_operator_command(d, c) ==
    /\ at[d] = Idle /\ lease = d
    /\ c \in Pending /\ \A e \in Pending : cmd[c].born <= cmd[e].born
    /\ cmd' = [cmd EXCEPT ![c].status = "ACCEPTED", ![c].by = d]
    /\ Goes(d, "accepted", c)
    /\ UNCHANGED <<lease, control, version, applied, taken, left>>

(* Without the lease this raises before the try: the request stays ACCEPTED. *)
start_operator_command(d, c) ==
    /\ at[d] = [pc |-> "accepted", key |-> c]
    /\ IF lease = d /\ cmd[c].status = "ACCEPTED" /\ cmd[c].by = d
       THEN cmd' = [cmd EXCEPT ![c].status = "EXECUTING"] /\ Goes(d, "executing", c)
       ELSE at' = [at EXCEPT ![d] = Idle] /\ UNCHANGED cmd
    /\ UNCHANGED <<lease, control, version, applied, taken, left>>

(* request_board_action: validation rejects, an exception fails, and the     *)
(* card is written only at the version the requester saw.  An exception      *)
(* after the commit fails what was applied.  The lease is not read again.    *)
request_board_action(d, c) ==
    /\ at[d] = [pc |-> "executing", key |-> c]
    /\ \/ /\ \E pc \in {"REJECTED", "FAILED"} : Goes(d, pc, c)
          /\ UNCHANGED <<version, applied>>
       \/ /\ version = cmd[c].expects
          /\ version' = version + 1 /\ applied' = [applied EXCEPT ![c] = @ + 1]
          /\ \E pc \in {"COMPLETED", "FAILED"} : Goes(d, pc, c)
    /\ UNCHANGED <<cmd, lease, control, taken, left>>

finish_operator_command(d, c) ==
    /\ at[d].pc \in Answer /\ at[d].key = c
    /\ IF cmd[c].status = "EXECUTING" /\ cmd[c].by = d
       THEN cmd' = [cmd EXCEPT ![c].status = at[d].pc]
       ELSE UNCHANGED cmd
    /\ at' = [at EXCEPT ![d] = Idle]
    /\ UNCHANGED <<lease, control, version, applied, taken, left>>

(* The answer is not written: success is turned into failure once, any other *)
(* exception ends the cycle and leaves the request EXECUTING.                *)
FinishFails(d, c) ==
    /\ at[d].pc \in Answer /\ at[d].key = c /\ Spend("failures")
    /\ IF at[d].pc = "COMPLETED" THEN Goes(d, "FAILED", c) ELSE at' = [at EXCEPT ![d] = Idle]
    /\ UNCHANGED <<cmd, lease, control, version, applied, taken>>

(* The heartbeat, a pass or a direct board action writes the card.           *)
OtherWrite ==
    /\ Spend("writes") /\ version' = version + 1
    /\ UNCHANGED <<cmd, lease, control, applied, at, taken>>

-----------------------------------------------------------------------------
(* The lease.                                                                *)

Moves(d) == lease' = d /\ UNCHANGED <<cmd, control, version, applied, at>>

(* Variant: only a request that has not been started holds the switch back.  *)
SwitchWhileExecuting(d) ==
    /\ lease # d /\ Spend("moves")
    /\ \A c \in Command : cmd[c].status # "ACCEPTED"
    /\ Moves(d) /\ UNCHANGED taken

(* Variant: the switch does not look at the requests.                        *)
SwitchUnfenced(d) ==
    /\ lease # d /\ Spend("moves")
    /\ Moves(d) /\ UNCHANGED taken

(* switch_execution_owner: claim_main_device with                            *)
(* require_operator_handoff_clear.                                           *)
switch_execution_owner(d) ==
    /\ lease # d /\ Spend("moves")
    /\ \A c \in Command : cmd[c].status \notin InFlight
    /\ Moves(d) /\ UNCHANGED taken

(* A device that shuts down has stopped its worker first.                    *)
release_main_device(d) ==
    /\ lease = d /\ at[d] = Idle /\ Spend("moves")
    /\ Moves(None) /\ UNCHANGED taken

claim_main_device_if_unclaimed(d) ==
    /\ lease = None
    /\ Moves(d) /\ UNCHANGED <<taken, left>>

(* A takeover from a stale owner does not look at the requests.              *)
claim_main_device_if_stale(d) ==
    /\ lease \notin {None, d} /\ taken < MaxTakeovers
    /\ Moves(d) /\ taken' = taken + 1 /\ UNCHANGED left

Crash(d) ==
    /\ at[d] # Idle /\ Spend("crashes")
    /\ at' = [at EXCEPT ![d] = Idle]
    /\ UNCHANGED <<cmd, lease, control, version, applied, taken>>

-----------------------------------------------------------------------------
_process_operator_commands(d) ==
    \E c \in Command :
        \/ claim_next_operator_command(d, c) \/ start_operator_command(d, c)
        \/ request_board_action(d, c) \/ finish_operator_command(d, c)

Claimed == \E d \in Device : claim_main_device_if_unclaimed(d)

Next ==
    \/ OtherWrite \/ Claimed
    \/ \E o \in Device \cup {None} : set_operator_control(o)
    \/ \E d \in Device :
         \/ _process_operator_commands(d)
         \/ \E c \in Command : submit_operator_command(d, c) \/ FinishFails(d, c)
         \/ switch_execution_owner(d) \/ release_main_device(d)
         \/ claim_main_device_if_stale(d) \/ Crash(d)

Spec == Init /\ [][Next]_vars

(* The worker polls the queue in its heartbeat, and a standby claims a free  *)
(* lease.                                                                    *)
LiveSpec ==
    Spec /\ WF_vars(Claimed) /\ \A d \in Device : WF_vars(_process_operator_commands(d))

-----------------------------------------------------------------------------
TypeOK ==
    /\ cmd \in [Command -> [status : {"none"} \cup Active \cup Answer,
                            by : Device \cup {None}, born : Nat, expects : Nat]]
    /\ lease \in Device \cup {None}
    /\ applied \in [Command -> Nat]
    /\ at \in [Device -> [pc : {"idle", "accepted", "executing"} \cup Answer,
                          key : Command \cup {None}]]
    /\ taken \in Nat

(* What the requester is told is what happened, whichever executor crashed,  *)
(* lost its lease or failed to write its answer: COMPLETED was applied once, *)
(* REJECTED and what is not started never.  FAILED says nothing              *)
(* (process_claimed_board_operator_command: "exactly once").                 *)
AnswerIsTrue ==
    \A c \in Command :
        /\ applied[c] <= 1
        /\ cmd[c].status = "COMPLETED" => applied[c] = 1
        /\ cmd[c].status \in {"none", "PENDING", "ACCEPTED", "REJECTED"} => applied[c] = 0

(* While the lease moves only by switch, release and free claim, a request   *)
(* is applied by the device that holds it, although the last check of the    *)
(* lease is a transaction earlier (start_operator_command).                  *)
OwnerStep ==
    \A c \in Command : (applied'[c] # applied[c] /\ taken = 0) => lease = cmd[c].by

OwnerApplies == [][OwnerStep]_vars

(* Every request gets an answer, on whichever device the lease ends up and   *)
(* whoever has the control by then, if no executor crashes, is taken over or *)
(* fails to write.                                                           *)
EveryRequestAnswered ==
    \A c \in Command : (cmd[c].status = "PENDING") ~> (cmd[c].status \in Answer)
===============================================================================
