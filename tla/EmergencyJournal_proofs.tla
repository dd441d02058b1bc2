----------------------- MODULE EmergencyJournal_proofs -----------------------
(***************************************************************************)
(* A cut-off device never sells beside one that took over by itself, nor   *)
(* for longer than its allowance beside one the operator chose; no key     *)
(* reaches the broker twice, and no row calls a working order dead: for    *)
(* any set of exits and cancellations, any number of outages and crashes,  *)
(* and any limits with Allowance + CallTime < TakeoverAfter.               *)
(***************************************************************************)
EXTENDS EmergencyJournal, TLAPS

(* A successor waited for the takeover limit, and a call under way is        *)
(* younger than the allowance and the length of a call: the two never meet.  *)
(* After any change of owner the lease is not verified again.                *)
Waited == owner = "successor" => age >= TakeoverAfter
Unrenewed == since <= age /\ (owner = "self" => since = 0)
Young == proc.at = "requested" => age <= Allowance + CallTime

IInv ==
    /\ age \in Nat /\ since \in Nat /\ owner \in {"self", "successor", "switched"}
    /\ Waited /\ Unrenewed /\ Young

LEMMA InvInit == ASSUME AllowanceAssumption, Init PROVE IInv
  BY DEF AllowanceAssumption, Init, IInv, Waited, Unrenewed, Young, Idle

(* Steps that leave the clock and the owner alone and start no call.         *)
LEMMA Calm ==
    ASSUME IInv, age' = age, owner' = owner, since' = since,
           proc'.at = "requested" => proc.at = "requested"
    PROVE  IInv'
  BY DEF IInv, Waited, Unrenewed, Young

LEMMA IdleStarts == Idle.at = "idle" /\ [Idle EXCEPT !.at = "dead"].at = "dead"
  BY DEF Idle

(* Marking goes on with the entries that are left, or ends.                  *)
LEMMA Marks ==
    ASSUME append_reconciled
    PROVE  /\ proc'.at \in {"idle", "marking"}
           /\ \E t \in SUBSET proc.todo :
                 proc' = Idle \/ proc' = [Idle EXCEPT !.at = "marking", !.todo = t]
  <1>1. PICK k \in Key :
          proc' = Idle \/ proc' = [Idle EXCEPT !.at = "marking", !.todo = proc.todo \ {k}]
    BY DEF append_reconciled
  <1>2. \A t : [Idle EXCEPT !.at = "marking", !.todo = t].at = "marking"
    BY DEF Idle
  <1>3. proc.todo \ {k} \in SUBSET proc.todo
    OBVIOUS
  <1>. QED  BY <1>1, <1>2, <1>3, IdleStarts

LEMMA InvStep == ASSUME AllowanceAssumption, IInv, [Next]_vars PROVE IInv'
  <1>. USE DEF lease, file, broker, database
  <1>1. CASE LoseDatabase \/ DatabaseBack
    BY <1>1, Calm DEF LoseDatabase, DatabaseBack
  <1>2. CASE Tick
    BY <1>2 DEF Tick, IInv, Waited, Unrenewed, Young, AllowanceAssumption
  <1>3. CASE claim_main_device_if_stale \/ switch_execution_owner
    BY <1>3 DEF claim_main_device_if_stale, switch_execution_owner, IInv, Waited, Unrenewed, Young
  <1>4. CASE record_verified
    BY <1>4 DEF record_verified, IInv, Waited, Unrenewed, Young, AllowanceAssumption
  <1>5. CASE ProbeFails
    BY <1>5, Calm, IdleStarts DEF ProbeFails
  <1>6. CASE ProbeSucceeds
    <2>1. [Idle EXCEPT !.at = "folding", !.todo = Pending].at = "folding"
      BY DEF Idle
    <2>. QED  BY <1>6, <2>1, Calm DEF ProbeSucceeds
  <1>7. CASE reconcile_into_canonical
    <2>1. [Idle EXCEPT !.at = "marking", !.todo = Pending].at = "marking"
      BY DEF Idle
    <2>2. proc'.at = "requested" => proc.at = "requested"
      BY <1>7, <2>1 DEF reconcile_into_canonical
    <2>. QED  BY <1>7, <2>2, Calm DEF reconcile_into_canonical
  <1>8. CASE append_reconciled
    <2>1. proc'.at = "requested" => proc.at = "requested"
      BY <1>8, Marks
    <2>. QED  BY <1>8, <2>1, Calm DEF append_reconciled
  <1>9. CASE CallBroker
    BY <1>9, Calm DEF CallBroker
  <1>10. CASE append_outcome \/ OutcomeLost \/ Crash \/ _lease_still_current \/ Restart
    BY <1>10, Calm, IdleStarts
       DEF append_outcome, OutcomeLost, Crash, _lease_still_current, Ends, Restart
  <1>11. CASE \E o \in Order : Over(o) \/ ExitSettled(o) \/ SubmitThroughDatabase(o)
    BY <1>11, Calm DEF Over, ExitSettled, SubmitThroughDatabase
  <1>12. CASE \E k \in Key : append_requested(k)
    BY <1>12 DEF append_requested, require_valid, IInv, Waited, Unrenewed, Young, AllowanceAssumption
  <1>13. CASE UNCHANGED vars
    BY <1>13, Calm DEF vars
  <1>. QED  BY <1>1, <1>2, <1>3, <1>4, <1>5, <1>6, <1>7, <1>8, <1>9, <1>10, <1>11, <1>12, <1>13
            DEF Next, Fold

(* While a protective call of a cut-off device is under way no device has    *)
(* taken over by itself (require_valid against claim_main_device_if_stale),  *)
(* and one the operator chose has owned the lease for no longer than the     *)
(* allowance and a call last (switch_execution_owner).                       *)
THEOREM OverlapIsBounded ==
    ASSUME AllowanceAssumption PROVE Spec => []NeverBesideNewOwner
  <1>1. Init => IInv
    BY InvInit
  <1>2. IInv /\ [Next]_vars => IInv'
    BY InvStep
  <1>3. IInv => NeverBesideNewOwner
    BY DEF IInv, Waited, Unrenewed, Young, NeverBesideNewOwner, AllowanceAssumption
  <1>. QED  BY <1>1, <1>2, <1>3, PTL DEF Spec

-----------------------------------------------------------------------------
(* Keys and calls.                                                           *)

Status == {"none", "ACKNOWLEDGED", "FAILED", "AMBIGUOUS"}

Proc == [at : {"idle", "folding", "marking", "requested", "answered", "dead"},
         key : Key \cup {None}, answer : Status, todo : SUBSET Key]

TypeOK ==
    /\ writable \in BOOLEAN /\ tried \subseteq Key
    /\ grant \in {"none", "verified", "outage"}
    /\ proc \in Proc /\ log \in Seq(Key) /\ out \in [Key -> Status] /\ rec \subseteq Key
    /\ sent \in [Key -> Nat] /\ live \in [Order -> {"none", "working", "over"}]
    /\ cmd \in [Key -> Status \cup {"REQUESTED"}]
    /\ row \in [Order -> {"none", "ACKNOWLEDGED", "REJECTED", "CANCELLED",
                          "DISCOVERING", "UNKNOWN_SUBMISSION_STATE"}]

(* A key the broker was called for is in the journal or has a command.       *)
CallsOnRecord == \A k \in Key : sent[k] # 0 => Written(k) \/ cmd[k] # "none"

(* A process that holds a grant knows every key that has a command: it read  *)
(* them when the lease was verified, or has sent or folded them since.       *)
GrantKnows ==
    grant # "none" => \A k \in Key : cmd[k] # "none" => k \in tried \/ Written(k)

(* Where the fold of the journal has got to.                                 *)
Folded(k) == Written(k) => cmd[k] # "none"
FoldUnderWay ==
    /\ proc.at = "folding" => \A k \in Key \ proc.todo : Folded(k)
    /\ proc.at = "marking" \/ (proc.at = "idle" /\ writable) => \A k \in Key : Folded(k)
    /\ \A k \in rec : cmd[k] # "none"

(* The call that is under way is the first one for its key.                  *)
FirstCall ==
    /\ proc.at \in {"requested", "answered", "dead"} => ~writable
    /\ proc.at \in {"requested", "answered"} => proc.key \in Key /\ Written(proc.key)
    /\ proc.at = "requested" => sent[proc.key] = 0 /\ cmd[proc.key] = "none"
    /\ proc.at = "answered" => sent[proc.key] # 0

KeyInv == TypeOK /\ CallsOnRecord /\ GrantKnows /\ FoldUnderWay /\ FirstCall /\ SentAtMostOnce

LEMMA Appended ==
    ASSUME NEW k \in Key, NEW s \in Seq(Key)
    PROVE  /\ Append(s, k) \in Seq(Key)
           /\ \A j : Contains(Append(s, k), j) <=> Contains(s, j) \/ j = k
  BY DEF Contains

LEMMA IdleWith ==
    ASSUME NEW at \in {"idle", "folding", "marking", "dead"}, NEW todo \in SUBSET Key
    PROVE  /\ Idle \in Proc /\ [Idle EXCEPT !.at = at] \in Proc
           /\ [Idle EXCEPT !.at = at, !.todo = todo] \in Proc
  BY DEF Idle, Proc, Status

LEMMA ProcWith ==
    ASSUME NEW p \in Proc, NEW todo \in SUBSET Key, NEW answer \in Status
    PROVE  /\ [p EXCEPT !.todo = todo] \in Proc
           /\ [p EXCEPT !.at = "answered", !.answer = answer] \in Proc
  BY DEF Proc

LEMMA Updated ==
    ASSUME NEW S, NEW T, NEW f \in [S -> T], NEW x, NEW v, x \in S => v \in T
    PROVE  [f EXCEPT ![x] = v] \in [S -> T]
  OBVIOUS

(* Every step keeps the types.                                               *)
LEMMA TypeStep == ASSUME TypeOK, TargetAssumption, [Next]_vars PROVE TypeOK'
  <1>. USE DEF TypeOK, lease, file, broker, database
  <1>1. CASE LoseDatabase \/ DatabaseBack \/ Tick
             \/ claim_main_device_if_stale \/ switch_execution_owner
    BY <1>1 DEF LoseDatabase, DatabaseBack, Tick, claim_main_device_if_stale, switch_execution_owner
  <1>4. CASE record_verified
    BY <1>4 DEF record_verified
  <1>5. CASE ProbeFails
    BY <1>5, IdleWith DEF ProbeFails, begin_outage
  <1>6. CASE ProbeSucceeds
    <2>1. Pending \in SUBSET Key
      BY DEF Pending
    <2>. QED  BY <1>6, <2>1, IdleWith DEF ProbeSucceeds
  <1>7. CASE reconcile_into_canonical
    <2>1. PICK k \in Key :
             /\ NextEntry(k)
             /\ FoldSubmit(k) \/ FoldCancel(k)
             /\ proc' = IF proc.todo = {k} THEN [Idle EXCEPT !.at = "marking", !.todo = Pending]
                        ELSE [proc EXCEPT !.todo = @ \ {k}]
      BY <1>7 DEF reconcile_into_canonical
    <2>2. proc' \in Proc
      <3>1. Pending \in SUBSET Key /\ proc.todo \ {k} \in SUBSET Key
        BY DEF Pending, Proc
      <3>. QED  BY <2>1, <3>1, IdleWith, ProcWith
    <2>3. cmd' \in [Key -> Status \cup {"REQUESTED"}]
      BY <2>1 DEF FoldSubmit, FoldCancel, FoldedCommand, Status
    <2>4. row' \in [Order -> {"none", "ACKNOWLEDGED", "REJECTED", "CANCELLED",
                              "DISCOVERING", "UNKNOWN_SUBMISSION_STATE"}]
      BY <2>1, TargetAssumption DEF FoldSubmit, FoldCancel, FoldedRow, TargetAssumption
    <2>. QED  BY <1>7, <2>2, <2>3, <2>4 DEF reconcile_into_canonical
  <1>8. CASE append_reconciled
    <2>1. proc.todo \in SUBSET Key
      BY DEF Proc
    <2>2. PICK t \in SUBSET proc.todo :
            proc' = Idle \/ proc' = [Idle EXCEPT !.at = "marking", !.todo = t]
      BY <1>8, Marks
    <2>3. proc' \in Proc
      <3>1. t \in SUBSET Key
        BY <2>1
      <3>. QED  BY <2>2, <3>1, IdleWith
    <2>. QED  BY <1>8, <2>3 DEF append_reconciled
  <1>9. CASE CallBroker
    <2>1. PICK answer \in {"ACKNOWLEDGED", "FAILED", "AMBIGUOUS"}, took \in BOOLEAN :
             /\ proc' = [proc EXCEPT !.at = "answered", !.answer = answer]
             /\ live' = CASE ~took -> live
                          [] took /\ proc.key \in Order -> [live EXCEPT ![proc.key] = "working"]
                          [] OTHER -> [live EXCEPT ![Target[proc.key]] = "over"]
      BY <1>9 DEF CallBroker
    <2>2. live' \in [Order -> {"none", "working", "over"}]
      BY <2>1
    <2>3. proc' \in Proc
      BY <2>1, ProcWith DEF Status
    <2>4. sent' \in [Key -> Nat]
      <3>1. sent' = [sent EXCEPT ![proc.key] = @ + 1]
        BY <1>9 DEF CallBroker
      <3>2. proc.key \in Key => sent[proc.key] + 1 \in Nat
        OBVIOUS
      <3>. QED  BY <3>1, <3>2, Updated
    <2>. QED  BY <1>9, <2>2, <2>3, <2>4 DEF CallBroker
  <1>10. CASE append_outcome \/ OutcomeLost \/ Crash \/ _lease_still_current \/ Restart
    <2>1. [Idle EXCEPT !.at = "dead"] \in Proc /\ Idle \in Proc
      BY IdleWith
    <2>2. proc.answer \in Status
      BY DEF Proc
    <2>. QED  BY <1>10, <2>1, <2>2
                 DEF append_outcome, OutcomeLost, Crash, _lease_still_current, Ends, Restart
  <1>11. CASE \E o \in Order : Over(o) \/ ExitSettled(o) \/ SubmitThroughDatabase(o)
    <2>1. CASE \E o \in Order : Over(o) \/ ExitSettled(o)
      BY <2>1 DEF Over, ExitSettled
    <2>2. ASSUME NEW o \in Order, SubmitThroughDatabase(o) PROVE TypeOK'
      <3>1. o \in Key /\ sent[o] + 1 \in Nat
        BY DEF Key
      <3>2. sent' \in [Key -> Nat] /\ live' \in [Order -> {"none", "working", "over"}]
        BY <2>2, <3>1 DEF SubmitThroughDatabase
      <3>3. cmd' \in [Key -> Status \cup {"REQUESTED"}]
        BY <2>2, <3>1 DEF SubmitThroughDatabase, Status
      <3>4. row' \in [Order -> {"none", "ACKNOWLEDGED", "REJECTED", "CANCELLED",
                                "DISCOVERING", "UNKNOWN_SUBMISSION_STATE"}]
        BY <2>2 DEF SubmitThroughDatabase
      <3>. QED  BY <2>2, <3>1, <3>2, <3>3, <3>4 DEF SubmitThroughDatabase
    <2>. QED  BY <1>11, <2>1, <2>2
  <1>12. CASE \E k \in Key : append_requested(k)
    <2>1. \A k \in Key : [Idle EXCEPT !.at = "requested", !.key = k] \in Proc
      BY DEF Idle, Proc, Status
    <2>2. PICK k \in Key : append_requested(k)
      BY <1>12
    <2>3. proc' \in Proc
      BY <2>1, <2>2 DEF append_requested
    <2>4. log' \in Seq(Key)
      BY <2>2, Appended DEF append_requested
    <2>. QED  BY <2>2, <2>3, <2>4 DEF append_requested
  <1>13. CASE UNCHANGED vars
    BY <1>13 DEF vars
  <1>. QED  BY <1>1, <1>4, <1>5, <1>6, <1>7, <1>8, <1>9, <1>10, <1>11, <1>12, <1>13
            DEF Next, Fold

LEMMA NextIsWritten ==
    ASSUME log \in Seq(Key), NEW k \in Key, NextEntry(k)
    PROVE  Written(k) /\ k \in proc.todo
  <1>1. PICK i \in DOMAIN log : log[i] = k
    BY DEF NextEntry
  <1>2. i \in 1 .. Len(log)
    OBVIOUS
  <1>. QED  BY <1>1, <1>2 DEF NextEntry, Written, Contains

LEMMA KeyStep == ASSUME KeyInv, TargetAssumption, [Next]_vars PROVE KeyInv'
  <1>1. TypeOK' /\ TypeOK
    BY TypeStep DEF KeyInv
  <1>. USE DEF KeyInv, CallsOnRecord, GrantKnows, FoldUnderWay, FirstCall, SentAtMostOnce, Folded
  <1>. USE DEF lease, file, broker, database
  <1>2. SUFFICES /\ CallsOnRecord' /\ GrantKnows' /\ FoldUnderWay' /\ FirstCall'
                 /\ SentAtMostOnce'
    BY <1>1
  <1>3. CASE UNCHANGED <<writable, log, rec, sent, cmd, proc>> /\ tried \subseteq tried'
             /\ (grant' = "none" \/ grant' = grant)
    BY <1>3 DEF Written
  <1>4. CASE LoseDatabase \/ DatabaseBack \/ Tick
             \/ claim_main_device_if_stale \/ switch_execution_owner
    BY <1>3, <1>4
       DEF LoseDatabase, DatabaseBack, Tick, claim_main_device_if_stale, switch_execution_owner
  <1>5. CASE record_verified
    BY <1>5 DEF record_verified, Written
  <1>6. CASE ProbeFails
    <2>1. Idle.at = "idle"
      BY DEF Idle
    <2>. QED  BY <1>6, <2>1 DEF ProbeFails, begin_outage, Written
  <1>7. CASE ProbeSucceeds
    <2>1. /\ [Idle EXCEPT !.at = "folding", !.todo = Pending].at = "folding"
          /\ [Idle EXCEPT !.at = "folding", !.todo = Pending].todo = Pending
          /\ Idle.at = "idle"
      BY DEF Idle
    <2>. QED  BY <1>7, <2>1 DEF ProbeSucceeds, Written, Pending
  <1>8. CASE reconcile_into_canonical
    <2>1. PICK k \in Key :
             /\ NextEntry(k)
             /\ FoldSubmit(k) \/ FoldCancel(k)
             /\ proc' = IF proc.todo = {k} THEN [Idle EXCEPT !.at = "marking", !.todo = Pending]
                        ELSE [proc EXCEPT !.todo = @ \ {k}]
      BY <1>8 DEF reconcile_into_canonical
    <2>2. /\ [Idle EXCEPT !.at = "marking", !.todo = Pending].at = "marking"
          /\ proc \in Proc
          /\ [proc EXCEPT !.todo = @ \ {k}].at = proc.at
          /\ [proc EXCEPT !.todo = @ \ {k}].todo = proc.todo \ {k}
      BY <1>1 DEF Idle, TypeOK, Proc
    <2>3. cmd'[k] # "none" /\ \A j \in Key \ {k} : cmd'[j] = cmd[j]
      BY <1>1, <2>1 DEF TypeOK, FoldSubmit, FoldCancel, FoldedCommand
    <2>4. Written(k)
      BY <1>1, <2>1, NextIsWritten DEF TypeOK
    <2>5. /\ proc.at = "folding" /\ proc'.at \in {"folding", "marking"}
          /\ proc'.at = "folding" => proc'.todo = proc.todo \ {k}
          /\ proc'.at = "marking" => proc.todo = {k}
          /\ UNCHANGED <<log, rec, sent, tried, grant, writable>>
      BY <1>8, <2>1, <2>2 DEF reconcile_into_canonical
    <2>6. \A j \in Key : Written(j)' <=> Written(j)
      BY <2>5 DEF Written
    <2>7. rec \subseteq Key
      BY <1>1 DEF TypeOK
    <2>8. CallsOnRecord' /\ GrantKnows' /\ FirstCall' /\ SentAtMostOnce'
      BY <2>3, <2>4, <2>5, <2>6
    <2>9. FoldUnderWay'
      BY <2>3, <2>5, <2>6, <2>7
    <2>. QED  BY <2>8, <2>9
  <1>9. CASE append_reconciled
    <2>1. PICK k \in Key :
             /\ NextEntry(k) /\ rec' = rec \cup {k}
             /\ \/ proc' = Idle /\ grant' = "none"
                \/ /\ proc' = [Idle EXCEPT !.at = "marking", !.todo = proc.todo \ {k}]
                   /\ UNCHANGED grant
      BY <1>9 DEF append_reconciled
    <2>2. proc'.at \in {"idle", "marking"}
      BY <1>9, Marks
    <2>3. Written(k)
      BY <1>1, <2>1, NextIsWritten DEF TypeOK
    <2>. QED  BY <1>9, <2>1, <2>2, <2>3 DEF append_reconciled, Written
  <1>10. CASE CallBroker
    <2>1. PICK answer \in {"ACKNOWLEDGED", "FAILED", "AMBIGUOUS"} :
             proc' = [proc EXCEPT !.at = "answered", !.answer = answer]
      BY <1>10 DEF CallBroker
    <2>2. proc'.at = "answered" /\ proc'.key = proc.key /\ proc.at = "requested"
      BY <1>1, <1>10, <2>1 DEF CallBroker, TypeOK, Proc
    <2>3. sent' = [sent EXCEPT ![proc.key] = 1]
      <3>1. sent[proc.key] = 0
        BY <2>2
      <3>2. sent' = [sent EXCEPT ![proc.key] = sent[proc.key] + 1]
        BY <1>10 DEF CallBroker
      <3>. QED  BY <3>1, <3>2
    <2>. QED  BY <1>1, <1>10, <2>2, <2>3 DEF CallBroker, Written, TypeOK
  <1>11. CASE append_outcome \/ OutcomeLost \/ Crash \/ _lease_still_current \/ Restart
    <2>1. Idle.at = "idle" /\ [Idle EXCEPT !.at = "dead"].at = "dead"
      BY DEF Idle
    <2>2. /\ proc' = Idle \/ proc' = [Idle EXCEPT !.at = "dead"]
          /\ ~writable' /\ (grant' = "none" \/ (grant' = grant /\ tried' = tried))
          /\ UNCHANGED <<log, rec, sent, cmd>>
      BY <1>11
         DEF append_outcome, OutcomeLost, Crash, _lease_still_current, Ends, Restart, Alive
    <2>. QED  BY <2>1, <2>2 DEF Written
  <1>12. CASE \E o \in Order : Over(o) \/ ExitSettled(o) \/ SubmitThroughDatabase(o)
    <2>1. CASE \E o \in Order : Over(o) \/ ExitSettled(o)
      BY <1>3, <2>1 DEF Over, ExitSettled
    <2>2. ASSUME NEW o \in Order, SubmitThroughDatabase(o) PROVE <1>2!1
      <3>1. proc.at = "idle" /\ writable /\ cmd[o] = "none" /\ o \in Key
        BY <2>2 DEF SubmitThroughDatabase, Idle, Key
      <3>2. ~Written(o) /\ sent[o] = 0
        BY <1>1, <3>1 DEF TypeOK
      <3>3. sent' = [sent EXCEPT ![o] = 1] /\ cmd' = [cmd EXCEPT ![o] = "ACKNOWLEDGED"]
        BY <2>2, <3>2 DEF SubmitThroughDatabase
      <3>. QED  BY <1>1, <2>2, <3>1, <3>2, <3>3 DEF SubmitThroughDatabase, TypeOK, Written
    <2>. QED  BY <1>12, <2>1, <2>2
  <1>13. CASE \E k \in Key : append_requested(k)
    <2>1. PICK k \in Key : append_requested(k)
      BY <1>13
    <2>2. proc'.at = "requested" /\ proc'.key = k
      BY <2>1 DEF append_requested, Idle
    <2>3. \A j \in Key : Written(j)' <=> Written(j) \/ j = k
      BY <1>1, <2>1, Appended DEF append_requested, Written, TypeOK
    <2>4. sent[k] = 0 /\ cmd[k] = "none"
      BY <1>1, <2>1 DEF append_requested, require_valid, TypeOK
    <2>. QED  BY <1>1, <2>1, <2>2, <2>3, <2>4 DEF append_requested, TypeOK
  <1>14. CASE UNCHANGED vars
    BY <1>3, <1>14 DEF vars
  <1>. QED  BY <1>4, <1>5, <1>6, <1>7, <1>8, <1>9, <1>10, <1>11, <1>12, <1>13, <1>14
            DEF Next, Fold

LEMMA KeyInit == ASSUME Init PROVE KeyInv
  <1>1. TypeOK
    <2>1. Idle \in Proc
      BY DEF Idle, Proc, Status
    <2>2. log \in Seq(Key)
      BY DEF Init
    <2>. QED  BY <2>1, <2>2 DEF Init, TypeOK, Status
  <1>. QED  BY <1>1 DEF Init, KeyInv, CallsOnRecord, GrantKnows, FoldUnderWay, FirstCall,
                        SentAtMostOnce, Folded, Idle, Written, Contains

(* One client_order_id or cancel_command_id reaches the broker once, whether *)
(* it went through the journal or the database, over any number of outages   *)
(* and crashes (_do_emergency_submit, reconcile_into_canonical).             *)
THEOREM EachKeyOnce == ASSUME TargetAssumption PROVE Spec => []SentAtMostOnce
  <1>1. Init => KeyInv
    BY KeyInit
  <1>2. KeyInv /\ [Next]_vars => KeyInv'
    BY KeyStep
  <1>3. KeyInv => SentAtMostOnce
    BY DEF KeyInv
  <1>. QED  BY <1>1, <1>2, <1>3, PTL DEF Spec

-----------------------------------------------------------------------------
(* Answers and rows.                                                         *)

(* What an answer says of the order it is about.                             *)
Says(k, answer) ==
    /\ k \in Order /\ answer = "FAILED" => live[k] # "working"
    /\ k \in Cancel /\ answer = "ACKNOWLEDGED" => live[Target[k]] = "over"
AnswersTrue ==
    /\ \A k \in Key : Says(k, out[k])
    /\ \A k \in Key : out[k] # "none" => Written(k) /\ sent[k] # 0
    /\ proc.at = "answered" => Says(proc.key, proc.answer)
NotYetLive == \A o \in Order : sent[o] = 0 => live[o] = "none"
RowHasCommand == \A o \in Order : row[o] # "none" => cmd[o] # "none"

RowInv == KeyInv /\ AnswersTrue /\ NotYetLive /\ RowHasCommand /\ DeadRowIsDead

(* Steps that send nothing, write no answer and leave the rows alone.        *)
LEMMA RowsQuiet ==
    ASSUME AnswersTrue, NotYetLive, RowHasCommand, DeadRowIsDead, TargetAssumption,
           UNCHANGED <<out, sent, cmd, row, live, log>>,
           proc'.at = "answered" => UNCHANGED proc
    PROVE  AnswersTrue' /\ NotYetLive' /\ RowHasCommand' /\ DeadRowIsDead'
  BY DEF AnswersTrue, NotYetLive, RowHasCommand, DeadRowIsDead, Says, Written

(* A fold kills a row only on a written refusal or an acknowledged cancel.   *)
LEMMA FoldRows ==
    ASSUME RowInv, TargetAssumption, reconcile_into_canonical
    PROVE  AnswersTrue' /\ NotYetLive' /\ RowHasCommand' /\ DeadRowIsDead'
  <1>. USE DEF RowInv, AnswersTrue, NotYetLive, RowHasCommand, DeadRowIsDead
  <1>1. TypeOK
    BY DEF KeyInv
  <1>2. PICK k \in Key :
           /\ NextEntry(k)
           /\ FoldSubmit(k) \/ FoldCancel(k)
           /\ proc' = IF proc.todo = {k} THEN [Idle EXCEPT !.at = "marking", !.todo = Pending]
                      ELSE [proc EXCEPT !.todo = @ \ {k}]
    BY DEF reconcile_into_canonical
  <1>3. proc'.at # "answered"
    BY <1>1, <1>2 DEF reconcile_into_canonical, TypeOK, Proc, Idle
  <1>4. UNCHANGED <<out, sent, live, log>>
    BY DEF reconcile_into_canonical, file, broker
  <1>5. \A j \in Key : cmd[j] # "none" => cmd'[j] # "none"
    BY <1>1, <1>2 DEF FoldSubmit, FoldCancel, FoldedCommand, TypeOK
  <1>6. CASE FoldSubmit(k)
    <2>1. k \in Order /\ cmd'[k] # "none"
      BY <1>1, <1>6 DEF FoldSubmit, FoldedCommand, TypeOK
    <2>2. /\ \A o \in Order \ {k} : row'[o] = row[o]
          /\ row'[k] = IF row[k] = "none" THEN FoldedRow(k) ELSE row[k]
      BY <1>1, <1>6 DEF FoldSubmit, TypeOK
    <2>3. FoldedRow(k) \in {"REJECTED", "CANCELLED"} => live[k] # "working"
      BY <1>1, <2>1 DEF FoldedRow, Outcome, Says, TypeOK, Status
    <2>4. RowHasCommand'
      BY <1>5, <2>1, <2>2 DEF Key
    <2>5. DeadRowIsDead'
      BY <1>4, <2>2, <2>3
    <2>. QED  BY <1>3, <1>4, <2>4, <2>5 DEF Says, Written
  <1>7. CASE FoldCancel(k)
    <2>1. k \in Cancel /\ Target[k] \in Order
      BY <1>7, TargetAssumption DEF FoldCancel, TargetAssumption
    <2>2. \A o \in Order \ {Target[k]} : row'[o] = row[o]
      BY <1>1, <1>7 DEF FoldCancel, TypeOK
    <2>3. \/ row'[Target[k]] = row[Target[k]]
          \/ row[Target[k]] # "none" /\ row'[Target[k]] = "DISCOVERING"
          \/ row[Target[k]] # "none" /\ row'[Target[k]] = "CANCELLED" /\ out[k] = "ACKNOWLEDGED"
      BY <1>1, <1>7, <2>1 DEF FoldCancel, TypeOK
    <2>4. out[k] = "ACKNOWLEDGED" => live[Target[k]] = "over"
      BY <2>1 DEF Says
    <2>5. RowHasCommand'
      BY <1>5, <2>1, <2>2, <2>3 DEF Key
    <2>6. DeadRowIsDead'
      BY <1>4, <2>1, <2>2, <2>3, <2>4
    <2>. QED  BY <1>3, <1>4, <2>5, <2>6 DEF Says, Written
  <1>. QED  BY <1>2, <1>6, <1>7

(* The call is the first for its key, so no row or answer tells of it yet.   *)
LEMMA CallRows ==
    ASSUME RowInv, TargetAssumption, CallBroker
    PROVE  AnswersTrue' /\ NotYetLive' /\ RowHasCommand' /\ DeadRowIsDead'
  <1>. USE DEF RowInv
  <1> DEFINE key == proc.key
  <1>1. TypeOK /\ proc.at = "requested" /\ key \in Key /\ Written(key) /\ sent[key] = 0
        /\ cmd[key] = "none" /\ UNCHANGED <<out, cmd, row, log>>
    BY DEF KeyInv, FirstCall, CallBroker, file, database
  <1>2. PICK answer \in {"ACKNOWLEDGED", "FAILED", "AMBIGUOUS"}, took \in BOOLEAN :
           /\ answer # "AMBIGUOUS" => took = (answer = "ACKNOWLEDGED")
           /\ took /\ key \in Cancel => live[Target[key]] = "working"
           /\ proc' = [proc EXCEPT !.at = "answered", !.answer = answer]
           /\ live' = CASE ~took -> live
                        [] took /\ key \in Order -> [live EXCEPT ![key] = "working"]
                        [] OTHER -> [live EXCEPT ![Target[key]] = "over"]
    BY DEF CallBroker
  <1>3. proc'.at = "answered" /\ proc'.key = key /\ proc'.answer = answer
    BY <1>1, <1>2 DEF TypeOK, Proc
  <1>4. sent' = [sent EXCEPT ![key] = 1]
    <2>1. sent' = [sent EXCEPT ![key] = sent[key] + 1]
      BY DEF CallBroker
    <2>. QED  BY <1>1, <2>1
  <1>5. key \in Order => live[key] = "none" /\ key \notin Cancel
    BY <1>1, TargetAssumption DEF NotYetLive, TargetAssumption
  <1>6. \A c \in Cancel : Target[c] \in Order
    BY TargetAssumption DEF TargetAssumption
  <1>7. \/ live' = live /\ answer # "ACKNOWLEDGED"
        \/ key \in Order /\ live' = [live EXCEPT ![key] = "working"] /\ answer # "FAILED"
        \/ key \in Cancel /\ answer # "FAILED" /\ live[Target[key]] = "working"
           /\ live' = [live EXCEPT ![Target[key]] = "over"]
    BY <1>1, <1>2 DEF Key
  <1>8. \A o \in Order : live[o] = "over" => live'[o] = "over"
    BY <1>1, <1>5, <1>6, <1>7 DEF TypeOK
  <1>9. \A o \in Order \ {key} : live'[o] = "working" => live[o] = "working"
    BY <1>1, <1>6, <1>7 DEF TypeOK
  <1>10. AnswersTrue'
    <2>1. /\ key \in Order /\ answer = "FAILED" => live'[key] # "working"
          /\ key \in Cancel /\ answer = "ACKNOWLEDGED" => live'[Target[key]] = "over"
      BY <1>1, <1>5, <1>6, <1>7 DEF TypeOK
    <2>2. out[key] = "none"
      BY <1>1 DEF AnswersTrue, TypeOK
    <2>3. ASSUME NEW k \in Key PROVE Says(k, out[k])'
      BY <1>1, <1>6, <1>8, <1>9, <2>2, <2>3 DEF Says, AnswersTrue
    <2>4. \A k \in Key : out[k] # "none" => Written(k)' /\ sent'[k] # 0
      BY <1>1, <1>4 DEF AnswersTrue, Written, TypeOK
    <2>5. Says(proc.key, proc.answer)'
      BY <1>3, <2>1 DEF Says
    <2>. QED  BY <1>1, <2>3, <2>4, <2>5 DEF AnswersTrue
  <1>11. NotYetLive'
    <2>1. SUFFICES ASSUME NEW o \in Order, sent'[o] = 0 PROVE live'[o] = "none"
      BY DEF NotYetLive
    <2>2. o # key /\ sent[o] = 0 /\ live[o] = "none"
      BY <1>1, <1>4, <2>1 DEF NotYetLive, TypeOK, Key
    <2>. QED  BY <1>1, <1>7, <2>2 DEF TypeOK
  <1>12. RowHasCommand'
    BY <1>1 DEF RowHasCommand
  <1>13. DeadRowIsDead'
    BY <1>1, <1>9 DEF DeadRowIsDead, RowHasCommand
  <1>. QED  BY <1>10, <1>11, <1>12, <1>13

LEMMA RowStep == ASSUME RowInv, TargetAssumption, [Next]_vars PROVE RowInv'
  <1>1. TypeOK /\ KeyInv /\ KeyInv'
    BY KeyStep DEF RowInv, KeyInv
  <1>2. SUFFICES AnswersTrue' /\ NotYetLive' /\ RowHasCommand' /\ DeadRowIsDead'
    BY <1>1 DEF RowInv
  <1>. USE DEF RowInv, lease, file, broker, database
  <1>3. Idle.at = "idle" /\ [Idle EXCEPT !.at = "dead"].at = "dead"
    BY DEF Idle
  <1>4. CASE LoseDatabase \/ DatabaseBack \/ Tick \/ record_verified
             \/ claim_main_device_if_stale \/ switch_execution_owner
    BY <1>4, RowsQuiet DEF LoseDatabase, DatabaseBack, Tick, record_verified,
                           claim_main_device_if_stale, switch_execution_owner
  <1>5. CASE ProbeFails \/ OutcomeLost \/ Crash \/ _lease_still_current \/ Restart
    <2>1. CASE OutcomeLost
      BY <1>3, <2>1, RowsQuiet DEF OutcomeLost
    <2>2. CASE ProbeFails
      BY <1>3, <2>2, RowsQuiet DEF ProbeFails
    <2>3. CASE Crash \/ _lease_still_current \/ Restart
      BY <1>3, <2>3, RowsQuiet DEF Crash, _lease_still_current, Ends, Restart
    <2>. QED  BY <1>5, <2>1, <2>2, <2>3
  <1>6. CASE ProbeSucceeds
    <2>1. [Idle EXCEPT !.at = "folding", !.todo = Pending].at = "folding"
      BY DEF Idle
    <2>. QED  BY <1>6, <2>1, RowsQuiet DEF ProbeSucceeds
  <1>7. CASE reconcile_into_canonical
    BY <1>7, FoldRows
  <1>8. CASE append_reconciled
    <2>1. proc'.at # "answered"
      BY <1>8, Marks
    <2>. QED  BY <1>8, <2>1, RowsQuiet DEF append_reconciled
  <1>9. CASE CallBroker
    BY <1>9, CallRows
  <1>10. CASE append_outcome
    <2>1. /\ proc.at = "answered" /\ proc.key \in Key /\ Written(proc.key) /\ sent[proc.key] # 0
          /\ out' = [out EXCEPT ![proc.key] = proc.answer]
          /\ UNCHANGED <<sent, live, cmd, row, log>> /\ proc'.at = "idle"
      BY <1>1, <1>3, <1>10 DEF append_outcome, KeyInv, FirstCall
    <2>2. AnswersTrue'
      BY <1>1, <2>1 DEF AnswersTrue, Says, Written, TypeOK
    <2>. QED  BY <2>1, <2>2 DEF NotYetLive, RowHasCommand, DeadRowIsDead
  <1>11. ASSUME NEW o \in Order, Over(o) PROVE <1>2!1
    <2>1. live' = [live EXCEPT ![o] = "over"] /\ live[o] = "working"
          /\ UNCHANGED <<out, sent, cmd, row, log, proc>>
      BY <1>11 DEF Over
    <2>2. \A c \in Cancel : Target[c] \in Order
      BY TargetAssumption DEF TargetAssumption
    <2>. QED  BY <1>1, <2>1, <2>2 DEF TypeOK, KeyInv, FirstCall, AnswersTrue, NotYetLive,
                   RowHasCommand, DeadRowIsDead, Says, Written
  <1>12. ASSUME NEW o \in Order, ExitSettled(o) PROVE <1>2!1
    BY <1>12, RowsQuiet DEF ExitSettled
  <1>13. ASSUME NEW o \in Order, SubmitThroughDatabase(o) PROVE <1>2!1
    <2>1. proc.at = "idle" /\ writable /\ cmd[o] = "none" /\ o \in Key
      BY <1>13 DEF SubmitThroughDatabase, Idle, Key
    <2>2. ~Written(o) /\ sent[o] = 0
      BY <1>1, <2>1 DEF KeyInv, FoldUnderWay, Folded, CallsOnRecord
    <2>3. live[o] = "none" /\ out[o] = "none"
      BY <2>1, <2>2 DEF NotYetLive, AnswersTrue
    <2>4. /\ UNCHANGED <<out, log, proc>>
          /\ sent' = [sent EXCEPT ![o] = 1] /\ live' = [live EXCEPT ![o] = "working"]
          /\ cmd' = [cmd EXCEPT ![o] = "ACKNOWLEDGED"] /\ row' = [row EXCEPT ![o] = "ACKNOWLEDGED"]
      BY <1>13, <2>2 DEF SubmitThroughDatabase
    <2>5. \A c \in Cancel : Target[c] \in Order
      BY TargetAssumption DEF TargetAssumption
    <2>6. AnswersTrue'
      BY <1>1, <2>1, <2>3, <2>4, <2>5 DEF TypeOK, AnswersTrue, Says, Written
    <2>. QED  BY <1>1, <2>1, <2>4, <2>6 DEF TypeOK, NotYetLive, RowHasCommand, DeadRowIsDead, Key
  <1>14. ASSUME NEW k \in Key, append_requested(k) PROVE <1>2!1
    <2>1. \A j \in Key : Written(j) => Written(j)'
      BY <1>1, <1>14, Appended DEF append_requested, Written, TypeOK
    <2>2. proc'.at = "requested" /\ UNCHANGED <<out, sent, cmd, row, live>>
      BY <1>14 DEF append_requested, Idle
    <2>. QED  BY <2>1, <2>2 DEF AnswersTrue, NotYetLive, RowHasCommand, DeadRowIsDead, Says
  <1>15. CASE UNCHANGED vars
    BY <1>15, RowsQuiet DEF vars
  <1>. QED  BY <1>4, <1>5, <1>6, <1>7, <1>8, <1>9, <1>10, <1>11, <1>12, <1>13, <1>14, <1>15
            DEF Next, Fold

LEMMA RowInit == ASSUME Init PROVE RowInv
  BY KeyInit DEF Init, RowInv, AnswersTrue, NotYetLive, RowHasCommand, DeadRowIsDead, Says, Idle

(* What the fold of the journal writes into execution_orders never calls an  *)
(* order dead that the broker still works: a request without an outcome is   *)
(* folded as unknown (reconcile_into_canonical).                             *)
THEOREM NoDeadRowWorks == ASSUME TargetAssumption PROVE Spec => []DeadRowIsDead
  <1>1. Init => RowInv
    BY RowInit
  <1>2. RowInv /\ [Next]_vars => RowInv'
    BY RowStep
  <1>3. RowInv => DeadRowIsDead
    BY DEF RowInv
  <1>. QED  BY <1>1, <1>2, <1>3, PTL DEF Spec
=============================================================================
