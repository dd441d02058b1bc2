-------------------------- MODULE OrderGateway_proofs --------------------------
(***************************************************************************)
(* Theorems about OrderGateway for every set of orders and devices, every  *)
(* chain of replacements, every quantity and every bound.                  *)
(***************************************************************************)
EXTENDS OrderGateway, TLAPS

-----------------------------------------------------------------------------
(* The operators of OrderRecord and AccountReducer stay inside their types.  *)

(* apply_status_transition returns a row again. *)
LEMMA ApplyStatusType ==
    ASSUME NEW o \in OrderRow, NEW t \in ExecutionOrderStatus
    PROVE  ApplyStatus(o, t) \in OrderRow
BY DEF ApplyStatus, IdentityAfter, OrderRow, BrokerIdentityStatus

(* A cumulative fill report keeps the row a row and the fills monotone. *)
LEMMA WithFillType ==
    ASSUME NEW o \in OrderRow, NEW f \in 0 .. Qty
    PROVE  /\ WithFill(o, f) \in OrderRow
           /\ WithFill(o, f).filled >= o.filled
           /\ WithFill(o, f).status = o.status
BY QtyAssumption DEF WithFill, OrderRow

(* _set_recovery_state returns a row. *)
LEMMA SetRecoveryType ==
    ASSUME NEW o \in OrderRow, NEW r \in OrderRecoveryState
    PROVE  SetRecovery(o, r) \in OrderRow
BY DEF SetRecovery, OrderRow, OrderRecoveryState

(* Every edge of the status graph ends in a status. *)
LEMMA AllowedType ==
    ASSUME NEW s PROVE allowed_status_transitions(s) \subseteq ExecutionOrderStatus
BY DEF allowed_status_transitions, StatusEdges, OpenStatus, ExecutionOrderStatus,
       TerminalStatus

(* What one report makes of a row is a row. *)
LEMMA ReduceOrderType ==
    ASSUME NEW o \in OrderRow, NEW v \in OrderView, NEW complete \in BOOLEAN
    PROVE  ReduceOrder(o, v, complete) \in OrderRow
<1> DEFINE f == WithFill(o, v.filled)
<1>1. f \in OrderRow /\ f.status = o.status
  BY WithFillType DEF OrderView
<1>2. ASSUME NEW q \in OrderRow
      PROVE  ClearDiscovery(q, v) \in OrderRow
  BY SetRecoveryType DEF ClearDiscovery, OrderRecoveryState
<1>3. ASSUME ReachableStatus(o, v.status)
      PROVE  ClearDiscovery(ApplyStatus(f, v.status), v) \in OrderRow
  <2>1. v.status \in ExecutionOrderStatus
    BY <1>3, AllowedType DEF ReachableStatus, ExecutionOrderStatus
  <2> QED BY <1>1, <1>2, <2>1, ApplyStatusType
<1>4. ApplyExactSnapshot(o, v) \in OrderRow
  <2>1. SetRecovery(f, "MANUAL_INTERVENTION_REQUIRED") \in OrderRow
    BY <1>1, SetRecoveryType DEF OrderRecoveryState
  <2>2. ClearDiscovery(f, v) \in OrderRow
    BY <1>1, <1>2
  <2> HIDE DEF f
  <2>3. ApplyExactSnapshot(o, v) \in
          {f, ClearDiscovery(f, v), SetRecovery(f, "MANUAL_INTERVENTION_REQUIRED"),
           ClearDiscovery(ApplyStatus(f, v.status), v)}
    BY DEF ApplyExactSnapshot, f
  <2>4. ApplyExactSnapshot(o, v) # ClearDiscovery(ApplyStatus(f, v.status), v)
          => ApplyExactSnapshot(o, v) \in OrderRow
    BY <1>1, <2>1, <2>2, <2>3
  <2>5. CASE ReachableStatus(o, v.status)
    BY <1>1, <1>3, <2>1, <2>2, <2>3, <2>5
  <2>6. CASE ~ReachableStatus(o, v.status)
    BY <1>1, <2>1, <2>2, <2>6 DEF ApplyExactSnapshot, f
  <2> QED BY <2>5, <2>6
<1>5. SetRecovery(o, "MANUAL_INTERVENTION_REQUIRED") \in OrderRow
  BY SetRecoveryType DEF OrderRecoveryState
<1> QED BY <1>4, <1>5 DEF ReduceOrder

(* Settlement keeps a reservation's status a status. *)
LEMMA SettleType ==
    ASSUME NEW r \in ReservationStatus \cup {Absent}, NEW o
    PROVE  Settle(r, o) \in ReservationStatus \cup {Absent}
BY DEF Settle, ReservationStatus

(* So does the settlement of a whole chain. *)
LEMMA SettleChainType ==
    ASSUME NEW r \in ReservationStatus \cup {Absent}, NEW c, NEW rows
    PROVE  SettleChain(r, c, rows) \in ReservationStatus \cup {Absent}
BY SettleType DEF SettleChain

(* What a snapshot may say of a broker order is a view. *)
LEMMA ViewOfType ==
    ASSUME NEW b \in BrokerRow
    PROVE  ViewOf(b) \subseteq OrderView
BY QtyAssumption DEF ViewOf, InquiryTarget, BrokerRow, BrokerState, OrderView, Unseen

-----------------------------------------------------------------------------
(* Types.  TypeOK is not inductive: a step that indexes the ledgers by        *)
(* proc[d].cur needs to know that there is such an order, a replace needs its *)
(* replacement, and a fill needs room in the broker's order.                  *)

GoodProc(p) ==
    /\ p \in ProcState
    /\ p.pc \notin {"idle", "reconcile"} => p.cur \in Cid
    /\ p.pc \in {"fence", "poll", "revalidate"} => p.rep \in Cid

RoomToFill == \A c \in Cid : brk[c].st = "open" => brk[c].filled < Qty

TypeInv ==
    /\ TypeOK
    /\ \A d \in Device : GoodProc(proc[d])
    /\ RoomToFill

(* A device that does nothing is well formed. *)
LEMMA IdleGood == GoodProc(Idle)
BY QtyAssumption DEF GoodProc, Idle, ProcState, Pc, PendingState

(* The two version flags of a process say nothing about its shape. *)
LEMMA FlagsGood ==
    ASSUME NEW q, GoodProc(q), NEW a \in BOOLEAN, NEW b \in BOOLEAN
    PROVE  GoodProc([q EXCEPT !.rowOk = a, !.resOk = b])
<1> DEFINE r == [q EXCEPT !.rowOk = a, !.resOk = b]
<1>1. q \in ProcState
  BY DEF GoodProc
<1>2. r \in ProcState
  BY <1>1 DEF ProcState
<1>3. r.pc = q.pc /\ r.cur = q.cur /\ r.rep = q.rep
  BY <1>1 DEF ProcState
<1> HIDE DEF r
<1>4. GoodProc(r)
  BY <1>2, <1>3 DEF GoodProc
<1> QED BY <1>4 DEF r

(* Whatever a device commits, the other devices only lose their versions. *)
LEMMA CommitGood ==
    ASSUME TypeInv, NEW d \in Device, NEW p, GoodProc(p), NEW C, NEW R,
           Commit(d, p, C, R)
    PROVE  /\ proc' \in [Device -> ProcState]
           /\ \A e \in Device : GoodProc(proc[e])'
           /\ proc'[d] = p
<1> USE DEF TypeInv
<1> DEFINE new(e) == IF e = d THEN p
        ELSE [proc[e] EXCEPT
                !.rowOk = @ /\ proc[e].cur \notin C,
                !.resOk = @ /\ (proc[e].cur # NoCid => Root[proc[e].cur] \notin R)]
<1>1. proc' = [e \in Device |-> new(e)]
  BY DEF Commit
<1>2. ASSUME NEW e \in Device PROVE GoodProc(new(e))
  <2>1. CASE e = d
    BY <2>1
  <2>2. CASE e # d
    <3>1. GoodProc(proc[e])
      OBVIOUS
    <3> DEFINE q == proc[e]
               a == q.rowOk /\ q.cur \notin C
               b == q.resOk /\ (q.cur # NoCid => Root[q.cur] \notin R)
    <3>2. a \in BOOLEAN /\ b \in BOOLEAN
      OBVIOUS
    <3>3. new(e) = [q EXCEPT !.rowOk = a, !.resOk = b]
      BY <2>2
    <3> HIDE DEF q, a, b
    <3>4. GoodProc([q EXCEPT !.rowOk = a, !.resOk = b])
      BY <3>1, <3>2, FlagsGood DEF q
    <3> QED BY <3>3, <3>4
  <2> QED BY <2>1, <2>2
<1> HIDE DEF new
<1>3. proc' \in [Device -> ProcState] /\ \A e \in Device : GoodProc(proc'[e])
  BY <1>1, <1>2 DEF GoodProc
<1>4. proc'[d] = p
  BY <1>1 DEF new
<1> QED BY <1>3, <1>4 DEF GoodProc

(* Moving the program counter keeps a process good. *)
LEMMA MoveGood ==
    ASSUME NEW p, GoodProc(p), p.cur \in Cid, NEW l \in Pc,
           l \in {"fence", "poll", "revalidate"} => p.rep \in Cid
    PROVE  GoodProc([p EXCEPT !.pc = l])
BY DEF GoodProc, ProcState

(* A finished command leaves a process that is idle or saves its card. *)
LEMMA FinishedGood ==
    ASSUME NEW p, GoodProc(p), p.cur \in Cid
    PROVE  /\ \A card \in PendingState : GoodProc(Finished(p, card))
           /\ GoodProc(AfterCancelFailure(p))
<1>1. CASE p.rep = NoCid
  BY <1>1, IdleGood DEF Finished, AfterCancelFailure
<1>2. CASE p.rep # NoCid
  <2>1. ASSUME NEW card \in PendingState
        PROVE  GoodProc([p EXCEPT !.pc = "saveCard", !.card = card])
    BY DEF GoodProc, ProcState, Pc
  <2>2. GoodProc([p EXCEPT !.pc = "restore"])
    BY MoveGood DEF Pc
  <2> QED BY <1>2, <2>1, <2>2 DEF Finished, AfterCancelFailure
<1> QED BY <1>1, <1>2

(* Writing one row, one answer or one reservation keeps the ledgers typed. *)
LEMMA LedgersTyped ==
    ASSUME TypeOK, NEW c, NEW k, NEW d, NEW st \in CmdStatus, NEW a \in Answer
    PROVE  /\ c \in Cid => order[c] \in OrderRow
           /\ \A o : (c \in Cid => o \in OrderRow) =>
                [order EXCEPT ![c] = o] \in [Cid -> OrderRow]
           /\ [cmd EXCEPT ![k] = st] \in [CmdKey -> CmdStatus]
           /\ \A r \in ReservationStatus \cup {Absent} :
                [res EXCEPT ![c] = r] \in [Cid -> ReservationStatus \cup {Absent}]
           /\ [ans EXCEPT ![d] = a] \in [Device -> Answer]
           /\ NoAnswer \in Answer
<1> USE DEF TypeOK
<1>1. c \in Cid => order[c] \in OrderRow
  OBVIOUS
<1>2. ASSUME NEW o, c \in Cid => o \in OrderRow
      PROVE  [order EXCEPT ![c] = o] \in [Cid -> OrderRow]
  BY <1>2
<1>3. [cmd EXCEPT ![k] = st] \in [CmdKey -> CmdStatus]
  OBVIOUS
<1>4. ASSUME NEW r \in ReservationStatus \cup {Absent}
      PROVE  [res EXCEPT ![c] = r] \in [Cid -> ReservationStatus \cup {Absent}]
  OBVIOUS
<1>5. [ans EXCEPT ![d] = a] \in [Device -> Answer]
  OBVIOUS
<1>6. NoAnswer \in Answer
  BY QtyAssumption DEF NoAnswer, Answer
<1> HIDE DEF TypeOK
<1> QED BY <1>1, <1>2, <1>3, <1>4, <1>5, <1>6

(* The constants the actions write. *)
LEMMA Literals ==
    /\ {"SUBMITTING", "CANCELLED_LOCALLY", "ACKNOWLEDGED", "REJECTED",
        "UNKNOWN_SUBMISSION_STATE", "CANCEL_PENDING", "CANCELLED", "FILLED",
        "PARTIALLY_FILLED", "WORKING"} \subseteq ExecutionOrderStatus
    /\ {"REQUESTED", "ACKNOWLEDGED", "AMBIGUOUS", "FAILED", "PRE_BROKER_ABORTED",
        "COMPLETED"} \subseteq CmdStatus
    /\ {"RESERVED", "RELEASED"} \subseteq ReservationStatus
    /\ {"CLOSED", "PENDING", "DONE"} \subseteq PendingState
    /\ {"DISCOVERING", "NONE"} \subseteq OrderRecoveryState
BY DEF ExecutionOrderStatus, CmdStatus, ReservationStatus, PendingState,
       OrderRecoveryState

(* The steps of _do_submit. *)
LEMMA SubmitTyped ==
    ASSUME TypeInv, NEW d \in Device,
           \/ \E c \in Cid : SubmitPrepare(d, c)
           \/ MarkSubmitting(d) \/ SubmitGate(d) \/ SubmitAbort(d)
           \/ CallSubmit(d) \/ SubmitAccepted(d) \/ SubmitRefused(d)
           \/ SubmitAmbiguous(d)
    PROVE  TypeInv'
<1> DEFINE p == proc[d]
<1> USE DEF TypeInv
<1>0. GoodProc(p) /\ TypeOK /\ p \in ProcState
  BY DEF GoodProc
<1>p. ASSUME p.pc \in {"prepared", "submitGate", "submitCall", "submitWait"}
      PROVE  p.cur \in Cid
  BY <1>0, <1>p DEF GoodProc
<1>1. ASSUME NEW c \in Cid, SubmitPrepare(d, c) PROVE TypeInv'
  <2>1. GoodProc([Idle EXCEPT !.pc = "prepared", !.cur = c])
    BY IdleGood DEF GoodProc, ProcState, Pc, Idle
  <2>2. PreparedRow \in OrderRow
    BY QtyAssumption DEF PreparedRow, NoRow, OrderRow, ExecutionOrderStatus,
       BrokerIdentityStatus, OrderRecoveryState
  <2>3. proc' \in [Device -> ProcState] /\ \A e \in Device : GoodProc(proc[e])'
    BY <1>1, <2>1, CommitGood DEF SubmitPrepare
  <2>4. order' \in [Cid -> OrderRow] /\ cmd' \in [CmdKey -> CmdStatus]
        /\ res' \in [Cid -> ReservationStatus \cup {Absent}]
    BY <1>0, <1>1, Literals, <2>2 DEF SubmitPrepare, TypeOK
  <2> QED BY <1>1, <2>3, <2>4 DEF SubmitPrepare, TypeOK, RoomToFill, runtime, world
<1>2. ASSUME MarkSubmitting(d) PROVE TypeInv'
  <2>1. p.cur \in Cid /\ GoodProc([p EXCEPT !.pc = "submitGate"])
    BY <1>0, <1>2, <1>p, MoveGood DEF MarkSubmitting, Pc
  <2>2. proc' \in [Device -> ProcState] /\ \A e \in Device : GoodProc(proc[e])'
    BY <1>2, <2>1, CommitGood DEF MarkSubmitting
  <2>3. order' \in [Cid -> OrderRow]
    BY <1>0, <1>2, Literals, <2>1, ApplyStatusType DEF MarkSubmitting, TypeOK
  <2> QED BY <1>2, <2>2, <2>3 DEF MarkSubmitting, TypeOK, RoomToFill, runtime, world
<1>3. ASSUME SubmitGate(d) PROVE TypeInv'
  <2>1. GoodProc([p EXCEPT !.pc = "submitCall"])
    BY <1>0, <1>3, <1>p, MoveGood DEF SubmitGate, Pc
  <2>2. proc' \in [Device -> ProcState] /\ \A e \in Device : GoodProc(proc[e])'
    BY <1>3, <2>1, CommitGood DEF SubmitGate, Step
  <2> QED BY <1>3, <2>2 DEF SubmitGate, TypeOK, RoomToFill, db, runtime, world
<1>4. ASSUME SubmitAbort(d) PROVE TypeInv'
  <2>1. GoodProc(Finished(p, "CLOSED"))
    BY <1>0, <1>4, <1>p, Literals, FinishedGood DEF SubmitAbort
  <2>2. proc' \in [Device -> ProcState] /\ \A e \in Device : GoodProc(proc[e])'
    BY <1>4, <2>1, CommitGood DEF SubmitAbort
  <2>3. order' \in [Cid -> OrderRow]
    BY <1>0, <1>4, <1>p, Literals, ApplyStatusType DEF SubmitAbort, TypeOK
  <2>4. cmd' \in [CmdKey -> CmdStatus] /\ res' \in [Cid -> ReservationStatus \cup {Absent}]
    BY <1>0, <1>4, Literals DEF SubmitAbort, TypeOK
  <2> QED BY <1>4, <2>2, <2>3, <2>4 DEF SubmitAbort, TypeOK, RoomToFill, runtime, world
<1>5. ASSUME CallSubmit(d) PROVE TypeInv'
  <2>1. p.cur \in Cid /\ GoodProc([p EXCEPT !.pc = "submitWait"])
    BY <1>0, <1>5, <1>p, MoveGood DEF CallSubmit, Pc
  <2>2. proc' \in [Device -> ProcState] /\ \A e \in Device : GoodProc(proc[e])'
    BY <1>5, <2>1, CommitGood DEF CallSubmit, Step
  <2>3. net' \subseteq Request /\ sent' \in [Cid -> Nat]
    BY <1>0, <1>5, <2>1 DEF CallSubmit, TypeOK, Request
  <2> QED BY <1>5, <2>2, <2>3 DEF CallSubmit, TypeOK, RoomToFill, db, runtime
<1>6. ASSUME SubmitAccepted(d) PROVE TypeInv'
  <2>1. GoodProc(IF p.rep = NoCid THEN Idle ELSE [p EXCEPT !.pc = "complete"])
    BY <1>0, <1>6, <1>p, IdleGood, MoveGood DEF SubmitAccepted, Pc
  <2>2. proc' \in [Device -> ProcState] /\ \A e \in Device : GoodProc(proc[e])'
    BY <1>6, <2>1, CommitGood DEF SubmitAccepted
  <2>3. order' \in [Cid -> OrderRow]
    BY <1>0, <1>6, <1>p, Literals, ApplyStatusType DEF SubmitAccepted, TypeOK
  <2>4. cmd' \in [CmdKey -> CmdStatus] /\ ans' \in [Device -> Answer]
    BY <1>0, <1>6, Literals, LedgersTyped DEF SubmitAccepted, TypeOK
  <2> QED BY <1>6, <2>2, <2>3, <2>4 DEF SubmitAccepted, TypeOK, RoomToFill, runtime
<1>7. ASSUME SubmitRefused(d) PROVE TypeInv'
  <2>1. GoodProc(Finished(p, "CLOSED"))
    BY <1>0, <1>7, <1>p, Literals, FinishedGood DEF SubmitRefused
  <2>2. proc' \in [Device -> ProcState] /\ \A e \in Device : GoodProc(proc[e])'
    BY <1>7, <2>1, CommitGood DEF SubmitRefused
  <2>3. order' \in [Cid -> OrderRow]
    BY <1>0, <1>7, <1>p, Literals, ApplyStatusType DEF SubmitRefused, TypeOK
  <2>4. cmd' \in [CmdKey -> CmdStatus] /\ res' \in [Cid -> ReservationStatus \cup {Absent}]
        /\ ans' \in [Device -> Answer]
    BY <1>0, <1>7, Literals, LedgersTyped DEF SubmitRefused, TypeOK
  <2> QED BY <1>7, <2>2, <2>3, <2>4 DEF SubmitRefused, TypeOK, RoomToFill, runtime
<1>8. ASSUME SubmitAmbiguous(d) PROVE TypeInv'
  <2>1. GoodProc(Finished(p, "PENDING"))
    BY <1>0, <1>8, <1>p, Literals, FinishedGood DEF SubmitAmbiguous
  <2>2. proc' \in [Device -> ProcState] /\ \A e \in Device : GoodProc(proc[e])'
    BY <1>8, <2>1, CommitGood DEF SubmitAmbiguous
  <2>3. order' \in [Cid -> OrderRow]
    BY <1>0, <1>8, <1>p, Literals, ApplyStatusType DEF SubmitAmbiguous, TypeOK
  <2>4. cmd' \in [CmdKey -> CmdStatus] /\ ans' \in [Device -> Answer]
    BY <1>0, <1>8, Literals, LedgersTyped DEF SubmitAmbiguous, TypeOK
  <2> QED BY <1>8, <2>2, <2>3, <2>4 DEF SubmitAmbiguous, TypeOK, RoomToFill, runtime
<1> QED BY <1>1, <1>2, <1>3, <1>4, <1>5, <1>6, <1>7, <1>8

(* What the answer to a cancel makes of a row is a row. *)
LEMMA AfterCancelAnswerType ==
    ASSUME NEW o \in OrderRow, NEW a \in Answer
    PROVE  AfterCancelAnswer(o, a) \in OrderRow
<1> DEFINE f == WithFill(o, a.filled)
<1>1. f \in OrderRow /\ a.filled \in 0 .. Qty
  BY WithFillType DEF Answer
<1>2. ApplyStatus(f, "CANCELLED") \in OrderRow
  BY <1>1, ApplyStatusType, Literals
<1>3. ASSUME NEW t \in {"FILLED", "PARTIALLY_FILLED"}
      PROVE  [ApplyStatus(o, t) EXCEPT !.filled = a.filled] \in OrderRow
  <2>1. ApplyStatus(o, t) \in OrderRow
    BY ApplyStatusType, Literals
  <2> QED BY <1>1, <2>1 DEF OrderRow
<1>4. [f EXCEPT !.recovery = "DISCOVERING"] \in OrderRow
  BY <1>1, Literals DEF OrderRow
<1> QED BY <1>2, <1>3, <1>4 DEF AfterCancelAnswer

(* Journaling a cancel. *)
LEMMA JournalTyped ==
    ASSUME TypeInv, NEW d \in Device, NEW p, GoodProc([p EXCEPT !.pc = "cancelGate"]),
           p.cur \in Cid, JournalCancel(d, p)
    PROVE  TypeInv'
<1> USE DEF TypeInv
<1> DEFINE q == [p EXCEPT !.pc = "cancelGate"]
           s == order[p.cur].status
<1>1. s \in ExecutionOrderStatus \cup {Absent}
  BY DEF TypeOK, OrderRow
<1>2. GoodProc([q EXCEPT !.pre = s])
  BY <1>1 DEF GoodProc, ProcState
<1>3. [p EXCEPT !.pc = "cancelGate", !.pre = s] = [q EXCEPT !.pre = s]
  OBVIOUS
<1>4. proc' \in [Device -> ProcState] /\ \A e \in Device : GoodProc(proc[e])'
  BY <1>2, <1>3, CommitGood DEF JournalCancel
<1>5. order' \in [Cid -> OrderRow] /\ cmd' \in [CmdKey -> CmdStatus]
  BY ApplyStatusType, Literals DEF JournalCancel, TypeOK
<1> QED BY <1>4, <1>5 DEF JournalCancel, TypeOK, RoomToFill, runtime, world

(* The steps of _do_cancel. *)
LEMMA CancelTyped ==
    ASSUME TypeInv, NEW d \in Device,
           \/ \E c \in Cid, k \in CancelId : CancelStart(d, c, k)
           \/ CancelGate(d) \/ CancelAbort(d) \/ CallCancel(d)
           \/ CancelAnswered(d) \/ CancelRefused(d) \/ CancelAmbiguous(d)
           \/ CancelJournal(d)
    PROVE  TypeInv'
<1> DEFINE p == proc[d]
<1> USE DEF TypeInv
<1>0. GoodProc(p) /\ TypeOK /\ p \in ProcState
  BY DEF GoodProc
<1>p. ASSUME p.pc \in {"cancelJournal", "cancelGate", "cancelCall", "cancelWait"}
      PROVE  p.cur \in Cid
  BY <1>0, <1>p DEF GoodProc
<1>1. ASSUME NEW c \in Cid, NEW k \in CancelId, CancelStart(d, c, k) PROVE TypeInv'
  <2> DEFINE q == [Idle EXCEPT !.cur = c, !.key = k, !.fill = order[c].filled]
  <2>1. order[c].filled \in 0 .. Qty
    BY <1>0 DEF TypeOK, OrderRow
  <2>2. GoodProc([q EXCEPT !.pc = "cancelGate"]) /\ q.cur \in Cid
    BY <2>1, IdleGood DEF GoodProc, ProcState, Pc, Idle
  <2> QED BY <1>1, <2>2, JournalTyped DEF CancelStart
<1>2. ASSUME CancelJournal(d) PROVE TypeInv'
  BY <1>0, <1>2, <1>p, MoveGood, JournalTyped DEF CancelJournal, Pc
<1>3. ASSUME CancelGate(d) PROVE TypeInv'
  <2>1. GoodProc([p EXCEPT !.pc = "cancelCall"])
    BY <1>0, <1>3, <1>p, MoveGood DEF CancelGate, Pc
  <2>2. proc' \in [Device -> ProcState] /\ \A e \in Device : GoodProc(proc[e])'
    BY <1>3, <2>1, CommitGood DEF CancelGate, Step
  <2> QED BY <1>3, <2>2 DEF CancelGate, TypeOK, RoomToFill, db, runtime, world
<1>4. ASSUME CancelAbort(d) PROVE TypeInv'
  <2>1. GoodProc(AfterCancelFailure(p))
    BY <1>0, <1>4, <1>p, FinishedGood DEF CancelAbort
  <2>2. proc' \in [Device -> ProcState] /\ \A e \in Device : GoodProc(proc[e])'
    BY <1>4, <2>1, CommitGood DEF CancelAbort
  <2>3. order' \in [Cid -> OrderRow]
    <3>1. ASSUME NEW o \in OrderRow
          PROVE  ApplyStatus(o, p.pre) \in OrderRow
      <4>1. p.pre \in ExecutionOrderStatus \cup {Absent}
        BY <1>0 DEF ProcState
      <4> QED BY <4>1 DEF ApplyStatus, IdentityAfter, OrderRow, BrokerIdentityStatus
    <3> QED BY <1>0, <1>4, <1>p, <3>1 DEF CancelAbort, TypeOK
  <2>4. cmd' \in [CmdKey -> CmdStatus]
    BY <1>0, <1>4, Literals DEF CancelAbort, TypeOK
  <2> QED BY <1>4, <2>2, <2>3, <2>4 DEF CancelAbort, TypeOK, RoomToFill, runtime, world
<1>5. ASSUME CallCancel(d) PROVE TypeInv'
  <2>1. p.cur \in Cid /\ GoodProc([p EXCEPT !.pc = "cancelWait"])
    BY <1>0, <1>5, <1>p, MoveGood DEF CallCancel, Pc
  <2>2. proc' \in [Device -> ProcState] /\ \A e \in Device : GoodProc(proc[e])'
    BY <1>5, <2>1, CommitGood DEF CallCancel, Step
  <2>3. net' \subseteq Request
    BY <1>0, <1>5, <2>1 DEF CallCancel, TypeOK, Request
  <2> QED BY <1>5, <2>2, <2>3 DEF CallCancel, TypeOK, RoomToFill, db, runtime
<1>6. ASSUME CancelAnswered(d) PROVE TypeInv'
  <2>1. GoodProc(IF p.rep = NoCid THEN Idle ELSE [p EXCEPT !.pc = "fence"])
    <3>1. p.rep # NoCid => p.rep \in Cid
      BY <1>0 DEF ProcState
    <3> QED BY <1>0, <1>6, <1>p, <3>1, IdleGood, MoveGood DEF CancelAnswered, Pc
  <2>2. proc' \in [Device -> ProcState] /\ \A e \in Device : GoodProc(proc[e])'
    BY <1>6, <2>1, CommitGood DEF CancelAnswered
  <2>3. order' \in [Cid -> OrderRow]
    BY <1>0, <1>6, <1>p, AfterCancelAnswerType DEF CancelAnswered, TypeOK
  <2>4. res' \in [Cid -> ReservationStatus \cup {Absent}]
    BY <1>0, <1>6, SettleType DEF CancelAnswered, TypeOK
  <2>5. cmd' \in [CmdKey -> CmdStatus] /\ ans' \in [Device -> Answer]
    BY <1>0, <1>6, Literals, LedgersTyped DEF CancelAnswered, TypeOK
  <2> QED BY <1>6, <2>2, <2>3, <2>4, <2>5 DEF CancelAnswered, TypeOK, RoomToFill, runtime
<1>7. ASSUME CancelRefused(d) PROVE TypeInv'
  <2>1. GoodProc(AfterCancelFailure(p))
    BY <1>0, <1>7, <1>p, FinishedGood DEF CancelRefused
  <2>2. proc' \in [Device -> ProcState] /\ \A e \in Device : GoodProc(proc[e])'
    BY <1>7, <2>1, CommitGood DEF CancelRefused
  <2>3. order' \in [Cid -> OrderRow]
    BY <1>0, <1>7, <1>p, Literals, ApplyStatusType DEF CancelRefused, TypeOK
  <2>4. cmd' \in [CmdKey -> CmdStatus] /\ ans' \in [Device -> Answer]
    BY <1>0, <1>7, Literals, LedgersTyped DEF CancelRefused, TypeOK
  <2> QED BY <1>7, <2>2, <2>3, <2>4 DEF CancelRefused, TypeOK, RoomToFill, runtime
<1>8. ASSUME CancelAmbiguous(d) PROVE TypeInv'
  <2>1. GoodProc(Finished(p, "PENDING"))
    BY <1>0, <1>8, <1>p, Literals, FinishedGood DEF CancelAmbiguous
  <2>2. proc' \in [Device -> ProcState] /\ \A e \in Device : GoodProc(proc[e])'
    BY <1>8, <2>1, CommitGood DEF CancelAmbiguous
  <2>3. order' \in [Cid -> OrderRow]
    BY <1>0, <1>8, <1>p, Literals DEF CancelAmbiguous, TypeOK, OrderRow
  <2>4. cmd' \in [CmdKey -> CmdStatus] /\ ans' \in [Device -> Answer]
    BY <1>0, <1>8, Literals, LedgersTyped DEF CancelAmbiguous, TypeOK
  <2> QED BY <1>8, <2>2, <2>3, <2>4 DEF CancelAmbiguous, TypeOK, RoomToFill, runtime
<1> QED BY <1>1, <1>2, <1>3, <1>4, <1>5, <1>6, <1>7, <1>8

(* The steps of replace_guarded outside its cancel and its submit. *)
LEMMA ReplaceTyped ==
    ASSUME TypeInv, NEW d \in Device,
           \/ \E n \in Replacement : ReplaceIntent(d, n)
           \/ ReplaceJournal(d) \/ Fence(d) \/ PollApplies(d) \/ PollSkips(d)
           \/ PollTimesOut(d) \/ ReplaceSubmit(d) \/ ReplaceAbandon(d)
    PROVE  TypeInv'
<1> DEFINE p == proc[d]
<1> USE DEF TypeInv
<1>0. GoodProc(p) /\ TypeOK /\ p \in ProcState
  BY DEF GoodProc
<1>p. ASSUME p.pc \in {"replaceJournal", "fence", "poll", "revalidate"}
      PROVE  p.cur \in Cid /\ order[p.cur] \in OrderRow /\ brk[p.cur] \in BrokerRow
  BY <1>0, <1>p DEF GoodProc, TypeOK
<1>q. ASSUME NEW l \in Pc, l \notin {"fence", "poll", "revalidate"},
             NEW f \in 0 .. Qty, p.cur \in Cid
      PROVE  /\ GoodProc([p EXCEPT !.fill = f])
             /\ GoodProc([[p EXCEPT !.fill = f] EXCEPT !.pc = l])
  BY <1>0, <1>q DEF GoodProc, ProcState
<1>1. ASSUME NEW n \in Replacement, ReplaceIntent(d, n) PROVE TypeInv'
  <2>1. n \in Cid /\ Replaces[n] \in Cid
    BY ChainAssumption DEF Replacement
  <2>2. GoodProc([Idle EXCEPT !.pc = "replaceJournal", !.cur = Replaces[n], !.rep = n])
    BY <2>1, IdleGood DEF GoodProc, ProcState, Pc, Idle
  <2>3. proc' \in [Device -> ProcState] /\ \A e \in Device : GoodProc(proc[e])'
    BY <1>1, <2>2, CommitGood DEF ReplaceIntent, Step
  <2>4. pending' \in [Cid -> PendingState]
    BY <1>0, <1>1, Literals DEF ReplaceIntent, TypeOK
  <2> QED BY <1>1, <2>3, <2>4 DEF ReplaceIntent, TypeOK, RoomToFill, db, runtime, world
<1>2. ASSUME ReplaceJournal(d) PROVE TypeInv'
  <2> DEFINE f == order[p.cur].filled
             q == [p EXCEPT !.pc = "cancelJournal", !.key = p.rep, !.base = f,
                            !.fill = f, !.rowOk = TRUE, !.resOk = TRUE]
  <2>1. f \in 0 .. Qty /\ p.cur \in Cid
    BY <1>2, <1>p DEF ReplaceJournal, OrderRow
  <2>2. GoodProc(q)
    BY <1>0, <2>1 DEF GoodProc, ProcState, Pc
  <2>3. proc' \in [Device -> ProcState] /\ \A e \in Device : GoodProc(proc[e])'
    BY <1>2, <2>2, CommitGood DEF ReplaceJournal
  <2>4. cmd' \in [CmdKey -> CmdStatus]
    BY <1>0, <1>2, Literals DEF ReplaceJournal, TypeOK
  <2> QED BY <1>2, <2>3, <2>4 DEF ReplaceJournal, TypeOK, RoomToFill, runtime, world
<1>3. ASSUME Fence(d) PROVE TypeInv'
  <2> DEFINE o == order[p.cur]
             q == [p EXCEPT !.pre = o.status, !.fill = o.filled, !.rowOk = TRUE]
  <2>1. p.cur \in Cid /\ p.rep \in Cid /\ o \in OrderRow
    BY <1>0, <1>3, <1>p DEF Fence, GoodProc
  <2>2. GoodProc(q) /\ q.cur \in Cid /\ q.rep \in Cid
    BY <1>0, <2>1 DEF GoodProc, ProcState, OrderRow
  <2> HIDE DEF q
  <2>3. /\ GoodProc([q EXCEPT !.pc = "poll"])
        /\ GoodProc([q EXCEPT !.pc = "releasePrepared"])
        /\ GoodProc(Finished(q, "PENDING"))
    BY <2>2, MoveGood, FinishedGood, Literals DEF Pc
  <2>4. proc' \in [Device -> ProcState] /\ \A e \in Device : GoodProc(proc[e])'
    BY <1>3, <2>3, CommitGood DEF Fence, q
  <2>5. order' \in [Cid -> OrderRow]
    BY <1>0, <1>3, <2>1, Literals DEF Fence, TypeOK, OrderRow
  <2> QED BY <1>3, <2>4, <2>5 DEF Fence, TypeOK, RoomToFill, runtime, world
<1>4. ASSUME PollApplies(d) PROVE TypeInv'
  <2> DEFINE b == brk[p.cur]
             t == InquiryTarget(b)
             f == WithFill(order[p.cur], b.filled)
             s == IF t = p.pre THEN f ELSE ApplyStatus(f, t)
             o == IF s.recovery = "DISCOVERING" THEN [s EXCEPT !.recovery = "NONE"] ELSE s
             q == [p EXCEPT !.fill = o.filled]
  <2>1. p.cur \in Cid /\ p.rep \in Cid
    BY <1>0, <1>4, <1>p DEF PollApplies, GoodProc
  <2>2. f \in OrderRow
    BY <1>4, <1>p, WithFillType DEF PollApplies, BrokerRow
  <2>3. s \in OrderRow
    <3>1. t = p.pre \/ t \in ExecutionOrderStatus
      BY <1>4, AllowedType DEF PollApplies
    <3> HIDE DEF f, t
    <3> QED BY <2>2, <3>1, ApplyStatusType
  <2> HIDE DEF s
  <2>4. o \in OrderRow
    BY <2>3, Literals DEF OrderRow
  <2> HIDE DEF o
  <2>5. GoodProc(q) /\ q.cur \in Cid /\ q.rep \in Cid
    BY <1>0, <2>1, <2>4 DEF GoodProc, ProcState, OrderRow
  <2> HIDE DEF q
  <2>6. GoodProc(AfterInquiry(q, o))
    <3>1. /\ GoodProc([q EXCEPT !.pc = "release"])
          /\ GoodProc([q EXCEPT !.pc = "revalidate"])
          /\ GoodProc([q EXCEPT !.pc = "releasePrepared"])
          /\ GoodProc(Finished(q, "PENDING"))
      BY <2>5, MoveGood, FinishedGood, Literals DEF Pc
    <3> QED BY <3>1 DEF AfterInquiry
  <2>7. Commit(d, AfterInquiry(q, o), {p.cur}, {}) /\ order' = [order EXCEPT ![p.cur] = o]
    BY <1>4 DEF PollApplies, q, o, s
  <2>8. proc' \in [Device -> ProcState] /\ \A e \in Device : GoodProc(proc[e])'
    BY <2>6, <2>7, CommitGood
  <2>9. order' \in [Cid -> OrderRow]
    BY <1>0, <2>4, <2>7 DEF TypeOK
  <2> QED BY <1>4, <2>8, <2>9 DEF PollApplies, TypeOK, RoomToFill, runtime, world
<1>5. ASSUME PollSkips(d) PROVE TypeInv'
  <2>1. p.cur \in Cid /\ brk[p.cur].filled \in 0 .. Qty /\ "idle" \in Pc
    BY <1>5, <1>p DEF PollSkips, BrokerRow, Pc
  <2>2. GoodProc([p EXCEPT !.fill = brk[p.cur].filled])
    BY <1>q, <2>1
  <2>3. proc' \in [Device -> ProcState] /\ \A e \in Device : GoodProc(proc[e])'
    BY <1>5, <2>2, CommitGood DEF PollSkips, Step
  <2> QED BY <1>5, <2>3 DEF PollSkips, TypeOK, RoomToFill, db, runtime, world
<1>6. ASSUME PollTimesOut(d) PROVE TypeInv'
  <2>1. GoodProc([p EXCEPT !.pc = "release"]) /\ GoodProc(Finished(p, "PENDING"))
    BY <1>0, <1>6, <1>p, MoveGood, FinishedGood, Literals DEF PollTimesOut, Pc
  <2>2. proc' \in [Device -> ProcState] /\ \A e \in Device : GoodProc(proc[e])'
    BY <1>6, <2>1, CommitGood DEF PollTimesOut, Step
  <2> QED BY <1>6, <2>2 DEF PollTimesOut, TypeOK, RoomToFill, db, runtime, world
<1>7. ASSUME ReplaceSubmit(d) PROVE TypeInv'
  <2>1. p.rep \in Cid
    BY <1>0, <1>7 DEF ReplaceSubmit, GoodProc
  <2>2. GoodProc([p EXCEPT !.pc = "prepared", !.cur = p.rep, !.rowOk = TRUE])
    BY <1>0, <2>1 DEF GoodProc, ProcState, Pc
  <2>3. proc' \in [Device -> ProcState] /\ \A e \in Device : GoodProc(proc[e])'
    BY <1>7, <2>2, CommitGood DEF ReplaceSubmit
  <2>4. PreparedRow \in OrderRow
    BY QtyAssumption DEF PreparedRow, NoRow, OrderRow, ExecutionOrderStatus,
       BrokerIdentityStatus, OrderRecoveryState
  <2>5. order' \in [Cid -> OrderRow] /\ cmd' \in [CmdKey -> CmdStatus]
        /\ res' \in [Cid -> ReservationStatus \cup {Absent}]
    BY <1>0, <1>7, <2>4, Literals DEF ReplaceSubmit, TypeOK
  <2> QED BY <1>7, <2>3, <2>5 DEF ReplaceSubmit, TypeOK, RoomToFill, runtime, world
<1>8. ASSUME ReplaceAbandon(d) PROVE TypeInv'
  <2>1. GoodProc([p EXCEPT !.pc = "release"])
    BY <1>0, <1>8, <1>p, MoveGood DEF ReplaceAbandon, Pc
  <2>2. proc' \in [Device -> ProcState] /\ \A e \in Device : GoodProc(proc[e])'
    BY <1>8, <2>1, CommitGood DEF ReplaceAbandon, Step
  <2> QED BY <1>8, <2>2 DEF ReplaceAbandon, TypeOK, RoomToFill, db, runtime, world
<1> QED BY <1>1, <1>2, <1>3, <1>4, <1>5, <1>6, <1>7, <1>8

(* The last steps of a replacement: give the capital back, complete the      *)
(* parent command, save the card.                                            *)
LEMMA ClosingTyped ==
    ASSUME TypeInv, NEW d \in Device,
           \/ Release(d) \/ ReleasePrepared(d) \/ Restore(d) \/ Complete(d)
           \/ SaveCard(d)
    PROVE  TypeInv'
<1> DEFINE p == proc[d]
<1> USE DEF TypeInv
<1>0. GoodProc(p) /\ TypeOK /\ p \in ProcState
  BY DEF GoodProc
<1>p. ASSUME p.pc \in {"release", "releasePrepared", "restore", "complete"}
      PROVE  GoodProc(Finished(p, "CLOSED")) /\ GoodProc(Finished(p, "DONE"))
  BY <1>0, <1>p, Literals, FinishedGood DEF GoodProc
<1>1. ASSUME Release(d) PROVE TypeInv'
  <2>1. proc' \in [Device -> ProcState] /\ \A e \in Device : GoodProc(proc[e])'
    BY <1>1, <1>p, CommitGood DEF Release
  <2>2. res' \in [Cid -> ReservationStatus \cup {Absent}]
    BY <1>0, <1>1, Literals DEF Release, TypeOK
  <2> QED BY <1>1, <2>1, <2>2 DEF Release, TypeOK, RoomToFill, runtime, world
<1>2. ASSUME ReleasePrepared(d) PROVE TypeInv'
  <2>1. proc' \in [Device -> ProcState] /\ \A e \in Device : GoodProc(proc[e])'
    BY <1>2, <1>p, CommitGood DEF ReleasePrepared
  <2>2. res' \in [Cid -> ReservationStatus \cup {Absent}]
    BY <1>0, <1>2, Literals DEF ReleasePrepared, TypeOK
  <2> QED BY <1>2, <2>1, <2>2 DEF ReleasePrepared, TypeOK, RoomToFill, runtime, world
<1>3. ASSUME Restore(d) PROVE TypeInv'
  <2>1. proc' \in [Device -> ProcState] /\ \A e \in Device : GoodProc(proc[e])'
    BY <1>3, <1>p, CommitGood DEF Restore
  <2> QED BY <1>3, <2>1 DEF Restore, TypeOK, RoomToFill, db, runtime, world
<1>4. ASSUME Complete(d) PROVE TypeInv'
  <2>1. proc' \in [Device -> ProcState] /\ \A e \in Device : GoodProc(proc[e])'
    BY <1>4, <1>p, CommitGood DEF Complete, Step
  <2>2. cmd' \in [CmdKey -> CmdStatus]
    BY <1>0, <1>4, Literals DEF Complete, TypeOK
  <2> QED BY <1>4, <2>1, <2>2 DEF Complete, TypeOK, RoomToFill, runtime, world
<1>5. ASSUME SaveCard(d) PROVE TypeInv'
  <2>1. proc' \in [Device -> ProcState] /\ \A e \in Device : GoodProc(proc[e])'
    BY <1>5, IdleGood, CommitGood DEF SaveCard, Step
  <2>2. p.card \in PendingState
    BY <1>0 DEF ProcState
  <2>3. pending' \in [Cid -> PendingState]
    BY <1>0, <1>5, <2>2 DEF SaveCard, TypeOK
  <2> QED BY <1>5, <2>1, <2>3 DEF SaveCard, TypeOK, RoomToFill, db, runtime, world
<1> QED BY <1>1, <1>2, <1>3, <1>4, <1>5

(* resume_replace_guarded. *)
LEMMA ResumeTyped ==
    ASSUME TypeInv, NEW d \in Device, NEW n \in Replacement,
           ResumeSubmit(d, n) \/ ResumeAdopt(d, n) \/ ResumeClose(d, n)
    PROVE  TypeInv'
<1> USE DEF TypeInv
<1>0. n \in Cid /\ Replaces[n] \in Cid
  BY ChainAssumption DEF Replacement
<1>1. CASE ResumeSubmit(d, n)
  <2>1. GoodProc([Idle EXCEPT !.pc = "revalidate", !.cur = Replaces[n], !.rep = n])
    BY <1>0, IdleGood DEF GoodProc, ProcState, Pc, Idle
  <2>2. proc' \in [Device -> ProcState] /\ \A e \in Device : GoodProc(proc[e])'
    BY <1>1, <2>1, CommitGood DEF ResumeSubmit, Step
  <2> QED BY <1>1, <2>2 DEF ResumeSubmit, TypeOK, RoomToFill, db, runtime, world
<1>2. CASE ResumeAdopt(d, n)
  <2>1. GoodProc([Idle EXCEPT !.pc = "complete", !.cur = n, !.rep = n])
    BY <1>0, IdleGood DEF GoodProc, ProcState, Pc, Idle
  <2>2. proc' \in [Device -> ProcState] /\ \A e \in Device : GoodProc(proc[e])'
    BY <1>2, <2>1, CommitGood DEF ResumeAdopt, Step
  <2> QED BY <1>2, <2>2 DEF ResumeAdopt, TypeOK, RoomToFill, db, runtime, world
<1>3. CASE ResumeClose(d, n)
  <2>1. pending' \in [Cid -> PendingState]
    BY <1>3, Literals DEF ResumeClose, TypeOK
  <2> QED BY <1>3, <2>1 DEF ResumeClose, TypeOK, RoomToFill, GoodProc, db, runtime, world
<1> QED BY <1>1, <1>2, <1>3

(* No snapshot is a snapshot. *)
LEMMA NoSnapshotType == NoSnapshot \in Snapshot
BY QtyAssumption DEF NoSnapshot, Snapshot, OrderView

(* A transaction that rolls back leaves a process to go on from. *)
LEMMA TxErrorTyped ==
    ASSUME TypeInv, NEW d \in Device, TxError(d)
    PROVE  TypeInv'
<1> DEFINE p == proc[d]
<1> USE DEF TypeInv
<1>0. GoodProc(p) /\ TypeOK /\ p \in ProcState
  BY DEF GoodProc
<1>1. GoodProc(AfterTxError(p))
  <2>1. CASE p.pc \in {"reconcile", "saveCard"}
    BY <2>1, IdleGood DEF AfterTxError
  <2>2. CASE p.pc \notin {"reconcile", "saveCard"}
    <3>1. p.pc # "idle"
      BY DEF TxError, Journaling, Transaction
    <3>2. /\ GoodProc(Finished(p, "PENDING")) /\ GoodProc(Finished(p, "CLOSED"))
          /\ GoodProc(AfterCancelFailure(p))
      BY <1>0, <2>2, <3>1, FinishedGood, Literals DEF GoodProc
    <3> QED BY <2>2, <3>2 DEF AfterTxError
  <2> QED BY <2>1, <2>2
<1>2. proc' \in [Device -> ProcState] /\ \A e \in Device : GoodProc(proc[e])'
  BY <1>1, CommitGood DEF TxError, Step
<1>3. snap' \in [Device -> Snapshot]
  BY <1>0, NoSnapshotType DEF TxError, TypeOK
<1>4. ans' \in [Device -> Answer]
  BY <1>0, LedgersTyped DEF TxError, TypeOK, CmdStatus
<1> QED BY <1>2, <1>3, <1>4 DEF TxError, TypeOK, RoomToFill, db, runtime

(* A reconciliation pass: fetch, then reduce and write. *)
LEMMA ReconcileTyped ==
    ASSUME TypeInv, NEW d \in Device, RecSnapshot(d) \/ RecApply(d)
    PROVE  TypeInv'
<1> USE DEF TypeInv
<1>1. CASE RecSnapshot(d)
  <2>1. GoodProc([Idle EXCEPT !.pc = "reconcile"])
    BY IdleGood DEF GoodProc, ProcState, Pc, Idle
  <2>2. proc' \in [Device -> ProcState] /\ \A e \in Device : GoodProc(proc[e])'
    BY <1>1, <2>1, CommitGood DEF RecSnapshot, Step
  <2>3. NoBrokerOrder \in BrokerRow
    BY QtyAssumption DEF NoBrokerOrder, BrokerRow, BrokerState
  <2>4. PICK missed, v :
          /\ v \in [Cid -> UNION {ViewOf(brk[c]) : c \in Cid}
                        \cup {[status |-> Unseen, filled |-> 0]}]
          /\ \A c \in Cid : v[c] \in ViewOf(IF c \in missed THEN NoBrokerOrder ELSE brk[c])
          /\ snap' = [snap EXCEPT ![d] = [complete |-> missed = {}, view |-> v]]
    BY <1>1 DEF RecSnapshot
  <2>5. ASSUME NEW c \in Cid PROVE v[c] \in OrderView
    <3>1. (IF c \in missed THEN NoBrokerOrder ELSE brk[c]) \in BrokerRow
      BY <2>3 DEF TypeOK
    <3> QED BY <2>4, <3>1, ViewOfType
  <2>6. v \in [Cid -> OrderView]
    BY <2>4, <2>5
  <2>7. [complete |-> missed = {}, view |-> v] \in Snapshot
    BY <2>6 DEF Snapshot
  <2>8. snap' \in [Device -> Snapshot]
    BY <2>4, <2>7 DEF TypeOK
  <2> QED BY <1>1, <2>2, <2>8 DEF RecSnapshot, TypeOK, RoomToFill, db, runtime, world
<1>2. CASE RecApply(d)
  <2> DEFINE s == snap[d]
             orders == ReduceOrders(order, s)
  <2>1. s \in Snapshot
    BY DEF TypeOK
  <2>2. orders \in [Cid -> OrderRow]
    <3>1. ASSUME NEW c \in Cid
          PROVE  ReduceOrder(order[c], s.view[c], s.complete) \in OrderRow
      <4>1. order[c] \in OrderRow /\ s.view[c] \in OrderView /\ s.complete \in BOOLEAN
        BY <2>1 DEF TypeOK, Snapshot
      <4> QED BY <4>1, ReduceOrderType
    <3> QED BY <3>1 DEF ReduceOrders
  <2>3. ReduceReservations(res, orders) \in [Cid -> ReservationStatus \cup {Absent}]
    <3>1. ASSUME NEW c \in Cid
          PROVE  SettleChain(res[c], c, orders) \in ReservationStatus \cup {Absent}
      BY SettleChainType DEF TypeOK
    <3> QED BY <3>1 DEF ReduceReservations
  <2>4. ReduceExternal(ext, orders, s) \in [Cid -> ExternalDisposition]
    BY DEF ReduceExternal, TypeOK, ExternalDisposition
  <2>5. ReducePending(pending, orders, s) \in [Cid -> PendingState]
    BY Literals DEF ReducePending, TypeOK
  <2>6. PICK C, R : Commit(d, Idle, C, R)
    BY <1>2 DEF RecApply
  <2>7. proc' \in [Device -> ProcState] /\ \A e \in Device : GoodProc(proc[e])'
    BY <2>6, IdleGood, CommitGood
  <2>8. /\ order' \in [Cid -> OrderRow]
        /\ res' \in [Cid -> ReservationStatus \cup {Absent}]
        /\ ext' \in [Cid -> ExternalDisposition]
        /\ pending' \in [Cid -> PendingState]
    BY <1>2, <2>2, <2>3, <2>4, <2>5 DEF RecApply
  <2>9. phase' \in [Device -> {"down", "standby", "active"}]
    BY <1>2 DEF RecApply, TypeOK
  <2>10. snap' \in [Device -> Snapshot]
    BY <1>2, NoSnapshotType DEF RecApply, TypeOK
  <2> QED BY <1>2, <2>7, <2>8, <2>9, <2>10 DEF RecApply, TypeOK, RoomToFill, world
<1> QED BY <1>1, <1>2

(* The broker's answer goes to a typed place. *)
LEMMA ReplyTyped ==
    ASSUME TypeOK, NEW m, NEW a \in Answer, Reply(m, a)
    PROVE  net' \subseteq Request /\ ans' \in [Device -> Answer]
BY DEF Reply, TypeOK

(* What the broker does to its orders, and that a fill never overfills one. *)
LEMMA BrokerTyped ==
    ASSUME TypeInv, Broker
    PROVE  TypeInv'
<1> USE DEF TypeInv
<1>0. BrokerOnly /\ TypeOK
  BY DEF Broker, BrokerAcceptsSubmit, BrokerRefuses, BrokerNeverReceives,
         BrokerCancels, BrokerSaysFilled, BrokerCompletesCancel, BrokerFills,
         BrokerEnds
<1>1. SUFFICES /\ net' \subseteq Request /\ ans' \in [Device -> Answer]
               /\ brk' \in [Cid -> BrokerRow] /\ RoomToFill'
  BY <1>0 DEF BrokerOnly, TypeOK, GoodProc, db, runtime
<1> DEFINE fresh == [st |-> "open", filled |-> 0, cancelling |-> FALSE]
<1>2. fresh \in BrokerRow /\ fresh.filled < Qty
  BY QtyAssumption DEF BrokerRow, BrokerState
<1>3. ASSUME NEW m \in net,
             \/ BrokerAcceptsSubmit(m) \/ BrokerRefuses(m)
             \/ BrokerNeverReceives(m) \/ BrokerCancels(m) \/ BrokerSaysFilled(m)
      PROVE  /\ net' \subseteq Request /\ ans' \in [Device -> Answer]
             /\ brk' \in [Cid -> BrokerRow] /\ RoomToFill'
  <2>0. m[2] \in Cid /\ brk[m[2]] \in BrokerRow
    BY <1>0 DEF TypeOK, Request
  <2>1. CASE BrokerAcceptsSubmit(m)
    <3>1. [st |-> "accepted", filled |-> 0] \in Answer
      BY QtyAssumption DEF Answer
    <3>2. brk' \in [Cid -> BrokerRow]
      BY <1>0, <1>2, <2>1 DEF BrokerAcceptsSubmit, TypeOK
    <3>3. RoomToFill'
      BY <1>0, <1>2, <2>1 DEF BrokerAcceptsSubmit, TypeOK, RoomToFill
    <3> QED BY <1>0, <2>1, <3>1, <3>2, <3>3, ReplyTyped DEF BrokerAcceptsSubmit
  <2>2. CASE BrokerRefuses(m)
    <3>1. [st |-> "refused", filled |-> 0] \in Answer
      BY QtyAssumption DEF Answer
    <3> QED BY <1>0, <2>2, <3>1, ReplyTyped DEF BrokerRefuses, TypeOK, RoomToFill
  <2>3. CASE BrokerNeverReceives(m)
    BY <1>0, <2>3 DEF BrokerNeverReceives, TypeOK, RoomToFill
  <2>4. CASE BrokerCancels(m)
    <3> DEFINE b == brk[m[2]]
    <3>1. ASSUME NEW st \in {"CANCELLED", "CANCEL_REQUESTED", "PARTIALLY_FILLED"}
          PROVE  [st |-> st, filled |-> b.filled] \in Answer
      BY <2>0 DEF BrokerRow, Answer
    <3>2. PICK st \in {"CANCELLED", "CANCEL_REQUESTED", "PARTIALLY_FILLED"} :
            Reply(m, [st |-> st, filled |-> b.filled])
      BY <2>4 DEF BrokerCancels
    <3>3. net' \subseteq Request /\ ans' \in [Device -> Answer]
      BY <1>0, <3>1, <3>2, ReplyTyped
    <3>4. \/ brk' = [brk EXCEPT ![m[2]] = [@ EXCEPT !.st = "cancelled"]]
          \/ brk' = [brk EXCEPT ![m[2]] = [@ EXCEPT !.cancelling = TRUE]]
      BY <2>4 DEF BrokerCancels
    <3>5. [b EXCEPT !.st = "cancelled"] \in BrokerRow /\ [b EXCEPT !.cancelling = TRUE] \in BrokerRow
      BY <2>0 DEF BrokerRow, BrokerState
    <3>6. brk' \in [Cid -> BrokerRow]
      BY <1>0, <3>4, <3>5 DEF TypeOK
    <3>7. RoomToFill'
      <4> SUFFICES ASSUME NEW c \in Cid, brk'[c].st = "open"
                   PROVE  brk[c].st = "open" /\ brk'[c].filled = brk[c].filled
        BY DEF RoomToFill
      <4>1. brk[c] \in BrokerRow
        BY <1>0 DEF TypeOK
      <4>2. CASE c # m[2]
        BY <1>0, <3>4, <4>2 DEF TypeOK
      <4>3. CASE c = m[2]
        <5>1. brk'[c] \in {[b EXCEPT !.st = "cancelled"], [b EXCEPT !.cancelling = TRUE]}
          BY <1>0, <3>4, <4>3 DEF TypeOK
        <5> QED BY <4>1, <4>3, <5>1 DEF BrokerRow
      <4> QED BY <4>2, <4>3
    <3> QED BY <3>3, <3>6, <3>7
  <2>5. CASE BrokerSaysFilled(m)
    <3>1. [st |-> "FILLED", filled |-> Qty] \in Answer
      BY QtyAssumption DEF Answer
    <3> QED BY <1>0, <2>5, <3>1, ReplyTyped DEF BrokerSaysFilled, TypeOK, RoomToFill
  <2> QED BY <1>3, <2>1, <2>2, <2>3, <2>4, <2>5
<1>4. ASSUME NEW c \in Cid,
             \/ BrokerCompletesCancel(c) \/ BrokerFills(c)
             \/ \E how \in LateEndings : BrokerEnds(c, how)
      PROVE  /\ net' \subseteq Request /\ ans' \in [Device -> Answer]
             /\ brk' \in [Cid -> BrokerRow] /\ RoomToFill'
  <2> DEFINE b == brk[c]
  <2>0. b \in BrokerRow /\ b.filled \in 0 .. Qty
    BY <1>0 DEF TypeOK, BrokerRow
  <2>1. UNCHANGED <<net, ans>> /\ b.st = "open"
    BY <1>4 DEF BrokerCompletesCancel, BrokerFills, BrokerEnds
  <2>2. ASSUME NEW how \in BrokerState \ {"open"}, brk' = [brk EXCEPT ![c].st = how]
        PROVE  brk' \in [Cid -> BrokerRow] /\ RoomToFill'
    <3>1. [b EXCEPT !.st = how] \in BrokerRow /\ [b EXCEPT !.st = how].st # "open"
      BY <2>0 DEF BrokerRow
    <3>2. brk' = [brk EXCEPT ![c] = [b EXCEPT !.st = how]]
      BY <2>2
    <3> QED BY <1>0, <3>1, <3>2 DEF TypeOK, RoomToFill
  <2>3. CASE BrokerCompletesCancel(c)
    BY <1>0, <2>1, <2>2, <2>3 DEF BrokerCompletesCancel, BrokerState, TypeOK
  <2>4. CASE BrokerFills(c)
    <3> DEFINE n == [b EXCEPT !.filled = @ + 1,
                              !.st = IF b.filled + 1 = Qty THEN "filled" ELSE @]
    <3>1. b.filled < Qty
      BY <2>1 DEF RoomToFill
    <3>2. brk' = [brk EXCEPT ![c] = n]
      BY <2>4 DEF BrokerFills
    <3>3. n \in BrokerRow /\ (n.st = "open" => n.filled < Qty)
      <4> DEFINE k == b.filled + 1
                 t == IF k = Qty THEN "filled" ELSE b.st
      <4>1. k \in 0 .. Qty /\ (k # Qty => k < Qty)
        BY <2>0, <3>1, QtyAssumption
      <4>2. t \in BrokerState /\ (t = "open" => k # Qty)
        BY <2>1 DEF BrokerState
      <4>3. n = [b EXCEPT !.filled = k, !.st = t]
        OBVIOUS
      <4> HIDE DEF k, t, n
      <4>4. n \in BrokerRow /\ n.st = t /\ n.filled = k
        BY <2>0, <4>1, <4>2, <4>3 DEF BrokerRow
      <4> QED BY <4>1, <4>2, <4>4
    <3> HIDE DEF n
    <3>4. brk' \in [Cid -> BrokerRow] /\ RoomToFill'
      BY <1>0, <3>2, <3>3 DEF TypeOK, RoomToFill
    <3> QED BY <1>0, <2>1, <3>4 DEF TypeOK
  <2>5. ASSUME NEW how \in LateEndings, BrokerEnds(c, how)
        PROVE  brk' \in [Cid -> BrokerRow] /\ RoomToFill'
    BY <2>2, <2>5, GatewayAssumption DEF BrokerEnds, BrokerState
  <2> QED BY <1>0, <1>4, <2>1, <2>3, <2>4, <2>5 DEF TypeOK
<1> QED BY <1>3, <1>4 DEF Broker

(* Starting, stopping, crashing and the change of the main device. *)
LEMMA RuntimeTyped ==
    ASSUME TypeInv, NEW d \in Device,
           Boot(d) \/ LeaseMoves(d) \/ Stop(d) \/ Crash(d)
    PROVE  TypeInv'
<1> USE DEF TypeInv
<1>0. /\ TypeOK /\ MaxEpoch \in Nat /\ MaxCrashes \in Nat
      /\ lease.epoch \in 1 .. MaxEpoch
  BY GatewayAssumption DEF TypeOK
<1>1. CASE Boot(d)
  <2>1. phase' \in [Device -> {"down", "standby", "active"}] /\ held' \in [Device -> 0 .. MaxEpoch]
    BY <1>0, <1>1 DEF Boot, TypeOK
  <2> QED BY <1>1, <2>1 DEF Boot, TypeOK, RoomToFill, GoodProc, db, world
<1>2. CASE LeaseMoves(d)
  <2>1. lease' \in [holder: Device, epoch: 1 .. MaxEpoch] /\ held' \in [Device -> 0 .. MaxEpoch]
    BY <1>0, <1>2 DEF LeaseMoves, TypeOK
  <2> QED BY <1>2, <2>1 DEF LeaseMoves, TypeOK, RoomToFill, GoodProc, db, world
<1>3. CASE Stop(d)
  <2>1. phase' \in [Device -> {"down", "standby", "active"}] /\ held' \in [Device -> 0 .. MaxEpoch]
    BY <1>0, <1>3 DEF Stop, TypeOK
  <2> QED BY <1>3, <2>1 DEF Stop, TypeOK, RoomToFill, GoodProc, db, world
<1>4. CASE Crash(d)
  <2>1. phase' \in [Device -> {"down", "standby", "active"}] /\ held' \in [Device -> 0 .. MaxEpoch]
        /\ crashes' \in 0 .. MaxCrashes
    BY <1>0, <1>4 DEF Crash, TypeOK
  <2>2. proc' \in [Device -> ProcState] /\ \A e \in Device : GoodProc(proc[e])'
    BY <1>4, IdleGood, CommitGood DEF Crash, Step
  <2>3. snap' \in [Device -> Snapshot]
    BY <1>0, <1>4, NoSnapshotType DEF Crash, TypeOK
  <2>4. ans' \in [Device -> Answer]
    BY <1>0, <1>4, LedgersTyped DEF Crash, TypeOK, CmdStatus
  <2> QED BY <1>4, <2>1, <2>2, <2>3, <2>4 DEF Crash, TypeOK, RoomToFill, db
<1> QED BY <1>1, <1>2, <1>3, <1>4

(* The first state. *)
LEMMA InitTyped == Init => TypeInv
<1> SUFFICES ASSUME Init PROVE TypeInv
  OBVIOUS
<1>1. NoRow \in OrderRow
  BY QtyAssumption DEF NoRow, OrderRow, BrokerIdentityStatus, OrderRecoveryState
<1>2. NoBrokerOrder \in BrokerRow /\ NoBrokerOrder.st # "open"
  BY QtyAssumption DEF NoBrokerOrder, BrokerRow, BrokerState
<1>3. NoAnswer \in Answer
  BY QtyAssumption DEF NoAnswer, Answer
<1>4. Idle \in ProcState
  BY IdleGood DEF GoodProc
<1>5. /\ order \in [Cid -> OrderRow] /\ cmd \in [CmdKey -> CmdStatus]
      /\ res \in [Cid -> ReservationStatus \cup {Absent}]
      /\ ext \in [Cid -> ExternalDisposition] /\ pending \in [Cid -> PendingState]
  BY <1>1 DEF Init, CmdStatus, ExternalDisposition, PendingState
<1>6. /\ lease \in [holder: Device, epoch: 1 .. MaxEpoch]
      /\ phase \in [Device -> {"down", "standby", "active"}]
      /\ held \in [Device -> 0 .. MaxEpoch] /\ crashes \in 0 .. MaxCrashes
  BY GatewayAssumption DEF Init
<1>7. /\ proc \in [Device -> ProcState] /\ snap \in [Device -> Snapshot]
      /\ \A d \in Device : GoodProc(proc[d])
  BY <1>4, IdleGood, NoSnapshotType DEF Init
<1>8. /\ brk \in [Cid -> BrokerRow] /\ net \subseteq Request
      /\ ans \in [Device -> Answer] /\ sent \in [Cid -> Nat] /\ RoomToFill
  BY <1>2, <1>3 DEF Init, RoomToFill
<1> QED BY <1>5, <1>6, <1>7, <1>8 DEF TypeInv, TypeOK

(* Every step keeps the strengthened type invariant. *)
LEMMA NextTyped == TypeInv /\ [Next]_vars => TypeInv'
<1> SUFFICES ASSUME TypeInv, [Next]_vars PROVE TypeInv'
  OBVIOUS
<1>1. CASE UNCHANGED vars
  BY <1>1 DEF vars, TypeInv, TypeOK, RoomToFill, GoodProc
<1>2. CASE Broker
  BY <1>2, BrokerTyped
<1>3. ASSUME NEW d \in Device, Start(d) PROVE TypeInv'
  BY <1>3, SubmitTyped, CancelTyped, ReplaceTyped, ResumeTyped DEF Start
<1>4. ASSUME NEW d \in Device, Continue(d) PROVE TypeInv'
  BY <1>4, SubmitTyped, CancelTyped, ReplaceTyped, ClosingTyped, TxErrorTyped,
     ReconcileTyped DEF Continue
<1>5. ASSUME NEW d \in Device,
             \/ RecSnapshot(d) \/ Boot(d) \/ LeaseMoves(d) \/ Stop(d) \/ Crash(d)
      PROVE  TypeInv'
  BY <1>5, ReconcileTyped, RuntimeTyped
<1> QED BY <1>1, <1>2, <1>3, <1>4, <1>5 DEF Next

(* The strengthened type invariant holds throughout. *)
THEOREM TypeInvariant == Spec => []TypeInv
BY InitTyped, NextTyped, PTL DEF Spec

(* Every variable of the gateway, the ledgers and the broker keeps its type: *)
(* in particular no row is written for an order that does not exist and no   *)
(* reported or broker-side fill exceeds the submitted quantity.              *)
THEOREM TypeCorrect == Spec => []TypeOK
<1>1. TypeInv => TypeOK
  BY DEF TypeInv
<1> QED BY <1>1, TypeInvariant, PTL

-----------------------------------------------------------------------------
(* A client order id crosses the broker boundary at most once, whatever the   *)
(* broker and the database do.                                               *)

(* Where a process stands between transaction 1 of _do_submit and the call.  *)
SubmitPc == {"prepared", "submitGate", "submitCall"}

Submitting(d, c) == proc[d].pc \in SubmitPc /\ proc[d].cur = c

(* The strengthening.  The duplicate-command check of the ledger is the only *)
(* thing that keeps a second submit of c away, so the ledger row has to be   *)
(* there before, during and after the one attempt; no two devices are ever   *)
(* in the same attempt, and an attempt that still has its call ahead has sent*)
(* nothing.                                                                  *)
Fresh == \A c \in Cid : cmd[<<"SUBMIT", c>>] = Absent =>
            sent[c] = 0 /\ \A d \in Device : ~Submitting(d, c)
NotYetSent == \A d \in Device, c \in Cid : Submitting(d, c) => sent[c] = 0
OneSubmitter == \A d, e \in Device, c \in Cid :
                    Submitting(d, c) /\ Submitting(e, c) => d = e
SendInv == Fresh /\ NotYetSent /\ OneSubmitter /\ AtMostOnceSend

(* A process enters the path to the broker, or stays on it, with one order.  *)
Quiet(p, q) == q.pc \in SubmitPc => p.pc \in SubmitPc /\ q.cur = p.cur

(* A step that forgets no submit command, sends nothing and puts no device   *)
(* on the path to the broker keeps the invariant.                            *)
LEMMA QuietStep ==
    ASSUME SendInv, sent' = sent,
           \A c \in Cid : cmd'[<<"SUBMIT", c>>] = Absent => cmd[<<"SUBMIT", c>>] = Absent,
           \A e \in Device : Quiet(proc[e], proc'[e])
    PROVE  SendInv'
<1>1. \A d \in Device, c \in Cid : Submitting(d, c)' => Submitting(d, c)
  BY DEF Quiet, Submitting
<1> QED BY <1>1 DEF SendInv, Fresh, NotYetSent, OneSubmitter, AtMostOnceSend

(* A commit moves nobody but the device that commits. *)
LEMMA CommitQuiet ==
    ASSUME TypeInv, NEW d \in Device, NEW p, NEW C, NEW R, Commit(d, p, C, R)
    PROVE  /\ proc'[d] = p
           /\ \A e \in Device : e # d =>
                proc'[e].pc = proc[e].pc /\ proc'[e].cur = proc[e].cur
           /\ Quiet(proc[d], p) => \A e \in Device : Quiet(proc[e], proc'[e])
<1>1. proc'[d] = p
  BY DEF Commit
<1>2. ASSUME NEW e \in Device, e # d
      PROVE  proc'[e].pc = proc[e].pc /\ proc'[e].cur = proc[e].cur
  <2>1. proc[e] \in ProcState
    BY DEF TypeInv, TypeOK
  <2> QED BY <1>2, <2>1 DEF Commit, ProcState
<1> QED BY <1>1, <1>2 DEF Quiet

(* Writing a command row forgets no command. *)
LEMMA CommandKept ==
    ASSUME TypeInv, NEW k, NEW v, v # Absent, cmd' = [cmd EXCEPT ![k] = v]
    PROVE  \A c \in Cid : cmd'[<<"SUBMIT", c>>] = Absent => cmd[<<"SUBMIT", c>>] = Absent
<1>1. \A c \in Cid : <<"SUBMIT", c>> \in CmdKey
  BY DEF CmdKey
<1> QED BY <1>1 DEF TypeInv, TypeOK

(* Where a command ends there is no way on to the broker. *)
LEMMA EndsQuiet ==
    ASSUME NEW p \in ProcState
    PROVE  /\ Idle.pc \notin SubmitPc
           /\ \A l : l \notin SubmitPc => [p EXCEPT !.pc = l].pc \notin SubmitPc
           /\ \A card : Finished(p, card).pc \notin SubmitPc
           /\ AfterCancelFailure(p).pc \notin SubmitPc
           /\ AfterTxError(p).pc \notin SubmitPc
BY DEF ProcState, Idle, SubmitPc, Finished, AfterCancelFailure, AfterTxError

(* Steps that write no command row and stay off the path, or on it. *)
LEMMA JustCommits ==
    ASSUME TypeInv, SendInv, NEW d \in Device, NEW p, NEW C, NEW R,
           Commit(d, p, C, R), Quiet(proc[d], p), UNCHANGED <<cmd, sent>>
    PROVE  SendInv'
BY CommitQuiet, QuietStep

(* Steps that also answer a command. *)
LEMMA AnswersCommand ==
    ASSUME TypeInv, SendInv, NEW d \in Device, NEW p, NEW C, NEW R, NEW k, NEW v,
           v # Absent, cmd' = [cmd EXCEPT ![k] = v],
           Commit(d, p, C, R), Quiet(proc[d], p), sent' = sent
    PROVE  SendInv'
BY CommitQuiet, CommandKept, QuietStep

(* Transaction 1 of _do_submit, in a submit or in a replace: the duplicate   *)
(* check lets a client order id pass once.                                   *)
LEMMA PreparesOnce ==
    ASSUME TypeInv, SendInv, NEW d \in Device, NEW c \in Cid, NEW p, NEW C, NEW R,
           cmd[<<"SUBMIT", c>>] = Absent,
           cmd' = [cmd EXCEPT ![<<"SUBMIT", c>>] = "REQUESTED"],
           p.pc = "prepared", p.cur = c, Commit(d, p, C, R), sent' = sent
    PROVE  SendInv'
<1>1. \A e \in Device, b \in Cid :
        Submitting(e, b)' => (e = d /\ b = c) \/ (e # d /\ Submitting(e, b))
  BY CommitQuiet DEF Submitting
<1>2. sent[c] = 0 /\ \A e \in Device : ~Submitting(e, c)
  BY DEF SendInv, Fresh
<1>3. "REQUESTED" # Absent
  BY DEF Absent
<1>4. \A b \in Cid : cmd'[<<"SUBMIT", b>>] = Absent =>
                        b # c /\ cmd[<<"SUBMIT", b>>] = Absent
  <2>1. \A b \in Cid : <<"SUBMIT", b>> \in CmdKey
    BY DEF CmdKey
  <2> QED BY <1>3, <2>1, CommandKept DEF TypeInv, TypeOK
<1>5. Fresh'
  BY <1>1, <1>4 DEF SendInv, Fresh
<1>6. NotYetSent' /\ OneSubmitter' /\ AtMostOnceSend'
  BY <1>1, <1>2 DEF SendInv, NotYetSent, OneSubmitter, AtMostOnceSend
<1> QED BY <1>5, <1>6 DEF SendInv

(* The call itself uses the one attempt up. *)
LEMMA CallsOnce ==
    ASSUME TypeInv, SendInv, NEW d \in Device, CallSubmit(d)
    PROVE  SendInv'
<1> DEFINE p == proc[d]
<1>c. PICK c \in Cid : c = p.cur
  BY DEF TypeInv, GoodProc, CallSubmit
<1>0. p.cur = c /\ p \in ProcState /\ Submitting(d, c)
  BY <1>c DEF TypeInv, TypeOK, CallSubmit, Submitting, SubmitPc
<1>1. sent[c] = 0 /\ cmd[<<"SUBMIT", c>>] # Absent
  BY <1>0 DEF SendInv, NotYetSent, Fresh
<1>2. /\ \A b \in Cid : b # c => sent'[b] = sent[b]
      /\ sent'[c] = 1 /\ cmd' = cmd
  BY <1>0, <1>1 DEF CallSubmit, db, TypeInv, TypeOK
<1>3. \A e \in Device, b \in Cid : Submitting(e, b)' => e # d /\ Submitting(e, b)
  <2>1. [p EXCEPT !.pc = "submitWait"].pc \notin SubmitPc
    BY <1>0 DEF ProcState, SubmitPc
  <2> QED BY <2>1, CommitQuiet DEF CallSubmit, Step, Submitting
<1>4. \A e \in Device : ~Submitting(e, c)'
  BY <1>0, <1>3 DEF SendInv, OneSubmitter
<1>5. Fresh' /\ NotYetSent' /\ OneSubmitter'
  BY <1>1, <1>2, <1>3, <1>4 DEF SendInv, Fresh, NotYetSent, OneSubmitter
<1>6. AtMostOnceSend'
  BY <1>2 DEF SendInv, AtMostOnceSend
<1> QED BY <1>5, <1>6 DEF SendInv

(* No step of a device sends a client order id a second time. *)
LEMMA DeviceStep ==
    ASSUME TypeInv, SendInv, NEW d \in Device,
           \/ Start(d) \/ Continue(d) \/ RecSnapshot(d)
           \/ Boot(d) \/ LeaseMoves(d) \/ Stop(d) \/ Crash(d)
    PROVE  SendInv'
<1> DEFINE p == proc[d]
<1>0. p \in ProcState /\ TypeOK
  BY DEF TypeInv, TypeOK
<1>q. ASSUME NEW q, q.pc \notin SubmitPc PROVE Quiet(p, q)
  BY <1>q DEF Quiet
<1>e. /\ Quiet(p, Idle)
      /\ \A l : l \notin SubmitPc => Quiet(p, [p EXCEPT !.pc = l])
      /\ \A card : Quiet(p, Finished(p, card))
      /\ Quiet(p, AfterCancelFailure(p)) /\ Quiet(p, AfterTxError(p))
  BY <1>0, <1>q, EndsQuiet
<1>1. ASSUME NEW c \in Cid, SubmitPrepare(d, c) PROVE SendInv'
  <2>1. LET q == [Idle EXCEPT !.pc = "prepared", !.cur = c]
        IN  q.pc = "prepared" /\ q.cur = c
    BY DEF Idle
  <2> QED BY <1>1, <2>1, PreparesOnce DEF SubmitPrepare, world
<1>2. ASSUME ReplaceSubmit(d) PROVE SendInv'
  <2>1. p.rep \in Cid
    BY <1>2 DEF ReplaceSubmit, TypeInv, GoodProc
  <2>2. LET q == [p EXCEPT !.pc = "prepared", !.cur = p.rep, !.rowOk = TRUE]
        IN  q.pc = "prepared" /\ q.cur = p.rep
    BY <1>0 DEF ProcState
  <2> QED BY <1>2, <2>1, <2>2, PreparesOnce DEF ReplaceSubmit, world
<1>3. ASSUME CallSubmit(d) PROVE SendInv'
  BY <1>3, CallsOnce
<1>4. ASSUME MarkSubmitting(d) \/ SubmitGate(d) PROVE SendInv'
  <2>1. /\ p.pc \in SubmitPc
        /\ \A l : Quiet(p, [p EXCEPT !.pc = l])
    BY <1>0, <1>4 DEF MarkSubmitting, SubmitGate, SubmitPc, Quiet, ProcState
  <2> QED BY <1>4, <2>1, JustCommits DEF MarkSubmitting, SubmitGate, Step, db, world
<1>5. ASSUME \/ SubmitAbort(d) \/ SubmitRefused(d) \/ SubmitAmbiguous(d)
             \/ CancelAbort(d) \/ CancelRefused(d) \/ CancelAmbiguous(d)
             \/ Complete(d)
      PROVE  SendInv'
  <2>1. PICK k, v, q, C, R :
          /\ v # Absent /\ cmd' = [cmd EXCEPT ![k] = v] /\ sent' = sent
          /\ Commit(d, q, C, R) /\ Quiet(p, q)
    BY <1>5, <1>e DEF SubmitAbort, SubmitRefused, SubmitAmbiguous, CancelAbort,
       CancelRefused, CancelAmbiguous, Complete, Step, world, Absent
  <2> QED BY <2>1, AnswersCommand
<1>6. ASSUME SubmitAccepted(d) \/ CancelAnswered(d) PROVE SendInv'
  <2>1. /\ Quiet(p, IF p.rep = NoCid THEN Idle ELSE [p EXCEPT !.pc = "complete"])
        /\ Quiet(p, IF p.rep = NoCid THEN Idle ELSE [p EXCEPT !.pc = "fence"])
    BY <1>e DEF SubmitPc
  <2>2. "ACKNOWLEDGED" # Absent
    BY DEF Absent
  <2>3. CASE SubmitAccepted(d)
    <3>1. /\ cmd' = [cmd EXCEPT ![<<"SUBMIT", p.cur>>] = "ACKNOWLEDGED"] /\ sent' = sent
          /\ Commit(d, IF p.rep = NoCid THEN Idle ELSE [p EXCEPT !.pc = "complete"],
                    {p.cur}, {})
      BY <2>3 DEF SubmitAccepted
    <3> QED BY <2>1, <2>2, <3>1, AnswersCommand
  <2>4. CASE CancelAnswered(d)
    <3>1. /\ cmd' = [cmd EXCEPT ![<<"CANCEL", p.key>>] = "ACKNOWLEDGED"] /\ sent' = sent
          /\ \E R : Commit(d, IF p.rep = NoCid THEN Idle ELSE [p EXCEPT !.pc = "fence"],
                           {p.cur}, R)
      BY <2>4 DEF CancelAnswered
    <3> QED BY <2>1, <2>2, <3>1, AnswersCommand
  <2> QED BY <1>6, <2>3, <2>4
<1>7. ASSUME \/ \E c \in Cid, k \in CancelId : CancelStart(d, c, k)
             \/ CancelJournal(d)
      PROVE  SendInv'
  <2>1. ASSUME NEW q, JournalCancel(d, q),
               \A s : [q EXCEPT !.pc = "cancelGate", !.pre = s].pc = "cancelGate"
        PROVE  SendInv'
    <3>1. Quiet(p, [q EXCEPT !.pc = "cancelGate", !.pre = order[q.cur].status])
      BY <1>q, <2>1 DEF SubmitPc
    <3> QED BY <2>1, <3>1, AnswersCommand DEF JournalCancel, world, Absent
  <2>2. \A s : [p EXCEPT !.pc = "cancelGate", !.pre = s].pc = "cancelGate"
    BY <1>0 DEF ProcState
  <2>3. ASSUME NEW c, NEW k, NEW f, NEW s
        PROVE  [[Idle EXCEPT !.cur = c, !.key = k, !.fill = f]
                    EXCEPT !.pc = "cancelGate", !.pre = s].pc = "cancelGate"
    BY DEF Idle
  <2>4. CASE CancelJournal(d)
    BY <2>1, <2>2, <2>4 DEF CancelJournal
  <2>5. ASSUME NEW c \in Cid, NEW k \in CancelId, CancelStart(d, c, k) PROVE SendInv'
    <3> DEFINE q == [Idle EXCEPT !.cur = c, !.key = k, !.fill = order[c].filled]
    <3>1. JournalCancel(d, q)
      BY <2>5 DEF CancelStart
    <3>2. \A s : [q EXCEPT !.pc = "cancelGate", !.pre = s].pc = "cancelGate"
      BY <2>3
    <3> HIDE DEF q
    <3> QED BY <2>1, <3>1, <3>2
  <2> QED BY <1>7, <2>4, <2>5
<1>8. ASSUME ReplaceJournal(d) PROVE SendInv'
  <2> DEFINE f == order[p.cur].filled
             q == [p EXCEPT !.pc = "cancelJournal", !.key = p.rep, !.base = f,
                            !.fill = f, !.rowOk = TRUE, !.resOk = TRUE]
  <2>1. Quiet(p, q)
    BY <1>0 DEF Quiet, SubmitPc, ProcState
  <2> QED BY <1>8, <2>1, AnswersCommand DEF ReplaceJournal, world, Absent
<1>9. ASSUME \/ CancelGate(d) \/ CallCancel(d) \/ PollTimesOut(d) \/ ReplaceAbandon(d)
             \/ Release(d) \/ ReleasePrepared(d) \/ Restore(d) \/ SaveCard(d)
             \/ TxError(d) \/ RecApply(d) \/ Crash(d)
      PROVE  SendInv'
  <2>1. PICK q, C, R : Commit(d, q, C, R) /\ Quiet(p, q) /\ UNCHANGED <<cmd, sent>>
    BY <1>9, <1>e DEF CancelGate, CallCancel, PollTimesOut, ReplaceAbandon, Release,
       ReleasePrepared, Restore, SaveCard, TxError, RecApply, Crash, Step, db, world,
       SubmitPc
  <2> QED BY <2>1, JustCommits
<1>10. ASSUME Fence(d) PROVE SendInv'
  <2> DEFINE o == order[p.cur]
             q == [p EXCEPT !.pre = o.status, !.fill = o.filled, !.rowOk = TRUE]
  <2>1. q.pc = "fence" /\ q.cur = p.cur /\ \A l : [q EXCEPT !.pc = l].pc = l
    BY <1>0, <1>10 DEF Fence, ProcState
  <2>2. \A card : Finished(q, card).pc \notin SubmitPc
    BY <1>0 DEF Finished, ProcState, Idle, SubmitPc
  <2> HIDE DEF q
  <2>3. PICK t : /\ t \in {[q EXCEPT !.pc = "poll"], [q EXCEPT !.pc = "releasePrepared"],
                           Finished(q, "PENDING")}
                 /\ \E C : Commit(d, t, C, {})
    BY <1>10 DEF Fence, q
  <2>4. Quiet(p, t)
    BY <1>q, <2>1, <2>2, <2>3 DEF SubmitPc
  <2> QED BY <1>10, <2>3, <2>4, JustCommits DEF Fence, world
<1>11. ASSUME PollApplies(d) \/ PollSkips(d) PROVE SendInv'
  <2>1. ASSUME NEW f, NEW o
        PROVE  Quiet(p, AfterInquiry([p EXCEPT !.fill = f], o))
    <3> DEFINE q == [p EXCEPT !.fill = f]
    <3>1. /\ \A l : [q EXCEPT !.pc = l].pc = l
          /\ \A card : Finished(q, card).pc \notin SubmitPc
      BY <1>0 DEF Finished, ProcState, Idle, SubmitPc
    <3> HIDE DEF q
    <3>2. AfterInquiry(q, o).pc \notin SubmitPc
      BY <3>1 DEF AfterInquiry, SubmitPc
    <3> QED BY <1>q, <3>2 DEF q
  <2>2. ASSUME NEW f PROVE Quiet(p, [p EXCEPT !.fill = f])
    BY <1>0 DEF Quiet, ProcState
  <2>3. PICK q, C : Commit(d, q, C, {}) /\ Quiet(p, q) /\ UNCHANGED <<cmd, sent>>
    BY <1>11, <2>1, <2>2 DEF PollApplies, PollSkips, Step, db, world
  <2> QED BY <2>3, JustCommits
<1>12. ASSUME NEW n \in Replacement,
              \/ ReplaceIntent(d, n) \/ ResumeSubmit(d, n) \/ ResumeAdopt(d, n)
       PROVE  SendInv'
  <2>1. ASSUME NEW l, NEW c, NEW r, l \notin SubmitPc
        PROVE  Quiet(p, [Idle EXCEPT !.pc = l, !.cur = c, !.rep = r])
    BY <2>1 DEF Quiet, Idle
  <2>2. PICK q : Step(d, q) /\ Quiet(p, q) /\ UNCHANGED <<cmd, sent>>
    BY <1>12, <2>1 DEF ReplaceIntent, ResumeSubmit, ResumeAdopt, db, world, SubmitPc
  <2> QED BY <2>2, JustCommits DEF Step
<1>13. ASSUME RecSnapshot(d) PROVE SendInv'
  <2>1. Quiet(p, [Idle EXCEPT !.pc = "reconcile"])
    BY DEF Quiet, Idle, SubmitPc
  <2> QED BY <1>13, <2>1, JustCommits DEF RecSnapshot, Step, db, world
<1>14. ASSUME \/ \E n \in Replacement : ResumeClose(d, n)
              \/ Boot(d) \/ LeaseMoves(d) \/ Stop(d)
       PROVE  SendInv'
  <2>1. UNCHANGED <<cmd, sent, proc>>
    BY <1>14 DEF ResumeClose, Boot, LeaseMoves, Stop, db, world
  <2> QED BY <2>1, QuietStep DEF Quiet
<1>15. CASE Start(d)
  BY <1>1, <1>7, <1>12, <1>14, <1>15 DEF Start
<1>16. CASE Continue(d)
  BY <1>2, <1>3, <1>4, <1>5, <1>6, <1>7, <1>8, <1>9, <1>10, <1>11, <1>16 DEF Continue
<1> QED BY <1>9, <1>13, <1>14, <1>15, <1>16

(* SendInv is inductive relative to the types. *)
LEMMA SendInvStep == TypeInv /\ SendInv /\ [Next]_vars => SendInv'
<1> SUFFICES ASSUME TypeInv, SendInv, [Next]_vars PROVE SendInv'
  OBVIOUS
<1>1. CASE UNCHANGED vars
  BY <1>1, QuietStep DEF vars, Quiet
<1>2. CASE Broker
  <2>1. UNCHANGED <<cmd, sent, proc>>
    BY <1>2 DEF Broker, BrokerAcceptsSubmit, BrokerRefuses, BrokerNeverReceives,
       BrokerCancels, BrokerSaysFilled, BrokerCompletesCancel, BrokerFills,
       BrokerEnds, BrokerOnly, db
  <2> QED BY <2>1, QuietStep DEF Quiet
<1> QED BY <1>1, <1>2, DeviceStep DEF Next

(* The at-most-once guarantee of the gateway (SubmitPrepare's duplicate check *)
(* and the order of _do_submit): whatever crashes, lost answers, failing      *)
(* transactions, resumed replacements and changes of the main device happen,  *)
(* no client order id crosses the broker boundary twice.                      *)
THEOREM SentAtMostOnce == Spec => []AtMostOnceSend
<1>1. Init => SendInv
  BY DEF Init, SendInv, Fresh, NotYetSent, OneSubmitter, AtMostOnceSend, Submitting,
         SubmitPc, Idle
<1>2. SendInv => AtMostOnceSend
  BY DEF SendInv
<1> QED BY <1>1, <1>2, SendInvStep, TypeInvariant, PTL DEF Spec

-----------------------------------------------------------------------------
(***************************************************************************)
(* What the durable ledgers say of the broker: the records follow their    *)
(* state machine, everything that may be at the broker is on record,       *)
(* nothing recorded as over still trades, no two orders of a chain overlap.*)
(*                                                                         *)
(* Two invariants carry it.  LedgerInv relates the rows to the commands, to*)
(* what a device with the current version of a row knows of it, and to the *)
(* broker's fills.  TruthInv, on top of it, relates every final status (in *)
(* a row, a snapshot or an answer) to the broker's own.  A step of a device*)
(* is first described by its Effect, row by row; the invariants follow from*)
(* the effect alone.                                                       *)
(***************************************************************************)
(* What one write may do to one row. *)

(* A row as the gateway keeps it: the recovery states it uses, and an        *)
(* identity that belongs to the status.                                      *)
LegalRow(o) ==
    /\ o.recovery \in {"NONE", "DISCOVERING", "MANUAL_INTERVENTION_REQUIRED"}
    /\ IF o.status = Absent THEN o = NoRow ELSE o.identity \in LegalIdentity(o.status)

(* n may be written over o: the order record's rules for one write. *)
LegalEdit(o, n) ==
    /\ n.status # Absent
    /\ o.status # n.status =>
         \/ o.status = Absent /\ n.status = "PREPARED"
         \/ ReachableStatus(o, n.status)
    /\ o.recovery # n.recovery =>
         n.recovery \in allowed_recovery_transitions(o.recovery)
    /\ o.identity = "EXACT" => n.identity = "EXACT"
    /\ n.filled >= o.filled

(* apply_status_transition along an edge of the graph. *)
LEMMA ApplyLegal ==
    ASSUME NEW o \in OrderRow, LegalRow(o), NEW t, ReachableStatus(o, t)
    PROVE  /\ ApplyStatus(o, t) \in OrderRow /\ LegalRow(ApplyStatus(o, t))
           /\ ApplyStatus(o, t).status = t
           /\ ApplyStatus(o, t).recovery = o.recovery /\ ApplyStatus(o, t).filled = o.filled
           /\ o.identity = "EXACT" => ApplyStatus(o, t).identity = "EXACT"
           /\ LegalEdit(o, ApplyStatus(o, t))
<1>1. o.status \in OpenStatus /\ t \in ExecutionOrderStatus
  BY AllowedType DEF ReachableStatus, allowed_status_transitions, ExecutionOrderStatus
<1>2. ApplyStatus(o, t) \in OrderRow
  BY <1>1, ApplyStatusType
<1>3. /\ ApplyStatus(o, t).status = t /\ ApplyStatus(o, t).identity = IdentityAfter(o, t)
      /\ ApplyStatus(o, t).recovery = o.recovery /\ ApplyStatus(o, t).filled = o.filled
  BY DEF ApplyStatus, OrderRow
<1>4. o.identity \in LegalIdentity(o.status) /\ o.status # Absent /\ t # Absent
  BY <1>1 DEF LegalRow, OpenStatus, ExecutionOrderStatus, Absent
<1>5. IdentityAfter(o, t) \in LegalIdentity(t)
  BY <1>1, <1>4 DEF IdentityAfter, LegalIdentity, ReachableStatus, allowed_status_transitions, StatusEdges,
      OpenStatus, ExecutionOrderStatus, TerminalStatus
<1>6. o.identity = "EXACT" => IdentityAfter(o, t) = "EXACT"
  BY <1>4 DEF IdentityAfter, LegalIdentity
<1>7. LegalRow(ApplyStatus(o, t))
  BY <1>3, <1>4, <1>5 DEF LegalRow
<1>8. o.filled \in Int
  BY QtyAssumption DEF OrderRow
<1> QED BY <1>2, <1>3, <1>4, <1>6, <1>7, <1>8 DEF LegalEdit

(* _with_filled_quantity. *)
LEMMA FillLegal ==
    ASSUME NEW o \in OrderRow, LegalRow(o), o.status # Absent, NEW f \in 0 .. Qty
    PROVE  /\ WithFill(o, f) \in OrderRow /\ LegalRow(WithFill(o, f))
           /\ WithFill(o, f).status = o.status /\ WithFill(o, f).recovery = o.recovery
           /\ WithFill(o, f).identity = o.identity
           /\ WithFill(o, f).filled >= o.filled /\ WithFill(o, f).filled \in {o.filled, f}
           /\ WithFill(o, f).filled >= f
           /\ LegalEdit(o, WithFill(o, f))
<1>1. WithFill(o, f) \in OrderRow /\ WithFill(o, f).filled >= o.filled
  BY WithFillType
<1>2. /\ WithFill(o, f).status = o.status /\ WithFill(o, f).recovery = o.recovery
      /\ WithFill(o, f).identity = o.identity /\ WithFill(o, f).filled \in {o.filled, f}
      /\ WithFill(o, f).filled >= f
  BY QtyAssumption DEF WithFill, OrderRow
<1> HIDE DEF WithFill
<1> QED BY <1>1, <1>2 DEF LegalEdit, LegalRow

(* _set_recovery_state. *)
LEMMA RecoveryLegal ==
    ASSUME NEW o \in OrderRow, LegalRow(o), o.status # Absent,
           NEW r \in {"NONE", "MANUAL_INTERVENTION_REQUIRED"}
    PROVE  /\ SetRecovery(o, r) \in OrderRow /\ LegalRow(SetRecovery(o, r))
           /\ SetRecovery(o, r).status = o.status
           /\ SetRecovery(o, r).identity = o.identity
           /\ SetRecovery(o, r).filled = o.filled
           /\ o.recovery # SetRecovery(o, r).recovery =>
                SetRecovery(o, r).recovery \in allowed_recovery_transitions(o.recovery)
<1>1. r \in OrderRecoveryState
  BY DEF OrderRecoveryState
<1>2. SetRecovery(o, r) \in OrderRow
  BY <1>1, SetRecoveryType
<1>3. /\ SetRecovery(o, r).status = o.status
      /\ SetRecovery(o, r).identity = o.identity
      /\ SetRecovery(o, r).filled = o.filled
  BY DEF SetRecovery, OrderRow
<1>4. o.recovery # SetRecovery(o, r).recovery =>
                SetRecovery(o, r).recovery \in allowed_recovery_transitions(o.recovery)
  BY DEF SetRecovery, OrderRow, LegalRow, allowed_recovery_transitions, RecoveryEdges
<1>5. SetRecovery(o, r).recovery \in {"NONE", "DISCOVERING", "MANUAL_INTERVENTION_REQUIRED"}
  BY DEF SetRecovery, OrderRow, LegalRow, allowed_recovery_transitions, RecoveryEdges
<1> HIDE DEF SetRecovery
<1>6. LegalRow(SetRecovery(o, r))
  BY <1>3, <1>5 DEF LegalRow
<1> QED BY <1>2, <1>3, <1>4, <1>6

(* The end of a discovery. *)
LEMMA ClearLegal ==
    ASSUME NEW o \in OrderRow, LegalRow(o), o.status # Absent, NEW v
    PROVE  /\ ClearDiscovery(o, v) \in OrderRow /\ LegalRow(ClearDiscovery(o, v))
           /\ ClearDiscovery(o, v).status = o.status
           /\ ClearDiscovery(o, v).identity = o.identity
           /\ ClearDiscovery(o, v).filled = o.filled
           /\ o.recovery # ClearDiscovery(o, v).recovery =>
                ClearDiscovery(o, v).recovery \in allowed_recovery_transitions(o.recovery)
<1>1. ClearDiscovery(o, v) \in {o, SetRecovery(o, "NONE")}
  <2>1. o.recovery # "AWAITING_CANCEL_CONFIRMATION"
    BY DEF LegalRow
  <2> QED BY <2>1 DEF ClearDiscovery
<1> QED BY <1>1, RecoveryLegal

(* The reducer writes what the record's rules allow, from what the report says. *)
LEMMA ReduceLegal ==
    ASSUME NEW o \in OrderRow, LegalRow(o), NEW v \in OrderView, NEW complete \in BOOLEAN
    PROVE  LET n == ReduceOrder(o, v, complete) IN
           \/ n = o
           \/ /\ LegalEdit(o, n) /\ LegalRow(n) /\ n \in OrderRow
              /\ n.filled \in {o.filled, v.filled}
              /\ n.status # o.status => n.status = v.status /\ o.identity = "EXACT"
<1> DEFINE n == ReduceOrder(o, v, complete)
           f == WithFill(o, v.filled)
<1>0. v.filled \in 0 .. Qty /\ o.filled \in 0 .. Qty
  BY DEF OrderView, OrderRow
<1>1. CASE o.status = Absent
  <2>1. o = NoRow
    BY <1>1 DEF LegalRow
  <2>2. n = o
    BY <2>1 DEF ReduceOrder, IsAmbiguousSubmission, NoRow
  <2> QED BY <2>2
<1>2. CASE o.status # Absent
  <2>1. /\ f \in OrderRow /\ LegalRow(f) /\ f.status = o.status /\ f.recovery = o.recovery
        /\ f.identity = o.identity /\ f.filled >= o.filled /\ f.filled \in {o.filled, v.filled}
        /\ LegalEdit(o, f)
    BY <1>0, <1>2, FillLegal
  <2> HIDE DEF f
  <2>2. ASSUME NEW q \in {f, o}, NEW r, r \in OrderRow, LegalRow(r), r.status = q.status,
               r.identity = q.identity, r.filled = q.filled,
               q.recovery # r.recovery => r.recovery \in allowed_recovery_transitions(q.recovery)
        PROVE  /\ LegalEdit(o, r) /\ r.filled \in {o.filled, v.filled} /\ r.status = o.status
    BY <1>0, <1>2, <2>1, <2>2 DEF LegalEdit
  <2>3. CASE ReachableStatus(o, v.status) /\ n = ClearDiscovery(ApplyStatus(f, v.status), v) /\ o.identity = "EXACT"
    <3> DEFINE a == ApplyStatus(f, v.status)
    <3>1. ReachableStatus(f, v.status)
      BY <2>1, <2>3 DEF ReachableStatus
    <3>2. /\ a \in OrderRow /\ LegalRow(a) /\ a.status = v.status /\ a.recovery = f.recovery
          /\ a.filled = f.filled /\ (f.identity = "EXACT" => a.identity = "EXACT")
          /\ LegalEdit(f, a)
      BY <2>1, <3>1, ApplyLegal
    <3>3. a.status # Absent
      BY <3>2 DEF LegalEdit
    <3> HIDE DEF a
    <3>4. /\ n \in OrderRow /\ LegalRow(n) /\ n.status = a.status /\ n.identity = a.identity
          /\ n.filled = a.filled
          /\ a.recovery # n.recovery => n.recovery \in allowed_recovery_transitions(a.recovery)
      BY <2>3, <3>2, <3>3, ClearLegal DEF a
    <3> QED BY <2>1, <2>3, <3>2, <3>3, <3>4 DEF LegalEdit
  <2>4. CASE ~(ReachableStatus(o, v.status) /\ n = ClearDiscovery(ApplyStatus(f, v.status), v) /\ o.identity = "EXACT")
    <3>1. n \in {o, f, ClearDiscovery(f, v), SetRecovery(f, "MANUAL_INTERVENTION_REQUIRED"),
                 SetRecovery(o, "MANUAL_INTERVENTION_REQUIRED")}
      BY <2>4 DEF ReduceOrder, ApplyExactSnapshot, f
    <3>2. CASE n = o \/ n = f
      BY <2>1, <3>2
    <3>3. CASE n = ClearDiscovery(f, v)
      BY <1>2, <2>1, <2>2, <3>3, ClearLegal
    <3>4. CASE n = SetRecovery(f, "MANUAL_INTERVENTION_REQUIRED")
      BY <1>2, <2>1, <2>2, <3>4, RecoveryLegal
    <3>5. CASE n = SetRecovery(o, "MANUAL_INTERVENTION_REQUIRED")
      BY <1>2, <2>1, <2>2, <3>5, RecoveryLegal
    <3> QED BY <3>1, <3>2, <3>3, <3>4, <3>5
  <2> QED BY <2>3, <2>4
<1> QED BY <1>1, <1>2

-----------------------------------------------------------------------------
(* The broker. *)

(* The broker's final words. *)
Ended == BrokerState \ {"none", "open"}

(* A submit on its way is alone and its order not yet at the broker, which   *)
(* knows no order that was never sent.                                       *)
BrokerInv ==
    /\ \A c \in Cid, d \in Device : <<"submit", c, d>> \in net =>
          /\ sent[c] > 0 /\ brk[c].st = "none"
          /\ \A e \in Device : <<"submit", c, e>> \in net => e = d
    /\ \A c \in Cid : sent[c] = 0 => brk[c].st = "none"
    /\ \A c \in Cid : brk[c].st = "none" => brk[c].filled = 0
    /\ \A c \in Cid : brk[c].st = "filled" => brk[c].filled = Qty

(* What the broker never takes back about an order. *)
BrokerStable(c) ==
    /\ brk'[c].filled >= brk[c].filled
    /\ brk[c].st \in Ended => brk'[c].st = brk[c].st
    /\ brk'[c].st = "none" => brk[c].st = "none"
    /\ brk[c].cancelling => brk[c].st = "none" \/ brk'[c].cancelling

(* A device writes neither the broker's orders nor, but for a call, requests. *)
LEMMA DeviceLeavesBroker ==
    ASSUME NEW d \in Device,
           \/ Start(d) \/ Continue(d) \/ RecSnapshot(d)
           \/ Boot(d) \/ LeaseMoves(d) \/ Stop(d) \/ Crash(d)
    PROVE  /\ brk' = brk
           /\ \/ net' = net /\ sent' = sent
              \/ CallSubmit(d)
              \/ net' = net \cup {<<"cancel", proc[d].cur, d>>} /\ sent' = sent
<1>1. CASE Start(d)
  BY <1>1 DEF Start, SubmitPrepare, CancelStart, JournalCancel, ReplaceIntent, ResumeSubmit,
     ResumeAdopt, ResumeClose, world
<1>2. CASE CallCancel(d)
  BY <1>2 DEF CallCancel
<1>3. CASE CallSubmit(d)
  BY <1>3 DEF CallSubmit
<1>4. ASSUME \/ MarkSubmitting(d) \/ SubmitGate(d) \/ SubmitAbort(d)
    \/ SubmitAccepted(d) \/ SubmitRefused(d) \/ SubmitAmbiguous(d)
    \/ CancelGate(d) \/ CancelAbort(d) 
    \/ CancelAnswered(d) \/ CancelRefused(d) \/ CancelAmbiguous(d)
      PROVE brk' = brk /\ net' = net /\ sent' = sent
  BY <1>4 DEF MarkSubmitting, SubmitGate, SubmitAbort, SubmitAccepted, SubmitRefused, SubmitAmbiguous,
     CancelGate, CancelAbort, CancelAnswered, CancelRefused, CancelAmbiguous, world
<1>5. ASSUME \/ ReplaceJournal(d) \/ CancelJournal(d) \/ Fence(d)
    \/ PollApplies(d) \/ PollSkips(d) \/ PollTimesOut(d)
    \/ ReplaceSubmit(d) \/ ReplaceAbandon(d)
    \/ Release(d) \/ ReleasePrepared(d) \/ Restore(d) \/ Complete(d) \/ SaveCard(d)
    \/ TxError(d) \/ RecApply(d)
      PROVE brk' = brk /\ net' = net /\ sent' = sent
  BY <1>5 DEF ReplaceJournal, CancelJournal, JournalCancel, Fence, PollApplies, PollSkips, PollTimesOut,
     ReplaceSubmit, ReplaceAbandon, Release, ReleasePrepared, Restore, Complete, SaveCard, TxError, RecApply, world
<1>6. CASE RecSnapshot(d) \/ Boot(d) \/ LeaseMoves(d) \/ Stop(d) \/ Crash(d)
  BY <1>6 DEF RecSnapshot, Boot, LeaseMoves, Stop, Crash, world
<1> QED BY <1>1, <1>2, <1>3, <1>4, <1>5, <1>6 DEF Continue

(* Each of the broker's own steps. *)
LEMMA BrokerMoves ==
    ASSUME TypeInv, BrokerInv, Broker
    PROVE  BrokerInv' /\ (\A c \in Cid : BrokerStable(c)) /\ sent' = sent
<1>0. TypeOK /\ sent' = sent /\ net \subseteq Request /\ net' \subseteq net
  BY DEF TypeInv, TypeOK, Broker, BrokerAcceptsSubmit, BrokerRefuses, BrokerNeverReceives,
         BrokerCancels, BrokerSaysFilled, BrokerCompletesCancel, BrokerFills,
         BrokerEnds, BrokerOnly, Reply
<1>t. \A c \in Cid : brk[c] \in BrokerRow /\ brk[c].filled \in Int
  BY QtyAssumption DEF TypeInv, TypeOK, BrokerRow
(* Only one order changes, along the broker's own life cycle. *)
<1>m. ASSUME NEW c \in Cid, NEW n \in BrokerRow, brk' = [brk EXCEPT ![c] = n],
             n.filled >= brk[c].filled,
             brk[c].st \in Ended => n.st = brk[c].st,
             n.st # "none",
             brk[c].st = "none" => sent[c] > 0 /\ \A d \in Device : <<"submit", c, d>> \notin net',
             n.st = "filled" => n.filled = Qty,
             brk[c].cancelling => brk[c].st = "none" \/ n.cancelling
      PROVE  BrokerInv' /\ \A b \in Cid : BrokerStable(b)
  <2>1. \A b \in Cid : brk'[b] = IF b = c THEN n ELSE brk[b]
    BY <1>0, <1>m DEF TypeOK
  <2>2. \A b \in Cid : BrokerStable(b)
    BY <1>t, <1>m, <2>1 DEF BrokerStable
  <2>3. ASSUME NEW b \in Cid, NEW d \in Device, <<"submit", b, d>> \in net'
        PROVE  /\ sent[b] > 0 /\ brk'[b].st = "none"
               /\ \A e \in Device : <<"submit", b, e>> \in net' => e = d
    BY <1>0, <1>m, <2>1, <2>3 DEF BrokerInv
  <2>4. \A b \in Cid : /\ sent'[b] = 0 => brk'[b].st = "none"
                       /\ brk'[b].st = "none" => brk'[b].filled = 0
                       /\ brk'[b].st = "filled" => brk'[b].filled = Qty
    BY <1>0, <1>m, <2>1 DEF BrokerInv, Ended
  <2> QED BY <1>0, <2>2, <2>3, <2>4 DEF BrokerInv
<1>u. ASSUME brk' = brk PROVE BrokerInv' /\ \A b \in Cid : BrokerStable(b)
  BY <1>0, <1>t, <1>u DEF BrokerInv, BrokerStable
<1>1. ASSUME NEW m \in net, BrokerAcceptsSubmit(m) PROVE BrokerInv' /\ \A b \in Cid : BrokerStable(b)
  <2>1. PICK c \in Cid, d \in Device : m = <<"submit", c, d>>
    BY <1>0, <1>1 DEF BrokerAcceptsSubmit, Request
  <2>2. sent[c] > 0 /\ brk[c].st = "none" /\ brk[c].filled = 0 /\ \A e \in Device : <<"submit", c, e>> \notin net'
    BY <1>1, <2>1 DEF BrokerInv, BrokerAcceptsSubmit, Reply
  <2> DEFINE n == [st |-> "open", filled |-> 0, cancelling |-> FALSE]
  <2>3. n \in BrokerRow /\ brk' = [brk EXCEPT ![c] = n]
    BY <1>1, <2>1, QtyAssumption DEF BrokerAcceptsSubmit, BrokerRow, BrokerState
  <2>4. n.filled = 0 /\ n.st = "open"
    OBVIOUS
  <2> HIDE DEF n
  <2>5. /\ n.filled >= brk[c].filled /\ n.st # "none"
        /\ brk[c].st \notin Ended /\ n.st # "filled"
    BY <2>2, <2>4 DEF Ended
  <2> QED BY <1>m, <2>2, <2>3, <2>5
<1>2. ASSUME NEW m \in net, BrokerRefuses(m) \/ BrokerNeverReceives(m) \/ BrokerSaysFilled(m)
      PROVE BrokerInv' /\ \A b \in Cid : BrokerStable(b)
  BY <1>2, <1>u DEF BrokerRefuses, BrokerNeverReceives, BrokerSaysFilled
<1>3. ASSUME NEW c \in Cid, brk[c].st = "open",
             NEW n \in BrokerRow, brk' = [brk EXCEPT ![c] = n],
             n.filled >= brk[c].filled, n.st # "none", n.st = "filled" => n.filled = Qty,
             brk[c].cancelling => n.cancelling
      PROVE BrokerInv' /\ \A b \in Cid : BrokerStable(b)
  BY <1>3, <1>m DEF Ended
<1>4. ASSUME NEW m \in net, BrokerCancels(m) PROVE BrokerInv' /\ \A b \in Cid : BrokerStable(b)
  <2>1. m[2] \in Cid /\ brk[m[2]] \in BrokerRow /\ brk[m[2]].st = "open"
    BY <1>0, <1>4 DEF BrokerCancels, Request, TypeOK
  <2> DEFINE b == brk[m[2]]
  <2>2. \/ brk' = [brk EXCEPT ![m[2]] = [b EXCEPT !.st = "cancelled"]]
        \/ brk' = [brk EXCEPT ![m[2]] = [b EXCEPT !.cancelling = TRUE]]
    BY <1>4 DEF BrokerCancels
  <2>3. ASSUME NEW n, n = [b EXCEPT !.st = "cancelled"] \/ n = [b EXCEPT !.cancelling = TRUE]
        PROVE  /\ n \in BrokerRow /\ n.filled >= b.filled /\ n.st \in {"cancelled", "open"}
               /\ b.cancelling => n.cancelling
    <3>1. b \in BrokerRow /\ b.filled >= b.filled /\ b.st = "open"
      BY <1>t, <2>1
    <3> HIDE DEF b
    <3>2. CASE n = [b EXCEPT !.st = "cancelled"]
      BY <3>1, <3>2 DEF BrokerRow, BrokerState
    <3>3. CASE n = [b EXCEPT !.cancelling = TRUE]
      BY <3>1, <3>3 DEF BrokerRow, BrokerState
    <3> QED BY <2>3, <3>2, <3>3
  <2>4. CASE brk' = [brk EXCEPT ![m[2]] = [b EXCEPT !.st = "cancelled"]]
    <3> DEFINE n == [b EXCEPT !.st = "cancelled"]
    <3>1. brk' = [brk EXCEPT ![m[2]] = n]
      BY <2>4
    <3>2. n \in BrokerRow /\ n.filled >= b.filled /\ n.st \in {"cancelled", "open"} /\ (b.cancelling => n.cancelling)
      BY <2>3
    <3> HIDE DEF n
    <3> QED BY <1>3, <2>1, <3>1, <3>2
  <2>5. CASE brk' = [brk EXCEPT ![m[2]] = [b EXCEPT !.cancelling = TRUE]]
    <3> DEFINE n == [b EXCEPT !.cancelling = TRUE]
    <3>1. brk' = [brk EXCEPT ![m[2]] = n]
      BY <2>5
    <3>2. n \in BrokerRow /\ n.filled >= b.filled /\ n.st \in {"cancelled", "open"} /\ (b.cancelling => n.cancelling)
      BY <2>3
    <3> HIDE DEF n
    <3> QED BY <1>3, <2>1, <3>1, <3>2
  <2> QED BY <2>2, <2>4, <2>5
<1>5. ASSUME NEW c \in Cid, NEW s \in {"cancelled", "expired", "rejected"}, brk[c].st = "open",
             brk' = [brk EXCEPT ![c].st = s]
      PROVE BrokerInv' /\ \A b \in Cid : BrokerStable(b)
  <2> DEFINE n == [brk[c] EXCEPT !.st = s]
  <2>1. brk' = [brk EXCEPT ![c] = n]
    BY <1>5
  <2>2. n \in BrokerRow /\ n.filled >= brk[c].filled /\ n.st = s /\ n.cancelling = brk[c].cancelling
    BY <1>t DEF BrokerRow, BrokerState
  <2> HIDE DEF n
  <2> QED BY <1>3, <1>5, <2>1, <2>2
<1>6. ASSUME NEW c \in Cid, BrokerFills(c) PROVE BrokerInv' /\ \A b \in Cid : BrokerStable(b)
  <2> DEFINE k == brk[c].filled + 1
             t == IF k = Qty THEN "filled" ELSE brk[c].st
             n == [brk[c] EXCEPT !.filled = k, !.st = t]
  <2>1. brk' = [brk EXCEPT ![c] = n] /\ brk[c].st = "open"
    BY <1>6 DEF BrokerFills
  <2>2. k \in 0 .. Qty /\ k >= brk[c].filled
    BY <2>1, <1>t, QtyAssumption DEF TypeInv, RoomToFill, TypeOK, BrokerRow
  <2>3. t \in BrokerState /\ t # "none" /\ (t = "filled" => k = Qty)
    BY <2>1 DEF BrokerState
  <2> HIDE DEF k, t
  <2>4. n \in BrokerRow /\ n.filled = k /\ n.st = t /\ n.cancelling = brk[c].cancelling
    BY <1>t, <2>2, <2>3 DEF BrokerRow
  <2> HIDE DEF n
  <2> QED BY <1>3, <2>1, <2>2, <2>3, <2>4
<1>7. ASSUME NEW c \in Cid, \/ BrokerCompletesCancel(c) 
                            \/ \E how \in LateEndings : BrokerEnds(c, how)
      PROVE BrokerInv' /\ \A b \in Cid : BrokerStable(b)
  BY <1>5, <1>7, GatewayAssumption DEF BrokerCompletesCancel, BrokerEnds
<1> QED BY <1>0, <1>1, <1>2, <1>4, <1>6, <1>7 DEF Broker

(* The broker's books and the requests on their way agree. *)
LEMMA BrokerInvStep ==
    ASSUME TypeInv, SendInv, BrokerInv, [Next]_vars
    PROVE  BrokerInv' /\ \A c \in Cid : BrokerStable(c)
<1>t. \A c \in Cid : brk[c] \in BrokerRow /\ brk[c].filled \in Int
  BY QtyAssumption DEF TypeInv, TypeOK, BrokerRow
<1>u. brk' = brk => \A c \in Cid : BrokerStable(c)
  BY <1>t DEF BrokerStable
<1>1. CASE UNCHANGED vars
  BY <1>1, <1>u DEF vars, BrokerInv
<1>2. CASE Broker
  BY <1>2, BrokerMoves
<1>3. ASSUME NEW d \in Device,
           \/ Start(d) \/ Continue(d) \/ RecSnapshot(d)
           \/ Boot(d) \/ LeaseMoves(d) \/ Stop(d) \/ Crash(d)
      PROVE  BrokerInv' /\ \A c \in Cid : BrokerStable(c)
  <2>0. brk' = brk
    BY <1>3, DeviceLeavesBroker
  <2>1. CASE net' = net /\ sent' = sent
    BY <2>0, <2>1, <1>u DEF BrokerInv
  <2>2. CASE net' = net \cup {<<"cancel", proc[d].cur, d>>} /\ sent' = sent
    <3>1. \A c \in Cid, e \in Device : <<"submit", c, e>> \in net' <=> <<"submit", c, e>> \in net
      BY <2>2
    <3> QED BY <2>0, <2>2, <3>1, <1>u DEF BrokerInv
  <2>3. CASE CallSubmit(d)
    <3> DEFINE c == proc[d].cur
    <3>1. c \in Cid /\ Submitting(d, c)
      BY <2>3 DEF CallSubmit, TypeInv, GoodProc, Submitting, SubmitPc
    <3> HIDE DEF c
    <3>2. sent[c] = 0 /\ brk[c].st = "none" /\ \A e \in Device : <<"submit", c, e>> \notin net
      BY <3>1 DEF SendInv, NotYetSent, BrokerInv
    <3>3. net' = net \cup {<<"submit", c, d>>} /\ sent' = [sent EXCEPT ![c] = @ + 1]
      BY <2>3 DEF CallSubmit, c
    <3>4. \A b \in Cid, e \in Device : <<"submit", b, e>> \in net' <=> <<"submit", b, e>> \in net \/ (b = c /\ e = d)
      BY <3>3
    <3>5. sent'[c] = 1 /\ \A b \in Cid : b # c => sent'[b] = sent[b]
      BY <3>1, <3>2, <3>3 DEF TypeInv, TypeOK
    <3> QED BY <2>0, <3>1, <3>2, <3>4, <3>5, <1>u DEF BrokerInv
  <2> QED BY <1>3, <2>1, <2>2, <2>3, DeviceLeavesBroker
<1> QED BY <1>1, <1>2, <1>3 DEF Next

-----------------------------------------------------------------------------
(* The ledgers. *)

(* Where a device holds a row it has marked, is waiting, or knows nothing.   *)
CancelPc == {"cancelGate", "cancelCall", "cancelWait"}
MarkedPc == {"submitGate", "submitCall", "submitWait"}
WaitPc == {"submitWait", "cancelWait"}
CalmPc == {"idle", "reconcile", "replaceJournal", "fence", "revalidate", "complete",
           "restore", "release", "releasePrepared", "saveCard"}

(* What a device with the current version of a row knows of it. *)
KnowsRow(p, o) ==
    /\ p.pc = "prepared" => o.status = "PREPARED"
    /\ p.pc \in MarkedPc => o.status = "SUBMITTING"
    /\ p.pc = "cancelJournal" => is_cancellable(o)
    /\ p.pc \in CancelPc => o.status = "CANCEL_PENDING" /\ o.recovery = "NONE"
    /\ p.pc = "poll" => o.status = p.pre

(* What a device remembers of the row it is cancelling. *)
Remembers(p) ==
    /\ p.pc \in CancelPc => p.pre \in CancellableStatus
    /\ p.pc = "poll" => p.pre \in {"CANCEL_PENDING", "CANCELLED"}

(* Rows are legal, and a device whose version is current knows its row. *)
RowsInv ==
    /\ \A c \in Cid : LegalRow(order[c])
    /\ \A d \in Device : proc[d].rowOk => KnowsRow(proc[d], order[proc[d].cur])
    /\ \A d \in Device : Remembers(proc[d])

(* Nothing anywhere claims more fills than the broker has made. *)
FillsInv ==
    /\ \A c \in Cid : order[c].filled <= brk[c].filled
    /\ \A d \in Device, c \in Cid : snap[d].view[c].filled <= brk[c].filled
    /\ \A d \in Device : proc[d].pc \notin WaitPc => ans[d] = NoAnswer
    /\ \A d \in Device : proc[d].pc = "cancelWait" =>
          /\ ans[d].filled <= brk[proc[d].cur].filled
          /\ proc[d].rowOk /\ ans[d].st \notin {"none", "refused"}
                => order[proc[d].cur].filled <= ans[d].filled

(* A row and a command that say the submit may be at the broker. *)
Recorded(o, k) ==
    /\ o.status \notin {Absent, "PREPARED", "CANCELLED_LOCALLY"}
    /\ k \notin {Absent, "PRE_BROKER_ABORTED"}

OnRecord(c) == Recorded(order[c], cmd[<<"SUBMIT", c>>])

(* The command ledger and the rows agree, and what was sent is on record. *)
RecordInv ==
    /\ \A c \in Cid : cmd[<<"SUBMIT", c>>] = Absent => order[c].status = Absent
    /\ \A c \in Cid : cmd[<<"SUBMIT", c>>] = "PRE_BROKER_ABORTED" =>
            order[c].status = "CANCELLED_LOCALLY"
    /\ \A c \in Cid : sent[c] > 0 => OnRecord(c)
    /\ \A d \in Device : proc[d].pc \in MarkedPc => OnRecord(proc[d].cur)
    /\ \A d \in Device : proc[d].pc = "submitWait" => sent[proc[d].cur] > 0

LedgerInv == BrokerInv /\ RowsInv /\ FillsInv /\ RecordInv

-----------------------------------------------------------------------------
(* What a step of a device may do, row by row. *)

(* The row of c stays or is edited legally, never beyond the broker's fills. *)
EditOK(c) ==
    \/ order'[c] = order[c]
    \/ /\ LegalEdit(order[c], order'[c]) /\ LegalRow(order'[c])
       /\ order'[c].filled <= brk[c].filled

(* Commands are not forgotten, and retired only together with their row. *)
CommandOK(d, c) ==
    /\ cmd'[<<"SUBMIT", c>>] = Absent =>
         cmd[<<"SUBMIT", c>>] = Absent /\ order'[c].status = order[c].status
    /\ cmd'[<<"SUBMIT", c>>] = "PRE_BROKER_ABORTED" =>
         \/ cmd[<<"SUBMIT", c>>] = "PRE_BROKER_ABORTED"
         \/ order'[c].status = "CANCELLED_LOCALLY"
    /\ order'[c].status = "CANCELLED_LOCALLY" =>
         \/ order[c].status = "CANCELLED_LOCALLY"
         \/ proc[d].pc = "submitGate" /\ proc[d].cur = c /\ proc'[d].pc \notin MarkedPc

(* Where a device arrives it knows what it has to know. *)
Entered(q) ==
    /\ q.rowOk => KnowsRow(q, order'[q.cur])
    /\ Remembers(q)
    /\ q.pc \in MarkedPc => Recorded(order'[q.cur], cmd'[<<"SUBMIT", q.cur>>])
    /\ q.pc = "submitWait" => sent'[q.cur] > 0

(* Nothing moves, or d commits, declares every row it wrote and is answered. *)
Moves(d) ==
    \/ UNCHANGED <<proc, order, ans>>
    \/ /\ \E q, C, R : /\ Commit(d, q, C, R) /\ Entered(q)
                       /\ \A c \in Cid : c \in C \/ order'[c] = order[c]
       /\ ans'[d] = NoAnswer
       /\ \A e \in Device : e # d => ans'[e] = ans[e]

(* A view stays, is dropped or is taken from the broker. *)
SnapOK ==
    \A e \in Device, c \in Cid :
        \/ snap'[e].view[c] = snap[e].view[c]
        \/ snap'[e].view[c] = [status |-> Unseen, filled |-> 0]
        \/ snap'[e].view[c] \in ViewOf(brk[c])

Effect(d) == (\A c \in Cid : EditOK(c) /\ CommandOK(d, c)) /\ Moves(d) /\ SnapOK

(* A calm device has nothing to know. *)
LEMMA CalmEnters ==
    ASSUME NEW q, q.pc \in CalmPc PROVE Entered(q)
BY DEF CalmPc, Entered, KnowsRow, Remembers, CancelPc, MarkedPc

(* Where a command ends the device is calm again. *)
LEMMA EndsCalm ==
    ASSUME NEW p \in ProcState
    PROVE  /\ Idle.pc \in CalmPc
           /\ \A l \in CalmPc : [p EXCEPT !.pc = l].pc \in CalmPc
           /\ \A card : Finished(p, card).pc \in CalmPc
           /\ AfterCancelFailure(p).pc \in CalmPc
           /\ AfterTxError(p).pc \in CalmPc
BY DEF ProcState, Idle, CalmPc, Finished, AfterCancelFailure, AfterTxError

(* A step that writes no row and no submit command. *)
LEMMA NoWrite ==
    ASSUME NEW d \in Device, order' = order,
           \A c \in Cid : cmd'[<<"SUBMIT", c>>] = cmd[<<"SUBMIT", c>>]
    PROVE  \A c \in Cid : EditOK(c) /\ CommandOK(d, c)
BY DEF EditOK, CommandOK

(* A command of another kind is no submit. *)
LEMMA OtherCommand ==
    ASSUME TypeInv, NEW k, NEW v, \A c \in Cid : k # <<"SUBMIT", c>>, cmd' = [cmd EXCEPT ![k] = v]
    PROVE  \A c \in Cid : cmd'[<<"SUBMIT", c>>] = cmd[<<"SUBMIT", c>>]
<1>1. \A c \in Cid : <<"SUBMIT", c>> \in CmdKey
  BY DEF CmdKey
<1> QED BY <1>1 DEF TypeInv, TypeOK

(* A device that is not waiting has no answer. *)
LEMMA Unanswered ==
    ASSUME FillsInv, NEW d \in Device, proc[d].pc \notin WaitPc, ans' = ans
    PROVE  ans'[d] = NoAnswer /\ \A e \in Device : e # d => ans'[e] = ans[e]
BY DEF FillsInv

(* A device that has used its answer has none. *)
LEMMA AnswerUsed ==
    ASSUME TypeInv, NEW d \in Device, ans' = [ans EXCEPT ![d] = NoAnswer]
    PROVE  ans'[d] = NoAnswer /\ \A e \in Device : e # d => ans'[e] = ans[e]
BY DEF TypeInv, TypeOK

(* A snapshot that stays or is dropped. *)
LEMMA NoSnapshotOK ==
    ASSUME TypeInv, NEW d \in Device, snap' = snap \/ snap' = [snap EXCEPT ![d] = NoSnapshot]
    PROVE  SnapOK
<1>1. \A c \in Cid : NoSnapshot.view[c] = [status |-> Unseen, filled |-> 0]
  BY DEF NoSnapshot
<1> QED BY <1>1 DEF TypeInv, TypeOK, SnapOK

(* Steps that leave every row alone and end in a calm place. *)
LEMMA CalmEffect ==
    ASSUME TypeInv, LedgerInv, NEW d \in Device,
           \/ ReplaceAbandon(d) \/ Release(d) \/ ReleasePrepared(d) \/ Restore(d)
           \/ Complete(d) \/ SaveCard(d) \/ TxError(d) \/ Crash(d) \/ PollTimesOut(d)
           \/ \E n \in Replacement : ReplaceIntent(d, n) \/ ResumeSubmit(d, n) \/ ResumeAdopt(d, n)
    PROVE  Effect(d)
<1> DEFINE p == proc[d]
<1>0. p \in ProcState
  BY DEF TypeInv, TypeOK
<1>1. \A l : [p EXCEPT !.pc = l].pc = l
  BY <1>0 DEF ProcState
<1>2. \A l \in CalmPc : \A c, r : [Idle EXCEPT !.pc = l, !.cur = c, !.rep = r].pc \in CalmPc
  BY DEF Idle
<1>3. /\ order' = order
      /\ cmd' = cmd \/ \E v : cmd' = [cmd EXCEPT ![<<"REPLACE", p.rep>>] = v]
      /\ snap' = snap \/ snap' = [snap EXCEPT ![d] = NoSnapshot]
      /\ (ans' = ans /\ p.pc \notin WaitPc) \/ ans' = [ans EXCEPT ![d] = NoAnswer]
  BY DEF ReplaceAbandon, Release, ReleasePrepared, Restore, Complete, SaveCard, TxError, Crash,
     PollTimesOut, ReplaceIntent, ResumeSubmit, ResumeAdopt, MayStart, Resumable, db, world, WaitPc
<1>4. \E q, C, R : Commit(d, q, C, R) /\ q.pc \in CalmPc
  <2>1. {"release", "revalidate", "complete", "replaceJournal"} \subseteq CalmPc
    BY DEF CalmPc
  <2>2. CASE \/ ReplaceAbandon(d) \/ Release(d) \/ ReleasePrepared(d) \/ Restore(d)
             \/ Complete(d) \/ PollTimesOut(d)
    <3>1. \A l \in {"release", "revalidate"} : [p EXCEPT !.pc = l].pc \in CalmPc
      BY <1>0, <2>1, EndsCalm
    <3> QED BY <1>0, <2>2, <3>1, EndsCalm DEF ReplaceAbandon, Release, ReleasePrepared, Restore,
         Complete, PollTimesOut, Step
  <2>3. CASE SaveCard(d) \/ TxError(d) \/ Crash(d)
    BY <1>0, <2>3, EndsCalm DEF SaveCard, TxError, Crash, Step
  <2>4. ASSUME NEW n \in Replacement, ReplaceIntent(d, n) \/ ResumeSubmit(d, n) \/ ResumeAdopt(d, n)
        PROVE  \E q, C, R : Commit(d, q, C, R) /\ q.pc \in CalmPc
    BY <1>2, <2>1, <2>4 DEF ReplaceIntent, ResumeSubmit, ResumeAdopt, Step
  <2> QED BY <2>2, <2>3, <2>4
<1>5. \A c \in Cid : cmd'[<<"SUBMIT", c>>] = cmd[<<"SUBMIT", c>>]
  <2>1. \A c \in Cid : <<"REPLACE", p.rep>> # <<"SUBMIT", c>>
    OBVIOUS
  <2> QED BY <1>3, <2>1, OtherCommand
<1>6. Moves(d)
  BY <1>3, <1>4, CalmEnters, Unanswered, AnswerUsed DEF Moves, LedgerInv
<1> QED BY <1>3, <1>5, <1>6, NoWrite, NoSnapshotOK DEF Effect

(* Steps that move no device. *)
LEMMA StillEffect ==
    ASSUME TypeInv, LedgerInv, NEW d \in Device,
           \/ \E n \in Replacement : ResumeClose(d, n)
           \/ Boot(d) \/ LeaseMoves(d) \/ Stop(d)
    PROVE  Effect(d)
<1>1. UNCHANGED <<order, cmd, proc, ans, snap>>
  BY DEF ResumeClose, Boot, LeaseMoves, Stop, db, world
<1> QED BY <1>1, NoWrite, NoSnapshotOK DEF Effect, Moves

(* The gates, the calls and the skipped inquiry: the row stays as it is known. *)
LEMMA GateEffect ==
    ASSUME TypeInv, SendInv, LedgerInv, NEW d \in Device,
           \/ SubmitGate(d) \/ CallSubmit(d) \/ CancelGate(d) \/ CallCancel(d) \/ PollSkips(d)
    PROVE  Effect(d)
<1> DEFINE p == proc[d]
<1>0. p \in ProcState /\ (p.rowOk => KnowsRow(p, order[p.cur])) /\ Remembers(p)
  BY DEF TypeInv, TypeOK, LedgerInv, RowsInv
<1>1. /\ order' = order /\ cmd' = cmd /\ snap' = snap /\ ans' = ans /\ p.pc \notin WaitPc
  BY DEF SubmitGate, CallSubmit, CancelGate, CallCancel, PollSkips, db, world, WaitPc
<1>2. p.cur \in Cid /\ order[p.cur] \in OrderRow
  BY DEF TypeInv, TypeOK, GoodProc, SubmitGate, CallSubmit, CancelGate, CallCancel, PollSkips
<1>3. \E q, C, R : Commit(d, q, C, R) /\ Entered(q)
  <2>1. CASE SubmitGate(d)
    <3> DEFINE q == [p EXCEPT !.pc = "submitCall"]
    <3>1. q.pc = "submitCall" /\ q.cur = p.cur /\ q.rowOk = p.rowOk
      BY <1>0 DEF ProcState
    <3>2. p.pc = "submitGate" /\ Commit(d, q, {}, {})
      BY <2>1 DEF SubmitGate, Step
    <3>3. OnRecord(p.cur)
      BY <3>2 DEF LedgerInv, RecordInv, MarkedPc
    <3> HIDE DEF q
    <3>4. Entered(q)
      BY <1>0, <1>1, <3>1, <3>2, <3>3 DEF Entered, KnowsRow, Remembers, CancelPc, MarkedPc, OnRecord, Recorded
    <3> QED BY <3>2, <3>4
  <2>2. CASE CallSubmit(d)
    <3> DEFINE q == [p EXCEPT !.pc = "submitWait"]
    <3>1. q.pc = "submitWait" /\ q.cur = p.cur /\ q.rowOk = p.rowOk
      BY <1>0 DEF ProcState
    <3>2. p.pc = "submitCall" /\ Commit(d, q, {}, {})
      BY <2>2 DEF CallSubmit, Step
    <3>3. OnRecord(p.cur)
      BY <3>2 DEF LedgerInv, RecordInv, MarkedPc
    <3>5. sent'[p.cur] > 0
      BY <1>2, <2>2 DEF CallSubmit, TypeInv, TypeOK
    <3> HIDE DEF q
    <3>4. Entered(q)
      BY <1>0, <1>1, <3>1, <3>2, <3>3, <3>5 DEF Entered, KnowsRow, Remembers, CancelPc, MarkedPc, OnRecord, Recorded
    <3> QED BY <3>2, <3>4
  <2>3. CASE CancelGate(d) \/ CallCancel(d)
    <3>0. PICK l \in {"cancelCall", "cancelWait"} :  Commit(d, [p EXCEPT !.pc = l], {}, {}) /\ p.pc \in CancelPc
      BY <2>3 DEF CancelGate, CallCancel, Step, CancelPc
    <3> DEFINE q == [p EXCEPT !.pc = l]
    <3>1. q.pc = l /\ q.cur = p.cur /\ q.rowOk = p.rowOk /\ q.pre = p.pre
      BY <1>0 DEF ProcState
    <3>2. Commit(d, q, {}, {})
      BY <3>0
    <3> HIDE DEF q
    <3>4. Entered(q)
      BY <1>0, <1>1, <3>0, <3>1 DEF Entered, KnowsRow, Remembers, CancelPc, MarkedPc
    <3> QED BY <3>2, <3>4
  <2>4. CASE PollSkips(d)
    <3> DEFINE q == [p EXCEPT !.fill = brk[p.cur].filled]
    <3>1. q.pc = p.pc /\ q.cur = p.cur /\ q.rowOk = p.rowOk /\ q.pre = p.pre
      BY <1>0 DEF ProcState
    <3>2. p.pc = "poll" /\ Commit(d, q, {}, {})
      BY <2>4 DEF PollSkips, Step
    <3> HIDE DEF q
    <3>4. Entered(q)
      BY <1>0, <1>1, <3>1, <3>2 DEF Entered, KnowsRow, Remembers, CancelPc, MarkedPc
    <3> QED BY <3>2, <3>4
  <2> QED BY <2>1, <2>2, <2>3, <2>4
<1>4. Moves(d)
  BY <1>1, <1>3, Unanswered DEF Moves, LedgerInv
<1> QED BY <1>1, <1>4, NoWrite, NoSnapshotOK DEF Effect

-----------------------------------------------------------------------------
(* The steps of _do_submit. *)

(* A command row that is written says neither nothing nor aborted. *)
LEMMA CommandWritten ==
    ASSUME TypeInv, NEW k, NEW v, cmd' = cmd \/ cmd' = [cmd EXCEPT ![k] = v],
           v \notin {Absent, "PRE_BROKER_ABORTED"} \/ \A c \in Cid : k # <<"SUBMIT", c>>
    PROVE  \A c \in Cid : \/ cmd'[<<"SUBMIT", c>>] = cmd[<<"SUBMIT", c>>]
                          \/ cmd'[<<"SUBMIT", c>>] \notin {Absent, "PRE_BROKER_ABORTED"}
<1>1. \A c \in Cid : <<"SUBMIT", c>> \in CmdKey
  BY DEF CmdKey
<1> QED BY <1>1 DEF TypeInv, TypeOK

(* A step that writes one row the way the record's rules allow. *)
LEMMA OneRowEffect ==
    ASSUME TypeInv, LedgerInv, NEW d \in Device, NEW c \in Cid, NEW n,
           order' = [order EXCEPT ![c] = n], order[c].status # Absent,
           LegalEdit(order[c], n), LegalRow(n), n.filled <= brk[c].filled,
           n.status # "CANCELLED_LOCALLY",
           \A b \in Cid : \/ cmd'[<<"SUBMIT", b>>] = cmd[<<"SUBMIT", b>>]
                          \/ cmd'[<<"SUBMIT", b>>] \notin {Absent, "PRE_BROKER_ABORTED"},
           NEW q, NEW C, NEW R, Commit(d, q, C, R), c \in C, Entered(q),
           (ans' = ans /\ proc[d].pc \notin WaitPc) \/ ans' = [ans EXCEPT ![d] = NoAnswer],
           snap' = snap
    PROVE  Effect(d)
<1>1. \A b \in Cid : order'[b] = IF b = c THEN n ELSE order[b]
  BY DEF TypeInv, TypeOK
<1>2. \A b \in Cid : EditOK(b)
  BY <1>1 DEF EditOK
<1>3. \A b \in Cid : cmd[<<"SUBMIT", b>>] = Absent => order[b].status = Absent
  BY DEF LedgerInv, RecordInv
<1>4. \A b \in Cid : CommandOK(d, b)
  BY <1>1, <1>3 DEF CommandOK
<1>5. ans'[d] = NoAnswer /\ \A e \in Device : e # d => ans'[e] = ans[e]
  BY Unanswered, AnswerUsed DEF LedgerInv
<1>6. \A b \in Cid : b \in C \/ order'[b] = order[b]
  BY <1>1
<1>7. Moves(d)
  BY <1>5, <1>6 DEF Moves
<1> QED BY <1>2, <1>4, <1>7, NoSnapshotOK DEF Effect

(* Transaction 1 of _do_submit: a new row, or none. *)
LEMMA NewRowEffect ==
    ASSUME TypeInv, LedgerInv, NEW d \in Device, NEW c \in Cid, cmd[<<"SUBMIT", c>>] = Absent,
           cmd' = [cmd EXCEPT ![<<"SUBMIT", c>>] = "REQUESTED"],
           order' = [order EXCEPT ![c] = PreparedRow],
           NEW q, NEW C, NEW R, Commit(d, q, C, R), c \in C, q.pc = "prepared", q.cur = c,
           ans' = ans, proc[d].pc \notin WaitPc, snap' = snap
    PROVE  Effect(d)
<1>1. \A b \in Cid : order'[b] = IF b = c THEN PreparedRow ELSE order[b]
  BY DEF TypeInv, TypeOK
<1>2. \A b \in Cid : <<"SUBMIT", b>> \in CmdKey
  BY DEF CmdKey
<1>3. \A b \in Cid : cmd'[<<"SUBMIT", b>>] = IF b = c THEN "REQUESTED" ELSE cmd[<<"SUBMIT", b>>]
  BY <1>2 DEF TypeInv, TypeOK
<1>4. order[c] = NoRow
  BY DEF LedgerInv, RowsInv, RecordInv, LegalRow
<1>5. LegalEdit(order[c], PreparedRow) /\ LegalRow(PreparedRow) /\ PreparedRow.filled = 0
      /\ PreparedRow.status = "PREPARED"
  BY <1>4 DEF LegalEdit, LegalRow, PreparedRow, NoRow, Absent, LegalIdentity
<1>6. brk[c].filled >= 0
  BY QtyAssumption DEF TypeInv, TypeOK, BrokerRow
<1>7. \A b \in Cid : EditOK(b)
  BY <1>1, <1>5, <1>6 DEF EditOK
<1>8. \A b \in Cid : CommandOK(d, b)
  <2>1. "REQUESTED" # Absent /\ "REQUESTED" # "PRE_BROKER_ABORTED" /\ PreparedRow.status # "CANCELLED_LOCALLY"
    BY <1>5 DEF Absent
  <2>2. CommandOK(d, c)
    BY <1>1, <1>3, <2>1 DEF CommandOK
  <2>3. \A b \in Cid : b # c => CommandOK(d, b)
    BY <1>1, <1>3 DEF CommandOK
  <2> QED BY <2>2, <2>3
<1>9. ans'[d] = NoAnswer /\ \A e \in Device : e # d => ans'[e] = ans[e]
  BY Unanswered DEF LedgerInv
<1>10. Entered(q)
  BY <1>1, <1>5 DEF Entered, KnowsRow, Remembers, CancelPc, MarkedPc
<1>11. Moves(d)
  BY <1>1, <1>9, <1>10 DEF Moves
<1> QED BY <1>7, <1>8, <1>11, NoSnapshotOK DEF Effect

(* Transaction 1, of a submit and of a replacement. *)
LEMMA PrepareEffect ==
    ASSUME TypeInv, LedgerInv, NEW d \in Device,
           ReplaceSubmit(d) \/ \E c \in Cid : SubmitPrepare(d, c)
    PROVE  Effect(d)
<1>1. CASE ReplaceSubmit(d)
  <2> DEFINE p == proc[d]
             q == [p EXCEPT !.pc = "prepared", !.cur = p.rep, !.rowOk = TRUE]
  <2>1. p.rep \in Cid
    BY <1>1 DEF ReplaceSubmit, TypeInv, GoodProc
  <2>2. q.pc = "prepared" /\ q.cur = p.rep
    BY DEF TypeInv, TypeOK, ProcState
  <2>3. p.pc \notin WaitPc
    BY <1>1 DEF ReplaceSubmit, WaitPc
  <2>4. Commit(d, q, {p.rep}, {Root[p.rep]})
    BY <1>1 DEF ReplaceSubmit
  <2> HIDE DEF q
  <2> QED BY <1>1, <2>1, <2>2, <2>3, <2>4, NewRowEffect DEF ReplaceSubmit, world
<1>2. ASSUME NEW c \in Cid, SubmitPrepare(d, c) PROVE Effect(d)
  <2> DEFINE q == [Idle EXCEPT !.pc = "prepared", !.cur = c]
  <2>1. q.pc = "prepared" /\ q.cur = c
    BY DEF Idle
  <2>2. proc[d].pc \notin WaitPc
    BY <1>2 DEF SubmitPrepare, MayStart, WaitPc
  <2>3. Commit(d, q, {c}, {c})
    BY <1>2 DEF SubmitPrepare
  <2> HIDE DEF q
  <2> QED BY <1>2, <2>1, <2>2, <2>3, NewRowEffect DEF SubmitPrepare, world
<1> QED BY <1>1, <1>2

(* Transaction 2 of _do_submit. *)
LEMMA MarkEffect ==
    ASSUME TypeInv, SendInv, LedgerInv, NEW d \in Device, MarkSubmitting(d)
    PROVE  Effect(d)
<1> DEFINE p == proc[d]
           q == [p EXCEPT !.pc = "submitGate"]
           o == order[p.cur]
           n == ApplyStatus(o, "SUBMITTING")
<1>1. p.cur \in Cid /\ p \in ProcState /\ p.pc = "prepared" /\ o \in OrderRow
  BY DEF MarkSubmitting, TypeInv, TypeOK, GoodProc
<1>2. o.status = "PREPARED" /\ LegalRow(o)
  BY <1>1 DEF MarkSubmitting, LedgerInv, RowsInv, KnowsRow
<1>3. ReachableStatus(o, "SUBMITTING")
  BY <1>2 DEF ReachableStatus, allowed_status_transitions, StatusEdges, OpenStatus, ExecutionOrderStatus,
     TerminalStatus
<1>4. LegalRow(n) /\ n.status = "SUBMITTING" /\ n.filled = o.filled /\ LegalEdit(o, n)
  BY <1>1, <1>2, <1>3, ApplyLegal
<1>5. o.filled <= brk[p.cur].filled /\ o.status # Absent
  BY <1>1, <1>2 DEF LedgerInv, FillsInv, Absent
<1>6. q.pc = "submitGate" /\ q.cur = p.cur
  BY <1>1 DEF ProcState
<1>7. Commit(d, q, {p.cur}, {}) /\ order' = [order EXCEPT ![p.cur] = n]
      /\ cmd' = cmd /\ ans' = ans /\ snap' = snap
  BY DEF MarkSubmitting, world
<1>8. cmd[<<"SUBMIT", p.cur>>] \notin {Absent, "PRE_BROKER_ABORTED"}
  <2>1. Submitting(d, p.cur)
    BY <1>1 DEF Submitting, SubmitPc
  <2> QED BY <1>1, <1>2, <2>1 DEF SendInv, Fresh, LedgerInv, RecordInv
<1> HIDE DEF q, n
<1>9. order'[p.cur] = n
  BY <1>1, <1>7 DEF TypeInv, TypeOK
<1>10. Entered(q)
  BY <1>4, <1>6, <1>7, <1>8, <1>9 DEF Entered, KnowsRow, Remembers, CancelPc, MarkedPc, Recorded, Absent
<1>11. p.pc \notin WaitPc
  BY <1>1 DEF WaitPc
<1> QED BY <1>1, <1>4, <1>5, <1>7, <1>10, <1>11, OneRowEffect

(* The last gate retires the attempt. *)
LEMMA AbortEffect ==
    ASSUME TypeInv, SendInv, LedgerInv, NEW d \in Device, SubmitAbort(d)
    PROVE  Effect(d)
<1> DEFINE p == proc[d]
           o == order[p.cur]
           n == ApplyStatus(o, "CANCELLED_LOCALLY")
           q == Finished(p, "CLOSED")
<1>1. p.cur \in Cid /\ p \in ProcState /\ p.pc = "submitGate" /\ o \in OrderRow
  BY DEF SubmitAbort, TypeInv, TypeOK, GoodProc
<1>2. o.status = "SUBMITTING" /\ LegalRow(o)
  BY <1>1 DEF SubmitAbort, LedgerInv, RowsInv, KnowsRow, MarkedPc
<1>3. ReachableStatus(o, "CANCELLED_LOCALLY")
  BY <1>2 DEF ReachableStatus, allowed_status_transitions, StatusEdges, OpenStatus, ExecutionOrderStatus,
     TerminalStatus
<1>4. LegalRow(n) /\ n.status = "CANCELLED_LOCALLY" /\ n.filled = o.filled /\ LegalEdit(o, n)
  BY <1>1, <1>2, <1>3, ApplyLegal
<1>5. o.filled <= brk[p.cur].filled /\ p.pc \notin WaitPc
  BY <1>1 DEF LedgerInv, FillsInv, WaitPc
<1>6. Commit(d, q, {p.cur}, {Root[p.cur]}) /\ order' = [order EXCEPT ![p.cur] = n]
      /\ cmd' = [cmd EXCEPT ![<<"SUBMIT", p.cur>>] = "PRE_BROKER_ABORTED"] /\ ans' = ans /\ snap' = snap
  BY DEF SubmitAbort, world
<1>7. q.pc \in CalmPc
  BY <1>1, EndsCalm
<1> HIDE DEF q, n
<1>8. \A b \in Cid : order'[b] = IF b = p.cur THEN n ELSE order[b]
  BY <1>6 DEF TypeInv, TypeOK
<1>9. \A b \in Cid : cmd'[<<"SUBMIT", b>>] = IF b = p.cur THEN "PRE_BROKER_ABORTED" ELSE cmd[<<"SUBMIT", b>>]
  <2>1. \A b \in Cid : <<"SUBMIT", b>> \in CmdKey
    BY DEF CmdKey
  <2> QED BY <1>6, <2>1 DEF TypeInv, TypeOK
<1>10. \A b \in Cid : EditOK(b)
  BY <1>4, <1>5, <1>8 DEF EditOK
<1>11. proc'[d] = q /\ q.pc \notin MarkedPc
  BY <1>6, <1>7 DEF Commit, CalmPc, MarkedPc
<1>12. \A b \in Cid : CommandOK(d, b)
  BY <1>1, <1>4, <1>8, <1>9, <1>11 DEF CommandOK, Absent
<1>13. Moves(d)
  BY <1>5, <1>6, <1>7, <1>8, CalmEnters, Unanswered DEF Moves, LedgerInv
<1> QED BY <1>6, <1>10, <1>12, <1>13, NoSnapshotOK DEF Effect

(* What the answer to a submit makes of the record. *)
LEMMA AnswerEffect ==
    ASSUME TypeInv, SendInv, LedgerInv, NEW d \in Device,
           SubmitAccepted(d) \/ SubmitRefused(d) \/ SubmitAmbiguous(d)
    PROVE  Effect(d)
<1> DEFINE p == proc[d]
           o == order[p.cur]
<1>1. p.cur \in Cid /\ p \in ProcState /\ p.pc = "submitWait" /\ p.rowOk /\ o \in OrderRow
  BY DEF SubmitAccepted, SubmitRefused, SubmitAmbiguous, TypeInv, TypeOK, GoodProc
<1>2. o.status = "SUBMITTING" /\ LegalRow(o)
  BY <1>1 DEF LedgerInv, RowsInv, KnowsRow, MarkedPc
<1>3. PICK t \in {"ACKNOWLEDGED", "REJECTED", "UNKNOWN_SUBMISSION_STATE"} :
         order' = [order EXCEPT ![p.cur] = ApplyStatus(o, t)]
  BY DEF SubmitAccepted, SubmitRefused, SubmitAmbiguous
<1>4. ReachableStatus(o, t)
  BY <1>2 DEF ReachableStatus, allowed_status_transitions, StatusEdges, OpenStatus, ExecutionOrderStatus,
     TerminalStatus
<1> DEFINE n == ApplyStatus(o, t)
<1>5. LegalRow(n) /\ n.status = t /\ n.filled = o.filled /\ LegalEdit(o, n)
  BY <1>1, <1>2, <1>4, ApplyLegal
<1>6. o.filled <= brk[p.cur].filled /\ o.status # Absent
  BY <1>1, <1>2 DEF LedgerInv, FillsInv, Absent
<1>7. PICK v \in {"ACKNOWLEDGED", "FAILED", "AMBIGUOUS"} :
         cmd' = [cmd EXCEPT ![<<"SUBMIT", p.cur>>] = v]
  BY DEF SubmitAccepted, SubmitRefused, SubmitAmbiguous
<1>8. ans' = [ans EXCEPT ![d] = NoAnswer] /\ snap' = snap
  BY DEF SubmitAccepted, SubmitRefused, SubmitAmbiguous
<1>9. PICK q, C, R : Commit(d, q, C, R) /\ p.cur \in C /\ q.pc \in CalmPc
  <2>1. (IF p.rep = NoCid THEN Idle ELSE [p EXCEPT !.pc = "complete"]).pc \in CalmPc
    BY <1>1, EndsCalm DEF CalmPc
  <2>2. Finished(p, "CLOSED").pc \in CalmPc /\ Finished(p, "PENDING").pc \in CalmPc
    BY <1>1, EndsCalm
  <2> QED BY <2>1, <2>2 DEF SubmitAccepted, SubmitRefused, SubmitAmbiguous
<1>10. \A b \in Cid : \/ cmd'[<<"SUBMIT", b>>] = cmd[<<"SUBMIT", b>>]
                      \/ cmd'[<<"SUBMIT", b>>] \notin {Absent, "PRE_BROKER_ABORTED"}
  BY <1>7, CommandWritten DEF Absent
<1>11. n.status # "CANCELLED_LOCALLY"
  BY <1>5
<1> HIDE DEF n
<1>12. order' = [order EXCEPT ![p.cur] = n] /\ n.filled <= brk[p.cur].filled
  BY <1>3, <1>5, <1>6 DEF n
<1> QED BY <1>1, <1>5, <1>6, <1>8, <1>9, <1>10, <1>11, <1>12, CalmEnters, OneRowEffect

-----------------------------------------------------------------------------
(* The steps of _do_cancel. *)

(* CANCEL_PENDING leads to and from the statuses a cancel may come from. *)
LEMMA CancelEdges ==
    /\ \A o : o.status \in CancellableStatus => ReachableStatus(o, "CANCEL_PENDING")
    /\ \A o, t : o.status = "CANCEL_PENDING" /\ t \in CancellableStatus \cup {"CANCELLED", "FILLED"}
          => ReachableStatus(o, t)
    /\ CancellableStatus = {"ACKNOWLEDGED", "WORKING", "PARTIALLY_FILLED"}
<1>1. CancellableStatus = {"ACKNOWLEDGED", "WORKING", "PARTIALLY_FILLED"}
  BY DEF CancellableStatus, StatusEdges, OpenStatus, ExecutionOrderStatus, TerminalStatus
<1>2. \A s \in CancellableStatus : "CANCEL_PENDING" \in allowed_status_transitions(s)
  BY DEF CancellableStatus, allowed_status_transitions
<1>3. allowed_status_transitions("CANCEL_PENDING") =
        {"CANCELLED", "FILLED", "PARTIALLY_FILLED", "WORKING", "EXPIRED", "ACKNOWLEDGED"}
  BY DEF allowed_status_transitions, StatusEdges, OpenStatus, ExecutionOrderStatus, TerminalStatus
<1> QED BY <1>1, <1>2, <1>3 DEF ReachableStatus

(* Journaling a cancel on a row that may be cancelled. *)
LEMMA JournalEffect ==
    ASSUME TypeInv, LedgerInv, NEW d \in Device, NEW p, JournalCancel(d, p), p.cur \in Cid,
           is_cancellable(order[p.cur]), proc[d].pc \notin WaitPc,
           NEW q, q = [p EXCEPT !.pc = "cancelGate", !.pre = order[p.cur].status],
           q.pc = "cancelGate", q.pre = order[p.cur].status, q.cur = p.cur
    PROVE  Effect(d)
<1> DEFINE o == order[p.cur]
           n == ApplyStatus(o, "CANCEL_PENDING")
<1>1. o \in OrderRow /\ LegalRow(o) /\ o.status \in CancellableStatus
  BY DEF TypeInv, TypeOK, LedgerInv, RowsInv, is_cancellable
<1>2. o.recovery = "NONE"
  BY <1>1 DEF is_cancellable, LegalRow
<1>3. LegalRow(n) /\ n.status = "CANCEL_PENDING" /\ n.filled = o.filled /\ LegalEdit(o, n) /\ n.recovery = "NONE"
  BY <1>1, <1>2, CancelEdges, ApplyLegal
<1>4. o.filled <= brk[p.cur].filled /\ o.status # Absent
  BY <1>1, CancelEdges DEF LedgerInv, FillsInv, Absent
<1>5. Commit(d, q, {p.cur}, {}) /\ order' = [order EXCEPT ![p.cur] = n] /\ ans' = ans /\ snap' = snap
      /\ cmd' = [cmd EXCEPT ![<<"CANCEL", p.key>>] = "REQUESTED"]
  BY DEF JournalCancel, world
<1> HIDE DEF n
<1>6. order'[p.cur] = n
  BY <1>5 DEF TypeInv, TypeOK
<1>7. Entered(q)
  BY <1>1, <1>3, <1>6 DEF Entered, KnowsRow, Remembers, CancelPc, MarkedPc
<1>8. \A b \in Cid : \/ cmd'[<<"SUBMIT", b>>] = cmd[<<"SUBMIT", b>>]
                     \/ cmd'[<<"SUBMIT", b>>] \notin {Absent, "PRE_BROKER_ABORTED"}
  <2>1. "REQUESTED" \notin {Absent, "PRE_BROKER_ABORTED"}
    BY DEF Absent
  <2> QED BY <1>5, <2>1, CommandWritten
<1>9. n.status # "CANCELLED_LOCALLY" /\ n.filled <= brk[p.cur].filled
  BY <1>3, <1>4
<1> QED BY <1>3, <1>4, <1>5, <1>7, <1>8, <1>9, OneRowEffect

(* A plain cancel begins, or a replace begins its cancel. *)
LEMMA CancelStartEffect ==
    ASSUME TypeInv, LedgerInv, NEW d \in Device,
           \/ \E c \in Cid, k \in CancelId : CancelStart(d, c, k)
           \/ CancelJournal(d)
    PROVE  Effect(d)
<1>1. CASE CancelJournal(d)
  <2> DEFINE p == proc[d]
             q == [p EXCEPT !.pc = "cancelGate", !.pre = order[p.cur].status]
  <2>1. /\ p.pc = "cancelJournal" /\ p.rowOk /\ JournalCancel(d, p)
        /\ p \in ProcState /\ p.cur \in Cid
    BY <1>1 DEF CancelJournal, TypeInv, TypeOK, GoodProc
  <2>2. is_cancellable(order[p.cur])
    BY <2>1 DEF LedgerInv, RowsInv, KnowsRow
  <2>3. q.pc = "cancelGate" /\ q.pre = order[p.cur].status /\ q.cur = p.cur
    BY <2>1 DEF ProcState
  <2>4. p.pc \notin WaitPc
    BY <2>1 DEF WaitPc
  <2> QED BY <2>1, <2>2, <2>3, <2>4, JournalEffect
<1>2. ASSUME NEW c \in Cid, NEW k \in CancelId, CancelStart(d, c, k) PROVE Effect(d)
  <2> DEFINE p == [Idle EXCEPT !.cur = c, !.key = k, !.fill = order[c].filled]
             q == [p EXCEPT !.pc = "cancelGate", !.pre = order[p.cur].status]
  <2>1. p.cur = c
    BY DEF Idle
  <2>2. q.pc = "cancelGate" /\ q.pre = order[p.cur].status /\ q.cur = p.cur
    BY DEF Idle
  <2>3. JournalCancel(d, p) /\ is_cancellable(order[c]) /\ proc[d].pc \notin WaitPc
    BY <1>2 DEF CancelStart, MayStart, WaitPc
  <2> HIDE DEF p
  <2> QED BY <2>1, <2>2, <2>3, JournalEffect
<1> QED BY <1>1, <1>2

(* What the answer to a cancel makes of a row that awaits it. *)
LEMMA CancelAnswerLegal ==
    ASSUME NEW o \in OrderRow, LegalRow(o), o.status = "CANCEL_PENDING", o.recovery = "NONE",
           NEW a \in Answer, o.filled <= a.filled
    PROVE  LET n == AfterCancelAnswer(o, a) IN
           /\ LegalEdit(o, n) /\ LegalRow(n) /\ n.filled = a.filled
           /\ n.status \in {"CANCEL_PENDING", "PARTIALLY_FILLED"} \/ (n.status = a.st /\ a.st \in {"CANCELLED", "FILLED"})
<1> DEFINE f == WithFill(o, a.filled)
           n == AfterCancelAnswer(o, a)
<1>0. a.filled \in 0 .. Qty /\ o.filled \in 0 .. Qty /\ o.status # Absent
  BY DEF Answer, OrderRow, Absent
<1>1. /\ f \in OrderRow /\ LegalRow(f) /\ f.status = o.status /\ f.recovery = o.recovery
      /\ f.identity = o.identity /\ f.filled \in {o.filled, a.filled} /\ f.filled >= a.filled
  BY <1>0, FillLegal
<1>2. f.filled = a.filled
  BY <1>0, <1>1, QtyAssumption
<1> HIDE DEF f
<1>3. CASE a.st = "CANCELLED"
  <2>1. n = ApplyStatus(f, "CANCELLED")
    BY <1>3 DEF AfterCancelAnswer, f
  <2>2. ReachableStatus(f, "CANCELLED") /\ ReachableStatus(o, "CANCELLED")
    BY <1>1, CancelEdges
  <2>3. /\ n \in OrderRow /\ LegalRow(n) /\ n.status = "CANCELLED" /\ n.recovery = f.recovery
        /\ n.filled = f.filled /\ (f.identity = "EXACT" => n.identity = "EXACT") /\ n.status # Absent
    BY <1>1, <2>1, <2>2, ApplyLegal DEF Absent
  <2> HIDE DEF n
  <2>4. LegalEdit(o, n)
    BY <1>0, <1>1, <1>2, <2>2, <2>3 DEF LegalEdit
  <2> QED BY <1>2, <1>3, <2>3, <2>4 DEF n
<1>4. CASE a.st \in {"FILLED", "PARTIALLY_FILLED"}
  <2> DEFINE r == ApplyStatus(o, a.st)
  <2>1. n = [r EXCEPT !.filled = a.filled]
    BY <1>4 DEF AfterCancelAnswer
  <2>2. ReachableStatus(o, a.st)
    BY <1>4, CancelEdges
  <2>3. /\ r \in OrderRow /\ LegalRow(r) /\ r.status = a.st /\ r.recovery = o.recovery
        /\ r.filled = o.filled /\ (o.identity = "EXACT" => r.identity = "EXACT") /\ r.status # Absent
    BY <1>4, <2>2, ApplyLegal DEF Absent
  <2> HIDE DEF r
  <2>4. /\ n.status = a.st /\ n.recovery = r.recovery /\ n.identity = r.identity /\ n.filled = a.filled
    BY <2>1, <2>3 DEF OrderRow
  <2> HIDE DEF n
  <2>5. LegalRow(n)
    BY <2>3, <2>4 DEF LegalRow
  <2>6. LegalEdit(o, n)
    BY <1>0, <2>2, <2>3, <2>4 DEF LegalEdit
  <2> QED BY <1>4, <2>4, <2>5, <2>6 DEF n
<1>5. CASE a.st \notin {"CANCELLED", "FILLED", "PARTIALLY_FILLED"}
  <2>1. n = [f EXCEPT !.recovery = "DISCOVERING"]
    BY <1>5 DEF AfterCancelAnswer, f
  <2>2. n.status = o.status /\ n.identity = o.identity /\ n.filled = a.filled /\ n.recovery = "DISCOVERING"
    BY <1>1, <1>2, <2>1 DEF OrderRow
  <2>3. "DISCOVERING" \in allowed_recovery_transitions(o.recovery)
    BY DEF allowed_recovery_transitions, RecoveryEdges
  <2> HIDE DEF n
  <2>4. LegalRow(n)
    BY <1>0, <2>2 DEF LegalRow
  <2>5. LegalEdit(o, n)
    BY <1>0, <2>2, <2>3 DEF LegalEdit
  <2> QED BY <2>2, <2>4, <2>5 DEF n
<1> QED BY <1>3, <1>4, <1>5

(* The steps of _do_cancel after its journal. *)
LEMMA CancelEffect ==
    ASSUME TypeInv, LedgerInv, NEW d \in Device,
           CancelAbort(d) \/ CancelAnswered(d) \/ CancelRefused(d) \/ CancelAmbiguous(d)
    PROVE  Effect(d)
<1> DEFINE p == proc[d]
           o == order[p.cur]
<1>1. /\ p.cur \in Cid /\ p \in ProcState /\ p.pc \in {"cancelGate", "cancelWait"} /\ p.rowOk
      /\ o \in OrderRow /\ o.filled \in Int
  BY QtyAssumption DEF CancelAbort, CancelAnswered, CancelRefused, CancelAmbiguous, TypeInv, TypeOK, GoodProc, OrderRow
<1>2. o.status = "CANCEL_PENDING" /\ o.recovery = "NONE" /\ LegalRow(o) /\ p.pre \in CancellableStatus
  BY <1>1 DEF LedgerInv, RowsInv, KnowsRow, Remembers, CancelPc
<1>3. o.filled <= brk[p.cur].filled /\ o.status # Absent
  BY <1>1, <1>2 DEF LedgerInv, FillsInv, Absent
<1>4. \E v : cmd' = [cmd EXCEPT ![<<"CANCEL", p.key>>] = v]
  BY DEF CancelAbort, CancelAnswered, CancelRefused, CancelAmbiguous
<1>5. \A b \in Cid : \/ cmd'[<<"SUBMIT", b>>] = cmd[<<"SUBMIT", b>>]
                     \/ cmd'[<<"SUBMIT", b>>] \notin {Absent, "PRE_BROKER_ABORTED"}
  <2>1. \A c \in Cid : <<"CANCEL", p.key>> # <<"SUBMIT", c>>
    OBVIOUS
  <2> QED BY <1>4, <2>1, CommandWritten
<1>6. PICK q, C, R : Commit(d, q, C, R) /\ p.cur \in C /\ q.pc \in CalmPc
  <2>1. (IF p.rep = NoCid THEN Idle ELSE [p EXCEPT !.pc = "fence"]).pc \in CalmPc
    BY <1>1, EndsCalm DEF CalmPc
  <2>2. AfterCancelFailure(p).pc \in CalmPc /\ Finished(p, "PENDING").pc \in CalmPc
    BY <1>1, EndsCalm
  <2>3. CASE CancelAnswered(d)
    <3>1. \E R : Commit(d, IF p.rep = NoCid THEN Idle ELSE [p EXCEPT !.pc = "fence"], {p.cur}, R)
      BY <2>3 DEF CancelAnswered
    <3> QED BY <2>1, <3>1
  <2> QED BY <2>2, <2>3 DEF CancelAbort, CancelRefused, CancelAmbiguous
<1>7. (ans' = ans /\ p.pc \notin WaitPc) \/ ans' = [ans EXCEPT ![d] = NoAnswer]
  BY DEF CancelAbort, CancelAnswered, CancelRefused, CancelAmbiguous, world, WaitPc
<1>8. snap' = snap
  BY DEF CancelAbort, CancelAnswered, CancelRefused, CancelAmbiguous
<1>w. ASSUME NEW n, order' = [order EXCEPT ![p.cur] = n], LegalEdit(o, n), LegalRow(n),
             n.filled <= brk[p.cur].filled, n.status # "CANCELLED_LOCALLY"
      PROVE  Effect(d)
  BY <1>1, <1>3, <1>5, <1>6, <1>7, <1>8, <1>w, CalmEnters, OneRowEffect
<1>9. CASE CancelAbort(d) \/ CancelRefused(d)
  <2>1. PICK t \in CancellableStatus : order' = [order EXCEPT ![p.cur] = ApplyStatus(o, t)]
    BY <1>2, <1>9, CancelEdges DEF CancelAbort, CancelRefused
  <2>2. LegalEdit(o, ApplyStatus(o, t)) /\ LegalRow(ApplyStatus(o, t))
        /\ ApplyStatus(o, t).filled = o.filled /\ ApplyStatus(o, t).status = t
    BY <1>1, <1>2, CancelEdges, ApplyLegal
  <2> QED BY <1>3, <1>w, <2>1, <2>2, CancelEdges
<1>10. CASE CancelAmbiguous(d)
  <2> DEFINE n == [o EXCEPT !.recovery = "DISCOVERING"]
  <2>1. order' = [order EXCEPT ![p.cur] = n]
    BY <1>10 DEF CancelAmbiguous
  <2>2. n.status = o.status /\ n.identity = o.identity /\ n.filled = o.filled /\ n.recovery = "DISCOVERING"
    BY <1>1 DEF OrderRow
  <2>3. "DISCOVERING" \in allowed_recovery_transitions(o.recovery)
    BY <1>2 DEF allowed_recovery_transitions, RecoveryEdges
  <2> HIDE DEF n
  <2>4. LegalRow(n)
    BY <1>2, <1>3, <2>2 DEF LegalRow
  <2>5. LegalEdit(o, n)
    BY <1>1, <1>3, <2>2, <2>3 DEF LegalEdit
  <2> QED BY <1>2, <1>3, <1>w, <2>1, <2>2, <2>4, <2>5
<1>11. CASE CancelAnswered(d)
  <2> DEFINE n == AfterCancelAnswer(o, ans[d])
  <2>1. order' = [order EXCEPT ![p.cur] = n] /\ p.pc = "cancelWait" /\ ans[d].st \notin {"none", "refused"}
    BY <1>11 DEF CancelAnswered
  <2>2. ans[d] \in Answer /\ o.filled <= ans[d].filled /\ ans[d].filled <= brk[p.cur].filled
    BY <1>1, <2>1 DEF TypeInv, TypeOK, LedgerInv, FillsInv
  <2>3. LegalEdit(o, n) /\ LegalRow(n) /\ n.filled = ans[d].filled /\ n.status # "CANCELLED_LOCALLY"
    BY <1>1, <1>2, <2>2, CancelAnswerLegal
  <2> HIDE DEF n
  <2> QED BY <1>w, <2>1, <2>2, <2>3
<1> QED BY <1>9, <1>10, <1>11

-----------------------------------------------------------------------------
(* The steps of a replace and of a reconciliation pass. *)

(* The reservation and the intent of a replace: no row is written. *)
LEMMA ReplaceJournalEffect ==
    ASSUME TypeInv, LedgerInv, NEW d \in Device, ReplaceJournal(d)
    PROVE  Effect(d)
<1> DEFINE p == proc[d]
           f == order[p.cur].filled
           q == [p EXCEPT !.pc = "cancelJournal", !.key = p.rep, !.base = f,
                          !.fill = f, !.rowOk = TRUE, !.resOk = TRUE]
<1>1. /\ order' = order /\ ans' = ans /\ snap' = snap /\ p.pc \notin WaitPc
      /\ cmd' = [cmd EXCEPT ![<<"REPLACE", p.rep>>] = "REQUESTED"]
      /\ Commit(d, q, {}, {Root[p.cur]}) /\ is_cancellable(order[p.cur])
  BY DEF ReplaceJournal, world, WaitPc
<1>2. q.pc = "cancelJournal" /\ q.cur = p.cur
  BY DEF TypeInv, TypeOK, ProcState
<1> HIDE DEF q
<1>3. Entered(q)
  BY <1>1, <1>2 DEF Entered, KnowsRow, Remembers, CancelPc, MarkedPc
<1>4. Moves(d)
  BY <1>1, <1>3, Unanswered DEF Moves, LedgerInv
<1>5. \A c \in Cid : cmd'[<<"SUBMIT", c>>] = cmd[<<"SUBMIT", c>>]
  <2>1. \A c \in Cid : <<"REPLACE", p.rep>> # <<"SUBMIT", c>>
    OBVIOUS
  <2> QED BY <1>1, <2>1, OtherCommand
<1> QED BY <1>1, <1>4, <1>5, NoWrite, NoSnapshotOK DEF Effect

(* The cancel fence puts an unproven CANCELLED under discovery. *)
LEMMA FenceEffect ==
    ASSUME TypeInv, LedgerInv, NEW d \in Device, Fence(d)
    PROVE  Effect(d)
<1> DEFINE p == proc[d]
           o == order[p.cur]
           q == [p EXCEPT !.pre = o.status, !.fill = o.filled, !.rowOk = TRUE]
           discover == o.status = "CANCELLED" /\ o.recovery = "NONE"
           n == [o EXCEPT !.recovery = "DISCOVERING"]
           t == CASE o.status \in {"CANCEL_PENDING", "CANCELLED"} -> [q EXCEPT !.pc = "poll"]
                  [] o.status = "FILLED" -> [q EXCEPT !.pc = "releasePrepared"]
                  [] OTHER -> Finished(q, "PENDING")
           C == IF discover THEN {p.cur} ELSE {}
<1>1. /\ p.cur \in Cid /\ p \in ProcState /\ p.pc = "fence" /\ p.pc \notin WaitPc
      /\ o \in OrderRow /\ LegalRow(o) /\ o.filled \in Int
  BY QtyAssumption DEF Fence, TypeInv, TypeOK, GoodProc, OrderRow, LedgerInv, RowsInv, WaitPc
<1>2. /\ order' = IF discover THEN [order EXCEPT ![p.cur] = n] ELSE order
      /\ cmd' = cmd /\ ans' = ans /\ snap' = snap
  BY DEF Fence, world
<1>3. Commit(d, t, C, {})
  BY DEF Fence
<1>4. q.pc = "fence" /\ q.cur = p.cur /\ q.pre = o.status
  BY <1>1 DEF ProcState
<1>5. \A l : [q EXCEPT !.pc = l].pc = l /\ [q EXCEPT !.pc = l].cur = p.cur /\ [q EXCEPT !.pc = l].pre = o.status
  BY <1>1 DEF ProcState
<1>6. Finished(q, "PENDING").pc \in CalmPc
  BY <1>1 DEF Finished, ProcState, Idle, CalmPc
<1> HIDE DEF q
<1>7. n.status = o.status /\ n.identity = o.identity /\ n.filled = o.filled /\ n.recovery = "DISCOVERING"
  BY <1>1 DEF OrderRow
<1> HIDE DEF n
<1>8. order'[p.cur].status = o.status
  BY <1>1, <1>2, <1>7 DEF TypeInv, TypeOK
<1>9. Entered(t)
  <2>1. CASE o.status \in {"CANCEL_PENDING", "CANCELLED"}
    <3> DEFINE r == [q EXCEPT !.pc = "poll"]
    <3>1. t = r
      BY <2>1
    <3>2. r.pc = "poll" /\ r.cur = p.cur /\ r.pre = o.status
      BY <1>5
    <3> HIDE DEF r, t
    <3> QED BY <1>8, <2>1, <3>1, <3>2 DEF Entered, KnowsRow, Remembers, CancelPc, MarkedPc
  <2>2. CASE o.status \notin {"CANCEL_PENDING", "CANCELLED"}
    <3>1. t.pc \in CalmPc
      BY <1>5, <1>6, <2>2 DEF CalmPc
    <3> QED BY <3>1, CalmEnters
  <2> QED BY <2>1, <2>2
<1> HIDE DEF t
<1>10. CASE discover
  <2>1. order' = [order EXCEPT ![p.cur] = n] /\ p.cur \in C /\ o.status = "CANCELLED" /\ o.recovery = "NONE"
    BY <1>2, <1>10
  <2>2. LegalRow(n)
    BY <1>1, <1>7, <2>1 DEF LegalRow, Absent
  <2>3. LegalEdit(o, n)
    BY <1>1, <1>7, <2>1 DEF LegalEdit, Absent, allowed_recovery_transitions, RecoveryEdges
  <2>4. n.filled <= brk[p.cur].filled /\ n.status # "CANCELLED_LOCALLY" /\ o.status # Absent
    BY <1>1, <1>7, <2>1 DEF LedgerInv, FillsInv, Absent
  <2> HIDE DEF C
  <2> QED BY <1>1, <1>2, <1>3, <1>9, <2>1, <2>2, <2>3, <2>4, OneRowEffect
<1>11. CASE ~discover
  <2>1. order' = order
    BY <1>2, <1>11
  <2>2. Moves(d)
    BY <1>1, <1>2, <1>3, <1>9, <2>1, Unanswered DEF Moves, LedgerInv
  <2> QED BY <1>2, <2>1, <2>2, NoWrite, NoSnapshotOK DEF Effect
<1> QED BY <1>10, <1>11

(* What one inquiry writes on the row under cancellation. *)
LEMMA PollLegal ==
    ASSUME NEW o \in OrderRow, LegalRow(o), o.status \in {"CANCEL_PENDING", "CANCELLED"},
           NEW b \in BrokerRow, o.filled <= b.filled,
           NEW pre, pre = o.status,
           NEW t, t = pre \/ t \in allowed_status_transitions(pre)
    PROVE  LET f == WithFill(o, b.filled)
               s == IF t = pre THEN f ELSE ApplyStatus(f, t)
               n == IF s.recovery = "DISCOVERING" THEN [s EXCEPT !.recovery = "NONE"] ELSE s
           IN  LegalEdit(o, n) /\ LegalRow(n) /\ n.filled <= b.filled /\ n.status = t
               /\ n.status # "CANCELLED_LOCALLY"
<1> DEFINE f == WithFill(o, b.filled)
           s == IF t = pre THEN f ELSE ApplyStatus(f, t)
           n == IF s.recovery = "DISCOVERING" THEN [s EXCEPT !.recovery = "NONE"] ELSE s
<1>0. b.filled \in 0 .. Qty /\ o.filled \in 0 .. Qty /\ o.status # Absent
  BY DEF BrokerRow, OrderRow, Absent
<1>1. /\ f \in OrderRow /\ LegalRow(f) /\ f.status = o.status /\ f.recovery = o.recovery
      /\ f.identity = o.identity /\ f.filled \in {o.filled, b.filled} /\ f.filled >= b.filled
  BY <1>0, FillLegal
<1>2. f.filled = b.filled
  BY <1>0, <1>1, QtyAssumption
<1> HIDE DEF f
<1>3. t # "CANCELLED_LOCALLY"
  BY DEF allowed_status_transitions, StatusEdges, OpenStatus, ExecutionOrderStatus, TerminalStatus
<1>4. /\ s \in OrderRow /\ LegalRow(s) /\ s.status = t /\ s.recovery = o.recovery
      /\ s.filled = b.filled /\ (o.identity = "EXACT" => s.identity = "EXACT") /\ t # Absent
      /\ t = o.status \/ ReachableStatus(o, t)
  <2>1. CASE t = o.status
    BY <1>0, <1>1, <1>2, <2>1
  <2>2. CASE t # o.status
    <3>1. ReachableStatus(f, t) /\ ReachableStatus(o, t)
      BY <1>1, <2>2 DEF ReachableStatus
    <3>2. t # Absent
      BY <2>2, AllowedType DEF ExecutionOrderStatus, Absent
    <3> QED BY <1>1, <1>2, <2>2, <3>1, <3>2, ApplyLegal
  <2> QED BY <2>1, <2>2
<1> HIDE DEF s
<1>5. /\ n.status = t /\ n.identity = s.identity /\ n.filled = b.filled
      /\ n.recovery = o.recovery \/ (o.recovery = "DISCOVERING" /\ n.recovery = "NONE")
  BY <1>4 DEF OrderRow
<1>6. o.recovery = "DISCOVERING" => "NONE" \in allowed_recovery_transitions(o.recovery)
  BY DEF allowed_recovery_transitions, RecoveryEdges
<1> HIDE DEF n
<1>7. LegalRow(n)
  BY <1>4, <1>5 DEF LegalRow
<1>8. LegalEdit(o, n)
  BY <1>0, <1>4, <1>5, <1>6 DEF LegalEdit
<1> QED BY <1>0, <1>3, <1>5, <1>7, <1>8 DEF n, s, f

(* One inquiry whose target the graph allows. *)
LEMMA PollEffect ==
    ASSUME TypeInv, LedgerInv, NEW d \in Device, PollApplies(d)
    PROVE  Effect(d)
<1> DEFINE p == proc[d]
           b == brk[p.cur]
           t == InquiryTarget(b)
           f == WithFill(order[p.cur], b.filled)
           s == IF t = p.pre THEN f ELSE ApplyStatus(f, t)
           n == IF s.recovery = "DISCOVERING" THEN [s EXCEPT !.recovery = "NONE"] ELSE s
           q == [p EXCEPT !.fill = n.filled]
<1>1. /\ p.cur \in Cid /\ p \in ProcState /\ p.pc = "poll" /\ p.pc \notin WaitPc /\ p.rowOk
      /\ order[p.cur] \in OrderRow /\ LegalRow(order[p.cur]) /\ b \in BrokerRow
      /\ order[p.cur].filled <= b.filled
  BY DEF PollApplies, TypeInv, TypeOK, GoodProc, LedgerInv, RowsInv, FillsInv, WaitPc
<1>2. order[p.cur].status = p.pre /\ p.pre \in {"CANCEL_PENDING", "CANCELLED"}
  BY <1>1 DEF LedgerInv, RowsInv, KnowsRow, Remembers
<1>3. /\ order' = [order EXCEPT ![p.cur] = n] /\ cmd' = cmd /\ ans' = ans /\ snap' = snap
      /\ t = p.pre \/ t \in allowed_status_transitions(p.pre)
      /\ Commit(d, AfterInquiry(q, n), {p.cur}, {})
  BY DEF PollApplies, world
<1>4. LegalEdit(order[p.cur], n) /\ LegalRow(n) /\ n.filled <= b.filled /\ n.status # "CANCELLED_LOCALLY"
  <2> HIDE DEF b, t
  <2>1. /\ order[p.cur].status \in {"CANCEL_PENDING", "CANCELLED"} /\ p.pre = order[p.cur].status
        /\ t = p.pre \/ t \in allowed_status_transitions(p.pre)
    BY <1>2, <1>3
  <2> QED BY <1>1, <2>1, PollLegal
<1> HIDE DEF n
<1>5. \A card : Finished(q, card).pc \in CalmPc
  BY <1>1 DEF Finished, ProcState, Idle, CalmPc
<1>6. \A l : [q EXCEPT !.pc = l].pc = l
  BY <1>1 DEF ProcState
<1> HIDE DEF q
<1>7. AfterInquiry(q, n).pc \in CalmPc
  BY <1>5, <1>6 DEF AfterInquiry, CalmPc
<1>8. order[p.cur].status # Absent
  BY <1>2 DEF Absent
<1> QED BY <1>1, <1>3, <1>4, <1>7, <1>8, CalmEnters, OneRowEffect

(* Fetching a snapshot. *)
LEMMA SnapshotEffect ==
    ASSUME TypeInv, LedgerInv, NEW d \in Device, RecSnapshot(d)
    PROVE  Effect(d)
<1>1. /\ order' = order /\ cmd' = cmd /\ ans' = ans /\ proc[d].pc \notin WaitPc
      /\ Commit(d, [Idle EXCEPT !.pc = "reconcile"], {}, {})
  BY DEF RecSnapshot, db, world, WaitPc, Step
<1>2. [Idle EXCEPT !.pc = "reconcile"].pc \in CalmPc
  BY DEF Idle, CalmPc
<1>3. PICK missed, v :
          /\ \A c \in Cid : v[c] \in ViewOf(IF c \in missed THEN NoBrokerOrder ELSE brk[c])
          /\ snap' = [snap EXCEPT ![d] = [complete |-> missed = {}, view |-> v]]
  BY DEF RecSnapshot
<1>4. ViewOf(NoBrokerOrder) = {[status |-> Unseen, filled |-> 0]}
  BY DEF ViewOf, NoBrokerOrder
<1>5. SnapOK
  BY <1>3, <1>4 DEF SnapOK, TypeInv, TypeOK
<1>6. Moves(d)
  BY <1>1, <1>2, CalmEnters, Unanswered DEF Moves, LedgerInv
<1> QED BY <1>1, <1>5, <1>6, NoWrite DEF Effect

(* Applying it. *)
LEMMA ApplyEffect ==
    ASSUME TypeInv, LedgerInv, NEW d \in Device, RecApply(d)
    PROVE  Effect(d)
<1> DEFINE s == snap[d]
           orders == ReduceOrders(order, s)
<1>1. /\ order' = orders /\ cmd' = cmd /\ ans' = ans /\ proc[d].pc \notin WaitPc
      /\ snap' = [snap EXCEPT ![d] = NoSnapshot]
  BY DEF RecApply, world, WaitPc
<1>2. PICK stamped, R : Commit(d, Idle, stamped \cup {c \in Cid : orders[c] # order[c]}, R)
  BY DEF RecApply
<1>3. ASSUME NEW c \in Cid
      PROVE  /\ order'[c] = ReduceOrder(order[c], s.view[c], s.complete)
             /\ order[c] \in OrderRow /\ LegalRow(order[c]) /\ s.view[c] \in OrderView
             /\ s.complete \in BOOLEAN /\ s.view[c].filled <= brk[c].filled
             /\ order[c].filled <= brk[c].filled
  BY <1>1 DEF ReduceOrders, TypeInv, TypeOK, Snapshot, LedgerInv, RowsInv, FillsInv
<1>4. ASSUME NEW c \in Cid PROVE EditOK(c) /\ CommandOK(d, c)
  <2> DEFINE n == ReduceOrder(order[c], s.view[c], s.complete)
  <2>1. \/ n = order[c]
        \/ /\ LegalEdit(order[c], n) /\ LegalRow(n) /\ n \in OrderRow
           /\ n.filled \in {order[c].filled, s.view[c].filled}
           /\ n.status # order[c].status => n.status = s.view[c].status /\ order[c].identity = "EXACT"
    BY <1>3, ReduceLegal
  <2> HIDE DEF n
  <2>2. order'[c] = n
    BY <1>3 DEF n
  <2>3. EditOK(c)
    BY <1>3, <2>1, <2>2 DEF EditOK
  <2>4. s.view[c].status # "CANCELLED_LOCALLY"
    BY <1>3 DEF OrderView, Unseen
  <2>5. cmd[<<"SUBMIT", c>>] = Absent => order[c].status = Absent /\ n = order[c]
    <3>1. ASSUME cmd[<<"SUBMIT", c>>] = Absent PROVE order[c] = NoRow
      BY <1>3, <3>1 DEF LedgerInv, RecordInv, LegalRow
    <3>2. order[c] = NoRow => n = order[c]
      BY DEF n, ReduceOrder, NoRow, IsAmbiguousSubmission
    <3> QED BY <3>1, <3>2 DEF NoRow
  <2>6. CommandOK(d, c)
    BY <1>1, <2>1, <2>2, <2>4, <2>5 DEF CommandOK
  <2> QED BY <2>3, <2>6
<1>5. \A c \in Cid : c \in (stamped \cup {b \in Cid : orders[b] # order[b]}) \/ order'[c] = order[c]
  BY <1>1
<1>6. Idle.pc \in CalmPc
  BY DEF Idle, CalmPc
<1> HIDE DEF orders
<1>7. Moves(d)
  BY <1>1, <1>2, <1>5, <1>6, CalmEnters, Unanswered DEF Moves, LedgerInv
<1> QED BY <1>1, <1>4, <1>7, NoSnapshotOK DEF Effect

(* Every step of a device. *)
LEMMA DeviceEffect ==
    ASSUME TypeInv, SendInv, LedgerInv, NEW d \in Device,
           \/ Start(d) \/ Continue(d) \/ RecSnapshot(d)
           \/ Boot(d) \/ LeaseMoves(d) \/ Stop(d) \/ Crash(d)
    PROVE  Effect(d)
<1>1. CASE Start(d)
  BY <1>1, PrepareEffect, CancelStartEffect, CalmEffect, StillEffect DEF Start
<1>2. CASE Continue(d)
  BY <1>2, PrepareEffect, CancelStartEffect, CalmEffect, GateEffect, MarkEffect, AbortEffect, AnswerEffect,
     CancelEffect, ReplaceJournalEffect, FenceEffect, PollEffect, ApplyEffect DEF Continue
<1> QED BY <1>1, <1>2, SnapshotEffect, CalmEffect, StillEffect

-----------------------------------------------------------------------------
(* From the effect of a step to the invariant. *)

(* A view reports the broker's fill. *)
LEMMA ViewOfFill ==
    ASSUME NEW b \in BrokerRow, NEW v \in ViewOf(b)
    PROVE  v.filled <= b.filled
BY QtyAssumption DEF ViewOf, BrokerRow

(* A commit moves nobody else, and takes the version of a written row away. *)
LEMMA OthersAfterCommit ==
    ASSUME TypeInv, NEW d \in Device, NEW q, NEW C, NEW R, Commit(d, q, C, R)
    PROVE  /\ proc'[d] = q
           /\ \A e \in Device : e # d =>
                /\ proc'[e].pc = proc[e].pc /\ proc'[e].cur = proc[e].cur /\ proc'[e].pre = proc[e].pre
                /\ proc'[e].rowOk => proc[e].rowOk /\ proc[e].cur \notin C
<1>1. proc'[d] = q
  BY DEF Commit
<1>2. ASSUME NEW e \in Device, e # d
      PROVE  /\ proc'[e].pc = proc[e].pc /\ proc'[e].cur = proc[e].cur /\ proc'[e].pre = proc[e].pre
             /\ proc'[e].rowOk => proc[e].rowOk /\ proc[e].cur \notin C
  <2>1. proc[e] \in ProcState
    BY DEF TypeInv, TypeOK
  <2> QED BY <1>2, <2>1 DEF Commit, ProcState
<1> QED BY <1>1, <1>2

(* A calm place knows nothing, so only a place that concerns an order needs one. *)
LEMMA KnowsOrder ==
    ASSUME TypeInv, NEW d \in Device
    PROVE  proc[d].cur \in Cid \/ proc[d].pc \in {"idle", "reconcile"}
BY DEF TypeInv, GoodProc

(* The three parts of the invariant, after a step of a device. *)
LEMMA RowsStep ==
    ASSUME TypeInv, LedgerInv, NEW d \in Device, Effect(d)
    PROVE  RowsInv'
<1>1. \A c \in Cid : LegalRow(order'[c])
  BY DEF Effect, EditOK, LedgerInv, RowsInv
<1>2. CASE UNCHANGED <<proc, order>>
  BY <1>2 DEF LedgerInv, RowsInv
<1>3. ASSUME NEW q, NEW C, NEW R, Commit(d, q, C, R), Entered(q),
             \A c \in Cid : c \in C \/ order'[c] = order[c]
      PROVE  \A e \in Device : (proc'[e].rowOk => KnowsRow(proc'[e], order'[proc'[e].cur])) /\ Remembers(proc'[e])
  <2> SUFFICES ASSUME NEW e \in Device
               PROVE  (proc'[e].rowOk => KnowsRow(proc'[e], order'[proc'[e].cur])) /\ Remembers(proc'[e])
    OBVIOUS
  <2>1. CASE e = d
    BY <1>3, <2>1, OthersAfterCommit DEF Entered
  <2>2. CASE e # d
    <3>1. /\ proc'[e].pc = proc[e].pc /\ proc'[e].cur = proc[e].cur /\ proc'[e].pre = proc[e].pre
          /\ proc'[e].rowOk => proc[e].rowOk /\ proc[e].cur \notin C
      BY <1>3, <2>2, OthersAfterCommit
    <3>2. Remembers(proc[e]) /\ (proc[e].rowOk => KnowsRow(proc[e], order[proc[e].cur]))
      BY DEF LedgerInv, RowsInv
    <3>3. Remembers(proc'[e])
      BY <3>1, <3>2 DEF Remembers
    <3>4. ASSUME proc'[e].rowOk PROVE KnowsRow(proc'[e], order'[proc'[e].cur])
      <4>1. CASE proc[e].cur \in Cid
        <5>1. order'[proc'[e].cur] = order[proc[e].cur]
          BY <1>3, <3>1, <3>4, <4>1
        <5> QED BY <3>1, <3>2, <3>4, <5>1 DEF KnowsRow
      <4>2. CASE proc[e].pc \in {"idle", "reconcile"}
        BY <3>1, <4>2 DEF KnowsRow, CancelPc, MarkedPc
      <4> QED BY <4>1, <4>2, KnowsOrder
    <3> QED BY <3>3, <3>4
  <2> QED BY <2>1, <2>2
<1>4. CASE UNCHANGED <<proc, order, ans>>
  BY <1>2, <1>4
<1>5. CASE \E q, C, R : /\ Commit(d, q, C, R) /\ Entered(q)
                       /\ \A c \in Cid : c \in C \/ order'[c] = order[c]
  BY <1>1, <1>3, <1>5 DEF RowsInv
<1> QED BY <1>4, <1>5 DEF Effect, Moves

(* ... the fills ... *)
LEMMA FillsStep ==
    ASSUME TypeInv, TypeInv', LedgerInv, NEW d \in Device, Effect(d), brk' = brk
    PROVE  FillsInv'
<1>b. \A c \in Cid : brk[c] \in BrokerRow /\ brk[c].filled \in Nat
  BY QtyAssumption DEF TypeInv, TypeOK, BrokerRow
<1>1. \A c \in Cid : order'[c].filled <= brk[c].filled
  BY DEF Effect, EditOK, LedgerInv, FillsInv
<1>2. \A e \in Device, c \in Cid : snap'[e].view[c].filled <= brk[c].filled
  BY <1>b, ViewOfFill DEF Effect, SnapOK, LedgerInv, FillsInv
<1>3. CASE UNCHANGED <<proc, order, ans>>
  BY <1>1, <1>2, <1>3 DEF LedgerInv, FillsInv
<1>4. ASSUME NEW q, NEW C, NEW R, Commit(d, q, C, R),
             \A c \in Cid : c \in C \/ order'[c] = order[c],
             ans'[d] = NoAnswer, \A e \in Device : e # d => ans'[e] = ans[e]
      PROVE  FillsInv'
  <2>1. ASSUME NEW e \in Device
        PROVE  /\ proc'[e].pc \notin WaitPc => ans'[e] = NoAnswer
               /\ proc'[e].pc = "cancelWait" =>
                    /\ ans'[e].filled <= brk[proc'[e].cur].filled
                    /\ proc'[e].rowOk /\ ans'[e].st \notin {"none", "refused"}
                         => order'[proc'[e].cur].filled <= ans'[e].filled
    <3>1. CASE e = d
      <4>1. ans'[e] = NoAnswer /\ NoAnswer.st = "none" /\ NoAnswer.filled = 0
        BY <1>4, <3>1 DEF NoAnswer
      <4>2. proc'[e].pc = "cancelWait" => brk[proc'[e].cur].filled >= 0
        <5>1. proc'[e].pc = "cancelWait" => proc'[e].cur \in Cid
          BY DEF TypeInv, GoodProc
        <5> QED BY <1>b, <5>1
      <4> QED BY <4>1, <4>2
    <3>2. CASE e # d
      <4>1. /\ proc'[e].pc = proc[e].pc /\ proc'[e].cur = proc[e].cur /\ ans'[e] = ans[e]
            /\ proc'[e].rowOk => proc[e].rowOk /\ proc[e].cur \notin C
        BY <1>4, <3>2, OthersAfterCommit
      <4>2. proc[e].pc = "cancelWait" => proc[e].cur \in Cid
        BY KnowsOrder
      <4> QED BY <1>4, <4>1, <4>2 DEF LedgerInv, FillsInv
    <3> QED BY <3>1, <3>2
  <2> QED BY <1>1, <1>2, <2>1 DEF FillsInv
<1> QED BY <1>3, <1>4 DEF Effect, Moves

(* What has been called cannot be retired any more. *)
LEMMA NobodyAborts ==
    ASSUME TypeInv, SendInv, LedgerInv, NEW d \in Device, NEW c \in Cid,
           proc[d].pc = "submitGate", proc[d].cur = c
    PROVE  sent[c] = 0 /\ \A e \in Device : proc[e].pc \in MarkedPc /\ proc[e].cur = c => e = d
<1>1. Submitting(d, c)
  BY DEF Submitting, SubmitPc
<1>2. sent[c] = 0
  BY <1>1 DEF SendInv, NotYetSent
<1>3. ASSUME NEW e \in Device, proc[e].pc \in MarkedPc, proc[e].cur = c PROVE e = d
  <2>1. proc[e].pc # "submitWait"
    BY <1>2, <1>3 DEF LedgerInv, RecordInv
  <2>2. Submitting(e, c)
    BY <1>3, <2>1 DEF MarkedPc, Submitting, SubmitPc
  <2> QED BY <1>1, <2>2 DEF SendInv, OneSubmitter
<1> QED BY <1>2, <1>3

(* ... and the records. *)
LEMMA RecordStep ==
    ASSUME TypeInv, SendInv, LedgerInv, NEW d \in Device, Effect(d),
           sent' = sent \/ CallSubmit(d)
    PROVE  RecordInv'
<1>0. \A c \in Cid : LegalRow(order[c]) /\ EditOK(c) /\ CommandOK(d, c)
  BY DEF LedgerInv, RowsInv, Effect
<1>s. /\ \A c \in Cid : sent[c] \in Nat
      /\ \A c \in Cid : sent'[c] > 0 => sent[c] > 0 \/ (proc[d].pc = "submitCall" /\ proc[d].cur = c)
      /\ \A c \in Cid : sent[c] > 0 => sent'[c] > 0
  BY DEF CallSubmit, TypeInv, TypeOK
(* The record of a marked order survives everybody's writes. *)
<1>1. ASSUME NEW c \in Cid, OnRecord(c), order'[c].status # "CANCELLED_LOCALLY"
      PROVE  Recorded(order'[c], cmd'[<<"SUBMIT", c>>])
  <2>1. order'[c].status \notin {Absent, "PREPARED"}
    BY <1>0, <1>1, AllowedType DEF EditOK, LegalEdit, OnRecord, Recorded, ReachableStatus, allowed_status_transitions,
       StatusEdges, OpenStatus, ExecutionOrderStatus, TerminalStatus, Absent
  <2>2. cmd'[<<"SUBMIT", c>>] \notin {Absent, "PRE_BROKER_ABORTED"}
    BY <1>0, <1>1 DEF CommandOK, OnRecord, Recorded
  <2> QED BY <1>1, <2>1, <2>2 DEF Recorded
<1>2. ASSUME NEW c \in Cid, OnRecord(c), order'[c].status = "CANCELLED_LOCALLY"
      PROVE  proc[d].pc = "submitGate" /\ proc[d].cur = c /\ proc'[d].pc \notin MarkedPc
  BY <1>0, <1>2 DEF CommandOK, OnRecord, Recorded
<1>3. ASSUME NEW c \in Cid, sent'[c] > 0 PROVE OnRecord(c)'
  <2>1. OnRecord(c)
    BY <1>s, <1>3 DEF LedgerInv, RecordInv, MarkedPc
  <2>2. order'[c].status # "CANCELLED_LOCALLY"
    BY <1>2, <1>3, <1>s, <2>1, NobodyAborts
  <2> QED BY <1>1, <2>1, <2>2 DEF OnRecord
<1>4. ASSUME NEW e \in Device, proc'[e].pc \in MarkedPc
      PROVE  Recorded(order'[proc'[e].cur], cmd'[<<"SUBMIT", proc'[e].cur>>])
             /\ (proc'[e].pc = "submitWait" => sent'[proc'[e].cur] > 0)
  <2> DEFINE c == proc[e].cur
  <2>m. ASSUME proc[e].pc \in MarkedPc PROVE c \in Cid /\ OnRecord(c)
    BY <2>m, KnowsOrder DEF MarkedPc, LedgerInv, RecordInv
  <2>1. CASE UNCHANGED <<proc, order, ans>>
    <3>1. proc[e].pc \in MarkedPc /\ proc'[e] = proc[e]
      BY <1>4, <2>1
    <3>2. order'[c].status # "CANCELLED_LOCALLY"
      BY <2>1, <2>m, <3>1 DEF OnRecord, Recorded
    <3>3. Recorded(order'[c], cmd'[<<"SUBMIT", c>>])
      BY <1>1, <2>m, <3>1, <3>2
    <3> QED BY <1>s, <2>m, <3>1, <3>3 DEF OnRecord, LedgerInv, RecordInv
  <2>2. ASSUME NEW q, NEW C, NEW R, Commit(d, q, C, R), Entered(q)
        PROVE  /\ Recorded(order'[proc'[e].cur], cmd'[<<"SUBMIT", proc'[e].cur>>])
               /\ proc'[e].pc = "submitWait" => sent'[proc'[e].cur] > 0
    <3>1. CASE e = d
      BY <1>4, <2>2, <3>1, OthersAfterCommit DEF Entered
    <3>2. CASE e # d
      <4>1. proc'[e].pc = proc[e].pc /\ proc'[e].cur = c
        BY <2>2, <3>2, OthersAfterCommit
      <4>2. order'[c].status # "CANCELLED_LOCALLY"
        BY <1>2, <1>4, <2>m, <3>2, <4>1, NobodyAborts
      <4>3. Recorded(order'[c], cmd'[<<"SUBMIT", c>>])
        BY <1>1, <1>4, <2>m, <4>1, <4>2
      <4> QED BY <1>s, <1>4, <2>m, <4>1, <4>3 DEF OnRecord, LedgerInv, RecordInv
    <3> QED BY <3>1, <3>2
  <2> QED BY <2>1, <2>2 DEF Effect, Moves
<1>5. ASSUME NEW c \in Cid
      PROVE  /\ cmd'[<<"SUBMIT", c>>] = Absent => order'[c].status = Absent
             /\ cmd'[<<"SUBMIT", c>>] = "PRE_BROKER_ABORTED" => order'[c].status = "CANCELLED_LOCALLY"
  <2>1. cmd'[<<"SUBMIT", c>>] = Absent => order'[c].status = Absent
    BY <1>0 DEF CommandOK, LedgerInv, RecordInv
  <2>2. order[c].status = "CANCELLED_LOCALLY" => order'[c].status = "CANCELLED_LOCALLY"
    BY <1>0 DEF EditOK, LegalEdit, ReachableStatus, allowed_status_transitions,
       OpenStatus, TerminalStatus, Absent
  <2> QED BY <1>0, <2>1, <2>2 DEF CommandOK, LedgerInv, RecordInv
<1> QED BY <1>3, <1>4, <1>5 DEF RecordInv, MarkedPc, OnRecord

(* The broker's steps touch no record; an answer tells the broker's own fill. *)
LEMMA BrokerLedger ==
    ASSUME TypeInv, LedgerInv, Broker
    PROVE  LedgerInv'
<1>0. UNCHANGED <<order, cmd, proc, snap, sent>>
  BY DEF Broker, BrokerAcceptsSubmit, BrokerRefuses, BrokerNeverReceives,
         BrokerCancels, BrokerSaysFilled, BrokerCompletesCancel, BrokerFills,
         BrokerEnds, BrokerOnly, db
<1>1. BrokerInv' /\ \A c \in Cid : BrokerStable(c)
  BY BrokerMoves DEF LedgerInv
<1>2. RowsInv' /\ RecordInv'
  <2>1. RowsInv'
    BY <1>0 DEF LedgerInv, RowsInv
  <2>2. RecordInv'
    BY <1>0 DEF LedgerInv, RecordInv, OnRecord
  <2> QED BY <2>1, <2>2
<1>b. \A c \in Cid : brk[c].filled \in Nat /\ brk'[c].filled \in Nat /\ brk'[c].filled >= brk[c].filled
  <2>1. TypeInv'
    BY BrokerTyped
  <2> QED BY <1>1, <2>1, QtyAssumption DEF TypeInv, TypeOK, BrokerRow, BrokerStable
<1>t. /\ \A c \in Cid : order[c].filled \in Nat
      /\ \A d \in Device, c \in Cid : snap[d].view[c].filled \in Nat
      /\ \A d \in Device : ans[d].filled \in Nat
  BY QtyAssumption DEF TypeInv, TypeOK, OrderRow, Snapshot, OrderView, Answer
<1>3. /\ \A c \in Cid : order[c].filled <= brk'[c].filled
      /\ \A d \in Device, c \in Cid : snap[d].view[c].filled <= brk'[c].filled
  BY <1>b, <1>t DEF LedgerInv, FillsInv
<1>4. ASSUME NEW e \in Device
      PROVE  /\ proc[e].pc \notin WaitPc => ans'[e] = NoAnswer
             /\ proc[e].pc = "cancelWait" =>
                  /\ ans'[e].filled <= brk'[proc[e].cur].filled
                  /\ proc[e].rowOk /\ ans'[e].st \notin {"none", "refused"}
                       => order[proc[e].cur].filled <= ans'[e].filled
  <2> DEFINE c == proc[e].cur
  <2>c. proc[e].pc = "cancelWait" => c \in Cid
    BY KnowsOrder
  <2>1. CASE ans'[e] = ans[e]
    <3>1. proc[e].pc = "cancelWait" => ans[e].filled <= brk'[c].filled
      BY <1>b, <1>t, <2>c DEF LedgerInv, FillsInv
    <3> QED BY <2>1, <3>1 DEF LedgerInv, FillsInv
  <2>2. ASSUME NEW m \in net, NEW a, Reply(m, a), a.filled = 0, a.st \in {"accepted", "refused"},
               m[1] = "submit" \/ a.st = "refused", ans'[e] # ans[e]
        PROVE  /\ ans'[e] = a /\ proc[e].pc \in WaitPc /\ (proc[e].pc = "cancelWait" => a.st = "refused")
    BY <2>2 DEF Reply, WaitPc, TypeInv, TypeOK
  <2>3. ASSUME NEW m \in net, BrokerAcceptsSubmit(m) \/ BrokerRefuses(m), ans'[e] # ans[e]
        PROVE  proc[e].pc \in WaitPc /\ ans'[e].filled = 0 /\ (proc[e].pc = "cancelWait" => ans'[e].st = "refused")
    <3> DEFINE a1 == [st |-> "accepted", filled |-> 0]
               a2 == [st |-> "refused", filled |-> 0]
    <3>1. (m[1] = "submit" /\ Reply(m, a1)) \/ Reply(m, a2)
      BY <2>3 DEF BrokerAcceptsSubmit, BrokerRefuses
    <3>2. a1.st = "accepted" /\ a1.filled = 0 /\ a2.st = "refused" /\ a2.filled = 0
      OBVIOUS
    <3> HIDE DEF a1, a2
    <3> QED BY <2>2, <2>3, <3>1, <3>2
  <2>4. ASSUME NEW m \in net, BrokerCancels(m) \/ BrokerSaysFilled(m), ans'[e] # ans[e]
        PROVE  proc[e].pc = "cancelWait" /\ ans'[e].filled = brk[c].filled /\ c = m[2]
    <3>1. m[1] = "cancel" /\ m[2] \in Cid
      BY <2>4 DEF BrokerCancels, BrokerSaysFilled, TypeInv, TypeOK, Request
    <3>2. PICK a : Reply(m, a) /\ a.filled = brk[m[2]].filled
      <4>1. CASE BrokerCancels(m)
        <5>1. \A s : [st |-> s, filled |-> brk[m[2]].filled].filled = brk[m[2]].filled
          OBVIOUS
        <5> QED BY <4>1, <5>1 DEF BrokerCancels
      <4>2. CASE BrokerSaysFilled(m)
        <5>1. brk[m[2]].filled = Qty
          BY <3>1, <4>2 DEF BrokerSaysFilled, LedgerInv, BrokerInv
        <5> QED BY <4>2, <5>1 DEF BrokerSaysFilled
      <4> QED BY <2>4, <4>1, <4>2
    <3>3. proc[e].cur = m[2] /\ proc[e].pc = "cancelWait" /\ ans'[e] = a
      BY <2>4, <3>1, <3>2 DEF Reply, TypeInv, TypeOK
    <3> QED BY <3>2, <3>3
  <2>5. \/ ans' = ans
        \/ \E m \in net : BrokerAcceptsSubmit(m) \/ BrokerRefuses(m) \/ BrokerCancels(m) \/ BrokerSaysFilled(m)
    BY DEF Broker, BrokerNeverReceives, BrokerCompletesCancel, BrokerFills, BrokerEnds
  <2>6. CASE ans'[e] # ans[e] /\ \E m \in net : BrokerAcceptsSubmit(m) \/ BrokerRefuses(m)
    BY <1>b, <2>c, <2>3, <2>6
  <2>7. CASE ans'[e] # ans[e] /\ \E m \in net : BrokerCancels(m) \/ BrokerSaysFilled(m)
    <3>1. proc[e].pc = "cancelWait" /\ ans'[e].filled = brk[c].filled /\ c \in Cid
      BY <2>c, <2>4, <2>7
    <3>2. order[c].filled <= brk[c].filled
      BY <3>1 DEF LedgerInv, FillsInv
    <3> QED BY <1>b, <3>1, <3>2 DEF WaitPc
  <2> QED BY <2>1, <2>5, <2>6, <2>7
<1>5. FillsInv'
  BY <1>0, <1>3, <1>4 DEF FillsInv
<1> QED BY <1>1, <1>2, <1>5 DEF LedgerInv

(* LedgerInv is inductive relative to the types and SendInv. *)
LEMMA LedgerStep ==
    ASSUME TypeInv, SendInv, LedgerInv, [Next]_vars
    PROVE  LedgerInv'
<1>1. CASE UNCHANGED vars
  BY <1>1 DEF vars, LedgerInv, BrokerInv, RowsInv, FillsInv, RecordInv, OnRecord
<1>2. CASE Broker
  BY <1>2, BrokerLedger
<1>3. ASSUME NEW d \in Device,
           \/ Start(d) \/ Continue(d) \/ RecSnapshot(d)
           \/ Boot(d) \/ LeaseMoves(d) \/ Stop(d) \/ Crash(d)
      PROVE  LedgerInv'
  <2>1. Effect(d)
    BY <1>3, DeviceEffect
  <2>2. brk' = brk /\ (sent' = sent \/ CallSubmit(d))
    BY <1>3, DeviceLeavesBroker
  <2>3. TypeInv' /\ BrokerInv'
    <3>1. [Next]_vars
      BY <1>3 DEF Next
    <3> QED BY <3>1, NextTyped, BrokerInvStep DEF LedgerInv
  <2> QED BY <2>1, <2>2, <2>3, RowsStep, FillsStep, RecordStep DEF LedgerInv
<1> QED BY <1>1, <1>2, <1>3 DEF Next

(* It holds of an empty database. *)
LEMMA LedgerInit == Init => LedgerInv
<1> SUFFICES ASSUME Init PROVE LedgerInv
  OBVIOUS
<1>1. BrokerInv
  BY DEF Init, BrokerInv, NoBrokerOrder
<1>2. RowsInv
  BY DEF Init, RowsInv, LegalRow, NoRow, Idle, KnowsRow, Remembers, CancelPc, MarkedPc
<1>3. FillsInv
  BY DEF Init, FillsInv, NoRow, NoBrokerOrder, NoSnapshot, Idle
<1>4. RecordInv
  <2>1. \A c \in Cid : <<"SUBMIT", c>> \in CmdKey
    BY DEF CmdKey
  <2> QED BY <2>1 DEF Init, RecordInv, NoRow, Idle, MarkedPc, Absent
<1> QED BY <1>1, <1>2, <1>3, <1>4 DEF LedgerInv

(* The ledgers of the gateway: what _do_submit, _do_cancel, replace_guarded  *)
(* and the reconciliation write is legal, is known to the device that relies *)
(* on it, and never runs ahead of the broker.                                *)
THEOREM LedgerInvariant == Spec => [](TypeInv /\ SendInv /\ LedgerInv)
<1>1. Init => SendInv
  BY DEF Init, SendInv, Fresh, NotYetSent, OneSubmitter, AtMostOnceSend, Submitting,
         SubmitPc, Idle
<1>2. Init => TypeInv /\ SendInv /\ LedgerInv
  BY <1>1, InitTyped, LedgerInit
<1>3. TypeInv /\ SendInv /\ LedgerInv /\ [Next]_vars => (TypeInv /\ SendInv /\ LedgerInv)'
  BY NextTyped, SendInvStep, LedgerStep
<1> QED BY <1>2, <1>3, PTL DEF Spec

(* _do_submit commits SUBMITTING before its call and retires an attempt only *)
(* at the last gate: whatever is or was at the broker has a row and a command*)
(* that say so, on any number of devices and across any crash.               *)
THEOREM BrokerOrdersAreJournaled == Spec => []JournaledBeforeBroker
<1>1. TypeInv /\ SendInv /\ LedgerInv => JournaledBeforeBroker
  <2> SUFFICES ASSUME TypeInv, LedgerInv, NEW c \in Cid, sent[c] > 0 \/ brk[c].st # "none"
               PROVE  OnRecord(c)
    BY DEF JournaledBeforeBroker, OnRecord, Recorded
  <2>1. sent[c] > 0
    BY DEF TypeInv, TypeOK, LedgerInv, BrokerInv
  <2> QED BY <2>1 DEF LedgerInv, RecordInv
<1> QED BY <1>1, LedgerInvariant, PTL

(* apply_status_transition is reached with a row that may have changed since *)
(* its guard was read; the version check makes every write of every caller   *)
(* follow the status and recovery graphs all the same.                       *)
THEOREM RecordsFollowTheGraph == Spec => LegalOrderStep
<1>1. TypeInv /\ SendInv /\ LedgerInv /\ [Next]_vars => [LegalStep]_vars
  <2> SUFFICES ASSUME TypeInv, SendInv, LedgerInv, [Next]_vars PROVE [LegalStep]_vars
    OBVIOUS
  <2>t. \A c \in Cid : order[c].filled \in Nat /\ LegalRow(order[c])
    BY QtyAssumption DEF TypeInv, TypeOK, OrderRow, LedgerInv, RowsInv
  <2>1. CASE UNCHANGED vars
    BY <2>1
  <2>2. ASSUME \A c \in Cid : EditOK(c) PROVE LegalStep
    BY <2>t, <2>2 DEF LegalStep, EditOK, LegalEdit, LegalRow
  <2>3. CASE Broker
    <3>1. order' = order
      BY <2>3 DEF Broker, BrokerAcceptsSubmit, BrokerRefuses, BrokerNeverReceives,
         BrokerCancels, BrokerSaysFilled, BrokerCompletesCancel, BrokerFills,
         BrokerEnds, BrokerOnly, db
    <3> QED BY <2>2, <3>1 DEF EditOK
  <2>4. ASSUME NEW d \in Device,
           \/ Start(d) \/ Continue(d) \/ RecSnapshot(d)
           \/ Boot(d) \/ LeaseMoves(d) \/ Stop(d) \/ Crash(d)
        PROVE  LegalStep
    BY <2>2, <2>4, DeviceEffect DEF Effect
  <2> QED BY <2>1, <2>3, <2>4 DEF Next
<1> QED BY <1>1, LedgerInvariant, PTL DEF Spec, LegalOrderStep

-----------------------------------------------------------------------------
(* The truth of what is recorded. *)

(* What a final status claims of the broker's order. *)
Says(status, b) ==
    /\ status = "CANCELLED" => \/ b.st = "cancelled"
                               \/ CancelAckMayPrecedeCancel /\ b.st # "none" /\ b.cancelling
    /\ status = "FILLED" => b.st = "filled"
    /\ status = "EXPIRED" => b.st = "expired"
    /\ status = "REJECTED" => b.st = "rejected"

(* The submit of c was answered by a refusal: it is nowhere any more. *)
Refused(c) == /\ brk[c].st = "none" /\ sent[c] > 0
              /\ \A d \in Device : <<"submit", c, d>> \notin net

(* A final status tells the truth; a refused order ends without the broker. *)
TrueStatus(c, status) ==
    /\ status # "NOT_ACCEPTED_CONFIRMED"
    /\ Says(status, brk[c]) \/ (status = "REJECTED" /\ Refused(c))

(* Rows, views and answers that claim an end claim a true one, and a second  *)
(* leg has a command only when the first one is cancelled.                   *)
RowsTrue == \A c \in Cid : TrueStatus(c, order[c].status)
ViewsTrue == \A d \in Device, c \in Cid : Says(snap[d].view[c].status, brk[c])
AnswersTrue ==
    \A d \in Device :
        /\ proc[d].pc = "cancelWait" /\ ans[d].st \in {"CANCELLED", "FILLED"}
              => Says(ans[d].st, brk[proc[d].cur])
        /\ proc[d].pc = "submitWait" /\ ans[d].st = "refused" => Refused(proc[d].cur)
LegsProven ==
    \A n \in Replacement : cmd[<<"SUBMIT", n>>] # Absent => brk[Replaces[n]].st = "cancelled"
LegsApart == ~CancelAckMayPrecedeCancel => LegsProven

TruthInv == RowsTrue /\ ViewsTrue /\ AnswersTrue /\ LegsApart
Facts == TypeInv /\ SendInv /\ LedgerInv /\ TruthInv

(* The broker never makes a true word false. *)
LEMMA SaysStable ==
    ASSUME NEW c \in Cid, BrokerStable(c), NEW status, Says(status, brk[c])
    PROVE  Says(status, brk'[c])
BY DEF BrokerStable, Says, Ended, BrokerState

(* A refused submit stays refused: the client order id is not sent again. *)
LEMMA RefusedStable ==
    ASSUME TypeInv, SendInv, LedgerInv, [Next]_vars, NEW c \in Cid, Refused(c)
    PROVE  Refused(c)'
<1>1. CASE UNCHANGED vars
  BY <1>1 DEF vars, Refused
<1>2. ASSUME NEW d \in Device,
           \/ Start(d) \/ Continue(d) \/ RecSnapshot(d)
           \/ Boot(d) \/ LeaseMoves(d) \/ Stop(d) \/ Crash(d)
      PROVE  Refused(c)'
  <2>1. brk' = brk
    BY <1>2, DeviceLeavesBroker
  <2>2. CASE CallSubmit(d)
    <3>1. proc[d].cur \in Cid /\ Submitting(d, proc[d].cur)
      BY <2>2 DEF CallSubmit, TypeInv, GoodProc, Submitting, SubmitPc
    <3>2. proc[d].cur # c
      BY <3>1 DEF SendInv, NotYetSent, Refused
    <3>3. sent'[c] = sent[c]
      BY <2>2, <3>2 DEF CallSubmit, TypeInv, TypeOK
    <3>4. \A e \in Device : <<"submit", c, e>> \notin net'
      BY <2>2, <3>2 DEF CallSubmit, Refused
    <3> QED BY <2>1, <3>3, <3>4 DEF Refused
  <2>3. CASE sent' = sent /\ net' \subseteq net \cup {<<"cancel", proc[d].cur, d>>}
    <3>1. \A e \in Device : <<"submit", c, e>> \notin net'
      BY <2>3 DEF Refused
    <3> QED BY <2>1, <2>3, <3>1 DEF Refused
  <2> QED BY <1>2, <2>2, <2>3, DeviceLeavesBroker
<1>3. CASE Broker
  <2>1. sent' = sent /\ net' \subseteq net
    BY <1>3, BrokerMoves DEF LedgerInv, Broker, BrokerAcceptsSubmit, BrokerRefuses, BrokerNeverReceives,
         BrokerCancels, BrokerSaysFilled, BrokerCompletesCancel, BrokerFills, BrokerEnds, Reply
  <2>2. brk'[c].st = "none"
    <3>1. ASSUME NEW m \in net, BrokerAcceptsSubmit(m) PROVE brk'[c] = brk[c]
      BY <3>1 DEF BrokerAcceptsSubmit, Refused, TypeInv, TypeOK, Request
    <3>2. ASSUME NEW m \in net, BrokerCancels(m) PROVE brk'[c] = brk[c]
      <4>1. m[2] # c /\ m[2] \in Cid
        BY <3>2 DEF BrokerCancels, Refused, TypeInv, TypeOK, Request
      <4> QED BY <3>2, <4>1 DEF BrokerCancels, TypeInv, TypeOK
    <3>3. ASSUME NEW b \in Cid, \/ BrokerCompletesCancel(b) \/ BrokerFills(b)
                                \/ \E how \in LateEndings : BrokerEnds(b, how)
          PROVE  brk'[c] = brk[c]
      BY <3>3 DEF BrokerCompletesCancel, BrokerFills, BrokerEnds, Refused, TypeInv, TypeOK
    <3>4. ASSUME NEW m \in net, BrokerRefuses(m) \/ BrokerNeverReceives(m) \/ BrokerSaysFilled(m)
          PROVE  brk'[c] = brk[c]
      BY <3>4 DEF BrokerRefuses, BrokerNeverReceives, BrokerSaysFilled
    <3> QED BY <1>3, <3>1, <3>2, <3>3, <3>4 DEF Broker, Refused
  <2> QED BY <2>1, <2>2 DEF Refused
<1> QED BY <1>1, <1>2, <1>3 DEF Next

(* What a view says of a broker order is so. *)
LEMMA ViewSays ==
    ASSUME NEW b \in BrokerRow, NEW v \in ViewOf(b)
    PROVE  Says(v.status, b)
<1>1. CASE b.st = "none"
  BY <1>1 DEF ViewOf, Says, Unseen
<1>2. CASE b.st = "open"
  <2>1. v.status \in {"PARTIALLY_FILLED", "WORKING", "CANCEL_PENDING", Unseen}
    BY <1>2, QtyAssumption DEF ViewOf, BrokerRow, InquiryTarget
  <2> QED BY <2>1 DEF Says, Unseen
<1>3. CASE b.st \in Ended
  <2>1. v.status = InquiryTarget(b)
    BY <1>3 DEF ViewOf, Ended
  <2> QED BY <1>3, <2>1 DEF Says, InquiryTarget, Ended, BrokerState, Absent
<1> QED BY <1>1, <1>2, <1>3 DEF BrokerRow, Ended

(* What an inquiry says of it is so, too. *)
LEMMA InquirySays ==
    ASSUME NEW b \in BrokerRow
    PROVE  Says(InquiryTarget(b), b) /\ InquiryTarget(b) # "NOT_ACCEPTED_CONFIRMED"
BY DEF InquiryTarget, Says, BrokerRow, BrokerState, Absent

(* Statuses that claim nothing. *)
OpenWord == {"PREPARED", "SUBMITTING", "ACKNOWLEDGED", "UNKNOWN_SUBMISSION_STATE", "WORKING",
             "PARTIALLY_FILLED", "CANCEL_PENDING", "CANCELLED_LOCALLY"}

(* Every row a device writes tells the truth about the broker. *)
LEMMA DeviceTells ==
    ASSUME TypeInv, SendInv, LedgerInv, TruthInv, NEW d \in Device,
           \/ Start(d) \/ Continue(d) \/ RecSnapshot(d)
           \/ Boot(d) \/ LeaseMoves(d) \/ Stop(d) \/ Crash(d),
           NEW c \in Cid, order'[c].status # order[c].status
    PROVE  TrueStatus(c, order'[c].status)
<1> DEFINE p == proc[d]
           o == order[p.cur]
<1>w. ASSUME order'[c].status \in OpenWord PROVE TrueStatus(c, order'[c].status)
  BY <1>w DEF OpenWord, TrueStatus, Says
<1>0. p \in ProcState /\ order \in [Cid -> OrderRow] /\ (p.cur \in Cid => o \in OrderRow)
  BY DEF TypeInv, TypeOK
<1>p. ASSUME p.pc \in {"prepared", "submitGate", "submitWait", "cancelJournal", "cancelGate", "cancelWait", "fence", "poll"}
      PROVE  p.cur \in Cid
  BY <1>p DEF TypeInv, GoodProc
<1>a. \A s : ApplyStatus(order[c], s).status = s
  BY <1>0 DEF ApplyStatus, OrderRow
<1>1. ASSUME ReplaceSubmit(d) \/ \E b \in Cid : SubmitPrepare(d, b)
      PROVE  order'[c].status \in OpenWord
  <2>1. \E b : order' = [order EXCEPT ![b] = PreparedRow]
    BY <1>1 DEF ReplaceSubmit, SubmitPrepare
  <2>2. PreparedRow.status = "PREPARED"
    BY DEF PreparedRow, NoRow
  <2> QED BY <1>0, <2>1, <2>2 DEF OpenWord
<1>2. ASSUME MarkSubmitting(d) \/ SubmitAbort(d) \/ SubmitAccepted(d) \/ SubmitAmbiguous(d)
             \/ CancelRefused(d)
      PROVE  order'[c].status \in OpenWord
  <2>1. \E s \in OpenWord : order' = [order EXCEPT ![p.cur] = ApplyStatus(@, s)]
    BY <1>2 DEF MarkSubmitting, SubmitAbort, SubmitAccepted, SubmitAmbiguous, CancelRefused, OpenWord
  <2> QED BY <1>0, <1>a, <2>1
<1>3. ASSUME CancelAbort(d) PROVE order'[c].status \in OpenWord
  <2>1. p.pre \in OpenWord
    BY <1>3, CancelEdges DEF CancelAbort, LedgerInv, RowsInv, Remembers, CancelPc, OpenWord
  <2> QED BY <1>0, <1>3, <1>a, <2>1 DEF CancelAbort
<1>4. ASSUME CancelJournal(d) \/ \E b \in Cid, k \in CancelId : CancelStart(d, b, k)
      PROVE  order'[c].status \in OpenWord
  <2>1. \E b : order' = [order EXCEPT ![b] = ApplyStatus(@, "CANCEL_PENDING")]
    BY <1>4 DEF CancelJournal, CancelStart, JournalCancel
  <2> QED BY <1>0, <1>a, <2>1 DEF OpenWord
<1>5. ASSUME SubmitRefused(d) PROVE TrueStatus(c, order'[c].status)
  <2>1. order' = [order EXCEPT ![p.cur] = ApplyStatus(@, "REJECTED")] /\ p.pc = "submitWait" /\ ans[d].st = "refused"
    BY <1>5 DEF SubmitRefused
  <2>2. c = p.cur
    BY <1>0, <2>1
  <2>3. order'[c].status = "REJECTED"
    BY <1>0, <1>a, <2>1, <2>2
  <2>4. Refused(c)
    BY <2>1, <2>2 DEF TruthInv, AnswersTrue
  <2> QED BY <2>3, <2>4 DEF TrueStatus
<1>6. ASSUME CancelAmbiguous(d) \/ Fence(d) PROVE FALSE
  <2>1. p.cur \in Cid
    BY <1>6, <1>p DEF CancelAmbiguous, Fence
  <2>2. order' = order \/ order' = [order EXCEPT ![p.cur] = [o EXCEPT !.recovery = "DISCOVERING"]]
    BY <1>6 DEF CancelAmbiguous, Fence
  <2>3. [o EXCEPT !.recovery = "DISCOVERING"].status = o.status
    BY <1>0, <2>1 DEF OrderRow
  <2>4. order'[c].status = order[c].status
    BY <1>0, <2>1, <2>2, <2>3
  <2> QED BY <2>4
<1>7. ASSUME CancelAnswered(d) PROVE TrueStatus(c, order'[c].status)
  <2> DEFINE n == AfterCancelAnswer(o, ans[d])
  <2>1. /\ order' = [order EXCEPT ![p.cur] = n] /\ p.pc = "cancelWait" /\ p.rowOk
        /\ ans[d].st \notin {"none", "refused"}
    BY <1>7 DEF CancelAnswered
  <2>2. /\ p.cur \in Cid /\ ans[d] \in Answer /\ o \in OrderRow /\ LegalRow(o) /\ o.filled <= ans[d].filled
        /\ o.status = "CANCEL_PENDING" /\ o.recovery = "NONE"
    BY <1>0, <1>p, <2>1 DEF TypeInv, TypeOK, LedgerInv, FillsInv, RowsInv, KnowsRow, CancelPc
  <2>3. n.status \in {"CANCEL_PENDING", "PARTIALLY_FILLED"} \/ (n.status = ans[d].st /\ ans[d].st \in {"CANCELLED", "FILLED"})
    BY <2>2, CancelAnswerLegal
  <2> HIDE DEF n
  <2>4. c = p.cur /\ order'[c].status = n.status
    BY <1>0, <2>1, <2>2
  <2>5. CASE ans[d].st \in {"CANCELLED", "FILLED"} /\ n.status = ans[d].st
    <3>1. Says(ans[d].st, brk[c])
      BY <2>1, <2>4, <2>5 DEF TruthInv, AnswersTrue
    <3> QED BY <2>4, <2>5, <3>1 DEF TrueStatus
  <2> QED BY <1>w, <2>3, <2>4, <2>5 DEF OpenWord
<1>8. ASSUME PollApplies(d) PROVE TrueStatus(c, order'[c].status)
  <2> DEFINE b == brk[p.cur]
             t == InquiryTarget(b)
             f == WithFill(order[p.cur], b.filled)
             s == IF t = p.pre THEN f ELSE ApplyStatus(f, t)
             n == IF s.recovery = "DISCOVERING" THEN [s EXCEPT !.recovery = "NONE"] ELSE s
  <2>1. /\ p.pc = "poll" /\ p.rowOk /\ order' = [order EXCEPT ![p.cur] = n]
        /\ t = p.pre \/ t \in allowed_status_transitions(p.pre)
    BY <1>8 DEF PollApplies
  <2>2. /\ p.cur \in Cid /\ order[p.cur] \in OrderRow /\ LegalRow(order[p.cur]) /\ b \in BrokerRow
        /\ order[p.cur].filled <= b.filled
        /\ p.pre = order[p.cur].status /\ order[p.cur].status \in {"CANCEL_PENDING", "CANCELLED"}
    BY <1>0, <1>p, <2>1 DEF TypeInv, TypeOK, LedgerInv, FillsInv, RowsInv, KnowsRow, Remembers
  <2>3. n.status = t
    <3> HIDE DEF b, t
    <3> QED BY <2>1, <2>2, PollLegal
  <2>4. Says(t, b) /\ t # "NOT_ACCEPTED_CONFIRMED"
    BY <2>2, InquirySays
  <2> HIDE DEF n, t
  <2>5. c = p.cur /\ order'[c].status = t
    BY <1>0, <2>1, <2>2, <2>3
  <2> QED BY <2>4, <2>5 DEF TrueStatus
<1>9. ASSUME RecApply(d) PROVE TrueStatus(c, order'[c].status)
  <2> DEFINE v == snap[d].view[c]
             n == ReduceOrder(order[c], v, snap[d].complete)
  <2>1. order'[c] = n
    BY <1>9 DEF RecApply, ReduceOrders
  <2>2. order[c] \in OrderRow /\ LegalRow(order[c]) /\ v \in OrderView /\ snap[d].complete \in BOOLEAN
    BY DEF TypeInv, TypeOK, Snapshot, LedgerInv, RowsInv
  <2>3. n.status = order[c].status \/ n.status = v.status
    BY <2>2, ReduceLegal
  <2>4. Says(v.status, brk[c]) /\ v.status # "NOT_ACCEPTED_CONFIRMED"
    BY <2>2 DEF TruthInv, ViewsTrue, OrderView, Unseen
  <2> HIDE DEF n, v
  <2> QED BY <2>1, <2>3, <2>4 DEF TrueStatus
<1>10. ASSUME \/ SubmitGate(d) \/ CallSubmit(d) \/ CancelGate(d) \/ CallCancel(d)
              \/ ReplaceJournal(d) \/ PollSkips(d) \/ PollTimesOut(d) \/ ReplaceAbandon(d)
              \/ Release(d) \/ ReleasePrepared(d) \/ Restore(d) \/ Complete(d) \/ SaveCard(d)
              \/ TxError(d) \/ RecSnapshot(d) \/ Boot(d) \/ LeaseMoves(d) \/ Stop(d) \/ Crash(d)
              \/ \E n \in Replacement : \/ ReplaceIntent(d, n) \/ ResumeSubmit(d, n)
                                        \/ ResumeAdopt(d, n) \/ ResumeClose(d, n)
       PROVE  FALSE
  BY <1>10 DEF SubmitGate, CallSubmit, CancelGate, CallCancel, ReplaceJournal, PollSkips, PollTimesOut,
     ReplaceAbandon, Release, ReleasePrepared, Restore, Complete, SaveCard, TxError, RecSnapshot, Boot,
     LeaseMoves, Stop, Crash, ReplaceIntent, ResumeSubmit, ResumeAdopt, ResumeClose, db
<1>11. CASE Start(d)
  BY <1>1, <1>4, <1>10, <1>11, <1>w DEF Start
<1>12. CASE Continue(d)
  BY <1>1, <1>2, <1>3, <1>4, <1>5, <1>6, <1>7, <1>8, <1>9, <1>10, <1>12, <1>w DEF Continue
<1> QED BY <1>10, <1>11, <1>12

(* What is true of an order stays true. *)
LEMMA TrueStable ==
    ASSUME TypeInv, SendInv, LedgerInv, [Next]_vars, NEW c \in Cid, NEW status, TrueStatus(c, status)
    PROVE  /\ status # "NOT_ACCEPTED_CONFIRMED"
           /\ Says(status, brk'[c]) \/ (status = "REJECTED" /\ Refused(c)')
<1>1. BrokerStable(c)
  BY BrokerInvStep DEF LedgerInv
<1> QED BY <1>1, SaysStable, RefusedStable DEF TrueStatus

(* Whose answer changes was waiting for it. *)
LEMMA ReplyReaches ==
    ASSUME TypeInv, NEW m \in net, NEW a, Reply(m, a), NEW e \in Device, ans'[e] # ans[e]
    PROVE  /\ ans'[e] = a /\ e = m[3] /\ proc[e].cur = m[2]
           /\ proc[e].pc = IF m[1] = "submit" THEN "submitWait" ELSE "cancelWait"
BY DEF Reply, TypeInv, TypeOK

(* The four parts of the invariant, after any step: the rows ... *)
LEMMA RowsTrueStep ==
    ASSUME TypeInv, SendInv, LedgerInv, TruthInv, [Next]_vars
    PROVE  RowsTrue'
<1>1. ASSUME NEW c \in Cid PROVE order'[c].status = order[c].status \/ TrueStatus(c, order'[c].status)
  <2>1. CASE UNCHANGED vars
    BY <2>1 DEF vars
  <2>2. CASE Broker
    BY <2>2 DEF Broker, BrokerAcceptsSubmit, BrokerRefuses, BrokerNeverReceives, BrokerCancels,
       BrokerSaysFilled, BrokerCompletesCancel, BrokerFills, BrokerEnds, BrokerOnly, db
  <2>3. ASSUME NEW d \in Device,
           \/ Start(d) \/ Continue(d) \/ RecSnapshot(d)
           \/ Boot(d) \/ LeaseMoves(d) \/ Stop(d) \/ Crash(d)
        PROVE  order'[c].status = order[c].status \/ TrueStatus(c, order'[c].status)
    BY <2>3, DeviceTells
  <2> QED BY <2>1, <2>2, <2>3 DEF Next
<1>2. ASSUME NEW c \in Cid PROVE TrueStatus(c, order'[c].status)
  BY <1>1, <1>2 DEF TruthInv, RowsTrue
<1>3. ASSUME NEW c \in Cid
      PROVE  /\ order'[c].status # "NOT_ACCEPTED_CONFIRMED"
             /\ Says(order'[c].status, brk'[c]) \/ (order'[c].status = "REJECTED" /\ Refused(c)')
  <2> DEFINE s == order'[c].status
  <2>1. TrueStatus(c, s)
    BY <1>2
  <2> HIDE DEF s
  <2>2. /\ s # "NOT_ACCEPTED_CONFIRMED"
        /\ Says(s, brk'[c]) \/ (s = "REJECTED" /\ Refused(c)')
    BY <2>1, TrueStable
  <2> QED BY <2>2 DEF s
<1> QED BY <1>3 DEF RowsTrue, TrueStatus, Refused

(* ... the views ... *)
LEMMA ViewsTrueStep ==
    ASSUME TypeInv, SendInv, LedgerInv, TruthInv, [Next]_vars
    PROVE  ViewsTrue'
<1> SUFFICES ASSUME NEW e \in Device, NEW c \in Cid PROVE Says(snap'[e].view[c].status, brk'[c])
  BY DEF ViewsTrue, Says
<1>0. BrokerStable(c) /\ brk[c] \in BrokerRow
  BY BrokerInvStep DEF LedgerInv, TypeInv, TypeOK
<1> DEFINE s == snap'[e].view[c].status
<1>1. Says(s, brk[c])
  <2>1. Says(snap[e].view[c].status, brk[c])
    BY DEF TruthInv, ViewsTrue
  <2>2. CASE snap' = snap
    BY <2>1, <2>2
  <2>3. CASE SnapOK
    <3>1. CASE snap'[e].view[c] = snap[e].view[c]
      BY <2>1, <3>1
    <3>2. CASE snap'[e].view[c] = [status |-> Unseen, filled |-> 0]
      BY <3>2 DEF Says, Unseen
    <3>3. CASE snap'[e].view[c] \in ViewOf(brk[c])
      BY <1>0, <3>3, ViewSays
    <3> QED BY <2>3, <3>1, <3>2, <3>3 DEF SnapOK
  <2>4. ASSUME NEW d \in Device,
           \/ Start(d) \/ Continue(d) \/ RecSnapshot(d)
           \/ Boot(d) \/ LeaseMoves(d) \/ Stop(d) \/ Crash(d)
        PROVE  SnapOK
    BY <2>4, DeviceEffect DEF Effect
  <2>5. Broker => snap' = snap
    BY DEF Broker, BrokerAcceptsSubmit, BrokerRefuses, BrokerNeverReceives, BrokerCancels,
       BrokerSaysFilled, BrokerCompletesCancel, BrokerFills, BrokerEnds, BrokerOnly
  <2>6. UNCHANGED vars => snap' = snap
    BY DEF vars
  <2> QED BY <2>2, <2>3, <2>4, <2>5, <2>6 DEF Next
<1> HIDE DEF s
<1>2. Says(s, brk'[c])
  BY <1>0, <1>1, SaysStable
<1> QED BY <1>2 DEF s

(* ... the answers ... *)
LEMMA AnswersTrueStep ==
    ASSUME TypeInv, SendInv, LedgerInv, TruthInv, [Next]_vars
    PROVE  AnswersTrue'
<1> DEFINE Gone(c) == /\ brk'[c].st = "none" /\ sent'[c] > 0
                      /\ \A d \in Device : <<"submit", c, d>> \notin net'
<1> SUFFICES ASSUME NEW e \in Device
             PROVE  /\ proc'[e].pc = "cancelWait" /\ ans'[e].st \in {"CANCELLED", "FILLED"}
                          => Says(ans'[e].st, brk'[proc'[e].cur])
                    /\ proc'[e].pc = "submitWait" /\ ans'[e].st = "refused" => Gone(proc'[e].cur)
  BY DEF AnswersTrue, Says, Refused
(* Most steps take the answer away or leave it as it was. *)
<1>1. ASSUME ans'[e] = NoAnswer
      PROVE  ans'[e].st \notin {"CANCELLED", "FILLED", "refused"}
  BY <1>1 DEF NoAnswer
<1>2. ASSUME ans'[e] = ans[e], proc'[e].pc = proc[e].pc, proc'[e].cur = proc[e].cur
      PROVE  /\ proc[e].pc = "cancelWait" /\ ans[e].st \in {"CANCELLED", "FILLED"}
                          => Says(ans[e].st, brk'[proc[e].cur])
             /\ proc[e].pc = "submitWait" /\ ans[e].st = "refused" => Gone(proc[e].cur)
  <2>1. CASE proc[e].cur \in Cid
    <3>1. PICK c \in Cid : c = proc[e].cur
      BY <2>1
    <3>2. PICK s : s = ans[e].st
      OBVIOUS
    <3>3. BrokerStable(c)
      BY BrokerInvStep DEF LedgerInv
    <3>4. proc[e].pc = "cancelWait" /\ s \in {"CANCELLED", "FILLED"} => Says(s, brk[c])
      BY <3>1, <3>2 DEF TruthInv, AnswersTrue
    <3>5. proc[e].pc = "submitWait" /\ s = "refused" => Refused(c)
      BY <3>1, <3>2 DEF TruthInv, AnswersTrue
    <3>6. Says(s, brk[c]) => Says(s, brk'[c])
      BY <3>3, SaysStable
    <3>7. Refused(c) => Gone(c)
      BY RefusedStable DEF Refused
    <3> QED BY <3>1, <3>2, <3>4, <3>5, <3>6, <3>7
  <2>2. CASE proc[e].pc \in {"idle", "reconcile"}
    BY <2>2
  <2> QED BY <2>1, <2>2, KnowsOrder
<1>3. CASE UNCHANGED vars
  BY <1>2, <1>3 DEF vars
<1>4. ASSUME NEW d \in Device,
           \/ Start(d) \/ Continue(d) \/ RecSnapshot(d)
           \/ Boot(d) \/ LeaseMoves(d) \/ Stop(d) \/ Crash(d)
      PROVE  \/ ans'[e] = NoAnswer
             \/ ans'[e] = ans[e] /\ proc'[e].pc = proc[e].pc /\ proc'[e].cur = proc[e].cur
  <2>1. Moves(d)
    BY <1>4, DeviceEffect DEF Effect
  <2> QED BY <2>1, OthersAfterCommit DEF Moves
<1>5. CASE Broker
  <2>0. proc' = proc /\ sent' = sent
    BY <1>5 DEF Broker, BrokerAcceptsSubmit, BrokerRefuses, BrokerNeverReceives, BrokerCancels,
       BrokerSaysFilled, BrokerCompletesCancel, BrokerFills, BrokerEnds, BrokerOnly
  <2>1. CASE ans'[e] = ans[e]
    BY <1>2, <2>0, <2>1
  <2>2. ASSUME NEW m \in net, BrokerAcceptsSubmit(m), ans'[e] # ans[e]
        PROVE  ans'[e].st = "accepted"
    <3> DEFINE a == [st |-> "accepted", filled |-> 0]
    <3>1. Reply(m, a) /\ a.st = "accepted"
      BY <2>2 DEF BrokerAcceptsSubmit
    <3> HIDE DEF a
    <3> QED BY <2>2, <3>1, ReplyReaches
  <2>3. ASSUME NEW m \in net, BrokerRefuses(m), ans'[e] # ans[e]
        PROVE  ans'[e].st = "refused" /\ (proc[e].pc = "submitWait" => Gone(proc[e].cur))
    <3> DEFINE a == [st |-> "refused", filled |-> 0]
    <3>1. Reply(m, a) /\ a.st = "refused" /\ brk' = brk /\ net' = net \ {m}
      BY <2>3 DEF BrokerRefuses, Reply
    <3> HIDE DEF a
    <3>2. /\ ans'[e].st = "refused" /\ e = m[3] /\ proc[e].cur = m[2]
          /\ proc[e].pc = IF m[1] = "submit" THEN "submitWait" ELSE "cancelWait"
      BY <2>3, <3>1, ReplyReaches
    <3>3. CASE m[1] = "submit"
      <4>1. PICK c \in Cid, d \in Device : m = <<"submit", c, d>>
        BY <3>3 DEF TypeInv, TypeOK, Request
      <4>2. /\ sent[c] > 0 /\ brk[c].st = "none"
            /\ \A x \in Device : <<"submit", c, x>> \in net => x = d
        BY <4>1 DEF LedgerInv, BrokerInv
      <4>3. Gone(c)
        BY <2>0, <3>1, <4>1, <4>2
      <4> QED BY <3>2, <4>1, <4>3
    <3> QED BY <3>2, <3>3
  <2>4. ASSUME NEW m \in net, BrokerCancels(m), ans'[e] # ans[e]
        PROVE  /\ proc[e].pc = "cancelWait" /\ ans'[e].st \notin {"FILLED", "refused"}
               /\ ans'[e].st = "CANCELLED" => Says("CANCELLED", brk'[proc[e].cur])
    <3> DEFINE b == brk[m[2]]
    <3>1. m[1] = "cancel" /\ m[2] \in Cid /\ b \in BrokerRow /\ b.st = "open" /\ brk \in [Cid -> BrokerRow]
      BY <2>4 DEF BrokerCancels, TypeInv, TypeOK, Request
    <3>2. PICK st \in {"CANCELLED", "CANCEL_REQUESTED", "PARTIALLY_FILLED"} :
              /\ Reply(m, [st |-> st, filled |-> b.filled])
              /\ \/ brk' = [brk EXCEPT ![m[2]].st = "cancelled"]
                 \/ /\ brk' = [brk EXCEPT ![m[2]].cancelling = TRUE]
                    /\ st = "CANCELLED" => CancelAckMayPrecedeCancel
      BY <2>4 DEF BrokerCancels
    <3>3. st = "CANCELLED" => Says("CANCELLED", brk'[m[2]])
      BY <3>1, <3>2 DEF Says, BrokerRow
    <3> DEFINE a == [st |-> st, filled |-> b.filled]
    <3>4. a.st = st
      OBVIOUS
    <3> HIDE DEF a
    <3>5. ans'[e] = a /\ proc[e].cur = m[2] /\ proc[e].pc = "cancelWait"
      BY <2>4, <3>1, <3>2, ReplyReaches DEF a
    <3> QED BY <3>2, <3>3, <3>4, <3>5
  <2>5. ASSUME NEW m \in net, BrokerSaysFilled(m), ans'[e] # ans[e]
        PROVE  /\ proc[e].pc = "cancelWait" /\ ans'[e].st = "FILLED" /\ Says("FILLED", brk'[proc[e].cur])
    <3> DEFINE a == [st |-> "FILLED", filled |-> Qty]
    <3>1. Reply(m, a) /\ a.st = "FILLED" /\ m[1] = "cancel" /\ brk'[m[2]].st = "filled"
      BY <2>5 DEF BrokerSaysFilled
    <3> HIDE DEF a
    <3> QED BY <2>5, <3>1, ReplyReaches DEF Says
  <2>6. \/ ans' = ans
        \/ \E m \in net : BrokerAcceptsSubmit(m) \/ BrokerRefuses(m) \/ BrokerCancels(m) \/ BrokerSaysFilled(m)
    BY <1>5 DEF Broker, BrokerNeverReceives, BrokerCompletesCancel, BrokerFills, BrokerEnds
  <2> HIDE DEF Gone
  <2> QED BY <2>0, <2>1, <2>2, <2>3, <2>4, <2>5, <2>6
<1> HIDE DEF Gone
<1> QED BY <1>1, <1>2, <1>3, <1>4, <1>5 DEF Next

(* Only transaction 1 of _do_submit, alone or in a replace, gives an order    *)
(* its command.                                                              *)
LEMMA NewSubmit ==
    ASSUME TypeInv, LedgerInv, [Next]_vars, NEW n \in Cid,
           cmd[<<"SUBMIT", n>>] = Absent, cmd'[<<"SUBMIT", n>>] # Absent
    PROVE  \E d \in Device : SubmitPrepare(d, n) \/ (ReplaceSubmit(d) /\ proc[d].rep = n)
<1>0. <<"SUBMIT", n>> \in CmdKey /\ cmd \in [CmdKey -> CmdStatus]
  BY DEF CmdKey, TypeInv, TypeOK
<1>1. cmd'[<<"SUBMIT", n>>] # cmd[<<"SUBMIT", n>>]
  OBVIOUS
<1>2. ASSUME NEW k, NEW v, cmd' = [cmd EXCEPT ![k] = v] PROVE k = <<"SUBMIT", n>>
  BY <1>0, <1>1, <1>2
<1>3. ASSUME NEW d \in Device, proc[d].pc \in MarkedPc, proc[d].cur = n PROVE FALSE
  BY <1>3 DEF LedgerInv, RecordInv, OnRecord, Recorded
<1>4. ASSUME cmd' = cmd PROVE FALSE
  BY <1>1, <1>4
<1>5. ~Broker /\ ~UNCHANGED vars
  BY <1>4 DEF Broker, BrokerAcceptsSubmit, BrokerRefuses, BrokerNeverReceives, BrokerCancels,
     BrokerSaysFilled, BrokerCompletesCancel, BrokerFills, BrokerEnds, BrokerOnly, db, vars
<1>6. PICK d \in Device : \/ Start(d) \/ Continue(d) \/ RecSnapshot(d)
                          \/ Boot(d) \/ LeaseMoves(d) \/ Stop(d) \/ Crash(d)
  BY <1>5 DEF Next
<1> DEFINE p == proc[d]
<1>7. ~(\/ SubmitAbort(d) \/ SubmitAccepted(d) \/ SubmitRefused(d) \/ SubmitAmbiguous(d))
  <2>1. ASSUME \/ SubmitAbort(d) \/ SubmitAccepted(d) \/ SubmitRefused(d) \/ SubmitAmbiguous(d)
        PROVE  p.pc \in MarkedPc /\ \E v : cmd' = [cmd EXCEPT ![<<"SUBMIT", p.cur>>] = v]
    BY <2>1 DEF SubmitAbort, SubmitAccepted, SubmitRefused, SubmitAmbiguous, MarkedPc
  <2>2. ASSUME p.pc \in MarkedPc, \E v : cmd' = [cmd EXCEPT ![<<"SUBMIT", p.cur>>] = v] PROVE FALSE
    <3>1. <<"SUBMIT", p.cur>> = <<"SUBMIT", n>>
      BY <1>2, <2>2
    <3> QED BY <1>3, <2>2, <3>1
  <2> QED BY <2>1, <2>2
<1>8. ASSUME NEW key, NEW v, cmd' = [cmd EXCEPT ![<<"CANCEL", key>>] = v] \/ cmd' = [cmd EXCEPT ![<<"REPLACE", key>>] = v]
      PROVE  FALSE
  <2>1. <<"CANCEL", key>> = <<"SUBMIT", n>> \/ <<"REPLACE", key>> = <<"SUBMIT", n>>
    BY <1>2, <1>8
  <2> QED BY <2>1
<1>9. ~(\/ CancelAbort(d) \/ CancelAnswered(d) \/ CancelRefused(d) \/ CancelAmbiguous(d)
        \/ CancelJournal(d) \/ ReplaceJournal(d) \/ Complete(d))
  BY <1>8 DEF CancelAbort, CancelAnswered, CancelRefused, CancelAmbiguous, CancelJournal, JournalCancel,
     ReplaceJournal, Complete
<1>10. Start(d) => SubmitPrepare(d, n)
  <2>1. ASSUME NEW c \in Cid, SubmitPrepare(d, c) PROVE c = n
    <3>1. <<"SUBMIT", c>> = <<"SUBMIT", n>>
      BY <1>2, <2>1 DEF SubmitPrepare
    <3> QED BY <3>1
  <2>2. ASSUME NEW c \in Cid, NEW k, CancelStart(d, c, k) PROVE FALSE
    <3> DEFINE q == [Idle EXCEPT !.cur = c, !.key = k, !.fill = order[c].filled]
    <3>1. JournalCancel(d, q)
      BY <2>2 DEF CancelStart
    <3> HIDE DEF q
    <3> QED BY <1>8, <3>1 DEF JournalCancel
  <2>3. ASSUME NEW m \in Replacement, \/ ReplaceIntent(d, m) \/ ResumeSubmit(d, m)
                                      \/ ResumeAdopt(d, m) \/ ResumeClose(d, m)
        PROVE  FALSE
    BY <1>4, <2>3 DEF ReplaceIntent, ResumeSubmit, ResumeAdopt, ResumeClose, db
  <2> QED BY <2>1, <2>2, <2>3 DEF Start
<1>11. ~(\/ MarkSubmitting(d) \/ SubmitGate(d) \/ CallSubmit(d) \/ CancelGate(d) \/ CallCancel(d)
         \/ Fence(d) \/ PollApplies(d) \/ PollSkips(d) \/ PollTimesOut(d) \/ ReplaceAbandon(d)
         \/ Release(d) \/ ReleasePrepared(d) \/ Restore(d) \/ SaveCard(d) \/ TxError(d) \/ RecApply(d)
         \/ RecSnapshot(d) \/ Boot(d) \/ LeaseMoves(d) \/ Stop(d) \/ Crash(d))
  BY <1>4 DEF MarkSubmitting, SubmitGate, CallSubmit, CancelGate, CallCancel, Fence, PollApplies,
     PollSkips, PollTimesOut, ReplaceAbandon, Release, ReleasePrepared, Restore, SaveCard, TxError,
     RecApply, RecSnapshot, Boot, LeaseMoves, Stop, Crash, db
<1>12. SubmitPrepare(d, n) \/ ReplaceSubmit(d)
  BY <1>6, <1>7, <1>9, <1>10, <1>11 DEF Continue
<1>13. ASSUME ReplaceSubmit(d) PROVE p.rep = n
  <2>1. <<"SUBMIT", p.rep>> = <<"SUBMIT", n>>
    BY <1>2, <1>13 DEF ReplaceSubmit
  <2> QED BY <2>1
<1> QED BY <1>12, <1>13

(* ... and the legs: only a linked submit gives a replacement its command,   *)
(* and it reads the old order's row in the same transaction.                 *)
LEMMA LegsApartStep ==
    ASSUME TypeInv, SendInv, LedgerInv, TruthInv, [Next]_vars
    PROVE  LegsApart'
<1> SUFFICES ASSUME ~CancelAckMayPrecedeCancel, NEW n \in Replacement, cmd'[<<"SUBMIT", n>>] # Absent
             PROVE  brk'[Replaces[n]].st = "cancelled"
  BY DEF LegsApart, LegsProven
<1>1. Replaces[n] \in Cid /\ n \in Cid
  BY ChainAssumption DEF Replacement
<1>2. BrokerStable(Replaces[n])
  BY <1>1, BrokerInvStep DEF LedgerInv
<1>3. SUFFICES brk[Replaces[n]].st = "cancelled"
  BY <1>2, <1>3 DEF BrokerStable, Ended, BrokerState
<1>4. CASE cmd[<<"SUBMIT", n>>] # Absent
  BY <1>4 DEF TruthInv, LegsApart, LegsProven
<1>5. CASE cmd[<<"SUBMIT", n>>] = Absent
  <2>1. PICK d \in Device : ReplaceSubmit(d) /\ proc[d].rep = n
    BY <1>1, <1>5, NewSubmit DEF SubmitPrepare
  <2>2. order[Replaces[n]].status = "CANCELLED"
    BY <2>1 DEF ReplaceSubmit
  <2> QED BY <1>1, <2>2 DEF TruthInv, RowsTrue, TrueStatus, Says
<1> QED BY <1>4, <1>5

(* Nothing is claimed of an empty database. *)
LEMMA TruthInit == Init => TruthInv
<1> SUFFICES ASSUME Init PROVE TruthInv
  OBVIOUS
<1>1. RowsTrue
  BY DEF Init, RowsTrue, TrueStatus, Says, NoRow, Absent
<1>2. ViewsTrue
  BY DEF Init, ViewsTrue, Says, NoSnapshot, Unseen
<1>3. AnswersTrue
  BY DEF Init, AnswersTrue, Idle
<1>4. LegsApart
  <2>1. \A c \in Cid : <<"SUBMIT", c>> \in CmdKey
    BY DEF CmdKey
  <2> QED BY <2>1 DEF Init, LegsApart, LegsProven, Replacement
<1> QED BY <1>1, <1>2, <1>3, <1>4 DEF TruthInv

(* What the gateway and the reconciliation record as over is over at the     *)
(* broker, as far as the broker's own answers are true.                      *)
THEOREM TruthInvariant == Spec => [](TypeInv /\ SendInv /\ LedgerInv /\ TruthInv)
<1>1. TypeInv /\ SendInv /\ LedgerInv /\ TruthInv /\ [Next]_vars => TruthInv'
  BY RowsTrueStep, ViewsTrueStep, AnswersTrueStep, LegsApartStep DEF TruthInv
<1> QED BY <1>1, TruthInit, LedgerInvariant, PTL DEF Spec

(* replace_guarded and resume_replace_guarded never have two orders of a     *)
(* chain at work, on any number of devices and across any crash, when a      *)
(* cancel answer that says CANCELLED is true.                                *)
THEOREM OneLegAtATime ==
    ASSUME ~CancelAckMayPrecedeCancel
    PROVE  Spec => []NeverTwoLegs
<1>1. TypeInv /\ SendInv /\ LedgerInv /\ TruthInv => NeverTwoLegs
  <2> SUFFICES ASSUME LedgerInv, TruthInv, NEW n \in Replacement, sent[n] > 0
               PROVE  brk[Replaces[n]].st = "cancelled"
    BY DEF NeverTwoLegs
  <2>1. cmd[<<"SUBMIT", n>>] # Absent
    BY DEF Replacement, LedgerInv, RecordInv, OnRecord, Recorded
  <2> QED BY <2>1 DEF TruthInv, LegsApart, LegsProven
<1> QED BY <1>1, TruthInvariant, PTL

(* No record is closed by the gateway or the reconciliation while its order  *)
(* may still trade; the one exception is the adapter's early CANCELLED, whose*)
(* order is then being cancelled.                                            *)
THEOREM NothingForgotten == Spec => []TerminalMeansOver
<1>1. TypeInv /\ SendInv /\ LedgerInv /\ TruthInv => TerminalMeansOver
  <2> SUFFICES ASSUME TypeInv, LedgerInv, TruthInv, NEW c \in Cid, order[c].status \in TerminalStatus
               PROVE  /\ \/ brk[c].st # "open"
                         \/ CancelAckMayPrecedeCancel /\ order[c].status = "CANCELLED" /\ brk[c].cancelling
                      /\ \A d \in Device : <<"submit", c, d>> \notin net
    BY DEF TerminalMeansOver
  <2>b. brk[c].st = "none" \/ (\A d \in Device : <<"submit", c, d>> \notin net)
    BY DEF LedgerInv, BrokerInv
  <2>1. CASE order[c].status = "CANCELLED_LOCALLY"
    <3>1. ~OnRecord(c)
      BY <2>1 DEF OnRecord, Recorded
    <3>2. sent[c] = 0
      BY <3>1 DEF LedgerInv, RecordInv, TypeInv, TypeOK
    <3> QED BY <3>2 DEF LedgerInv, BrokerInv
  <2>2. CASE order[c].status = "REJECTED" /\ Refused(c)
    BY <2>2 DEF Refused
  <2>3. CASE Says(order[c].status, brk[c]) /\ order[c].status # "CANCELLED_LOCALLY"
    <3>1. order[c].status \in {"FILLED", "CANCELLED", "REJECTED", "EXPIRED"}
      BY <2>3 DEF TerminalStatus, TruthInv, RowsTrue, TrueStatus
    <3> QED BY <2>b, <2>3, <3>1 DEF Says
  <2> QED BY <2>1, <2>2, <2>3 DEF TruthInv, RowsTrue, TrueStatus
<1> QED BY <1>1, TruthInvariant, PTL

-----------------------------------------------------------------------------
(* One device and a cancel answer that comes too early.  Such an answer makes *)
(* a row CANCELLED that is not; what follows is why the device that wrote it *)
(* never takes the row for proof.                                            *)

(* One device whose database does not fail. *)
Alone == (\A d, e \in Device : d = e) /\ ~DatabaseMayFail

(* A cancel that is on record but not known to have happened: the answer may *)
(* have come too early, and nobody has put the order under discovery yet.    *)
Unproven(c) ==
    /\ order[c].status = "CANCELLED" /\ order[c].recovery = "NONE"
    /\ brk[c].st # "cancelled"

(* A view calls an order cancelled only when it is. *)
ViewsProven ==
    \A d \in Device, c \in Cid :
        snap[d].view[c].status = "CANCELLED" => brk[c].st = "cancelled"

(* A chain begins with its root. *)
RootKnown ==
    \A c \in Cid : cmd[<<"SUBMIT", c>>] # Absent => cmd[<<"SUBMIT", Root[c]>>] # Absent

(* Where a device is in a replace, and what it has made sure of. *)
ReplacePc == CancelPc \cup {"replaceJournal", "cancelJournal", "fence", "poll", "revalidate"}
Current(p) == p.rowOk /\ p.resOk
OnRoute(p) == p.pc \in ReplacePc /\ p.rep # NoCid => p.rep \in Replacement /\ p.cur = Replaces[p.rep]
HoldClosed(d) ==
    phase[d] = "active" =>
        \A c \in Cid : Unproven(c) =>
            \/ ~IsOpen(res[Root[c]])
            \/ proc[d].pc = "fence" /\ proc[d].cur = c
SeenOpen(d) ==
    proc[d].pc = "reconcile" /\ snap[d].complete =>
        \A c \in Cid : Unproven(c) => snap[d].view[c].status \notin {Unseen, "CANCELLED"}
CancelProven(d) == proc[d].pc = "revalidate" => brk[proc[d].cur].st = "cancelled"

Careful(d) == Current(proc[d]) /\ OnRoute(proc[d]) /\ HoldClosed(d) /\ SeenOpen(d) /\ CancelProven(d)

AloneInv ==
    /\ ViewsProven /\ RootKnown
    /\ Alone => LegsProven /\ \A d \in Device : Careful(d)

(* A pass that has not seen an order cancelled makes no unproven one. *)
LEMMA UnprovenReduced ==
    ASSUME NEW o \in OrderRow, LegalRow(o), NEW v \in OrderView, NEW complete,
           v.status # "CANCELLED",
           ReduceOrder(o, v, complete).status = "CANCELLED",
           ReduceOrder(o, v, complete).recovery = "NONE"
    PROVE  ReduceOrder(o, v, complete) = o /\ v.status = Unseen
<1> DEFINE f == WithFill(o, v.filled)
<1>0. f \in OrderRow /\ f.status = o.status /\ f.recovery = o.recovery
  BY WithFillType DEF OrderView, WithFill, OrderRow
<1>f. \A s : ApplyStatus(f, s).status = s
  BY <1>0 DEF ApplyStatus, OrderRow
<1> HIDE DEF f
<1>1. CASE o.identity = "EXACT" /\ v.status # Unseen
  <2>1. ReduceOrder(o, v, complete) = ApplyExactSnapshot(o, v)
    BY <1>1 DEF ReduceOrder, IsAmbiguousSubmission
  <2>2. CASE PreserveAmbiguousCancel(o, v)
    <3>1. ApplyExactSnapshot(o, v) = f
      BY <2>2 DEF ApplyExactSnapshot, f
    <3> QED BY <1>0, <2>1, <2>2, <3>1 DEF PreserveAmbiguousCancel
  <2>c. ASSUME NEW g \in OrderRow PROVE ClearDiscovery(g, v).status = g.status
    BY <2>c DEF ClearDiscovery, SetRecovery, OrderRow
  <2>3. CASE ~PreserveAmbiguousCancel(o, v) /\ v.status = o.status
    <3>1. ApplyExactSnapshot(o, v) = ClearDiscovery(f, v)
      BY <2>3 DEF ApplyExactSnapshot, f
    <3> QED BY <1>0, <2>1, <2>3, <2>c, <3>1
  <2>4. CASE ~PreserveAmbiguousCancel(o, v) /\ v.status # o.status /\ ReachableStatus(o, v.status)
    <3>1. ApplyExactSnapshot(o, v) = ClearDiscovery(ApplyStatus(f, v.status), v)
      BY <2>4 DEF ApplyExactSnapshot, f
    <3>2. ApplyStatus(f, v.status) \in OrderRow
      BY <1>0, <1>1, ApplyStatusType DEF OrderView, ExecutionOrderStatus, Unseen
    <3> QED BY <1>f, <2>1, <2>c, <3>1, <3>2
  <2>5. CASE ~PreserveAmbiguousCancel(o, v) /\ v.status # o.status /\ ~ReachableStatus(o, v.status)
    <3>1. ApplyExactSnapshot(o, v) = SetRecovery(f, "MANUAL_INTERVENTION_REQUIRED")
      BY <2>5 DEF ApplyExactSnapshot, f
    <3>2. SetRecovery(f, "MANUAL_INTERVENTION_REQUIRED").recovery = "MANUAL_INTERVENTION_REQUIRED"
      BY <1>0 DEF SetRecovery, OrderRow, allowed_recovery_transitions
    <3> QED BY <2>1, <3>1, <3>2
  <2> QED BY <2>2, <2>3, <2>4, <2>5
<1>2. CASE ~(o.identity = "EXACT" /\ v.status # Unseen) /\ IsAmbiguousSubmission(o) /\ complete
  <2>1. ReduceOrder(o, v, complete) = SetRecovery(o, "MANUAL_INTERVENTION_REQUIRED")
    BY <1>2 DEF ReduceOrder
  <2>2. SetRecovery(o, "MANUAL_INTERVENTION_REQUIRED").recovery = "MANUAL_INTERVENTION_REQUIRED"
    BY DEF SetRecovery, OrderRow, allowed_recovery_transitions
  <2> QED BY <2>1, <2>2
<1>3. CASE ~(o.identity = "EXACT" /\ v.status # Unseen) /\ ~(IsAmbiguousSubmission(o) /\ complete)
  <2>1. ReduceOrder(o, v, complete) = o
    BY <1>3 DEF ReduceOrder
  <2>2. o.identity = "EXACT"
    BY <2>1 DEF LegalRow, LegalIdentity, Absent
  <2> QED BY <1>3, <2>1, <2>2
<1> QED BY <1>1, <1>2, <1>3

(* An order that is unproven was so before, but for the answer to its cancel. *)
LEMMA UnprovenBefore ==
    ASSUME Facts, ViewsProven, NEW d \in Device,
           \/ Start(d) \/ Continue(d) \/ RecSnapshot(d)
           \/ Boot(d) \/ LeaseMoves(d) \/ Stop(d) \/ Crash(d),
           NEW c \in Cid, Unproven(c)', ~(CancelAnswered(d) /\ proc[d].cur = c)
    PROVE  Unproven(c)
<1> USE DEF Facts
<1> DEFINE p == proc[d]
           o == order[p.cur]
<1>0. p \in ProcState /\ order \in [Cid -> OrderRow] /\ (p.cur \in Cid => o \in OrderRow)
  BY DEF TypeInv, TypeOK
<1>b. brk' = brk
  BY DeviceLeavesBroker
<1>u. ASSUME order'[c] = order[c] PROVE Unproven(c)
  BY <1>b, <1>u DEF Unproven
<1>v. order'[c].status = "CANCELLED" /\ order'[c].recovery = "NONE" /\ brk[c].st # "cancelled"
  BY <1>b DEF Unproven
<1>p. ASSUME p.pc \in {"prepared", "submitGate", "submitWait", "cancelJournal", "cancelGate", "cancelWait",
                       "fence", "poll"}
      PROVE  p.cur \in Cid
  BY <1>p DEF TypeInv, GoodProc
<1>a. \A r \in OrderRow : \A s : ApplyStatus(r, s).status = s
  BY DEF ApplyStatus, OrderRow
<1>w. ASSUME NEW b, NEW r, r.status # "CANCELLED", order' = [order EXCEPT ![b] = r] PROVE Unproven(c)
  <2>1. b # c
    BY <1>0, <1>v, <1>w
  <2> QED BY <1>0, <1>u, <1>w, <2>1
<1>1. ASSUME ReplaceSubmit(d) \/ \E b \in Cid : SubmitPrepare(d, b) PROVE Unproven(c)
  <2>1. \E b : order' = [order EXCEPT ![b] = PreparedRow]
    BY <1>1 DEF ReplaceSubmit, SubmitPrepare
  <2>2. PreparedRow.status = "PREPARED"
    BY DEF PreparedRow, NoRow
  <2> QED BY <1>w, <2>1, <2>2
<1>2. ASSUME MarkSubmitting(d) \/ SubmitAbort(d) \/ SubmitAccepted(d) \/ SubmitAmbiguous(d)
             \/ SubmitRefused(d) \/ CancelRefused(d) \/ CancelAbort(d)
      PROVE  Unproven(c)
  <2>1. \E s : s # "CANCELLED" /\ order' = [order EXCEPT ![p.cur] = ApplyStatus(@, s)] /\ p.cur \in Cid
    <3>1. CancelAbort(d) => p.pre # "CANCELLED"
      BY CancelEdges DEF CancelAbort, LedgerInv, RowsInv, Remembers, CancelPc
    <3> QED BY <1>2, <1>p, <3>1 DEF MarkSubmitting, SubmitAbort, SubmitAccepted, SubmitAmbiguous,
         SubmitRefused, CancelRefused, CancelAbort
  <2>2. PICK s : s # "CANCELLED" /\ order' = [order EXCEPT ![p.cur] = ApplyStatus(o, s)] /\ p.cur \in Cid
    BY <1>0, <2>1
  <2>3. ApplyStatus(o, s).status # "CANCELLED"
    BY <1>0, <1>a, <2>2
  <2> QED BY <1>w, <2>2, <2>3
<1>3. ASSUME CancelJournal(d) \/ \E b \in Cid, k \in CancelId : CancelStart(d, b, k) PROVE Unproven(c)
  <2>1. PICK b \in Cid : order' = [order EXCEPT ![b] = ApplyStatus(@, "CANCEL_PENDING")]
    <3>1. ASSUME CancelJournal(d) PROVE order' = [order EXCEPT ![p.cur] = ApplyStatus(@, "CANCEL_PENDING")]
                                        /\ p.cur \in Cid
      BY <1>p, <3>1 DEF CancelJournal, JournalCancel
    <3>2. ASSUME NEW b \in Cid, NEW k \in CancelId, CancelStart(d, b, k)
          PROVE  order' = [order EXCEPT ![b] = ApplyStatus(@, "CANCEL_PENDING")]
      BY <3>2 DEF CancelStart, JournalCancel, Idle
    <3> QED BY <1>3, <3>1, <3>2
  <2>2. order' = [order EXCEPT ![b] = ApplyStatus(order[b], "CANCEL_PENDING")]
    BY <1>0, <2>1
  <2>3. ApplyStatus(order[b], "CANCEL_PENDING").status # "CANCELLED"
    BY <1>0, <1>a
  <2> QED BY <1>w, <2>2, <2>3
<1>4. ASSUME CancelAmbiguous(d) \/ Fence(d) PROVE Unproven(c)
  <2>1. p.cur \in Cid
    BY <1>4, <1>p DEF CancelAmbiguous, Fence
  <2>2. order' = order \/ order' = [order EXCEPT ![p.cur] = [o EXCEPT !.recovery = "DISCOVERING"]]
    BY <1>4 DEF CancelAmbiguous, Fence
  <2>3. [o EXCEPT !.recovery = "DISCOVERING"].recovery = "DISCOVERING"
    BY <1>0, <2>1 DEF OrderRow
  <2> QED BY <1>0, <1>u, <1>v, <2>1, <2>2, <2>3
<1>5. ASSUME CancelAnswered(d) PROVE Unproven(c)
  <2>1. order' = [order EXCEPT ![p.cur] = AfterCancelAnswer(order[p.cur], ans[d])]
    BY <1>5 DEF CancelAnswered
  <2> QED BY <1>0, <1>5, <1>u, <2>1
<1>6. ASSUME PollApplies(d) PROVE Unproven(c)
  <2> DEFINE b == brk[p.cur]
             t == InquiryTarget(b)
             f == WithFill(order[p.cur], b.filled)
             s == IF t = p.pre THEN f ELSE ApplyStatus(f, t)
             n == IF s.recovery = "DISCOVERING" THEN [s EXCEPT !.recovery = "NONE"] ELSE s
  <2>1. /\ p.pc = "poll" /\ p.rowOk /\ order' = [order EXCEPT ![p.cur] = n]
        /\ t = p.pre \/ t \in allowed_status_transitions(p.pre)
    BY <1>6 DEF PollApplies
  <2>2. /\ p.cur \in Cid /\ order[p.cur] \in OrderRow /\ LegalRow(order[p.cur]) /\ b \in BrokerRow
        /\ order[p.cur].filled <= b.filled
        /\ p.pre = order[p.cur].status /\ order[p.cur].status \in {"CANCEL_PENDING", "CANCELLED"}
    BY <1>0, <1>p, <2>1 DEF TypeInv, TypeOK, LedgerInv, FillsInv, RowsInv, KnowsRow, Remembers
  <2>3. n.status = t
    <3> HIDE DEF b, t
    <3> QED BY <2>1, <2>2, PollLegal
  <2>4. t = "CANCELLED" => b.st = "cancelled"
    BY <2>2 DEF InquiryTarget, BrokerRow, BrokerState, Absent
  <2> HIDE DEF n, t
  <2>5. CASE c # p.cur
    BY <1>0, <1>u, <2>1, <2>5
  <2>6. CASE c = p.cur
    BY <1>0, <1>v, <2>1, <2>3, <2>4, <2>6
  <2> QED BY <2>5, <2>6
<1>7. ASSUME RecApply(d) PROVE Unproven(c)
  <2> DEFINE v == snap[d].view[c]
             n == ReduceOrder(order[c], v, snap[d].complete)
  <2>1. order'[c] = n
    BY <1>7 DEF RecApply, ReduceOrders
  <2>2. order[c] \in OrderRow /\ LegalRow(order[c]) /\ v \in OrderView
    BY DEF TypeInv, TypeOK, Snapshot, LedgerInv, RowsInv
  <2>3. v.status # "CANCELLED"
    BY <1>v DEF ViewsProven
  <2> HIDE DEF v
  <2>4. n = order[c]
    BY <1>v, <2>1, <2>2, <2>3, UnprovenReduced
  <2> QED BY <1>u, <2>1, <2>4
<1>10. ASSUME \/ SubmitGate(d) \/ CallSubmit(d) \/ CancelGate(d) \/ CallCancel(d)
              \/ ReplaceJournal(d) \/ PollSkips(d) \/ PollTimesOut(d) \/ ReplaceAbandon(d)
              \/ Release(d) \/ ReleasePrepared(d) \/ Restore(d) \/ Complete(d) \/ SaveCard(d)
              \/ TxError(d) \/ RecSnapshot(d) \/ Boot(d) \/ LeaseMoves(d) \/ Stop(d) \/ Crash(d)
              \/ \E n \in Replacement : \/ ReplaceIntent(d, n) \/ ResumeSubmit(d, n)
                                        \/ ResumeAdopt(d, n) \/ ResumeClose(d, n)
       PROVE  Unproven(c)
  <2>1. order' = order
    BY <1>10 DEF SubmitGate, CallSubmit, CancelGate, CallCancel, ReplaceJournal, PollSkips, PollTimesOut,
     ReplaceAbandon, Release, ReleasePrepared, Restore, Complete, SaveCard, TxError, RecSnapshot, Boot,
     LeaseMoves, Stop, Crash, ReplaceIntent, ResumeSubmit, ResumeAdopt, ResumeClose, db
  <2> QED BY <1>u, <2>1
<1>11. CASE Start(d)
  BY <1>1, <1>3, <1>10, <1>11 DEF Start
<1>12. CASE Continue(d)
  BY <1>1, <1>2, <1>3, <1>4, <1>5, <1>6, <1>7, <1>10, <1>12 DEF Continue
<1> QED BY <1>10, <1>11, <1>12

(* Where one step takes a device that nobody disturbs. *)
OnItsWay(p, q) ==
    /\ Current(q)
    /\ q.pc \in ReplacePc /\ q.rep # NoCid =>
          \/ p.pc \in ReplacePc /\ q.rep = p.rep /\ q.cur = p.cur
          \/ q.rep \in Replacement /\ q.cur = Replaces[q.rep]

(* Ends and simple moves are on the way. *)
LEMMA EndsOnWay ==
    ASSUME NEW p \in ProcState, Current(p)
    PROVE  /\ OnItsWay(p, Idle) /\ Idle.pc = "idle"
           /\ \A card : LET f == Finished(p, card)
                       IN  OnItsWay(p, f) /\ f.pc \in {"idle", "saveCard"}
           /\ LET f == AfterCancelFailure(p) IN OnItsWay(p, f) /\ f.pc \in {"idle", "restore"}
           /\ LET f == AfterTxError(p)
              IN  OnItsWay(p, f) /\ f.pc \in {"idle", "restore", "saveCard"}
           /\ \A l : l \notin ReplacePc \/ p.pc \in ReplacePc =>
                LET f == [p EXCEPT !.pc = l] IN OnItsWay(p, f) /\ f.pc = l
BY DEF ProcState, Idle, Finished, AfterCancelFailure, AfterTxError, Current, OnItsWay, ReplacePc,
       CancelPc

(* Every step keeps a lone device on its way, and few lead to a snapshot or  *)
(* to a replacement's last check.                                            *)
LEMMA DeviceWalks ==
    ASSUME TypeInv, NEW d \in Device, Current(proc[d]),
           \/ Start(d) \/ Continue(d) \/ RecSnapshot(d)
           \/ Boot(d) \/ LeaseMoves(d) \/ Stop(d) \/ Crash(d)
    PROVE  \/ proc'[d] = proc[d] /\ UNCHANGED <<order, snap>>
           \/ /\ OnItsWay(proc[d], proc'[d])
              /\ proc'[d].pc = "reconcile" => RecSnapshot(d)
              /\ proc'[d].pc = "revalidate" =>
                    PollApplies(d) \/ \E n \in Replacement : ResumeSubmit(d, n)
<1> DEFINE p == proc[d]
           q == proc'[d]
           Good == OnItsWay(p, q) /\ q.pc \notin {"reconcile", "revalidate"}
<1>0. p \in ProcState /\ Current(p)
  BY DEF TypeInv, TypeOK
<1>c. ASSUME NEW f, NEW C, NEW R, Commit(d, f, C, R) PROVE q = f
  BY <1>c DEF Commit
<1>i. ASSUME NEW card, NEW C, NEW R,
             \/ Commit(d, Idle, C, R) \/ Commit(d, Finished(p, card), C, R)
             \/ Commit(d, AfterCancelFailure(p), C, R) \/ Commit(d, AfterTxError(p), C, R)
      PROVE  Good
  <2>1. q \in {Idle, Finished(p, card), AfterCancelFailure(p), AfterTxError(p)}
    BY <1>c, <1>i
  <2> QED BY <1>0, <2>1, EndsOnWay
<1>l. ASSUME NEW l, l \notin ReplacePc \/ p.pc \in ReplacePc, l \notin {"reconcile", "revalidate"},
             NEW C, NEW R, Commit(d, [p EXCEPT !.pc = l], C, R)
      PROVE  Good
  <2>1. q = [p EXCEPT !.pc = l]
    BY <1>c, <1>l
  <2> HIDE DEF q
  <2> QED BY <1>0, <1>l, <2>1, EndsOnWay
<1>1. ASSUME \E b \in Cid : SubmitPrepare(d, b) PROVE Good
  <2>1. PICK b \in Cid : q = [Idle EXCEPT !.pc = "prepared", !.cur = b]
    BY <1>1, <1>c DEF SubmitPrepare
  <2> QED BY <2>1 DEF OnItsWay, Current, Idle, ReplacePc, CancelPc
<1>2. ASSUME MarkSubmitting(d) \/ SubmitGate(d) \/ CallSubmit(d) \/ CancelGate(d) \/ CallCancel(d)
             \/ ReplaceAbandon(d)
      PROVE  Good
  <2>1. CASE CancelGate(d) \/ CallCancel(d)
    <3>1. p.pc \in ReplacePc
      BY <2>1 DEF CancelGate, CallCancel, ReplacePc, CancelPc
    <3>2. \E C, R : \/ Commit(d, [p EXCEPT !.pc = "cancelCall"], C, R)
                   \/ Commit(d, [p EXCEPT !.pc = "cancelWait"], C, R)
      BY <2>1 DEF CancelGate, CallCancel, Step
    <3> HIDE DEF Good
    <3> QED BY <3>1, <3>2, <1>l
  <2>2. CASE MarkSubmitting(d) \/ SubmitGate(d) \/ CallSubmit(d) \/ ReplaceAbandon(d)
    <3>1. \E l \in {"submitGate", "submitCall", "submitWait", "release"} :
             \E C, R : Commit(d, [p EXCEPT !.pc = l], C, R)
      BY <2>2 DEF MarkSubmitting, SubmitGate, CallSubmit, ReplaceAbandon, Step
    <3>2. \A l \in {"submitGate", "submitCall", "submitWait", "release"} : l \notin ReplacePc
      BY DEF ReplacePc, CancelPc
    <3> HIDE DEF Good
    <3> QED BY <3>1, <3>2, <1>l
  <2> QED BY <1>2, <2>1, <2>2
<1>3. ASSUME SubmitAbort(d) \/ SubmitRefused(d) \/ SubmitAmbiguous(d) \/ CancelAbort(d)
             \/ CancelRefused(d) \/ CancelAmbiguous(d)
      PROVE  Good
  BY <1>i, <1>3 DEF SubmitAbort, SubmitRefused, SubmitAmbiguous, CancelAbort, CancelRefused,
     CancelAmbiguous
<1>4. ASSUME \/ Release(d) \/ ReleasePrepared(d) \/ Restore(d) \/ Complete(d) \/ SaveCard(d)
             \/ TxError(d) \/ RecApply(d) \/ Crash(d)
      PROVE  Good
  BY <1>i, <1>4 DEF Release, ReleasePrepared, Restore, Complete, SaveCard, TxError, RecApply, Crash,
     Step
<1>5. ASSUME SubmitAccepted(d) \/ CancelAnswered(d) PROVE Good
  <2>1. PICK l \in {"complete", "fence"} :
            /\ \E C, R : \/ Commit(d, Idle, C, R)
                        \/ Commit(d, [p EXCEPT !.pc = l], C, R)
            /\ l \notin ReplacePc \/ p.pc \in ReplacePc
    <3>1. CASE SubmitAccepted(d)
      <4>1. "complete" \notin ReplacePc
        BY DEF ReplacePc, CancelPc
      <4>2. \E C, R : Commit(d, IF p.rep = NoCid THEN Idle ELSE [p EXCEPT !.pc = "complete"], C, R)
        BY <3>1 DEF SubmitAccepted
      <4> QED BY <4>1, <4>2
    <3>2. CASE CancelAnswered(d)
      <4>1. p.pc \in ReplacePc
        BY <3>2 DEF CancelAnswered, ReplacePc, CancelPc
      <4>2. \E C, R : Commit(d, IF p.rep = NoCid THEN Idle ELSE [p EXCEPT !.pc = "fence"], C, R)
        BY <3>2 DEF CancelAnswered
      <4> QED BY <4>1, <4>2
    <3> QED BY <1>5, <3>1, <3>2
  <2> HIDE DEF Good
  <2> QED BY <2>1, <1>i, <1>l
<1>6. ASSUME CancelJournal(d) \/ \E b \in Cid, k \in CancelId : CancelStart(d, b, k) PROVE Good
  <2>1. CASE CancelJournal(d)
    <3>1. p.pc \in ReplacePc /\ q = [p EXCEPT !.pc = "cancelGate", !.pre = order[p.cur].status]
      BY <1>c, <2>1 DEF CancelJournal, JournalCancel, ReplacePc
    <3> QED BY <1>0, <3>1 DEF OnItsWay, Current, ProcState
  <2>2. ASSUME NEW b \in Cid, NEW k \in CancelId, CancelStart(d, b, k) PROVE Good
    <3>1. q = [[Idle EXCEPT !.cur = b, !.key = k, !.fill = order[b].filled]
                  EXCEPT !.pc = "cancelGate", !.pre = order[b].status]
      BY <1>c, <2>2 DEF CancelStart, JournalCancel, Idle
    <3> HIDE DEF q
    <3>2. q.pc = "cancelGate" /\ q.rep = NoCid /\ q.rowOk /\ q.resOk
      BY <3>1 DEF Idle
    <3> QED BY <3>2 DEF OnItsWay, Current
  <2> QED BY <1>6, <2>1, <2>2
<1>7. ASSUME NEW n \in Replacement, ReplaceIntent(d, n) \/ ResumeAdopt(d, n) PROVE Good
  <2>1. \/ q = [Idle EXCEPT !.pc = "replaceJournal", !.cur = Replaces[n], !.rep = n]
        \/ q = [Idle EXCEPT !.pc = "complete", !.cur = n, !.rep = n]
    BY <1>c, <1>7 DEF ReplaceIntent, ResumeAdopt, Step
  <2> HIDE DEF q
  <2>2. /\ (q.pc = "replaceJournal" /\ q.cur = Replaces[n]) \/ q.pc = "complete"
        /\ q.rep = n /\ q.rowOk /\ q.resOk
    BY <2>1 DEF Idle
  <2> QED BY <2>2 DEF OnItsWay, Current, ReplacePc, CancelPc
<1>8. ASSUME NEW n \in Replacement, ResumeSubmit(d, n) PROVE OnItsWay(p, q) /\ q.pc # "reconcile"
  <2>1. q = [Idle EXCEPT !.pc = "revalidate", !.cur = Replaces[n], !.rep = n]
    BY <1>c, <1>8 DEF ResumeSubmit, Step
  <2> QED BY <2>1 DEF OnItsWay, Current, Idle, ReplacePc
<1>9. ASSUME ReplaceJournal(d) PROVE Good
  <2>1. PICK f : /\ p.pc \in ReplacePc
                 /\ q = [p EXCEPT !.pc = "cancelJournal", !.key = p.rep, !.base = f, !.fill = f,
                                  !.rowOk = TRUE, !.resOk = TRUE]
    BY <1>c, <1>9 DEF ReplaceJournal, ReplacePc
  <2> QED BY <1>0, <2>1 DEF OnItsWay, Current, ProcState
<1>10. ASSUME Fence(d) PROVE Good
  <2> DEFINE g == [p EXCEPT !.pre = order[p.cur].status, !.fill = order[p.cur].filled, !.rowOk = TRUE]
  <2>0. g \in ProcState /\ Current(g) /\ g.rep = p.rep /\ g.cur = p.cur
    <3>1. p.cur \in Cid
      BY <1>10 DEF Fence, TypeInv, GoodProc
    <3>2. order[p.cur] \in OrderRow
      BY <3>1 DEF TypeInv, TypeOK
    <3> QED BY <1>0, <3>2, QtyAssumption DEF ProcState, OrderRow, Current
  <2>1. p.pc \in ReplacePc
    BY <1>10 DEF Fence, ReplacePc
  <2>2. \/ q = [g EXCEPT !.pc = "poll"] \/ q = [g EXCEPT !.pc = "releasePrepared"]
        \/ q = Finished(g, "PENDING")
    <3> DEFINE s == order[p.cur].status
               x == CASE s \in {"CANCEL_PENDING", "CANCELLED"} -> [g EXCEPT !.pc = "poll"]
                      [] s = "FILLED" -> [g EXCEPT !.pc = "releasePrepared"]
                      [] OTHER -> Finished(g, "PENDING")
    <3>1. \E C, R : Commit(d, x, C, R)
      BY <1>10 DEF Fence
    <3>2. q = x
      BY <1>c, <3>1
    <3> HIDE DEF q, g, s
    <3> QED BY <3>2
  <2> HIDE DEF g
  <2>3. CASE q = Finished(g, "PENDING")
    BY <2>0, <2>3, EndsOnWay DEF OnItsWay, ReplacePc, CancelPc
  <2>4. CASE q = [g EXCEPT !.pc = "poll"] \/ q = [g EXCEPT !.pc = "releasePrepared"]
    BY <2>0, <2>1, <2>4 DEF OnItsWay, ProcState, Current
  <2> QED BY <2>2, <2>3, <2>4
<1>11. ASSUME PollSkips(d) \/ PollTimesOut(d) PROVE Good
  <2>1. p.pc \in ReplacePc
    BY <1>11 DEF PollSkips, PollTimesOut, ReplacePc
  <2>2. CASE PollTimesOut(d)
    <3>1. \/ \E C, R : Commit(d, [p EXCEPT !.pc = "release"], C, R)
          \/ \E C, R : Commit(d, Finished(p, "PENDING"), C, R)
      BY <2>2 DEF PollTimesOut, Step
    <3> QED BY <2>1, <3>1, <1>i, <1>l
  <2>3. CASE PollSkips(d)
    <3>1. q = [p EXCEPT !.fill = brk[p.cur].filled] /\ p.pc = "poll"
      BY <2>3, <1>c DEF PollSkips, Step
    <3> QED BY <1>0, <2>1, <3>1 DEF OnItsWay, Current, ProcState
  <2> QED BY <1>11, <2>2, <2>3
<1>12. ASSUME PollApplies(d) PROVE OnItsWay(p, q) /\ q.pc # "reconcile"
  <2>1. p.pc \in ReplacePc
    BY <1>12 DEF PollApplies, ReplacePc
  <2>2. PICK o, C : Commit(d, AfterInquiry([p EXCEPT !.fill = o.filled], o), C, {})
    BY <1>12 DEF PollApplies
  <2> DEFINE g == [p EXCEPT !.fill = o.filled]
  <2>3. g.rep = p.rep /\ g.cur = p.cur /\ Current(g) /\ \A l : LET f == [g EXCEPT !.pc = l]
            IN f.pc = l /\ f.rep = p.rep /\ f.cur = p.cur /\ Current(f)
    BY <1>0 DEF ProcState, Current
  <2>4. \A card : LET f == Finished(g, card) IN OnItsWay(p, f) /\ f.pc # "reconcile"
    BY <1>0 DEF Finished, Idle, OnItsWay, ProcState, Current, ReplacePc, CancelPc
  <2>5. q = AfterInquiry(g, o)
    BY <1>c, <2>2
  <2> HIDE DEF q, g
  <2>6. q = Finished(g, "PENDING") \/ \E l \in {"release", "revalidate", "releasePrepared"} : q = [g EXCEPT !.pc = l]
    BY <2>5 DEF AfterInquiry
  <2>7. ASSUME NEW l \in {"release", "revalidate", "releasePrepared"}, q = [g EXCEPT !.pc = l]
        PROVE  OnItsWay(p, q) /\ q.pc # "reconcile"
    BY <2>1, <2>3, <2>7 DEF OnItsWay
  <2> QED BY <2>4, <2>6, <2>7
<1>13. ASSUME ReplaceSubmit(d) PROVE Good
  <2>1. q = [p EXCEPT !.pc = "prepared", !.cur = p.rep, !.rowOk = TRUE]
    BY <1>c, <1>13 DEF ReplaceSubmit
  <2> QED BY <1>0, <2>1 DEF OnItsWay, Current, ProcState, ReplacePc, CancelPc
<1>14. ASSUME RecSnapshot(d) PROVE OnItsWay(p, q) /\ q.pc = "reconcile"
  <2>1. q = [Idle EXCEPT !.pc = "reconcile"]
    BY <1>c, <1>14 DEF RecSnapshot, Step
  <2> QED BY <2>1 DEF OnItsWay, Current, Idle, ReplacePc, CancelPc
<1>15. ASSUME Boot(d) \/ LeaseMoves(d) \/ Stop(d) \/ \E n \in Replacement : ResumeClose(d, n)
       PROVE  q = p /\ UNCHANGED <<order, snap>>
  BY <1>15 DEF Boot, LeaseMoves, Stop, ResumeClose, db
<1> HIDE DEF p, q
<1>17. CASE Start(d)
  <2>1. CASE \E n \in Replacement : ResumeSubmit(d, n)
    BY <1>8, <2>1 DEF p, q
  <2>2. CASE \E n \in Replacement : ResumeClose(d, n)
    BY <1>15, <2>2 DEF p, q
  <2>3. CASE ~\E n \in Replacement : ResumeSubmit(d, n) \/ ResumeClose(d, n)
    <3>1. Good
      <4> HIDE DEF Good
      <4> QED BY <1>1, <1>6, <1>7, <1>17, <2>3 DEF Start
    <3> QED BY <3>1 DEF p, q
  <2> QED BY <2>1, <2>2, <2>3
<1>18. CASE Continue(d)
  <2>1. CASE PollApplies(d)
    BY <1>12, <2>1 DEF p, q
  <2>2. CASE ~PollApplies(d)
    <3>1. Good
      <4> HIDE DEF Good
      <4> QED BY <1>2, <1>3, <1>4, <1>5, <1>6, <1>9, <1>10, <1>11, <1>13, <1>18, <2>2 DEF Continue
    <3> QED BY <3>1 DEF p, q
  <2> QED BY <2>1, <2>2
<1>19. CASE RecSnapshot(d)
  BY <1>14, <1>19 DEF p, q
<1>20. CASE Crash(d)
  BY <1>4, <1>20 DEF p, q
<1>21. CASE Boot(d) \/ LeaseMoves(d) \/ Stop(d)
  BY <1>15, <1>21 DEF p, q
<1> QED BY <1>17, <1>18, <1>19, <1>20, <1>21

(* A settlement never opens a reservation, and one of a finished order closes. *)
LEMMA SettlesClosed ==
    ASSUME NEW r, NEW o
    PROVE  /\ o.status \in TerminalStatus => ~IsOpen(Settle(r, o))
           /\ \A root, rows : IsOpen(SettleChain(r, root, rows)) => IsOpen(r)
<1>1. ASSUME o.status \in TerminalStatus PROVE Settle(r, o) \in {"CONSUMED", "RELEASED"}
  BY <1>1 DEF Settle
<1>2. ASSUME NEW root, NEW rows, ~IsOpen(r) PROVE SettleChain(r, root, rows) = r
  <2>1. r \notin OpenReservation
    BY <1>2 DEF IsOpen
  <2> QED BY <2>1 DEF SettleChain
<1> QED BY <1>1, <1>2 DEF IsOpen, OpenReservation

(* Only a first submit opens a reservation. *)
LEMMA NothingReopens ==
    ASSUME TypeInv, NEW d \in Device,
           \/ Start(d) \/ Continue(d) \/ RecSnapshot(d)
           \/ Boot(d) \/ LeaseMoves(d) \/ Stop(d) \/ Crash(d),
           NEW r \in Cid, IsOpen(res'[r]), ~IsOpen(res[r])
    PROVE  SubmitPrepare(d, r)
<1> DEFINE p == proc[d]
<1>0. res \in [Cid -> ReservationStatus \cup {Absent}]
  BY DEF TypeInv, TypeOK
<1>u. ASSUME res' = res PROVE FALSE
  BY <1>u
<1>r. ASSUME NEW b, res' = [res EXCEPT ![b] = "RELEASED"] PROVE FALSE
  BY <1>0, <1>r DEF IsOpen, OpenReservation
<1>1. ASSUME NEW b \in Cid, SubmitPrepare(d, b) PROVE b = r
  <2>1. res' = [res EXCEPT ![b] = "RESERVED"]
    BY <1>1 DEF SubmitPrepare
  <2> QED BY <1>0, <2>1
<1>2. ~(SubmitAbort(d) \/ SubmitRefused(d) \/ ReleasePrepared(d))
  <2>1. ASSUME SubmitAbort(d) \/ SubmitRefused(d) \/ ReleasePrepared(d)
        PROVE  \E b : res' = [res EXCEPT ![b] = "RELEASED"]
    BY <2>1 DEF SubmitAbort, SubmitRefused, ReleasePrepared
  <2> QED BY <1>r, <2>1
<1>3. ~Release(d)
  <2> SUFFICES ASSUME Release(d) PROVE FALSE
    OBVIOUS
  <2>1. PICK b : res' = [res EXCEPT ![b] = IF IsOpen(res[b]) THEN "RELEASED" ELSE res[b]]
    BY DEF Release
  <2> QED BY <1>0, <2>1 DEF IsOpen, OpenReservation
<1>4. ~CancelAnswered(d)
  <2> SUFFICES ASSUME CancelAnswered(d) PROVE FALSE
    OBVIOUS
  <2> DEFINE o == AfterCancelAnswer(order[p.cur], ans[d])
             s == p.rep = NoCid /\ o.status \in {"CANCELLED", "FILLED"} /\ IsOpen(res[Root[p.cur]])
  <2>1. res' = [res EXCEPT ![Root[p.cur]] = IF s THEN Settle(@, o) ELSE @]
    BY DEF CancelAnswered
  <2>2. s => ~IsOpen(Settle(res[Root[p.cur]], o))
    <3> HIDE DEF o
    <3> QED BY SettlesClosed DEF TerminalStatus
  <2> HIDE DEF o, s
  <2> QED BY <1>0, <2>1, <2>2
<1>5. ~ReplaceSubmit(d)
  <2> SUFFICES ASSUME ReplaceSubmit(d) PROVE FALSE
    OBVIOUS
  <2>1. PICK b : res' = [res EXCEPT ![b] = "RESERVED"] /\ IsOpen(res[b])
    BY DEF ReplaceSubmit
  <2> QED BY <1>0, <2>1
<1>6. ~RecApply(d)
  <2> SUFFICES ASSUME RecApply(d) PROVE FALSE
    OBVIOUS
  <2>1. \E rows : res'[r] = SettleChain(res[r], r, rows)
    BY DEF RecApply, ReduceReservations
  <2> QED BY <2>1, SettlesClosed
<1>7. ASSUME \/ MarkSubmitting(d) \/ SubmitGate(d) \/ CallSubmit(d) \/ SubmitAccepted(d) \/ SubmitAmbiguous(d)
             \/ CancelGate(d) \/ CancelAbort(d) \/ CallCancel(d) \/ CancelRefused(d) \/ CancelAmbiguous(d)
             \/ ReplaceJournal(d) \/ CancelJournal(d) \/ Fence(d) \/ PollApplies(d) \/ PollSkips(d)
             \/ PollTimesOut(d) \/ ReplaceAbandon(d) \/ Restore(d) \/ Complete(d) \/ SaveCard(d) \/ TxError(d)
             \/ RecSnapshot(d) \/ Boot(d) \/ LeaseMoves(d) \/ Stop(d) \/ Crash(d)
             \/ (\E b \in Cid, k \in CancelId : CancelStart(d, b, k))
             \/ \E n \in Replacement : \/ ReplaceIntent(d, n) \/ ResumeSubmit(d, n)
                                       \/ ResumeAdopt(d, n) \/ ResumeClose(d, n)
      PROVE  FALSE
  BY <1>u, <1>7 DEF MarkSubmitting, SubmitGate, CallSubmit, SubmitAccepted, SubmitAmbiguous, CancelGate,
     CancelAbort, CallCancel, CancelRefused, CancelAmbiguous, ReplaceJournal, CancelJournal, JournalCancel,
     CancelStart, Fence, PollApplies, PollSkips, PollTimesOut, ReplaceAbandon, Restore, Complete, SaveCard,
     TxError, RecSnapshot, Boot, LeaseMoves, Stop, Crash, ReplaceIntent, ResumeSubmit, ResumeAdopt,
     ResumeClose, db
<1>8. CASE Start(d)
  BY <1>1, <1>7, <1>8 DEF Start
<1>9. CASE Continue(d)
  BY <1>2, <1>3, <1>4, <1>5, <1>6, <1>7, <1>9 DEF Continue
<1> QED BY <1>7, <1>8, <1>9

(* A broker's order is seen as cancelled only when it is. *)
LEMMA CancelledView ==
    ASSUME NEW b \in BrokerRow, NEW v \in ViewOf(b)
    PROVE  /\ v.status = "CANCELLED" => b.st = "cancelled"
           /\ b.st \notin {"none", "cancelled"} => v.status \notin {Unseen, "CANCELLED"}
<1>1. CASE b.st = "none"
  BY <1>1 DEF ViewOf, Unseen
<1>2. CASE b.st = "open"
  <2>1. v.status \in {"PARTIALLY_FILLED", "WORKING", "CANCEL_PENDING"}
    BY <1>2, QtyAssumption DEF ViewOf, BrokerRow, InquiryTarget
  <2> QED BY <2>1 DEF Unseen
<1>3. CASE b.st \in Ended
  <2>1. v.status = InquiryTarget(b)
    BY <1>3 DEF ViewOf, Ended
  <2> QED BY <1>3, <2>1 DEF InquiryTarget, Ended, BrokerState, Absent, Unseen
<1> QED BY <1>1, <1>2, <1>3 DEF BrokerRow, Ended

(* A view that calls an order cancelled stays true. *)
LEMMA ViewsProvenStep ==
    ASSUME TypeInv, SendInv, LedgerInv, TruthInv, ViewsProven, [Next]_vars
    PROVE  ViewsProven'
<1> SUFFICES ASSUME NEW e \in Device, NEW c \in Cid, snap'[e].view[c].status = "CANCELLED"
             PROVE  brk'[c].st = "cancelled"
  BY DEF ViewsProven
<1>0. BrokerStable(c) /\ brk[c] \in BrokerRow
  BY BrokerInvStep DEF LedgerInv, TypeInv, TypeOK
<1>1. SUFFICES brk[c].st = "cancelled"
  BY <1>0, <1>1 DEF BrokerStable, Ended, BrokerState
<1>2. CASE snap' = snap
  BY <1>2 DEF ViewsProven
<1>3. CASE SnapOK
  <2>1. CASE snap'[e].view[c] = snap[e].view[c]
    BY <2>1 DEF ViewsProven
  <2>2. CASE snap'[e].view[c] = [status |-> Unseen, filled |-> 0]
    BY <2>2 DEF Unseen
  <2>3. CASE snap'[e].view[c] \in ViewOf(brk[c])
    BY <1>0, <2>3, CancelledView
  <2> QED BY <1>3, <2>1, <2>2, <2>3 DEF SnapOK
<1>4. ASSUME NEW d \in Device,
           \/ Start(d) \/ Continue(d) \/ RecSnapshot(d)
           \/ Boot(d) \/ LeaseMoves(d) \/ Stop(d) \/ Crash(d)
      PROVE  SnapOK
  BY <1>4, DeviceEffect DEF Effect
<1>5. Broker => snap' = snap
  BY DEF Broker, BrokerAcceptsSubmit, BrokerRefuses, BrokerNeverReceives, BrokerCancels,
     BrokerSaysFilled, BrokerCompletesCancel, BrokerFills, BrokerEnds, BrokerOnly
<1>6. UNCHANGED vars => snap' = snap
  BY DEF vars
<1> QED BY <1>2, <1>3, <1>4, <1>5, <1>6 DEF Next

(* A chain goes on from its root. *)
LEMMA RootKnownStep ==
    ASSUME TypeInv, SendInv, LedgerInv, RootKnown, [Next]_vars
    PROVE  RootKnown'
<1>1. \A c \in Cid : cmd[<<"SUBMIT", c>>] # Absent => cmd'[<<"SUBMIT", c>>] # Absent
  <2>1. CASE UNCHANGED vars
    BY <2>1 DEF vars
  <2>2. CASE Broker
    BY <2>2 DEF Broker, BrokerAcceptsSubmit, BrokerRefuses, BrokerNeverReceives, BrokerCancels,
       BrokerSaysFilled, BrokerCompletesCancel, BrokerFills, BrokerEnds, BrokerOnly, db
  <2>3. ASSUME NEW d \in Device,
           \/ Start(d) \/ Continue(d) \/ RecSnapshot(d)
           \/ Boot(d) \/ LeaseMoves(d) \/ Stop(d) \/ Crash(d)
        PROVE  \A c \in Cid : cmd[<<"SUBMIT", c>>] # Absent => cmd'[<<"SUBMIT", c>>] # Absent
    BY <2>3, DeviceEffect DEF Effect, CommandOK
  <2> QED BY <2>1, <2>2, <2>3 DEF Next
<1> SUFFICES ASSUME NEW n \in Cid, cmd'[<<"SUBMIT", n>>] # Absent
             PROVE  cmd'[<<"SUBMIT", Root[n]>>] # Absent
  BY DEF RootKnown
<1>0. Root[n] \in Cid
  BY ChainAssumption
<1>2. CASE cmd[<<"SUBMIT", n>>] # Absent
  BY <1>0, <1>1, <1>2 DEF RootKnown
<1>3. CASE cmd[<<"SUBMIT", n>>] = Absent
  <2>1. PICK d \in Device : SubmitPrepare(d, n) \/ (ReplaceSubmit(d) /\ proc[d].rep = n)
    BY <1>3, NewSubmit
  <2>2. CASE SubmitPrepare(d, n)
    <3>1. Root[n] = n
      BY <2>2, ChainAssumption DEF SubmitPrepare, Replacement
    <3> QED BY <3>1
  <2>3. CASE ReplaceSubmit(d) /\ proc[d].rep = n /\ n \notin Replacement
    <3>1. Root[n] = n
      BY <2>3, ChainAssumption DEF Replacement
    <3> QED BY <3>1
  <2>4. CASE ReplaceSubmit(d) /\ proc[d].rep = n /\ n \in Replacement
    <3>1. Replaces[n] \in Cid /\ Root[n] = Root[Replaces[n]] /\ order[Replaces[n]].status = "CANCELLED"
      BY <2>4, ChainAssumption DEF Replacement, ReplaceSubmit
    <3>2. cmd[<<"SUBMIT", Replaces[n]>>] # Absent
      BY <3>1 DEF LedgerInv, RecordInv, Absent
    <3> QED BY <1>0, <1>1, <3>1, <3>2 DEF RootKnown
  <2> QED BY <2>1, <2>2, <2>3, <2>4
<1> QED BY <1>2, <1>3

(* A device stays careful, part by part: the order it has made sure of ...    *)
LEMMA ProvenStep ==
    ASSUME Facts, ViewsProven, NEW d \in Device, Careful(d),
           \/ Start(d) \/ Continue(d) \/ RecSnapshot(d)
           \/ Boot(d) \/ LeaseMoves(d) \/ Stop(d) \/ Crash(d)
    PROVE  CancelProven(d)'
<1> DEFINE p == proc[d]
<1>0. brk' = brk /\ p \in ProcState
  BY DeviceLeavesBroker DEF Facts, TypeInv, TypeOK
<1> SUFFICES ASSUME proc'[d].pc = "revalidate" PROVE brk[proc'[d].cur].st = "cancelled"
  BY <1>0 DEF CancelProven
<1>1. CASE proc'[d] = p
  BY <1>1 DEF Careful, CancelProven
<1>2. ASSUME NEW n \in Replacement, ResumeSubmit(d, n) PROVE brk[proc'[d].cur].st = "cancelled"
  <2>1. proc'[d] = [Idle EXCEPT !.pc = "revalidate", !.cur = Replaces[n], !.rep = n]
    BY <1>2 DEF ResumeSubmit, Step, Commit
  <2>2. proc'[d].cur = Replaces[n]
    BY <2>1 DEF Idle
  <2>3. Replaces[n] \in Cid /\ Root[n] = Root[Replaces[n]]
    BY ChainAssumption DEF Replacement
  <2>4. /\ phase[d] = "active" /\ p.pc = "idle" /\ IsOpen(res[Root[n]])
        /\ order[Replaces[n]].status = "CANCELLED" /\ order[Replaces[n]].recovery = "NONE"
    BY <1>2 DEF ResumeSubmit, Resumable, MayStart
  <2>5. ~Unproven(Replaces[n])
    BY <2>3, <2>4 DEF Careful, HoldClosed
  <2> QED BY <2>2, <2>4, <2>5 DEF Unproven
<1>3. ASSUME PollApplies(d) PROVE brk[proc'[d].cur].st = "cancelled"
  <2> DEFINE b == brk[p.cur]
             t == InquiryTarget(b)
             f == WithFill(order[p.cur], b.filled)
             s == IF t = p.pre THEN f ELSE ApplyStatus(f, t)
             n == IF s.recovery = "DISCOVERING" THEN [s EXCEPT !.recovery = "NONE"] ELSE s
             g == [p EXCEPT !.fill = n.filled]
  <2>1. /\ p.pc = "poll" /\ p.rowOk /\ proc'[d] = AfterInquiry(g, n)
        /\ t = p.pre \/ t \in allowed_status_transitions(p.pre)
    BY <1>3 DEF PollApplies, Commit
  <2>2. /\ p.cur \in Cid /\ order[p.cur] \in OrderRow /\ LegalRow(order[p.cur]) /\ b \in BrokerRow
        /\ order[p.cur].filled <= b.filled
        /\ p.pre = order[p.cur].status /\ order[p.cur].status \in {"CANCEL_PENDING", "CANCELLED"}
    BY <2>1 DEF Facts, TypeInv, TypeOK, GoodProc, LedgerInv, FillsInv, RowsInv, KnowsRow, Remembers
  <2>3. n.status = t
    <3> HIDE DEF b, t
    <3> QED BY <2>1, <2>2, PollLegal
  <2>4. t = "CANCELLED" => b.st = "cancelled"
    BY <2>2 DEF InquiryTarget, BrokerRow, BrokerState, Absent
  <2>5. /\ g.cur = p.cur /\ \A l : [g EXCEPT !.pc = l].pc = l /\ [g EXCEPT !.pc = l].cur = p.cur
        /\ \A card : Finished(g, card).pc \in {"idle", "saveCard"}
    BY <1>0 DEF ProcState, Finished, Idle
  <2> HIDE DEF n, g, t
  <2>6. n.status = "CANCELLED" /\ proc'[d] = [g EXCEPT !.pc = "revalidate"]
    BY <2>1, <2>5 DEF AfterInquiry
  <2> QED BY <2>3, <2>4, <2>5, <2>6
<1> QED BY <1>1, <1>2, <1>3, DeviceWalks DEF Careful, Facts

(* ... what it has seen ...                                                   *)
LEMMA SeenStep ==
    ASSUME Facts, ViewsProven, NEW d \in Device, Careful(d),
           \/ Start(d) \/ Continue(d) \/ RecSnapshot(d)
           \/ Boot(d) \/ LeaseMoves(d) \/ Stop(d) \/ Crash(d)
    PROVE  SeenOpen(d)'
<1>0. brk' = brk
  BY DeviceLeavesBroker
<1> SUFFICES ASSUME proc'[d].pc = "reconcile", snap'[d].complete, NEW c \in Cid, Unproven(c)'
             PROVE  snap'[d].view[c].status \notin {Unseen, "CANCELLED"}
  BY DEF SeenOpen
<1>1. CASE proc'[d] = proc[d] /\ UNCHANGED <<order, snap>>
  BY <1>0, <1>1 DEF Careful, SeenOpen, Unproven
<1>2. CASE RecSnapshot(d)
  <2>1. order' = order
    BY <1>2 DEF RecSnapshot, db
  <2>2. order[c].status = "CANCELLED" /\ brk[c].st # "cancelled"
    BY <1>0, <2>1 DEF Unproven
  <2>3. brk[c].st \notin {"none", "cancelled"} /\ brk[c] \in BrokerRow
    BY <2>2 DEF Facts, TruthInv, RowsTrue, TrueStatus, Says, TypeInv, TypeOK
  <2>4. snap'[d].view[c] \in ViewOf(brk[c])
    <3>1. PICK missed, v :
              /\ \A b \in Cid : v[b] \in ViewOf(IF b \in missed THEN NoBrokerOrder ELSE brk[b])
              /\ snap' = [snap EXCEPT ![d] = [complete |-> missed = {}, view |-> v]]
      BY <1>2 DEF RecSnapshot
    <3> DEFINE k == missed = {}
    <3>2. snap'[d] = [complete |-> k, view |-> v]
      BY <3>1 DEF Facts, TypeInv, TypeOK
    <3> HIDE DEF k
    <3>3. k /\ snap'[d].view = v
      BY <3>2
    <3>4. missed = {}
      BY <3>3 DEF k
    <3>5. v[c] \in ViewOf(brk[c])
      BY <3>1, <3>4
    <3> QED BY <3>3, <3>5
  <2> QED BY <2>3, <2>4, CancelledView
<1> QED BY <1>1, <1>2, DeviceWalks DEF Careful, Facts

(* ... and the capital of the orders it cannot be sure of: either their chain *)
(* has none any more, or the very next step puts them under discovery.       *)
LEMMA HoldStep ==
    ASSUME Facts, ViewsProven, RootKnown, ~DatabaseMayFail, NEW d \in Device, Careful(d),
           \/ Start(d) \/ Continue(d) \/ RecSnapshot(d)
           \/ Boot(d) \/ LeaseMoves(d) \/ Stop(d) \/ Crash(d)
    PROVE  HoldClosed(d)'
<1> DEFINE p == proc[d]
<1>0. brk' = brk /\ p \in ProcState /\ order \in [Cid -> OrderRow]
  BY DeviceLeavesBroker DEF Facts, TypeInv, TypeOK
<1> SUFFICES ASSUME phase'[d] = "active", NEW c \in Cid, Unproven(c)'
             PROVE  ~IsOpen(res'[Root[c]]) \/ (proc'[d].pc = "fence" /\ proc'[d].cur = c)
  BY DEF HoldClosed
<1>r. Root[c] \in Cid
  BY ChainAssumption
<1>1. CASE CancelAnswered(d) /\ p.cur = c
  <2> DEFINE o == AfterCancelAnswer(order[c], ans[d])
             r == Root[c]
             s == p.rep = NoCid /\ o.status \in {"CANCELLED", "FILLED"} /\ IsOpen(res[r])
  <2>1. /\ order'[c] = o
        /\ res'[r] = IF s THEN Settle(res[r], o) ELSE res[r]
        /\ proc'[d] = IF p.rep = NoCid THEN Idle ELSE [p EXCEPT !.pc = "fence"]
    BY <1>0, <1>1, <1>r DEF CancelAnswered, Commit, Facts, TypeInv, TypeOK
  <2>2. o.status = "CANCELLED"
    BY <2>1 DEF Unproven
  <2>3. CASE p.rep = NoCid
    <3>1. s => ~IsOpen(Settle(res[r], o))
      <4> HIDE DEF o
      <4> QED BY SettlesClosed DEF TerminalStatus
    <3> HIDE DEF o
    <3> QED BY <2>1, <2>2, <2>3, <3>1
  <2>4. CASE p.rep # NoCid
    BY <1>0, <1>1, <2>1, <2>4 DEF ProcState
  <2> QED BY <2>3, <2>4
<1>2. CASE ~(CancelAnswered(d) /\ p.cur = c)
  <2>1. Unproven(c)
    BY <1>2, UnprovenBefore
  <2>2. ~SubmitPrepare(d, Root[c])
    <3>1. cmd[<<"SUBMIT", c>>] # Absent
      BY <2>1 DEF Unproven, Facts, LedgerInv, RecordInv, Absent
    <3> QED BY <1>r, <3>1 DEF RootKnown, SubmitPrepare
  <2>3. IsOpen(res'[Root[c]]) => IsOpen(res[Root[c]])
    BY <1>r, <2>2, NothingReopens DEF Facts
  <2>4. CASE phase[d] = "active" /\ ~(p.pc = "fence" /\ p.cur = c)
    BY <2>1, <2>3, <2>4 DEF Careful, HoldClosed
  <2>5. CASE phase[d] = "active" /\ p.pc = "fence" /\ p.cur = c
    <3>1. p.rowOk /\ p.resOk
      BY DEF Careful, Current
    <3>2. ASSUME Fence(d) PROVE FALSE
      <4>1. order' = [order EXCEPT ![c] = [order[c] EXCEPT !.recovery = "DISCOVERING"]]
        BY <2>1, <2>5, <3>2 DEF Fence, Unproven
      <4>2. order'[c].recovery = "DISCOVERING"
        BY <1>0, <4>1 DEF OrderRow
      <4> QED BY <4>2 DEF Unproven
    <3>3. ~TxError(d)
      BY <2>5, <3>1 DEF TxError, Journaling, Transaction
    <3>4. ~Crash(d)
      BY DEF Crash, Facts, TypeInv, TypeOK
    <3>5. proc'[d] = p
      <4>1. ~(RecSnapshot(d) \/ LeaseMoves(d) \/ Stop(d))
        BY <2>5 DEF RecSnapshot, LeaseMoves, Stop
      <4>2. Boot(d) => proc' = proc
        BY DEF Boot
      <4>3. ~Start(d)
        BY <2>5 DEF Start, SubmitPrepare, CancelStart, ReplaceIntent, ResumeSubmit, ResumeAdopt, ResumeClose,
           Resumable, MayStart
      <4>4. ~Continue(d)
        BY <2>5, <3>2, <3>3 DEF Continue, MarkSubmitting, SubmitGate, SubmitAbort, CallSubmit, SubmitAccepted,
           SubmitRefused, SubmitAmbiguous, CancelGate, CancelAbort, CallCancel, CancelAnswered,
           CancelRefused, CancelAmbiguous, ReplaceJournal, CancelJournal, PollApplies,
           PollSkips, PollTimesOut, ReplaceSubmit, ReplaceAbandon, Release,
           ReleasePrepared, Restore, Complete, SaveCard, RecApply
      <4> QED BY <3>4, <4>1, <4>2, <4>3, <4>4
    <3> QED BY <2>5, <3>5
  <2>6. CASE phase[d] # "active"
    <3>1. RecApply(d) /\ snap[d].complete /\ p.pc = "reconcile"
      <4>1. ~Boot(d) /\ ~Stop(d) /\ ~Crash(d) /\ (RecApply(d) => snap[d].complete /\ p.pc = "reconcile")
        BY <2>6 DEF Boot, Stop, Crash, RecApply, Facts, TypeInv, TypeOK
      <4>2. phase' # phase
        BY <2>6
      <4>3. ~(RecSnapshot(d) \/ LeaseMoves(d) \/ Start(d))
        BY <4>2 DEF RecSnapshot, LeaseMoves, Start, SubmitPrepare, CancelStart, JournalCancel, ReplaceIntent,
           ResumeSubmit, ResumeAdopt, ResumeClose, runtime
      <4>4. Continue(d) => RecApply(d)
        BY <4>2 DEF Continue, MarkSubmitting, SubmitGate, SubmitAbort, CallSubmit, SubmitAccepted,
           SubmitRefused, SubmitAmbiguous, CancelGate, CancelAbort, CallCancel, CancelAnswered,
           CancelRefused, CancelAmbiguous, ReplaceJournal, CancelJournal, JournalCancel, Fence, PollApplies,
           PollSkips, PollTimesOut, ReplaceSubmit, ReplaceAbandon, Release,
           ReleasePrepared, Restore, Complete, SaveCard, TxError, runtime
      <4> QED BY <4>1, <4>3, <4>4
    <3> DEFINE v == snap[d].view[c]
               n == ReduceOrder(order[c], v, snap[d].complete)
    <3>2. order'[c] = n
      BY <3>1 DEF RecApply, ReduceOrders
    <3>3. order[c] \in OrderRow /\ LegalRow(order[c]) /\ v \in OrderView
      BY DEF Facts, TypeInv, TypeOK, Snapshot, LedgerInv, RowsInv
    <3>4. v.status \notin {Unseen, "CANCELLED"}
      BY <2>1, <3>1 DEF Careful, SeenOpen
    <3>5. n.status = "CANCELLED" /\ n.recovery = "NONE"
      BY <3>2 DEF Unproven
    <3> HIDE DEF v
    <3> QED BY <3>3, <3>4, <3>5, UnprovenReduced
  <2> QED BY <2>4, <2>5, <2>6
<1> QED BY <1>1, <1>2

(* The invariant is kept by every step ... *)
LEMMA AloneStep ==
    ASSUME Facts, AloneInv, [Next]_vars
    PROVE  AloneInv'
<1>0. ViewsProven' /\ RootKnown' /\ ViewsProven /\ RootKnown
  BY ViewsProvenStep, RootKnownStep DEF Facts, AloneInv
<1>s. \A c \in Cid : BrokerStable(c)
  BY BrokerInvStep DEF Facts, LedgerInv
<1> SUFFICES ASSUME Alone
             PROVE  /\ \A d \in Device : Careful(d)'
                    /\ \A n \in Replacement :
                          cmd'[<<"SUBMIT", n>>] # Absent => brk'[Replaces[n]].st = "cancelled"
  BY <1>0 DEF AloneInv, Alone, LegsProven
<1>a. /\ ~DatabaseMayFail /\ \A d \in Device : Careful(d)
      /\ \A n \in Replacement : cmd[<<"SUBMIT", n>>] # Absent => brk[Replaces[n]].st = "cancelled"
  BY DEF Alone, AloneInv, LegsProven
<1>k. \A c \in Cid : brk[c].st = "cancelled" => brk'[c].st = "cancelled"
  BY <1>s DEF BrokerStable, Ended, BrokerState
<1>1. ASSUME NEW d \in Device PROVE Careful(d)'
  <2>1. CASE UNCHANGED vars
    BY <1>a, <2>1 DEF vars, Careful, Current, OnRoute, HoldClosed, SeenOpen, CancelProven, Unproven
  <2>2. CASE Broker
    <3>1. UNCHANGED <<proc, order, res, phase, snap>>
      BY <2>2 DEF Broker, BrokerAcceptsSubmit, BrokerRefuses, BrokerNeverReceives, BrokerCancels,
         BrokerSaysFilled, BrokerCompletesCancel, BrokerFills, BrokerEnds, BrokerOnly, db, runtime
    <3>2. \A c \in Cid : Unproven(c)' => Unproven(c)
      BY <1>k, <3>1 DEF Unproven
    <3>3. proc[d].pc = "revalidate" => proc[d].cur \in Cid
      BY DEF Facts, TypeInv, GoodProc
    <3>4. HoldClosed(d)'
      BY <1>a, <3>1, <3>2 DEF Careful, HoldClosed
    <3>5. SeenOpen(d)'
      BY <1>a, <3>1, <3>2 DEF Careful, SeenOpen
    <3>6. CancelProven(d)'
      BY <1>a, <1>k, <3>1, <3>3 DEF Careful, CancelProven
    <3>7. Current(proc[d])' /\ OnRoute(proc[d])'
      BY <1>a, <3>1 DEF Careful, Current, OnRoute
    <3> QED BY <3>4, <3>5, <3>6, <3>7 DEF Careful
  <2>3. ASSUME NEW e \in Device,
             \/ Start(e) \/ Continue(e) \/ RecSnapshot(e)
             \/ Boot(e) \/ LeaseMoves(e) \/ Stop(e) \/ Crash(e)
        PROVE  Careful(d)'
    <3>1. e = d
      BY DEF Alone
    <3>2. Careful(d) /\ Current(proc[d]) /\ OnRoute(proc[d])
      BY <1>a DEF Careful
    <3>3. CancelProven(d)' /\ SeenOpen(d)' /\ HoldClosed(d)'
      BY <1>0, <1>a, <2>3, <3>1, <3>2, ProvenStep, SeenStep, HoldStep
    <3>4. proc'[d] = proc[d] \/ OnItsWay(proc[d], proc'[d])
      BY <2>3, <3>1, <3>2, DeviceWalks DEF Facts
    <3>5. Current(proc[d])' /\ OnRoute(proc[d])'
      BY <3>2, <3>4 DEF OnItsWay, OnRoute, Current
    <3> QED BY <3>3, <3>5 DEF Careful
  <2> QED BY <2>1, <2>2, <2>3 DEF Next
<1>2. ASSUME NEW n \in Replacement, cmd'[<<"SUBMIT", n>>] # Absent
      PROVE  brk'[Replaces[n]].st = "cancelled"
  <2>0. n \in Cid /\ Replaces[n] \in Cid
    BY ChainAssumption DEF Replacement
  <2>1. CASE cmd[<<"SUBMIT", n>>] # Absent
    BY <1>a, <1>k, <2>0, <2>1
  <2>2. CASE cmd[<<"SUBMIT", n>>] = Absent
    <3>1. PICK d \in Device : ReplaceSubmit(d) /\ proc[d].rep = n
      BY <1>2, <2>0, <2>2, NewSubmit DEF Facts, SubmitPrepare
    <3>2. proc[d].pc = "revalidate" /\ n # NoCid
      BY <2>0, <3>1, ChainAssumption DEF ReplaceSubmit
    <3>3. proc[d].cur = Replaces[n] /\ brk[proc[d].cur].st = "cancelled"
      BY <1>a, <3>1, <3>2 DEF Careful, OnRoute, CancelProven, ReplacePc
    <3> QED BY <1>k, <2>0, <3>3
  <2> QED BY <2>1, <2>2
<1> QED BY <1>1, <1>2

(* ... and holds of an empty database. *)
LEMMA AloneInit == Init => AloneInv
<1> SUFFICES ASSUME Init PROVE AloneInv
  OBVIOUS
<1>1. ViewsProven
  BY DEF Init, ViewsProven, NoSnapshot, Unseen
<1>2. \A c \in Cid : cmd[<<"SUBMIT", c>>] = Absent
  <2>1. \A c \in Cid : <<"SUBMIT", c>> \in CmdKey
    BY DEF CmdKey
  <2> QED BY <2>1 DEF Init
<1>3. ASSUME NEW d \in Device PROVE Careful(d)
  BY DEF Init, Careful, Current, OnRoute, HoldClosed, SeenOpen, CancelProven, Idle, Unproven, NoRow,
     Absent, ReplacePc, CancelPc
<1> QED BY <1>1, <1>2, <1>3 DEF AloneInv, RootKnown, Replacement, LegsProven

THEOREM AloneInvariant == Spec => [](Facts /\ AloneInv)
<1>1. Facts /\ AloneInv /\ [Next]_vars => AloneInv'
  BY AloneStep
<1>2. Spec => []Facts
  BY TruthInvariant DEF Facts
<1> QED BY <1>1, <1>2, AloneInit, PTL DEF Spec

(* One device, whose database does not fail, never has two orders of a chain  *)
(* at work either, even when the answer to a cancel says CANCELLED too early: *)
(* the fence puts such an order under discovery before anything else can     *)
(* happen to it, and a restart lets no device act on what it has not seen.   *)
THEOREM OneLegOnOneDevice ==
    ASSUME Alone
    PROVE  Spec => []NeverTwoLegs
<1>1. Facts /\ AloneInv => NeverTwoLegs
  <2> SUFFICES ASSUME Facts, AloneInv, NEW n \in Replacement, sent[n] > 0
               PROVE  brk[Replaces[n]].st = "cancelled"
    BY DEF NeverTwoLegs
  <2>1. cmd[<<"SUBMIT", n>>] # Absent
    BY DEF Replacement, Facts, LedgerInv, RecordInv, OnRecord, Recorded
  <2> QED BY <2>1 DEF AloneInv, LegsProven
<1> QED BY <1>1, AloneInvariant, PTL

-----------------------------------------------------------------------------
(* The gateway implements the chain of orders (OrderChain). *)

(* One order moves, or none does. *)
LEMMA OneStage ==
    ASSUME NEW c \in Cid, \A b \in Cid : b # c => StageOf(b)' = StageOf(b)
    PROVE  /\ stages[c] = StageOf(c)
           /\ stages' = [stages EXCEPT ![c] = StageOf(c)']
           /\ StageOf(c)' = StageOf(c) => stages' = stages
BY DEF stages

(* What a stage says. *)
LEMMA StageSays ==
    ASSUME TypeInv, NEW c \in Cid
    PROVE  /\ brk[c].st = "cancelled" => StageOf(c) = "cancelled"
           /\ brk[c].st \in {"filled", "expired", "rejected"} => StageOf(c) = "done"
           /\ brk[c].st = "open" => StageOf(c) = IF brk[c].cancelling THEN "cancelling" ELSE "live"
           /\ brk[c].st = "none" /\ sent[c] > 0 =>
                StageOf(c) = IF \E d \in Device : <<"submit", c, d>> \in net THEN "sent" ELSE "lost"
           /\ brk[c].st = "none" /\ sent[c] = 0 =>
                StageOf(c) = IF cmd[<<"SUBMIT", c>>] = Absent THEN "new"
                             ELSE IF order[c].status = "CANCELLED_LOCALLY" THEN "retired"
                                  ELSE "journaled"
<1>1. brk[c] \in BrokerRow /\ sent[c] \in Nat
  BY DEF TypeInv, TypeOK
<1>2. CASE brk[c].st = "none"
  <2>1. CASE sent[c] > 0
    BY <1>2, <2>1 DEF StageOf
  <2>2. CASE sent[c] = 0
    BY <1>2, <2>2 DEF StageOf
  <2> QED BY <1>1, <1>2, <2>1, <2>2
<1>3. CASE brk[c].st = "open"
  BY <1>3 DEF StageOf
<1>4. CASE brk[c].st = "cancelled"
  BY <1>4 DEF StageOf
<1>5. CASE brk[c].st \in {"filled", "expired", "rejected"}
  BY <1>5 DEF StageOf
<1> QED BY <1>1, <1>2, <1>3, <1>4, <1>5 DEF BrokerRow, BrokerState

(* An order stands still when nothing its stage is read from changes. *)
LEMMA SameStage ==
    ASSUME NEW c \in Cid, brk'[c] = brk[c], sent'[c] = sent[c],
           \A d \in Device : <<"submit", c, d>> \in net' <=> <<"submit", c, d>> \in net,
           cmd'[<<"SUBMIT", c>>] = Absent <=> cmd[<<"SUBMIT", c>>] = Absent,
           order'[c].status = "CANCELLED_LOCALLY" <=> order[c].status = "CANCELLED_LOCALLY"
    PROVE  StageOf(c)' = StageOf(c)
<1>1. (\E d \in Device : <<"submit", c, d>> \in net') <=> \E d \in Device : <<"submit", c, d>> \in net
  OBVIOUS
<1> QED BY <1>1 DEF StageOf

(* The broker's steps are steps of the chain. *)
LEMMA BrokerChain ==
    ASSUME TypeInv, TypeInv', SendInv, LedgerInv, Broker
    PROVE  [Chain!Next]_Chain!vars
<1>0. UNCHANGED <<order, cmd, sent>> /\ closed' = closed
  BY DEF Broker, BrokerAcceptsSubmit, BrokerRefuses, BrokerNeverReceives, BrokerCancels,
     BrokerSaysFilled, BrokerCompletesCancel, BrokerFills, BrokerEnds, BrokerOnly, db, closed
<1>t. brk \in [Cid -> BrokerRow] /\ net \subseteq Request
  BY DEF TypeInv, TypeOK
<1>n. ASSUME NEW c \in Cid, brk'[c] = brk[c],
             \A d \in Device : <<"submit", c, d>> \in net' <=> <<"submit", c, d>> \in net
      PROVE  StageOf(c)' = StageOf(c)
  BY <1>0, <1>n, SameStage
<1>s. stages' = stages => [Chain!Next]_Chain!vars
  BY <1>0 DEF Chain!vars
<1>1. ASSUME NEW m \in net, m[1] = "submit",
             BrokerAcceptsSubmit(m) \/ BrokerRefuses(m) \/ BrokerNeverReceives(m)
      PROVE  [Chain!Next]_Chain!vars
  <2>1. PICK c \in Cid, d \in Device : m = <<"submit", c, d>>
    BY <1>1, <1>t DEF Request
  <2>2. /\ sent[c] > 0 /\ brk[c].st = "none"
        /\ \A e \in Device : <<"submit", c, e>> \in net => e = d
    BY <2>1 DEF LedgerInv, BrokerInv
  <2>3. net' = net \ {m}
    BY <1>1 DEF BrokerAcceptsSubmit, BrokerRefuses, BrokerNeverReceives, Reply
  <2>4. brk' = brk \/ brk' = [brk EXCEPT ![c] = [st |-> "open", filled |-> 0, cancelling |-> FALSE]]
    BY <1>1, <2>1 DEF BrokerAcceptsSubmit, BrokerRefuses, BrokerNeverReceives
  <2>5. ASSUME NEW b \in Cid, b # c PROVE StageOf(b)' = StageOf(b)
    <3>1. brk'[b] = brk[b]
      BY <1>t, <2>4, <2>5
    <3>2. \A e \in Device : <<"submit", b, e>> \in net' <=> <<"submit", b, e>> \in net
      BY <2>1, <2>3, <2>5
    <3> QED BY <1>n, <3>1, <3>2
  <2>6. StageOf(c) = "sent"
    BY <2>1, <2>2, StageSays
  <2>7. StageOf(c)' \in {"lost", "live"}
    <3>1. \A e \in Device : <<"submit", c, e>> \notin net'
      BY <2>1, <2>2, <2>3
    <3>2. CASE brk' = brk
      <4>1. brk'[c].st = "none" /\ sent'[c] # 0 /\ sent'[c] > 0
        BY <1>0, <2>2, <3>2 DEF TypeInv, TypeOK
      <4>2. ~\E e \in Device : <<"submit", c, e>> \in net'
        BY <3>1
      <4> QED BY <4>1, <4>2 DEF StageOf
    <3>3. CASE brk' = [brk EXCEPT ![c] = [st |-> "open", filled |-> 0, cancelling |-> FALSE]]
      <4>1. brk'[c] = [st |-> "open", filled |-> 0, cancelling |-> FALSE]
        BY <1>t, <3>3
      <4>2. brk'[c].st = "open" /\ ~brk'[c].cancelling
        BY <4>1
      <4> QED BY <4>2 DEF StageOf
    <3> QED BY <2>4, <3>2, <3>3
  <2> DEFINE s == StageOf(c)'
  <2>8. stages[c] = "sent" /\ stages' = [stages EXCEPT ![c] = s]
    BY <2>5, <2>6, OneStage
  <2> HIDE DEF s
  <2>9. s \in {"lost", "live"}
    BY <2>7 DEF s
  <2>10. Chain!Arrive(c)
    BY <1>0, <2>8, <2>9 DEF Chain!Arrive, Chain!Becomes
  <2> QED BY <2>10 DEF Chain!Next
<1>2. ASSUME NEW m \in net, m[1] # "submit", net' = net \ {m}, NEW b \in Cid, NEW d \in Device
      PROVE  <<"submit", b, d>> \in net' <=> <<"submit", b, d>> \in net
  BY <1>2
<1>3. ASSUME NEW m \in net, m[1] # "submit", BrokerRefuses(m) \/ BrokerNeverReceives(m) \/ BrokerSaysFilled(m)
      PROVE  [Chain!Next]_Chain!vars
  <2>1. brk' = brk /\ net' = net \ {m}
    BY <1>3 DEF BrokerRefuses, BrokerNeverReceives, BrokerSaysFilled, Reply
  <2>2. \A b \in Cid : StageOf(b)' = StageOf(b)
    BY <1>2, <1>3, <1>n, <2>1
  <2>3. stages' = stages
    BY <2>2 DEF stages
  <2> QED BY <1>s, <2>3
(* An open order is cancelled, filled, ended or filled a little more. *)
<1>4. ASSUME NEW c \in Cid, brk[c].st = "open", NEW n \in BrokerRow, brk' = [brk EXCEPT ![c] = n],
             n.st # "none", brk[c].cancelling => n.cancelling,
             \A b \in Cid, d \in Device : <<"submit", b, d>> \in net' <=> <<"submit", b, d>> \in net
      PROVE  [Chain!Next]_Chain!vars
  <2> DEFINE s == StageOf(c)'
  <2>1. \A b \in Cid : b # c => StageOf(b)' = StageOf(b)
    BY <1>4, <1>n, <1>t
  <2>2. StageOf(c) = IF brk[c].cancelling THEN "cancelling" ELSE "live"
    BY <1>4, StageSays
  <2>3. brk'[c] = n
    BY <1>4, <1>t
  <2>4. \/ s \in {"cancelled", "done"}
        \/ s = IF n.cancelling THEN "cancelling" ELSE "live"
    BY <1>4, <2>3 DEF StageOf, BrokerRow, BrokerState
  <2>5. /\ stages[c] = StageOf(c) /\ stages' = [stages EXCEPT ![c] = s]
        /\ s = StageOf(c) => stages' = stages
    BY <2>1, OneStage
  <2> HIDE DEF s
  <2>6. CASE s \in {"cancelled", "done"}
    <3>1. Chain!End(c)
      BY <1>0, <2>2, <2>5, <2>6 DEF Chain!End, Chain!Becomes
    <3> QED BY <3>1 DEF Chain!Next
  <2>7. CASE s = StageOf(c)
    BY <1>s, <2>5, <2>7
  <2>8. CASE s = "cancelling" /\ StageOf(c) = "live"
    <3>1. Chain!Cancel(c)
      BY <1>0, <2>5, <2>8 DEF Chain!Cancel, Chain!Becomes
    <3> QED BY <3>1 DEF Chain!Next
  <2> QED BY <1>4, <2>2, <2>4, <2>6, <2>7, <2>8
<1>5. ASSUME NEW m \in net, BrokerCancels(m) PROVE [Chain!Next]_Chain!vars
  <2>1. m[2] \in Cid /\ m[1] # "submit" /\ brk[m[2]].st = "open" /\ net' = net \ {m}
    BY <1>5, <1>t DEF BrokerCancels, Request, Reply
  <2>2. PICK c \in Cid : c = m[2]
    BY <2>1
  <2>3. brk' = [brk EXCEPT ![c].st = "cancelled"] \/ brk' = [brk EXCEPT ![c].cancelling = TRUE]
    BY <1>5, <2>2 DEF BrokerCancels
  <2> DEFINE n == brk'[c]
  <2>4. n \in BrokerRow /\ n.st \in {"cancelled", "open"} /\ (brk[c].cancelling => n.cancelling)
    <3>1. n \in BrokerRow
      BY DEF TypeInv, TypeOK
    <3>2. n = [brk[c] EXCEPT !.st = "cancelled"] \/ n = [brk[c] EXCEPT !.cancelling = TRUE]
      BY <1>t, <2>3
    <3>3. brk[c] \in BrokerRow /\ brk[c].st = "open"
      BY <1>t, <2>1, <2>2
    <3> HIDE DEF n
    <3>4. CASE n = [brk[c] EXCEPT !.st = "cancelled"]
      BY <3>1, <3>3, <3>4 DEF BrokerRow
    <3>5. CASE n = [brk[c] EXCEPT !.cancelling = TRUE]
      BY <3>1, <3>3, <3>5 DEF BrokerRow
    <3> QED BY <3>2, <3>4, <3>5
  <2>5. brk' = [brk EXCEPT ![c] = n]
    BY <1>t, <2>3
  <2> HIDE DEF n
  <2> QED BY <1>2, <1>4, <2>1, <2>2, <2>4, <2>5
<1>6. ASSUME NEW c \in Cid, \/ BrokerCompletesCancel(c) \/ BrokerFills(c)
                           \/ \E how \in LateEndings : BrokerEnds(c, how)
      PROVE  [Chain!Next]_Chain!vars
  <2>1. brk[c].st = "open" /\ net' = net
    BY <1>6 DEF BrokerCompletesCancel, BrokerFills, BrokerEnds
  <2>2. /\ brk'[c] \in BrokerRow /\ brk' = [brk EXCEPT ![c] = brk'[c]] /\ brk'[c].st # "none"
        /\ brk'[c].cancelling = brk[c].cancelling
    <3>0. brk'[c] \in BrokerRow
      BY DEF TypeInv, TypeOK
    <3>1. \/ \E s \in {"cancelled", "expired", "rejected"} : brk' = [brk EXCEPT ![c].st = s]
          \/ \E k, s : brk' = [brk EXCEPT ![c].filled = k, ![c].st = s] /\ s \in {"filled", "open"}
      BY <1>6, <2>1, GatewayAssumption DEF BrokerCompletesCancel, BrokerFills, BrokerEnds
    <3>2. brk[c] \in BrokerRow
      BY <1>t
    <3>3. PICK k, s : /\ brk'[c] = [brk[c] EXCEPT !.filled = k, !.st = s]
                      /\ brk' = [brk EXCEPT ![c] = brk'[c]] /\ s # "none"
      <4>1. CASE \E s \in {"cancelled", "expired", "rejected"} : brk' = [brk EXCEPT ![c].st = s]
        <5>1. PICK s \in {"cancelled", "expired", "rejected"} : brk' = [brk EXCEPT ![c].st = s]
          BY <4>1
        <5>2. brk'[c] = [brk[c] EXCEPT !.st = s]
          BY <1>t, <5>1
        <5>3. brk'[c] = [brk[c] EXCEPT !.filled = brk[c].filled, !.st = s]
          BY <3>2, <5>2 DEF BrokerRow
        <5> QED BY <1>t, <5>1, <5>3
      <4>2. CASE \E k, s : brk' = [brk EXCEPT ![c].filled = k, ![c].st = s] /\ s \in {"filled", "open"}
        <5>1. PICK k, s : brk' = [brk EXCEPT ![c].filled = k, ![c].st = s] /\ s \in {"filled", "open"}
          BY <4>2
        <5>2. DOMAIN brk = Cid
          BY <1>t
        <5>3. brk'[c] = [brk[c] EXCEPT !.filled = k, !.st = s] /\ brk' = [brk EXCEPT ![c] = brk'[c]]
          BY <5>1, <5>2
        <5> QED BY <5>1, <5>3
      <4> QED BY <3>1, <4>1, <4>2
    <3>4. brk'[c].st = s /\ brk'[c].cancelling = brk[c].cancelling
      BY <3>2, <3>3 DEF BrokerRow
    <3> QED BY <3>0, <3>3, <3>4
  <2> DEFINE n == brk'[c]
  <2> HIDE DEF n
  <2>3. n \in BrokerRow /\ brk' = [brk EXCEPT ![c] = n] /\ n.st # "none" /\ n.cancelling = brk[c].cancelling
    BY <2>2 DEF n
  <2> QED BY <1>4, <2>1, <2>3
<1>7. ASSUME NEW m \in net, \/ BrokerAcceptsSubmit(m) \/ BrokerRefuses(m)
                             \/ BrokerNeverReceives(m) \/ BrokerSaysFilled(m)
      PROVE  [Chain!Next]_Chain!vars
  <2>1. (BrokerAcceptsSubmit(m) => m[1] = "submit") /\ (BrokerSaysFilled(m) => m[1] # "submit")
    BY DEF BrokerAcceptsSubmit, BrokerSaysFilled
  <2> QED BY <1>1, <1>3, <1>7, <2>1
<1> QED BY <1>5, <1>6, <1>7 DEF Broker

(* An attempt at its last gate is retired or left as it is. *)
LEMMA GateRetires ==
    ASSUME TypeInv, NEW d \in Device, proc[d].pc = "submitGate",
           \/ Start(d) \/ Continue(d) \/ RecSnapshot(d)
           \/ Boot(d) \/ LeaseMoves(d) \/ Stop(d) \/ Crash(d)
    PROVE  order' = order \/ SubmitAbort(d)
<1>1. CASE RecSnapshot(d) \/ Boot(d) \/ LeaseMoves(d) \/ Stop(d) \/ Crash(d)
  BY <1>1 DEF RecSnapshot, Boot, LeaseMoves, Stop, Crash, db
<1>2. CASE Start(d)
  BY <1>2 DEF Start, SubmitPrepare, CancelStart, ReplaceIntent, ResumeSubmit, ResumeAdopt, ResumeClose,
     Resumable, MayStart, db
<1>3. CASE Continue(d)
  BY <1>3 DEF Continue, MarkSubmitting, SubmitGate, CallSubmit, SubmitAccepted, SubmitRefused,
     SubmitAmbiguous, CancelGate, CancelAbort, CallCancel, CancelAnswered, CancelRefused, CancelAmbiguous,
     ReplaceJournal, CancelJournal, Fence, PollApplies, PollSkips, PollTimesOut, ReplaceSubmit,
     ReplaceAbandon, Release, ReleasePrepared, Restore, Complete, SaveCard, TxError, RecApply, db
<1> QED BY <1>1, <1>2, <1>3

(* A terminal record keeps its status. *)
LEMMA TerminalStays ==
    ASSUME NEW o, NEW n, o.status \in TerminalStatus, LegalEdit(o, n)
    PROVE  n.status = o.status
<1>1. o.status \notin OpenStatus /\ o.status # Absent
  BY DEF OpenStatus, TerminalStatus, Absent
<1>2. allowed_status_transitions(o.status) = {}
  BY <1>1 DEF allowed_status_transitions
<1> QED BY <1>1, <1>2 DEF LegalEdit, ReachableStatus

(* Transaction 1 of _do_submit puts an order on record. *)
LEMMA JournalChain ==
    ASSUME Facts, LegsProven', NEW d \in Device, NEW n \in Cid, brk' = brk, sent' = sent,
           SubmitPrepare(d, n) \/ (ReplaceSubmit(d) /\ proc[d].rep = n)
    PROVE  Chain!Journal(n)
<1> USE DEF Facts
<1>0. cmd[<<"SUBMIT", n>>] = Absent /\ order[n].status = Absent /\ order \in [Cid -> OrderRow]
  BY DEF SubmitPrepare, ReplaceSubmit, LedgerInv, RecordInv, TypeInv, TypeOK
<1>1. sent[n] = 0 /\ brk[n].st = "none"
  BY <1>0 DEF SendInv, Fresh, LedgerInv, BrokerInv
<1>2. /\ order' = [order EXCEPT ![n] = PreparedRow] /\ net' = net
      /\ cmd' = [cmd EXCEPT ![<<"SUBMIT", n>>] = "REQUESTED"]
  BY DEF SubmitPrepare, ReplaceSubmit, world
<1>3. \A c \in Cid : /\ <<"SUBMIT", c>> \in CmdKey
                     /\ cmd'[<<"SUBMIT", c>>] = IF c = n THEN "REQUESTED" ELSE cmd[<<"SUBMIT", c>>]
                     /\ order'[c] = IF c = n THEN PreparedRow ELSE order[c]
  BY <1>0, <1>2 DEF CmdKey, TypeInv, TypeOK
<1>4. PreparedRow.status = "PREPARED"
  BY DEF PreparedRow, NoRow
<1>5. closed' = closed
  BY <1>0, <1>3, <1>4 DEF closed, TerminalStatus, Absent
<1>6. StageOf(n) = "new"
  BY <1>0, <1>1, StageSays
<1>7. StageOf(n)' = "journaled"
  BY <1>1, <1>3, <1>4 DEF StageOf, Absent
<1>8. \A c \in Cid : c # n => StageOf(c)' = StageOf(c)
  BY <1>2, <1>3, SameStage
<1>9. stages[n] = "new" /\ stages' = [stages EXCEPT ![n] = "journaled"]
  BY <1>6, <1>7, <1>8, OneStage
<1>10. ASSUME Replaces[n] # NoCid PROVE stages[Replaces[n]] = "cancelled"
  <2>1. n \in Replacement /\ Replaces[n] \in Cid
    BY <1>10, ChainAssumption DEF Replacement
  <2>2. brk[Replaces[n]].st = "cancelled"
    BY <1>3, <2>1 DEF LegsProven, Absent
  <2>3. StageOf(Replaces[n]) = "cancelled"
    BY <2>1, <2>2, StageSays
  <2> QED BY <2>1, <2>3 DEF stages
<1> QED BY <1>5, <1>9, <1>10 DEF Chain!Journal, Chain!Becomes

(* An attempt between its first transaction and the call. *)
LEMMA JournaledStage ==
    ASSUME Facts, NEW d \in Device, proc[d].pc \in {"submitGate", "submitCall"}
    PROVE  /\ proc[d].cur \in Cid /\ StageOf(proc[d].cur) = "journaled"
           /\ sent[proc[d].cur] = 0 /\ brk[proc[d].cur].st = "none"
           /\ cmd[<<"SUBMIT", proc[d].cur>>] # Absent
<1> USE DEF Facts
<1> DEFINE c == proc[d].cur
<1>1. c \in Cid /\ Submitting(d, c) /\ OnRecord(c)
  BY DEF TypeInv, GoodProc, Submitting, SubmitPc, LedgerInv, RecordInv, MarkedPc
<1>2. sent[c] = 0 /\ brk[c].st = "none" /\ cmd[<<"SUBMIT", c>>] # Absent
      /\ order[c].status # "CANCELLED_LOCALLY"
  BY <1>1 DEF SendInv, NotYetSent, LedgerInv, BrokerInv, OnRecord, Recorded
<1> HIDE DEF c
<1>3. StageOf(c) = "journaled"
  BY <1>1, <1>2, StageSays
<1> QED BY <1>1, <1>2, <1>3 DEF c

(* The last gate retires an order that was not sent. *)
LEMMA RetireChain ==
    ASSUME Facts, NEW d \in Device, SubmitAbort(d)
    PROVE  Chain!Retire(proc[d].cur)
<1>0. PICK c \in Cid : c = proc[d].cur
  BY JournaledStage DEF SubmitAbort
<1>1. /\ c \in Cid /\ StageOf(c) = "journaled" /\ sent[c] = 0 /\ brk[c].st = "none"
      /\ order \in [Cid -> OrderRow] /\ cmd[<<"SUBMIT", c>>] # Absent
  BY <1>0, JournaledStage DEF SubmitAbort, Facts, TypeInv, TypeOK
<1>2. /\ order' = [order EXCEPT ![c] = ApplyStatus(@, "CANCELLED_LOCALLY")]
      /\ cmd' = [cmd EXCEPT ![<<"SUBMIT", c>>] = "PRE_BROKER_ABORTED"]
      /\ brk' = brk /\ net' = net /\ sent' = sent
  BY <1>0 DEF SubmitAbort, world
<1>3. \A b \in Cid : /\ <<"SUBMIT", b>> \in CmdKey
                     /\ cmd'[<<"SUBMIT", b>>] = IF b = c THEN "PRE_BROKER_ABORTED" ELSE cmd[<<"SUBMIT", b>>]
                     /\ b # c => order'[b] = order[b]
  BY <1>1, <1>2 DEF CmdKey, Facts, TypeInv, TypeOK
<1>4. order'[c].status = "CANCELLED_LOCALLY"
  <2>1. order'[c] = ApplyStatus(order[c], "CANCELLED_LOCALLY") /\ order[c] \in OrderRow
    BY <1>1, <1>2
  <2> QED BY <2>1 DEF ApplyStatus, OrderRow
<1>5. closed' = closed \cup {c}
  BY <1>1, <1>3, <1>4 DEF closed, TerminalStatus
<1>6. StageOf(c)' = "retired"
  BY <1>1, <1>2, <1>3, <1>4 DEF StageOf, Absent
<1>7. \A b \in Cid : b # c => StageOf(b)' = StageOf(b)
  BY <1>2, <1>3, SameStage
<1>8. stages[c] = "journaled" /\ stages' = [stages EXCEPT ![c] = "retired"]
  BY <1>1, <1>6, <1>7, OneStage
<1> QED BY <1>0, <1>5, <1>8 DEF Chain!Retire, Chain!Becomes

(* The call sends one that was not sent before. *)
LEMMA SendChain ==
    ASSUME Facts, NEW d \in Device, CallSubmit(d)
    PROVE  Chain!Send(proc[d].cur)
<1>0. PICK c \in Cid : c = proc[d].cur
  BY JournaledStage DEF CallSubmit
<1>1. c \in Cid /\ StageOf(c) = "journaled" /\ sent[c] = 0 /\ brk[c].st = "none"
  BY <1>0, JournaledStage DEF CallSubmit
<1>2. /\ net' = net \cup {<<"submit", c, d>>} /\ sent' = [sent EXCEPT ![c] = @ + 1]
      /\ brk' = brk /\ order' = order /\ cmd' = cmd
  BY <1>0 DEF CallSubmit, db
<1>3. sent'[c] = 1 /\ \A b \in Cid : b # c => sent'[b] = sent[b]
  BY <1>1, <1>2 DEF Facts, TypeInv, TypeOK
<1>4. closed' = closed
  BY <1>2 DEF closed
<1>5. StageOf(c)' = "sent"
  <2>1. \E e \in Device : <<"submit", c, e>> \in net'
    BY <1>2
  <2> QED BY <1>1, <1>2, <1>3, <2>1 DEF StageOf
<1>6. ASSUME NEW b \in Cid, b # c PROVE StageOf(b)' = StageOf(b)
  <2>1. \A e \in Device : <<"submit", b, e>> \in net' <=> <<"submit", b, e>> \in net
    BY <1>2, <1>6
  <2> QED BY <1>2, <1>3, <1>6, <2>1, SameStage
<1>7. stages[c] = "journaled" /\ stages' = [stages EXCEPT ![c] = "sent"]
  BY <1>1, <1>5, <1>6, OneStage
<1> QED BY <1>0, <1>4, <1>7 DEF Chain!Send, Chain!Becomes

(* An order that is recorded as over is over, or being cancelled. *)
OverIsOver ==
    \A c \in closed : order[c].status # "CANCELLED_LOCALLY" =>
        stages[c] \in {"lost", "cancelling", "cancelled", "done"}

LEMMA TrueOver == Facts => OverIsOver
<1> SUFFICES ASSUME TypeInv, RowsTrue, NEW c \in Cid,
                    order[c].status \in TerminalStatus, order[c].status # "CANCELLED_LOCALLY"
             PROVE  StageOf(c) \in {"lost", "cancelling", "cancelled", "done"}
  BY DEF Facts, TruthInv, OverIsOver, closed, stages
<1>0. TrueStatus(c, order[c].status)
  BY DEF RowsTrue
<1>1. CASE Refused(c)
  BY <1>1, StageSays DEF Refused
<1>2. CASE Says(order[c].status, brk[c])
  <2>1. /\ brk[c].st \in {"cancelled", "filled", "expired", "rejected"}
                \/ (brk[c].cancelling /\ brk[c].st # "none")
        /\ brk[c].st \in BrokerState
    BY <1>0, <1>2 DEF Says, TrueStatus, TerminalStatus, TypeInv, TypeOK, BrokerRow
  <2> QED BY <2>1, StageSays DEF BrokerState
<1> QED BY <1>0, <1>1, <1>2 DEF TrueStatus

(* Every step of a device is a step of the chain. *)
LEMMA DeviceChain ==
    ASSUME Facts, Facts', LegsProven', [Next]_vars, NEW d \in Device,
           \/ Start(d) \/ Continue(d) \/ RecSnapshot(d)
           \/ Boot(d) \/ LeaseMoves(d) \/ Stop(d) \/ Crash(d)
    PROVE  [Chain!Next]_Chain!vars
<1>b. /\ brk' = brk
      /\ ~CallSubmit(d) =>
           /\ sent' = sent
           /\ \A c \in Cid, e \in Device : <<"submit", c, e>> \in net' <=> <<"submit", c, e>> \in net
  <2>1. \/ net' = net /\ sent' = sent
        \/ CallSubmit(d)
        \/ net' = net \cup {<<"cancel", proc[d].cur, d>>} /\ sent' = sent
    BY DeviceLeavesBroker
  <2>2. \A c \in Cid, e \in Device : <<"submit", c, e>> # <<"cancel", proc[d].cur, d>>
    OBVIOUS
  <2> QED BY <2>1, <2>2, DeviceLeavesBroker
<1>e. \A c \in Cid : EditOK(c) /\ CommandOK(d, c)
  BY DeviceEffect DEF Effect, Facts
<1>o. OverIsOver'
  BY TrueOver, PTL
<1>1. CASE CallSubmit(d)
  <2>1. proc[d].cur \in Cid
    BY <1>1, JournaledStage DEF CallSubmit
  <2> QED BY <1>1, <2>1, SendChain DEF Chain!Next
<1>2. CASE SubmitAbort(d)
  <2>1. proc[d].cur \in Cid
    BY <1>2, JournaledStage DEF SubmitAbort
  <2> QED BY <1>2, <2>1, RetireChain DEF Chain!Next
<1>3. CASE \E n \in Cid : cmd[<<"SUBMIT", n>>] = Absent /\ cmd'[<<"SUBMIT", n>>] # Absent
  <2>1. PICK n \in Cid : cmd[<<"SUBMIT", n>>] = Absent /\ cmd'[<<"SUBMIT", n>>] # Absent
    BY <1>3
  <2>2. PICK e \in Device : SubmitPrepare(e, n) \/ (ReplaceSubmit(e) /\ proc[e].rep = n)
    BY <2>1, NewSubmit DEF Facts
  <2>3. sent' = sent
    BY <2>2 DEF SubmitPrepare, ReplaceSubmit, world
  <2> QED BY <1>b, <2>2, <2>3, JournalChain DEF Chain!Next
<1>4. CASE /\ ~CallSubmit(d) /\ ~SubmitAbort(d)
           /\ \A n \in Cid : cmd[<<"SUBMIT", n>>] = Absent => cmd'[<<"SUBMIT", n>>] = Absent
  <2>1. \A c \in Cid : order'[c].status = "CANCELLED_LOCALLY" => order[c].status = "CANCELLED_LOCALLY"
    BY <1>4, <1>e, GateRetires DEF CommandOK, Facts
  <2>2. \A c \in Cid : order[c].status \in TerminalStatus => order'[c].status = order[c].status
    BY <1>e, TerminalStays DEF EditOK
  <2>3. \A c \in Cid : StageOf(c)' = StageOf(c)
    <3> SUFFICES ASSUME NEW c \in Cid PROVE StageOf(c)' = StageOf(c)
      OBVIOUS
    <3>1. order'[c].status = "CANCELLED_LOCALLY" <=> order[c].status = "CANCELLED_LOCALLY"
      BY <2>1, <2>2 DEF TerminalStatus
    <3>2. cmd'[<<"SUBMIT", c>>] = Absent <=> cmd[<<"SUBMIT", c>>] = Absent
      BY <1>4, <1>e DEF CommandOK
    <3> QED BY <1>4, <1>b, <3>1, <3>2, SameStage
  <2>4. stages' = stages
    BY <2>3 DEF stages
  <2> DEFINE C == closed' \ closed
  <2>5. closed' = closed \cup C /\ C \subseteq Cid
    BY <2>2 DEF closed
  <2>6. ASSUME NEW c \in C PROVE stages[c] \in {"lost", "cancelling", "cancelled", "done"}
    <3>1. /\ c \in Cid /\ order'[c].status \in TerminalStatus
          /\ order'[c].status # "CANCELLED_LOCALLY"
      BY <2>1, <2>6 DEF closed, TerminalStatus
    <3> QED BY <2>4, <3>1, <1>o DEF OverIsOver, closed
  <2> HIDE DEF C
  <2>7. Chain!Conclude(C)
    BY <2>4, <2>5, <2>6 DEF Chain!Conclude
  <2> QED BY <2>5, <2>7 DEF Chain!Next
<1> QED BY <1>1, <1>2, <1>3, <1>4

(* The empty database is the chain before it begins. *)
LEMMA InitChain == Init => Chain!Init
<1> SUFFICES ASSUME Init PROVE Chain!Init
  OBVIOUS
<1>1. \A c \in Cid : <<"SUBMIT", c>> \in CmdKey
  BY DEF CmdKey
<1>2. \A c \in Cid : /\ order[c].status = Absent /\ cmd[<<"SUBMIT", c>>] = Absent
                     /\ brk[c].st = "none" /\ sent[c] = 0
  BY <1>1 DEF Init, NoRow, NoBrokerOrder
<1>3. stages = [c \in Cid |-> "new"]
  BY <1>2 DEF stages, StageOf
<1>4. closed = {}
  BY <1>2 DEF closed, TerminalStatus, Absent
<1> QED BY <1>3, <1>4 DEF Chain!Init

(* The guarded gateway, the reconciliation, the crashes and the broker        *)
(* together implement the chain of orders: on record before it is sent, sent *)
(* at most once, never beside the order it replaces, over only when it is or *)
(* is being cancelled.  Either the cancel answers are true, or one device    *)
(* works on a database that does not fail.                                   *)
THEOREM GatewayIsChain ==
    ASSUME ~CancelAckMayPrecedeCancel \/ Alone
    PROVE  Spec => ImplementsChain
<1>1. Facts /\ AloneInv /\ (Facts /\ AloneInv)' /\ [Next]_vars => [Chain!Next]_Chain!vars
  <2> SUFFICES ASSUME Facts, Facts', AloneInv', [Next]_vars PROVE [Chain!Next]_Chain!vars
    OBVIOUS
  <2>0. LegsProven'
    BY DEF Facts, TruthInv, LegsApart, AloneInv, LegsProven, Alone
  <2>1. CASE UNCHANGED vars
    <3>1. stages' = stages /\ closed' = closed
      BY <2>1 DEF vars, stages, closed, StageOf
    <3> QED BY <3>1 DEF Chain!vars
  <2>2. CASE Broker
    BY <2>2, BrokerChain DEF Facts
  <2>3. ASSUME NEW d \in Device,
           \/ Start(d) \/ Continue(d) \/ RecSnapshot(d)
           \/ Boot(d) \/ LeaseMoves(d) \/ Stop(d) \/ Crash(d)
        PROVE  [Chain!Next]_Chain!vars
    BY <2>0, <2>3, DeviceChain
  <2> QED BY <2>1, <2>2, <2>3 DEF Next
<1> QED BY <1>1, InitChain, AloneInvariant, PTL DEF Spec, ImplementsChain, Chain!Spec

==============================================================================
