------------------------ MODULE ExitLifecycle_proofs ------------------------
(***************************************************************************)
(* For any number of shares, any commands of the operator and any number   *)
(* of orders, stops, rejects, missing answers, gaps and crashes: one SELL  *)
(* works at a time, the card is closed only when the position is flat, and *)
(* nothing is liquidated that nobody asked for.                            *)
(***************************************************************************)
EXTENDS ExitLifecycle, FiniteSetTheorems, SequenceTheorems, WellFoundedInduction, TLAPS

(* Types.                                                                    *)
AttemptId == Nat \X Nat \X {"PARTIAL_EXIT", "MANUAL_EXIT"}

Cards == [status : {"OPEN_POSITION", "PARTIAL_SELL", "SELL_ALL", "CLOSED"},
          exitAll : BOOLEAN, queued : BOOLEAN, pend : {0, 1},
          id : {NoId} \cup AttemptId, group : Nat, count : Nat,
          unresolved : BOOLEAN, cancel : {"none", "id", "in_flight"},
          reserved : BOOLEAN, qty : Nat]

Orders == [id : AttemptId, moo : BOOLEAN, qty : Nat, filled : Nat,
           st : {"open", "done", "none"},
           rec : {"WORKING", "CANCEL_PENDING", "UNKNOWN", "FILLED", "CANCELLED", "REJECTED"}]

Stages == {"startup", "load", "reduce", "command", "load again", "tick", "partial",
           "partial sold", "all", "retry", "send", "store"}

(* The operator cannot ask for a partial sell, or not before the open.       *)
PartialsOff == "RequestPartialSell" \notin UiCommands
NoPartialAtTheOpen == StartsOpen \/ PartialsOff

(* A card that demands a full exit says so; one that has the identity of a   *)
(* full exit too, unless the operator may act between a plan and its command. *)
Demanding(c) ==
    /\ c.status = "SELL_ALL" => c.exitAll
    /\ ~UiDuringPass /\ c.id # NoId /\ c.id[3] = "MANUAL_EXIT" => c.exitAll

(* A card nobody has asked to be sold as a whole.                            *)
Unasked(c) ==
    /\ ~c.exitAll /\ c.status # "SELL_ALL"
    /\ c.id # NoId => c.id[3] = "PARTIAL_EXIT"
    /\ PartialsOff => c.status # "PARTIAL_SELL"

(* What a copy of the card may say when h shares are held and asked is the   *)
(* history of the demands.                                                   *)
Fits(c, h, asked) ==
    /\ c \in Cards /\ Demanding(c)
    /\ c.status = "CLOSED" => h = 0
    /\ NoPartialAtTheOpen /\ ~asked => Unasked(c)

(* What works at the broker is open in the ledger and covered by the shares, *)
(* and at most one order is open.                                            *)
OrdersFit(os, h) ==
    /\ os \in Seq(Orders)
    /\ \A i \in DOMAIN os : Live(os[i]) =>
          OpenRec(os[i]) /\ os[i].filled < os[i].qty /\ os[i].qty - os[i].filled <= h
    /\ \A i, j \in DOMAIN os : OpenRec(os[i]) /\ OpenRec(os[j]) => i = j

NoneOpen(os) == \A i \in DOMAIN os : ~OpenRec(os[i])
OnlyPartials(os) == \A i \in DOMAIN os : ~os[i].moo /\ os[i].id[3] = "PARTIAL_EXIT"

CardsFit == Fits(row, held, cause) /\ Fits(cache, held, cause)

(* Stages and locals of the worker and of the operator.                      *)
ControlTypes ==
    /\ current \subseteq {"worker", "ui"} /\ at \in Stages
    /\ lot \in [qty : Nat, by : {"none", "pass", "partial", "retry"}]
    /\ plan \in {"none", "sell", "cancel"} /\ seen \in 0 .. (Shares + 1)
    /\ held \in 0 .. Shares /\ open \in BOOLEAN
    /\ ui \in UiCommands \cup {Idle} /\ cause \in BOOLEAN
    /\ left \in [commands : Nat, stops : Nat, rejects : Nat, unknown : Nat,
                 crashes : Nat, gaps : Nat]

(* A submission under way has an identity, a size and a sender.              *)
LotReady == at = "send" => cache.id # NoId /\ lot.by # "none" /\ lot.qty >= 1

(* A SELL is on its way, or the pass is about to send one.                   *)
Selling == at = "send" \/ (at = "command" /\ plan = "sell")
SellsAlone == Selling => NoneOpen(ords)

(* What the pass has seen was there, and can only have become less.          *)
SeenBefore ==
    /\ seen # Missing => held <= seen
    /\ at = "command" /\ plan = "sell" => seen \in 1 .. Shares

(* Nobody has asked: no plan, and no orders but partial sells in the session. *)
NothingAsked ==
    /\ StartsOpen => open
    /\ NoPartialAtTheOpen /\ ~cause =>
          /\ plan = "none" /\ OnlyPartials(ords)
          /\ PartialsOff => ords = <<>> /\ at # "send"

(* The operator's command still fits the row it has looked at.               *)
AskedOfRow ==
    "ui" \in current =>
       /\ ui = "CancelQueuedSellAll" => row.id = NoId
       /\ ui = "RequestPartialSell" => row.status # "SELL_ALL" \/ row.id = NoId

(* The identity the worker is about to use is the row's.                     *)
SameId == at \in {"tick", "partial", "send"} => cache.id = NoId \/ row.id = cache.id

(* The pass sells what the row demands.                                      *)
PlanDemanded == ~UiDuringPass /\ at = "command" /\ plan = "sell" => row.exitAll

Control == /\ ControlTypes /\ LotReady /\ SellsAlone /\ SeenBefore
           /\ NothingAsked /\ AskedOfRow /\ SameId /\ PlanDemanded

ExitInv == CardsFit /\ OrdersFit(ords, held) /\ Control

-----------------------------------------------------------------------------
(* Cards.                                                                    *)

(* An edit that leaves column, demand and identity, or drops the identity.   *)
Bookkeeping(c, n) ==
    n \in Cards /\ n.status = c.status /\ n.exitAll = c.exitAll /\ n.id \in {c.id, NoId}

LEMMA BookkeepingFits ==
    ASSUME NEW c, NEW n, NEW h, NEW k, Fits(c, h, k), Bookkeeping(c, n)
    PROVE  Fits(n, h, k)
  BY DEF Fits, Bookkeeping, Demanding, Unasked

LEMMA BookkeepingTwice ==
    ASSUME NEW c, NEW n, NEW m, Bookkeeping(c, n), Bookkeeping(n, m)
    PROVE  Bookkeeping(c, m)
  BY DEF Bookkeeping

(* Fewer shares, or a demand more.                                           *)
LEMMA StillFits ==
    ASSUME NEW c, NEW h, NEW k, NEW g, NEW j, Fits(c, h, k), h = 0 => g = 0, k => j,
           j \in BOOLEAN, k \in BOOLEAN
    PROVE  Fits(c, g, j)
  BY DEF Fits

LEMMA ConsumeFits ==
    ASSUME NEW c \in Cards
    PROVE  /\ Bookkeeping(c, _consume_exit_attempt(c))
           /\ _consume_exit_attempt(c).id = c.id
  <1>1. c.id # NoId => c.id[2] \in Nat
    BY DEF Cards, AttemptId
  <1> QED BY <1>1 DEF Bookkeeping, _consume_exit_attempt, Cards

LEMMA BackOffFits ==
    ASSUME NEW c \in Cards
    PROVE  Bookkeeping(c, _back_off_exit_retry(c)) /\ _back_off_exit_retry(c).id = NoId
  <1> DEFINE d == _consume_exit_attempt(c)
  <1>1. Bookkeeping(c, d)
    BY ConsumeFits
  <1> HIDE DEF d
  <1>2. _back_off_exit_retry(c) = [d EXCEPT !.id = NoId, !.unresolved = FALSE]
    BY DEF _back_off_exit_retry, d
  <1> QED BY <1>1, <1>2 DEF Bookkeeping, Cards

LEMMA RetireFits ==
    ASSUME NEW c \in Cards
    PROVE  /\ Bookkeeping(c, _retire_terminal_exit_attempt(c))
           /\ _retire_terminal_exit_attempt(c).id = NoId
  <1> DEFINE d == _back_off_exit_retry(c)
  <1>1. Bookkeeping(c, d) /\ d.id = NoId
    BY BackOffFits
  <1> HIDE DEF d
  <1>2. _retire_terminal_exit_attempt(c) =
          IF c.id = NoId THEN [c EXCEPT !.cancel = "none"] ELSE [d EXCEPT !.cancel = "none"]
    BY DEF _retire_terminal_exit_attempt, d
  <1> QED BY <1>1, <1>2 DEF Bookkeeping, Cards

LEMMA ClearFits ==
    ASSUME NEW c \in Cards, NEW retire \in BOOLEAN
    PROVE  /\ Bookkeeping(c, _clear_exit_card_tracking(c, retire))
           /\ _clear_exit_card_tracking(c, retire).id = NoId
  BY DEF Bookkeeping, Cards, _clear_exit_card_tracking

LEMMA ConfirmFlatFits ==
    ASSUME NEW c \in Cards, NEW k
    PROVE  Fits(confirm_flat(c), 0, k)
  <1> DEFINE d == _clear_exit_card_tracking(c, TRUE)
  <1>1. d \in Cards /\ d.id = NoId
    BY ClearFits DEF Bookkeeping
  <1> HIDE DEF d
  <1>2. confirm_flat(c) = [d EXCEPT !.status = "CLOSED", !.exitAll = FALSE, !.queued = FALSE, !.qty = 0]
    BY DEF confirm_flat, d
  <1> DEFINE e == [d EXCEPT !.status = "CLOSED", !.exitAll = FALSE]
  <1>3. e \in Cards /\ e.status = "CLOSED" /\ e.exitAll = FALSE /\ e.id = NoId
    BY <1>1 DEF Cards
  <1>4. confirm_flat(c) = [e EXCEPT !.queued = FALSE, !.qty = 0]
    BY <1>1, <1>2 DEF Cards
  <1> HIDE DEF e
  <1>5. /\ confirm_flat(c) \in Cards /\ confirm_flat(c).status = "CLOSED"
        /\ confirm_flat(c).exitAll = FALSE /\ confirm_flat(c).id = NoId
    <2> DEFINE f == [e EXCEPT !.queued = FALSE, !.qty = 0]
    <2>1. f \in Cards
      BY <1>3 DEF Cards
    <2>2. f.status = e.status /\ f.exitAll = e.exitAll /\ f.id = e.id
      BY <1>3 DEF Cards
    <2> QED BY <1>3, <1>4, <2>1, <2>2
  <1> QED BY <1>5 DEF Fits, Demanding, Unasked

LEMMA PartialDoneFits ==
    ASSUME NEW c, NEW h, NEW k, Fits(c, h, k), NEW n \in Nat
    PROVE  Fits(_complete_partial_exit(c, n), h, k)
  <1> DEFINE d == _clear_exit_card_tracking(c, TRUE)
             p == _complete_partial_exit(c, n)
  <1>0. c \in Cards
    BY DEF Fits
  <1>1. Bookkeeping(c, d) /\ d.id = NoId
    BY <1>0, ClearFits
  <1> HIDE DEF d
  <1>2. p = [d EXCEPT !.status = "OPEN_POSITION", !.pend = 0, !.qty = n]
    BY DEF _complete_partial_exit, d
  <1>3. p \in Cards /\ p.status = "OPEN_POSITION" /\ p.exitAll = c.exitAll /\ p.id = NoId
    BY <1>1, <1>2 DEF Cards, Bookkeeping
  <1> HIDE DEF p
  <1>4. Fits(p, h, k)
    BY <1>3 DEF Fits, Demanding, Unasked
  <1> QED BY <1>4 DEF p

LEMMA SellAllFits ==
    ASSUME NEW c \in Cards, NEW h, NEW k, NoPartialAtTheOpen => k
    PROVE  Fits(start_sell_all(c), h, k)
  <1>1. /\ start_sell_all(c) \in Cards /\ start_sell_all(c).status = "SELL_ALL"
        /\ start_sell_all(c).exitAll = TRUE
    BY DEF start_sell_all, Cards
  <1> QED BY <1>1 DEF Fits, Demanding

-----------------------------------------------------------------------------
(* Orders.                                                                   *)

(* One order changes without opening.                                        *)
LEMMA EditFits ==
    ASSUME NEW os, NEW h \in Nat, OrdersFit(os, h), NEW i \in DOMAIN os,
           NEW o \in Orders, NEW g \in Nat,
           OpenRec(o) => OpenRec(os[i]),
           Live(o) => OpenRec(o) /\ o.filled < o.qty /\ o.qty - o.filled <= g,
           g = h \/ OpenRec(os[i])
    PROVE  /\ OrdersFit([os EXCEPT ![i] = o], g)
           /\ NoneOpen(os) => NoneOpen([os EXCEPT ![i] = o])
           /\ DOMAIN [os EXCEPT ![i] = o] = DOMAIN os
           /\ Len([os EXCEPT ![i] = o]) = Len(os)
  <1> DEFINE n == [os EXCEPT ![i] = o]
  <1>0. os \in Seq(Orders)
    BY DEF OrdersFit
  <1>1. n \in Seq(Orders) /\ DOMAIN n = DOMAIN os /\ Len(n) = Len(os)
    BY <1>0, ExceptSeq
  <1>2. \A j \in DOMAIN n : n[j] = IF j = i THEN o ELSE os[j]
    BY <1>0
  <1> HIDE DEF n
  <1>3. ASSUME NEW j \in DOMAIN n, Live(n[j])
        PROVE  OpenRec(n[j]) /\ n[j].filled < n[j].qty /\ n[j].qty - n[j].filled <= g
    <2>1. CASE j = i
      BY <1>2, <2>1, <1>3
    <2>2. CASE j # i
      <3>1. Live(os[j]) /\ n[j] = os[j]
        BY <1>2, <2>2, <1>3
      <3>2. OpenRec(os[j]) /\ os[j].filled < os[j].qty /\ os[j].qty - os[j].filled <= h
        BY <1>1, <3>1 DEF OrdersFit
      <3>3. g = h
        BY <1>1, <2>2, <3>2 DEF OrdersFit
      <3> QED BY <3>1, <3>2, <3>3
    <2> QED BY <2>1, <2>2
  <1>4. \A j \in DOMAIN n : OpenRec(n[j]) => OpenRec(os[j])
    BY <1>2
  <1>5. \A j, k \in DOMAIN n : OpenRec(n[j]) /\ OpenRec(n[k]) => j = k
    BY <1>1, <1>4 DEF OrdersFit
  <1>6. OrdersFit(n, g)
    BY <1>1, <1>3, <1>5 DEF OrdersFit
  <1>7. NoneOpen(os) => NoneOpen(n)
    BY <1>1, <1>4 DEF NoneOpen
  <1> QED BY <1>1, <1>6, <1>7 DEF n

(* A new order, when none is open.                                           *)
LEMMA AppendFits ==
    ASSUME NEW os, NEW h \in Nat, OrdersFit(os, h), NoneOpen(os), NEW o \in Orders,
           Live(o) => OpenRec(o) /\ o.filled < o.qty /\ o.qty - o.filled <= h
    PROVE  OrdersFit(Append(os, o), h)
  <1> DEFINE n == Append(os, o)
  <1>0. os \in Seq(Orders)
    BY DEF OrdersFit
  <1>1. /\ n \in Seq(Orders) /\ Len(n) = Len(os) + 1 /\ Len(os) \in Nat
        /\ DOMAIN n = 1 .. (Len(os) + 1) /\ DOMAIN os = 1 .. Len(os)
        /\ \A j \in 1 .. Len(os) : n[j] = os[j]
        /\ n[Len(os) + 1] = o
    BY <1>0, AppendProperties
  <1> HIDE DEF n
  <1>2. \A j \in DOMAIN n : j # Len(os) + 1 => j \in DOMAIN os /\ n[j] = os[j] /\ ~OpenRec(n[j])
    BY <1>1 DEF NoneOpen
  <1>3. \A j, k \in DOMAIN n : OpenRec(n[j]) /\ OpenRec(n[k]) => j = k
    BY <1>2
  <1>4. ASSUME NEW j \in DOMAIN n, Live(n[j])
        PROVE  OpenRec(n[j]) /\ n[j].filled < n[j].qty /\ n[j].qty - n[j].filled <= h
    <2>1. CASE j = Len(os) + 1
      BY <1>1, <1>4, <2>1
    <2>2. CASE j # Len(os) + 1
      BY <1>2, <1>4, <2>2 DEF OrdersFit
    <2> QED BY <2>1, <2>2
  <1>5. OrdersFit(n, h)
    BY <1>1, <1>3, <1>4 DEF OrdersFit
  <1> QED BY <1>5 DEF n

LEMMA ReportedType ==
    ASSUME NEW o \in Orders
    PROVE  /\ Reported(o) \in Orders
           /\ OpenRec(Reported(o)) => OpenRec(o)
           /\ Live(Reported(o)) => Reported(o) = o
           /\ Reported(o).moo = o.moo /\ Reported(o).id = o.id
  BY DEF Reported, Orders, OpenRec, Live

(* The ledger takes over what the broker reports.                            *)
LEMMA ReportFits ==
    ASSUME NEW os, NEW h \in Nat, OrdersFit(os, h)
    PROVE  LET n == [i \in DOMAIN os |-> Reported(os[i])]
           IN  OrdersFit(n, h) /\ (OnlyPartials(os) => OnlyPartials(n)) /\ (os = <<>> => n = <<>>)
  <1> DEFINE n == [i \in DOMAIN os |-> Reported(os[i])]
  <1>0. os \in Seq(Orders) /\ DOMAIN os = 1 .. Len(os) /\ Len(os) \in Nat
    BY DEF OrdersFit
  <1>1. \A i \in DOMAIN os : os[i] \in Orders
    BY <1>0
  <1>2. \A i \in DOMAIN os : /\ n[i] \in Orders /\ (OpenRec(n[i]) => OpenRec(os[i]))
                             /\ Live(n[i]) => n[i] = os[i]
                             /\ n[i].moo = os[i].moo /\ n[i].id = os[i].id
    BY <1>1, ReportedType
  <1>3. n \in Seq(Orders) /\ DOMAIN n = DOMAIN os
    <2>1. \A i \in 1 .. Len(os) : n[i] \in Orders
      BY <1>0, <1>2
    <2>2. n = [i \in 1 .. Len(os) |-> n[i]]
      BY <1>0
    <2> HIDE DEF n
    <2>3. n \in Seq(Orders)
      BY <1>0, <2>1, <2>2, IsASeq
    <2>4. DOMAIN n = DOMAIN os
      BY <1>0, <2>2
    <2> QED BY <2>3, <2>4
  <1>4. os = <<>> => n = <<>>
    <2> HAVE os = <<>>
    <2>1. DOMAIN os = {}
      OBVIOUS
    <2>2. DOMAIN n = {} /\ n \in Seq(Orders)
      BY <1>3, <2>1
    <2> HIDE DEF n
    <2> QED BY <2>2
  <1> HIDE DEF n
  <1>5. OrdersFit(n, h)
    <2>1. \A i \in DOMAIN n : Live(n[i]) =>
             OpenRec(n[i]) /\ n[i].filled < n[i].qty /\ n[i].qty - n[i].filled <= h
      BY <1>2, <1>3 DEF OrdersFit
    <2>2. \A i, j \in DOMAIN n : OpenRec(n[i]) /\ OpenRec(n[j]) => i = j
      BY <1>2, <1>3 DEF OrdersFit
    <2> QED BY <1>3, <2>1, <2>2 DEF OrdersFit
  <1>6. OnlyPartials(os) => OnlyPartials(n)
    BY <1>2, <1>3 DEF OnlyPartials
  <1> QED BY <1>4, <1>5, <1>6 DEF n

(* find_open_sell_order finds the open order, if there is one.               *)
LEMMA FindOpen ==
    ASSUME NEW h, OrdersFit(ords, h)
    PROVE  IF find_open_sell_order = 0 THEN NoneOpen(ords)
           ELSE find_open_sell_order \in DOMAIN ords /\ OpenRec(ords[find_open_sell_order])
  <1> DEFINE found == {i \in DOMAIN ords : OpenRec(ords[i])}
  <1>0. DOMAIN ords \subseteq Nat \ {0}
    BY DEF OrdersFit
  <1>1. CASE found = {}
    <2>1. find_open_sell_order = 0
      BY <1>1 DEF find_open_sell_order
    <2> QED BY <1>1, <2>1 DEF NoneOpen
  <1>2. CASE found # {}
    <2>1. PICK i \in found : TRUE
      BY <1>2
    <2>2. \A j \in found : i <= j
      <3>1. \A j \in found : j = i /\ i \in Nat
        BY <1>0, <2>1 DEF OrdersFit
      <3> QED BY <3>1
    <2>3. find_open_sell_order = CHOOSE k \in found : \A j \in found : k <= j
      BY <1>2 DEF find_open_sell_order
    <2>4. find_open_sell_order \in found
      BY <2>1, <2>2, <2>3
    <2>5. find_open_sell_order # 0
      BY <1>0, <2>4
    <2> QED BY <2>4, <2>5
  <1> QED BY <1>1, <1>2

(* With no open order every share the broker holds can be sold.              *)
LEMMA AllOrderable ==
    ASSUME OrdersFit(ords, held), NoneOpen(ords), held \in Nat
    PROVE  refresh_orderable_quantity = held
  <1>1. \A i \in DOMAIN ords : ~Live(ords[i])
    BY DEF OrdersFit, NoneOpen
  <1>2. ToSell = {}
    <2>1. ASSUME NEW s \in (DOMAIN ords) \X (1 .. Shares), s[2] <= Unfilled(ords[s[1]])
          PROVE  FALSE
      <3>1. Unfilled(ords[s[1]]) = 0
        BY <1>1 DEF Unfilled
      <3>2. s[2] \in 1 .. Shares
        OBVIOUS
      <3> QED BY <2>1, <3>1, <3>2, ExitAssumption
    <2> QED BY <2>1 DEF ToSell
  <1> QED BY <1>2, FS_EmptySet DEF refresh_orderable_quantity

-----------------------------------------------------------------------------
(* The account pass.                                                         *)

(* What the pass relies on about an order it reports.                        *)
Reportable(o) ==
    /\ o \in Orders
    /\ NoPartialAtTheOpen /\ ~cause =>
          ~o.moo /\ o.id[3] = "PARTIAL_EXIT" /\ ~PartialsOff

SeenTruly == seen \in 0 .. (Shares + 1) /\ held \in Nat /\ (seen # Missing => held <= seen)

LEMMA ConsumeReportedFits ==
    ASSUME NEW c \in Cards, NEW o \in Orders
    PROVE  /\ Bookkeeping(c, _consume_exit_card_attempt(c, o))
  <1> DEFINE n == IF c.id # NoId /\ c.id[2] > o.id[2] THEN c.id[2] ELSE o.id[2]
             m == IF n > c.count THEN n ELSE c.count
  <1>1. n \in Nat /\ m \in Nat /\ o.id[1] \in Nat
    BY DEF Cards, Orders, AttemptId
  <1>2. _consume_exit_card_attempt(c, o) = [c EXCEPT !.count = m, !.group = o.id[1]]
    BY DEF _consume_exit_card_attempt, Cards
  <1> HIDE DEF m, n
  <1> QED BY <1>1, <1>2 DEF Bookkeeping, Cards

LEMMA ProjectOpenFits ==
    ASSUME NEW c, NEW o, NEW category, Fits(c, held, cause), Reportable(o),
           category = "PARTIAL_SELL" <=> ~o.moo /\ o.id[3] = "PARTIAL_EXIT"
    PROVE  Fits(ProjectOpen(c, o, category), held, cause)
  <1> DEFINE t == [c EXCEPT !.id = o.id, !.reserved = TRUE]
  <1>0. c \in Cards /\ o.id \in AttemptId
    BY DEF Fits, Reportable, Orders
  <1>1. t \in Cards /\ t.id = o.id /\ t.exitAll = c.exitAll /\ t.status = c.status
    BY <1>0 DEF Cards
  <1>2. ProjectOpen(c, o, category) =
          IF category = "PARTIAL_SELL" THEN [t EXCEPT !.status = "PARTIAL_SELL"]
          ELSE [start_sell_all(t) EXCEPT !.queued = (category = "RESERVED_MOO_SELL")]
    BY DEF ProjectOpen
  <1> HIDE DEF t
  <1>3. CASE category = "PARTIAL_SELL"
    <2> DEFINE p == [t EXCEPT !.status = "PARTIAL_SELL"]
    <2>1. p \in Cards /\ p.id = o.id /\ p.exitAll = c.exitAll /\ p.status = "PARTIAL_SELL"
      BY <1>1 DEF Cards
    <2> HIDE DEF p
    <2>2. o.id[3] = "PARTIAL_EXIT"
      BY <1>3
    <2>3. NoPartialAtTheOpen /\ ~cause => Unasked(p)
      BY <2>1, <2>2 DEF Unasked, Fits, Reportable
    <2>4. Demanding(p)
      BY <2>1, <2>2 DEF Demanding
    <2>5. Fits(p, held, cause)
      BY <2>1, <2>3, <2>4 DEF Fits
    <2> QED BY <1>2, <1>3, <2>5 DEF p
  <1>4. CASE category # "PARTIAL_SELL"
    <2> DEFINE d == start_sell_all(t)
               q == [d EXCEPT !.queued = (category = "RESERVED_MOO_SELL")]
    <2>1. NoPartialAtTheOpen => cause
      BY <1>4 DEF Reportable
    <2>2. Fits(d, held, cause)
      BY <1>1, <2>1, SellAllFits
    <2> HIDE DEF d
    <2>3. Bookkeeping(d, q)
      BY <2>2 DEF Bookkeeping, Fits, Cards
    <2> QED BY <1>2, <1>4, <2>2, <2>3, BookkeepingFits DEF d
  <1> QED BY <1>3, <1>4

LEMMA ProjectTerminalFits ==
    ASSUME NEW c, NEW category, Fits(c, held, cause), SeenTruly,
           NoPartialAtTheOpen /\ ~cause => category = "PARTIAL_SELL"
    PROVE  Fits(ProjectTerminal(c, category), held, cause)
  <1>0. c \in Cards
    BY DEF Fits
  <1>1. CASE seen = Missing
    <2>1. Bookkeeping(c, [c EXCEPT !.unresolved = TRUE])
      BY <1>0 DEF Bookkeeping, Cards
    <2> QED BY <1>1, <2>1, BookkeepingFits DEF ProjectTerminal
  <1>2. CASE seen = 0 /\ seen # Missing
    <2>1. held = 0
      BY <1>2 DEF SeenTruly
    <2>2. [c EXCEPT !.pend = 0] \in Cards
      BY <1>0 DEF Cards
    <2>3. Fits(confirm_flat(c), held, cause) /\ Fits(confirm_flat([c EXCEPT !.pend = 0]), held, cause)
      BY <1>0, <2>1, <2>2, ConfirmFlatFits
    <2> QED BY <1>2, <2>3 DEF ProjectTerminal
  <1>3. CASE seen # 0 /\ seen # Missing /\ category = "PARTIAL_SELL"
    <2>1. seen \in Nat
      BY ExitAssumption DEF SeenTruly
    <2> QED BY <1>3, <2>1, PartialDoneFits DEF ProjectTerminal
  <1>4. CASE seen # 0 /\ seen # Missing /\ category # "PARTIAL_SELL"
    <2> DEFINE d == start_sell_all(_clear_exit_card_tracking(c, FALSE))
               q == [d EXCEPT !.queued = FALSE, !.qty = seen]
    <2>1. Fits(d, held, cause)
      <3>1. _clear_exit_card_tracking(c, FALSE) \in Cards
        BY <1>0, ClearFits DEF Bookkeeping
      <3> QED BY <1>4, <3>1, SellAllFits
    <2> HIDE DEF d
    <2>2. seen \in Nat
      BY ExitAssumption DEF SeenTruly
    <2>3. Bookkeeping(d, q)
      BY <2>1, <2>2 DEF Bookkeeping, Fits, Cards
    <2>4. ProjectTerminal(c, category) = q
      BY <1>4 DEF ProjectTerminal, d
    <2> QED BY <2>1, <2>3, <2>4, BookkeepingFits
  <1> QED BY <1>1, <1>2, <1>3, <1>4

LEMMA ProjectFits ==
    ASSUME NEW c, NEW o, Fits(c, held, cause), Reportable(o), SeenTruly
    PROVE  Fits(_project_exact_order_to_card(c, o), held, cause)
  <1> DEFINE t == _consume_exit_card_attempt(c, o)
             category == Category(o, row.status)
  <1>0. c \in Cards /\ o \in Orders
    BY DEF Fits, Reportable
  <1>1. Fits(t, held, cause)
    BY <1>0, ConsumeReportedFits, BookkeepingFits
  <1>2. category = "PARTIAL_SELL" <=> ~o.moo /\ o.id[3] = "PARTIAL_EXIT"
    BY DEF Category
  <1>3. NoPartialAtTheOpen /\ ~cause => category = "PARTIAL_SELL"
    BY <1>2 DEF Reportable
  <1>4. _project_exact_order_to_card(c, o) \in
          {c, t, ProjectOpen(t, o, category), ProjectTerminal(t, category)}
    BY DEF _project_exact_order_to_card
  <1> HIDE DEF t, category
  <1> QED BY <1>1, <1>2, <1>3, <1>4, ProjectOpenFits, ProjectTerminalFits

LEMMA HoldingFits ==
    ASSUME NEW c, Fits(c, held, cause), SeenTruly
    PROVE  Fits(ProjectHolding(c), held, cause)
  <1>0. c \in Cards
    BY DEF Fits
  <1>1. CASE seen = Missing
    BY <1>1 DEF ProjectHolding
  <1>2. ASSUME NEW n \in Nat
        PROVE  Fits([c EXCEPT !.qty = n], held, cause)
    <2>1. Bookkeeping(c, [c EXCEPT !.qty = n])
      BY <1>0 DEF Bookkeeping, Cards
    <2> QED BY <2>1, BookkeepingFits
  <1>3. CASE seen # Missing /\ seen = 0
    <2>1. held = 0
      BY <1>3 DEF SeenTruly
    <2>2. Fits(confirm_flat(c), held, cause)
      BY <1>0, <2>1, ConfirmFlatFits
    <2> QED BY <1>2, <1>3, <2>2 DEF ProjectHolding
  <1>4. CASE seen # Missing /\ seen # 0
    <2>1. seen \in Nat
      BY ExitAssumption DEF SeenTruly
    <2> QED BY <1>2, <1>4, <2>1 DEF ProjectHolding
  <1> QED BY <1>1, <1>3, <1>4

(* Every set of numbers has a smallest one.                                  *)
LEMMA Smallest ==
    ASSUME NEW T, T \subseteq Nat, T # {}
    PROVE  \E x \in T : \A y \in T : x <= y
  <1> DEFINE R == OpToRel(<, Nat)
  <1>1. IsWellFoundedOn(R, Nat)
    BY Zenon, NatLessThanWellFounded
  <1>2. \A x, y \in Nat : <<y, x>> \in R <=> y < x
    BY DEF OpToRel
  <1> HIDE DEF R
  <1>3. PICK x \in T : \A y \in T : ~ (<<y, x>> \in R)
    BY <1>1, WFMin
  <1>4. \A y \in T : x <= y
    <2> TAKE y \in T
    <2>1. x \in Nat /\ y \in Nat /\ ~(y < x)
      BY <1>2, <1>3
    <2> QED BY <2>1
  <1> QED BY <1>4

(* f is the card after each of the first n orders of seq.                    *)
Steps(f, seq, n) ==
    f = [i \in 0 .. n |-> IF i = 0 THEN row ELSE _project_exact_order_to_card(f[i - 1], seq[i])]

(* The pass over the orders ends.                                            *)
LEMMA StepsExist ==
    ASSUME NEW seq, NEW n \in Nat
    PROVE  \E f : Steps(f, seq, n)
  <1> DEFINE T == {k \in Nat : ~\E f : Steps(f, seq, k)}
  <1> SUFFICES ASSUME T # {} PROVE FALSE
    OBVIOUS
  <1>1. PICK k \in T : \A j \in T : k <= j
    BY Smallest
  <1>2. CASE k = 0
    <2>1. Steps([i \in 0 .. 0 |-> row], seq, 0)
      BY DEF Steps
    <2> QED BY <1>1, <1>2, <2>1
  <1>3. CASE k # 0
    <2>1. k - 1 \in Nat /\ k - 1 \notin T /\ k \in Nat
      BY <1>1, <1>3
    <2>2. PICK f : Steps(f, seq, k - 1)
      BY <2>1
    <2> DEFINE g == [i \in 0 .. k |-> IF i = k THEN _project_exact_order_to_card(f[k - 1], seq[k])
                                     ELSE f[i]]
    <2>3. \A i \in 0 .. (k - 1) : g[i] = f[i] /\ f[i] =
             IF i = 0 THEN row ELSE _project_exact_order_to_card(f[i - 1], seq[i])
      BY <2>1, <2>2 DEF Steps
    <2>4. ASSUME NEW i \in 0 .. k
          PROVE  g[i] = IF i = 0 THEN row ELSE _project_exact_order_to_card(g[i - 1], seq[i])
      <3>1. CASE i = k
        <4>1. k - 1 \in 0 .. (k - 1) /\ g[k] = _project_exact_order_to_card(f[k - 1], seq[k])
          BY <2>1
        <4> QED BY <1>3, <2>3, <3>1, <4>1
      <3>2. CASE i # k
        <4>1. i \in 0 .. (k - 1) /\ (i # 0 => i - 1 \in 0 .. (k - 1))
          BY <2>1, <3>2
        <4> HIDE DEF g
        <4> QED BY <2>3, <4>1
      <3> QED BY <3>1, <3>2
    <2>5. g = [i \in 0 .. k |-> g[i]]
      OBVIOUS
    <2> HIDE DEF g
    <2>6. Steps(g, seq, k)
      BY <2>4, <2>5 DEF Steps
    <2> QED BY <1>1, <2>6
  <1> QED BY <1>2, <1>3

(* The orders of a pass, each projected on what the last has left.           *)
LEMMA ProjectedFits ==
    ASSUME NEW seq, Len(seq) \in Nat, \A i \in 1 .. Len(seq) : Reportable(seq[i]),
           Fits(row, held, cause), SeenTruly
    PROVE  Fits(Projected(seq), held, cause)
  <1> DEFINE f == CHOOSE f : Steps(f, seq, Len(seq))
  <1>1. Steps(f, seq, Len(seq))
    BY StepsExist
  <1>2. Projected(seq) = f[Len(seq)]
    BY DEF Projected, Steps
  <1> HIDE DEF f
  <1>3. \A i \in 0 .. Len(seq) :
            f[i] = IF i = 0 THEN row ELSE _project_exact_order_to_card(f[i - 1], seq[i])
    BY <1>1 DEF Steps
  <1> DEFINE T == {i \in 0 .. Len(seq) : ~Fits(f[i], held, cause)}
  <1>4. ASSUME T # {} PROVE FALSE
    <2>0. T \subseteq Nat
      OBVIOUS
    <2>1. PICK k \in T : \A j \in T : k <= j
      <3> HIDE DEF T
      <3> QED BY <1>4, <2>0, Smallest
    <2>2. k \in 0 .. Len(seq) /\ ~Fits(f[k], held, cause)
      BY <2>1
    <2>3. k # 0
      BY <1>3, <2>2
    <2>4. k - 1 \in 0 .. Len(seq) /\ k - 1 \notin T /\ k \in 1 .. Len(seq)
      BY <2>1, <2>2, <2>3
    <2>5. Fits(f[k - 1], held, cause)
      BY <2>4
    <2>6. f[k] = _project_exact_order_to_card(f[k - 1], seq[k])
      BY <1>3, <2>2, <2>3
    <2> QED BY <2>2, <2>4, <2>5, <2>6, ProjectFits
  <1>5. Len(seq) \in 0 .. Len(seq)
    OBVIOUS
  <1> QED BY <1>2, <1>4, <1>5

-----------------------------------------------------------------------------
(* The invariant, action by action: first the broker and the operator.       *)

LEMMA InitInv ==
    ASSUME Init PROVE ExitInv
  <1>1. Card \in Cards
    BY ExitAssumption DEF Card, Cards
  <1>2. Fits(Card, Shares, FALSE)
    <2>1. Card.status = "OPEN_POSITION" /\ Card.exitAll = FALSE /\ Card.id = NoId
      BY DEF Card
    <2> QED BY <1>1, <2>1 DEF Fits, Demanding, Unasked
  <1>3. CardsFit
    BY <1>2 DEF Init, CardsFit
  <1>4. OrdersFit(ords, held)
    BY DEF Init, OrdersFit
  <1>5. ControlTypes
    <2>1. left \in [commands : Nat, stops : Nat, rejects : Nat, unknown : Nat,
                    crashes : Nat, gaps : Nat]
      BY ExitAssumption DEF Init
    <2>2. lot \in [qty : Nat, by : {"none", "pass", "partial", "retry"}]
      BY DEF Init, NoLot
    <2>3. seen \in 0 .. (Shares + 1) /\ held \in 0 .. Shares
      BY ExitAssumption DEF Init
    <2> QED BY <2>1, <2>2, <2>3, ExitAssumption DEF Init, ControlTypes, Stages, Idle
  <1>6. /\ LotReady /\ SellsAlone /\ SeenBefore /\ NothingAsked
        /\ AskedOfRow /\ SameId /\ PlanDemanded
    BY ExitAssumption DEF Init, LotReady, SellsAlone, Selling, SeenBefore, NothingAsked,
       AskedOfRow, SameId, PlanDemanded, OnlyPartials, Missing
  <1> QED BY <1>3, <1>4, <1>5, <1>6 DEF ExitInv, Control

LEMMA SessionOpensInv ==
    ASSUME ExitInv, SessionOpens PROVE ExitInv'
  <1> USE DEF SessionOpens, worker
  <1>1. CardsFit' /\ OrdersFit(ords, held)'
    BY DEF ExitInv, CardsFit
  <1>2. ControlTypes'
    BY DEF ExitInv, Control, ControlTypes
  <1>3. /\ LotReady' /\ SellsAlone' /\ SeenBefore' /\ NothingAsked'
        /\ AskedOfRow' /\ SameId' /\ PlanDemanded'
    BY DEF ExitInv, Control, LotReady, SellsAlone, Selling, SeenBefore, NothingAsked,
       AskedOfRow, SameId, PlanDemanded
  <1> QED BY <1>1, <1>2, <1>3 DEF ExitInv, Control

(* What a change of one order to o leaves as it was.                         *)
LEMMA OrderInv ==
    ASSUME ExitInv, NEW i \in DOMAIN ords, NEW o \in Orders,
           ords' = [ords EXCEPT ![i] = o], held' \in 0 .. held,
           held' = held \/ (OpenRec(ords[i]) /\ held > 0),
           OpenRec(o) => OpenRec(ords[i]),
           Live(o) => OpenRec(o) /\ o.filled < o.qty /\ o.qty - o.filled <= held',
           o.moo = ords[i].moo, o.id = ords[i].id,
           UNCHANGED <<row, cache, current, at, lot, plan, seen, open, ui, cause, left>>
    PROVE  ExitInv'
  <1>0. ControlTypes /\ held \in Nat /\ held' \in Nat
    BY DEF ExitInv, Control, ControlTypes
  <1>1. CardsFit'
    <2>1. held = 0 => held' = 0
      BY <1>0
    <2> QED BY <1>0, <2>1, StillFits DEF ExitInv, CardsFit, ControlTypes
  <1>2. OrdersFit(ords, held)' /\ (NoneOpen(ords) => NoneOpen(ords)') /\ DOMAIN ords' = DOMAIN ords
    BY <1>0, EditFits DEF ExitInv
  <1>3. OnlyPartials(ords) => OnlyPartials(ords)'
    BY <1>2 DEF OnlyPartials, ExitInv, OrdersFit
  <1>4. ords # <<>>
    OBVIOUS
  <1>5. ControlTypes'
    <2>1. held' \in 0 .. Shares
      BY <1>0, ExitAssumption DEF ControlTypes
    <2> QED BY <1>0, <2>1 DEF ControlTypes
  <1>6. SellsAlone' /\ NothingAsked'
    BY <1>2, <1>3, <1>4 DEF ExitInv, Control, SellsAlone, Selling, NothingAsked
  <1>7. LotReady' /\ SeenBefore' /\ AskedOfRow' /\ SameId' /\ PlanDemanded'
    BY <1>0 DEF ExitInv, Control, ControlTypes, LotReady, SeenBefore, AskedOfRow, SameId, PlanDemanded
  <1> QED BY <1>1, <1>2, <1>5, <1>6, <1>7 DEF ExitInv, Control

LEMMA BrokerFillsInv ==
    ASSUME ExitInv, NEW i \in DOMAIN ords, BrokerFills(i) PROVE ExitInv'
  <1> DEFINE q == ords[i]
             o == [q EXCEPT !.filled = @ + 1, !.st = IF q.filled + 1 = q.qty THEN "done" ELSE @]
  <1>0. q \in Orders /\ Live(q) /\ OpenRec(q) /\ q.filled < q.qty /\ q.qty - q.filled <= held
    BY DEF ExitInv, OrdersFit, BrokerFills
  <1>1. held \in Nat
    BY DEF ExitInv, Control, ControlTypes
  <1>2. ords' = [ords EXCEPT ![i] = o]
    BY DEF BrokerFills
  <1> HIDE DEF q
  <1>3. o \in Orders
    <2>1. ASSUME NEW st \in {"open", "done", "none"}, NEW n \in Nat
          PROVE  [q EXCEPT !.filled = n, !.st = st] \in Orders
      BY <1>0 DEF Orders
    <2>2. q.filled + 1 \in Nat
      BY <1>0 DEF Orders
    <2>3. (IF q.filled + 1 = q.qty THEN "done" ELSE q.st) \in {"open", "done", "none"}
      BY <1>0 DEF Orders
    <2> QED BY <2>1, <2>2, <2>3
  <1>4. /\ o.filled = q.filled + 1 /\ o.qty = q.qty /\ o.rec = q.rec /\ o.moo = q.moo
        /\ o.id = q.id /\ (Live(o) => o.filled # o.qty)
    BY <1>0 DEF Orders, Live
  <1>5. q.filled \in Nat /\ q.qty \in Nat
    BY <1>0 DEF Orders
  <1> HIDE DEF o
  <1>6. held > 0 /\ held' = held - 1
    BY <1>0, <1>1, <1>5 DEF BrokerFills
  <1>7. Live(o) => OpenRec(o) /\ o.filled < o.qty /\ o.qty - o.filled <= held'
    BY <1>0, <1>1, <1>4, <1>5, <1>6 DEF OpenRec
  <1>8. OpenRec(o) => OpenRec(q)
    BY <1>4 DEF OpenRec
  <1>9. held' \in 0 .. held
    BY <1>1, <1>6
  <1>10. UNCHANGED <<row, cache, current, at, lot, plan, seen, open, ui, cause, left>>
    BY DEF BrokerFills, worker
  <1> QED
    BY <1>0, <1>2, <1>3, <1>4, <1>6, <1>7, <1>8, <1>9, <1>10, OrderInv DEF q

LEMMA BrokerCancelsInv ==
    ASSUME ExitInv, NEW i \in DOMAIN ords, BrokerCancels(i) PROVE ExitInv'
  <1> DEFINE o == [ords[i] EXCEPT !.st = "done"]
  <1>0. ords[i] \in Orders /\ held \in Nat
    BY DEF ExitInv, OrdersFit, Control, ControlTypes
  <1>1. /\ o \in Orders /\ ~Live(o) /\ (OpenRec(o) => OpenRec(ords[i]))
        /\ o.moo = ords[i].moo /\ o.id = ords[i].id
    BY <1>0 DEF Orders, Live, OpenRec
  <1>2. ords' = [ords EXCEPT ![i] = o]
    BY DEF BrokerCancels
  <1> HIDE DEF o
  <1>3. held' = held /\ held' \in 0 .. held
    BY <1>0 DEF BrokerCancels, broker
  <1>4. UNCHANGED <<row, cache, current, at, lot, plan, seen, open, ui, cause, left>>
    BY DEF BrokerCancels, worker, broker
  <1>5. Live(o) => OpenRec(o) /\ o.filled < o.qty /\ o.qty - o.filled <= held'
    BY <1>1
  <1>6. held' = held \/ (OpenRec(ords[i]) /\ held > 0)
    BY <1>3
  <1>7. /\ o \in Orders /\ (OpenRec(o) => OpenRec(ords[i]))
        /\ o.moo = ords[i].moo /\ o.id = ords[i].id /\ held' \in 0 .. held
    BY <1>1, <1>3
  <1> QED BY <1>2, <1>4, <1>5, <1>6, <1>7, OrderInv

LEMMA LessType ==
    ASSUME ControlTypes, NEW b \in {"commands", "stops", "rejects", "unknown", "crashes", "gaps"},
           Less(b)
    PROVE  left' \in [commands : Nat, stops : Nat, rejects : Nat, unknown : Nat,
                      crashes : Nat, gaps : Nat]
  BY DEF Less, ControlTypes

LEMMA UiAsksInv ==
    ASSUME ExitInv, NEW cmd \in UiCommands, UiAsks(cmd) PROVE ExitInv'
  <1>0. ControlTypes /\ left' \in [commands : Nat, stops : Nat, rejects : Nat, unknown : Nat,
                                  crashes : Nat, gaps : Nat]
    BY LessType DEF ExitInv, Control, UiAsks
  <1> USE DEF UiAsks, worker, broker
  <1>1. CardsFit' /\ OrdersFit(ords, held)'
    BY DEF ExitInv, CardsFit
  <1>2. ControlTypes'
    BY <1>0 DEF ControlTypes
  <1>3. AskedOfRow'
    BY DEF _require_board_action_not_conflicted, AskedOfRow
  <1>4. /\ LotReady' /\ SellsAlone' /\ SeenBefore' /\ NothingAsked' /\ SameId' /\ PlanDemanded'
    BY DEF ExitInv, Control, LotReady, SellsAlone, Selling, SeenBefore, NothingAsked,
       SameId, PlanDemanded
  <1> QED BY <1>1, <1>2, <1>3, <1>4 DEF ExitInv, Control

(* What the operator writes fits, whatever was asked: a demand leaves its    *)
(* cause, a withdrawal takes the demand with it, the identity stays.         *)
LEMMA MutationFits ==
    ASSUME NEW c, NEW h, NEW k \in BOOLEAN, Fits(c, h, k), NEW cmd \in UiCommands,
           cmd = "CancelQueuedSellAll" => c.id = NoId,
           cmd = "RequestPartialSell" => c.status # "SELL_ALL" \/ c.id = NoId
    PROVE  LET n == _apply_board_mutation(cmd, c)
           IN  /\ Fits(n, h, k \/ (n.exitAll /\ ~c.exitAll))
               /\ n.id = c.id
  <1> DEFINE n == _apply_board_mutation(cmd, c)
             j == k \/ (n.exitAll /\ ~c.exitAll)
             d == _clear_exit_card_tracking(c, TRUE)
  <1>0. c \in Cards /\ c.exitAll \in BOOLEAN
    BY DEF Fits, Cards
  <1>a. d \in Cards /\ d.status = c.status /\ d.exitAll = c.exitAll /\ d.id = NoId
    BY <1>0, ClearFits DEF Bookkeeping
  <1> HIDE DEF d
  <1>b. NoPartialAtTheOpen /\ c.exitAll => k
    BY DEF Fits, Unasked
  <1>1. CASE cmd = "RequestPartialSell"
    <2>0. ~PartialsOff
      BY <1>1 DEF PartialsOff
    <2>1. CASE c.qty = 1
      <3>1. n = [c EXCEPT !.status = "SELL_ALL", !.exitAll = TRUE, !.pend = 0]
        BY <1>1, <2>1 DEF _apply_board_mutation
      <3>2. n \in Cards /\ n.status = "SELL_ALL" /\ n.exitAll = TRUE /\ n.id = c.id
        BY <1>0, <3>1 DEF Cards
      <3>3. NoPartialAtTheOpen => j
        BY <1>0, <1>b, <3>2
      <3> HIDE DEF n, j
      <3>4. Fits(n, h, j)
        BY <3>2, <3>3 DEF Fits, Demanding
      <3> QED BY <3>2, <3>4 DEF n, j
    <2>2. CASE c.qty # 1 /\ c.status = "SELL_ALL"
      <3> DEFINE e == [d EXCEPT !.status = "PARTIAL_SELL", !.exitAll = FALSE]
      <3>1. n = [d EXCEPT !.status = "PARTIAL_SELL", !.exitAll = FALSE, !.queued = FALSE, !.pend = 1]
        BY <1>1, <2>2 DEF _apply_board_mutation, d
      <3>2. e \in Cards /\ e.status = "PARTIAL_SELL" /\ e.exitAll = FALSE /\ e.id = NoId
        BY <1>a DEF Cards
      <3>3. n = [e EXCEPT !.queued = FALSE, !.pend = 1]
        BY <1>a, <3>1 DEF Cards
      <3> HIDE DEF e
      <3>4. n \in Cards /\ n.status = "PARTIAL_SELL" /\ n.exitAll = FALSE /\ n.id = NoId
        BY <3>2, <3>3 DEF Cards
      <3>5. n.id = c.id
        BY <1>1, <2>2, <3>4
      <3> HIDE DEF n, j
      <3>6. Fits(n, h, j)
        BY <2>0, <3>4 DEF Fits, Demanding, Unasked
      <3> QED BY <3>5, <3>6 DEF n, j
    <2>3. CASE c.qty # 1 /\ c.status # "SELL_ALL"
      <3>1. n = [c EXCEPT !.status = "PARTIAL_SELL", !.pend = 1]
        BY <1>1, <2>3 DEF _apply_board_mutation
      <3>2. n \in Cards /\ n.status = "PARTIAL_SELL" /\ n.exitAll = c.exitAll /\ n.id = c.id
        BY <1>0, <3>1 DEF Cards
      <3>3. ~j => ~k
        OBVIOUS
      <3> HIDE DEF n, j
      <3>4. Fits(n, h, j)
        BY <2>0, <3>2, <3>3 DEF Fits, Demanding, Unasked
      <3> QED BY <3>2, <3>4 DEF n, j
    <2> QED BY <2>1, <2>2, <2>3
  <1>2. CASE cmd = "CancelPartialSell"
    <2> DEFINE stays == c.id # NoId \/ c.reserved \/ find_open_sell_order # 0
    <2>1. CASE stays
      <3>1. n = [c EXCEPT !.pend = 0]
        BY <1>2, <2>1 DEF _apply_board_mutation
      <3>2. Bookkeeping(c, n) /\ n.exitAll = c.exitAll /\ n.id = c.id
        BY <1>0, <3>1 DEF Bookkeeping, Cards
      <3>3. j = k
        BY <3>2
      <3> HIDE DEF n, j
      <3> QED BY <3>2, <3>3, BookkeepingFits DEF n, j
    <2>2. CASE ~stays
      <3>1. n = [d EXCEPT !.status = "OPEN_POSITION", !.pend = 0]
        BY <1>2, <2>2 DEF _apply_board_mutation, d
      <3>2. n \in Cards /\ n.status = "OPEN_POSITION" /\ n.exitAll = c.exitAll /\ n.id = NoId
        BY <1>a, <3>1 DEF Cards
      <3>3. j = k /\ n.id = c.id
        BY <2>2, <3>2
      <3> HIDE DEF n, j
      <3>4. Fits(n, h, k)
        BY <3>2 DEF Fits, Demanding, Unasked
      <3> QED BY <3>3, <3>4 DEF n, j
    <2> QED BY <2>1, <2>2
  <1>3. CASE cmd = "RequestSellAll"
    <2> DEFINE e == start_sell_all(c)
    <2>0. e = [c EXCEPT !.exitAll = TRUE, !.status = "SELL_ALL"]
      BY DEF start_sell_all
    <2>1. e \in Cards /\ e.exitAll = TRUE /\ e.status = "SELL_ALL" /\ e.id = c.id
      BY <1>0, <2>0 DEF Cards
    <2> HIDE DEF e
    <2>2. n = [e EXCEPT !.pend = 0, !.queued = ~open]
      BY <1>3 DEF _apply_board_mutation, e
    <2>3. n \in Cards /\ n.exitAll = TRUE /\ n.status = "SELL_ALL" /\ n.id = c.id
      BY <2>1, <2>2 DEF Cards
    <2>4. NoPartialAtTheOpen => j
      BY <1>0, <1>b, <2>3
    <2> HIDE DEF n, j
    <2>5. Fits(n, h, j)
      BY <2>3, <2>4 DEF Fits, Demanding
    <2> QED BY <2>3, <2>5 DEF n, j
  <1>4. CASE cmd = "CancelQueuedSellAll"
    <2> DEFINE e == [c EXCEPT !.status = "OPEN_POSITION", !.exitAll = FALSE]
    <2>1. e \in Cards /\ e.exitAll = FALSE /\ e.status = "OPEN_POSITION" /\ e.id = NoId
      BY <1>0, <1>4 DEF Cards
    <2>2. n = [e EXCEPT !.queued = FALSE]
      BY <1>0, <1>4 DEF _apply_board_mutation, Cards
    <2> HIDE DEF e
    <2>3. n \in Cards /\ n.exitAll = FALSE /\ n.status = "OPEN_POSITION" /\ n.id = NoId
      BY <2>1, <2>2 DEF Cards
    <2> HIDE DEF n, j
    <2>4. Fits(n, h, j)
      BY <2>3 DEF Fits, Demanding, Unasked
    <2> QED BY <1>4, <2>3, <2>4 DEF n, j
  <1> QED BY <1>1, <1>2, <1>3, <1>4, ExitAssumption

LEMMA UiWritesInv ==
    ASSUME ExitInv, UiWrites PROVE ExitInv'
  <1> DEFINE n == _apply_board_mutation(ui, row)
  <1>0. ControlTypes /\ AskedOfRow /\ CardsFit /\ ui \in UiCommands /\ cause \in BOOLEAN
    BY DEF ExitInv, Control, ControlTypes, UiWrites
  <1>1. /\ "ui" \in current => row' = n /\ current' = {} /\ cause' = (cause \/ (n.exitAll /\ ~row.exitAll))
        /\ "ui" \notin current => row' = row /\ current' = current /\ cause' = cause
        /\ ui' = Idle /\ (at = "command" /\ plan # "none" => UiDuringPass)
        /\ UNCHANGED <<cache, at, lot, plan, seen, ords, held, open, left>>
    BY DEF UiWrites, Writes, Unwritten, worker, broker
  <1>2. "ui" \in current => Fits(n, held, cause \/ (n.exitAll /\ ~row.exitAll)) /\ n.id = row.id
    BY <1>0, MutationFits DEF AskedOfRow, CardsFit
  <1> HIDE DEF n
  <1>3. cause' \in BOOLEAN /\ (cause => cause')
    <2>1. "ui" \in current => n.exitAll \in BOOLEAN /\ row.exitAll \in BOOLEAN
      BY <1>0, <1>2 DEF CardsFit, Fits, Cards
    <2> QED BY <1>0, <1>1, <2>1
  <1>4. Fits(row', held', cause') /\ row'.id = row.id
    BY <1>0, <1>1, <1>2 DEF CardsFit
  <1>5. Fits(cache', held', cause')
    BY <1>0, <1>1, <1>3, StillFits DEF CardsFit
  <1>6. OrdersFit(ords, held)'
    BY <1>1 DEF ExitInv
  <1>7. ControlTypes'
    BY <1>0, <1>1, <1>3 DEF ControlTypes
  <1>8. LotReady' /\ SellsAlone' /\ SeenBefore' /\ NothingAsked'
    BY <1>1, <1>3 DEF ExitInv, Control, LotReady, SellsAlone, Selling, SeenBefore, NothingAsked
  <1>9. AskedOfRow' /\ SameId' /\ PlanDemanded'
    BY <1>0, <1>1, <1>4 DEF ExitInv, Control, AskedOfRow, SameId, PlanDemanded, Idle
  <1> QED BY <1>4, <1>5, <1>6, <1>7, <1>8, <1>9 DEF ExitInv, Control, CardsFit

-----------------------------------------------------------------------------
(* The worker.                                                               *)

(* A step of the worker that sends nothing and asks for nothing: it moves    *)
(* from a stage to a stage that is not to send, and leaves the plan or drops *)
(* it.                                                                       *)
LEMMA QuietControl ==
    ASSUME ExitInv, at' \in Stages \ {"send", "command"}, plan' \in {plan, "none"},
           current' \subseteq {"worker", "ui"},
           "ui" \in current' => "ui" \in current /\ row' = row,
           at' \in {"tick", "partial"} => cache'.id = NoId \/ row'.id = cache'.id,
           NoPartialAtTheOpen /\ ~cause' => /\ OnlyPartials(ords) => OnlyPartials(ords')
                                            /\ ords = <<>> => ords' = <<>>,
           cause' \in BOOLEAN, cause => cause',
           left' \in [commands : Nat, stops : Nat, rejects : Nat, unknown : Nat,
                      crashes : Nat, gaps : Nat],
           lot' \in [qty : Nat, by : {"none", "pass", "partial", "retry"}],
           UNCHANGED <<seen, held, open, ui>>
    PROVE  Control'
  <1>1. ControlTypes'
    BY DEF ExitInv, Control, ControlTypes
  <1>2. LotReady' /\ SellsAlone' /\ SeenBefore'
    BY DEF ExitInv, Control, LotReady, SellsAlone, Selling, SeenBefore
  <1>3. NothingAsked'
    BY DEF ExitInv, Control, NothingAsked
  <1>4. AskedOfRow' /\ SameId' /\ PlanDemanded'
    BY DEF ExitInv, Control, AskedOfRow, SameId, PlanDemanded
  <1> QED BY <1>1, <1>2, <1>3, <1>4 DEF Control

(* Loading, fetching, doing nothing.                                         *)
LEMMA LoadInv ==
    ASSUME ExitInv, Load \/ LoadAgain PROVE ExitInv'
  <1>1. /\ at' = "tick" /\ cache' = row /\ current' = current \cup {"worker"}
        /\ UNCHANGED <<row, lot, plan, seen, ords, held, open, ui, cause, left>>
    BY DEF Load, LoadAgain, Go, broker
  <1>2. CardsFit' /\ OrdersFit(ords, held)'
    BY <1>1 DEF ExitInv, CardsFit
  <1>3. ControlTypes
    BY DEF ExitInv, Control
  <1>4. Control'
    BY <1>1, <1>3, QuietControl DEF Stages, ControlTypes
  <1> QED BY <1>2, <1>4 DEF ExitInv

LEMMA FetchInv ==
    ASSUME ExitInv, Fetch \/ FetchFails PROVE ExitInv'
  <1>1. /\ at' = "reduce" /\ seen' \in {held, Missing}
        /\ UNCHANGED <<row, current, cache, lot, plan, ords, held, open, ui, cause>>
    BY DEF Fetch, FetchFails, Go, broker
  <1>2. ControlTypes
    BY DEF ExitInv, Control
  <1>3. left' \in [commands : Nat, stops : Nat, rejects : Nat, unknown : Nat,
                   crashes : Nat, gaps : Nat]
    BY <1>2, LessType DEF Fetch, FetchFails, ControlTypes
  <1>4. CardsFit' /\ OrdersFit(ords, held)'
    BY <1>1 DEF ExitInv, CardsFit
  <1>5. ControlTypes'
    <2>1. seen' \in 0 .. (Shares + 1)
      BY <1>1, <1>2, ExitAssumption DEF ControlTypes, Missing
    <2> QED BY <1>1, <1>2, <1>3, <2>1 DEF ControlTypes, Stages
  <1>6. SeenBefore'
    BY <1>1, <1>2 DEF SeenBefore, ControlTypes
  <1>7. LotReady' /\ SellsAlone' /\ NothingAsked' /\ AskedOfRow' /\ SameId' /\ PlanDemanded'
    BY <1>1 DEF ExitInv, Control, LotReady, SellsAlone, Selling, NothingAsked, AskedOfRow,
       SameId, PlanDemanded
  <1> QED BY <1>4, <1>5, <1>6, <1>7 DEF ExitInv, Control

LEMMA SkipInv ==
    ASSUME ExitInv, NoCommand \/ TickQuiet \/ PartialSkipped \/ RetrySkipped
    PROVE  ExitInv'
  <1>1. /\ at' \in {"load again", "partial", "partial sold", "store"} /\ plan' \in {plan, "none"}
        /\ at' = "partial" => at = "tick"
        /\ UNCHANGED <<row, current, cache, lot, seen, ords, held, open, ui, cause, left>>
    BY DEF NoCommand, TickQuiet, PartialSkipped, RetrySkipped, Go, broker
  <1>2. CardsFit' /\ OrdersFit(ords, held)'
    BY <1>1 DEF ExitInv, CardsFit
  <1>3. ControlTypes /\ SameId
    BY DEF ExitInv, Control
  <1>4. Control'
    BY <1>1, <1>3, QuietControl DEF Stages, ControlTypes, SameId
  <1> QED BY <1>2, <1>4 DEF ExitInv

LEMMA StoreInv ==
    ASSUME ExitInv, Store PROVE ExitInv'
  <1>1. /\ at' = "load"
        /\ (row' = cache /\ current' = {"worker"}) \/ (row' = row /\ current' = current)
        /\ UNCHANGED <<cache, lot, plan, seen, ords, held, open, ui, cause, left>>
    BY DEF Store, Go, Writes, Unwritten, broker
  <1>2. CardsFit' /\ OrdersFit(ords, held)'
    BY <1>1 DEF ExitInv, CardsFit
  <1>3. ControlTypes
    BY DEF ExitInv, Control
  <1>4. Control'
    BY <1>1, <1>3, QuietControl DEF Stages, ControlTypes
  <1> QED BY <1>2, <1>4 DEF ExitInv

LEMMA CrashInv ==
    ASSUME ExitInv, Crash PROVE ExitInv'
  <1>1. /\ at' = "startup" /\ lot' = NoLot /\ plan' = "none" /\ ui' = Idle
        /\ UNCHANGED <<row, current, cache, seen, ords, held, open, cause>>
    BY DEF Crash, broker
  <1>2. CardsFit' /\ OrdersFit(ords, held)'
    BY <1>1 DEF ExitInv, CardsFit
  <1>3. ControlTypes /\ left' \in [commands : Nat, stops : Nat, rejects : Nat, unknown : Nat,
                                  crashes : Nat, gaps : Nat]
    BY LessType DEF ExitInv, Control, Crash
  <1>4. ControlTypes'
    BY <1>1, <1>3 DEF ControlTypes, Stages, NoLot, Idle
  <1>5. /\ LotReady' /\ SellsAlone' /\ SeenBefore' /\ NothingAsked'
        /\ AskedOfRow' /\ SameId' /\ PlanDemanded'
    BY <1>1 DEF ExitInv, Control, LotReady, SellsAlone, Selling, SeenBefore, NothingAsked,
       AskedOfRow, SameId, PlanDemanded, Idle
  <1> QED BY <1>2, <1>4, <1>5 DEF ExitInv, Control

(* The account pass: what it has seen, in either order of the orders.        *)
LEMMA PassFits ==
    ASSUME ExitInv, NEW seq \in {<<>>, ords, Reverse(ords)}
    PROVE  Fits(ProjectHolding(Projected(seq)), held, cause)
  <1>1. /\ ords \in Seq(Orders) /\ Len(ords) \in Nat
        /\ \A i \in 1 .. Len(ords) : Reportable(ords[i])
    <2>1. ords \in Seq(Orders) /\ Len(ords) \in Nat /\ DOMAIN ords = 1 .. Len(ords)
      BY DEF ExitInv, OrdersFit
    <2>2. ASSUME NEW i \in 1 .. Len(ords), NoPartialAtTheOpen /\ ~cause
          PROVE  ~ords[i].moo /\ ords[i].id[3] = "PARTIAL_EXIT" /\ ~PartialsOff
      <3>1. OnlyPartials(ords) /\ (PartialsOff => ords = <<>>)
        BY <2>2 DEF ExitInv, Control, NothingAsked
      <3>2. ords # <<>>
        BY <2>1
      <3> QED BY <2>1, <3>1, <3>2 DEF OnlyPartials
    <2> QED BY <2>1, <2>2 DEF Reportable
  <1>2. Len(seq) \in Nat /\ \A i \in 1 .. Len(seq) : Reportable(seq[i])
    <2>1. CASE seq = <<>>
      BY <2>1
    <2>2. CASE seq = ords
      BY <1>1, <2>2
    <2>3. CASE seq = Reverse(ords)
      <3>1. seq = [i \in 1 .. Len(ords) |-> ords[(Len(ords) - i) + 1]]
        BY <2>3 DEF Reverse
      <3>2. Len(seq) = Len(ords)
        BY <1>1, <3>1
      <3>3. \A i \in 1 .. Len(ords) : (Len(ords) - i) + 1 \in 1 .. Len(ords)
        BY <1>1
      <3> QED BY <1>1, <3>1, <3>2, <3>3
    <2> QED BY <2>1, <2>2, <2>3
  <1>3. SeenTruly
    BY DEF SeenTruly, ExitInv, Control, ControlTypes, SeenBefore
  <1>4. Fits(row, held, cause)
    BY DEF ExitInv, CardsFit
  <1>5. Fits(Projected(seq), held, cause)
    BY <1>2, <1>3, <1>4, ProjectedFits
  <1> QED BY <1>3, <1>5, HoldingFits

Listings == {"none", "oldest first", "newest first"}

LEMMA ReduceInv ==
    ASSUME ExitInv, NEW listed \in Listings, Reduce(listed)
    PROVE  ExitInv'
  <1> DEFINE os == IF listed = "none" THEN ords ELSE [i \in DOMAIN ords |-> Reported(ords[i])]
             seq == CASE listed = "none" -> <<>>
                    [] listed = "oldest first" -> ords
                    [] listed = "newest first" -> Reverse(ords)
             c == ProjectHolding(Projected(seq))
  <1>1. /\ at = "reduce" /\ at' = "command" /\ ords' = os
        /\ row' = c /\ (current' = {} \/ (current' = current /\ row' = row))
        /\ plan' = decide_emergency_sell(c, os)
        /\ UNCHANGED <<cache, lot, seen, held, open, ui, cause>>
    BY DEF Reduce, Go, Writes, Unwritten, broker
  <1>2. seq \in {<<>>, ords, Reverse(ords)}
    BY DEF Listings
  <1>3. Fits(c, held, cause)
    <2> HIDE DEF seq
    <2> QED BY <1>2, PassFits
  <1> HIDE DEF c
  <1>4. ControlTypes /\ held \in Nat /\ OrdersFit(ords, held)
    <2> HIDE DEF os, seq
    <2>1. ControlTypes /\ OrdersFit(ords, held)
      BY DEF ExitInv, Control
    <2>2. held \in Nat
      BY <2>1 DEF ControlTypes
    <2> QED BY <2>1, <2>2
  <1>5. OrdersFit(os, held) /\ (OnlyPartials(ords) => OnlyPartials(os)) /\ (ords = <<>> => os = <<>>)
    BY <1>4, ReportFits
  <1> HIDE DEF os
  <1>6. left' \in [commands : Nat, stops : Nat, rejects : Nat, unknown : Nat,
                   crashes : Nat, gaps : Nat]
    BY <1>4, LessType DEF Reduce, ControlTypes
  <1>7. /\ plan' \in {"none", "sell", "cancel"}
        /\ plan' # "none" => c.exitAll /\ seen \notin {0, Missing}
        /\ plan' = "sell" => NoneOpen(os)
    <2>1. plan' # "none" => (c.status = "SELL_ALL" \/ c.exitAll) /\ seen \notin {0, Missing}
      BY <1>1 DEF decide_emergency_sell
    <2>2. c.status = "SELL_ALL" => c.exitAll
      BY <1>3 DEF Fits, Demanding
    <2>3. plan' = "sell" => {o \in Range(os) : OpenRec(o)} = {}
      BY <1>1 DEF decide_emergency_sell
    <2>4. {o \in Range(os) : OpenRec(o)} = {} => NoneOpen(os)
      BY DEF NoneOpen, Range
    <2>5. plan' \in {"none", "sell", "cancel"}
      BY <1>1 DEF decide_emergency_sell
    <2> QED BY <2>1, <2>2, <2>3, <2>4, <2>5
  <1>8. CardsFit' /\ OrdersFit(ords, held)'
    BY <1>1, <1>3, <1>5 DEF ExitInv, CardsFit
  <1>9. ControlTypes'
    BY <1>1, <1>4, <1>6, <1>7 DEF ControlTypes, Stages
  <1>10. SeenBefore'
    <2>1. plan' = "sell" => seen # 0 /\ seen # Missing
      BY <1>7
    <2>2. seen # 0 /\ seen # Missing => seen \in 1 .. Shares
      <3>1. seen \in 0 .. (Shares + 1) /\ Shares \in Nat
        BY <1>4, ExitAssumption DEF ControlTypes
      <3> QED BY <3>1 DEF Missing
    <2> QED BY <1>1, <2>1, <2>2 DEF ExitInv, Control, SeenBefore
  <1>11. NothingAsked'
    <2>1. NoPartialAtTheOpen /\ ~cause => plan' = "none"
      BY <1>3, <1>7 DEF Fits, Unasked
    <2> QED BY <1>1, <1>5, <2>1 DEF ExitInv, Control, NothingAsked
  <1>12. LotReady' /\ SellsAlone' /\ SameId'
    BY <1>1, <1>7 DEF LotReady, SellsAlone, Selling, SameId
  <1>13. PlanDemanded'
    BY <1>1, <1>7 DEF PlanDemanded
  <1>14. AskedOfRow'
    BY <1>1 DEF ExitInv, Control, AskedOfRow
  <1> QED BY <1>8, <1>9, <1>10, <1>11, <1>12, <1>13, <1>14 DEF ExitInv, Control

-----------------------------------------------------------------------------
(* Cancels.                                                                  *)

LEMMA CancelledFits ==
    ASSUME NEW h \in Nat, OrdersFit(ords, h), NEW i \in DOMAIN ords, ords[i].rec = "WORKING",
           Cancelled(i)
    PROVE  /\ OrdersFit(ords', h)
           /\ OnlyPartials(ords) => OnlyPartials(ords')
           /\ ords = <<>> => ords' = <<>>
           /\ Len(ords') = Len(ords)
  <1>0. /\ ords[i] \in Orders /\ OpenRec(ords[i]) /\ ords # <<>>
        /\ Live(ords[i]) => ords[i].filled < ords[i].qty /\ ords[i].qty - ords[i].filled <= h
    BY DEF OrdersFit, OpenRec
  <1>1. ASSUME NEW o \in Orders, ords' = [ords EXCEPT ![i] = o],
               o.moo = ords[i].moo, o.id = ords[i].id,
               Live(o) => OpenRec(o) /\ o.filled < o.qty /\ o.qty - o.filled <= h
        PROVE  OrdersFit(ords', h) /\ (OnlyPartials(ords) => OnlyPartials(ords')) /\ Len(ords') = Len(ords)
    <2>1. /\ OrdersFit(ords', h) /\ DOMAIN ords' = DOMAIN ords /\ Len(ords') = Len(ords)
      BY <1>0, <1>1, EditFits
    <2>2. \A j \in DOMAIN ords : ords'[j].moo = ords[j].moo /\ ords'[j].id = ords[j].id
      BY <1>1 DEF OrdersFit
    <2> QED BY <2>1, <2>2 DEF OnlyPartials
  <1>2. CASE ords' = [ords EXCEPT ![i].st = "done", ![i].rec = "CANCELLED"]
    <2> DEFINE o == [ords[i] EXCEPT !.st = "done", !.rec = "CANCELLED"]
    <2>1. o \in Orders /\ ~Live(o) /\ o.moo = ords[i].moo /\ o.id = ords[i].id
      BY <1>0 DEF Orders, Live
    <2>2. ords' = [ords EXCEPT ![i] = o]
      BY <1>2
    <2> HIDE DEF o
    <2> QED BY <1>0, <1>1, <2>1, <2>2
  <1>3. CASE Live(ords[i]) /\ ords' = [ords EXCEPT ![i].rec = "CANCEL_PENDING"]
    <2> DEFINE o == [ords[i] EXCEPT !.rec = "CANCEL_PENDING"]
    <2>1. /\ o \in Orders /\ o.moo = ords[i].moo /\ o.id = ords[i].id
          /\ OpenRec(o) /\ o.filled = ords[i].filled /\ o.qty = ords[i].qty
      BY <1>0 DEF Orders, OpenRec
    <2>2. ords' = [ords EXCEPT ![i] = o]
      BY <1>3
    <2> HIDE DEF o
    <2> QED BY <1>0, <1>1, <1>3, <2>1, <2>2
  <1>4. CASE ords' = ords
    BY <1>0, <1>4
  <1> QED BY <1>2, <1>3, <1>4 DEF Cancelled

(* The cancel leaves the stored card with a command id, the card in memory   *)
(* as the caller has it.                                                     *)
LEMMA RequestCancelFits ==
    ASSUME ExitInv, NEW i \in DOMAIN ords, NEW c, NEW x, request_cancel(i, c, x),
           NEW k \in BOOLEAN, cause => k, Fits(c, held, k), Fits(x, held, k), x.id = c.id
    PROVE  /\ Fits(row', held, k) /\ Fits(cache', held, k) /\ OrdersFit(ords', held)
           /\ OnlyPartials(ords) => OnlyPartials(ords')
           /\ ords = <<>> => ords' = <<>>
           /\ Len(ords') = Len(ords)
           /\ (current' = {"worker"} /\ row'.id = c.id) \/ (current' = current /\ row' = row)
           /\ cache'.id = c.id
  <1>0. held \in Nat /\ cause \in BOOLEAN
    BY DEF ExitInv, Control, ControlTypes
  <1>1. /\ OrdersFit(ords', held) /\ (OnlyPartials(ords) => OnlyPartials(ords'))
        /\ (ords = <<>> => ords' = <<>>) /\ Len(ords') = Len(ords)
    BY <1>0, CancelledFits DEF ExitInv, request_cancel
  <1>2. Fits(row, held, k)
    BY <1>0, StillFits DEF ExitInv, CardsFit
  <1>3. \A m \in {"none", "id"} : Fits([c EXCEPT !.cancel = m], held, k) /\ [c EXCEPT !.cancel = m].id = c.id
    <2> TAKE m \in {"none", "id"}
    <2>1. Bookkeeping(c, [c EXCEPT !.cancel = m]) /\ [c EXCEPT !.cancel = m].id = c.id
      BY DEF Bookkeeping, Fits, Cards
    <2> QED BY <2>1, BookkeepingFits
  <1>4. \/ row' = row /\ current' = current
        \/ \E m \in {"none", "id"} : row' = [c EXCEPT !.cancel = m] /\ current' = {"worker"}
    BY DEF request_cancel, Writes, Unwritten
  <1>5. cache' = x \/ cache' = [c EXCEPT !.cancel = "none"]
    BY DEF request_cancel
  <1>6. Fits(row', held, k) /\ ((current' = {"worker"} /\ row'.id = c.id) \/ (current' = current /\ row' = row))
    BY <1>2, <1>3, <1>4
  <1>7. Fits(cache', held, k) /\ cache'.id = c.id
    BY <1>3, <1>5
  <1> QED BY <1>1, <1>6, <1>7

LEMMA CancelKnownOrderInv ==
    ASSUME ExitInv, CancelKnownOrder PROVE ExitInv'
  <1> DEFINE i == find_open_sell_order
             over == ords'[i].rec = "CANCELLED"
             m == IF over \/ ~Live(ords[i]) THEN "none"
                  ELSE IF row.cancel = "none" THEN "id" ELSE row.cancel
             n == [row EXCEPT !.cancel = m, !.id = IF over THEN NoId ELSE row.id,
                              !.reserved = IF over THEN FALSE ELSE row.reserved]
  <1>0. ControlTypes /\ OrdersFit(ords, held) /\ row \in Cards
    BY DEF ExitInv, Control, CardsFit, Fits
  <1>1. held \in Nat
    BY <1>0 DEF ControlTypes
  <1>2. i \in DOMAIN ords /\ ords[i].rec = "WORKING" /\ Cancelled(i)
    BY <1>0, FindOpen DEF CancelKnownOrder
  <1>3. /\ row' = n /\ current' = {} /\ at' = "load again" /\ plan' = "none"
        /\ UNCHANGED <<cache, lot, seen, held, open, ui, cause, left>>
    BY DEF CancelKnownOrder, Writes, Go, broker
  <1>4. /\ OrdersFit(ords', held) /\ (OnlyPartials(ords) => OnlyPartials(ords'))
        /\ (ords = <<>> => ords' = <<>>)
    BY <1>0, <1>1, <1>2, CancelledFits
  <1>5. Bookkeeping(row, n)
    <2>1. m \in {"none", "id", "in_flight"}
      BY <1>0 DEF Cards
    <2> HIDE DEF m, i
    <2>2. \A a \in {row.id, NoId}, r \in BOOLEAN :
             Bookkeeping(row, [row EXCEPT !.cancel = m, !.id = a, !.reserved = r])
      BY <1>0, <2>1 DEF Bookkeeping, Cards
    <2>3. (IF over THEN NoId ELSE row.id) \in {row.id, NoId}
      OBVIOUS
    <2>4. (IF over THEN FALSE ELSE row.reserved) \in BOOLEAN
      BY <1>0 DEF Cards
    <2> QED BY <2>2, <2>3, <2>4
  <1> HIDE DEF n
  <1>6. Fits(n, held, cause)
    BY <1>5, BookkeepingFits DEF ExitInv, CardsFit
  <1>7. CardsFit' /\ OrdersFit(ords, held)'
    BY <1>3, <1>4, <1>6 DEF ExitInv, CardsFit
  <1>8. Control'
    BY <1>0, <1>3, <1>4, QuietControl DEF Stages, ControlTypes
  <1> QED BY <1>7, <1>8 DEF ExitInv

-----------------------------------------------------------------------------
(* Sells.                                                                    *)

(* prepare_exit_identity: the identity stands on the row before the SELL     *)
(* goes out, and whoever lost the version sends nothing.                     *)
LEMMA PrepareFits ==
    ASSUME ExitInv, NEW c, Fits(c, held, cause), NEW fresh, NEW kind, NEW qty, NEW by, NEW failed,
           kind \in {"PARTIAL_EXIT", "MANUAL_EXIT"},
           prepare_exit_identity(c, fresh, kind, qty, by, failed),
           c.id # NoId => row.id = c.id,
           ~UiDuringPass /\ kind = "MANUAL_EXIT" => c.exitAll,
           NoPartialAtTheOpen /\ ~cause => kind = "PARTIAL_EXIT"
    PROVE  /\ Fits(row', held, cause) /\ Fits(cache', held, cause)
           /\ \/ /\ at' = "send" /\ lot' = [qty |-> qty, by |-> by]
                 /\ cache'.id # NoId /\ row'.id = cache'.id
              \/ at' = failed /\ lot' = lot
           /\ \/ current' = {"worker"}
              \/ current' \in {current, current \cup {"worker"}} /\ row' = row
  <1>0. Fits(row, held, cause) /\ c \in Cards
    BY DEF ExitInv, CardsFit, Fits
  <1>1. CASE c.id # NoId
    <2>1. /\ cache' = c /\ lot' = [qty |-> qty, by |-> by] /\ at' = "send"
          /\ row' = row /\ current' \in {current, current \cup {"worker"}}
      BY <1>1 DEF prepare_exit_identity, Go, ReadBy
    <2> QED BY <1>0, <1>1, <2>1
  <1>2. CASE c.id = NoId
    <2> DEFINE g == IF c.group = 0 THEN NewGroup ELSE c.group
               id == <<g, c.count + 1, kind>>
               p == [c EXCEPT !.id = id, !.group = g, !.unresolved = FALSE]
    <2>1. g \in Nat /\ id \in AttemptId /\ id[3] = kind
      <3>1. Len(ords) \in Nat
        BY DEF ExitInv, OrdersFit
      <3>2. g \in Nat
        BY <1>0, <3>1 DEF NewGroup, Cards
      <3> HIDE DEF g
      <3> QED BY <1>0, <3>2 DEF AttemptId, Cards
    <2>2. \/ /\ cache' = p /\ row' = p /\ current' = {"worker"}
             /\ lot' = [qty |-> qty, by |-> by] /\ at' = "send"
          \/ /\ cache' = _back_off_exit_retry(p) /\ at' = failed /\ lot' = lot
             /\ row' = row /\ current' = current
      BY <1>2 DEF prepare_exit_identity, Go, Writes, Unwritten
    <2> HIDE DEF g, id
    <2>3. p \in Cards /\ p.id = id /\ p.status = c.status /\ p.exitAll = c.exitAll
      <3> DEFINE q == [c EXCEPT !.id = id, !.group = g]
      <3>1. q \in Cards /\ q.id = id /\ q.status = c.status /\ q.exitAll = c.exitAll
        BY <1>0, <2>1 DEF Cards
      <3>2. p = [q EXCEPT !.unresolved = FALSE]
        BY <1>0 DEF Cards
      <3> HIDE DEF q, p
      <3> QED BY <3>1, <3>2 DEF Cards
    <2> HIDE DEF p
    <2>4. id # NoId
      BY <2>1 DEF AttemptId, NoId
    <2>5. Fits(p, held, cause)
      BY <2>1, <2>3 DEF Fits, Demanding, Unasked
    <2>6. Fits(_back_off_exit_retry(p), held, cause)
      BY <2>3, <2>5, BackOffFits, BookkeepingFits
    <2> QED BY <1>0, <2>2, <2>3, <2>4, <2>5, <2>6
  <1> QED BY <1>1, <1>2

(* A submission is made ready, or the worker goes on.                        *)
LEMMA PrepareInv ==
    ASSUME ExitInv, NEW c, Fits(c, held, cause), NEW fresh, NEW kind, NEW qty \in Nat \ {0},
           NEW by \in {"pass", "partial", "retry"}, NEW failed \in Stages,
           kind \in {"PARTIAL_EXIT", "MANUAL_EXIT"},
           prepare_exit_identity(c, fresh, kind, qty, by, failed),
           failed \notin {"send", "command", "tick", "partial"},
           c.id # NoId => row.id = c.id,
           ~UiDuringPass /\ kind = "MANUAL_EXIT" => c.exitAll,
           NoPartialAtTheOpen /\ ~cause => kind = "PARTIAL_EXIT" /\ ~PartialsOff,
           NoneOpen(ords), plan' \in {plan, "none"},
           UNCHANGED <<seen, ords, held, open, ui, cause, left>>
    PROVE  ExitInv'
  <1>1. /\ Fits(row', held, cause) /\ Fits(cache', held, cause)
        /\ \/ /\ at' = "send" /\ lot' = [qty |-> qty, by |-> by]
              /\ cache'.id # NoId /\ row'.id = cache'.id
           \/ at' = failed /\ lot' = lot
        /\ \/ current' = {"worker"}
           \/ current' \in {current, current \cup {"worker"}} /\ row' = row
    BY PrepareFits
  <1>2. CardsFit' /\ OrdersFit(ords, held)'
    BY <1>1 DEF ExitInv, CardsFit
  <1>3. ControlTypes
    BY DEF ExitInv, Control
  <1>4. ControlTypes'
    <2>1. lot' \in [qty : Nat, by : {"none", "pass", "partial", "retry"}]
      BY <1>1, <1>3 DEF ControlTypes
    <2>2. current' \subseteq {"worker", "ui"}
      BY <1>1, <1>3 DEF ControlTypes
    <2>3. at' \in Stages
      BY <1>1 DEF Stages
    <2> QED BY <1>3, <2>1, <2>2, <2>3 DEF ControlTypes
  <1>5. LotReady' /\ SellsAlone' /\ SameId'
    BY <1>1 DEF LotReady, SellsAlone, NoneOpen, SameId
  <1>6. NothingAsked'
    BY <1>1 DEF ExitInv, Control, NothingAsked
  <1>7. SeenBefore' /\ PlanDemanded'
    BY <1>1 DEF ExitInv, Control, SeenBefore, PlanDemanded
  <1>8. AskedOfRow'
    BY <1>1 DEF ExitInv, Control, AskedOfRow
  <1> QED BY <1>2, <1>4, <1>5, <1>6, <1>7, <1>8 DEF ExitInv, Control

LEMMA EmergencySellAllInv ==
    ASSUME ExitInv, EmergencySellAll PROVE ExitInv'
  <1>1. /\ at = "command" /\ plan = "sell" /\ plan' = "none"
        /\ prepare_exit_identity(row, TRUE, "MANUAL_EXIT", seen, "pass", "load again")
        /\ UNCHANGED <<seen, ords, held, open, ui, cause, left>>
    BY DEF EmergencySellAll, broker
  <1>2. Fits(row, held, cause)
    BY DEF ExitInv, CardsFit
  <1>3. seen \in Nat \ {0} /\ NoneOpen(ords)
    <2>1. seen \in 1 .. Shares /\ NoneOpen(ords)
      BY <1>1 DEF ExitInv, Control, SeenBefore, SellsAlone, Selling
    <2> QED BY <2>1
  <1>4. ~UiDuringPass => row.exitAll
    BY <1>1 DEF ExitInv, Control, PlanDemanded
  <1>5. ~(NoPartialAtTheOpen /\ ~cause)
    BY <1>1 DEF ExitInv, Control, NothingAsked
  <1>6. "load again" \in Stages
    BY DEF Stages
  <1> QED BY <1>1, <1>2, <1>3, <1>4, <1>5, <1>6, PrepareInv

LEMMA PartialSubmitsInv ==
    ASSUME ExitInv, PartialSubmits PROVE ExitInv'
  <1>1. /\ at = "partial" /\ PartialWanted
        /\ prepare_exit_identity(cache, Fresh, "PARTIAL_EXIT", 1, "partial", "partial sold")
        /\ UNCHANGED <<plan, seen, ords, held, open, ui, cause, left>>
    BY DEF PartialSubmits, broker
  <1>2. Fits(cache, held, cause) /\ OrdersFit(ords, held)
    BY DEF ExitInv, CardsFit
  <1>3. NoneOpen(ords)
    BY <1>1, <1>2, FindOpen DEF PartialWanted
  <1>4. cache.id # NoId => row.id = cache.id
    BY <1>1 DEF ExitInv, Control, SameId
  <1>5. NoPartialAtTheOpen /\ ~cause => ~PartialsOff
    BY <1>1, <1>2 DEF PartialWanted, Fits, Unasked
  <1>6. "partial sold" \in Stages
    BY DEF Stages
  <1>7. plan' \in {plan, "none"}
    BY Zenon DEF PartialSubmits
  <1>8. 1 \in Nat \ {0}
    OBVIOUS
  <1> QED BY <1>1, <1>2, <1>3, <1>4, <1>5, <1>6, <1>7, <1>8, PrepareInv

LEMMA RetrySubmitsInv ==
    ASSUME ExitInv, RetrySubmits PROVE ExitInv'
  <1> DEFINE r == _retire_terminal_exit_attempt(cache)
             n == refresh_orderable_quantity
             c == [r EXCEPT !.qty = n]
  <1>1. /\ ClearToSell /\ n > 0
        /\ prepare_exit_identity(c, Fresh, "MANUAL_EXIT", n, "retry", "store")
        /\ UNCHANGED <<plan, seen, ords, held, open, ui, cause, left>>
    BY DEF RetrySubmits, broker
  <1>2. Fits(cache, held, cause) /\ OrdersFit(ords, held) /\ ControlTypes /\ cache \in Cards
    BY DEF ExitInv, CardsFit, Control, Fits
  <1>3. held \in Nat
    BY <1>2 DEF ControlTypes
  <1>4. NoneOpen(ords)
    BY <1>1, <1>2, FindOpen DEF ClearToSell
  <1>5. n = held
    BY <1>2, <1>3, <1>4, AllOrderable
  <1>6. Bookkeeping(cache, r) /\ r.id = NoId
    BY <1>2, RetireFits
  <1> HIDE DEF r, n
  <1>7. Bookkeeping(r, c) /\ c.id = NoId /\ c.exitAll = cache.exitAll
    BY <1>3, <1>5, <1>6 DEF Bookkeeping, Cards
  <1> HIDE DEF c
  <1>8. Fits(c, held, cause)
    BY <1>2, <1>6, <1>7, BookkeepingTwice, BookkeepingFits
  <1>9. c.exitAll /\ ~(NoPartialAtTheOpen /\ ~cause)
    BY <1>1, <1>2, <1>7 DEF ClearToSell, Fits, Demanding, Unasked
  <1>10. n \in Nat \ {0} /\ "store" \in Stages
    BY <1>1, <1>3, <1>5 DEF Stages
  <1>11. plan' \in {plan, "none"}
    BY <1>1
  <1> QED BY <1>1, <1>4, <1>7, <1>8, <1>9, <1>10, <1>11, PrepareInv

(* The answer to a submission, or its absence: the order is appended, the    *)
(* caller goes on, and the pass stores its card under its version.           *)
LEMMA AnsweredFits ==
    ASSUME ExitInv, NEW c, Fits(c, held, cause), at = "send", Answered(c)
    PROVE  /\ CardsFit' \/ held' # held \/ cause' # cause
           /\ at' \in Stages \ {"send", "command", "tick", "partial"} /\ lot' = NoLot
           /\ current' \in {{}, current}
           /\ "ui" \in current' => row' = row
  <1>1. /\ lot' = NoLot /\ at' = After(lot.by) /\ cache' = c
        /\ (row' = c /\ current' = {}) \/ (row' = row /\ current' = current)
    BY DEF Answered, Go, Writes, Unwritten
  <1>2. lot.by \in {"pass", "partial", "retry"}
    BY DEF ExitInv, Control, LotReady, ControlTypes
  <1>3. at' \in Stages \ {"send", "command", "tick", "partial"}
    BY <1>1, <1>2 DEF After, Stages
  <1> QED BY <1>1, <1>3 DEF ExitInv, CardsFit

LEMMA SendInv ==
    ASSUME ExitInv, at = "send", NEW c, Fits(c, held, cause), Answered(c),
           NEW st \in {"open", "none"},
           NEW rec \in {"WORKING", "UNKNOWN", "REJECTED"}, st = "open" => rec # "REJECTED",
           st = "open" => lot.qty <= refresh_orderable_quantity,
           ords' = NewOrder(st, rec) \/ ords' = ords,
           left' \in [commands : Nat, stops : Nat, rejects : Nat, unknown : Nat,
                      crashes : Nat, gaps : Nat],
           UNCHANGED <<plan, seen, held, open, ui, cause>>
    PROVE  ExitInv'
  <1> DEFINE o == [id |-> cache.id, moo |-> ~open, qty |-> lot.qty, filled |-> 0,
                   st |-> st, rec |-> rec]
  <1>0. ControlTypes /\ OrdersFit(ords, held) /\ NoneOpen(ords) /\ Fits(cache, held, cause)
    BY DEF ExitInv, Control, SellsAlone, Selling, CardsFit
  <1>1. held \in Nat /\ lot.qty \in Nat \ {0} /\ open \in BOOLEAN
    BY <1>0 DEF ExitInv, Control, LotReady, ControlTypes
  <1>2. cache.id \in AttemptId
    <2>1. cache.id # NoId
      BY DEF ExitInv, Control, LotReady
    <2> QED BY <1>0, <2>1 DEF Fits, Cards
  <1>3. o \in Orders
    BY <1>1, <1>2 DEF Orders
  <1>4. Live(o) => OpenRec(o) /\ o.filled < o.qty /\ o.qty - o.filled <= held
    <2>1. refresh_orderable_quantity = held
      BY <1>0, <1>1, AllOrderable
    <2> QED BY <1>1, <2>1 DEF Live, OpenRec
  <1>5. NoPartialAtTheOpen /\ ~cause => ~o.moo /\ o.id[3] = "PARTIAL_EXIT" /\ ~PartialsOff
    <2> HAVE NoPartialAtTheOpen /\ ~cause
    <2>1. ~PartialsOff /\ open
      BY DEF ExitInv, Control, NothingAsked, NoPartialAtTheOpen
    <2>2. cache.id[3] = "PARTIAL_EXIT"
      BY <1>0, <1>2 DEF Fits, Unasked, NoId, AttemptId
    <2> QED BY <2>1, <2>2
  <1>6. ords' = Append(ords, o) \/ ords' = ords
    BY DEF NewOrder
  <1> HIDE DEF o
  <1>7. OrdersFit(ords', held)
    <2>1. OrdersFit(Append(ords, o), held)
      BY <1>0, <1>1, <1>3, <1>4, AppendFits
    <2> QED BY <1>0, <1>6, <2>1
  <1>8. NoPartialAtTheOpen /\ ~cause /\ OnlyPartials(ords) => OnlyPartials(ords')
    <2>1. CASE ords' = ords
      BY <2>1
    <2>2. CASE ords' = Append(ords, o)
      <3>1. /\ DOMAIN ords = 1 .. Len(ords) /\ DOMAIN ords' = 1 .. (Len(ords) + 1)
            /\ \A j \in 1 .. Len(ords) : ords'[j] = ords[j]
            /\ ords'[Len(ords) + 1] = o /\ Len(ords) \in Nat
        BY <1>0, <2>2, AppendProperties DEF OrdersFit
      <3>2. \A j \in DOMAIN ords' : j = Len(ords) + 1 \/ j \in DOMAIN ords
        BY <3>1
      <3> QED BY <1>5, <3>1, <3>2 DEF OnlyPartials
    <2> QED BY <1>6, <2>1, <2>2
  <1>9. /\ CardsFit'
        /\ at' \in Stages \ {"send", "command", "tick", "partial"} /\ lot' = NoLot
        /\ current' \in {{}, current}
        /\ "ui" \in current' => row' = row
    BY AnsweredFits
  <1>10. lot' \in [qty : Nat, by : {"none", "pass", "partial", "retry"}]
    BY <1>9 DEF NoLot
  <1>11. Control'
    <2>1. NoPartialAtTheOpen /\ ~cause => ~PartialsOff
      BY <1>5
    <2>2. ControlTypes'
      BY <1>0, <1>9, <1>10 DEF ControlTypes
    <2>3. LotReady' /\ SellsAlone' /\ SeenBefore' /\ SameId' /\ PlanDemanded'
      BY <1>9 DEF ExitInv, Control, LotReady, SellsAlone, Selling, SeenBefore, SameId, PlanDemanded
    <2>4. NothingAsked'
      BY <1>8, <2>1 DEF ExitInv, Control, NothingAsked
    <2>5. AskedOfRow'
      BY <1>9 DEF ExitInv, Control, AskedOfRow
    <2> QED BY <2>2, <2>3, <2>4, <2>5 DEF Control
  <1> QED BY <1>7, <1>9, <1>11 DEF ExitInv

(* The four answers.                                                         *)
LEMMA AnswersInv ==
    ASSUME ExitInv, Send PROVE ExitInv'
  <1>0. /\ Fits(cache, held, cause) /\ cache \in Cards /\ ControlTypes
        /\ left \in [commands : Nat, stops : Nat, rejects : Nat, unknown : Nat,
                      crashes : Nat, gaps : Nat]
    BY DEF ExitInv, CardsFit, Fits, Control, ControlTypes
  <1>1. CASE SendAccepted
    <2> DEFINE d == _consume_exit_attempt(cache)
               p == [cache EXCEPT !.reserved = TRUE, !.unresolved = FALSE]
               n == [d EXCEPT !.reserved = IF lot.by = "partial" THEN TRUE ELSE @, !.queued = FALSE]
               c == IF lot.by = "pass" THEN p ELSE n
    <2>1. Bookkeeping(cache, d)
      BY <1>0, ConsumeFits
    <2> HIDE DEF d
    <2>2. Bookkeeping(cache, p)
      BY <1>0 DEF Bookkeeping, Cards
    <2>3. Bookkeeping(d, n)
      BY <2>1 DEF Bookkeeping, Cards
    <2>4. Answered(c)
      BY <1>1 DEF SendAccepted, d
    <2> HIDE DEF p, n
    <2>5. Fits(c, held, cause)
      BY <1>0, <2>1, <2>2, <2>3, BookkeepingTwice, BookkeepingFits
    <2> HIDE DEF c
    <2>6. /\ at = "send" /\ ords' = NewOrder("open", "WORKING")
          /\ lot.qty <= refresh_orderable_quantity
          /\ UNCHANGED <<plan, seen, held, open, ui, cause, left>>
      BY <1>1 DEF SendAccepted, broker
    <2> QED BY <1>0, <2>4, <2>5, <2>6, SendInv
  <1>2. CASE SendRejected
    <2> DEFINE p == [cache EXCEPT !.count = @ + 1, !.id = NoId, !.unresolved = FALSE]
               n == _back_off_exit_retry(cache)
               c == IF lot.by = "pass" THEN p ELSE n
    <2>1. Bookkeeping(cache, p)
      <3> DEFINE q == [cache EXCEPT !.id = NoId, !.unresolved = FALSE]
      <3>1. Bookkeeping(cache, q)
        BY <1>0 DEF Bookkeeping, Cards
      <3>2. p = [q EXCEPT !.count = q.count + 1]
        BY <1>0 DEF Cards
      <3> HIDE DEF q, p
      <3>3. Bookkeeping(q, p)
        BY <3>1, <3>2 DEF Bookkeeping, Cards
      <3> QED BY <3>1, <3>3, BookkeepingTwice
    <2>2. Bookkeeping(cache, n)
      BY <1>0, BackOffFits
    <2>3. Answered(c)
      BY <1>2 DEF SendRejected
    <2> HIDE DEF p, n
    <2>4. Fits(c, held, cause)
      BY <1>0, <2>1, <2>2, BookkeepingFits
    <2> HIDE DEF c
    <2>5. /\ at = "send" /\ ords' = NewOrder("none", "REJECTED")
          /\ UNCHANGED <<plan, seen, held, open, ui, cause>>
      BY <1>2 DEF SendRejected, broker
    <2>6. left' \in [commands : Nat, stops : Nat, rejects : Nat, unknown : Nat,
                     crashes : Nat, gaps : Nat]
      BY <1>0, <1>2, LessType DEF SendRejected
    <2> QED BY <2>3, <2>4, <2>5, <2>6, SendInv
  <1>3. CASE SendUnanswered \/ SendDuplicate
    <2> DEFINE c == [cache EXCEPT !.unresolved = TRUE]
    <2>1. Bookkeeping(cache, c)
      BY <1>0 DEF Bookkeeping, Cards
    <2>2. Answered(c)
      BY <1>3 DEF SendUnanswered, SendDuplicate
    <2> HIDE DEF c
    <2>3. Fits(c, held, cause)
      BY <1>0, <2>1, BookkeepingFits
    <2>4. left' \in [commands : Nat, stops : Nat, rejects : Nat, unknown : Nat,
                     crashes : Nat, gaps : Nat]
      BY <1>0, <1>3, LessType DEF SendUnanswered, SendDuplicate
    <2>5. /\ at = "send" /\ UNCHANGED <<plan, seen, held, open, ui, cause>>
          /\ \/ lot.qty <= refresh_orderable_quantity /\ ords' = NewOrder("open", "UNKNOWN")
             \/ ords' = NewOrder("none", "UNKNOWN")
             \/ ords' = ords
      BY <1>3 DEF SendUnanswered, SendDuplicate, broker
    <2>6. CASE lot.qty <= refresh_orderable_quantity /\ ords' = NewOrder("open", "UNKNOWN")
      BY <2>2, <2>3, <2>4, <2>5, <2>6, SendInv
    <2>7. CASE ords' = NewOrder("none", "UNKNOWN") \/ ords' = ords
      BY <2>2, <2>3, <2>4, <2>5, <2>7, SendInv
    <2> QED BY <2>5, <2>6, <2>7
  <1> QED BY <1>1, <1>2, <1>3 DEF Send

-----------------------------------------------------------------------------
(* The tick and the heartbeat.                                               *)

(* A breach demands the whole position, and is a cause.                      *)
LEMMA BreachedFits ==
    ASSUME NEW c \in Cards, NEW h, NEW k, NoPartialAtTheOpen => k
    PROVE  /\ Fits(Breached(c), h, k) /\ Breached(c).id = c.id
           /\ Fits([Breached(c) EXCEPT !.cancel = "id"], h, k)
           /\ [Breached(c) EXCEPT !.cancel = "id"].id = c.id
  <1> DEFINE d == start_sell_all(c)
             b == [d EXCEPT !.pend = IF c.status = "PARTIAL_SELL" THEN 0 ELSE d.pend]
  <1>1. Fits(d, h, k)
    BY SellAllFits
  <1>2. d.id = c.id
    BY DEF start_sell_all, Cards
  <1>3. b = Breached(c)
    BY DEF Breached
  <1> HIDE DEF d
  <1>4. Bookkeeping(d, b) /\ b.id = c.id
    BY <1>1, <1>2 DEF Bookkeeping, Fits, Cards
  <1> HIDE DEF b
  <1>5. Fits(b, h, k)
    BY <1>1, <1>4, BookkeepingFits
  <1>6. Bookkeeping(b, [b EXCEPT !.cancel = "id"]) /\ [b EXCEPT !.cancel = "id"].id = c.id
    BY <1>4, <1>5 DEF Bookkeeping, Fits, Cards
  <1> QED BY <1>3, <1>4, <1>5, <1>6, BookkeepingFits

(* A step of the worker that writes no order, or asks for a cancel.          *)
LEMMA WorkerInv ==
    ASSUME ExitInv, at' \in {"partial", "all", "retry", "store"}, cause' \in BOOLEAN, cause => cause',
           Fits(row', held, cause'), Fits(cache', held, cause'), OrdersFit(ords', held),
           OnlyPartials(ords) => OnlyPartials(ords'), ords = <<>> => ords' = <<>>,
           current' = {"worker"} \/ (current' = current /\ row' = row),
           at' = "partial" => cache'.id = NoId \/ row'.id = cache'.id,
           left' \in [commands : Nat, stops : Nat, rejects : Nat, unknown : Nat,
                      crashes : Nat, gaps : Nat],
           UNCHANGED <<lot, plan, seen, held, open, ui>>
    PROVE  ExitInv'
  <1>1. CardsFit' /\ OrdersFit(ords, held)'
    BY DEF CardsFit
  <1>2. ControlTypes
    BY DEF ExitInv, Control
  <1>3. /\ at' \in Stages \ {"send", "command"} /\ plan' \in {plan, "none"}
        /\ at' \in {"tick", "partial"} => cache'.id = NoId \/ row'.id = cache'.id
    BY DEF Stages
  <1>4. /\ current' \subseteq {"worker", "ui"}
        /\ "ui" \in current' => "ui" \in current /\ row' = row
        /\ lot' \in [qty : Nat, by : {"none", "pass", "partial", "retry"}]
    BY <1>2 DEF ControlTypes
  <1>5. Control'
    BY <1>3, <1>4, QuietControl
  <1> QED BY <1>1, <1>5 DEF ExitInv

LEMMA TickBreachesInv ==
    ASSUME ExitInv, TickBreaches PROVE ExitInv'
  <1> DEFINE i == find_open_sell_order
             c == [cache EXCEPT !.exitAll = TRUE]
             x == [Breached(cache) EXCEPT !.cancel = "id"]
  <1>0. /\ Fits(cache, held, cause) /\ Fits(row, held, cause) /\ cache \in Cards
        /\ OrdersFit(ords, held) /\ ControlTypes /\ SameId
    BY DEF ExitInv, CardsFit, Fits, Control
  <1>1. /\ at = "tick" /\ at' = "partial" /\ cause' = (cause \/ ~cache.exitAll)
        /\ cache.status \in {"OPEN_POSITION", "PARTIAL_SELL"}
        /\ UNCHANGED <<lot, plan, seen, held, open, ui>>
    BY DEF TickBreaches, Go, broker
  <1>2. /\ cause \in BOOLEAN /\ cause' \in BOOLEAN /\ (cause => cause')
        /\ left \in [commands : Nat, stops : Nat, rejects : Nat, unknown : Nat,
                      crashes : Nat, gaps : Nat]
    BY <1>0, <1>1 DEF ControlTypes
  <1>3. NoPartialAtTheOpen => cause'
    BY <1>0, <1>1 DEF Fits, Unasked
  <1>4. left' \in [commands : Nat, stops : Nat, rejects : Nat, unknown : Nat,
                   crashes : Nat, gaps : Nat]
    BY <1>0, <1>2, LessType DEF TickBreaches
  <1>5. Fits(row, held, cause') /\ Fits(cache, held, cause')
    BY <1>0, <1>2, StillFits
  <1>6. /\ Fits(Breached(cache), held, cause') /\ Breached(cache).id = cache.id
        /\ Fits(x, held, cause') /\ x.id = cache.id
    BY <1>0, <1>3, BreachedFits
  <1>7. Fits(c, held, cause') /\ c.id = cache.id
    <2>1. c \in Cards /\ c.exitAll = TRUE /\ c.status = cache.status /\ c.id = cache.id
      BY <1>0 DEF Cards
    <2> HIDE DEF c
    <2> QED BY <1>1, <1>3, <2>1 DEF Fits, Demanding
  <1>8. \/ i \in DOMAIN ords /\ request_cancel(i, c, x)
        \/ cache' \in {cache, Breached(cache)} /\ UNCHANGED <<row, current, ords>>
    <2>1. i # 0 => i \in DOMAIN ords
      BY <1>0, FindOpen
    <2> QED BY <2>1 DEF TickBreaches, Unwritten
  <1> HIDE DEF c, x, i
  <1>9. /\ Fits(row', held, cause') /\ Fits(cache', held, cause') /\ OrdersFit(ords', held)
        /\ OnlyPartials(ords) => OnlyPartials(ords')
        /\ ords = <<>> => ords' = <<>>
        /\ current' = {"worker"} \/ (current' = current /\ row' = row)
        /\ cache'.id = NoId \/ row'.id = cache'.id
    <2>1. cache.id = NoId \/ row.id = cache.id
      BY <1>0, <1>1 DEF SameId
    <2>2. CASE i \in DOMAIN ords /\ request_cancel(i, c, x)
      BY <1>2, <1>6, <1>7, <2>1, <2>2, RequestCancelFits
    <2>3. CASE cache' \in {cache, Breached(cache)} /\ UNCHANGED <<row, current, ords>>
      BY <1>0, <1>5, <1>6, <2>1, <2>3
    <2> QED BY <1>8, <2>2, <2>3
  <1> QED BY <1>1, <1>2, <1>4, <1>9, WorkerInv

(* The escalated cancel of an exit order.                                    *)
LEMMA EscalateFits ==
    ASSUME ExitInv, NEW i \in DOMAIN ords, NEW c, Fits(c, held, cause),
           _escalate_exit_cancel_if_due(i, c)
    PROVE  /\ Fits(row', held, cause) /\ Fits(cache', held, cause) /\ OrdersFit(ords', held)
           /\ OnlyPartials(ords) => OnlyPartials(ords')
           /\ ords = <<>> => ords' = <<>>
           /\ current' = {"worker"} \/ (current' = current /\ row' = row)
  <1> DEFINE x == [c EXCEPT !.cancel = "in_flight"]
  <1>1. Bookkeeping(c, x) /\ x.id = c.id
    BY DEF Bookkeeping, Fits, Cards
  <1>2. request_cancel(i, c, x)
    BY DEF _escalate_exit_cancel_if_due
  <1> HIDE DEF x
  <1>3. Fits(x, held, cause)
    BY <1>1, BookkeepingFits
  <1>4. cause \in BOOLEAN
    BY DEF ExitInv, Control, ControlTypes
  <1> QED BY <1>1, <1>2, <1>3, <1>4, RequestCancelFits

LEMMA PartialFillsInv ==
    ASSUME ExitInv, _reconcile_partial_sell_fills PROVE ExitInv'
  <1> DEFINE i == find_open_sell_order
             q == refresh_orderable_quantity
  <1>0. /\ Fits(cache, held, cause) /\ Fits(row, held, cause) /\ cache \in Cards
        /\ OrdersFit(ords, held) /\ ControlTypes
    BY DEF ExitInv, CardsFit, Fits, Control
  <1>1. at' = "all" /\ UNCHANGED <<lot, plan, seen, held, open, ui, cause, left>>
    BY DEF _reconcile_partial_sell_fills, Go, broker
  <1>2. held \in Nat /\ cause \in BOOLEAN
        /\ left \in [commands : Nat, stops : Nat, rejects : Nat, unknown : Nat,
                      crashes : Nat, gaps : Nat]
    BY <1>0 DEF ControlTypes
  <1>3. \/ i \in DOMAIN ords /\ _escalate_exit_cancel_if_due(i, cache)
        \/ UNCHANGED <<row, current, ords>> /\ cache' = cache
        \/ /\ UNCHANGED <<row, current, ords>> /\ i = 0
           /\ cache' \in {_complete_partial_exit(cache, q), [cache EXCEPT !.cancel = "none"]}
    <2>1. i # 0 => i \in DOMAIN ords
      BY <1>0, FindOpen
    <2> HIDE DEF q
    <2> QED BY <2>1 DEF _reconcile_partial_sell_fills, Unwritten, q
  <1>4. i = 0 => Fits(_complete_partial_exit(cache, q), held, cause)
    <2>1. i = 0 => q = held
      BY <1>0, <1>2, FindOpen, AllOrderable
    <2> HIDE DEF i, q
    <2> QED BY <1>0, <1>2, <2>1, PartialDoneFits
  <1>5. Fits([cache EXCEPT !.cancel = "none"], held, cause)
    <2>1. Bookkeeping(cache, [cache EXCEPT !.cancel = "none"])
      BY <1>0 DEF Bookkeeping, Cards
    <2> QED BY <1>0, <2>1, BookkeepingFits
  <1> HIDE DEF i, q
  <1>6. /\ Fits(row', held, cause) /\ Fits(cache', held, cause) /\ OrdersFit(ords', held)
        /\ OnlyPartials(ords) => OnlyPartials(ords')
        /\ ords = <<>> => ords' = <<>>
        /\ current' = {"worker"} \/ (current' = current /\ row' = row)
    BY <1>0, <1>3, <1>4, <1>5, EscalateFits
  <1> QED BY <1>1, <1>2, <1>6, WorkerInv

LEMMA SellAllOrdersInv ==
    ASSUME ExitInv, _reconcile_sell_all_orders PROVE ExitInv'
  <1> DEFINE i == find_open_sell_order
             c == _process_queued_market_open_sells(cache)
             r == _retire_terminal_exit_attempt(c)
  <1>0. /\ Fits(cache, held, cause) /\ Fits(row, held, cause) /\ cache \in Cards
        /\ OrdersFit(ords, held) /\ ControlTypes
    BY DEF ExitInv, CardsFit, Fits, Control
  <1>1. at' = "retry" /\ UNCHANGED <<lot, plan, seen, held, open, ui, cause, left>>
    BY DEF _reconcile_sell_all_orders, Go, broker
  <1>2. cause \in BOOLEAN
        /\ left \in [commands : Nat, stops : Nat, rejects : Nat, unknown : Nat,
                      crashes : Nat, gaps : Nat]
    BY <1>0 DEF ControlTypes
  <1>3. Bookkeeping(cache, c)
    <2> DEFINE d == start_sell_all(cache)
    <2>1. cache.status = "SELL_ALL" => cache.exitAll
      BY <1>0 DEF Fits, Demanding
    <2>2. d = [cache EXCEPT !.exitAll = TRUE, !.status = "SELL_ALL"]
      BY DEF start_sell_all
    <2>3. cache.status = "SELL_ALL" => Bookkeeping(cache, d)
      BY <1>0, <2>1, <2>2 DEF Bookkeeping, Cards
    <2> HIDE DEF d
    <2>4. c = IF cache.status = "SELL_ALL" /\ cache.queued /\ open
              THEN [d EXCEPT !.queued = FALSE] ELSE cache
      BY DEF _process_queued_market_open_sells, d
    <2>5. cache.status = "SELL_ALL" => Bookkeeping(d, [d EXCEPT !.queued = FALSE])
      BY <2>3 DEF Bookkeeping, Cards
    <2>6. Bookkeeping(cache, cache)
      BY <1>0 DEF Bookkeeping
    <2> HIDE DEF c
    <2> QED BY <2>3, <2>4, <2>5, <2>6, BookkeepingTwice
  <1> HIDE DEF c
  <1>4. Bookkeeping(c, r)
    BY <1>3, RetireFits DEF Bookkeeping
  <1>5. \/ i \in DOMAIN ords /\ _escalate_exit_cancel_if_due(i, c)
        \/ UNCHANGED <<row, current, ords>> /\ cache' \in {c, r}
    <2>1. i # 0 => i \in DOMAIN ords
      BY <1>0, FindOpen
    <2> QED BY <2>1 DEF _reconcile_sell_all_orders, Unwritten, c
  <1> HIDE DEF r, i
  <1>6. Fits(c, held, cause) /\ Fits(r, held, cause)
    BY <1>0, <1>3, <1>4, BookkeepingFits
  <1>7. /\ Fits(row', held, cause) /\ Fits(cache', held, cause) /\ OrdersFit(ords', held)
        /\ OnlyPartials(ords) => OnlyPartials(ords')
        /\ ords = <<>> => ords' = <<>>
        /\ current' = {"worker"} \/ (current' = current /\ row' = row)
    BY <1>0, <1>5, <1>6, EscalateFits
  <1> QED BY <1>1, <1>2, <1>7, WorkerInv

LEMMA RetryFlatInv ==
    ASSUME ExitInv, RetryFlat PROVE ExitInv'
  <1> DEFINE r == _retire_terminal_exit_attempt(cache)
  <1>0. /\ Fits(cache, held, cause) /\ Fits(row, held, cause) /\ cache \in Cards
        /\ OrdersFit(ords, held) /\ ControlTypes
    BY DEF ExitInv, CardsFit, Fits, Control
  <1>1. /\ at' = "store" /\ ClearToSell /\ refresh_orderable_quantity = 0
        /\ cache' = confirm_flat(r)
        /\ UNCHANGED <<row, current, lot, plan, seen, ords, held, open, ui, cause, left>>
    BY DEF RetryFlat, Go, broker
  <1>2. held \in Nat /\ cause \in BOOLEAN
        /\ left \in [commands : Nat, stops : Nat, rejects : Nat, unknown : Nat,
                      crashes : Nat, gaps : Nat]
    BY <1>0 DEF ControlTypes
  <1>3. held = 0
    BY <1>0, <1>1, <1>2, FindOpen, AllOrderable DEF ClearToSell
  <1>4. r \in Cards
    BY <1>0, RetireFits DEF Bookkeeping
  <1> HIDE DEF r
  <1>5. Fits(cache', held, cause)
    BY <1>1, <1>3, <1>4, ConfirmFlatFits
  <1> QED BY <1>0, <1>1, <1>2, <1>5, WorkerInv

-----------------------------------------------------------------------------
(* The theorems.                                                             *)

LEMMA NextInv ==
    ASSUME ExitInv, [Next]_vars PROVE ExitInv'
  <1>1. CASE UNCHANGED vars
    BY <1>1 DEF vars, ExitInv, CardsFit, Control, ControlTypes, LotReady, SellsAlone, Selling,
       SeenBefore, NothingAsked, AskedOfRow, SameId, PlanDemanded
  <1>2. CASE Broker
    BY <1>2, SessionOpensInv, BrokerFillsInv, BrokerCancelsInv DEF Broker
  <1>3. CASE UiWrites \/ \E cmd \in UiCommands : UiAsks(cmd)
    BY <1>3, UiWritesInv, UiAsksInv
  <1>4. CASE Crash
    BY <1>4, CrashInv
  <1>5. CASE Pass
    <2>1. \A listed \in {"none", "oldest first", "newest first"} : listed \in Listings
      BY DEF Listings
    <2> QED BY <1>5, <2>1, FetchInv, SkipInv, CancelKnownOrderInv, EmergencySellAllInv, ReduceInv
            DEF Pass
  <1>6. CASE Send
    BY <1>6, AnswersInv
  <1>7. CASE Heartbeat
    BY <1>7, PartialSubmitsInv, SkipInv, PartialFillsInv, SellAllOrdersInv, RetryFlatInv,
       RetrySubmitsInv DEF Heartbeat
  <1>8. CASE Load \/ LoadAgain \/ TickQuiet \/ TickBreaches \/ Store
    BY <1>8, LoadInv, SkipInv, TickBreachesInv, StoreInv
  <1> QED BY <1>1, <1>2, <1>3, <1>4, <1>5, <1>6, <1>7, <1>8 DEF Next, Worker

(* The inductive invariant.  The operator's thread, the broker and a crash   *)
(* come between any two steps of the worker.                                 *)
THEOREM ExitInvariant == Spec => []ExitInv
  <1>1. Init => ExitInv
    BY InitInv
  <1>2. ExitInv /\ [Next]_vars => ExitInv'
    BY NextInv
  <1> QED BY <1>1, <1>2, PTL DEF Spec

(* find_open_sell_order fences every submission: at most one SELL works.     *)
THEOREM OneSellWorks == Spec => []OneSell
  <1>1. ExitInv => OneSell
    BY DEF ExitInv, OrdersFit, OneSell
  <1> QED BY <1>1, ExitInvariant, PTL

(* confirm_flat: no reader of holdings closes a card that still has shares.  *)
THEOREM ClosedMeansFlat == Spec => []ClosedIsFlat
  <1>1. ExitInv => ClosedIsFlat
    BY DEF ExitInv, CardsFit, Fits, ClosedIsFlat
  <1> QED BY <1>1, ExitInvariant, PTL

(* Where no partial sell is asked for before the open, no pass, fill or      *)
(* retry turns a card into a liquidation that the operator or a stop has not *)
(* asked for.                                                                *)
THEOREM DemandsHaveCause ==
    ASSUME StartsOpen \/ "RequestPartialSell" \notin UiCommands
    PROVE  Spec => []DemandHasCause
  <1>1. ExitInv => DemandHasCause
    BY DEF ExitInv, CardsFit, Fits, Unasked, DemandHasCause, NoPartialAtTheOpen, PartialsOff
  <1> QED BY <1>1, ExitInvariant, PTL

(* A step that is not an answer to a submission sends nothing.               *)
LEMMA OnlySendsAppend ==
    ASSUME ExitInv, Next, ~Send
    PROVE  Len(ords') = Len(ords)
  <1>0. OrdersFit(ords, held) /\ held \in Nat /\ ords \in Seq(Orders) /\ Len(ords) \in Nat
    BY DEF ExitInv, OrdersFit, Control, ControlTypes
  <1>1. \A j \in DOMAIN ords : \A o : Len([ords EXCEPT ![j] = o]) = Len(ords)
    BY <1>0
  <1>2. CASE UNCHANGED ords
    BY <1>2
  <1>3. CASE \E j \in DOMAIN ords : BrokerFills(j) \/ BrokerCancels(j)
    <2>1. \E j \in DOMAIN ords : \E o : ords' = [ords EXCEPT ![j] = o]
      BY <1>3 DEF BrokerFills, BrokerCancels
    <2> QED BY <1>1, <2>1
  <1>4. CASE \E j \in DOMAIN ords : ords[j].rec = "WORKING" /\ Cancelled(j)
    BY <1>0, <1>4, CancelledFits
  <1>5. CASE ords' = [j \in DOMAIN ords |-> Reported(ords[j])]
    BY <1>0, <1>5
  <1>6. find_open_sell_order # 0 => find_open_sell_order \in DOMAIN ords
    BY <1>0, FindOpen
  <1>7. CASE CancelKnownOrder
    BY <1>4, <1>6, <1>7 DEF CancelKnownOrder
  <1>8. CASE TickBreaches \/ _reconcile_partial_sell_fills \/ _reconcile_sell_all_orders
    BY <1>2, <1>4, <1>6, <1>8 DEF TickBreaches, _reconcile_partial_sell_fills,
       _reconcile_sell_all_orders, _escalate_exit_cancel_if_due, request_cancel
  <1>9. CASE \E listed \in {"none", "oldest first", "newest first"} : Reduce(listed)
    BY <1>2, <1>5, <1>9 DEF Reduce
  <1>10. CASE SessionOpens \/ UiWrites \/ Crash \/ \E cmd \in UiCommands : UiAsks(cmd)
    BY <1>2, <1>10 DEF SessionOpens, UiWrites, Crash, UiAsks
  <1>11. CASE Load \/ LoadAgain \/ Fetch \/ FetchFails \/ NoCommand \/ TickQuiet \/ Store
    BY <1>2, <1>11 DEF Load, LoadAgain, Fetch, FetchFails, NoCommand, TickQuiet, Store
  <1>12. CASE EmergencySellAll \/ PartialSubmits \/ PartialSkipped \/ RetryFlat \/ RetrySubmits \/ RetrySkipped
    BY <1>2, <1>12 DEF EmergencySellAll, PartialSubmits, PartialSkipped, RetryFlat, RetrySubmits, RetrySkipped
  <1> QED BY <1>3, <1>7, <1>8, <1>9, <1>10, <1>11, <1>12 DEF Next, Broker, Worker, Pass, Heartbeat

(* Where the operator does not act between the plan of a pass and its        *)
(* command, a step that sends a liquidation finds the stored row demanding   *)
(* it.                                                                       *)
THEOREM DemandedSales ==
    ASSUME ~UiDuringPass
    PROVE  Spec => SoldOnDemand
  <1>1. ASSUME ExitInv, [Next]_vars PROVE [DemandedSale]_vars
    <2> SUFFICES ASSUME SendsSellAll PROVE row.exitAll
      BY DEF DemandedSale
    <2>1. Len(ords') > Len(ords) /\ Len(ords) \in Nat /\ ords \in Seq(Orders)
      BY <1>1 DEF SendsSellAll, ExitInv, OrdersFit
    <2>2. Send
      BY <1>1, <2>1, OnlySendsAppend DEF vars
    <2>3. at = "send" /\ ords' # ords
      BY <2>1, <2>2 DEF Send, SendAccepted, SendRejected, SendUnanswered, SendDuplicate
    <2>4. \E st, rec : ords' = NewOrder(st, rec)
      BY <2>2, <2>3 DEF Send, SendAccepted, SendRejected, SendUnanswered, SendDuplicate
    <2>5. cache.id[3] = "MANUAL_EXIT"
      BY <2>1, <2>4 DEF NewOrder, SendsSellAll
    <2>6. cache.id # NoId /\ row.id = cache.id
      BY <1>1, <2>3 DEF ExitInv, Control, LotReady, SameId
    <2> QED BY <1>1, <2>5, <2>6 DEF ExitInv, CardsFit, Fits, Demanding
  <1> QED BY <1>1, ExitInvariant, PTL DEF Spec, SoldOnDemand
=============================================================================
