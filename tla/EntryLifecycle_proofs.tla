------------------------ MODULE EntryLifecycle_proofs ------------------------
(***************************************************************************)
(* For any plan, any commands of the operator and any number of BUYs,      *)
(* stops, gaps, refusals, missing answers and crashes: the plan is not     *)
(* bought twice, no SELL goes out beside a BUY, what is cancelled is not   *)
(* bought, and a card leaves the board only when nothing is left of it.    *)
(***************************************************************************)
EXTENDS EntryLifecycle, FiniteSetTheorems, SequenceTheorems, WellFoundedInduction, TLAPS

(* Types.                                                                    *)
Cards == [status : {"BUY_TODAY", "ENTRY_PENDING", "OPEN_POSITION", "SELL_ALL", "CLOSED",
                    "BUYLIST"},
          asked : BOOLEAN, id : Nat, group : BOOLEAN, count : Nat, qty : Nat, rest : Nat,
          unresolved : BOOLEAN, inflight : BOOLEAN, cancel : Nat, exitAll : BOOLEAN,
          stop : BOOLEAN]

Orders == [id : Nat, qty : Nat, filled : Nat, st : {"open", "done", "none"},
           rec : {"WORKING", "CANCEL_PENDING", "UNKNOWN", "FILLED", "CANCELLED", "REJECTED",
                  "ABORTED"}]

Stages == {"startup", "load", "reduce", "command", "load again", "tick", "buy", "send",
           "reconcile", "complete", "sell", "store", "sold"}

(* What works at the broker is open in the ledger; what the broker never     *)
(* took is in doubt, refused or aborted.                                     *)
OrderFits(o) ==
    /\ o \in Orders
    /\ Live(o) => OpenRec(o)
    /\ o.rec \in {"REJECTED", "ABORTED"} => o.st = "none"
    /\ o.st = "none" => o.rec \in {"UNKNOWN", "REJECTED", "ABORTED"}

(* What the bounds rule out never happens.                                   *)
Never(k) == \A b \in Bounds : b[k] = 0

TypeInv ==
    /\ row \in Cards /\ cache \in Cards /\ current \subseteq {"worker", "ui"}
    /\ at \in Stages /\ plan \in BOOLEAN /\ seen \in Nat /\ held \in Nat
    /\ ords \in Seq(Orders) /\ \A i \in DOMAIN ords : OrderFits(ords[i])
    /\ ui \in UiCommands \cup {Idle}
    /\ left \in [Kinds -> Nat] /\ \A k \in Kinds : Never(k) => left[k] = 0

-----------------------------------------------------------------------------
(* Numbers and sequences.                                                    *)

(* Every set of numbers has a smallest one.                                  *)
LEMMA Smallest ==
    ASSUME NEW T, T \subseteq Nat, T # {}
    PROVE  \E x \in T : \A y \in T : x <= y
  <1> DEFINE R == OpToRel(<, Nat)
  <1>1. IsWellFoundedOn(R, Nat)
    BY Zenon, NatLessThanWellFounded
  <1>2. \A x, y \in Nat : <<y, x>> \in R <=> y < x
    BY DEF OpToRel
  <1> HIDE DEF R
  <1>3. PICK x \in T : \A y \in T : ~ (<<y, x>> \in R)
    BY <1>1, WFMin
  <1>4. \A y \in T : x <= y
    <2> TAKE y \in T
    <2>1. x \in Nat /\ y \in Nat /\ ~(y < x)
      BY <1>2, <1>3
    <2> QED BY <2>1
  <1> QED BY <1>4

LEMMA MaxOfTwo ==
    ASSUME NEW a \in Nat, NEW b \in Nat
    PROVE  Max({a, b}) = IF a >= b THEN a ELSE b
  <1> DEFINE m == IF a >= b THEN a ELSE b
  <1>1. m \in {a, b} /\ \A y \in {a, b} : m >= y
    OBVIOUS
  <1>2. \A x \in {a, b} : (\A y \in {a, b} : x >= y) => x = m
    OBVIOUS
  <1> HIDE DEF m
  <1>3. Max({a, b}) \in {a, b} /\ \A y \in {a, b} : Max({a, b}) >= y
    BY <1>1 DEF Max
  <1>4. Max({a, b}) = m
    BY <1>2, <1>3
  <1> QED BY <1>4 DEF m

LEMMA FindOpen ==
    ASSUME ords \in Seq(Orders)
    PROVE  /\ find_open_entry_order = 0 <=> \A i \in DOMAIN ords : ~OpenRec(ords[i])
           /\ find_open_entry_order # 0 =>
                 /\ find_open_entry_order \in DOMAIN ords
                 /\ OpenRec(ords[find_open_entry_order])
  <1> DEFINE found == {i \in DOMAIN ords : OpenRec(ords[i])}
  <1>0. DOMAIN ords = 1 .. Len(ords) /\ Len(ords) \in Nat
    OBVIOUS
  <1>1. CASE found = {}
    BY <1>0, <1>1 DEF find_open_entry_order
  <1>2. CASE found # {}
    <2>1. found \subseteq Nat /\ 0 \notin found
      BY <1>0
    <2>2. PICK x \in found : \A y \in found : x <= y
      <3> HIDE DEF found
      <3> QED BY <1>2, <2>1, Smallest
    <2>3. Min(found) \in found
      <3> HIDE DEF found
      <3> QED BY <2>2 DEF Min
    <2>4. find_open_entry_order = Min(found)
      BY <1>2 DEF find_open_entry_order
    <2> QED BY <2>1, <2>3, <2>4
  <1> QED BY <1>1, <1>2

LEMMA EditOrder ==
    ASSUME NEW i \in DOMAIN ords, NEW o \in Orders, ords \in Seq(Orders),
           ords' = [ords EXCEPT ![i] = o]
    PROVE  /\ ords' \in Seq(Orders) /\ DOMAIN ords' = DOMAIN ords /\ Len(ords') = Len(ords)
           /\ ords'[i] = o /\ \A j \in DOMAIN ords : j # i => ords'[j] = ords[j]
  OBVIOUS

LEMMA AppendOrder ==
    ASSUME NEW o \in Orders, ords \in Seq(Orders), ords' = Append(ords, o)
    PROVE  /\ ords' \in Seq(Orders) /\ Len(ords') = Len(ords) + 1 /\ Len(ords) \in Nat
           /\ DOMAIN ords = 1 .. Len(ords) /\ DOMAIN ords' = 1 .. (Len(ords) + 1)
           /\ ords'[Len(ords) + 1] = o /\ \A j \in DOMAIN ords : ords'[j] = ords[j]
  OBVIOUS

-----------------------------------------------------------------------------
(* Cards.                                                                    *)

(* Keeps column, cancel and quantity; the BUY it stands for, or its tracking *)
(* ends with the rest of the plan.                                           *)
Follows(c, n) ==
    /\ n \in Cards /\ n.status = c.status /\ n.asked = c.asked /\ n.qty = c.qty
    /\ \/ n.id = c.id /\ n.count = c.count /\ n.rest \in {c.rest, 0}
       \/ c.status # "BUY_TODAY" /\ n.rest = 0

LEMMA FollowsCard ==
    ASSUME NEW c, NEW n, Follows(c, n)
    PROVE  n \in Cards /\ n.status = c.status /\ n.qty = c.qty /\ n.asked = c.asked
  BY DEF Follows

LEMMA FollowsTwice ==
    ASSUME NEW c, NEW n, NEW m, Follows(c, n), Follows(n, m)
    PROVE  Follows(c, m)
  BY DEF Follows

LEMMA Cleared ==
    ASSUME NEW c \in Cards, NEW retire \in BOOLEAN
    PROVE  LET n == _clear_entry_card_tracking(c, retire)
           IN  /\ n \in Cards /\ n.id = 0 /\ n.status = c.status /\ n.asked = c.asked
               /\ n.count = c.count /\ n.qty = c.qty /\ n.rest = c.rest
  BY DEF _clear_entry_card_tracking, Cards

LEMMA Refused ==
    ASSUME NEW c \in Cards
    PROVE  LET n == _apply_definitive_entry_nonacceptance(c)
           IN  /\ n \in Cards /\ n.id = 0 /\ n.rest = 0 /\ n.asked = FALSE /\ n.qty = c.qty
               /\ n.status = IF c.qty > 0 THEN "OPEN_POSITION" ELSE "BUYLIST"
  <1> DEFINE m == _clear_entry_card_tracking(c, TRUE)
  <1>1. m \in Cards /\ m.id = 0 /\ m.qty = c.qty
    BY Cleared
  <1> HIDE DEF m
  <1> DEFINE n == [m EXCEPT !.count = 0, !.rest = 0, !.asked = FALSE,
                            !.status = IF c.qty > 0 THEN "OPEN_POSITION" ELSE "BUYLIST"]
  <1>2. /\ n \in Cards /\ n.id = 0 /\ n.rest = 0 /\ n.asked = FALSE /\ n.qty = c.qty
        /\ n.status = IF c.qty > 0 THEN "OPEN_POSITION" ELSE "BUYLIST"
    <2> DEFINE s == IF c.qty > 0 THEN "OPEN_POSITION" ELSE "BUYLIST"
    <2>1. s \in {"OPEN_POSITION", "BUYLIST"}
      OBVIOUS
    <2> HIDE DEF s
    <2>2. [m EXCEPT !.count = 0, !.rest = 0, !.asked = FALSE, !.status = s] \in Cards
      BY <1>1, <2>1 DEF Cards
    <2>3. n \in Cards
      BY <2>2 DEF s
    <2> QED BY <1>1, <2>3 DEF Cards
  <1> QED BY <1>2 DEF _apply_definitive_entry_nonacceptance, m

LEMMA Flat ==
    ASSUME NEW c \in Cards
    PROVE  LET n == confirm_flat(c)
           IN  n \in Cards /\ n.status = "CLOSED" /\ n.id = 0 /\ n.rest = 0 /\ n.qty = 0
  <1> DEFINE m == _clear_entry_card_tracking(c, TRUE)
  <1>1. m \in Cards /\ m.id = 0
    BY Cleared
  <1> HIDE DEF m
  <1> DEFINE n == [m EXCEPT !.status = "CLOSED", !.count = 0, !.qty = 0, !.rest = 0,
                            !.exitAll = FALSE, !.stop = FALSE]
  <1>2. n \in Cards /\ n.status = "CLOSED" /\ n.id = 0 /\ n.rest = 0 /\ n.qty = 0
    BY <1>1 DEF Cards
  <1> QED BY <1>2 DEF confirm_flat, m

LEMMA Demanded ==
    ASSUME NEW c \in Cards
    PROVE  LET n == start_sell_all(c)
           IN  /\ n \in Cards /\ n.status = "SELL_ALL" /\ n.id = c.id /\ n.count = c.count
               /\ n.rest = c.rest /\ n.qty = c.qty /\ n.asked = c.asked
               /\ n.cancel = c.cancel /\ n.inflight = c.inflight
  BY DEF start_sell_all, Cards

LEMMA CancelMarked ==
    ASSUME NEW c \in Cards, NEW k \in Nat, NEW f \in BOOLEAN
    PROVE  /\ Follows(c, [c EXCEPT !.cancel = k])
           /\ Follows(c, [c EXCEPT !.inflight = f])
           /\ Follows(c, [c EXCEPT !.cancel = k, !.inflight = f])
           /\ Follows(c, [c EXCEPT !.rest = 0])
  <1>1. /\ [c EXCEPT !.cancel = k] \in Cards /\ [c EXCEPT !.inflight = f] \in Cards
        /\ [c EXCEPT !.cancel = k, !.inflight = f] \in Cards /\ [c EXCEPT !.rest = 0] \in Cards
    BY DEF Cards
  <1> QED BY <1>1 DEF Follows, Cards

LEMMA FollowsItself == ASSUME NEW c \in Cards PROVE Follows(c, c)
  BY DEF Follows

-----------------------------------------------------------------------------
(* Orders.                                                                   *)

(* The broker or the ledger has moved on; what was bought and whether the    *)
(* broker took the order is as it was.                                       *)
Edits(o, n) ==
    /\ OrderFits(n) /\ n.id = o.id /\ n.qty = o.qty /\ n.filled = o.filled
    /\ Live(n) => Live(o)
    /\ n.st = "none" <=> o.st = "none"
    /\ n.rec = o.rec \/ (Exact(o) /\ n.rec \in {"CANCEL_PENDING", "FILLED", "CANCELLED"})

Edited ==
    /\ ords' \in Seq(Orders) /\ Len(ords') = Len(ords) /\ DOMAIN ords' = DOMAIN ords
    /\ \A i \in DOMAIN ords : Edits(ords[i], ords'[i])

LEMMA Unedited ==
    ASSUME TypeInv, ords' = ords PROVE Edited
  BY DEF TypeInv, Edited, Edits

LEMMA EditedOne ==
    ASSUME TypeInv, NEW i \in DOMAIN ords, NEW o, Edits(ords[i], o), ords' = [ords EXCEPT ![i] = o]
    PROVE  Edited
  <1>0. ords \in Seq(Orders) /\ o \in Orders /\ \A j \in DOMAIN ords : OrderFits(ords[j])
    BY DEF TypeInv, Edits, OrderFits
  <1>1. /\ ords' \in Seq(Orders) /\ DOMAIN ords' = DOMAIN ords /\ Len(ords') = Len(ords)
        /\ ords'[i] = o /\ \A j \in DOMAIN ords : j # i => ords'[j] = ords[j]
    BY <1>0, EditOrder
  <1>2. \A j \in DOMAIN ords : Edits(ords[j], ords'[j])
    BY <1>0, <1>1 DEF Edits
  <1> QED BY <1>1, <1>2 DEF Edited

LEMMA CancelEdits ==
    ASSUME NEW o, OrderFits(o), Live(o),
           NEW n, \/ n = [o EXCEPT !.st = "done", !.rec = "CANCELLED"] /\ o.rec = "WORKING"
                  \/ n = [o EXCEPT !.rec = "CANCEL_PENDING"] /\ o.rec = "WORKING"
                  \/ n = [o EXCEPT !.st = "done"]
    PROVE  Edits(o, n)
  <1>0. o \in Orders /\ o.st = "open"
    BY DEF OrderFits, Live
  <1>1. CASE n = [o EXCEPT !.st = "done", !.rec = "CANCELLED"] /\ o.rec = "WORKING"
    <2>1. /\ n \in Orders /\ n.st = "done" /\ n.rec = "CANCELLED" /\ n.id = o.id /\ n.qty = o.qty
          /\ n.filled = o.filled
      BY <1>0, <1>1 DEF Orders
    <2> QED BY <1>0, <1>1, <2>1 DEF Edits, OrderFits, Live, Exact
  <1>2. CASE n = [o EXCEPT !.rec = "CANCEL_PENDING"] /\ o.rec = "WORKING"
    <2>1. /\ n \in Orders /\ n.st = "open" /\ n.rec = "CANCEL_PENDING" /\ n.id = o.id
          /\ n.qty = o.qty /\ n.filled = o.filled
      BY <1>0, <1>2 DEF Orders
    <2> QED BY <1>0, <1>2, <2>1 DEF Edits, OrderFits, Live, Exact, OpenRec
  <1>3. CASE n = [o EXCEPT !.st = "done"]
    <2>1. /\ n \in Orders /\ n.st = "done" /\ n.rec = o.rec /\ n.id = o.id /\ n.qty = o.qty
          /\ n.filled = o.filled
      BY <1>0, <1>3 DEF Orders
    <2> QED BY <1>0, <1>3, <2>1 DEF Edits, OrderFits, Live, OpenRec
  <1> QED BY <1>1, <1>2, <1>3

LEMMA ReportEdits ==
    ASSUME NEW o, OrderFits(o) PROVE Edits(o, Reported(o))
  <1>1. CASE ~Exact(o) \/ Live(o)
    BY <1>1 DEF Reported, Edits
  <1>2. CASE Exact(o) /\ ~Live(o)
    <2>1. PICK r \in {"FILLED", "CANCELLED"} : Reported(o) = [o EXCEPT !.rec = r]
      BY <1>2 DEF Reported
    <2>2. /\ Reported(o) \in Orders /\ Reported(o).st = o.st /\ Reported(o).rec = r
          /\ Reported(o).id = o.id /\ Reported(o).qty = o.qty /\ Reported(o).filled = o.filled
      BY <2>1 DEF OrderFits, Orders
    <2> QED BY <1>2, <2>2 DEF Edits, OrderFits, Live, Exact
  <1> QED BY <1>1, <1>2

LEMMA ReportedEdited ==
    ASSUME TypeInv, ords' = [i \in DOMAIN ords |-> Reported(ords[i])] PROVE Edited
  <1>0. ords \in Seq(Orders) /\ DOMAIN ords = 1 .. Len(ords) /\ Len(ords) \in Nat
    BY DEF TypeInv
  <1>1. \A i \in DOMAIN ords : Edits(ords[i], ords'[i])
    BY ReportEdits DEF TypeInv
  <1>2. \A i \in 1 .. Len(ords) : ords'[i] \in Orders
    BY <1>0, <1>1 DEF Edits, OrderFits
  <1>3. ords' = [i \in 1 .. Len(ords) |-> ords'[i]]
    BY <1>0
  <1>4. ords' \in Seq(Orders) /\ Len(ords') = Len(ords) /\ DOMAIN ords' = DOMAIN ords
    BY <1>0, <1>2, <1>3, IsASeq
  <1> QED BY <1>1, <1>4 DEF Edited

-----------------------------------------------------------------------------
(* The cancel of a BUY.                                                      *)

(* The row is left alone, or it gets what c has become.                      *)
Written(c) ==
    \/ row' = row /\ current' = current
    \/ Follows(c, row') /\ current' = {"worker"}

LEMMA RequestCancel ==
    ASSUME TypeInv, NEW i \in DOMAIN ords, NEW c \in Cards, NEW done, CanCancel(i, c),
           Follows(c, done), request_cancel(i, c, done)
    PROVE  Follows(c, cache') /\ Written(c) /\ Edited
  <1> DEFINE p == Asked(i, c)
             q == [c EXCEPT !.cancel = 0, !.inflight = FALSE]
             r == [p EXCEPT !.inflight = TRUE]
  <1>0. OrderFits(ords[i]) /\ ords[i].id \in Nat /\ ords[i].rec = "WORKING"
    BY DEF TypeInv, OrderFits, Orders, CanCancel
  <1>1. p \in Cards /\ Follows(c, p) /\ Follows(c, q)
    BY <1>0, CancelMarked, FollowsCard DEF Asked
  <1>2. Follows(c, r)
    BY <1>1, CancelMarked, FollowsTwice
  <1>3. Follows(c, cache') /\ Written(c)
    <2> HIDE DEF p, q, r
    <2>1. cache' \in {done, q, r}
      BY DEF request_cancel, p, q, r
    <2>2. \/ row' = row /\ current' = current
          \/ row' \in {done, p, q} /\ current' = {"worker"}
      BY DEF request_cancel, Writes, Unwritten, p, q
    <2> QED BY <1>1, <1>2, <2>1, <2>2 DEF Written
  <1>4. Edited
    <2>1. CASE ords' = ords
      BY <2>1, Unedited
    <2>2. CASE Live(ords[i]) /\ ords' = [ords EXCEPT ![i].st = "done", ![i].rec = "CANCELLED"]
      <3> DEFINE o == [ords[i] EXCEPT !.st = "done", !.rec = "CANCELLED"]
      <3>1. Edits(ords[i], o)
        BY <1>0, <2>2, CancelEdits
      <3>2. ords' = [ords EXCEPT ![i] = o]
        BY <2>2
      <3> HIDE DEF o
      <3> QED BY <3>1, <3>2, EditedOne
    <2>3. CASE Live(ords[i]) /\ ords' = [ords EXCEPT ![i].rec = "CANCEL_PENDING"]
      <3> DEFINE o == [ords[i] EXCEPT !.rec = "CANCEL_PENDING"]
      <3>1. Edits(ords[i], o)
        BY <1>0, <2>3, CancelEdits
      <3>2. ords' = [ords EXCEPT ![i] = o]
        BY <2>3
      <3> HIDE DEF o
      <3> QED BY <3>1, <3>2, EditedOne
    <2> QED BY <2>1, <2>2, <2>3 DEF request_cancel
  <1> QED BY <1>3, <1>4

LEMMA ReleasedFollows ==
    ASSUME NEW p \in Cards, p.status # "BUY_TODAY"
    PROVE  Follows(p, Released(p))
  <1> DEFINE m == _clear_entry_card_tracking(p, TRUE)
             n == [m EXCEPT !.rest = 0, !.count = 0]
  <1>1. m \in Cards /\ m.status = p.status /\ m.asked = p.asked /\ m.qty = p.qty
    BY Cleared
  <1>2. Released(p) = p \/ Released(p) = n
    BY DEF Released
  <1> HIDE DEF m
  <1>3. n \in Cards /\ n.status = p.status /\ n.asked = p.asked /\ n.qty = p.qty /\ n.rest = 0
    BY <1>1 DEF Cards
  <1> HIDE DEF n
  <1> QED BY <1>2, <1>3 DEF Follows

LEMMA Liquidation ==
    ASSUME TypeInv, NEW c \in Cards, c.status # "BUY_TODAY",
           _entry_conflict_clear_for_liquidation(c)
    PROVE  Follows(c, cache') /\ Written(c) /\ Edited
  <1> DEFINE i == find_open_entry_order
             d == [c EXCEPT !.rest = 0]
             e == [d EXCEPT !.inflight = TRUE]
  <1>1. Follows(c, d) /\ d \in Cards
    BY CancelMarked DEF Follows
  <1>2. Follows(c, e) /\ e \in Cards /\ e.status = c.status
    <2> HIDE DEF d
    <2>1. Follows(d, e)
      BY <1>1, CancelMarked
    <2> QED BY <1>1, <2>1, FollowsTwice DEF Follows
  <1>3. CASE i # 0 /\ ~c.inflight /\ CanCancel(i, e)
    <2>1. i \in DOMAIN ords
      BY <1>3, FindOpen DEF TypeInv
    <2> HIDE DEF d, e, i
    <2>2. Asked(i, e) \in Cards /\ Follows(e, Asked(i, e)) /\ Asked(i, e).status # "BUY_TODAY"
      <3>1. ords[i].id \in Nat
        BY <2>1 DEF TypeInv, OrderFits, Orders
      <3> QED BY <1>2, <3>1, CancelMarked DEF Asked, Follows
    <2>3. Follows(e, Released(Asked(i, e)))
      BY <2>2, ReleasedFollows, FollowsTwice
    <2>4. request_cancel(i, e, Released(Asked(i, e)))
      BY <1>3 DEF _entry_conflict_clear_for_liquidation, i, d, e
    <2>5. Follows(e, cache') /\ Written(e) /\ Edited
      BY <1>2, <1>3, <2>1, <2>3, <2>4, RequestCancel
    <2> QED BY <1>2, <2>5, FollowsTwice DEF Written
  <1>4. CASE ~(i # 0 /\ ~c.inflight /\ CanCancel(i, e))
    <2>1. cache' \in {d, e} /\ row' = row /\ current' = current /\ ords' = ords
      BY <1>4 DEF _entry_conflict_clear_for_liquidation, Unwritten
    <2> HIDE DEF d, e
    <2> QED BY <1>1, <1>2, <2>1, Unedited DEF Written
  <1> QED BY <1>3, <1>4

(* The steps in which the worker may cancel, and what they make of the card. *)
LEMMA CancellingSteps ==
    ASSUME TypeInv, TickBreaches \/ SellWaits \/ _reconcile_entry_orders
    PROVE  \E c \in Cards :
              /\ \/ c = cache
                 \/ /\ c.status = "SELL_ALL" /\ c.id = cache.id /\ c.count = cache.count
                    /\ c.rest = cache.rest /\ c.qty = cache.qty /\ c.asked = cache.asked
              /\ Follows(c, cache') /\ Written(c) /\ Edited
  <1>0. cache \in Cards
    BY DEF TypeInv
  <1>1. CASE TickBreaches
    <2>1. /\ start_sell_all(cache) \in Cards /\ start_sell_all(cache).status = "SELL_ALL"
          /\ start_sell_all(cache).id = cache.id /\ start_sell_all(cache).count = cache.count
          /\ start_sell_all(cache).rest = cache.rest /\ start_sell_all(cache).qty = cache.qty
          /\ start_sell_all(cache).asked = cache.asked
      BY <1>0, Demanded
    <2>2. _entry_conflict_clear_for_liquidation(start_sell_all(cache))
      BY <1>1 DEF TickBreaches
    <2> QED BY <2>1, <2>2, Liquidation
  <1>2. CASE SellWaits
    <2>1. CASE cache.status = "SELL_ALL" /\ _entry_conflict_clear_for_liquidation(cache)
      BY <1>0, <2>1, Liquidation
    <2>2. CASE UNCHANGED <<row, current, cache, ords>>
      BY <1>0, <2>2, Unedited DEF Follows, Written
    <2> QED BY <1>2, <2>1, <2>2 DEF SellWaits
  <1>3. CASE _reconcile_entry_orders
    <2> DEFINE i == find_open_entry_order
               done == [Asked(i, cache) EXCEPT !.inflight = TRUE]
    <2>1. CASE ~Unwatched /\ cache.asked /\ CanCancel(i, cache)
      <3>1. i \in DOMAIN ords
        BY <2>1, FindOpen DEF TypeInv, Unwatched
      <3>2. ords[i].id \in Nat
        BY <3>1 DEF TypeInv, OrderFits, Orders
      <3>3. request_cancel(i, cache, done)
        BY <1>3, <2>1 DEF _reconcile_entry_orders
      <3> HIDE DEF i
      <3>4. Asked(i, cache) \in Cards /\ Follows(cache, Asked(i, cache))
        BY <1>0, <3>2, CancelMarked DEF Asked, Follows
      <3>5. Follows(cache, done)
        BY <3>4, CancelMarked, FollowsTwice
      <3> HIDE DEF done
      <3> QED BY <1>0, <2>1, <3>1, <3>3, <3>5, RequestCancel
    <2>2. CASE ~(~Unwatched /\ cache.asked /\ CanCancel(i, cache))
      <3>1. /\ row' = row /\ current' = current /\ ords' = ords
            /\ cache' \in {cache, [cache EXCEPT !.inflight = TRUE]}
        BY <1>3, <2>2 DEF _reconcile_entry_orders, Unwritten
      <3>2. Follows(cache, cache')
        BY <1>0, <3>1, CancelMarked, FollowsItself
      <3> QED BY <1>0, <3>1, <3>2, Unedited DEF Written
    <2> QED BY <2>1, <2>2
  <1> QED BY <1>1, <1>2, <1>3

-----------------------------------------------------------------------------
(* The account pass.                                                         *)

(* What an order makes of a card, whichever of its branches is taken.        *)
Onward(of, c, o, n) ==
    /\ n \in Cards
    /\ \/ /\ n = c
          /\ c.status = "BUY_TODAY" /\ _card_tracks_order(c, o) =>
                IF of = "local" THEN o.rec \notin {"WORKING", "CANCEL_PENDING"} ELSE ~Exact(o)
       \/ /\ o.rec = "REJECTED" /\ n.rest = 0 /\ n.qty = c.qty
          /\ n.status = IF c.qty > 0 THEN "OPEN_POSITION" ELSE "BUYLIST"
       \/ /\ Exact(o) /\ n.status = "ENTRY_PENDING" /\ n.rest = c.rest /\ n.qty = c.qty
          /\ n.id \in {c.id, o.id}
       \/ /\ Exact(o) /\ n.status = "OPEN_POSITION" /\ (n.rest = 0 \/ n.id = o.id)
          /\ n.qty \in {c.qty, o.filled} \/ (n.qty = seen /\ seen # Missing)
       \/ /\ Exact(o) /\ ~Live(o) /\ o.filled = 0 /\ n.status = "BUYLIST" /\ n.rest = 0
          /\ n.qty = c.qty

LEMMA ClassifiedOnward ==
    ASSUME NEW c \in Cards, NEW o \in Orders
    PROVE  Onward("local", c, o, Classified(c, o))
  <1> DEFINE n == Classified(c, o)
  <1>1. CASE /\ _card_tracks_order(c, o) /\ o.rec = "REJECTED"
             /\ c.status \in {"BUY_TODAY", "ENTRY_PENDING", "OPEN_POSITION"}
    <2>1. n = _apply_definitive_entry_nonacceptance(c)
      BY <1>1 DEF Classified
    <2> HIDE DEF n
    <2>2. /\ n \in Cards /\ n.rest = 0 /\ n.qty = c.qty
          /\ n.status = IF c.qty > 0 THEN "OPEN_POSITION" ELSE "BUYLIST"
      BY <2>1, Refused
    <2>3. o.rec = "REJECTED"
      BY <1>1
    <2>4. Onward("local", c, o, n)
      BY <2>2, <2>3 DEF Onward
    <2> QED BY <2>4 DEF n
  <1>2. CASE ~(/\ _card_tracks_order(c, o) /\ o.rec = "REJECTED"
               /\ c.status \in {"BUY_TODAY", "ENTRY_PENDING", "OPEN_POSITION"})
    <2>1. n = IF /\ _card_tracks_order(c, o) /\ o.rec \in {"WORKING", "CANCEL_PENDING"}
                 /\ c.status = "BUY_TODAY"
              THEN [c EXCEPT !.status = "ENTRY_PENDING", !.group = TRUE, !.count = o.id] ELSE c
      BY <1>2 DEF Classified
    <2> HIDE DEF n
    <2>2. CASE /\ _card_tracks_order(c, o) /\ o.rec \in {"WORKING", "CANCEL_PENDING"}
               /\ c.status = "BUY_TODAY"
      <3>1. /\ n \in Cards /\ n.status = "ENTRY_PENDING" /\ n.id = c.id /\ n.rest = c.rest
            /\ n.qty = c.qty
        BY <2>1, <2>2 DEF Cards, Orders
      <3>2. Exact(o)
        BY <2>2 DEF Exact
      <3>3. Onward("local", c, o, n)
        BY <3>1, <3>2 DEF Onward
      <3> QED BY <3>3 DEF n
    <2>3. CASE ~(/\ _card_tracks_order(c, o) /\ o.rec \in {"WORKING", "CANCEL_PENDING"}
                 /\ c.status = "BUY_TODAY")
      <3>1. n = c
        BY <2>1, <2>3
      <3>2. Onward("local", c, o, n)
        BY <2>3, <3>1 DEF Onward
      <3> QED BY <3>2 DEF n
    <2> QED BY <2>2, <2>3
  <1> QED BY <1>1, <1>2

LEMMA FillOnward ==
    ASSUME NEW c \in Cards, NEW o \in Orders, seen \in Nat, Exact(o)
    PROVE  Onward("broker", c, o, ProjectFill(c, o))
  <1> DEFINE q == IF seen \in {0, Missing} THEN Max({c.qty, o.filled}) ELSE seen
             d == [c EXCEPT !.status = "OPEN_POSITION", !.qty = q, !.rest = Gap(q),
                            !.stop = TRUE, !.id = o.id]
             e == [_clear_entry_card_tracking(d, TRUE) EXCEPT !.rest = 0]
  <1>1. q \in Nat /\ (q \in {c.qty, o.filled} \/ (q = seen /\ seen # Missing))
    BY MaxOfTwo DEF Cards, Orders
  <1> HIDE DEF q
  <1>2. Gap(q) \in Nat
    BY <1>1, EntryAssumption DEF Gap
  <1>3. d \in Cards /\ d.status = "OPEN_POSITION" /\ d.id = o.id /\ d.qty = q
    BY <1>1, <1>2 DEF Cards, Orders
  <1>4. ProjectFill(c, o) = IF Live(o) THEN d ELSE e
    BY DEF ProjectFill, q
  <1> HIDE DEF d
  <1>5. e \in Cards /\ e.status = "OPEN_POSITION" /\ e.rest = 0 /\ e.qty = q
    <2> DEFINE m == _clear_entry_card_tracking(d, TRUE)
    <2>1. m \in Cards /\ m.status = d.status /\ m.qty = d.qty
      BY <1>3, Cleared
    <2> HIDE DEF m
    <2>2. /\ [m EXCEPT !.rest = 0] \in Cards /\ [m EXCEPT !.rest = 0].status = m.status
          /\ [m EXCEPT !.rest = 0].rest = 0 /\ [m EXCEPT !.rest = 0].qty = m.qty
      BY <2>1 DEF Cards
    <2> QED BY <1>3, <2>1, <2>2 DEF m
  <1> HIDE DEF e
  <1> QED BY <1>1, <1>3, <1>4, <1>5 DEF Onward

LEMMA UnfilledOnward ==
    ASSUME NEW c \in Cards, NEW o \in Orders, Exact(o), o.filled = 0
    PROVE  Onward("broker", c, o, ProjectUnfilled(c, o))
  <1> DEFINE m == _clear_entry_card_tracking(c, TRUE)
             n == [m EXCEPT !.rest = 0,
                            !.status = IF c.qty > 0 THEN "OPEN_POSITION" ELSE "BUYLIST"]
             d == [c EXCEPT !.status = "ENTRY_PENDING", !.id = o.id]
  <1>1. m \in Cards /\ m.qty = c.qty
    BY Cleared
  <1>2. ProjectUnfilled(c, o) = IF Live(o) THEN d ELSE n
    BY DEF ProjectUnfilled
  <1>3. /\ d \in Cards /\ d.status = "ENTRY_PENDING" /\ d.id = o.id /\ d.rest = c.rest
        /\ d.qty = c.qty
    BY DEF Cards, Orders
  <1> HIDE DEF m, d
  <1>4. /\ n \in Cards /\ n.rest = 0 /\ n.qty = c.qty
        /\ n.status = IF c.qty > 0 THEN "OPEN_POSITION" ELSE "BUYLIST"
    BY <1>1 DEF Cards
  <1> HIDE DEF n
  <1> QED BY <1>2, <1>3, <1>4 DEF Onward

LEMMA OrderOnward ==
    ASSUME NEW of \in {"local", "broker"}, NEW c \in Cards, NEW o \in Orders, seen \in Nat
    PROVE  Onward(of, c, o, ProjectOrder(of, c, o))
  <1>1. CASE of = "local"
    BY <1>1, ClassifiedOnward DEF ProjectOrder
  <1>2. CASE of = "broker"
    <2>1. ProjectOrder(of, c, o) = _project_exact_order_to_card(c, o)
      BY <1>2 DEF ProjectOrder
    <2>2. CASE ~Exact(o) \/ ~_card_tracks_order(c, o)
      <3>1. ProjectOrder(of, c, o) = c
        BY <2>1, <2>2 DEF _project_exact_order_to_card
      <3> QED BY <1>2, <2>2, <3>1 DEF Onward
    <2>3. CASE Exact(o) /\ _card_tracks_order(c, o) /\ o.filled > 0
      <3>1. ProjectOrder(of, c, o) = ProjectFill(c, o)
        BY <2>1, <2>3 DEF _project_exact_order_to_card
      <3> QED BY <1>2, <2>3, <3>1, FillOnward
    <2>4. CASE Exact(o) /\ _card_tracks_order(c, o) /\ ~(o.filled > 0)
      <3>1. ProjectOrder(of, c, o) = ProjectUnfilled(c, o) /\ o.filled = 0
        BY <2>1, <2>4 DEF _project_exact_order_to_card, Orders
      <3> QED BY <1>2, <2>4, <3>1, UnfilledOnward
    <2> QED BY <2>2, <2>3, <2>4
  <1> QED BY <1>1, <1>2

(* The cards after 0, 1, ..., n orders of a pass.                            *)
Passed(f, of, start, seq, n) ==
    f = [i \in 0 .. n |-> IF i = 0 THEN start ELSE ProjectOrder(of, f[i - 1], seq[i])]

LEMMA PassExists ==
    ASSUME NEW of, NEW start, NEW seq, NEW n \in Nat
    PROVE  \E f : Passed(f, of, start, seq, n)
  <1> DEFINE T == {k \in Nat : ~\E f : Passed(f, of, start, seq, k)}
  <1> SUFFICES ASSUME T # {} PROVE FALSE
    OBVIOUS
  <1>1. PICK k \in T : \A j \in T : k <= j
    BY Smallest
  <1>2. CASE k = 0
    <2>1. Passed([i \in 0 .. 0 |-> start], of, start, seq, 0)
      BY DEF Passed
    <2> QED BY <1>1, <1>2, <2>1
  <1>3. CASE k # 0
    <2>1. k - 1 \in Nat /\ k - 1 \notin T /\ k \in Nat
      BY <1>1, <1>3
    <2>2. PICK f : Passed(f, of, start, seq, k - 1)
      BY <2>1
    <2> DEFINE g == [i \in 0 .. k |-> IF i = k THEN ProjectOrder(of, f[k - 1], seq[k]) ELSE f[i]]
    <2>3. \A i \in 0 .. (k - 1) : g[i] = f[i] /\ f[i] =
             IF i = 0 THEN start ELSE ProjectOrder(of, f[i - 1], seq[i])
      BY <2>1, <2>2 DEF Passed
    <2>4. ASSUME NEW i \in 0 .. k
          PROVE  g[i] = IF i = 0 THEN start ELSE ProjectOrder(of, g[i - 1], seq[i])
      <3>1. CASE i = k
        <4>1. k - 1 \in 0 .. (k - 1) /\ g[k] = ProjectOrder(of, f[k - 1], seq[k])
          BY <2>1
        <4> QED BY <1>3, <2>3, <3>1, <4>1
      <3>2. CASE i # k
        <4>1. i \in 0 .. (k - 1) /\ (i # 0 => i - 1 \in 0 .. (k - 1))
          BY <2>1, <3>2
        <4> HIDE DEF g
        <4> QED BY <2>3, <4>1
      <3> QED BY <3>1, <3>2
    <2>5. g = [i \in 0 .. k |-> g[i]]
      OBVIOUS
    <2> HIDE DEF g
    <2>6. Passed(g, of, start, seq, k)
      BY <2>4, <2>5 DEF Passed
    <2> QED BY <1>1, <2>6
  <1> QED BY <1>2, <1>3

(* What each order keeps is kept by the pass: after k orders the card is in  *)
(* the set S[k].                                                             *)
LEMMA PassKeeps ==
    ASSUME NEW of, NEW start, NEW seq, Len(seq) \in Nat, NEW S, start \in S[0],
           \A k \in 1 .. Len(seq) : \A c \in S[k - 1] : ProjectOrder(of, c, seq[k]) \in S[k]
    PROVE  Projected(of, start, seq) \in S[Len(seq)]
  <1> DEFINE f == CHOOSE f : Passed(f, of, start, seq, Len(seq))
  <1>1. Passed(f, of, start, seq, Len(seq))
    BY PassExists
  <1>2. Projected(of, start, seq) = f[Len(seq)]
    BY DEF Projected, Passed
  <1> HIDE DEF f
  <1>3. \A i \in 0 .. Len(seq) :
            f[i] = IF i = 0 THEN start ELSE ProjectOrder(of, f[i - 1], seq[i])
    BY <1>1 DEF Passed
  <1> DEFINE T == {i \in 0 .. Len(seq) : f[i] \notin S[i]}
  <1>4. ASSUME T # {} PROVE FALSE
    <2>0. T \subseteq Nat
      OBVIOUS
    <2>1. PICK k \in T : \A j \in T : k <= j
      <3> HIDE DEF T
      <3> QED BY <1>4, <2>0, Smallest
    <2>2. k \in 0 .. Len(seq) /\ f[k] \notin S[k]
      BY <2>1
    <2>3. k # 0
      BY <1>3, <2>2
    <2>4. k - 1 \in 0 .. Len(seq) /\ k - 1 \notin T /\ k \in 1 .. Len(seq)
      BY <2>1, <2>2, <2>3
    <2>5. f[k - 1] \in S[k - 1]
      BY <2>4
    <2>6. f[k] = ProjectOrder(of, f[k - 1], seq[k])
      BY <1>3, <2>2, <2>3
    <2> QED BY <2>2, <2>4, <2>5, <2>6
  <1>5. Len(seq) \in 0 .. Len(seq)
    OBVIOUS
  <1> QED BY <1>2, <1>4, <1>5

(* What the holdings make of a card.                                         *)
HoldingOnward(c, n) ==
    /\ n \in Cards
    /\ \/ /\ n.status = c.status /\ n.id = c.id /\ n.count = c.count /\ n.rest = c.rest
          /\ n.asked => c.asked
          /\ n.qty \in {c.qty, 0} \/ (n.qty = seen /\ seen # Missing)
       \/ /\ n.status = "OPEN_POSITION" /\ n.id = c.id /\ n.rest = c.rest
          /\ seen \notin {0, Missing} /\ n.qty = seen
       \/ n.status = "CLOSED" /\ n.rest = 0 /\ n.qty = 0 /\ seen = 0 /\ c.qty # 0

LEMMA HoldingEffect ==
    ASSUME NEW c \in Cards, seen \in Nat
    PROVE  HoldingOnward(c, ProjectHolding(c))
  <1>1. CASE seen = Missing \/ (seen = 0 /\ c.qty = 0)
    <2>1. ProjectHolding(c) = c
      BY <1>1 DEF ProjectHolding
    <2> QED BY <2>1 DEF HoldingOnward
  <1>2. CASE seen # Missing /\ seen > 0
    <2> DEFINE opens == c.status \in {"BUYLIST", "BUY_TODAY", "ENTRY_PENDING"}
               s == IF opens THEN "OPEN_POSITION" ELSE c.status
               a == c.asked /\ (opens => c.stop)
               n == [c EXCEPT !.qty = seen, !.status = s, !.asked = a]
    <2>1. ProjectHolding(c) = n
      BY <1>2 DEF ProjectHolding
    <2>2. s \in {c.status, "OPEN_POSITION"} /\ a \in BOOLEAN /\ (a => c.asked)
      OBVIOUS
    <2> HIDE DEF s, a
    <2>3. /\ n \in Cards /\ n.status = s /\ n.id = c.id /\ n.count = c.count /\ n.rest = c.rest
          /\ n.qty = seen /\ n.asked = a
      BY <2>2 DEF Cards
    <2> HIDE DEF n
    <2> QED BY <1>2, <2>1, <2>2, <2>3 DEF HoldingOnward
  <1>3. CASE seen # Missing /\ seen = 0 /\ c.qty # 0
    <2>1. CASE c.status \in {"OPEN_POSITION", "SELL_ALL"}
      <3>1. ProjectHolding(c) = confirm_flat(c)
        BY <1>3, <2>1 DEF ProjectHolding
      <3> QED BY <1>3, <3>1, Flat DEF HoldingOnward
    <2>2. CASE c.status \notin {"OPEN_POSITION", "SELL_ALL"}
      <3> DEFINE n == [c EXCEPT !.qty = 0]
      <3>1. ProjectHolding(c) = n
        BY <1>3, <2>2 DEF ProjectHolding
      <3>2. /\ n \in Cards /\ n.status = c.status /\ n.id = c.id /\ n.count = c.count
            /\ n.rest = c.rest /\ n.qty = 0 /\ n.asked = c.asked
        BY DEF Cards
      <3> HIDE DEF n
      <3> QED BY <3>1, <3>2 DEF HoldingOnward
    <2> QED BY <2>1, <2>2
  <1> QED BY <1>1, <1>2, <1>3

Listings == {"none", "oldest first", "newest first"}

(* A pass lists the orders of the ledger, in one direction or the other.     *)
LEMMA Listed ==
    ASSUME ords \in Seq(Orders), NEW listed \in Listings
    PROVE  LET seq == Listing(listed, ords)
           IN  /\ Len(seq) = Len(ords) /\ Len(seq) \in Nat
               /\ \A k \in 1 .. Len(seq) : \E i \in DOMAIN ords : seq[k] = ords[i]
               /\ \A i \in DOMAIN ords : \E k \in 1 .. Len(seq) : seq[k] = ords[i]
  <1> DEFINE seq == Listing(listed, ords)
  <1>0. DOMAIN ords = 1 .. Len(ords) /\ Len(ords) \in Nat
    OBVIOUS
  <1>1. CASE listed # "newest first"
    <2>1. seq = ords
      BY <1>1 DEF Listing
    <2> HIDE DEF seq
    <2> QED BY <1>0, <2>1 DEF seq
  <1>2. CASE listed = "newest first"
    <2>1. seq = [i \in 1 .. Len(ords) |-> ords[(Len(ords) - i) + 1]]
      BY <1>2 DEF Listing, Reverse
    <2> HIDE DEF seq
    <2>2. Len(seq) = Len(ords)
      BY <1>0, <2>1
    <2>3. \A i \in 1 .. Len(ords) :
             /\ (Len(ords) - i) + 1 \in 1 .. Len(ords)
             /\ (Len(ords) - ((Len(ords) - i) + 1)) + 1 = i
      BY <1>0
    <2>4. \A k \in 1 .. Len(seq) : \E i \in DOMAIN ords : seq[k] = ords[i]
      BY <1>0, <2>1, <2>2, <2>3
    <2>5. ASSUME NEW i \in DOMAIN ords PROVE \E k \in 1 .. Len(seq) : seq[k] = ords[i]
      <3>1. seq[(Len(ords) - i) + 1] = ords[i] /\ (Len(ords) - i) + 1 \in 1 .. Len(seq)
        BY <1>0, <2>1, <2>2, <2>3
      <3> QED BY <3>1
    <2> QED BY <1>0, <2>2, <2>4, <2>5 DEF seq
  <1> QED BY <1>1, <1>2

(* The local rows and then the reports: what every order keeps is kept.      *)
LEMMA OrdersKeep ==
    ASSUME TypeInv, NEW listed \in Listings, NEW of, NEW start, NEW S, start \in S,
           \A c \in S : \A i \in DOMAIN ords : ProjectOrder(of, c, ords[i]) \in S
    PROVE  Projected(of, start, Listing(listed, ords)) \in S
  <1> DEFINE seq == Listing(listed, ords)
             Sets == [k \in 0 .. Len(seq) |-> S]
  <1>1. Len(seq) \in Nat /\ \A k \in 1 .. Len(seq) : \E i \in DOMAIN ords : seq[k] = ords[i]
    BY Listed DEF TypeInv
  <1> HIDE DEF seq
  <1>2. /\ Sets[0] = S /\ Sets[Len(seq)] = S
        /\ \A k \in 1 .. Len(seq) : Sets[k] = S /\ Sets[k - 1] = S
    BY <1>1
  <1> HIDE DEF Sets
  <1>3. \A k \in 1 .. Len(seq) : \A c \in Sets[k - 1] : ProjectOrder(of, c, seq[k]) \in Sets[k]
    BY <1>1, <1>2
  <1>4. Projected(of, start, seq) \in Sets[Len(seq)]
    BY <1>1, <1>2, <1>3, PassKeeps
  <1> QED BY <1>2, <1>4 DEF seq

LEMMA ReduceKeeps ==
    ASSUME TypeInv, NEW listed \in Listings, Reduce(listed), NEW S,
           Projected("local", row, Listing(listed, ords)) \in S,
           \A c \in S : \A i \in DOMAIN ords : ProjectOrder("broker", c, ords[i]) \in S
    PROVE  \E c \in S : row' = ProjectHolding(c)
  <1> DEFINE start == Projected("local", row, Listing(listed, ords))
  <1> HIDE DEF start
  <1>1. \/ row' = ProjectHolding(start)
        \/ row' = ProjectHolding(Projected("broker", start, Listing(listed, ords)))
    BY DEF Reduce, Writes, Unwritten, start
  <1>2. start \in S
    BY DEF start
  <1>3. Projected("broker", start, Listing(listed, ords)) \in S
    BY <1>2, OrdersKeep
  <1> QED BY <1>1, <1>2, <1>3

-----------------------------------------------------------------------------
(* The other steps.                                                          *)

OrdersTyped == ords \in Seq(Orders) /\ \A i \in DOMAIN ords : OrderFits(ords[i])
LeftTyped == left \in [Kinds -> Nat] /\ \A k \in Kinds : Never(k) => left[k] = 0

LEMMA LessTyped ==
    ASSUME LeftTyped, NEW k \in Kinds, Less(k)
    PROVE  LeftTyped' /\ ~Never(k)
  BY DEF LeftTyped, Less

LEMMA EditedTyped == ASSUME Edited PROVE OrdersTyped'
  BY DEF Edited, Edits, OrdersTyped

LEMMA FillEffect ==
    ASSUME TypeInv, NEW i \in DOMAIN ords, BrokerFills(i)
    PROVE  \E n \in Orders :
              /\ Live(ords[i]) /\ OrderFits(n) /\ ords' = [ords EXCEPT ![i] = n]
              /\ n.filled = ords[i].filled + 1 /\ n.qty = ords[i].qty /\ n.id = ords[i].id
              /\ n.rec = ords[i].rec /\ n.st # "none"
              /\ n.st = "done" <=> ords[i].filled + 1 = ords[i].qty
  <1> DEFINE s == IF ords[i].filled + 1 = ords[i].qty THEN "done" ELSE ords[i].st
             n == [ords[i] EXCEPT !.filled = @ + 1, !.st = s]
  <1>0. ords[i] \in Orders /\ OrderFits(ords[i]) /\ ords[i].st = "open" /\ Live(ords[i])
    BY DEF TypeInv, OrderFits, BrokerFills, Live
  <1>1. ords' = [ords EXCEPT ![i] = n]
    BY DEF BrokerFills
  <1>2. s \in {"done", "open"} /\ (s = "done" <=> ords[i].filled + 1 = ords[i].qty)
    BY <1>0
  <1> HIDE DEF s
  <1>3. /\ n \in Orders /\ n.filled = ords[i].filled + 1 /\ n.st = s /\ n.qty = ords[i].qty
        /\ n.id = ords[i].id /\ n.rec = ords[i].rec
    <2> DEFINE f == ords[i].filled + 1
    <2>1. f \in Nat /\ n = [ords[i] EXCEPT !.filled = f, !.st = s]
      BY <1>0 DEF Orders
    <2> HIDE DEF f, n
    <2>2. /\ n \in Orders /\ n.filled = f /\ n.st = s /\ n.qty = ords[i].qty
          /\ n.id = ords[i].id /\ n.rec = ords[i].rec
      BY <1>0, <1>2, <2>1 DEF Orders
    <2> QED BY <2>2 DEF f
  <1> HIDE DEF n
  <1>4. OrderFits(n) /\ n.st # "none"
    BY <1>0, <1>2, <1>3 DEF OrderFits, OpenRec, Live
  <1> QED BY <1>0, <1>1, <1>2, <1>3, <1>4

LEMMA BrokerEdits ==
    ASSUME TypeInv, NEW i \in DOMAIN ords, BrokerCancels(i) PROVE Edited
  <1> DEFINE n == [ords[i] EXCEPT !.st = "done"]
  <1>1. ords' = [ords EXCEPT ![i] = n]
    BY DEF BrokerCancels
  <1>2. Edits(ords[i], n)
    BY CancelEdits DEF BrokerCancels, TypeInv
  <1> HIDE DEF n
  <1> QED BY <1>1, <1>2, EditedOne

(* What a command of the operator makes of the row.                          *)
LEMMA MutationEffect ==
    ASSUME NEW cmd, NEW c \in Cards
    PROVE  LET n == _apply_board_mutation(cmd, c)
           IN  /\ n \in Cards /\ n.qty = c.qty /\ n.rest = c.rest /\ n.id = c.id
               /\ \/ cmd = "RequestSellAll" /\ n.status = "SELL_ALL" /\ n.asked = c.asked
                  \/ cmd # "RequestSellAll" /\ c.status = "BUY_TODAY" /\ c.id = 0
                     /\ n.status = "BUYLIST"
                  \/ cmd # "RequestSellAll" /\ ~(c.status = "BUY_TODAY" /\ c.id = 0)
                     /\ n.status = c.status /\ n.count = c.count
  <1> DEFINE n == _apply_board_mutation(cmd, c)
  <1>1. CASE cmd = "RequestSellAll"
    <2>1. n = start_sell_all(c)
      BY <1>1 DEF _apply_board_mutation
    <2> QED BY <1>1, <2>1, Demanded
  <1>2. CASE cmd # "RequestSellAll" /\ c.status = "BUY_TODAY" /\ c.id = 0
    <2>1. n = [c EXCEPT !.status = "BUYLIST", !.asked = FALSE, !.group = FALSE, !.count = 0,
                        !.unresolved = FALSE]
      BY <1>2 DEF _apply_board_mutation
    <2> HIDE DEF n
    <2>2. /\ n \in Cards /\ n.qty = c.qty /\ n.rest = c.rest /\ n.id = c.id
          /\ n.status = "BUYLIST"
      BY <2>1 DEF Cards
    <2> QED BY <1>2, <2>2 DEF n
  <1>3. CASE cmd # "RequestSellAll" /\ ~(c.status = "BUY_TODAY" /\ c.id = 0)
    <2>1. n = [c EXCEPT !.asked = TRUE]
      BY <1>3 DEF _apply_board_mutation
    <2> HIDE DEF n
    <2>2. /\ n \in Cards /\ n.qty = c.qty /\ n.rest = c.rest /\ n.id = c.id
          /\ n.status = c.status /\ n.count = c.count
      BY <2>1 DEF Cards
    <2> QED BY <1>3, <2>2 DEF n
  <1> QED BY <1>1, <1>2, <1>3

LEMMA Reasoned ==
    ASSUME NEW c \in Cards, NEW a \in {c.asked, FALSE}
    PROVE  LET n == [c EXCEPT !.asked = a]
           IN  /\ n \in Cards /\ n.status = c.status /\ n.id = c.id /\ n.count = c.count
               /\ n.rest = c.rest /\ n.qty = c.qty /\ n.asked = a
  BY DEF Cards

(* The card's own identity, or the next one.                                 *)
LEMMA Prepared ==
    ASSUME NEW c \in Cards, NEW failed, prepare_entry_identity(c, failed)
    PROVE  /\ cache' \in Cards /\ cache'.status = c.status /\ cache'.rest = c.rest
           /\ cache'.qty = c.qty /\ cache'.count = c.count /\ cache'.asked = c.asked
           /\ \/ c.id # 0 /\ cache' = c /\ row' = row /\ current' = current /\ at' = "send"
              \/ /\ c.id = 0 /\ cache'.id = c.count + 1
                 /\ Fresh /\ row' = cache' /\ current' = {"worker"} /\ at' = "send"
              \/ /\ c.id = 0 /\ cache'.id = c.count + 1
                 /\ ~Fresh /\ row' = row /\ current' = current /\ at' = failed
  <1> DEFINE p == [c EXCEPT !.id = c.count + 1, !.group = TRUE, !.unresolved = FALSE]
  <1>1. CASE c.id # 0
    BY <1>1 DEF prepare_entry_identity, Go, Unwritten
  <1>2. CASE c.id = 0
    <2>1. /\ p \in Cards /\ p.id = c.count + 1 /\ p.status = c.status /\ p.rest = c.rest
          /\ p.qty = c.qty /\ p.count = c.count /\ p.asked = c.asked
      <3> DEFINE k == c.count + 1
      <3>1. k \in Nat
        BY DEF Cards
      <3> HIDE DEF k
      <3>2. [c EXCEPT !.id = k, !.group = TRUE, !.unresolved = FALSE] \in Cards
        BY <3>1 DEF Cards
      <3>3. p \in Cards
        BY <3>2 DEF k
      <3> QED BY <3>3 DEF Cards
    <2>2. /\ cache' = p
          /\ IF Fresh THEN Writes(p, {"worker"}) /\ Go("send") ELSE Unwritten /\ Go(failed)
      BY <1>2 DEF prepare_entry_identity
    <2> HIDE DEF p
    <2> QED BY <1>2, <2>1, <2>2 DEF Writes, Go, Unwritten
  <1> QED BY <1>1, <1>2

-----------------------------------------------------------------------------
(* What the gateway answers.                                                 *)

(* A new order of the card's identity.                                       *)
Sent(o) ==
    /\ OrderFits(o) /\ cache.id \notin Ids /\ ords' = Append(ords, o)
    /\ o.id = cache.id /\ o.qty = (IF Waiting THEN Target ELSE cache.rest) /\ o.filled = 0

(* The order was sent, or was sent before.                                   *)
TakenOn ==
    /\ cache'.status = IF Waiting THEN "ENTRY_PENDING" ELSE cache.status
    /\ cache'.id = cache.id /\ cache'.rest = cache.rest
    /\ cache'.asked => cache.asked
    /\ \/ cache.id \in Ids /\ ords' = ords
       \/ \E o \in Orders : Sent(o) /\ o.rec \in {"WORKING", "UNKNOWN"}
                            /\ (o.rec = "WORKING" => ~cache'.asked)

(* The broker refused it.                                                    *)
TurnedDown ==
    /\ cache'.status = IF cache.qty > 0 THEN "OPEN_POSITION" ELSE "BUYLIST"
    /\ cache'.id = 0 /\ cache'.rest = 0
    /\ \E o \in Orders : Sent(o) /\ o.rec = "REJECTED"

(* It was lost on its way, or not even written: another may follow.          *)
Retried ==
    /\ cache'.status = cache.status /\ cache'.rest = cache.rest /\ cache'.id = 0
    /\ cache'.asked => cache.asked
    /\ \/ ords' = ords /\ cache'.count = cache.count /\ (~Waiting => ~Never("refused"))
       \/ /\ \E o \in Orders : Sent(o) /\ o.rec \in {"REJECTED", "ABORTED"}
          /\ cache'.count = IF Waiting THEN Max({cache.count, cache.id}) ELSE cache.count

LEMMA NewOrderSent ==
    ASSUME TypeInv, cache.id \notin Ids,
           NEW st \in {"open", "none"}, NEW rec \in {"WORKING", "UNKNOWN", "REJECTED", "ABORTED"},
           st = "open" => rec \in {"WORKING", "UNKNOWN"}, rec = "WORKING" => st = "open",
           ords' = NewOrder(st, rec)
    PROVE  \E o \in Orders : Sent(o) /\ o.rec = rec
  <1> DEFINE q == IF Waiting THEN Target ELSE cache.rest
             o == [id |-> cache.id, qty |-> q, filled |-> 0, st |-> st, rec |-> rec]
  <1>1. ords' = Append(ords, o)
    BY DEF NewOrder
  <1>2. q \in Nat
    BY EntryAssumption DEF TypeInv, Cards
  <1> HIDE DEF q
  <1>3. /\ o \in Orders /\ o.id = cache.id /\ o.qty = q /\ o.filled = 0 /\ o.st = st
        /\ o.rec = rec
    BY <1>2 DEF TypeInv, Cards, Orders
  <1> HIDE DEF o
  <1>4. OrderFits(o)
    BY <1>3 DEF OrderFits, Live, OpenRec
  <1> QED BY <1>1, <1>3, <1>4 DEF Sent, q

LEMMA ConsumedEffect ==
    ASSUME NEW c \in Cards
    PROVE  LET n == Consumed(c)
           IN  /\ n \in Cards /\ n.status = c.status /\ n.rest = c.rest /\ n.qty = c.qty
               /\ n.id = c.id /\ n.asked = c.asked
               /\ n.count = IF Waiting THEN Max({c.count, c.id}) ELSE c.count
  <1> DEFINE k == IF Waiting THEN Max({c.count, c.id}) ELSE c.count
             n == [c EXCEPT !.count = k]
  <1>1. k \in Nat
    BY MaxOfTwo DEF Cards
  <1>2. Consumed(c) = n
    BY DEF Consumed
  <1> HIDE DEF k
  <1>3. /\ n \in Cards /\ n.status = c.status /\ n.rest = c.rest /\ n.qty = c.qty
        /\ n.id = c.id /\ n.asked = c.asked /\ n.count = k
    BY <1>1 DEF Cards
  <1> QED BY <1>2, <1>3 DEF k

LEMMA EnteredEffect ==
    ASSUME TypeInv, NEW u \in BOOLEAN
    PROVE  LET n == Entered(u)
           IN  /\ n \in Cards /\ n.rest = cache.rest /\ n.qty = cache.qty /\ n.id = cache.id
               /\ n.status = (IF Waiting THEN "ENTRY_PENDING" ELSE cache.status)
               /\ n.asked = (cache.asked /\ u)
  <1> DEFINE m == Consumed(cache)
             s == IF Waiting THEN "ENTRY_PENDING" ELSE m.status
             a == m.asked /\ u
             n == [m EXCEPT !.status = s, !.unresolved = u, !.asked = a]
  <1>1. /\ m \in Cards /\ m.status = cache.status /\ m.rest = cache.rest /\ m.qty = cache.qty
        /\ m.id = cache.id /\ m.asked = cache.asked
    BY ConsumedEffect DEF TypeInv
  <1>2. Entered(u) = n
    BY DEF Entered
  <1> HIDE DEF m
  <1>3. s \in {"ENTRY_PENDING", m.status} /\ a \in BOOLEAN
    OBVIOUS
  <1>4. s = (IF Waiting THEN "ENTRY_PENDING" ELSE cache.status) /\ a = (cache.asked /\ u)
    BY <1>1
  <1> HIDE DEF s, a
  <1>5. /\ n \in Cards /\ n.rest = m.rest /\ n.qty = m.qty /\ n.id = m.id
        /\ n.status = s /\ n.asked = a
    BY <1>1, <1>3 DEF Cards
  <1> HIDE DEF n
  <1> QED BY <1>1, <1>2, <1>4, <1>5

LEMMA RetriesEffect ==
    ASSUME NEW c \in Cards
    PROVE  LET n == Retries(c)
               m == [n EXCEPT !.asked = FALSE]
           IN  /\ n \in Cards /\ n.status = c.status /\ n.rest = c.rest /\ n.qty = c.qty
               /\ n.id = 0 /\ n.asked = c.asked /\ n.count = c.count
               /\ m \in Cards /\ m.status = c.status /\ m.rest = c.rest /\ m.qty = c.qty
               /\ m.id = 0 /\ m.asked = FALSE /\ m.count = c.count
  <1> DEFINE n == Retries(c)
  <1>1. /\ n \in Cards /\ n.status = c.status /\ n.rest = c.rest /\ n.qty = c.qty
        /\ n.id = 0 /\ n.asked = c.asked /\ n.count = c.count
    BY DEF Cards, Retries
  <1> HIDE DEF n
  <1> QED BY <1>1, Reasoned DEF n

LEMMA SendEffect ==
    ASSUME TypeInv, Send
    PROVE  /\ at = "send" /\ row' = row /\ current' = current /\ UNCHANGED <<plan, seen, held, ui>>
           /\ at' = (IF Waiting THEN "reconcile" ELSE "sell")
           /\ cache' \in Cards /\ cache'.qty = cache.qty
           /\ TakenOn \/ TurnedDown \/ Retried \/ (cache' = cache /\ ords' = ords)
  <1>0. cache \in Cards /\ LeftTyped
    BY DEF TypeInv, LeftTyped
  <1>1. /\ at = "send" /\ row' = row /\ current' = current /\ UNCHANGED <<plan, seen, held, ui>>
        /\ at' = (IF Waiting THEN "reconcile" ELSE "sell")
    BY DEF Send, SendAccepted, SendUnanswered, SendDuplicate, SendRejected, SendMisrouted,
           SendAborted, SendRefused, SendHeldBack, Answered, Go, Unwritten
  <1>2. CASE SendAccepted
    <2>1. cache' = Entered(FALSE) /\ cache.id \notin Ids /\ ords' = NewOrder("open", "WORKING")
      BY <1>2 DEF SendAccepted, Answered
    <2>2. PICK o \in Orders : Sent(o) /\ o.rec = "WORKING"
      BY <2>1, NewOrderSent
    <2> QED BY <1>1, <2>1, <2>2, EnteredEffect DEF TakenOn
  <1>3. CASE SendUnanswered
    <2>1. PICK st \in {"open", "none"} : ords' = NewOrder(st, "UNKNOWN")
      BY <1>3 DEF SendUnanswered
    <2>2. cache' = Entered(TRUE) /\ cache.id \notin Ids
      BY <1>3 DEF SendUnanswered, Answered
    <2>3. PICK o \in Orders : Sent(o) /\ o.rec = "UNKNOWN"
      BY <2>1, <2>2, NewOrderSent
    <2> QED BY <1>1, <2>2, <2>3, EnteredEffect DEF TakenOn
  <1>4. CASE SendDuplicate
    <2>1. cache' = Entered(TRUE) /\ cache.id \in Ids /\ ords' = ords
      BY <1>4 DEF SendDuplicate, Answered
    <2> QED BY <1>1, <2>1, EnteredEffect DEF TakenOn
  <1>5. CASE SendRejected
    <2>1. /\ cache' = _apply_definitive_entry_nonacceptance(cache)
          /\ cache.id \notin Ids /\ ords' = NewOrder("none", "REJECTED")
      BY <1>5 DEF SendRejected, Answered
    <2>2. PICK o \in Orders : Sent(o) /\ o.rec = "REJECTED"
      BY <2>1, NewOrderSent
    <2> QED BY <1>0, <1>1, <2>1, <2>2, Refused DEF TurnedDown
  <1>6. CASE SendMisrouted
    <2> DEFINE c == Consumed(cache)
    <2>1. /\ cache' = [Retries(c) EXCEPT !.asked = FALSE]
          /\ cache.id \notin Ids /\ ords' = NewOrder("none", "REJECTED")
      BY <1>6 DEF SendMisrouted, Answered
    <2>2. PICK o \in Orders : Sent(o) /\ o.rec = "REJECTED"
      BY <2>1, NewOrderSent
    <2>3. /\ c \in Cards /\ c.status = cache.status /\ c.rest = cache.rest /\ c.qty = cache.qty
          /\ c.count = IF Waiting THEN Max({cache.count, cache.id}) ELSE cache.count
      BY <1>0, ConsumedEffect
    <2> HIDE DEF c
    <2>4. /\ cache' \in Cards /\ cache'.status = c.status /\ cache'.rest = c.rest
          /\ cache'.qty = c.qty /\ cache'.id = 0 /\ cache'.asked = FALSE /\ cache'.count = c.count
      BY <2>1, <2>3, RetriesEffect
    <2> QED BY <1>1, <2>2, <2>3, <2>4 DEF Retried
  <1>7. CASE SendAborted
    <2> DEFINE c == Consumed(cache)
    <2>1. /\ cache' = Retries(c) /\ cache.id \notin Ids /\ ords' = NewOrder("none", "ABORTED")
      BY <1>7 DEF SendAborted, Answered
    <2>2. PICK o \in Orders : Sent(o) /\ o.rec = "ABORTED"
      BY <2>1, NewOrderSent
    <2>3. /\ c \in Cards /\ c.status = cache.status /\ c.rest = cache.rest /\ c.qty = cache.qty
          /\ c.asked = cache.asked
          /\ c.count = IF Waiting THEN Max({cache.count, cache.id}) ELSE cache.count
      BY <1>0, ConsumedEffect
    <2> HIDE DEF c
    <2>4. /\ cache' \in Cards /\ cache'.status = c.status /\ cache'.rest = c.rest
          /\ cache'.qty = c.qty /\ cache'.id = 0 /\ cache'.asked = c.asked
          /\ cache'.count = c.count
      BY <2>1, <2>3, RetriesEffect
    <2> QED BY <1>1, <2>2, <2>3, <2>4 DEF Retried
  <1>8. CASE SendRefused
    <2>1. cache' = Retries(cache) /\ ords' = ords
      BY <1>8 DEF SendRefused, Answered
    <2>2. ~Waiting => ~Never("refused")
      <3>1. "refused" \in Kinds
        BY DEF Kinds
      <3> QED BY <1>0, <1>8, <3>1, LessTyped DEF SendRefused
    <2>3. /\ cache' \in Cards /\ cache'.status = cache.status /\ cache'.rest = cache.rest
          /\ cache'.qty = cache.qty /\ cache'.id = 0 /\ cache'.asked = cache.asked
          /\ cache'.count = cache.count
      BY <1>0, <2>1, RetriesEffect
    <2> QED BY <1>1, <2>1, <2>2, <2>3 DEF Retried
  <1>9. CASE SendHeldBack
    BY <1>0, <1>1, <1>9 DEF SendHeldBack, Answered
  <1> QED BY <1>2, <1>3, <1>4, <1>5, <1>6, <1>7, <1>8, <1>9 DEF Send

(* The card whose BUY is cancelled: the worker's, or that with its exit      *)
(* demanded.                                                                 *)
ForExit(c) ==
    \/ c = cache
    \/ /\ c.status = "SELL_ALL" /\ c.id = cache.id /\ c.count = cache.count
       /\ c.rest = cache.rest /\ c.qty = cache.qty /\ c.asked = cache.asked

LEMMA DiesEffect ==
    ASSUME TypeInv, Dies
    PROVE  /\ \E c \in Cards : /\ ForExit(c) /\ Follows(c, row')
                               /\ c.asked \/ c.status = "SELL_ALL"
           /\ current' = {} /\ at' = "startup" /\ plan' = FALSE /\ ui' = Idle
           /\ UNCHANGED <<cache, seen, ords, held>> /\ LeftTyped'
  <1> PICK i \in DOMAIN ords :
        \/ at = "reconcile" /\ ~Unwatched /\ cache.asked /\ DiesCancelling(i, cache)
        \/ DiesCancelling(i, [start_sell_all(cache) EXCEPT !.rest = 0, !.inflight = TRUE])
        \/ /\ cache.status = "SELL_ALL"
           /\ DiesCancelling(i, [cache EXCEPT !.rest = 0, !.inflight = TRUE])
    BY DEF Dies
  <1>0. cache \in Cards /\ LeftTyped /\ ords[i].id \in Nat /\ "crashes" \in Kinds
    BY DEF TypeInv, LeftTyped, OrderFits, Orders, Kinds
  <1>1. ASSUME NEW c \in Cards, DiesCancelling(i, c)
        PROVE  /\ Follows(c, row') /\ current' = {} /\ at' = "startup" /\ plan' = FALSE
               /\ ui' = Idle /\ UNCHANGED <<cache, seen, ords, held>> /\ LeftTyped'
    <2>1. /\ row' = [c EXCEPT !.cancel = ords[i].id] /\ current' = {} /\ at' = "startup"
          /\ plan' = FALSE /\ ui' = Idle /\ UNCHANGED <<cache, seen, ords, held>>
          /\ Less("crashes")
      BY <1>1 DEF DiesCancelling, Writes, Go, broker
    <2> QED BY <1>0, <2>1, CancelMarked, LessTyped
  <1>2. ASSUME NEW c \in Cards, ForExit(c),
               DiesCancelling(i, [c EXCEPT !.rest = 0, !.inflight = TRUE])
        PROVE  /\ Follows(c, row') /\ current' = {} /\ at' = "startup" /\ plan' = FALSE
               /\ ui' = Idle /\ UNCHANGED <<cache, seen, ords, held>> /\ LeftTyped'
    <2> DEFINE d == [c EXCEPT !.rest = 0]
               e == [d EXCEPT !.inflight = TRUE]
    <2>1. d \in Cards /\ Follows(c, d)
      BY CancelMarked DEF Follows
    <2>2. e = [c EXCEPT !.rest = 0, !.inflight = TRUE]
      BY DEF Cards
    <2> HIDE DEF d
    <2>3. e \in Cards /\ Follows(c, e)
      BY <2>1, CancelMarked, FollowsTwice, FollowsCard
    <2> HIDE DEF e
    <2>4. DiesCancelling(i, e)
      BY <1>2, <2>2
    <2> QED BY <1>1, <2>3, <2>4, FollowsTwice
  <1>3. CASE at = "reconcile" /\ ~Unwatched /\ cache.asked /\ DiesCancelling(i, cache)
    BY <1>0, <1>1, <1>3 DEF ForExit
  <1>4. CASE DiesCancelling(i, [start_sell_all(cache) EXCEPT !.rest = 0, !.inflight = TRUE])
    <2>1. /\ start_sell_all(cache) \in Cards /\ ForExit(start_sell_all(cache))
          /\ start_sell_all(cache).status = "SELL_ALL"
      BY <1>0, Demanded DEF ForExit
    <2> QED BY <1>2, <1>4, <2>1
  <1>5. CASE /\ cache.status = "SELL_ALL"
             /\ DiesCancelling(i, [cache EXCEPT !.rest = 0, !.inflight = TRUE])
    BY <1>0, <1>2, <1>5 DEF ForExit
  <1> QED BY <1>3, <1>4, <1>5

-----------------------------------------------------------------------------
(* Types are kept.                                                           *)

(* The account pass keeps the row a card.                                    *)
LEMMA ReduceTyped ==
    ASSUME TypeInv, NEW listed \in Listings, Reduce(listed)
    PROVE  /\ row' \in Cards /\ current' \in {current, {}} /\ at' = "command" /\ plan' \in BOOLEAN
           /\ Edited /\ LeftTyped' /\ UNCHANGED <<cache, seen, held, ui>>
  <1>0. row \in Cards /\ seen \in Nat /\ LeftTyped /\ "gaps" \in Kinds
    BY DEF TypeInv, LeftTyped, Kinds
  <1>1. \A of \in {"local", "broker"} : \A c \in Cards : \A i \in DOMAIN ords :
            ProjectOrder(of, c, ords[i]) \in Cards
    BY <1>0, OrderOnward DEF TypeInv, OrderFits, Onward
  <1>2. Projected("local", row, Listing(listed, ords)) \in Cards
    BY <1>0, <1>1, OrdersKeep
  <1>3. PICK c \in Cards : row' = ProjectHolding(c)
    BY <1>1, <1>2, ReduceKeeps
  <1>4. row' \in Cards
    BY <1>0, <1>3, HoldingEffect DEF HoldingOnward
  <1>5. /\ current' \in {current, {}} /\ at' = "command" /\ plan' \in BOOLEAN
        /\ UNCHANGED <<cache, seen, held, ui>>
    BY DEF Reduce, Writes, Unwritten, Go, decide_emergency_sell
  <1>6. Edited
    <2>1. CASE listed = "none"
      BY <2>1, Unedited DEF Reduce
    <2>2. CASE listed # "none"
      BY <2>2, ReportedEdited DEF Reduce
    <2> QED BY <2>1, <2>2
  <1>7. LeftTyped'
    <2>1. left' = left \/ Less("gaps")
      BY DEF Reduce
    <2> QED BY <1>0, <2>1, LessTyped DEF LeftTyped
  <1> QED BY <1>4, <1>5, <1>6, <1>7

(* Steps that change neither the orders nor the row.                         *)
Calm ==
    TickQuiet \/ EntryWaits \/ CompletionWaits \/ NoCommand \/ Fetch \/ FetchFails \/ Load
    \/ HandedOver \/ Crash \/ SellFlat

LEMMA CalmTyped ==
    ASSUME TypeInv, Calm \/ UNCHANGED vars
    PROVE  /\ ords' = ords /\ row' = row /\ held' = held /\ ui' \in {ui, Idle}
           /\ current' \subseteq {"worker", "ui"} /\ at' \in Stages /\ plan' \in BOOLEAN
           /\ seen' \in Nat /\ LeftTyped' /\ cache' \in Cards
  <1>0. /\ row \in Cards /\ cache \in Cards /\ current \subseteq {"worker", "ui"} /\ at \in Stages
        /\ plan \in BOOLEAN /\ seen \in Nat /\ held \in Nat /\ LeftTyped
        /\ {"gaps", "crashes"} \subseteq Kinds /\ Missing \in Nat
    BY EntryAssumption DEF TypeInv, LeftTyped, Kinds, Missing
  <1>1. CASE TickQuiet \/ CompletionWaits \/ NoCommand \/ Load \/ HandedOver \/ UNCHANGED vars
    <2>1. /\ UNCHANGED <<ords, row, held, ui, seen, left>> /\ cache' \in {cache, row}
          /\ current' \in {current, current \cup {"worker"}} /\ plan' \in {plan, FALSE}
          /\ at' \in {at, "buy", "sell", "load again", "tick"}
      BY <1>1 DEF TickQuiet, CompletionWaits, NoCommand, Load, HandedOver, vars, Go, broker
    <2>2. at' \in Stages
      BY <1>0, <2>1 DEF Stages
    <2>3. LeftTyped'
      BY <1>0, <2>1 DEF LeftTyped
    <2> QED BY <1>0, <2>1, <2>2, <2>3
  <1>2. CASE EntryWaits
    <2>1. /\ UNCHANGED <<ords, row, held, ui, seen, left, current, plan>> /\ at' = "reconcile"
          /\ cache' = cache \/ \E a \in {cache.asked, FALSE} : cache' = [cache EXCEPT !.asked = a]
      BY <1>2 DEF EntryWaits, Go, broker, Reasons
    <2>2. at' \in Stages /\ LeftTyped'
      BY <1>0, <2>1 DEF LeftTyped, Stages
    <2> QED BY <1>0, <2>1, <2>2, Reasoned
  <1>3. CASE Fetch \/ FetchFails \/ Crash
    <2>1. /\ UNCHANGED <<ords, row, held, cache, current>> /\ at' \in {"reduce", "startup"}
          /\ ui' \in {ui, Idle} /\ seen' \in {seen, held, Missing} /\ plan' \in {plan, FALSE}
          /\ left' = left \/ Less("gaps") \/ Less("crashes")
      BY <1>3 DEF Fetch, FetchFails, Crash, Go, broker
    <2>2. at' \in Stages
      BY <2>1 DEF Stages
    <2>3. LeftTyped'
      BY <1>0, <2>1, LessTyped DEF LeftTyped
    <2> QED BY <1>0, <2>1, <2>2, <2>3
  <1>4. CASE SellFlat
    <2>1. /\ UNCHANGED <<ords, row, held, ui, seen, left, current, plan>> /\ at' = "store"
          /\ cache' = confirm_flat(cache)
      BY <1>4 DEF SellFlat, Go, broker
    <2>2. at' \in Stages /\ LeftTyped' /\ cache' \in Cards
      BY <1>0, <2>1, Flat DEF LeftTyped, Stages
    <2> QED BY <1>0, <2>1, <2>2
  <1> QED BY <1>1, <1>2, <1>3, <1>4 DEF Calm

(* Steps of the operator.                                                    *)
LEMMA AsksTyped ==
    ASSUME TypeInv, NEW cmd \in UiCommands, UiAsks(cmd)
    PROVE  /\ ui = Idle /\ ui' = cmd /\ current' = current \cup {"ui"} /\ LeftTyped'
           /\ UNCHANGED <<row, cache, at, plan, seen, ords, held>>
           /\ _require_board_action_not_conflicted(cmd, row)
           /\ Never("waiting") =>
                 ~(cmd = "CancelEntry" /\ row.status = "BUY_TODAY" /\ row.id # 0)
  <1>0. LeftTyped /\ {"waiting", "commands"} \subseteq Kinds
    BY DEF TypeInv, LeftTyped, Kinds
  <1>1. CASE cmd = "CancelEntry" /\ row.status = "BUY_TODAY" /\ row.id # 0
    <2>1. Less("waiting")
      BY <1>1 DEF UiAsks
    <2> QED BY <1>0, <2>1, LessTyped DEF UiAsks, worker, broker
  <1>2. CASE ~(cmd = "CancelEntry" /\ row.status = "BUY_TODAY" /\ row.id # 0)
    <2>1. Less("commands")
      BY <1>2 DEF UiAsks
    <2> QED BY <1>0, <1>2, <2>1, LessTyped DEF UiAsks, worker, broker
  <1> QED BY <1>1, <1>2

LEMMA PassExit ==
    ASSUME TypeInv, EmergencySellAll
    PROVE  /\ UNCHANGED <<row, cache, seen, ords, held, ui>> /\ current' = {} /\ at' = "sold"
           /\ plan' = FALSE /\ LeftTyped' /\ (Never("beside") => LiveBuys = {})
  <1>0. LeftTyped /\ "beside" \in Kinds
    BY DEF TypeInv, LeftTyped, Kinds
  <1>1. CASE LiveBuys = {}
    BY <1>0, <1>1 DEF EmergencySellAll, Writes, Go, broker, LeftTyped
  <1>2. CASE LiveBuys # {}
    <2>1. Less("beside")
      BY <1>2 DEF EmergencySellAll
    <2> QED BY <1>0, <2>1, LessTyped DEF EmergencySellAll, Writes, Go, broker
  <1> QED BY <1>1, <1>2

(* A stale card of the worker never reaches the row.                         *)
LEMMA SellSentEffect ==
    ASSUME TypeInv, SellSent
    PROVE  /\ UNCHANGED <<ords, held, seen, ui, left, plan>> /\ at' \in {"sold", "store"}
           /\ find_open_entry_order = 0
           /\ cache' \in Cards /\ cache'.status = "SELL_ALL" /\ cache'.rest = 0
           /\ cache'.qty = held
           /\ \/ row' = row /\ current' = current
              \/ row' = cache' /\ current' = {"worker"}
  <1> DEFINE n == [cache EXCEPT !.rest = 0, !.qty = held]
  <1>1. /\ n \in Cards /\ n.status = cache.status /\ n.rest = 0 /\ n.qty = held
    BY DEF TypeInv, Cards
  <1>2. /\ cache' = n /\ cache.status = "SELL_ALL" /\ find_open_entry_order = 0
        /\ UNCHANGED <<ords, held, seen, ui, left, plan>> /\ at' \in {"sold", "store"}
        /\ \/ row' = row /\ current' = current
           \/ row' = n /\ current' = {"worker"}
    BY DEF SellSent, Clear, Go, Writes, Unwritten, broker
  <1> HIDE DEF n
  <1> QED BY <1>1, <1>2

(* The two ways to a BUY.                                                    *)
LEMMA Triggered ==
    ASSUME TypeInv, EntryTriggers \/ CompletionTriggers
    PROVE  /\ UNCHANGED <<plan, seen, ords, held, ui, left>>
           /\ \E c \in Cards :
                 /\ c.status = cache.status /\ c.id = cache.id /\ c.count = cache.count
                 /\ c.rest = cache.rest /\ c.qty = cache.qty /\ (c.asked => cache.asked)
                 /\ \/ /\ at = "buy" /\ cache.status = "BUY_TODAY"
                       /\ prepare_entry_identity(c, "reconcile")
                    \/ /\ at = "complete" /\ cache.status = "OPEN_POSITION" /\ cache.rest > 0
                       /\ prepare_entry_identity(c, "sell")
  <1>0. cache \in Cards
    BY DEF TypeInv
  <1>1. CASE EntryTriggers
    <2>1. PICK a \in {cache.asked, FALSE} :
              prepare_entry_identity([cache EXCEPT !.asked = a], "reconcile")
      BY <1>1 DEF EntryTriggers, Reasons
    <2> DEFINE c == [cache EXCEPT !.asked = a]
    <2>2. /\ c \in Cards /\ c.status = cache.status /\ c.id = cache.id /\ c.count = cache.count
          /\ c.rest = cache.rest /\ c.qty = cache.qty /\ c.asked = a
      BY <1>0, Reasoned
    <2>3. prepare_entry_identity(c, "reconcile")
      BY <2>1
    <2> HIDE DEF c
    <2>4. /\ UNCHANGED <<plan, seen, ords, held, ui, left>>
          /\ at = "buy" /\ cache.status = "BUY_TODAY"
      BY <1>1 DEF EntryTriggers, broker
    <2>5. a => cache.asked
      OBVIOUS
    <2> QED BY <2>2, <2>3, <2>4, <2>5
  <1>2. CASE CompletionTriggers
    BY <1>0, <1>2 DEF CompletionTriggers, CompletionWanted, broker
  <1> QED BY <1>1, <1>2

(* Everything that takes part in a step of the system.                       *)
LEMMA Steps ==
    ASSUME [Next]_vars
    PROVE  \/ Calm \/ UNCHANGED vars
           \/ \E i \in DOMAIN ords : BrokerFills(i) \/ BrokerCancels(i)
           \/ \E cmd \in UiCommands : UiAsks(cmd)
           \/ UiWrites \/ EmergencySellAll \/ SellSent \/ Store \/ Dies \/ Send
           \/ EntryTriggers \/ CompletionTriggers
           \/ TickBreaches \/ SellWaits \/ _reconcile_entry_orders
           \/ \E listed \in Listings : Reduce(listed)
  <1> CASE UNCHANGED vars
    OBVIOUS
  <1> CASE Next
    BY DEF Next, Worker, Pass, Broker, Calm, Listings
  <1> QED OBVIOUS

LEMMA TypeKept == ASSUME TypeInv, [Next]_vars PROVE TypeInv'
  <1>0. /\ row \in Cards /\ cache \in Cards /\ current \subseteq {"worker", "ui"} /\ at \in Stages
        /\ plan \in BOOLEAN /\ seen \in Nat /\ held \in Nat /\ LeftTyped /\ OrdersTyped
        /\ ui \in UiCommands \cup {Idle}
    BY DEF TypeInv, LeftTyped, OrdersTyped
  <1>s. SUFFICES /\ row' \in Cards /\ cache' \in Cards /\ current' \subseteq {"worker", "ui"}
                 /\ at' \in Stages /\ plan' \in BOOLEAN /\ seen' \in Nat /\ held' \in Nat
                 /\ LeftTyped' /\ OrdersTyped' /\ ui' \in UiCommands \cup {Idle}
    BY DEF TypeInv, LeftTyped, OrdersTyped
  <1>u. UNCHANGED left => LeftTyped'
    BY <1>0 DEF LeftTyped
  <1>o. UNCHANGED ords => OrdersTyped'
    BY <1>0 DEF OrdersTyped
  <1>1. CASE Calm \/ UNCHANGED vars
    <2>1. /\ ords' = ords /\ row' = row /\ held' = held /\ ui' \in {ui, Idle}
          /\ current' \subseteq {"worker", "ui"} /\ at' \in Stages /\ plan' \in BOOLEAN
          /\ seen' \in Nat /\ LeftTyped' /\ cache' \in Cards
      BY <1>1, CalmTyped
    <2> QED BY <1>0, <1>o, <2>1
  <1>2. ASSUME NEW i \in DOMAIN ords, BrokerFills(i) PROVE TypeInv'
    <2>1. PICK n \in Orders : OrderFits(n) /\ ords' = [ords EXCEPT ![i] = n]
      BY <1>2, FillEffect
    <2>2. OrdersTyped'
      BY <1>0, <2>1, EditOrder DEF OrdersTyped
    <2>3. LeftTyped'
      <3>1. "missed" \in Kinds /\ (left' = left \/ Less("missed"))
        BY <1>2 DEF BrokerFills, Kinds
      <3> QED BY <1>0, <1>u, <3>1, LessTyped
    <2>4. UNCHANGED <<row, current, cache, at, plan, seen, ui>> /\ held' = held + 1
      BY <1>2 DEF BrokerFills, worker
    <2> QED BY <1>0, <2>2, <2>3, <2>4 DEF TypeInv, LeftTyped, OrdersTyped
  <1>3. ASSUME NEW i \in DOMAIN ords, BrokerCancels(i) PROVE TypeInv'
    <2>1. OrdersTyped'
      BY <1>3, BrokerEdits, EditedTyped
    <2>2. UNCHANGED <<row, current, cache, at, plan, seen, held, ui, left>>
      BY <1>3 DEF BrokerCancels, worker
    <2> QED BY <1>0, <1>u, <2>1, <2>2 DEF TypeInv, LeftTyped, OrdersTyped
  <1>4. ASSUME NEW cmd \in UiCommands, UiAsks(cmd) PROVE TypeInv'
    <2>1. /\ ui' = cmd /\ current' = current \cup {"ui"} /\ LeftTyped'
          /\ UNCHANGED <<row, cache, at, plan, seen, ords, held>>
      BY <1>4, AsksTyped
    <2> QED BY <1>0, <1>o, <2>1 DEF TypeInv, LeftTyped, OrdersTyped
  <1>5. CASE UiWrites
    <2>1. /\ UNCHANGED <<cache, at, plan, seen, ords, held, left>> /\ ui' = Idle
          /\ \/ row' = row /\ current' = current
             \/ row' = _apply_board_mutation(ui, row) /\ current' = {}
      BY <1>5 DEF UiWrites, Writes, Unwritten, worker, broker
    <2>2. _apply_board_mutation(ui, row) \in Cards
      BY <1>0, MutationEffect
    <2>3. row' \in Cards /\ current' \subseteq {"worker", "ui"}
      BY <1>0, <2>1, <2>2
    <2> QED BY <1>0, <1>o, <1>u, <2>1, <2>3
  <1>6. CASE EmergencySellAll
    <2>1. /\ UNCHANGED <<row, cache, seen, ords, held, ui>> /\ current' = {} /\ at' = "sold"
          /\ plan' = FALSE /\ LeftTyped'
      BY <1>6, PassExit
    <2>2. at' \in Stages
      BY <2>1 DEF Stages
    <2> QED BY <1>0, <1>o, <2>1, <2>2
  <1>7. CASE SellSent
    <2>1. /\ UNCHANGED <<ords, held, seen, ui, left, plan>> /\ at' \in {"sold", "store"}
          /\ cache' \in Cards
          /\ \/ row' = row /\ current' = current
             \/ row' = cache' /\ current' = {"worker"}
      BY <1>7, SellSentEffect
    <2>2. at' \in Stages
      BY <2>1 DEF Stages
    <2> QED BY <1>0, <1>o, <1>u, <2>1, <2>2
  <1>8. CASE Store
    <2>1. /\ UNCHANGED <<cache, plan, seen, ords, held, ui, left>> /\ at' = "load"
          /\ \/ row' = row /\ current' = current
             \/ row' = cache /\ current' = {"worker"}
      BY <1>8 DEF Store, Writes, Unwritten, Go, broker
    <2>2. at' \in Stages
      BY <2>1 DEF Stages
    <2> QED BY <1>0, <1>o, <1>u, <2>1, <2>2
  <1>9. CASE Dies
    <2>1. /\ row' \in Cards
          /\ current' = {} /\ at' = "startup" /\ plan' = FALSE /\ ui' = Idle
          /\ UNCHANGED <<cache, seen, ords, held>> /\ LeftTyped'
      BY <1>9, DiesEffect DEF Follows
    <2>2. at' \in Stages
      BY <2>1 DEF Stages
    <2> QED BY <1>0, <1>o, <2>1, <2>2
  <1>10. CASE Send
    <2>1. /\ row' = row /\ current' = current /\ UNCHANGED <<plan, seen, held, ui>>
          /\ at' \in {"reconcile", "sell"} /\ cache' \in Cards
          /\ TakenOn \/ TurnedDown \/ Retried \/ (cache' = cache /\ ords' = ords)
      BY <1>10, SendEffect
    <2>2. at' \in Stages
      BY <2>1 DEF Stages
    <2>3. ords' = ords \/ \E o \in Orders : Sent(o)
      BY <2>1 DEF TakenOn, TurnedDown, Retried
    <2>4. OrdersTyped'
      <3>1. ASSUME NEW o \in Orders, Sent(o) PROVE OrdersTyped'
        <4>1. /\ ords' \in Seq(Orders) /\ DOMAIN ords = 1 .. Len(ords) /\ Len(ords) \in Nat
              /\ DOMAIN ords' = 1 .. (Len(ords) + 1) /\ ords'[Len(ords) + 1] = o
              /\ \A j \in DOMAIN ords : ords'[j] = ords[j]
          BY <1>0, <3>1, AppendOrder DEF Sent, OrdersTyped
        <4>2. \A j \in DOMAIN ords' : j \in DOMAIN ords \/ j = Len(ords) + 1
          BY <4>1
        <4> QED BY <1>0, <3>1, <4>1, <4>2 DEF Sent, OrdersTyped
      <3> QED BY <1>o, <2>3, <3>1
    <2>5. LeftTyped'
      <3>1. {"unknown", "rejects", "misrouted", "aborts", "refused"} \subseteq Kinds
        BY DEF Kinds
      <3>2. \/ left' = left \/ Less("unknown") \/ Less("rejects") \/ Less("misrouted")
            \/ Less("aborts") \/ Less("refused")
        BY <1>10 DEF Send, SendAccepted, SendUnanswered, SendDuplicate, SendRejected,
               SendMisrouted, SendAborted, SendRefused, SendHeldBack
      <3> QED BY <1>0, <1>u, <3>1, <3>2, LessTyped
    <2> QED BY <1>0, <2>1, <2>2, <2>4, <2>5
  <1>11. CASE EntryTriggers \/ CompletionTriggers
    <2>1. /\ UNCHANGED <<plan, seen, ords, held, ui, left>>
          /\ \E c \in Cards : \E failed \in {"reconcile", "sell"} :
                prepare_entry_identity(c, failed)
      BY <1>11, Triggered
    <2>2. PICK c \in Cards, failed \in {"reconcile", "sell"} : prepare_entry_identity(c, failed)
      BY <2>1
    <2>3. /\ cache' \in Cards /\ at' \in {"send", failed}
          /\ \/ row' = row /\ current' = current
             \/ row' = cache' /\ current' = {"worker"}
      BY <2>2, Prepared
    <2>4. at' \in Stages
      BY <2>3 DEF Stages
    <2> QED BY <1>0, <1>o, <1>u, <2>1, <2>3, <2>4
  <1>12. CASE TickBreaches \/ SellWaits \/ _reconcile_entry_orders
    <2>1. PICK c \in Cards : Follows(c, cache') /\ Written(c) /\ Edited
      BY <1>12, CancellingSteps
    <2>2. /\ UNCHANGED <<plan, seen, held, ui>> /\ at' \in {"buy", "store", "complete"}
          /\ left' = left \/ Less("stops")
      BY <1>12 DEF TickBreaches, SellWaits, _reconcile_entry_orders, Go
    <2>3. at' \in Stages /\ "stops" \in Kinds
      BY <2>2 DEF Stages, Kinds
    <2> QED BY <1>0, <1>u, <2>1, <2>2, <2>3, EditedTyped, LessTyped DEF Follows, Written
  <1>13. ASSUME NEW listed \in Listings, Reduce(listed) PROVE TypeInv'
    <2>1. /\ row' \in Cards /\ current' \in {current, {}} /\ at' = "command" /\ plan' \in BOOLEAN
          /\ Edited /\ LeftTyped' /\ UNCHANGED <<cache, seen, held, ui>>
      BY <1>13, ReduceTyped
    <2>2. at' \in Stages
      BY <2>1 DEF Stages
    <2> QED BY <1>0, <2>1, <2>2, EditedTyped DEF TypeInv, LeftTyped, OrdersTyped
  <1>14. TypeInv' => /\ row' \in Cards /\ cache' \in Cards /\ current' \subseteq {"worker", "ui"}
                     /\ at' \in Stages /\ plan' \in BOOLEAN /\ seen' \in Nat /\ held' \in Nat
                     /\ LeftTyped' /\ OrdersTyped' /\ ui' \in UiCommands \cup {Idle}
    BY DEF TypeInv, LeftTyped, OrdersTyped
  <1> QED BY <1>1, <1>2, <1>3, <1>4, <1>5, <1>6, <1>7, <1>8, <1>9, <1>10, <1>11, <1>12, <1>13,
             <1>14, Steps

LEMMA TypeInitially == ASSUME Init PROVE TypeInv
  <1>1. Card \in Cards /\ "load" \in Stages
    BY DEF Card, Cards, Stages
  <1>2. <<>> \in Seq(Orders) /\ DOMAIN <<>> = {}
    OBVIOUS
  <1>3. left \in [Kinds -> Nat] /\ \A k \in Kinds : Never(k) => left[k] = 0
    BY EntryAssumption DEF Init, Never
  <1>4. /\ row = Card /\ cache = Card /\ current = {} /\ at = "load" /\ plan = FALSE /\ seen = 0
        /\ ords = <<>> /\ held = 0 /\ ui = Idle
    BY DEF Init
  <1> QED BY <1>1, <1>2, <1>3, <1>4 DEF TypeInv

(* The type invariant of EntryLifecycle: every step of the worker, the       *)
(* operator and the broker leaves cards, orders and stages well formed; what *)
(* works at the broker is open in the ledger.                                *)
THEOREM TypeCorrect == Spec => []TypeInv
  <1> QED BY TypeInitially, TypeKept, PTL DEF Spec

-----------------------------------------------------------------------------
(* No SELL beside a BUY.                                                     *)

LEMMA NoneOpenNoneLive ==
    ASSUME TypeInv, find_open_entry_order = 0 PROVE LiveBuys = {}
  <1>1. \A i \in DOMAIN ords : ~Live(ords[i])
    BY FindOpen DEF TypeInv, OrderFits
  <1> QED BY <1>1 DEF LiveBuys

LEMMA OnlyTheseSell ==
    ASSUME TypeInv, [Next]_vars, at' = "sold", at # "sold" PROVE EmergencySellAll \/ SellSent
  <1>1. ASSUME Calm \/ UNCHANGED vars PROVE FALSE
    BY <1>1 DEF Calm, TickQuiet, EntryWaits, CompletionWaits, NoCommand, Fetch, FetchFails, Load,
           HandedOver, Crash, SellFlat, Go, vars
  <1>2. ASSUME NEW i \in DOMAIN ords, BrokerFills(i) \/ BrokerCancels(i) PROVE FALSE
    BY <1>2 DEF BrokerFills, BrokerCancels, worker
  <1>3. ASSUME NEW cmd \in UiCommands, UiAsks(cmd) PROVE FALSE
    BY <1>3 DEF UiAsks, worker
  <1>4. ASSUME UiWrites \/ Store PROVE FALSE
    BY <1>4 DEF UiWrites, Store, Go, worker
  <1>5. ASSUME Dies PROVE FALSE
    BY <1>5, DiesEffect
  <1>6. ASSUME Send PROVE FALSE
    BY <1>6, SendEffect
  <1>7. ASSUME EntryTriggers \/ CompletionTriggers PROVE FALSE
    <2>1. \E c \in Cards : \E failed \in {"reconcile", "sell"} : prepare_entry_identity(c, failed)
      BY <1>7, Triggered
    <2> QED BY <2>1, Prepared
  <1>8. ASSUME TickBreaches \/ SellWaits \/ _reconcile_entry_orders PROVE FALSE
    BY <1>8 DEF TickBreaches, SellWaits, _reconcile_entry_orders, Go
  <1>9. ASSUME NEW listed \in Listings, Reduce(listed) PROVE FALSE
    BY <1>9 DEF Reduce, Go
  <1> QED BY <1>1, <1>2, <1>3, <1>4, <1>5, <1>6, <1>7, <1>8, <1>9, Steps

LEMMA SellStep == ASSUME TypeInv, Never("beside"), [Next]_vars PROVE SellAlone
  <1> SUFFICES ASSUME at' = "sold", at # "sold" PROVE LiveBuys = {}
    BY DEF SellAlone
  <1>1. CASE EmergencySellAll
    BY <1>1, PassExit
  <1>2. CASE SellSent
    BY <1>2, SellSentEffect, NoneOpenNoneLive
  <1> QED BY <1>1, <1>2, OnlyTheseSell

(* A liquidation that the runtime sends never goes out beside a working BUY  *)
(* of the plan, whatever is cancelled, filled, unanswered or restarted on    *)
(* the way, as long as the account pass sends no emergency sale beside one.  *)
THEOREM NoSellBesideBuy == ASSUME Never("beside") PROVE Spec => SellWaitsForBuy
  <1>1. TypeInv /\ [Next]_vars => SellAlone
    BY SellStep
  <1>2. TypeInv /\ [Next]_vars => [SellAlone]_vars
    BY <1>1
  <1> QED BY <1>2, TypeCorrect, PTL DEF Spec, SellWaitsForBuy

-----------------------------------------------------------------------------
(* The plan is not bought twice.                                             *)

(* A BUY the broker may have taken.                                          *)
Kept(o) == o.rec \notin {"ABORTED", "REJECTED"}

BuysPlan(o) ==
    /\ o.id > 0 /\ o.qty = Target /\ o.filled <= o.qty
    /\ Live(o) => o.filled < o.qty
    /\ o.st = "none" => o.filled = 0

(* At most one BUY was kept, the last; what is held was bought with it.      *)
OrdersFit(os, h) ==
    /\ \A i \in DOMAIN os : BuysPlan(os[i])
    /\ \A i \in DOMAIN os : Kept(os[i]) => i = Len(os) /\ h = os[i].filled
    /\ h # 0 => \E i \in DOMAIN os : Kept(os[i])

(* A card that waits for its BUY has no rest of its plan, and the kept BUY   *)
(* is the one it would send next; a rest is the rest of a BUY that was sent. *)
PlanFits(c, os, h) ==
    /\ c.status = "BUY_TODAY" =>
          /\ c.rest = 0 /\ c.id \in {0, c.count + 1}
          /\ \A i \in DOMAIN os : Kept(os[i]) => os[i].id = c.count + 1
    /\ c.rest > 0 => \E i \in DOMAIN os : os[i].id = c.id
    /\ c.qty <= h

SendReady ==
    at = "send" =>
        /\ cache.id # 0
        /\ \/ cache.status = "BUY_TODAY"
           \/ cache.status = "OPEN_POSITION" /\ \E i \in DOMAIN ords : ords[i].id = cache.id

SameCount ==
    at \in {"tick", "buy", "send"} /\ row.status = "BUY_TODAY" /\ cache.status = "BUY_TODAY"
        => row.count = cache.count

SeenBefore == seen # Missing => seen <= held

PlanInv ==
    /\ OrdersFit(ords, held)
    /\ PlanFits(row, ords, held) /\ PlanFits(cache, ords, held)
    /\ SendReady /\ SameCount /\ SeenBefore

LEMMA FollowsFits ==
    ASSUME NEW c \in Cards, NEW n, NEW os, NEW h, Follows(c, n), PlanFits(c, os, h)
    PROVE  PlanFits(n, os, h)
  BY DEF Follows, PlanFits, Cards

LEMMA EditedFits ==
    ASSUME TypeInv, Edited, OrdersFit(ords, held)
    PROVE  /\ OrdersFit(ords', held)
           /\ \A c \in Cards : PlanFits(c, ords, held) => PlanFits(c, ords', held)
  <1>1. /\ DOMAIN ords' = DOMAIN ords /\ Len(ords') = Len(ords)
        /\ \A i \in DOMAIN ords : Edits(ords[i], ords'[i])
    BY DEF Edited
  <1>2. \A i \in DOMAIN ords :
           /\ ords'[i].id = ords[i].id /\ ords'[i].qty = ords[i].qty
           /\ ords'[i].filled = ords[i].filled /\ (Live(ords'[i]) => Live(ords[i]))
           /\ (ords'[i].st = "none" => ords[i].st = "none")
           /\ Kept(ords'[i]) <=> Kept(ords[i])
    BY <1>1 DEF Edits, Kept, Exact
  <1>3. OrdersFit(ords', held)
    BY <1>1, <1>2 DEF OrdersFit, BuysPlan
  <1>4. ASSUME NEW c \in Cards, PlanFits(c, ords, held) PROVE PlanFits(c, ords', held)
    BY <1>1, <1>2, <1>4 DEF PlanFits
  <1> QED BY <1>3, <1>4

LEMMA PlanUnsent ==
    ASSUME PlanInv, UNCHANGED <<ords, held>>, at' # "send",
           PlanFits(row', ords, held), PlanFits(cache', ords, held), SameCount', SeenBefore'
    PROVE  PlanInv'
  BY DEF PlanInv, SendReady

LEMMA PlanFill ==
    ASSUME TypeInv, PlanInv, NEW i \in DOMAIN ords, BrokerFills(i) PROVE PlanInv'
  <1>0. /\ ords \in Seq(Orders) /\ held \in Nat /\ row \in Cards /\ cache \in Cards
        /\ seen \in Nat
    BY DEF TypeInv
  <1>1. PICK n \in Orders :
              /\ Live(ords[i]) /\ OrderFits(n) /\ ords' = [ords EXCEPT ![i] = n]
              /\ n.filled = ords[i].filled + 1 /\ n.qty = ords[i].qty /\ n.id = ords[i].id
              /\ n.rec = ords[i].rec /\ n.st # "none"
              /\ n.st = "done" <=> ords[i].filled + 1 = ords[i].qty
    BY FillEffect
  <1>2. /\ UNCHANGED <<row, cache, at, seen>> /\ held' = held + 1
    BY DEF BrokerFills, worker
  <1>3. /\ DOMAIN ords' = DOMAIN ords /\ Len(ords') = Len(ords)
        /\ ords'[i] = n /\ \A j \in DOMAIN ords : j # i => ords'[j] = ords[j]
    BY <1>0, <1>1, EditOrder
  <1>4. Kept(ords[i]) /\ Kept(n)
    BY <1>1 DEF TypeInv, OrderFits, OpenRec, Kept
  <1>5. i = Len(ords) /\ held = ords[i].filled /\ BuysPlan(ords[i])
    BY <1>4 DEF PlanInv, OrdersFit
  <1>6. \A j \in DOMAIN ords : Kept(ords[j]) => j = i
    BY <1>5 DEF PlanInv, OrdersFit
  <1>7. BuysPlan(n)
    <2>1. ords[i].filled \in Nat /\ ords[i].qty \in Nat /\ ords[i].filled < ords[i].qty
      BY <1>0, <1>1, <1>5 DEF BuysPlan, Orders
    <2>2. Live(n) => n.filled # n.qty
      BY <1>1 DEF Live
    <2> QED BY <1>1, <1>5, <2>1, <2>2 DEF BuysPlan
  <1>8. \A j \in DOMAIN ords' : BuysPlan(ords'[j])
    BY <1>3, <1>7 DEF PlanInv, OrdersFit
  <1>9. \A j \in DOMAIN ords' : Kept(ords'[j]) => j = Len(ords') /\ held' = ords'[j].filled
    BY <1>1, <1>2, <1>3, <1>5, <1>6
  <1>10. OrdersFit(ords', held')
    BY <1>3, <1>4, <1>8, <1>9 DEF OrdersFit
  <1>11. \A j \in DOMAIN ords : ords'[j].id = ords[j].id /\ (Kept(ords'[j]) <=> Kept(ords[j]))
    BY <1>1, <1>3, <1>4
  <1>12. ASSUME NEW c \in Cards, PlanFits(c, ords, held) PROVE PlanFits(c, ords', held')
    <2>1. c.qty <= held'
      <3>1. c.qty \in Nat /\ c.qty <= held
        BY <1>12 DEF PlanFits, Cards
      <3> QED BY <1>0, <1>2, <3>1
    <2> QED BY <1>3, <1>11, <1>12, <2>1 DEF PlanFits
  <1>13. PlanFits(row', ords', held') /\ PlanFits(cache', ords', held')
    BY <1>0, <1>2, <1>12 DEF PlanInv
  <1>14. SendReady' /\ SameCount' /\ SeenBefore'
    BY <1>0, <1>2, <1>3, <1>11 DEF PlanInv, SendReady, SameCount, SeenBefore, Missing
  <1> QED BY <1>10, <1>13, <1>14 DEF PlanInv

(* Only the first BUY of a plan that the broker may have taken is a new one. *)
LEMMA FirstBuy ==
    ASSUME TypeInv, PlanInv, at = "send", NEW o \in Orders, Sent(o)
    PROVE  /\ Waiting /\ cache.status = "BUY_TODAY" /\ cache.id = cache.count + 1
           /\ cache.rest = 0 /\ cache.qty = 0 /\ cache.id # 0 /\ held = 0
           /\ o.id = cache.id /\ o.qty = Target /\ o.filled = 0 /\ OrderFits(o)
           /\ \A i \in DOMAIN ords : ~Kept(ords[i])
           /\ ords' # ords /\ DOMAIN ords \subseteq DOMAIN ords'
           /\ Len(ords') \in DOMAIN ords' /\ ords'[Len(ords')] = o
           /\ \A j \in DOMAIN ords' : \/ j \in DOMAIN ords /\ ords'[j] = ords[j]
                                      \/ j = Len(ords') /\ ords'[j] = o
  <1>0. /\ ords \in Seq(Orders) /\ cache \in Cards /\ held \in Nat
        /\ DOMAIN ords = 1 .. Len(ords) /\ Len(ords) \in Nat
    BY DEF TypeInv
  <1>1. /\ cache.id # 0 /\ PlanFits(cache, ords, held) /\ OrdersFit(ords, held)
        /\ cache.status = "BUY_TODAY" \/ cache.id \in Ids
    BY DEF PlanInv, SendReady, Ids
  <1>2. /\ Waiting /\ cache.status = "BUY_TODAY" /\ cache.id = cache.count + 1 /\ cache.rest = 0
        /\ o.id = cache.id /\ o.qty = Target /\ o.filled = 0 /\ OrderFits(o)
    BY <1>1 DEF Sent, PlanFits, Waiting
  <1>3. \A i \in DOMAIN ords : ~Kept(ords[i])
    BY <1>1, <1>2 DEF Sent, PlanFits, Ids
  <1>4. held = 0 /\ cache.qty = 0
    BY <1>0, <1>1, <1>3 DEF OrdersFit, PlanFits, Cards
  <1>5. /\ Len(ords') = Len(ords) + 1 /\ DOMAIN ords' = 1 .. (Len(ords) + 1)
        /\ ords'[Len(ords) + 1] = o /\ \A j \in DOMAIN ords : ords'[j] = ords[j]
    BY <1>0, AppendOrder DEF Sent
  <1>6. /\ \A j \in DOMAIN ords' : \/ j \in DOMAIN ords /\ ords'[j] = ords[j]
                                   \/ j = Len(ords') /\ ords'[j] = o
        /\ ords' # ords /\ DOMAIN ords \subseteq DOMAIN ords' /\ Len(ords') \in DOMAIN ords'
    BY <1>0, <1>5
  <1> QED BY <1>1, <1>2, <1>3, <1>4, <1>5, <1>6

(* The answer of the gateway: only the first BUY of a plan is a new one.     *)
LEMMA PlanSent ==
    ASSUME TypeInv, PlanInv, Send, Never("refused") PROVE PlanInv'
  <1>0. /\ ords \in Seq(Orders) /\ held \in Nat /\ row \in Cards /\ cache \in Cards
        /\ DOMAIN ords = 1 .. Len(ords) /\ Len(ords) \in Nat
    BY DEF TypeInv
  <1>1. /\ at = "send" /\ row' = row /\ UNCHANGED <<seen, held>>
        /\ at' \in {"reconcile", "sell"} /\ cache' \in Cards /\ cache'.qty = cache.qty
        /\ TakenOn \/ TurnedDown \/ Retried \/ (cache' = cache /\ ords' = ords)
    BY SendEffect
  <1>2. SendReady' /\ SameCount' /\ SeenBefore'
    BY <1>1 DEF SendReady, SameCount, SeenBefore, PlanInv, Missing
  <1>3. /\ cache.id # 0 /\ PlanFits(cache, ords, held) /\ PlanFits(row, ords, held)
        /\ Waiting \/ (cache.status = "OPEN_POSITION" /\ cache.id \in Ids)
        /\ OrdersFit(ords, held)
    BY <1>1 DEF PlanInv, SendReady, Waiting, Ids
  <1>4. CASE ords' = ords
    <2>1. PlanFits(cache', ords, held)
      <3>1. CASE TakenOn
        <4>1. cache'.status # "BUY_TODAY" /\ cache'.id = cache.id /\ cache'.rest = cache.rest
          BY <1>3, <3>1 DEF TakenOn, Waiting
        <4> QED BY <1>1, <1>3, <4>1 DEF PlanFits
      <3>2. CASE TurnedDown
        <4>1. cache'.status # "BUY_TODAY" /\ cache'.rest = 0
          BY <3>2 DEF TurnedDown
        <4> QED BY <1>1, <1>3, <4>1 DEF PlanFits
      <3>3. CASE Retried
        <4>1. ~\E o \in Orders : Sent(o)
          <5>1. ASSUME NEW o \in Orders, ords' = Append(ords, o) PROVE FALSE
            <6>1. Len(ords') = Len(ords) + 1
              BY <1>0, <5>1, AppendOrder
            <6> QED BY <1>0, <1>4, <6>1
          <5> QED BY <5>1 DEF Sent
        <4>2. /\ cache'.status = "BUY_TODAY" /\ cache'.rest = cache.rest /\ cache'.id = 0
              /\ cache'.count = cache.count /\ cache.status = "BUY_TODAY"
          BY <3>3, <4>1 DEF Retried, Waiting
        <4> QED BY <1>1, <1>3, <4>2 DEF PlanFits
      <3>4. CASE cache' = cache
        BY <1>3, <3>4
      <3> QED BY <1>1, <3>1, <3>2, <3>3, <3>4
    <2> QED BY <1>1, <1>2, <1>3, <1>4, <2>1 DEF PlanInv
  <1>5. ASSUME NEW o \in Orders, Sent(o) PROVE PlanInv'
    <2>1. /\ Waiting /\ cache.status = "BUY_TODAY" /\ cache.id = cache.count + 1 /\ cache.rest = 0
          /\ o.id = cache.id /\ o.qty = Target /\ o.filled = 0 /\ OrderFits(o)
      BY <1>1, <1>5, FirstBuy
    <2>2. /\ \A i \in DOMAIN ords : ~Kept(ords[i])
          /\ held = 0 /\ ords' # ords
      BY <1>1, <1>5, FirstBuy
    <2>4. ords'[Len(ords')] = o
      BY <1>1, <1>5, FirstBuy
    <2>5. \A j \in DOMAIN ords' : (j \in DOMAIN ords /\ ords'[j] = ords[j])
                                  \/ (j = Len(ords') /\ ords'[j] = o)
      BY <1>1, <1>5, FirstBuy
    <2>6. BuysPlan(o)
      BY <1>0, <1>3, <2>1, EntryAssumption DEF BuysPlan, Cards
    <2>7. OrdersFit(ords', held')
      BY <1>1, <1>3, <2>1, <2>2, <2>5, <2>6 DEF OrdersFit
    <2>8. \A i \in DOMAIN ords : ords'[i] = ords[i] /\ i \in DOMAIN ords'
      BY <1>0, <1>5, AppendOrder DEF Sent
    <2>9. PlanFits(row', ords', held')
      <3>1. row.status = "BUY_TODAY" => row.count + 1 = o.id
        BY <1>1, <2>1 DEF PlanInv, SameCount
      <3> QED BY <1>1, <1>3, <2>2, <2>5, <2>8, <3>1 DEF PlanFits
    <2>10. PlanFits(cache', ords', held')
      <3>1. CASE cache'.status # "BUY_TODAY" /\ cache'.rest = 0
        BY <1>1, <1>3, <3>1 DEF PlanFits
      <3>2. CASE Retried
        <4>1. /\ cache'.status = "BUY_TODAY" /\ cache'.rest = 0 /\ cache'.id = 0
          BY <2>1, <3>2 DEF Retried
        <4>3. \E p \in Orders : Sent(p) /\ p.rec \in {"REJECTED", "ABORTED"}
          BY <2>2, <3>2 DEF Retried
        <4>4. o.rec \in {"REJECTED", "ABORTED"}
          <5>1. ASSUME NEW p \in Orders, Sent(p) PROVE p = o
            BY <1>1, <2>4, <5>1, FirstBuy
          <5> QED BY <4>3, <5>1
        <4>5. \A i \in DOMAIN ords' : ~Kept(ords'[i])
          BY <2>2, <2>5, <4>4 DEF Kept
        <4> QED BY <1>1, <1>3, <4>1, <4>5 DEF PlanFits
      <3>3. CASE TakenOn
        BY <2>1, <3>1, <3>3 DEF TakenOn
      <3>4. CASE TurnedDown
        BY <3>1, <3>4 DEF TurnedDown
      <3> QED BY <1>1, <2>2, <3>2, <3>3, <3>4
    <2> QED BY <1>2, <2>7, <2>9, <2>10 DEF PlanInv
  <1>6. ords' = ords \/ \E o \in Orders : Sent(o)
    BY <1>1 DEF TakenOn, TurnedDown, Retried
  <1> QED BY <1>4, <1>5, <1>6

LEMMA PlanPass ==
    ASSUME TypeInv, PlanInv, NEW listed \in Listings, Reduce(listed) PROVE PlanInv'
  <1> DEFINE S == {c \in Cards : PlanFits(c, ords, held)}
  <1>0. /\ row \in Cards /\ cache \in Cards /\ seen \in Nat /\ held \in Nat
        /\ OrdersFit(ords, held)
        /\ \A i \in DOMAIN ords : ords[i] \in Orders
    BY DEF TypeInv, PlanInv, OrderFits
  <1>1. ASSUME NEW of \in {"local", "broker"}, NEW c \in S, NEW i \in DOMAIN ords
        PROVE  ProjectOrder(of, c, ords[i]) \in S
    <2> DEFINE o == ords[i]
               n == ProjectOrder(of, c, o)
    <2>1. Onward(of, c, o, n)
      BY <1>0, OrderOnward
    <2>2. Exact(o) => held = o.filled
      BY <1>0 DEF OrdersFit, Exact, Kept
    <2>3. c \in Cards /\ PlanFits(c, ords, held)
      OBVIOUS
    <2> HIDE DEF n
    <2>4. n.qty \in {c.qty, o.filled} \/ (n.qty = seen /\ seen # Missing) => n.qty <= held
      <3>1. n.qty = c.qty => n.qty <= held
        BY <2>3 DEF PlanFits
      <3>2. n.qty = seen /\ seen # Missing => n.qty <= held
        BY DEF PlanInv, SeenBefore
      <3>3. o.filled <= held
        <4>1. CASE Kept(o)
          BY <1>0, <4>1 DEF OrdersFit
        <4>2. CASE ~Kept(o)
          <5>1. o.st = "none" /\ BuysPlan(o)
            BY <1>0, <4>2 DEF TypeInv, OrderFits, OrdersFit, Kept
          <5> QED BY <1>0, <5>1 DEF BuysPlan
        <4> QED BY <4>1, <4>2
      <3> QED BY <3>1, <3>2, <3>3
    <2>5. n \in Cards /\ n.qty <= held
      BY <2>1, <2>4 DEF Onward
    <2>6. n = c \/ n.status # "BUY_TODAY"
      BY <2>1 DEF Onward
    <2>7. n.rest > 0 => \E j \in DOMAIN ords : ords[j].id = n.id
      <3>1. n.rest = 0 \/ n.id = o.id \/ (n.rest = c.rest /\ n.id = c.id)
        BY <2>1 DEF Onward
      <3> QED BY <2>3, <2>5, <3>1 DEF PlanFits, Cards
    <2>8. PlanFits(n, ords, held)
      BY <2>3, <2>5, <2>6, <2>7 DEF PlanFits
    <2> QED BY <2>5, <2>8 DEF n
  <1>2. row \in S
    BY <1>0 DEF PlanInv
  <1> HIDE DEF S
  <1>3. Projected("local", row, Listing(listed, ords)) \in S
    BY <1>1, <1>2, OrdersKeep
  <1>4. PICK c \in S : row' = ProjectHolding(c)
    BY <1>1, <1>3, ReduceKeeps
  <1>5. PlanFits(row', ords, held) /\ row' \in Cards
    <2>1. c \in Cards /\ PlanFits(c, ords, held)
      BY DEF S
    <2>2. HoldingOnward(c, row')
      BY <1>0, <1>4, <2>1, HoldingEffect
    <2>3. row'.qty <= held
      BY <1>0, <2>1, <2>2 DEF HoldingOnward, PlanFits, PlanInv, SeenBefore
    <2> QED BY <2>1, <2>2, <2>3 DEF HoldingOnward, PlanFits
  <1>6. /\ Edited /\ at' = "command" /\ UNCHANGED <<cache, seen, held>>
    BY ReduceTyped
  <1>7. PlanFits(row', ords', held') /\ PlanFits(cache', ords', held') /\ OrdersFit(ords', held')
    BY <1>0, <1>5, <1>6, EditedFits DEF PlanInv
  <1> QED BY <1>6, <1>7 DEF PlanInv, SendReady, SameCount, SeenBefore, Missing

LEMMA PlanTriggered ==
    ASSUME TypeInv, PlanInv, EntryTriggers \/ CompletionTriggers PROVE PlanInv'
  <1>1. UNCHANGED <<plan, seen, ords, held, ui, left>>
    BY Triggered
  <1>2. PICK c \in Cards :
           /\ c.status = cache.status /\ c.id = cache.id /\ c.count = cache.count
           /\ c.rest = cache.rest /\ c.qty = cache.qty
           /\ \/ /\ at = "buy" /\ cache.status = "BUY_TODAY"
                 /\ prepare_entry_identity(c, "reconcile")
              \/ /\ at = "complete" /\ cache.status = "OPEN_POSITION" /\ cache.rest > 0
                 /\ prepare_entry_identity(c, "sell")
    BY Triggered
  <1>3. PICK failed \in {"reconcile", "sell"} : prepare_entry_identity(c, failed)
    BY <1>2
  <1>4. /\ cache' \in Cards /\ cache'.status = c.status /\ cache'.rest = c.rest
        /\ cache'.qty = c.qty /\ cache'.count = c.count
        /\ \/ c.id # 0 /\ cache' = c /\ row' = row /\ at' = "send"
           \/ /\ c.id = 0 /\ cache'.id = c.count + 1
              /\ row' = cache' /\ at' = "send"
           \/ /\ c.id = 0 /\ cache'.id = c.count + 1
              /\ row' = row /\ at' = failed
    BY <1>3, Prepared
  <1>5. PlanFits(cache, ords, held) /\ PlanFits(row, ords, held) /\ OrdersFit(ords, held)
        /\ SeenBefore' /\ cache \in Cards
    BY <1>1 DEF PlanInv, SeenBefore, Missing, TypeInv
  <1>6. CASE cache.status = "BUY_TODAY"
    <2>1. PlanFits(cache', ords, held)
      BY <1>2, <1>4, <1>5, <1>6 DEF PlanFits
    <2>2. PlanFits(row', ords, held)
      BY <1>4, <1>5, <2>1
    <2>3. SendReady'
      <3>1. cache'.id # 0
        BY <1>4 DEF Cards
      <3> QED BY <1>2, <1>4, <1>6, <3>1 DEF SendReady
    <2>4. SameCount'
      <3>1. row.status = "BUY_TODAY" => row.count = cache.count
        BY <1>2, <1>6 DEF PlanInv, SameCount
      <3> QED BY <1>2, <1>4, <3>1 DEF SameCount
    <2> QED BY <1>1, <1>5, <2>1, <2>2, <2>3, <2>4 DEF PlanInv
  <1>7. CASE cache.status = "OPEN_POSITION" /\ cache.rest > 0
    <2>1. PICK i \in DOMAIN ords : ords[i].id = cache.id
      BY <1>5, <1>7 DEF PlanFits
    <2>2. cache.id # 0
      BY <1>5, <2>1 DEF OrdersFit, BuysPlan
    <2>3. cache' = c /\ row' = row /\ at' = "send"
      BY <1>2, <1>4, <2>2
    <2>4. PlanFits(cache', ords, held)
      BY <1>2, <1>4, <1>5, <1>7, <2>1, <2>3 DEF PlanFits
    <2>5. SendReady' /\ SameCount'
      BY <1>1, <1>2, <1>7, <2>1, <2>2, <2>3 DEF SendReady, SameCount
    <2> QED BY <1>1, <1>5, <2>3, <2>4, <2>5 DEF PlanInv
  <1> QED BY <1>2, <1>6, <1>7

LEMMA PlanKept ==
    ASSUME TypeInv, PlanInv, [Next]_vars, Never("refused") PROVE PlanInv'
  <1>0. /\ OrdersFit(ords, held) /\ PlanFits(row, ords, held) /\ PlanFits(cache, ords, held)
        /\ row \in Cards /\ cache \in Cards /\ held \in Nat /\ Missing' = Missing
    BY DEF PlanInv, TypeInv, Missing
  <1>1. CASE Calm \/ UNCHANGED vars
    <2>1. ords' = ords /\ row' = row /\ held' = held
      BY <1>1, CalmTyped
    <2>2. SeenBefore'
      <3>1. seen' \in {seen, held, Missing}
        BY <1>1 DEF Calm, TickQuiet, EntryWaits, CompletionWaits, NoCommand, Fetch, FetchFails,
               Load, HandedOver, Crash, SellFlat, vars
      <3> QED BY <1>0, <2>1, <3>1 DEF SeenBefore, PlanInv
    <2>3. PlanFits(cache', ords, held)
      <3>1. CASE cache' \in {cache, row}
        BY <1>0, <3>1
      <3>2. CASE EntryWaits
        <4>1. cache' = cache \/ \E a \in {cache.asked, FALSE} : cache' = [cache EXCEPT !.asked = a]
          BY <3>2 DEF EntryWaits, Reasons
        <4>2. /\ cache'.status = cache.status /\ cache'.id = cache.id /\ cache'.qty = cache.qty
              /\ cache'.count = cache.count /\ cache'.rest = cache.rest
          <5>1. ASSUME NEW a \in {cache.asked, FALSE}, cache' = [cache EXCEPT !.asked = a]
                PROVE  /\ cache'.status = cache.status /\ cache'.id = cache.id
                       /\ cache'.qty = cache.qty /\ cache'.count = cache.count
                       /\ cache'.rest = cache.rest
            BY <1>0, <5>1, Reasoned
          <5> QED BY <4>1, <5>1
        <4> QED BY <1>0, <4>2 DEF PlanFits
      <3>3. CASE SellFlat
        <4>1. cache'.status = "CLOSED" /\ cache'.rest = 0 /\ cache'.qty = 0
          BY <1>0, <3>3, Flat DEF SellFlat
        <4> QED BY <1>0, <4>1 DEF PlanFits
      <3> QED BY <1>1, <3>1, <3>2, <3>3 DEF Calm, TickQuiet, CompletionWaits, NoCommand, Fetch,
             FetchFails, Load, HandedOver, Crash, vars
    <2>4. SendReady' /\ SameCount'
      <3>1. CASE UNCHANGED <<at, cache>>
        BY <2>1, <3>1 DEF PlanInv, SendReady, SameCount
      <3>2. CASE at' = "buy" /\ at = "tick" /\ cache' = cache
        BY <2>1, <3>2 DEF PlanInv, SendReady, SameCount
      <3>3. CASE at' = "tick" /\ cache' = row
        BY <2>1, <3>3 DEF SendReady, SameCount
      <3>4. CASE at' \notin {"tick", "buy", "send"}
        BY <3>4 DEF SendReady, SameCount
      <3> QED BY <1>1, <3>1, <3>2, <3>3, <3>4 DEF Calm, TickQuiet, EntryWaits, CompletionWaits,
             NoCommand, Fetch, FetchFails, Load, HandedOver, Crash, SellFlat, Go, vars
    <2> QED BY <1>0, <2>1, <2>2, <2>3, <2>4 DEF PlanInv
  <1>2. ASSUME NEW i \in DOMAIN ords, BrokerFills(i) PROVE PlanInv'
    BY <1>2, PlanFill
  <1>3. ASSUME NEW i \in DOMAIN ords, BrokerCancels(i) PROVE PlanInv'
    <2>1. Edited
      BY <1>3, BrokerEdits
    <2>2. UNCHANGED <<row, cache, at, seen, held>>
      BY <1>3 DEF BrokerCancels, worker
    <2>3. /\ OrdersFit(ords', held') /\ PlanFits(row', ords', held')
          /\ PlanFits(cache', ords', held')
      BY <1>0, <2>1, <2>2, EditedFits
    <2>4. SendReady'
      BY <2>1, <2>2 DEF Edited, Edits, PlanInv, SendReady
    <2> QED BY <2>2, <2>3, <2>4 DEF PlanInv, SameCount, SeenBefore, Missing
  <1>4. ASSUME NEW cmd \in UiCommands, UiAsks(cmd) PROVE PlanInv'
    <2>1. UNCHANGED <<row, cache, at, seen, ords, held>>
      BY <1>4, AsksTyped
    <2> QED BY <2>1 DEF PlanInv, SendReady, SameCount, SeenBefore, Missing
  <1>5. CASE UiWrites
    <2>1. /\ UNCHANGED <<cache, at, plan, seen, ords, held, left>>
          /\ row' = row \/ row' = _apply_board_mutation(ui, row)
      BY <1>5 DEF UiWrites, Writes, Unwritten, worker, broker
    <2>2. /\ row'.qty = row.qty /\ row'.rest = row.rest /\ row'.id = row.id
          /\ row'.status = "BUY_TODAY" => row'.status = row.status /\ row'.count = row.count
      BY <1>0, <2>1, MutationEffect
    <2>3. PlanFits(row', ords, held)
      BY <1>0, <2>2 DEF PlanFits
    <2>4. SendReady' /\ SameCount' /\ SeenBefore'
      BY <2>1, <2>2 DEF PlanInv, SendReady, SameCount, SeenBefore, Missing
    <2> QED BY <1>0, <2>1, <2>3, <2>4 DEF PlanInv
  <1>6. CASE EmergencySellAll
    <2>1. UNCHANGED <<row, cache, seen, ords, held>> /\ at' = "sold"
      BY <1>6, PassExit
    <2>2. SameCount' /\ SeenBefore'
      BY <2>1 DEF PlanInv, SameCount, SeenBefore, Missing
    <2> QED BY <1>0, <2>1, <2>2, PlanUnsent
  <1>7. CASE SellSent
    <2>1. /\ UNCHANGED <<ords, held, seen>> /\ at' \in {"sold", "store"}
          /\ cache'.status = "SELL_ALL" /\ cache'.rest = 0 /\ cache'.qty = held
          /\ row' \in {row, cache'}
      BY <1>7, SellSentEffect
    <2>2. PlanFits(cache', ords, held)
      BY <1>0, <2>1 DEF PlanFits
    <2>3. SameCount' /\ SeenBefore'
      BY <2>1 DEF PlanInv, SameCount, SeenBefore, Missing
    <2> QED BY <1>0, <2>1, <2>2, <2>3, PlanUnsent
  <1>8. CASE Store
    <2>1. /\ UNCHANGED <<cache, seen, ords, held>> /\ at' = "load" /\ row' \in {row, cache}
      BY <1>8 DEF Store, Writes, Unwritten, Go, broker
    <2>2. SameCount' /\ SeenBefore'
      BY <2>1 DEF PlanInv, SameCount, SeenBefore, Missing
    <2> QED BY <1>0, <2>1, <2>2, PlanUnsent
  <1>9. CASE Dies
    <2>1. PICK c \in Cards : ForExit(c) /\ Follows(c, row')
      BY <1>9, DiesEffect
    <2>2. at' = "startup" /\ UNCHANGED <<cache, seen, ords, held>>
      BY <1>9, DiesEffect
    <2>3. PlanFits(c, ords, held)
      BY <1>0, <2>1 DEF ForExit, PlanFits
    <2>4. SameCount' /\ SeenBefore'
      BY <2>2 DEF PlanInv, SameCount, SeenBefore, Missing
    <2> QED BY <1>0, <2>1, <2>2, <2>3, <2>4, FollowsFits, PlanUnsent
  <1>10. CASE Send
    BY <1>10, PlanSent
  <1>11. CASE EntryTriggers \/ CompletionTriggers
    BY <1>11, PlanTriggered
  <1>12. CASE TickBreaches \/ SellWaits \/ _reconcile_entry_orders
    <2>1. PICK c \in Cards :
              /\ \/ c = cache
                 \/ /\ c.status = "SELL_ALL" /\ c.id = cache.id /\ c.count = cache.count
                    /\ c.rest = cache.rest /\ c.qty = cache.qty /\ c.asked = cache.asked
              /\ Follows(c, cache') /\ Written(c) /\ Edited
      BY <1>12, CancellingSteps
    <2>2. /\ UNCHANGED <<seen, held>>
          /\ at' \in {"store", "complete"} \/ (at' = "buy" /\ cache.status = "OPEN_POSITION")
      BY <1>12 DEF TickBreaches, SellWaits, _reconcile_entry_orders, Go, Breached
    <2>3. PlanFits(c, ords, held)
      BY <1>0, <2>1 DEF PlanFits
    <2>4. PlanFits(cache', ords, held) /\ PlanFits(row', ords, held)
      BY <1>0, <2>1, <2>3, FollowsFits DEF Written
    <2>5. cache' \in Cards /\ row' \in Cards
      BY <1>0, <2>1 DEF Follows, Written
    <2>6. /\ OrdersFit(ords', held') /\ PlanFits(row', ords', held')
          /\ PlanFits(cache', ords', held')
      BY <1>0, <2>1, <2>2, <2>4, <2>5, EditedFits
    <2>7. SendReady' /\ SameCount' /\ SeenBefore'
      BY <2>1, <2>2 DEF PlanInv, SendReady, SameCount, SeenBefore, Missing, Follows
    <2> QED BY <2>6, <2>7 DEF PlanInv
  <1>13. ASSUME NEW listed \in Listings, Reduce(listed) PROVE PlanInv'
    BY <1>13, PlanPass
  <1> QED BY <1>1, <1>2, <1>3, <1>4, <1>5, <1>6, <1>7, <1>8, <1>9, <1>10, <1>11, <1>12, <1>13,
             Steps

LEMMA PlanInitially == ASSUME Init PROVE PlanInv
  <1>1. /\ Card.status = "BUY_TODAY" /\ Card.rest = 0 /\ Card.id = 0 /\ Card.qty = 0
        /\ DOMAIN <<>> = {}
    BY DEF Card
  <1>2. /\ row = Card /\ cache = Card /\ at = "load" /\ seen = 0 /\ ords = <<>> /\ held = 0
    BY DEF Init
  <1>3. PlanFits(Card, ords, held) /\ OrdersFit(ords, held)
    BY <1>1, <1>2 DEF PlanFits, OrdersFit
  <1> QED BY <1>2, <1>3 DEF PlanInv, SendReady, SameCount, SeenBefore

LEMMA PlanBound == ASSUME TypeInv, PlanInv PROVE BoughtWithinPlan
  <1>0. /\ OrdersFit(ords, held) /\ held \in Nat /\ Target \in Nat
        /\ \A i \in DOMAIN ords : ords[i] \in Orders /\ OrderFits(ords[i])
        /\ DOMAIN ords = 1 .. Len(ords) /\ Len(ords) \in Nat
    BY EntryAssumption DEF TypeInv, PlanInv, OrderFits
  <1>1. \A i \in DOMAIN ords : ~Kept(ords[i]) => Remaining(ords[i]) = 0
    BY <1>0 DEF OrderFits, OpenRec, Kept, Remaining
  <1>2. CASE \A i \in DOMAIN ords : ~Kept(ords[i])
    <2>1. StillToCome = {}
      BY <1>1, <1>2 DEF StillToCome
    <2>2. held = 0
      BY <1>0, <1>2 DEF OrdersFit
    <2> QED BY <1>0, <2>1, <2>2, FS_EmptySet DEF BoughtWithinPlan
  <1>3. CASE \E i \in DOMAIN ords : Kept(ords[i])
    <2>1. PICK i \in DOMAIN ords : Kept(ords[i])
      BY <1>3
    <2> DEFINE r == Remaining(ords[i])
    <2>2. \A j \in DOMAIN ords : j # i => Remaining(ords[j]) = 0
      BY <1>0, <1>1, <2>1 DEF OrdersFit
    <2>3. held = ords[i].filled /\ BuysPlan(ords[i])
      BY <1>0, <2>1 DEF OrdersFit
    <2>4. r \in Nat /\ held + r <= Target
      BY <1>0, <2>3 DEF BuysPlan, Remaining, Orders
    <2>5. StillToCome = {i} \X (1 .. r)
      <3>1. \A j \in DOMAIN ords : j # i => 1 .. Remaining(ords[j]) = {}
        BY <2>2
      <3> QED BY <3>1 DEF StillToCome
    <2> HIDE DEF r
    <2>6. IsFiniteSet(1 .. r) /\ Cardinality(1 .. r) = r
      BY <2>4, FS_Interval
    <2>7. IsFiniteSet({i}) /\ Cardinality({i}) = 1
      BY FS_Singleton
    <2>8. Cardinality({i} \X (1 .. r)) = r
      <3>1. Cardinality({i} \X (1 .. r)) = Cardinality({i}) * Cardinality(1 .. r)
        BY <2>6, <2>7, FS_Product, Zenon
      <3> QED BY <2>4, <2>6, <2>7, <3>1
    <2> QED BY <2>4, <2>5, <2>8 DEF BoughtWithinPlan
  <1> QED BY <1>2, <1>3

(* What is held and what the working BUYs may still add never exceed the     *)
(* plan, whatever is retried, unanswered, cancelled, completed or restarted, *)
(* as long as no completion is refused before anything is written: then the  *)
(* identity of the sent BUY is forgotten, and the rest is bought a second    *)
(* time.                                                                     *)
THEOREM PlanIsBoughtOnce == ASSUME Never("refused") PROVE Spec => []BoughtWithinPlan
  <1>1. Init => TypeInv /\ PlanInv
    BY TypeInitially, PlanInitially
  <1>2. TypeInv /\ PlanInv /\ [Next]_vars => (TypeInv /\ PlanInv)'
    BY TypeKept, PlanKept
  <1>3. TypeInv /\ PlanInv => BoughtWithinPlan
    BY PlanBound
  <1> QED BY <1>1, <1>2, <1>3, PTL DEF Spec

-----------------------------------------------------------------------------
(* What is cancelled is not bought.                                          *)

NotAsked(c) == c.status = "BUY_TODAY" => ~c.asked

AskedInv ==
    /\ NotAsked(row) /\ NotAsked(cache)
    /\ "ui" \in current /\ ui = "CancelEntry" /\ row.status = "BUY_TODAY" => row.id = 0

LEMMA AskedPass ==
    ASSUME TypeInv, AskedInv, NEW listed \in Listings, Reduce(listed) PROVE AskedInv'
  <1> DEFINE S == {c \in Cards : NotAsked(c)}
  <1>0. row \in Cards /\ seen \in Nat /\ \A i \in DOMAIN ords : ords[i] \in Orders
    BY DEF TypeInv, OrderFits
  <1>1. ASSUME NEW of \in {"local", "broker"}, NEW c \in S, NEW i \in DOMAIN ords
        PROVE  ProjectOrder(of, c, ords[i]) \in S
    <2> DEFINE n == ProjectOrder(of, c, ords[i])
    <2>1. Onward(of, c, ords[i], n)
      BY <1>0, OrderOnward
    <2> HIDE DEF n
    <2>2. n \in Cards /\ (n = c \/ n.status # "BUY_TODAY")
      BY <2>1 DEF Onward
    <2>3. n \in S
      BY <2>2 DEF NotAsked
    <2> QED BY <2>3 DEF n
  <1>2. row \in S
    BY <1>0 DEF AskedInv
  <1> HIDE DEF S
  <1>3. Projected("local", row, Listing(listed, ords)) \in S
    BY <1>1, <1>2, OrdersKeep
  <1>4. PICK c \in S : row' = ProjectHolding(c)
    BY <1>1, <1>3, ReduceKeeps
  <1>5. NotAsked(row')
    <2>1. c \in Cards /\ NotAsked(c)
      BY DEF S
    <2>2. HoldingOnward(c, row')
      BY <1>0, <1>4, <2>1, HoldingEffect
    <2> QED BY <2>1, <2>2 DEF HoldingOnward, NotAsked
  <1>6. "ui" \in current' => row' = row /\ "ui" \in current
    BY DEF Reduce, Writes, Unwritten
  <1> QED BY <1>5, <1>6, ReduceTyped DEF AskedInv

LEMMA AskedKept ==
    ASSUME TypeInv, AskedInv, [Next]_vars, Never("waiting") PROVE AskedInv'
  <1>0. /\ NotAsked(row) /\ NotAsked(cache) /\ row \in Cards /\ cache \in Cards
        /\ ui \in UiCommands \cup {Idle}
    BY DEF AskedInv, TypeInv
  <1>s. ASSUME NotAsked(row'), NotAsked(cache'),
               \/ "ui" \notin current' \/ ui' = Idle
               \/ row' = row /\ ui' = ui /\ ("ui" \in current' => "ui" \in current)
        PROVE  AskedInv'
    BY <1>s DEF AskedInv, Idle
  <1>1. CASE Calm \/ UNCHANGED vars
    <2>1. row' = row
      BY <1>1, CalmTyped
    <2>2. NotAsked(cache')
      <3>1. CASE cache' \in {cache, row}
        BY <1>0, <3>1
      <3>2. CASE EntryWaits
        <4>1. cache' = cache \/ \E a \in {cache.asked, FALSE} : cache' = [cache EXCEPT !.asked = a]
          BY <3>2 DEF EntryWaits, Reasons
        <4>2. ASSUME NEW a \in {cache.asked, FALSE}, cache' = [cache EXCEPT !.asked = a]
              PROVE  cache'.status = cache.status /\ cache'.asked = a
          BY <1>0, <4>2, Reasoned
        <4> QED BY <1>0, <4>1, <4>2 DEF NotAsked
      <3>3. CASE SellFlat
        BY <1>0, <3>3, Flat DEF SellFlat, NotAsked
      <3> QED BY <1>1, <3>1, <3>2, <3>3 DEF Calm, TickQuiet, CompletionWaits, NoCommand, Fetch,
             FetchFails, Load, HandedOver, Crash, vars
    <2>3. (ui' = Idle \/ ui' = ui) /\ ("ui" \in current' => "ui" \in current)
      BY <1>1 DEF Calm, TickQuiet, EntryWaits, CompletionWaits, NoCommand, Fetch, FetchFails, Load,
         HandedOver, Crash, SellFlat, vars
    <2> QED BY <1>0, <1>s, <2>1, <2>2, <2>3
  <1>2. ASSUME NEW i \in DOMAIN ords, BrokerFills(i) \/ BrokerCancels(i) PROVE AskedInv'
    BY <1>2 DEF BrokerFills, BrokerCancels, worker, AskedInv
  <1>3. ASSUME NEW cmd \in UiCommands, UiAsks(cmd) PROVE AskedInv'
    BY <1>3, AsksTyped DEF AskedInv
  <1>4. CASE UiWrites
    <2>1. /\ cache' = cache /\ ui # Idle /\ ui' = Idle
          /\ \/ row' = row
             \/ "ui" \in current /\ row' = _apply_board_mutation(ui, row)
      BY <1>4 DEF UiWrites, Writes, Unwritten, worker, broker
    <2>2. ASSUME "ui" \in current, row' = _apply_board_mutation(ui, row) PROVE NotAsked(row')
      <3>1. \/ ui = "RequestSellAll" /\ row'.status = "SELL_ALL"
            \/ ui # "RequestSellAll" /\ row'.status = "BUYLIST"
            \/ ui # "RequestSellAll" /\ ~(row.status = "BUY_TODAY" /\ row.id = 0)
               /\ row'.status = row.status
        BY <1>0, <2>2, MutationEffect
      <3>2. ui # "RequestSellAll" => ui = "CancelEntry"
        BY <1>0, <2>1, EntryAssumption
      <3> QED BY <2>2, <3>1, <3>2 DEF AskedInv, NotAsked
    <2> QED BY <1>0, <1>s, <2>1, <2>2
  <1>5. CASE EmergencySellAll
    <2>1. UNCHANGED <<row, cache>> /\ current' = {}
      BY <1>5, PassExit
    <2> QED BY <1>0, <1>s, <2>1
  <1>6. CASE SellSent
    <2>1. /\ ui' = ui /\ cache'.status = "SELL_ALL"
          /\ \/ row' = row /\ current' = current
             \/ row' = cache' /\ current' = {"worker"}
      BY <1>6, SellSentEffect
    <2> QED BY <1>0, <1>s, <2>1 DEF NotAsked
  <1>7. CASE Store
    <2>1. /\ ui' = ui /\ cache' = cache
          /\ \/ row' = row /\ current' = current
             \/ row' = cache /\ current' = {"worker"}
      BY <1>7 DEF Store, Writes, Unwritten, broker
    <2> QED BY <1>0, <1>s, <2>1
  <1>8. CASE Dies
    <2>1. PICK c \in Cards : ForExit(c) /\ Follows(c, row')
      BY <1>8, DiesEffect
    <2>2. cache' = cache /\ current' = {}
      BY <1>8, DiesEffect
    <2>3. NotAsked(row')
      BY <1>0, <2>1 DEF ForExit, Follows, NotAsked
    <2> QED BY <1>0, <1>s, <2>2, <2>3
  <1>9. CASE Send
    <2>1. /\ row' = row /\ current' = current /\ ui' = ui
          /\ TakenOn \/ TurnedDown \/ Retried \/ cache' = cache
      BY <1>9, SendEffect
    <2>2. NotAsked(cache')
      BY <1>0, <2>1 DEF TakenOn, TurnedDown, Retried, NotAsked, Waiting
    <2> QED BY <1>0, <1>s, <2>1, <2>2
  <1>10. CASE EntryTriggers \/ CompletionTriggers
    <2>1. ui' = ui
      BY <1>10, Triggered
    <2>2. PICK c \in Cards :
           /\ c.status = cache.status /\ (c.asked => cache.asked)
           /\ \E failed \in {"reconcile", "sell"} : prepare_entry_identity(c, failed)
      BY <1>10, Triggered
    <2>3. /\ cache'.status = c.status /\ cache'.asked = c.asked
          /\ \/ row' = row /\ current' = current
             \/ row' = cache' /\ current' = {"worker"}
      BY <2>2, Prepared
    <2> QED BY <1>0, <1>s, <2>1, <2>2, <2>3 DEF NotAsked
  <1>11. CASE TickBreaches \/ SellWaits \/ _reconcile_entry_orders
    <2>1. PICK c \in Cards :
              /\ c = cache \/ (c.status = "SELL_ALL" /\ c.asked = cache.asked)
              /\ Follows(c, cache') /\ Written(c)
      BY <1>11, CancellingSteps
    <2>2. ui' = ui
      BY <1>11 DEF TickBreaches, SellWaits, _reconcile_entry_orders
    <2>3. NotAsked(cache') /\ (Follows(c, row') => NotAsked(row'))
      BY <1>0, <2>1 DEF Follows, NotAsked
    <2> QED BY <1>0, <1>s, <2>1, <2>2, <2>3 DEF Written
  <1>12. ASSUME NEW listed \in Listings, Reduce(listed) PROVE AskedInv'
    BY <1>12, AskedPass
  <1> QED BY <1>1, <1>2, <1>3, <1>4, <1>5, <1>6, <1>7, <1>8, <1>9, <1>10, <1>11, <1>12, Steps

LEMMA AskedInitially == ASSUME Init PROVE AskedInv
  BY DEF Init, AskedInv, NotAsked, Card

(* A BUY is only sent by Send.                                               *)
LEMMA OrdersMove ==
    ASSUME TypeInv, [Next]_vars
    PROVE  ords' = ords \/ Edited \/ Send \/ \E i \in DOMAIN ords : BrokerFills(i)
  <1>1. CASE Calm \/ UNCHANGED vars
    BY <1>1, CalmTyped
  <1>2. ASSUME NEW i \in DOMAIN ords, BrokerCancels(i) PROVE Edited
    BY <1>2, BrokerEdits
  <1>3. ASSUME NEW cmd \in UiCommands, UiAsks(cmd) PROVE ords' = ords
    BY <1>3, AsksTyped
  <1>4. CASE UiWrites \/ Store
    BY <1>4 DEF UiWrites, Store, broker
  <1>5. CASE EmergencySellAll \/ SellSent \/ Dies
    BY <1>5, PassExit, SellSentEffect, DiesEffect
  <1>6. CASE EntryTriggers \/ CompletionTriggers
    BY <1>6, Triggered
  <1>7. CASE TickBreaches \/ SellWaits \/ _reconcile_entry_orders
    BY <1>7, CancellingSteps
  <1>8. ASSUME NEW listed \in Listings, Reduce(listed) PROVE Edited
    BY <1>8, ReduceTyped
  <1> QED BY <1>1, <1>2, <1>3, <1>4, <1>5, <1>6, <1>7, <1>8, Steps

LEMMA OnlySendBuys ==
    ASSUME TypeInv, [Next]_vars, Len(ords') > Len(ords) PROVE Send
  <1>0. ords \in Seq(Orders) /\ Len(ords) \in Nat
    BY DEF TypeInv
  <1>1. ASSUME ords' = ords \/ Edited PROVE FALSE
    BY <1>0, <1>1 DEF Edited
  <1>2. ASSUME NEW i \in DOMAIN ords, BrokerFills(i) PROVE FALSE
    <2>1. PICK n \in Orders : ords' = [ords EXCEPT ![i] = n]
      BY <1>2, FillEffect
    <2> QED BY <1>0, <2>1, EditOrder
  <1> QED BY <1>1, <1>2, OrdersMove

LEMMA BuyStep == ASSUME TypeInv, PlanInv, AskedInv, [Next]_vars PROVE BuyUnasked
  <1> SUFFICES ASSUME Len(ords') > Len(ords) PROVE ~cache.asked
    BY DEF BuyUnasked
  <1>0. ords \in Seq(Orders) /\ Len(ords) \in Nat
    BY DEF TypeInv
  <1>1. Send
    BY OnlySendBuys
  <1>2. at = "send" /\ (TakenOn \/ TurnedDown \/ Retried \/ ords' = ords) /\ ords' # ords
    BY <1>0, <1>1, SendEffect
  <1>3. \E o \in Orders : Sent(o)
    BY <1>2 DEF TakenOn, TurnedDown, Retried
  <1>4. cache.status = "BUY_TODAY"
    BY <1>2, <1>3 DEF Sent, PlanInv, SendReady, Ids
  <1> QED BY <1>4 DEF AskedInv, NotAsked

(* Once the operator has cancelled the entry and the worker has read that,   *)
(* no further BUY of the plan is sent, as long as no card was cancelled that *)
(* still waits for its BUY and no completion was refused unwritten.          *)
THEOREM CancelledIsNotBought ==
    ASSUME Never("refused"), Never("waiting") PROVE Spec => NoBuyAfterCancel
  <1>1. Init => TypeInv /\ PlanInv /\ AskedInv
    BY TypeInitially, PlanInitially, AskedInitially
  <1>2. TypeInv /\ PlanInv /\ AskedInv /\ [Next]_vars => (TypeInv /\ PlanInv /\ AskedInv)'
    BY TypeKept, PlanKept, AskedKept
  <1>3. TypeInv /\ PlanInv /\ AskedInv /\ [Next]_vars => [BuyUnasked]_vars
    BY BuyStep
  <1> QED BY <1>1, <1>2, <1>3, PTL DEF Spec, NoBuyAfterCancel

-----------------------------------------------------------------------------
(* What leaves the board leaves nothing behind.                              *)

NoneHeld(os, h) == h = 0 /\ \A i \in DOMAIN os : ~Live(os[i])

(* Whatever was sent is in doubt.                                            *)
InDoubt(os) == \A i \in DOMAIN os : Kept(os[i]) => os[i].rec = "UNKNOWN"

LeftFits(c, os, h) ==
    /\ c.status \in {"BUYLIST", "CLOSED"} => NoneHeld(os, h)
    /\ c.status = "BUY_TODAY" /\ c.id = 0 => InDoubt(os)

SeenEmpty == at = "reduce" /\ seen = 0 => held = 0

(* A command that will be carried out still finds the card it was given for. *)
StillAsked ==
    "ui" \in current =>
        /\ ui = "CancelEntry" /\ row.status = "BUY_TODAY" => NoneHeld(ords, held)
        /\ ui = "RequestSellAll" => row.status = "OPEN_POSITION"

Cycle == {"tick", "buy", "send", "reconcile", "complete", "sell", "store"}

(* A card that the worker has loaded and that waits for its BUY.             *)
Loaded ==
    /\ at \in Cycle /\ Fresh /\ cache.status = "BUY_TODAY" => row.status = "BUY_TODAY"
    /\ at \in {"tick", "buy", "send"} /\ cache.status = "BUY_TODAY" =>
          InDoubt(ords) /\ (cache.id # 0 => Fresh /\ row.id = cache.id)

(* A BUY that was taken is not on the durable card yet: either the worker is *)
(* about to store it, or a restart will find it in the ledger.               *)
Unstored ==
    row.status = "BUY_TODAY" /\ ~InDoubt(ords) =>
        /\ \A i \in DOMAIN ords : Kept(ords[i]) => OpenRec(ords[i])
        /\ row.id # 0
        /\ \/ at \in {"startup", "reduce"}
           \/ /\ at \in {"reconcile", "complete", "sell", "store"}
              /\ Fresh /\ cache.status = "ENTRY_PENDING" /\ ~cache.asked

LeftInv ==
    /\ LeftFits(row, ords, held) /\ LeftFits(cache, ords, held)
    /\ SeenEmpty /\ StillAsked /\ Loaded /\ Unstored

LEMMA LeftUntouched ==
    ASSUME LeftInv, UNCHANGED <<ords, held>>,
           LeftFits(row', ords, held), LeftFits(cache', ords, held),
           SeenEmpty', StillAsked', Loaded', Unstored'
    PROVE  LeftInv'
  BY DEF LeftInv

LEMMA UnkeptNoneHeld ==
    ASSUME TypeInv, PlanInv, \A i \in DOMAIN ords : ~Kept(ords[i])
    PROVE  NoneHeld(ords, held) /\ InDoubt(ords)
  BY DEF TypeInv, PlanInv, OrdersFit, OrderFits, OpenRec, Kept, NoneHeld, InDoubt

LEMMA EditedLeft ==
    ASSUME TypeInv, Edited
    PROVE  /\ NoneHeld(ords, held) => NoneHeld(ords', held)
           /\ InDoubt(ords) => InDoubt(ords')
  <1>1. NoneHeld(ords, held) => NoneHeld(ords', held)
    BY DEF Edited, Edits, NoneHeld
  <1>2. \A i \in DOMAIN ords : Kept(ords'[i]) => Kept(ords[i])
    BY DEF Edited, Edits, Kept, Exact
  <1>3. InDoubt(ords) => InDoubt(ords')
    BY <1>2 DEF Edited, Edits, InDoubt, Exact
  <1> QED BY <1>1, <1>3

(* A card that waits for its BUY, or for its fill uncancelled, cancels none. *)
LEMMA NothingCancelled ==
    ASSUME TypeInv, cache.status \in {"BUY_TODAY", "ENTRY_PENDING"}, ~cache.asked,
           TickBreaches \/ SellWaits \/ _reconcile_entry_orders
    PROVE  /\ UNCHANGED <<row, current, ords>> /\ at \in {"sell", "reconcile"}
           /\ cache'.status = cache.status /\ cache'.asked = cache.asked
  <1>1. ~TickBreaches
    BY DEF TickBreaches, Breached
  <1>2. CASE SellWaits
    BY <1>2 DEF SellWaits
  <1>3. CASE _reconcile_entry_orders
    <2>1. /\ UNCHANGED <<row, current, ords>> /\ at = "reconcile"
          /\ cache' \in {cache, [cache EXCEPT !.inflight = TRUE]}
      BY <1>3 DEF _reconcile_entry_orders, Unwritten
    <2> QED BY <2>1, CancelMarked DEF Follows, TypeInv
  <1> QED BY <1>1, <1>2, <1>3

LEMMA LeftFill ==
    ASSUME TypeInv, LeftInv, Never("missed"), NEW i \in DOMAIN ords, BrokerFills(i)
    PROVE  LeftInv'
  <1>0. ords \in Seq(Orders) /\ LeftTyped /\ "missed" \in Kinds /\ held \in Nat
    BY DEF TypeInv, LeftTyped, Kinds
  <1>1. PICK n \in Orders :
            Live(ords[i]) /\ ords' = [ords EXCEPT ![i] = n] /\ n.rec = ords[i].rec
    BY FillEffect
  <1>2. /\ DOMAIN ords' = DOMAIN ords
        /\ \A j \in DOMAIN ords : ords'[j].rec = ords[j].rec
    BY <1>0, <1>1, EditOrder
  <1>3. UNCHANGED <<row, current, cache, at, seen, ui>> /\ ~NoneHeld(ords, held)
    BY <1>1 DEF BrokerFills, worker, NoneHeld
  <1>4. InDoubt(ords') <=> InDoubt(ords)
    BY <1>2 DEF InDoubt, Kept
  <1>5. LeftFits(row', ords', held') /\ LeftFits(cache', ords', held')
    BY <1>3, <1>4 DEF LeftInv, LeftFits
  <1>6. ~(at = "reduce" /\ held = 0)
    BY <1>0, LessTyped DEF BrokerFills
  <1>7. SeenEmpty'
    BY <1>3, <1>6 DEF LeftInv, SeenEmpty
  <1>8. StillAsked' /\ Loaded'
    BY <1>3, <1>4 DEF LeftInv, StillAsked, Loaded, Fresh
  <1>9. Unstored'
    BY <1>2, <1>3, <1>4 DEF LeftInv, Unstored, Kept, OpenRec, Fresh
  <1> QED BY <1>5, <1>7, <1>8, <1>9 DEF LeftInv

LEMMA LeftBrokerCancels ==
    ASSUME TypeInv, LeftInv, NEW i \in DOMAIN ords, BrokerCancels(i)
    PROVE  LeftInv'
  <1> DEFINE n == [ords[i] EXCEPT !.st = "done"]
  <1>0. ords \in Seq(Orders) /\ ords[i] \in Orders
    BY DEF TypeInv, OrderFits
  <1>1. n \in Orders /\ n.rec = ords[i].rec /\ ords' = [ords EXCEPT ![i] = n]
    BY <1>0 DEF BrokerCancels, Orders
  <1> HIDE DEF n
  <1>2. /\ DOMAIN ords' = DOMAIN ords
        /\ \A j \in DOMAIN ords : ords'[j].rec = ords[j].rec
    BY <1>0, <1>1, EditOrder
  <1>3. UNCHANGED <<row, current, cache, at, seen, ui, held>>
    BY DEF BrokerCancels, worker
  <1>4. InDoubt(ords') <=> InDoubt(ords)
    BY <1>2 DEF InDoubt, Kept
  <1>5. NoneHeld(ords, held) => NoneHeld(ords', held')
    BY <1>3, BrokerEdits, EditedLeft
  <1>6. LeftFits(row', ords', held') /\ LeftFits(cache', ords', held')
    BY <1>3, <1>4, <1>5 DEF LeftInv, LeftFits
  <1>7. SeenEmpty' /\ StillAsked' /\ Loaded'
    BY <1>3, <1>4, <1>5 DEF LeftInv, SeenEmpty, StillAsked, Loaded, Fresh
  <1>8. Unstored'
    BY <1>2, <1>3, <1>4 DEF LeftInv, Unstored, Kept, OpenRec, Fresh
  <1> QED BY <1>6, <1>7, <1>8 DEF LeftInv

LEMMA LeftAsks ==
    ASSUME TypeInv, PlanInv, LeftInv, Never("waiting"), NEW cmd \in UiCommands, UiAsks(cmd)
    PROVE  LeftInv'
  <1>1. /\ ui' = cmd /\ current' = current \cup {"ui"}
        /\ UNCHANGED <<row, cache, at, seen, ords, held>>
        /\ _require_board_action_not_conflicted(cmd, row)
        /\ ~(cmd = "CancelEntry" /\ row.status = "BUY_TODAY" /\ row.id # 0)
    BY AsksTyped
  <1>2. Fresh' <=> Fresh
    BY <1>1 DEF Fresh
  <1>3. cmd = "RequestSellAll" => row.status = "OPEN_POSITION"
    BY <1>1 DEF _require_board_action_not_conflicted
  <1>4. ASSUME cmd = "CancelEntry", row.status = "BUY_TODAY" PROVE NoneHeld(ords, held)
    <2>1. InDoubt(ords)
      BY <1>1, <1>4 DEF LeftInv, LeftFits
    <2>2. \A i \in DOMAIN ords : OpenRec(ords[i]) => ords[i].rec # "UNKNOWN"
      BY <1>1 DEF _require_board_action_not_conflicted, Range
    <2>3. \A i \in DOMAIN ords : ~Kept(ords[i])
      BY <2>1, <2>2 DEF InDoubt, OpenRec
    <2> QED BY <2>3, UnkeptNoneHeld
  <1>5. StillAsked'
    BY <1>1, <1>3, <1>4 DEF StillAsked
  <1>6. SeenEmpty' /\ Loaded' /\ Unstored'
    BY <1>1, <1>2 DEF LeftInv, SeenEmpty, Loaded, Unstored
  <1> QED BY <1>1, <1>5, <1>6, LeftUntouched DEF LeftInv

LEMMA LeftWrites ==
    ASSUME TypeInv, PlanInv, AskedInv, LeftInv, UiWrites
    PROVE  LeftInv'
  <1>0. row \in Cards /\ ui \in UiCommands \cup {Idle}
    BY DEF TypeInv
  <1>1. /\ UNCHANGED <<cache, at, seen, ords, held>> /\ ui # Idle /\ ui' = Idle
        /\ \/ row' = row /\ current' = current
           \/ "ui" \in current /\ row' = _apply_board_mutation(ui, row) /\ current' = {}
    BY DEF UiWrites, Writes, Unwritten, worker, broker
  <1>2. SeenEmpty' /\ StillAsked'
    BY <1>1 DEF LeftInv, SeenEmpty, StillAsked, Idle
  <1>3. CASE row' = row /\ current' = current
    <2>1. Loaded' /\ Unstored'
      BY <1>1, <1>3 DEF LeftInv, Loaded, Unstored, Fresh
    <2> QED BY <1>1, <1>2, <1>3, <2>1, LeftUntouched DEF LeftInv
  <1>4. CASE "ui" \in current /\ row' = _apply_board_mutation(ui, row) /\ current' = {}
    <2>1. \/ ui = "RequestSellAll" /\ row'.status = "SELL_ALL"
          \/ /\ ui # "RequestSellAll" /\ row.status = "BUY_TODAY" /\ row.id = 0
             /\ row'.status = "BUYLIST"
          \/ /\ ui # "RequestSellAll" /\ ~(row.status = "BUY_TODAY" /\ row.id = 0)
             /\ row'.status = row.status
      BY <1>0, <1>4, MutationEffect
    <2>2. ui # "RequestSellAll" => ui = "CancelEntry"
      BY <1>0, <1>1, EntryAssumption
    <2>3. row'.status # "BUY_TODAY"
      BY <1>4, <2>1, <2>2 DEF AskedInv
    <2>4. LeftFits(row', ords, held)
      BY <1>4, <2>1, <2>2, <2>3 DEF LeftInv, LeftFits, StillAsked
    <2>5. ~(at \in {"tick", "buy", "send"} /\ cache.status = "BUY_TODAY" /\ cache.id # 0)
      <3>1. SUFFICES ASSUME at \in {"tick", "buy", "send"}, cache.status = "BUY_TODAY",
                            cache.id # 0
                     PROVE  FALSE
        OBVIOUS
      <3>2. row.status = "BUY_TODAY" /\ row.id # 0
        BY <3>1 DEF LeftInv, Loaded, Cycle
      <3> QED BY <1>4, <2>1, <2>2, <3>2 DEF AskedInv, LeftInv, StillAsked
    <2>6. Loaded'
      BY <1>1, <1>4, <2>5 DEF LeftInv, Loaded, Fresh
    <2>7. Unstored'
      BY <2>3 DEF Unstored
    <2> QED BY <1>1, <1>2, <2>4, <2>6, <2>7, LeftUntouched DEF LeftInv
  <1> QED BY <1>1, <1>3, <1>4

LEMMA LeftSent ==
    ASSUME TypeInv, PlanInv, AskedInv, LeftInv, Send, Never("refused")
    PROVE  LeftInv'
  <1>0. cache \in Cards
    BY DEF TypeInv
  <1>1. /\ at = "send" /\ row' = row /\ current' = current /\ UNCHANGED <<seen, held, ui>>
        /\ at' = (IF Waiting THEN "reconcile" ELSE "sell") /\ cache'.qty = cache.qty
        /\ TakenOn \/ TurnedDown \/ Retried \/ (cache' = cache /\ ords' = ords)
    BY SendEffect
  <1>2. /\ SeenEmpty' /\ (Fresh' <=> Fresh)
        /\ cache.status \in {"BUY_TODAY", "OPEN_POSITION"} /\ cache.id # 0
    BY <1>1 DEF SeenEmpty, Fresh, PlanInv, SendReady
  <1>3. row.status = "BUY_TODAY" => InDoubt(ords)
    BY <1>1 DEF LeftInv, Unstored
  <1>4. CASE ords' = ords
    <2>1. ~\E o \in Orders : Sent(o)
      BY <1>1, <1>4, FirstBuy
    <2>2. \/ cache' = cache
          \/ cache'.status \in {"ENTRY_PENDING", "OPEN_POSITION"}
          \/ cache'.status = "BUY_TODAY" /\ cache.status = "BUY_TODAY"
      BY <1>1, <1>2, <2>1 DEF TakenOn, TurnedDown, Retried, Waiting
    <2>3. cache.status = "BUY_TODAY" => InDoubt(ords) /\ (Fresh => row.status = "BUY_TODAY")
      BY <1>1 DEF LeftInv, Loaded, Cycle
    <2>4. LeftFits(cache', ords, held)
      BY <2>2, <2>3 DEF LeftInv, LeftFits
    <2>5. Loaded'
      BY <1>1, <1>2, <2>2, <2>3 DEF Loaded, Cycle
    <2>6. StillAsked' /\ Unstored'
      BY <1>1, <1>3, <1>4 DEF LeftInv, StillAsked, Unstored
    <2> QED BY <1>1, <1>2, <1>4, <2>4, <2>5, <2>6, LeftUntouched DEF LeftInv
  <1>5. ASSUME NEW o \in Orders, Sent(o) PROVE LeftInv'
    <2>1. /\ Waiting /\ cache.status = "BUY_TODAY" /\ cache.qty = 0 /\ held = 0
          /\ o.filled = 0 /\ OrderFits(o) /\ ords' # ords
          /\ \A i \in DOMAIN ords : ~Kept(ords[i])
      BY <1>1, <1>5, FirstBuy
    <2>2. /\ Len(ords') \in DOMAIN ords' /\ ords'[Len(ords')] = o
          /\ \A j \in DOMAIN ords' : \/ j \in DOMAIN ords /\ ords'[j] = ords[j]
                                     \/ j = Len(ords') /\ ords'[j] = o
      BY <1>1, <1>5, FirstBuy
    <2>3. \A p \in Orders : Sent(p) => p = o
      BY <1>1, <2>2, FirstBuy
    <2>4. row.status = "BUY_TODAY" /\ row.id # 0 /\ Fresh
      BY <1>1, <1>2, <2>1 DEF LeftInv, Loaded, Cycle
    <2>5. at' = "reconcile"
      BY <1>1, <2>1
    <2>6. StillAsked'
      <3>1. ~("ui" \in current /\ ui = "CancelEntry")
        BY <2>4 DEF AskedInv
      <3> QED BY <1>1, <3>1 DEF LeftInv, StillAsked
    <2>7. CASE o.rec \in {"REJECTED", "ABORTED"}
      <3>1. /\ \A i \in DOMAIN ords' : ~Kept(ords'[i])
        BY <2>1, <2>2, <2>7 DEF Kept
      <3>2. ASSUME NEW i \in DOMAIN ords' PROVE ~Live(ords'[i])
        <4>1. ~Live(o)
          BY <2>1, <2>7 DEF OrderFits, Live
        <4>2. ASSUME NEW j \in DOMAIN ords PROVE ~Live(ords[j])
          BY <2>1, UnkeptNoneHeld DEF NoneHeld
        <4> QED BY <2>2, <4>1, <4>2
      <3>3. InDoubt(ords') /\ NoneHeld(ords', held')
        BY <1>1, <2>1, <3>1, <3>2 DEF InDoubt, NoneHeld
      <3>4. Loaded'
        BY <1>1, <2>4, <2>5 DEF Loaded
      <3> QED BY <1>2, <2>6, <3>3, <3>4 DEF LeftInv, LeftFits, Unstored
    <2>8. CASE o.rec \notin {"REJECTED", "ABORTED"}
      <3>1. TakenOn
        BY <1>1, <2>1, <2>3, <2>8 DEF TurnedDown, Retried
      <3>2. cache'.status = "ENTRY_PENDING" /\ ~cache'.asked /\ o.rec \in {"WORKING", "UNKNOWN"}
        BY <2>1, <2>3, <3>1 DEF TakenOn, AskedInv, NotAsked
      <3>3. \A i \in DOMAIN ords' : Kept(ords'[i]) => OpenRec(ords'[i])
        BY <2>1, <2>2, <3>2 DEF OpenRec
      <3>4. LeftFits(row', ords', held') /\ LeftFits(cache', ords', held')
        BY <1>1, <2>4, <3>2 DEF LeftFits
      <3>5. Loaded'
        BY <2>5, <3>2 DEF Loaded
      <3>6. Unstored'
        BY <1>1, <1>2, <2>4, <2>5, <3>2, <3>3 DEF Unstored
      <3> QED BY <1>2, <2>6, <3>4, <3>5, <3>6 DEF LeftInv
    <2> QED BY <2>7, <2>8
  <1>6. ords' = ords \/ \E o \in Orders : Sent(o)
    BY <1>1 DEF TakenOn, TurnedDown, Retried
  <1> QED BY <1>4, <1>5, <1>6

LEMMA LeftTriggered ==
    ASSUME TypeInv, PlanInv, LeftInv, EntryTriggers \/ CompletionTriggers
    PROVE  LeftInv'
  <1>1. UNCHANGED <<seen, ords, held, ui>>
    BY Triggered
  <1>2. PICK c \in Cards :
           /\ c.status = cache.status /\ c.id = cache.id /\ c.count = cache.count
           /\ c.rest = cache.rest
           /\ \/ /\ at = "buy" /\ cache.status = "BUY_TODAY"
                 /\ prepare_entry_identity(c, "reconcile")
              \/ /\ at = "complete" /\ cache.status = "OPEN_POSITION" /\ cache.rest > 0
                 /\ prepare_entry_identity(c, "sell")
    BY Triggered
  <1>3. row.status = "BUY_TODAY" => InDoubt(ords)
    BY <1>2 DEF LeftInv, Unstored
  <1>4. CASE at = "buy" /\ cache.status = "BUY_TODAY" /\ prepare_entry_identity(c, "reconcile")
    <2>1. /\ cache'.status = "BUY_TODAY" /\ cache'.id # 0
          /\ \/ c.id # 0 /\ cache' = c /\ row' = row /\ current' = current /\ at' = "send"
             \/ row' = cache' /\ current' = {"worker"} /\ at' = "send"
             \/ ~Fresh /\ row' = row /\ current' = current /\ at' = "reconcile"
      BY <1>2, <1>4, Prepared DEF Cards
    <2>2. InDoubt(ords) /\ (cache.id # 0 => Fresh /\ row.id = cache.id)
          /\ (Fresh => row.status = "BUY_TODAY")
      BY <1>4 DEF LeftInv, Loaded, Cycle
    <2>3. LeftFits(cache', ords, held) /\ LeftFits(row', ords, held)
      BY <2>1, <2>2 DEF LeftInv, LeftFits
    <2>4. SeenEmpty' /\ StillAsked'
      BY <1>1, <2>1 DEF LeftInv, SeenEmpty, StillAsked
    <2>5. Loaded' /\ Unstored'
      BY <1>1, <1>2, <2>1, <2>2 DEF Loaded, Unstored, Fresh
    <2> QED BY <1>1, <2>3, <2>4, <2>5, LeftUntouched
  <1>5. CASE /\ at = "complete" /\ cache.status = "OPEN_POSITION" /\ cache.rest > 0
             /\ prepare_entry_identity(c, "sell")
    <2>1. cache.id # 0
      BY <1>5 DEF PlanInv, PlanFits, OrdersFit, BuysPlan
    <2>2. cache' = c /\ row' = row /\ current' = current /\ at' = "send"
      BY <1>2, <1>5, <2>1, Prepared
    <2>3. LeftFits(cache', ords, held)
      BY <1>2, <1>5, <2>2 DEF LeftFits
    <2>4. SeenEmpty' /\ StillAsked' /\ Loaded' /\ Unstored'
      BY <1>1, <1>2, <1>3, <1>5, <2>2 DEF LeftInv, SeenEmpty, StillAsked, Loaded, Unstored
    <2> QED BY <1>1, <2>2, <2>3, <2>4, LeftUntouched DEF LeftInv
  <1> QED BY <1>2, <1>4, <1>5

LEMMA LeftCancelling ==
    ASSUME TypeInv, AskedInv, LeftInv, TickBreaches \/ SellWaits \/ _reconcile_entry_orders
    PROVE  LeftInv'
  <1>1. PICK c \in Cards :
              /\ c = cache \/ (c.status = "SELL_ALL" /\ c.asked = cache.asked)
              /\ Follows(c, cache') /\ Written(c) /\ Edited
    BY CancellingSteps
  <1>2. /\ UNCHANGED <<seen, held, ui>>
        /\ \/ at = "sell" /\ at' = "store"
           \/ at = "reconcile" /\ at' = "complete"
           \/ at = "tick" /\ at' = "buy" /\ cache.status = "OPEN_POSITION"
    BY DEF TickBreaches, SellWaits, _reconcile_entry_orders, Go, Breached
  <1>3. /\ NoneHeld(ords, held) => NoneHeld(ords', held)
        /\ InDoubt(ords) => InDoubt(ords')
    BY <1>1, EditedLeft
  <1>4. cache'.status = c.status /\ (cache'.status = "BUY_TODAY" => cache'.id = c.id)
        /\ cache'.asked = c.asked
    BY <1>1 DEF Follows
  <1>5. \/ row' = row /\ current' = current
        \/ /\ row'.status = c.status /\ (row'.status = "BUY_TODAY" => row'.id = c.id)
           /\ current' = {"worker"}
    BY <1>1 DEF Written, Follows
  <1>6. LeftFits(c, ords', held)
    BY <1>1, <1>3 DEF LeftInv, LeftFits
  <1>7. LeftFits(cache', ords', held') /\ LeftFits(row', ords', held')
    BY <1>2, <1>3, <1>4, <1>5, <1>6 DEF LeftInv, LeftFits
  <1>8. SeenEmpty' /\ StillAsked'
    BY <1>2, <1>3, <1>5 DEF LeftInv, SeenEmpty, StillAsked
  <1>9. Loaded'
    <2>1. cache'.status = "BUY_TODAY" => c = cache /\ at' \notin {"tick", "buy", "send"}
      BY <1>1, <1>2, <1>4
    <2>2. ASSUME Fresh', cache'.status = "BUY_TODAY" PROVE row'.status = "BUY_TODAY"
      <3>1. CASE row' = row /\ current' = current
        BY <1>2, <1>4, <2>1, <2>2, <3>1 DEF LeftInv, Loaded, Fresh, Cycle
      <3>2. CASE row'.status = c.status
        BY <1>4, <2>2, <3>2
      <3> QED BY <1>5, <3>1, <3>2
    <2> QED BY <2>1, <2>2 DEF Loaded
  <1>10. Unstored'
    <2>1. SUFFICES ASSUME row'.status = "BUY_TODAY", ~InDoubt(ords') PROVE Unstored'
      BY DEF Unstored
    <2>2. ~InDoubt(ords)
      BY <1>3, <2>1
    <2>3. row.status = "BUY_TODAY" => cache.status = "ENTRY_PENDING" /\ ~cache.asked
      BY <1>2, <2>2 DEF LeftInv, Unstored
    <2>4. row.status # "BUY_TODAY" => cache.status = "BUY_TODAY"
      BY <1>1, <1>5, <2>1
    <2>5. cache.status \in {"BUY_TODAY", "ENTRY_PENDING"} /\ ~cache.asked
      BY <2>3, <2>4 DEF AskedInv, NotAsked
    <2>6. /\ UNCHANGED <<row, current, ords>> /\ at \in {"sell", "reconcile"}
          /\ cache'.status = cache.status /\ cache'.asked = cache.asked
      BY <2>5, NothingCancelled
    <2> QED BY <1>2, <2>1, <2>6 DEF LeftInv, Unstored, Fresh
  <1> QED BY <1>7, <1>8, <1>9, <1>10 DEF LeftInv

(* The pass finds the BUY of a waiting card that was taken and not stored.   *)
LEMMA PassFinds ==
    ASSUME TypeInv, PlanInv, LeftInv, NEW listed \in Listings, Reduce(listed), ~InDoubt(ords)
    PROVE  row'.status # "BUY_TODAY"
  <1> DEFINE seq == Listing(listed, ords)
             NB == {c \in Cards : c.status # "BUY_TODAY"}
  <1>0. /\ row \in Cards /\ seen \in Nat /\ \A i \in DOMAIN ords : ords[i] \in Orders
        /\ ords \in Seq(Orders)
    BY DEF TypeInv, OrderFits
  <1>1. ASSUME NEW of \in {"local", "broker"}, NEW c \in NB, NEW i \in DOMAIN ords
        PROVE  ProjectOrder(of, c, ords[i]) \in NB
    BY <1>0, OrderOnward DEF Onward
  <1>2. Projected("local", row, seq) \in NB
    <2>1. CASE row \in NB
      <3> HIDE DEF NB
      <3> QED BY <1>1, <2>1, OrdersKeep
    <2>2. CASE row \notin NB
      <3>1. row.status = "BUY_TODAY"
        BY <1>0, <2>2
      <3>2. PICK i \in DOMAIN ords : Kept(ords[i]) /\ ords[i].rec # "UNKNOWN"
        BY DEF InDoubt
      <3>3. ords[i].rec \in {"WORKING", "CANCEL_PENDING"} /\ ords[i].id = row.id
        BY <3>1, <3>2 DEF LeftInv, Unstored, OpenRec, PlanInv, PlanFits
      <3>4. /\ Len(seq) \in Nat
            /\ \A k \in 1 .. Len(seq) : \E j \in DOMAIN ords : seq[k] = ords[j]
            /\ \E k \in 1 .. Len(seq) : seq[k] = ords[i]
        BY <1>0, Listed
      <3>5. PICK p \in 1 .. Len(seq) : seq[p] = ords[i]
        BY <3>4
      <3> DEFINE W == {c \in Cards : c.status # "BUY_TODAY" \/ c.id = row.id}
                 S == [k \in 0 .. Len(seq) |-> IF k < p THEN W ELSE NB]
      <3> HIDE DEF seq
      <3>6. row \in S[0] /\ S[Len(seq)] = NB
        BY <1>0, <3>4
      <3>7. ASSUME NEW k \in 1 .. Len(seq), NEW c \in S[k - 1]
            PROVE  ProjectOrder("local", c, seq[k]) \in S[k]
        <4> DEFINE n == ProjectOrder("local", c, seq[k])
        <4>1. PICK j \in DOMAIN ords : seq[k] = ords[j]
          BY <3>4
        <4>2. c \in Cards /\ (c.status # "BUY_TODAY" \/ c.id = row.id)
              /\ (k > p => c.status # "BUY_TODAY")
          BY <3>4
        <4>3. Onward("local", c, seq[k], n)
          BY <1>0, <4>1, <4>2, OrderOnward
        <4> HIDE DEF n
        <4>4. n \in Cards /\ (n = c \/ n.status # "BUY_TODAY")
          BY <4>3 DEF Onward
        <4>5. k = p => n.status # "BUY_TODAY"
          <5>1. SUFFICES ASSUME k = p, n.status = "BUY_TODAY" PROVE FALSE
            OBVIOUS
          <5>2. c.status = "BUY_TODAY" /\ n = c /\ c.id = row.id
            BY <4>2, <4>4, <5>1
          <5>3. _card_tracks_order(c, seq[k])
            BY <3>3, <3>5, <5>1, <5>2 DEF _card_tracks_order
          <5> QED BY <3>3, <3>5, <4>3, <5>1, <5>2, <5>3 DEF Onward
        <4>6. n \in W /\ (k >= p => n \in NB)
          BY <4>2, <4>4, <4>5
        <4>7. S[k] = IF k < p THEN W ELSE NB
          BY <3>4
        <4> HIDE DEF S, W, NB
        <4>8. n \in S[k]
          BY <4>6, <4>7
        <4> QED BY <4>8 DEF n
      <3> HIDE DEF S, NB
      <3> QED BY <3>4, <3>6, <3>7, PassKeeps
    <2> QED BY <2>1, <2>2
  <1> HIDE DEF NB
  <1>3. PICK c \in NB : row' = ProjectHolding(c)
    BY <1>1, <1>2, ReduceKeeps
  <1>4. c \in Cards /\ c.status # "BUY_TODAY"
    BY DEF NB
  <1> QED BY <1>0, <1>3, <1>4, HoldingEffect DEF HoldingOnward

(* What the pass takes off the board, was refused, cancelled without a fill  *)
(* or sold.                                                                  *)
LEMMA PassLeaves ==
    ASSUME TypeInv, PlanInv, LeftInv, ~RefusalRetried, NEW listed \in Listings, Reduce(listed)
    PROVE  LeftFits(row', ords, held)
  <1> DEFINE S == {c \in Cards : c.qty <= held /\ LeftFits(c, ords, held)}
  <1>0. /\ row \in Cards /\ seen \in Nat /\ held \in Nat /\ ords \in Seq(Orders)
        /\ \A i \in DOMAIN ords : ords[i] \in Orders /\ OrderFits(ords[i])
        /\ OrdersFit(ords, held) /\ DOMAIN ords = 1 .. Len(ords) /\ Len(ords) \in Nat
        /\ at = "reduce"
    BY DEF TypeInv, OrderFits, PlanInv, Reduce
  <1>1. \A i \in DOMAIN ords : ~Kept(ords[i]) => ~Live(ords[i])
    BY <1>0 DEF OrderFits, OpenRec, Kept
  <1>2. ASSUME NEW i \in DOMAIN ords, ords[i].rec = "REJECTED" PROVE NoneHeld(ords, held)
    <2>1. ASSUME NEW j \in DOMAIN ords, Kept(ords[j]) PROVE FALSE
      <3>1. j = Len(ords) /\ i # j
        BY <1>0, <1>2, <2>1 DEF OrdersFit, Kept
      <3>2. i < j
        BY <1>0, <3>1
      <3> QED BY <1>2, <3>2 DEF RefusalRetried
    <2> QED BY <2>1, UnkeptNoneHeld
  <1>3. ASSUME NEW i \in DOMAIN ords, Exact(ords[i]), ~Live(ords[i]), ords[i].filled = 0
        PROVE  NoneHeld(ords, held)
    <2>1. Kept(ords[i])
      BY <1>3 DEF Exact, Kept
    <2>2. held = 0 /\ \A j \in DOMAIN ords : Kept(ords[j]) => j = i
      BY <1>0, <1>3, <2>1 DEF OrdersFit
    <2> QED BY <1>1, <1>3, <2>2 DEF NoneHeld
  <1>4. ASSUME NEW of \in {"local", "broker"}, NEW c \in S, NEW i \in DOMAIN ords
        PROVE  ProjectOrder(of, c, ords[i]) \in S
    <2> DEFINE o == ords[i]
               n == ProjectOrder(of, c, o)
    <2>1. Onward(of, c, o, n)
      BY <1>0, OrderOnward
    <2>2. c \in Cards /\ c.qty <= held /\ LeftFits(c, ords, held)
      OBVIOUS
    <2>3. o.filled <= held
      <3>1. CASE Kept(o)
        BY <1>0, <3>1 DEF OrdersFit
      <3>2. CASE ~Kept(o)
        <4>1. o.st = "none" /\ BuysPlan(o)
          BY <1>0, <3>2 DEF OrderFits, OrdersFit, Kept
        <4> QED BY <1>0, <4>1 DEF BuysPlan
      <3> QED BY <3>1, <3>2
    <2>4. seen # Missing => seen <= held
      BY DEF PlanInv, SeenBefore
    <2> HIDE DEF n
    <2>5. n \in Cards /\ n.qty <= held
      <3>1. n \in Cards /\ (n.qty \in {c.qty, o.filled} \/ (n.qty = seen /\ seen # Missing))
        BY <2>1 DEF Onward
      <3> QED BY <2>2, <2>3, <2>4, <3>1
    <2>6. n = c \/ n.status # "BUY_TODAY"
      BY <2>1 DEF Onward
    <2>7. n = c \/ (n.status \in {"BUYLIST", "CLOSED"} => NoneHeld(ords, held))
      BY <1>2, <1>3, <2>1 DEF Onward
    <2>8. LeftFits(n, ords, held)
      BY <2>2, <2>6, <2>7 DEF LeftFits
    <2>9. n \in S
      BY <2>5, <2>8
    <2> QED BY <2>9 DEF n
  <1>5. row \in S
    BY <1>0 DEF PlanInv, PlanFits, LeftInv
  <1> HIDE DEF S
  <1>6. Projected("local", row, Listing(listed, ords)) \in S
    BY <1>4, <1>5, OrdersKeep
  <1>7. PICK c \in S : row' = ProjectHolding(c)
    BY <1>4, <1>6, ReduceKeeps
  <1>8. c \in Cards /\ c.qty <= held /\ LeftFits(c, ords, held)
    BY DEF S
  <1>9. HoldingOnward(c, row')
    BY <1>0, <1>7, <1>8, HoldingEffect
  <1>10. ~(seen = 0 /\ c.qty # 0)
    BY <1>0, <1>8 DEF LeftInv, SeenEmpty, Cards
  <1> QED BY <1>8, <1>9, <1>10 DEF HoldingOnward, LeftFits

LEMMA LeftPass ==
    ASSUME TypeInv, PlanInv, LeftInv, ~RefusalRetried, NEW listed \in Listings, Reduce(listed)
    PROVE  LeftInv'
  <1>1. Edited /\ at' = "command" /\ UNCHANGED <<cache, seen, held, ui>>
    BY ReduceTyped
  <1>2. /\ NoneHeld(ords, held) => NoneHeld(ords', held)
        /\ InDoubt(ords) => InDoubt(ords')
    BY <1>1, EditedLeft
  <1>3. LeftFits(row', ords, held)
    BY PassLeaves
  <1>4. LeftFits(row', ords', held') /\ LeftFits(cache', ords', held')
    BY <1>1, <1>2, <1>3 DEF LeftInv, LeftFits
  <1>5. "ui" \in current' => row' = row /\ "ui" \in current
    BY DEF Reduce, Writes, Unwritten
  <1>6. SeenEmpty' /\ StillAsked' /\ Loaded'
    BY <1>1, <1>2, <1>5 DEF LeftInv, SeenEmpty, StillAsked, Loaded, Cycle
  <1>7. Unstored'
    BY <1>2, PassFinds DEF Unstored
  <1> QED BY <1>4, <1>6, <1>7 DEF LeftInv

LEMMA LeftCalm ==
    ASSUME TypeInv, LeftInv, Calm \/ UNCHANGED vars
    PROVE  LeftInv'
  <1>0. /\ UNCHANGED <<ords, row, held>> /\ ui' \in {ui, Idle} /\ cache \in Cards
        /\ LeftFits(row, ords, held) /\ LeftFits(cache, ords, held)
    BY CalmTyped DEF LeftInv, TypeInv
  <1>1. CASE TickQuiet \/ CompletionWaits \/ HandedOver \/ UNCHANGED vars
    <2>1. /\ UNCHANGED <<cache, seen, ui, current>>
          /\ \/ at = "tick" /\ at' = "buy"
             \/ at = "complete" /\ at' = "sell"
             \/ at' = at
      <3>1. CASE TickQuiet
        BY <3>1 DEF TickQuiet, Go
      <3>2. CASE CompletionWaits
        BY <3>2 DEF CompletionWaits, Go
      <3>3. CASE HandedOver \/ UNCHANGED vars
        BY <3>3 DEF HandedOver, vars
      <3> QED BY <1>1, <3>1, <3>2, <3>3
    <2>2. SeenEmpty' /\ StillAsked' /\ Loaded' /\ Unstored'
      BY <1>0, <2>1 DEF LeftInv, SeenEmpty, StillAsked, Loaded, Unstored, Cycle, Fresh
    <2> QED BY <1>0, <2>1, <2>2, LeftUntouched
  <1>2. CASE EntryWaits
    <2>1. /\ UNCHANGED <<seen, ui, current>> /\ at = "buy" /\ at' = "reconcile"
          /\ cache' = cache \/ \E a \in {cache.asked, FALSE} : cache' = [cache EXCEPT !.asked = a]
      BY <1>2 DEF EntryWaits, Reasons, Go, broker
    <2>2. ASSUME NEW a \in {cache.asked, FALSE}, cache' = [cache EXCEPT !.asked = a]
          PROVE  cache'.status = cache.status /\ cache'.id = cache.id
      BY <1>0, <2>2, Reasoned
    <2>3. cache'.status = cache.status /\ cache'.id = cache.id
      BY <2>1, <2>2
    <2>4. LeftFits(cache', ords, held)
      BY <1>0, <2>3 DEF LeftFits
    <2>5. SeenEmpty' /\ StillAsked' /\ Loaded' /\ Unstored'
      BY <1>0, <2>1, <2>3 DEF LeftInv, SeenEmpty, StillAsked, Loaded, Unstored, Cycle, Fresh
    <2> QED BY <1>0, <2>4, <2>5, LeftUntouched
  <1>3. CASE SellFlat
    <2>1. /\ UNCHANGED <<seen, ui, current>> /\ at = "sell" /\ at' = "store"
          /\ cache.status = "SELL_ALL" /\ cache' = confirm_flat(cache) /\ held = 0
          /\ find_open_entry_order = 0
      BY <1>3 DEF SellFlat, Go, broker, Clear
    <2>2. NoneHeld(ords, held)
      BY <2>1, NoneOpenNoneLive DEF NoneHeld, LiveBuys
    <2>3. cache'.status = "CLOSED"
      BY <1>0, <2>1, Flat
    <2>4. LeftFits(cache', ords, held)
      BY <2>2, <2>3 DEF LeftFits
    <2>5. SeenEmpty' /\ StillAsked' /\ Loaded' /\ Unstored'
      BY <1>0, <2>1, <2>3 DEF LeftInv, SeenEmpty, StillAsked, Loaded, Unstored, Cycle, Fresh
    <2> QED BY <1>0, <2>4, <2>5, LeftUntouched
  <1>4. CASE Load
    <2>1. /\ UNCHANGED <<seen, ui>> /\ at \notin {"startup", "reduce"} \cup Cycle /\ at' = "tick"
          /\ cache' = row /\ current' = current \cup {"worker"}
      BY <1>4 DEF Load, Go, broker, Cycle
    <2>2. row.status = "BUY_TODAY" => InDoubt(ords)
      BY <2>1 DEF LeftInv, Unstored, Cycle
    <2>3. SeenEmpty' /\ StillAsked' /\ Loaded' /\ Unstored'
      BY <1>0, <2>1, <2>2 DEF LeftInv, SeenEmpty, StillAsked, Loaded, Unstored, Cycle, Fresh
    <2> QED BY <1>0, <2>1, <2>3, LeftUntouched
  <1>5. CASE NoCommand
    <2>1. /\ UNCHANGED <<cache, seen, ui, current>> /\ at \notin {"startup", "reduce"} \cup Cycle
          /\ at' \notin {"reduce"} \cup Cycle
      BY <1>5 DEF NoCommand, Go, broker, Cycle
    <2>2. row.status = "BUY_TODAY" => InDoubt(ords)
      BY <2>1 DEF LeftInv, Unstored, Cycle
    <2>3. SeenEmpty' /\ StillAsked' /\ Loaded' /\ Unstored'
      BY <1>0, <2>1, <2>2 DEF LeftInv, SeenEmpty, StillAsked, Loaded, Unstored, Cycle
    <2> QED BY <1>0, <2>1, <2>3, LeftUntouched
  <1>6. CASE Fetch \/ FetchFails \/ Crash
    <2>1. /\ UNCHANGED <<cache, current>>
          /\ \/ at' = "reduce" /\ seen' \in {held, Missing}
             \/ at' = "startup"
      BY <1>6 DEF Fetch, FetchFails, Crash, Go, broker
    <2>2. Missing # 0
      BY EntryAssumption DEF Missing
    <2>3. SeenEmpty' /\ StillAsked' /\ Loaded' /\ Unstored'
      BY <1>0, <2>1, <2>2 DEF LeftInv, SeenEmpty, StillAsked, Loaded, Unstored, Cycle, Idle
    <2> QED BY <1>0, <2>1, <2>3, LeftUntouched
  <1> QED BY <1>1, <1>2, <1>3, <1>4, <1>5, <1>6 DEF Calm

LEMMA LeftKept ==
    ASSUME TypeInv, PlanInv, AskedInv, LeftInv, ~RefusalRetried, [Next]_vars,
           Never("refused"), Never("missed"), Never("waiting")
    PROVE  LeftInv'
  <1>0. /\ LeftFits(row, ords, held) /\ LeftFits(cache, ords, held) /\ cache \in Cards
        /\ row \in Cards
    BY DEF LeftInv, TypeInv
  <1>1. CASE EmergencySellAll
    <2>1. /\ UNCHANGED <<row, cache, seen, ords, held, ui>> /\ current' = {} /\ at' = "sold"
      BY <1>1, PassExit
    <2>2. at = "command"
      BY <1>1 DEF EmergencySellAll
    <2>3. SeenEmpty' /\ StillAsked' /\ Loaded' /\ Unstored'
      BY <2>1, <2>2 DEF LeftInv, SeenEmpty, StillAsked, Loaded, Unstored, Cycle
    <2> QED BY <1>0, <2>1, <2>3, LeftUntouched
  <1>2. CASE SellSent
    <2>1. /\ UNCHANGED <<ords, held, seen, ui>> /\ at' \in {"sold", "store"}
          /\ cache'.status = "SELL_ALL"
          /\ \/ row' = row /\ current' = current
             \/ row' = cache' /\ current' = {"worker"}
      BY <1>2, SellSentEffect
    <2>2. at = "sell" /\ cache.status = "SELL_ALL"
      BY <1>2 DEF SellSent
    <2>3. LeftFits(cache', ords, held) /\ LeftFits(row', ords, held)
      BY <1>0, <2>1 DEF LeftFits
    <2>4. SeenEmpty' /\ StillAsked' /\ Loaded' /\ Unstored'
      BY <2>1, <2>2 DEF LeftInv, SeenEmpty, StillAsked, Loaded, Unstored, Cycle, Fresh
    <2> QED BY <2>1, <2>3, <2>4, LeftUntouched
  <1>3. CASE Store
    <2>1. /\ UNCHANGED <<cache, seen, ords, held, ui>> /\ at = "store" /\ at' = "load"
          /\ \/ row' = row /\ current' = current /\ (Fresh => cache = row)
             \/ row' = cache /\ current' = {"worker"} /\ Fresh
      BY <1>3 DEF Store, Writes, Unwritten, Go, broker
    <2>2. SeenEmpty' /\ StillAsked' /\ Loaded'
      BY <2>1 DEF LeftInv, SeenEmpty, StillAsked, Loaded, Cycle
    <2>3. row'.status = "BUY_TODAY" => InDoubt(ords)
      <3>1. CASE row' = row
        BY <2>1, <3>1 DEF LeftInv, Unstored
      <3>2. CASE row' = cache /\ Fresh
        BY <2>1, <3>2 DEF LeftInv, Loaded, Unstored, Cycle
      <3> QED BY <2>1, <3>1, <3>2
    <2>4. Unstored'
      BY <2>1, <2>3 DEF Unstored
    <2> QED BY <1>0, <2>1, <2>2, <2>4, LeftUntouched
  <1>4. CASE Dies
    <2>1. PICK c \in Cards : /\ ForExit(c) /\ Follows(c, row')
                             /\ c.asked \/ c.status = "SELL_ALL"
      BY <1>4, DiesEffect
    <2>2. current' = {} /\ at' = "startup" /\ UNCHANGED <<cache, seen, ords, held>>
      BY <1>4, DiesEffect
    <2>3. row'.status = c.status /\ (c.status = "SELL_ALL" \/ c = cache)
      BY <2>1 DEF ForExit, Follows
    <2>4. row'.status # "BUY_TODAY"
      BY <2>1, <2>3 DEF AskedInv, NotAsked
    <2>5. LeftFits(row', ords, held)
      BY <1>0, <2>3, <2>4 DEF LeftFits
    <2>6. SeenEmpty' /\ StillAsked' /\ Loaded' /\ Unstored'
      BY <2>2, <2>4 DEF SeenEmpty, StillAsked, Loaded, Unstored, Cycle
    <2> QED BY <1>0, <2>2, <2>5, <2>6, LeftUntouched
  <1> QED BY <1>1, <1>2, <1>3, <1>4, Steps, LeftCalm, LeftFill, LeftBrokerCancels, LeftAsks,
             LeftWrites, LeftSent, LeftTriggered, LeftCancelling, LeftPass

LEMMA LeftInitially == ASSUME Init PROVE LeftInv
  <1>1. /\ row = Card /\ cache = Card /\ current = {} /\ at = "load" /\ ords = <<>> /\ held = 0
        /\ Card.status = "BUY_TODAY" /\ DOMAIN <<>> = {}
    BY DEF Init, Card
  <1> QED BY <1>1 DEF LeftInv, LeftFits, InDoubt, NoneHeld, SeenEmpty, StillAsked, Loaded,
             Unstored, Cycle

(* A refused BUY stays refused, and another after it stays there.            *)
LEMMA RetriedStays == ASSUME TypeInv, [Next]_vars, RefusalRetried PROVE RefusalRetried'
  <1>0. ords \in Seq(Orders)
    BY DEF TypeInv
  <1>1. /\ DOMAIN ords \subseteq DOMAIN ords'
        /\ \A i \in DOMAIN ords : ords[i].rec = "REJECTED" => ords'[i].rec = "REJECTED"
    <2>1. CASE ords' = ords
      BY <2>1
    <2>2. CASE Edited
      BY <2>2 DEF Edited, Edits, Exact
    <2>3. CASE Send
      <3>1. ASSUME NEW o \in Orders, ords' = Append(ords, o) PROVE <1>1!:
        BY <1>0, <3>1, AppendOrder
      <3>2. ords' = ords \/ \E o \in Orders : Sent(o)
        BY <2>3, SendEffect DEF TakenOn, TurnedDown, Retried
      <3> QED BY <2>1, <3>1, <3>2 DEF Sent
    <2>4. ASSUME NEW i \in DOMAIN ords, BrokerFills(i) PROVE <1>1!:
      <3>1. PICK n \in Orders : ords' = [ords EXCEPT ![i] = n] /\ n.rec = ords[i].rec
        BY <2>4, FillEffect
      <3> QED BY <1>0, <3>1, EditOrder
    <2> QED BY <2>1, <2>2, <2>3, <2>4, OrdersMove
  <1> QED BY <1>1 DEF RefusalRetried

(* A card that has left the board has left neither shares nor a working BUY  *)
(* behind, through any pass with gaps, crash, cancel and unanswered BUY, as  *)
(* long as no BUY was refused and tried again.  The hypotheses are what the  *)
(* property does not survive.                                                *)
THEOREM NothingIsLeft ==
    ASSUME Never("refused"), Never("missed"), Never("waiting")
    PROVE  Spec => []NothingLeftBehind
  <1> DEFINE Inv == TypeInv /\ PlanInv /\ AskedInv /\ (RefusalRetried \/ LeftInv)
  <1>1. Init => Inv
    BY TypeInitially, PlanInitially, AskedInitially, LeftInitially
  <1>2. Inv /\ [Next]_vars => Inv'
    BY TypeKept, PlanKept, AskedKept, LeftKept, RetriedStays
  <1>3. Inv => NothingLeftBehind
    BY DEF LeftInv, LeftFits, NoneHeld, NothingLeftBehind, LeftMeansGone, LiveBuys
  <1> HIDE DEF Inv
  <1> QED BY <1>1, <1>2, <1>3, PTL DEF Spec
=============================================================================
