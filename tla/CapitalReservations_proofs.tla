---------------------- MODULE CapitalReservations_proofs ----------------------
(***************************************************************************)
(* For any devices, entries, amounts, replacements and passes: the rows    *)
(* that hold capital never hold more than the account had; and as long as  *)
(* no pass has run beside a command, every order at the broker is covered  *)
(* by its own row.                                                         *)
(***************************************************************************)
EXTENDS CapitalReservations, FiniteSetTheorems, TLAPS

(* A command has its entry for itself, and an amount.                        *)
OneCommand ==
    \A d \in Device :
       IF cmd[d].pc = "idle" THEN cmd[d].entry = "none"
       ELSE /\ cmd[d].entry \in Entry \ {"none"}
            /\ cmd[d].amount >= 1
            /\ \A x \in Device \ {d} : cmd[x].entry # cmd[d].entry

RoomToFill == \A e \in Entry : book[e].st = "open" => book[e].filled < book[e].total

(* A settlement can only lower what a row still holds.                       *)
RemainsEnough(r, filled) ==
    /\ r.remaining <= r.requested
    /\ r.requested <= r.remaining + filled

RowsRemain == \A e \in Entry : IsOpen(res[e]) => RemainsEnough(res[e], row[e].filled)

(* What a replacement would restore is covered by its hold, and the version  *)
(* of the row tells whether the row still is that hold.                      *)
Holding == {"cancel", "cancelling", "cancelled"}

KeepsHold(c, r, filled) ==
    /\ IsOpen(c.held) /\ IsOpen(c.prev) /\ RemainsEnough(c.prev, filled)
    /\ c.prev.remaining <= c.held.remaining
    /\ c.held.version <= r.version
    /\ c.held.version = r.version => r = c.held

HoldsKept ==
    \A d \in Device : cmd[d].pc \in Holding =>
       KeepsHold(cmd[d], res[cmd[d].entry], row[cmd[d].entry].filled)

CashInv == TypeOK /\ OneCommand /\ RoomToFill /\ RowsRemain /\ HoldsKept /\ ReservedWithinCash

(* No pass is under way beside a command.                                    *)
Alone == \A d, x \in Device : pass[d].pc = "idle" \/ cmd[x].pc = "idle"

(* The order at the broker: its row follows it, its reservation covers it.   *)
OrderFits(e) ==
    book[e].st = "open" =>
       /\ row[e].st \in {"WORKING", "CANCEL_PENDING"}
       /\ IsOpen(res[e]) /\ book[e].total <= res[e].requested
       /\ row[e].filled <= book[e].filled

(* What a command relies on about its entry.                                 *)
CommandFits(c, e) ==
    /\ c.pc \in {"reserve", "submit", "cancelled"} => book[e].st # "open"
    /\ c.pc = "submit" => /\ row[e] = [st |-> "SUBMITTING", filled |-> 0]
                          /\ IsOpen(res[e]) /\ c.amount <= res[e].requested
    /\ c.pc = "replace" => row[e].filled = 0
    /\ c.pc \in {"cancel", "cancelling"} /\ book[e].st = "open" =>
          book[e].total <= c.prev.requested

(* A pass sees the order that is there, perhaps with fewer fills.            *)
ViewFits(v, e) ==
    /\ v.filled <= book[e].filled
    /\ v.st = "over" => book[e].st # "open"

CoverInv ==
    /\ CashInv /\ Alone
    /\ \A e \in Entry : OrderFits(e)
    /\ \A d \in Device : cmd[d].pc # "idle" => CommandFits(cmd[d], cmd[d].entry)
    /\ \A d \in Device : pass[d].pc = "apply" => \A e \in Entry : ViewFits(pass[d].view[e], e)

-----------------------------------------------------------------------------
(* What a row holds, and sums of it.                                         *)

Hold(r) == IF IsOpen(r) THEN r.remaining ELSE 0

LEMMA UnitsFinite ==
    ASSUME NEW rows \in [Entry -> Reservation], NEW S \in SUBSET Entry
    PROVE  IsFiniteSet(Units(rows, S)) /\ Cardinality(Units(rows, S)) \in Nat
<1>1. IsFiniteSet(Entry \X (1 .. MaxAmount))
  <2>1. IsFiniteSet(Entry) /\ 1 \in Int /\ MaxAmount \in Int
    BY CapitalAssumption
  <2>2. IsFiniteSet(1 .. MaxAmount)
    BY <2>1, FS_Interval
  <2> QED BY <2>1, <2>2, FS_Product
<1>2. Units(rows, S) \subseteq Entry \X (1 .. MaxAmount)
  BY CapitalAssumption DEF Units, Reservation
<1> QED BY <1>1, <1>2, FS_Subset, FS_CardinalityType

(* Rows that hold no more, entry by entry, hold no more together.            *)
LEMMA UnitsShrink ==
    ASSUME NEW S \in SUBSET Entry,
           NEW f \in [Entry -> Reservation], NEW g \in [Entry -> Reservation],
           \A e \in S : Hold(g[e]) <= Hold(f[e])
    PROVE  Cardinality(Units(g, S)) <= Cardinality(Units(f, S))
<1>1. ASSUME NEW e \in S, IsOpen(g[e]), NEW n \in 1 .. g[e].remaining
      PROVE  IsOpen(f[e]) /\ n \in 1 .. f[e].remaining
  <2>1. f[e] \in Reservation /\ g[e] \in Reservation /\ Hold(g[e]) <= Hold(f[e])
    OBVIOUS
  <2> QED BY <1>1, <2>1, CapitalAssumption DEF Hold, Reservation
<1>2. Units(g, S) \subseteq Units(f, S)
  BY <1>1 DEF Units
<1> QED BY <1>2, UnitsFinite, FS_Subset

LEMMA UnitsOfOne ==
    ASSUME NEW f \in [Entry -> Reservation], NEW e \in Entry
    PROVE  Cardinality(Units(f, {e})) = Hold(f[e])
<1>1. CASE ~IsOpen(f[e])
  <2>1. Units(f, {e}) = {}
    BY <1>1 DEF Units
  <2> QED BY <1>1, <2>1, FS_EmptySet DEF Hold
<1>2. CASE IsOpen(f[e])
  <2>0. f[e].remaining \in Nat
    BY CapitalAssumption DEF Reservation
  <2>1. Units(f, {e}) = {e} \X (1 .. f[e].remaining)
    BY <1>2 DEF Units
  <2>2. /\ IsFiniteSet({e}) /\ Cardinality({e}) = 1
        /\ IsFiniteSet(1 .. f[e].remaining)
        /\ Cardinality(1 .. f[e].remaining) = f[e].remaining
    <3>1. \A n \in Nat : IsFiniteSet(1 .. n) /\ Cardinality(1 .. n) = n
      <4> TAKE n \in Nat
      <4>1. 1 \in Int /\ n \in Int
        OBVIOUS
      <4>2. IsFiniteSet(1 .. n) /\ Cardinality(1 .. n) = IF 1 > n THEN 0 ELSE n - 1 + 1
        BY <4>1, FS_Interval
      <4> QED BY <4>2
    <3> QED BY <2>0, <3>1, FS_Singleton
  <2>3. Cardinality({e} \X (1 .. f[e].remaining)) = 1 * f[e].remaining
    BY <2>2, FS_Product
  <2>4. 1 * f[e].remaining = f[e].remaining
    BY <2>0
  <2> QED BY <1>2, <2>1, <2>3, <2>4 DEF Hold
<1> QED BY <1>1, <1>2

(* The account holds what one entry holds and what the others do.            *)
LEMMA UnitsSplit ==
    ASSUME NEW f \in [Entry -> Reservation], NEW e \in Entry
    PROVE  Cardinality(Units(f, Entry)) = Cardinality(Units(f, Entry \ {e})) + Hold(f[e])
<1>1. Units(f, Entry) = Units(f, Entry \ {e}) \cup Units(f, {e})
  BY DEF Units
<1>2. Units(f, Entry \ {e}) \cap Units(f, {e}) = {}
  BY DEF Units
<1>3. /\ IsFiniteSet(Units(f, Entry \ {e})) /\ Cardinality(Units(f, Entry \ {e})) \in Nat
      /\ IsFiniteSet(Units(f, {e})) /\ Cardinality(Units(f, {e})) \in Nat
  BY UnitsFinite
<1>4. Cardinality(Units(f, Entry)) =
         Cardinality(Units(f, Entry \ {e})) + Cardinality(Units(f, {e})) - Cardinality({})
  BY <1>1, <1>2, <1>3, FS_Union
<1> QED BY <1>3, <1>4, FS_EmptySet, UnitsOfOne

(* Nothing an entry holds is beyond what the availability check has granted. *)
LEMMA GrantedFits ==
    ASSUME TypeOK, NEW d \in Device, NEW e \in Entry, NEW g \in [Entry -> Reservation],
           ReservedWithinCash, \A x \in Entry \ {e} : g[x] = res[x],
           Hold(g[e]) <= Hold(res[e]) \/ Hold(g[e]) <= Available(d, e)
    PROVE  Cardinality(Units(g, Entry)) <= Cash
<1>1. /\ res \in [Entry -> Reservation] /\ cmd[d].power \in 0 .. Cash /\ Cash \in Nat
      /\ res[e] \in Reservation /\ g[e] \in Reservation
  BY CapitalAssumption DEF TypeOK
<1>2. Hold(g[e]) \in Nat /\ Hold(res[e]) \in Nat
  BY <1>1, CapitalAssumption DEF Hold, Reservation
<1>3. Units(g, Entry \ {e}) = Units(res, Entry \ {e})
  BY DEF Units
<1>4. Cardinality(Units(res, Entry \ {e})) \in Nat
  BY <1>1, UnitsFinite
<1>5. /\ Cardinality(Units(g, Entry)) = Cardinality(Units(g, Entry \ {e})) + Hold(g[e])
      /\ Cardinality(Units(res, Entry)) = Cardinality(Units(res, Entry \ {e})) + Hold(res[e])
  BY <1>1, UnitsSplit
<1>6. Cardinality(Units(res, Entry)) <= Cash
  BY DEF ReservedWithinCash, Reserved
<1>7. CASE Hold(g[e]) <= Hold(res[e])
  BY <1>1, <1>2, <1>3, <1>4, <1>5, <1>6, <1>7
<1>8. CASE Hold(g[e]) <= Available(d, e)
  <2>1. Hold(g[e]) <= cmd[d].power - Cardinality(Units(res, Entry \ {e}))
    BY <1>8 DEF Available, Reserved
  <2> QED BY <1>1, <1>2, <1>3, <1>4, <1>5, <2>1
<1> QED BY <1>7, <1>8

-----------------------------------------------------------------------------
(* The account's capital.                                                    *)

LEMMA InitCash == ASSUME Init PROVE CashInv
<1>1. TypeOK
  BY CapitalAssumption DEF Init, TypeOK, Order, Reservation, ReservationStatus, NoOrder, NoRow,
     NoReservation, NoSnapshot, NoPass, NoCommand
<1>2. OneCommand /\ HoldsKept
  BY DEF Init, OneCommand, HoldsKept, NoCommand, Holding
<1>3. \A e \in Entry : ~IsOpen(res[e]) /\ book[e].st # "open"
  BY DEF Init, NoOrder, NoReservation, IsOpen, OpenReservation
<1>4. ReservedWithinCash
  <2>1. Units(res, Entry) = {}
    BY <1>3 DEF Units
  <2> QED BY <2>1, FS_EmptySet, CapitalAssumption DEF ReservedWithinCash, Reserved
<1> QED BY <1>1, <1>2, <1>3, <1>4 DEF CashInv, RoomToFill, RowsRemain

(* A command writes the rows of its own entry.                               *)
LEMMA CommandStep ==
    ASSUME CashInv, TypeOK', NEW d \in Device, NEW e \in Entry, NEW c,
           cmd[d].pc # "idle", cmd[d].entry = e, cmd' = [cmd EXCEPT ![d] = c],
           IF c.pc = "idle" THEN c.entry = "none" ELSE c.entry = e /\ c.amount >= 1,
           RoomToFill',
           \A x \in Entry \ {e} : res'[x] = res[x] /\ row'[x] = row[x],
           IsOpen(res'[e]) => RemainsEnough(res'[e], row'[e].filled),
           c.pc \in Holding => KeepsHold(c, res'[e], row'[e].filled),
           Hold(res'[e]) <= Hold(res[e]) \/ Hold(res'[e]) <= Available(d, e)
    PROVE  CashInv'
<1>1. \A x \in Device : cmd'[x] = IF x = d THEN c ELSE cmd[x]
  BY DEF CashInv, TypeOK
<1>2. OneCommand'
  BY <1>1 DEF CashInv, OneCommand
<1>3. RowsRemain'
  <2> SUFFICES ASSUME NEW x \in Entry PROVE IsOpen(res'[x]) => RemainsEnough(res'[x], row'[x].filled)
    BY DEF RowsRemain
  <2>1. CASE x = e
    BY <2>1
  <2>2. CASE x # e
    BY <2>2 DEF CashInv, RowsRemain
  <2> QED BY <2>1, <2>2
<1>4. HoldsKept'
  <2>1. ASSUME NEW x \in Device, cmd'[x].pc \in Holding
        PROVE  KeepsHold(cmd'[x], res'[cmd'[x].entry], row'[cmd'[x].entry].filled)
    <3>0. "idle" \notin Holding
      BY DEF Holding
    <3>1. CASE x = d
      BY <1>1, <2>1, <3>0, <3>1
    <3>2. CASE x # d
      <4>1. cmd'[x] = cmd[x] /\ cmd[x].entry \in Entry \ {e}
        BY <1>1, <2>1, <3>0, <3>2 DEF CashInv, OneCommand
      <4> QED BY <2>1, <4>1 DEF CashInv, HoldsKept
    <3> QED BY <3>1, <3>2
  <2> QED BY <2>1 DEF HoldsKept
<1>5. ReservedWithinCash'
  <2>1. res' \in [Entry -> Reservation]
    BY DEF TypeOK
  <2> QED BY <2>1, GrantedFits DEF CashInv, ReservedWithinCash, Reserved
<1> QED BY <1>2, <1>3, <1>4, <1>5 DEF CashInv

(* Everything else leaves the commands alone, and rows as full at most.      *)
Calmer(e) ==
    /\ IsOpen(res'[e]) => RemainsEnough(res'[e], row'[e].filled)
    /\ Hold(res'[e]) <= Hold(res[e])
    /\ row[e].filled <= row'[e].filled
    /\ res'[e] = res[e] \/ res'[e].version = res[e].version + 1

LEMMA CalmStep ==
    ASSUME CashInv, TypeOK', RoomToFill', cmd' = cmd, \A e \in Entry : Calmer(e)
    PROVE  CashInv'
<1>1. OneCommand' /\ RowsRemain'
  BY DEF CashInv, OneCommand, RowsRemain, Calmer
<1>2. HoldsKept'
  <2>1. ASSUME NEW x \in Device, cmd[x].pc \in Holding
        PROVE  KeepsHold(cmd[x], res'[cmd[x].entry], row'[cmd[x].entry].filled)
    <3> DEFINE e == cmd[x].entry
    <3>0. "idle" \notin Holding
      BY DEF Holding
    <3>1. e \in Entry
      BY <2>1, <3>0 DEF CashInv, OneCommand
    <3>2. /\ res[e] \in Reservation /\ res'[e] \in Reservation
          /\ cmd[x].held \in Reservation /\ cmd[x].prev \in Reservation
          /\ row[e].filled \in Nat /\ row'[e].filled \in Nat
      BY <3>1, CapitalAssumption DEF CashInv, TypeOK
    <3>3. KeepsHold(cmd[x], res[e], row[e].filled)
      BY <2>1 DEF CashInv, HoldsKept
    <3>4. Calmer(e)
      BY <3>1
    <3> QED BY <3>2, <3>3, <3>4, CapitalAssumption DEF Calmer, KeepsHold, RemainsEnough,
        Reservation
  <2> QED BY <2>1 DEF HoldsKept
<1>3. ReservedWithinCash'
  <2>1. /\ res \in [Entry -> Reservation] /\ res' \in [Entry -> Reservation]
        /\ \A e \in Entry : Hold(res'[e]) <= Hold(res[e])
    BY DEF CashInv, TypeOK, Calmer
  <2>2. Cardinality(Units(res', Entry)) <= Cardinality(Units(res, Entry))
    BY <2>1, UnitsShrink
  <2>3. /\ Cardinality(Units(res, Entry)) \in Nat /\ Cardinality(Units(res', Entry)) \in Nat
        /\ Cash \in Nat
    BY <2>1, UnitsFinite, CapitalAssumption
  <2> QED BY <2>2, <2>3 DEF CashInv, ReservedWithinCash, Reserved
<1> QED BY <1>1, <1>2, <1>3 DEF CashInv

(* Operators that keep a row a row.                                          *)
LEMMA WriteType ==
    ASSUME NEW r \in Reservation
    PROVE  /\ Write(r) \in Reservation /\ Write(r).version = r.version + 1
           /\ Write(r).requested = r.requested /\ Write(r).remaining = r.remaining
           /\ Write(r).status = r.status
  BY DEF Write, Reservation

LEMMA SettleType ==
    ASSUME NEW r \in Reservation, NEW o,
           o.filled \in 0 .. MaxAmount
    PROVE  /\ Settle(r, o) \in Reservation
           /\ Settle(r, o) = r \/ Settle(r, o).version = r.version + 1
           /\ Settle(r, o).requested = r.requested
<1> DEFINE n == Larger(0, r.requested - o.filled)
<1>1. n \in 0 .. MaxAmount
  BY CapitalAssumption DEF Larger, Reservation
<1>2. ASSUME NEW m \in 0 .. MaxAmount, NEW t \in ReservationStatus
      PROVE  /\ Write([r EXCEPT !.remaining = m, !.status = t]) \in Reservation
             /\ Write([r EXCEPT !.remaining = m, !.status = t]).version = r.version + 1
             /\ Write([r EXCEPT !.remaining = m, !.status = t]).requested = r.requested
  <2>1. [r EXCEPT !.remaining = m, !.status = t] \in Reservation
    BY <1>2 DEF Reservation
  <2>2. /\ [r EXCEPT !.remaining = m, !.status = t].version = r.version
        /\ [r EXCEPT !.remaining = m, !.status = t].requested = r.requested
    BY DEF Reservation
  <2> QED BY <2>1, <2>2, WriteType
<1>3. /\ {"CONSUMED", "RELEASED", "PARTIALLY_CONSUMED"} \subseteq ReservationStatus
      /\ 0 \in 0 .. MaxAmount
  BY CapitalAssumption DEF ReservationStatus, OpenReservation
<1> HIDE DEF n
<1>4. \/ Settle(r, o) = r
      \/ \E t \in ReservationStatus, m \in {0, n} :
            Settle(r, o) = Write([r EXCEPT !.remaining = m, !.status = t])
  BY <1>3 DEF Settle, n
<1>5. CASE \E t \in ReservationStatus, m \in {0, n} :
              Settle(r, o) = Write([r EXCEPT !.remaining = m, !.status = t])
  <2>1. PICK t \in ReservationStatus, m \in {0, n} :
              Settle(r, o) = Write([r EXCEPT !.remaining = m, !.status = t])
    BY <1>5
  <2>2. m \in 0 .. MaxAmount
    BY <1>1, <1>3
  <2> DEFINE w == Write([r EXCEPT !.remaining = m, !.status = t])
  <2>3. w \in Reservation /\ w.version = r.version + 1 /\ w.requested = r.requested
    BY <1>2, <2>2
  <2> HIDE DEF w
  <2>4. Settle(r, o) = w
    BY <2>1 DEF w
  <2> QED BY <2>3, <2>4
<1> QED BY <1>4, <1>5

LEMMA SettleShrinks ==
    ASSUME NEW r \in Reservation, NEW o, NEW f \in 0 .. MaxAmount,
           o.filled \in 0 .. MaxAmount, f <= o.filled,
           IsOpen(r) => RemainsEnough(r, f)
    PROVE  /\ Hold(Settle(r, o)) <= Hold(r)
           /\ IsOpen(Settle(r, o)) => RemainsEnough(Settle(r, o), o.filled)
<1>0. r.requested \in Nat /\ r.remaining \in Nat /\ o.filled \in Nat /\ f \in Nat
  BY CapitalAssumption DEF Reservation
<1>1. CASE ~IsOpen(r)
  BY <1>1 DEF Settle, Hold
<1>2. CASE IsOpen(r) /\ o.st = "OVER"
  <2>1. ~IsOpen(Settle(r, o))
    BY <1>2 DEF Settle, Write, IsOpen, OpenReservation, Reservation
  <2> QED BY <1>0, <2>1 DEF Hold
<1>3. CASE IsOpen(r) /\ o.st # "OVER"
  <2> DEFINE n == Larger(0, r.requested - o.filled)
  <2>0. r.remaining <= r.requested /\ r.requested <= r.remaining + f
    BY <1>3 DEF RemainsEnough
  <2>1. n \in Nat /\ n <= r.remaining /\ n <= r.requested /\ r.requested <= n + o.filled
    BY <1>0, <2>0 DEF Larger
  <2>2. CASE o.st = "WORKING" /\ n # r.remaining
    <3>1. Settle(r, o).remaining = n /\ Settle(r, o).requested = r.requested
      BY <1>3, <2>2 DEF Settle, Write, Reservation
    <3> QED BY <1>0, <1>3, <2>1, <3>1 DEF Hold, RemainsEnough
  <2>3. CASE ~(o.st = "WORKING" /\ n # r.remaining)
    <3>1. Settle(r, o) = r
      BY <1>3, <2>3 DEF Settle
    <3> QED BY <1>0, <1>3, <2>0, <3>1 DEF Hold, RemainsEnough
  <2> QED BY <2>2, <2>3
<1> QED BY <1>1, <1>2, <1>3

(* A pass only adds fills.                                                   *)
LEMMA RowAfterType ==
    ASSUME TypeOK, NEW e \in Entry, NEW v \in Order
    PROVE  /\ RowAfter(e, v) \in [st : {"NONE", "SUBMITTING", "WORKING", "CANCEL_PENDING", "OVER"},
                                  filled : 0 .. MaxAmount]
           /\ row[e].filled <= RowAfter(e, v).filled
<1>1. row[e] \in [st : {"NONE", "SUBMITTING", "WORKING", "CANCEL_PENDING", "OVER"},
                  filled : 0 .. MaxAmount]
  BY DEF TypeOK
<1> QED BY <1>1, CapitalAssumption DEF RowAfter, Order, Larger

(* The kinds of steps.                                                       *)
Starts(d, e) == \E a \in 1 .. MaxAmount : StartEntry(d, e, a) \/ StartReplace(d, e, a)

Commands(d, e) ==
    \/ Reserve(d, e) \/ Submit(d, e) \/ prepare_reservation_for_replacement(d, e)
    \/ JournalCancel(d, e) \/ RestoreHold(d, e) \/ CancelProven(d, e) \/ CancelAmbiguous(d, e)
    \/ Activate(d, e)

Passes(d) ==
    PassBalance(d) \/ PassOrders(d) \/ PassApply(d) \/ RefreshBalance(d) \/ SnapshotExpires(d)

World == \E e \in Entry : BrokerFills(e) \/ BrokerEnds(e)

LEMMA NextKinds ==
    Next =>  \/ \E d \in Device, e \in Entry : Starts(d, e) \/ Commands(d, e)
             \/ \E d \in Device : Passes(d)
             \/ World
  BY DEF Next, Starts, Commands, Passes, World

-----------------------------------------------------------------------------
(* Types.                                                                    *)

LEMMA StartsType ==
    ASSUME TypeOK, NEW d \in Device, NEW e \in Entry, Starts(d, e)
    PROVE  TypeOK'
<1>1. NoReservation \in Reservation
  BY CapitalAssumption DEF NoReservation, Reservation, ReservationStatus
<1>2. buying_power_provider(d) \in 0 .. Cash
  BY CapitalAssumption DEF buying_power_provider, TypeOK, NoSnapshot
<1> DEFINE New(a, l) == [NoCommand EXCEPT !.pc = l, !.entry = e, !.amount = a,
                                          !.power = buying_power_provider(d)]
<1>3. PICK a \in 1 .. MaxAmount : StartEntry(d, e, a) \/ StartReplace(d, e, a)
  BY DEF Starts
<1>4. /\ \E l \in {"reserve", "replace"} : cmd' = [cmd EXCEPT ![d] = New(a, l)]
      /\ UNCHANGED <<cash, book, row, res, power, pass>>
  BY <1>3 DEF StartEntry, StartReplace
<1>5. replaces' \in 0 .. MaxReplaces
  BY <1>3, CapitalAssumption DEF StartEntry, StartReplace, TypeOK
<1>6. a \in 0 .. MaxAmount
  BY CapitalAssumption
<1>7. \A l \in {"reserve", "replace"} :
         New(a, l) \in [pc : {"idle", "reserve", "submit", "replace",
                               "cancel", "cancelling", "cancelled"},
                         entry : Entry \cup {"none"}, amount : 0 .. MaxAmount,
                         power : 0 .. Cash, held : Reservation, prev : Reservation]
  BY <1>1, <1>2, <1>6 DEF NoCommand
<1> HIDE DEF New
<1> QED BY <1>4, <1>5, <1>7 DEF TypeOK

LEMMA CommandsType ==
    ASSUME CashInv, NEW d \in Device, NEW e \in Entry, Commands(d, e)
    PROVE  TypeOK'
<1> DEFINE R == [st : {"NONE", "SUBMITTING", "WORKING", "CANCEL_PENDING", "OVER"},
                 filled : 0 .. MaxAmount]
           C == [pc : {"idle", "reserve", "submit", "replace", "cancel", "cancelling", "cancelled"},
                 entry : Entry \cup {"none"}, amount : 0 .. MaxAmount,
                 power : 0 .. Cash, held : Reservation, prev : Reservation]
<1>0. /\ TypeOK
      /\ res[e] \in Reservation /\ row[e] \in R /\ book[e] \in Order /\ cmd[d] \in C
      /\ cmd[d].amount \in 0 .. MaxAmount
      /\ NoReservation \in Reservation /\ NoCommand \in C
  BY CapitalAssumption DEF CashInv, TypeOK, NoReservation, NoCommand, Reservation,
     ReservationStatus
<1>1. ASSUME NEW b \in Order, NEW r \in Reservation, NEW o \in R, NEW c \in C,
             book' = book \/ book' = [book EXCEPT ![e] = b],
             res' = res \/ res' = [res EXCEPT ![e] = r],
             row' = row \/ row' = [row EXCEPT ![e] = o],
             cmd' = cmd \/ cmd' = [cmd EXCEPT ![d] = c],
             UNCHANGED <<cash, power, pass, replaces>>
      PROVE  TypeOK'
  <2>0. /\ book \in [Entry -> Order] /\ res \in [Entry -> Reservation]
        /\ row \in [Entry -> R] /\ cmd \in [Device -> C]
    BY <1>0 DEF TypeOK
  <2>1. book' \in [Entry -> Order] /\ res' \in [Entry -> Reservation]
    <3>1. book' \in [Entry -> Order]
      BY <1>1, <2>0
    <3>2. res' \in [Entry -> Reservation]
      BY <1>1, <2>0
    <3> QED BY <3>1, <3>2
  <2>2. row' \in [Entry -> R] /\ cmd' \in [Device -> C]
    <3> HIDE DEF R, C
    <3> QED BY <1>1, <2>0
  <2> QED BY <1>0, <1>1, <2>1, <2>2 DEF TypeOK
<1>2. ASSUME NEW l \in {"submit", "cancel", "cancelling", "cancelled"}
      PROVE  [cmd[d] EXCEPT !.pc = l] \in C
  BY <1>0, <1>2
<1>3. CASE Reserve(d, e)
  <2>1. [status |-> "RESERVED", requested |-> cmd[d].amount,
         remaining |-> cmd[d].amount, version |-> 1] \in Reservation
    BY <1>0 DEF Reservation, ReservationStatus, OpenReservation
  <2>2. [st |-> "SUBMITTING", filled |-> 0] \in R
    BY CapitalAssumption
  <2> QED BY <1>0, <1>1, <1>2, <1>3, <2>1, <2>2 DEF Reserve, Step, Done
<1>4. CASE Submit(d, e)
  <2>1. [st |-> "open", total |-> cmd[d].amount, filled |-> 0] \in Order
    BY <1>0, CapitalAssumption DEF Order
  <2>2. [row[e] EXCEPT !.st = "WORKING"] \in R /\ [row[e] EXCEPT !.st = "OVER"] \in R
    BY <1>0
  <2>3. Write([res[e] EXCEPT !.status = "RELEASED", !.remaining = 0]) \in Reservation
    <3>1. [res[e] EXCEPT !.status = "RELEASED", !.remaining = 0] \in Reservation
      <4>1. 0 \in 0 .. MaxAmount /\ "RELEASED" \in ReservationStatus
        BY CapitalAssumption DEF ReservationStatus
      <4> QED BY <1>0, <4>1 DEF Reservation
    <3> QED BY <3>1, WriteType
  <2> QED BY <1>0, <1>1, <1>4, <2>1, <2>2, <2>3 DEF Submit, Done
<1>5. CASE prepare_reservation_for_replacement(d, e)
  <2> DEFINE h == TransitionHold(res[e], cmd[d].amount)
  <2>1. h \in Reservation
    <3>1. Larger(res[e].remaining, cmd[d].amount) \in 0 .. MaxAmount
      BY <1>0 DEF Larger, Reservation
    <3>2. \A m \in 0 .. MaxAmount : [res[e] EXCEPT !.requested = m, !.remaining = m] \in Reservation
      BY <1>0 DEF Reservation
    <3> QED BY <3>1, <3>2, WriteType DEF TransitionHold
  <2> HIDE DEF h
  <2>2. [cmd[d] EXCEPT !.pc = "cancel", !.held = h, !.prev = res[e]] \in C
    BY <1>0, <2>1
  <2>3. \/ /\ res' = [res EXCEPT ![e] = h]
           /\ cmd' = [cmd EXCEPT ![d] = [cmd[d] EXCEPT !.pc = "cancel", !.held = h, !.prev = res[e]]]
        \/ res' = res /\ cmd' = [cmd EXCEPT ![d] = NoCommand]
    BY <1>5 DEF prepare_reservation_for_replacement, Done, h
  <2>4. UNCHANGED <<cash, book, row, power, pass, replaces>>
    BY <1>5 DEF prepare_reservation_for_replacement
  <2> QED BY <1>0, <1>1, <2>1, <2>2, <2>3, <2>4
<1>6. CASE JournalCancel(d, e) \/ CancelProven(d, e) \/ CancelAmbiguous(d, e)
  <2>1. [row[e] EXCEPT !.st = "CANCEL_PENDING"] \in R /\ [row[e] EXCEPT !.st = "OVER"] \in R
    BY <1>0
  <2> QED BY <1>0, <1>1, <1>2, <1>6, <2>1 DEF JournalCancel, CancelProven, CancelAmbiguous, Step, Done
<1>7. CASE RestoreHold(d, e)
  <2>1. [row[e] EXCEPT !.st = "WORKING"] \in R
    BY <1>0
  <2>2. [cmd[d].prev EXCEPT !.version = res[e].version + 1] \in Reservation
    BY <1>0 DEF Reservation
  <2> QED BY <1>0, <1>1, <1>7, <2>1, <2>2 DEF RestoreHold, Done
<1>8. CASE Activate(d, e)
  <2>1. Write([res[e] EXCEPT !.status = "RESERVED", !.requested = cmd[d].amount,
                             !.remaining = cmd[d].amount]) \in Reservation
    <3>1. [res[e] EXCEPT !.status = "RESERVED", !.requested = cmd[d].amount,
                          !.remaining = cmd[d].amount] \in Reservation
      BY <1>0 DEF Reservation, ReservationStatus, OpenReservation
    <3> QED BY <3>1, WriteType
  <2>2. Write([res[e] EXCEPT !.status = "RELEASED", !.remaining = 0]) \in Reservation
    <3>1. [res[e] EXCEPT !.status = "RELEASED", !.remaining = 0] \in Reservation
      <4>1. 0 \in 0 .. MaxAmount /\ "RELEASED" \in ReservationStatus
        BY CapitalAssumption DEF ReservationStatus
      <4> QED BY <1>0, <4>1 DEF Reservation
    <3> QED BY <3>1, WriteType
  <2>3. [st |-> "SUBMITTING", filled |-> 0] \in R
    BY CapitalAssumption
  <2> QED BY <1>0, <1>1, <1>2, <1>8, <2>1, <2>2, <2>3 DEF Activate, Step, Done
<1> QED BY <1>3, <1>4, <1>5, <1>6, <1>7, <1>8 DEF Commands

LEMMA PassesType ==
    ASSUME CashInv, NEW d \in Device, Passes(d)
    PROVE  TypeOK'
<1> DEFINE P == [pc : {"idle", "orders", "apply"}, balance : 0 .. Cash, view : [Entry -> Order]]
<1>0. TypeOK /\ pass[d] \in P /\ NoPass \in P
  BY CapitalAssumption DEF CashInv, TypeOK, NoPass, NoOrder, Order
<1>1. CASE PassBalance(d) \/ PassOrders(d)
  <2>1. [NoPass EXCEPT !.pc = "orders", !.balance = cash] \in P
    BY <1>0 DEF TypeOK
  <2>2. [pass[d] EXCEPT !.pc = "apply", !.view = book] \in P
    BY <1>0 DEF TypeOK
  <2>3. \E q \in P : pass' = [pass EXCEPT ![d] = q]
    <3>1. CASE PassBalance(d)
      BY <2>1, <3>1 DEF PassBalance
    <3>2. CASE PassOrders(d)
      BY <2>2, <3>2 DEF PassOrders
    <3> QED BY <1>1, <3>1, <3>2
  <2>4. UNCHANGED <<cash, book, row, res, power, cmd, replaces>>
    BY <1>1 DEF PassBalance, PassOrders
  <2> QED BY <1>0, <2>3, <2>4 DEF TypeOK
<1>2. CASE PassApply(d)
  <2>1. \A e \in Entry : pass[d].view[e] \in Order /\ row'[e] = RowAfter(e, pass[d].view[e])
    BY <1>0, <1>2 DEF PassApply
  <2>2. row' \in [Entry -> [st : {"NONE", "SUBMITTING", "WORKING", "CANCEL_PENDING", "OVER"},
                            filled : 0 .. MaxAmount]]
    BY <1>0, <1>2, <2>1, RowAfterType DEF PassApply
  <2>3. \A e \in Entry : Settle(res[e], row'[e]) \in Reservation
    BY <1>0, <2>2, SettleType DEF TypeOK
  <2>4. pass[d].balance \in NoSnapshot .. Cash
    BY <1>0, CapitalAssumption DEF NoSnapshot
  <2> QED BY <1>0, <1>2, <2>2, <2>3, <2>4 DEF PassApply, TypeOK
<1>3. CASE RefreshBalance(d) \/ SnapshotExpires(d)
  <2>1. cash \in NoSnapshot .. Cash /\ NoSnapshot \in NoSnapshot .. Cash
    BY <1>0, CapitalAssumption DEF NoSnapshot, TypeOK
  <2>2. \E n \in NoSnapshot .. Cash : power' = [power EXCEPT ![d] = n]
    BY <1>3, <2>1 DEF RefreshBalance, SnapshotExpires
  <2>3. UNCHANGED <<cash, book, row, res, pass, cmd, replaces>>
    BY <1>3 DEF RefreshBalance, SnapshotExpires
  <2> QED BY <1>0, <2>2, <2>3 DEF TypeOK
<1> QED BY <1>1, <1>2, <1>3 DEF Passes

LEMMA WorldType ==
    ASSUME TypeOK, RoomToFill, World
    PROVE  TypeOK'
<1>1. PICK e \in Entry : BrokerFills(e) \/ BrokerEnds(e)
  BY DEF World
<1>2. book[e] \in Order
  BY DEF TypeOK
<1>3. [book[e] EXCEPT !.st = "over"] \in Order
  BY <1>2 DEF Order
<1>4. ASSUME BrokerFills(e)
      PROVE  /\ cash - 1 \in 0 .. Cash
             /\ \A s \in {"open", "over"} :
                  [book[e] EXCEPT !.filled = @ + 1, !.st = s] \in Order
  <2>1. cash \in 0 .. Cash /\ cash > 0 /\ Cash \in Nat
    BY <1>4, CapitalAssumption DEF BrokerFills, TypeOK
  <2>2. book[e].filled \in Nat /\ book[e].total \in 0 .. MaxAmount /\ book[e].filled < book[e].total
    BY <1>2, <1>4, CapitalAssumption DEF BrokerFills, Order, RoomToFill
  <2>3. book[e].filled + 1 \in 0 .. MaxAmount
    BY <2>2, CapitalAssumption
  <2>4. cash - 1 \in 0 .. Cash
    BY <2>1
  <2> QED BY <1>2, <2>3, <2>4 DEF Order
<1>5. CASE BrokerFills(e)
  <2>1. \E s \in {"open", "over"} :
          book' = [book EXCEPT ![e] = [book[e] EXCEPT !.filled = @ + 1, !.st = s]]
    BY <1>5 DEF BrokerFills
  <2> QED BY <1>4, <1>5, <2>1 DEF BrokerFills, TypeOK
<1>6. CASE BrokerEnds(e)
  <2>1. book' = [book EXCEPT ![e] = [book[e] EXCEPT !.st = "over"]]
    BY <1>6 DEF BrokerEnds
  <2> QED BY <1>3, <1>6, <2>1 DEF BrokerEnds, TypeOK
<1> QED BY <1>1, <1>5, <1>6

-----------------------------------------------------------------------------
(* What each kind of step does to the capital held.                          *)

LEMMA StartsCash ==
    ASSUME CashInv, NEW d \in Device, NEW e \in Entry, Starts(d, e)
    PROVE  CashInv'
<1>1. PICK a \in 1 .. MaxAmount : StartEntry(d, e, a) \/ StartReplace(d, e, a)
  BY DEF Starts
<1> DEFINE New(l) == [NoCommand EXCEPT !.pc = l, !.entry = e, !.amount = a,
                                       !.power = buying_power_provider(d)]
<1>2. PICK l \in {"reserve", "replace"} : cmd' = [cmd EXCEPT ![d] = New(l)]
  BY <1>1 DEF StartEntry, StartReplace
<1>3. New(l).pc = l /\ New(l).entry = e /\ New(l).amount >= 1
  BY DEF NoCommand
<1>4. UNCHANGED <<book, row, res>>
  BY <1>1 DEF StartEntry, StartReplace
<1>5. cmd[d].pc = "idle" /\ \A x \in Device : cmd[x].entry # e
  BY <1>1 DEF StartEntry, StartReplace, Free
<1> HIDE DEF New
<1>6. \A x \in Device : cmd'[x] = IF x = d THEN New(l) ELSE cmd[x]
  BY <1>2 DEF CashInv, TypeOK
<1>7. TypeOK'
  BY StartsType DEF CashInv
<1>8. OneCommand'
  BY <1>3, <1>5, <1>6 DEF CashInv, OneCommand
<1>9. RoomToFill' /\ RowsRemain' /\ ReservedWithinCash'
  BY <1>4 DEF CashInv, RoomToFill, RowsRemain, ReservedWithinCash, Reserved
<1>10. HoldsKept'
  <2>1. l \notin Holding
    BY DEF Holding
  <2> QED BY <1>3, <1>4, <1>6, <2>1 DEF CashInv, HoldsKept
<1> QED BY <1>7, <1>8, <1>9, <1>10 DEF CashInv

LEMMA PassesCash ==
    ASSUME CashInv, NEW d \in Device, Passes(d)
    PROVE  CashInv'
<1>1. TypeOK'
  BY PassesType
<1>2. cmd' = cmd /\ book' = book
  BY DEF Passes, PassBalance, PassOrders, PassApply, RefreshBalance, SnapshotExpires
<1>3. RoomToFill'
  BY <1>2 DEF CashInv, RoomToFill
<1>4. ASSUME NEW e \in Entry PROVE Calmer(e)
  <2>0. /\ res[e] \in Reservation /\ row[e].filled \in 0 .. MaxAmount
        /\ IsOpen(res[e]) => RemainsEnough(res[e], row[e].filled)
    BY DEF CashInv, TypeOK, RowsRemain
  <2>1. CASE PassApply(d)
    <3>1. /\ res'[e] = Settle(res[e], row'[e]) /\ row'[e] = RowAfter(e, pass[d].view[e])
          /\ pass[d].view[e] \in Order
      BY <2>1 DEF PassApply, CashInv, TypeOK
    <3>2. row'[e].filled \in 0 .. MaxAmount /\ row[e].filled <= row'[e].filled
      BY <3>1, RowAfterType DEF CashInv
    <3>3. /\ Hold(Settle(res[e], row'[e])) <= Hold(res[e])
          /\ IsOpen(Settle(res[e], row'[e])) => RemainsEnough(Settle(res[e], row'[e]), row'[e].filled)
      BY <2>0, <3>2, SettleShrinks
    <3>4. \/ Settle(res[e], row'[e]) = res[e]
          \/ Settle(res[e], row'[e]).version = res[e].version + 1
      BY <2>0, <3>2, SettleType
    <3> QED BY <3>1, <3>2, <3>3, <3>4 DEF Calmer
  <2>2. CASE ~PassApply(d)
    <3>1. row' = row /\ res' = res
      BY <2>2 DEF Passes, PassBalance, PassOrders, RefreshBalance, SnapshotExpires
    <3>2. Hold(res[e]) \in Nat /\ row[e].filled \in Nat
      BY <2>0, CapitalAssumption DEF Hold, Reservation
    <3> QED BY <2>0, <3>1, <3>2 DEF Calmer
  <2> QED BY <2>1, <2>2
<1> QED BY <1>1, <1>2, <1>3, <1>4, CalmStep

LEMMA WorldCash ==
    ASSUME CashInv, World
    PROVE  CashInv'
<1>1. TypeOK'
  BY WorldType DEF CashInv
<1>2. UNCHANGED <<row, res, cmd>>
  BY DEF World, BrokerFills, BrokerEnds
<1>3. RoomToFill'
  <2>1. PICK e \in Entry : BrokerFills(e) \/ BrokerEnds(e)
    BY DEF World
  <2>2. /\ book[e].st = "open" /\ book[e].filled < book[e].total
        /\ book[e].filled \in Nat /\ book[e].total \in Nat /\ book[e] \in Order
    BY <2>1, CapitalAssumption DEF BrokerFills, BrokerEnds, CashInv, RoomToFill, TypeOK, Order
  <2>3. book'[e].st = "open" => book'[e].filled < book'[e].total
    <3>0. e \in DOMAIN book
      BY DEF CashInv, TypeOK
    <3>1. CASE BrokerEnds(e)
      <4>1. book'[e].st = "over"
        BY <2>2, <3>0, <3>1 DEF BrokerEnds, Order
      <4> QED BY <4>1
    <3>2. CASE BrokerFills(e)
      <4>1. /\ book'[e].filled = book[e].filled + 1 /\ book'[e].total = book[e].total
            /\ book'[e].st = IF LeftOf(book[e]) = 1 THEN "over" ELSE "open"
        BY <2>2, <3>0, <3>2 DEF BrokerFills, Order
      <4> QED BY <2>2, <4>1 DEF LeftOf
    <3> QED BY <2>1, <3>1, <3>2
  <2>4. \A x \in Entry \ {e} : book'[x] = book[x]
    BY <2>1 DEF BrokerFills, BrokerEnds, CashInv, TypeOK
  <2> QED BY <2>3, <2>4 DEF CashInv, RoomToFill
<1>4. ASSUME NEW e \in Entry PROVE Calmer(e)
  <2>1. res[e] \in Reservation /\ row[e].filled \in Nat /\ Hold(res[e]) \in Nat
    BY CapitalAssumption DEF Hold, CashInv, TypeOK, Reservation
  <2> QED BY <1>2, <2>1 DEF Calmer, CashInv, RowsRemain
<1> QED BY <1>1, <1>2, <1>3, <1>4, CalmStep

LEMMA CommandsCash ==
    ASSUME CashInv, NEW d \in Device, NEW e \in Entry, Commands(d, e)
    PROVE  CashInv'
<1> DEFINE c == cmd'[d]
           calm == res'[e] = res[e] /\ row'[e].filled = row[e].filled
<1>1. TypeOK'
  BY CommandsType
<1>2. /\ cmd[d].pc # "idle" /\ cmd[d].entry = e /\ cmd[d].amount \in 1 .. MaxAmount /\ e # "none"
      /\ res[e] \in Reservation /\ row[e].filled \in 0 .. MaxAmount
      /\ cmd[d].held \in Reservation /\ cmd[d].prev \in Reservation
      /\ res'[e] \in Reservation
      /\ e \in DOMAIN res /\ e \in DOMAIN row /\ e \in DOMAIN book /\ d \in DOMAIN cmd
  <2>1. cmd[d].pc # "idle" /\ cmd[d].entry = e
    BY DEF Commands, Reserve, Submit, prepare_reservation_for_replacement, JournalCancel,
       RestoreHold, CancelProven, CancelAmbiguous, Activate, At
  <2>2. cmd[d].amount >= 1 /\ e # "none"
    BY <2>1 DEF CashInv, OneCommand
  <2>3. cmd[d].amount \in 0 .. MaxAmount
    BY DEF CashInv, TypeOK
  <2> QED BY <1>1, <2>1, <2>2, <2>3, CapitalAssumption DEF CashInv, TypeOK
<1>3. cmd' = [cmd EXCEPT ![d] = c] /\ \A x \in Entry \ {e} : res'[x] = res[x] /\ row'[x] = row[x]
  <2>1. cmd \in [Device -> [pc : {"idle", "reserve", "submit", "replace", "cancel", "cancelling", "cancelled"},
                            entry : Entry \cup {"none"}, amount : 0 .. MaxAmount,
                            power : 0 .. Cash, held : Reservation, prev : Reservation]]
    BY DEF CashInv, TypeOK
  <2>2. \E q : cmd' = [cmd EXCEPT ![d] = q]
    BY DEF Commands, Reserve, Submit, prepare_reservation_for_replacement, JournalCancel,
       RestoreHold, CancelProven, CancelAmbiguous, Activate, Step, Done
  <2>3. \A x \in Entry \ {e} : res'[x] = res[x]
    BY DEF Commands, Reserve, Submit, prepare_reservation_for_replacement, JournalCancel,
       RestoreHold, CancelProven, CancelAmbiguous, Activate, Step, Done, CashInv, TypeOK
  <2>4. \A x \in Entry \ {e} : row'[x] = row[x]
    BY DEF Commands, Reserve, Submit, prepare_reservation_for_replacement, JournalCancel,
       RestoreHold, CancelProven, CancelAmbiguous, Activate, Step, Done, CashInv, TypeOK
  <2> QED BY <2>1, <2>2, <2>3, <2>4
<1>4. RoomToFill'
  <2>1. book' = book \/ book' = [book EXCEPT ![e] = [st |-> "open", total |-> cmd[d].amount, filled |-> 0]]
    BY DEF Commands, Reserve, Submit, prepare_reservation_for_replacement, JournalCancel,
       RestoreHold, CancelProven, CancelAmbiguous, Activate
  <2>2. ASSUME NEW x \in Entry, book'[x].st = "open" PROVE book'[x].filled < book'[x].total
    <3>1. CASE book'[x] = book[x]
      BY <2>2, <3>1 DEF CashInv, RoomToFill
    <3>2. CASE book'[x] = [st |-> "open", total |-> cmd[d].amount, filled |-> 0]
      BY <1>2, <3>2
    <3>3. DOMAIN book = Entry
      BY DEF CashInv, TypeOK
    <3> QED BY <2>1, <3>1, <3>2, <3>3
  <2> QED BY <2>2 DEF RoomToFill
<1>5. NoCommand.pc = "idle" /\ NoCommand.entry = "none"
  BY DEF NoCommand
<1>6. "idle" \notin Holding
  BY DEF Holding
<1>7. RowsRemain /\ (IsOpen(res[e]) => RemainsEnough(res[e], row[e].filled))
  BY DEF CashInv, RowsRemain
<1>8. cmd[d].pc \in Holding => KeepsHold(cmd[d], res[e], row[e].filled)
  BY <1>2 DEF CashInv, HoldsKept
<1>9. Hold(res[e]) \in Nat /\ Hold(res'[e]) \in Nat
  BY <1>2, CapitalAssumption DEF Hold, Reservation
<1>a. Available(d, e) \in Int
  <2>1. /\ res \in [Entry -> Reservation] /\ cmd[d].power \in 0 .. Cash
    BY DEF CashInv, TypeOK
  <2>2. Cardinality(Units(res, Entry \ {e})) \in Nat
    BY <2>1, UnitsFinite
  <2> QED BY <2>1, <2>2, CapitalAssumption DEF Available, Reserved
<1>10. ASSUME IF c.pc = "idle" THEN c.entry = "none" ELSE c.entry = e /\ c.amount >= 1,
              IsOpen(res'[e]) => RemainsEnough(res'[e], row'[e].filled),
              c.pc \in Holding => KeepsHold(c, res'[e], row'[e].filled),
              Hold(res'[e]) <= Hold(res[e]) \/ Hold(res'[e]) <= Available(d, e)
       PROVE  CashInv'
  <2> HIDE DEF c
  <2> QED BY <1>1, <1>2, <1>3, <1>4, <1>10, CommandStep
(* Steps that leave the reservation alone.                                   *)
<1>11. ASSUME calm, c = NoCommand \/ \E l \in {"cancelling", "cancelled"} :
                      cmd[d].pc \in Holding /\ c = [cmd[d] EXCEPT !.pc = l]
       PROVE  CashInv'
  <2>1. c.pc \in Holding => KeepsHold(c, res'[e], row'[e].filled)
    BY <1>5, <1>6, <1>8, <1>11 DEF KeepsHold, CashInv, TypeOK
  <2>2. IF c.pc = "idle" THEN c.entry = "none" ELSE c.entry = e /\ c.amount >= 1
    BY <1>2, <1>5, <1>11 DEF CashInv, TypeOK
  <2> QED BY <1>7, <1>9, <1>10, <1>11, <2>1, <2>2
<1>12. CASE Reserve(d, e)
  <2>1. CASE Available(d, e) >= cmd[d].amount
    <3>1. /\ res'[e] = [status |-> "RESERVED", requested |-> cmd[d].amount,
                        remaining |-> cmd[d].amount, version |-> 1]
          /\ row'[e] = [st |-> "SUBMITTING", filled |-> 0]
          /\ c = [cmd[d] EXCEPT !.pc = "submit"]
      BY <1>2, <1>a, <1>12, <2>1 DEF Reserve, Step, CashInv, TypeOK
    <3>2. c.pc = "submit" /\ c.entry = e /\ c.amount >= 1 /\ "submit" \notin Holding
      BY <1>2, <3>1 DEF Holding, CashInv, TypeOK
    <3>3. Hold(res'[e]) <= Available(d, e)
      BY <2>1, <3>1 DEF Hold, IsOpen, OpenReservation
    <3>4. RemainsEnough(res'[e], row'[e].filled)
      BY <1>2, <3>1 DEF RemainsEnough
    <3> HIDE DEF c
    <3> QED BY <1>10, <3>2, <3>3, <3>4
  <2>2. CASE ~(Available(d, e) >= cmd[d].amount)
    <3>1. calm /\ c = NoCommand
      BY <1>2, <1>12, <2>2 DEF Reserve, Done
    <3> QED BY <1>11, <3>1
  <2> QED BY <2>1, <2>2
<1>13. CASE Submit(d, e)
  <2>1. c = NoCommand
    BY <1>2, <1>13 DEF Submit, Done
  <2>2. CASE res' = res
    <3>1. row'[e].filled = row[e].filled
      BY <1>2, <1>13 DEF Submit, CashInv, TypeOK
    <3> QED BY <1>11, <2>1, <2>2, <3>1
  <2>3. CASE res' # res
    <3>1. res'[e] = Write([res[e] EXCEPT !.status = "RELEASED", !.remaining = 0])
      BY <1>2, <1>13, <2>3 DEF Submit
    <3>2. ~IsOpen(res'[e])
      BY <1>2, <3>1 DEF Write, IsOpen, OpenReservation, Reservation
    <3> QED BY <1>5, <1>6, <1>9, <1>10, <2>1, <3>2 DEF Hold
  <2> QED BY <2>2, <2>3
<1>14. CASE prepare_reservation_for_replacement(d, e)
  <2>1. CASE IsOpen(res[e]) /\ Available(d, e) >= cmd[d].amount
    <3> DEFINE h == TransitionHold(res[e], cmd[d].amount)
    <3>1. res'[e] = h /\ row' = row /\ c = [cmd[d] EXCEPT !.pc = "cancel", !.held = h, !.prev = res[e]]
      BY <1>2, <1>a, <1>14, <2>1 DEF prepare_reservation_for_replacement, CashInv, TypeOK
    <3>2. /\ c.pc = "cancel" /\ c.entry = e /\ c.amount >= 1 /\ c.held = h /\ c.prev = res[e]
      BY <1>2, <3>1 DEF CashInv, TypeOK
    <3> DEFINE m == Larger(res[e].remaining, cmd[d].amount)
    <3>3. m \in 0 .. MaxAmount /\ res[e].remaining <= m /\ m \in {res[e].remaining, cmd[d].amount}
      BY <1>2, CapitalAssumption DEF Larger, Reservation
    <3>4. h.remaining = m /\ h.requested = m /\ h.version = res[e].version + 1 /\ h.status = res[e].status
      BY <1>2 DEF TransitionHold, Write, Reservation
    <3> HIDE DEF h, c, m
    <3>5. RemainsEnough(h, row[e].filled)
      BY <1>2, <3>3, <3>4, CapitalAssumption DEF RemainsEnough
    <3>6. KeepsHold(c, h, row[e].filled)
      <4>1. IsOpen(h) /\ h.version <= h.version
        BY <1>2, <2>1, <3>4 DEF IsOpen, Reservation
      <4> QED BY <1>7, <2>1, <3>2, <3>3, <3>4, <4>1 DEF KeepsHold
    <3>7. Hold(h) <= Hold(res[e]) \/ Hold(h) <= Available(d, e)
      BY <1>2, <2>1, <3>3, <3>4 DEF Hold, IsOpen
    <3> QED BY <1>10, <3>1, <3>2, <3>5, <3>6, <3>7
  <2>2. CASE ~(IsOpen(res[e]) /\ Available(d, e) >= cmd[d].amount)
    <3>1. calm /\ c = NoCommand
      BY <1>2, <1>14, <2>2 DEF prepare_reservation_for_replacement, Done
    <3> QED BY <1>11, <3>1
  <2> QED BY <2>1, <2>2
<1>15. CASE JournalCancel(d, e)
  <2>1. calm /\ c = [cmd[d] EXCEPT !.pc = "cancelling"] /\ cmd[d].pc \in Holding
    BY <1>2, <1>15 DEF JournalCancel, Step, At, Holding, CashInv, TypeOK
  <2> QED BY <1>11, <2>1
<1>16. CASE CancelProven(d, e)
  <2>1. calm /\ c = [cmd[d] EXCEPT !.pc = "cancelled"] /\ cmd[d].pc \in Holding
    BY <1>2, <1>16 DEF CancelProven, Step, At, Holding, CashInv, TypeOK
  <2> QED BY <1>11, <2>1
<1>17. CASE CancelAmbiguous(d, e)
  <2>1. calm /\ c = NoCommand
    BY <1>2, <1>17 DEF CancelAmbiguous, Done
  <2> QED BY <1>11, <2>1
<1>18. CASE RestoreHold(d, e)
  <2>1. c = NoCommand /\ row'[e].filled = row[e].filled /\ cmd[d].pc \in Holding
    BY <1>2, <1>18 DEF RestoreHold, Done, At, Holding, CashInv, TypeOK
  <2>2. CASE Restorable(d, e)
    <3>1. res'[e] = [cmd[d].prev EXCEPT !.version = res[e].version + 1]
      BY <1>2, <1>18, <2>2 DEF RestoreHold
    <3>2. /\ IsOpen(cmd[d].prev) /\ RemainsEnough(cmd[d].prev, row[e].filled)
          /\ cmd[d].prev.remaining <= cmd[d].held.remaining /\ res[e] = cmd[d].held
      BY <1>8, <2>1, <2>2 DEF KeepsHold, Restorable
    <3>3. /\ res'[e].status = cmd[d].prev.status /\ res'[e].remaining = cmd[d].prev.remaining
          /\ res'[e].requested = cmd[d].prev.requested
      BY <1>2, <3>1 DEF Reservation
    <3>4. RemainsEnough(res'[e], row'[e].filled)
      BY <2>1, <3>2, <3>3 DEF RemainsEnough
    <3>5. Hold(res'[e]) <= Hold(res[e]) \/ Hold(res'[e]) <= Available(d, e)
      BY <1>8, <2>1, <3>2, <3>3 DEF Hold, IsOpen, KeepsHold
    <3> QED BY <1>5, <1>6, <1>10, <2>1, <3>4, <3>5
  <2>3. CASE ~Restorable(d, e)
    <3>1. res' = res
      BY <1>18, <2>3 DEF RestoreHold
    <3> QED BY <1>11, <2>1, <3>1
  <2> QED BY <2>2, <2>3
<1>19. CASE Activate(d, e)
  <2>1. CASE Activatable(d, e)
    <3> DEFINE w == [res[e] EXCEPT !.status = "RESERVED", !.requested = cmd[d].amount,
                                   !.remaining = cmd[d].amount]
    <3>1. /\ res'[e] = Write(w)
          /\ row'[e] = [st |-> "SUBMITTING", filled |-> 0]
          /\ c = [cmd[d] EXCEPT !.pc = "submit"]
      BY <1>2, <1>19, <2>1 DEF Activate, Step, CashInv, TypeOK
    <3>2. c.pc = "submit" /\ c.entry = e /\ c.amount >= 1 /\ "submit" \notin Holding
      BY <1>2, <3>1 DEF Holding, CashInv, TypeOK
    <3>3. res'[e].remaining = cmd[d].amount /\ res'[e].requested = cmd[d].amount
      BY <1>2, <3>1 DEF Write, Reservation
    <3>4. RemainsEnough(res'[e], row'[e].filled)
      BY <1>2, <3>1, <3>3 DEF RemainsEnough
    <3>5. Hold(res'[e]) <= Hold(res[e])
      BY <1>2, <2>1, <3>3, CapitalAssumption DEF Hold, Activatable, Reservation
    <3> HIDE DEF c
    <3> QED BY <1>10, <3>2, <3>4, <3>5
  <2>2. CASE ~Activatable(d, e)
    <3>1. c = NoCommand /\ row' = row
      BY <1>2, <1>19, <2>2 DEF Activate, Done
    <3>2. CASE IsOpen(res[e])
      <4>1. res'[e] = Write([res[e] EXCEPT !.status = "RELEASED", !.remaining = 0])
        BY <1>2, <1>19, <2>2, <3>2 DEF Activate
      <4>2. ~IsOpen(res'[e])
        BY <1>2, <4>1 DEF Write, IsOpen, OpenReservation, Reservation
      <4> QED BY <1>5, <1>6, <1>9, <1>10, <3>1, <4>2 DEF Hold
    <3>3. CASE ~IsOpen(res[e])
      <4>1. res' = res
        BY <1>19, <2>2, <3>3 DEF Activate
      <4> QED BY <1>11, <3>1, <4>1
    <3> QED BY <3>2, <3>3
  <2> QED BY <2>1, <2>2
<1> QED BY <1>12, <1>13, <1>14, <1>15, <1>16, <1>17, <1>18, <1>19 DEF Commands

LEMMA NextCash ==
    ASSUME CashInv, [Next]_vars
    PROVE  CashInv'
<1>1. CASE Next
  BY <1>1, NextKinds, StartsCash, CommandsCash, PassesCash, WorldCash
<1>2. CASE UNCHANGED vars
  BY <1>2 DEF vars, CashInv, TypeOK, OneCommand, RoomToFill, RowsRemain, HoldsKept,
     ReservedWithinCash, Reserved
<1> QED BY <1>1, <1>2

(* Whatever devices, holds and settlements do, the active rows of an account *)
(* together hold no more than the account had                                *)
(* (insert_reservation_if_available under the account lock).                 *)
THEOREM NeverOverReserved == Spec => []ReservedWithinCash
<1>1. Init => CashInv
  BY InitCash
<1>2. CashInv /\ [Next]_vars => CashInv'
  BY NextCash
<1>3. CashInv => ReservedWithinCash
  BY DEF CashInv
<1> QED BY <1>1, <1>2, <1>3, PTL DEF Spec

-----------------------------------------------------------------------------
(* Orders and their rows, while no pass runs beside a command.               *)

LEMMA InitCover == ASSUME Init PROVE CoverInv
<1>1. CashInv
  BY InitCash
<1>2. /\ \A d \in Device : cmd[d].pc = "idle" /\ pass[d].pc = "idle"
      /\ \A e \in Entry : book[e].st = "none"
  BY DEF Init, NoCommand, NoPass, NoOrder
<1> QED BY <1>1, <1>2 DEF CoverInv, Alone, OrderFits

LEMMA CoverImplies ==
    ASSUME CoverInv PROVE Covered
<1> SUFFICES ASSUME NEW e \in Entry, book[e].st = "open"
             PROVE  IsOpen(res[e]) /\ LeftOf(book[e]) <= res[e].remaining
  BY DEF Covered
<1>1. /\ IsOpen(res[e]) /\ book[e].total <= res[e].requested /\ row[e].filled <= book[e].filled
  BY DEF CoverInv, OrderFits
<1>2. res[e].requested <= res[e].remaining + row[e].filled
  BY <1>1 DEF CoverInv, CashInv, RowsRemain, RemainsEnough
<1>3. /\ book[e].total \in Nat /\ book[e].filled \in Nat /\ row[e].filled \in Nat
      /\ res[e].requested \in Nat /\ res[e].remaining \in Nat
  BY CapitalAssumption DEF CoverInv, CashInv, TypeOK, Order, Reservation
<1> QED BY <1>1, <1>2, <1>3 DEF LeftOf

LEMMA StartsCover ==
    ASSUME CoverInv, Alone',
           NEW d \in Device, NEW e \in Entry, Starts(d, e)
    PROVE  CoverInv'
<1>1. CashInv'
  BY StartsCash DEF CoverInv
<1>2. PICK a \in 1 .. MaxAmount : StartEntry(d, e, a) \/ StartReplace(d, e, a)
  BY DEF Starts
<1>3. \A x \in Device \ {d} : cmd'[x] = cmd[x]
  BY <1>2 DEF StartEntry, StartReplace, CoverInv, CashInv, TypeOK
<1>4. UNCHANGED <<book, row, res, pass>>
  BY <1>2 DEF StartEntry, StartReplace
<1>5. \/ /\ res[e] = NoReservation /\ cmd'[d].pc = "reserve" /\ cmd'[d].entry = e
      \/ /\ row[e].filled = 0 /\ cmd'[d].pc = "replace" /\ cmd'[d].entry = e
  <2> DEFINE New(l) == [NoCommand EXCEPT !.pc = l, !.entry = e, !.amount = a,
                                         !.power = buying_power_provider(d)]
  <2>1. \A l : New(l).pc = l /\ New(l).entry = e
    BY DEF NoCommand
  <2>2. DOMAIN cmd = Device
    BY DEF CoverInv, CashInv, TypeOK
  <2>3. CASE StartEntry(d, e, a)
    <3>1. cmd' = [cmd EXCEPT ![d] = New("reserve")] /\ res[e] = NoReservation
      BY <2>3 DEF StartEntry
    <3> HIDE DEF New
    <3> QED BY <2>1, <2>2, <3>1
  <2>4. CASE StartReplace(d, e, a)
    <3>1. cmd' = [cmd EXCEPT ![d] = New("replace")] /\ row[e] = [st |-> "WORKING", filled |-> 0]
      BY <2>4 DEF StartReplace
    <3> HIDE DEF New
    <3> QED BY <2>1, <2>2, <3>1
  <2> QED BY <1>2, <2>3, <2>4
<1>6. ~IsOpen(NoReservation)
  BY DEF IsOpen, OpenReservation, NoReservation
<1>7. OrderFits(e)
  BY DEF CoverInv
<1>8. CommandFits(cmd'[d], e)
  BY <1>5, <1>6, <1>7 DEF CommandFits, OrderFits
<1>9. \A x \in Device : pass'[x].pc # "apply"
  BY <1>5 DEF Alone
<1>10. \A x \in Entry : OrderFits(x)'
  BY <1>4 DEF CoverInv, OrderFits
<1>11. \A x \in Device : cmd'[x].pc # "idle" => CommandFits(cmd[x], cmd[x].entry)'
  <2>1. CommandFits(cmd[d], cmd[d].entry)'
    BY <1>4, <1>5, <1>8 DEF CommandFits
  <2>2. ASSUME NEW x \in Device \ {d}, cmd'[x].pc # "idle"
        PROVE  CommandFits(cmd[x], cmd[x].entry)'
    BY <1>3, <1>4, <2>2 DEF CoverInv, CommandFits
  <2> QED BY <2>1, <2>2
<1> QED BY <1>1, <1>9, <1>10, <1>11 DEF CoverInv

LEMMA WorldCover ==
    ASSUME CoverInv, World
    PROVE  CoverInv'
<1>1. CashInv'
  BY WorldCash DEF CoverInv
<1>2. PICK e \in Entry : BrokerFills(e) \/ BrokerEnds(e)
  BY DEF World
<1>3. UNCHANGED <<row, res, cmd, pass>>
  BY <1>2 DEF BrokerFills, BrokerEnds
<1>4. ASSUME NEW x \in Entry
      PROVE  /\ book'[x].st = "open" => book[x].st = "open"
             /\ book'[x].total = book[x].total
             /\ book[x].filled <= book'[x].filled
             /\ book[x].filled \in Nat /\ book'[x].filled \in Nat
  <2>1. book[x] \in Order /\ book'[x] \in Order /\ DOMAIN book = Entry
    BY <1>1 DEF CoverInv, CashInv, TypeOK
  <2>2. CASE x = e
    <3>1. \/ book'[e] = [book[e] EXCEPT !.st = "over"]
          \/ \E s \in {"over", "open"} : book'[e] = [book[e] EXCEPT !.filled = @ + 1, !.st = s]
      BY <1>2, <2>1 DEF BrokerFills, BrokerEnds
    <3>2. book[e].st = "open"
      BY <1>2 DEF BrokerFills, BrokerEnds
    <3>3. book[e].filled \in Nat /\ book[e] \in Order
      BY <2>1, <2>2, CapitalAssumption DEF Order
    <3>4. book'[e].total = book[e].total /\ book'[e].filled \in {book[e].filled, book[e].filled + 1}
      BY <3>1, <3>3 DEF Order
    <3> QED BY <2>2, <3>2, <3>3, <3>4
  <2>3. CASE x # e
    <3>1. book'[x] = book[x]
      BY <1>2, <2>1, <2>3 DEF BrokerFills, BrokerEnds
    <3> QED BY <2>1, <3>1, CapitalAssumption DEF Order
  <2> QED BY <2>2, <2>3
<1>5. \A x \in Entry : row[x].filled \in Nat
  BY CapitalAssumption DEF CoverInv, CashInv, TypeOK
<1>6. \A x \in Entry : OrderFits(x)'
  BY <1>3, <1>4, <1>5 DEF CoverInv, OrderFits
<1>7. \A d \in Device : cmd[d].pc # "idle" => CommandFits(cmd[d], cmd[d].entry)'
  <2> SUFFICES ASSUME NEW d \in Device, cmd[d].pc # "idle"
               PROVE  CommandFits(cmd[d], cmd[d].entry)'
    OBVIOUS
  <2>1. cmd[d].entry \in Entry /\ CommandFits(cmd[d], cmd[d].entry)
    BY DEF CoverInv, CashInv, OneCommand
  <2> QED BY <1>3, <1>4, <2>1 DEF CommandFits
<1>8. \A d \in Device : pass[d].pc = "apply" => \A x \in Entry : ViewFits(pass[d].view[x], x)'
  <2> SUFFICES ASSUME NEW d \in Device, pass[d].pc = "apply", NEW x \in Entry
               PROVE  ViewFits(pass[d].view[x], x)'
    OBVIOUS
  <2>1. ViewFits(pass[d].view[x], x) /\ pass[d].view[x].filled \in Nat
    BY CapitalAssumption DEF CoverInv, CashInv, TypeOK, Order
  <2> QED BY <1>3, <1>4, <2>1 DEF ViewFits
<1>9. Alone'
  BY <1>3 DEF CoverInv, Alone
<1> QED BY <1>1, <1>3, <1>6, <1>7, <1>8, <1>9 DEF CoverInv

LEMMA PassesCover ==
    ASSUME CoverInv, Alone', NEW d \in Device, Passes(d)
    PROVE  CoverInv'
<1>1. CashInv'
  BY PassesCash DEF CoverInv
<1>2. ASSUME NEW x \in Device \ {d} PROVE pass'[x] = pass[x]
  BY DEF Passes, PassBalance, PassOrders, PassApply, RefreshBalance, SnapshotExpires,
     CoverInv, CashInv, TypeOK
<1>3. cmd' = cmd /\ book' = book
  BY DEF Passes, PassBalance, PassOrders, PassApply, RefreshBalance, SnapshotExpires
<1>4. pass \in [Device -> [pc : {"idle", "orders", "apply"}, balance : 0 .. Cash, view : [Entry -> Order]]]
  BY DEF CoverInv, CashInv, TypeOK
<1>5. CASE PassApply(d)
  <2>1. (\A x \in Device : cmd[x].pc = "idle") /\ pass'[d].pc = "idle"
    BY <1>4, <1>5 DEF PassApply, CoverInv, Alone, NoPass
  <2>2. ASSUME NEW e \in Entry, book[e].st = "open" PROVE OrderFits(e)'
    <3> DEFINE v == pass[d].view[e]
    <3>1. /\ row[e].st \in {"WORKING", "CANCEL_PENDING"} /\ IsOpen(res[e])
          /\ book[e].total <= res[e].requested /\ row[e].filled <= book[e].filled
      BY <2>2 DEF CoverInv, OrderFits
    <3>2. v.filled <= book[e].filled /\ v.st # "over"
      BY <1>5, <2>2 DEF PassApply, CoverInv, ViewFits
    <3>3. v \in Order /\ row'[e] = RowAfter(e, v) /\ res'[e] = Settle(res[e], row'[e])
      BY <1>4, <1>5 DEF PassApply, CoverInv, CashInv, TypeOK
    <3>4. row'[e].st = row[e].st /\ row'[e].filled <= book[e].filled
      BY <3>1, <3>2, <3>3 DEF RowAfter, Larger
    <3>5. /\ book[e].filled < book[e].total /\ book[e].filled \in Nat /\ book[e].total \in Nat
          /\ res[e] \in Reservation /\ res[e].requested \in Nat /\ row'[e].filled \in Nat
          /\ row'[e].filled \in 0 .. MaxAmount
      BY <1>1, <2>2, CapitalAssumption DEF CoverInv, CashInv, RoomToFill, TypeOK, Order,
         Reservation
    <3>6. Larger(0, res[e].requested - row'[e].filled) # 0
      BY <3>1, <3>4, <3>5 DEF Larger
    <3>7. IsOpen(Settle(res[e], row'[e]))
      BY <3>1, <3>4, <3>5, <3>6 DEF Settle, Write, IsOpen, OpenReservation, Reservation
    <3>8. Settle(res[e], row'[e]).requested = res[e].requested
      BY <3>5, SettleType
    <3> QED BY <1>3, <3>1, <3>3, <3>4, <3>7, <3>8 DEF OrderFits
  <2>3. \A e \in Entry : OrderFits(e)'
    BY <1>3, <2>2 DEF OrderFits
  <2>4. ASSUME NEW x \in Device, pass'[x].pc = "apply", NEW e \in Entry
        PROVE  ViewFits(pass[x].view[e], e)'
    BY <1>2, <1>3, <2>1, <2>4 DEF CoverInv, ViewFits
  <2> QED BY <1>1, <1>3, <2>1, <2>3, <2>4 DEF CoverInv
<1>6. CASE ~PassApply(d)
  <2>1. row' = row /\ res' = res
    BY <1>6 DEF Passes, PassBalance, PassOrders, RefreshBalance, SnapshotExpires
  <2>2. \A e \in Entry : OrderFits(e)'
    BY <1>3, <2>1 DEF CoverInv, OrderFits
  <2>3. \A x \in Device : cmd[x].pc # "idle" => CommandFits(cmd[x], cmd[x].entry)'
    BY <1>3, <2>1 DEF CoverInv, CommandFits
  <2>o. ASSUME NEW x \in Device \ {d}, pass'[x].pc = "apply", NEW e \in Entry
        PROVE  ViewFits(pass[x].view[e], e)'
    BY <1>2, <1>3, <2>o DEF CoverInv, ViewFits
  <2>4. CASE PassBalance(d)
    <3>1. pass'[d].pc = "orders"
      BY <1>4, <2>4 DEF PassBalance, NoPass
    <3> QED BY <1>1, <1>3, <2>2, <2>3, <2>o, <3>1 DEF CoverInv
  <2>5. CASE PassOrders(d)
    <3>1. pass'[d].view = book
      BY <1>4, <2>5 DEF PassOrders
    <3>2. \A e \in Entry : book[e].filled \in Nat
      BY CapitalAssumption DEF CoverInv, CashInv, TypeOK, Order
    <3>3. \A e \in Entry : ViewFits(pass[d].view[e], e)'
      BY <1>3, <3>1, <3>2 DEF ViewFits
    <3> QED BY <1>1, <1>3, <2>2, <2>3, <2>o, <3>3 DEF CoverInv
  <2>6. CASE RefreshBalance(d) \/ SnapshotExpires(d)
    <3>1. pass' = pass
      BY <2>6 DEF RefreshBalance, SnapshotExpires
    <3>2. ASSUME NEW x \in Device, pass'[x].pc = "apply", NEW e \in Entry
          PROVE  ViewFits(pass[x].view[e], e)'
      BY <1>3, <3>1, <3>2 DEF CoverInv, ViewFits
    <3> QED BY <1>1, <1>3, <2>2, <2>3, <3>2 DEF CoverInv
  <2> QED BY <1>6, <2>4, <2>5, <2>6 DEF Passes
<1> QED BY <1>5, <1>6

(* What a command must leave behind.                                         *)
LEMMA CommandLeaves ==
    ASSUME CoverInv, CashInv', Alone', NEW d \in Device, NEW e \in Entry,
           cmd[d].pc # "idle", cmd[d].entry = e, pass' = pass,
           \A x \in Device \ {d} : cmd'[x] = cmd[x],
           cmd'[d].pc # "idle" => cmd'[d].entry = e,
           \A x \in Entry \ {e} : book'[x] = book[x] /\ res'[x] = res[x] /\ row'[x] = row[x],
           OrderFits(e)', cmd'[d].pc # "idle" => CommandFits(cmd[d], e)'
    PROVE  CoverInv'
<1>1. ASSUME NEW x \in Device \ {d}, cmd'[x].pc # "idle"
      PROVE  CommandFits(cmd[x], cmd[x].entry)'
  <2>1. cmd[x].entry \in Entry \ {e} /\ CommandFits(cmd[x], cmd[x].entry)
    BY <1>1 DEF CoverInv, CashInv, OneCommand
  <2> QED BY <2>1 DEF CommandFits
<1>2. \A x \in Device : pass'[x].pc = "idle"
  BY DEF CoverInv, Alone
<1>3. \A x \in Entry : OrderFits(x)'
  <2> SUFFICES ASSUME NEW x \in Entry, x # e PROVE OrderFits(x)'
    OBVIOUS
  <2> QED BY DEF CoverInv, OrderFits
<1>4. \A x \in Device : cmd'[x].pc # "idle" => CommandFits(cmd[x], cmd[x].entry)'
  <2>1. cmd'[d].pc # "idle" => CommandFits(cmd[d], cmd[d].entry)'
    BY DEF CommandFits
  <2> QED BY <1>1, <2>1
<1> QED BY <1>2, <1>3, <1>4 DEF CoverInv

LEMMA CommandsCover ==
    ASSUME CoverInv, Alone',
           NEW d \in Device, NEW e \in Entry, Commands(d, e)
    PROVE  CoverInv'
<1> DEFINE c == cmd'[d]
<1>1. CashInv' /\ CashInv
  BY CommandsCash DEF CoverInv
<1>2. /\ cmd[d].pc # "idle" /\ cmd[d].entry = e /\ pass' = pass
      /\ cmd[d].amount \in Nat /\ res[e] \in Reservation /\ res'[e] \in Reservation
      /\ book[e] \in Order /\ row[e].filled \in Nat /\ cmd[d].prev \in Reservation
      /\ e \in DOMAIN res /\ e \in DOMAIN row /\ e \in DOMAIN book /\ d \in DOMAIN cmd
  <2>1. cmd[d].pc # "idle" /\ cmd[d].entry = e /\ pass' = pass
    BY DEF Commands, Reserve, Submit, prepare_reservation_for_replacement, JournalCancel,
       RestoreHold, CancelProven, CancelAmbiguous, Activate, At
  <2> QED BY <1>1, <2>1, CapitalAssumption DEF CashInv, TypeOK
<1>3. OrderFits(e) /\ CommandFits(cmd[d], e)
  BY <1>2 DEF CoverInv
<1>4. \A x \in Entry \ {e} : book'[x] = book[x] /\ res'[x] = res[x] /\ row'[x] = row[x]
  <2>0. DOMAIN book = Entry /\ DOMAIN res = Entry /\ DOMAIN row = Entry
    BY <1>1 DEF CashInv, TypeOK
  <2>1. \A x \in Entry \ {e} : book'[x] = book[x]
    BY <2>0 DEF Commands, Reserve, Submit, prepare_reservation_for_replacement, JournalCancel,
       RestoreHold, CancelProven, CancelAmbiguous, Activate
  <2>2. \A x \in Entry \ {e} : res'[x] = res[x]
    BY <2>0 DEF Commands, Reserve, Submit, prepare_reservation_for_replacement, JournalCancel,
       RestoreHold, CancelProven, CancelAmbiguous, Activate
  <2>3. \A x \in Entry \ {e} : row'[x] = row[x]
    BY <2>0 DEF Commands, Reserve, Submit, prepare_reservation_for_replacement, JournalCancel,
       RestoreHold, CancelProven, CancelAmbiguous, Activate
  <2> QED BY <2>1, <2>2, <2>3
<1>5. c.pc # "idle" => c.entry = e
  <2>1. \/ c = NoCommand
        \/ \E l : c = [cmd[d] EXCEPT !.pc = l]
        \/ \E h : c = [cmd[d] EXCEPT !.pc = "cancel", !.held = h, !.prev = res[e]]
    BY <1>2 DEF Commands, Reserve, Submit, prepare_reservation_for_replacement, JournalCancel,
       RestoreHold, CancelProven, CancelAmbiguous, Activate, Step, Done
  <2> HIDE DEF c
  <2>2. cmd[d] \in [pc : {"idle", "reserve", "submit", "replace", "cancel", "cancelling", "cancelled"},
                    entry : Entry \cup {"none"}, amount : 0 .. MaxAmount,
                    power : 0 .. Cash, held : Reservation, prev : Reservation]
    BY <1>1 DEF CashInv, TypeOK
  <2>3. CASE c = NoCommand
    BY <2>3 DEF NoCommand
  <2>4. CASE \E l : c = [cmd[d] EXCEPT !.pc = l]
    BY <1>2, <2>2, <2>4
  <2>5. CASE \E h : c = [cmd[d] EXCEPT !.pc = "cancel", !.held = h, !.prev = res[e]]
    BY <1>2, <2>2, <2>5
  <2> QED BY <2>1, <2>3, <2>4, <2>5
<1>o. \A x \in Device \ {d} : cmd'[x] = cmd[x]
  BY <1>1 DEF Commands, Reserve, Submit, prepare_reservation_for_replacement, JournalCancel,
     RestoreHold, CancelProven, CancelAmbiguous, Activate, Step, Done, CashInv, TypeOK
<1>6. ASSUME OrderFits(e)', c.pc # "idle" => CommandFits(cmd[d], e)'
      PROVE  CoverInv'
  BY <1>1, <1>2, <1>4, <1>5, <1>o, <1>6, CommandLeaves
(* The order has ended, or there is none yet.                                *)
<1>7. ASSUME book'[e].st # "open", c.pc \notin {"replace", "submit"}
      PROVE  CoverInv'
  BY <1>6, <1>7 DEF OrderFits, CommandFits
<1>8. NoCommand.pc = "idle"
  BY DEF NoCommand
<1>9. CASE Reserve(d, e)
  <2>1. cmd[d].pc = "reserve" /\ book' = book /\ book[e].st # "open"
    BY <1>3, <1>9 DEF Reserve, At, CommandFits
  <2>2. CASE c.pc = "submit"
    <3>1. /\ res'[e] = [status |-> "RESERVED", requested |-> cmd[d].amount,
                        remaining |-> cmd[d].amount, version |-> 1]
          /\ row'[e] = [st |-> "SUBMITTING", filled |-> 0]
          /\ c = [cmd[d] EXCEPT !.pc = "submit"]
      BY <1>2, <1>8, <1>9, <2>2 DEF Reserve, Step, Done
    <3>2. c.amount = cmd[d].amount
      BY <1>1, <3>1 DEF CashInv, TypeOK
    <3>3. IsOpen(res'[e]) /\ c.amount <= res'[e].requested
      BY <1>2, <3>1, <3>2 DEF IsOpen, OpenReservation
    <3>4. CommandFits(cmd[d], e)'
      BY <2>1, <2>2, <3>1, <3>3 DEF CommandFits
    <3> QED BY <1>6, <2>1, <3>4 DEF OrderFits
  <2>3. CASE c.pc # "submit"
    <3>1. c = NoCommand
      BY <1>1, <1>2, <1>9, <2>3 DEF Reserve, Step, Done, CashInv, TypeOK
    <3> QED BY <1>7, <1>8, <2>1, <3>1
  <2> QED BY <2>2, <2>3
<1>10. CASE Submit(d, e)
  <2>1. /\ c = NoCommand /\ row[e] = [st |-> "SUBMITTING", filled |-> 0]
        /\ IsOpen(res[e]) /\ cmd[d].amount <= res[e].requested /\ book[e].st # "open"
    BY <1>2, <1>3, <1>10 DEF Submit, Done, At, CommandFits
  <2>2. CASE book' = book
    BY <1>7, <1>8, <2>1, <2>2
  <2>3. CASE book' # book
    <3>1. /\ book'[e] = [st |-> "open", total |-> cmd[d].amount, filled |-> 0]
          /\ row'[e] = [row[e] EXCEPT !.st = "WORKING"] /\ res' = res
      BY <1>2, <1>10, <2>3 DEF Submit
    <3>2. row'[e] = [st |-> "WORKING", filled |-> 0]
      BY <2>1, <3>1
    <3> QED BY <1>6, <1>8, <2>1, <3>1, <3>2 DEF OrderFits
  <2> QED BY <2>2, <2>3
<1>11. CASE prepare_reservation_for_replacement(d, e)
  <2>1. row' = row /\ book' = book /\ row[e].filled = 0
    BY <1>3, <1>11 DEF prepare_reservation_for_replacement, At, CommandFits
  <2>2. CASE res' = res /\ c = NoCommand
    BY <1>3, <1>6, <1>8, <2>1, <2>2 DEF OrderFits
  <2>3. CASE ~(res' = res /\ c = NoCommand)
    <3> DEFINE h == TransitionHold(res[e], cmd[d].amount)
    <3>1. /\ IsOpen(res[e]) /\ res'[e] = h
          /\ c = [cmd[d] EXCEPT !.pc = "cancel", !.held = h, !.prev = res[e]]
      BY <1>2, <1>11, <2>3 DEF prepare_reservation_for_replacement, Done
    <3>2. c.pc = "cancel" /\ c.prev = res[e]
      BY <1>1, <3>1 DEF CashInv, TypeOK
    <3>3. h.requested = Larger(res[e].remaining, cmd[d].amount) /\ h.status = res[e].status
      BY <1>2 DEF TransitionHold, Write, Reservation
    <3>4. /\ res[e].requested <= res[e].remaining
          /\ res[e].remaining \in Nat /\ res[e].requested \in Nat
      BY <1>1, <1>2, <2>1, <3>1, CapitalAssumption DEF CashInv, RowsRemain, RemainsEnough,
         Reservation
    <3>5. h.requested \in Nat /\ res[e].requested <= h.requested /\ IsOpen(h)
      BY <1>2, <3>1, <3>3, <3>4 DEF Larger, IsOpen
    <3>6. book[e].total \in Nat
      BY <1>2, CapitalAssumption DEF Order
    <3> HIDE DEF h
    <3>7. OrderFits(e)'
      BY <1>3, <2>1, <3>1, <3>4, <3>5, <3>6 DEF OrderFits
    <3>8. CommandFits(cmd[d], e)'
      BY <1>3, <2>1, <3>2 DEF CommandFits, OrderFits
    <3> QED BY <1>6, <3>7, <3>8
  <2> QED BY <2>2, <2>3
<1>12. CASE JournalCancel(d, e)
  <2>1. /\ row'[e] = [row[e] EXCEPT !.st = "CANCEL_PENDING"] /\ book' = book /\ res' = res
        /\ c = [cmd[d] EXCEPT !.pc = "cancelling"] /\ cmd[d].pc = "cancel"
    BY <1>2, <1>12 DEF JournalCancel, Step, At
  <2>2. row'[e].st = "CANCEL_PENDING" /\ row'[e].filled = row[e].filled
    BY <1>1, <2>1 DEF CashInv, TypeOK
  <2>3. c.pc = "cancelling" /\ c.prev = cmd[d].prev
    BY <1>1, <2>1 DEF CashInv, TypeOK
  <2> QED BY <1>3, <1>6, <2>1, <2>2, <2>3 DEF OrderFits, CommandFits
<1>13. CASE RestoreHold(d, e)
  <2>1. /\ c = NoCommand /\ cmd[d].pc \in {"cancel", "cancelling"} /\ book' = book
        /\ cmd[d].pc \in Holding
    BY <1>2, <1>13 DEF RestoreHold, Done, At, Holding
  <2>2. row'[e].filled = row[e].filled /\ row'[e].st \in {row[e].st, "WORKING"}
    BY <1>1, <1>2, <1>13 DEF RestoreHold, CashInv, TypeOK
  <2>3. CASE res'[e] = res[e]
    BY <1>3, <1>6, <1>8, <2>1, <2>2, <2>3 DEF OrderFits
  <2>4. CASE res'[e] # res[e]
    <3>1. res'[e] = [cmd[d].prev EXCEPT !.version = res[e].version + 1]
      BY <1>2, <1>13, <2>4 DEF RestoreHold
    <3>2. res'[e].status = cmd[d].prev.status /\ res'[e].requested = cmd[d].prev.requested
      BY <1>2, <3>1 DEF Reservation
    <3>3. IsOpen(cmd[d].prev)
      BY <1>1, <1>2, <2>1 DEF CashInv, HoldsKept, KeepsHold
    <3>4. IsOpen(res'[e])
      BY <3>2, <3>3 DEF IsOpen
    <3> QED BY <1>3, <1>6, <1>8, <2>1, <2>2, <3>2, <3>4 DEF OrderFits, CommandFits
  <2> QED BY <2>3, <2>4
<1>14. CASE CancelProven(d, e)
  <2>1. book' = book /\ book[e].st = "over" /\ c = [cmd[d] EXCEPT !.pc = "cancelled"]
    BY <1>2, <1>14 DEF CancelProven, Step
  <2>2. c.pc = "cancelled"
    BY <1>1, <2>1 DEF CashInv, TypeOK
  <2> QED BY <1>7, <2>1, <2>2
<1>15. CASE CancelAmbiguous(d, e)
  <2>1. c = NoCommand /\ UNCHANGED <<book, row, res>>
    BY <1>2, <1>15 DEF CancelAmbiguous, Done
  <2> QED BY <1>3, <1>6, <1>8, <2>1 DEF OrderFits
<1>16. CASE Activate(d, e)
  <2>1. book' = book /\ book[e].st # "open"
    BY <1>3, <1>16 DEF Activate, At, CommandFits
  <2>2. CASE Activatable(d, e)
    <3> DEFINE w == [res[e] EXCEPT !.status = "RESERVED", !.requested = cmd[d].amount,
                                   !.remaining = cmd[d].amount]
    <3>1. /\ res'[e] = Write(w) /\ row'[e] = [st |-> "SUBMITTING", filled |-> 0]
          /\ c = [cmd[d] EXCEPT !.pc = "submit"]
      BY <1>2, <1>16, <2>2 DEF Activate, Step
    <3>2. c.pc = "submit" /\ c.amount = cmd[d].amount
      BY <1>1, <3>1 DEF CashInv, TypeOK
    <3>3. res'[e].status = "RESERVED" /\ res'[e].requested = cmd[d].amount
      BY <1>2, <3>1 DEF Write, Reservation
    <3>4. IsOpen(res'[e]) /\ c.amount <= res'[e].requested
      BY <1>2, <3>2, <3>3 DEF IsOpen, OpenReservation
    <3>5. CommandFits(cmd[d], e)'
      BY <2>1, <3>1, <3>2, <3>4 DEF CommandFits
    <3> QED BY <1>6, <2>1, <3>5 DEF OrderFits
  <2>3. CASE ~Activatable(d, e)
    <3>1. c = NoCommand
      BY <1>2, <1>16, <2>3 DEF Activate, Done
    <3> QED BY <1>7, <1>8, <2>1, <3>1
  <2> QED BY <2>2, <2>3
<1> QED BY <1>9, <1>10, <1>11, <1>12, <1>13, <1>14, <1>15, <1>16 DEF Commands

(* While no device has reconciled beside a command of another one, an order  *)
(* at the broker never needs more than its own reservation still holds: no   *)
(* settlement, restore or activation gives capital back under a working      *)
(* order (_settle_capital_reservation,                                       *)
(* activate_prepared_replacement_reservation).                               *)
THEOREM OrdersStayCovered == Spec => []OrderCovered
<1> DEFINE Inv == CashInv /\ (~overlap => CoverInv)
<1>1. Init => Inv
  BY InitCover, InitCash
<1>2. Inv /\ [Next]_vars => Inv'
  <2> SUFFICES ASSUME Inv, [Next]_vars PROVE Inv'
    OBVIOUS
  <2>1. CashInv'
    BY NextCash
  <2>2. ASSUME Next, ~overlap' PROVE CoverInv'
    <3>1. CoverInv /\ Alone'
      BY <2>2 DEF Next, Beside, Alone
    <3> QED BY <2>2, <3>1, NextKinds, StartsCover, CommandsCover, PassesCover, WorldCover
  <2>3. ASSUME UNCHANGED vars, ~overlap' PROVE CoverInv'
    BY <2>1, <2>3 DEF vars, CoverInv, Alone, OrderFits, CommandFits, ViewFits
  <2> QED BY <2>1, <2>2, <2>3
<1>3. Inv => OrderCovered
  BY CoverImplies DEF OrderCovered
<1> QED BY <1>1, <1>2, <1>3, PTL DEF Spec
===============================================================================
