----------------------- MODULE CapitalAllocator_proofs -----------------------
(***************************************************************************)
(* For any devices, entries, amounts and crashes: a local mirror is always *)
(* an authoritative row, perhaps an old one, and a reservation that gave   *)
(* its capital back never takes it again.                                  *)
(***************************************************************************)
EXTENDS CapitalAllocator, TLAPS

Row == [status : Status \cup {"NONE"}, remaining : Nat, version : Nat]
Operation == [pc : {"idle", "insert", "append", "save", "store"},
              entry : Entry \cup {"none"}, row : Row]

TypeInv ==
    /\ db \in [Entry -> Row]
    /\ mirror \in [Device -> [Entry -> Row]]
    /\ op \in [Device -> Operation]

(* r is the row q, or an older version of it.                                *)
Follows(r, q) == r.version <= q.version /\ (r.version = q.version => r = q)

(* A row that is not open holds nothing.                                     *)
Spent(r) == r.status \notin Open => r.remaining = 0

Closed(r) == r.status \in Status \ Open

(* n may be written over q if q is still the version n was made from.        *)
Writable(n, q) ==
    /\ n.version <= q.version
    /\ n.version = q.version => Spent(n) /\ (Closed(q) => ~IsOpen(n))

(* What an operation carries, according to where it is.                      *)
Carries(o, rows) ==
    /\ o.pc # "idle" => o.entry \in Entry
    /\ o.pc = "insert" => o.row.version = 1 /\ Spent(o.row)
    /\ o.pc \in {"append", "save"} => Follows(o.row, rows[o.entry])
    /\ o.pc = "store" => Writable(o.row, rows[o.entry])

IInv ==
    /\ TypeInv
    /\ \A e \in Entry : Spent(db[e])
    /\ MirrorFollows
    /\ \A d \in Device : Carries(op[d], db)

-----------------------------------------------------------------------------
(* Every write of a row makes a new version.                                 *)
Moves(q, p) == p = q \/ p.version > q.version

LEMMA FollowsOn ==
    ASSUME NEW r \in Row, NEW q \in Row, NEW p \in Row, Follows(r, q), Moves(q, p)
    PROVE  Follows(r, p)
  BY DEF Row, Follows, Moves

LEMMA WritableOn ==
    ASSUME NEW r \in Row, NEW q \in Row, NEW p \in Row, Writable(r, q), Moves(q, p)
    PROVE  Writable(r, p)
  BY DEF Row, Writable, Moves

LEMMA CarriesOn ==
    ASSUME NEW o \in Operation, NEW f \in [Entry -> Row], NEW g \in [Entry -> Row],
           Carries(o, f), \A e \in Entry : Moves(f[e], g[e])
    PROVE  Carries(o, g)
  <1>1. o.row \in Row
    BY DEF Operation
  <1>2. ASSUME o.pc # "idle" PROVE f[o.entry] \in Row /\ g[o.entry] \in Row /\ Moves(f[o.entry], g[o.entry])
    BY <1>2 DEF Carries
  <1>3. o.pc \in {"append", "save"} => Follows(o.row, g[o.entry])
    BY <1>1, <1>2, FollowsOn DEF Carries
  <1>4. o.pc = "store" => Writable(o.row, g[o.entry])
    BY <1>1, <1>2, WritableOn DEF Carries
  <1>. QED  BY <1>3, <1>4 DEF Carries

(* What mutations make of a row.                                             *)
LEMMA MutationsClose ==
    ASSUME MaxAmount \in Nat, NEW r \in Row, NEW n \in Mutations(r)
    PROVE  /\ n \in Row /\ n.version = r.version
           /\ Spent(r) => Spent(n) /\ (Closed(r) => ~IsOpen(n))
  <1>1. CASE n = Release(r)
    BY <1>1 DEF Release, Row, Spent, IsOpen, Open, Status
  <1>2. CASE n = Expire(r)
    BY <1>2 DEF Expire, Row, Spent, IsOpen, Open, Status
  <1>3. ASSUME NEW k \in 1 .. MaxAmount, n = Consume(r, k)
        PROVE  /\ n \in Row /\ n.version = r.version
               /\ Spent(r) => Spent(n) /\ (Closed(r) => ~IsOpen(n))
    <2>. DEFINE left == IF r.remaining > k THEN r.remaining - k ELSE 0
    <2>1. left \in Nat /\ (r.remaining = 0 => left = 0)
      BY DEF Row
    <2>2. n = [r EXCEPT !.remaining = left,
                        !.status = IF left = 0 THEN "CONSUMED" ELSE "PARTIALLY_CONSUMED"]
      BY <1>3 DEF Consume
    <2>3. /\ n \in Row /\ n.version = r.version /\ n.remaining = left
          /\ n.status = IF left = 0 THEN "CONSUMED" ELSE "PARTIALLY_CONSUMED"
      BY <2>1, <2>2 DEF Row, Status, Open
    <2>. HIDE DEF left
    <2>4. Spent(n)
      BY <2>3 DEF Spent, Open
    <2>5. Spent(r) => (Closed(r) => ~IsOpen(n))
      BY <2>1, <2>3 DEF Spent, Closed, IsOpen, Open
    <2>. QED  BY <2>3, <2>4, <2>5
  <1>. QED  BY <1>1, <1>2, <1>3 DEF Mutations

-----------------------------------------------------------------------------
(* A step that writes rows as new versions and changes the mirror and the    *)
(* operation of one device keeps the invariant.                              *)
LEMMA Kept ==
    ASSUME IInv, NEW d \in Device, NEW e \in Entry,
           NEW r \in Row, NEW o \in Operation, db' \in [Entry -> Row],
           mirror' = mirror \/ mirror' = [mirror EXCEPT ![d][e] = r],
           op' = [op EXCEPT ![d] = o],
           \A x \in Entry : Moves(db[x], db'[x]) /\ Spent(db'[x]),
           Follows(r, db'[e]), Carries(o, db')
    PROVE  IInv'
  <1>1. mirror' \in [Device -> [Entry -> Row]]
    <2>1. mirror[d] \in [Entry -> Row] /\ mirror \in [Device -> [Entry -> Row]]
      BY DEF IInv, TypeInv
    <2>. DEFINE m == [mirror[d] EXCEPT ![e] = r]
    <2>2. m \in [Entry -> Row]
      BY <2>1
    <2>3. mirror' = mirror \/ mirror' = [mirror EXCEPT ![d] = m]
      OBVIOUS
    <2>. HIDE DEF m
    <2>. QED  BY <2>1, <2>2, <2>3
  <1>2. op' \in [Device -> Operation]
    BY DEF IInv, TypeInv
  <1>3. ASSUME NEW c \in Device, NEW x \in Entry PROVE Follows(mirror'[c][x], db'[x])
    <2>1. Follows(mirror[c][x], db'[x])
      <3>1. Follows(mirror[c][x], db[x])
        BY DEF IInv, MirrorFollows, Follows
      <3>2. mirror[c][x] \in Row /\ db[x] \in Row /\ db'[x] \in Row
        BY DEF IInv, TypeInv
      <3>. QED  BY <3>1, <3>2, FollowsOn
    <2>2. mirror'[c][x] = mirror[c][x] \/ (x = e /\ mirror'[c][x] = r)
      BY DEF IInv, TypeInv
    <2>. QED  BY <2>1, <2>2
  <1>4. ASSUME NEW c \in Device PROVE Carries(op'[c], db')
    <2>1. CASE c = d
      BY <2>1 DEF IInv, TypeInv
    <2>2. CASE c # d
      <3>1. op'[c] = op[c] /\ op[c] \in Operation /\ Carries(op[c], db) /\ db \in [Entry -> Row]
        BY <2>2 DEF IInv, TypeInv
      <3>. QED  BY <3>1, CarriesOn
    <2>. QED  BY <2>1, <2>2
  <1>5. MirrorFollows'
    BY <1>3 DEF MirrorFollows, Follows
  <1>6. TypeInv'
    BY <1>1, <1>2 DEF TypeInv
  <1>. QED  BY <1>4, <1>5, <1>6 DEF IInv

(* An idle operation carries nothing.                                        *)
LEMMA IdleGood ==
    ASSUME NEW f
    PROVE  Idle \in Operation /\ Idle.pc = "idle" /\ Carries(Idle, f) /\ None \in Row
  BY DEF Idle, Operation, Row, None, Carries

LEMMA InitIInv == ASSUME Init PROVE IInv
  <1>1. TypeInv
    BY IdleGood DEF Init, TypeInv
  <1>2. \A e \in Entry : Spent(db[e])
    BY DEF Init, None, Spent, Open
  <1>3. MirrorFollows
    BY DEF Init, None, MirrorFollows
  <1>. QED  BY <1>1, <1>2, <1>3, IdleGood DEF Init, IInv

(* Where no row is written.                                                  *)
LEMMA KeptRows ==
    ASSUME IInv, NEW d \in Device, NEW e \in Entry,
           NEW r \in Row, NEW o \in Operation, db' = db,
           mirror' = mirror \/ mirror' = [mirror EXCEPT ![d][e] = r],
           op' = [op EXCEPT ![d] = o], Follows(r, db[e]), Carries(o, db)
    PROVE  IInv' /\ (ClosedStep \/ db' = db)
  <1>1. \A x \in Entry : Moves(db[x], db'[x]) /\ Spent(db'[x])
    BY DEF IInv, Moves
  <1>2. db' \in [Entry -> Row]
    BY DEF IInv, TypeInv
  <1>. QED  BY <1>1, <1>2, Kept

LEMMA CheckKeeps ==
    ASSUME IInv, NEW d \in Device, NEW e \in Entry,
           NEW a \in 1 .. MaxAmount, Check(d, e, a)
    PROVE  IInv' /\ db' = db
  <1>. DEFINE o == [pc |-> "insert", entry |-> e,
                    row |-> [status |-> "RESERVED", remaining |-> a, version |-> 1]]
  <1>1. o \in Operation /\ Carries(o, db)
    BY AllocatorAssumption DEF Operation, Row, Status, Open, Carries, Spent
  <1>2. db[e] \in Row /\ Follows(db[e], db[e])
    BY DEF IInv, TypeInv, Follows, Row
  <1>3. op' = [op EXCEPT ![d] = o] /\ db' = db /\ mirror' = mirror
    BY DEF Check
  <1>. HIDE DEF o
  <1>. QED  BY <1>1, <1>2, <1>3, KeptRows

LEMMA InsertKeeps ==
    ASSUME IInv, NEW d \in Device, NEW e \in Entry, Insert(d, e)
    PROVE  IInv' /\ ClosedStep
  <1>0. /\ op[d] \in Operation /\ op[d].row \in Row /\ db \in [Entry -> Row] /\ db[e] \in Row
        /\ Carries(op[d], db) /\ op \in [Device -> Operation]
    BY DEF IInv, TypeInv, Operation
  <1>1. CASE db[e] = None
    <2>. DEFINE o == [op[d] EXCEPT !.pc = "append"]
    <2>1. db' = [db EXCEPT ![e] = op[d].row] /\ mirror' = mirror /\ op' = [op EXCEPT ![d] = o]
      BY <1>1 DEF Insert
    <2>2. op[d].row.version = 1 /\ Spent(op[d].row) /\ op[d].entry = e
      BY <1>0 DEF Insert, Carries
    <2>3. db' \in [Entry -> Row] /\ db'[e] = op[d].row /\ \A x \in Entry \ {e} : db'[x] = db[x]
      BY <1>0, <2>1
    <2>4. Moves(db[e], db'[e])
      BY <1>1, <2>2, <2>3 DEF Moves, None
    <2>5. \A x \in Entry : Moves(db[x], db'[x]) /\ Spent(db'[x])
      BY <2>2, <2>3, <2>4 DEF IInv, Moves
    <2>6. o \in Operation /\ o.pc = "append" /\ o.entry = e /\ o.row = op[d].row
      BY <1>0, <2>2 DEF Operation
    <2>. HIDE DEF o
    <2>7. Follows(op[d].row, db'[e])
      BY <1>0, <2>3 DEF Follows, Row
    <2>8. Carries(o, db')
      BY <2>6, <2>7 DEF Carries
    <2>9. IInv'
      BY <1>0, <2>1, <2>3, <2>5, <2>6, <2>7, <2>8, Kept
    <2>10. ClosedStep
      BY <1>1, <2>3 DEF ClosedStep, None, Status, Open, IsOpen
    <2>. QED  BY <2>9, <2>10
  <1>2. CASE db[e] # None
    <2>1. op' = [op EXCEPT ![d] = Idle] /\ db' = db /\ mirror' = mirror
      BY <1>2 DEF Insert
    <2>2. Follows(db[e], db[e])
      BY <1>0 DEF Follows, Row
    <2>3. IInv'
      BY <1>0, <2>1, <2>2, IdleGood, KeptRows
    <2>4. ClosedStep
      BY <2>1 DEF ClosedStep, Status, Open, IsOpen
    <2>. QED  BY <2>3, <2>4
  <1>. QED  BY <1>1, <1>2

LEMMA AppendKeeps ==
    ASSUME IInv, NEW d \in Device, NEW e \in Entry, Append(d, e)
    PROVE  IInv' /\ db' = db
  <1>1. op[d].row \in Row /\ Carries(op[d], db)
    BY DEF IInv, TypeInv, Operation
  <1>2. Follows(op[d].row, db[e])
    BY <1>1 DEF Append, Carries
  <1>3. /\ mirror' = [mirror EXCEPT ![d][e] = op[d].row] /\ db' = db
        /\ op' = [op EXCEPT ![d] = Idle]
    BY DEF Append
  <1>. QED  BY <1>1, <1>2, <1>3, IdleGood, KeptRows

LEMMA MutateKeeps ==
    ASSUME IInv, NEW d \in Device, NEW e \in Entry, Mutate(d, e)
    PROVE  IInv' /\ db' = db
  <1>. DEFINE r == IF mirror[d][e] # None THEN mirror[d][e] ELSE db[e]
  <1>1. db[e] \in Row /\ mirror[d][e] \in Row
    BY DEF IInv, TypeInv
  <1>2. Follows(mirror[d][e], db[e]) /\ Follows(db[e], db[e]) /\ Spent(db[e])
    BY <1>1 DEF IInv, MirrorFollows, Follows, Row
  <1>3. r \in Row /\ Follows(r, db[e])
    BY <1>1, <1>2
  <1>4. PICK n \in Mutations(r) : op' = [op EXCEPT ![d] = [pc |-> "store", entry |-> e, row |-> n]]
    BY DEF Mutate
  <1>5. db' = db /\ mirror' = mirror
    BY DEF Mutate
  <1>. HIDE DEF r
  <1>6. n \in Row /\ Writable(n, db[e])
    <2>1. /\ n \in Row /\ n.version = r.version
          /\ Spent(r) => Spent(n) /\ (Closed(r) => ~IsOpen(n))
      BY <1>3, MutationsClose, AllocatorAssumption
    <2>2. r.version <= db[e].version /\ (r.version = db[e].version => r = db[e])
      BY <1>3 DEF Follows
    <2>. QED  BY <1>2, <2>1, <2>2 DEF Writable
  <1>. DEFINE o == [pc |-> "store", entry |-> e, row |-> n]
  <1>7. o \in Operation /\ Carries(o, db) /\ op' = [op EXCEPT ![d] = o]
    BY <1>4, <1>6 DEF Operation, Carries
  <1>. HIDE DEF o
  <1>. QED  BY <1>1, <1>2, <1>5, <1>7, KeptRows

LEMMA StoreKeeps ==
    ASSUME IInv, NEW d \in Device, NEW e \in Entry, Store(d, e)
    PROVE  IInv' /\ ClosedStep
  <1>0. /\ op[d] \in Operation /\ op[d].row \in Row /\ db \in [Entry -> Row] /\ db[e] \in Row
        /\ Carries(op[d], db) /\ op \in [Device -> Operation]
    BY DEF IInv, TypeInv, Operation
  <1>1. CASE db[e].version = op[d].row.version
    <2>. DEFINE n == [op[d].row EXCEPT !.version = @ + 1]
    <2>1. db' = [db EXCEPT ![e] = n] /\ mirror' = mirror
          /\ op' = [op EXCEPT ![d].pc = "save", ![d].row = db'[e]] /\ op[d].entry = e
      BY <1>1 DEF Store
    <2>2. n \in Row /\ n.version = db[e].version + 1 /\ n.status = op[d].row.status
          /\ n.remaining = op[d].row.remaining
      BY <1>0, <1>1 DEF Row
    <2>. HIDE DEF n
    <2>3. db' \in [Entry -> Row] /\ db'[e] = n /\ \A x \in Entry \ {e} : db'[x] = db[x]
      BY <1>0, <2>1, <2>2
    <2>4. Spent(op[d].row) /\ (Closed(db[e]) => ~IsOpen(op[d].row))
      BY <1>0, <1>1 DEF Store, Carries, Writable
    <2>5. Spent(n) /\ (Closed(db[e]) => ~IsOpen(n))
      BY <2>2, <2>4 DEF Spent, IsOpen
    <2>6. Moves(db[e], n)
      BY <1>0, <2>2 DEF Moves, Row
    <2>7. \A x \in Entry : Moves(db[x], db'[x]) /\ Spent(db'[x])
      BY <2>3, <2>5, <2>6 DEF IInv, Moves
    <2>. DEFINE o == [op[d] EXCEPT !.pc = "save", !.row = n]
    <2>8. o \in Operation /\ o.pc = "save" /\ o.entry = e /\ o.row = n
      BY <1>0, <2>1, <2>2 DEF Operation
    <2>9. op' = [op EXCEPT ![d] = o]
      BY <1>0, <2>1, <2>3
    <2>. HIDE DEF o
    <2>10. Follows(n, db'[e])
      BY <2>2, <2>3 DEF Follows, Row
    <2>11. Carries(o, db')
      BY <2>8, <2>10 DEF Carries
    <2>12. IInv'
      BY <2>1, <2>2, <2>3, <2>7, <2>8, <2>9, <2>10, <2>11, Kept
    <2>13. ClosedStep
      BY <2>3, <2>5 DEF ClosedStep, Closed, Status, Open, IsOpen
    <2>. QED  BY <2>12, <2>13
  <1>2. CASE db[e].version # op[d].row.version
    <2>1. op' = [op EXCEPT ![d] = Idle] /\ db' = db /\ mirror' = [mirror EXCEPT ![d][e] = db[e]]
      BY <1>2 DEF Store
    <2>2. Follows(db[e], db[e])
      BY <1>0 DEF Follows, Row
    <2>3. IInv'
      BY <1>0, <2>1, <2>2, IdleGood, KeptRows
    <2>4. ClosedStep
      BY <2>1 DEF ClosedStep, Status, Open, IsOpen
    <2>. QED  BY <2>3, <2>4
  <1>. QED  BY <1>1, <1>2

LEMMA CrashKeeps ==
    ASSUME IInv, NEW d \in Device, Crash(d)
    PROVE  IInv' /\ db' = db
  <1>1. op' = [op EXCEPT ![d] = Idle] /\ db' = db /\ mirror' = mirror
    BY DEF Crash
  <1>2. op[d] \in Operation /\ Carries(op[d], db) /\ op \in [Device -> Operation]
    BY DEF IInv, TypeInv
  <1>3. op' \in [Device -> Operation] /\ \A c \in Device : Carries(op'[c], db)
    BY <1>1, <1>2, IdleGood DEF IInv
  <1>. QED  BY <1>1, <1>3 DEF IInv, TypeInv, MirrorFollows

LEMMA StepKeeps ==
    ASSUME IInv, [Next]_vars
    PROVE  IInv' /\ (ClosedStep \/ vars' = vars)
  <1>1. CASE UNCHANGED vars
    <2>1. db' = db /\ mirror' = mirror /\ op' = op
      BY <1>1 DEF vars
    <2>. QED  BY <1>1, <2>1 DEF IInv, TypeInv, MirrorFollows
  <1>2. ASSUME db' = db PROVE ClosedStep
    BY <1>2 DEF ClosedStep, Status, Open, IsOpen
  <1>3. ASSUME NEW d \in Device, Crash(d) PROVE IInv' /\ ClosedStep
    BY <1>2, <1>3, CrashKeeps
  <1>4. ASSUME NEW d \in Device, NEW e \in Entry, NEW a \in 1 .. MaxAmount, Check(d, e, a)
        PROVE  IInv' /\ ClosedStep
    BY <1>2, <1>4, CheckKeeps
  <1>5. ASSUME NEW d \in Device, NEW e \in Entry,
               Insert(d, e) \/ Append(d, e) \/ Mutate(d, e) \/ Store(d, e)
        PROVE  IInv' /\ ClosedStep
    BY <1>2, <1>5, InsertKeeps, AppendKeeps, MutateKeeps, StoreKeeps
  <1>. QED  BY <1>1, <1>3, <1>4, <1>5 DEF Next

-----------------------------------------------------------------------------
(* MirrorFollows, for any devices and entries: the compare and swap on the   *)
(* version column and the repair of a loser's copy keep every local ledger   *)
(* behind the authoritative rows, whatever crashes between them.             *)
THEOREM MirrorIsBehind == Spec => []MirrorFollows
  <1>1. Init => IInv
    BY InitIInv
  <1>2. IInv /\ [Next]_vars => IInv'
    BY StepKeeps
  <1>3. IInv => MirrorFollows
    BY DEF IInv
  <1>. QED  BY <1>1, <1>2, <1>3, PTL DEF Spec

(* ClosedForGood, for any devices and entries: a mutation made from a stale  *)
(* copy never reopens a reservation whose capital went back.                 *)
THEOREM NeverReopened == Spec => ClosedForGood
  <1>1. Init => IInv
    BY InitIInv
  <1>2. IInv /\ [Next]_vars => IInv'
    BY StepKeeps
  <1>3. IInv /\ [Next]_vars => [ClosedStep]_vars
    BY StepKeeps
  <1>. QED  BY <1>1, <1>2, <1>3, PTL DEF Spec, ClosedForGood
=============================================================================
