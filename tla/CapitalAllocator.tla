-------------------------- MODULE CapitalAllocator --------------------------
(***************************************************************************)
(* The allocator of the compatibility path: a JSON ledger per device behind *)
(* a file lock, mirrored from the authoritative rows of the database.       *)
(*                                                                          *)
(* The file lock makes a device run one operation at a time, so an          *)
(* operation's place is the state op[d] of its device.  Two devices share   *)
(* the database and nothing else.  Buying power is constant: without fills  *)
(* the question is what the ledgers alone guarantee.                        *)
(***************************************************************************)
EXTENDS Integers, FiniteSetsExt

CONSTANTS Device, Entry, Power, MaxAmount,
          MaxCrashes,     \* bound on the crashes of a device
          MaxVersion      \* bound on the writes of one row

ASSUME AllocatorAssumption ==
    Power \in Nat /\ MaxAmount \in Nat \ {0} /\ MaxCrashes \in Nat /\ MaxVersion \in Nat

VARIABLES db,       \* capital_reservations rows
          mirror,   \* capital_reservations.json of each device
          op,       \* operation each device runs under its file lock
          crashes

vars == <<db, mirror, op, crashes>>

Open == {"RESERVED", "PARTIALLY_CONSUMED"}
Status == Open \cup {"CONSUMED", "RELEASED", "EXPIRED"}
None == [status |-> "NONE", remaining |-> 0, version |-> 0]
Idle == [pc |-> "idle", entry |-> "none", row |-> None]

TypeOK ==
    /\ \A e \in Entry : db[e].status \in Status \cup {"NONE"} /\ db[e].remaining \in 0 .. MaxAmount
    /\ \A d \in Device, e \in Entry : mirror[d][e].remaining \in 0 .. MaxAmount
    /\ \A d \in Device : op[d].pc \in {"idle", "insert", "append", "save", "store"}

Init ==
    /\ db = [e \in Entry |-> None]
    /\ mirror = [d \in Device |-> [e \in Entry |-> None]]
    /\ op = [d \in Device |-> Idle]
    /\ crashes = 0

IsOpen(r) == r.status \in Open

(* Active rows by id: the database's copy shadows the local one, and a local *)
(* row the database no longer lists still counts.                            *)
ActiveRow(d, e) == IF IsOpen(db[e]) THEN db[e] ELSE mirror[d][e]
Available(d) ==
    Power - MapThenSumSet(LAMBDA e : ActiveRow(d, e).remaining,
                          {e \in Entry : IsOpen(ActiveRow(d, e))})

(* reserve_capital_for_entry up to the decision to insert.                   *)
Check(d, e, a) ==
    /\ op[d] = Idle /\ db[e] = None
    /\ Available(d) >= a
    /\ op' = [op EXCEPT ![d] = [pc |-> "insert", entry |-> e,
                 row |-> [status |-> "RESERVED", remaining |-> a, version |-> 1]]]
    /\ UNCHANGED <<db, mirror, crashes>>

(* save_reservation_strict inserts in a transaction of its own; the entry is *)
(* a fresh id unless another device attempts the same entry.                 *)
Insert(d, e) ==
    /\ op[d].pc = "insert" /\ op[d].entry = e
    /\ IF db[e] = None
       THEN /\ db' = [db EXCEPT ![e] = op[d].row]
            /\ op' = [op EXCEPT ![d].pc = "append"]
       ELSE /\ op' = [op EXCEPT ![d] = Idle]
            /\ UNCHANGED db
    /\ UNCHANGED <<mirror, crashes>>

(* The local ledger follows the committed row.                               *)
Append(d, e) ==
    /\ op[d].pc \in {"append", "save"} /\ op[d].entry = e
    /\ mirror' = [mirror EXCEPT ![d][e] = op[d].row]
    /\ op' = [op EXCEPT ![d] = Idle]
    /\ UNCHANGED <<db, crashes>>

Consume(r, n) ==
    LET left == IF r.remaining > n THEN r.remaining - n ELSE 0 IN
    [r EXCEPT !.remaining = left,
              !.status = IF left = 0 THEN "CONSUMED" ELSE "PARTIALLY_CONSUMED"]
Release(r) == [r EXCEPT !.remaining = 0, !.status = "RELEASED"]
Expire(r) == [r EXCEPT !.remaining = 0, !.status = "EXPIRED"]
Mutations(r) == {Consume(r, n) : n \in 1 .. MaxAmount} \cup {Release(r), Expire(r)}

(* _mutate_reservation starts from the local copy, else from the database.   *)
Mutate(d, e) ==
    LET r == IF mirror[d][e] # None THEN mirror[d][e] ELSE db[e] IN
    /\ op[d] = Idle /\ r # None /\ r.version < MaxVersion
    /\ \E n \in Mutations(r) : op' = [op EXCEPT ![d] = [pc |-> "store", entry |-> e, row |-> n]]
    /\ UNCHANGED <<db, mirror, crashes>>

(* Variant: the update does not compare versions.                            *)
StoreUnversioned(d, e) ==
    /\ op[d].pc = "store" /\ op[d].entry = e
    /\ db' = [db EXCEPT ![e] = [op[d].row EXCEPT !.version = db[e].version + 1]]
    /\ op' = [op EXCEPT ![d].pc = "save", ![d].row = db'[e]]
    /\ UNCHANGED <<mirror, crashes>>

(* Variant: the local copy is advanced although another writer won.          *)
StoreUnrepaired(d, e) ==
    /\ op[d].pc = "store" /\ op[d].entry = e
    /\ IF db[e].version = op[d].row.version
       THEN /\ db' = [db EXCEPT ![e] = [op[d].row EXCEPT !.version = @ + 1]]
            /\ op' = [op EXCEPT ![d].pc = "save", ![d].row = db'[e]]
            /\ UNCHANGED mirror
       ELSE /\ mirror' = [mirror EXCEPT ![d][e] = [op[d].row EXCEPT !.version = @ + 1]]
            /\ op' = [op EXCEPT ![d] = Idle]
            /\ UNCHANGED db
    /\ UNCHANGED crashes

(* The strict save: compare and swap on the version, or repair the local     *)
(* copy from the authoritative row and give up.                              *)
Store(d, e) ==
    /\ op[d].pc = "store" /\ op[d].entry = e
    /\ IF db[e].version = op[d].row.version
       THEN /\ db' = [db EXCEPT ![e] = [op[d].row EXCEPT !.version = @ + 1]]
            /\ op' = [op EXCEPT ![d].pc = "save", ![d].row = db'[e]]
            /\ UNCHANGED mirror
       ELSE /\ mirror' = [mirror EXCEPT ![d][e] = db[e]]
            /\ op' = [op EXCEPT ![d] = Idle]
            /\ UNCHANGED db
    /\ UNCHANGED crashes

(* A crash drops the operation between the database and the local file.      *)
Crash(d) ==
    /\ op[d] # Idle /\ crashes < MaxCrashes
    /\ op' = [op EXCEPT ![d] = Idle]
    /\ crashes' = crashes + 1
    /\ UNCHANGED <<db, mirror>>

Next == \E d \in Device :
    \/ Crash(d)
    \/ \E e \in Entry :
          \/ \E a \in 1 .. MaxAmount : Check(d, e, a)
          \/ Insert(d, e) \/ Append(d, e) \/ Mutate(d, e) \/ Store(d, e)

Spec == Init /\ [][Next]_vars

-----------------------------------------------------------------------------
(* The account is never promised twice.                                      *)
ReservedWithinPower ==
    MapThenSumSet(LAMBDA e : db[e].remaining, {e \in Entry : IsOpen(db[e])}) <= Power

(* A local copy is an authoritative row, perhaps an old one: it never runs   *)
(* ahead of the database and never differs from it under the same version,   *)
(* whatever conflicts and crashes happened in between.                       *)
MirrorFollows ==
    \A d \in Device, e \in Entry :
       /\ mirror[d][e].version <= db[e].version
       /\ mirror[d][e].version = db[e].version => mirror[d][e] = db[e]

(* A reservation that gave its capital back never takes it again, not even   *)
(* through the stale copy of another device.                                 *)
ClosedStep ==
    \A e \in Entry : db[e].status \in Status \ Open => ~IsOpen(db'[e])

(* No step reopens a reservation.                                            *)
ClosedForGood == [][ClosedStep]_vars
============================================================================
