---------------------- MODULE KisRequestScheduler_proofs ----------------------
(***************************************************************************)
(* The scheduler implements the gate, holds a request up for at most one   *)
(* less urgent one, lets at most one request slip into a cooldown and no   *)
(* more than two budgets start within a window, for any number of threads, *)
(* priorities, budgets and times.                                          *)
(***************************************************************************)
EXTENDS KisRequestScheduler, FiniteSetTheorems, TLAPS

PcTypes == {"idle", "queued", "turn", "spacing", "sending", "backoff", "parsing", "done", "doubt"}

Types ==
    /\ pc \in [Request -> PcTypes]
    /\ due \in [Request -> Nat] /\ passed \in [Request -> Nat]
    /\ {cool, gap, mutGap, slipped} \subseteq Nat
    /\ taken \subseteq {r \in Mutations : pc[r] = "sending"}

(* One thread has the turn.                                                  *)
OneActive == \A q, r \in Request : pc[q] \in HasTurn /\ pc[r] \in HasTurn => q = r

(* A waiter that has let one pass is not behind a less urgent holder.        *)
PassedOnce ==
    /\ \A q \in Request : passed[q] <= 1 /\ (pc[q] # "queued" => passed[q] = 0)
    /\ \A q, r \in Request :
         pc[q] = "queued" /\ pc[r] \in {"turn", "spacing"} /\ passed[q] = 1
            => Priority[r] <= Priority[q]

(* Who sleeps has seen the cooldown, unless nobody has slipped into it yet.  *)
SleepsLongEnough ==
    /\ slipped <= 1
    /\ \A r \in Request : pc[r] = "spacing" => due[r] >= cool \/ slipped = 0

IInv == Types /\ OneActive /\ PassedOnce /\ SleepsLongEnough

-----------------------------------------------------------------------------
(* The end of an attempt, of _release_turn: the turn is free, nobody else    *)
(* moves, and a cooldown is only ever changed together with its count.       *)
LEMMA ReleaseKeepsInv ==
    ASSUME IInv, NEW r \in Request, pc[r] \in {"turn", "sending"},
           NEW to \in {"idle", "backoff", "parsing", "done", "doubt"}, NEW delay \in Nat,
           _release_turn(r, to, delay),
           UNCHANGED <<cool, slipped>> \/ Defer
    PROVE  IInv'
  <1> USE DEF IInv, _release_turn
  <1>1. Types'
    BY Limits DEF Types, Defer, Larger, Mutations, PcTypes
  <1>2. OneActive'
    BY DEF OneActive, HasTurn, Types
  <1>3. PassedOnce'
    BY DEF PassedOnce, Types
  <1>4. SleepsLongEnough'
    BY DEF SleepsLongEnough, Types, Defer
  <1> QED  BY <1>1, <1>2, <1>3, <1>4

(* Entering the queue, of _acquire_turn: nobody has passed the thread yet.   *)
LEMMA QueueKeepsInv ==
    ASSUME IInv, NEW r \in Request, pc[r] \in {"idle", "backoff"}, Queues(r)
    PROVE  IInv'
  <1> USE DEF IInv, Queues, history, timers
  <1>1. Types'
    BY DEF Types, Mutations, PcTypes
  <1>2. OneActive'
    BY DEF OneActive, HasTurn, Types
  <1>3. PassedOnce'
    BY DEF PassedOnce, Types
  <1>4. SleepsLongEnough'
    BY DEF SleepsLongEnough, Types
  <1> QED  BY <1>1, <1>2, <1>3, <1>4

(* The delays of execute_read and execute_mutation are lengths of time.      *)
LEMMA DelaysAreTimes ==
    ASSUME NEW r \in Request
    PROVE  Delay(r) \in Nat /\ Larger(Cooldown, Delay(r)) \in Nat
  BY Limits DEF Delay, Larger

(* Taking the turn, of _acquire_turn: only the head of the heap, and only    *)
(* when the turn is free.                                                    *)
LEMMA AcquireKeepsInv ==
    ASSUME IInv, NEW r \in Request, _acquire_turn(r)
    PROVE  IInv'
  <1> USE DEF IInv, _acquire_turn, First, timers
  <1>1. Types'
    BY DEF Types, Mutations, PcTypes
  <1>2. OneActive'
    BY DEF OneActive, HasTurn, Types, Active
  <1>3. \A q \in Request : pc[q] = "queued" => Priority[r] <= Priority[q]
    BY Callers DEF Queued
  <1>4. \A q \in Request : pc'[q] \in {"turn", "spacing"} => q = r
    BY DEF Active, HasTurn, Types
  <1>5. PassedOnce'
    BY <1>3, <1>4 DEF PassedOnce, Types
  <1>6. SleepsLongEnough'
    BY DEF SleepsLongEnough, Types
  <1> QED  BY <1>1, <1>2, <1>5, <1>6

(* Paying, of require_available, and reading the cooldown into the sleep.    *)
LEMMA PaysKeepsInv ==
    ASSUME IInv, NEW r \in Request, Pays(r)
    PROVE  IInv'
  <1> USE DEF IInv, Pays, timers, history
  <1>1. required_at(r) \in Nat /\ required_at(r) >= cool
    BY DEF required_at, Larger, Types
  <1>2. Types'
    BY <1>1 DEF Types, Mutations, PcTypes
  <1>3. OneActive'
    BY DEF OneActive, HasTurn, Types
  <1>4. PassedOnce'
    BY DEF PassedOnce, Types
  <1>5. SleepsLongEnough'
    BY <1>1 DEF SleepsLongEnough, Types
  <1> QED  BY <1>2, <1>3, <1>4, <1>5

(* The start, of _wait_for_request_spacing: it passes the waiters that are   *)
(* more urgent, for the first time, and may be the first in a cooldown.      *)
LEMMA StartKeepsInv ==
    ASSUME IInv, NEW r \in Request, _wait_for_request_spacing(r)
    PROVE  IInv'
  <1> USE DEF IInv, _wait_for_request_spacing
  <1>1. \A q \in Request : pc'[q] \notin {"turn", "spacing"}
    BY DEF OneActive, HasTurn, Types
  <1>2. \A q \in Request : pc[q] = "queued" /\ Priority[q] < Priority[r] => passed[q] = 0
    <2> SUFFICES ASSUME NEW q \in Request, pc[q] = "queued", Priority[q] < Priority[r]
                 PROVE  passed[q] = 0
      OBVIOUS
    <2>1. passed[q] \in {0, 1}
      BY DEF PassedOnce, Types
    <2>2. passed[q] = 1 => Priority[r] <= Priority[q]
      BY DEF PassedOnce
    <2> QED  BY <2>1, <2>2, Callers
  <1>3. Types'
    BY Limits DEF Types, Mutations, Lesser, PcTypes
  <1>4. OneActive'
    BY DEF OneActive, HasTurn, Types
  <1>5. PassedOnce'
    BY <1>1, <1>2 DEF PassedOnce, Types, Lesser
  <1>6. cool > 0 => slipped = 0
    BY DEF SleepsLongEnough, Types
  <1>7. SleepsLongEnough'
    BY <1>1, <1>6 DEF SleepsLongEnough, Types, Lesser
  <1> QED  BY <1>3, <1>4, <1>5, <1>7

(* Time passes for the sleeper and for the cooldown alike.                   *)
LEMMA TickKeepsInv ==
    ASSUME IInv, Tick
    PROVE  IInv'
  <1> USE DEF IInv, Tick, Down
  <1>1. Types'
    BY DEF Types, Mutations
  <1>2. OneActive'
    BY DEF OneActive
  <1>3. PassedOnce'
    BY DEF PassedOnce
  <1>4. SleepsLongEnough'
    BY DEF SleepsLongEnough, Types
  <1> QED  BY <1>1, <1>2, <1>3, <1>4

(* Every step of the scheduler keeps the inductive invariant.                *)
LEMMA StepKeepsInv ==
    ASSUME IInv, [Next]_vars
    PROVE  IInv'
  <1>1. CASE configure_verified_mutation_budget
    BY <1>1 DEF configure_verified_mutation_budget, IInv, Types, OneActive, PassedOnce,
                SleepsLongEnough, timers, history
  <1>2. CASE Tick
    BY <1>2, TickKeepsInv
  <1>3. ASSUME NEW r \in Request, Asks(r) \/ Wakes(r)
        PROVE  IInv'
    BY <1>3, QueueKeepsInv DEF Asks, Wakes
  <1>4. ASSUME NEW r \in Request, _acquire_turn(r) \/ Pays(r) \/ _wait_for_request_spacing(r)
        PROVE  IInv'
    BY <1>4, AcquireKeepsInv, PaysKeepsInv, StartKeepsInv
  <1>5. ASSUME NEW r \in Request, TurnedDown(r)
        PROVE  IInv'
    <2>1. Ended(r) \in {"idle", "done"}
      BY DEF Ended
    <2> QED  BY <1>5, <2>1, ReleaseKeepsInv DEF TurnedDown
  <1>6. ASSUME NEW r \in Request, BrokerTakes(r)
        PROVE  IInv'
    BY <1>6 DEF BrokerTakes, IInv, Types, OneActive, PassedOnce, SleepsLongEnough,
                timers, history, HasTurn
  <1>7. ASSUME NEW r \in Request,
               \/ Returns(r) \/ ReadFails(r) \/ MutationRefused(r)
               \/ MutationInDoubt(r) \/ ReadThrottled(r)
        PROVE  IInv'
    <2>1. Ended(r) \in {"idle", "done"} /\ Again(r) \in {"backoff", "idle", "done"}
      BY DEF Ended, Again
    <2>2. CASE Returns(r)
      BY <2>1, <2>2, ReleaseKeepsInv DEF Returns
    <2>3. CASE ReadFails(r)
      BY <2>1, <2>3, ReleaseKeepsInv, DelaysAreTimes DEF ReadFails
    <2>4. CASE MutationRefused(r)
      BY <2>1, <2>4, ReleaseKeepsInv, DelaysAreTimes DEF MutationRefused
    <2>5. CASE MutationInDoubt(r)
      BY <2>5, ReleaseKeepsInv DEF MutationInDoubt
    <2>6. CASE ReadThrottled(r)
      BY <2>6, ReleaseKeepsInv DEF ReadThrottled
    <2> QED  BY <1>7, <2>2, <2>3, <2>4, <2>5, <2>6
  <1>8. ASSUME NEW r \in Request, defer_requests(r)
        PROVE  IInv'
    BY <1>8, Limits DEF defer_requests, Defer, Larger, IInv, Types, PcTypes, OneActive,
       PassedOnce, SleepsLongEnough, HasTurn, Mutations
  <1>9. CASE UNCHANGED vars
    BY <1>9 DEF vars, IInv, Types, OneActive, PassedOnce, SleepsLongEnough, HasTurn, Mutations
  <1> QED
    BY <1>1, <1>2, <1>3, <1>4, <1>5, <1>6, <1>7, <1>8, <1>9 DEF Next, Runs

(* The inductive invariant holds throughout.                                 *)
THEOREM InvHolds == Spec => []IInv
  <1>1. Init => IInv
    BY DEF Init, IInv, Types, PcTypes, OneActive, HasTurn, PassedOnce, SleepsLongEnough
  <1> QED  BY <1>1, StepKeepsInv, PTL DEF Spec

(* AtMostOneAhead for any number of threads and priorities: while a request  *)
(* waits in the heap of _acquire_turn, one less urgent request starts at     *)
(* most.                                                                     *)
THEOREM OneAhead == Spec => []AtMostOneAhead
  <1>1. IInv => AtMostOneAhead
    BY DEF IInv, PassedOnce, AtMostOneAhead
  <1> QED  BY <1>1, InvHolds, PTL

(* CooldownHolds for any cooldown and spacing: after defer_requests at most  *)
(* one request starts before the cooldown is over.                           *)
THEOREM OneSlips == Spec => []CooldownHolds
  <1>1. IInv => CooldownHolds
    BY DEF IInv, SleepsLongEnough, CooldownHolds
  <1> QED  BY <1>1, InvHolds, PTL

-----------------------------------------------------------------------------
(* The budgets.  A bucket's numbers are in range, and a thread that sleeps   *)
(* has paid into a bucket that exists.                                       *)
Bucket == [made : BOOLEAN, reset : 0 .. Window, known : BOOLEAN, left : 0 .. Capacity]

Buckets ==
    /\ recent \in [0 .. Window - 1 -> Nat]
    /\ bucket \in [Class -> Bucket]
    /\ \A k \in Class : ~bucket[k].made => bucket[k].reset = 0
    /\ \A r \in Request : pc[r] = "spacing" => bucket[ClassOf(r)].made

(* A request of the watched class that has paid and not started.             *)
Sleeping == \E r \in Request : pc[r] = "spacing" /\ ClassOf(r) = Watched
Owed == IF Sleeping THEN 1 ELSE 0

(* The starts of the last n ticks and the one to come.                       *)
Count(n) == Cardinality(Starts(n)) + Owed

(* What a window has seen since its refill was paid out of it, and what two  *)
(* windows have seen out of both.                                            *)
Covered ==
    LET b == bucket[Watched] IN
    /\ IsFiniteSet(Starts(Window))
    /\ Count(Window - b.reset) <= Capacity - b.left
    /\ Count(Window) <= 2 * Capacity - b.left

BudgetInv == Buckets /\ Covered

(* The members of Starts.                                                    *)
LEMMA StartsMember ==
    ASSUME NEW n \in Nat
    PROVE  \A p : p \in Starts(n) <=> \E age \in 0 .. n - 1 : p \in {age} \X (1 .. recent[age])
  BY DEF Starts

(* Starts is monotone, and nothing has started in the last zero ticks.       *)
LEMMA StartsGrow ==
    ASSUME Buckets, IsFiniteSet(Starts(Window)), NEW n \in 0 .. Window
    PROVE  /\ IsFiniteSet(Starts(n)) /\ Cardinality(Starts(n)) \in Nat
           /\ Cardinality(Starts(n)) <= Cardinality(Starts(Window))
           /\ n = 0 => Cardinality(Starts(n)) = 0
  <1>1. Starts(n) \subseteq Starts(Window)
    <2>1. 0 .. n - 1 \subseteq 0 .. Window - 1
      BY Limits
    <2> QED  BY <2>1, Zenon DEF Starts
  <1>2. IsFiniteSet(Starts(n)) /\ Cardinality(Starts(n)) <= Cardinality(Starts(Window))
    BY <1>1, FS_Subset
  <1>3. n = 0 => Starts(n) = {}
    BY Limits DEF Starts
  <1> QED  BY <1>2, <1>3, FS_CardinalityType, FS_EmptySet

(* Where nothing starts, the starts are the same.                            *)
LEMMA StartsKept ==
    ASSUME recent' = recent, NEW n \in Nat
    PROVE  Starts(n)' = Starts(n)
  BY DEF Starts

(* When the starts, the buckets and what is owed are left alone, and nobody  *)
(* begins a sleep.                                                           *)
LEMMA CountKept ==
    ASSUME BudgetInv, recent' = recent, bucket' = bucket, Owed' = Owed,
           \A r \in Request : pc'[r] = "spacing" => pc[r] = "spacing"
    PROVE  BudgetInv'
  <1> DEFINE n == Window - bucket[Watched].reset
  <1>1. n \in Nat /\ n' = n /\ Window \in Nat
    BY Limits, Callers DEF BudgetInv, Buckets, Class, Bucket
  <1>2. Starts(Window)' = Starts(Window) /\ Starts(n)' = Starts(n)
    BY <1>1, StartsKept
  <1>3. Buckets'
    BY DEF BudgetInv, Buckets
  <1>4. Covered'
    BY <1>1, <1>2 DEF BudgetInv, Covered, Count
  <1> QED  BY <1>3, <1>4 DEF BudgetInv

(* The same when nobody begins or ends a sleep.                              *)
LEMMA NothingCounted ==
    ASSUME BudgetInv, recent' = recent, bucket' = bucket,
           \A r \in Request : pc'[r] = "spacing" <=> pc[r] = "spacing"
    PROVE  BudgetInv'
  <1>1. Owed' = Owed
    BY DEF Owed, Sleeping
  <1> QED  BY <1>1, CountKept

(* When a window is over and nobody sleeps, a whole budget is free.          *)
LEMMA WindowOver ==
    ASSUME BudgetInv, ~Sleeping, bucket[Watched].reset = 0
    PROVE  Count(0) = 0 /\ Count(Window) \in Nat /\ Count(Window) <= Capacity
  <1>1. Count(0) = 0 /\ Count(Window) \in Nat
    BY StartsGrow, Limits DEF BudgetInv, Covered, Count, Owed
  <1>2. Window - bucket[Watched].reset = Window
    BY Limits
  <1>3. Count(Window) <= Capacity - bucket[Watched].left
    BY <1>2 DEF BudgetInv, Covered
  <1>4. bucket[Watched].left \in 0 .. Capacity
    BY Callers DEF BudgetInv, Buckets, Bucket, Class
  <1> QED  BY <1>1, <1>3, <1>4, Limits

(* A bucket b in place of class k's covers the starts so far.                *)
Covers(b, k) ==
    /\ b \in Bucket
    /\ b.made
    /\ k = Watched => /\ Count(Window - b.reset) <= Capacity - b.left
                      /\ Count(Window) <= 2 * Capacity - b.left

(* _bucket: what it returns, refilled or not, covers the starts when nobody  *)
(* sleeps on it.                                                             *)
LEMMA BucketCovers ==
    ASSUME BudgetInv, NEW k \in Class, k = Watched => ~Sleeping
    PROVE  Covers(_bucket(k), k)
  <1> DEFINE b == _bucket(k)
             old == bucket[k]
  <1>1. old \in Bucket
    BY DEF BudgetInv, Buckets
  <1>2. CASE old.made /\ old.reset > 0
    <2>1. b = old
      BY <1>2 DEF _bucket
    <2> QED  BY <1>1, <1>2, <2>1 DEF BudgetInv, Covered, Covers
  <1>3. CASE ~(old.made /\ old.reset > 0)
    <2>1. old.reset = 0
      BY <1>1, <1>3 DEF BudgetInv, Buckets, Bucket
    <2>2. b \in Bucket /\ b.made /\ b.reset = Window
      <3>1. CASE ~old.made
        <4>1. b = _new_bucket(k)
          BY <3>1 DEF _bucket
        <4> QED  BY <4>1, Limits DEF _new_bucket, Lesser, Bucket
      <3>2. CASE old.made
        <4> DEFINE full == IF old.known THEN Capacity ELSE Lesser(Capacity, Reserve)
        <4>1. b = [old EXCEPT !.reset = Window, !.left = full]
          BY <1>3, <3>2 DEF _bucket
        <4>2. full \in 0 .. Capacity /\ Window \in 0 .. Window
          BY Limits DEF Lesser
        <4> HIDE DEF full, b, old
        <4>3. b = [made |-> old.made, reset |-> Window, known |-> old.known, left |-> full]
          BY <1>1, <4>1 DEF Bucket
        <4> QED  BY <1>1, <3>2, <4>2, <4>3 DEF Bucket
      <3> QED  BY <3>1, <3>2
    <2>3. Window - b.reset = 0 /\ b.left \in 0 .. Capacity
      BY <2>2, Limits DEF Bucket
    <2>4. k = Watched => Count(0) = 0 /\ Count(Window) \in Nat /\ Count(Window) <= Capacity
      BY <2>1, WindowOver
    <2> HIDE DEF b
    <2>5. Covers(b, k)
      BY <2>2, <2>3, <2>4, Limits DEF Covers
    <2> QED  BY <2>5 DEF b
  <1> QED  BY <1>2, <1>3

(* A bucket that covers the starts, paid out of (sleeps = 1) or not, takes   *)
(* the place of the old one.                                                 *)
LEMMA BucketReplaced ==
    ASSUME BudgetInv, recent' = recent, NEW k \in Class, NEW b \in Bucket, b.made,
           bucket' = [bucket EXCEPT ![k] = b],
           \A r \in Request : pc'[r] = "spacing" => bucket'[ClassOf(r)].made,
           LET n == Cardinality(Starts(Window - bucket'[Watched].reset))
               m == Cardinality(Starts(Window))
           IN  /\ n + Owed' <= Capacity - bucket'[Watched].left
               /\ m + Owed' <= 2 * Capacity - bucket'[Watched].left
    PROVE  BudgetInv'
  <1>1. Buckets'
    BY DEF BudgetInv, Buckets, Bucket
  <1> DEFINE n == Window - bucket'[Watched].reset
  <1>2. n \in Nat /\ Window \in Nat
    <2>1. bucket'[Watched] \in Bucket
      BY <1>1, Callers DEF Buckets, Class
    <2>2. bucket'[Watched].reset \in 0 .. Window
      BY <2>1 DEF Bucket
    <2> QED  BY <2>2, Limits
  <1>3. Starts(Window)' = Starts(Window) /\ Starts(Window - bucket[Watched].reset)' = Starts(n)
    BY <1>2, StartsKept
  <1> QED  BY <1>1, <1>3 DEF BudgetInv, Covered, Count

(* A bucket that changes by itself: configure_verified_mutation_budget, and  *)
(* a request turned down.                                                    *)
LEMMA BucketAsked ==
    ASSUME BudgetInv, recent' = recent, NEW k \in Class, NEW b, Covers(b, k),
           \A r \in Request : pc'[r] = "spacing" <=> pc[r] = "spacing",
           bucket' = [bucket EXCEPT ![k] = b]
    PROVE  BudgetInv'
  <1>1. Owed' = Owed
    BY DEF Owed, Sleeping
  <1>2. Watched \in Class /\ b \in Bucket /\ b.made
    BY Callers DEF Class, Covers
  <1>3. \A r \in Request : pc'[r] = "spacing" => bucket'[ClassOf(r)].made
    BY <1>2 DEF BudgetInv, Buckets, ClassOf, Class
  <1>4. CASE k = Watched
    <2>1. bucket'[Watched] = b
      BY <1>2, <1>4 DEF BudgetInv, Buckets
    <2> QED  BY <1>1, <1>2, <1>3, <1>4, <2>1, BucketReplaced DEF Covers, Count
  <1>5. CASE k # Watched
    <2>1. bucket'[Watched] = bucket[Watched]
      BY <1>2, <1>5 DEF BudgetInv, Buckets
    <2> QED  BY <1>1, <1>2, <1>3, <2>1, BucketReplaced DEF BudgetInv, Covered, Count
  <1> QED  BY <1>4, <1>5

(* Paying takes one from the bucket and owes one start.                      *)
LEMMA PaysKeepsBudget ==
    ASSUME IInv, BudgetInv, NEW r \in Request, Pays(r)
    PROVE  BudgetInv'
  <1> DEFINE k == ClassOf(r)
             b == _bucket(k)
             less == b.left - 1
             paid == [b EXCEPT !.left = less]
  <1>1. pc[r] = "turn" /\ pc' = [pc EXCEPT ![r] = "spacing"] /\ recent' = recent
    BY DEF Pays, history
  <1>2. k \in Class /\ Watched \in Class
    BY Callers DEF ClassOf, Class
  <1>3. \A q \in Request : pc[q] # "spacing"
    BY <1>1 DEF IInv, OneActive, HasTurn
  <1>4. ~Sleeping /\ Owed = 0
    BY <1>3 DEF Sleeping, Owed
  <1>5. Covers(b, k)
    BY <1>2, <1>4, BucketCovers
  <1>6. b.left > 0 /\ b \in Bucket /\ b.made
    BY <1>5 DEF Pays, require_available, Covers
  <1> HIDE DEF b, less
  <1>7. paid = [made |-> b.made, reset |-> b.reset, known |-> b.known, left |-> less]
    <2>1. b \in [made : BOOLEAN, reset : 0 .. Window, known : BOOLEAN, left : 0 .. Capacity]
      BY <1>6 DEF Bucket
    <2>2. b = [made |-> b.made, reset |-> b.reset, known |-> b.known, left |-> b.left]
      BY <2>1
    <2> QED  BY <2>1
  <1>8. paid \in Bucket /\ paid.made /\ paid.reset = b.reset /\ paid.left = b.left - 1
    <2>1. less \in 0 .. Capacity /\ less = b.left - 1
      BY <1>6, Limits DEF Bucket, less
    <2> QED  BY <1>6, <1>7, <2>1 DEF Bucket
  <1>9. bucket' = [bucket EXCEPT ![k] = paid]
    BY DEF Pays, b, less
  <1> HIDE DEF paid
  <1>10. \A q \in Request : pc'[q] = "spacing" <=> q = r
    BY <1>1, <1>3 DEF IInv, Types
  <1>11. Owed' = IF k = Watched THEN 1 ELSE 0
    BY <1>10 DEF Owed, Sleeping, ClassOf
  <1>12. \A q \in Request : pc'[q] = "spacing" => bucket'[ClassOf(q)].made
    BY <1>2, <1>8, <1>9, <1>10 DEF BudgetInv, Buckets
  <1>13. CASE k = Watched
    <2>1. bucket'[Watched] = paid /\ b.left \in Nat
      BY <1>2, <1>5, <1>9, <1>13 DEF BudgetInv, Buckets, Covers, Bucket
    <2>2. /\ Cardinality(Starts(Window - b.reset)) + Owed <= Capacity - b.left
          /\ Cardinality(Starts(Window)) + Owed <= 2 * Capacity - b.left
      BY <1>5, <1>13 DEF Covers, Count
    <2>3. Window - b.reset \in 0 .. Window /\ Window \in 0 .. Window
      BY <1>5, Limits DEF Covers, Bucket
    <2>4. Cardinality(Starts(Window - b.reset)) \in Nat /\ Cardinality(Starts(Window)) \in Nat
      BY <2>3, StartsGrow DEF BudgetInv, Covered
    <2>5. /\ Cardinality(Starts(Window - paid.reset)) + Owed' <= Capacity - paid.left
          /\ Cardinality(Starts(Window)) + Owed' <= 2 * Capacity - paid.left
      BY <1>4, <1>8, <1>11, <1>13, <2>1, <2>2, <2>4, Limits
    <2> QED  BY <1>1, <1>2, <1>8, <1>9, <1>12, <2>1, <2>5, BucketReplaced
  <1>14. CASE k # Watched
    <2>1. bucket'[Watched] = bucket[Watched] /\ Owed' = Owed
      BY <1>2, <1>4, <1>9, <1>11, <1>14 DEF BudgetInv, Buckets
    <2> QED
      BY <1>1, <1>2, <1>8, <1>9, <1>12, <2>1, BucketReplaced DEF BudgetInv, Covered, Count
  <1> QED  BY <1>13, <1>14

(* The start: what was owed is now among the starts of this tick.            *)
LEMMA StartKeepsBudget ==
    ASSUME IInv, BudgetInv, NEW r \in Request, _wait_for_request_spacing(r)
    PROVE  BudgetInv'
  <1>1. /\ pc[r] = "spacing" /\ pc' = [pc EXCEPT ![r] = "sending"] /\ bucket' = bucket
        /\ recent' = IF ClassOf(r) = Watched THEN [recent EXCEPT ![0] = @ + 1] ELSE recent
    BY DEF _wait_for_request_spacing
  <1>2. \A q \in Request : pc[q] = "spacing" => q = r
    BY <1>1 DEF IInv, OneActive, HasTurn
  <1>3. \A q \in Request : pc'[q] # "spacing"
    BY <1>1, <1>2 DEF IInv, Types
  <1>4. Owed' = 0 /\ Owed = IF ClassOf(r) = Watched THEN 1 ELSE 0
    BY <1>1, <1>2, <1>3 DEF Owed, Sleeping
  <1>5. CASE ClassOf(r) # Watched
    BY <1>1, <1>3, <1>4, <1>5, CountKept
  <1>6. CASE ClassOf(r) = Watched
    <2> DEFINE new == <<0, recent[0] + 1>>
    <2>1. 0 \in 0 .. Window - 1 /\ recent \in [0 .. Window - 1 -> Nat]
      BY Limits DEF BudgetInv, Buckets
    <2>2. recent' = [recent EXCEPT ![0] = recent[0] + 1]
      BY <1>1, <1>6
    <2>3. Buckets'
      BY <1>1, <1>3, <2>1, <2>2 DEF BudgetInv, Buckets
    <2>4. ASSUME NEW n \in 0 .. Window
          PROVE  /\ IsFiniteSet(Starts(n)')
                 /\ Cardinality(Starts(n)') \in Nat
                 /\ Cardinality(Starts(n)') <= Cardinality(Starts(n)) + 1
      <3>1. IsFiniteSet(Starts(n)) /\ Cardinality(Starts(n)) \in Nat
        BY StartsGrow DEF BudgetInv, Covered
      <3>2. Starts(n)' \subseteq Starts(n) \cup {new}
        <4> SUFFICES ASSUME NEW p \in Starts(n)'
                     PROVE  p \in Starts(n) \/ p = new
          OBVIOUS
        <4>1. PICK age \in 0 .. n - 1 : p \in {age} \X (1 .. recent'[age])
          BY DEF Starts
        <4>2. PICK i \in 1 .. recent'[age] : p = <<age, i>>
          BY <4>1
        <4>3. CASE i \in 1 .. recent[age]
          BY <4>2, <4>3 DEF Starts
        <4>4. CASE i \notin 1 .. recent[age]
          <5>1. age \in 0 .. Window - 1 /\ recent[age] \in Nat
            BY <2>1, Limits
          <5>2. age = 0 /\ i = recent[0] + 1
            BY <2>1, <2>2, <4>4, <5>1
          <5> QED  BY <4>2, <5>2
        <4> QED  BY <4>3, <4>4
      <3>3. /\ IsFiniteSet(Starts(n) \cup {new})
            /\ Cardinality(Starts(n) \cup {new}) <= Cardinality(Starts(n)) + 1
            /\ Cardinality(Starts(n) \cup {new}) \in Nat
        <4>1. /\ IsFiniteSet(Starts(n) \cup {new})
              /\ Cardinality(Starts(n) \cup {new}) =
                   IF new \in Starts(n) THEN Cardinality(Starts(n)) ELSE Cardinality(Starts(n)) + 1
          BY <3>1, FS_AddElement
        <4> QED  BY <3>1, <4>1
      <3>4. IsFiniteSet(Starts(n)') /\ Cardinality(Starts(n)') <= Cardinality(Starts(n) \cup {new})
        BY <3>2, <3>3, FS_Subset
      <3> QED  BY <3>1, <3>3, <3>4, FS_CardinalityType
    <2>5. bucket[Watched].reset \in 0 .. Window /\ bucket[Watched].left \in 0 .. Capacity
      BY Callers DEF BudgetInv, Buckets, Bucket, Class
    <2>6. PICK n \in 0 .. Window : n = Window - bucket[Watched].reset
      BY <2>5, Limits
    <2>7. /\ Cardinality(Starts(n)) + 1 <= Capacity - bucket[Watched].left
          /\ Cardinality(Starts(Window)) + 1 <= 2 * Capacity - bucket[Watched].left
      BY <1>4, <1>6, <2>6 DEF BudgetInv, Covered, Count
    <2>8. /\ Cardinality(Starts(n)) \in Nat /\ Cardinality(Starts(Window)) \in Nat
          /\ Window \in 0 .. Window
      BY <2>6, StartsGrow, Limits DEF BudgetInv, Covered
    <2>9. /\ IsFiniteSet(Starts(Window)')
          /\ Cardinality(Starts(n)') <= Capacity - bucket[Watched].left
          /\ Cardinality(Starts(Window)') <= 2 * Capacity - bucket[Watched].left
          /\ Cardinality(Starts(n)') \in Nat /\ Cardinality(Starts(Window)') \in Nat
      BY <2>4, <2>5, <2>7, <2>8, Limits
    <2>10. Covered'
      BY <1>1, <1>4, <2>6, <2>9 DEF Covered, Count
    <2> QED  BY <2>3, <2>10 DEF BudgetInv
  <1> QED  BY <1>5, <1>6

(* A tick moves every start to the next age and lets the oldest go.          *)
LEMMA StartsAge ==
    ASSUME BudgetInv, Tick, NEW n \in 0 .. Window - 1
    PROVE  /\ IsFiniteSet(Starts(n + 1)')
           /\ Cardinality(Starts(n + 1)') \in Nat
           /\ Cardinality(Starts(n + 1)') <= Cardinality(Starts(n))
  <1>1. IsFiniteSet(Starts(n))
    BY StartsGrow, Limits DEF BudgetInv, Covered
  <1>2. recent' = [age \in 0 .. Window - 1 |-> IF age = 0 THEN 0 ELSE recent[age - 1]]
    BY DEF Tick
  <1> DEFINE S == Starts(n + 1)'
             f == [p \in S |-> <<p[1] - 1, p[2]>>]
  <1>3. ASSUME NEW p \in S
        PROVE  /\ p = <<p[1], p[2]>> /\ p[1] \in 1 .. n /\ f[p] \in Starts(n)
    <2>1. PICK age \in 0 .. n : p \in {age} \X (1 .. recent'[age])
      <3>1. (n + 1) - 1 = n
        BY Limits
      <3> QED  BY <3>1 DEF Starts
    <2>2. PICK i \in 1 .. recent'[age] : p = <<age, i>>
      BY <2>1
    <2>3. age \in 0 .. Window - 1
      BY Limits
    <2>4. age # 0 /\ recent'[age] = recent[age - 1]
      BY <1>2, <2>2, <2>3
    <2>5. age - 1 \in 0 .. n - 1 /\ age \in 1 .. n
      BY <2>4, Limits
    <2>6. <<age - 1, i>> \in Starts(n)
      BY <2>2, <2>4, <2>5 DEF Starts
    <2>7. f[p] = <<age - 1, i>>
      BY <2>2
    <2> QED  BY <2>2, <2>5, <2>6, <2>7
  <1>4. f \in [S -> Starts(n)]
    BY <1>3
  <1>5. ASSUME NEW p \in S, NEW q \in S, f[p] = f[q]
        PROVE  p = q
    <2>1. p[1] - 1 = q[1] - 1 /\ p[2] = q[2]
      BY <1>5
    <2>2. p[1] \in 1 .. n /\ q[1] \in 1 .. n /\ p = <<p[1], p[2]>> /\ q = <<q[1], q[2]>>
      BY <1>3
    <2> QED  BY <2>1, <2>2, Limits
  <1>6. f \in Injection(S, Starts(n))
    BY <1>4, <1>5 DEF Injection, IsInjective
  <1> HIDE DEF f, S
  <1>7. IsFiniteSet(S) /\ Cardinality(S) <= Cardinality(Starts(n))
    BY <1>1, <1>6, FS_Injection
  <1>8. Cardinality(S) \in Nat
    BY <1>7, FS_CardinalityType
  <1> QED  BY <1>7, <1>8 DEF S

(* Time passes for the windows of the buckets and for the starts alike.      *)
LEMMA TickKeepsBudget ==
    ASSUME BudgetInv, Tick
    PROVE  BudgetInv'
  <1>1. pc' = pc /\ bucket' = [k \in Class |-> [bucket[k] EXCEPT !.reset = Down(@)]]
    BY DEF Tick
  <1>2. Owed' = Owed /\ Owed \in {0, 1}
    BY <1>1 DEF Owed, Sleeping
  <1>3. ASSUME NEW k \in Class
        PROVE  /\ bucket'[k] \in Bucket
               /\ bucket'[k].made = bucket[k].made /\ bucket'[k].left = bucket[k].left
               /\ bucket'[k].reset = Down(bucket[k].reset)
    <2> DEFINE down == Down(bucket[k].reset)
    <2>1. bucket[k] \in Bucket
      BY DEF BudgetInv, Buckets
    <2>2. down \in 0 .. Window
      BY <2>1, Limits DEF Down, Bucket
    <2> HIDE DEF down
    <2>3. bucket'[k] = [bucket[k] EXCEPT !.reset = down]
      BY <1>1 DEF down
    <2>4. /\ bucket'[k] \in Bucket /\ bucket'[k].reset = down
          /\ bucket'[k].made = bucket[k].made /\ bucket'[k].left = bucket[k].left
      BY <2>1, <2>2, <2>3 DEF Bucket
    <2> QED  BY <2>4 DEF down
  <1>4. Buckets'
    <2>1. recent' \in [0 .. Window - 1 -> Nat]
      <3> SUFFICES ASSUME NEW age \in 0 .. Window - 1, age # 0
                   PROVE  recent[age - 1] \in Nat
        BY DEF Tick
      <3>1. age - 1 \in 0 .. Window - 1
        BY Limits
      <3> QED  BY <3>1 DEF BudgetInv, Buckets
    <2>2. bucket' \in [Class -> Bucket]
      BY <1>1, <1>3
    <2>3. ASSUME NEW k \in Class, ~bucket'[k].made
          PROVE  bucket'[k].reset = 0
      BY <1>3, <2>3 DEF BudgetInv, Buckets, Down
    <2>4. \A r \in Request : ClassOf(r) \in Class
      BY DEF ClassOf, Class
    <2> QED  BY <1>1, <1>3, <2>1, <2>2, <2>3, <2>4 DEF BudgetInv, Buckets
  <1> DEFINE b == bucket[Watched]
  <1>5. /\ b.reset \in 0 .. Window /\ b.left \in 0 .. Capacity
        /\ bucket'[Watched].left = b.left /\ bucket'[Watched].reset = Down(b.reset)
    BY <1>3, Callers DEF BudgetInv, Buckets, Bucket, Class
  <1>6. /\ IsFiniteSet(Starts(Window)') /\ Cardinality(Starts(Window)') \in Nat
        /\ Cardinality(Starts(Window)') <= Cardinality(Starts(Window))
    <2>1. PICK n \in 0 .. Window - 1 : n + 1 = Window
      BY Limits
    <2>2. Cardinality(Starts(n)) <= Cardinality(Starts(Window)) /\ Cardinality(Starts(n)) \in Nat
      BY <2>1, Limits, StartsGrow DEF BudgetInv, Covered
    <2>3. Cardinality(Starts(Window)) \in Nat
      BY FS_CardinalityType DEF BudgetInv, Covered
    <2>4. /\ IsFiniteSet(Starts(Window)') /\ Cardinality(Starts(Window)') \in Nat
          /\ Cardinality(Starts(Window)') <= Cardinality(Starts(n))
      BY <2>1, StartsAge
    <2> QED  BY <2>2, <2>3, <2>4
  <1>7. PICK m \in 0 .. Window : m = Window - bucket'[Watched].reset
    BY <1>5, Limits DEF Down
  <1>8. Cardinality(Starts(m)') + Owed <= Capacity - b.left
    <2>1. CASE b.reset = 0
      <3>1. m = Window /\ Window - b.reset = Window
        BY <1>5, <1>7, <2>1, Limits DEF Down
      <3>2. Cardinality(Starts(Window)) + Owed <= Capacity - b.left
        BY <3>1 DEF BudgetInv, Covered, Count
      <3>3. Cardinality(Starts(Window)) \in Nat
        BY FS_CardinalityType DEF BudgetInv, Covered
      <3>4. /\ Cardinality(Starts(m)') <= Cardinality(Starts(Window))
            /\ Cardinality(Starts(m)') \in Nat
        BY <1>6, <3>1
      <3> QED  BY <1>2, <1>5, <3>2, <3>3, <3>4, Limits
    <2>2. CASE b.reset # 0
      <3>1. PICK n \in 0 .. Window - 1 : n = Window - b.reset /\ n + 1 = m
        BY <1>5, <1>7, <2>2, Limits DEF Down
      <3>2. Cardinality(Starts(n)) + Owed <= Capacity - b.left
        BY <3>1 DEF BudgetInv, Covered, Count
      <3>3. Cardinality(Starts(n)) \in Nat
        BY <3>1, Limits, StartsGrow DEF BudgetInv, Covered
      <3>4. Cardinality(Starts(m)') <= Cardinality(Starts(n)) /\ Cardinality(Starts(m)') \in Nat
        BY <3>1, StartsAge
      <3> QED  BY <1>2, <1>5, <3>2, <3>3, <3>4, Limits
    <2> QED  BY <2>1, <2>2
  <1>9. Cardinality(Starts(Window)') + Owed <= 2 * Capacity - b.left
    <2>1. Cardinality(Starts(Window)) + Owed <= 2 * Capacity - b.left
      BY DEF BudgetInv, Covered, Count
    <2>2. Cardinality(Starts(Window)) \in Nat
      BY FS_CardinalityType DEF BudgetInv, Covered
    <2> QED  BY <1>2, <1>5, <1>6, <2>1, <2>2, Limits
  <1>10. Covered'
    BY <1>2, <1>5, <1>6, <1>7, <1>8, <1>9 DEF Covered, Count
  <1> QED  BY <1>4, <1>10 DEF BudgetInv

(* Every step of the scheduler keeps the budgets.                            *)
LEMMA StepKeepsBudget ==
    ASSUME IInv, BudgetInv, [Next]_vars
    PROVE  BudgetInv'
  <1>1. CASE configure_verified_mutation_budget
    <2> DEFINE new == [made |-> TRUE, reset |-> Window, known |-> TRUE, left |-> Capacity]
    <2>1. /\ ~bucket["MUTATION"].made /\ bucket' = [bucket EXCEPT !["MUTATION"] = new]
          /\ pc' = pc /\ recent' = recent
      BY <1>1 DEF configure_verified_mutation_budget, history
    <2>2. "MUTATION" \in Class
      BY DEF Class
    <2>3. bucket["MUTATION"].reset = 0
      BY <2>1, <2>2 DEF BudgetInv, Buckets
    <2>4. "MUTATION" = Watched => ~Sleeping
      BY <2>1 DEF BudgetInv, Buckets, Sleeping
    <2>5. "MUTATION" = Watched => Count(0) = 0 /\ Count(Window) \in Nat /\ Count(Window) <= Capacity
      BY <2>3, <2>4, WindowOver
    <2>6. /\ new \in Bucket /\ new.made /\ new.left = Capacity /\ Window - new.reset = 0
          /\ Capacity \in Nat
      BY Limits DEF Bucket
    <2> HIDE DEF new
    <2>7. Covers(new, "MUTATION")
      BY <2>5, <2>6 DEF Covers
    <2> QED  BY <2>1, <2>2, <2>7, BucketAsked
  <1>2. CASE Tick
    BY <1>2, TickKeepsBudget
  <1>3. ASSUME NEW r \in Request, Pays(r)
        PROVE  BudgetInv'
    BY <1>3, PaysKeepsBudget
  <1>4. ASSUME NEW r \in Request, _wait_for_request_spacing(r)
        PROVE  BudgetInv'
    BY <1>4, StartKeepsBudget
  <1>5. ASSUME NEW r \in Request, TurnedDown(r)
        PROVE  BudgetInv'
    <2>1. /\ pc[r] = "turn" /\ pc' = [pc EXCEPT ![r] = Ended(r)] /\ recent' = recent
          /\ bucket' = [bucket EXCEPT ![ClassOf(r)] = _bucket(ClassOf(r))]
      BY <1>5 DEF TurnedDown, _release_turn
    <2>2. \A q \in Request : pc[q] # "spacing" /\ pc'[q] # "spacing"
      BY <2>1 DEF IInv, OneActive, HasTurn, Types, Ended
    <2>3. ClassOf(r) \in Class
      BY DEF ClassOf, Class
    <2>4. Covers(_bucket(ClassOf(r)), ClassOf(r))
      BY <2>2, <2>3, BucketCovers DEF Sleeping
    <2> QED  BY <2>1, <2>2, <2>3, <2>4, BucketAsked
  <1>6. ASSUME NEW r \in Request,
               \/ Asks(r) \/ Wakes(r) \/ _acquire_turn(r) \/ BrokerTakes(r) \/ Returns(r)
               \/ ReadFails(r) \/ MutationRefused(r) \/ MutationInDoubt(r)
               \/ ReadThrottled(r) \/ defer_requests(r)
        PROVE  BudgetInv'
    <2>1. recent' = recent /\ bucket' = bucket
      BY <1>6 DEF Asks, Wakes, Queues, _acquire_turn, BrokerTakes, Returns, ReadFails,
                  MutationRefused, MutationInDoubt, ReadThrottled, defer_requests,
                  _release_turn, history
    <2>2. \E to \in PcTypes \ {"spacing"} : pc' = [pc EXCEPT ![r] = to]
      BY <1>6 DEF Asks, Wakes, Queues, _acquire_turn, Returns, ReadFails, MutationRefused,
                  MutationInDoubt, ReadThrottled, defer_requests, _release_turn, Ended, Again,
                  PcTypes, BrokerTakes, IInv, Types
    <2>3. pc[r] # "spacing"
      BY <1>6 DEF Asks, Wakes, _acquire_turn, First, BrokerTakes, Returns, ReadFails,
                  MutationRefused, MutationInDoubt, ReadThrottled, defer_requests
    <2>4. \A q \in Request : pc'[q] = "spacing" <=> pc[q] = "spacing"
      BY <2>2, <2>3 DEF IInv, Types
    <2> QED  BY <2>1, <2>4, NothingCounted
  <1>7. CASE UNCHANGED vars
    BY <1>7, NothingCounted DEF vars
  <1> QED  BY <1>1, <1>2, <1>3, <1>4, <1>5, <1>6, <1>7 DEF Next, Runs

(* The budgets hold throughout: nothing has started at first.                *)
THEOREM BudgetsHold == Spec => []BudgetInv
  <1>1. Init => BudgetInv
    <2> SUFFICES ASSUME Init
                 PROVE  BudgetInv
      OBVIOUS
    <2> DEFINE none == [made |-> FALSE, reset |-> 0, known |-> FALSE, left |-> 0]
    <2>1. none \in Bucket /\ none.reset = 0 /\ none.left = 0
      BY Limits DEF Bucket
    <2>2. bucket = [k \in Class |-> none] /\ recent = [age \in 0 .. Window - 1 |-> 0]
      BY DEF Init
    <2>3. \A r \in Request : pc[r] # "spacing"
      BY DEF Init
    <2> HIDE DEF none
    <2>4. Buckets
      BY <2>1, <2>2, <2>3 DEF Buckets
    <2>5. Starts(Window) = {}
      BY <2>2, Limits DEF Starts
    <2>6. /\ IsFiniteSet(Starts(Window)) /\ Cardinality(Starts(Window)) = 0 /\ Owed = 0
      BY <2>3, <2>5, FS_EmptySet DEF Owed, Sleeping
    <2>7. Watched \in Class
      BY Callers DEF Class
    <2>8. bucket[Watched].reset = 0 /\ bucket[Watched].left = 0 /\ Window - 0 = Window
      BY <2>1, <2>2, <2>7, Limits
    <2>9. Covered
      BY <2>6, <2>8, Limits DEF Covered, Count
    <2> QED  BY <2>4, <2>9 DEF BudgetInv
  <1>2. IInv /\ BudgetInv /\ [Next]_vars => BudgetInv'
    BY StepKeepsBudget
  <1> QED  BY <1>1, <1>2, InvHolds, PTL DEF Spec

(* BurstBounded for any budget, window and spacing, and any number of        *)
(* threads: what _bucket hands out and _wait_for_request_spacing starts is   *)
(* never more than two budgets within one window.                            *)
THEOREM TwoBudgetsAtMost == Spec => []BurstBounded
  <1>1. BudgetInv => BurstBounded
    <2> SUFFICES ASSUME BudgetInv
                 PROVE  BurstBounded
      OBVIOUS
    <2>1. bucket[Watched].left \in 0 .. Capacity
      BY Callers DEF BudgetInv, Buckets, Bucket, Class
    <2>2. Count(Window) <= 2 * Capacity - bucket[Watched].left
      BY DEF BudgetInv, Covered
    <2>3. Cardinality(Starts(Window)) \in Nat
      BY FS_CardinalityType DEF BudgetInv, Covered
    <2> QED  BY <2>1, <2>2, <2>3, Limits DEF Count, Owed, BurstBounded
  <1> QED  BY <1>1, BudgetsHold, PTL

-----------------------------------------------------------------------------
(* Refinement.  A step that leaves every phase alone stutters.               *)
phases == [r \in Request |-> PhaseOf(r)]

(* Where a thread's phase changes and nothing else does, the gate sees       *)
(* exactly that change.                                                      *)
LEMMA OnePhase ==
    ASSUME NEW r \in Request, \A q \in Request \ {r} : PhaseOf(q)' = PhaseOf(q)
    PROVE  phases' = [phases EXCEPT ![r] = PhaseOf(r)']
  BY DEF phases

(* A thread whose program counter and fate at the broker stay keeps its      *)
(* phase.                                                                    *)
LEMMA PhaseKept ==
    ASSUME NEW q \in Request, pc'[q] = pc[q], (q \in taken') = (q \in taken)
    PROVE  PhaseOf(q)' = PhaseOf(q)
  BY DEF PhaseOf

(* Every step but one that moves a thread's phase leaves the others alone.   *)
LEMMA ReleaseIsGate ==
    ASSUME IInv, NEW r \in Request, pc[r] = "sending",
           NEW to \in {"idle", "backoff", "parsing", "done", "doubt"}, NEW delay \in Nat,
           _release_turn(r, to, delay),
           to \in {"done", "doubt"} => r \in Mutations,
           to \in {"idle", "backoff", "parsing"} => r \notin taken
    PROVE  Gate!Answered(r)
  <1>1. \A q \in Request \ {r} : PhaseOf(q)' = PhaseOf(q)
    BY PhaseKept DEF _release_turn, IInv, Types
  <1>2. phases' = [phases EXCEPT ![r] = PhaseOf(r)']
    BY <1>1, OnePhase
  <1>3. phases[r] = IF r \in taken THEN "taken" ELSE "out"
    BY DEF phases, PhaseOf
  <1>4. PhaseOf(r)' = IF to = "done" THEN "over" ELSE IF to = "doubt" THEN "doubt" ELSE "idle"
    BY DEF PhaseOf, _release_turn, IInv, Types
  <1> QED  BY <1>2, <1>3, <1>4 DEF Gate!Answered, Gate!Becomes, phases

(* Every step of the scheduler is a step of the gate or leaves it alone.     *)
LEMMA StepIsGate ==
    ASSUME IInv, [Next]_vars
    PROVE  [Gate!Next]_phases
  <1> USE DEF IInv
  <1>1. CASE configure_verified_mutation_budget \/ Tick \/ UNCHANGED vars
    <2>1. pc' = pc /\ taken' = taken
      BY <1>1 DEF configure_verified_mutation_budget, Tick, vars
    <2> QED  BY <2>1 DEF phases, PhaseOf
  <1>2. ASSUME NEW r \in Request, Asks(r) \/ Wakes(r)
        PROVE  Gate!Asks(r)
    <2>1. pc[r] \in {"idle", "backoff"} /\ Queues(r)
      BY <1>2 DEF Asks, Wakes
    <2>2. \A q \in Request \ {r} : PhaseOf(q)' = PhaseOf(q)
      BY <2>1, PhaseKept DEF Queues, Types
    <2>3. phases[r] = "idle" /\ PhaseOf(r)' = "waiting"
      BY <2>1 DEF Queues, phases, PhaseOf, Types
    <2> QED  BY <2>2, <2>3, OnePhase DEF Gate!Asks, Gate!Becomes, phases
  <1>3. ASSUME NEW r \in Request, _acquire_turn(r)
        PROVE  Gate!Served(r)
    <2>1. \A q \in Request \ {r} : PhaseOf(q)' = PhaseOf(q)
      BY <1>3, PhaseKept DEF _acquire_turn, Types
    <2>2. phases[r] = "waiting" /\ PhaseOf(r)' = "served"
      BY <1>3 DEF _acquire_turn, First, phases, PhaseOf, Types
    <2>3. ASSUME NEW q \in Request
          PROVE  /\ phases[q] \notin {"served", "out", "taken"}
                 /\ phases[q] = "waiting" => Priority[r] <= Priority[q]
      <3>1. pc[q] \notin HasTurn
        BY <1>3 DEF _acquire_turn, Active
      <3>2. pc[q] = "queued" => Priority[r] <= Priority[q]
        BY <1>3, Callers DEF _acquire_turn, First, Queued
      <3>3. phases[q] = PhaseOf(q)
        BY DEF phases
      <3> QED  BY <3>1, <3>2, <3>3 DEF HasTurn, PhaseOf
    <2> QED  BY <2>1, <2>2, <2>3, OnePhase DEF Gate!Served, Gate!Becomes, phases
  <1>4. ASSUME NEW r \in Request, Pays(r)
        PROVE  UNCHANGED phases
    BY <1>4, PhaseKept DEF Pays, phases, PhaseOf, Types
  <1>5. ASSUME NEW r \in Request, TurnedDown(r)
        PROVE  Gate!TurnedDown(r)
    <2>1. \A q \in Request \ {r} : PhaseOf(q)' = PhaseOf(q)
      BY <1>5, PhaseKept DEF TurnedDown, _release_turn, Types
    <2>2. phases[r] = "served"
      BY <1>5 DEF TurnedDown, phases, PhaseOf
    <2>3. PhaseOf(r)' = IF r \in Mutations THEN "over" ELSE "idle"
      BY <1>5 DEF TurnedDown, _release_turn, Ended, PhaseOf, Types
    <2> QED  BY <2>1, <2>2, <2>3, OnePhase DEF Gate!TurnedDown, Gate!Becomes, phases
  <1>6. ASSUME NEW r \in Request, _wait_for_request_spacing(r)
        PROVE  Gate!GoesOut(r)
    <2>1. \A q \in Request \ {r} : PhaseOf(q)' = PhaseOf(q)
      BY <1>6, PhaseKept DEF _wait_for_request_spacing, Types
    <2>2. phases[r] = "served" /\ PhaseOf(r)' = "out"
      BY <1>6 DEF _wait_for_request_spacing, phases, PhaseOf, Types
    <2> QED  BY <2>1, <2>2, OnePhase DEF Gate!GoesOut, Gate!Becomes, phases
  <1>7. ASSUME NEW r \in Request, BrokerTakes(r)
        PROVE  Gate!Taken(r)
    <2>1. \A q \in Request \ {r} : PhaseOf(q)' = PhaseOf(q)
      BY <1>7, PhaseKept DEF BrokerTakes, Types
    <2>2. r \in Mutations /\ phases[r] = "out" /\ PhaseOf(r)' = "taken"
      BY <1>7 DEF BrokerTakes, phases, PhaseOf, Types
    <2> QED  BY <2>1, <2>2, OnePhase DEF Gate!Taken, Gate!Becomes, phases
  <1>8. ASSUME NEW r \in Request,
               \/ Returns(r) \/ ReadFails(r) \/ MutationRefused(r)
               \/ MutationInDoubt(r) \/ ReadThrottled(r)
        PROVE  Gate!Answered(r)
    <2>1. taken \subseteq Mutations
      BY DEF Types
    <2>2. CASE Returns(r)
      BY <2>1, <2>2, ReleaseIsGate DEF Returns, Ended
    <2>3. CASE ReadFails(r)
      BY <2>1, <2>3, ReleaseIsGate, DelaysAreTimes DEF ReadFails, Again, Ended
    <2>4. CASE MutationRefused(r)
      BY <2>1, <2>4, ReleaseIsGate, DelaysAreTimes DEF MutationRefused, Again, Ended
    <2>5. CASE MutationInDoubt(r)
      BY <2>5, ReleaseIsGate DEF MutationInDoubt
    <2>6. CASE ReadThrottled(r)
      BY <2>1, <2>6, ReleaseIsGate DEF ReadThrottled
    <2> QED  BY <1>8, <2>2, <2>3, <2>4, <2>5, <2>6
  <1>9. ASSUME NEW r \in Request, defer_requests(r)
        PROVE  UNCHANGED phases
    BY <1>9, PhaseKept DEF defer_requests, phases, PhaseOf, Types
  <1> QED
    BY <1>1, <1>2, <1>3, <1>4, <1>5, <1>6, <1>7, <1>8, <1>9 DEF Next, Runs, Gate!Next

(* execute_read and execute_mutation implement the gate for any threads,     *)
(* priorities, budgets and times: ImplementsGate is a theorem of Spec.       *)
THEOREM SchedulerIsGate == Spec => ImplementsGate
  <1>1. Init => Gate!Init
    BY DEF Init, Gate!Init, PhaseOf
  <1>2. IInv /\ [Next]_vars => [Gate!Next]_phases
    BY StepIsGate
  <1> QED  BY <1>1, <1>2, InvHolds, PTL DEF Spec, ImplementsGate, Gate!Spec, phases
=============================================================================
