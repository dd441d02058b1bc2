------------------------- MODULE KisRequestScheduler -------------------------
(***************************************************************************)
(* The one scheduler every KIS request of the process goes through: a      *)
(* priority queue for the turn, a budget per request class, the spacing    *)
(* between requests, and the broker-wide cooldown after a refusal.         *)
(*                                                                         *)
(* A request is a calling thread.  One account and endpoint: a READ and a  *)
(* MUTATION bucket.  Times are kept as the ticks still to go.              *)
(***************************************************************************)
EXTENDS Naturals, FiniteSets

CONSTANTS Request,         \* calling threads
          Kind,            \* Kind[r]: "READ", "EXIT" or "ENTRY"
          Priority,        \* Priority[r]: RequestPriority
          Capacity,        \* BudgetPolicy.capacity
          Reserve,         \* uncertain_protective_reserve
          Window,          \* BudgetPolicy.window_seconds
          Spacing,         \* min_request_spacing_seconds
          MutationSpacing, \* min_mutation_spacing_seconds
          Cooldown,        \* retry_after_seconds of a refusal
          Backoff,         \* backoff_seconds
          MaxAttempts,     \* max_read_attempts, max_confirmed_mutation_attempts
          Verified,        \* KIS_MUTATION_BUDGET_VERIFIED
          Watched          \* the class whose bursts are counted

ASSUME Callers == /\ Kind \in [Request -> {"READ", "EXIT", "ENTRY"}]
                  /\ Priority \in [Request -> Nat]
                  /\ Watched \in {"READ", "MUTATION"}

ASSUME Limits == /\ {Capacity, Window} \subseteq Nat \ {0}
                 /\ {Reserve, Spacing, MutationSpacing, Cooldown, Backoff, MaxAttempts} \subseteq Nat

VARIABLES pc,        \* where each thread is
          ahead,     \* equally urgent waiters queued before it
          attempt,   \* attempt number of its loop
          due,       \* ticks until it wakes up
          bucket,    \* _buckets
          cool,      \* _requests_not_before_at
          gap,       \* _last_request_started_at + spacing
          mutGap,    \* _last_mutation_started_at + spacing
          taken,     \* the broker: mutations it has taken on
          recent,    \* history: starts of the watched class by age in ticks
          passed,    \* history: less urgent requests started while it waited
          slipped    \* history: requests started in this cooldown

vars == <<pc, ahead, attempt, due, bucket, cool, gap, mutGap, taken, recent, passed, slipped>>
history == <<recent, passed, slipped>>

Class == {"READ", "MUTATION"}
ClassOf(r) == IF Kind[r] = "READ" THEN "READ" ELSE "MUTATION"
Mutations == {r \in Request : ClassOf(r) = "MUTATION"}

Lesser(a, b) == IF a < b THEN a ELSE b
Larger(a, b) == IF a > b THEN a ELSE b

_new_bucket(k) ==
    [made |-> TRUE, reset |-> Window, known |-> k = "READ",
     left |-> IF k = "READ" THEN Capacity ELSE Lesser(Capacity, Reserve)]

(* Variant: a bucket refills whenever it is looked at.                       *)
BucketAlwaysFull(k) == _new_bucket(k)

(* _bucket: made when first asked for, refilled when its window is over.     *)
_bucket(k) ==
    LET b == bucket[k] IN
    IF ~b.made THEN _new_bucket(k)
    ELSE IF b.reset > 0 THEN b
    ELSE [b EXCEPT !.reset = Window,
                   !.left = IF b.known THEN Capacity ELSE Lesser(Capacity, Reserve)]

Init ==
    /\ pc = [r \in Request |-> "idle"] /\ ahead = [r \in Request |-> {}]
    /\ attempt = [r \in Request |-> 1] /\ due = [r \in Request |-> 0]
    /\ bucket = [k \in Class |-> [made |-> FALSE, reset |-> 0, known |-> FALSE, left |-> 0]]
    /\ cool = 0 /\ gap = 0 /\ mutGap = 0
    /\ recent = [age \in 0..Window-1 |-> 0]
    /\ passed = [r \in Request |-> 0] /\ slipped = 0 /\ taken = {}

timers == <<cool, gap, mutGap>>

(* configure_verified_mutation_budget: once per bucket, never a refill.      *)
configure_verified_mutation_budget ==
    /\ Verified /\ ~bucket["MUTATION"].made
    /\ bucket' = [bucket EXCEPT !["MUTATION"] =
                    [made |-> TRUE, reset |-> Window, known |-> TRUE, left |-> Capacity]]
    /\ UNCHANGED <<pc, ahead, attempt, due, timers, taken, history>>

-----------------------------------------------------------------------------
Queued == {r \in Request : pc[r] = "queued"}
HasTurn == {"turn", "spacing", "sending"}
Active == {r \in Request : pc[r] \in HasTurn}

Queues(r) ==
    /\ pc' = [pc EXCEPT ![r] = "queued"]
    /\ ahead' = [ahead EXCEPT ![r] = {q \in Queued : Priority[q] = Priority[r]}]
    /\ UNCHANGED <<attempt, due, bucket, timers, taken, history>>

Asks(r) == pc[r] = "idle" /\ Queues(r)

(* Variant: whoever wakes up first takes the turn.                           *)
AnyWaiter(r) == pc[r] = "queued"

(* The head of the heap.                                                     *)
First(r) ==
    /\ pc[r] = "queued"
    /\ \A q \in Queued : \/ Priority[r] < Priority[q]
                         \/ Priority[r] = Priority[q] /\ q \notin ahead[r]

_acquire_turn(r) ==
    /\ Active = {} /\ First(r)
    /\ pc' = [pc EXCEPT ![r] = "turn"]
    /\ ahead' = [q \in Request |-> ahead[q] \ {r}]
    /\ passed' = [passed EXCEPT ![r] = 0]
    /\ UNCHANGED <<attempt, due, bucket, timers, taken, recent, slipped>>

(* New entries need a known budget; everybody needs some of it left.         *)
require_available(r) ==
    LET b == _bucket(ClassOf(r)) IN (Kind[r] = "ENTRY" => b.known) /\ b.left > 0

(* Variant: the cooldown does not hold back mutations.                       *)
RequiredForReads(r) ==
    IF r \in Mutations THEN Larger(gap, mutGap) ELSE Larger(cool, gap)

(* required_at of _wait_for_request_spacing, read without the lock.          *)
required_at(r) ==
    Larger(Larger(cool, gap), IF r \in Mutations THEN mutGap ELSE 0)

Pays(r) ==
    /\ pc[r] = "turn" /\ require_available(r)
    /\ bucket' = [bucket EXCEPT ![ClassOf(r)] = [_bucket(ClassOf(r)) EXCEPT !.left = @ - 1]]
    /\ pc' = [pc EXCEPT ![r] = "spacing"]
    /\ due' = [due EXCEPT ![r] = required_at(r)]
    /\ UNCHANGED <<ahead, attempt, timers, taken, history>>

_wait_for_request_spacing(r) ==
    /\ pc[r] = "spacing" /\ due[r] = 0
    /\ pc' = [pc EXCEPT ![r] = "sending"]
    /\ gap' = Spacing
    /\ mutGap' = IF r \in Mutations THEN MutationSpacing ELSE mutGap
    /\ recent' = IF ClassOf(r) = Watched THEN [recent EXCEPT ![0] = @ + 1] ELSE recent
    /\ passed' = [q \in Request |->
                    IF pc[q] = "queued" /\ Priority[q] < Priority[r]
                    THEN Lesser(2, passed[q] + 1) ELSE passed[q]]
    /\ slipped' = IF cool > 0 THEN Lesser(2, slipped + 1) ELSE slipped
    /\ UNCHANGED <<ahead, attempt, due, bucket, cool, taken>>

Delay(r) == IF attempt[r] = 1 THEN Backoff ELSE 2 * Backoff

(* The end of one attempt: the turn is released whatever happened.           *)
_release_turn(r, to, delay) ==
    /\ pc' = [pc EXCEPT ![r] = to]
    /\ due' = [due EXCEPT ![r] = IF to = "backoff" THEN delay ELSE 0]
    /\ attempt' = [attempt EXCEPT ![r] = IF to = "backoff" THEN @ + 1 ELSE 1]
    /\ taken' = taken \ {r}
    /\ UNCHANGED <<ahead, gap, mutGap, recent, passed>>

Ended(r) == IF r \in Mutations THEN "done" ELSE "idle"
Again(r) == IF attempt[r] < MaxAttempts THEN "backoff" ELSE Ended(r)

(* No budget: given up at once; retry_if only lets network errors through.   *)
TurnedDown(r) ==
    /\ pc[r] = "turn" /\ ~require_available(r)
    /\ bucket' = [bucket EXCEPT ![ClassOf(r)] = _bucket(ClassOf(r))]
    /\ _release_turn(r, Ended(r), 0)
    /\ UNCHANGED <<cool, slipped>>

(* The broker: a mutation is taken on, whatever becomes of the answer.       *)
BrokerTakes(r) ==
    /\ pc[r] = "sending" /\ r \in Mutations /\ r \notin taken
    /\ taken' = taken \cup {r}
    /\ UNCHANGED <<pc, ahead, attempt, due, bucket, timers, history>>

Returns(r) ==
    /\ pc[r] = "sending" /\ (r \in Mutations => r \in taken)
    /\ _release_turn(r, Ended(r), 0)
    /\ UNCHANGED <<bucket, cool, slipped>>

(* A network error; the enclosing read loop tries again.                     *)
ReadFails(r) ==
    /\ pc[r] = "sending" /\ r \notin Mutations
    /\ _release_turn(r, Again(r), Delay(r))
    /\ UNCHANGED <<bucket, cool, slipped>>

(* defer_requests, and a new cooldown to count in.                           *)
Defer == cool' = Larger(cool, Cooldown) /\ slipped' = 0

(* A refusal confirmed to come before acceptance: KisRateLimitError.         *)
MutationRefused(r) ==
    /\ pc[r] = "sending" /\ r \in Mutations /\ r \notin taken
    /\ Defer
    /\ _release_turn(r, Again(r), Larger(Cooldown, Delay(r)))
    /\ UNCHANGED bucket

(* Variant: a mutation that may have arrived is tried again.                 *)
MutationRetried(r) ==
    /\ pc[r] = "sending" /\ r \in Mutations
    /\ _release_turn(r, IF Again(r) = "backoff" THEN "backoff" ELSE "doubt", Delay(r))
    /\ UNCHANGED <<bucket, cool, slipped>>

(* Any other exception of a mutation is passed on at once.                   *)
MutationInDoubt(r) ==
    /\ pc[r] = "sending" /\ r \in Mutations
    /\ _release_turn(r, "doubt", 0)
    /\ UNCHANGED <<bucket, cool, slipped>>

(* A throttled read is recognised when the response is parsed, after the     *)
(* turn has been given back.                                                 *)
ReadThrottled(r) ==
    /\ pc[r] = "sending" /\ r \notin Mutations
    /\ _release_turn(r, "parsing", 0)
    /\ UNCHANGED <<bucket, cool, slipped>>

defer_requests(r) ==
    /\ pc[r] = "parsing" /\ Defer
    /\ pc' = [pc EXCEPT ![r] = "idle"]
    /\ UNCHANGED <<ahead, attempt, due, bucket, gap, mutGap, taken, recent, passed>>

Wakes(r) == pc[r] = "backoff" /\ due[r] = 0 /\ Queues(r)

Down(n) == IF n > 0 THEN n - 1 ELSE 0

Tick ==
    /\ due' = [r \in Request |-> Down(due[r])]
    /\ bucket' = [k \in Class |-> [bucket[k] EXCEPT !.reset = Down(@)]]
    /\ cool' = Down(cool) /\ gap' = Down(gap) /\ mutGap' = Down(mutGap)
    /\ recent' = [age \in 0..Window-1 |-> IF age = 0 THEN 0 ELSE recent[age - 1]]
    /\ slipped' = IF cool > 1 THEN slipped ELSE 0
    /\ UNCHANGED <<pc, ahead, attempt, taken, passed>>

Runs(r) ==
    \/ _acquire_turn(r) \/ Pays(r) \/ TurnedDown(r) \/ _wait_for_request_spacing(r)
    \/ BrokerTakes(r) \/ Returns(r) \/ ReadFails(r) \/ MutationRefused(r) \/ MutationInDoubt(r)
    \/ ReadThrottled(r) \/ defer_requests(r) \/ Wakes(r)

Next ==
    \/ configure_verified_mutation_budget \/ Tick
    \/ \E r \in Request : Asks(r) \/ Runs(r)

Spec == Init /\ [][Next]_vars

(* Threads run, the broker answers, and time passes.                         *)
LiveSpec == Spec /\ WF_vars(Tick) /\ \A r \in Request : WF_vars(Runs(r))

-----------------------------------------------------------------------------
PhaseOf(r) ==
    IF pc[r] = "sending" THEN IF r \in taken THEN "taken" ELSE "out"
    ELSE IF pc[r] = "queued" THEN "waiting"
    ELSE IF pc[r] \in {"turn", "spacing"} THEN "served"
    ELSE IF pc[r] = "done" THEN "over"
    ELSE IF pc[r] = "doubt" THEN "doubt" ELSE "idle"

Gate == INSTANCE RequestGate WITH phase <- [r \in Request |-> PhaseOf(r)]

(* execute_read and execute_mutation implement the gate: one request at a    *)
(* time, the most urgent first, and a mutation the broker has taken on, or   *)
(* may have, is not sent again.                                              *)
ImplementsGate == Gate!Spec

(* At most one less urgent request starts while a request waits, the one     *)
(* that had the turn when it came: reads do not hold up an exit.             *)
AtMostOneAhead == \A r \in Request : passed[r] <= 1

(* The cooldown stops every class: at most one request starts in it, the one *)
(* that had read _requests_not_before_at before the refusal was parsed.      *)
CooldownHolds == slipped <= 1

(* The starts of the watched class in the last n ticks, told apart by their   *)
(* age and a number.                                                         *)
Starts(n) == UNION {{age} \X (1 .. recent[age]) : age \in 0 .. n - 1}

(* Whatever the interleaving of refills and sleeps, no stretch of a window's *)
(* length sees more than two budgets: a request is paid for in _bucket's     *)
(* window and starts, later, out of _wait_for_request_spacing.               *)
BurstBounded == Cardinality(Starts(Window)) <= 2 * Capacity

(* What the docstring of defer_requests says: no request at all.             *)
CooldownKept == slipped = 0

(* An exit is answered or given up, however many reads there are.            *)
ExitsGetThrough ==
    \A r \in Request : Kind[r] = "EXIT" => (pc[r] = "queued" ~> pc[r] \in {"done", "doubt"})
=============================================================================
