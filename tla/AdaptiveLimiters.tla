-------------------------- MODULE AdaptiveLimiters --------------------------
(***************************************************************************)
(* The two limiters that watch how much they are used: AdaptiveQPS of       *)
(* ratelimiter, which asks its resource for what it thinks it wants, and    *)
(* AdaptiveQPS of zxratelimiter, in front of a token bucket.                *)
(*                                                                         *)
(* The first records a use in a goroutine that sends to its loop; when its  *)
(* users pass is the business of QPSRateLimiter.  The second records it     *)
(* without a lock, while its loop clears old uses: a step loads the slice,  *)
(* a later one stores what it made of it.  TimeRange is the second.         *)
(***************************************************************************)
EXTENDS TokenBucket, FiniteSets, Sequences

CONSTANTS WinSize,     \* the window, in seconds
          MaxUses      \* how many uses are recorded at a time

ASSUME WindowAssumption == WinSize \in Nat /\ MaxUses \in Nat

VARIABLES variant,     \* "qps" or "bucket"
          times,       \* when the limiter was used, as far as it remembers
          entering,    \* the use each user is recording, or Idle
          loop,        \* where run() is
          lastWants,   \* a fraction; 0 / 0 is not a number
          demand       \* what the resource asks the server for

statVars == <<variant, times, entering, loop, lastWants, demand>>
vars == <<bucketVars, statVars>>

Idle == [at |-> "idle"]
Select == [at |-> "select"]
Closed == [at |-> "closed"]
Panicked == [at |-> "panicked"]
Clearing(copy) == [at |-> "clear", copy |-> copy]

NewStatistics ==
    /\ times = <<>> /\ entering = [u \in BucketUsers |-> Idle]
    /\ loop = Select
    /\ lastWants = [num |-> -1, den |-> 1]

NewAdaptiveQPS == variant = "qps" /\ NewStatistics

NewAdaptiveBucket == variant = "bucket" /\ NewStatistics

Init ==
    /\ BucketInit
    /\ NewAdaptiveQPS \/ NewAdaptiveBucket
    /\ demand = [num |-> 1, den |-> 1]

Running == loop # Panicked

-----------------------------------------------------------------------------
(* The statistics. *)

Repeat(t, n) == [i \in 1..n |-> t]

Recent(t) == now - t < WinSize * TimeRange

\* Clear looks for the first recent use by halving: right if they are in order.
Live(s) ==
    LET search[p \in (0..Len(s)) \X (0..Len(s))] ==
            LET h == (p[1] + p[2]) \div 2
            IN  IF p[1] >= p[2] THEN p[1]
                ELSE IF Recent(s[h + 1]) THEN search[<<p[1], h>>] ELSE search[<<h + 1, p[2]>>]
    IN  SubSeq(s, search[<<0, Len(s)>>] + 1, Len(s))

\* The uses of a second, the current one being second 0.
Frequency(s, i) == Cardinality({k \in 1..Len(s) : (now - s[k]) \div TimeRange = i})

\* Mutant of Weight: the oldest second counts for nothing.
WeightFromZero(i) == WinSize - i - 1

Weight(i) == WinSize - i

QPSWants(s) ==
    [num |-> Sum([k \in 1..WinSize |-> Frequency(s, k - 1) * Weight(k - 1)], WinSize),
     den |-> (Len(s) * (Len(s) + 1)) \div 2]

\* The busiest second.
BucketWants(s) ==
    LET counts == {Frequency(s, i) : i \in 0..(WinSize - 1)} \cup {0}
    IN  [num |-> CHOOSE n \in counts : \A m \in counts : m <= n, den |-> 1]

-----------------------------------------------------------------------------
(* AdaptiveQPS of ratelimiter *)

\* Wait starts the goroutine that sends the time.
Enter(u) ==
    /\ variant = "qps" /\ Running /\ entering[u] = Idle
    /\ entering' = [entering EXCEPT ![u] = [at |-> "sending", time |-> now]]
    /\ UNCHANGED <<bucketVars, variant, times, loop, lastWants, demand>>

Record(u) ==
    /\ variant = "qps" /\ loop = Select /\ entering[u] # Idle /\ Len(times) < MaxUses
    /\ times' = Append(times, entering[u].time)
    /\ entering' = [entering EXCEPT ![u] = Idle]
    /\ UNCHANGED <<bucketVars, variant, loop, lastWants, demand>>

\* resource.Ask refuses what is not positive, as far as it can be compared.
Refused(wants) == wants.den > 0 /\ wants.num <= 0

\* The ticker: GetWants and Ask.
AskForWants ==
    /\ variant = "qps" /\ loop = Select
    /\ times' = Live(times)
    /\ lastWants' = QPSWants(times')
    /\ demand' = IF Refused(lastWants') THEN demand ELSE lastWants'
    /\ UNCHANGED <<bucketVars, variant, entering, loop>>

Close ==
    /\ variant = "qps" /\ loop = Select /\ loop' = Closed
    /\ UNCHANGED <<bucketVars, variant, times, entering, lastWants, demand>>

\* A send on the closed channel panics, and the process ends.
SendToClosed ==
    /\ loop = Closed /\ \E u \in BucketUsers : entering[u] # Idle
    /\ loop' = Panicked
    /\ UNCHANGED <<bucketVars, variant, times, entering, lastWants, demand>>

-----------------------------------------------------------------------------
(* AdaptiveQPS of zxratelimiter.  Nobody can close it. *)

\* Wait or TakeAvailable loads the slice that it appends its uses to,
LoadTimes(u) ==
    /\ variant = "bucket" /\ entering[u] = Idle /\ waiting[u] = Awake
    /\ \E count \in 1..MaxCount :
          /\ Len(times) + count <= MaxUses
          /\ entering' = [entering EXCEPT ![u] = [at |-> "storing", uses |-> times \o Repeat(now, count),
                                                  count |-> count]]
    /\ UNCHANGED <<bucketVars, variant, times, loop, lastWants, demand>>

\* stores it,
StoreTimes(u) ==
    /\ entering[u].at = "storing"
    /\ times' = entering[u].uses
    /\ entering' = [entering EXCEPT ![u] = [at |-> "taking", count |-> entering[u].count]]
    /\ UNCHANGED <<bucketVars, variant, loop, lastWants, demand>>

\* and goes on to the bucket.
TakeTokens(u) ==
    /\ entering[u].at = "taking"
    /\ WaitFor(u, entering[u].count) \/ TakeAvailable(entering[u].count)
    /\ entering' = [entering EXCEPT ![u] = Idle]
    /\ UNCHANGED <<variant, times, loop, lastWants, demand>>

\* The timer: GetWants loads the slice, and stores what Clear leaves of it.
LoadToClear ==
    /\ variant = "bucket" /\ loop = Select
    /\ loop' = Clearing(times)
    /\ UNCHANGED <<bucketVars, variant, times, entering, lastWants, demand>>

KeepLastWants ==
    /\ loop.at = "clear"
    /\ times' = Live(loop.copy) /\ lastWants' = BucketWants(times')
    /\ loop' = Select
    /\ UNCHANGED <<bucketVars, variant, entering, demand>>

Wake(u) == SleepEnds(u) /\ UNCHANGED statVars
ClockTick == Running /\ BucketTick /\ UNCHANGED statVars

Next ==
    \/ \E u \in BucketUsers : \/ Enter(u) \/ Record(u)
                              \/ LoadTimes(u) \/ StoreTimes(u) \/ TakeTokens(u) \/ Wake(u)
    \/ AskForWants \/ Close \/ SendToClosed \/ LoadToClear \/ KeepLastWants \/ ClockTick

Spec == Init /\ [][Next]_vars

-----------------------------------------------------------------------------
(* The limiter remembers no use before it happened, and no user sleeps      *)
(* while it records one.                                                    *)
TypeOK ==
    /\ BucketOK
    /\ variant \in {"qps", "bucket"}
    /\ Len(times) <= MaxUses /\ \A k \in 1..Len(times) : times[k] \in 0..now
    /\ \A u \in BucketUsers : entering[u] # Idle => waiting[u] = Awake
    /\ loop.at \in {"select", "clear", "closed", "panicked"}
    /\ lastWants.den \in Nat /\ demand.den \in Nat

InOrder(s) == \A k \in 1..Len(s) : k > 1 => s[k - 1] <= s[k]

(* Whenever the limiter of a resource has been used within its window, and  *)
(* the uses were recorded in their order, which the goroutines that send    *)
(* them do not promise, the demand it works out is positive, so that Ask    *)
(* accepts it.                                                              *)
UseIsDemanded ==
    [][AskForWants /\ InOrder(times) /\ (\E k \in 1..Len(times) : Recent(times[k]))
           => demand' = lastWants' /\ lastWants'.num > 0]_vars

(* The demand of a resource is a positive number at all times: Ask returns  *)
(* ErrInvalidWants, "wants must be > 0.0", for any other.  The code does    *)
(* not keep it: see the findings.                                           *)
DemandIsPositive == demand.den > 0 /\ demand.num > 0

=============================================================================
