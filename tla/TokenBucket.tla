----------------------------- MODULE TokenBucket -----------------------------
(***************************************************************************)
(* The token bucket of zxratelimiter: it is filled with a quantum of tokens *)
(* per tick of fillInterval, and whoever takes more than there are goes     *)
(* into its debt and sleeps until the tick that pays for it.                *)
(*                                                                         *)
(* Take and TakeAvailable are atomic, their lock guards all they touch; the *)
(* sleep that follows Take is not.  Time is counted in units of which       *)
(* TimeRange are the range a rate is given for.                             *)
(***************************************************************************)
EXTENDS Sums

CONSTANTS NumUsers,
          TimeRange,     \* the range of time rates are given for
          Rates,         \* tokens per TimeRange
          Capacity,      \* how many tokens the bucket holds
          MaxWait,       \* take's maxWait, 9999 hours
          MaxCount,      \* how many tokens are taken at once
          MaxNow         \* when time ends

ASSUME BucketAssumption ==
    /\ NumUsers \in Nat /\ TimeRange \in Nat \ {0} /\ Rates \subseteq Nat \ {0}
    /\ Capacity \in Nat \ {0} /\ MaxWait \in Nat /\ MaxCount \in Nat /\ MaxNow \in Nat

VARIABLES bucket,     \* its settings and the fields mu guards
          now,        \* since startTime
          waiting,    \* the tokens each user sleeps for, and the tick it sleeps to
          passed      \* the tokens users have gone on with

bucketVars == <<bucket, now, waiting, passed>>

BucketUsers == 1..NumUsers
Awake == [count |-> 0, endTick |-> 0]

-----------------------------------------------------------------------------
(* NewBucketWithRate *)

\* nextQuantum, from 1 on: ten percent more, at least one.
Quanta[i \in Nat] ==
    IF i = 0 THEN 1
    ELSE LET q == Quanta[i - 1] IN IF (q * 11) \div 10 = q THEN q + 1 ELSE (q * 11) \div 10

FillInterval(rate, quantum) == (TimeRange * quantum) \div rate

\* Mutant of Suitable: the first interval of any length will do.
SuitableAtOnce(rate, quantum) == FillInterval(rate, quantum) > 0

\* The rate of the bucket is TimeRange * quantum / fillInterval.  rateMargin is
\* one percent.
Suitable(rate, quantum) ==
    LET fill == FillInterval(rate, quantum)
        diff == TimeRange * quantum - rate * fill
    IN  fill > 0 /\ 100 * diff <= rate * fill

\* The search gives up, and panics, when the quantum gets too large; here after
\* that many steps.
MaxSteps == 30

Steps(rate) == {i \in 0..MaxSteps : Suitable(rate, Quanta[i]) /\ Quanta[i] \in Nat \ {0}}

QuantumFor(rate) == Quanta[CHOOSE i \in Steps(rate) : \A j \in Steps(rate) : i <= j]

NewBucket(rate) ==
    [rate |-> rate, quantum |-> QuantumFor(rate), fillInterval |-> FillInterval(rate, QuantumFor(rate)),
     available |-> 0, latestTick |-> 0]

BucketInit ==
    /\ \E rate \in Rates : Steps(rate) # {} /\ bucket = NewBucket(rate)
    /\ now = 0
    /\ waiting = [u \in BucketUsers |-> Awake]
    /\ passed = 0

-----------------------------------------------------------------------------
CurrentTick == now \div bucket.fillInterval

\* Mutant of Adjusted: what was taken on credit is forgotten.
AdjustedFromZero ==
    LET available == (IF bucket.available < 0 THEN 0 ELSE bucket.available)
                     + (CurrentTick - bucket.latestTick) * bucket.quantum
    IN  IF available >= Capacity THEN Capacity ELSE available

\* adjustavailableTokens
Adjusted ==
    LET available == bucket.available + (CurrentTick - bucket.latestTick) * bucket.quantum
    IN  IF available >= Capacity THEN Capacity ELSE available

BucketWith(available) ==
    [rate |-> bucket.rate, quantum |-> bucket.quantum, fillInterval |-> bucket.fillInterval,
     available |-> available, latestTick |-> CurrentTick]

\* (debt - 1) / quantum + 1 ticks pay for a debt.  Go rounds towards zero: with
\* a debt of zero that is one tick, unless the quantum is 1.
TicksFor(debt) ==
    IF debt = 0 THEN IF bucket.quantum = 1 THEN 0 ELSE 1
    ELSE (debt - 1) \div bucket.quantum + 1

EndTick(count) == CurrentTick + TicksFor(count - Adjusted)

WaitTime(count) == EndTick(count) * bucket.fillInterval - now

\* Wait finds more tokens than it needs.
TakeNow(count) ==
    /\ Adjusted - count > 0
    /\ bucket' = BucketWith(Adjusted - count)
    /\ passed' = passed + count
    /\ UNCHANGED waiting

\* The tick that pays for it has come already, or the user sleeps.
TakeOnCredit(u, count) ==
    /\ Adjusted - count <= 0 /\ WaitTime(count) <= MaxWait
    /\ bucket' = BucketWith(Adjusted - count)
    /\ IF WaitTime(count) > 0
       THEN /\ waiting' = [waiting EXCEPT ![u] = [count |-> count, endTick |-> EndTick(count)]]
            /\ UNCHANGED passed
       ELSE /\ passed' = passed + count
            /\ UNCHANGED waiting

\* The wait would be too long: nothing is taken, and Take, which does not look
\* at take's second result, lets the user go on.
TakeNothing(count) ==
    /\ Adjusted - count <= 0 /\ WaitTime(count) > MaxWait
    /\ bucket' = BucketWith(Adjusted)
    /\ UNCHANGED <<waiting, passed>>

\* Wait(count)
WaitFor(u, count) ==
    /\ waiting[u] = Awake
    /\ TakeNow(count) \/ TakeOnCredit(u, count) \/ TakeNothing(count)
    /\ UNCHANGED now

TakeAvailable(count) ==
    /\ LET taken == IF Adjusted <= 0 THEN 0 ELSE IF count > Adjusted THEN Adjusted ELSE count
       IN  bucket' = BucketWith(Adjusted - taken) /\ passed' = passed + taken
    /\ UNCHANGED <<now, waiting>>

\* time.Sleep ends, in time or later.
SleepEnds(u) ==
    /\ waiting[u] # Awake /\ now >= waiting[u].endTick * bucket.fillInterval
    /\ waiting' = [waiting EXCEPT ![u] = Awake]
    /\ passed' = passed + waiting[u].count
    /\ UNCHANGED <<bucket, now>>

BucketTick ==
    /\ now < MaxNow /\ now' = now + 1
    /\ UNCHANGED <<bucket, waiting, passed>>

BucketNext ==
    \/ \E u \in BucketUsers, count \in 1..MaxCount : WaitFor(u, count) \/ TakeAvailable(count)
    \/ \E u \in BucketUsers : SleepEnds(u)
    \/ BucketTick

BucketSpec == BucketInit /\ [][BucketNext]_bucketVars

-----------------------------------------------------------------------------
(* The bucket is set for a rate within the margin of what was asked for.    *)
BucketOK ==
    /\ bucket.rate \in Nat \ {0} /\ bucket.quantum \in Nat \ {0} /\ bucket.fillInterval \in Nat \ {0}
    /\ 100 * (TimeRange * bucket.quantum) <= 101 * (bucket.rate * bucket.fillInterval)
    /\ bucket.available \in Int /\ bucket.available <= Capacity
    /\ bucket.latestTick \in Nat /\ bucket.latestTick <= CurrentTick
    /\ now \in Nat /\ passed \in Nat
    /\ waiting \in [BucketUsers -> [count : Nat, endTick : Nat]]

(* Users have never gone on with more tokens than the rate, and its margin  *)
(* of one percent, allows for the time that has passed -- however they take *)
(* tokens, on credit or not, and however long they oversleep.  Those whom   *)
(* TakeNothing lets go have taken none.                                     *)
NeverAheadOfRate == 100 * (passed * TimeRange) <= 101 * (bucket.rate * now)

\* The tokens that are paid for by a tick.
DueBy(tick) == [u \in BucketUsers |-> IF waiting[u].endTick <= tick THEN waiting[u].count ELSE 0]

\* What is taken and what is left was filled in; and what will have passed by
\* any later tick, those who still sleep included, will have been by then.
TokensAccounted ==
    /\ passed + Sum([u \in BucketUsers |-> waiting[u].count], NumUsers) + bucket.available
           <= bucket.latestTick * bucket.quantum
    /\ \A tick \in Nat : tick >= CurrentTick =>
           passed + Sum(DueBy(tick), NumUsers) <= tick * bucket.quantum

=============================================================================
