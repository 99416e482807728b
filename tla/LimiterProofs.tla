---------------------------- MODULE LimiterProofs ----------------------------
(***************************************************************************)
(* The client's limiters, for any number of users.                          *)
(*                                                                         *)
(* The token bucket: nobody gets ahead of its rate, whatever rate it can be *)
(* set for and whatever counts are taken.  That is not inductive: whoever   *)
(* sleeps has been promised tokens.  What is taken has to be within what    *)
(* was filled in by the tick it is promised for (TokensAccounted), and a    *)
(* new promise is later than what it adds up to.  The adaptive limiter in   *)
(* front of the bucket does nothing to it that the bucket does not offer.   *)
(*                                                                         *)
(* The adaptive limiters' statistics: Live's halving, a recursive function, *)
(* finds where recent uses begin, by induction on the length of the stretch *)
(* it searches; so a resource that is used is asked for.                    *)
(*                                                                         *)
(* The QPS limiter: the rate it offers is kept.  The invariant says for a   *)
(* limiter with any capacity how far its cycle has come: the excess it may  *)
(* have offered is what the rest of the cycle gives back (WithinBudget).    *)
(***************************************************************************)
EXTENDS AdaptiveLimiters, QPSRateLimiter, SumTheorems, SequenceTheorems, FiniteSetTheorems

IInv == BucketOK /\ TokensAccounted

\* The tokens users have been promised and sleep for.
Promised == [u \in BucketUsers |-> waiting[u].count]

-----------------------------------------------------------------------------
(* Products with a natural number keep an order.                            *)
LEMMA TimesMonotone ==
    ASSUME NEW a \in Int, NEW b \in Int, NEW c \in Nat, a <= b
    PROVE  a * c <= b * c
<1>1. (b - a) * c >= 0
    OBVIOUS
<1>2. (b - a) * c = b * c - a * c
    OBVIOUS
<1> QED BY <1>1, <1>2

(* The quotient and its rest.                                               *)
LEMMA Quotient ==
    ASSUME NEW a \in Int, NEW f \in Nat \ {0}
    PROVE  a \div f \in Int /\ f * (a \div f) <= a /\ a < f * (a \div f) + f
OBVIOUS

LEMMA QuotientMonotone ==
    ASSUME NEW a \in Int, NEW b \in Int, NEW f \in Nat \ {0}, a <= b
    PROVE  a \div f <= b \div f
OBVIOUS

LEMMA QuotientNat ==
    ASSUME NEW a \in Nat, NEW f \in Nat \ {0}
    PROVE  a \div f \in Nat
OBVIOUS

LEMMA QuotientOfMultiple ==
    ASSUME NEW t \in Nat, NEW f \in Nat \ {0}, NEW a \in Nat, t * f <= a
    PROVE  t <= a \div f
<1>1. a < f * (a \div f) + f /\ a \div f \in Int
    BY Quotient
<1>2. SUFFICES ASSUME a \div f + 1 <= t PROVE FALSE
    BY <1>1
<1>3. (a \div f + 1) * f <= t * f
    BY <1>1, <1>2, TimesMonotone
<1>4. (a \div f + 1) * f = f * (a \div f) + f
    BY <1>1
<1> QED BY <1>1, <1>3, <1>4

(* Changing one value of a list changes its sum by as much.                 *)
LEMMA SumChange ==
    ASSUME NEW n \in Nat, NEW f \in [1..n -> Int], NEW g \in [1..n -> Int], NEW c \in 1..n,
           \A i \in 1..n : i # c => g[i] = f[i]
    PROVE  Sum(g, n) = Sum(f, n) + g[c] - f[c]
<1> DEFINE d == [i \in 1..n |-> g[i] - f[i]]
<1>1. d \in [1..n -> Int] /\ (\A i \in 1..n : g[i] = f[i] + d[i]) /\ \A i \in 1..n : i # c => d[i] = 0
    OBVIOUS
<1>2. d[c] = g[c] - f[c]
    OBVIOUS
<1> HIDE DEF d
<1>3. Sum(d, n) = d[c]
    BY <1>1, SumPoint
<1>4. Sum(g, n) = Sum(f, n) + Sum(d, n)
    BY <1>1, SumAdd
<1>5. Sum(f, n) \in Int /\ f[c] \in Int /\ g[c] \in Int
    BY SumInt
<1> QED BY <1>2, <1>3, <1>4, <1>5

LEMMA SumOfUsersChanges ==
    ASSUME NEW u \in BucketUsers
    PROVE  \A f, g \in [1..NumUsers -> Int] :
              (\A v \in 1..NumUsers : v # u => g[v] = f[v])
                  => Sum(g, NumUsers) = Sum(f, NumUsers) + g[u] - f[u]
BY BucketAssumption, SumChange DEF BucketUsers

(* A list that is below another has the lesser sum.                         *)
LEMMA SumMonotone ==
    ASSUME NEW n \in Nat, NEW f \in [1..n -> Int], NEW g \in [1..n -> Int],
           \A i \in 1..n : f[i] <= g[i]
    PROVE  Sum(f, n) <= Sum(g, n)
<1> DEFINE d == [i \in 1..n |-> g[i] - f[i]]
<1>1. d \in [1..n -> Int] /\ (\A i \in 1..n : g[i] = f[i] + d[i]) /\ \A i \in 1..n : d[i] >= 0
    OBVIOUS
<1> HIDE DEF d
<1>2. Sum(d, n) >= 0
    BY <1>1, SumNonNegative
<1>3. Sum(g, n) = Sum(f, n) + Sum(d, n)
    BY <1>1, SumAdd
<1>4. Sum(f, n) \in Int /\ Sum(d, n) \in Int
    BY <1>1, SumInt
<1> QED BY <1>2, <1>3, <1>4

-----------------------------------------------------------------------------
(* The sum of zeros.                                                        *)
LEMMA SumZero ==
    ASSUME NEW n \in Nat
    PROVE  Sum([i \in 1..n |-> 0], n) = 0
<1> DEFINE z == [i \in 1..n |-> 0]
<1>1. z \in [1..n -> Int] /\ \A i \in 1..n : z[i] = 0 * z[i]
    OBVIOUS
<1> HIDE DEF z
<1>2. Sum(z, n) = 0 * Sum(z, n) /\ Sum(z, n) \in Int
    BY <1>1, SumScale, SumInt
<1>3. Sum(z, n) = 0
    BY <1>2
<1> QED BY <1>3 DEF z

(* The ticks that pay for a debt cover it.                                  *)
LEMMA TicksPay ==
    ASSUME bucket.quantum \in Nat \ {0}, NEW debt \in Nat
    PROVE  TicksFor(debt) \in Nat /\ debt <= TicksFor(debt) * bucket.quantum
<1>1. CASE debt = 0
    BY <1>1 DEF TicksFor
<1>2. CASE debt # 0
    <2> DEFINE q == bucket.quantum
               t == (debt - 1) \div q
    <2>1. q \in Nat \ {0} /\ debt - 1 \in Nat
        BY <1>2
    <2> HIDE DEF q
    <2>2. t \in Nat /\ debt - 1 < q * t + q
        BY <2>1, Quotient, QuotientNat
    <2>3. TicksFor(debt) = t + 1
        BY <1>2 DEF TicksFor, q
    <2> HIDE DEF t
    <2>4. (t + 1) * q = q * t + q
        BY <2>1, <2>2
    <2>5. debt <= (t + 1) * q
        <3>1. q * t + q \in Int
            BY <2>1, <2>2
        <3> QED BY <2>2, <2>4, <3>1
    <2> QED BY <2>2, <2>3, <2>5 DEF q
<1> QED BY <1>1, <1>2

(* What the invariant says of the sums.                                     *)
LEMMA PromisedTypes ==
    ASSUME IInv
    PROVE  /\ Promised \in [1..NumUsers -> Int] /\ Sum(Promised, NumUsers) \in Int
           /\ \A u \in 1..NumUsers : Promised[u] = waiting[u].count /\ Promised[u] >= 0
           /\ \A tick \in Nat :
                 /\ DueBy(tick) \in [1..NumUsers -> Int]
                 /\ Sum(DueBy(tick), NumUsers) \in Int
                 /\ Sum(DueBy(tick), NumUsers) >= 0
                 /\ Sum(DueBy(tick), NumUsers) <= Sum(Promised, NumUsers)
<1> USE BucketAssumption
<1>0. \A u \in 1..NumUsers : waiting[u].count \in Nat
    BY DEF IInv, BucketOK, BucketUsers
<1>1. Promised \in [1..NumUsers -> Int]
    BY <1>0 DEF Promised, BucketUsers
<1>2. \A u \in 1..NumUsers : Promised[u] = waiting[u].count /\ Promised[u] >= 0
    BY <1>0 DEF Promised, BucketUsers
<1>3. ASSUME NEW tick \in Nat
      PROVE  /\ DueBy(tick) \in [1..NumUsers -> Int]
             /\ \A u \in 1..NumUsers : DueBy(tick)[u] >= 0 /\ DueBy(tick)[u] <= Promised[u]
    BY <1>0 DEF Promised, BucketUsers, DueBy
<1>4. ASSUME NEW tick \in Nat
      PROVE  /\ Sum(DueBy(tick), NumUsers) \in Int
             /\ Sum(DueBy(tick), NumUsers) >= 0
             /\ Sum(DueBy(tick), NumUsers) <= Sum(Promised, NumUsers)
    BY <1>1, <1>3, SumInt, SumNonNegative, SumMonotone
<1> QED BY <1>1, <1>2, <1>3, <1>4, SumInt

(* What take and takeAvailable find in the bucket is within what was filled *)
(* in so far, together with all that was taken before.                      *)
LEMMA AdjustedFacts ==
    ASSUME IInv
    PROVE  /\ CurrentTick \in Nat
           /\ Adjusted \in Int /\ Adjusted <= Capacity
           /\ passed + Sum(Promised, NumUsers) + Adjusted <= CurrentTick * bucket.quantum
<1> USE BucketAssumption
<1> DEFINE q == bucket.quantum
           s == Sum(Promised, NumUsers)
<1>1. CurrentTick \in Nat
    BY QuotientNat DEF IInv, BucketOK, CurrentTick
<1>2. /\ q \in Nat /\ bucket.available \in Int /\ bucket.latestTick \in Nat /\ passed \in Nat
      /\ s \in Int
    BY PromisedTypes DEF IInv, BucketOK
<1>3. passed + s + bucket.available <= bucket.latestTick * q
    BY DEF IInv, TokensAccounted, Promised
<1>4. Adjusted \in Int /\ Adjusted <= Capacity
      /\ Adjusted <= bucket.available + (CurrentTick - bucket.latestTick) * q
    BY <1>1, <1>2 DEF Adjusted
<1>5. (CurrentTick - bucket.latestTick) * q = CurrentTick * q - bucket.latestTick * q
    BY <1>1, <1>2
<1> HIDE DEF q, s
<1>6. bucket.latestTick * q \in Int /\ CurrentTick * q \in Int
    BY <1>1, <1>2
<1> QED BY <1>1, <1>2, <1>3, <1>4, <1>5, <1>6 DEF q, s

(* The fields of the bucket after a step.                                   *)
LEMMA BucketParts ==
    ASSUME NEW available
    PROVE  LET b == BucketWith(available)
           IN  /\ b.rate = bucket.rate /\ b.quantum = bucket.quantum
               /\ b.fillInterval = bucket.fillInterval
               /\ b.available = available /\ b.latestTick = CurrentTick
BY DEF BucketWith

(* Tokens that were there, or are paid for by now, may be gone on with.     *)
LEMMA TakenAtOnce ==
    ASSUME IInv, NEW count \in Nat,
           bucket' = BucketWith(Adjusted - count), passed' = passed + count,
           waiting' = waiting, now' = now,
           passed + Sum(Promised, NumUsers) + count <= CurrentTick * bucket.quantum
    PROVE  IInv'
<1> USE BucketAssumption
<1>1. /\ bucket'.rate = bucket.rate /\ bucket'.quantum = bucket.quantum
      /\ bucket'.fillInterval = bucket.fillInterval
      /\ bucket'.available = Adjusted - count /\ bucket'.latestTick = CurrentTick
    BY BucketParts
<1>2. CurrentTick' = CurrentTick
    BY <1>1 DEF CurrentTick
<1>3. BucketOK'
    BY <1>1, <1>2, AdjustedFacts DEF IInv, BucketOK
<1> DEFINE q == bucket.quantum
           s == Sum(Promised, NumUsers)
<1>4. q \in Nat /\ s \in Int /\ passed \in Nat /\ CurrentTick \in Nat /\ Adjusted \in Int
    BY PromisedTypes, AdjustedFacts DEF IInv, BucketOK
<1>5. passed' + s + bucket'.available <= CurrentTick * q
    <2>1. CurrentTick * q \in Int
        BY <1>4
    <2> HIDE DEF s, q
    <2> QED BY <1>1, <1>4, <2>1, AdjustedFacts DEF s, q
<1>6. ASSUME NEW tick \in Nat, tick >= CurrentTick
      PROVE  passed' + Sum(DueBy(tick), NumUsers) <= tick * q
    <2>1. CurrentTick * q <= tick * q
        BY <1>4, <1>6, TimesMonotone
    <2>2. CurrentTick * q \in Int /\ tick * q \in Int
        BY <1>4
    <2>3. Sum(DueBy(tick), NumUsers) \in Int /\ Sum(DueBy(tick), NumUsers) <= s
        BY PromisedTypes
    <2> HIDE DEF s, q
    <2>4. passed + s + count <= CurrentTick * q
        BY DEF s, q
    <2> QED BY <1>4, <2>1, <2>2, <2>3, <2>4
<1>7. \A tick : DueBy(tick)' = DueBy(tick)
    BY DEF DueBy
<1>8. TokensAccounted'
    BY <1>1, <1>2, <1>5, <1>6, <1>7 DEF TokensAccounted, Promised
<1> QED BY <1>3, <1>8 DEF IInv

(* A call that takes nothing brings the bucket up to date.                  *)
LEMMA NothingTaken ==
    ASSUME IInv, bucket' = BucketWith(Adjusted), UNCHANGED <<passed, waiting, now>>
    PROVE  IInv'
<1>1. /\ bucket'.rate = bucket.rate /\ bucket'.quantum = bucket.quantum
      /\ bucket'.fillInterval = bucket.fillInterval
      /\ bucket'.available = Adjusted /\ bucket'.latestTick = CurrentTick
    BY BucketParts
<1>2. CurrentTick' = CurrentTick
    BY <1>1 DEF CurrentTick
<1>3. BucketOK'
    BY <1>1, <1>2, AdjustedFacts DEF IInv, BucketOK
<1>4. \A tick : DueBy(tick)' = DueBy(tick)
    BY DEF DueBy
<1>5. TokensAccounted'
    BY <1>1, <1>2, <1>4, AdjustedFacts DEF IInv, TokensAccounted, Promised
<1> QED BY <1>3, <1>5 DEF IInv

(* A promise is for a tick that pays for all that is taken before it.       *)
LEMMA PromiseIsCovered ==
    ASSUME IInv, NEW count \in Nat, Adjusted - count <= 0
    PROVE  /\ EndTick(count) \in Nat /\ EndTick(count) >= CurrentTick
           /\ passed + Sum(Promised, NumUsers) + count <= EndTick(count) * bucket.quantum
<1> DEFINE q == bucket.quantum
           s == Sum(Promised, NumUsers)
           t == TicksFor(count - Adjusted)
<1>1. q \in Nat \ {0} /\ passed \in Nat /\ s \in Int
    BY PromisedTypes DEF IInv, BucketOK
<1>2. CurrentTick \in Nat /\ Adjusted \in Int /\ passed + s + Adjusted <= CurrentTick * q
    BY AdjustedFacts
<1>3. t \in Nat /\ count - Adjusted <= t * q
    BY <1>1, <1>2, TicksPay
<1>4. EndTick(count) = CurrentTick + t
    BY DEF EndTick
<1> HIDE DEF q, s, t
<1>5. (CurrentTick + t) * q = CurrentTick * q + t * q /\ CurrentTick * q \in Int /\ t * q \in Int
    BY <1>1, <1>2, <1>3
<1>6. passed + s + count <= (CurrentTick + t) * q
    BY <1>1, <1>2, <1>3, <1>5
<1> QED BY <1>2, <1>3, <1>4, <1>6 DEF q, s

(* A user that sleeps has been promised what is not there yet.              *)
LEMMA Promises ==
    ASSUME IInv, NEW u \in BucketUsers, NEW count \in Nat, NEW end \in Nat,
           waiting[u] = Awake, waiting' = [waiting EXCEPT ![u] = [count |-> count, endTick |-> end]],
           bucket' = BucketWith(Adjusted - count), UNCHANGED <<passed, now>>,
           passed + Sum(Promised, NumUsers) + count <= end * bucket.quantum
    PROVE  IInv'
<1> USE BucketAssumption
<1>1. /\ bucket'.rate = bucket.rate /\ bucket'.quantum = bucket.quantum
      /\ bucket'.fillInterval = bucket.fillInterval
      /\ bucket'.available = Adjusted - count /\ bucket'.latestTick = CurrentTick
    BY BucketParts
<1>2. CurrentTick' = CurrentTick
    BY <1>1 DEF CurrentTick
<1>3. waiting' \in [BucketUsers -> [count : Nat, endTick : Nat]]
    BY DEF IInv, BucketOK
<1>4. BucketOK'
    BY <1>1, <1>2, <1>3, AdjustedFacts DEF IInv, BucketOK
<1> DEFINE q == bucket.quantum
           s == Sum(Promised, NumUsers)
<1>5. q \in Nat /\ s \in Int /\ passed \in Nat /\ CurrentTick \in Nat /\ Adjusted \in Int
    BY PromisedTypes, AdjustedFacts DEF IInv, BucketOK
<1>6. waiting[u].count = 0
    BY DEF Awake
<1>7. waiting'[u].count = count /\ waiting'[u].endTick = end
      /\ \A v \in BucketUsers : v # u => waiting'[v] = waiting[v]
    BY DEF IInv, BucketOK
<1>8. \A v \in BucketUsers : waiting'[v].count \in Nat /\ waiting'[v].endTick \in Nat
    BY <1>3
<1>9. /\ Promised' \in [1..NumUsers -> Int]
      /\ \A v \in 1..NumUsers : v # u => Promised'[v] = Promised[v]
      /\ Promised'[u] = count /\ Promised[u] = 0
    BY <1>6, <1>7, <1>8 DEF Promised, BucketUsers
<1>10. Sum(Promised', NumUsers) = s + count
    <2>1. Sum(Promised', NumUsers) = s + Promised'[u] - Promised[u]
        BY <1>9, PromisedTypes, SumOfUsersChanges
    <2> QED BY <1>5, <1>9, <2>1
<1>11. passed' + Sum(Promised, NumUsers)' + bucket'.available <= CurrentTick * q
    <2>1. Sum(Promised, NumUsers)' = s + count /\ CurrentTick * q \in Int
        BY <1>5, <1>10
    <2>2. passed + s + Adjusted <= CurrentTick * q
        BY AdjustedFacts
    <2> HIDE DEF s, q
    <2> QED BY <1>1, <1>5, <2>1, <2>2
<1>12. ASSUME NEW tick \in Nat, tick >= CurrentTick
       PROVE  passed + Sum(DueBy(tick)', NumUsers) <= tick * q
    <2>1. /\ DueBy(tick)' \in [1..NumUsers -> Int]
          /\ \A v \in 1..NumUsers : v # u => DueBy(tick)'[v] = DueBy(tick)[v]
          /\ DueBy(tick)'[u] = (IF end <= tick THEN count ELSE 0) /\ DueBy(tick)[u] = 0
        BY <1>6, <1>7, <1>8 DEF DueBy, BucketUsers
    <2>2. Sum(DueBy(tick)', NumUsers)
             = Sum(DueBy(tick), NumUsers) + DueBy(tick)'[u] - DueBy(tick)[u]
        BY <2>1, PromisedTypes, SumOfUsersChanges
    <2>3. Sum(DueBy(tick), NumUsers) \in Int /\ Sum(DueBy(tick), NumUsers) <= s
        BY PromisedTypes
    <2>4. CASE end <= tick
        <3>1. end * q <= tick * q /\ end * q \in Int /\ tick * q \in Int
            BY <1>5, <2>4, TimesMonotone
        <3>2. passed + s + count <= end * q
            OBVIOUS
        <3>3. DueBy(tick)'[u] = count
            BY <2>1, <2>4
        <3> HIDE DEF s, q
        <3>4. passed + Sum(DueBy(tick)', NumUsers) <= passed + s + count
            BY <1>5, <2>1, <2>2, <2>3, <3>3
        <3>5. passed + s + count <= tick * q
            BY <1>5, <3>1, <3>2
        <3>6. Sum(DueBy(tick)', NumUsers) \in Int
            BY <2>1, SumInt, BucketAssumption
        <3> QED BY <1>5, <3>1, <3>4, <3>5, <3>6
    <2>5. CASE ~(end <= tick)
        <3>1. passed + Sum(DueBy(tick), NumUsers) <= tick * q
            BY <1>12 DEF IInv, TokensAccounted
        <3> HIDE DEF s, q
        <3> QED BY <1>5, <2>1, <2>2, <2>3, <2>5, <3>1
    <2> QED BY <2>4, <2>5
<1>13. TokensAccounted'
    BY <1>1, <1>2, <1>11, <1>12 DEF TokensAccounted, Promised
<1> QED BY <1>4, <1>13 DEF IInv

(* Whatever Wait does with the bucket.                                      *)
LEMMA WaitKeeps ==
    ASSUME IInv, NEW u \in BucketUsers, NEW count \in Nat, WaitFor(u, count)
    PROVE  IInv'
<1> USE BucketAssumption
<1> DEFINE q == bucket.quantum
           s == Sum(Promised, NumUsers)
<1>1. /\ q \in Nat \ {0} /\ s \in Int /\ passed \in Nat /\ CurrentTick \in Nat /\ Adjusted \in Int
      /\ passed + s + Adjusted <= CurrentTick * q /\ CurrentTick * q \in Int
    <2>1. /\ q \in Nat \ {0} /\ s \in Int /\ passed \in Nat /\ CurrentTick \in Nat /\ Adjusted \in Int
          /\ passed + s + Adjusted <= CurrentTick * q
        BY PromisedTypes, AdjustedFacts DEF IInv, BucketOK
    <2> HIDE DEF q, s
    <2> QED BY <2>1
<1>2. waiting[u] = Awake /\ now' = now
    BY DEF WaitFor
<1>3. CASE TakeNow(count)
    <2>1. passed + s + count <= CurrentTick * q
        <3>1. Adjusted - count > 0
            BY <1>3 DEF TakeNow
        <3> HIDE DEF s, q
        <3> QED BY <1>1, <3>1
    <2> HIDE DEF s, q
    <2> QED BY <1>2, <1>3, <2>1, TakenAtOnce DEF TakeNow, s, q
<1>4. CASE TakeOnCredit(u, count)
    <2> DEFINE end == EndTick(count)
    <2>1. end \in Nat /\ end >= CurrentTick /\ passed + s + count <= end * q
        BY <1>4, PromiseIsCovered DEF TakeOnCredit
    <2>2. CASE WaitTime(count) > 0
        <3>1. waiting' = [waiting EXCEPT ![u] = [count |-> count, endTick |-> end]]
              /\ bucket' = BucketWith(Adjusted - count) /\ passed' = passed
            BY <1>4, <2>2 DEF TakeOnCredit
        <3> HIDE DEF end
        <3> QED BY <1>2, <2>1, <3>1, Promises
    <2>3. CASE ~(WaitTime(count) > 0)
        <3>1. waiting' = waiting /\ bucket' = BucketWith(Adjusted - count) /\ passed' = passed + count
            BY <1>4, <2>3 DEF TakeOnCredit
        <3>2. now \in Nat /\ bucket.fillInterval \in Nat \ {0}
            BY DEF IInv, BucketOK
        <3>3. end * bucket.fillInterval <= now
            <4>1. ~(end * bucket.fillInterval - now > 0)
                BY <2>3 DEF WaitTime
            <4>2. end * bucket.fillInterval \in Int
                BY <2>1, <3>2
            <4> HIDE DEF end
            <4> QED BY <3>2, <4>1, <4>2
        <3>4. end <= CurrentTick
            BY <2>1, <3>2, <3>3, QuotientOfMultiple DEF CurrentTick
        <3>5. passed + s + count <= CurrentTick * q
            BY <1>1, <2>1, <3>4
        <3> QED BY <1>2, <3>1, <3>5, TakenAtOnce
    <2> QED BY <2>2, <2>3
<1>5. CASE TakeNothing(count)
    BY <1>2, <1>5, NothingTaken DEF TakeNothing
<1> QED BY <1>3, <1>4, <1>5 DEF WaitFor

(* TakeAvailable never goes into debt.                                      *)
LEMMA TakeAvailableKeeps ==
    ASSUME IInv, NEW count \in Nat, TakeAvailable(count)
    PROVE  IInv'
<1> DEFINE taken == IF Adjusted <= 0 THEN 0 ELSE IF count > Adjusted THEN Adjusted ELSE count
           s == Sum(Promised, NumUsers)
<1>1. bucket' = BucketWith(Adjusted - taken) /\ passed' = passed + taken
      /\ waiting' = waiting /\ now' = now
    BY DEF TakeAvailable
<1>2. /\ Adjusted \in Int /\ s \in Int /\ passed \in Nat /\ CurrentTick \in Nat
      /\ bucket.quantum \in Nat /\ CurrentTick * bucket.quantum \in Int
      /\ passed + s + Adjusted <= CurrentTick * bucket.quantum
    <2>1. /\ Adjusted \in Int /\ s \in Int /\ passed \in Nat /\ CurrentTick \in Nat
          /\ bucket.quantum \in Nat
        BY PromisedTypes, AdjustedFacts DEF IInv, BucketOK
    <2> QED BY <2>1, AdjustedFacts
<1>3. CASE Adjusted <= 0
    <2>1. bucket' = BucketWith(Adjusted) /\ passed' = passed
        BY <1>1, <1>2, <1>3
    <2> QED BY <1>1, <2>1, NothingTaken
<1>4. CASE Adjusted > 0
    <2>1. taken \in Nat /\ taken <= Adjusted
        BY <1>2, <1>4
    <2>2. passed + s + taken <= CurrentTick * bucket.quantum
        <3> HIDE DEF s, taken
        <3> QED BY <1>2, <2>1
    <2> HIDE DEF taken
    <2> QED BY <1>1, <2>1, <2>2, TakenAtOnce
<1> QED BY <1>2, <1>3, <1>4

(* Who wakes up goes on with what was due.                                  *)
LEMMA SleepEndsKeeps ==
    ASSUME IInv, NEW u \in BucketUsers, SleepEnds(u)
    PROVE  IInv'
<1> USE BucketAssumption
<1> DEFINE s == Sum(Promised, NumUsers)
           n == waiting[u].count
<1>1. /\ waiting' = [waiting EXCEPT ![u] = Awake] /\ passed' = passed + n
      /\ bucket' = bucket /\ now' = now /\ now >= waiting[u].endTick * bucket.fillInterval
    BY DEF SleepEnds
<1>2. \A v \in BucketUsers : waiting[v].count \in Nat /\ waiting[v].endTick \in Nat
    BY DEF IInv, BucketOK
<1>3. /\ waiting' \in [BucketUsers -> [count : Nat, endTick : Nat]]
      /\ waiting'[u].count = 0 /\ \A v \in BucketUsers : v # u => waiting'[v] = waiting[v]
    BY <1>1 DEF IInv, BucketOK, Awake
<1>4. \A v \in BucketUsers : waiting'[v].count \in Nat /\ waiting'[v].endTick \in Nat
    BY <1>3
<1>5. CurrentTick' = CurrentTick /\ now \in Nat /\ bucket.fillInterval \in Nat \ {0} /\ passed \in Nat
    BY <1>1 DEF CurrentTick, IInv, BucketOK
<1>6. BucketOK'
    BY <1>1, <1>2, <1>3, <1>5 DEF IInv, BucketOK
<1>7. Sum(Promised', NumUsers) = s - n
    <2>1. /\ Promised' \in [1..NumUsers -> Int]
          /\ \A v \in 1..NumUsers : v # u => Promised'[v] = Promised[v]
          /\ Promised'[u] = 0 /\ Promised[u] = n
        BY <1>3, <1>4 DEF Promised, BucketUsers
    <2>2. Sum(Promised', NumUsers) = s + Promised'[u] - Promised[u]
        BY <2>1, PromisedTypes, SumOfUsersChanges
    <2>3. s \in Int /\ n \in Nat
        BY <1>2, PromisedTypes
    <2> HIDE DEF s, n
    <2> QED BY <2>1, <2>2, <2>3
<1>8. passed' + Sum(Promised, NumUsers)' + bucket'.available <= bucket'.latestTick * bucket'.quantum
    <2>1. passed + s + bucket.available <= bucket.latestTick * bucket.quantum
        BY DEF IInv, TokensAccounted, Promised
    <2>2. s \in Int /\ n \in Nat /\ bucket.available \in Int
        BY <1>2, PromisedTypes DEF IInv, BucketOK
    <2>3. Sum(Promised, NumUsers)' = s - n
        BY <1>7
    <2>4. passed + n + (s - n) + bucket.available = passed + s + bucket.available
        <3> HIDE DEF s, n
        <3> QED BY <1>5, <2>2
    <2> HIDE DEF s, n
    <2> QED BY <1>1, <2>1, <2>3, <2>4
<1>9. waiting[u].endTick <= CurrentTick
    BY <1>1, <1>2, <1>5, QuotientOfMultiple DEF CurrentTick
<1>10. ASSUME NEW tick \in Nat, tick >= CurrentTick
       PROVE  passed' + Sum(DueBy(tick)', NumUsers) <= tick * bucket.quantum
    <2>1. CurrentTick \in Nat
        BY AdjustedFacts
    <2>2. waiting[u].endTick <= tick
        BY <1>2, <1>9, <1>10, <2>1
    <2>3. /\ DueBy(tick)' \in [1..NumUsers -> Int]
          /\ \A v \in 1..NumUsers : v # u => DueBy(tick)'[v] = DueBy(tick)[v]
          /\ DueBy(tick)'[u] = 0 /\ DueBy(tick)[u] = n
        BY <1>2, <1>3, <1>4, <2>2 DEF DueBy, BucketUsers
    <2>4. Sum(DueBy(tick)', NumUsers)
             = Sum(DueBy(tick), NumUsers) + DueBy(tick)'[u] - DueBy(tick)[u]
        BY <2>3, PromisedTypes, SumOfUsersChanges
    <2>5. Sum(DueBy(tick), NumUsers) \in Int /\ n \in Nat
        BY <1>2, PromisedTypes
    <2>6. passed + Sum(DueBy(tick), NumUsers) <= tick * bucket.quantum
        BY <1>10 DEF IInv, TokensAccounted
    <2>7. passed + n + Sum(DueBy(tick)', NumUsers) = passed + Sum(DueBy(tick), NumUsers)
        <3> HIDE DEF n
        <3> QED BY <1>5, <2>3, <2>4, <2>5
    <2> QED BY <1>1, <2>6, <2>7
<1>11. TokensAccounted'
    BY <1>1, <1>5, <1>8, <1>10 DEF TokensAccounted, Promised
<1> QED BY <1>6, <1>11 DEF IInv

LEMMA TickKeeps ==
    ASSUME IInv, BucketTick
    PROVE  IInv'
<1>1. bucket' = bucket /\ waiting' = waiting /\ passed' = passed /\ now' = now + 1
    BY DEF BucketTick
<1>2. now \in Nat /\ bucket.fillInterval \in Nat \ {0} /\ bucket.latestTick \in Nat
      /\ bucket.latestTick <= CurrentTick
    BY DEF IInv, BucketOK
<1>3. CurrentTick \in Nat /\ CurrentTick' \in Nat /\ CurrentTick <= CurrentTick'
    <2>1. CurrentTick = now \div bucket.fillInterval
        BY DEF CurrentTick
    <2>2. CurrentTick' = (now + 1) \div bucket.fillInterval
        BY <1>1 DEF CurrentTick
    <2>3. now + 1 \in Nat /\ now <= now + 1
        BY <1>2
    <2> QED BY <1>2, <2>1, <2>2, <2>3, QuotientNat, QuotientMonotone
<1>4. BucketOK'
    BY <1>1, <1>2, <1>3 DEF IInv, BucketOK
<1>5. \A tick : DueBy(tick)' = DueBy(tick)
    BY <1>1 DEF DueBy
<1>6. TokensAccounted'
    BY <1>1, <1>3, <1>5 DEF IInv, TokensAccounted
<1> QED BY <1>4, <1>6 DEF IInv

-----------------------------------------------------------------------------
(* The least of a set of natural numbers.                                   *)
LEMMA LeastExists ==
    ASSUME NEW S \in SUBSET Nat, S # {}
    PROVE  \E i \in S : \A j \in S : i <= j
<1>1. PICK i \in S : \A j \in S : ~(<<j, i>> \in OpToRel(<, Nat))
    BY WFMin, NatLessThanWellFounded
<1>2. \A j \in S : ~(j < i)
    BY <1>1 DEF OpToRel
<1> QED BY <1>2

LEMMA InitKeeps == BucketInit => IInv
<1> USE BucketAssumption
<1> SUFFICES ASSUME BucketInit PROVE IInv
    OBVIOUS
<1>1. PICK rate \in Rates : Steps(rate) # {} /\ bucket = NewBucket(rate)
    BY DEF BucketInit
<1> DEFINE i == CHOOSE i \in Steps(rate) : \A j \in Steps(rate) : i <= j
           q == Quanta[i]
           fill == FillInterval(rate, q)
<1>2. Steps(rate) \in SUBSET Nat
    BY DEF Steps, MaxSteps
<1>3. i \in Steps(rate)
    BY <1>1, <1>2, LeastExists
<1>4. q \in Nat \ {0} /\ Suitable(rate, q)
    BY <1>3 DEF Steps
<1>5. rate \in Nat \ {0}
    OBVIOUS
<1>6. fill \in Nat \ {0} /\ 100 * (TimeRange * q - rate * fill) <= rate * fill
    <2>1. TimeRange * q \in Nat
        BY <1>4
    <2>2. fill \in Nat
        BY <1>5, <2>1, QuotientNat DEF FillInterval
    <2>3. fill > 0 /\ 100 * (TimeRange * q - rate * fill) <= rate * fill
        BY <1>4 DEF Suitable
    <2> QED BY <2>2, <2>3
<1> HIDE DEF q, fill
<1>7. 100 * (TimeRange * q) <= 101 * (rate * fill)
    <2>1. TimeRange * q \in Int /\ rate * fill \in Int
        BY <1>4, <1>5, <1>6
    <2> QED BY <1>6, <2>1
<1>8. /\ bucket.rate = rate /\ bucket.quantum = q /\ bucket.fillInterval = fill
      /\ bucket.available = 0 /\ bucket.latestTick = 0
    BY <1>1 DEF NewBucket, QuantumFor, q, fill, i
<1>9. now = 0 /\ passed = 0 /\ waiting = [u \in BucketUsers |-> Awake]
    BY DEF BucketInit
<1>10. CurrentTick = 0
    BY <1>6, <1>8, <1>9, Quotient DEF CurrentTick
<1>11. BucketOK
    BY <1>4, <1>5, <1>6, <1>7, <1>8, <1>9, <1>10 DEF BucketOK, Awake
<1>12. /\ Promised = [u \in 1..NumUsers |-> 0]
       /\ \A tick \in Nat : DueBy(tick) = [u \in 1..NumUsers |-> 0]
    BY <1>9 DEF Promised, DueBy, BucketUsers, Awake
<1>13. Sum([u \in 1..NumUsers |-> 0], NumUsers) = 0
    BY SumZero
<1>14. TokensAccounted
    <2>1. \A tick \in Nat : passed + Sum(DueBy(tick), NumUsers) <= tick * bucket.quantum
        BY <1>4, <1>8, <1>9, <1>12, <1>13
    <2>2. passed + Sum(Promised, NumUsers) + bucket.available <= bucket.latestTick * bucket.quantum
        BY <1>4, <1>8, <1>9, <1>12, <1>13
    <2> QED BY <2>1, <2>2 DEF TokensAccounted, Promised
<1> QED BY <1>11, <1>14 DEF IInv

LEMMA NextKeeps == IInv /\ [BucketNext]_bucketVars => IInv'
<1> USE BucketAssumption
<1> SUFFICES ASSUME IInv, [BucketNext]_bucketVars PROVE IInv'
    OBVIOUS
<1>1. ASSUME NEW u \in BucketUsers, NEW count \in 1..MaxCount, WaitFor(u, count) PROVE IInv'
    BY <1>1, WaitKeeps
<1>2. ASSUME NEW count \in 1..MaxCount, TakeAvailable(count) PROVE IInv'
    BY <1>2, TakeAvailableKeeps
<1>3. ASSUME NEW u \in BucketUsers, SleepEnds(u) PROVE IInv'
    BY <1>3, SleepEndsKeeps
<1>4. CASE BucketTick
    BY <1>4, TickKeeps
<1>5. CASE UNCHANGED bucketVars
    <2>1. \A tick : DueBy(tick)' = DueBy(tick)
        BY <1>5 DEF DueBy, bucketVars
    <2> QED BY <1>5, <2>1 DEF IInv, BucketOK, TokensAccounted, CurrentTick, bucketVars
<1> QED BY <1>1, <1>2, <1>3, <1>4, <1>5 DEF BucketNext

(* What has passed by the current tick was filled in by then, within the    *)
(* margin of the rate.                                                      *)
LEMMA WithinRate == IInv => NeverAheadOfRate
<1> USE BucketAssumption
<1> SUFFICES ASSUME IInv PROVE NeverAheadOfRate
    OBVIOUS
<1> DEFINE q == bucket.quantum
           fill == bucket.fillInterval
           rate == bucket.rate
           tick == CurrentTick
<1>1. /\ q \in Nat /\ fill \in Nat /\ rate \in Nat /\ now \in Nat /\ passed \in Nat
      /\ 100 * (TimeRange * q) <= 101 * (rate * fill)
    BY DEF IInv, BucketOK
<1>2. tick \in Nat
    BY AdjustedFacts
<1>3. fill * tick <= now
    <2>1. fill \in Nat \ {0} /\ now \in Int
        BY DEF IInv, BucketOK
    <2>2. tick = now \div fill
        BY DEF CurrentTick
    <2> HIDE DEF fill, tick
    <2> QED BY <2>1, <2>2, Quotient
<1>4. passed <= tick * q
    <2>1. passed + Sum(DueBy(tick), NumUsers) <= tick * q
        BY <1>2 DEF IInv, TokensAccounted
    <2>2. Sum(DueBy(tick), NumUsers) \in Int /\ Sum(DueBy(tick), NumUsers) >= 0
        BY <1>2, PromisedTypes
    <2>3. tick * q \in Int
        BY <1>1, <1>2
    <2> HIDE DEF tick, q
    <2> QED BY <1>1, <2>1, <2>2, <2>3
<1> HIDE DEF q, fill, rate, tick
<1>5. passed * TimeRange <= (tick * q) * TimeRange
    <2>1. tick * q \in Int
        BY <1>1, <1>2
    <2> QED BY <1>1, <1>4, <2>1, TimesMonotone
<1>6. (100 * (TimeRange * q)) * tick <= (101 * (rate * fill)) * tick
    <2>1. 100 * (TimeRange * q) \in Int /\ 101 * (rate * fill) \in Int
        BY <1>1
    <2> QED BY <1>1, <1>2, <2>1, TimesMonotone
<1>7. (fill * tick) * rate <= now * rate
    <2>1. fill * tick \in Int
        BY <1>1, <1>2
    <2> QED BY <1>1, <1>3, <2>1, TimesMonotone
<1>8. 100 * ((tick * q) * TimeRange) = (100 * (TimeRange * q)) * tick
    BY <1>1, <1>2
<1>9. (101 * (rate * fill)) * tick = 101 * ((fill * tick) * rate)
    BY <1>1, <1>2
<1>10. 100 * (passed * TimeRange) <= 101 * (now * rate)
    <2>1. /\ passed * TimeRange \in Int /\ (tick * q) * TimeRange \in Int
          /\ (fill * tick) * rate \in Int /\ now * rate \in Int
        BY <1>1, <1>2
    <2> QED BY <2>1, <1>5, <1>6, <1>7, <1>8, <1>9
<1>11. now * rate = rate * now
    BY <1>1
<1> QED BY <1>10, <1>11 DEF NeverAheadOfRate, rate

(* Nobody ever gets ahead of the rate of a token bucket.                    *)
THEOREM BucketNeverAhead == BucketSpec => []NeverAheadOfRate
<1>1. BucketSpec => []IInv
    BY InitKeeps, NextKeeps, PTL DEF BucketSpec
<1> QED BY <1>1, WithinRate, PTL

-----------------------------------------------------------------------------
\* A user that is about to take tokens asks for some.
CountsAreRight ==
    /\ DOMAIN entering = BucketUsers
    /\ \A u \in BucketUsers : entering[u].at \in {"storing", "taking"} => entering[u].count \in 1..MaxCount

LEMMA CountsInitially == Init => CountsAreRight
<1>1. NewStatistics => CountsAreRight
    BY DEF NewStatistics, CountsAreRight, Idle
<1> QED BY <1>1 DEF Init, NewAdaptiveQPS, NewAdaptiveBucket

(* A user that enters, with a count or without one.                         *)
LEMMA EntryKeepsCounts ==
    ASSUME CountsAreRight, NEW u \in BucketUsers, NEW e,
           entering' = [entering EXCEPT ![u] = e],
           e.at \in {"storing", "taking"} => e.count \in 1..MaxCount
    PROVE  CountsAreRight'
<1>1. DOMAIN entering' = BucketUsers
    BY DEF CountsAreRight
<1>2. \A v \in BucketUsers : entering'[v] = IF v = u THEN e ELSE entering[v]
    BY DEF CountsAreRight
<1> QED BY <1>1, <1>2 DEF CountsAreRight

LEMMA CountsKept == CountsAreRight /\ [Next]_vars => CountsAreRight'
<1> SUFFICES ASSUME CountsAreRight, [Next]_vars PROVE CountsAreRight'
    OBVIOUS
<1>1. ASSUME entering' = entering PROVE CountsAreRight'
    BY <1>1 DEF CountsAreRight
<1>2. ASSUME NEW u \in BucketUsers, Enter(u) PROVE CountsAreRight'
    <2> DEFINE e == [at |-> "sending", time |-> now]
    <2>1. e.at \notin {"storing", "taking"} /\ entering' = [entering EXCEPT ![u] = e]
        BY <1>2 DEF Enter
    <2> HIDE DEF e
    <2> QED BY <2>1, EntryKeepsCounts
<1>3. ASSUME NEW u \in BucketUsers, Record(u) \/ TakeTokens(u) PROVE CountsAreRight'
    <2>1. Idle.at \notin {"storing", "taking"} /\ entering' = [entering EXCEPT ![u] = Idle]
        BY <1>3 DEF Record, TakeTokens, Idle
    <2> QED BY <2>1, EntryKeepsCounts
<1>4. ASSUME NEW u \in BucketUsers, LoadTimes(u) PROVE CountsAreRight'
    <2>1. PICK count \in 1..MaxCount :
             entering' = [entering EXCEPT ![u] = [at |-> "storing", uses |-> times \o Repeat(now, count),
                                                  count |-> count]]
        BY <1>4 DEF LoadTimes
    <2> DEFINE e == [at |-> "storing", uses |-> times \o Repeat(now, count), count |-> count]
    <2>2. e.count \in 1..MaxCount /\ entering' = [entering EXCEPT ![u] = e]
        BY <2>1
    <2> HIDE DEF e
    <2> QED BY <2>2, EntryKeepsCounts
<1>5. ASSUME NEW u \in BucketUsers, StoreTimes(u) PROVE CountsAreRight'
    <2> DEFINE e == [at |-> "taking", count |-> entering[u].count]
    <2>1. e.count \in 1..MaxCount /\ entering' = [entering EXCEPT ![u] = e]
        BY <1>5 DEF StoreTimes, CountsAreRight
    <2> HIDE DEF e
    <2> QED BY <2>1, EntryKeepsCounts
<1>6. ASSUME NEW u \in BucketUsers, Wake(u) PROVE entering' = entering
    BY <1>6 DEF Wake, statVars
<1>7. ASSUME \/ AskForWants \/ Close \/ SendToClosed \/ LoadToClear \/ KeepLastWants \/ ClockTick
             \/ UNCHANGED vars
      PROVE  entering' = entering
    BY <1>7 DEF AskForWants, Close, SendToClosed, LoadToClear, KeepLastWants, ClockTick, vars, statVars
<1> QED BY <1>1, <1>2, <1>3, <1>4, <1>5, <1>6, <1>7 DEF Next

LEMMA StepsOfTheBucket == CountsAreRight /\ [Next]_vars => [BucketNext]_bucketVars
<1> SUFFICES ASSUME CountsAreRight, [Next]_vars PROVE [BucketNext]_bucketVars
    OBVIOUS
<1>1. ASSUME NEW u \in BucketUsers, TakeTokens(u) PROVE BucketNext
    <2>1. entering[u].count \in 1..MaxCount
        BY <1>1 DEF TakeTokens, CountsAreRight
    <2> QED BY <1>1, <2>1 DEF TakeTokens, BucketNext
<1>2. ASSUME NEW u \in BucketUsers, Wake(u) PROVE BucketNext
    BY <1>2 DEF Wake, BucketNext
<1>3. ASSUME ClockTick PROVE BucketNext
    BY <1>3 DEF ClockTick, BucketNext
<1>4. ASSUME NEW u \in BucketUsers, Enter(u) \/ Record(u) \/ LoadTimes(u) \/ StoreTimes(u)
      PROVE  UNCHANGED bucketVars
    BY <1>4 DEF Enter, Record, LoadTimes, StoreTimes
<1>5. ASSUME \/ AskForWants \/ Close \/ SendToClosed \/ LoadToClear \/ KeepLastWants
             \/ UNCHANGED vars
      PROVE  UNCHANGED bucketVars
    BY <1>5 DEF AskForWants, Close, SendToClosed, LoadToClear, KeepLastWants, vars
<1> QED BY <1>1, <1>2, <1>3, <1>4, <1>5 DEF Next

(* The adaptive limiter implements the bucket it is in front of.            *)
THEOREM ImplementsBucket == Spec => BucketSpec
<1>1. Spec => []CountsAreRight
    BY CountsInitially, CountsKept, PTL DEF Spec
<1>2. Init => BucketInit
    BY DEF Init
<1> QED BY <1>1, <1>2, StepsOfTheBucket, PTL DEF Spec, BucketSpec

(* No user of the adaptive limiter gets ahead of the rate either, for any   *)
(* rate, capacity, number of users and counts, whatever is recorded when.   *)
THEOREM NeverAhead == Spec => []NeverAheadOfRate
BY ImplementsBucket, BucketNeverAhead, PTL

-----------------------------------------------------------------------------
(* The search for the first recent use. *)

\* What a search of the stretch p finds, if g finds what it searches further on.
Found(s, g, p) ==
    LET h == (p[1] + p[2]) \div 2
    IN  IF p[1] >= p[2] THEN p[1]
        ELSE IF Recent(s[h + 1]) THEN g[<<p[1], h>>] ELSE g[<<h + 1, p[2]>>]

Stretches(s) == (0..Len(s)) \X (0..Len(s))

\* g searches every stretch of s that is at most n long.
SearchesUpTo(s, g, n) ==
    /\ g \in [Stretches(s) -> 0..Len(s)]
    /\ \A p \in Stretches(s) : p[2] - p[1] <= n => g[p] = Found(s, g, p)

(* Halving ends.                                                            *)
LEMMA Halves ==
    ASSUME NEW i \in Nat, NEW j \in Nat, i < j
    PROVE  (i + j) \div 2 \in Nat /\ i <= (i + j) \div 2 /\ (i + j) \div 2 < j
OBVIOUS

LEMMA HalfStretches ==
    ASSUME NEW s, Len(s) \in Nat, NEW p \in Stretches(s), p[1] < p[2],
           NEW h, h = (p[1] + p[2]) \div 2
    PROVE  /\ h \in 0..Len(s) /\ h + 1 \in 0..Len(s) /\ p[1] <= h /\ h < p[2]
           /\ <<p[1], h>> \in Stretches(s) /\ <<h + 1, p[2]>> \in Stretches(s)
<1>1. p[1] \in 0..Len(s) /\ p[2] \in 0..Len(s)
    BY DEF Stretches
<1>2. h \in Nat /\ p[1] <= h /\ h < p[2]
    BY <1>1, Halves
<1>3. h \in 0..Len(s) /\ h + 1 \in 0..Len(s)
    BY <1>1, <1>2
<1> QED BY <1>1, <1>2, <1>3 DEF Stretches

LEMMA SearchExists ==
    ASSUME NEW s, Len(s) \in Nat, NEW n \in Nat
    PROVE  \E g : SearchesUpTo(s, g, n)
<1> DEFINE S == {k \in Nat : \E g : SearchesUpTo(s, g, k)}
<1>0. \A p \in Stretches(s) : p[1] \in 0..Len(s) /\ p[2] \in 0..Len(s)
    BY DEF Stretches
<1>1. 0 \in S
    <2> DEFINE g == [p \in Stretches(s) |-> p[1]]
    <2>1. g \in [Stretches(s) -> 0..Len(s)] /\ \A p \in Stretches(s) : g[p] = p[1]
        BY <1>0
    <2>2. \A p \in Stretches(s) : p[2] - p[1] <= 0 => p[1] >= p[2]
        BY <1>0
    <2> HIDE DEF g
    <2>3. SearchesUpTo(s, g, 0)
        BY <2>1, <2>2 DEF SearchesUpTo, Found
    <2> QED BY <2>3
<1>2. ASSUME NEW k \in Nat, k \in S PROVE k + 1 \in S
    <2>1. PICK g : SearchesUpTo(s, g, k)
        BY <1>2
    <2> DEFINE f == [p \in Stretches(s) |-> Found(s, g, p)]
    <2>2. g \in [Stretches(s) -> 0..Len(s)]
        BY <2>1 DEF SearchesUpTo
    <2>3. ASSUME NEW p \in Stretches(s) PROVE Found(s, g, p) \in 0..Len(s)
        <3>1. CASE p[1] >= p[2]
            BY <1>0, <3>1 DEF Found
        <3>2. CASE p[1] < p[2]
            <4> DEFINE h == (p[1] + p[2]) \div 2
            <4>1. <<p[1], h>> \in Stretches(s) /\ <<h + 1, p[2]>> \in Stretches(s)
                BY <3>2, HalfStretches
            <4>2. g[<<p[1], h>>] \in 0..Len(s) /\ g[<<h + 1, p[2]>>] \in 0..Len(s)
                BY <2>2, <4>1
            <4>3. ~(p[1] >= p[2])
                BY <1>0, <3>2
            <4> QED BY <4>2, <4>3 DEF Found
        <3> QED BY <1>0, <3>1, <3>2
    <2>4. f \in [Stretches(s) -> 0..Len(s)] /\ \A p \in Stretches(s) : f[p] = Found(s, g, p)
        BY <2>3
    <2> HIDE DEF f
    <2>5. \A p \in Stretches(s) : p[2] - p[1] <= k => f[p] = g[p]
        BY <2>1, <2>4 DEF SearchesUpTo
    <2>6. ASSUME NEW p \in Stretches(s), p[2] - p[1] <= k + 1 PROVE f[p] = Found(s, f, p)
        <3>1. CASE p[1] >= p[2]
            BY <2>4, <3>1 DEF Found
        <3>2. CASE p[1] < p[2]
            <4> DEFINE h == (p[1] + p[2]) \div 2
            <4>1. /\ h \in 0..Len(s) /\ p[1] <= h /\ h < p[2]
                  /\ <<p[1], h>> \in Stretches(s) /\ <<h + 1, p[2]>> \in Stretches(s)
                BY <3>2, HalfStretches
            <4> HIDE DEF h
            <4>2. h - p[1] <= k /\ p[2] - (h + 1) <= k
                BY <1>0, <2>6, <4>1
            <4>3. f[<<p[1], h>>] = g[<<p[1], h>>] /\ f[<<h + 1, p[2]>>] = g[<<h + 1, p[2]>>]
                BY <2>5, <4>1, <4>2
            <4>4. Found(s, f, p) = Found(s, g, p)
                BY <4>3 DEF Found, h
            <4> QED BY <2>4, <4>4
        <3> QED BY <1>0, <3>1, <3>2
    <2>7. SearchesUpTo(s, f, k + 1)
        BY <2>4, <2>6 DEF SearchesUpTo
    <2> QED BY <2>7
<1>3. n \in S
    <2> HIDE DEF S
    <2> QED BY <1>1, <1>2, SetInduction
<1> QED BY <1>3

(* Live's recursive function is such a search.                              *)
LEMMA LiveSearches ==
    ASSUME NEW s, Len(s) \in Nat
    PROVE  \E g : SearchesUpTo(s, g, Len(s)) /\ Live(s) = SubSeq(s, g[<<0, Len(s)>>] + 1, Len(s))
<1> DEFINE Rec(g) == [p \in (0..Len(s)) \X (0..Len(s)) |->
                          LET h == (p[1] + p[2]) \div 2
                          IN  IF p[1] >= p[2] THEN p[1]
                              ELSE IF Recent(s[h + 1]) THEN g[<<p[1], h>>] ELSE g[<<h + 1, p[2]>>]]
           search == CHOOSE g : g = Rec(g)
<1>1. PICK g : SearchesUpTo(s, g, Len(s))
    BY SearchExists
<1>2. \A p \in Stretches(s) : p[1] \in 0..Len(s) /\ p[2] \in 0..Len(s) /\ p[2] - p[1] <= Len(s)
    BY DEF Stretches
<1>3. \A f : Rec(f) = [p \in Stretches(s) |-> Found(s, f, p)]
    BY DEF Found, Stretches
<1> HIDE DEF Rec
<1>4. g = Rec(g)
    BY <1>1, <1>2, <1>3 DEF SearchesUpTo
<1>5. search = Rec(search)
    BY <1>4
<1>6. Live(s) = SubSeq(s, search[<<0, Len(s)>>] + 1, Len(s))
    BY DEF Live, Rec
<1> HIDE DEF search
<1>7. \A p \in Stretches(s) : search[p] = Found(s, search, p)
    BY <1>3, <1>5
<1> DEFINE S == {n \in Nat : \A p \in Stretches(s) : p[2] - p[1] <= n => search[p] \in 0..Len(s)}
<1>8. 0 \in S
    <2> SUFFICES ASSUME NEW p \in Stretches(s), p[2] - p[1] <= 0 PROVE search[p] \in 0..Len(s)
        OBVIOUS
    <2>1. p[1] >= p[2]
        BY <1>2
    <2> QED BY <1>2, <1>7, <2>1 DEF Found
<1>9. ASSUME NEW n \in Nat, n \in S PROVE n + 1 \in S
    <2> SUFFICES ASSUME NEW p \in Stretches(s), p[2] - p[1] <= n + 1 PROVE search[p] \in 0..Len(s)
        OBVIOUS
    <2>1. CASE p[1] >= p[2]
        BY <1>2, <1>7, <2>1 DEF Found
    <2>2. CASE p[1] < p[2]
        <3> DEFINE h == (p[1] + p[2]) \div 2
        <3>1. /\ h \in 0..Len(s) /\ p[1] <= h /\ h < p[2]
              /\ <<p[1], h>> \in Stretches(s) /\ <<h + 1, p[2]>> \in Stretches(s)
            BY <2>2, HalfStretches
        <3> HIDE DEF h
        <3>2. h - p[1] <= n /\ p[2] - (h + 1) <= n
            BY <1>2, <3>1
        <3>3. search[<<p[1], h>>] \in 0..Len(s) /\ search[<<h + 1, p[2]>>] \in 0..Len(s)
            BY <1>9, <3>1, <3>2
        <3>4. ~(p[1] >= p[2])
            BY <1>2, <2>2
        <3> QED BY <1>7, <3>3, <3>4 DEF Found, h
    <2> QED BY <1>2, <2>1, <2>2
<1>10. Nat \subseteq S
    <2> HIDE DEF S
    <2> QED BY <1>8, <1>9, SetInduction
<1>11. search \in [Stretches(s) -> 0..Len(s)]
    BY <1>2, <1>3, <1>5, <1>10
<1> QED BY <1>6, <1>7, <1>11 DEF SearchesUpTo

(* It ends between its bounds, where recent uses begin: the one before is   *)
(* not recent, and the one there is.                                        *)
LEMMA SearchFinds ==
    ASSUME NEW s, Len(s) \in Nat, NEW g, SearchesUpTo(s, g, Len(s)), NEW p \in Stretches(s), p[1] <= p[2]
    PROVE  /\ g[p] \in p[1]..p[2]
           /\ g[p] < p[2] => Recent(s[g[p] + 1])
           /\ g[p] > p[1] => ~Recent(s[g[p]])
<1> DEFINE Right(q) == /\ g[q] \in q[1]..q[2]
                       /\ g[q] < q[2] => Recent(s[g[q] + 1])
                       /\ g[q] > q[1] => ~Recent(s[g[q]])
           S == {n \in Nat : \A q \in Stretches(s) : q[1] <= q[2] /\ q[2] - q[1] <= n => Right(q)}
<1>1. \A q \in Stretches(s) : q[1] \in 0..Len(s) /\ q[2] \in 0..Len(s) /\ q[2] - q[1] <= Len(s)
    BY DEF Stretches
<1>2. \A q \in Stretches(s) : g[q] = Found(s, g, q)
    BY <1>1 DEF SearchesUpTo
<1>3. ASSUME NEW q \in Stretches(s), q[1] = q[2] PROVE Right(q)
    <2>1. q[1] >= q[2]
        BY <1>1, <1>3
    <2>2. g[q] = q[1]
        BY <1>2, <2>1 DEF Found
    <2> QED BY <1>1, <1>3, <2>2
<1>4. 0 \in S
    <2> SUFFICES ASSUME NEW q \in Stretches(s), q[1] <= q[2], q[2] - q[1] <= 0 PROVE Right(q)
        OBVIOUS
    <2>1. q[1] = q[2]
        BY <1>1
    <2> HIDE DEF Right
    <2> QED BY <1>3, <2>1
<1>5. ASSUME NEW n \in Nat, n \in S PROVE n + 1 \in S
    <2> SUFFICES ASSUME NEW q \in Stretches(s), q[1] < q[2], q[2] - q[1] <= n + 1 PROVE Right(q)
        <3> HIDE DEF Right
        <3>1. \A q \in Stretches(s) : q[1] <= q[2] => q[1] < q[2] \/ q[1] = q[2]
            BY <1>1
        <3> QED BY <1>3, <3>1
    <2> DEFINE h == (q[1] + q[2]) \div 2
               lower == <<q[1], h>>
               upper == <<h + 1, q[2]>>
    <2>1. /\ h \in 0..Len(s) /\ q[1] <= h /\ h < q[2]
          /\ lower \in Stretches(s) /\ upper \in Stretches(s)
        BY HalfStretches
    <2>2. lower[1] = q[1] /\ lower[2] = h /\ upper[1] = h + 1 /\ upper[2] = q[2]
        OBVIOUS
    <2>3. ~(q[1] >= q[2])
        BY <1>1
    <2>4. CASE Recent(s[h + 1])
        <3>1. g[q] = g[lower]
            BY <1>2, <2>3, <2>4 DEF Found
        <3> HIDE DEF h, lower
        <3>2. lower[1] <= lower[2] /\ lower[2] - lower[1] <= n
            BY <1>1, <2>1, <2>2
        <3>3. Right(lower)
            <4> HIDE DEF Right
            <4> QED BY <1>5, <2>1, <3>2
        <3> QED BY <1>1, <2>1, <2>2, <2>4, <3>1, <3>3
    <2>5. CASE ~Recent(s[h + 1])
        <3>1. g[q] = g[upper]
            BY <1>2, <2>3, <2>5 DEF Found
        <3> HIDE DEF h, upper
        <3>2. upper[1] <= upper[2] /\ upper[2] - upper[1] <= n
            BY <1>1, <2>1, <2>2
        <3>3. Right(upper)
            <4> HIDE DEF Right
            <4> QED BY <1>5, <2>1, <3>2
        <3> QED BY <1>1, <2>1, <2>2, <2>5, <3>1, <3>3
    <2> QED BY <2>4, <2>5
<1>6. Len(s) \in S
    <2> HIDE DEF S
    <2> QED BY <1>4, <1>5, SetInduction
<1> QED BY <1>1, <1>6

(* So Live keeps a tail of the uses, from a recent one on.                  *)
LEMMA LiveIsTail ==
    ASSUME NEW s, Len(s) \in Nat
    PROVE  \E r \in 0..Len(s) :
              /\ Live(s) = SubSeq(s, r + 1, Len(s))
              /\ r < Len(s) => Recent(s[r + 1])
              /\ r > 0 => ~Recent(s[r])
<1>1. PICK g : SearchesUpTo(s, g, Len(s)) /\ Live(s) = SubSeq(s, g[<<0, Len(s)>>] + 1, Len(s))
    BY LiveSearches
<1> DEFINE p == <<0, Len(s)>>
<1>2. p \in Stretches(s) /\ p[1] = 0 /\ p[2] = Len(s)
    BY DEF Stretches
<1>3. Live(s) = SubSeq(s, g[p] + 1, Len(s))
    BY <1>1
<1> HIDE DEF p
<1>4. /\ g[p] \in p[1]..p[2]
      /\ g[p] < p[2] => Recent(s[g[p] + 1])
      /\ g[p] > p[1] => ~Recent(s[g[p]])
    <2>1. p[1] <= p[2]
        BY <1>2
    <2> QED BY <1>1, <1>2, <2>1, SearchFinds
<1>5. g[p] \in 0..Len(s) /\ (g[p] < Len(s) => Recent(s[g[p] + 1])) /\ (g[p] > 0 => ~Recent(s[g[p]]))
    BY <1>2, <1>4
<1> QED BY <1>3, <1>5

-----------------------------------------------------------------------------
(* What the limiter remembers. *)

\* Uses that have happened, and not too many.
Uses(s) == s \in Seq(Nat) /\ Len(s) <= MaxUses /\ \A k \in 1..Len(s) : s[k] <= now

(* A tail of a sequence.                                                    *)
LEMMA TailOf ==
    ASSUME NEW S, NEW s \in Seq(S), NEW r \in 0..Len(s), NEW l, l = SubSeq(s, r + 1, Len(s))
    PROVE  l \in Seq(S) /\ Len(l) = Len(s) - r /\ \A k \in 1..Len(l) : l[k] = s[k + r]
<1>1. Len(s) \in Nat
    OBVIOUS
<1>2. l \in Seq(S) /\ Len(l) = Len(s) - r
    BY <1>1
<1>3. \A k \in 1..Len(l) : l[k] = s[k + r]
    BY <1>1, <1>2
<1> QED BY <1>2, <1>3

(* Clearing leaves some of them.                                            *)
LEMMA LiveUses ==
    ASSUME NEW s, Uses(s), now \in Nat
    PROVE  Uses(Live(s))
<1>1. s \in Seq(Nat) /\ Len(s) \in Nat
    BY DEF Uses
<1>2. PICK r \in 0..Len(s) : Live(s) = SubSeq(s, r + 1, Len(s))
    BY <1>1, LiveIsTail
<1> DEFINE l == Live(s)
<1> HIDE DEF l
<1>3. l \in Seq(Nat) /\ Len(l) = Len(s) - r /\ \A k \in 1..Len(l) : l[k] = s[k + r]
    BY <1>1, <1>2, TailOf DEF l
<1>4. Len(l) <= MaxUses
    BY <1>1, <1>3, WindowAssumption DEF Uses
<1>5. \A k \in 1..Len(l) : l[k] <= now
    <2> TAKE k \in 1..Len(l)
    <2>1. k + r \in 1..Len(s)
        BY <1>1, <1>3
    <2> QED BY <1>3, <2>1 DEF Uses
<1>6. Uses(l)
    BY <1>3, <1>4, <1>5 DEF Uses
<1> QED BY <1>6 DEF l

Entering(e) ==
    /\ e # Idle => e.at \in {"sending", "storing", "taking"}
    /\ e.at = "sending" => e.time \in Nat /\ e.time <= now
    /\ e.at = "storing" => Uses(e.uses)

\* Only a limiter of a bucket takes tokens, and its users one after another.
StatsInv ==
    /\ variant \in {"qps", "bucket"}
    /\ Uses(times)
    /\ \A u \in BucketUsers :
          /\ Entering(entering[u])
          /\ entering[u].at = "sending" <=> (variant = "qps" /\ entering[u] # Idle)
          /\ entering[u] # Idle => waiting[u] = Awake
          /\ variant = "qps" => waiting[u] = Awake
    /\ loop.at \in {"select", "clear", "closed", "panicked"}
    /\ loop.at = "clear" => Uses(loop.copy)
    /\ lastWants.den \in Nat /\ demand.den \in Nat

LEMMA StatsInitially == Init => StatsInv
<1> SUFFICES ASSUME Init PROVE StatsInv
    OBVIOUS
<1>1. /\ times = << >> /\ entering = [u \in BucketUsers |-> Idle] /\ loop = Select /\ now = 0
      /\ lastWants = [num |-> -1, den |-> 1] /\ demand = [num |-> 1, den |-> 1]
      /\ variant \in {"qps", "bucket"} /\ waiting = [u \in BucketUsers |-> Awake]
    BY DEF Init, NewAdaptiveQPS, NewAdaptiveBucket, NewStatistics, BucketInit
<1>2. Uses(times)
    BY <1>1, WindowAssumption DEF Uses
<1>3. Idle.at = "idle" /\ Select.at = "select"
    BY DEF Idle, Select
<1>4. Entering(Idle)
    BY <1>3 DEF Entering
<1> QED BY <1>1, <1>2, <1>3, <1>4 DEF StatsInv

(* Time goes on, and what has happened has happened.                        *)
LEMMA UsesLater ==
    ASSUME now \in Nat, now' \in Nat, now <= now', NEW s, Uses(s)
    PROVE  Uses(s)'
<1>1. /\ s \in Seq(Nat) /\ Len(s) <= MaxUses /\ \A k \in 1..Len(s) : s[k] <= now
      /\ \A k \in 1..Len(s) : s[k] \in Nat
    BY DEF Uses
<1>2. \A k \in 1..Len(s) : s[k] <= now'
    BY <1>1
<1> QED BY <1>1, <1>2 DEF Uses

LEMMA EnteringLater ==
    ASSUME now \in Nat, now' \in Nat, now <= now', NEW e, Entering(e)
    PROVE  Entering(e)'
<1>1. e.at = "storing" => Uses(e.uses)'
    BY UsesLater DEF Entering
<1>2. e.at = "sending" => e.time \in Nat /\ e.time <= now'
    BY DEF Entering
<1> QED BY <1>1, <1>2 DEF Entering

(* One user enters, or goes on, and the others stay as they are.            *)
LEMMA OneEnters ==
    ASSUME StatsInv, CountsAreRight, NEW u \in BucketUsers, NEW e,
           entering' = [entering EXCEPT ![u] = e],
           variant' = variant, now' = now,
           \A v \in BucketUsers : v # u => waiting'[v] = waiting[v],
           Entering(e), e.at = "sending" <=> (variant = "qps" /\ e # Idle),
           e # Idle \/ variant = "qps" => waiting'[u] = Awake
    PROVE  \A v \in BucketUsers :
              /\ Entering(entering[v])'
              /\ entering'[v].at = "sending" <=> (variant' = "qps" /\ entering'[v] # Idle)
              /\ entering'[v] # Idle => waiting'[v] = Awake
              /\ variant' = "qps" => waiting'[v] = Awake
<1> SUFFICES ASSUME NEW v \in BucketUsers
             PROVE  /\ Entering(entering[v])'
                    /\ entering'[v].at = "sending" <=> (variant' = "qps" /\ entering'[v] # Idle)
                    /\ entering'[v] # Idle => waiting'[v] = Awake
                    /\ variant' = "qps" => waiting'[v] = Awake
    OBVIOUS
<1>1. \A x : Entering(x)' <=> Entering(x)
    BY DEF Entering, Uses
<1>2. CASE v = u
    <2>1. entering'[u] = e
        BY DEF CountsAreRight
    <2> QED BY <1>1, <1>2, <2>1
<1>3. CASE v # u
    <2>1. entering'[v] = entering[v] /\ waiting'[v] = waiting[v]
        BY <1>3 DEF CountsAreRight
    <2> QED BY <1>1, <2>1 DEF StatsInv
<1> QED BY <1>2, <1>3

(* A user enters a limiter of a resource, and is recorded.                  *)
LEMMA QPSUse ==
    ASSUME StatsInv, CountsAreRight, IInv, NEW u \in BucketUsers, Enter(u) \/ Record(u)
    PROVE  StatsInv'
<1>1. /\ variant = "qps" /\ UNCHANGED <<variant, now, waiting, loop, lastWants, demand>>
      /\ now \in Nat /\ waiting[u] = Awake
    BY DEF Enter, Record, bucketVars, StatsInv, IInv, BucketOK
<1>2. \A s : Uses(s) => Uses(s)'
    BY <1>1 DEF Uses
<1>3. CASE Enter(u)
    <2> DEFINE e == [at |-> "sending", time |-> now]
    <2>1. entering' = [entering EXCEPT ![u] = e] /\ times' = times
        BY <1>3 DEF Enter
    <2>2. Entering(e) /\ e.at = "sending" /\ e # Idle
        BY <1>1 DEF Entering, Idle
    <2> HIDE DEF e
    <2>3. \A v \in BucketUsers :
              /\ Entering(entering[v])'
              /\ entering'[v].at = "sending" <=> (variant' = "qps" /\ entering'[v] # Idle)
              /\ entering'[v] # Idle => waiting'[v] = Awake
              /\ variant' = "qps" => waiting'[v] = Awake
        BY <1>1, <2>1, <2>2, OneEnters
    <2> QED BY <1>1, <1>2, <2>1, <2>3 DEF StatsInv
<1>4. CASE Record(u)
    <2>1. /\ entering' = [entering EXCEPT ![u] = Idle] /\ times' = Append(times, entering[u].time)
          /\ entering[u] # Idle /\ Len(times) < MaxUses
        BY <1>4 DEF Record
    <2>2. entering[u].time \in Nat /\ entering[u].time <= now
        BY <1>1, <2>1 DEF StatsInv, Entering
    <2>3. Uses(times')
        <3>1. times \in Seq(Nat) /\ Len(times) \in Nat /\ \A k \in 1..Len(times) : times[k] <= now
            BY DEF StatsInv, Uses
        <3> QED BY <2>1, <2>2, <3>1, WindowAssumption DEF Uses
    <2>4. Entering(Idle) /\ Idle.at # "sending"
        BY DEF Entering, Idle
    <2>5. \A v \in BucketUsers :
              /\ Entering(entering[v])'
              /\ entering'[v].at = "sending" <=> (variant' = "qps" /\ entering'[v] # Idle)
              /\ entering'[v] # Idle => waiting'[v] = Awake
              /\ variant' = "qps" => waiting'[v] = Awake
        BY <1>1, <2>1, <2>4, OneEnters
    <2> QED BY <1>1, <1>2, <2>3, <2>5 DEF StatsInv
<1> QED BY <1>3, <1>4

(* A user of a limiter of a bucket loads the uses, stores them and takes    *)
(* its tokens.                                                              *)
LEMMA BucketUse ==
    ASSUME StatsInv, CountsAreRight, IInv, NEW u \in BucketUsers,
           LoadTimes(u) \/ StoreTimes(u) \/ TakeTokens(u)
    PROVE  StatsInv'
<1>1. /\ variant = "bucket" /\ UNCHANGED <<variant, now, loop, lastWants, demand>>
      /\ waiting[u] = Awake /\ now \in Nat
    <2>1. variant = "bucket" /\ waiting[u] = Awake
        BY DEF LoadTimes, StoreTimes, TakeTokens, StatsInv, Idle
    <2>2. UNCHANGED <<variant, now, loop, lastWants, demand>>
        BY DEF LoadTimes, StoreTimes, TakeTokens, WaitFor, TakeAvailable, bucketVars
    <2> QED BY <2>1, <2>2 DEF IInv, BucketOK
<1>2. \A s : Uses(s) <=> Uses(s)'
    BY <1>1 DEF Uses
<1> DEFINE Rest == \A v \in BucketUsers :
              /\ Entering(entering[v])'
              /\ entering'[v].at = "sending" <=> (variant' = "qps" /\ entering'[v] # Idle)
              /\ entering'[v] # Idle => waiting'[v] = Awake
              /\ variant' = "qps" => waiting'[v] = Awake
<1>3. ASSUME Uses(times') , Rest PROVE StatsInv'
    BY <1>1, <1>2, <1>3 DEF StatsInv
<1>4. CASE LoadTimes(u)
    <2>1. PICK count \in 1..MaxCount :
             /\ Len(times) + count <= MaxUses
             /\ entering' = [entering EXCEPT ![u] = [at |-> "storing", uses |-> times \o Repeat(now, count),
                                                     count |-> count]]
        BY <1>4 DEF LoadTimes
    <2> DEFINE uses == times \o Repeat(now, count)
               e == [at |-> "storing", uses |-> uses, count |-> count]
    <2>2. Uses(uses)
        <3>1. times \in Seq(Nat) /\ Len(times) \in Nat /\ \A k \in 1..Len(times) : times[k] <= now
            BY DEF StatsInv, Uses
        <3> DEFINE more == Repeat(now, count)
        <3>2. more \in Seq(Nat) /\ Len(more) = count /\ \A k \in 1..count : more[k] = now
            BY <1>1, BucketAssumption DEF Repeat
        <3> HIDE DEF more
        <3>3. /\ uses \in Seq(Nat) /\ Len(uses) = Len(times) + count
              /\ \A k \in 1..(Len(times) + count) :
                    uses[k] = IF k <= Len(times) THEN times[k] ELSE more[k - Len(times)]
            BY <3>1, <3>2, ConcatProperties DEF more
        <3> HIDE DEF uses
        <3>4. ASSUME NEW k \in 1..Len(uses) PROVE uses[k] <= now
            <4>1. CASE k <= Len(times)
                <5>1. k \in 1..Len(times) /\ k \in 1..(Len(times) + count)
                    BY <3>1, <3>3, <4>1
                <5>2. uses[k] = times[k]
                    BY <3>3, <4>1, <5>1
                <5> QED BY <3>1, <5>1, <5>2
            <4>2. CASE ~(k <= Len(times))
                <5>1. k - Len(times) \in 1..count /\ k \in 1..(Len(times) + count)
                    BY <3>1, <3>3, <4>2
                <5>2. uses[k] = more[k - Len(times)]
                    BY <3>3, <4>2, <5>1
                <5> QED BY <1>1, <3>2, <5>1, <5>2
            <4> QED BY <4>1, <4>2
        <3> QED BY <2>1, <3>3, <3>4 DEF Uses
    <2> HIDE DEF uses
    <2>3. Entering(e) /\ e.at # "sending" /\ e # Idle
        BY <2>2 DEF Entering, Idle
    <2>4. entering' = [entering EXCEPT ![u] = e] /\ UNCHANGED <<times, waiting>>
        BY <1>4, <2>1 DEF LoadTimes, bucketVars, uses
    <2> HIDE DEF e
    <2>5. Rest
        BY <1>1, <2>3, <2>4, OneEnters
    <2>6. Uses(times')
        BY <2>4 DEF StatsInv
    <2> QED BY <1>3, <2>5, <2>6
<1>5. CASE StoreTimes(u)
    <2> DEFINE e == [at |-> "taking", count |-> entering[u].count]
    <2>1. entering' = [entering EXCEPT ![u] = e] /\ times' = entering[u].uses /\ waiting' = waiting
          /\ entering[u].at = "storing"
        BY <1>5 DEF StoreTimes, bucketVars
    <2>2. Entering(e) /\ e.at # "sending" /\ e # Idle
        BY DEF Entering, Idle
    <2> HIDE DEF e
    <2>3. Rest
        BY <1>1, <2>1, <2>2, OneEnters
    <2>4. Uses(times')
        BY <2>1 DEF StatsInv, Entering
    <2> QED BY <1>3, <2>3, <2>4
<1>6. CASE TakeTokens(u)
    <2>1. entering' = [entering EXCEPT ![u] = Idle] /\ times' = times
        BY <1>6 DEF TakeTokens
    <2>2. Entering(Idle) /\ Idle.at # "sending"
        BY DEF Entering, Idle
    <2>3. \A v \in BucketUsers : v # u => waiting'[v] = waiting[v]
        BY <1>6 DEF TakeTokens, WaitFor, TakeAvailable, TakeNow, TakeOnCredit, TakeNothing, IInv, BucketOK
    <2>4. Rest
        BY <1>1, <2>1, <2>2, <2>3, OneEnters
    <2>5. Uses(times')
        BY <2>1 DEF StatsInv
    <2> QED BY <1>3, <2>4, <2>5
<1> QED BY <1>4, <1>5, <1>6

LEMMA StatsStep ==
    ASSUME StatsInv, CountsAreRight, IInv, [Next]_vars
    PROVE  StatsInv'
<1>1. CASE \E u \in BucketUsers : Enter(u) \/ Record(u)
    BY <1>1, QPSUse
<1>2. CASE \E u \in BucketUsers : LoadTimes(u) \/ StoreTimes(u) \/ TakeTokens(u)
    BY <1>2, BucketUse
<1>3. ASSUME UNCHANGED now PROVE \A s : Uses(s) <=> Uses(s)'
    BY <1>3 DEF Uses
<1>4. ASSUME UNCHANGED <<bucketVars, variant, entering>>,
             Uses(times)', loop'.at \in {"select", "clear", "closed", "panicked"},
             loop'.at = "clear" => Uses(loop'.copy), lastWants'.den \in Nat, demand'.den \in Nat
      PROVE  StatsInv'
    <2>1. UNCHANGED <<now, waiting, variant, entering>>
        BY <1>4 DEF bucketVars
    <2>2. \A s : Uses(s) <=> Uses(s)'
        BY <1>3, <2>1
    <2>3. \A e : Entering(e) <=> Entering(e)'
        BY <2>1, <2>2 DEF Entering
    <2> QED BY <1>4, <2>1, <2>2, <2>3 DEF StatsInv
<1>5. CASE AskForWants
    <2>1. Uses(times')
        BY <1>5, LiveUses DEF AskForWants, StatsInv, IInv, BucketOK
    <2>2. UNCHANGED <<bucketVars, variant, entering, loop>> /\ lastWants' = QPSWants(times')
          /\ demand' \in {demand, lastWants'}
        BY <1>5 DEF AskForWants
    <2>3. QPSWants(times').den \in Nat
        <3> DEFINE n == Len(times')
        <3>1. n \in Nat
            BY <2>1 DEF Uses
        <3>2. n * (n + 1) \in Nat
            BY <3>1
        <3> DEFINE m == n * (n + 1)
        <3> HIDE DEF m
        <3>3. m \div 2 \in Nat
            BY <3>2, QuotientNat DEF m
        <3> QED BY <3>3 DEF QPSWants, m
    <2>4. Uses(times)'
        BY <1>3, <2>1, <2>2 DEF bucketVars, Uses
    <2> QED BY <1>4, <2>2, <2>3, <2>4 DEF StatsInv
<1>6. CASE Close \/ SendToClosed
    <2>1. UNCHANGED <<bucketVars, variant, times, entering, lastWants, demand>> /\ loop' \in {Closed, Panicked}
        BY <1>6 DEF Close, SendToClosed
    <2>2. loop'.at \in {"closed", "panicked"}
        BY <2>1 DEF Closed, Panicked
    <2>3. Uses(times)'
        BY <2>1 DEF StatsInv, bucketVars, Uses
    <2> QED BY <1>4, <2>1, <2>2, <2>3 DEF StatsInv
<1>7. CASE LoadToClear
    <2>1. UNCHANGED <<bucketVars, variant, times, entering, lastWants, demand>> /\ loop' = Clearing(times)
        BY <1>7 DEF LoadToClear
    <2>2. loop'.at = "clear" /\ loop'.copy = times
        BY <2>1 DEF Clearing
    <2>3. Uses(times)' /\ Uses(times)
        BY <2>1 DEF StatsInv, bucketVars, Uses
    <2> QED BY <1>4, <2>1, <2>2, <2>3 DEF StatsInv
<1>8. CASE KeepLastWants
    <2>1. /\ UNCHANGED <<bucketVars, variant, entering, demand>> /\ loop' = Select
          /\ times' = Live(loop.copy) /\ lastWants' = BucketWants(times') /\ loop.at = "clear"
        BY <1>8 DEF KeepLastWants
    <2>2. Uses(times')
        BY <2>1, LiveUses DEF StatsInv, IInv, BucketOK
    <2>3. loop'.at = "select" /\ lastWants'.den = 1
        BY <2>1 DEF Select, BucketWants
    <2>4. Uses(times)'
        BY <2>1, <2>2 DEF bucketVars, Uses
    <2> QED BY <1>4, <2>1, <2>3, <2>4 DEF StatsInv
<1>9. CASE \E u \in BucketUsers : Wake(u)
    <2>1. PICK u \in BucketUsers : Wake(u)
        BY <1>9
    <2>2. UNCHANGED <<now, statVars>> /\ waiting' = [waiting EXCEPT ![u] = Awake]
        BY <2>1 DEF Wake, SleepEnds
    <2>3. waiting \in [BucketUsers -> [count : Nat, endTick : Nat]]
        BY DEF IInv, BucketOK
    <2>4. \A v \in BucketUsers : waiting[v] = Awake => waiting'[v] = Awake
        BY <2>2, <2>3
    <2>5. \A s : Uses(s) <=> Uses(s)'
        BY <1>3, <2>2
    <2>6. \A e : Entering(e) <=> Entering(e)'
        BY <2>2, <2>5 DEF Entering
    <2> QED BY <2>2, <2>4, <2>5, <2>6 DEF StatsInv, statVars
<1>10. CASE ClockTick
    <2>1. UNCHANGED <<waiting, statVars>> /\ now \in Nat /\ now' \in Nat /\ now <= now'
        BY <1>10 DEF ClockTick, BucketTick, IInv, BucketOK
    <2>2. \A s : Uses(s) => Uses(s)'
        BY <2>1, UsesLater
    <2>3. \A e : Entering(e) => Entering(e)'
        BY <2>1, EnteringLater
    <2> QED BY <2>1, <2>2, <2>3 DEF StatsInv, statVars
<1>11. CASE UNCHANGED vars
    <2>1. UNCHANGED <<bucketVars, variant, times, entering, loop, lastWants, demand>>
        BY <1>11 DEF vars, statVars
    <2>2. Uses(times)'
        BY <2>1 DEF StatsInv, bucketVars, Uses
    <2> QED BY <1>4, <2>1, <2>2 DEF StatsInv
<1> QED BY <1>1, <1>2, <1>5, <1>6, <1>7, <1>8, <1>9, <1>10, <1>11 DEF Next

LEMMA StatsInvariant == Spec => [](StatsInv /\ CountsAreRight /\ IInv)
<1>1. Init => StatsInv /\ CountsAreRight /\ IInv
    BY StatsInitially, CountsInitially, InitKeeps DEF Init
<1>2. StatsInv /\ CountsAreRight /\ IInv /\ [Next]_vars => (StatsInv /\ CountsAreRight /\ IInv)'
    <2>1. StatsInv /\ CountsAreRight /\ IInv /\ [Next]_vars => StatsInv'
        BY StatsStep
    <2> QED BY <2>1, CountsKept, StepsOfTheBucket, NextKeeps
<1> QED BY <1>1, <1>2, PTL DEF Spec

(* The adaptive limiters remember only what has happened, no more of it     *)
(* than they may, and a user that is recorded does not sleep at the same    *)
(* time: for both limiters, any window, rate and number of users.           *)
THEOREM StatisticsTypeCorrect == Spec => []TypeOK
<1>1. StatsInv /\ IInv => TypeOK
    BY DEF StatsInv, IInv, TypeOK, Uses
<1> QED BY <1>1, StatsInvariant, PTL

-----------------------------------------------------------------------------
(* The demand of a resource that is used. *)

LEMMA FrequencyFacts ==
    ASSUME NEW s, Len(s) \in Nat, NEW i \in Int
    PROVE  /\ Frequency(s, i) \in Nat
           /\ (\E k \in 1..Len(s) : (now - s[k]) \div TimeRange = i) => Frequency(s, i) >= 1
<1> DEFINE S == {k \in 1..Len(s) : (now - s[k]) \div TimeRange = i}
<1>1. IsFiniteSet(1..Len(s)) /\ S \in SUBSET (1..Len(s))
    BY FS_Interval
<1>2. IsFiniteSet(S) /\ Cardinality(S) \in Nat
    BY <1>1, FS_Subset, FS_CardinalityType
<1>3. S # {} => Cardinality(S) # 0
    BY <1>2, FS_EmptySet
<1>4. Frequency(s, i) = Cardinality(S)
    BY DEF Frequency
<1>5. (\E k \in 1..Len(s) : (now - s[k]) \div TimeRange = i) => S # {}
    OBVIOUS
<1> HIDE DEF S
<1> QED BY <1>2, <1>3, <1>4, <1>5

(* A recent use weighs something in what the limiter wants.                 *)
LEMMA RecentUseCounts ==
    ASSUME NEW s, Uses(s), now \in Nat, NEW k \in 1..Len(s), Recent(s[k])
    PROVE  QPSWants(s).num \in Int /\ QPSWants(s).num > 0 /\ QPSWants(s).den > 0
<1>1. s \in Seq(Nat) /\ Len(s) \in Nat /\ Len(s) >= 1 /\ s[k] \in Nat /\ s[k] <= now
    BY DEF Uses
<1> DEFINE a == now - s[k]
           i == a \div TimeRange
           f == [m \in 1..WinSize |-> Frequency(s, m - 1) * Weight(m - 1)]
<1>2. TimeRange \in Nat \ {0} /\ WinSize \in Nat
    BY BucketAssumption, WindowAssumption
<1>3. a \in Nat /\ a < WinSize * TimeRange
    BY <1>1 DEF Recent
<1> HIDE DEF a
<1>4. i \in Nat /\ TimeRange * i <= a
    BY <1>2, <1>3, Quotient, QuotientNat
<1> HIDE DEF i
<1>5. i < WinSize
    <2> SUFFICES ASSUME WinSize <= i PROVE FALSE
        BY <1>2, <1>4
    <2>1. WinSize * TimeRange <= i * TimeRange
        BY <1>2, <1>4, TimesMonotone
    <2>2. i * TimeRange = TimeRange * i /\ i * TimeRange \in Int /\ WinSize * TimeRange \in Int
        BY <1>2, <1>4
    <2> QED BY <1>3, <1>4, <2>1, <2>2
<1>6. ASSUME NEW m \in 1..WinSize
      PROVE  Frequency(s, m - 1) \in Nat /\ Weight(m - 1) \in Nat /\ Weight(m - 1) >= 1
    <2>1. \A j \in Int : Frequency(s, j) \in Nat
        BY <1>1, FrequencyFacts
    <2>2. m - 1 \in Int /\ WinSize - (m - 1) >= 1 /\ WinSize - (m - 1) \in Nat
        BY <1>2
    <2> QED BY <2>1, <2>2 DEF Weight
<1>7. f \in [1..WinSize -> Int] /\ \A m \in 1..WinSize : f[m] >= 0
    <2>1. \A m \in 1..WinSize : Frequency(s, m - 1) * Weight(m - 1) \in Nat
        BY <1>6
    <2> QED BY <2>1
<1>8. f[i + 1] >= 1 /\ i + 1 \in 1..WinSize
    <2>1. i + 1 \in 1..WinSize /\ (i + 1) - 1 = i
        BY <1>2, <1>4, <1>5
    <2>2. Frequency(s, i) >= 1 /\ Frequency(s, i) \in Nat
        BY <1>1, <1>4, FrequencyFacts DEF i, a
    <2>3. Weight(i) \in Nat /\ Weight(i) >= 1
        BY <1>6, <2>1
    <2>4. 1 * Weight(i) <= Frequency(s, i) * Weight(i) /\ Frequency(s, i) * Weight(i) \in Int
        BY <2>2, <2>3, TimesMonotone
    <2>5. f[i + 1] = Frequency(s, i) * Weight(i)
        BY <2>1
    <2> HIDE DEF f
    <2> QED BY <2>1, <2>3, <2>4, <2>5
<1> DEFINE p == [m \in 1..WinSize |-> IF m = i + 1 THEN f[i + 1] ELSE 0]
<1>9. p \in [1..WinSize -> Int] /\ p[i + 1] = f[i + 1]
      /\ \A m \in 1..WinSize : p[m] <= f[m] /\ (m # i + 1 => p[m] = 0)
    <2> HIDE DEF f
    <2> QED BY <1>7, <1>8
<1>10. QPSWants(s).num = Sum(f, WinSize)
    BY DEF QPSWants
<1> HIDE DEF f, p
<1>11. Sum(p, WinSize) = f[i + 1]
    BY <1>2, <1>8, <1>9, SumPoint
<1>12. Sum(p, WinSize) <= Sum(f, WinSize)
    BY <1>2, <1>7, <1>9, SumMonotone
<1>13. Sum(f, WinSize) \in Int
    BY <1>2, <1>7, SumInt
<1>14. QPSWants(s).den > 0
    <2> DEFINE n == Len(s)
               q == n * (n + 1)
    <2>1. 1 * (n + 1) <= n * (n + 1) /\ n * (n + 1) \in Nat
        BY <1>1, TimesMonotone
    <2>2. q \in Nat /\ q >= 2
        BY <1>1, <2>1
    <2> HIDE DEF q
    <2>3. q \div 2 > 0
        BY <2>2
    <2> QED BY <2>3 DEF QPSWants, q
<1> QED BY <1>7, <1>8, <1>10, <1>11, <1>12, <1>13, <1>14

(* Whenever the limiter of a resource has been used within its window, and  *)
(* its uses are in order, what it asks for is positive, for every window:   *)
(* clearing old uses by halving (Live) leaves the recent ones.              *)
THEOREM UseIsAlwaysDemanded == Spec => UseIsDemanded
<1>1. ASSUME StatsInv, IInv, AskForWants, InOrder(times), \E k \in 1..Len(times) : Recent(times[k])
      PROVE  demand' = lastWants' /\ lastWants'.num > 0
    <2>1. times \in Seq(Nat) /\ Len(times) \in Nat /\ now \in Nat
        BY <1>1 DEF StatsInv, Uses, IInv, BucketOK
    <2>2. PICK k \in 1..Len(times) : Recent(times[k])
        BY <1>1
    <2>3. PICK r \in 0..Len(times) :
              /\ Live(times) = SubSeq(times, r + 1, Len(times))
              /\ r < Len(times) => Recent(times[r + 1])
              /\ r > 0 => ~Recent(times[r])
        BY <2>1, LiveIsTail
    <2>4. times[k] <= times[Len(times)]
        <3> DEFINE S == {n \in Nat : k + n <= Len(times) => times[k] <= times[k + n]}
        <3>1. \A m \in 1..Len(times) : times[m] \in Nat
            BY <2>1
        <3>2. 0 \in S
            BY <3>1
        <3>3. ASSUME NEW n \in Nat, n \in S PROVE n + 1 \in S
            <4> SUFFICES ASSUME k + (n + 1) <= Len(times) PROVE times[k] <= times[k + (n + 1)]
                OBVIOUS
            <4>1. times[k] <= times[k + n]
                BY <2>1, <3>3
            <4> DEFINE m == k + (n + 1)
            <4>2. m \in 1..Len(times) /\ m > 1 /\ m - 1 = k + n /\ k + n \in 1..Len(times)
                BY <2>1
            <4> HIDE DEF m
            <4>3. times[m - 1] <= times[m]
                BY <1>1, <4>2 DEF InOrder
            <4> QED BY <3>1, <4>1, <4>2, <4>3 DEF m
        <3>4. Nat \subseteq S
            <4> HIDE DEF S
            <4> QED BY <3>2, <3>3, SetInduction
        <3>5. Len(times) - k \in Nat /\ k + (Len(times) - k) = Len(times)
            BY <2>1
        <3>6. Len(times) - k \in S
            BY <3>4, <3>5
        <3> QED BY <3>5, <3>6
    <2>5. Recent(times[Len(times)])
        BY <2>1, <2>2, <2>4, BucketAssumption, WindowAssumption DEF Recent
    <2>6. r < Len(times)
        BY <2>1, <2>3, <2>5
    <2> DEFINE l == Live(times)
    <2>7. Uses(l) /\ l = times'
        BY <1>1, <2>1, LiveUses DEF StatsInv, AskForWants
    <2>8. Len(l) = Len(times) - r /\ \A m \in 1..Len(l) : l[m] = times[m + r]
        <3>1. l = SubSeq(times, r + 1, Len(times))
            BY <2>3
        <3> HIDE DEF l
        <3> QED BY <2>1, <3>1, TailOf
    <2> HIDE DEF l
    <2>9. 1 \in 1..Len(l) /\ Recent(l[1])
        BY <2>1, <2>3, <2>6, <2>8
    <2>10. QPSWants(l).num \in Int /\ QPSWants(l).num > 0 /\ QPSWants(l).den > 0
        BY <2>1, <2>7, <2>9, RecentUseCounts
    <2>11. lastWants' = QPSWants(l) /\ demand' = IF Refused(lastWants') THEN demand ELSE lastWants'
        BY <1>1, <2>7 DEF AskForWants
    <2> QED BY <2>10, <2>11 DEF Refused
<1>2. StatsInv /\ IInv => [AskForWants /\ InOrder(times) /\ (\E k \in 1..Len(times) : Recent(times[k]))
                             => demand' = lastWants' /\ lastWants'.num > 0]_vars
    BY <1>1
<1> QED BY <1>2, StatsInvariant, PTL DEF UseIsDemanded

-----------------------------------------------------------------------------
Limiter ==
    [capacity : Int, rate : Int, interval : Nat, subintervals : Nat,
     released : Nat, leftover : Int, original : Nat]

\* The limiter lets nobody pass, or everybody at once.
NotPaced(l) == l.rate <= 0 /\ l.leftover = 0 /\ l.original = 0

\* Every interval has the same number of requests.
PacedEvenly(l) ==
    /\ l.rate > 0 /\ l.capacity > 0 /\ l.leftover = 0 /\ l.original = 0
    /\ l.capacity * l.interval <= 1000 * l.rate
    /\ 1000 * l.rate <= 2 * (l.capacity + 1) * l.interval

\* A second has 50 intervals, and `original' requests that these do not share.
PacedUnevenly(l) ==
    /\ l.rate > 0 /\ l.subintervals = 50 /\ l.interval >= 10
    /\ l.original <= 49 /\ l.capacity = 50 * l.rate + l.original
    /\ l.capacity * l.interval <= 1000 * l.rate
    /\ l.leftover >= -1
    /\ l.leftover > 0 => l.leftover <= l.original - l.released

\* What the limiter offers beyond twice its capacity in the rest of a cycle
\* makes up for it.
Budget(l) == 20 * ((l.original + 1) * (51 - l.released))

WithinBudget(l, excess) ==
    excess + (IF l.leftover > 0 THEN 1000 * (l.leftover + 1) ELSE 0) <= Budget(l)

LimiterInv ==
    /\ limiter \in Limiter /\ limiter.capacity \in Capacities \cup {0}
    /\ limiter.rate >= -1 /\ limiter.released <= limiter.subintervals
    /\ offered \in [missing : {0}, excess : Nat]
    /\ \/ NotPaced(limiter) /\ offered.excess = 0
       \/ PacedEvenly(limiter) /\ offered.excess = 0
       \/ PacedUnevenly(limiter) /\ WithinBudget(limiter, offered.excess)
    /\ fired \in BOOLEAN /\ (fired => limiter.rate > 0)

Places == {"idle", "asking", "answered", "parking", "parked", "receiving"}

\* The goroutines in q are those parked, each once.
Queued(q, at) ==
    /\ q \in Seq(Users) /\ at \in [Users -> Places]
    /\ \A i, j \in 1..Len(q) : q[i] = q[j] => i = j
    /\ \A u \in Users : at[u] = "parked" <=> \E i \in 1..Len(q) : q[i] = u

\* Where run() may be.
RunPlaces == {Selecting, Ended} \cup {Answering(u) : u \in Users} \cup {Handing(u) : u \in Users}

UsersInv ==
    /\ Queued(parked, user) /\ cancelled \subseteq Users
    /\ run \in RunPlaces
    /\ \A u \in Users : run = Answering(u) => user[u] = "answered"

CountsInv ==
    /\ updates \in 0..MaxUpdates /\ cancels \in 0..MaxCancels
    /\ closer \in {"none", "closing", "closed"} /\ resource \in {"held", "released"}

QPSInv == LimiterInv /\ UsersInv /\ CountsInv

-----------------------------------------------------------------------------
(* The rates that recalculate and update work out. *)

(* An interval of a second's c-th part, rounded down, is at most half too    *)
(* short.                                                                   *)
LEMMA PartOfASecond ==
    ASSUME NEW c \in 1..49
    PROVE  /\ 1000 \div c \in Nat
           /\ c * (1000 \div c) <= 1000 /\ 1000 <= 2 * (c + 1) * (1000 \div c)
<1> DEFINE i == 1000 \div c
<1>1. i \in Nat /\ c * i <= 1000 /\ 1000 < c * i + c
    BY Quotient, QuotientNat
<1> HIDE DEF i
<1>2. 2 * (c + 1) * i = 2 * (c * i) + 2 * i /\ c * i \in Int
    BY <1>1
<1> QED BY <1>1, <1>2 DEF i

(* A capacity of fifty or more: intervals of at least ten milliseconds.     *)
LEMMA PartOfTheRate ==
    ASSUME NEW a \in Nat, NEW c \in Nat \ {0}, 10 * c <= a
    PROVE  /\ a \div c \in Nat /\ a \div c >= 10
           /\ c * (a \div c) <= a
<1> DEFINE i == a \div c
<1>1. i \in Nat /\ c * i <= a /\ a < c * i + c
    BY Quotient, QuotientNat
<1> HIDE DEF i
<1>2. i >= 10
    <2> SUFFICES ASSUME i + 1 <= 10 PROVE FALSE
        BY <1>1
    <2>1. (i + 1) * c <= 10 * c
        BY <1>1, TimesMonotone
    <2>2. (i + 1) * c = c * i + c /\ c * i \in Int
        BY <1>1
    <2> QED BY <1>1, <2>1, <2>2
<1> QED BY <1>1, <1>2 DEF i

(* A new capacity starts a cycle at its rate, whatever rate there was.      *)
LEMMA UpdateKeeps ==
    ASSUME LimiterInv, NEW capacity \in Capacities \cup {0}, Update(capacity)
    PROVE  LimiterInv'
<1> DEFINE new == NewRate(capacity)
           l == [capacity |-> capacity, rate |-> new.rate, interval |-> new.interval,
                 subintervals |-> new.subintervals, released |-> 0,
                 leftover |-> new.leftover, original |-> new.leftover]
<1>1. limiter' = l /\ fired' = FALSE /\ offered' = InRate
    BY DEF Update
<1>2. capacity \in Int /\ limiter.subintervals \in Nat /\ limiter.interval \in Nat
    BY CapacitiesAssumption DEF LimiterInv, Limiter
<1>3. /\ l \in Limiter /\ l.rate >= -1
      /\ NotPaced(l) \/ PacedEvenly(l) \/ (PacedUnevenly(l) /\ WithinBudget(l, 0))
    <2>1. CASE capacity <= 0
        <3>1. new = [rate |-> IF capacity < 0 THEN -1 ELSE 0, leftover |-> 0,
                     subintervals |-> limiter.subintervals, interval |-> limiter.interval]
            BY <1>2, <2>1 DEF NewRate
        <3> HIDE DEF new
        <3> QED BY <1>2, <3>1 DEF Limiter, NotPaced
    <2>2. CASE capacity \in 1..10
        <3> DEFINE i == 1000 \div capacity
        <3>1. i \in Nat /\ capacity * i <= 1000 /\ 1000 <= 2 * (capacity + 1) * i
            BY <2>2, PartOfASecond
        <3> HIDE DEF i
        <3>2. new = [rate |-> 1, leftover |-> 0, subintervals |-> limiter.subintervals, interval |-> i]
            BY <2>2 DEF NewRate, Recalculate, i
        <3> HIDE DEF new
        <3> QED BY <1>2, <2>2, <3>1, <3>2 DEF Limiter, PacedEvenly
    <2>3. CASE capacity \in 11..49
        <3> DEFINE i == 1000 \div capacity
        <3>1. i \in Nat /\ capacity * i <= 1000 /\ 1000 <= 2 * (capacity + 1) * i
            BY <2>3, PartOfASecond
        <3>2. 1000 \div 20 = 50 /\ capacity \div capacity = 1 /\ capacity % capacity = 0 /\ 1 * 1000 = 1000
            BY <2>3
        <3>3. new = [rate |-> 1, leftover |-> 0, subintervals |-> capacity, interval |-> i]
            BY <2>3, <3>2 DEF NewRate, Recalculate
        <3> HIDE DEF i, new
        <3> QED BY <1>2, <2>3, <3>1, <3>3 DEF Limiter, PacedEvenly
    <2>4. CASE capacity >= 50
        <3> DEFINE r == capacity \div 50
                   rest == capacity % 50
                   i == (r * 1000) \div capacity
        <3>1. r \in Nat /\ r > 0 /\ rest \in 0..49 /\ capacity = 50 * r + rest /\ 1000 \div 20 = 50
            BY <1>2, <2>4
        <3>2. new = [rate |-> r, leftover |-> rest, subintervals |-> 50, interval |-> i]
            BY <1>2, <2>4, <3>1 DEF NewRate, Recalculate
        <3> HIDE DEF new, r, rest
        <3>3. i \in Nat /\ i >= 10 /\ capacity * i <= 1000 * r
            <4> DEFINE a == r * 1000
            <4>1. a \in Nat /\ capacity \in Nat \ {0} /\ 10 * capacity <= a /\ a = 1000 * r
                BY <1>2, <2>4, <3>1
            <4> HIDE DEF a
            <4>2. a \div capacity \in Nat /\ a \div capacity >= 10 /\ capacity * (a \div capacity) <= a
                BY <4>1, PartOfTheRate
            <4> QED BY <4>1, <4>2 DEF a
        <3> HIDE DEF i
        <3>4. l \in Limiter /\ PacedUnevenly(l)
            BY <1>2, <3>1, <3>2, <3>3 DEF Limiter, PacedUnevenly
        <3>5. WithinBudget(l, 0)
            BY <3>1, <3>2 DEF WithinBudget, Budget
        <3> QED BY <3>1, <3>2, <3>4, <3>5
    <2> QED BY <1>2, <2>1, <2>2, <2>3, <2>4
<1>4. l.released = 0 /\ l.capacity = capacity
    OBVIOUS
<1> HIDE DEF l
<1>5. 0 <= l.subintervals
    BY <1>3 DEF Limiter
<1> QED BY <1>1, <1>3, <1>4, <1>5 DEF LimiterInv, InRate

(* What is left of the rate is spread in steps of at least one, and at most *)
(* one more than there is.                                                  *)
LEMMA StepSize ==
    ASSUME limiter \in Limiter, limiter.rate > 0, limiter.leftover > 0
    PROVE  Step \in Nat /\ Step >= 1 /\ Step <= limiter.leftover + 1
<1> DEFINE l == limiter.leftover
           r == limiter.rate
           q == l \div r
<1>1. l \in Nat /\ l > 0 /\ r \in Nat \ {0}
    BY DEF Limiter
<1> HIDE DEF l, r
<1>2. q \in Nat /\ r * q <= l
    BY <1>1, Quotient, QuotientNat
<1>3. 1 * q <= r * q
    BY <1>1, <1>2, TimesMonotone
<1>4. q <= l
    <2>1. r * q \in Int
        BY <1>1, <1>2
    <2> HIDE DEF q
    <2> QED BY <1>1, <1>2, <1>3, <2>1
<1>5. Step = q + 1
    BY DEF Step, l, r
<1> HIDE DEF q
<1> QED BY <1>1, <1>2, <1>4, <1>5 DEF l

\* What a round makes of the two amounts of `offered'.
Missing(missing, n) == AtLeast(0, missing + limiter.capacity * limiter.interval - 1000 * n)
Excess(excess, n) == AtLeast(0, excess + 1000 * n - 2 * (limiter.capacity + 1) * limiter.interval)

(* No round falls behind the rate.                                          *)
LEMMA NothingMissing ==
    ASSUME limiter \in Limiter, limiter.capacity * limiter.interval <= 1000 * limiter.rate,
           NEW n \in Int, n >= limiter.rate
    PROVE  Missing(0, n) = 0
<1>1. limiter.rate \in Int /\ limiter.capacity * limiter.interval \in Int
    BY DEF Limiter
<1> QED BY <1>1 DEF Missing, AtLeast

(* A round of fifty a second, with s requests more than the rate, gives     *)
(* back of the excess what the cycle needs for one of its intervals.        *)
LEMMA RoundExcess ==
    ASSUME limiter \in Limiter, PacedUnevenly(limiter), NEW e \in Nat, NEW s \in Nat,
           NEW n \in Int, n = limiter.rate + s
    PROVE  /\ Excess(e, n) \in Nat
           /\ Excess(e, n) = 0 \/ Excess(e, n) <= e + 1000 * s - 20 * (limiter.original + 1)
<1> DEFINE c == limiter.capacity
           i == limiter.interval
           r == limiter.rate
           x == (c + 1) * i
<1>1. c \in Nat /\ i \in Nat /\ r \in Nat /\ limiter.original \in Nat /\ i >= 10
      /\ c = 50 * r + limiter.original
    BY DEF Limiter, PacedUnevenly
<1>2. 10 * (c + 1) <= i * (c + 1)
    BY <1>1, TimesMonotone
<1>3. i * (c + 1) = x /\ x \in Int /\ 2 * (c + 1) * i = 2 * x
    BY <1>1
<1>4. Excess(e, n) = AtLeast(0, e + 1000 * n - 2 * x)
    BY <1>3 DEF Excess
<1> HIDE DEF c, i, x
<1>5. e + 1000 * n - 2 * x \in Int
    BY <1>1, <1>3
<1>6. e + 1000 * n - 2 * x <= e + 1000 * s - 20 * (limiter.original + 1)
    BY <1>1, <1>2, <1>3
<1> QED BY <1>4, <1>5, <1>6 DEF AtLeast

(* The k-th round of a cycle that spreads what is left in steps of s.       *)
LEMMA RoundBudget ==
    ASSUME NEW e \in Nat, NEW e2 \in Nat, NEW o \in 0..49, NEW k \in 0..49,
           NEW left \in Nat, left > 0, left <= o - k, NEW s \in Nat, s >= 1, s <= left + 1,
           e + 1000 * (left + 1) <= 20 * ((o + 1) * (51 - k)),
           e2 = 0 \/ e2 <= e + 1000 * s - 20 * (o + 1)
    PROVE  e2 + (IF left - s > 0 THEN 1000 * (left - s + 1) ELSE 0) <= 20 * ((o + 1) * (50 - k))
<1> DEFINE b == (o + 1) * (50 - k)
           p == (o + 1) * k
<1>1. p \in Int /\ p <= 50 * k
    BY TimesMonotone
<1>2. b = 50 * (o + 1) - p /\ (o + 1) * (51 - k) = 51 * (o + 1) - p
    OBVIOUS
<1>3. e + 1000 * (left + 1) <= 20 * (51 * (o + 1) - p)
    BY <1>2
<1> HIDE DEF b, p
<1>4. 50 * (o - k) <= b /\ b \in Int /\ b >= 0
    BY <1>1, <1>2
<1>5. CASE e2 = 0
    <2>1. 1000 * (left - s + 1) <= 1000 * (o - k)
        OBVIOUS
    <2> QED BY <1>4, <1>5, <2>1 DEF b
<1>6. CASE e2 <= e + 1000 * s - 20 * (o + 1)
    <2>1. e2 + 1000 * (left - s + 1) <= 20 * b
        BY <1>1, <1>2, <1>3, <1>6
    <2>2. e2 + 0 <= 20 * b
        BY <1>1, <1>2, <1>3, <1>6
    <2> QED BY <2>1, <2>2 DEF b
<1> QED BY <1>5, <1>6

\* What a round makes of the limiter.
Counted(l) ==
    /\ l \in Limiter
    /\ l.capacity = limiter.capacity /\ l.rate = limiter.rate /\ l.interval = limiter.interval
    /\ l.subintervals = limiter.subintervals /\ l.original = limiter.original
    /\ l.released = IF InCycle THEN limiter.released + 1 ELSE 0
    /\ l.leftover = IF ~InCycle THEN limiter.original
                    ELSE IF limiter.leftover > 0 THEN limiter.leftover - Step ELSE limiter.leftover

LEMMA WakeUpCounts ==
    ASSUME limiter \in Limiter, limiter.rate > 0, WakeUp
    PROVE  Counted(limiter')
<1>1. limiter.leftover > 0 => Step \in Nat
    BY StepSize
<1> DEFINE released == IF InCycle THEN limiter.released + 1 ELSE 0
           leftover == IF ~InCycle THEN limiter.original
                       ELSE IF limiter.leftover > 0 THEN limiter.leftover - Step ELSE limiter.leftover
<1>2. released \in Nat
    BY DEF Limiter
<1>3. leftover \in Int
    BY <1>1 DEF Limiter
<1>4. limiter' = [limiter EXCEPT !.released = released, !.leftover = leftover]
    BY DEF WakeUp
<1> HIDE DEF released, leftover
<1>5. /\ limiter' \in Limiter
      /\ limiter'.capacity = limiter.capacity /\ limiter'.rate = limiter.rate
      /\ limiter'.interval = limiter.interval
      /\ limiter'.subintervals = limiter.subintervals /\ limiter'.original = limiter.original
      /\ limiter'.released = released /\ limiter'.leftover = leftover
    BY <1>2, <1>3, <1>4 DEF Limiter
<1> QED BY <1>5 DEF Counted, released, leftover

(* A round of an uneven cycle.                                              *)
LEMMA UnevenRound ==
    ASSUME limiter \in Limiter, PacedUnevenly(limiter), limiter.released <= limiter.subintervals,
           NEW e \in Nat, WithinBudget(limiter, e), NEW l, Counted(l)
    PROVE  /\ l.released <= l.subintervals /\ PacedUnevenly(l)
           /\ Excess(e, Passes) \in Nat /\ WithinBudget(l, Excess(e, Passes))
           /\ Passes \in Int /\ Passes >= limiter.rate
<1> DEFINE k == limiter.released
           o == limiter.original
           left == limiter.leftover
           e2 == Excess(e, Passes)
<1>1. /\ limiter.rate \in Int /\ limiter.rate > 0 /\ k \in 0..50 /\ o \in 0..49 /\ left \in Int
      /\ limiter.subintervals = 50 /\ left >= -1 /\ (left > 0 => left <= o - k)
    BY DEF Limiter, PacedUnevenly
<1>2. /\ l.subintervals = 50 /\ l.original = o
      /\ l.released = (IF k < 50 THEN k + 1 ELSE 0)
      /\ l.leftover = (IF ~(k < 50) THEN o ELSE IF left > 0 THEN left - Step ELSE left)
    BY <1>1 DEF Counted, InCycle
<1>3. left > 0 => Step \in Nat /\ Step >= 1 /\ Step <= left + 1
    BY <1>1, StepSize
<1>4. 51 - (k + 1) = 50 - k /\ Budget(limiter) = 20 * ((o + 1) * (51 - k))
      /\ Budget(l) = 20 * ((o + 1) * (51 - l.released))
    BY <1>1, <1>2 DEF Budget
<1> HIDE DEF k, o, left
<1>5. l.released <= l.subintervals
    BY <1>1, <1>2
<1>6. l.leftover >= -1 /\ (l.leftover > 0 => l.leftover <= o - l.released)
    <2>1. CASE ~(k < 50)
        BY <1>1, <1>2, <2>1
    <2>2. CASE k < 50 /\ left > 0
        BY <1>1, <1>2, <1>3, <2>2
    <2>3. CASE k < 50 /\ ~(left > 0)
        BY <1>1, <1>2, <2>3
    <2> QED BY <2>1, <2>2, <2>3
<1>7. PacedUnevenly(l)
    BY <1>2, <1>6 DEF PacedUnevenly, Counted, o
<1> HIDE DEF k, o, left
<1>9. CASE k < 50 /\ left > 0
    <2>1. Passes = limiter.rate + Step
        BY <1>1, <1>9 DEF Passes, InCycle, k, left
    <2>2. Passes \in Int
        BY <1>1, <1>3, <1>9, <2>1
    <2>3. e2 \in Nat /\ (e2 = 0 \/ e2 <= e + 1000 * Step - 20 * (o + 1))
        BY <1>3, <1>9, <2>1, <2>2, RoundExcess DEF o
    <2>4. e + 1000 * (left + 1) <= 20 * ((o + 1) * (51 - k))
        BY <1>4, <1>9 DEF WithinBudget, left
    <2> HIDE DEF e2
    <2>5. k \in 0..49 /\ left \in Nat /\ left <= o - k
        BY <1>1, <1>9
    <2> DEFINE s == Step
    <2>6. s \in Nat /\ s >= 1 /\ s <= left + 1
        BY <1>3, <1>9
    <2> HIDE DEF s
    <2>7. e2 = 0 \/ e2 <= e + 1000 * s - 20 * (o + 1)
        BY <2>3 DEF s
    <2>8. e2 + (IF left - s > 0 THEN 1000 * (left - s + 1) ELSE 0) <= 20 * ((o + 1) * (50 - k))
        BY <1>1, <1>9, <2>3, <2>4, <2>5, <2>6, <2>7, RoundBudget
    <2>10. l.leftover = left - s /\ l.released = k + 1
        BY <1>2, <1>9 DEF s
    <2>11. Budget(l) = 20 * ((o + 1) * (50 - k))
        BY <1>4, <2>10
    <2>12. WithinBudget(l, e2)
        BY <2>8, <2>10, <2>11 DEF WithinBudget
    <2>9. Passes >= limiter.rate
        BY <1>1, <1>3, <1>9, <2>1
    <2> QED BY <1>5, <1>7, <2>2, <2>3, <2>9, <2>12 DEF e2
<1>10. CASE ~(k < 50 /\ left > 0)
    <2>1. Passes = limiter.rate
        BY <1>1, <1>10 DEF Passes, InCycle, k, left
    <2>2. Passes = limiter.rate + 0 /\ Passes \in Int /\ 0 \in Nat
        BY <1>1, <2>1
    <2>3. e2 \in Nat /\ (e2 = 0 \/ e2 <= e + 1000 * 0 - 20 * (o + 1))
        BY <2>2, RoundExcess DEF o
    <2> HIDE DEF e2
    <2>4. left <= 0
        BY <1>1, <1>10
    <2>5. e <= 20 * ((o + 1) * (51 - k))
        BY <1>1, <1>4, <2>4 DEF WithinBudget, left
    <2>6. CASE k < 50
        <3> DEFINE b == (o + 1) * (50 - k)
        <3>1. (o + 1) * (51 - k) = b + (o + 1) /\ b \in Int /\ b >= 0
            BY <1>1, <2>6
        <3>2. Budget(l) = 20 * b /\ l.leftover = left
            <4>1. l.released = k + 1 /\ l.leftover = left
                BY <1>1, <1>2, <2>4, <2>6
            <4> QED BY <1>4, <4>1
        <3>3. e <= 20 * (b + (o + 1))
            BY <2>5, <3>1
        <3> HIDE DEF b
        <3>4. e2 + 0 <= 20 * b
            BY <1>1, <2>3, <3>1, <3>3
        <3>5. ~(left > 0)
            BY <1>1, <2>4
        <3>6. WithinBudget(l, e2)
            BY <3>2, <3>4, <3>5 DEF WithinBudget
        <3> QED BY <1>1, <1>5, <1>7, <2>1, <2>3, <3>6 DEF e2
    <2>7. CASE ~(k < 50)
        <3>1. k = 50 /\ l.released = 0 /\ l.leftover = o
            BY <1>1, <1>2, <2>7
        <3>2. e2 = 0
            BY <1>1, <2>3, <2>5, <3>1
        <3>3. WithinBudget(l, e2)
            BY <1>1, <1>4, <3>1, <3>2 DEF WithinBudget
        <3> QED BY <1>1, <1>5, <1>7, <2>1, <2>3, <3>3 DEF e2
    <2> QED BY <2>6, <2>7
<1> QED BY <1>9, <1>10

(* A round of a cycle whose intervals are all alike.                        *)
LEMMA EvenRound ==
    ASSUME limiter \in Limiter, PacedEvenly(limiter), limiter.released <= limiter.subintervals,
           NEW l, Counted(l)
    PROVE  /\ l.released <= l.subintervals /\ PacedEvenly(l)
           /\ Excess(0, Passes) = 0
           /\ Passes \in Int /\ Passes >= limiter.rate
<1>1. limiter.rate \in Int /\ limiter.leftover = 0 /\ limiter.original = 0
    BY DEF Limiter, PacedEvenly
<1>2. Passes = limiter.rate
    BY <1>1 DEF Passes
<1>3. l.released <= l.subintervals
    BY DEF Counted, InCycle, Limiter
<1>4. PacedEvenly(l)
    BY <1>1 DEF PacedEvenly, Counted
<1>5. 1000 * limiter.rate <= 2 * (limiter.capacity + 1) * limiter.interval
      /\ 2 * (limiter.capacity + 1) * limiter.interval \in Int
    BY DEF Limiter, PacedEvenly
<1>6. Excess(0, limiter.rate) = 0
    BY <1>1, <1>5 DEF Excess, AtLeast
<1> QED BY <1>1, <1>2, <1>3, <1>4, <1>6

(* A round keeps the limiter's invariant.                                   *)
LEMMA WakeUpKeeps ==
    ASSUME LimiterInv, WakeUp
    PROVE  LimiterInv'
<1>1. limiter.rate > 0 /\ limiter \in Limiter /\ limiter.released <= limiter.subintervals
    BY DEF LimiterInv, WakeUp
<1>2. Counted(limiter')
    BY <1>1, WakeUpCounts
<1>3. offered' = [missing |-> Missing(0, Passes), excess |-> Excess(offered.excess, Passes)]
    BY DEF WakeUp, Missing, Excess, LimiterInv
<1>4. fired' = FALSE
    BY DEF WakeUp
<1>5. /\ limiter' \in Limiter
      /\ limiter'.capacity = limiter.capacity /\ limiter'.rate = limiter.rate
    BY <1>2 DEF Counted
<1>6. CASE PacedEvenly(limiter) /\ offered.excess = 0
    <2>1. /\ limiter'.released <= limiter'.subintervals /\ PacedEvenly(limiter')
          /\ Excess(0, Passes) = 0 /\ Passes \in Int /\ Passes >= limiter.rate
        BY <1>1, <1>2, <1>6, EvenRound
    <2>2. Missing(0, Passes) = 0
        BY <1>1, <1>6, <2>1, NothingMissing DEF PacedEvenly
    <2>3. offered' = [missing |-> 0, excess |-> 0]
        BY <1>3, <1>6, <2>1, <2>2
    <2> QED BY <1>1, <1>4, <1>5, <2>1, <2>3 DEF LimiterInv
<1>7. CASE PacedUnevenly(limiter) /\ WithinBudget(limiter, offered.excess)
    <2>1. offered.excess \in Nat
        BY DEF LimiterInv
    <2>2. /\ limiter'.released <= limiter'.subintervals /\ PacedUnevenly(limiter')
          /\ Excess(offered.excess, Passes) \in Nat
          /\ WithinBudget(limiter', Excess(offered.excess, Passes))
          /\ Passes \in Int /\ Passes >= limiter.rate
        BY <1>1, <1>2, <1>7, <2>1, UnevenRound
    <2>3. Missing(0, Passes) = 0
        BY <1>1, <1>7, <2>2, NothingMissing DEF PacedUnevenly
    <2>4. offered' = [missing |-> 0, excess |-> Excess(offered.excess, Passes)]
        BY <1>3, <2>3
    <2> QED BY <1>1, <1>4, <1>5, <2>2, <2>4 DEF LimiterInv
<1>8. ~NotPaced(limiter)
    BY <1>1 DEF NotPaced, Limiter
<1> QED BY <1>6, <1>7, <1>8 DEF LimiterInv

-----------------------------------------------------------------------------
(* Nothing but the loop touches the limiter. *)
LEMMA LimiterStep ==
    ASSUME LimiterInv, LimiterNext
    PROVE  LimiterInv'
<1>1. 0 \in Capacities \cup {0}
    OBVIOUS
<1>2. CASE ReceiveCapacity
    BY <1>2, UpdateKeeps DEF ReceiveCapacity
<1>3. CASE ReceiveFromClosed
    BY <1>1, <1>3, UpdateKeeps DEF ReceiveFromClosed
<1>4. CASE WakeUp
    BY <1>4, WakeUpKeeps
<1>5. CASE TimerExpires
    <2>1. UNCHANGED <<limiter, offered>> /\ fired' = TRUE /\ limiter.rate # 0 /\ ~(limiter.rate < 0)
        BY <1>5 DEF TimerExpires, Blocked, Unlimited
    <2>2. limiter.rate > 0
        BY <2>1 DEF LimiterInv, Limiter
    <2> QED BY <2>1, <2>2 DEF LimiterInv
<1>6. CASE \E u \in Users : Answer(u)
    <2>1. UNCHANGED <<limiter, offered>> /\ fired' = FALSE
        BY <1>6 DEF Answer
    <2> QED BY <2>1 DEF LimiterInv
<1>7. CASE \/ Quit \/ ReleaseResource \/ CloseLimiter
           \/ \E u \in Users : \/ TakeEvent(u) \/ Wait(u) \/ Park(u) \/ CancelContext(u)
                              \/ ReturnError(u) \/ Hand(u)
    <2>1. UNCHANGED <<limiter, offered, fired>>
        BY <1>7 DEF Quit, ReleaseResource, CloseLimiter, TakeEvent, Wait, Park, CancelContext,
                    ReturnError, Hand, loopVars
    <2> QED BY <2>1 DEF LimiterInv
<1> QED BY <1>2, <1>3, <1>4, <1>5, <1>6, <1>7 DEF LimiterNext, RunSelects, UserStep

-----------------------------------------------------------------------------
(* The parked goroutines. *)

(* The longest parked leave.                                                *)
LEMMA QueuedTail ==
    ASSUME NEW q, NEW at, Queued(q, at), NEW n \in 0..Len(q), NEW to \in [Users -> Places],
           \A u \in Users : to[u] = IF \E i \in 1..n : q[i] = u THEN "idle" ELSE at[u],
           NEW r, r = SubSeq(q, n + 1, Len(q))
    PROVE  Queued(r, to)
<1>1. q \in Seq(Users) /\ Len(q) \in Nat
    BY DEF Queued
<1>2. /\ r \in Seq(Users) /\ Len(r) = Len(q) - n
      /\ \A i \in 1..Len(r) : r[i] = q[i + n]
    BY <1>1
<1>3. \A i \in 1..Len(r) : i + n \in 1..Len(q)
    BY <1>1, <1>2
<1>4. \A i, j \in 1..Len(r) : r[i] = r[j] => i = j
    <2> TAKE i, j \in 1..Len(r)
    <2> HAVE r[i] = r[j]
    <2>1. i + n = j + n
        <3>1. i + n \in 1..Len(q) /\ j + n \in 1..Len(q) /\ q[i + n] = q[j + n]
            BY <1>2, <1>3
        <3>2. \A x, y \in 1..Len(q) : q[x] = q[y] => x = y
            BY DEF Queued
        <3> QED BY ONLY <3>1, <3>2
    <2> QED BY <1>1, <1>2, <2>1
<1>5. ASSUME NEW u \in Users
      PROVE  to[u] = "parked" <=> \E i \in 1..Len(r) : r[i] = u
    <2>1. ASSUME to[u] = "parked"
          PROVE  \E i \in 1..Len(r) : r[i] = u
        <3>1. ~(\E i \in 1..n : q[i] = u) /\ at[u] = "parked"
            BY <2>1
        <3>2. PICK i \in 1..Len(q) : q[i] = u
            BY <3>1 DEF Queued
        <3>3. i \notin 1..n
            BY <3>1, <3>2
        <3>4. i - n \in 1..Len(r) /\ (i - n) + n = i
            BY <1>1, <1>2, <3>3
        <3> QED BY <1>2, <3>2, <3>4
    <2>2. ASSUME NEW i \in 1..Len(r), r[i] = u
          PROVE  to[u] = "parked"
        <3>1. q[i + n] = u /\ i + n \in 1..Len(q)
            BY <1>2, <1>3, <2>2
        <3>2. at[u] = "parked"
            BY <3>1 DEF Queued
        <3>3. ASSUME NEW j \in 1..n, q[j] = u
              PROVE  FALSE
            <4>1. j \in 1..Len(q)
                BY <1>1
            <4>2. j = i + n
                BY <3>1, <3>3, <4>1 DEF Queued
            <4> QED BY <1>1, <1>2, <4>2
        <3> QED BY <3>2, <3>3
    <2> QED BY <2>1, <2>2
<1> QED BY <1>2, <1>4, <1>5 DEF Queued

(* Another one parks.                                                       *)
LEMMA QueuedAppend ==
    ASSUME NEW q, NEW at, Queued(q, at), NEW u \in Users, at[u] # "parked"
    PROVE  Queued(Append(q, u), [at EXCEPT ![u] = "parked"])
<1> DEFINE r == Append(q, u)
           to == [at EXCEPT ![u] = "parked"]
<1>1. q \in Seq(Users) /\ Len(q) \in Nat /\ at \in [Users -> Places]
    BY DEF Queued
<1>2. /\ r \in Seq(Users) /\ Len(r) = Len(q) + 1 /\ r[Len(q) + 1] = u
      /\ \A i \in 1..Len(q) : r[i] = q[i]
    BY <1>1
<1>3. \A i \in 1..Len(q) : q[i] # u
    BY DEF Queued
<1> HIDE DEF r
<1>4. \A i \in 1..Len(r) : i \in 1..Len(q) \/ i = Len(q) + 1
    BY <1>1, <1>2
<1>5. \A i, j \in 1..Len(r) : r[i] = r[j] => i = j
    BY <1>2, <1>3, <1>4 DEF Queued
<1>6. Len(q) + 1 \in 1..Len(r) /\ \A i \in 1..Len(q) : i \in 1..Len(r)
    BY <1>1, <1>2
<1>7. \A v \in Users : to[v] = "parked" <=> \E i \in 1..Len(r) : r[i] = v
    <2> TAKE v \in Users
    <2>1. CASE v = u
        BY <1>1, <1>2, <1>6, <2>1
    <2>2. CASE v # u
        <3>1. to[v] = at[v]
            BY <1>1, <2>2
        <3>2. (\E i \in 1..Len(r) : r[i] = v) <=> \E i \in 1..Len(q) : q[i] = v
            BY <1>2, <1>4, <1>6, <2>2
        <3> QED BY <3>1, <3>2 DEF Queued
    <2> QED BY <2>1, <2>2
<1>8. to \in [Users -> Places]
    BY <1>1 DEF Places
<1> HIDE DEF to
<1> QED BY <1>2, <1>5, <1>7, <1>8 DEF Queued, r, to

(* Someone in the middle gives up.                                          *)
LEMMA QueuedWithout ==
    ASSUME NEW q, NEW at, Queued(q, at), NEW k \in 1..Len(q)
    PROVE  Queued(SubSeq(q, 1, k - 1) \o SubSeq(q, k + 1, Len(q)), [at EXCEPT ![q[k]] = "idle"])
<1> DEFINE a == SubSeq(q, 1, k - 1)
           b == SubSeq(q, k + 1, Len(q))
           r == a \o b
           to == [at EXCEPT ![q[k]] = "idle"]
           Old(i) == IF i < k THEN i ELSE i + 1
<1>1. q \in Seq(Users) /\ Len(q) \in Nat /\ at \in [Users -> Places] /\ q[k] \in Users
    BY DEF Queued
<1>2. a \in Seq(Users) /\ Len(a) = k - 1 /\ \A i \in 1..(k - 1) : a[i] = q[i]
    BY <1>1
<1>3. b \in Seq(Users) /\ Len(b) = Len(q) - k /\ \A i \in 1..Len(b) : b[i] = q[i + k]
    BY <1>1
<1> HIDE DEF a, b
<1>4. /\ r \in Seq(Users) /\ Len(r) = Len(q) - 1
      /\ \A i \in 1..Len(r) : r[i] = IF i < k THEN q[i] ELSE b[i - (k - 1)]
    <2>1. /\ r \in Seq(Users) /\ Len(r) = Len(a) + Len(b)
          /\ \A i \in 1..(Len(a) + Len(b)) : r[i] = IF i <= Len(a) THEN a[i] ELSE b[i - Len(a)]
        BY <1>2, <1>3, ConcatProperties
    <2> HIDE DEF r
    <2> QED BY <1>1, <1>2, <1>3, <2>1
<1> HIDE DEF r
<1>5. \A i \in 1..Len(r) : Old(i) \in 1..Len(q) /\ Old(i) # k
    BY <1>1, <1>4
<1>6. \A i \in 1..Len(r) : r[i] = q[Old(i)]
    <2> TAKE i \in 1..Len(r)
    <2>1. CASE i < k
        BY <1>1, <1>2, <1>4, <2>1
    <2>2. CASE ~(i < k)
        <3> DEFINE j == i - (k - 1)
        <3>1. j \in 1..Len(b) /\ j + k = i + 1
            BY <1>1, <1>3, <1>4, <2>2
        <3>2. r[i] = b[j]
            BY <1>4, <2>2
        <3> HIDE DEF j
        <3>3. b[j] = q[i + 1]
            BY <1>3, <3>1
        <3> QED BY <2>2, <3>2, <3>3
    <2> QED BY <2>1, <2>2
<1>7. \A i, j \in 1..Len(r) : Old(i) = Old(j) => i = j
    BY <1>1, <1>4
<1>8. \A j \in 1..Len(q) : j # k => \E i \in 1..Len(r) : Old(i) = j
    <2> TAKE j \in 1..Len(q)
    <2> HAVE j # k
    <2>1. CASE j < k
        <3>1. j \in 1..Len(r) /\ Old(j) = j
            BY <1>1, <1>4, <2>1
        <3> QED BY <3>1
    <2>2. CASE j > k
        <3>1. j - 1 \in 1..Len(r) /\ Old(j - 1) = j
            BY <1>1, <1>4, <2>2
        <3> QED BY <3>1
    <2> QED BY <1>1, <2>1, <2>2
<1> HIDE DEF Old
<1>9. \A i, j \in 1..Len(r) : r[i] = r[j] => i = j
    BY <1>5, <1>6, <1>7 DEF Queued
<1>10. \A u \in Users : to[u] = "parked" <=> \E i \in 1..Len(r) : r[i] = u
    <2> TAKE u \in Users
    <2>1. CASE u = q[k]
        <3>1. to[u] = "idle"
            BY <1>1, <2>1
        <3>2. \A i \in 1..Len(r) : r[i] # u
            BY <1>5, <1>6, <2>1 DEF Queued
        <3> QED BY <3>1, <3>2
    <2>2. CASE u # q[k]
        <3>1. to[u] = at[u]
            BY <1>1, <2>2
        <3>2. (\E i \in 1..Len(r) : r[i] = u) <=> \E j \in 1..Len(q) : q[j] = u
            BY <1>5, <1>6, <1>8, <2>2
        <3> QED BY <3>1, <3>2 DEF Queued
    <2> QED BY <2>1, <2>2
<1>11. to \in [Users -> Places]
    BY <1>1 DEF Places
<1> HIDE DEF to
<1> QED BY <1>4, <1>9, <1>10, <1>11 DEF Queued, r, a, b, to

(* Someone moves, neither to nor from the parked ones.                      *)
LEMMA QueuedMove ==
    ASSUME NEW q, NEW at, Queued(q, at), NEW u \in Users, at[u] # "parked",
           NEW place \in Places, place # "parked"
    PROVE  Queued(q, [at EXCEPT ![u] = place])
BY DEF Queued

LEMMA InRunPlaces ==
    /\ Selecting \in RunPlaces /\ Ended \in RunPlaces
    /\ \A u \in Users : Answering(u) \in RunPlaces /\ Handing(u) \in RunPlaces
BY DEF RunPlaces

(* Rounds, answers and cancelled contexts keep the queue.                   *)
LEMMA UsersStep ==
    ASSUME UsersInv, LimiterInv, LimiterNext
    PROVE  UsersInv'
<1>1. /\ Queued(parked, user) /\ user \in [Users -> Places] /\ parked \in Seq(Users)
      /\ cancelled \subseteq Users /\ Len(parked) \in Nat
      /\ run \in RunPlaces /\ \A u \in Users : run = Answering(u) => user[u] = "answered"
    BY DEF UsersInv, Queued
<1>2. CASE WakeUp
    <2> DEFINE n == AtMost(Passes, Len(parked))
    <2>1. Passes \in Nat
        <3>1. limiter \in Limiter /\ limiter.rate \in Nat /\ limiter.rate > 0
            BY <1>2 DEF WakeUp, LimiterInv, Limiter
        <3>2. limiter.leftover > 0 => Step \in Nat
            BY <3>1, StepSize
        <3> QED BY <3>1, <3>2 DEF Passes
    <2>2. n \in 0..Len(parked)
        BY <1>1, <2>1 DEF AtMost
    <2>3. /\ parked' = SubSeq(parked, n + 1, Len(parked))
          /\ user' = [u \in Users |-> IF u \in {parked[i] : i \in 1..n} THEN "idle" ELSE user[u]]
          /\ cancelled' \subseteq cancelled /\ run' = run /\ run = Selecting
        BY <1>2 DEF WakeUp
    <2> HIDE DEF n
    <2>4. Queued(parked', user')
        <3>1. /\ user' \in [Users -> Places]
              /\ \A u \in Users : user'[u] = IF \E i \in 1..n : parked[i] = u THEN "idle" ELSE user[u]
            BY <1>1, <2>3 DEF Places
        <3> QED BY <1>1, <2>2, <2>3, <3>1, QueuedTail
    <2>5. \A u \in Users : Selecting # Answering(u)
        BY DEF Selecting, Answering
    <2> QED BY <1>1, <2>3, <2>4, <2>5 DEF UsersInv
<1>3. CASE ReceiveCapacity \/ ReceiveFromClosed \/ TimerExpires \/ ReleaseResource \/ CloseLimiter
    <2>1. UNCHANGED <<run, user, parked, cancelled>>
        BY <1>3 DEF ReceiveCapacity, ReceiveFromClosed, Update, TimerExpires, ReleaseResource, CloseLimiter,
                    loopVars, userVars
    <2> QED BY <2>1 DEF UsersInv
<1>4. CASE Quit
    <2>1. run' = Ended /\ UNCHANGED <<user, parked, cancelled>> /\ \A u \in Users : Ended # Answering(u)
        BY <1>4 DEF Quit, userVars, Ended, Answering
    <2> QED BY <1>1, <2>1, InRunPlaces DEF UsersInv
<1>5. ASSUME NEW u \in Users, TakeEvent(u) PROVE UsersInv'
    <2>1. run' = Answering(u) /\ UNCHANGED <<parked, cancelled>> /\ user[u] # "parked"
          /\ user' = [user EXCEPT ![u] = "answered"]
        BY <1>5 DEF TakeEvent
    <2>2. Queued(parked', user')
        BY <1>1, <2>1, QueuedMove DEF Places
    <2>3. \A v \in Users : Answering(u) = Answering(v) => v = u
        BY DEF Answering
    <2> QED BY <1>1, <2>1, <2>2, <2>3, InRunPlaces DEF UsersInv
<1>6. ASSUME NEW u \in Users, Answer(u) PROVE UsersInv'
    <2>1. /\ run' \in {Handing(u), Selecting} /\ UNCHANGED <<parked, cancelled>> /\ user[u] = "answered"
          /\ \/ user' = [user EXCEPT ![u] = "receiving"]
             \/ user' = [user EXCEPT ![u] = "parking"]
        BY <1>1, <1>6 DEF Answer
    <2>2. Queued(parked', user')
        <3>1. "receiving" \in Places /\ "parking" \in Places /\ user[u] # "parked"
            BY <2>1 DEF Places
        <3>2. CASE user' = [user EXCEPT ![u] = "receiving"]
            BY <1>1, <2>1, <3>1, <3>2, QueuedMove
        <3>3. CASE user' = [user EXCEPT ![u] = "parking"]
            BY <1>1, <2>1, <3>1, <3>3, QueuedMove
        <3> QED BY <2>1, <3>2, <3>3
    <2>3. \A v \in Users : Handing(u) # Answering(v) /\ Selecting # Answering(v)
        BY DEF Answering, Handing, Selecting
    <2> QED BY <1>1, <2>1, <2>2, <2>3, InRunPlaces DEF UsersInv
<1>7. ASSUME NEW u \in Users, Hand(u) PROVE UsersInv'
    <2>1. /\ run' = Selecting /\ UNCHANGED parked /\ cancelled' \subseteq cancelled /\ user[u] # "parked"
          /\ user' = [user EXCEPT ![u] = "idle"]
        BY <1>7 DEF Hand
    <2>2. Queued(parked', user')
        BY <1>1, <2>1, QueuedMove DEF Places
    <2>3. \A v \in Users : Selecting # Answering(v)
        BY DEF Answering, Selecting
    <2> QED BY <1>1, <2>1, <2>2, <2>3, InRunPlaces DEF UsersInv
<1>8. ASSUME NEW u \in Users, Wait(u) PROVE UsersInv'
    <2>1. /\ UNCHANGED <<run, parked, cancelled>> /\ user[u] = "idle"
          /\ user' = [user EXCEPT ![u] = "asking"]
        BY <1>8 DEF Wait, loopVars
    <2>2. Queued(parked', user')
        BY <1>1, <2>1, QueuedMove DEF Places
    <2>3. \A v \in Users : user[v] = "answered" => user'[v] = "answered"
        BY <1>1, <2>1
    <2> QED BY <1>1, <2>1, <2>2, <2>3, InRunPlaces DEF UsersInv
<1>9. ASSUME NEW u \in Users, Park(u) PROVE UsersInv'
    <2>1. /\ UNCHANGED <<run, cancelled>> /\ user[u] = "parking" /\ parked' = Append(parked, u)
          /\ user' = [user EXCEPT ![u] = "parked"]
        BY <1>9 DEF Park, loopVars
    <2>2. Queued(parked', user')
        BY <1>1, <2>1, QueuedAppend
    <2>3. \A v \in Users : user[v] = "answered" => user'[v] = "answered"
        BY <1>1, <2>1
    <2> QED BY <1>1, <2>1, <2>2, <2>3, InRunPlaces DEF UsersInv
<1>10. ASSUME NEW u \in Users, CancelContext(u) PROVE UsersInv'
    <2>1. UNCHANGED <<run, user, parked>> /\ cancelled' \subseteq Users
        BY <1>1, <1>10 DEF CancelContext, loopVars
    <2> QED BY <2>1 DEF UsersInv
<1>11. ASSUME NEW u \in Users, ReturnError(u) PROVE UsersInv'
    <2>1. /\ run' = run /\ cancelled' \subseteq cancelled /\ user[u] \in {"parked", "receiving"}
          /\ user' = [user EXCEPT ![u] = "idle"] /\ parked' = ParkedWithout(u)
        BY <1>11 DEF ReturnError, loopVars
    <2>2. Queued(parked', user')
        <3>1. CASE user[u] = "parked"
            <4> DEFINE k == CHOOSE i \in 1..Len(parked) : parked[i] = u
            <4>1. \E i \in 1..Len(parked) : parked[i] = u
                BY <1>1, <3>1 DEF Queued
            <4>2. k \in 1..Len(parked) /\ parked[k] = u
                BY <4>1
            <4>3. parked' = SubSeq(parked, 1, k - 1) \o SubSeq(parked, k + 1, Len(parked))
                BY <2>1, <3>1 DEF ParkedWithout
            <4> HIDE DEF k
            <4>4. user' = [user EXCEPT ![parked[k]] = "idle"]
                BY <2>1, <4>2
            <4> QED BY <1>1, <4>2, <4>3, <4>4, QueuedWithout
        <3>2. CASE user[u] # "parked"
            <4>1. parked' = parked
                BY <2>1, <3>2 DEF ParkedWithout
            <4> QED BY <1>1, <2>1, <3>2, <4>1, QueuedMove DEF Places
        <3> QED BY <3>1, <3>2
    <2>3. \A v \in Users : user[v] = "answered" => user'[v] = "answered"
        BY <1>1, <2>1
    <2> QED BY <1>1, <2>1, <2>2, <2>3, InRunPlaces DEF UsersInv
<1> QED BY <1>2, <1>3, <1>4, <1>5, <1>6, <1>7, <1>8, <1>9, <1>10, <1>11
        DEF LimiterNext, RunSelects, UserStep

LEMMA CountsStep ==
    ASSUME CountsInv, LimiterNext
    PROVE  CountsInv'
BY LimiterBounds
   DEF CountsInv, LimiterNext, RunSelects, UserStep, ReceiveCapacity, ReceiveFromClosed, Update, WakeUp,
       TakeEvent, Quit, TimerExpires, ReleaseResource, CloseLimiter, Wait, Park, CancelContext, ReturnError,
       Answer, Hand, loopVars, userVars

-----------------------------------------------------------------------------
LEMMA QPSInit == LimiterInit => QPSInv
<1> SUFFICES ASSUME LimiterInit PROVE QPSInv
    OBVIOUS
<1>1. LimiterInv
    <2>1. /\ limiter \in Limiter /\ limiter.capacity = 0 /\ limiter.rate = 0 /\ fired = FALSE
          /\ limiter.released <= limiter.subintervals /\ NotPaced(limiter)
        BY DEF LimiterInit, Limiter, NotPaced
    <2>2. offered \in [missing : {0}, excess : Nat] /\ offered.excess = 0
        BY DEF LimiterInit, InRate
    <2>3. limiter.rate >= -1 /\ limiter.capacity \in Capacities \cup {0}
        BY <2>1
    <2>4. fired \in BOOLEAN /\ ~fired
        BY <2>1
    <2> QED BY <2>1, <2>2, <2>3, <2>4 DEF LimiterInv
<1>2. UsersInv
    <2>1. /\ parked = << >> /\ user = [u \in Users |-> "idle"] /\ cancelled = {} /\ run = Selecting
          /\ \A u \in Users : Selecting # Answering(u)
        BY DEF LimiterInit, Selecting, Answering
    <2>2. << >> \in Seq(Users) /\ Len(<< >>) = 0
        OBVIOUS
    <2>3. Queued(parked, user)
        BY <2>1, <2>2 DEF Queued, Places
    <2> QED BY <2>1, <2>3, InRunPlaces DEF UsersInv
<1>3. CountsInv
    BY LimiterBounds DEF LimiterInit, CountsInv
<1> QED BY <1>1, <1>2, <1>3 DEF QPSInv

LEMMA QPSStep == QPSInv /\ [LimiterNext]_limiterVars => QPSInv'
<1> SUFFICES ASSUME QPSInv, [LimiterNext]_limiterVars PROVE QPSInv'
    OBVIOUS
<1>1. CASE LimiterNext
    BY <1>1, LimiterStep, UsersStep, CountsStep DEF QPSInv
<1>2. CASE UNCHANGED limiterVars
    BY <1>2 DEF limiterVars, loopVars, userVars, QPSInv, LimiterInv, UsersInv, CountsInv
<1> QED BY <1>1, <1>2

LEMMA QPSInvariant == LimiterSpec => []QPSInv
<1>1. LimiterInit => QPSInv
    BY QPSInit
<1>2. QPSInv /\ [LimiterNext]_limiterVars => QPSInv'
    BY QPSStep
<1> QED BY <1>1, <1>2, PTL DEF LimiterSpec

(* The limiter's counters are in range and the goroutines parked on         *)
(* unfreeze are those in the queue, each once, for any number of users and  *)
(* any capacities.                                                          *)
THEOREM LimiterTypeCorrect == LimiterSpec => []LimiterOK
<1>1. QPSInv => LimiterOK
    <2> SUFFICES ASSUME QPSInv PROVE LimiterOK
        OBVIOUS
    <2>1. {parked[i] : i \in 1..Len(parked)} = {u \in Users : user[u] = "parked"}
        <3>1. \A i \in 1..Len(parked) : parked[i] \in Users
            BY DEF QPSInv, UsersInv, Queued
        <3> QED BY <3>1 DEF QPSInv, UsersInv, Queued
    <2>2. run.at \in {"select", "answer", "hand", "closed"}
        BY DEF QPSInv, UsersInv, RunPlaces, Selecting, Answering, Handing, Ended
    <2> QED BY <2>1, <2>2 DEF QPSInv, LimiterInv, UsersInv, CountsInv, Queued, Places, Limiter, LimiterOK
<1> QED BY <1>1, QPSInvariant, PTL

(* For every capacity: a limiter never offers less than it, and at most a   *)
(* second's worth more than twice it (ratelimiter.go:157).                  *)
THEOREM RateKept == LimiterSpec => []RateIsKept
<1>1. QPSInv => RateIsKept
    <2> SUFFICES ASSUME LimiterInv PROVE RateIsKept
        BY DEF QPSInv
    <2>1. offered.missing = 0 /\ offered.excess \in Nat /\ limiter.capacity \in Int
        BY DEF LimiterInv, Limiter
    <2>2. CASE offered.excess = 0
        BY <2>1, <2>2 DEF RateIsKept, AtLeast
    <2>3. CASE PacedUnevenly(limiter) /\ WithinBudget(limiter, offered.excess)
        <3> DEFINE o == limiter.original
                   k == limiter.released
        <3>1. o \in 0..49 /\ k \in 0..50 /\ limiter.capacity = 50 * limiter.rate + o /\ limiter.rate \in Int
              /\ limiter.rate > 0
            BY <2>3 DEF LimiterInv, Limiter, PacedUnevenly
        <3>2. offered.excess <= 20 * ((o + 1) * (51 - k))
            <4>1. 0 <= (IF limiter.leftover > 0 THEN 1000 * (limiter.leftover + 1) ELSE 0)
                  /\ (IF limiter.leftover > 0 THEN 1000 * (limiter.leftover + 1) ELSE 0) \in Int
                BY DEF LimiterInv, Limiter
            <4>2. Budget(limiter) \in Int
                BY <3>1 DEF Budget
            <4> QED BY <2>1, <2>3, <4>1, <4>2 DEF WithinBudget, Budget
        <3>3. (o + 1) * (51 - k) <= 51 * (o + 1) /\ (o + 1) * (51 - k) \in Int
            BY <3>1
        <3> HIDE DEF o, k
        <3>4. offered.excess <= 1000 * limiter.capacity
            BY <2>1, <3>1, <3>2, <3>3
        <3> QED BY <2>1, <3>4 DEF RateIsKept, AtLeast
    <2> QED BY <2>2, <2>3 DEF LimiterInv
<1> QED BY <1>1, QPSInvariant, PTL

=============================================================================
