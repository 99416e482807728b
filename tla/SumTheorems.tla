----------------------------- MODULE SumTheorems -----------------------------
(***************************************************************************)
(* What Sum computes, by induction on how much of the list it has added.    *)
(***************************************************************************)
EXTENDS Sums, TLAPS, WellFoundedInduction

\* Induction on the natural numbers, stated about a set.
LEMMA SetInduction ==
    ASSUME NEW S, 0 \in S, \A k \in Nat : k \in S => k + 1 \in S
    PROVE  Nat \subseteq S
<1> SUFFICES ASSUME Nat \ S # {} PROVE FALSE
    OBVIOUS
<1>1. PICK m \in Nat \ S : \A k \in Nat \ S : ~(<<k, m>> \in OpToRel(<, Nat))
    BY WFMin, NatLessThanWellFounded
<1>2. \A k \in Nat \ S : ~(k < m)
    BY <1>1 DEF OpToRel
<1>3. m # 0 /\ m - 1 \in Nat
    OBVIOUS
<1>4. m - 1 \in S
    BY <1>2, <1>3
<1> QED
    BY <1>3, <1>4

\* g[i] is the sum of the first i of the n values of f.
IsPrefixSum(g, f, n) ==
    /\ g \in [0..n -> Int]
    /\ g[0] = 0
    /\ \A i \in 1..n : g[i] = g[i - 1] + f[i]

(* Every finite list of integers has a function of its prefix sums.        *)
LEMMA PrefixSumExists ==
    ASSUME NEW n \in Nat, NEW f \in [1..n -> Int]
    PROVE  \E g : IsPrefixSum(g, f, n)
<1> DEFINE S == {k \in Nat : k <= n => \E g : IsPrefixSum(g, f, k)}
<1>1. 0 \in S
    <2>1. IsPrefixSum([i \in 0..0 |-> 0], f, 0)
        BY DEF IsPrefixSum
    <2> QED BY <2>1
<1>2. ASSUME NEW k \in Nat, k \in S PROVE k + 1 \in S
    <2> SUFFICES ASSUME k + 1 <= n PROVE \E g : IsPrefixSum(g, f, k + 1)
        OBVIOUS
    <2>1. PICK g : IsPrefixSum(g, f, k)
        BY <1>2
    <2>2. f[k + 1] \in Int /\ g[k] \in Int
        BY <2>1 DEF IsPrefixSum
    <2> DEFINE h == [i \in 0..(k + 1) |-> IF i = k + 1 THEN g[k] + f[k + 1] ELSE g[i]]
    <2>3. h \in [0..(k + 1) -> Int] /\ h[0] = 0
        BY <2>1, <2>2 DEF IsPrefixSum
    <2>4. \A i \in 1..(k + 1) : h[i] = h[i - 1] + f[i]
        BY <2>1, <2>2 DEF IsPrefixSum
    <2> QED BY <2>3, <2>4 DEF IsPrefixSum
<1>3. n \in S
    <2> HIDE DEF S
    <2> QED BY <1>1, <1>2, SetInduction
<1> QED BY <1>3

(* The recursive function Sum is built from is its own prefix sum.          *)
LEMMA SumIsPrefixSum ==
    ASSUME NEW n \in Nat, NEW f \in [1..n -> Int]
    PROVE  \E g : IsPrefixSum(g, f, n) /\ Sum(f, n) = g[n]
<1> DEFINE Rec(g) == [i \in 0..n |-> IF i = 0 THEN 0 ELSE g[i - 1] + f[i]]
           upTo == CHOOSE g : g = Rec(g)
<1>1. PICK g : IsPrefixSum(g, f, n)
    BY PrefixSumExists
<1>2. g = Rec(g)
    BY <1>1 DEF IsPrefixSum
<1>3. upTo = Rec(upTo)
    BY <1>2
<1>4. upTo[0] = 0 /\ \A i \in 1..n : upTo[i] = upTo[i - 1] + f[i]
    <2> HIDE DEF upTo
    <2> QED BY <1>3
<1>5. \A i \in 0..n : upTo[i] \in Int
    <2> DEFINE S == {k \in Nat : k <= n => upTo[k] \in Int}
    <2> HIDE DEF upTo
    <2>1. 0 \in S
        BY <1>4
    <2>2. ASSUME NEW k \in Nat, k \in S PROVE k + 1 \in S
        BY <2>2, <1>4
    <2>3. Nat \subseteq S
        <3> HIDE DEF S
        <3> QED BY <2>1, <2>2, SetInduction
    <2> QED BY <2>3
<1>6. IsPrefixSum(upTo, f, n)
    <2> HIDE DEF upTo
    <2>1. upTo \in [0..n -> Int]
        BY <1>3, <1>5
    <2> QED BY <1>4, <2>1 DEF IsPrefixSum
<1>7. Sum(f, n) = upTo[n]
    BY DEF Sum
<1> QED BY <1>6, <1>7

(* A sum of integers is an integer.                                         *)
LEMMA SumInt ==
    ASSUME NEW n \in Nat, NEW f \in [1..n -> Int]
    PROVE  Sum(f, n) \in Int
BY SumIsPrefixSum DEF IsPrefixSum

\* A sum of two functions.
LEMMA SumAdd ==
    ASSUME NEW n \in Nat,
           NEW f \in [1..n -> Int], NEW g \in [1..n -> Int], NEW h \in [1..n -> Int],
           \A i \in 1..n : h[i] = f[i] + g[i]
    PROVE  Sum(h, n) = Sum(f, n) + Sum(g, n)
<1>1. PICK F : IsPrefixSum(F, f, n) /\ Sum(f, n) = F[n]
    BY SumIsPrefixSum
<1>2. PICK G : IsPrefixSum(G, g, n) /\ Sum(g, n) = G[n]
    BY SumIsPrefixSum
<1>3. PICK H : IsPrefixSum(H, h, n) /\ Sum(h, n) = H[n]
    BY SumIsPrefixSum
<1> DEFINE S == {k \in Nat : k <= n => H[k] = F[k] + G[k]}
<1>4. 0 \in S
    BY <1>1, <1>2, <1>3 DEF IsPrefixSum
<1>5. ASSUME NEW k \in Nat, k \in S PROVE k + 1 \in S
    BY <1>1, <1>2, <1>3, <1>5 DEF IsPrefixSum
<1>6. n \in S
    <2> HIDE DEF S
    <2> QED BY <1>4, <1>5, SetInduction
<1> QED BY <1>1, <1>2, <1>3, <1>6

\* The sum of a function that is zero but at one place.
LEMMA SumPoint ==
    ASSUME NEW n \in Nat, NEW f \in [1..n -> Int], NEW c \in 1..n,
           \A i \in 1..n : i # c => f[i] = 0
    PROVE  Sum(f, n) = f[c]
<1>1. PICK F : IsPrefixSum(F, f, n) /\ Sum(f, n) = F[n]
    BY SumIsPrefixSum
<1> DEFINE S == {k \in Nat : k <= n => F[k] = IF k < c THEN 0 ELSE f[c]}
<1>2. 0 \in S
    BY <1>1 DEF IsPrefixSum
<1>3. ASSUME NEW k \in Nat, k \in S PROVE k + 1 \in S
    <2> SUFFICES ASSUME k + 1 <= n
                 PROVE  F[k + 1] = IF k + 1 < c THEN 0 ELSE f[c]
        OBVIOUS
    <2>1. F[k + 1] = F[k] + f[k + 1] /\ f[k + 1] \in Int /\ f[c] \in Int
        BY <1>1 DEF IsPrefixSum
    <2>2. F[k] = IF k < c THEN 0 ELSE f[c]
        BY <1>3
    <2>3. CASE k + 1 = c
        BY <2>1, <2>2, <2>3
    <2>4. CASE k + 1 # c
        <3>1. f[k + 1] = 0
            BY <2>4
        <3> QED BY <2>1, <2>2, <2>4, <3>1
    <2> QED BY <2>3, <2>4
<1>4. n \in S
    <2> HIDE DEF S
    <2> QED BY <1>2, <1>3, SetInduction
<1> QED BY <1>1, <1>4

\* The sum of non-negative numbers is not negative.
LEMMA SumNonNegative ==
    ASSUME NEW n \in Nat, NEW f \in [1..n -> Int], \A i \in 1..n : f[i] >= 0
    PROVE  Sum(f, n) >= 0
<1>1. PICK F : IsPrefixSum(F, f, n) /\ Sum(f, n) = F[n]
    BY SumIsPrefixSum
<1> DEFINE S == {k \in Nat : k <= n => F[k] >= 0}
<1>2. 0 \in S
    BY <1>1 DEF IsPrefixSum
<1>3. ASSUME NEW k \in Nat, k \in S PROVE k + 1 \in S
    BY <1>1, <1>3 DEF IsPrefixSum
<1>4. n \in S
    <2> HIDE DEF S
    <2> QED BY <1>2, <1>3, SetInduction
<1> QED BY <1>1, <1>4

\* A constant factor.
LEMMA SumScale ==
    ASSUME NEW n \in Nat, NEW a \in Int, NEW f \in [1..n -> Int], NEW g \in [1..n -> Int],
           \A i \in 1..n : g[i] = a * f[i]
    PROVE  Sum(g, n) = a * Sum(f, n)
<1>1. PICK F : IsPrefixSum(F, f, n) /\ Sum(f, n) = F[n]
    BY SumIsPrefixSum
<1>2. PICK G : IsPrefixSum(G, g, n) /\ Sum(g, n) = G[n]
    BY SumIsPrefixSum
<1> DEFINE S == {k \in Nat : k <= n => G[k] = a * F[k]}
<1>3. 0 \in S
    BY <1>1, <1>2 DEF IsPrefixSum
<1>4. ASSUME NEW k \in Nat, k \in S PROVE k + 1 \in S
    <2> SUFFICES ASSUME k + 1 <= n PROVE G[k + 1] = a * F[k + 1]
        OBVIOUS
    <2>1. F[k + 1] = F[k] + f[k + 1] /\ F[k] \in Int /\ f[k + 1] \in Int
        BY <1>1 DEF IsPrefixSum
    <2>2. G[k + 1] = G[k] + a * f[k + 1]
        BY <1>2 DEF IsPrefixSum
    <2>3. G[k] = a * F[k]
        BY <1>4
    <2>4. a * (F[k] + f[k + 1]) = a * F[k] + a * f[k + 1]
        BY <2>1
    <2> QED BY <2>1, <2>2, <2>3, <2>4
<1>5. n \in S
    <2> HIDE DEF S
    <2> QED BY <1>3, <1>4, SetInduction
<1> QED BY <1>1, <1>2, <1>5

=============================================================================
