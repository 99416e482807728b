-------------------------- MODULE ResourceTheorems --------------------------
(***************************************************************************)
(* What sums over clients are; what the operations of the lease store do to *)
(* a store; what the algorithms grant, which is an integer, never more than *)
(* is available, and for the sharing algorithms never negative while        *)
(* something is; and what the operations of a resource do to it.            *)
(***************************************************************************)
EXTENDS Resource, SumTheorems

(* A sum over clients is a sum of a function that is zero elsewhere.        *)
LEMMA SumOverInt ==
    ASSUME NEW C, NEW f \in [Clients -> Int]
    PROVE  SumOver(C, f) \in Int
<1>1. [c \in Clients |-> IF c \in C THEN f[c] ELSE 0] \in [1..NumClients -> Int]
    BY DEF Clients
<1> QED BY <1>1, NumClientsAssumption, SumInt DEF SumOver

(* Only the values at the clients summed over matter.                       *)
LEMMA SumOverSame ==
    ASSUME NEW C, NEW f, NEW g, \A c \in Clients : c \in C => f[c] = g[c]
    PROVE  SumOver(C, f) = SumOver(C, g)
<1>1. [c \in Clients |-> IF c \in C THEN f[c] ELSE 0] = [c \in Clients |-> IF c \in C THEN g[c] ELSE 0]
    OBVIOUS
<1> QED BY <1>1 DEF SumOver

(* A sum over clients is additive in the function.                          *)
LEMMA SumOverAdd ==
    ASSUME NEW C, NEW D, NEW E,
           NEW f \in [Clients -> Int], NEW g \in [Clients -> Int], NEW h \in [Clients -> Int],
           \A c \in Clients : (IF c \in E THEN h[c] ELSE 0) =
              (IF c \in C THEN f[c] ELSE 0) + (IF c \in D THEN g[c] ELSE 0)
    PROVE  SumOver(E, h) = SumOver(C, f) + SumOver(D, g)
<1> DEFINE F == [c \in Clients |-> IF c \in C THEN f[c] ELSE 0]
           G == [c \in Clients |-> IF c \in D THEN g[c] ELSE 0]
           H == [c \in Clients |-> IF c \in E THEN h[c] ELSE 0]
<1>1. /\ F \in [1..NumClients -> Int]
      /\ G \in [1..NumClients -> Int]
      /\ H \in [1..NumClients -> Int]
    BY DEF Clients
<1>2. \A c \in 1..NumClients : H[c] = F[c] + G[c]
    BY DEF Clients
<1>3. SumOver(C, f) = Sum(F, NumClients) /\ SumOver(D, g) = Sum(G, NumClients)
      /\ SumOver(E, h) = Sum(H, NumClients)
    BY DEF SumOver
<1> HIDE DEF F, G, H
<1>4. Sum(H, NumClients) = Sum(F, NumClients) + Sum(G, NumClients)
    BY <1>1, <1>2, NumClientsAssumption, SumAdd
<1> QED BY <1>3, <1>4

(* A set of clients splits into those in C and the others.                  *)
LEMMA SumOverSplit ==
    ASSUME NEW C, NEW D, NEW f \in [Clients -> Int]
    PROVE  SumOver(D, f) = SumOver(D \cap C, f) + SumOver(D \ C, f)
BY SumOverAdd

(* The sum over one client.                                                 *)
LEMMA SumOverOne ==
    ASSUME NEW c \in Clients, NEW f \in [Clients -> Int]
    PROVE  SumOver({c}, f) = f[c]
<1> DEFINE F == [d \in Clients |-> IF d \in {c} THEN f[d] ELSE 0]
<1>1. F \in [1..NumClients -> Int] /\ c \in 1..NumClients /\ F[c] = f[c]
    BY DEF Clients
<1>2. \A d \in 1..NumClients : d # c => F[d] = 0
    BY DEF Clients
<1>3. SumOver({c}, f) = Sum(F, NumClients)
    BY DEF SumOver
<1> HIDE DEF F
<1> QED BY <1>1, <1>2, <1>3, NumClientsAssumption, SumPoint

(* A sum of amounts that are not negative is not negative.                  *)
LEMMA SumOverNonNegative ==
    ASSUME NEW C, NEW f \in [Clients -> Int], \A c \in Clients : c \in C => f[c] >= 0
    PROVE  SumOver(C, f) >= 0
<1> DEFINE F == [c \in Clients |-> IF c \in C THEN f[c] ELSE 0]
<1>1. F \in [1..NumClients -> Int] /\ \A c \in 1..NumClients : F[c] >= 0
    BY DEF Clients
<1>2. SumOver(C, f) = Sum(F, NumClients)
    BY DEF SumOver
<1> HIDE DEF F
<1> QED BY <1>1, <1>2, NumClientsAssumption, SumNonNegative

(* A constant factor.                                                       *)
LEMMA SumOverScale ==
    ASSUME NEW a \in Int, NEW f \in [Clients -> Int], NEW g \in [Clients -> Int],
           \A c \in Clients : g[c] = a * f[c]
    PROVE  SumOver(Clients, g) = a * SumOver(Clients, f)
<1> DEFINE F == [c \in Clients |-> IF c \in Clients THEN f[c] ELSE 0]
           G == [c \in Clients |-> IF c \in Clients THEN g[c] ELSE 0]
<1>1. F \in [1..NumClients -> Int] /\ G \in [1..NumClients -> Int]
    BY DEF Clients
<1>2. \A c \in 1..NumClients : G[c] = a * F[c]
    BY DEF Clients
<1>3. SumOver(Clients, f) = Sum(F, NumClients) /\ SumOver(Clients, g) = Sum(G, NumClients)
    BY DEF SumOver
<1> HIDE DEF F, G
<1> QED BY <1>1, <1>2, <1>3, NumClientsAssumption, SumScale

(* The sum over everyone when one client's value changes.                   *)
LEMMA SumOverReplace ==
    ASSUME NEW f \in [Clients -> Int], NEW g \in [Clients -> Int], NEW c \in Clients,
           \A d \in Clients : d # c => g[d] = f[d]
    PROVE  SumOver(Clients, g) = SumOver(Clients, f) + (g[c] - f[c])
<1>1. SumOver(Clients \ {c}, g) = SumOver(Clients \ {c}, f)
    BY SumOverSame
<1>2. SumOver(Clients, f) = SumOver({c}, f) + SumOver(Clients \ {c}, f)
    <2>1. SumOver(Clients, f) = SumOver(Clients \cap {c}, f) + SumOver(Clients \ {c}, f)
        BY SumOverSplit
    <2>2. Clients \cap {c} = {c}
        OBVIOUS
    <2> QED BY <2>1, <2>2
<1>3. SumOver(Clients, g) = SumOver({c}, g) + SumOver(Clients \ {c}, g)
    <2>1. SumOver(Clients, g) = SumOver(Clients \cap {c}, g) + SumOver(Clients \ {c}, g)
        BY SumOverSplit
    <2>2. Clients \cap {c} = {c}
        OBVIOUS
    <2> QED BY <2>1, <2>2
<1>4. SumOver({c}, f) = f[c] /\ SumOver({c}, g) = g[c]
    BY SumOverOne
<1>5. SumOver(Clients \ {c}, f) \in Int /\ f[c] \in Int /\ g[c] \in Int
    BY SumOverInt
<1> QED BY <1>1, <1>2, <1>3, <1>4, <1>5

-----------------------------------------------------------------------------

(* Get returns a lease, the zero one if need be.                            *)
LEMMA GetType ==
    ASSUME NEW s, IsStore(s), NEW c
    PROVE  Get(s, c) \in Lease
BY DEF IsStore, Get, HasClient, ZeroLease, Lease

(* The functions the sums are taken of.                                     *)
LEMMA FieldTypes ==
    ASSUME NEW s, IsStore(s)
    PROVE  /\ [c \in Clients |-> Get(s, c).has] \in [Clients -> Int]
           /\ [c \in Clients |-> Get(s, c).wants] \in [Clients -> Int]
           /\ [c \in Clients |-> Get(s, c).subclients] \in [Clients -> Int]
BY GetType DEF Lease

(* What the leases of some clients add up to is an integer.                 *)
LEMMA HasOfInt ==
    ASSUME NEW s, IsStore(s), NEW C
    PROVE  HasOf(s, C) \in Int /\ WantsOf(s, C) \in Int /\ SubclientsOf(s, C) \in Int
BY FieldTypes, SumOverInt DEF HasOf, WantsOf, SubclientsOf

(* Assign keeps a store well formed.                                        *)
LEMMA AssignType ==
    ASSUME NEW s, IsStore(s), NEW c \in Clients,
           NEW has \in Int, NEW wants \in Int, NEW subclients \in Int, NEW n \in Int
    PROVE  IsStore(Assign(s, c, has, wants, subclients, n))
<1>1. Get(s, c) \in Lease
    BY GetType
<1> QED BY <1>1 DEF Assign, IsStore, Lease

(* Assign sets the lease of its client and of nobody else.                  *)
LEMMA AssignGet ==
    ASSUME NEW s, IsStore(s), NEW c \in Clients, NEW d,
           NEW has, NEW wants, NEW subclients, NEW n
    PROVE  Get(Assign(s, c, has, wants, subclients, n), d) =
             IF d = c THEN [has |-> has, wants |-> wants, subclients |-> subclients, left |-> n]
                      ELSE Get(s, d)
BY DEF Assign, Get, HasClient, IsStore

(* Assign keeps the running sums right.                                     *)
LEMMA AssignSums ==
    ASSUME NEW s, IsStore(s), SumsMatch(s), NEW c \in Clients,
           NEW has \in Int, NEW wants \in Int, NEW subclients \in Int, NEW n \in Int
    PROVE  SumsMatch(Assign(s, c, has, wants, subclients, n))
<1> DEFINE t == Assign(s, c, has, wants, subclients, n)
<1>1. IsStore(t)
    BY AssignType
<1>2. /\ t.sumHas = s.sumHas + (has - Get(s, c).has)
      /\ t.sumWants = s.sumWants + (wants - Get(s, c).wants)
      /\ t.count = s.count + (subclients - Get(s, c).subclients)
    BY DEF Assign
<1>3. \A d \in Clients : d # c => Get(t, d) = Get(s, d)
    BY AssignGet
<1>4. Get(t, c) = [has |-> has, wants |-> wants, subclients |-> subclients, left |-> n]
    BY AssignGet
<1> HIDE DEF t
<1>5. HasOf(t, Clients) = HasOf(s, Clients) + (has - Get(s, c).has)
    BY <1>1, <1>3, <1>4, FieldTypes, SumOverReplace DEF HasOf
<1>6. WantsOf(t, Clients) = WantsOf(s, Clients) + (wants - Get(s, c).wants)
    BY <1>1, <1>3, <1>4, FieldTypes, SumOverReplace DEF WantsOf
<1>7. SubclientsOf(t, Clients) = SubclientsOf(s, Clients) + (subclients - Get(s, c).subclients)
    BY <1>1, <1>3, <1>4, FieldTypes, SumOverReplace DEF SubclientsOf
<1> QED BY <1>2, <1>5, <1>6, <1>7 DEF SumsMatch, t

(* Releasing a set of leases keeps a store well formed.                     *)
LEMMA ReleaseAllType ==
    ASSUME NEW s, IsStore(s), NEW C
    PROVE  IsStore(ReleaseAll(s, C))
BY HasOfInt DEF ReleaseAll, IsStore

(* The released leases are gone, the others untouched.                      *)
LEMMA ReleaseAllGet ==
    ASSUME NEW s, IsStore(s), NEW C, NEW d
    PROVE  Get(ReleaseAll(s, C), d) = IF d \in C THEN ZeroLease ELSE Get(s, d)
BY DEF ReleaseAll, Get, HasClient, IsStore

(* Releasing a set of leases keeps the running sums right.                  *)
LEMMA ReleaseAllSums ==
    ASSUME NEW s, IsStore(s), SumsMatch(s), NEW C
    PROVE  SumsMatch(ReleaseAll(s, C))
<1> DEFINE t == ReleaseAll(s, C)
<1>1. IsStore(t)
    BY ReleaseAllType
<1>2. /\ t.sumHas = s.sumHas - HasOf(s, C)
      /\ t.sumWants = s.sumWants - WantsOf(s, C)
      /\ t.count = s.count - SubclientsOf(s, C)
    BY DEF ReleaseAll
<1>3. \A d \in Clients : Get(t, d) = IF d \in C THEN ZeroLease ELSE Get(s, d)
    BY ReleaseAllGet
<1> HIDE DEF t
<1>4. HasOf(s, Clients) = HasOf(s, C) + HasOf(t, Clients)
    BY <1>1, <1>3, FieldTypes, SumOverAdd DEF HasOf, ZeroLease
<1>5. WantsOf(s, Clients) = WantsOf(s, C) + WantsOf(t, Clients)
    BY <1>1, <1>3, FieldTypes, SumOverAdd DEF WantsOf, ZeroLease
<1>6. SubclientsOf(s, Clients) = SubclientsOf(s, C) + SubclientsOf(t, Clients)
    BY <1>1, <1>3, FieldTypes, SumOverAdd DEF SubclientsOf, ZeroLease
<1> QED BY <1>1, <1>2, <1>4, <1>5, <1>6, HasOfInt DEF SumsMatch, t

(* Release is ReleaseAll of one client, or nothing.                         *)
LEMMA ReleaseIsReleaseAll ==
    ASSUME NEW s, IsStore(s), NEW c \in Clients
    PROVE  Release(s, c) = IF HasClient(s, c) THEN ReleaseAll(s, {c}) ELSE s
<1>1. HasClient(s, c) => Get(s, c) = s.leases[c]
    BY DEF Get
<1>2. /\ HasOf(s, {c}) = Get(s, c).has
      /\ WantsOf(s, {c}) = Get(s, c).wants
      /\ SubclientsOf(s, {c}) = Get(s, c).subclients
    BY FieldTypes, SumOverOne DEF HasOf, WantsOf, SubclientsOf
<1> QED BY <1>1, <1>2 DEF Release, ReleaseAll

(* A tick of the clock moves the expiries and nothing else.                 *)
LEMMA AgeStoreFacts ==
    ASSUME NEW s, IsStore(s)
    PROVE  /\ IsStore(AgeStore(s))
           /\ DOMAIN AgeStore(s).leases = DOMAIN s.leases
           /\ \A c : /\ Get(AgeStore(s), c).has = Get(s, c).has
                     /\ Get(AgeStore(s), c).wants = Get(s, c).wants
                     /\ Get(AgeStore(s), c).subclients = Get(s, c).subclients
<1>1. /\ AgeStore(s).leases =
             [c \in DOMAIN s.leases |-> AgeLease(s.leases[c])]
      /\ AgeStore(s).sumHas = s.sumHas
      /\ AgeStore(s).sumWants = s.sumWants
      /\ AgeStore(s).count = s.count
      /\ AgeStore(s) = [leases |-> AgeStore(s).leases, sumHas |-> s.sumHas,
                        sumWants |-> s.sumWants, count |-> s.count]
    BY DEF AgeStore, IsStore
<1>2. \A c \in DOMAIN s.leases :
         /\ s.leases[c] \in Lease
         /\ AgeLease(s.leases[c]) \in Lease
         /\ AgeLease(s.leases[c]).has = s.leases[c].has
         /\ AgeLease(s.leases[c]).wants = s.leases[c].wants
         /\ AgeLease(s.leases[c]).subclients = s.leases[c].subclients
    BY DEF IsStore, Lease, AgeLease, Tick
<1>3. DOMAIN AgeStore(s).leases = DOMAIN s.leases
    BY <1>1
<1>4. IsStore(AgeStore(s))
    BY <1>1, <1>2 DEF IsStore
<1> QED BY <1>1, <1>2, <1>3, <1>4 DEF Get, HasClient

(* A tick of the clock keeps the running sums right.                        *)
LEMMA AgeStoreSums ==
    ASSUME NEW s, IsStore(s), SumsMatch(s)
    PROVE  SumsMatch(AgeStore(s))
<1>1. /\ AgeStore(s).sumHas = s.sumHas
      /\ AgeStore(s).sumWants = s.sumWants
      /\ AgeStore(s).count = s.count
    BY DEF AgeStore, IsStore
<1>2. /\ HasOf(AgeStore(s), Clients) = HasOf(s, Clients)
      /\ WantsOf(AgeStore(s), Clients) = WantsOf(s, Clients)
      /\ SubclientsOf(AgeStore(s), Clients) = SubclientsOf(s, Clients)
    BY AgeStoreFacts DEF HasOf, WantsOf, SubclientsOf
<1> QED BY <1>1, <1>2 DEF SumsMatch

(* The empty store.                                                         *)
LEMMA EmptyStoreFacts ==
    /\ IsStore(EmptyStore)
    /\ SumsMatch(EmptyStore)
    /\ DOMAIN EmptyStore.leases = {}
<1>1. IsStore(EmptyStore) /\ DOMAIN EmptyStore.leases = {}
    BY DEF EmptyStore, IsStore
<1>2. \A c \in Clients : Get(EmptyStore, c) = ZeroLease
    BY <1>1 DEF Get, HasClient
<1>3. \A f \in [Clients -> {0}] : SumOver(Clients, f) = 0
    <2> TAKE f \in [Clients -> {0}]
    <2>1. f \in [Clients -> Int] /\ \A c \in Clients : f[c] + f[c] = f[c]
        OBVIOUS
    <2>2. SumOver(Clients, f) = SumOver(Clients, f) + SumOver(Clients, f)
        BY <2>1, SumOverAdd
    <2> QED BY <2>1, <2>2, SumOverInt
<1>4. SumsMatch(EmptyStore)
    BY <1>2, <1>3 DEF SumsMatch, HasOf, WantsOf, SubclientsOf, ZeroLease, EmptyStore
<1> QED BY <1>1, <1>4

-----------------------------------------------------------------------------
(* The algorithms. *)

(* The quotient the code rounds down.                                       *)
LEMMA DivType ==
    ASSUME NEW a \in Int, NEW b \in Int, b > 0
    PROVE  /\ a \div b \in Int
           /\ a >= 0 => a \div b >= 0
           /\ (a \div b) * b <= a
OBVIOUS

\* A store whose leases record requests that a client may make.
GoodStore(s) ==
    /\ IsStore(s)
    /\ SumsMatch(s)
    /\ \A c \in DOMAIN s.leases : s.leases[c].subclients > 0 /\ s.leases[c].wants >= 0

GoodRequest(r) == r \in Request /\ r.subclients > 0 /\ r.wants >= 0

(* No lease, recorded or zero, has negative wants or subclients.            *)
LEMMA GoodLeases ==
    ASSUME NEW s, GoodStore(s), NEW c
    PROVE  /\ Get(s, c) \in Lease
           /\ Get(s, c).subclients >= 0 /\ Get(s, c).wants >= 0
           /\ HasClient(s, c) => Get(s, c).subclients > 0
<1>1. Get(s, c) \in Lease
    BY GetType DEF GoodStore
<1>2. CASE HasClient(s, c)
    <2>1. Get(s, c) = s.leases[c] /\ c \in DOMAIN s.leases
        BY <1>2 DEF Get, HasClient
    <2>2. Get(s, c).subclients > 0 /\ Get(s, c).wants >= 0
        BY <2>1 DEF GoodStore
    <2> QED BY <1>1, <2>2 DEF Lease
<1>3. CASE ~HasClient(s, c)
    <2>1. Get(s, c) = ZeroLease
        BY <1>3 DEF Get
    <2> QED BY <1>1, <1>3, <2>1 DEF ZeroLease
<1> QED BY <1>2, <1>3

(* The number of subclients of any clients is not negative.                 *)
LEMMA SubclientsNonNegative ==
    ASSUME NEW s, GoodStore(s), NEW C
    PROVE  SubclientsOf(s, C) \in Nat
BY GoodLeases, FieldTypes, SumOverInt, SumOverNonNegative DEF SubclientsOf, GoodStore

(* The count of a store covers the subclients of each of its clients.       *)
LEMMA CountCovers ==
    ASSUME NEW s, GoodStore(s), NEW c \in Clients
    PROVE  s.count \in Int /\ s.count >= Get(s, c).subclients
<1> DEFINE f == [d \in Clients |-> Get(s, d).subclients]
<1>1. f \in [Clients -> Int]
    BY FieldTypes DEF GoodStore
<1>2. s.count \in Int /\ s.count = SumOver(Clients, f)
    BY DEF GoodStore, IsStore, SumsMatch, SubclientsOf
<1>3. \A d \in Clients : f[d] >= 0
    BY GoodLeases
<1>4. f[c] = Get(s, c).subclients
    OBVIOUS
<1> HIDE DEF f
<1>5. SumOver(Clients, f) = SumOver(Clients \cap {c}, f) + SumOver(Clients \ {c}, f)
    BY <1>1, SumOverSplit
<1>6. Clients \cap {c} = {c}
    OBVIOUS
<1>7. SumOver({c}, f) = f[c]
    BY <1>1, SumOverOne
<1>8. SumOver(Clients \ {c}, f) \in Int /\ SumOver(Clients \ {c}, f) >= 0
    BY <1>1, <1>3, SumOverInt, SumOverNonNegative
<1> QED BY <1>1, <1>2, <1>4, <1>5, <1>6, <1>7, <1>8

-----------------------------------------------------------------------------
(* FairShare *)

(* FairShare divides the capacity among at least one subclient.             *)
LEMMA FairCountPositive ==
    ASSUME NEW s, GoodStore(s), NEW r, GoodRequest(r)
    PROVE  FairCount(s, r) \in Int /\ FairCount(s, r) > 0
<1>1. r.client \in Clients /\ r.subclients \in Int /\ r.subclients > 0
    BY DEF GoodRequest, Request
<1>2. Get(s, r.client).subclients \in Int
    BY GoodLeases DEF Lease
<1> QED BY <1>1, <1>2, CountCovers DEF FairCount

(* The extra of the first round is not negative, and its divisor positive.  *)
LEMMA FirstRound ==
    ASSUME NEW s, GoodStore(s), NEW r, GoodRequest(r), NEW equal \in Int
    PROVE  /\ Extra(s, r, equal) \in Nat
           /\ WantExtra(s, r, equal) \in Int /\ WantExtra(s, r, equal) > 0
           /\ FirstRoundShare(s, r, equal) \in Int
           /\ FirstRoundShare(s, r, equal) >= equal * r.subclients
<1>1. r.subclients \in Int /\ r.subclients > 0
    BY DEF GoodRequest, Request
<1>2. WantExtra(s, r, equal) \in Int /\ WantExtra(s, r, equal) > 0
    BY <1>1, SubclientsNonNegative DEF WantExtra
<1>3. Extra(s, r, equal) \in Nat
    <2> DEFINE f == [c \in Clients |-> Deserved(s, c, equal) - Get(s, c).wants]
    <2>1. f \in [Clients -> Int]
        BY GoodLeases DEF Deserved, Lease
    <2>2. \A c \in Clients : c \in Modest(s, r, equal) => f[c] >= 0
        BY GoodLeases DEF Deserved, Lease, Modest
    <2>3. Extra(s, r, equal) = SumOver(Modest(s, r, equal), f)
        BY DEF Extra
    <2> HIDE DEF f
    <2> QED BY <2>1, <2>2, <2>3, SumOverInt, SumOverNonNegative
<1>4. Extra(s, r, equal) * r.subclients \in Nat /\ equal * r.subclients \in Int
    BY <1>1, <1>3
<1> QED BY <1>1, <1>2, <1>3, <1>4, DivType DEF FirstRoundShare

(* And so for the second round.                                             *)
LEMMA SecondRound ==
    ASSUME NEW s, GoodStore(s), NEW r, GoodRequest(r), NEW equal \in Int, NEW first \in Int
    PROVE  /\ ExtraExtra(s, r, equal, first) \in Nat
           /\ WantExtraExtra(s, r, equal, first) \in Int /\ WantExtraExtra(s, r, equal, first) > 0
           /\ SecondRoundShare(s, r, equal, first) \in Int
           /\ SecondRoundShare(s, r, equal, first) >= first
<1>1. r.subclients \in Int /\ r.subclients > 0
    BY DEF GoodRequest, Request
<1>2. WantExtraExtra(s, r, equal, first) \in Int /\ WantExtraExtra(s, r, equal, first) > 0
    BY <1>1, SubclientsNonNegative DEF WantExtraExtra
<1>3. ExtraExtra(s, r, equal, first) \in Nat
    <2> DEFINE C == {c \in WantExtraClients(s, r, equal) : Get(s, c).wants < first}
               f == [c \in Clients |-> first - Get(s, c).wants]
    <2>1. f \in [Clients -> Int]
        BY GoodLeases DEF Lease
    <2>2. \A c \in Clients : c \in C => f[c] >= 0
        BY GoodLeases DEF Lease
    <2>3. ExtraExtra(s, r, equal, first) = SumOver(C, f)
        BY DEF ExtraExtra
    <2> HIDE DEF f, C
    <2> QED BY <2>1, <2>2, <2>3, SumOverInt, SumOverNonNegative
<1>4. ExtraExtra(s, r, equal, first) * r.subclients \in Nat
    BY <1>1, <1>3
<1> QED BY <1>1, <1>2, <1>3, <1>4, DivType DEF SecondRoundShare

(* What FairShare aims at is an amount of capacity.                         *)
LEMMA FairTargetType ==
    ASSUME NEW s, GoodStore(s), NEW r, GoodRequest(r), NEW capacity \in Int
    PROVE  /\ FairTarget(s, capacity, r) \in Int
           /\ capacity >= 0 => FairTarget(s, capacity, r) >= 0
<1> DEFINE equal == EqualShare(s, capacity, r)
           first == FirstRoundShare(s, r, equal)
<1>1. r.subclients \in Int /\ r.subclients > 0 /\ r.wants \in Int /\ r.wants >= 0
    BY DEF GoodRequest, Request
<1>2. equal \in Int /\ (capacity >= 0 => equal >= 0)
    BY FairCountPositive, DivType DEF EqualShare
<1>3. first \in Int /\ first >= equal * r.subclients
    BY <1>2, FirstRound
<1>4. SecondRoundShare(s, r, equal, first) \in Int /\ SecondRoundShare(s, r, equal, first) >= first
    BY <1>2, <1>3, SecondRound
<1>5. FairTarget(s, capacity, r) = IF r.wants <= equal * r.subclients \/ r.wants < first
                                   THEN r.wants ELSE SecondRoundShare(s, r, equal, first)
    BY DEF FairTarget
<1>6. capacity >= 0 => equal * r.subclients >= 0
    BY <1>1, <1>2
<1> HIDE DEF equal, first
<1>7. equal * r.subclients \in Int
    BY <1>1, <1>2
<1> QED BY <1>1, <1>2, <1>3, <1>4, <1>5, <1>6, <1>7

(* What FairShare grants: never more than is available, and an amount of    *)
(* capacity if anything is.                                                 *)
LEMMA FairShareGrant ==
    ASSUME NEW s, GoodStore(s), NEW r, GoodRequest(r), NEW capacity \in Int
    PROVE  /\ FairShare(s, capacity, r) \in Int
           /\ FairShare(s, capacity, r) <= Available(s, capacity, r)
           /\ capacity >= 0 /\ Available(s, capacity, r) >= 0 => FairShare(s, capacity, r) >= 0
<1>1. Available(s, capacity, r) \in Int
    BY GoodLeases DEF Available, GoodStore, IsStore, Lease
<1> QED BY <1>1, FairTargetType DEF FairShare, MinF

-----------------------------------------------------------------------------
(* ProportionalShare *)

(* ProportionalShare divides the capacity among at least one subclient.     *)
LEMMA ProportionalCountPositive ==
    ASSUME NEW s, GoodStore(s), NEW r, GoodRequest(r)
    PROVE  ProportionalCount(s, r) \in Int /\ ProportionalCount(s, r) > 0
<1>1. r.client \in Clients /\ r.subclients \in Int /\ r.subclients > 0
    BY DEF GoodRequest, Request
<1>2. Get(s, r.client).subclients \in Int /\ Get(s, r.client).subclients >= 0
      /\ (HasClient(s, r.client) => Get(s, r.client).subclients > 0)
    BY GoodLeases DEF Lease
<1> QED BY <1>1, <1>2, CountCovers DEF ProportionalCount

(* A client's wants over its equal share.                                   *)
LEMMA OverShareType ==
    ASSUME NEW s, GoodStore(s), NEW r, GoodRequest(r), NEW equal \in Int, NEW c
    PROVE  OverShare(s, r, c, equal) \in Int
<1>1. Seen(s, r, c).wants \in Int /\ Seen(s, r, c).subclients \in Int
    BY GoodLeases DEF Seen, GoodRequest, Request, Lease
<1> QED BY <1>1 DEF OverShare

(* The capacity the modest clients leave is not negative.                   *)
LEMMA ExtraCapacityType ==
    ASSUME NEW s, GoodStore(s), NEW r, GoodRequest(r), NEW equal \in Int
    PROVE  ExtraCapacity(s, r, equal) \in Nat
<1> DEFINE C == {c \in DOMAIN s.leases : OverShare(s, r, c, equal) < 0}
           f == [c \in Clients |-> -OverShare(s, r, c, equal)]
<1>1. f \in [Clients -> Int]
    BY OverShareType
<1>2. \A c \in Clients : c \in C => f[c] >= 0
    BY OverShareType
<1>3. ExtraCapacity(s, r, equal) = SumOver(C, f)
    BY DEF ExtraCapacity
<1> HIDE DEF C, f
<1> QED BY <1>1, <1>2, <1>3, SumOverInt, SumOverNonNegative

(* Whenever ProportionalShare divides by the need for extra, there is some. *)
(* The request may raise the wants above what SumWants counts, or come from *)
(* a client that is in no sum yet.                                          *)
LEMMA ExtraNeedPositive ==
    ASSUME NEW s, GoodStore(s), NEW r, GoodRequest(r), NEW capacity \in Nat,
           ~IsPlenty(s, capacity, r, ProportionalEqualShare(s, capacity, r))
    PROVE  /\ ExtraNeed(s, r, ProportionalEqualShare(s, capacity, r)) \in Int
           /\ ExtraNeed(s, r, ProportionalEqualShare(s, capacity, r)) > 0
<1> DEFINE equal == ProportionalEqualShare(s, capacity, r)
           C == {c \in DOMAIN s.leases : OverShare(s, r, c, equal) >= 0}
           f == [c \in Clients |-> OverShare(s, r, c, equal)]
<1>1. equal \in Nat /\ equal * ProportionalCount(s, r) <= capacity
    BY ProportionalCountPositive, DivType DEF ProportionalEqualShare
<1>2. f \in [Clients -> Int]
    BY <1>1, OverShareType
<1>3. \A c \in Clients : c \in C => f[c] >= 0
    OBVIOUS
<1>4. ExtraNeed(s, r, equal) = SumOver(C, f)
    BY DEF ExtraNeed
<1>5. s.sumWants > capacity /\ r.wants > equal * r.subclients
    <2>1. s.sumWants \in Int /\ r.wants \in Int /\ equal * r.subclients \in Int
        BY <1>1 DEF GoodStore, IsStore, GoodRequest, Request
    <2>2. ~(s.sumWants <= capacity) /\ ~(r.wants <= equal * r.subclients)
        BY DEF IsPlenty
    <2> HIDE DEF equal
    <2> QED BY <2>1, <2>2
<1>6. SumOver(C, f) \in Int
    BY <1>2, SumOverInt
<1>7. CASE HasClient(s, r.client)
    <2>1. r.client \in Clients /\ r.client \in C /\ f[r.client] > 0
        BY <1>1, <1>5, <1>7 DEF HasClient, OverShare, Seen, GoodRequest, Request
    <2> HIDE DEF C, f
    <2>2. SumOver(C, f) = SumOver(C \cap {r.client}, f) + SumOver(C \ {r.client}, f)
        BY <1>2, SumOverSplit
    <2>3. C \cap {r.client} = {r.client}
        BY <2>1
    <2>4. SumOver({r.client}, f) = f[r.client]
        BY <1>2, <2>1, SumOverOne
    <2>5. SumOver(C \ {r.client}, f) \in Int /\ SumOver(C \ {r.client}, f) >= 0
        BY <1>2, <1>3, SumOverInt, SumOverNonNegative
    <2> QED BY <1>2, <1>4, <2>1, <2>2, <2>3, <2>4, <2>5
<1>8. CASE ~HasClient(s, r.client)
    <2> DEFINE n == [c \in Clients |-> Get(s, c).subclients]
               w == [c \in Clients |-> Get(s, c).wants]
               e == [c \in Clients |-> equal * n[c]]
               over == [c \in Clients |-> w[c] - e[c]]
               rest == [c \in Clients |-> -over[c]]
    <2>1. /\ n \in [Clients -> Int] /\ w \in [Clients -> Int] /\ e \in [Clients -> Int]
          /\ over \in [Clients -> Int] /\ rest \in [Clients -> Int]
        BY <1>1, FieldTypes DEF GoodStore
    <2>2. \A c \in C : f[c] = over[c]
        BY <1>8 DEF HasClient, OverShare, Seen, GoodStore, IsStore
    <2>3. \A c \in Clients : c \notin C => over[c] <= 0
        <3> SUFFICES ASSUME NEW c \in Clients, c \notin C PROVE over[c] <= 0
            OBVIOUS
        <3>1. CASE c \in DOMAIN s.leases
            <4>1. OverShare(s, r, c, equal) \in Int /\ ~(OverShare(s, r, c, equal) >= 0)
                BY <1>1, <3>1, OverShareType
            <4>2. OverShare(s, r, c, equal) = over[c]
                BY <1>8, <3>1 DEF HasClient, OverShare, Seen
            <4> QED BY <4>1, <4>2
        <3>2. CASE c \notin DOMAIN s.leases
            BY <1>1, <3>2 DEF Get, HasClient, ZeroLease
        <3> QED BY <3>1, <3>2
    <2>4. SumOver(C, f) = SumOver(C, over)
        <3> HIDE DEF C, f, over
        <3> QED BY <2>2, SumOverSame
    <2>5. SumOver(Clients, n) = s.count /\ SumOver(Clients, w) = s.sumWants
        BY DEF GoodStore, SumsMatch, SubclientsOf, WantsOf
    <2>6. SumOver(Clients, e) = equal * s.count
        <3>1. \A c \in Clients : e[c] = equal * n[c]
            OBVIOUS
        <3> HIDE DEF equal, e, n
        <3> QED BY <1>1, <2>1, <2>5, <3>1, SumOverScale
    <2>7. SumOver(Clients, w) = SumOver(Clients, over) + SumOver(Clients, e)
        <3>1. \A c \in Clients : w[c] = over[c] + e[c]
            BY <2>1
        <3> HIDE DEF w, over, e
        <3> QED BY <2>1, <3>1, SumOverAdd
    <2>8. SumOver(C, over) = SumOver(Clients, over) + SumOver(Clients \ C, rest)
        <3>1. \A c \in Clients : rest[c] = -over[c]
            OBVIOUS
        <3> HIDE DEF C, over, rest
        <3> QED BY <2>1, <3>1, SumOverAdd
    <2>9. SumOver(Clients \ C, rest) \in Int /\ SumOver(Clients \ C, rest) >= 0
        <3>1. \A c \in Clients : c \in Clients \ C => rest[c] >= 0
            BY <2>1, <2>3
        <3> HIDE DEF C, rest
        <3> QED BY <2>1, <3>1, SumOverInt, SumOverNonNegative
    <2>10. equal * s.count <= capacity
        <3>1. ProportionalCount(s, r) = s.count + r.subclients
            BY <1>8 DEF ProportionalCount
        <3>2. r.subclients \in Nat /\ s.count \in Int
            BY DEF GoodRequest, Request, GoodStore, IsStore
        <3> HIDE DEF equal
        <3>3. equal * (s.count + r.subclients) = equal * s.count + equal * r.subclients
            BY <1>1, <3>2
        <3>4. equal * r.subclients >= 0 /\ equal * s.count \in Int
            BY <1>1, <3>2
        <3> QED BY <1>1, <3>1, <3>2, <3>3, <3>4
    <2>11. SumOver(Clients, over) \in Int /\ SumOver(Clients, e) \in Int
        BY <2>1, SumOverInt
    <2> HIDE DEF equal, C, f, n, w, e, over, rest
    <2>12. s.sumWants \in Int
        BY DEF GoodStore, IsStore
    <2> QED BY <1>4, <1>5, <1>6, <2>4, <2>5, <2>6, <2>7, <2>8, <2>9, <2>10, <2>11, <2>12 DEF equal
<1> QED BY <1>7, <1>8

(* What ProportionalShare aims at is an amount of capacity.                 *)
LEMMA ProportionalTargetType ==
    ASSUME NEW s, GoodStore(s), NEW r, GoodRequest(r), NEW capacity \in Nat
    PROVE  ProportionalTarget(s, capacity, r) \in Nat
<1> DEFINE equal == ProportionalEqualShare(s, capacity, r)
           share == equal * r.subclients
<1>1. r.subclients \in Int /\ r.subclients > 0 /\ r.wants \in Int /\ r.wants >= 0
    BY DEF GoodRequest, Request
<1>2. equal \in Nat
    BY ProportionalCountPositive, DivType DEF ProportionalEqualShare
<1>3. share \in Nat
    BY <1>1, <1>2
<1>4. ProportionalTarget(s, capacity, r) =
        IF IsPlenty(s, capacity, r, equal)
        THEN r.wants
        ELSE share + ((r.wants - share) * ExtraCapacity(s, r, equal)) \div ExtraNeed(s, r, equal)
    BY DEF ProportionalTarget
<1>5. CASE IsPlenty(s, capacity, r, equal)
    BY <1>1, <1>4, <1>5
<1>6. CASE ~IsPlenty(s, capacity, r, equal)
    <2>1. r.wants - share \in Nat
        <3>1. ~(r.wants <= share)
            BY <1>6 DEF IsPlenty
        <3> HIDE DEF share
        <3> QED BY <1>1, <1>3, <3>1
    <2>2. ExtraCapacity(s, r, equal) \in Nat
        BY <1>2, ExtraCapacityType
    <2>3. (r.wants - share) * ExtraCapacity(s, r, equal) \in Nat
        <3> HIDE DEF share, equal
        <3> QED BY <2>1, <2>2
    <2>4. ExtraNeed(s, r, equal) \in Int /\ ExtraNeed(s, r, equal) > 0
        BY <1>6, ExtraNeedPositive
    <2> HIDE DEF share, equal
    <2>5. ((r.wants - share) * ExtraCapacity(s, r, equal)) \div ExtraNeed(s, r, equal) \in Nat
        BY <2>3, <2>4, DivType
    <2> QED BY <1>3, <1>4, <1>6, <2>5
<1> QED BY <1>5, <1>6

(* What ProportionalShare grants, as for FairShare.                         *)
LEMMA ProportionalShareGrant ==
    ASSUME NEW s, GoodStore(s), NEW r, GoodRequest(r), NEW capacity \in Nat
    PROVE  /\ ProportionalShare(s, capacity, r) \in Int
           /\ ProportionalShare(s, capacity, r) <= Available(s, capacity, r)
           /\ Available(s, capacity, r) >= 0 => ProportionalShare(s, capacity, r) >= 0
<1>1. Available(s, capacity, r) \in Int
    BY GoodLeases DEF Available, GoodStore, IsStore, Lease
<1> QED BY <1>1, ProportionalTargetType DEF ProportionalShare, MinF

(* Every algorithm grants an integer.                                       *)
LEMMA AmountType ==
    ASSUME NEW s, GoodStore(s), NEW r, GoodRequest(r), NEW capacity \in Nat, NEW kind \in Kinds
    PROVE  Amount(kind, s, capacity, r) \in Int
<1>1. r.wants \in Int
    BY DEF GoodRequest, Request
<1>2. CASE kind = "NO_ALGORITHM"
    BY <1>1, <1>2 DEF Amount, NoAlgorithm
<1>3. CASE kind = "STATIC"
    BY <1>1, <1>3 DEF Amount, Static, MinF
<1>4. CASE kind = "PROPORTIONAL_SHARE"
    BY <1>4, ProportionalShareGrant DEF Amount
<1>5. CASE kind = "FAIR_SHARE"
    BY <1>5, FairShareGrant DEF Amount
<1> QED BY <1>2, <1>3, <1>4, <1>5 DEF Kinds

-----------------------------------------------------------------------------
(* Resources. *)

\* A resource whose leases record requests that a client may make.
GoodResource(x) == IsResource(x) /\ GoodStore(x.store)

(* Dropping leases keeps a store good.                                      *)
LEMMA CleanGood ==
    ASSUME NEW s, GoodStore(s), NEW C
    PROVE  /\ GoodStore(ReleaseAll(s, C))
           /\ DOMAIN ReleaseAll(s, C).leases = DOMAIN s.leases \ C
           /\ \A c \in DOMAIN s.leases \ C : ReleaseAll(s, C).leases[c] = s.leases[c]
<1>1. /\ DOMAIN ReleaseAll(s, C).leases = DOMAIN s.leases \ C
      /\ \A c \in DOMAIN s.leases \ C : ReleaseAll(s, C).leases[c] = s.leases[c]
    BY DEF ReleaseAll
<1>2. IsStore(ReleaseAll(s, C)) /\ SumsMatch(ReleaseAll(s, C))
    BY ReleaseAllType, ReleaseAllSums DEF GoodStore
<1> QED BY <1>1, <1>2 DEF GoodStore

(* The capacity in force is an amount of capacity.                          *)
LEMMA CapacityType ==
    ASSUME NEW x, IsResource(x)
    PROVE  Capacity(x) \in Nat /\ Capacity(x) <= x.config.capacity
BY DEF IsResource, Template, Capacity

(* A decision cleans the store, assigns the requester an integer, and keeps *)
(* the resource good.                                                       *)
LEMMA DecideGood ==
    ASSUME NEW x, GoodResource(x), NEW r, GoodRequest(r)
    PROVE  /\ GoodResource(Decide(x, r))
           /\ DecidedAmount(x, r) \in Int
           /\ GoodStore(Clean(x.store))
           /\ Decide(x, r) =
                [store |-> Assign(Clean(x.store), r.client, DecidedAmount(x, r), r.wants, r.subclients,
                                  x.config.leaseLength),
                 config |-> x.config, expiry |-> x.expiry, learningLeft |-> x.learningLeft]
<1> DEFINE s == Clean(x.store)
           a == DecidedAmount(x, r)
           n == x.config.leaseLength
           t == Assign(s, r.client, a, r.wants, r.subclients, n)
<1>1. GoodStore(s)
    BY CleanGood DEF Clean, GoodResource
<1>2. /\ r.client \in Clients
      /\ r.wants \in Int /\ r.wants >= 0 /\ r.subclients \in Int /\ r.subclients > 0 /\ r.has \in Int
    BY DEF GoodRequest, Request
<1>3. Capacity(x) \in Nat /\ n \in Int /\ x.config.kind \in Kinds
    BY CapacityType DEF GoodResource, IsResource, Template
<1>4. a \in Int
    BY <1>1, <1>2, <1>3, AmountType DEF DecidedAmount, Learn
<1>5. Decide(x, r) = [store |-> t, config |-> x.config,
                      expiry |-> x.expiry, learningLeft |-> x.learningLeft]
    BY DEF Decide, Grant, GoodResource, IsResource
<1>6. GoodStore(t)
    <2>1. \A c \in DOMAIN t.leases : t.leases[c].subclients > 0 /\ t.leases[c].wants >= 0
        <3> HIDE DEF s, a, n
        <3> QED BY <1>1, <1>2 DEF Assign, GoodStore
    <2> HIDE DEF s, a, n
    <2>2. IsStore(t) /\ SumsMatch(t)
        BY <1>1, <1>2, <1>3, <1>4, AssignType, AssignSums DEF GoodStore
    <2> HIDE DEF t
    <2> QED BY <2>1, <2>2 DEF GoodStore
<1> HIDE DEF t, s, a
<1>7. GoodResource(Decide(x, r))
    BY <1>5, <1>6 DEF GoodResource, IsResource, GoodStore
<1> QED BY <1>1, <1>4, <1>5, <1>7 DEF t, s, a

(* The leases after a decision are those that had not expired, with the     *)
(* requester's replaced.                                                    *)
LEMMA DecideLeases ==
    ASSUME NEW x, GoodResource(x), NEW r, GoodRequest(r)
    PROVE  /\ \A c : Get(Decide(x, r).store, c).has =
                      IF c = r.client THEN DecidedAmount(x, r) ELSE Get(Clean(x.store), c).has
           /\ HasOf(Decide(x, r).store, Clients) =
                Clean(x.store).sumHas + (DecidedAmount(x, r) - Get(Clean(x.store), r.client).has)
<1> DEFINE s == Clean(x.store)
           a == DecidedAmount(x, r)
           n == x.config.leaseLength
           t == Assign(s, r.client, a, r.wants, r.subclients, n)
<1>1. GoodStore(s)
    BY DecideGood
<1>2. r.client \in Clients
    BY DEF GoodRequest, Request
<1>3. Decide(x, r).store = t
    BY DecideGood
<1>4. \A c : Get(t, c).has = IF c = r.client THEN a ELSE Get(s, c).has
    <2> HIDE DEF s, a, n
    <2> QED BY <1>1, <1>2, AssignGet DEF GoodStore
<1>5. HasOf(t, Clients) = t.sumHas
    BY <1>3, DecideGood DEF GoodResource, GoodStore, SumsMatch
<1>6. t.sumHas = s.sumHas + (a - Get(s, r.client).has)
    BY DEF Assign
<1> HIDE DEF s, a, t
<1> QED BY <1>3, <1>4, <1>5, <1>6 DEF s, a

(* What a sharing algorithm grants is available, and an amount of capacity  *)
(* if anything is.                                                          *)
LEMMA SharingAmount ==
    ASSUME NEW x, GoodResource(x), NEW r, GoodRequest(r),
           ~InLearningMode(x), x.config.kind \in SharingKinds
    PROVE  /\ DecidedAmount(x, r) \in Int
           /\ DecidedAmount(x, r) <= Available(Clean(x.store), Capacity(x), r)
           /\ Available(Clean(x.store), Capacity(x), r) >= 0 => DecidedAmount(x, r) >= 0
<1> DEFINE s == Clean(x.store)
           cap == Capacity(x)
<1>1. GoodStore(s)
    BY DecideGood
<1>2. cap \in Nat
    BY CapacityType DEF GoodResource
<1>3. CASE x.config.kind = "FAIR_SHARE"
    <2>1. DecidedAmount(x, r) = FairShare(s, cap, r)
        BY <1>3 DEF DecidedAmount, Amount
    <2> HIDE DEF s, cap
    <2> QED BY <1>1, <1>2, <2>1, FairShareGrant DEF s, cap
<1>4. CASE x.config.kind = "PROPORTIONAL_SHARE"
    <2>1. DecidedAmount(x, r) = ProportionalShare(s, cap, r)
        BY <1>4 DEF DecidedAmount, Amount
    <2> HIDE DEF s, cap
    <2> QED BY <1>1, <1>2, <2>1, ProportionalShareGrant DEF s, cap
<1> QED BY <1>3, <1>4 DEF SharingKinds

(* A decision of a sharing algorithm leaves no more than the capacity.      *)
LEMMA SharingDecision ==
    ASSUME NEW x, GoodResource(x), NEW r, GoodRequest(r),
           ~InLearningMode(x), x.config.kind \in SharingKinds
    PROVE  HasOf(Decide(x, r).store, Clients) <= Capacity(x)
<1> DEFINE s == Clean(x.store)
           a == DecidedAmount(x, r)
<1>1. GoodStore(s)
    BY DecideGood
<1>2. s.sumHas \in Int /\ Get(s, r.client).has \in Int
    BY <1>1, GoodLeases DEF GoodStore, IsStore, Lease
<1>3. Capacity(x) \in Int
    BY CapacityType DEF GoodResource
<1>4. a \in Int /\ a <= Capacity(x) - s.sumHas + Get(s, r.client).has
    BY SharingAmount DEF Available
<1>5. HasOf(Decide(x, r).store, Clients) = s.sumHas + (a - Get(s, r.client).has)
    BY DecideLeases
<1> HIDE DEF s, a
<1> QED BY <1>2, <1>3, <1>4, <1>5

(* A new resource is good, *)
LEMMA NewGood ==
    ASSUME NEW cfg \in Template, NEW age \in Int
    PROVE  GoodResource(NewResource(cfg, age))
BY EmptyStoreFacts
   DEF GoodResource, GoodStore, IsResource, NewResource, NoExpiry, Expiry, LearningLeft, Template

(* and a reload or a tick keeps it good.                                    *)
LEMMA LoadConfigGood ==
    ASSUME NEW x, GoodResource(x), NEW cfg \in Template, NEW expiry \in Expiry
    PROVE  /\ GoodResource(LoadConfig(x, cfg, expiry))
           /\ LoadConfig(x, cfg, expiry) = [store |-> x.store, config |-> cfg,
                                            expiry |-> expiry, learningLeft |-> x.learningLeft]
BY DEF LoadConfig, GoodResource, IsResource

LEMMA AgeGood ==
    ASSUME NEW x, GoodResource(x)
    PROVE  /\ GoodResource(AgeResource(x))
           /\ \A c : Get(AgeResource(x).store, c).has = Get(x.store, c).has
<1> DEFINE t == AgeStore(x.store)
           e == IF x.expiry.set THEN ExpiresIn(Tick(x.expiry.left)) ELSE NoExpiry
           l == IF x.learningLeft > 0 THEN x.learningLeft - 1 ELSE 0
<1>1. GoodStore(x.store) /\ IsStore(x.store) /\ SumsMatch(x.store)
    BY DEF GoodResource, GoodStore
<1>2. /\ IsStore(t) /\ SumsMatch(t)
      /\ DOMAIN t.leases = DOMAIN x.store.leases
      /\ \A c : /\ Get(t, c).has = Get(x.store, c).has
                /\ Get(t, c).wants = Get(x.store, c).wants
                /\ Get(t, c).subclients = Get(x.store, c).subclients
    BY <1>1, AgeStoreFacts, AgeStoreSums
<1>3. AgeResource(x) = [store |-> t, config |-> x.config, expiry |-> e, learningLeft |-> l]
    BY DEF AgeResource, GoodResource, IsResource
<1>4. e \in Expiry /\ l \in Int
    BY DEF GoodResource, IsResource, Expiry, ExpiresIn, NoExpiry, Tick
<1> HIDE DEF t, e, l
<1>5. GoodStore(t)
    BY <1>1, <1>2 DEF GoodStore, Get, HasClient
<1> QED BY <1>2, <1>3, <1>4, <1>5 DEF GoodResource, IsResource

-----------------------------------------------------------------------------
(* A resource that is shared, and neither learns nor expires. *)

\* Nobody has a negative amount, and all of them together are within the
\* capacity.
Within(x) ==
    /\ GoodResource(x)
    /\ x.config.kind \in SharingKinds /\ ~x.expiry.set /\ x.learningLeft = 0
    /\ \A c \in Clients : Get(x.store, c).has >= 0
    /\ HasOf(x.store, Clients) <= x.config.capacity

(* Nothing is available that is negative while the leases are within the    *)
(* capacity and none of them is negative: what expired only adds to it.     *)
LEMMA WithinAvailable ==
    ASSUME NEW x, Within(x), NEW r, GoodRequest(r)
    PROVE  Available(Clean(x.store), Capacity(x), r) >= 0
<1> DEFINE s == Clean(x.store)
           E == Expired(x.store)
<1>1. GoodStore(x.store) /\ IsStore(x.store) /\ SumsMatch(x.store)
    BY DEF Within, GoodResource, GoodStore
<1>2. s.sumHas = HasOf(x.store, Clients) - HasOf(x.store, E)
    BY <1>1 DEF Clean, ReleaseAll, SumsMatch
<1>3. HasOf(x.store, E) >= 0 /\ HasOf(x.store, E) \in Int /\ HasOf(x.store, Clients) \in Int
    BY <1>1, FieldTypes, HasOfInt, SumOverNonNegative DEF HasOf, Within
<1>4. Get(s, r.client).has >= 0 /\ Get(s, r.client).has \in Int
    <2>1. r.client \in Clients
        BY DEF GoodRequest, Request
    <2>2. Get(s, r.client) = IF r.client \in E THEN ZeroLease ELSE Get(x.store, r.client)
        BY <1>1, ReleaseAllGet DEF Clean
    <2>3. Get(x.store, r.client).has >= 0 /\ Get(x.store, r.client).has \in Int
        BY <1>1, <2>1, GetType DEF Within, Lease
    <2> QED BY <2>2, <2>3 DEF ZeroLease
<1>5. Capacity(x) = x.config.capacity /\ x.config.capacity \in Int
    BY DEF Capacity, Within, GoodResource, IsResource, Template
<1>6. HasOf(x.store, Clients) <= x.config.capacity
    BY DEF Within
<1> HIDE DEF s, E
<1>7. Available(s, Capacity(x), r) = Capacity(x) - s.sumHas + Get(s, r.client).has
    BY DEF Available
<1> QED BY <1>2, <1>3, <1>4, <1>5, <1>6, <1>7 DEF s

(* A decision keeps such a resource within its capacity.                    *)
LEMMA WithinDecide ==
    ASSUME NEW x, Within(x), NEW r, GoodRequest(r)
    PROVE  Within(Decide(x, r))
<1> DEFINE a == DecidedAmount(x, r)
           y == Decide(x, r)
<1>1. GoodResource(x) /\ GoodStore(x.store) /\ IsStore(x.store)
    BY DEF Within, GoodResource, GoodStore
<1>2. ~InLearningMode(x) /\ x.config.kind \in SharingKinds
    BY DEF InLearningMode, Within
<1>3. a >= 0
    BY <1>1, <1>2, SharingAmount, WithinAvailable
<1>4. \A c \in Clients : Get(y.store, c).has >= 0
    <2>1. \A c \in Clients : Get(y.store, c).has = IF c = r.client THEN a ELSE Get(Clean(x.store), c).has
        BY <1>1, DecideLeases
    <2>2. \A c \in Clients : Get(Clean(x.store), c) =
             IF c \in Expired(x.store) THEN ZeroLease ELSE Get(x.store, c)
        BY <1>1, ReleaseAllGet DEF Clean
    <2>3. \A c \in Clients : Get(x.store, c).has >= 0
        BY DEF Within
    <2> HIDE DEF a, y
    <2> QED BY <1>3, <2>1, <2>2, <2>3 DEF ZeroLease
<1>5. HasOf(y.store, Clients) <= Capacity(x)
    BY <1>1, <1>2, SharingDecision
<1>6. /\ Capacity(x) = x.config.capacity
      /\ GoodResource(y) /\ y.config = x.config /\ y.expiry = x.expiry /\ y.learningLeft = x.learningLeft
    BY <1>1, DecideGood DEF Capacity, Within
<1> HIDE DEF y
<1>7. Within(y)
    BY <1>1, <1>2, <1>4, <1>5, <1>6 DEF Within
<1> QED BY <1>7 DEF y

(* So does a tick.                                                          *)
LEMMA WithinAge ==
    ASSUME NEW x, Within(x)
    PROVE  Within(AgeResource(x))
<1>1. /\ AgeResource(x).config = x.config
      /\ AgeResource(x).expiry = NoExpiry /\ AgeResource(x).learningLeft = 0
    BY DEF AgeResource, Within
<1>2. GoodResource(AgeResource(x)) /\ \A c : Get(AgeResource(x).store, c).has = Get(x.store, c).has
    BY AgeGood DEF Within
<1>3. HasOf(AgeResource(x).store, Clients) = HasOf(x.store, Clients)
    BY <1>2 DEF HasOf
<1> QED BY <1>1, <1>2, <1>3 DEF Within, NoExpiry

(* And so does a reload to a template that shares the same capacity.        *)
LEMMA WithinLoadConfig ==
    ASSUME NEW x, Within(x), NEW cfg \in Template,
           cfg.kind \in SharingKinds, cfg.capacity = x.config.capacity
    PROVE  Within(LoadConfig(x, cfg, NoExpiry))
<1>1. NoExpiry \in Expiry
    BY DEF NoExpiry, Expiry
<1> QED BY <1>1, LoadConfigGood DEF Within, NoExpiry

(* A new resource without learning mode is within its capacity.             *)
LEMMA WithinNew ==
    ASSUME NEW cfg \in Template, NEW age \in Nat, cfg.kind \in SharingKinds, cfg.learning = 0
    PROVE  Within(NewResource(cfg, age))
<1>1. \A c : Get(EmptyStore, c) = ZeroLease
    BY DEF EmptyStore, Get, HasClient
<1>2. HasOf(EmptyStore, Clients) = 0
    BY EmptyStoreFacts DEF SumsMatch, EmptyStore
<1>3. GoodResource(NewResource(cfg, age))
    BY NewGood
<1> QED BY <1>1, <1>2, <1>3 DEF Within, NewResource, NoExpiry, LearningLeft, ZeroLease, Template

=============================================================================
