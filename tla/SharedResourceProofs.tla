------------------------ MODULE SharedResourceProofs ------------------------
(***************************************************************************)
(* What a shared resource keeps true for every number of clients, every set *)
(* of templates, of wants and of claims.                                    *)
(*                                                                         *)
(* The inductive invariant is IInv: that the store is well formed needs the *)
(* divisors of the algorithms to be positive, which needs the running sums  *)
(* to be right, and that the recorded subclients are positive; so type      *)
(* correctness and the sums are proved together.                            *)
(***************************************************************************)
EXTENDS SharedResource, ResourceTheorems

IInv == TypeOK /\ SumsMatchLeases

\* TypeOK of a resource, whichever variable it is in.
WellFormed(x) ==
    /\ IsResource(x)
    /\ \A c \in DOMAIN x.store.leases :
          /\ x.store.leases[c].wants \in Wants
          /\ x.store.leases[c].subclients \in SubclientCounts
    /\ SumsMatch(x.store)

(* The algorithms may rely on the store of a well-formed resource.          *)
LEMMA WellFormedStore ==
    ASSUME NEW x, WellFormed(x)
    PROVE  GoodResource(x) /\ GoodStore(x.store)
BY WantsAssumption, SubclientsAssumption DEF WellFormed, IsResource, GoodStore, GoodResource

(* Every request satisfies what the algorithms assume of one.               *)
LEMMA RequestIsGood ==
    ASSUME NEW r \in Requests
    PROVE  GoodRequest(r) /\ r.wants \in Wants /\ r.subclients \in SubclientCounts /\ r.client \in Clients
<1>1. /\ r = [client |-> r.client, has |-> r.has, wants |-> r.wants, subclients |-> r.subclients]
      /\ r.client \in Clients /\ r.has \in Claims /\ r.wants \in Wants /\ r.subclients \in SubclientCounts
    BY DEF Requests
<1>2. r.has \in Int /\ r.wants \in Nat /\ r.subclients \in Nat /\ r.subclients > 0
    BY <1>1, WantsAssumption, SubclientsAssumption, ClaimsAssumption
<1>3. r \in Request
    BY <1>1, <1>2 DEF Request
<1> QED BY <1>1, <1>2, <1>3 DEF GoodRequest

(* A decision keeps a resource well formed, and grants an integer.          *)
LEMMA DecideWellFormed ==
    ASSUME NEW x, WellFormed(x), NEW r \in Requests
    PROVE  /\ WellFormed(Decide(x, r))
           /\ DecidedAmount(x, r) \in Int
<1> DEFINE s == Clean(x.store)
           a == DecidedAmount(x, r)
           n == x.config.leaseLength
           t == Assign(s, r.client, a, r.wants, r.subclients, n)
<1>1. /\ GoodResource(Decide(x, r)) /\ a \in Int
      /\ Decide(x, r).store = t
    BY WellFormedStore, RequestIsGood, DecideGood
<1>2. /\ DOMAIN s.leases = DOMAIN x.store.leases \ Expired(x.store)
      /\ \A c \in DOMAIN s.leases : s.leases[c] = x.store.leases[c]
    BY WellFormedStore, CleanGood DEF Clean
<1>3. \A c \in DOMAIN t.leases :
         t.leases[c].wants \in Wants /\ t.leases[c].subclients \in SubclientCounts
    <2>1. \A c \in DOMAIN s.leases :
             s.leases[c].wants \in Wants /\ s.leases[c].subclients \in SubclientCounts
        BY <1>2 DEF WellFormed
    <2> HIDE DEF s, a, n
    <2> QED BY <2>1, RequestIsGood DEF Assign
<1> HIDE DEF t, a
<1> QED BY <1>1, <1>3 DEF WellFormed, GoodResource, GoodStore, a

(* A new resource is well formed.                                           *)
LEMMA InitWellFormed ==
    ASSUME NEW cfg \in Templates, NEW age \in Ages
    PROVE  WellFormed(NewResource(cfg, age))
BY EmptyStoreFacts, TemplatesAssumption, AgesAssumption
   DEF WellFormed, IsResource, NewResource, NoExpiry, Expiry, LearningLeft, Template

(* A release keeps a resource well formed.                                  *)
LEMMA ReleaseWellFormed ==
    ASSUME NEW x, WellFormed(x), NEW c \in Clients
    PROVE  WellFormed(ReleaseClient(x, c))
<1> DEFINE t == Release(x.store, c)
<1>1. GoodStore(x.store)
    BY WellFormedStore
<1>2. /\ IsStore(t) /\ SumsMatch(t)
      /\ \A d \in DOMAIN t.leases : d \in DOMAIN x.store.leases /\ t.leases[d] = x.store.leases[d]
    <2>1. CASE HasClient(x.store, c)
        <3>1. t = ReleaseAll(x.store, {c})
            BY <1>1, <2>1, ReleaseIsReleaseAll DEF GoodStore
        <3>2. GoodStore(ReleaseAll(x.store, {c}))
            BY <1>1, CleanGood
        <3>3. \A d \in DOMAIN t.leases : d \in DOMAIN x.store.leases /\ t.leases[d] = x.store.leases[d]
            BY <3>1 DEF ReleaseAll
        <3> HIDE DEF t
        <3> QED BY <3>1, <3>2, <3>3 DEF GoodStore
    <2>2. CASE ~HasClient(x.store, c)
        <3>1. t = x.store
            BY <1>1, <2>2, ReleaseIsReleaseAll DEF GoodStore
        <3> HIDE DEF t
        <3> QED BY <1>1, <3>1 DEF GoodStore
    <2> QED BY <2>1, <2>2
<1>3. ReleaseClient(x, c) = [store |-> t, config |-> x.config,
                             expiry |-> x.expiry, learningLeft |-> x.learningLeft]
    BY DEF ReleaseClient, WellFormed, IsResource
<1> HIDE DEF t
<1> QED BY <1>2, <1>3 DEF WellFormed, IsResource

(* A reload keeps a resource well formed.                                   *)
LEMMA ReloadWellFormed ==
    ASSUME NEW x, WellFormed(x), NEW cfg \in Templates, NEW expiry \in Expiries
    PROVE  WellFormed(LoadConfig(x, cfg, expiry))
<1>1. cfg \in Template /\ expiry \in Expiry
    BY TemplatesAssumption, ExpiriesAssumption
<1>2. LoadConfig(x, cfg, expiry) = [store |-> x.store, config |-> cfg,
                                    expiry |-> expiry, learningLeft |-> x.learningLeft]
    BY DEF LoadConfig, WellFormed, IsResource
<1> QED BY <1>1, <1>2 DEF WellFormed, IsResource

(* A tick keeps a resource well formed.                                     *)
LEMMA AgeWellFormed ==
    ASSUME NEW x, WellFormed(x)
    PROVE  WellFormed(AgeResource(x))
<1>1. IsStore(x.store) /\ AgeResource(x).store = AgeStore(x.store)
    BY DEF AgeResource, WellFormed, IsResource
<1>2. \A c \in DOMAIN AgeStore(x.store).leases :
         /\ c \in DOMAIN x.store.leases
         /\ AgeStore(x.store).leases[c].wants = x.store.leases[c].wants
         /\ AgeStore(x.store).leases[c].subclients = x.store.leases[c].subclients
    BY <1>1 DEF AgeStore, AgeLease, IsStore, Lease
<1>3. GoodResource(AgeResource(x))
    BY WellFormedStore, AgeGood
<1> QED BY <1>1, <1>2, <1>3 DEF WellFormed, GoodResource, GoodStore

(* Every step keeps the inductive invariant.                                *)
LEMMA IInvInductive == IInv /\ [Next]_vars => IInv'
<1> SUFFICES ASSUME IInv, [Next]_vars PROVE WellFormed(res)'
    BY DEF IInv, TypeOK, SumsMatchLeases, WellFormed
<1>1. WellFormed(res)
    BY DEF IInv, TypeOK, SumsMatchLeases, WellFormed
<1>2. ASSUME NEW r \in Requests, DecideFor(r) PROVE WellFormed(res)'
    BY <1>1, <1>2, DecideWellFormed DEF DecideFor
<1>3. ASSUME NEW c \in Clients, ReleaseCapacity(c) PROVE WellFormed(res)'
    BY <1>1, <1>3, ReleaseWellFormed DEF ReleaseCapacity
<1>4. CASE Reload
    BY <1>1, <1>4, ReloadWellFormed DEF Reload
<1>5. CASE ClockTick
    BY <1>1, <1>5, AgeWellFormed DEF ClockTick
<1>6. CASE UNCHANGED vars
    BY <1>1, <1>6 DEF vars
<1> QED BY <1>2, <1>3, <1>4, <1>5, <1>6 DEF Next

(* It holds initially.                                                      *)
LEMMA IInvInitially == Init => IInv
<1> SUFFICES ASSUME Init PROVE WellFormed(res)
    BY DEF IInv, TypeOK, SumsMatchLeases, WellFormed
<1> QED BY InitWellFormed DEF Init

(* And so it holds always.                                                  *)
LEMMA IInvAlways == Spec => []IInv
BY IInvInitially, IInvInductive, PTL DEF Spec

(* The resource is always well formed, and its leases record requests that  *)
(* were made.                                                               *)
THEOREM TypeCorrect == Spec => []TypeOK
<1>1. IInv => TypeOK
    BY DEF IInv
<1> QED BY <1>1, IInvAlways, PTL

(* The running sums of the store are always the sums of its leases.         *)
THEOREM SumsCorrect == Spec => []SumsMatchLeases
<1>1. IInv => SumsMatchLeases
    BY DEF IInv
<1> QED BY <1>1, IInvAlways, PTL

-----------------------------------------------------------------------------
(* What a decision does to the capacity. *)

(* No decision of a sharing algorithm leaves the resource over-committed,   *)
(* whatever happened before.                                                *)
THEOREM NeverOvercommits == Spec => SharingNeverOvercommits
<1> DEFINE A == \/ HasOf(res.store, Clients)' <= Capacity(res)
                \/ InLearningMode(res)
                \/ res.config.kind \notin SharingKinds
                \/ ~\E r \in Requests : DecideFor(r)
<1>1. ASSUME IInv, [Next]_vars PROVE [A]_vars
    <2> SUFFICES ASSUME NEW r \in Requests, DecideFor(r),
                        ~InLearningMode(res), res.config.kind \in SharingKinds
                 PROVE  HasOf(res.store, Clients)' <= Capacity(res)
        OBVIOUS
    <2>1. WellFormed(res)
        BY <1>1 DEF IInv, TypeOK, SumsMatchLeases, WellFormed
    <2>2. HasOf(Decide(res, r).store, Clients) <= Capacity(res)
        BY <2>1, WellFormedStore, RequestIsGood, SharingDecision
    <2> QED BY <2>2 DEF DecideFor
<1> QED BY <1>1, IInvAlways, PTL DEF Spec, SharingNeverOvercommits

-----------------------------------------------------------------------------
(* The divisors. *)

(* No decision of any algorithm divides by zero or by a negative number.    *)
THEOREM DivisorsCorrect == Spec => []DivisorsPositive
<1>1. ASSUME IInv, NEW r \in Requests, NEW d \in Divisors(res, r) PROVE d > 0
    <2> DEFINE s == Clean(res.store)
               cap == Capacity(res)
               fair == EqualShare(s, cap, r)
               proportional == ProportionalEqualShare(s, cap, r)
    <2>1. WellFormed(res)
        BY <1>1 DEF IInv, TypeOK, SumsMatchLeases, WellFormed
    <2>2. GoodStore(s) /\ GoodRequest(r) /\ cap \in Nat
        BY <2>1, WellFormedStore, CleanGood, RequestIsGood, CapacityType DEF Clean, WellFormed
    <2>3. CASE ~InLearningMode(res) /\ res.config.kind = "FAIR_SHARE"
        <3>1. d \in {FairCount(s, r), WantExtra(s, r, fair),
                     WantExtraExtra(s, r, fair, FirstRoundShare(s, r, fair))}
            BY <1>1, <2>3 DEF Divisors
        <3>2. fair \in Int
            <4> HIDE DEF s, cap
            <4> QED BY <2>2, FairCountPositive, DivType DEF EqualShare
        <3> HIDE DEF s, cap, fair
        <3>3. FairCount(s, r) > 0 /\ WantExtra(s, r, fair) > 0 /\ FirstRoundShare(s, r, fair) \in Int
            BY <2>2, <3>2, FairCountPositive, FirstRound
        <3>4. WantExtraExtra(s, r, fair, FirstRoundShare(s, r, fair)) > 0
            BY <2>2, <3>2, <3>3, SecondRound
        <3> QED BY <3>1, <3>3, <3>4
    <2>4. CASE ~InLearningMode(res) /\ res.config.kind = "PROPORTIONAL_SHARE"
        <3>1. d \in {ProportionalCount(s, r)}
                \cup (IF IsPlenty(s, cap, r, proportional) THEN {} ELSE {ExtraNeed(s, r, proportional)})
            BY <1>1, <2>4 DEF Divisors
        <3> HIDE DEF s, cap
        <3>2. ProportionalCount(s, r) > 0
            BY <2>2, ProportionalCountPositive
        <3>3. ~IsPlenty(s, cap, r, proportional) => ExtraNeed(s, r, proportional) > 0
            BY <2>2, ExtraNeedPositive
        <3> HIDE DEF proportional
        <3> QED BY <3>1, <3>2, <3>3
    <2>5. CASE InLearningMode(res) \/ res.config.kind \notin SharingKinds
        <3>1. Divisors(res, r) = {}
            BY <2>5 DEF Divisors, SharingKinds
        <3> QED BY <1>1, <3>1
    <2> QED BY <2>3, <2>4, <2>5 DEF SharingKinds
<1>2. IInv => DivisorsPositive
    BY <1>1 DEF DivisorsPositive
<1> QED BY <1>2, IInvAlways, PTL

-----------------------------------------------------------------------------
(* Leases end in two ways only. *)

(* A decision for someone else, a reload and a tick leave a live lease      *)
(* and its amount alone.                                                    *)
THEOREM LiveLeases == Spec => LiveLeasesAreKept
<1> DEFINE Kept(c) == \/ ~HasClient(res.store, c)
                      \/ Get(res.store, c).left < 0
                      \/ HasClient(res.store, c)' /\ Get(res.store, c).has' = Get(res.store, c).has
                      \/ ReleaseCapacity(c)
                      \/ \E r \in Requests : r.client = c /\ DecideFor(r)
           A == \A c \in Clients : Kept(c)
<1>1. ASSUME IInv, Next, NEW c \in Clients PROVE Kept(c)
    <2> SUFFICES ASSUME HasClient(res.store, c), ~(Get(res.store, c).left < 0),
                        ~ReleaseCapacity(c), ~\E r \in Requests : r.client = c /\ DecideFor(r)
                 PROVE  HasClient(res'.store, c) /\ Get(res'.store, c).has = Get(res.store, c).has
        OBVIOUS
    <2>1. WellFormed(res)
        BY <1>1 DEF IInv, TypeOK, SumsMatchLeases, WellFormed
    <2>2. IsStore(res.store) /\ GoodStore(res.store)
        BY <2>1, WellFormedStore DEF WellFormed, IsResource
    <2>3. ASSUME NEW r \in Requests, DecideFor(r)
          PROVE  HasClient(res'.store, c) /\ Get(res'.store, c).has = Get(res.store, c).has
        <3>1. r.client # c
            BY <2>3
        <3>2. Get(res'.store, c).has = Get(Clean(res.store), c).has
            BY <2>1, <2>3, <3>1, WellFormedStore, RequestIsGood, DecideLeases DEF DecideFor
        <3>3. c \notin Expired(res.store)
            BY DEF Expired, Get, HasClient
        <3>4. Get(Clean(res.store), c) = Get(res.store, c) /\ HasClient(Clean(res.store), c)
            BY <2>2, <3>3, ReleaseAllGet, CleanGood DEF Clean, HasClient
        <3>5. HasClient(res'.store, c)
            <4>1. res'.store = Assign(Clean(res.store), r.client, DecidedAmount(res, r), r.wants,
                                      r.subclients, res.config.leaseLength)
                BY <2>1, <2>3 DEF DecideFor, Decide, Grant, WellFormed, IsResource
            <4>2. DOMAIN res'.store.leases = DOMAIN Clean(res.store).leases \cup {r.client}
                BY <4>1 DEF Assign
            <4> QED BY <3>4, <4>2 DEF HasClient
        <3> QED BY <3>2, <3>4, <3>5
    <2>4. ASSUME NEW d \in Clients, ReleaseCapacity(d)
          PROVE  HasClient(res'.store, c) /\ Get(res'.store, c).has = Get(res.store, c).has
        <3>1. d # c
            BY <2>4
        <3>2. res'.store = IF HasClient(res.store, d) THEN ReleaseAll(res.store, {d}) ELSE res.store
            BY <2>1, <2>2, <2>4, ReleaseIsReleaseAll DEF ReleaseCapacity, ReleaseClient, WellFormed, IsResource
        <3>3. Get(ReleaseAll(res.store, {d}), c) = Get(res.store, c)
              /\ HasClient(ReleaseAll(res.store, {d}), c)
            BY <2>2, <3>1, ReleaseAllGet, CleanGood DEF HasClient
        <3> QED BY <3>2, <3>3
    <2>5. CASE Reload
        BY <2>5 DEF Reload, LoadConfig
    <2>6. CASE ClockTick
        BY <2>2, <2>6, AgeStoreFacts DEF ClockTick, AgeResource, HasClient
    <2> QED BY <1>1, <2>3, <2>4, <2>5, <2>6 DEF Next
<1>2. IInv /\ [Next]_vars => [A]_vars
    BY <1>1 DEF vars
<1> QED BY <1>2, IInvAlways, PTL DEF Spec, LiveLeasesAreKept

-----------------------------------------------------------------------------
(* A capacity that never changes. *)

(* All templates share, give the same capacity and have no learning mode,   *)
(* and the capacity does not expire.                                        *)
SteadyTemplates ==
    /\ \A cfg \in Templates : cfg.kind \in SharingKinds /\ cfg.learning = 0
    /\ \A cfg, other \in Templates : cfg.capacity = other.capacity
    /\ Expiries \subseteq {NoExpiry}

\* The strengthening of WithinCapacity, of a resource.
Steady(x) == WellFormed(x) /\ x.config \in Templates /\ Within(x)

(* Every step keeps the capacity as it is and the leases within it.         *)
LEMMA SteadyInductive ==
    ASSUME SteadyTemplates, Steady(res), [Next]_vars
    PROVE  Steady(res)'
<1>1. WellFormed(res) /\ GoodStore(res.store) /\ IsStore(res.store) /\ SumsMatch(res.store)
    BY WellFormedStore DEF Steady, WellFormed, IsResource
<1>2. WellFormed(res')
    <2>1. IInv /\ [Next]_vars
        BY <1>1 DEF IInv, TypeOK, SumsMatchLeases, WellFormed
    <2>2. IInv'
        BY <2>1, IInvInductive
    <2> QED BY <2>2 DEF IInv, TypeOK, SumsMatchLeases, WellFormed
<1>3. ASSUME NEW r \in Requests, DecideFor(r) PROVE Steady(res')
    <2>1. Within(res') /\ res'.config = res.config
        BY <1>1, <1>3, WellFormedStore, RequestIsGood, WithinDecide, DecideGood DEF DecideFor, Steady
    <2> QED BY <1>2, <2>1 DEF Steady
<1>4. ASSUME NEW c \in Clients, ReleaseCapacity(c) PROVE Steady(res')
    <2> DEFINE t == ReleaseAll(res.store, {c})
    <2>1. /\ res'.store = IF HasClient(res.store, c) THEN t ELSE res.store
          /\ res'.config = res.config /\ res'.expiry = res.expiry /\ res'.learningLeft = res.learningLeft
        BY <1>1, <1>4, ReleaseIsReleaseAll DEF ReleaseCapacity, ReleaseClient, WellFormed, IsResource
    <2>2. \A d : Get(t, d) = IF d = c THEN ZeroLease ELSE Get(res.store, d)
        BY <1>1, ReleaseAllGet
    <2>3. HasOf(t, Clients) <= HasOf(res.store, Clients)
        <3>1. HasOf(t, Clients) = HasOf(res.store, Clients) - HasOf(res.store, {c})
            BY <1>1, ReleaseAllSums DEF SumsMatch, ReleaseAll
        <3>2. HasOf(res.store, {c}) >= 0 /\ HasOf(res.store, {c}) \in Int /\ HasOf(res.store, Clients) \in Int
            BY <1>1, FieldTypes, HasOfInt, SumOverNonNegative DEF HasOf, Steady, Within
        <3> HIDE DEF t
        <3> QED BY <3>1, <3>2
    <2>4. HasOf(t, Clients) \in Int /\ HasOf(res.store, Clients) \in Int /\ res.config.capacity \in Int
        BY <1>1, ReleaseAllType, HasOfInt DEF WellFormed, IsResource, Template
    <2>5. \A d \in Clients : Get(t, d).has >= 0
        BY <2>2 DEF Steady, Within, ZeroLease
    <2> HIDE DEF t
    <2>6. HasOf(t, Clients) <= res.config.capacity
        BY <2>3, <2>4 DEF Steady, Within
    <2> QED BY <1>2, <2>1, <2>5, <2>6, WellFormedStore DEF Steady, Within
<1>5. CASE Reload
    <2>1. PICK cfg \in Templates, expiry \in Expiries : res' = LoadConfig(res, cfg, expiry)
        BY <1>5 DEF Reload
    <2>2. /\ cfg.kind \in SharingKinds /\ cfg.capacity = res.config.capacity /\ expiry = NoExpiry
          /\ cfg \in Template
        BY TemplatesAssumption DEF SteadyTemplates, Steady
    <2>3. Within(res')
        BY <2>1, <2>2, WithinLoadConfig DEF Steady
    <2> QED BY <1>2, <2>1, <2>3 DEF LoadConfig, Steady
<1>6. CASE ClockTick
    BY <1>2, <1>6, WithinAge DEF ClockTick, AgeResource, Steady
<1>7. CASE UNCHANGED vars
    BY <1>7 DEF vars
<1> QED BY <1>3, <1>4, <1>5, <1>6, <1>7 DEF Next

(* While the capacity does not change, sharing never hands out more of it   *)
(* than there is, and nobody is granted a negative amount.                  *)
THEOREM SteadyWithinCapacity == SteadyTemplates => (Spec => []WithinCapacity)
<1> SUFFICES ASSUME SteadyTemplates PROVE Spec => []WithinCapacity
    OBVIOUS
<1> DEFINE Inv == Steady(res)
<1>1. Init => Inv
    <2> SUFFICES ASSUME NEW cfg \in Templates, NEW age \in Ages, res = NewResource(cfg, age)
                 PROVE  Steady(res)
        BY DEF Init
    <2>1. WellFormed(res)
        BY InitWellFormed
    <2>2. cfg \in Template /\ cfg.kind \in SharingKinds /\ cfg.learning = 0 /\ age \in Nat
        BY TemplatesAssumption, AgesAssumption DEF SteadyTemplates
    <2>3. Within(res)
        BY <2>2, WithinNew
    <2> QED BY <2>1, <2>3 DEF Steady, NewResource
<1>2. Inv /\ [Next]_vars => Inv'
    BY SteadyInductive
<1>3. Inv => WithinCapacity
    BY DEF Steady, Within, WithinCapacity
<1> HIDE DEF Inv
<1> QED BY <1>1, <1>2, <1>3, PTL DEF Spec

-----------------------------------------------------------------------------
(* The abstract pool. *)

\* What client c may use, and the limit, of the resource x.
Live(x, c) == IF Get(x.store, c).left >= 0 THEN Get(x.store, c).has ELSE 0
LimitOf(x) == IF InLearningMode(x) \/ x.config.kind \notin SharingKinds THEN -1 ELSE Capacity(x)
HeldOf(x) == [c \in Clients |-> Live(x, c)]

(* The amounts and the limit of a well-formed resource.                     *)
LEMMA PoolTypes ==
    ASSUME NEW x, WellFormed(x)
    PROVE  HeldOf(x) \in [Clients -> Int] /\ LimitOf(x) \in Nat \cup {-1}
<1>1. \A c \in Clients : Get(x.store, c) \in Lease
    BY GetType DEF WellFormed, IsResource
<1>2. Capacity(x) \in Nat
    BY CapacityType DEF WellFormed
<1> QED BY <1>1, <1>2 DEF HeldOf, Live, LimitOf, Lease

(* Once the expired leases are gone, what clients may use is what the store *)
(* says they have.                                                          *)
LEMMA LiveIsClean ==
    ASSUME NEW x, WellFormed(x)
    PROVE  /\ \A c : Live(x, c) = Get(Clean(x.store), c).has
           /\ Clean(x.store).sumHas = Sum(HeldOf(x), NumClients)
           /\ GoodStore(Clean(x.store))
<1> DEFINE s == Clean(x.store)
<1>1. IsStore(x.store) /\ GoodStore(s)
    BY WellFormedStore, CleanGood DEF Clean, WellFormed, IsResource
<1>2. \A c : Get(s, c) = IF c \in Expired(x.store) THEN ZeroLease ELSE Get(x.store, c)
    BY <1>1, ReleaseAllGet DEF Clean
<1>3. \A c : c \in Expired(x.store) <=> HasClient(x.store, c) /\ ~(Get(x.store, c).left >= 0)
    BY <1>1 DEF Expired, HasClient, Get, IsStore, Lease
<1>4. \A c : ~HasClient(x.store, c) => Get(x.store, c) = ZeroLease
    BY DEF Get
<1>5. \A c : Live(x, c) = Get(s, c).has
    BY <1>2, <1>3, <1>4 DEF Live, ZeroLease
<1>6. s.sumHas = HasOf(s, Clients)
    BY <1>1 DEF GoodStore, SumsMatch
<1>7. [c \in Clients |-> IF c \in Clients THEN [d \in Clients |-> Get(s, d).has][c] ELSE 0] = HeldOf(x)
    BY <1>5 DEF HeldOf
<1>8. HasOf(s, Clients) = Sum(HeldOf(x), NumClients)
    BY <1>7 DEF HasOf, SumOver
<1> QED BY <1>1, <1>5, <1>6, <1>8

(* A decision is a grant to the client that asked.                          *)
LEMMA DecisionGrants ==
    ASSUME NEW x, WellFormed(x), NEW r \in Requests
    PROVE  LET y == Decide(x, r)
               h == r.client
               others == Sum(HeldOf(x), NumClients) - HeldOf(x)[h]
           IN  /\ HeldOf(y) = [c \in Clients |-> IF c = h THEN HeldOf(y)[h] ELSE HeldOf(x)[c]]
               /\ HeldOf(y)[h] \in Int
               /\ LimitOf(y) = LimitOf(x)
               /\ LimitOf(x) # -1 => /\ others + HeldOf(y)[h] <= LimitOf(x)
                                     /\ others <= LimitOf(x) => HeldOf(y)[h] >= 0
<1> DEFINE y == Decide(x, r)
           h == r.client
           s == Clean(x.store)
           a == DecidedAmount(x, r)
           n == x.config.leaseLength
           t == Assign(s, h, a, r.wants, r.subclients, n)
           others == Sum(HeldOf(x), NumClients) - HeldOf(x)[h]
<1>1. WellFormed(y) /\ a \in Int
    BY DecideWellFormed
<1>2. h \in Clients
    BY RequestIsGood
<1>3. /\ y.store = t
      /\ y.config = x.config /\ y.expiry = x.expiry /\ y.learningLeft = x.learningLeft
    BY DEF Decide, Grant, WellFormed, IsResource
<1>4. LimitOf(y) = LimitOf(x)
    BY <1>3 DEF LimitOf, InLearningMode, Capacity
<1>5. IsStore(s) /\ \A c : Live(x, c) = Get(s, c).has
    BY LiveIsClean DEF GoodStore
<1>6. \A c : Get(t, c) = IF c = h THEN [has |-> a, wants |-> r.wants, subclients |-> r.subclients, left |-> n]
                                  ELSE Get(s, c)
    <2> HIDE DEF s, a, n, h
    <2> QED BY <1>2, <1>5, AssignGet
<1>7. n \in Nat \ {0}
    BY DEF WellFormed, IsResource, Template
<1>8. Live(y, h) = a
    <2>1. Get(y.store, h).left = n /\ Get(y.store, h).has = a
        BY <1>3, <1>6
    <2> HIDE DEF a, n, y
    <2> QED BY <1>7, <2>1 DEF Live
<1>9. \A c \in Clients : c # h => Live(y, c) = Live(x, c)
    <2> SUFFICES ASSUME NEW c \in Clients, c # h PROVE Live(y, c) = Live(x, c)
        OBVIOUS
    <2>1. Get(y.store, c) = Get(s, c)
        BY <1>3, <1>6
    <2>2. Get(s, c).left >= 0
        <3>1. Get(s, c) = IF c \in Expired(x.store) THEN ZeroLease ELSE Get(x.store, c)
            BY ReleaseAllGet DEF Clean, WellFormed, IsResource
        <3>2. IsStore(x.store)
            BY DEF WellFormed, IsResource
        <3>3. c \notin Expired(x.store) => Get(x.store, c).left >= 0
            BY <3>2 DEF Expired, Get, HasClient, ZeroLease, IsStore, Lease
        <3> HIDE DEF s
        <3> QED BY <3>1, <3>3 DEF ZeroLease
    <2> HIDE DEF s, y, h
    <2> QED BY <1>5, <2>1, <2>2 DEF Live
<1>10. /\ HeldOf(y)[h] = a
       /\ HeldOf(y) = [c \in Clients |-> IF c = h THEN HeldOf(y)[h] ELSE HeldOf(x)[c]]
    <2> HIDE DEF y, a, h
    <2> QED BY <1>2, <1>8, <1>9 DEF HeldOf
<1>11. ASSUME LimitOf(x) # -1
       PROVE  /\ others + a <= LimitOf(x)
              /\ others <= LimitOf(x) => a >= 0
    <2>1. ~InLearningMode(x) /\ x.config.kind \in SharingKinds /\ LimitOf(x) = Capacity(x)
        BY <1>11 DEF LimitOf
    <2>2. s.sumHas = Sum(HeldOf(x), NumClients) /\ Get(s, h).has = HeldOf(x)[h]
        BY <1>2, LiveIsClean DEF HeldOf
    <2>3. /\ a <= Available(s, Capacity(x), r)
          /\ Available(s, Capacity(x), r) >= 0 => a >= 0
        BY <2>1, WellFormedStore, RequestIsGood, SharingAmount
    <2>4. Available(s, Capacity(x), r) = Capacity(x) - s.sumHas + Get(s, h).has
        BY DEF Available
    <2>5. s.sumHas \in Int /\ Get(s, h).has \in Int
        BY <1>5, GetType DEF IsStore, Lease
    <2>6. Capacity(x) \in Int
        BY CapacityType DEF WellFormed
    <2> HIDE DEF s, a, h
    <2> QED BY <1>1, <2>1, <2>2, <2>3, <2>4, <2>5, <2>6
<1> HIDE DEF a
<1> QED BY <1>1, <1>4, <1>10, <1>11

(* A tick ends the leases that expire.                                      *)
LEMMA TickEnds ==
    ASSUME NEW x, WellFormed(x)
    PROVE  \E H \in SUBSET Clients :
              HeldOf(AgeResource(x)) = [c \in Clients |-> IF c \in H THEN 0 ELSE HeldOf(x)[c]]
<1> DEFINE y == AgeResource(x)
           H == {c \in Clients : Live(y, c) # Live(x, c)}
<1>1. IsStore(x.store) /\ y.store = AgeStore(x.store)
    BY DEF AgeResource, WellFormed, IsResource
<1>2. \A c : /\ Get(y.store, c).has = Get(x.store, c).has
             /\ Get(y.store, c).left >= 0 => Get(x.store, c).left >= 0
    <2>1. \A c : Get(y.store, c).has = Get(x.store, c).has
        BY <1>1, AgeStoreFacts
    <2>2. \A c : HasClient(y.store, c) <=> HasClient(x.store, c)
        BY <1>1, AgeStoreFacts DEF HasClient
    <2>3. \A c : HasClient(x.store, c) => /\ Get(x.store, c).left \in Int
                                          /\ Get(y.store, c).left = Tick(Get(x.store, c).left)
        <3> SUFFICES ASSUME NEW c, c \in DOMAIN x.store.leases
                     PROVE  /\ Get(x.store, c).left \in Int
                            /\ Get(y.store, c).left = Tick(Get(x.store, c).left)
            BY DEF HasClient
        <3>1. y.store.leases = [d \in DOMAIN x.store.leases |-> AgeLease(x.store.leases[d])]
            BY <1>1 DEF AgeStore, IsStore
        <3>2. Get(y.store, c) = AgeLease(x.store.leases[c]) /\ Get(x.store, c) = x.store.leases[c]
            BY <3>1 DEF Get, HasClient
        <3>3. x.store.leases[c] \in Lease
            BY <1>1 DEF IsStore
        <3>4. AgeLease(x.store.leases[c]).left = Tick(x.store.leases[c].left)
            BY <3>3 DEF AgeLease, Lease
        <3> HIDE DEF y
        <3> QED BY <3>2, <3>3, <3>4 DEF Lease
    <2>4. \A c : ~HasClient(x.store, c) => Get(y.store, c) = Get(x.store, c)
        BY <2>2 DEF Get
    <2> HIDE DEF y
    <2> QED BY <2>1, <2>3, <2>4 DEF Tick
<1>3. \A c : Live(y, c) = Live(x, c) \/ Live(y, c) = 0
    <2> HIDE DEF y
    <2> QED BY <1>2 DEF Live
<1>4. HeldOf(y) = [c \in Clients |-> IF c \in H THEN 0 ELSE HeldOf(x)[c]]
    <2> HIDE DEF y
    <2> QED BY <1>3 DEF HeldOf
<1> QED BY <1>4

(* A release ends the lease of its client.                                  *)
LEMMA ReleaseEnds ==
    ASSUME NEW x, WellFormed(x), NEW d \in Clients
    PROVE  HeldOf(ReleaseClient(x, d)) = [c \in Clients |-> IF c \in {d} THEN 0 ELSE HeldOf(x)[c]]
<1> DEFINE y == ReleaseClient(x, d)
<1>1. IsStore(x.store)
    BY DEF WellFormed, IsResource
<1>2. y.store = IF HasClient(x.store, d) THEN ReleaseAll(x.store, {d}) ELSE x.store
    BY <1>1, ReleaseIsReleaseAll DEF ReleaseClient, WellFormed, IsResource
<1>3. \A c : Get(ReleaseAll(x.store, {d}), c) = IF c \in {d} THEN ZeroLease ELSE Get(x.store, c)
    BY <1>1, ReleaseAllGet
<1>4. ~HasClient(x.store, d) => Get(x.store, d) = ZeroLease
    BY DEF Get
<1>5. \A c : Get(y.store, c) = IF c \in {d} THEN ZeroLease ELSE Get(x.store, c)
    <2> HIDE DEF y
    <2> QED BY <1>2, <1>3, <1>4
<1>6. HeldOf(y) = [c \in Clients |-> IF c \in {d} THEN 0 ELSE HeldOf(x)[c]]
    <2> HIDE DEF y
    <2> QED BY <1>5 DEF HeldOf, Live, ZeroLease
<1> QED BY <1>6

(* The shared resource implements the pool: a decision is a grant within    *)
(* the limit, a release, a reload or a tick ends some amounts.              *)
THEOREM SharedResourceImplementsPool == Spec => ImplementsPool
<1>1. /\ \A c \in Clients : LiveHas(c) = HeldOf(res)[c]
      /\ [c \in Clients |-> LiveHas(c)] = HeldOf(res)
      /\ (IF InLearningMode(res) \/ res.config.kind \notin SharingKinds THEN -1 ELSE Capacity(res)) = LimitOf(res)
    BY DEF HeldOf, Live, LiveHas, LimitOf
<1>2. Init => Pool!Init
    <2> SUFFICES ASSUME NEW cfg \in Templates, NEW age \in Ages, res = NewResource(cfg, age)
                 PROVE  Pool!Init
        BY DEF Init
    <2>1. LimitOf(res) \in Nat \cup {-1}
        BY InitWellFormed, PoolTypes
    <2>2. \A c \in Clients : HeldOf(res)[c] = 0
        BY DEF HeldOf, Live, NewResource, EmptyStore, Get, HasClient, ZeroLease
    <2> QED BY <1>1, <2>1, <2>2 DEF Pool!Init, Pool!Limits, Pool!NoLimit, Pool!Holders, Clients
<1>3. ASSUME IInv, [Next]_vars PROVE [Pool!Next]_(Pool!poolVars)
    <2>1. WellFormed(res) /\ WellFormed(res')
        BY <1>3, IInvInductive DEF IInv, TypeOK, SumsMatchLeases, WellFormed
    <2>2. HeldOf(res) \in [Clients -> Int] /\ HeldOf(res') \in [Clients -> Int] /\ LimitOf(res') \in Nat \cup {-1}
        BY <2>1, PoolTypes
    <2>3. /\ [c \in Clients |-> LiveHas(c)]' = HeldOf(res')
          /\ (IF InLearningMode(res) \/ res.config.kind \notin SharingKinds THEN -1 ELSE Capacity(res))' = LimitOf(res')
        BY DEF HeldOf, Live, LiveHas, LimitOf
    <2>4. ASSUME NEW H \in SUBSET Clients,
                 HeldOf(res') = [c \in Clients |-> IF c \in H THEN 0 ELSE HeldOf(res)[c]]
          PROVE  Pool!Next
        <3>1. Pool!End(H)
            BY <1>1, <2>2, <2>3, <2>4 DEF Pool!End, Pool!Limits, Pool!NoLimit, Pool!Holders, Clients
        <3> QED BY <3>1 DEF Pool!Next, Pool!Holders, Clients
    <2>5. ASSUME NEW r \in Requests, DecideFor(r) PROVE Pool!Next
        <3> DEFINE h == r.client
                   others == Sum(HeldOf(res), NumClients) - HeldOf(res)[h]
        <3>1. h \in Clients
            BY RequestIsGood
        <3>2. /\ HeldOf(res') = [c \in Clients |-> IF c = h THEN HeldOf(res')[h] ELSE HeldOf(res)[c]]
              /\ HeldOf(res')[h] \in Int
              /\ LimitOf(res') = LimitOf(res)
              /\ LimitOf(res) # -1 => /\ others + HeldOf(res')[h] <= LimitOf(res)
                                      /\ others <= LimitOf(res) => HeldOf(res')[h] >= 0
            BY <2>1, <2>5, DecisionGrants DEF DecideFor
        <3>3. Pool!Sum([c \in Clients |-> LiveHas(c)], NumClients) = Sum(HeldOf(res), NumClients)
            <4>1. Pool!Sum(HeldOf(res), NumClients) = Sum(HeldOf(res), NumClients)
                BY Zenon DEF Pool!Sum, Sum
            <4> QED BY <1>1, <4>1
        <3>4. Pool!HeldByOthers(h) = others
            BY <1>1, <3>3 DEF Pool!HeldByOthers
        <3>5. Pool!Grant(h)
            <4> HIDE DEF h, others
            <4> QED BY <1>1, <2>3, <3>2, <3>4 DEF Pool!Grant, Pool!NoLimit, Pool!Holders, Clients
        <3> QED BY <3>1, <3>5 DEF Pool!Next, Pool!Holders, Clients
    <2>6. ASSUME NEW c \in Clients, ReleaseCapacity(c) PROVE Pool!Next
        <3>1. HeldOf(res') = [d \in Clients |-> IF d \in {c} THEN 0 ELSE HeldOf(res)[d]]
            BY <2>1, <2>6, ReleaseEnds DEF ReleaseCapacity
        <3>2. {c} \in SUBSET Clients
            OBVIOUS
        <3> QED BY <2>4, <3>1, <3>2
    <2>7. CASE Reload
        <3>1. res'.store = res.store
            BY <2>1, <2>7 DEF Reload, LoadConfig
        <3>2. HeldOf(res') = [c \in Clients |-> IF c \in {} THEN 0 ELSE HeldOf(res)[c]]
            BY <3>1 DEF HeldOf, Live
        <3>3. {} \in SUBSET Clients
            OBVIOUS
        <3> QED BY <2>4, <3>2, <3>3
    <2>8. CASE ClockTick
        <3>1. \E H \in SUBSET Clients : HeldOf(res') = [c \in Clients |-> IF c \in H THEN 0 ELSE HeldOf(res)[c]]
            BY <2>1, <2>8, TickEnds DEF ClockTick
        <3> QED BY <2>4, <3>1
    <2>9. CASE UNCHANGED vars
        <3>1. UNCHANGED res
            BY <2>9 DEF vars
        <3>2. HeldOf(res') = HeldOf(res) /\ LimitOf(res') = LimitOf(res)
            BY <3>1
        <3> QED BY <1>1, <2>3, <3>2 DEF Pool!poolVars
    <2> QED BY <1>3, <2>5, <2>6, <2>7, <2>8, <2>9 DEF Next
<1> QED BY <1>2, <1>3, IInvAlways, PTL DEF Spec, ImplementsPool, Pool!Spec

=============================================================================
