------------------------- MODULE IntermediateProofs -------------------------
(***************************************************************************)
(* Proofs about the tree of servers of Intermediate: that the stores of     *)
(* both servers are right, and that the leaves together hold no more than   *)
(* the parent granted.                                                      *)
(*                                                                         *)
(* The root may answer with a negative amount, after its capacity was       *)
(* reduced below what it has outstanding, and the intermediate server loads *)
(* that as its capacity.  Its resource is therefore not a GoodResource of   *)
(* ResourceTheorems, and what these proofs need of a decision is proved     *)
(* again, for any capacity, of the algorithms that are defined for it: all  *)
(* but ProportionalShare, which divides by the extra need of the clients.   *)
(***************************************************************************)
EXTENDS Intermediate, ResourceTheorems

\* No template says PROPORTIONAL_SHARE.
NoneProportional == \A cfg \in RootTemplates \cup {Default} : cfg.kind # "PROPORTIONAL_SHARE"

\* Every template says FAIR_SHARE, and without an answer there is no capacity.
AllFair ==
    /\ \A cfg \in RootTemplates \cup {Default} : cfg.kind = "FAIR_SHARE"
    /\ Default.capacity = 0

\* What an intermediate server may have loaded.
GrantedTemplate ==
    [capacity : Int, kind : Kinds \ {"PROPORTIONAL_SHARE"}, leaseLength : Nat \ {0}, learning : Nat]

\* A resource of an intermediate server.
GrantedResource(x) ==
    /\ x = [store |-> x.store, config |-> x.config,
            expiry |-> x.expiry, learningLeft |-> x.learningLeft]
    /\ GoodStore(x.store)
    /\ x.config \in GrantedTemplate
    /\ x.expiry \in Expiry
    /\ x.learningLeft \in Int

(* What an algorithm other than ProportionalShare grants is an integer.     *)
LEMMA GrantedAmount ==
    ASSUME NEW s, GoodStore(s), NEW r, GoodRequest(r), NEW capacity \in Int,
           NEW kind \in Kinds \ {"PROPORTIONAL_SHARE"}
    PROVE  Amount(kind, s, capacity, r) \in Int
<1>1. r.wants \in Int
    BY DEF GoodRequest, Request
<1>2. CASE kind = "NO_ALGORITHM"
    BY <1>1, <1>2 DEF Amount, NoAlgorithm
<1>3. CASE kind = "STATIC"
    BY <1>1, <1>3 DEF Amount, Static, MinF
<1>4. CASE kind = "FAIR_SHARE"
    BY <1>4, FairShareGrant DEF Amount
<1> QED BY <1>2, <1>3, <1>4 DEF Kinds

(* A store whose sum of wants is not zero counts a subclient.               *)
LEMMA WantedCounts ==
    ASSUME NEW s, GoodStore(s), s.sumWants > 0
    PROVE  s.count \in Nat \ {0} /\ s.sumWants \in Nat
<1>0. s.sumWants \in Int /\ s.count \in Int /\ IsStore(s)
    BY DEF GoodStore, IsStore
<1>1. CASE DOMAIN s.leases = {}
    <2>1. \A c \in Clients : Get(s, c) = ZeroLease
        BY <1>1 DEF Get, HasClient
    <2>2. WantsOf(s, Clients) = WantsOf(EmptyStore, Clients)
        <3>1. \A c \in Clients : Get(EmptyStore, c) = ZeroLease
            BY EmptyStoreFacts DEF Get, HasClient
        <3> QED BY <2>1, <3>1 DEF WantsOf
    <2>3. WantsOf(EmptyStore, Clients) = 0
        BY EmptyStoreFacts DEF SumsMatch, EmptyStore
    <2> QED BY <1>0, <2>2, <2>3 DEF GoodStore, SumsMatch
<1>2. CASE DOMAIN s.leases # {}
    <2>1. PICK c \in DOMAIN s.leases : TRUE
        BY <1>2
    <2>2. c \in Clients /\ Get(s, c).subclients > 0 /\ Get(s, c).subclients \in Int
        BY <1>0, <2>1, GoodLeases DEF IsStore, HasClient, Lease
    <2>3. s.count >= Get(s, c).subclients
        BY <2>2, CountCovers
    <2> QED BY <1>0, <2>2, <2>3
<1> QED BY <1>1, <1>2

(* Cleaning a store without expired leases leaves it as it is.              *)
LEMMA NothingToClean ==
    ASSUME NEW s, GoodStore(s), Expired(s) = {}
    PROVE  /\ GoodStore(Clean(s))
           /\ \A c : Get(Clean(s), c) = Get(s, c) /\ (HasClient(Clean(s), c) <=> HasClient(s, c))
           /\ Clean(s).sumWants = s.sumWants
<1>1. /\ GoodStore(Clean(s)) /\ IsStore(s)
      /\ DOMAIN Clean(s).leases = DOMAIN s.leases
      /\ \A c : Get(Clean(s), c) = Get(s, c)
    <2>1. IsStore(s) /\ Clean(s) = ReleaseAll(s, {})
        BY DEF GoodStore, Clean
    <2>2. GoodStore(ReleaseAll(s, {})) /\ DOMAIN ReleaseAll(s, {}).leases = DOMAIN s.leases
        <3>1. GoodStore(ReleaseAll(s, {})) /\ DOMAIN ReleaseAll(s, {}).leases = DOMAIN s.leases \ {}
            BY CleanGood, Zenon
        <3> QED BY <3>1
    <2>3. \A c : Get(ReleaseAll(s, {}), c) = Get(s, c)
        BY <2>1, ReleaseAllGet
    <2> QED BY <2>1, <2>2, <2>3
<1>2. WantsOf(Clean(s), Clients) = WantsOf(s, Clients)
    BY <1>1 DEF WantsOf
<1>3. Clean(s).sumWants = WantsOf(Clean(s), Clients) /\ s.sumWants = WantsOf(s, Clients)
    BY <1>1 DEF GoodStore, SumsMatch
<1> QED BY <1>1, <1>2, <1>3 DEF HasClient

(* A decision keeps the resource of an intermediate server well formed, *)
LEMMA GrantedDecide ==
    ASSUME NEW x, GrantedResource(x), NEW r, GoodRequest(r)
    PROVE  /\ GrantedResource(Decide(x, r))
           /\ DecidedAmount(x, r) \in Int
           /\ GoodStore(Clean(x.store))
           /\ Decide(x, r) =
                [store |-> Assign(Clean(x.store), r.client, DecidedAmount(x, r), r.wants, r.subclients,
                                  x.config.leaseLength),
                 config |-> x.config, expiry |-> x.expiry, learningLeft |-> x.learningLeft]
<1> DEFINE s == Clean(x.store)
           a == DecidedAmount(x, r)
           n == x.config.leaseLength
           t == Assign(s, r.client, a, r.wants, r.subclients, n)
<1>1. GoodStore(s)
    BY CleanGood DEF Clean, GrantedResource
<1>2. /\ r.client \in Clients
      /\ r.wants \in Int /\ r.wants >= 0 /\ r.subclients \in Int /\ r.subclients > 0 /\ r.has \in Int
    BY DEF GoodRequest, Request
<1>3. Capacity(x) \in Int /\ n \in Int /\ x.config.kind \in Kinds \ {"PROPORTIONAL_SHARE"}
    BY DEF GrantedResource, GrantedTemplate, Capacity
<1>4. a \in Int
    <2>1. Amount(x.config.kind, s, Capacity(x), r) \in Int
        <3> HIDE DEF s
        <3> QED BY <1>1, <1>3, GrantedAmount
    <2> QED BY <1>2, <2>1 DEF DecidedAmount, Learn
<1>5. Decide(x, r) = [store |-> t, config |-> x.config,
                      expiry |-> x.expiry, learningLeft |-> x.learningLeft]
    BY DEF Decide, Grant, GrantedResource
<1>6. GoodStore(t)
    <2>1. \A c \in DOMAIN t.leases : t.leases[c].subclients > 0 /\ t.leases[c].wants >= 0
        <3> HIDE DEF s, a, n
        <3> QED BY <1>1, <1>2 DEF Assign, GoodStore
    <2> HIDE DEF s, a, n
    <2>2. IsStore(t) /\ SumsMatch(t)
        BY <1>1, <1>2, <1>3, <1>4, AssignType, AssignSums DEF GoodStore
    <2> HIDE DEF t
    <2> QED BY <2>1, <2>2 DEF GoodStore
<1> HIDE DEF t, s, a
<1>7. GrantedResource(Decide(x, r))
    BY <1>5, <1>6 DEF GrantedResource
<1> QED BY <1>1, <1>4, <1>5, <1>7 DEF t, s, a

(* and, with FairShare and out of learning mode, within its capacity, even  *)
(* if that is negative.                                                     *)
LEMMA GrantedWithin ==
    ASSUME NEW x, GrantedResource(x), NEW r, GoodRequest(r),
           ~InLearningMode(x), x.config.kind = "FAIR_SHARE"
    PROVE  HasOf(Decide(x, r).store, Clients) <= Capacity(x)
<1> DEFINE s == Clean(x.store)
           a == DecidedAmount(x, r)
           cap == Capacity(x)
           n == x.config.leaseLength
           t == Assign(s, r.client, a, r.wants, r.subclients, n)
<1>1. GoodStore(s) /\ a \in Int /\ Decide(x, r).store = t /\ GoodStore(Decide(x, r).store)
    BY GrantedDecide DEF GrantedResource
<1>2. s.sumHas \in Int /\ Get(s, r.client).has \in Int
    BY <1>1, GoodLeases DEF GoodStore, IsStore, Lease
<1>3. cap \in Int
    BY DEF GrantedResource, GrantedTemplate, Capacity
<1>4. a = FairShare(s, cap, r)
    BY DEF DecidedAmount, Amount
<1>5. FairShare(s, cap, r) <= Available(s, cap, r)
    <2> HIDE DEF s, cap
    <2> QED BY <1>1, <1>3, FairShareGrant
<1>6. HasOf(t, Clients) = t.sumHas
    BY <1>1 DEF GoodStore, SumsMatch
<1>7. t.sumHas = s.sumHas + (a - Get(s, r.client).has)
    BY DEF Assign
<1>8. Available(s, cap, r) = cap - s.sumHas + Get(s, r.client).has
    BY DEF Available
<1> HIDE DEF s, a, t, cap
<1>9. HasOf(Decide(x, r).store, Clients) <= cap
    BY <1>1, <1>2, <1>3, <1>4, <1>5, <1>6, <1>7, <1>8
<1> QED BY <1>9 DEF cap

(* If no lease has expired, a decision changes that of the requester alone. *)
LEMMA GrantedLeases ==
    ASSUME NEW x, GrantedResource(x), NEW r, GoodRequest(r), Expired(x.store) = {}
    PROVE  /\ \A d : Get(Decide(x, r).store, d) =
                IF d = r.client THEN [has |-> DecidedAmount(x, r), wants |-> r.wants,
                                      subclients |-> r.subclients, left |-> x.config.leaseLength]
                                ELSE Get(x.store, d)
           /\ \A d : HasClient(Decide(x, r).store, d) <=> d = r.client \/ HasClient(x.store, d)
           /\ Decide(x, r).store.sumWants = x.store.sumWants + (r.wants - Get(x.store, r.client).wants)
<1> DEFINE s == Clean(x.store)
           a == DecidedAmount(x, r)
           n == x.config.leaseLength
           t == Assign(s, r.client, a, r.wants, r.subclients, n)
<1>1. GoodStore(s) /\ IsStore(s) /\ Decide(x, r).store = t
    BY GrantedDecide DEF GoodStore
<1>2. /\ \A c : Get(s, c) = Get(x.store, c) /\ (HasClient(s, c) <=> HasClient(x.store, c))
      /\ s.sumWants = x.store.sumWants
    BY NothingToClean DEF GrantedResource
<1>3. r.client \in Clients
    BY DEF GoodRequest, Request
<1>4. \A d : Get(t, d) = IF d = r.client
                         THEN [has |-> a, wants |-> r.wants, subclients |-> r.subclients, left |-> n]
                         ELSE Get(s, d)
    <2> HIDE DEF s, a, n
    <2> QED BY <1>1, <1>3, AssignGet
<1>5. /\ \A d : HasClient(t, d) <=> d = r.client \/ HasClient(s, d)
      /\ t.sumWants = s.sumWants + (r.wants - Get(s, r.client).wants)
    BY DEF Assign, HasClient
<1> HIDE DEF s, t, n
<1> QED BY <1>1, <1>2, <1>4, <1>5 DEF n

(* A new resource,                                                          *)
LEMMA GrantedNew ==
    ASSUME NEW cfg \in GrantedTemplate, NEW n \in Int
    PROVE  /\ GrantedResource(NewResource(cfg, n))
           /\ NewResource(cfg, n).config = cfg /\ ~NewResource(cfg, n).expiry.set
           /\ \A c : Get(NewResource(cfg, n).store, c) = ZeroLease /\ ~HasClient(NewResource(cfg, n).store, c)
           /\ Expired(NewResource(cfg, n).store) = {}
<1>1. /\ NewResource(cfg, n).store = EmptyStore /\ NewResource(cfg, n).config = cfg
      /\ ~NewResource(cfg, n).expiry.set
    BY DEF NewResource, NoExpiry
<1>2. GrantedResource(NewResource(cfg, n))
    BY EmptyStoreFacts
       DEF GrantedResource, GoodStore, NewResource, NoExpiry, Expiry, LearningLeft, GrantedTemplate
<1> QED BY <1>1, <1>2, EmptyStoreFacts DEF Get, HasClient, Expired

(* a reload                                                                 *)
LEMMA GrantedLoadConfig ==
    ASSUME NEW x, GrantedResource(x), NEW cfg \in GrantedTemplate, NEW expiry \in Expiry
    PROVE  /\ GrantedResource(LoadConfig(x, cfg, expiry))
           /\ LoadConfig(x, cfg, expiry) = [store |-> x.store, config |-> cfg,
                                            expiry |-> expiry, learningLeft |-> x.learningLeft]
BY DEF LoadConfig, GrantedResource

(* and a tick.                                                              *)
LEMMA GrantedAge ==
    ASSUME NEW x, GrantedResource(x)
    PROVE  /\ GrantedResource(AgeResource(x))
           /\ AgeResource(x).config = x.config
           /\ AgeResource(x).expiry = (IF x.expiry.set THEN ExpiresIn(Tick(x.expiry.left)) ELSE NoExpiry)
           /\ AgeResource(x).store.sumWants = x.store.sumWants
           /\ \A c : /\ Get(AgeResource(x).store, c).has = Get(x.store, c).has
                     /\ Get(AgeResource(x).store, c).wants = Get(x.store, c).wants
                     /\ Get(AgeResource(x).store, c).left =
                          IF HasClient(x.store, c) THEN Tick(Get(x.store, c).left) ELSE 0
                     /\ HasClient(AgeResource(x).store, c) <=> HasClient(x.store, c)
<1> DEFINE t == AgeStore(x.store)
           e == IF x.expiry.set THEN ExpiresIn(Tick(x.expiry.left)) ELSE NoExpiry
           l == IF x.learningLeft > 0 THEN x.learningLeft - 1 ELSE 0
<1>1. GoodStore(x.store) /\ IsStore(x.store) /\ SumsMatch(x.store)
    BY DEF GrantedResource, GoodStore
<1>2. /\ IsStore(t) /\ SumsMatch(t)
      /\ DOMAIN t.leases = DOMAIN x.store.leases
      /\ \A c : /\ Get(t, c).has = Get(x.store, c).has
                /\ Get(t, c).wants = Get(x.store, c).wants
                /\ Get(t, c).subclients = Get(x.store, c).subclients
    BY <1>1, AgeStoreFacts, AgeStoreSums
<1>3. /\ AgeResource(x) = [store |-> t, config |-> x.config, expiry |-> e, learningLeft |-> l]
      /\ t.sumWants = x.store.sumWants
    BY DEF AgeResource, GrantedResource, AgeStore, GoodStore, IsStore
<1>4. e \in Expiry /\ l \in Int
    BY DEF GrantedResource, Expiry, ExpiresIn, NoExpiry, Tick
<1>5. \A c : Get(t, c).left = IF HasClient(x.store, c) THEN Tick(Get(x.store, c).left) ELSE 0
    <2>1. t.leases = [c \in DOMAIN x.store.leases |-> AgeLease(x.store.leases[c])]
        BY <1>1 DEF AgeStore, IsStore
    <2>2. \A c \in DOMAIN x.store.leases :
             x.store.leases[c] \in Lease /\ AgeLease(x.store.leases[c]).left = Tick(x.store.leases[c].left)
        BY <1>1 DEF IsStore, Lease, AgeLease
    <2> HIDE DEF t
    <2> QED BY <1>2, <2>1, <2>2 DEF Get, HasClient, ZeroLease
<1>6. \A c : HasClient(t, c) <=> HasClient(x.store, c)
    BY <1>2 DEF HasClient
<1>7. GoodStore(t)
    <2> HIDE DEF t
    <2> QED BY <1>1, <1>2 DEF GoodStore, Get, HasClient
<1> HIDE DEF t, e, l
<1>8. GrantedResource(AgeResource(x))
    BY <1>3, <1>4, <1>7 DEF GrantedResource
<1>9. AgeResource(x).expiry = e
    BY <1>3
<1> QED BY <1>2, <1>3, <1>5, <1>6, <1>8, <1>9 DEF e

-----------------------------------------------------------------------------
(* The invariant. *)

RootOK == GoodResource(root) /\ root.config \in RootTemplates

MidOK ==
    /\ age \in Nat
    /\ config \in GrantedTemplate
    /\ Exists => isMaster /\ GrantedResource(mid) /\ mid.config = config

UpdaterOK ==
    /\ pc \in {"asleep", "calling", "answered"}
    /\ pc = "calling" /\ updater.asked => updater.wants \in Nat /\ updater.subclients \in Nat \ {0}
    /\ pc = "answered" /\ updater.asked => updater.template \in GrantedTemplate

LeavesOK ==
    /\ demand \in [Clients -> Nat]
    /\ leaf \in [Clients -> [has : Int, left : Int]]
    /\ refreshed \subseteq Clients
    /\ refreshed # {} => Exists

\* No lease of a leaf expires while the intermediate server is the master, and
\* each records what its leaf wants and holds.
LeasesLive ==
    Exists => \A c \in Clients :
        /\ HasClient(mid.store, c) => Get(mid.store, c).wants = demand[c]
        /\ Get(mid.store, c).left >= 0
        /\ c \in refreshed => Get(mid.store, c).left > 0 /\ leaf[c].has = Get(mid.store, c).has

Inv == RootOK /\ MidOK /\ UpdaterOK /\ LeavesOK /\ LeasesLive

\* The capacity of the first mastership: none before the first answer, and
\* from then on what the last answer granted, until it expires.
Unanswered ==
    /\ config = Default /\ received.left < 0
    /\ Exists => ~mid.expiry.set

Answered ==
    /\ Exists /\ mid.expiry.set /\ mid.expiry.left = received.left
    /\ received.left >= 0 => config.capacity = received.has

\* Once anything was asked for there is always something to ask for.
StillAsking ==
    /\ pc \in {"calling", "answered"} /\ updater.asked => Exists /\ mid.store.sumWants > 0
    /\ Answered => /\ mid.store.sumWants > 0
                   /\ pc \in {"calling", "answered"} => updater.asked

BackedInv ==
    /\ elections \in Nat
    /\ received \in [has : Int, left : Int] /\ received.left >= -1
    /\ elections = 0 => (Unanswered \/ Answered) /\ StillAsking

\* Only FairShare is ever configured.
FairInv ==
    /\ config.kind = "FAIR_SHARE"
    /\ pc = "answered" /\ updater.asked => updater.template.kind = "FAIR_SHARE"

-----------------------------------------------------------------------------
(* A resource has more fields than NoResource.                              *)
LEMMA GrantedExists ==
    ASSUME NEW x, GrantedResource(x)
    PROVE  x # NoResource
<1>1. "config" \in DOMAIN x
    BY DEF GrantedResource
<1>2. "config" \notin DOMAIN NoResource
    BY DEF NoResource
<1> QED BY <1>1, <1>2

(* What the operator loads may be loaded by an intermediate server too,     *)
(* with whatever capacity is granted.                                       *)
LEMMA TemplatesGranted ==
    ASSUME NoneProportional
    PROVE  /\ Default \in GrantedTemplate
           /\ \A cfg \in RootTemplates, n \in Int :
                 /\ [cfg EXCEPT !.capacity = n] \in GrantedTemplate
                 /\ [cfg EXCEPT !.capacity = n].capacity = n
                 /\ [cfg EXCEPT !.capacity = n].kind = cfg.kind
<1>1. \A cfg \in RootTemplates \cup {Default} : cfg \in Template /\ cfg.kind \in Kinds \ {"PROPORTIONAL_SHARE"}
    BY TreeTemplates DEF NoneProportional, Template
<1> QED BY <1>1 DEF Template, GrantedTemplate

(* The numbers of the leaves that the root's clients have.                  *)
LEMMA RootClients == Mid \in Clients /\ Other \in Clients
BY TreeClients, NumClientsAssumption DEF Mid, Other, Clients

(* The resource a leaf finds or makes: no lease of it has expired.          *)
LEMMA FoundResource ==
    ASSUME Inv
    PROVE  /\ GrantedResource(MidResource)
           /\ MidResource.config = config
           /\ Expired(MidResource.store) = {}
           /\ Exists => MidResource = mid
           /\ ~Exists => /\ ~MidResource.expiry.set
                         /\ \A c : Get(MidResource.store, c) = ZeroLease /\ ~HasClient(MidResource.store, c)
<1>1. CASE Exists
    <2>1. MidResource = mid /\ GrantedResource(mid) /\ mid.config = config
        BY <1>1 DEF MidResource, Inv, MidOK
    <2>2. IsStore(mid.store)
        BY <2>1 DEF GrantedResource, GoodStore
    <2>3. \A c \in DOMAIN mid.store.leases : mid.store.leases[c].left >= 0 /\ mid.store.leases[c].left \in Int
        BY <1>1, <2>2 DEF Inv, LeasesLive, Get, HasClient, IsStore, Lease
    <2>4. Expired(mid.store) = {}
        BY <2>3 DEF Expired
    <2> QED BY <1>1, <2>1, <2>4
<1>2. CASE ~Exists
    <2>1. MidResource = NewResource(config, age)
        BY <1>2 DEF MidResource
    <2>2. config \in GrantedTemplate /\ age \in Int
        BY DEF Inv, MidOK
    <2> QED BY <1>2, <2>1, <2>2, GrantedNew
<1> QED BY <1>1, <1>2

\* What a leaf asks for.
LeafRequest(c) == [client |-> c, has |-> IF leaf[c].left < 0 THEN 0 ELSE leaf[c].has,
                   wants |-> demand[c], subclients |-> 1]

(* What LeafAsks does, said with the resource before and after.             *)
LEMMA LeafStep ==
    ASSUME Inv, NEW c \in Clients, LeafAsks(c)
    PROVE  /\ GoodRequest(LeafRequest(c)) /\ LeafRequest(c).client = c /\ LeafRequest(c).wants = demand[c]
           /\ mid' = Decide(MidResource, LeafRequest(c))
           /\ leaf' = [leaf EXCEPT ![c] = [has  |-> DecidedAmount(MidResource, LeafRequest(c)),
                                           left |-> MidResource.config.leaseLength]]
           /\ isMaster /\ c \notin refreshed /\ refreshed' = refreshed \cup {c}
           /\ UNCHANGED <<root, rootUp, config, isMaster, age, updateVars, demand, bounds>>
<1>1. leaf[c] \in [has : Int, left : Int] /\ demand[c] \in Nat
    BY DEF Inv, LeavesOK
<1>2. GoodRequest(LeafRequest(c)) /\ LeafRequest(c).client = c /\ LeafRequest(c).wants = demand[c]
    BY <1>1 DEF LeafRequest, GoodRequest, Request
<1> QED BY <1>2 DEF LeafAsks, LeafRequest

(* A leaf's refresh keeps the invariant.                                    *)
LEMMA LeafAsksKeeps ==
    ASSUME Inv, NEW c \in Clients, LeafAsks(c)
    PROVE  Inv'
<1> DEFINE x == MidResource
           r == LeafRequest(c)
           a == DecidedAmount(x, r)
           n == x.config.leaseLength
<1>1. /\ GoodRequest(r) /\ r.client = c /\ r.wants = demand[c]
      /\ mid' = Decide(x, r)
      /\ leaf' = [leaf EXCEPT ![c] = [has |-> a, left |-> n]]
      /\ isMaster /\ c \notin refreshed /\ refreshed' = refreshed \cup {c}
      /\ UNCHANGED <<root, rootUp, config, isMaster, age, updateVars, demand, bounds>>
    BY LeafStep
<1>2. /\ GrantedResource(x) /\ x.config = config /\ Expired(x.store) = {}
      /\ Exists => x = mid
      /\ ~Exists => \A d : Get(x.store, d) = ZeroLease /\ ~HasClient(x.store, d)
    BY FoundResource
<1>3. n \in Nat \ {0}
    BY <1>2 DEF GrantedResource, GrantedTemplate
<1>4. GrantedResource(mid') /\ mid'.config = x.config /\ a \in Int
    <2> HIDE DEF x, r, a
    <2>1. /\ GrantedResource(Decide(x, r)) /\ DecidedAmount(x, r) \in Int
          /\ Decide(x, r).config = x.config
        BY <1>1, <1>2, GrantedDecide
    <2> QED BY <1>1, <2>1 DEF a
<1>5. /\ \A d : d # c => Get(mid'.store, d) = Get(x.store, d)
      /\ Get(mid'.store, c).has = a /\ Get(mid'.store, c).wants = demand[c] /\ Get(mid'.store, c).left = n
      /\ \A d : HasClient(mid'.store, d) <=> d = c \/ HasClient(x.store, d)
    <2> HIDE DEF x, r
    <2>1. /\ \A d : Get(Decide(x, r).store, d) =
                IF d = r.client THEN [has |-> DecidedAmount(x, r), wants |-> r.wants,
                                      subclients |-> r.subclients, left |-> x.config.leaseLength]
                                ELSE Get(x.store, d)
          /\ \A d : HasClient(Decide(x, r).store, d) <=> d = r.client \/ HasClient(x.store, d)
        BY <1>1, <1>2, GrantedLeases
    <2> QED BY <1>1, <2>1
<1>6. Exists'
    BY <1>4, GrantedExists DEF Exists
<1> HIDE DEF x, r, a, n
<1>7. leaf \in [Clients -> [has : Int, left : Int]] /\ refreshed \subseteq Clients /\ demand \in [Clients -> Nat]
    BY DEF Inv, LeavesOK
<1>8. \A d \in Clients : d # c => leaf'[d] = leaf[d]
    BY <1>1, <1>7
<1>9. leaf'[c].has = a
    BY <1>1, <1>7
<1>10. RootOK' /\ UpdaterOK'
    BY <1>1 DEF Inv, RootOK, UpdaterOK, updateVars
<1>11. MidOK'
    BY <1>1, <1>2, <1>4 DEF Inv, MidOK
<1>12. LeavesOK'
    BY <1>1, <1>3, <1>4, <1>6, <1>7 DEF LeavesOK
<1>13. LeasesLive'
    <2> SUFFICES ASSUME NEW d \in Clients
                 PROVE  /\ HasClient(mid'.store, d) => Get(mid'.store, d).wants = demand[d]
                        /\ Get(mid'.store, d).left >= 0
                        /\ d \in refreshed' => Get(mid'.store, d).left > 0 /\ leaf'[d].has = Get(mid'.store, d).has
        BY <1>1 DEF LeasesLive
    <2>1. CASE d = c
        BY <1>3, <1>5, <1>9, <2>1
    <2>2. CASE d # c
        <3>1. Get(mid'.store, d) = Get(x.store, d) /\ leaf'[d] = leaf[d]
              /\ (HasClient(mid'.store, d) <=> HasClient(x.store, d))
            BY <1>5, <1>8, <2>2
        <3>2. d \in refreshed' <=> d \in refreshed
            BY <1>1, <2>2
        <3>3. CASE Exists
            BY <1>2, <3>1, <3>2, <3>3 DEF Inv, LeasesLive
        <3>4. CASE ~Exists
            <4>1. refreshed = {}
                BY <3>4 DEF Inv, LeavesOK
            <4> QED BY <1>2, <3>1, <3>2, <3>4, <4>1 DEF ZeroLease
        <3> QED BY <3>3, <3>4
    <2> QED BY <2>1, <2>2
<1> QED BY <1>10, <1>11, <1>12, <1>13 DEF Inv

(* A decision at the root.                                                  *)
LEMMA RootDecides ==
    ASSUME RootOK, NEW r, GoodRequest(r)
    PROVE  /\ GoodResource(Decide(root, r)) /\ Decide(root, r).config \in RootTemplates
           /\ DecidedAmount(root, r) \in Int
<1>1. Decide(root, r).config = root.config
    BY DecideGood DEF RootOK
<1> QED BY <1>1, DecideGood DEF RootOK

(* The leaves and the intermediate server's resource are left alone.        *)
LEMMA TreeKeeps ==
    ASSUME Inv, UNCHANGED <<mid, config, age, leafVars>>, Exists => isMaster'
    PROVE  MidOK' /\ LeavesOK' /\ LeasesLive'
<1>1. MidOK'
    BY DEF Inv, MidOK, Exists, NoResource
<1>2. LeavesOK'
    BY DEF Inv, LeavesOK, leafVars, Exists, NoResource
<1>3. LeasesLive'
    BY DEF Inv, LeasesLive, leafVars, Exists, NoResource
<1> QED BY <1>1, <1>2, <1>3

(* Another client of the root refreshes.                                    *)
LEMMA OtherAsksKeeps ==
    ASSUME Inv, OtherAsks
    PROVE  Inv'
<1>1. PICK wants \in OtherWants :
          root' = Decide(root, [client |-> Other, has |-> Get(root.store, Other).has,
                                wants |-> wants, subclients |-> 1])
    BY DEF OtherAsks
<1>2. GoodRequest([client |-> Other, has |-> Get(root.store, Other).has, wants |-> wants, subclients |-> 1])
    <2>1. Get(root.store, Other).has \in Int
        BY GetType DEF Inv, RootOK, GoodResource, GoodStore, Lease
    <2>2. wants \in Nat
        BY TreeDemands
    <2> QED BY <2>1, <2>2, RootClients DEF GoodRequest, Request
<1>3. RootOK'
    BY <1>1, <1>2, RootDecides DEF RootOK, Inv
<1>4. UpdaterOK'
    BY DEF OtherAsks, updateVars, Inv, UpdaterOK
<1>5. MidOK' /\ LeavesOK' /\ LeasesLive'
    BY TreeKeeps DEF OtherAsks, serverVars, Inv, MidOK
<1> QED BY <1>3, <1>4, <1>5 DEF Inv

(* The loop takes down what the leaves want: if it asks, there is a demand  *)
(* and somebody who has it.                                                 *)
LEMMA WakeKeeps ==
    ASSUME Inv, Wake
    PROVE  Inv'
<1>1. /\ pc' = "calling" /\ UNCHANGED <<root, serverVars, leafVars>>
      /\ updater' = [asked |-> Exists /\ mid.store.sumWants > 0,
                     wants |-> mid.store.sumWants, subclients |-> mid.store.count]
    BY DEF Wake
<1>2. updater'.wants = mid.store.sumWants /\ updater'.subclients = mid.store.count
    BY <1>1
<1>3. updater'.asked => Exists /\ mid.store.sumWants > 0
    BY <1>1
<1>4. Exists /\ mid.store.sumWants > 0 => mid.store.count \in Nat \ {0} /\ mid.store.sumWants \in Nat
    <2>1. Exists => GoodStore(mid.store)
        BY DEF Inv, MidOK, GrantedResource
    <2> QED BY <2>1, WantedCounts
<1>5. UpdaterOK'
    BY <1>1, <1>2, <1>3, <1>4 DEF UpdaterOK
<1>6. MidOK' /\ LeavesOK' /\ LeasesLive'
    BY <1>1, TreeKeeps DEF serverVars, Inv, MidOK
<1>7. RootOK'
    BY <1>1 DEF Inv, RootOK
<1> QED BY <1>5, <1>6, <1>7 DEF Inv

\* What the root is asked for.
ParentRequest == [client |-> Mid, has |-> 0, wants |-> updater.wants, subclients |-> updater.subclients]

(* The root answers with a template that may be loaded.                     *)
LEMMA RootAnswersKeeps ==
    ASSUME NoneProportional, Inv, RootAnswers
    PROVE  Inv'
<1> DEFINE r == ParentRequest
           a == DecidedAmount(root, r)
<1>1. pc = "calling" /\ pc' = "answered" /\ UNCHANGED <<serverVars, leafVars>>
    BY DEF RootAnswers
<1>2. MidOK' /\ LeavesOK' /\ LeasesLive'
    BY <1>1, TreeKeeps DEF serverVars, Inv, MidOK
<1>3. CASE updater.asked
    <2>1. root' = Decide(root, r) /\ updater' = [asked |-> TRUE, template |-> [root.config EXCEPT !.capacity = a]]
        BY <1>3 DEF RootAnswers, ParentRequest
    <2>2. GoodRequest(r)
        <3>1. updater.wants \in Nat /\ updater.subclients \in Nat \ {0}
            BY <1>1, <1>3 DEF Inv, UpdaterOK
        <3> QED BY <3>1, RootClients DEF GoodRequest, Request, ParentRequest
    <2> HIDE DEF r
    <2>3. /\ GoodResource(Decide(root, r)) /\ Decide(root, r).config \in RootTemplates
          /\ DecidedAmount(root, r) \in Int
        BY <2>2, RootDecides DEF Inv
    <2>4. RootOK'
        BY <2>1, <2>3 DEF RootOK
    <2>5. [root.config EXCEPT !.capacity = a] \in GrantedTemplate
        <3>1. root.config \in RootTemplates
            BY DEF Inv, RootOK
        <3> QED BY <2>3, <3>1, TemplatesGranted
    <2>6. UpdaterOK'
        <3> HIDE DEF a
        <3> QED BY <1>1, <2>1, <2>5 DEF UpdaterOK
    <2> QED BY <1>2, <2>4, <2>6 DEF Inv
<1>4. CASE ~updater.asked
    <2>1. updater' = [asked |-> FALSE] /\ root' = root
        BY <1>4 DEF RootAnswers
    <2>2. UpdaterOK'
        BY <1>1, <2>1 DEF UpdaterOK
    <2>3. RootOK'
        BY <2>1 DEF Inv, RootOK
    <2> QED BY <1>2, <2>2, <2>3 DEF Inv
<1> QED BY <1>3, <1>4

(* A failed RPC puts the loop to sleep.                                     *)
LEMMA RPCFailsKeeps ==
    ASSUME Inv, RPCFails
    PROVE  Inv'
<1>1. pc' = "asleep" /\ UNCHANGED <<root, serverVars, leafVars>>
    BY DEF RPCFails, Sleep
<1>2. MidOK' /\ LeavesOK' /\ LeasesLive'
    BY <1>1, TreeKeeps DEF serverVars, Inv, MidOK
<1> QED BY <1>1, <1>2 DEF Inv, RootOK, UpdaterOK

\* What Apply gives the resource as its expiry.
AnsweredExpiry == IF Known THEN ExpiresIn(updater.template.leaseLength) ELSE NoExpiry

(* What Apply does.                                                         *)
LEMMA ApplyStep ==
    ASSUME NoneProportional, Inv, Apply
    PROVE  /\ pc = "answered" /\ pc' = "asleep"
           /\ config' = (IF Known THEN updater.template ELSE Default)
           /\ config' \in GrantedTemplate /\ AnsweredExpiry \in Expiry
           /\ Exists => /\ mid' = [store |-> mid.store, config |-> config',
                                   expiry |-> AnsweredExpiry, learningLeft |-> mid.learningLeft]
                        /\ GrantedResource(mid')
           /\ ~Exists => mid' = mid
           /\ Exists' <=> Exists
           /\ received' = IF Known THEN [has |-> updater.template.capacity,
                                         left |-> updater.template.leaseLength]
                          ELSE received
           /\ UNCHANGED <<root, rootUp, isMaster, age, leafVars, bounds>>
<1>1. /\ pc = "answered" /\ pc' = "asleep"
      /\ config' = (IF Known THEN updater.template ELSE Default)
      /\ Exists => mid' = LoadConfig(mid, config', AnsweredExpiry)
      /\ ~Exists => mid' = mid
      /\ received' = IF Known THEN [has |-> updater.template.capacity,
                                    left |-> updater.template.leaseLength]
                     ELSE received
      /\ UNCHANGED <<root, rootUp, isMaster, age, leafVars, bounds>>
    BY DEF Apply, Sleep, AnsweredExpiry
<1>2. config' \in GrantedTemplate
    BY <1>1, TemplatesGranted DEF Known, Inv, UpdaterOK
<1>3. AnsweredExpiry \in Expiry
    <2>1. Known => updater.template.leaseLength \in Int
        BY <1>1 DEF Known, Inv, UpdaterOK, GrantedTemplate
    <2> QED BY <2>1 DEF AnsweredExpiry, NoExpiry, ExpiresIn, Expiry
<1>4. Exists => /\ GrantedResource(mid')
                /\ mid' = [store |-> mid.store, config |-> config',
                           expiry |-> AnsweredExpiry, learningLeft |-> mid.learningLeft]
    <2> SUFFICES ASSUME Exists
                 PROVE  /\ GrantedResource(mid')
                        /\ mid' = [store |-> mid.store, config |-> config',
                                   expiry |-> AnsweredExpiry, learningLeft |-> mid.learningLeft]
        OBVIOUS
    <2>1. GrantedResource(mid)
        BY DEF Inv, MidOK
    <2> QED BY <1>1, <1>2, <1>3, <2>1, GrantedLoadConfig
<1>5. Exists' <=> Exists
    <2>1. CASE Exists
        BY <1>4, <2>1, GrantedExists DEF Exists
    <2>2. CASE ~Exists
        BY <1>1, <2>2 DEF Exists, NoResource
    <2> QED BY <2>1, <2>2
<1> QED BY <1>1, <1>2, <1>3, <1>4, <1>5

(* Loading the answer keeps the leases as they are.                         *)
LEMMA ApplyKeeps ==
    ASSUME NoneProportional, Inv, Apply
    PROVE  Inv'
<1>1. /\ pc' = "asleep" /\ config' \in GrantedTemplate
      /\ Exists => GrantedResource(mid') /\ mid'.store = mid.store /\ mid'.config = config'
      /\ Exists' <=> Exists
      /\ UNCHANGED <<root, rootUp, isMaster, age, leafVars, bounds>>
    BY ApplyStep
<1>2. RootOK' /\ UpdaterOK'
    BY <1>1 DEF Inv, RootOK, UpdaterOK
<1>3. MidOK'
    BY <1>1 DEF Inv, MidOK
<1>4. LeavesOK'
    BY <1>1 DEF Inv, LeavesOK, leafVars
<1>5. LeasesLive'
    BY <1>1 DEF Inv, LeasesLive, leafVars
<1> QED BY <1>2, <1>3, <1>4, <1>5 DEF Inv

(* Won or lost, an election leaves no resource.                             *)
LEMMA ElectionKeeps ==
    ASSUME Inv, BecomeMaster \/ LoseMastership
    PROVE  Inv'
<1>1. CASE BecomeMaster
    <2>1. refreshed = {}
        BY <1>1 DEF BecomeMaster, Inv, MidOK, LeavesOK
    <2>2. ~Exists'
        BY <1>1 DEF BecomeMaster, Exists, NoResource
    <2>3. LeavesOK' /\ LeasesLive'
        BY <1>1, <2>1, <2>2 DEF BecomeMaster, leafVars, Inv, LeavesOK, LeasesLive
    <2> QED BY <1>1, <2>2, <2>3 DEF BecomeMaster, updateVars, Inv, RootOK, MidOK, UpdaterOK
<1>2. CASE LoseMastership
    <2>1. ~Exists'
        BY <1>2 DEF LoseMastership, Exists, NoResource
    <2>2. LeavesOK' /\ LeasesLive'
        BY <1>2, <2>1 DEF LoseMastership, Inv, LeavesOK, LeasesLive
    <2> QED BY <1>2, <2>1, <2>2 DEF LoseMastership, updateVars, Inv, RootOK, MidOK, UpdaterOK
<1> QED BY <1>1, <1>2

(* A new root, a reload at the root, and the root's going and returning.    *)
LEMMA RootChangesKeeps ==
    ASSUME Inv, RootChanges \/ RootReturns
    PROVE  Inv'
<1>1. UNCHANGED <<serverVars, updateVars, leafVars>>
    BY DEF RootChanges, RootReturns
<1>2. MidOK' /\ LeavesOK' /\ LeasesLive'
    BY <1>1, TreeKeeps DEF serverVars, Inv, MidOK
<1>3. UpdaterOK'
    BY <1>1 DEF updateVars, Inv, UpdaterOK
<1>4. RootOK'
    <2>1. GoodResource(root) /\ root.config \in RootTemplates /\ RootTemplates \subseteq Template
        BY TreeTemplates DEF Inv, RootOK
    <2>2. CASE root' = NewResource(root.config, 0)
        <3>1. GoodResource(NewResource(root.config, 0)) /\ NewResource(root.config, 0).config = root.config
            BY <2>1, NewGood DEF NewResource
        <3> QED BY <2>1, <2>2, <3>1 DEF RootOK
    <2>3. CASE \E cfg \in RootTemplates \ {root.config} : root' = LoadConfig(root, cfg, NoExpiry)
        <3>1. PICK cfg \in RootTemplates : root' = LoadConfig(root, cfg, NoExpiry)
            BY <2>3
        <3>2. NoExpiry \in Expiry
            BY DEF NoExpiry, Expiry
        <3> QED BY <2>1, <3>1, <3>2, LoadConfigGood DEF RootOK
    <2>4. CASE root' = root
        BY <2>1, <2>4 DEF RootOK
    <2> QED BY <2>2, <2>3, <2>4 DEF RootChanges, RootReturns
<1> QED BY <1>2, <1>3, <1>4 DEF Inv

(* The clock does not tick before every leaf has refreshed, so no lease     *)
(* expires by it.                                                           *)
LEMMA ClockTickKeeps ==
    ASSUME Inv, ClockTick
    PROVE  Inv'
<1>1. /\ isMaster => refreshed = Clients
      /\ root' = AgeResource(root)
      /\ Exists => mid' = AgeResource(mid)
      /\ ~Exists => mid' = mid
      /\ age' = IF isMaster /\ age < Default.learning THEN age + 1 ELSE age
      /\ leaf' = [c \in Clients |-> AgeHeld(leaf[c])]
      /\ pc = "asleep" /\ refreshed' = {}
      /\ UNCHANGED <<rootUp, config, isMaster, pc, retries, demand, bounds>>
    BY DEF ClockTick, TimeMayPass
<1>2. RootOK'
    <2>1. AgeResource(root).config = root.config
        BY DEF AgeResource
    <2> QED BY <1>1, <2>1, AgeGood DEF Inv, RootOK
<1>3. Exists => /\ GrantedResource(mid') /\ mid'.config = mid.config
                /\ \A c : /\ Get(mid'.store, c).wants = Get(mid.store, c).wants
                          /\ Get(mid'.store, c).left =
                               IF HasClient(mid.store, c) THEN Tick(Get(mid.store, c).left) ELSE 0
                          /\ HasClient(mid'.store, c) <=> HasClient(mid.store, c)
    <2>1. Exists => GrantedResource(mid)
        BY DEF Inv, MidOK
    <2> QED BY <1>1, <2>1, GrantedAge
<1>4. Exists' <=> Exists
    <2>1. CASE Exists
        BY <1>3, <2>1, GrantedExists DEF Exists
    <2>2. CASE ~Exists
        BY <1>1, <2>2 DEF Exists, NoResource
    <2> QED BY <2>1, <2>2
<1>5. MidOK'
    BY <1>1, <1>3, <1>4 DEF Inv, MidOK
<1>6. UpdaterOK'
    BY <1>1 DEF UpdaterOK
<1>7. LeavesOK'
    <2>1. \A c \in Clients : leaf[c] \in [has : Int, left : Int]
        BY DEF Inv, LeavesOK
    <2>2. \A c \in Clients : AgeHeld(leaf[c]) \in [has : Int, left : Int]
        BY <2>1 DEF AgeHeld, Nothing
    <2> QED BY <1>1, <2>2 DEF Inv, LeavesOK
<1>8. LeasesLive'
    <2> SUFFICES ASSUME Exists, NEW c \in Clients
                 PROVE  /\ HasClient(mid'.store, c) => Get(mid'.store, c).wants = demand[c]
                        /\ Get(mid'.store, c).left >= 0
        BY <1>1, <1>4 DEF LeasesLive
    <2>1. c \in refreshed
        BY <1>1 DEF Inv, MidOK
    <2>2. /\ HasClient(mid.store, c) => Get(mid.store, c).wants = demand[c]
          /\ Get(mid.store, c).left > 0
        BY <2>1 DEF Inv, LeasesLive
    <2>3. Get(mid.store, c).left \in Int
        BY GetType DEF Inv, MidOK, GrantedResource, GoodStore, Lease
    <2> QED BY <1>3, <2>2, <2>3 DEF Tick
<1> QED BY <1>2, <1>5, <1>6, <1>7, <1>8 DEF Inv

(* Initially nothing is granted.                                            *)
LEMMA InvInitially ==
    ASSUME NoneProportional, Init
    PROVE  Inv
<1>1. /\ mid = NoResource /\ config = Default /\ age = 0 /\ pc = "asleep"
      /\ demand \in Demands /\ leaf = [c \in Clients |-> Nothing] /\ refreshed = {}
    BY DEF Init
<1>2. RootOK
    <2>1. PICK cfg \in RootTemplates : root = NewResource(cfg, cfg.learning)
        BY DEF Init
    <2>2. cfg \in Template /\ cfg.learning \in Int
        BY TreeTemplates DEF Template
    <2>3. NewResource(cfg, cfg.learning).config = cfg
        BY DEF NewResource
    <2> QED BY <2>1, <2>2, <2>3, NewGood DEF RootOK
<1>3. MidOK
    BY <1>1, TemplatesGranted DEF MidOK, Exists
<1>4. UpdaterOK
    BY <1>1 DEF UpdaterOK
<1>5. LeavesOK
    BY <1>1, TreeDemands DEF LeavesOK, Nothing
<1>6. LeasesLive
    BY <1>1 DEF LeasesLive, Exists
<1> QED BY <1>2, <1>3, <1>4, <1>5, <1>6 DEF Inv

(* Every step keeps the invariant.                                          *)
LEMMA InvKept ==
    ASSUME NoneProportional, Inv, [Next]_vars
    PROVE  Inv'
<1>1. CASE \E c \in Clients : LeafAsks(c)
    BY <1>1, LeafAsksKeeps
<1>2. CASE OtherAsks
    BY <1>2, OtherAsksKeeps
<1>3. CASE Wake
    BY <1>3, WakeKeeps
<1>4. CASE RootAnswers
    BY <1>4, RootAnswersKeeps
<1>5. CASE Apply
    BY <1>5, ApplyKeeps
<1>6. CASE RPCFails
    BY <1>6, RPCFailsKeeps
<1>7. CASE BecomeMaster \/ LoseMastership
    BY <1>7, ElectionKeeps
<1>8. CASE RootChanges \/ RootReturns
    BY <1>8, RootChangesKeeps
<1>9. CASE ClockTick
    BY <1>9, ClockTickKeeps
<1>10. CASE UNCHANGED vars
    <2>1. MidOK' /\ LeavesOK' /\ LeasesLive'
        BY <1>10, TreeKeeps DEF vars, serverVars, Inv, MidOK
    <2> QED BY <1>10, <2>1 DEF vars, serverVars, updateVars, Inv, RootOK, UpdaterOK
<1> QED BY <1>1, <1>2, <1>3, <1>4, <1>5, <1>6, <1>7, <1>8, <1>9, <1>10 DEF Next, Update

(* The type invariant of the tree: the stores of both servers are right,    *)
(* the intermediate server has a resource only as a master and under the    *)
(* configuration it loaded last, and what a leaf that has refreshed was     *)
(* granted is what is recorded, whatever is lost, elected or reloaded.      *)
THEOREM TreeTypeCorrect == NoneProportional => (Spec => []TypeOK)
<1> SUFFICES ASSUME NoneProportional PROVE Spec => []TypeOK
    OBVIOUS
<1>1. Init => Inv
    BY InvInitially
<1>2. Inv /\ [Next]_vars => Inv'
    BY InvKept
<1>3. Inv => TypeOK
    <2> SUFFICES ASSUME Inv PROVE TypeOK
        OBVIOUS
    <2>1. IsResource(root) /\ SumsMatch(root.store)
        BY DEF Inv, RootOK, GoodResource, GoodStore
    <2>2. Exists => isMaster /\ IsStore(mid.store) /\ SumsMatch(mid.store) /\ mid.config = config
        BY DEF Inv, MidOK, GrantedResource, GoodStore
    <2>3. pc \in {"asleep", "calling", "answered"}
        BY DEF Inv, UpdaterOK
    <2>4. \A c \in refreshed : leaf[c].has = Get(mid.store, c).has
        BY DEF Inv, LeavesOK, LeasesLive
    <2> QED BY <2>1, <2>2, <2>3, <2>4 DEF TypeOK
<1> QED BY <1>1, <1>2, <1>3, PTL DEF Spec

-----------------------------------------------------------------------------
(* The leaves and the grant. *)

(* Only FairShare is configured: at the root, by its answers, and so at the *)
(* intermediate server.                                                     *)
LEMMA FairKept ==
    ASSUME NoneProportional, AllFair, Inv, FairInv, [Next]_vars
    PROVE  FairInv'
<1>0. Default.kind = "FAIR_SHARE" /\ root.config.kind = "FAIR_SHARE"
    BY DEF AllFair, Inv, RootOK
<1>1. CASE RootAnswers
    <2>1. config' = config
        BY <1>1 DEF RootAnswers, serverVars
    <2>2. CASE updater.asked
        <3> DEFINE a == DecidedAmount(root, ParentRequest)
        <3>1. updater'.template = [root.config EXCEPT !.capacity = a]
            BY <1>1, <2>2 DEF RootAnswers, ParentRequest
        <3>2. [root.config EXCEPT !.capacity = a].kind = root.config.kind
            <4>1. root.config \in Template
                BY TreeTemplates DEF Inv, RootOK
            <4> HIDE DEF a
            <4> QED BY <4>1 DEF Template
        <3> HIDE DEF a
        <3> QED BY <1>0, <2>1, <3>1, <3>2 DEF FairInv
    <2>3. CASE ~updater.asked
        <3>1. updater' = [asked |-> FALSE]
            BY <1>1, <2>3 DEF RootAnswers
        <3> QED BY <2>1, <3>1 DEF FairInv
    <2> QED BY <2>2, <2>3
<1>2. CASE Apply
    <2>1. pc = "answered" /\ pc' = "asleep" /\ config' = (IF Known THEN updater.template ELSE Default)
        BY <1>2, ApplyStep
    <2> QED BY <1>0, <2>1 DEF FairInv, Known
<1>3. CASE Wake \/ RPCFails
    <2>1. config' = config /\ pc' # "answered"
        BY <1>3 DEF Wake, RPCFails, Sleep, serverVars
    <2> QED BY <2>1 DEF FairInv
<1>4. CASE ClockTick
    <2>1. config' = config /\ pc' = "asleep"
        BY <1>4 DEF ClockTick, TimeMayPass
    <2> QED BY <2>1 DEF FairInv
<1>5. CASE UNCHANGED <<config, pc, updater>>
    BY <1>5 DEF FairInv
<1>6. OtherAsks \/ BecomeMaster \/ LoseMastership \/ RootChanges \/ RootReturns \/ UNCHANGED vars =>
         UNCHANGED <<config, pc, updater>>
    BY DEF OtherAsks, BecomeMaster, LoseMastership, RootChanges, RootReturns, vars, serverVars, updateVars
<1>7. (\E c \in Clients : LeafAsks(c)) => UNCHANGED <<config, pc, updater>>
    BY DEF LeafAsks, updateVars
<1> QED BY <1>1, <1>2, <1>3, <1>4, <1>5, <1>6, <1>7 DEF Next, Update

(* A refresh adds to what the leaves want, or leaves it.                    *)
LEMMA LeafAsksBacked ==
    ASSUME Inv, BackedInv, NEW c \in Clients, LeafAsks(c)
    PROVE  BackedInv'
<1> DEFINE x == MidResource
           r == LeafRequest(c)
<1>1. /\ GoodRequest(r) /\ r.client = c /\ r.wants = demand[c]
      /\ mid' = Decide(x, r)
      /\ UNCHANGED <<config, updateVars, demand, bounds>>
    BY LeafStep
<1>2. /\ GrantedResource(x) /\ Expired(x.store) = {}
      /\ Exists => x = mid
      /\ ~Exists => ~x.expiry.set
    BY FoundResource
<1> HIDE DEF x, r
<1>3. GrantedResource(mid') /\ mid'.expiry = x.expiry
    <2>1. GrantedResource(Decide(x, r)) /\ Decide(x, r).expiry = x.expiry
        BY <1>1, <1>2, GrantedDecide
    <2> QED BY <1>1, <2>1
<1>4. mid'.store.sumWants = x.store.sumWants + (demand[c] - Get(x.store, c).wants)
    <2>1. Decide(x, r).store.sumWants = x.store.sumWants + (r.wants - Get(x.store, r.client).wants)
        BY <1>1, <1>2, GrantedLeases
    <2> QED BY <1>1, <2>1
<1>5. Exists => (mid.store.sumWants > 0 => mid'.store.sumWants > 0)
    <2> SUFFICES ASSUME Exists, mid.store.sumWants > 0
                 PROVE  mid'.store.sumWants > 0
        OBVIOUS
    <2>1. demand[c] \in Nat /\ (HasClient(mid.store, c) => Get(mid.store, c).wants = demand[c])
        BY DEF Inv, LeavesOK, LeasesLive
    <2>2. ~HasClient(mid.store, c) => Get(mid.store, c).wants = 0
        BY DEF Get, ZeroLease
    <2>3. mid.store.sumWants \in Int
        BY DEF Inv, MidOK, GrantedResource, GoodStore, IsStore
    <2> QED BY <1>2, <1>4, <2>1, <2>2, <2>3
<1>6. Exists'
    BY <1>3, GrantedExists DEF Exists
<1>7. UNCHANGED <<config, received, pc, updater, elections>>
    BY <1>1 DEF updateVars, bounds
<1>8. SUFFICES ASSUME elections = 0
               PROVE  (Unanswered' \/ Answered') /\ StillAsking'
    BY <1>7 DEF BackedInv
<1>9. (Unanswered \/ Answered) /\ StillAsking
    BY <1>8 DEF BackedInv
<1>10. CASE Exists
    BY <1>2, <1>3, <1>5, <1>6, <1>7, <1>9, <1>10 DEF Unanswered, Answered, StillAsking
<1>11. CASE ~Exists
    BY <1>2, <1>3, <1>6, <1>7, <1>9, <1>11 DEF Unanswered, Answered, StillAsking
<1> QED BY <1>10, <1>11

(* An answer to what was asked is loaded with its expiry; nothing is loaded *)
(* without one once there was any.                                          *)
LEMMA ApplyBacked ==
    ASSUME NoneProportional, Inv, BackedInv, Apply
    PROVE  BackedInv'
<1>1. /\ pc = "answered" /\ pc' = "asleep"
      /\ config' = (IF Known THEN updater.template ELSE Default)
      /\ Exists => mid' = [store |-> mid.store, config |-> config',
                           expiry |-> AnsweredExpiry, learningLeft |-> mid.learningLeft]
      /\ Exists' <=> Exists
      /\ received' = IF Known THEN [has |-> updater.template.capacity,
                                    left |-> updater.template.leaseLength]
                     ELSE received
      /\ UNCHANGED elections
    BY ApplyStep DEF bounds
<1>2. Exists => mid'.store = mid.store /\ mid'.expiry = AnsweredExpiry
    BY <1>1
<1>3. CASE Known
    <2>1. updater.asked /\ Exists
        BY <1>3 DEF Known
    <2>2. updater.template \in GrantedTemplate
        BY <1>1, <2>1 DEF Inv, UpdaterOK
    <2>3. received' \in [has : Int, left : Int] /\ received'.left >= -1
          /\ received'.has = updater.template.capacity /\ received'.left = updater.template.leaseLength
        BY <1>1, <1>3, <2>2 DEF GrantedTemplate
    <2>4. mid'.expiry.set /\ mid'.expiry.left = updater.template.leaseLength
        BY <1>2, <1>3, <2>1 DEF AnsweredExpiry, ExpiresIn
    <2>5. Answered'
        BY <1>1, <1>3, <2>1, <2>3, <2>4 DEF Answered
    <2>6. elections = 0 => mid.store.sumWants > 0
        BY <1>1, <2>1 DEF BackedInv, StillAsking
    <2>7. elections = 0 => StillAsking'
        BY <1>1, <1>2, <2>1, <2>6 DEF StillAsking
    <2> QED BY <1>1, <2>3, <2>5, <2>7 DEF BackedInv
<1>4. CASE ~Known
    <2>1. received' = received /\ config' = Default /\ AnsweredExpiry = NoExpiry
        BY <1>1, <1>4 DEF AnsweredExpiry
    <2>2. SUFFICES ASSUME elections = 0
                   PROVE  Unanswered' /\ StillAsking'
        BY <1>1, <2>1 DEF BackedInv
    <2>3. (Unanswered \/ Answered) /\ StillAsking
        BY <2>2 DEF BackedInv
    <2>4. ~updater.asked
        BY <1>1, <1>4, <2>3 DEF StillAsking, Known
    <2>5. ~Answered
        BY <1>1, <2>3, <2>4 DEF StillAsking
    <2>6. Unanswered'
        BY <1>1, <1>2, <2>1, <2>3, <2>5 DEF Unanswered, NoExpiry
    <2>7. ~Answered'
        BY <1>1, <1>2, <2>1 DEF Answered, NoExpiry
    <2> QED BY <1>1, <2>6, <2>7 DEF StillAsking
<1> QED BY <1>3, <1>4

(* Capacity and answer age together.                                        *)
LEMMA ClockTickBacked ==
    ASSUME Inv, BackedInv, ClockTick
    PROVE  BackedInv'
<1>1. /\ Exists => mid' = AgeResource(mid)
      /\ ~Exists => mid' = mid
      /\ received' = AgeHeld(received)
      /\ pc = "asleep" /\ UNCHANGED <<config, pc, elections>>
    BY DEF ClockTick, TimeMayPass, bounds
<1>2. Exists => /\ GrantedResource(mid')
                /\ mid'.expiry = (IF mid.expiry.set THEN ExpiresIn(Tick(mid.expiry.left)) ELSE NoExpiry)
                /\ mid'.store.sumWants = mid.store.sumWants
    <2>1. Exists => GrantedResource(mid)
        BY DEF Inv, MidOK
    <2> QED BY <1>1, <2>1, GrantedAge
<1>3. Exists' <=> Exists
    <2>1. CASE Exists
        BY <1>2, <2>1, GrantedExists DEF Exists
    <2>2. CASE ~Exists
        BY <1>1, <2>2 DEF Exists, NoResource
    <2> QED BY <2>1, <2>2
<1>4. received \in [has : Int, left : Int] /\ received.left >= -1
    BY DEF BackedInv
<1>5. /\ received' \in [has : Int, left : Int]
      /\ received'.left = IF received.left <= 0 THEN -1 ELSE received.left - 1
      /\ received.left > 0 => received'.has = received.has
    BY <1>1, <1>4 DEF AgeHeld, Nothing
<1>6. SUFFICES ASSUME elections = 0
               PROVE  (Unanswered' \/ Answered') /\ StillAsking'
    BY <1>1, <1>4, <1>5 DEF BackedInv
<1>7. (Unanswered \/ Answered) /\ StillAsking
    BY <1>6 DEF BackedInv
<1>8. CASE Unanswered
    <2>1. received'.left < 0 /\ config' = Default
        BY <1>1, <1>4, <1>5, <1>8 DEF Unanswered
    <2>2. Exists' => ~mid'.expiry.set
        BY <1>2, <1>3, <1>8 DEF Unanswered, NoExpiry
    <2> QED BY <1>1, <2>1, <2>2 DEF Unanswered, Answered, StillAsking
<1>9. CASE Answered
    <2>1. Exists /\ mid.expiry.set /\ mid.expiry.left = received.left
        BY <1>9 DEF Answered
    <2>2. mid'.expiry.set /\ mid'.expiry.left = received'.left
        BY <1>2, <1>4, <1>5, <2>1 DEF ExpiresIn, Tick
    <2>3. received'.left >= 0 => config' = config /\ config.capacity = received'.has
        BY <1>1, <1>4, <1>5, <1>9 DEF Answered
    <2>4. Answered'
        BY <1>1, <1>3, <2>1, <2>2, <2>3 DEF Answered
    <2>5. mid'.store.sumWants > 0
        BY <1>2, <1>7, <1>9, <2>1 DEF StillAsking
    <2> QED BY <1>1, <2>4, <2>5 DEF StillAsking
<1> QED BY <1>7, <1>8, <1>9

(* Every step keeps what the capacity in force stems from.                  *)
LEMMA BackedKept ==
    ASSUME NoneProportional, Inv, BackedInv, [Next]_vars
    PROVE  BackedInv'
<1>1. CASE \E c \in Clients : LeafAsks(c)
    BY <1>1, LeafAsksBacked
<1>2. CASE Apply
    BY <1>2, ApplyBacked
<1>3. CASE ClockTick
    BY <1>3, ClockTickBacked
<1>4. CASE Wake
    <2>1. /\ pc' = "calling" /\ UNCHANGED <<mid, config, received, elections>>
          /\ updater'.asked <=> Exists /\ mid.store.sumWants > 0
        BY <1>4 DEF Wake, serverVars, bounds
    <2>2. (Exists' <=> Exists) /\ (Answered' <=> Answered) /\ (Unanswered' <=> Unanswered)
        BY <2>1 DEF Exists, Answered, Unanswered, NoResource
    <2>3. elections = 0 => StillAsking'
        BY <2>1, <2>2 DEF BackedInv, StillAsking, Answered
    <2> QED BY <2>1, <2>2, <2>3 DEF BackedInv
<1>5. CASE RootAnswers
    <2>1. /\ pc = "calling" /\ pc' = "answered" /\ UNCHANGED <<mid, config, received, elections>>
          /\ updater'.asked <=> updater.asked
        BY <1>5 DEF RootAnswers, serverVars, bounds
    <2>2. (Exists' <=> Exists) /\ (Answered' <=> Answered) /\ (Unanswered' <=> Unanswered)
        BY <2>1 DEF Exists, Answered, Unanswered, NoResource
    <2> QED BY <2>1, <2>2 DEF BackedInv, StillAsking
<1>6. CASE RPCFails
    <2>1. pc' = "asleep" /\ UNCHANGED <<mid, config, received, elections>>
        BY <1>6 DEF RPCFails, Sleep, serverVars
    <2>2. (Exists' <=> Exists) /\ (Answered' <=> Answered) /\ (Unanswered' <=> Unanswered)
        BY <2>1 DEF Exists, Answered, Unanswered, NoResource
    <2> QED BY <2>1, <2>2 DEF BackedInv, StillAsking
<1>7. CASE LoseMastership
    <2>1. elections' = elections + 1 /\ received' = received
        BY <1>7 DEF LoseMastership, updateVars
    <2> QED BY <2>1 DEF BackedInv
<1>8. CASE UNCHANGED <<mid, config, received, elections, pc, updater>>
    BY <1>8 DEF BackedInv, StillAsking, Answered, Unanswered, Exists, NoResource
<1>9. CASE BecomeMaster
    <2>1. mid' = mid
        BY <1>9 DEF BecomeMaster, Inv, MidOK, Exists
    <2> QED BY <1>8, <1>9, <2>1 DEF BecomeMaster, updateVars, bounds
<1>10. OtherAsks \/ RootChanges \/ RootReturns \/ UNCHANGED vars =>
         UNCHANGED <<mid, config, received, elections, pc, updater>>
    BY DEF OtherAsks, RootChanges, RootReturns, vars, serverVars, updateVars, bounds
<1> QED BY <1>1, <1>2, <1>3, <1>4, <1>5, <1>6, <1>7, <1>8, <1>9, <1>10 DEF Next, Update

(* Whoever has just refreshed, the leaves together are within what the      *)
(* answer granted.                                                          *)
LEMMA RefreshWithin ==
    ASSUME Inv, BackedInv, FairInv, AllFair, NEW c \in Clients, LeafAsks(c),
           ~InLearningMode(MidResource), elections = 0
    PROVE  HasOf(mid'.store, Clients) <= IF received.left < 0 THEN 0 ELSE received.has
<1> DEFINE x == MidResource
           r == LeafRequest(c)
<1>1. GoodRequest(r) /\ mid' = Decide(x, r)
    BY LeafStep
<1>2. /\ GrantedResource(x) /\ x.config = config
      /\ Exists => x = mid
      /\ ~Exists => ~x.expiry.set
    BY FoundResource
<1>3. x.config.kind = "FAIR_SHARE"
    BY <1>2 DEF FairInv
<1> HIDE DEF x, r
<1>4. HasOf(mid'.store, Clients) <= Capacity(x)
    <2>1. ~InLearningMode(x)
        BY DEF x
    <2> QED BY <1>1, <1>2, <1>3, <2>1, GrantedWithin
<1>5. Unanswered \/ Answered
    BY DEF BackedInv
<1>6. CASE Unanswered
    <2>1. Capacity(x) = 0 /\ received.left < 0
        BY <1>2, <1>6 DEF Unanswered, Capacity, AllFair
    <2> QED BY <1>4, <2>1
<1>7. CASE Answered
    <2>1. x = mid /\ mid.expiry.set /\ mid.expiry.left = received.left /\ x.config = config
          /\ (received.left >= 0 => config.capacity = received.has)
        BY <1>2, <1>7 DEF Answered
    <2>2. received.left \in Int
        BY DEF BackedInv
    <2>3. Capacity(x) = IF received.left < 0 THEN 0 ELSE received.has
        BY <2>1, <2>2 DEF Capacity
    <2> QED BY <1>4, <2>3
<1> QED BY <1>5, <1>6, <1>7

(* With FairShare, the leaves of an intermediate server that is not         *)
(* learning together hold no more, after any of them has refreshed, than    *)
(* its parent granted in an answer that has not expired, through lost       *)
(* answers, reloads and restarts at the parent, and a root that is gone --  *)
(* until the intermediate server is elected a second time.                  *)
THEOREM GrantKept == AllFair => (Spec => LeavesWithinGrant)
<1> SUFFICES ASSUME AllFair PROVE Spec => LeavesWithinGrant
    OBVIOUS
<1>0. NoneProportional
    BY DEF AllFair, NoneProportional
<1> DEFINE All == Inv /\ FairInv /\ BackedInv
           Within1 == \A c \in Clients : c \in refreshed' \ refreshed =>
                        \/ HasOf(mid'.store, Clients) <= IF received.left < 0 THEN 0 ELSE received.has
                        \/ InLearningMode(MidResource)
                        \/ elections > 0
<1>1. Init => All
    <2> SUFFICES ASSUME Init PROVE All
        OBVIOUS
    <2>1. /\ mid = NoResource /\ config = Default /\ pc = "asleep" /\ received = Nothing /\ elections = 0
        BY DEF Init
    <2>2. FairInv
        BY <2>1 DEF FairInv, AllFair
    <2>3. BackedInv
        BY <2>1 DEF BackedInv, Unanswered, Answered, StillAsking, Exists, Nothing
    <2> QED BY <1>0, <2>2, <2>3, InvInitially
<1>2. All /\ [Next]_vars => All'
    BY <1>0, InvKept, FairKept, BackedKept
<1>3. All /\ [Next]_vars => Within1
    <2> SUFFICES ASSUME Inv, FairInv, BackedInv, [Next]_vars,
                        NEW c \in Clients, c \in refreshed' \ refreshed,
                        ~InLearningMode(MidResource), ~(elections > 0)
                 PROVE  HasOf(mid'.store, Clients) <= IF received.left < 0 THEN 0 ELSE received.has
        OBVIOUS
    <2>1. elections = 0
        BY DEF BackedInv
    <2>2. CASE \E d \in Clients : LeafAsks(d)
        BY <2>1, <2>2, RefreshWithin
    <2>3. CASE ~\E d \in Clients : LeafAsks(d)
        <3>1. refreshed' = refreshed \/ refreshed' = {}
            BY <2>3 DEF Next, Update, OtherAsks, Wake, RootAnswers, Apply, RPCFails, BecomeMaster,
                        LoseMastership, RootChanges, RootReturns, ClockTick, vars, leafVars
        <3> QED BY <3>1
    <2> QED BY <2>2, <2>3
<1>4. All /\ [Next]_vars => [Within1]_vars
    BY <1>3
<1> QED BY <1>1, <1>2, <1>4, PTL DEF Spec, LeavesWithinGrant

=============================================================================
