---------------------------- MODULE ServerProofs ----------------------------
(***************************************************************************)
(* What a server keeps true for every number of clients, every set of       *)
(* resources and of configurations, with any number of elections, reloads   *)
(* and handlers in progress.  Most of it holds as long as nobody releases:  *)
(* ReleaseCapacity, which changes a store without the resource's lock,      *)
(* spoils the sums.  That no step touches the leases of others              *)
(* (NobodyTouchesOthers) holds in any case.                                 *)
(*                                                                         *)
(* The inductive invariant Inv says that every resource on the heap is good *)
(* (its sums are right and its counts positive, which a decision needs to   *)
(* divide), that map and handlers hold handles of the heap, and that no two *)
(* ids of the map share a handle, so that a reload loads each resource with *)
(* the template of its own id.  LeasesOnHeap is what is left of it with     *)
(* releases, and RecordedInv what it takes to find in a store what a        *)
(* handler is about to answer.                                              *)
(***************************************************************************)
EXTENDS Server, ResourceTheorems, FiniteSetTheorems

NoReleases == "ReleaseCapacity" \notin Methods

Stores ==
    [leases : UNION {[D -> Lease] : D \in SUBSET Clients}, sumHas : Int, sumWants : Int, count : Int]
GoodResources ==
    {x \in [store : Stores, config : Template, expiry : Expiry, learningLeft : Int] : GoodResource(x)}

Fields == {"pc", "method", "has", "wants", "subclients", "todo", "handles", "amounts", "seen"}

\* An RPC in progress, on a heap of n resources.
IsCall(k, n) ==
    /\ k = [f \in Fields |-> k[f]]
    /\ k.pc \in {"received", "redirect", "serving"}
    /\ k.method \in Methods
    /\ k.has \in Claims /\ k.wants \in Wants /\ k.subclients \in SubclientCounts
    /\ k.todo \subseteq Resources
    /\ DOMAIN k.handles \subseteq Resources
    /\ DOMAIN k.amounts \subseteq DOMAIN k.handles
    /\ \A id \in DOMAIN k.handles : k.handles[id] \in 1..n

NumbersOK ==
    /\ isMaster \in BOOLEAN /\ nilMap \in BOOLEAN /\ (isMaster => ~nilMap)
    /\ age \in 0..MaxAge /\ terms \in 0..MaxTerms /\ races = 0
    /\ config \in Configs
HeapOK == heap \in Seq(GoodResources)
MapOK ==
    /\ DOMAIN resources \subseteq Resources
    /\ \A id \in DOMAIN resources : resources[id] \in 1..Len(heap)
    /\ \A id1, id2 \in DOMAIN resources : resources[id1] = resources[id2] => id1 = id2
CallsOK ==
    /\ calls = [c \in Clients |-> calls[c]]
    /\ \A c \in Clients : calls[c] = Idle \/ IsCall(calls[c], Len(heap))

Inv == NumbersOK /\ HeapOK /\ MapOK /\ CallsOK /\ ConfigInForce

-----------------------------------------------------------------------------
(* Lemmas about configurations, resources and the heap. *)

(* A set of positions that is not empty has a first one.                    *)
LEMMA FirstExists ==
    ASSUME NEW S, S \subseteq Nat, S # {}
    PROVE  \E i \in S : \A j \in S : i <= j
<1>1. PICK m \in S : \A k \in S : ~(<<k, m>> \in OpToRel(<, Nat))
    BY WFMin, NatLessThanWellFounded
<1>2. \A k \in S : ~(k < m)
    BY <1>1 DEF OpToRel
<1>3. \A k \in S : k \in Nat /\ m \in Nat
    OBVIOUS
<1> QED BY <1>2, <1>3

(* Every resource id has a template in every configuration.                 *)
LEMMA FindConfigType ==
    ASSUME NEW cfg \in Configs, NEW id \in Resources
    PROVE  FindConfig(cfg, id) \in Template
<1> DEFINE literal == {i \in 1..Len(cfg) : cfg[i].glob = id}
           globbed == {i \in 1..Len(cfg) : id \in cfg[i].matches}
           S == IF literal # {} THEN literal ELSE globbed
           first == CHOOSE i \in S : \A j \in S : i <= j
<1>1. Len(cfg) \in Nat \ {0} /\ \A i \in 1..Len(cfg) : cfg[i].template \in Template
    BY ConfigsAssumption DEF IsConfig
<1>2. Len(cfg) \in globbed
    BY <1>1, ConfigsAssumption DEF IsConfig
<1>3. S \subseteq 1..Len(cfg) /\ S # {}
    BY <1>2
<1>4. S \subseteq Nat
    BY <1>1, <1>3
<1> HIDE DEF S
<1>5. \E i \in S : \A j \in S : i <= j
    BY <1>3, <1>4, FirstExists
<1>6. first \in S
    BY <1>5
<1>7. FindConfig(cfg, id) = cfg[first].template
    BY DEF FindConfig, S
<1> HIDE DEF first
<1> QED BY <1>1, <1>3, <1>6, <1>7

LEMMA GoodIn ==
    ASSUME NEW x, GoodResource(x)
    PROVE  x \in GoodResources
<1>1. /\ x.store = [leases |-> x.store.leases, sumHas |-> x.store.sumHas,
                    sumWants |-> x.store.sumWants, count |-> x.store.count]
      /\ DOMAIN x.store.leases \subseteq Clients
      /\ x.store.leases \in [DOMAIN x.store.leases -> Lease]
      /\ x.store.sumHas \in Int /\ x.store.sumWants \in Int /\ x.store.count \in Int
    BY DEF GoodResource, IsResource, IsStore
<1>2. x.store.leases \in UNION {[D -> Lease] : D \in SUBSET Clients}
    BY <1>1
<1>3. x.store \in Stores
    BY <1>1, <1>2 DEF Stores
<1> QED BY <1>3 DEF GoodResource, IsResource, GoodResources

LEMMA GoodOut ==
    ASSUME NEW x \in GoodResources
    PROVE  GoodResource(x)
BY DEF GoodResources

(* A heap is a sequence.                                                    *)
LEMMA AppendHeap ==
    ASSUME NEW S, NEW s \in Seq(S), NEW x \in S
    PROVE  /\ Append(s, x) \in Seq(S)
           /\ Len(Append(s, x)) = Len(s) + 1
           /\ \A h \in 1..Len(s) : Append(s, x)[h] = s[h]
           /\ Append(s, x)[Len(s) + 1] = x
OBVIOUS

LEMMA ChangeHeap ==
    ASSUME NEW S, NEW s \in Seq(S), NEW t,
           t = [h \in DOMAIN s |-> t[h]], \A h \in 1..Len(s) : t[h] \in S
    PROVE  t \in Seq(S) /\ Len(t) = Len(s)
<1>1. DOMAIN s = 1..Len(s) /\ Len(s) \in Nat
    OBVIOUS
<1>2. t \in [1..Len(s) -> S]
    BY <1>1
<1> QED BY <1>1, <1>2

LEMMA HeapGood ==
    ASSUME HeapOK, NEW h \in 1..Len(heap)
    PROVE  GoodResource(heap[h]) /\ Len(heap) \in Nat
<1>1. heap[h] \in GoodResources /\ Len(heap) \in Nat
    BY DEF HeapOK
<1> QED BY <1>1, GoodOut

(* The request a handler decides is what the algorithms assume.             *)
LEMMA CallIsGood ==
    ASSUME NEW c \in Clients, IsCall(calls[c], Len(heap))
    PROVE  GoodRequest(Request1(c))
<1>1. calls[c].has \in Int /\ calls[c].wants \in Nat /\ calls[c].subclients \in Nat \ {0}
    BY AmountsAssumption, CountsAssumption DEF IsCall
<1> QED BY <1>1 DEF GoodRequest, Request, Request1

-----------------------------------------------------------------------------
(* The parts of the invariant, kept by what the steps have in common.        *)

\* What a step of a handler leaves alone.
Numbers == <<mastership, nilMap, config, races>>

\* The heap grows at the end, and keeps the configurations of what is on it.
HeapGrows ==
    /\ heap' \in Seq(GoodResources) /\ Len(heap') \in Nat /\ Len(heap) <= Len(heap')
    /\ \A h \in 1..Len(heap) : heap'[h].config = heap[h].config

(* A call does not mind a larger heap.                                      *)
LEMMA LargerHeap ==
    ASSUME NEW k, NEW m \in Nat, NEW n \in Nat, IsCall(k, m), m <= n
    PROVE  IsCall(k, n) /\ \A r \in DOMAIN k.handles : k.handles[r] \in 1..n
<1>1. \A i \in 1..m : i \in 1..n
    OBVIOUS
<1>2. \A r \in DOMAIN k.handles : k.handles[r] \in 1..m
    BY DEF IsCall
<1>3. \A r \in DOMAIN k.handles : k.handles[r] \in 1..n
    BY <1>1, <1>2
<1> QED BY <1>3 DEF IsCall

(* Calls other than the one that goes on do not mind it either.             *)
LEMMA CallGoesOn ==
    ASSUME HeapOK, CallsOK, Len(heap') \in Nat, Len(heap) <= Len(heap'), NEW c \in Clients, NEW k,
           calls' = [calls EXCEPT ![c] = k], k = Idle \/ IsCall(k, Len(heap'))
    PROVE  CallsOK'
<1>1. calls' = [d \in Clients |-> IF d = c THEN k ELSE calls[d]]
    BY DEF CallsOK
<1>2. Len(heap) \in Nat
    BY DEF HeapOK
<1>3. \A d \in Clients : calls[d] = Idle \/ IsCall(calls[d], Len(heap'))
    BY <1>2, LargerHeap DEF CallsOK
<1> QED BY <1>1, <1>3 DEF CallsOK

LEMMA CallChanges ==
    ASSUME HeapOK, CallsOK, UNCHANGED <<Numbers, resources, heap>>, NEW c \in Clients, NEW k,
           calls' = [calls EXCEPT ![c] = k], k = Idle \/ IsCall(k, Len(heap))
    PROVE  CallsOK'
<1>1. Len(heap) \in Nat /\ Len(heap') = Len(heap) /\ Len(heap) <= Len(heap)
    BY DEF HeapOK
<1> QED BY <1>1, CallGoesOn

LEMMA CallsStay ==
    ASSUME HeapOK, CallsOK, Len(heap') \in Nat, Len(heap) <= Len(heap'), calls' = calls
    PROVE  CallsOK'
<1>1. Len(heap) \in Nat
    BY DEF HeapOK
<1>2. \A d \in Clients : calls[d] = Idle \/ IsCall(calls[d], Len(heap'))
    BY <1>1, LargerHeap DEF CallsOK
<1> QED BY <1>2 DEF CallsOK

(* Map and configuration stay, and so does what the one says of the other.  *)
LEMMA MapStays ==
    ASSUME Inv, HeapGrows, resources' = resources, config' = config
    PROVE  MapOK' /\ ConfigInForce'
<1>1. Len(heap) \in Nat
    BY DEF Inv, HeapOK
<1>2. MapOK'
    BY <1>1 DEF Inv, MapOK, HeapGrows
<1>3. ConfigInForce'
    <2> SUFFICES ASSUME NEW id \in DOMAIN resources
                 PROVE  heap'[resources[id]].config = FindConfig(config, id)
        BY DEF ConfigInForce
    <2>1. resources[id] \in 1..Len(heap)
        BY DEF Inv, MapOK
    <2> QED BY <2>1 DEF Inv, ConfigInForce, HeapGrows
<1> QED BY <1>2, <1>3

LEMMA HeapStays ==
    ASSUME HeapOK, heap' = heap
    PROVE  HeapGrows
<1>1. Len(heap) \in Nat
    BY DEF HeapOK
<1> QED BY <1>1 DEF HeapOK, HeapGrows

(* getOrCreateResource: what it creates is loaded with the configuration in *)
(* force, on a handle of its own.                                           *)
LEMMA GetOrCreateKeeps ==
    ASSUME Inv, NEW id \in Resources, GetOrCreate(id), config' = config
    PROVE  /\ HeapGrows /\ MapOK' /\ ConfigInForce'
           /\ HandleOf(id) \in 1..Len(heap')
           /\ \A h \in 1..Len(heap) : heap'[h] = heap[h]
           /\ \/ heap' = heap
              \/ heap' = Append(heap, NewResource(FindConfig(config, id), age))
<1>0. Len(heap) \in Nat /\ HeapOK
    BY DEF Inv, HeapOK
<1>1. CASE id \in DOMAIN resources
    <2>1. resources' = resources /\ heap' = heap
        BY <1>1 DEF GetOrCreate
    <2>2. HeapGrows
        BY <1>0, <2>1, HeapStays
    <2>3. HandleOf(id) \in 1..Len(heap')
        BY <1>1, <2>1 DEF HandleOf, Inv, MapOK
    <2> QED BY <2>1, <2>2, <2>3, MapStays
<1>2. CASE id \notin DOMAIN resources
    <2> DEFINE x == NewResource(FindConfig(config, id), age)
               new == Len(heap) + 1
    <2>1. /\ heap' = Append(heap, x)
          /\ resources' = [r \in DOMAIN resources \cup {id} |-> IF r = id THEN new ELSE resources[r]]
        BY <1>2 DEF GetOrCreate
    <2>2. FindConfig(config, id) \in Template
        BY FindConfigType DEF Inv, NumbersOK
    <2>3. GoodResource(x) /\ x.config = FindConfig(config, id)
        <3>1. age \in Int
            BY BoundsAssumption DEF Inv, NumbersOK
        <3> QED BY <2>2, <3>1, NewGood DEF NewResource
    <2> HIDE DEF x
    <2>4. x \in GoodResources
        BY <2>3, GoodIn
    <2>5. /\ heap' \in Seq(GoodResources) /\ Len(heap') = new
          /\ \A h \in 1..Len(heap) : heap'[h] = heap[h]
          /\ heap'[new] = x
        BY <1>0, <2>1, <2>4, AppendHeap DEF HeapOK
    <2>6. HeapGrows
        BY <1>0, <2>5 DEF HeapGrows
    <2>7. \A r \in DOMAIN resources : resources[r] \in 1..Len(heap) /\ resources[r] # new
        BY <1>0 DEF Inv, MapOK
    <2>8. MapOK'
        <3>1. DOMAIN resources' \subseteq Resources
            BY <2>1 DEF Inv, MapOK
        <3>2. \A r \in DOMAIN resources' : resources'[r] \in 1..Len(heap')
            BY <1>0, <2>1, <2>5, <2>7
        <3>3. \A r1, r2 \in DOMAIN resources' : resources'[r1] = resources'[r2] => r1 = r2
            BY <2>1, <2>7 DEF Inv, MapOK
        <3> QED BY <3>1, <3>2, <3>3 DEF MapOK
    <2>9. ConfigInForce'
        <3> SUFFICES ASSUME NEW r \in DOMAIN resources'
                     PROVE  heap'[resources'[r]].config = FindConfig(config, r)
            BY DEF ConfigInForce
        <3>1. CASE r = id
            BY <2>1, <2>3, <2>5, <3>1
        <3>2. CASE r # id
            BY <2>1, <2>5, <2>7, <3>2 DEF Inv, ConfigInForce
        <3> QED BY <3>1, <3>2
    <2>10. HandleOf(id) \in 1..Len(heap')
        BY <1>0, <1>2, <2>5 DEF HandleOf
    <2> QED BY <2>1, <2>5, <2>6, <2>8, <2>9, <2>10 DEF x
<1> QED BY <1>1, <1>2

(* A decision changes one resource of the heap.                             *)
LEMMA DecideKeeps ==
    ASSUME Inv, NEW c \in Clients, IsCall(calls[c], Len(heap)), NEW g \in 1..Len(heap),
           heap' = [heap EXCEPT ![g] = Decide(@, Request1(c))]
    PROVE  HeapGrows /\ Len(heap') = Len(heap)
<1>0. Len(heap) \in Nat /\ HeapOK /\ DOMAIN heap = 1..Len(heap)
    BY DEF Inv, HeapOK
<1>1. GoodResource(heap[g]) /\ GoodRequest(Request1(c))
    BY <1>0, HeapGood, CallIsGood
<1>2. /\ GoodResource(Decide(heap[g], Request1(c)))
      /\ Decide(heap[g], Request1(c)).config = heap[g].config
    BY <1>1, DecideGood
<1>3. /\ heap' = [h \in DOMAIN heap |-> heap'[h]]
      /\ \A h \in 1..Len(heap) : heap'[h] = IF h = g THEN Decide(heap[g], Request1(c)) ELSE heap[h]
    BY <1>0
<1>4. \A h \in 1..Len(heap) : GoodResource(heap'[h]) /\ heap'[h].config = heap[h].config
    BY <1>0, <1>2, <1>3, HeapGood
<1>5. heap' \in Seq(GoodResources) /\ Len(heap') = Len(heap)
    <2>1. \A h \in 1..Len(heap) : heap'[h] \in GoodResources
        BY <1>4, GoodIn
    <2> QED BY <1>0, <1>3, <2>1, ChangeHeap DEF HeapOK
<1> QED BY <1>0, <1>4, <1>5 DEF HeapGrows

-----------------------------------------------------------------------------
(* The steps. *)

LEMMA InitInv == Init => Inv
<1> SUFFICES ASSUME Init PROVE Inv
    OBVIOUS
<1>1. heap \in Seq(GoodResources) /\ Len(heap) = 0
    BY DEF Init
<1>2. DOMAIN resources = {}
    BY DEF Init
<1>3. NumbersOK
    <2>1. 0 \in 0..MaxAge /\ 0 \in 0..MaxTerms
        BY BoundsAssumption
    <2> QED BY <2>1, Zenon DEF Init, NumbersOK
<1>4. CallsOK
    BY DEF Init, CallsOK
<1> QED BY <1>1, <1>2, <1>3, <1>4 DEF Inv, HeapOK, MapOK, ConfigInForce

(* A handler keeps the invariant; without releases some of its steps cannot *)
(* be taken.                                                                *)
LEMMA HandlerStep ==
    ASSUME NoReleases, Inv, NEW c \in Clients, Receive(c) \/ Handle(c)
    PROVE  Inv'
<1>0. Len(heap) \in Nat /\ HeapOK /\ CallsOK
    BY DEF Inv, HeapOK
<1>1. calls[c] = Idle \/ IsCall(calls[c], Len(heap))
    BY DEF Inv, CallsOK
<1>2. ASSUME UNCHANGED Numbers, HeapGrows, MapOK', CallsOK', ConfigInForce' PROVE Inv'
    BY <1>2 DEF Numbers, mastership, Inv, NumbersOK, HeapGrows, HeapOK
<1>3. ASSUME UNCHANGED <<Numbers, resources, heap>>, CallsOK' PROVE Inv'
    <2>1. UNCHANGED Numbers /\ heap' = heap /\ resources' = resources /\ config' = config
        BY <1>3 DEF Numbers
    <2> QED BY <1>0, <1>2, <1>3, <2>1, HeapStays, MapStays
<1>4. CASE Receive(c)
    <2>1. PICK method \in Methods, ids \in SUBSET Resources, has \in Claims, wants \in Wants,
               subclients \in SubclientCounts :
            calls' = [calls EXCEPT ![c] =
                [pc |-> "received", method |-> method, has |-> has, wants |-> wants,
                 subclients |-> subclients, todo |-> ids, handles |-> <<>>, amounts |-> <<>>,
                 seen |-> <<>>]]
        BY <1>4 DEF Receive
    <2> DEFINE k == [pc |-> "received", method |-> method, has |-> has, wants |-> wants,
                     subclients |-> subclients, todo |-> ids, handles |-> <<>>, amounts |-> <<>>,
                     seen |-> <<>>]
    <2>2. IsCall(k, Len(heap))
        BY DEF IsCall, Fields
    <2>3. UNCHANGED <<Numbers, resources, heap>>
        BY <1>4 DEF Receive, Numbers
    <2> HIDE DEF k
    <2>4. calls' = [calls EXCEPT ![c] = k]
        BY <2>1 DEF k
    <2>5. CallsOK'
        BY <1>0, <2>2, <2>3, <2>4, CallChanges
    <2> QED BY <1>3, <2>3, <2>5
<1>5. CASE CheckMaster(c)
    <2>1. calls[c].pc = "received"
        BY <1>5 DEF CheckMaster
    <2>2. IsCall(calls[c], Len(heap))
        BY <1>1, <2>1 DEF Idle
    <2>3. calls[c].method # "ReleaseCapacity"
        BY <2>2 DEF IsCall, NoReleases
    <2>4. PICK pc \in {"redirect", "serving"} : calls' = [calls EXCEPT ![c].pc = pc]
        BY <1>5, <2>3, Zenon DEF CheckMaster, Goto
    <2> DEFINE k == [calls[c] EXCEPT !.pc = pc]
    <2>5. IsCall(k, Len(heap))
        BY <2>2 DEF IsCall, Fields
    <2>6. calls' = [calls EXCEPT ![c] = k] /\ UNCHANGED <<Numbers, resources, heap>>
        BY <1>5, <2>4 DEF CheckMaster, Numbers
    <2> HIDE DEF k
    <2>7. CallsOK'
        BY <1>0, <2>5, <2>6, CallChanges
    <2> QED BY <1>3, <2>6, <2>7
<1>6. CASE Redirect(c) \/ Respond(c)
    <2>1. calls' = [calls EXCEPT ![c] = Idle] /\ UNCHANGED <<Numbers, resources, heap>>
        BY <1>6 DEF Redirect, Respond, Numbers
    <2>2. CallsOK'
        BY <1>0, <2>1, CallChanges
    <2> QED BY <1>3, <2>1, <2>2
<1>7. CASE Resolve(c)
    <2>1. IsCall(calls[c], Len(heap))
        BY <1>1, <1>7 DEF Resolve, Idle
    <2>2. PICK id \in calls[c].todo :
            /\ GetOrCreate(id)
            /\ calls' = [calls EXCEPT
                ![c].todo = @ \ {id},
                ![c].handles = [r \in DOMAIN @ \cup {id} |-> IF r = id THEN HandleOf(id) ELSE @[r]]]
        BY <1>7 DEF Resolve
    <2>3. id \in Resources /\ UNCHANGED Numbers /\ config' = config
        BY <1>7, <2>1 DEF Resolve, Numbers, IsCall
    <2>4. HeapGrows /\ MapOK' /\ ConfigInForce' /\ HandleOf(id) \in 1..Len(heap')
        BY <2>2, <2>3, GetOrCreateKeeps
    <2> DEFINE k == [calls[c] EXCEPT
                !.todo = @ \ {id},
                !.handles = [r \in DOMAIN @ \cup {id} |-> IF r = id THEN HandleOf(id) ELSE @[r]]]
    <2>5. /\ k.todo = calls[c].todo \ {id}
          /\ k.handles = [r \in DOMAIN calls[c].handles \cup {id} |->
                            IF r = id THEN HandleOf(id) ELSE calls[c].handles[r]]
          /\ \A f \in Fields \ {"todo", "handles"} : k[f] = calls[c][f]
          /\ k = [f \in Fields |-> k[f]]
        BY <2>1 DEF IsCall, Fields
    <2>6. calls' = [calls EXCEPT ![c] = k]
        BY <2>2
    <2> HIDE DEF k
    <2>7. /\ k.pc = calls[c].pc /\ k.method = calls[c].method /\ k.has = calls[c].has
          /\ k.wants = calls[c].wants /\ k.subclients = calls[c].subclients /\ k.amounts = calls[c].amounts
        BY <2>5 DEF Fields
    <2>8. DOMAIN k.handles = DOMAIN calls[c].handles \cup {id}
        BY <2>5
    <2>9. \A r \in DOMAIN k.handles : k.handles[r] \in 1..Len(heap')
        <3>1. \A r \in DOMAIN calls[c].handles : calls[c].handles[r] \in 1..Len(heap')
            BY <1>0, <2>1, <2>4, LargerHeap DEF HeapGrows
        <3> QED BY <2>4, <2>5, <3>1
    <2>10. IsCall(k, Len(heap'))
        BY <2>1, <2>3, <2>5, <2>7, <2>8, <2>9 DEF IsCall
    <2>11. CallsOK'
        BY <1>0, <2>4, <2>6, <2>10, CallGoesOn DEF HeapGrows
    <2> QED BY <1>2, <2>3, <2>4, <2>11
<1>8. CASE DecideItem(c)
    <2>1. IsCall(calls[c], Len(heap))
        BY <1>1, <1>8 DEF DecideItem, Idle
    <2>2. PICK id \in DOMAIN calls[c].handles :
            /\ heap' = [heap EXCEPT ![calls[c].handles[id]] = Decide(@, Request1(c))]
            /\ calls' = [calls EXCEPT ![c].amounts =
                [r \in DOMAIN @ \cup {id} |->
                    IF r = id THEN DecidedAmount(heap[calls[c].handles[id]], Request1(c)) ELSE @[r]]]
        BY <1>8 DEF DecideItem
    <2>3. calls[c].handles[id] \in 1..Len(heap)
        BY <2>1 DEF IsCall
    <2>4. HeapGrows /\ Len(heap') = Len(heap)
        BY <2>1, <2>2, <2>3, DecideKeeps
    <2>5. UNCHANGED Numbers /\ resources' = resources /\ config' = config
        BY <1>8 DEF DecideItem, Numbers
    <2> DEFINE k == [calls[c] EXCEPT !.amounts =
                [r \in DOMAIN @ \cup {id} |->
                    IF r = id THEN DecidedAmount(heap[calls[c].handles[id]], Request1(c)) ELSE @[r]]]
    <2>6. /\ DOMAIN k.amounts = DOMAIN calls[c].amounts \cup {id}
          /\ \A f \in Fields \ {"amounts"} : k[f] = calls[c][f]
          /\ k = [f \in Fields |-> k[f]]
        BY <2>1 DEF IsCall, Fields
    <2>7. calls' = [calls EXCEPT ![c] = k]
        BY <2>2
    <2> HIDE DEF k
    <2>8. /\ k.pc = calls[c].pc /\ k.method = calls[c].method /\ k.has = calls[c].has
          /\ k.wants = calls[c].wants /\ k.subclients = calls[c].subclients /\ k.todo = calls[c].todo
          /\ k.handles = calls[c].handles
        BY <2>6 DEF Fields
    <2>9. IsCall(k, Len(heap'))
        BY <2>1, <2>4, <2>6, <2>8 DEF IsCall
    <2>10. CallsOK'
        BY <1>0, <2>4, <2>7, <2>9, CallGoesOn DEF HeapGrows
    <2>11. MapOK' /\ ConfigInForce'
        BY <2>4, <2>5, MapStays
    <2> QED BY <1>2, <2>4, <2>5, <2>10, <2>11
<1>9. ASSUME IsCall(calls[c], Len(heap)), NEW id, Answered(c, id), Len(heap') \in Nat, Len(heap) <= Len(heap')
      PROVE  CallsOK'
    <2> DEFINE k == [calls[c] EXCEPT !.seen = Append(@, id)]
    <2>1. /\ \A f \in Fields \ {"seen"} : k[f] = calls[c][f]
          /\ k = [f \in Fields |-> k[f]]
        BY <1>9 DEF IsCall, Fields
    <2>2. calls' = [calls EXCEPT ![c] = k]
        BY <1>9 DEF Answered
    <2> HIDE DEF k
    <2>3. /\ k.pc = calls[c].pc /\ k.method = calls[c].method /\ k.has = calls[c].has
          /\ k.wants = calls[c].wants /\ k.subclients = calls[c].subclients /\ k.todo = calls[c].todo
          /\ k.handles = calls[c].handles /\ k.amounts = calls[c].amounts
        BY <2>1 DEF Fields
    <2>4. \A r \in DOMAIN k.handles : k.handles[r] \in 1..Len(heap')
        <3>1. \A r \in DOMAIN calls[c].handles : calls[c].handles[r] \in 1..Len(heap')
            BY <1>0, <1>9, LargerHeap
        <3> QED BY <2>3, <3>1
    <2>5. IsCall(k, Len(heap'))
        BY <1>9, <2>1, <2>3, <2>4 DEF IsCall
    <2> QED BY <1>0, <1>9, <2>2, <2>5, CallGoesOn
<1>10. CASE Collect(c)
    <2>1. IsCall(calls[c], Len(heap))
        BY <1>1, <1>10 DEF Collect, Idle
    <2>2. PICK id \in Unanswered(c) : GetOrCreate(id) /\ Answered(c, id)
        BY <1>10 DEF Collect
    <2>3. id \in Resources /\ UNCHANGED Numbers /\ config' = config
        BY <1>10, <2>1, <2>2 DEF Collect, Numbers, Unanswered, IsCall
    <2>4. HeapGrows /\ MapOK' /\ ConfigInForce'
        BY <2>2, <2>3, GetOrCreateKeeps
    <2>5. CallsOK'
        BY <1>9, <2>1, <2>2, <2>4 DEF HeapGrows
    <2> QED BY <1>2, <2>3, <2>4, <2>5
<1>11. CASE CollectServer(c)
    <2>0. calls[c].pc = "serving"
        BY <1>11 DEF CollectServer
    <2>1. IsCall(calls[c], Len(heap))
        BY <1>1, <2>0 DEF Idle
    <2>2. UNCHANGED <<Numbers, resources, heap>> /\ Len(heap') = Len(heap)
        BY <1>11 DEF CollectServer, Numbers
    <2>3. (\E id : Answered(c, id)) \/ calls' = calls
        BY <1>11 DEF CollectServer
    <2>4. CallsOK'
        BY <1>0, <1>9, <2>1, <2>2, <2>3, CallsStay
    <2> QED BY <1>3, <2>2, <2>4
<1>12. CASE LookUpPanics(c)
    <2>1. UNCHANGED <<Numbers, resources, heap, calls>> /\ Len(heap') = Len(heap)
        BY <1>12 DEF LookUpPanics, Numbers
    <2>2. CallsOK'
        BY <1>0, <2>1, CallsStay
    <2> QED BY <1>3, <2>1, <2>2
<1>13. ~(LockForRelease(c) \/ LookUpLease(c) \/ RemoveLease(c))
    <2>1. calls[c].pc \in {"idle", "received", "redirect", "serving"}
        BY <1>1 DEF Idle, IsCall
    <2> QED BY <2>1 DEF LockForRelease, LookUpLease, RemoveLease
<1> QED
    BY <1>4, <1>5, <1>6, <1>7, <1>8, <1>10, <1>11, <1>12, <1>13 DEF Handle

(* Elections, reloads and time keep it, too.                                *)
LEMMA WorldStep ==
    ASSUME Inv, BecomeMaster \/ LoseMastership \/ Reload \/ Tick1 \/ Crashed
    PROVE  Inv'
<1>0. Len(heap) \in Nat /\ HeapOK /\ CallsOK /\ DOMAIN heap = 1..Len(heap)
    BY DEF Inv, HeapOK
<1>1. CASE BecomeMaster \/ LoseMastership
    <2>1. heap' = heap /\ calls' = calls /\ races' = races /\ config' = config /\ resources' = <<>>
        BY <1>1 DEF BecomeMaster, LoseMastership
    <2>2. NumbersOK'
        <3>1. age' \in 0..MaxAge /\ terms' \in 0..MaxTerms
            <4>1. age' = 0 /\ (terms' = terms \/ (terms < MaxTerms /\ terms' = terms + 1))
                BY <1>1 DEF BecomeMaster, LoseMastership
            <4>2. terms \in 0..MaxTerms
                BY DEF Inv, NumbersOK
            <4> QED BY <4>1, <4>2, BoundsAssumption
        <3>2. isMaster' \in BOOLEAN /\ nilMap' \in BOOLEAN /\ (isMaster' => ~nilMap')
            BY <1>1, Zenon DEF BecomeMaster, LoseMastership
        <3> QED BY <2>1, <3>1, <3>2 DEF Inv, NumbersOK
    <2>3. HeapOK' /\ CallsOK'
        BY <1>0, <2>1 DEF HeapOK, CallsOK
    <2>4. MapOK' /\ ConfigInForce'
        <3>1. DOMAIN resources' = {}
            BY <2>1
        <3> QED BY <3>1 DEF MapOK, ConfigInForce
    <2> QED BY <2>2, <2>3, <2>4 DEF Inv
<1>2. CASE Reload
    <2>1. PICK cfg \in Configs :
            /\ config' = cfg
            /\ heap' = [h \in DOMAIN heap |->
                LET owners == {id \in DOMAIN resources : resources[id] = h}
                IN  IF owners = {} THEN heap[h]
                    ELSE LoadConfig(heap[h], FindConfig(cfg, CHOOSE id \in owners : TRUE), NoExpiry)]
        BY <1>2 DEF Reload
    <2>2. UNCHANGED <<mastership, resources, nilMap, calls, races>>
        BY <1>2 DEF Reload
    <2>3. ASSUME NEW id \in DOMAIN resources
          PROVE  heap'[resources[id]] = LoadConfig(heap[resources[id]], FindConfig(cfg, id), NoExpiry)
        <3> DEFINE owners == {r \in DOMAIN resources : resources[r] = resources[id]}
        <3>1. owners = {id}
            BY <2>3 DEF Inv, MapOK
        <3>2. (CHOOSE r \in owners : TRUE) = id
            BY <3>1
        <3>3. resources[id] \in DOMAIN heap
            BY <1>0, <2>3 DEF Inv, MapOK
        <3>4. heap'[resources[id]] = IF owners = {} THEN heap[resources[id]]
                ELSE LoadConfig(heap[resources[id]], FindConfig(cfg, CHOOSE r \in owners : TRUE), NoExpiry)
            BY <2>1, <3>3
        <3> QED BY <3>1, <3>2, <3>4
    <2>4. ASSUME NEW h \in 1..Len(heap) PROVE heap'[h] \in GoodResources
        <3>1. GoodResource(heap[h])
            BY <1>0, <2>4, HeapGood
        <3>2. CASE \E id \in DOMAIN resources : resources[id] = h
            <4>1. PICK id \in DOMAIN resources : resources[id] = h
                BY <3>2
            <4>2. FindConfig(cfg, id) \in Template
                BY <4>1, FindConfigType DEF Inv, MapOK
            <4>3. NoExpiry \in Expiry
                BY DEF NoExpiry, Expiry
            <4>4. GoodResource(heap'[h])
                BY <2>3, <3>1, <4>1, <4>2, <4>3, LoadConfigGood
            <4> QED BY <4>4, GoodIn
        <3>3. CASE ~ \E id \in DOMAIN resources : resources[id] = h
            <4>1. heap'[h] = heap[h]
                BY <1>0, <2>1, <2>4, <3>3
            <4> QED BY <3>1, <4>1, GoodIn
        <3> QED BY <3>2, <3>3
    <2>5. heap' \in Seq(GoodResources) /\ Len(heap') = Len(heap)
        <3>1. heap' = [h \in DOMAIN heap |-> heap'[h]]
            BY <2>1
        <3> QED BY <1>0, <2>4, <3>1, ChangeHeap DEF HeapOK
    <2>6. ConfigInForce'
        <3> SUFFICES ASSUME NEW id \in DOMAIN resources
                     PROVE  heap'[resources[id]].config = FindConfig(cfg, id)
            BY <2>1, <2>2 DEF ConfigInForce
        <3>1. \A x, t : LoadConfig(x, t, NoExpiry).config = t
            BY DEF LoadConfig
        <3> QED BY <2>3, <3>1
    <2>7. MapOK' /\ HeapOK' /\ NumbersOK'
        BY <2>1, <2>2, <2>5 DEF Inv, MapOK, HeapOK, NumbersOK, mastership
    <2>8. CallsOK'
        BY <1>0, <2>2, <2>5, CallsStay
    <2> QED BY <2>6, <2>7, <2>8 DEF Inv
<1>3. CASE Tick1
    <2>1. /\ heap' = [h \in DOMAIN heap |-> AgeResource(heap[h])]
          /\ UNCHANGED <<isMaster, terms, resources, nilMap, config, calls, races>>
          /\ age < MaxAge /\ age' = age + 1
        BY <1>3 DEF Tick1
    <2>2. \A h \in 1..Len(heap) : heap'[h] = AgeResource(heap[h])
        BY <1>0, <2>1
    <2>3. \A h \in 1..Len(heap) : GoodResource(heap'[h]) /\ heap'[h].config = heap[h].config
        <3>1. \A x : AgeResource(x).config = x.config
            BY DEF AgeResource
        <3> QED BY <1>0, <2>2, <3>1, HeapGood, AgeGood
    <2>4. heap' \in Seq(GoodResources) /\ Len(heap') = Len(heap)
        <3>1. heap' = [h \in DOMAIN heap |-> heap'[h]] /\ \A h \in 1..Len(heap) : heap'[h] \in GoodResources
            BY <1>0, <2>1, <2>3, GoodIn
        <3> QED BY <1>0, <3>1, ChangeHeap DEF HeapOK
    <2>5. HeapGrows
        BY <1>0, <2>3, <2>4 DEF HeapGrows
    <2>6. MapOK' /\ ConfigInForce'
        BY <2>1, <2>5, MapStays
    <2>7. CallsOK'
        BY <1>0, <2>1, <2>4, CallsStay
    <2>8. age' \in 0..MaxAge
        BY <2>1, BoundsAssumption DEF Inv, NumbersOK
    <2>9. NumbersOK'
        BY <2>1, <2>8 DEF Inv, NumbersOK
    <2> QED BY <2>4, <2>6, <2>7, <2>9 DEF Inv, HeapOK
<1>4. CASE Crashed
    BY <1>4 DEF Crashed, vars, Inv, NumbersOK, mastership, HeapOK, MapOK, CallsOK, ConfigInForce
<1> QED BY <1>1, <1>2, <1>3, <1>4

LEMMA InvInductive == NoReleases /\ Inv /\ [Next]_vars => Inv'
<1> SUFFICES ASSUME NoReleases, Inv, [Next]_vars PROVE Inv'
    OBVIOUS
<1>1. CASE Next
    BY <1>1, HandlerStep, WorldStep DEF Next
<1>2. CASE UNCHANGED vars
    BY <1>2 DEF vars, Inv, NumbersOK, mastership, HeapOK, MapOK, CallsOK, ConfigInForce
<1> QED BY <1>1, <1>2

LEMMA InvImplies == Inv => TypeOK /\ SumsMatchEverywhere /\ ConfigInForce
<1> SUFFICES ASSUME Inv PROVE TypeOK /\ SumsMatchEverywhere
    BY DEF Inv
<1>1. \A h \in 1..Len(heap) : GoodResource(heap[h])
    BY HeapGood DEF Inv
<1>2. races \in 0..(MaxRaces + Cardinality(Clients))
    <2>1. Cardinality(Clients) \in Nat
        BY FS_Interval, FS_CardinalityType, NumClientsAssumption DEF Clients
    <2> QED BY <2>1, BoundsAssumption DEF Inv, NumbersOK
<1>3. \A c \in Clients : Open(c) => IsCall(calls[c], Len(heap))
    BY DEF Open, Inv, CallsOK, Idle
<1>4. TypeOK
    BY <1>1, <1>2, <1>3 DEF TypeOK, Inv, NumbersOK, MapOK, IsCall, GoodResource
<1>5. SumsMatchEverywhere
    BY <1>1 DEF SumsMatchEverywhere, GoodResource, GoodStore
<1> QED BY <1>4, <1>5

(* Heap, map and handlers stay well formed.                                 *)
THEOREM TypeCorrect == NoReleases => (Spec => []TypeOK)
<1> SUFFICES ASSUME NoReleases PROVE Spec => []TypeOK
    OBVIOUS
<1>1. Inv /\ [Next]_vars => Inv'
    BY InvInductive
<1>2. Inv => TypeOK
    BY InvImplies
<1> QED BY InitInv, <1>1, <1>2, PTL DEF Spec

(* However decisions, requests, elections and reloads interleave, the       *)
(* running sums of every resource are those of its leases.                  *)
THEOREM SumsStayRight == NoReleases => (Spec => []SumsMatchEverywhere)
<1> SUFFICES ASSUME NoReleases PROVE Spec => []SumsMatchEverywhere
    OBVIOUS
<1>1. Inv /\ [Next]_vars => Inv'
    BY InvInductive
<1>2. Inv => SumsMatchEverywhere
    BY InvImplies
<1> QED BY InitInv, <1>1, <1>2, PTL DEF Spec

(* Every resource of the map has the template of the configuration loaded   *)
(* last, also one that a request creates while the configuration changes.   *)
THEOREM NewConfigIsInForce == NoReleases => (Spec => []ConfigInForce)
<1> SUFFICES ASSUME NoReleases PROVE Spec => []ConfigInForce
    OBVIOUS
<1>1. Inv /\ [Next]_vars => Inv'
    BY InvInductive
<1>2. Inv => ConfigInForce
    BY InvImplies
<1> QED BY InitInv, <1>1, <1>2, PTL DEF Spec

-----------------------------------------------------------------------------
(* Nobody overcommits.  What a decision may grant depends on every lease    *)
(* granted before it, by any handler, since the resource was created.       *)

\* Every resource is shared from the start, and keeps its capacity.
SteadySharing ==
    \A id \in Resources, cfg1, cfg2 \in Configs :
        /\ FindConfig(cfg1, id).kind \in SharingKinds
        /\ FindConfig(cfg1, id).learning = 0
        /\ FindConfig(cfg1, id).capacity = FindConfig(cfg2, id).capacity

AllWithin == \A h \in 1..Len(heap) : Within(heap[h])

\* One resource of the heap is new, or has decided.
LEMMA HandlerWithin ==
    ASSUME NoReleases, SteadySharing, Inv, AllWithin, NEW c \in Clients, Receive(c) \/ Handle(c)
    PROVE  AllWithin'
<1>0. Len(heap) \in Nat /\ HeapOK /\ DOMAIN heap = 1..Len(heap)
    BY DEF Inv, HeapOK
<1>1. calls[c] = Idle \/ IsCall(calls[c], Len(heap))
    BY DEF Inv, CallsOK
<1>2. ASSUME heap' = heap PROVE AllWithin'
    BY <1>2 DEF AllWithin
<1>3. ASSUME NEW id \in Resources, GetOrCreate(id), config' = config PROVE AllWithin'
    <2>1. CASE heap' = heap
        BY <1>2, <2>1
    <2>2. CASE heap' = Append(heap, NewResource(FindConfig(config, id), age))
        <3> DEFINE x == NewResource(FindConfig(config, id), age)
        <3>1. config \in Configs /\ FindConfig(config, id) \in Template
            BY FindConfigType DEF Inv, NumbersOK
        <3>2. age \in Nat
            BY BoundsAssumption DEF Inv, NumbersOK
        <3>3. Within(x)
            BY <3>1, <3>2, WithinNew DEF SteadySharing
        <3>4. x \in GoodResources
            BY <3>3, GoodIn DEF Within
        <3> HIDE DEF x
        <3>5. /\ Len(heap') = Len(heap) + 1 /\ heap'[Len(heap) + 1] = x
              /\ \A h \in 1..Len(heap) : heap'[h] = heap[h]
            BY <1>0, <2>2, <3>4, AppendHeap DEF HeapOK, x
        <3>6. \A h \in 1..Len(heap') : h \in 1..Len(heap) \/ h = Len(heap) + 1
            BY <1>0, <3>5
        <3> QED BY <3>3, <3>5, <3>6 DEF AllWithin
    <2> QED BY <1>3, <2>1, <2>2, GetOrCreateKeeps
<1>4. CASE Resolve(c) \/ Collect(c)
    <2>1. calls[c].pc = "serving" /\ config' = config
        BY <1>4 DEF Resolve, Collect
    <2>2. IsCall(calls[c], Len(heap))
        BY <1>1, <2>1 DEF Idle
    <2>3. \E id \in calls[c].todo \cup DOMAIN calls[c].amounts : GetOrCreate(id)
        BY <1>4 DEF Resolve, Collect, Unanswered
    <2>4. calls[c].todo \cup DOMAIN calls[c].amounts \subseteq Resources
        BY <2>2 DEF IsCall
    <2> QED BY <1>3, <2>1, <2>3, <2>4
<1>5. CASE DecideItem(c)
    <2>1. calls[c].pc = "serving"
        BY <1>5 DEF DecideItem
    <2>2. IsCall(calls[c], Len(heap))
        BY <1>1, <2>1 DEF Idle
    <2>3. PICK id \in DOMAIN calls[c].handles :
            heap' = [heap EXCEPT ![calls[c].handles[id]] = Decide(@, Request1(c))]
        BY <1>5 DEF DecideItem
    <2> DEFINE g == calls[c].handles[id]
    <2>4. g \in 1..Len(heap)
        BY <2>2 DEF IsCall
    <2>5. \A h \in 1..Len(heap) : heap'[h] = IF h = g THEN Decide(heap[g], Request1(c)) ELSE heap[h]
        BY <1>0, <2>3
    <2> HIDE DEF g
    <2>6. Len(heap') = Len(heap)
        BY <2>2, <2>3, <2>4, DecideKeeps DEF g
    <2>7. Within(Decide(heap[g], Request1(c)))
        BY <2>2, <2>4, CallIsGood, WithinDecide DEF AllWithin
    <2> QED BY <2>5, <2>6, <2>7 DEF AllWithin
<1>6. CASE Receive(c) \/ CheckMaster(c) \/ Redirect(c) \/ Respond(c) \/ CollectServer(c) \/ LookUpPanics(c)
    BY <1>2, <1>6 DEF Receive, CheckMaster, Redirect, Respond, CollectServer, LookUpPanics
<1>7. ~(LockForRelease(c) \/ LookUpLease(c) \/ RemoveLease(c))
    <2>1. calls[c].pc \in {"idle", "received", "redirect", "serving"}
        BY <1>1 DEF Idle, IsCall
    <2> QED BY <2>1 DEF LockForRelease, LookUpLease, RemoveLease
<1> QED BY <1>4, <1>5, <1>6, <1>7 DEF Handle

\* A reload changes no capacity, a tick no lease.
LEMMA WorldWithin ==
    ASSUME SteadySharing, Inv, AllWithin, BecomeMaster \/ LoseMastership \/ Reload \/ Tick1 \/ Crashed
    PROVE  AllWithin'
<1>0. Len(heap) \in Nat /\ HeapOK /\ DOMAIN heap = 1..Len(heap)
    BY DEF Inv, HeapOK
<1>1. CASE BecomeMaster \/ LoseMastership \/ Crashed
    BY <1>1 DEF BecomeMaster, LoseMastership, Crashed, vars, AllWithin
<1>2. CASE Reload
    <2>1. PICK cfg \in Configs :
            heap' = [h \in DOMAIN heap |->
                LET owners == {id \in DOMAIN resources : resources[id] = h}
                IN  IF owners = {} THEN heap[h]
                    ELSE LoadConfig(heap[h], FindConfig(cfg, CHOOSE id \in owners : TRUE), NoExpiry)]
        BY <1>2 DEF Reload
    <2>2. ASSUME NEW h \in 1..Len(heap) PROVE Within(heap'[h])
        <3> DEFINE owners == {id \in DOMAIN resources : resources[id] = h}
                   id == CHOOSE id \in owners : TRUE
        <3>1. heap'[h] = IF owners = {} THEN heap[h]
                         ELSE LoadConfig(heap[h], FindConfig(cfg, id), NoExpiry)
            BY <1>0, <2>1, <2>2
        <3>2. Within(heap[h])
            BY <2>2 DEF AllWithin
        <3>3. CASE owners # {}
            <4>1. id \in owners
                BY <3>3
            <4>2. id \in DOMAIN resources /\ id \in Resources /\ resources[id] = h
                BY <4>1 DEF Inv, MapOK
            <4> HIDE DEF id
            <4>3. FindConfig(cfg, id) \in Template /\ config \in Configs
                BY <4>2, FindConfigType DEF Inv, NumbersOK
            <4>4. heap[h].config = FindConfig(config, id)
                BY <4>2 DEF Inv, ConfigInForce
            <4>5. /\ FindConfig(cfg, id).kind \in SharingKinds
                  /\ FindConfig(cfg, id).capacity = heap[h].config.capacity
                BY <4>2, <4>3, <4>4 DEF SteadySharing
            <4>6. Within(LoadConfig(heap[h], FindConfig(cfg, id), NoExpiry))
                BY <3>2, <4>3, <4>5, WithinLoadConfig
            <4> QED BY <3>1, <3>3, <4>6
        <3> QED BY <3>1, <3>2, <3>3
    <2>3. Len(heap') = Len(heap)
        <3>1. DOMAIN heap' = 1..Len(heap)
            BY <1>0, <2>1
        <3>2. heap' \in Seq(GoodResources)
            BY <1>2, WorldStep DEF Inv, HeapOK
        <3>3. DOMAIN heap' = 1..Len(heap') /\ Len(heap') \in Nat
            BY <3>2
        <3> QED BY <1>0, <3>1, <3>3
    <2> QED BY <2>2, <2>3 DEF AllWithin
<1>3. CASE Tick1
    <2>1. heap' = [h \in DOMAIN heap |-> AgeResource(heap[h])]
        BY <1>3 DEF Tick1
    <2>2. \A h \in 1..Len(heap) : Within(heap'[h])
        <3>1. \A h \in 1..Len(heap) : heap'[h] = AgeResource(heap[h])
            BY <1>0, <2>1
        <3> QED BY <3>1, WithinAge DEF AllWithin
    <2>3. Len(heap') = Len(heap)
        <3>1. DOMAIN heap' = 1..Len(heap)
            BY <1>0, <2>1
        <3>2. heap' \in Seq(GoodResources)
            BY <1>3, WorldStep DEF Inv, HeapOK
        <3>3. DOMAIN heap' = 1..Len(heap') /\ Len(heap') \in Nat
            BY <3>2
        <3> QED BY <1>0, <3>1, <3>3
    <2> QED BY <2>2, <2>3 DEF AllWithin
<1> QED BY <1>1, <1>2, <1>3

(* Concurrent requests of any number of clients never get more capacity,    *)
(* all together, than a resource has, through elections and reloads.        *)
THEOREM NobodyEverOvercommits == NoReleases /\ SteadySharing => (Spec => []NobodyOvercommits)
<1> SUFFICES ASSUME NoReleases, SteadySharing PROVE Spec => []NobodyOvercommits
    OBVIOUS
<1>1. Init => AllWithin
    BY DEF Init, AllWithin
<1>2. Inv /\ AllWithin /\ [Next]_vars => AllWithin'
    <2> SUFFICES ASSUME Inv, AllWithin, [Next]_vars PROVE AllWithin'
        OBVIOUS
    <2>1. CASE Next
        BY <2>1, HandlerWithin, WorldWithin DEF Next
    <2>2. CASE UNCHANGED vars
        BY <2>2 DEF vars, AllWithin
    <2> QED BY <2>1, <2>2
<1>3. Inv /\ [Next]_vars => Inv'
    BY InvInductive
<1>4. AllWithin => NobodyOvercommits
    BY DEF AllWithin, NobodyOvercommits, Within
<1> QED BY InitInv, <1>1, <1>2, <1>3, <1>4, PTL DEF Spec

-----------------------------------------------------------------------------
(* What brings a server down needs a loss of mastership, an RPC of another  *)
(* server, or a release.                                                    *)

Safe == ~nilMap /\ crash = "none"

(* A server that is elected once and for all, and serves clients only, runs *)
(* whatever its handlers, its elections and its reloads do.                 *)
THEOREM ServesClientsForEver ==
    Methods \subseteq {"GetCapacity"} /\ FALSE \notin Outcomes => (Spec => []NeverPanics)
<1> SUFFICES ASSUME Methods \subseteq {"GetCapacity"}, FALSE \notin Outcomes PROVE Spec => []NeverPanics
    OBVIOUS
<1>0. NoReleases
    BY DEF NoReleases
<1>1. Init => Safe
    BY DEF Init, Safe
<1>2. Inv /\ Safe /\ [Next]_vars => Safe'
    <2> SUFFICES ASSUME Inv, Safe, [Next]_vars PROVE Safe'
        OBVIOUS
    <2>1. ASSUME NEW c \in Clients, Receive(c) \/ Handle(c) PROVE Safe'
        <3>1. calls[c] = Idle \/ IsCall(calls[c], Len(heap))
            BY DEF Inv, CallsOK
        <3>2. calls[c].pc \in {"idle", "received", "redirect", "serving"}
            BY <3>1 DEF Idle, IsCall
        <3>3. calls[c].pc = "serving" => calls[c].method = "GetCapacity"
            <4>1. calls[c] = Idle => calls[c].pc = "idle"
                BY DEF Idle
            <4>2. IsCall(calls[c], Len(heap)) => calls[c].method = "GetCapacity"
                BY DEF IsCall
            <4> QED BY <3>1, <4>1, <4>2
        <3>4. ~(RemoveLease(c) \/ LockForRelease(c) \/ LookUpLease(c) \/ CollectServer(c) \/ LookUpPanics(c))
            BY <3>2, <3>3 DEF RemoveLease, LockForRelease, LookUpLease, CollectServer, LookUpPanics, Safe
        <3> QED
            BY <2>1, <3>4
            DEF Handle, Receive, CheckMaster, Redirect, Resolve, DecideItem, Collect, Respond, Safe
    <2>2. CASE BecomeMaster \/ LoseMastership \/ Reload \/ Tick1 \/ Crashed
        <3>1. ~LoseMastership
            BY DEF LoseMastership
        <3>2. nilMap' = nilMap \/ nilMap' = FALSE
            BY <2>2, <3>1 DEF BecomeMaster, Reload, Tick1, Crashed, vars
        <3>3. crash' = crash
            BY <2>2, <3>1 DEF BecomeMaster, Reload, Tick1, Crashed, vars
        <3>4. ~nilMap'
            <4>1. ~nilMap
                BY DEF Safe
            <4>2. CASE nilMap' = nilMap
                BY <4>1, <4>2
            <4>3. CASE nilMap' = FALSE
                BY <4>3
            <4> QED BY <3>2, <4>2, <4>3
        <3> QED BY <3>3, <3>4 DEF Safe
    <2>3. CASE UNCHANGED vars
        BY <2>3 DEF vars, Safe
    <2> QED BY <2>1, <2>2, <2>3 DEF Next
<1>3. Inv /\ [Next]_vars => Inv'
    BY <1>0, InvInductive
<1>4. Safe => NeverPanics
    BY DEF Safe, NeverPanics, Running
<1> QED BY InitInv, <1>1, <1>2, <1>3, <1>4, PTL DEF Spec

-----------------------------------------------------------------------------
(* Live leases.  That no handler touches the lease of another client holds  *)
(* with releases, too, whose races spoil the sums but not the leases of     *)
(* others: it needs no more of the state than that the heap is a sequence   *)
(* of resources with leases on them.                                        *)

HasLeases(store) ==
    /\ "leases" \in DOMAIN store
    /\ \A c \in DOMAIN store.leases : "has" \in DOMAIN store.leases[c]

LeasesOnHeap ==
    /\ Len(heap) \in Nat
    /\ heap = [h \in 1..Len(heap) |-> heap[h]]
    /\ \A h \in 1..Len(heap) : "store" \in DOMAIN heap[h] /\ HasLeases(heap[h].store)
    /\ \A id \in DOMAIN resources : resources[id] \in 1..Len(heap)

\* What a step of client c may do to a store: leases of c, and leases that have
\* expired, may go.
OthersStay(c, old, new) ==
    \A d \in Clients \ {c} : Get(old, d).left < 0 \/ Get(new, d).has = Get(old, d).has

(* A decision leaves the live leases of other clients alone.                *)
LEMMA DecideLeavesOthers ==
    ASSUME NEW x, "store" \in DOMAIN x, HasLeases(x.store), NEW r
    PROVE  /\ "store" \in DOMAIN Decide(x, r) /\ HasLeases(Decide(x, r).store)
           /\ OthersStay(r.client, x.store, Decide(x, r).store)
<1> DEFINE E == Expired(x.store)
           a == DecidedAmount(x, r)
           y == Decide(x, r)
<1>1. /\ DOMAIN Clean(x.store).leases = DOMAIN x.store.leases \ E
      /\ \A d \in DOMAIN x.store.leases \ E : Clean(x.store).leases[d] = x.store.leases[d]
    BY DEF Clean, ReleaseAll
<1>2. "store" \in DOMAIN y /\ y.store = Grant(Clean(x.store), r, a, x.config.leaseLength)
    BY DEF Decide
<1> HIDE DEF y, a
<1>3. /\ "leases" \in DOMAIN y.store
      /\ DOMAIN y.store.leases = (DOMAIN x.store.leases \ E) \cup {r.client}
      /\ "has" \in DOMAIN y.store.leases[r.client]
      /\ \A d \in DOMAIN x.store.leases \ E : d # r.client => y.store.leases[d] = x.store.leases[d]
    BY <1>1, <1>2 DEF Grant, Assign
<1>4. \A d \in DOMAIN x.store.leases : d \in E <=> x.store.leases[d].left < 0
    BY DEF Expired
<1> HIDE DEF E
<1>5. OthersStay(r.client, x.store, y.store)
    BY <1>3, <1>4 DEF OthersStay, Get, HasClient
<1>6. HasLeases(y.store)
    BY <1>3 DEF HasLeases
<1> QED BY <1>2, <1>5, <1>6 DEF y

(* The heap grows at the end.                                               *)
LEMMA LeasesAppend ==
    ASSUME LeasesOnHeap, NEW x, heap' = Append(heap, x)
    PROVE  /\ Len(heap') = Len(heap) + 1
           /\ heap' = [h \in 1..Len(heap') |-> heap'[h]]
           /\ \A h \in 1..Len(heap) : heap'[h] = heap[h]
           /\ heap'[Len(heap) + 1] = x
<1> DEFINE S == {heap[h] : h \in 1..Len(heap)} \cup {x}
<1>1. heap \in [1..Len(heap) -> S] /\ Len(heap) \in Nat
    BY DEF LeasesOnHeap
<1>2. heap \in Seq(S) /\ x \in S
    BY <1>1
<1> HIDE DEF S
<1>3. /\ heap' \in Seq(S) /\ Len(heap') = Len(heap) + 1
      /\ \A h \in 1..Len(heap) : heap'[h] = heap[h]
      /\ heap'[Len(heap) + 1] = x
    BY <1>2, AppendHeap
<1>4. ASSUME NEW T, NEW s \in Seq(T) PROVE s = [h \in 1..Len(s) |-> s[h]]
    <2>1. DOMAIN s = 1..Len(s) /\ s \in [1..Len(s) -> T]
        OBVIOUS
    <2> QED BY <2>1
<1> QED BY <1>3, <1>4

(* Or its resources change in place.                                        *)
LEMMA LeasesChange ==
    ASSUME LeasesOnHeap, heap' = [h \in DOMAIN heap |-> heap'[h]],
           \A h \in 1..Len(heap) : "store" \in DOMAIN heap'[h] /\ HasLeases(heap'[h].store),
           resources' = resources \/ DOMAIN resources' = {}
    PROVE  LeasesOnHeap'
<1> DEFINE S == {heap'[h] : h \in 1..Len(heap)}
<1>1. Len(heap) \in Nat /\ DOMAIN heap = 1..Len(heap)
    BY DEF LeasesOnHeap
<1>2. heap' \in [1..Len(heap) -> S]
    BY <1>1
<1>3. heap' \in Seq(S) /\ Len(heap') = Len(heap)
    BY <1>1, <1>2
<1> HIDE DEF S
<1> QED BY <1>1, <1>3 DEF LeasesOnHeap

\* A step of client c: of a resource that the map keeps, it may change the
\* leases of c.  A step of no client: not even those.
StepOf(c) ==
    \A h \in 1..Len(heap) : heap'[h] = heap[h] \/ OthersStay(c, heap[h].store, heap'[h].store)
StepOfNobody ==
    \A h \in 1..Len(heap), d \in Clients : Get(heap'[h].store, d).has = Get(heap[h].store, d).has

(* getOrCreateResource leaves the resources there are alone.                *)
LEMMA LeasesGetOrCreate ==
    ASSUME LeasesOnHeap, NEW id, GetOrCreate(id)
    PROVE  LeasesOnHeap' /\ StepOfNobody
<1>1. CASE UNCHANGED <<resources, heap>>
    BY <1>1 DEF LeasesOnHeap, StepOfNobody
<1>2. CASE ~UNCHANGED <<resources, heap>>
    <2> DEFINE x == NewResource(FindConfig(config, id), age)
    <2>1. /\ heap' = Append(heap, x)
          /\ resources' = [r \in DOMAIN resources \cup {id} |->
                             IF r = id THEN Len(heap) + 1 ELSE resources[r]]
        BY <1>2 DEF GetOrCreate
    <2>2. "store" \in DOMAIN x /\ HasLeases(x.store)
        BY DEF NewResource, EmptyStore, HasLeases
    <2> HIDE DEF x
    <2>3. /\ Len(heap') = Len(heap) + 1
          /\ heap' = [h \in 1..Len(heap') |-> heap'[h]]
          /\ \A h \in 1..Len(heap) : heap'[h] = heap[h]
          /\ heap'[Len(heap) + 1] = x
        BY <2>1, LeasesAppend
    <2>4. Len(heap) \in Nat
        BY DEF LeasesOnHeap
    <2>5. \A h \in 1..Len(heap') : h \in 1..Len(heap) \/ h = Len(heap) + 1
        BY <2>3, <2>4
    <2>6. \A r \in DOMAIN resources' : resources'[r] \in 1..Len(heap')
        BY <2>1, <2>3, <2>4 DEF LeasesOnHeap
    <2>7. \A h \in 1..Len(heap') : "store" \in DOMAIN heap'[h] /\ HasLeases(heap'[h].store)
        BY <2>2, <2>3, <2>5 DEF LeasesOnHeap
    <2>8. LeasesOnHeap'
        BY <2>3, <2>4, <2>6, <2>7 DEF LeasesOnHeap
    <2>9. StepOfNobody
        BY <2>3 DEF StepOfNobody
    <2> QED BY <2>8, <2>9
<1> QED BY <1>1, <1>2

(* A handler changes leases of its own client, while its RPC is open.       *)
LEMMA LeasesHandler ==
    ASSUME LeasesOnHeap, NEW c \in Clients, Receive(c) \/ Handle(c)
    PROVE  LeasesOnHeap' /\ ((StepOf(c) /\ Open(c)) \/ StepOfNobody)
<1>0. Len(heap) \in Nat /\ DOMAIN heap = 1..Len(heap)
    BY DEF LeasesOnHeap
<1>1. CASE Resolve(c) \/ Collect(c)
    <2>1. \E id : GetOrCreate(id)
        BY <1>1 DEF Resolve, Collect
    <2> QED BY <2>1, LeasesGetOrCreate
<1>2. CASE DecideItem(c)
    <2>1. PICK g : heap' = [heap EXCEPT ![g] = Decide(@, Request1(c))]
        BY <1>2 DEF DecideItem
    <2>2. \A h \in 1..Len(heap) : heap'[h] = IF h = g THEN Decide(heap[h], Request1(c)) ELSE heap[h]
        BY <1>0, <2>1
    <2>3. heap' = [h \in DOMAIN heap |-> heap'[h]] /\ resources' = resources
        BY <1>2, <2>1 DEF DecideItem
    <2>4. Request1(c).client = c
        BY DEF Request1
    <2>5. \A h \in 1..Len(heap) :
             /\ "store" \in DOMAIN Decide(heap[h], Request1(c))
             /\ HasLeases(Decide(heap[h], Request1(c)).store)
             /\ OthersStay(c, heap[h].store, Decide(heap[h], Request1(c)).store)
        BY <2>4, DecideLeavesOthers DEF LeasesOnHeap
    <2>6. \A h \in 1..Len(heap) : "store" \in DOMAIN heap'[h] /\ HasLeases(heap'[h].store)
        BY <2>2, <2>5 DEF LeasesOnHeap
    <2>7. LeasesOnHeap'
        BY <2>3, <2>6, LeasesChange
    <2>8. StepOf(c)
        BY <2>2, <2>5 DEF StepOf
    <2>9. Open(c)
        BY <1>2 DEF DecideItem, Open
    <2> QED BY <2>7, <2>8, <2>9
<1>3. CASE RemoveLease(c) /\ heap' # heap
    <2> DEFINE g == resources[calls[c].seen[1]]
               now == heap[g].store
               Raceful(sumHas, sumWants, count) ==
                   [leases |-> [d \in DOMAIN now.leases \ {c} |-> now.leases[d]],
                    sumHas |-> sumHas, sumWants |-> sumWants, count |-> count]
    <2>0. \/ heap' = [heap EXCEPT ![g].store = Release(now, c)]
          \/ \E sumHas, sumWants, count :
                heap' = [heap EXCEPT ![g].store = Raceful(sumHas, sumWants, count)]
        <3> DEFINE before == calls[c].seen[2]
                   lease == before.leases[c]
        <3>1. \/ heap' = [heap EXCEPT ![g].store = Release(now, c)]
              \/ \E sumHas \in Raced(before.sumHas, now.sumHas, lease.has),
                    sumWants \in Raced(before.sumWants, now.sumWants, lease.wants),
                    count \in Raced(before.count, now.count, lease.subclients) :
                    heap' = [heap EXCEPT ![g].store = Raceful(sumHas, sumWants, count)]
              \/ UNCHANGED <<heap, calls, races>>
            BY <1>3, Zenon DEF RemoveLease
        <3>2. UNCHANGED <<heap, calls, races>> => heap' = heap
            OBVIOUS
        <3> HIDE DEF g, Raceful, before, lease
        <3> QED BY <1>3, <3>1, <3>2, Zenon
    <2>1. PICK new :
            /\ heap' = [heap EXCEPT ![g].store = new]
            /\ HasLeases(now) => HasLeases(new) /\ OthersStay(c, now, new)
        <3>1. ASSUME HasLeases(now)
              PROVE  HasLeases(Release(now, c)) /\ OthersStay(c, now, Release(now, c))
            BY <3>1 DEF HasLeases, OthersStay, Release, Get, HasClient
        <3>2. ASSUME HasLeases(now), NEW sumHas, NEW sumWants, NEW count
              PROVE  /\ HasLeases(Raceful(sumHas, sumWants, count))
                     /\ OthersStay(c, now, Raceful(sumHas, sumWants, count))
            BY <3>2 DEF HasLeases, OthersStay, Get, HasClient
        <3> HIDE DEF Raceful, g
        <3> QED BY <2>0, <3>1, <3>2, Zenon
    <2> HIDE DEF g
    <2>2. resources' = resources /\ Open(c)
        BY <1>3 DEF RemoveLease, Open
    <2>3. heap' = [h \in DOMAIN heap |-> heap'[h]]
        BY <2>1
    <2>4. \A h \in 1..Len(heap) :
             heap'[h] = IF h = g THEN [heap[h] EXCEPT !.store = new] ELSE heap[h]
        BY <1>0, <2>1
    <2>5. \A h \in 1..Len(heap) :
             /\ "store" \in DOMAIN heap'[h] /\ HasLeases(heap'[h].store)
             /\ heap'[h] = heap[h] \/ OthersStay(c, heap[h].store, heap'[h].store)
        <3> SUFFICES ASSUME NEW h \in 1..Len(heap)
                     PROVE  /\ "store" \in DOMAIN heap'[h] /\ HasLeases(heap'[h].store)
                            /\ heap'[h] = heap[h] \/ OthersStay(c, heap[h].store, heap'[h].store)
            OBVIOUS
        <3>1. "store" \in DOMAIN heap[h] /\ HasLeases(heap[h].store)
            BY DEF LeasesOnHeap
        <3>2. CASE h = g
            <4>1. "store" \in DOMAIN heap'[h] /\ heap'[h].store = new
                BY <2>4, <3>1, <3>2
            <4> QED BY <2>1, <3>1, <3>2, <4>1
        <3>3. CASE h # g
            BY <2>4, <3>1, <3>3
        <3> QED BY <3>2, <3>3
    <2>6. LeasesOnHeap'
        BY <2>2, <2>3, <2>5, LeasesChange
    <2> QED BY <2>2, <2>5, <2>6 DEF StepOf
<1>4. CASE heap' = heap /\ resources' = resources
    BY <1>4 DEF LeasesOnHeap, StepOfNobody
<1>5. ASSUME \/ Receive(c) \/ CheckMaster(c) \/ Redirect(c) \/ LookUpPanics(c) \/ CollectServer(c)
             \/ Respond(c) \/ LockForRelease(c) \/ LookUpLease(c)
      PROVE  heap' = heap /\ resources' = resources
    BY <1>5 DEF Receive, CheckMaster, Redirect, LookUpPanics, CollectServer, Respond,
                LockForRelease, LookUpLease
<1>6. RemoveLease(c) => resources' = resources
    BY DEF RemoveLease
<1> QED BY <1>1, <1>2, <1>3, <1>4, <1>5, <1>6 DEF Handle

(* A reload leaves the stores alone.                                        *)
LEMMA ReloadKeepsStores ==
    ASSUME DOMAIN heap = 1..Len(heap), Reload
    PROVE  /\ heap' = [h \in DOMAIN heap |-> heap'[h]]
           /\ \A h \in 1..Len(heap) :
                 /\ heap'[h].store = heap[h].store
                 /\ "store" \in DOMAIN heap[h] => "store" \in DOMAIN heap'[h]
<1>1. PICK cfg :
        heap' = [h \in DOMAIN heap |->
            LET owners == {id \in DOMAIN resources : resources[id] = h}
            IN  IF owners = {} THEN heap[h]
                ELSE LoadConfig(heap[h], FindConfig(cfg, CHOOSE id \in owners : TRUE), NoExpiry)]
    BY DEF Reload
<1>2. \A x, t, e : "store" \in DOMAIN LoadConfig(x, t, e) /\ LoadConfig(x, t, e).store = x.store
    BY DEF LoadConfig
<1>3. \A h \in 1..Len(heap) : heap'[h] = heap[h] \/ \E t : heap'[h] = LoadConfig(heap[h], t, NoExpiry)
    BY <1>1
<1>4. heap' = [h \in DOMAIN heap |-> heap'[h]]
    BY <1>1
<1> QED BY <1>2, <1>3, <1>4

(* Elections, reloads and time change no lease of a resource.               *)
LEMMA LeasesWorld ==
    ASSUME LeasesOnHeap, BecomeMaster \/ LoseMastership \/ Reload \/ Tick1 \/ Crashed
    PROVE  LeasesOnHeap' /\ StepOfNobody
<1>0. Len(heap) \in Nat /\ DOMAIN heap = 1..Len(heap)
    BY DEF LeasesOnHeap
<1>1. CASE BecomeMaster \/ LoseMastership \/ Crashed
    <2>1. heap' = heap /\ (resources' = resources \/ resources' = <<>>)
        BY <1>1, Zenon DEF BecomeMaster, LoseMastership, Crashed, vars
    <2>2. DOMAIN <<>> = {}
        OBVIOUS
    <2> QED BY <2>1, <2>2 DEF LeasesOnHeap, StepOfNobody
<1>2. CASE Reload
    <2>1. /\ heap' = [h \in DOMAIN heap |-> heap'[h]] /\ resources' = resources
          /\ \A h \in 1..Len(heap) :
                /\ heap'[h].store = heap[h].store
                /\ "store" \in DOMAIN heap[h] => "store" \in DOMAIN heap'[h]
        BY <1>0, <1>2, ReloadKeepsStores DEF Reload
    <2>2. \A h \in 1..Len(heap) : "store" \in DOMAIN heap'[h] /\ HasLeases(heap'[h].store)
        BY <2>1 DEF LeasesOnHeap
    <2>3. LeasesOnHeap'
        BY <2>1, <2>2, LeasesChange
    <2> QED BY <2>1, <2>3 DEF StepOfNobody
<1>3. CASE Tick1
    <2>1. heap' = [h \in DOMAIN heap |-> AgeResource(heap[h])] /\ resources' = resources
        BY <1>3 DEF Tick1
    <2>2. \A h \in 1..Len(heap) : heap'[h] = AgeResource(heap[h])
        BY <1>0, <2>1
    <2>3. ASSUME NEW x, "store" \in DOMAIN x, HasLeases(x.store)
          PROVE  /\ "store" \in DOMAIN AgeResource(x) /\ HasLeases(AgeResource(x).store)
                 /\ \A d \in Clients : Get(AgeResource(x).store, d).has = Get(x.store, d).has
        <3> DEFINE s == AgeStore(x.store)
        <3>1. "store" \in DOMAIN AgeResource(x) /\ AgeResource(x).store = s
            BY DEF AgeResource
        <3>2. /\ "leases" \in DOMAIN s
              /\ s.leases = [d \in DOMAIN x.store.leases |-> AgeLease(x.store.leases[d])]
            BY <2>3 DEF AgeStore, HasLeases
        <3>3. \A d \in DOMAIN x.store.leases :
                 /\ "has" \in DOMAIN AgeLease(x.store.leases[d])
                 /\ AgeLease(x.store.leases[d]).has = x.store.leases[d].has
            BY <2>3 DEF AgeLease, HasLeases
        <3> HIDE DEF s
        <3>4. HasLeases(s)
            BY <3>2, <3>3 DEF HasLeases
        <3>5. \A d \in Clients : Get(s, d).has = Get(x.store, d).has
            BY <3>2, <3>3 DEF Get, HasClient
        <3> QED BY <3>1, <3>4, <3>5
    <2>4. \A h \in 1..Len(heap) :
             /\ "store" \in DOMAIN heap'[h] /\ HasLeases(heap'[h].store)
             /\ \A d \in Clients : Get(heap'[h].store, d).has = Get(heap[h].store, d).has
        BY <2>2, <2>3 DEF LeasesOnHeap
    <2>5. heap' = [h \in DOMAIN heap |-> heap'[h]]
        BY <2>1
    <2>6. LeasesOnHeap'
        BY <2>1, <2>4, <2>5, LeasesChange
    <2> QED BY <2>4, <2>6 DEF StepOfNobody
<1> QED BY <1>1, <1>2, <1>3

(* Whatever RPCs the clients make, releases included, no handler touches    *)
(* the live lease of another client (resource.go:100-114, server.go:718).   *)
THEOREM NobodyTouchesOthers == Spec => LeasesSurviveOthers
<1>1. Init => LeasesOnHeap
    <2> SUFFICES ASSUME Init PROVE LeasesOnHeap
        OBVIOUS
    <2>1. heap = <<>> /\ Len(heap) = 0 /\ DOMAIN resources = {}
        BY DEF Init
    <2> QED BY <2>1 DEF LeasesOnHeap
<1>2. LeasesOnHeap /\ [Next]_vars => LeasesOnHeap'
    <2> SUFFICES ASSUME LeasesOnHeap, [Next]_vars PROVE LeasesOnHeap'
        OBVIOUS
    <2>1. CASE Next
        BY <2>1, LeasesHandler, LeasesWorld DEF Next
    <2>2. CASE UNCHANGED vars
        BY <2>2 DEF vars, LeasesOnHeap
    <2> QED BY <2>1, <2>2
<1>3. LeasesOnHeap /\ [Next]_vars =>
        [\A c \in Clients, id \in DOMAIN resources :
          \/ Open(c)
          \/ id \notin DOMAIN resources' \/ resources'[id] # resources[id]
          \/ Get(heap[resources[id]].store, c).left < 0
          \/ Get(heap[resources[id]].store, c).has = Get(heap'[resources[id]].store, c).has]_vars
    <2> SUFFICES ASSUME LeasesOnHeap, Next, NEW c \in Clients, NEW id \in DOMAIN resources, ~Open(c)
                 PROVE  \/ Get(heap[resources[id]].store, c).left < 0
                        \/ Get(heap[resources[id]].store, c).has = Get(heap'[resources[id]].store, c).has
        OBVIOUS
    <2>1. resources[id] \in 1..Len(heap)
        BY DEF LeasesOnHeap
    <2>2. StepOfNobody \/ \E d \in Clients : StepOf(d) /\ Open(d)
        BY LeasesHandler, LeasesWorld DEF Next
    <2>3. CASE StepOfNobody
        BY <2>1, <2>3 DEF StepOfNobody
    <2>4. ASSUME NEW d \in Clients, StepOf(d), Open(d)
          PROVE  \/ Get(heap[resources[id]].store, c).left < 0
                 \/ Get(heap[resources[id]].store, c).has = Get(heap'[resources[id]].store, c).has
        <3>1. c \in Clients \ {d}
            BY <2>4
        <3> QED BY <2>1, <2>4, <3>1 DEF StepOf, OthersStay
    <2> QED BY <2>2, <2>3, <2>4
<1> QED BY <1>1, <1>2, <1>3, PTL DEF Spec, LeasesSurviveOthers

-----------------------------------------------------------------------------
(* What a response grants is recorded.  A response in the making has looked *)
(* up resources that are still those of the map, since the server keeps its *)
(* map once it is the master; so what it decided for one resource is not    *)
(* overwritten by what it decides for another, and in the first tick of the *)
(* term no lease has expired that a decision could drop.                    *)

\* A request that has just come in has nothing decided.
FreshCalls ==
    \A c \in Clients : calls[c].pc = "received" => calls[c].amounts = <<>> /\ calls[c].handles = <<>>

\* A server that was never the master has answered nobody.
NothingYet ==
    ~isMaster => Len(heap) = 0 /\ \A c \in Clients : calls[c].pc # "serving"

HandlesOfTheMap ==
    \A c \in Clients : calls[c].pc = "serving" =>
        \A id \in DOMAIN calls[c].handles :
            id \in DOMAIN resources /\ resources[id] = calls[c].handles[id]

NoneExpired ==
    age = 0 => \A h \in 1..Len(heap), d \in Clients : Get(heap[h].store, d).left >= 0

RecordedInv == FreshCalls /\ NothingYet /\ HandlesOfTheMap /\ NoneExpired /\ AnswersAreRecorded

(* A decision sets the lease of its client; no other lease that is still    *)
(* live changes.                                                            *)
LEMMA DecideRecords ==
    ASSUME NEW x, GoodResource(x), NEW r, GoodRequest(r), NEW d
    PROVE  /\ Get(Decide(x, r).store, r.client).has = DecidedAmount(x, r)
           /\ Get(Decide(x, r).store, r.client).left >= 0
           /\ d # r.client /\ Get(x.store, d).left >= 0 =>
                 Get(Decide(x, r).store, d) = Get(x.store, d)
<1> DEFINE s == Clean(x.store)
           E == Expired(x.store)
           a == DecidedAmount(x, r)
           n == x.config.leaseLength
<1>1. /\ GoodStore(s) /\ IsStore(s) /\ IsStore(x.store)
      /\ Decide(x, r).store = Assign(s, r.client, a, r.wants, r.subclients, n)
    BY DecideGood DEF GoodStore, GoodResource
<1>2. r.client \in Clients /\ n \in Nat
    BY DEF GoodRequest, Request, GoodResource, IsResource, Template
<1>3. \A e : Get(Decide(x, r).store, e) =
          IF e = r.client THEN [has |-> a, wants |-> r.wants, subclients |-> r.subclients, left |-> n]
                          ELSE Get(s, e)
    <2> HIDE DEF a, n, s
    <2> QED BY <1>1, <1>2, AssignGet
<1>4. Get(s, d) = IF d \in E THEN ZeroLease ELSE Get(x.store, d)
    BY <1>1, ReleaseAllGet DEF Clean
<1>5. Get(x.store, d).left >= 0 => d \notin E
    <2>1. Get(x.store, d) \in Lease
        BY <1>1, GetType
    <2> QED BY <2>1 DEF Expired, Get, HasClient, Lease
<1> HIDE DEF n, s, E
<1> QED BY <1>2, <1>3, <1>4, <1>5

(* A resource that is new has no leases, and those of the others stay.      *)
LEMMA NewHasNoLeases ==
    ASSUME Inv, NEW id \in Resources, GetOrCreate(id), config' = config, NoneExpired, age' = age
    PROVE  NoneExpired'
<1>1. Len(heap) \in Nat /\ HeapOK
    BY DEF Inv, HeapOK
<1>2. CASE heap' = heap
    BY <1>2 DEF NoneExpired
<1>3. CASE heap' = Append(heap, NewResource(FindConfig(config, id), age))
    <2> DEFINE x == NewResource(FindConfig(config, id), age)
    <2>1. FindConfig(config, id) \in Template /\ age \in Int
        BY FindConfigType, BoundsAssumption DEF Inv, NumbersOK
    <2>2. x \in GoodResources
        BY <2>1, NewGood, GoodIn
    <2>3. \A d : Get(x.store, d).left >= 0
        BY DEF NewResource, EmptyStore, Get, HasClient, ZeroLease
    <2> HIDE DEF x
    <2>4. /\ Len(heap') = Len(heap) + 1 /\ heap'[Len(heap) + 1] = x
          /\ \A h \in 1..Len(heap) : heap'[h] = heap[h]
        BY <1>1, <1>3, <2>2, AppendHeap DEF HeapOK, x
    <2>5. \A h \in 1..Len(heap') : h \in 1..Len(heap) \/ h = Len(heap) + 1
        BY <1>1, <2>4
    <2> QED BY <2>3, <2>4, <2>5 DEF NoneExpired
<1> QED BY <1>2, <1>3, GetOrCreateKeeps

(* Composing an item of the response changes neither.                       *)
LEMMA AnsweredCall ==
    ASSUME NEW c, IsCall(calls[c], Len(heap)), NEW id, Answered(c, id)
    PROVE  \E k : /\ calls' = [calls EXCEPT ![c] = k] /\ k.pc = calls[c].pc
                  /\ k.amounts = calls[c].amounts /\ k.handles = calls[c].handles
<1> DEFINE k == [calls[c] EXCEPT !.seen = Append(@, id)]
<1>1. /\ k.pc = calls[c].pc /\ k.amounts = calls[c].amounts /\ k.handles = calls[c].handles
    BY DEF IsCall, Fields
<1>2. calls' = [calls EXCEPT ![c] = k]
    BY DEF Answered
<1> HIDE DEF k
<1> QED BY <1>1, <1>2

(* A server that keeps its map records what its handlers decide.            *)
LEMMA HandlerRecords ==
    ASSUME NoReleases, Inv, Inv', RecordedInv, NEW c \in Clients, Receive(c) \/ Handle(c)
    PROVE  RecordedInv'
<1>0. Len(heap) \in Nat /\ HeapOK /\ CallsOK /\ DOMAIN heap = 1..Len(heap)
    BY DEF Inv, HeapOK
<1>1. calls[c] = Idle \/ IsCall(calls[c], Len(heap))
    BY DEF Inv, CallsOK
<1>2. DOMAIN calls = Clients
    BY DEF Inv, CallsOK
<1>M. isMaster' = isMaster /\ age' = age /\ config' = config
    BY DEF Receive, Handle, CheckMaster, Redirect, Resolve, DecideItem, Collect, LookUpPanics,
           CollectServer, Respond, LockForRelease, LookUpLease, RemoveLease, mastership
\* A step that neither looks anything up nor decides.
<1>3. ASSUME heap' = heap, resources' = resources, NEW k, calls' = [calls EXCEPT ![c] = k],
             k.pc = "received" => k.amounts = <<>> /\ k.handles = <<>>,
             k.pc = "serving" =>
                /\ isMaster
                /\ \/ k.amounts = <<>> /\ k.handles = <<>>
                   \/ calls[c].pc = "serving" /\ k.amounts = calls[c].amounts /\ k.handles = calls[c].handles
      PROVE  RecordedInv'
    <2>1. \A d \in Clients : calls'[d] = IF d = c THEN k ELSE calls[d]
        BY <1>2, <1>3
    <2>2. DOMAIN <<>> = {}
        OBVIOUS
    <2>3. NothingYet'
        BY <1>3, <1>M, <2>1 DEF RecordedInv, NothingYet
    <2>4. HandlesOfTheMap'
        BY <1>3, <2>1, <2>2 DEF RecordedInv, HandlesOfTheMap
    <2>5. NoneExpired'
        BY <1>3, <1>M DEF RecordedInv, NoneExpired
    <2>6. AnswersAreRecorded'
        BY <1>3, <1>M, <2>1, <2>2 DEF RecordedInv, AnswersAreRecorded
    <2>7. FreshCalls'
        BY <1>3, <2>1 DEF RecordedInv, FreshCalls
    <2> QED BY <2>3, <2>4, <2>5, <2>6, <2>7 DEF RecordedInv
<1>4. CASE Receive(c)
    <2>1. PICK k : /\ calls' = [calls EXCEPT ![c] = k]
                   /\ k.pc = "received" /\ k.amounts = <<>> /\ k.handles = <<>>
        <3>1. PICK method \in Methods, ids \in SUBSET Resources, has \in Claims, wants \in Wants,
                   subclients \in SubclientCounts :
                calls' = [calls EXCEPT ![c] =
                    [pc |-> "received", method |-> method, has |-> has, wants |-> wants,
                     subclients |-> subclients, todo |-> ids, handles |-> <<>>, amounts |-> <<>>,
                     seen |-> <<>>]]
            BY <1>4 DEF Receive
        <3> DEFINE k == [pc |-> "received", method |-> method, has |-> has, wants |-> wants,
                         subclients |-> subclients, todo |-> ids, handles |-> <<>>,
                         amounts |-> <<>>, seen |-> <<>>]
        <3>2. k.pc = "received" /\ k.amounts = <<>> /\ k.handles = <<>>
            OBVIOUS
        <3>3. calls' = [calls EXCEPT ![c] = k]
            BY <3>1
        <3> HIDE DEF k
        <3> QED BY <3>2, <3>3
    <2>2. heap' = heap /\ resources' = resources
        BY <1>4 DEF Receive
    <2> QED BY <1>3, <2>1, <2>2
<1>5. CASE CheckMaster(c)
    <2> DEFINE pc == IF ~isMaster THEN "redirect"
                     ELSE IF calls[c].method = "ReleaseCapacity" THEN "lock" ELSE "serving"
               k == [calls[c] EXCEPT !.pc = pc]
    <2>1. calls[c].pc = "received"
        BY <1>5 DEF CheckMaster
    <2>2. k.pc = pc /\ k.amounts = calls[c].amounts /\ k.handles = calls[c].handles
        BY <1>1, <2>1 DEF IsCall, Fields, Idle
    <2>3. calls[c].amounts = <<>> /\ calls[c].handles = <<>>
        BY <2>1 DEF RecordedInv, FreshCalls
    <2>4. calls' = [calls EXCEPT ![c] = k] /\ heap' = heap /\ resources' = resources
        BY <1>5 DEF CheckMaster, Goto
    <2>5. pc = "serving" => isMaster
        OBVIOUS
    <2> HIDE DEF pc, k
    <2> QED BY <1>3, <2>2, <2>3, <2>4, <2>5
<1>6. CASE Redirect(c) \/ Respond(c)
    <2>1. calls' = [calls EXCEPT ![c] = Idle] /\ heap' = heap /\ resources' = resources
        BY <1>6 DEF Redirect, Respond
    <2>2. Idle.pc = "idle"
        BY DEF Idle
    <2> QED BY <1>3, <2>1, <2>2
<1>7. CASE LookUpPanics(c) \/ CollectServer(c)
    <2>1. calls[c].pc = "serving" /\ heap' = heap /\ resources' = resources
        BY <1>7 DEF LookUpPanics, CollectServer
    <2>2. IsCall(calls[c], Len(heap)) /\ isMaster
        BY <1>1, <2>1 DEF Idle, RecordedInv, NothingYet
    <2>3. calls' = calls \/ \E id : Answered(c, id)
        BY <1>7 DEF LookUpPanics, CollectServer
    <2>4. PICK k : /\ calls' = [calls EXCEPT ![c] = k] /\ k.pc = "serving"
                   /\ k.amounts = calls[c].amounts /\ k.handles = calls[c].handles
        <3>1. CASE calls' = calls
            <4>1. calls' = [calls EXCEPT ![c] = calls[c]]
                BY <1>0, <3>1 DEF CallsOK
            <4> QED BY <2>1, <4>1
        <3>2. CASE \E id : Answered(c, id)
            BY <2>1, <2>2, <3>2, AnsweredCall
        <3> QED BY <2>3, <3>1, <3>2
    <2> QED BY <1>3, <2>1, <2>2, <2>4
\* A resource is looked up.
<1>8. ASSUME calls[c].pc = "serving", NEW id \in Resources, GetOrCreate(id),
             NEW k, calls' = [calls EXCEPT ![c] = k], k.pc = "serving", k.amounts = calls[c].amounts,
             \A i \in DOMAIN k.handles :
                \/ i \in DOMAIN calls[c].handles /\ k.handles[i] = calls[c].handles[i]
                \/ i = id /\ k.handles[i] = HandleOf(id),
             DOMAIN calls[c].handles \subseteq DOMAIN k.handles
      PROVE  RecordedInv'
    <2>1. \A d \in Clients : calls'[d] = IF d = c THEN k ELSE calls[d]
        BY <1>2, <1>8
    <2>2. isMaster
        BY <1>8 DEF RecordedInv, NothingYet
    <2>3. \A h \in 1..Len(heap) : heap'[h] = heap[h]
        BY <1>8, <1>M, GetOrCreateKeeps
    <2>4. /\ \A i \in DOMAIN resources : i \in DOMAIN resources' /\ resources'[i] = resources[i]
          /\ id \in DOMAIN resources' /\ resources'[id] = HandleOf(id)
        BY <1>8 DEF GetOrCreate, HandleOf
    <2>5. \A d \in Clients : \A i : calls[d].pc = "serving" /\ i \in DOMAIN calls[d].handles =>
             /\ i \in DOMAIN resources /\ resources[i] = calls[d].handles[i]
             /\ calls[d].handles[i] \in 1..Len(heap)
        BY DEF RecordedInv, HandlesOfTheMap, Inv, MapOK
    <2>6. \A i \in DOMAIN calls[c].handles : k.handles[i] = calls[c].handles[i]
        BY <1>8, <2>4, <2>5
    <2>7. \A d \in Clients : calls[d].pc = "serving" => DOMAIN calls[d].amounts \subseteq DOMAIN calls[d].handles
        BY DEF Inv, CallsOK, IsCall, Idle
    <2>8. FreshCalls' /\ NothingYet'
        BY <1>8, <1>M, <2>1, <2>2 DEF RecordedInv, FreshCalls, NothingYet
    <2>9. HandlesOfTheMap'
        BY <1>8, <2>1, <2>4, <2>5 DEF HandlesOfTheMap
    <2>10. NoneExpired'
        BY <1>8, <1>M, NewHasNoLeases DEF RecordedInv
    <2>11. AnswersAreRecorded'
        <3> SUFFICES ASSUME NEW d \in Clients, calls'[d].pc = "serving",
                            NEW i \in DOMAIN calls'[d].amounts, ~(age > 0)
                     PROVE  Get(heap'[calls'[d].handles[i]].store, d).has = calls'[d].amounts[i]
            BY <1>M DEF AnswersAreRecorded
        <3>1. calls[d].pc = "serving" /\ calls'[d].amounts = calls[d].amounts
            BY <1>8, <2>1
        <3>2. i \in DOMAIN calls[d].handles /\ calls'[d].handles[i] = calls[d].handles[i]
            BY <2>1, <2>6, <2>7, <3>1
        <3>3. heap'[calls[d].handles[i]] = heap[calls[d].handles[i]]
            BY <2>3, <2>5, <3>1, <3>2
        <3>4. Get(heap[calls[d].handles[i]].store, d).has = calls[d].amounts[i]
            BY <3>1 DEF RecordedInv, AnswersAreRecorded
        <3> QED BY <3>1, <3>2, <3>3, <3>4
    <2> QED BY <2>8, <2>9, <2>10, <2>11 DEF RecordedInv
<1>9. CASE Resolve(c)
    <2>1. calls[c].pc = "serving"
        BY <1>9 DEF Resolve
    <2>2. IsCall(calls[c], Len(heap))
        BY <1>1, <2>1 DEF Idle
    <2>3. PICK id \in calls[c].todo :
            /\ GetOrCreate(id)
            /\ calls' = [calls EXCEPT
                ![c].todo = @ \ {id},
                ![c].handles = [r \in DOMAIN @ \cup {id} |-> IF r = id THEN HandleOf(id) ELSE @[r]]]
        BY <1>9 DEF Resolve
    <2> DEFINE k == [calls[c] EXCEPT
                !.todo = @ \ {id},
                !.handles = [r \in DOMAIN @ \cup {id} |-> IF r = id THEN HandleOf(id) ELSE @[r]]]
    <2>4. calls' = [calls EXCEPT ![c] = k] /\ id \in Resources
        BY <2>2, <2>3 DEF IsCall
    <2>5. /\ k.pc = "serving" /\ k.amounts = calls[c].amounts
          /\ k.handles = [r \in DOMAIN calls[c].handles \cup {id} |->
                            IF r = id THEN HandleOf(id) ELSE calls[c].handles[r]]
        BY <2>1, <2>2 DEF IsCall, Fields
    <2> HIDE DEF k
    <2>6. /\ DOMAIN calls[c].handles \subseteq DOMAIN k.handles
          /\ \A i \in DOMAIN k.handles :
                \/ i \in DOMAIN calls[c].handles /\ k.handles[i] = calls[c].handles[i]
                \/ i = id /\ k.handles[i] = HandleOf(id)
        BY <2>5
    <2> QED BY <1>8, <2>1, <2>3, <2>4, <2>5, <2>6
<1>10. CASE Collect(c)
    <2>1. calls[c].pc = "serving"
        BY <1>10 DEF Collect
    <2>2. IsCall(calls[c], Len(heap))
        BY <1>1, <2>1 DEF Idle
    <2>3. PICK id \in Unanswered(c) : GetOrCreate(id) /\ Answered(c, id)
        BY <1>10 DEF Collect
    <2>4. id \in Resources
        BY <2>2, <2>3 DEF Unanswered, IsCall
    <2>5. PICK k : /\ calls' = [calls EXCEPT ![c] = k] /\ k.pc = "serving"
                   /\ k.amounts = calls[c].amounts /\ k.handles = calls[c].handles
        BY <2>1, <2>2, <2>3, AnsweredCall
    <2> QED BY <1>8, <2>1, <2>3, <2>4, <2>5
<1>11. CASE DecideItem(c)
    <2>1. calls[c].pc = "serving"
        BY <1>11 DEF DecideItem
    <2>2. IsCall(calls[c], Len(heap)) /\ isMaster
        BY <1>1, <2>1 DEF Idle, RecordedInv, NothingYet
    <2>3. PICK id \in DOMAIN calls[c].handles :
            /\ heap' = [heap EXCEPT ![calls[c].handles[id]] = Decide(@, Request1(c))]
            /\ calls' = [calls EXCEPT ![c].amounts =
                [r \in DOMAIN @ \cup {id} |->
                    IF r = id THEN DecidedAmount(heap[calls[c].handles[id]], Request1(c)) ELSE @[r]]]
        BY <1>11 DEF DecideItem
    <2> DEFINE g == calls[c].handles[id]
               a == DecidedAmount(heap[g], Request1(c))
               k == [calls[c] EXCEPT !.amounts =
                       [r \in DOMAIN @ \cup {id} |-> IF r = id THEN a ELSE @[r]]]
               y == Decide(heap[g], Request1(c))
    <2>4. g \in 1..Len(heap) /\ resources' = resources
        BY <1>11, <2>2 DEF IsCall, DecideItem
    <2>5. calls' = [calls EXCEPT ![c] = k]
        BY <2>3
    <2>6. \A h \in 1..Len(heap) : heap'[h] = IF h = g THEN y ELSE heap[h]
        BY <1>0, <2>3
    <2>7. Len(heap') = Len(heap)
        BY <2>2, <2>3, <2>4, DecideKeeps
    <2>8. /\ Get(y.store, c).has = a /\ Get(y.store, c).left >= 0
          /\ \A d : d # c /\ Get(heap[g].store, d).left >= 0 => Get(y.store, d) = Get(heap[g].store, d)
        <3>1. GoodResource(heap[g]) /\ GoodRequest(Request1(c))
            BY <1>0, <2>2, <2>4, HeapGood, CallIsGood
        <3>2. Request1(c).client = c
            BY DEF Request1
        <3> HIDE DEF g
        <3> QED BY <3>1, <3>2, DecideRecords
    <2>9. /\ k.pc = "serving" /\ k.handles = calls[c].handles
          /\ k.amounts = [r \in DOMAIN calls[c].amounts \cup {id} |->
                            IF r = id THEN a ELSE calls[c].amounts[r]]
        <3> HIDE DEF a
        <3> QED BY <2>1, <2>2 DEF IsCall, Fields
    <2> HIDE DEF k, a, y
    <2>10. \A d \in Clients : calls'[d] = IF d = c THEN k ELSE calls[d]
        BY <1>2, <2>5
    <2>11. \A d \in Clients : \A i : calls[d].pc = "serving" /\ i \in DOMAIN calls[d].handles =>
             /\ i \in DOMAIN resources /\ resources[i] = calls[d].handles[i]
             /\ calls[d].handles[i] \in 1..Len(heap)
        BY DEF RecordedInv, HandlesOfTheMap, Inv, MapOK
    <2>12. \A d \in Clients : calls[d].pc = "serving" => DOMAIN calls[d].amounts \subseteq DOMAIN calls[d].handles
        BY DEF Inv, CallsOK, IsCall, Idle
    <2>13. FreshCalls' /\ NothingYet'
        BY <1>M, <2>2, <2>9, <2>10 DEF RecordedInv, FreshCalls, NothingYet
    <2>14. HandlesOfTheMap'
        <3>1. \A d \in Clients : calls'[d].pc = "serving" =>
                 calls[d].pc = "serving" /\ calls'[d].handles = calls[d].handles
            BY <2>1, <2>9, <2>10
        <3> HIDE DEF g
        <3> QED BY <2>4, <2>11, <3>1 DEF HandlesOfTheMap
    <2>15. NoneExpired'
        <3> SUFFICES ASSUME age = 0, NEW h \in 1..Len(heap), NEW d \in Clients
                     PROVE  Get(heap'[h].store, d).left >= 0
            BY <1>M, <2>7 DEF NoneExpired
        <3>1. Get(heap[h].store, d).left >= 0 /\ Get(heap[g].store, d).left >= 0
            BY <2>4 DEF RecordedInv, NoneExpired
        <3> HIDE DEF g
        <3> QED BY <2>6, <2>8, <3>1
    <2>16. AnswersAreRecorded'
        <3> SUFFICES ASSUME NEW d \in Clients, calls'[d].pc = "serving",
                            NEW i \in DOMAIN calls'[d].amounts, ~(age > 0)
                     PROVE  Get(heap'[calls'[d].handles[i]].store, d).has = calls'[d].amounts[i]
            BY <1>M DEF AnswersAreRecorded
        <3>0. age = 0
            BY BoundsAssumption DEF Inv, NumbersOK
        <3>1. calls[d].pc = "serving" /\ calls'[d].handles = calls[d].handles
            BY <2>1, <2>9, <2>10
        <3>2. CASE d = c /\ i = id
            <4>1. calls'[d].amounts[i] = a /\ calls'[d].handles[i] = g
                BY <2>9, <2>10, <3>1, <3>2
            <4> HIDE DEF g
            <4> QED BY <2>4, <2>6, <2>8, <3>2, <4>1
        <3>3. CASE ~(d = c /\ i = id)
            <4>1. i \in DOMAIN calls[d].amounts /\ calls'[d].amounts[i] = calls[d].amounts[i]
                BY <2>9, <2>10, <3>3
            <4>2. i \in DOMAIN calls[d].handles /\ calls[d].handles[i] \in 1..Len(heap)
                BY <2>11, <2>12, <3>1, <4>1
            <4>3. Get(heap[calls[d].handles[i]].store, d).has = calls[d].amounts[i]
                BY <3>0, <3>1, <4>1 DEF RecordedInv, AnswersAreRecorded
            <4>4. CASE d = c
                <5>1. calls[c].handles[i] # g
                    BY <2>1, <2>11, <3>3, <4>2, <4>4 DEF Inv, MapOK
                <5> HIDE DEF g
                <5> QED BY <2>6, <3>1, <4>1, <4>2, <4>3, <4>4, <5>1
            <4>5. CASE d # c
                <5>1. Get(heap[g].store, d).left >= 0
                    BY <2>4, <3>0 DEF RecordedInv, NoneExpired
                <5> HIDE DEF g
                <5> QED BY <2>6, <2>8, <3>1, <4>1, <4>2, <4>3, <4>5, <5>1
            <4> QED BY <4>4, <4>5
        <3> QED BY <3>2, <3>3
    <2> QED BY <2>13, <2>14, <2>15, <2>16 DEF RecordedInv
<1>12. ~(LockForRelease(c) \/ LookUpLease(c) \/ RemoveLease(c))
    <2>1. calls[c].pc \in {"idle", "received", "redirect", "serving"}
        BY <1>1 DEF Idle, IsCall
    <2> QED BY <2>1 DEF LockForRelease, LookUpLease, RemoveLease
<1> QED BY <1>4, <1>5, <1>6, <1>7, <1>9, <1>10, <1>11, <1>12 DEF Handle

(* So does the rest of a server that is elected once and for all.           *)
LEMMA WorldRecords ==
    ASSUME FALSE \notin Outcomes, Inv, Inv', RecordedInv,
           BecomeMaster \/ LoseMastership \/ Reload \/ Tick1 \/ Crashed
    PROVE  RecordedInv'
<1>0. Len(heap) \in Nat /\ DOMAIN heap = 1..Len(heap) /\ age \in Nat
    BY BoundsAssumption DEF Inv, HeapOK, NumbersOK
<1>1. CASE BecomeMaster
    <2>1. ~isMaster /\ heap' = heap /\ calls' = calls /\ isMaster'
        BY <1>1, Zenon DEF BecomeMaster
    <2>2. Len(heap) = 0 /\ \A c \in Clients : calls[c].pc # "serving"
        BY <2>1 DEF RecordedInv, NothingYet
    <2> QED
        BY <2>1, <2>2
        DEF RecordedInv, FreshCalls, NothingYet, HandlesOfTheMap, NoneExpired, AnswersAreRecorded
<1>2. ~LoseMastership
    BY DEF LoseMastership
<1>3. ASSUME Reload \/ Tick1 PROVE Len(heap') = Len(heap)
    <2>1. DOMAIN heap' = 1..Len(heap)
        BY <1>0, <1>3 DEF Reload, Tick1
    <2>2. DOMAIN heap' = 1..Len(heap') /\ Len(heap') \in Nat
        BY DEF Inv, HeapOK
    <2> QED BY <1>0, <2>1, <2>2
<1>4. CASE Reload
    <2>1. /\ isMaster' = isMaster /\ age' = age /\ resources' = resources /\ calls' = calls
          /\ \A h \in 1..Len(heap) : heap'[h].store = heap[h].store
        BY <1>0, <1>4, ReloadKeepsStores DEF Reload, mastership
    <2>2. Len(heap') = Len(heap)
        BY <1>3, <1>4
    <2>3. FreshCalls' /\ NothingYet' /\ HandlesOfTheMap' /\ NoneExpired'
        BY <2>1, <2>2 DEF RecordedInv, FreshCalls, NothingYet, HandlesOfTheMap, NoneExpired
    <2>4. AnswersAreRecorded'
        <3>1. ASSUME NEW c \in Clients, calls[c].pc = "serving", NEW id \in DOMAIN calls[c].amounts
              PROVE  heap'[calls[c].handles[id]].store = heap[calls[c].handles[id]].store
            <4>1. calls[c].handles[id] \in 1..Len(heap)
                BY <3>1 DEF Inv, CallsOK, IsCall, Idle
            <4> QED BY <2>1, <4>1
        <3> QED BY <2>1, <3>1 DEF RecordedInv, AnswersAreRecorded
    <2> QED BY <2>3, <2>4 DEF RecordedInv
<1>5. CASE Tick1
    <2>1. age' > 0 /\ age' # 0
        BY <1>0, <1>5 DEF Tick1
    <2>2. isMaster' = isMaster /\ calls' = calls /\ resources' = resources /\ Len(heap') = Len(heap)
        BY <1>3, <1>5 DEF Tick1
    <2> QED
        BY <2>1, <2>2
        DEF RecordedInv, FreshCalls, NothingYet, HandlesOfTheMap, NoneExpired, AnswersAreRecorded
<1>6. CASE Crashed
    BY <1>6 DEF Crashed, vars, RecordedInv, FreshCalls, NothingYet, HandlesOfTheMap, NoneExpired,
                AnswersAreRecorded
<1> QED BY <1>1, <1>2, <1>4, <1>5, <1>6

(* On a server that is elected once and for all, what a response grants is  *)
(* what the store says its client has (server.go:800, resource.go:100-114), *)
(* however many handlers decide in between.                                 *)
THEOREM AnswersStayRecorded ==
    NoReleases /\ FALSE \notin Outcomes => (Spec => []AnswersAreRecorded)
<1> SUFFICES ASSUME NoReleases, FALSE \notin Outcomes PROVE Spec => []AnswersAreRecorded
    OBVIOUS
<1>1. Init => RecordedInv
    <2> SUFFICES ASSUME Init PROVE RecordedInv
        OBVIOUS
    <2>1. heap = <<>> /\ Len(heap) = 0 /\ \A c \in Clients : calls[c].pc = "idle"
        BY DEF Init, Idle
    <2> QED BY <2>1 DEF RecordedInv, FreshCalls, NothingYet, HandlesOfTheMap, NoneExpired,
                        AnswersAreRecorded
<1>2. Inv /\ [Next]_vars => Inv'
    BY InvInductive
<1>3. Inv /\ Inv' /\ RecordedInv /\ [Next]_vars => RecordedInv'
    <2> SUFFICES ASSUME Inv, Inv', RecordedInv, [Next]_vars PROVE RecordedInv'
        OBVIOUS
    <2>1. CASE Next
        BY <2>1, HandlerRecords, WorldRecords DEF Next
    <2>2. CASE UNCHANGED vars
        BY <2>2 DEF vars, RecordedInv, FreshCalls, NothingYet, HandlesOfTheMap, NoneExpired,
                    AnswersAreRecorded
    <2> QED BY <2>1, <2>2
<1>4. RecordedInv => AnswersAreRecorded
    BY DEF RecordedInv
<1> QED BY InitInv, <1>1, <1>2, <1>3, <1>4, PTL DEF Spec

=============================================================================
