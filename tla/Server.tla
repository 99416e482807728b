------------------------------- MODULE Server -------------------------------
(***************************************************************************)
(* One doorman server (server.go): its map of resources, the RPC handlers   *)
(* that run concurrently on it, the election outcomes that replace the map, *)
(* and the reloads of its configuration.                                    *)
(*                                                                         *)
(* The critical sections of server.mu and of a resource's lock are atomic;  *)
(* between them handlers interleave.  Two pieces of code do without the     *)
(* lock they need, and are modelled in the steps they take: ReleaseCapacity *)
(* holds the server's lock, for reading, but not the resource's, while it   *)
(* changes the store; and GetServerCapacity reads the map of resources      *)
(* without any lock when it composes its response.                          *)
(*                                                                         *)
(* Every client has at most one RPC in progress (its loop is sequential).   *)
(* Resources live on a heap: a handler keeps the resource it looked up even *)
(* when the map has been replaced in the meantime.                          *)
(***************************************************************************)
EXTENDS Resource, FiniteSets, Sequences

CONSTANTS Resources,        \* resource ids
          Configs,          \* the configurations an operator may load
          Methods,          \* the RPCs clients make
          Wants, Claims,    \* what they ask for, and say they have
          SubclientCounts,  \* how many subclients a lower server speaks for
          Outcomes,         \* what the election may broadcast: {TRUE} if it is the trivial one
          MaxTerms,         \* how often this server may become master
          MaxAge,           \* how many ticks a term is observed for
          MaxRaces          \* how often a release may race with a decision

RPCs == {"GetCapacity", "GetServerCapacity", "ReleaseCapacity"}

\* A configuration is a list of templates, each with what its glob matches;
\* the last one matches everything (validateResourceRepository).
IsConfig(config) ==
    /\ Len(config) \in Nat \ {0}
    /\ \A i \in 1..Len(config) :
          config[i] = [glob |-> config[i].glob, matches |-> config[i].matches,
                       template |-> config[i].template]
          /\ config[i].matches \subseteq Resources
          /\ config[i].template \in Template
    /\ config[Len(config)].matches = Resources

ASSUME ConfigsAssumption == \A config \in Configs : IsConfig(config)
ASSUME MethodsAssumption == Methods \subseteq RPCs
ASSUME AmountsAssumption == Wants \subseteq Nat /\ Claims \subseteq Int
ASSUME CountsAssumption == SubclientCounts \subseteq Nat \ {0}
ASSUME BoundsAssumption == Outcomes \subseteq BOOLEAN /\ MaxTerms \in Nat /\ MaxAge \in Nat
                            /\ MaxRaces \in Nat

VARIABLES isMaster,
          age,          \* ticks since becameMasterAt
          terms,        \* how often the server became master
          resources,    \* the map from ids to handles
          nilMap,       \* whether that map is nil
          heap,         \* the resources, by handle
          config,
          calls,        \* the RPC in progress of each client
          races,        \* how often a release raced with a decision
          crash         \* what brought the process down

vars == <<isMaster, age, terms, resources, nilMap, heap, config, calls, races, crash>>
mastership == <<isMaster, age, terms>>

-----------------------------------------------------------------------------
\* A literal match comes first, then the first glob that matches.
FindConfig(cfg, id) ==
    LET literal == {i \in 1..Len(cfg) : cfg[i].glob = id}
        globbed == {i \in 1..Len(cfg) : id \in cfg[i].matches}
        First(S) == CHOOSE i \in S : \A j \in S : i <= j
    IN  cfg[First(IF literal # {} THEN literal ELSE globbed)].template

Idle == [pc |-> "idle"]

\* Some client's lease of this resource is being released.
MidRelease(h) ==
    \E c \in Clients : calls[c].pc = "releasing" /\ calls[c].seen # <<>> /\ resources[calls[c].seen[1]] = h

\* The bound on the races: the store is left alone meanwhile once it is reached.
MayTouch(h) == races < MaxRaces \/ ~MidRelease(h)

Request1(c) ==
    [client |-> c, has |-> calls[c].has, wants |-> calls[c].wants, subclients |-> calls[c].subclients]

\* ReleaseCapacity holds the read lock of server.mu until it returns.
ReadLocked == \E c \in Clients : calls[c].pc = "releasing"

Running == crash = "none"

Goto(c, pc) == calls' = [calls EXCEPT ![c].pc = pc]

Init ==
    /\ isMaster = FALSE /\ age = 0 /\ terms = 0
    /\ resources = <<>> /\ nilMap = FALSE /\ heap = <<>>
    /\ config \in Configs
    /\ calls = [c \in Clients |-> Idle]
    /\ races = 0
    /\ crash = "none"

-----------------------------------------------------------------------------
(* The handlers. *)

\* A request arrives.
Receive(c) ==
    /\ calls[c].pc = "idle"
    /\ \E method \in Methods, ids \in (SUBSET Resources) \ {{}},
          has \in Claims, wants \in Wants, subclients \in SubclientCounts :
          /\ method # "GetServerCapacity" => subclients = 1
          /\ calls' = [calls EXCEPT ![c] =
                [pc |-> "received", method |-> method, has |-> has, wants |-> wants,
                 subclients |-> subclients, todo |-> ids, handles |-> <<>>, amounts |-> <<>>,
                 seen |-> <<>>]]
    /\ UNCHANGED <<mastership, resources, nilMap, heap, config, crash, races>>

\* IsMaster(): the read lock is taken and given back at once.
CheckMaster(c) ==
    /\ calls[c].pc = "received"
    /\ Goto(c, IF ~isMaster THEN "redirect"
               ELSE IF calls[c].method = "ReleaseCapacity" THEN "lock" ELSE "serving")
    /\ UNCHANGED <<mastership, resources, nilMap, heap, config, crash, races>>

\* The response says who the master is, if that is known.
Redirect(c) ==
    /\ calls[c].pc = "redirect"
    /\ calls' = [calls EXCEPT ![c] = Idle]
    /\ UNCHANGED <<mastership, resources, nilMap, heap, config, crash, races>>

\* getOrCreateResource, and what it returns.
GetOrCreate(id) ==
    /\ ~ReadLocked
    /\ \/ /\ id \in DOMAIN resources
          /\ UNCHANGED <<resources, heap>>
       \/ /\ id \notin DOMAIN resources /\ ~nilMap
          /\ heap' = Append(heap, NewResource(FindConfig(config, id), age))
          /\ resources' = [r \in DOMAIN resources \cup {id} |->
                             IF r = id THEN Len(heap) + 1 ELSE resources[r]]

\* Mutant of HandleOf: a resource that is there is not found.
HandleOfNew(id) == Len(heap) + 1

HandleOf(id) == IF id \in DOMAIN resources THEN resources[id] ELSE Len(heap) + 1

\* getCapacity looks up one resource after the other.
Resolve(c) ==
    /\ calls[c].pc = "serving"
    /\ \E id \in calls[c].todo :
          /\ GetOrCreate(id)
          /\ calls' = [calls EXCEPT
                ![c].todo = @ \ {id},
                ![c].handles = [r \in DOMAIN @ \cup {id} |-> IF r = id THEN HandleOf(id) ELSE @[r]]]
    /\ UNCHANGED <<mastership, nilMap, config, crash, races>>

\* Mutant of DecideItem: the response says what was asked for.
DecideItemWants(c) ==
    /\ calls[c].pc = "serving"
    /\ \E id \in DOMAIN calls[c].handles \ DOMAIN calls[c].amounts :
          /\ MayTouch(calls[c].handles[id])
          /\ heap' = [heap EXCEPT ![calls[c].handles[id]] = Decide(@, Request1(c))]
          /\ calls' = [calls EXCEPT ![c].amounts =
                [r \in DOMAIN @ \cup {id} |-> IF r = id THEN calls[c].wants ELSE @[r]]]
    /\ UNCHANGED <<mastership, resources, nilMap, config, crash, races>>

\* The goroutine for one resource decides, under that resource's lock alone.
DecideItem(c) ==
    /\ calls[c].pc = "serving"
    /\ \E id \in DOMAIN calls[c].handles \ DOMAIN calls[c].amounts :
          LET h == calls[c].handles[id] IN
          /\ MayTouch(h)
          /\ heap' = [heap EXCEPT ![h] = Decide(@, Request1(c))]
          /\ calls' = [calls EXCEPT ![c].amounts =
                [r \in DOMAIN @ \cup {id} |->
                    IF r = id THEN DecidedAmount(heap[h], Request1(c)) ELSE @[r]]]
    /\ UNCHANGED <<mastership, resources, nilMap, config, crash, races>>

\* One item of the response is composed.
Answered(c, id) == calls' = [calls EXCEPT ![c].seen = Append(@, id)]

Unanswered(c) == {id \in DOMAIN calls[c].amounts : \A i \in 1..Len(calls[c].seen) : calls[c].seen[i] # id}

\* GetCapacity looks the resource up again, and creates it if it is gone, for
\* its safe capacity.
Collect(c) ==
    /\ calls[c].pc = "serving" /\ calls[c].todo = {} /\ calls[c].method = "GetCapacity"
    /\ \E id \in Unanswered(c) : GetOrCreate(id) /\ Answered(c, id)
    /\ UNCHANGED <<mastership, nilMap, config, crash, races>>

\* getOrCreateResource panics when mastership, and with it the map, was lost
\* after the handler had checked for it.
LookUpPanics(c) ==
    /\ calls[c].pc = "serving" /\ nilMap /\ ~ReadLocked
    /\ \/ calls[c].todo # {}
       \/ calls[c].method = "GetCapacity" /\ Unanswered(c) # {}
    /\ crash' = "assignment to entry in nil map"
    /\ UNCHANGED <<mastership, resources, nilMap, heap, config, calls, races>>

\* Some handler may be writing to the map at this moment.
MapIsWritten ==
    /\ ~nilMap /\ ~ReadLocked
    /\ \E c \in Clients : /\ calls[c].pc = "serving"
                          /\ calls[c].todo \ DOMAIN resources # {}

\* GetServerCapacity reads the map without a lock: the runtime stops the
\* process if someone writes to the map meanwhile.
CollectServer(c) ==
    /\ calls[c].pc = "serving" /\ calls[c].todo = {} /\ calls[c].method = "GetServerCapacity"
    /\ \E id \in Unanswered(c) :
          \/ /\ id \in DOMAIN resources
             /\ Answered(c, id)
             /\ UNCHANGED crash
          \/ /\ id \notin DOMAIN resources
             /\ crash' = "nil pointer dereference"
             /\ UNCHANGED calls
          \/ /\ MapIsWritten
             /\ crash' = "concurrent map read and map write"
             /\ UNCHANGED calls
    /\ UNCHANGED <<mastership, resources, nilMap, heap, config, races>>

\* Mutant of Respond: the complete response is never returned.
RespondNever(c) ==
    /\ \/ /\ calls[c].pc = "serving" /\ calls[c].todo = {}
          /\ DOMAIN calls[c].amounts = DOMAIN calls[c].handles /\ Unanswered(c) = {}
       \/ /\ calls[c].pc = "releasing" /\ calls[c].todo = {}
    /\ UNCHANGED vars

\* The response is complete.
Respond(c) ==
    /\ \/ /\ calls[c].pc = "serving" /\ calls[c].todo = {}
          /\ DOMAIN calls[c].amounts = DOMAIN calls[c].handles /\ Unanswered(c) = {}
       \/ /\ calls[c].pc = "releasing" /\ calls[c].todo = {}
    /\ calls' = [calls EXCEPT ![c] = Idle]
    /\ UNCHANGED <<mastership, resources, nilMap, heap, config, crash, races>>

-----------------------------------------------------------------------------
(* ReleaseCapacity. *)

LockForRelease(c) ==
    /\ calls[c].pc = "lock"
    /\ Goto(c, "releasing")
    /\ UNCHANGED <<mastership, resources, nilMap, heap, config, crash, races>>

\* Release(client) begins: the lease is looked up, and the sums are read.
LookUpLease(c) ==
    /\ calls[c].pc = "releasing" /\ calls[c].seen = <<>>
    /\ \E id \in calls[c].todo :
          /\ id \in DOMAIN resources => MayTouch(resources[id])
          /\ calls' = IF id \in DOMAIN resources /\ HasClient(heap[resources[id]].store, c)
                      THEN [calls EXCEPT ![c].seen = <<id, heap[resources[id]].store>>]
                      ELSE [calls EXCEPT ![c].todo = @ \ {id}]
    /\ UNCHANGED <<mastership, resources, nilMap, heap, config, crash, races>>

\* What a racing x -= d may leave in x: its own result over what it read, over
\* what is there now, or the other one's.
Raced(read, now, d) == {read - d, now - d, now}

\* Mutant of RemoveLease: the map that was read before is written back.
RemoveLeaseFromCopy(c) ==
    /\ calls[c].pc = "releasing" /\ calls[c].seen # <<>>
    /\ heap' = [heap EXCEPT ![resources[calls[c].seen[1]]].store = Release(calls[c].seen[2], c)]
    /\ calls' = [calls EXCEPT ![c].seen = <<>>, ![c].todo = @ \ {calls[c].seen[1]}]
    /\ UNCHANGED <<mastership, resources, nilMap, config, races, crash>>

\* Release(client) ends: the sums are written and the lease is deleted.  A
\* decision that came in between races with it.
RemoveLease(c) ==
    /\ calls[c].pc = "releasing" /\ calls[c].seen # <<>>
    /\ LET id == calls[c].seen[1]
           before == calls[c].seen[2]
           h == resources[id]
           now == heap[h].store
           lease == before.leases[c]
       IN  \/ /\ heap' = [heap EXCEPT ![h].store = Release(now, c)]
              /\ now = before
              /\ calls' = [calls EXCEPT ![c].seen = <<>>, ![c].todo = @ \ {id}]
              /\ UNCHANGED <<races, crash>>
           \/ /\ now # before
              /\ \E sumHas \in Raced(before.sumHas, now.sumHas, lease.has),
                    sumWants \in Raced(before.sumWants, now.sumWants, lease.wants),
                    count \in Raced(before.count, now.count, lease.subclients) :
                    heap' = [heap EXCEPT ![h].store =
                        [leases |-> [d \in DOMAIN now.leases \ {c} |-> now.leases[d]],
                         sumHas |-> sumHas, sumWants |-> sumWants, count |-> count]]
              /\ calls' = [calls EXCEPT ![c].seen = <<>>, ![c].todo = @ \ {id}]
              /\ races' = races + 1
              /\ UNCHANGED crash
           \/ /\ now # before
              /\ crash' = "concurrent map writes"
              /\ UNCHANGED <<heap, calls, races>>
    /\ UNCHANGED <<mastership, resources, nilMap, config>>

-----------------------------------------------------------------------------
(* Elections, reloads and time. *)

\* Mutant of BecomeMaster: the new master is left without a map.
BecomeMasterNoMap ==
    /\ TRUE \in Outcomes /\ ~isMaster /\ terms < MaxTerms /\ ~ReadLocked
    /\ isMaster' = TRUE /\ age' = 0 /\ terms' = terms + 1
    /\ resources' = <<>> /\ nilMap' = TRUE
    /\ UNCHANGED <<heap, config, calls, crash, races>>

\* handleElectionOutcome
BecomeMaster ==
    /\ TRUE \in Outcomes /\ ~isMaster /\ terms < MaxTerms /\ ~ReadLocked
    /\ isMaster' = TRUE /\ age' = 0 /\ terms' = terms + 1
    /\ resources' = <<>> /\ nilMap' = FALSE
    /\ UNCHANGED <<heap, config, calls, crash, races>>

LoseMastership ==
    /\ FALSE \in Outcomes /\ isMaster /\ ~ReadLocked
    /\ isMaster' = FALSE /\ age' = 0
    /\ resources' = <<>> /\ nilMap' = TRUE
    /\ UNCHANGED <<terms, heap, config, calls, crash, races>>

\* Mutant of Reload: the resources there are keep their old templates.
ReloadForNewOnly ==
    /\ ~ReadLocked
    /\ \E cfg \in Configs \ {config} : config' = cfg
    /\ UNCHANGED <<mastership, resources, nilMap, heap, calls, crash, races>>

\* Server.LoadConfig on a configured server.
Reload ==
    /\ ~ReadLocked
    /\ \E cfg \in Configs \ {config} :
          /\ config' = cfg
          /\ heap' = [h \in DOMAIN heap |->
                LET owners == {id \in DOMAIN resources : resources[id] = h}
                IN  IF owners = {} THEN heap[h]
                    ELSE LoadConfig(heap[h], FindConfig(cfg, CHOOSE id \in owners : TRUE), NoExpiry)]
    /\ UNCHANGED <<mastership, resources, nilMap, calls, crash, races>>

Tick1 ==
    /\ age < MaxAge
    /\ age' = age + 1
    /\ heap' = [h \in DOMAIN heap |-> AgeResource(heap[h])]
    /\ UNCHANGED <<isMaster, terms, resources, nilMap, config, calls, crash, races>>

Handle(c) ==
    \/ CheckMaster(c) \/ Redirect(c) \/ Resolve(c) \/ DecideItem(c) \/ Collect(c)
    \/ LookUpPanics(c) \/ CollectServer(c) \/ Respond(c) \/ LockForRelease(c) \/ LookUpLease(c) \/ RemoveLease(c)

\* A process that has crashed is gone for good.
Crashed == ~Running /\ UNCHANGED vars

Next ==
    \/ Running /\ \E c \in Clients : Receive(c) \/ Handle(c)
    \/ Running /\ (BecomeMaster \/ LoseMastership \/ Reload \/ Tick1)
    \/ Crashed

\* Go runs every goroutine, and its lock lets no new reader overtake a waiting
\* writer: a handler that can go on again and again does go on.
HandlersGoOn == \A c \in Clients : SF_vars(Running /\ Handle(c))

Spec == Init /\ [][Next]_vars /\ HandlersGoOn

-----------------------------------------------------------------------------
Open(c) == calls[c].pc \in {"serving", "releasing"}

(* The heap holds resources, the map and the handlers hold handles to them. *)
TypeOK ==
    /\ isMaster \in BOOLEAN /\ nilMap \in BOOLEAN
    /\ age \in 0..MaxAge /\ terms \in 0..MaxTerms /\ races \in 0..(MaxRaces + Cardinality(Clients))
    /\ config \in Configs
    /\ \A h \in 1..Len(heap) : IsResource(heap[h])
    /\ DOMAIN resources \subseteq Resources
    /\ \A id \in DOMAIN resources : resources[id] \in 1..Len(heap)
    /\ \A c \in Clients : Open(c) =>
          /\ calls[c].todo \subseteq Resources
          /\ DOMAIN calls[c].amounts \subseteq DOMAIN calls[c].handles
          /\ \A id \in DOMAIN calls[c].handles : calls[c].handles[id] \in 1..Len(heap)
    /\ isMaster => ~nilMap

(* Nothing brings the process down: a server that is not the master         *)
(* redirects the client (server.go:757, 838), and the lock guards all of    *)
(* its properties (server.go:133).                                          *)
NeverPanics == Running

(* Every resource has the template the configuration gives it, whether it   *)
(* was created before a reload, after it, or by a request that overlapped   *)
(* with it.                                                                 *)
ConfigInForce == \A id \in DOMAIN resources : heap[resources[id]].config = FindConfig(config, id)

(* The running sums of every resource are those of its leases, whatever     *)
(* handlers worked on it at the same time (resource.go:40: the mutex guards *)
(* the store).                                                              *)
SumsMatchEverywhere == \A h \in 1..Len(heap) : SumsMatch(heap[h].store)

(* What a response in the making grants its client is what the store says   *)
(* the client has, as long as no time passes for the lease to expire.       *)
AnswersAreRecorded ==
    \A c \in Clients : calls[c].pc = "serving" =>
        \A id \in DOMAIN calls[c].amounts :
            age > 0 \/ Get(heap[calls[c].handles[id]].store, c).has = calls[c].amounts[id]

(* Concurrent requests do not overcommit a resource of a server that shares *)
(* it and whose capacity does not change.                                   *)
NobodyOvercommits ==
    \A h \in 1..Len(heap) : HasOf(heap[h].store, Clients) <= heap[h].config.capacity

(* No handler touches the lease of another client: on a resource the server *)
(* keeps, a live lease only changes while its own client has an RPC open.   *)
LeasesSurviveOthers ==
    [][\A c \in Clients, id \in DOMAIN resources :
          \/ Open(c)
          \/ id \notin DOMAIN resources' \/ resources'[id] # resources[id]
          \/ Get(heap[resources[id]].store, c).left < 0
          \/ Get(heap[resources[id]].store, c).has = Get(heap'[resources[id]].store, c).has]_vars

(* Every RPC is answered, unless the process dies: handlers wait for locks, *)
(* never for each other.                                                    *)
CallsComplete == \A c \in Clients : calls[c].pc # "idle" ~> (calls[c].pc = "idle" \/ ~Running)

=============================================================================
