---------------------------- MODULE Intermediate ----------------------------
(***************************************************************************)
(* A tree of two servers and one resource: the root (or a lower-level       *)
(* server, as server.go says), an intermediate server that gets its         *)
(* capacity from it with GetServerCapacity, and the leaves, the clients of  *)
(* the intermediate server.                                                 *)
(*                                                                         *)
(* For the root the intermediate server is client 1 and somebody else       *)
(* client 2; the leaves are the clients of the intermediate server.  What   *)
(* performRequests does between its locks is a step: it takes down what the *)
(* leaves want, makes the RPC, and loads the answer as its configuration,   *)
(* while leaves ask, elections are won and lost and time passes.            *)
(***************************************************************************)
EXTENDS Resource, Backoff

CONSTANTS RootTemplates,    \* what the operator may load at the root
          Default,          \* defaultResourceTemplate
          Demands,          \* what the leaves may want, one function each
          OtherWants,       \* what the other client of the root may want
          MinBackoff, MaxBackoff,   \* in tenths of a tick
          MaxRetries,       \* from there on the backoff is the longest one
          MaxEvents         \* how often an RPC is lost while the root is up, the
                            \* intermediate server loses mastership, or the root
                            \* restarts, reloads or goes down: all taken together

ASSUME TreeClients == NumClients >= 2   \* the two clients of the root
ASSUME TreeTemplates == RootTemplates \subseteq Template /\ Default \in Template
ASSUME TreeDemands == Demands \subseteq [Clients -> Nat] /\ OtherWants \subseteq Nat
ASSUME TreeBounds ==
    /\ MinBackoff \in Nat \ {0} /\ MaxBackoff \in Nat \ {0} /\ MaxRetries \in Nat /\ MaxEvents \in Nat
    /\ Backoff(MinBackoff, MaxBackoff, MaxRetries) = MaxBackoff

Mid == 1
Other == 2

VARIABLES root,         \* the root's resource
          rootUp,
          mid,          \* the intermediate's resource, or NoResource
          config,       \* the template its configuration has for the resource
          isMaster, age,
          pc,           \* where run() and performRequests are
          updater,      \* and what they know there
          retries,      \* how often performRequests has failed in a row
          received,     \* what the root's last answer granted, and for how long
          demand,
          leaf,         \* what each leaf was granted last, and for how long
          refreshed,    \* the leaves that have refreshed since the last tick
          losses, elections, changes

serverVars == <<mid, config, isMaster, age>>
updateVars == <<pc, updater, retries, received>>
leafVars == <<demand, leaf, refreshed>>
bounds == <<losses, elections, changes>>
vars == <<root, rootUp, serverVars, updateVars, leafVars, bounds>>

NoResource == [store |-> EmptyStore]
Exists == mid # NoResource

Nothing == [has |-> 0, left |-> -1]
Sleep(n) == pc' = "asleep" /\ updater' = [sleep |-> n]

MayHappen == losses + elections + changes < MaxEvents

Init ==
    /\ \E cfg \in RootTemplates : root = NewResource(cfg, cfg.learning)
    /\ rootUp = TRUE
    /\ mid = NoResource /\ config = Default /\ isMaster = FALSE /\ age = 0
    /\ pc = "asleep" /\ updater = [sleep |-> 1] /\ retries = 0 /\ received = Nothing
    /\ demand \in Demands
    /\ leaf = [c \in Clients |-> Nothing]
    /\ refreshed = {}
    /\ losses = 0 /\ elections = 0 /\ changes = 0

-----------------------------------------------------------------------------
(* The clients. *)

\* getOrCreateResource
MidResource == IF Exists THEN mid ELSE NewResource(config, age)

\* A leaf refreshes; the master among the intermediate servers answers.
LeafAsks(c) ==
    /\ isMaster /\ c \notin refreshed
    /\ LET request == [client |-> c, has |-> IF leaf[c].left < 0 THEN 0 ELSE leaf[c].has,
                       wants |-> demand[c], subclients |-> 1]
       IN  /\ mid' = Decide(MidResource, request)
           /\ leaf' = [leaf EXCEPT ![c] = [has  |-> DecidedAmount(MidResource, request),
                                           left |-> MidResource.config.leaseLength]]
    /\ refreshed' = refreshed \cup {c}
    /\ UNCHANGED <<root, rootUp, config, isMaster, age, updateVars, demand, bounds>>

OtherAsks ==
    /\ rootUp
    /\ \E wants \in OtherWants :
          root' = Decide(root, [client |-> Other, has |-> Get(root.store, Other).has,
                                wants |-> wants, subclients |-> 1])
    /\ root' # root
    /\ UNCHANGED <<rootUp, serverVars, updateVars, leafVars, bounds>>

-----------------------------------------------------------------------------
(* performRequests *)

\* Mutant of Wake: what the leaves have is asked for, not what they want.
WakeForHeld ==
    /\ pc = "asleep" /\ updater.sleep = 0 /\ pc' = "calling"
    /\ updater' = [asked |-> Exists /\ mid.store.sumWants > 0,
                   wants |-> mid.store.sumHas, subclients |-> mid.store.count]
    /\ UNCHANGED <<root, rootUp, serverVars, retries, received, leafVars, bounds>>

\* Resources nobody wants are not asked for; "*" is asked for if there are none.
Wake ==
    /\ pc = "asleep" /\ updater.sleep = 0 /\ pc' = "calling"
    /\ updater' = [asked |-> Exists /\ mid.store.sumWants > 0,
                  wants |-> mid.store.sumWants, subclients |-> mid.store.count]
    /\ UNCHANGED <<root, rootUp, serverVars, retries, received, leafVars, bounds>>

\* GetServerCapacity at the root.  The request does not say what the
\* intermediate server has.
RootAnswers ==
    /\ pc = "calling" /\ rootUp /\ pc' = "answered"
    /\ LET request == [client |-> Mid, has |-> 0, wants |-> updater.wants,
                       subclients |-> updater.subclients]
       IN  IF updater.asked
           THEN /\ root' = Decide(root, request)
                /\ updater' = [asked |-> TRUE,
                               template |-> [root.config EXCEPT !.capacity = DecidedAmount(root, request)]]
           ELSE /\ updater' = [asked |-> FALSE]
                /\ UNCHANGED root
    /\ UNCHANGED <<rootUp, serverVars, retries, received, leafVars, bounds>>

\* In whole ticks: the loop goes on with the first one after its time.
Pause == (Backoff(MinBackoff, MaxBackoff, retries) + 9) \div 10

\* The request or its answer is lost, or the root is down.
RPCFails ==
    /\ \/ pc = "calling" /\ ~rootUp /\ UNCHANGED losses
       \/ pc \in {"calling", "answered"} /\ MayHappen /\ losses' = losses + 1
    /\ Sleep(Pause)
    /\ retries' = IF retries < MaxRetries THEN retries + 1 ELSE retries
    /\ UNCHANGED <<root, rootUp, serverVars, received, leafVars, elections, changes>>

\* The answer, unless the resource is gone meanwhile.
Known == updater.asked /\ Exists

\* Mutant of Apply: the capacity is loaded without its expiry.
ApplyForEver ==
    /\ pc = "answered"
    /\ config' = IF Known THEN updater.template ELSE Default
    /\ mid' = IF Exists THEN LoadConfig(mid, config', NoExpiry) ELSE mid
    /\ received' = IF Known THEN [has |-> updater.template.capacity, left |-> updater.template.leaseLength]
                   ELSE received
    /\ Sleep(1) /\ retries' = 0
    /\ UNCHANGED <<root, rootUp, isMaster, age, leafVars, bounds>>

\* Server.LoadConfig with a template for the resource, if it was answered, and
\* the default for everything else.
Apply ==
    /\ pc = "answered"
    /\ config' = IF Known THEN updater.template ELSE Default
    /\ mid' = IF Exists
              THEN LoadConfig(mid, config', IF Known THEN ExpiresIn(updater.template.leaseLength) ELSE NoExpiry)
              ELSE mid
    /\ received' = IF Known THEN [has |-> updater.template.capacity, left |-> updater.template.leaseLength]
                   ELSE received
    /\ Sleep(1) /\ retries' = 0
    /\ UNCHANGED <<root, rootUp, isMaster, age, leafVars, bounds>>

-----------------------------------------------------------------------------
(* Elections, the root, and time. *)

BecomeMaster ==
    /\ ~isMaster
    /\ isMaster' = TRUE /\ age' = 0 /\ mid' = NoResource
    /\ UNCHANGED <<root, rootUp, config, updateVars, leafVars, bounds>>

\* Mutant of LoseMastership: the map of resources is kept.
LoseMastershipOnly ==
    /\ isMaster /\ MayHappen
    /\ isMaster' = FALSE /\ age' = 0 /\ elections' = elections + 1
    /\ refreshed' = {}
    /\ UNCHANGED <<root, rootUp, mid, config, updateVars, demand, leaf, losses, changes>>

LoseMastership ==
    /\ isMaster /\ MayHappen
    /\ isMaster' = FALSE /\ age' = 0 /\ mid' = NoResource /\ elections' = elections + 1
    /\ refreshed' = {}
    /\ UNCHANGED <<root, rootUp, config, updateVars, demand, leaf, losses, changes>>

\* Another root takes over, the operator loads a template, or the root is
\* beyond reach for a while.
RootChanges ==
    /\ MayHappen /\ changes' = changes + 1
    /\ \/ root' = NewResource(root.config, 0) /\ UNCHANGED rootUp
       \/ /\ \E cfg \in RootTemplates \ {root.config} : root' = LoadConfig(root, cfg, NoExpiry)
          /\ UNCHANGED rootUp
       \/ rootUp /\ rootUp' = FALSE /\ UNCHANGED root
    /\ UNCHANGED <<serverVars, updateVars, leafVars, losses, elections>>

RootReturns ==
    /\ ~rootUp /\ rootUp' = TRUE
    /\ UNCHANGED <<root, serverVars, updateVars, leafVars, bounds>>

AgeHeld(h) == IF h.left <= 0 THEN Nothing ELSE [h EXCEPT !.left = @ - 1]

\* Leaves refresh once a tick while there is somebody to answer, and the loop
\* of the intermediate server wakes up in time.  A tick is as long as a refresh
\* interval: an RPC that takes that long is as good as lost.
TimeMayPass ==
    /\ isMaster => refreshed = Clients
    /\ pc = "asleep" /\ updater.sleep > 0

ClockTick ==
    /\ TimeMayPass
    /\ root' = AgeResource(root)
    /\ mid' = IF Exists THEN AgeResource(mid) ELSE mid
    /\ age' = IF isMaster /\ age < Default.learning THEN age + 1 ELSE age
    /\ updater' = [sleep |-> updater.sleep - 1]
    /\ received' = AgeHeld(received)
    /\ leaf' = [c \in Clients |-> AgeHeld(leaf[c])]
    /\ refreshed' = {}
    /\ UNCHANGED <<rootUp, config, isMaster, pc, retries, demand, bounds>>

Update == Wake \/ RootAnswers \/ Apply \/ RPCFails

Next ==
    \/ \E c \in Clients : LeafAsks(c)
    \/ OtherAsks \/ Update \/ BecomeMaster \/ LoseMastership \/ RootChanges \/ RootReturns \/ ClockTick

\* Leaves and the loop keep running, RPCs end, the election has a winner, and
\* time passes while there is a master.  The root need not return.  Fairness is
\* stated of the variables that show such a step: only LeafAsks enlarges
\* `refreshed', only performRequests moves `pc', and only a tick, or the loss
\* of mastership, empties `refreshed' again.
Moves(from, to) == pc = from /\ pc' = to

Fairness ==
    /\ \A c \in Clients :
          WF_refreshed(isMaster /\ c \notin refreshed /\ refreshed' = refreshed \cup {c})
    /\ WF_refreshed(isMaster /\ TimeMayPass /\ refreshed' = {})
    /\ WF_pc(pc = "asleep" /\ updater.sleep = 0 /\ Moves("asleep", "calling"))
    /\ WF_pc(rootUp /\ Moves("calling", "answered"))
    /\ WF_pc(~rootUp /\ Moves("calling", "asleep"))
    /\ WF_pc(Moves("answered", "asleep"))
    /\ WF_isMaster(~isMaster /\ isMaster' = TRUE)

Spec == Init /\ [][Next]_vars /\ Fairness

-----------------------------------------------------------------------------
(* The stores of both servers are right, and what the leaves were granted   *)
(* is what the intermediate server has recorded since it became master.     *)
TypeOK ==
    /\ IsResource(root) /\ SumsMatch(root.store)
    /\ Exists => /\ isMaster
                 /\ IsStore(mid.store) /\ SumsMatch(mid.store)
                 /\ mid.config = config
    /\ pc \in {"asleep", "calling", "answered"}
    /\ \A c \in refreshed : leaf[c].has = Get(mid.store, c).has

(* Whenever an intermediate server that is not learning grants anything,    *)
(* its leaves together hold no more than its parent granted it in an answer *)
(* that has not expired -- unless it was elected again since: the           *)
(* configuration then still has that capacity, and no expiry any more.      *)
LeavesWithinGrant ==
    [][\A c \in Clients : c \in refreshed' \ refreshed =>
          \/ HasOf(mid'.store, Clients) <= IF received.left < 0 THEN 0 ELSE received.has
          \/ InLearningMode(MidResource)
          \/ elections > 0]_vars

(* Demand that fits into the capacity of the root reaches it, and the       *)
(* leaves get what they want and keep it, whatever RPCs, masterships and    *)
(* roots were lost before.                                                  *)
LeavesAreServed ==
    <>[](rootUp /\ Sum(demand, NumClients) <= root.config.capacity)
        => <>[](\A c \in Clients : leaf[c].has = demand[c])

(* When the root is gone for good, the capacity it granted runs out, and no *)
(* leaf keeps any of it.                                                    *)
CapacityIsWithdrawn ==
    <>[](~rootUp /\ elections = 0) => <>[](\A c \in Clients : leaf[c].has <= 0)

(* The same without the exemption, which is what "expiryTime is the         *)
(* expiration time for this resource" promises of any resource of a         *)
(* lower-level server.  The code does not keep it: see the findings.        *)
CapacityIsWithdrawnAlways ==
    <>[](~rootUp) => <>[](\A c \in Clients : leaf[c].has <= 0)

=============================================================================
