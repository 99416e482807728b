--------------------------- MODULE SharedResource ---------------------------
(***************************************************************************)
(* One resource of a master, shared by clients that ask, refresh, stay      *)
(* silent and release in any order, while the configuration is reloaded     *)
(* and the clock ticks.                                                     *)
(***************************************************************************)
EXTENDS Resource

CONSTANTS Templates,    \* the templates an operator may load
          Expiries,     \* the capacity expiries a reload may bring
          Ages,         \* how long the server may have been master already
          Wants,        \* what a client may ask for
          Claims,       \* what a client may say that it has
          SubclientCounts

ASSUME TemplatesAssumption == Templates \subseteq Template
ASSUME ExpiriesAssumption == Expiries \subseteq Expiry
ASSUME AgesAssumption == Ages \subseteq Nat
ASSUME WantsAssumption == Wants \subseteq Nat
ASSUME ClaimsAssumption == Claims \subseteq Int
ASSUME SubclientsAssumption == SubclientCounts \subseteq Nat \ {0}

VARIABLE res

vars == <<res>>

Requests == [client : Clients, has : Claims, wants : Wants, subclients : SubclientCounts]

Init == \E cfg \in Templates, age \in Ages : res = NewResource(cfg, age)

DecideFor(r) == res' = Decide(res, r)

ReleaseCapacity(c) == res' = ReleaseClient(res, c)

Reload == \E cfg \in Templates, expiry \in Expiries : res' = LoadConfig(res, cfg, expiry)

ClockTick == res' = AgeResource(res)

Next ==
    \/ \E r \in Requests : DecideFor(r)
    \/ \E c \in Clients : ReleaseCapacity(c)
    \/ Reload
    \/ ClockTick

Spec == Init /\ [][Next]_vars

-----------------------------------------------------------------------------
\* The resource is well formed, and its leases record requests that were made.
TypeOK ==
    /\ IsResource(res)
    /\ \A c \in DOMAIN res.store.leases :
          /\ res.store.leases[c].wants \in Wants
          /\ res.store.leases[c].subclients \in SubclientCounts

(* The running sums are the sums of the leases in the map, whatever         *)
(* sequence of assignments, releases, expiries and reloads led here: every  *)
(* algorithm decides from the sums alone.                                   *)
SumsMatchLeases == SumsMatch(res.store)

(* No decision divides by zero, or by a negative number, whatever the       *)
(* number of clients that came and went.                                    *)
DivisorsPositive == \A r \in Requests : \A d \in Divisors(res, r) : d > 0

(* Outside learning mode a decision of a sharing algorithm leaves the       *)
(* outstanding leases, taken together, within the capacity in force.  That  *)
(* holds even when they exceeded it before: the requester then pays for     *)
(* everyone, with a grant that may be negative (algorithm.go:132).            *)
SharingNeverOvercommits ==
    [][\/ HasOf(res.store, Clients)' <= Capacity(res)
       \/ InLearningMode(res)
       \/ res.config.kind \notin SharingKinds
       \/ ~\E r \in Requests : DecideFor(r)]_vars

(* A lease ends by its holder's release, or by its expiry: a decision for   *)
(* someone else, a reload or a tick leave a live lease and its amount       *)
(* alone.                                                                   *)
LiveLeasesAreKept ==
    [][\A c \in Clients :
          \/ ~HasClient(res.store, c)
          \/ Get(res.store, c).left < 0
          \/ HasClient(res.store, c)' /\ Get(res.store, c).has' = Get(res.store, c).has
          \/ ReleaseCapacity(c)
          \/ \E r \in Requests : r.client = c /\ DecideFor(r)]_vars

LiveHas(c) == IF Get(res.store, c).left >= 0 THEN Get(res.store, c).has ELSE 0

Pool == INSTANCE LeasePool
        WITH NumHolders <- NumClients,
             limit <- IF InLearningMode(res) \/ res.config.kind \notin SharingKinds
                      THEN -1 ELSE Capacity(res),
             held  <- [c \in Clients |-> LiveHas(c)]

(* Clients see a pool: whatever happens to the store, the configuration and *)
(* the clock, every step is a grant to one client, within the limit while   *)
(* a sharing algorithm decides, or the end of some leases.                  *)
ImplementsPool == Pool!Spec

(* With a sharing algorithm, an unchanging capacity and no learning mode    *)
(* the leases are never negative and never add up to more than the          *)
(* capacity.                                                                *)
WithinCapacity ==
    /\ \A c \in Clients : Get(res.store, c).has >= 0
    /\ HasOf(res.store, Clients) <= res.config.capacity

=============================================================================
