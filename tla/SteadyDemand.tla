---------------------------- MODULE SteadyDemand ----------------------------
(***************************************************************************)
(* A resource whose clients come to want the same amounts for ever and      *)
(* refresh in time: the case algorithm.go's comments describe.  What they   *)
(* want may change before (at most MaxChanges times).  Every client keeps   *)
(* refreshing, in any order and at any relative speed; as each refreshes    *)
(* before its lease expires, the passing of time changes nothing and is     *)
(* left out.                                                                *)
(***************************************************************************)
EXTENDS Resource

CONSTANTS Scenarios,    \* templates to try, with combinations of subclients
          Demands,      \* the combinations of wants to try
          MaxChanges    \* how often the wants may change

ASSUME ScenariosAssumption ==
    Scenarios \subseteq [template : Template, weight : [Clients -> Nat \ {0}]]
ASSUME DemandsAssumption == Demands \subseteq [Clients -> Nat]
ASSUME MaxChangesAssumption == MaxChanges \in Nat

VARIABLES res,
          demand,       \* what each client wants
          weight,       \* how many subclients it has
          changes,      \* how often the wants have changed
          last          \* the client that refreshed last, 0 before the first

vars == <<res, demand, weight, changes, last>>

Init ==
    /\ \E scenario \in Scenarios :
          res = NewResource(scenario.template, 0) /\ weight = scenario.weight
    /\ demand \in Demands
    /\ changes = 0
    /\ last = 0

Turn(c) == last' = c

\* The client's loop (client.go run): it claims what it was last granted.
Refresh(c) ==
    /\ Turn(c)
    /\ res' = Decide(res, [client |-> c, has |-> Get(res.store, c).has,
                           wants |-> demand[c], subclients |-> weight[c]])
    /\ UNCHANGED <<demand, weight, changes>>

\* Users of the client library ask for something else (Resource.Ask).
ChangeDemand ==
    /\ changes < MaxChanges
    /\ changes' = changes + 1
    /\ demand' \in Demands \ {demand}
    /\ UNCHANGED <<res, weight, last>>

Next == ChangeDemand \/ \E c \in Clients : Refresh(c)

\* Every client's refresh loop runs for ever (client.go:217-279), and nothing
\* disables a refresh: every client has its turn again and again.  The fairness
\* is stated of the turn, which changes exactly with a refresh.
Spec == Init /\ [][Next]_vars /\ \A c \in Clients : WF_last(Turn(c))

-----------------------------------------------------------------------------
Granted(c) == Get(res.store, c).has

MinOf(a, b) == IF a < b THEN a ELSE b

Underloaded == Sum(demand, NumClients) <= res.config.capacity

(* In case the total wants is below the total available capacity, everyone  *)
(* ends up with what they want (algorithm.go:86-89, 208-209), and keeps it. *)
EveryoneIsSatisfied ==
    <>[](Underloaded => \A c \in Clients : Granted(c) >= demand[c])

(* In overload everyone ends up with at least their equal share, or all     *)
(* they want of it (algorithm.go:89-91, 209-210), and keeps it.             *)
EqualShareIsGuaranteed ==
    <>[](\A c \in Clients :
           Granted(c) >= MinOf(demand[c], weight[c] * (res.config.capacity \div Sum(weight, NumClients))))

(* The leases settle: from some point on a refresh changes no amount.       *)
LeasesSettle == \A c \in Clients : <>[][Granted(c)' = Granted(c)]_vars

=============================================================================
