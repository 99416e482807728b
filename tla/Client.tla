------------------------------- MODULE Client -------------------------------
(***************************************************************************)
(* The client library (client.go) and its connection (connection.go): the   *)
(* goroutines of its users claim and release resources and receive          *)
(* capacities over channels; one goroutine, the loop, owns the registry of   *)
(* claims, refreshes all leases when its timer fires, and follows the        *)
(* master from server to server.                                            *)
(*                                                                         *)
(* The servers are an environment here: one of them may be the master,       *)
(* the master changes, and servers learn of it later.  A master grants any   *)
(* of Capacities.  An RPC may fail, executed or not.  MaxFaults bounds the    *)
(* changes of the master and the failures, taken together.                   *)
(*                                                                         *)
(* A user claims with a handle once and releases a claim that was accepted   *)
(* once (so that removeResource finds it registered); nobody is in a call    *)
(* when the client is closed, or calls it later.                            *)
(***************************************************************************)
EXTENDS Integers

CONSTANTS Handles,          \* what ResourceWithPriority creates
          IdOf,             \* the resource each one is for
          Servers, Home,    \* Home is the address the client was given
          None,
          Wants, Capacities,
          ChannelSize,      \* capacityChannelSize
          MaxFaults

Ids == {IdOf[h] : h \in Handles}

ASSUME HomeAssumption == Home \in Servers /\ None \notin Servers \cup Handles
ASSUME AmountsAssumption == Wants \subseteq Nat \ {0} /\ Capacities \subseteq Nat
ASSUME ChannelAssumption == ChannelSize \in Nat \ {0}
ASSUME BoundsAssumption == MaxFaults \in Nat

VARIABLES user,         \* where the user of a handle is
          wants,        \* what it asks for, 0 when it does not
          channel,      \* how many capacities it has yet to receive,
          latest,       \* and the last one of them, or the last received
          registry,     \* the handle registered for each id
          lease,        \* the lease of each handle
          loop,         \* where the loop is: pc, the RPC, and its request
          timer,        \* the loop's timer: none (nil), armed, firing, fired
          wakeUp,       \* whether the channel it fires on is full
          conn,         \* the server the connection is to
          master, knows,    \* the master, and who every server thinks it is
          held,         \* what the master recorded that the client wants
          faults

vars == <<user, wants, channel, latest, registry, lease, loop, timer, wakeUp, conn, master,
          knows, held, faults>>
users == <<user, wants, channel, latest>>
clock == <<timer, wakeUp>>
servers == <<master, knows, held>>

Nothing == -1
NoLease == [capacity |-> Nothing, live |-> FALSE]

\* The loop calls one server after the other until one executes the RPC.
Calling(rpc, request) == [pc |-> "calling", rpc |-> rpc, request |-> request]
At(pc) == [pc |-> pc, rpc |-> "none", request |-> [id \in {} |-> 0]]

Open == loop.pc \notin {"halted", "closed"} /\ loop.rpc # "close"
Claimed(h) == registry[IdOf[h]] = h
Registered == {h \in Handles : Claimed(h)}

Init ==
    /\ user = [h \in Handles |-> "idle"]
    /\ wants = [h \in Handles |-> 0]
    /\ channel = [h \in Handles |-> 0]
    /\ latest = [h \in Handles |-> Nothing]
    /\ registry = [id \in Ids |-> None]
    /\ lease = [h \in Handles |-> NoLease]
    /\ loop = At("select")
    /\ timer = "none" /\ wakeUp = FALSE
    /\ conn = Home
    /\ master \in Servers \cup {None}
    /\ knows = [s \in Servers |-> None]
    /\ held = [id \in Ids |-> 0]
    /\ faults = 0

-----------------------------------------------------------------------------
(* Users. *)

\* ResourceWithPriority and Release wait for the loop to take the action.
Claim(h) ==
    /\ user[h] = "idle" /\ Open
    /\ user' = [user EXCEPT ![h] = "claiming"]
    /\ \E w \in Wants : wants' = [wants EXCEPT ![h] = w]
    /\ UNCHANGED <<channel, latest, registry, lease, loop, clock, conn, servers, faults>>

AskForRelease(h) ==
    /\ user[h] = "claimed" /\ Open
    /\ user' = [user EXCEPT ![h] = "releasing"]
    /\ UNCHANGED <<wants, channel, latest, registry, lease, loop, clock, conn, servers, faults>>

Ask(h) ==
    /\ user[h] = "claimed" /\ Open
    /\ \E w \in Wants \ {wants[h]} : wants' = [wants EXCEPT ![h] = w]
    /\ UNCHANGED <<user, channel, latest, registry, lease, loop, clock, conn, servers, faults>>

Receive(h) ==
    /\ channel[h] > 0
    /\ channel' = [channel EXCEPT ![h] = @ - 1]
    /\ UNCHANGED <<user, wants, latest, registry, lease, loop, clock, conn, servers, faults>>

-----------------------------------------------------------------------------
(* The loop. *)

Accept(h) ==
    /\ registry' = [registry EXCEPT ![IdOf[h]] = h]
    /\ user' = [user EXCEPT ![h] = "claimed"]
    /\ UNCHANGED wants

\* ErrDuplicateResourceID
Refuse(h) ==
    /\ user' = [user EXCEPT ![h] = "refused"]
    /\ wants' = [wants EXCEPT ![h] = 0]
    /\ UNCHANGED registry

\* Mutant of AddResource: the loop goes back to its select.
AddResourceOnly(h) ==
    /\ loop.pc = "select" /\ user[h] = "claiming"
    /\ IF registry[IdOf[h]] = None THEN Accept(h) ELSE Refuse(h)
    /\ UNCHANGED <<channel, latest, lease, loop, clock, conn, servers, faults>>

\* Mutant of AddResource: a duplicate replaces the claim there is.
AddDuplicate(h) ==
    /\ loop.pc = "select" /\ user[h] = "claiming"
    /\ Accept(h)
    /\ loop' = At("stopping")
    /\ UNCHANGED <<channel, latest, lease, clock, conn, servers, faults>>

\* addResource; all resources are refreshed after it, also if it was refused.
AddResource(h) ==
    /\ loop.pc = "select" /\ user[h] = "claiming"
    /\ IF registry[IdOf[h]] = None THEN Accept(h) ELSE Refuse(h)
    /\ loop' = At("stopping")
    /\ UNCHANGED <<channel, latest, lease, clock, conn, servers, faults>>

\* The channels are closed, and nobody looks at what is left of the handles again.
Forget(handles) ==
    /\ wants' = [h \in Handles |-> IF h \in handles THEN 0 ELSE wants[h]]
    /\ channel' = [h \in Handles |-> IF h \in handles THEN 0 ELSE channel[h]]
    /\ latest' = [h \in Handles |-> IF h \in handles THEN Nothing ELSE latest[h]]
    /\ lease' = [h \in Handles |-> IF h \in handles THEN NoLease ELSE lease[h]]

\* Mutant of RemoveResource: the master is not told.
RemoveOnly(h) ==
    /\ loop.pc = "select" /\ user[h] = "releasing"
    /\ registry' = [registry EXCEPT ![IdOf[h]] = None]
    /\ user' = [user EXCEPT ![h] = "released"]
    /\ Forget({h})
    /\ UNCHANGED <<loop, clock, conn, servers, faults>>

\* removeResource: the user waits for the RPC, too.
RemoveResource(h) ==
    /\ loop.pc = "select" /\ user[h] = "releasing"
    /\ registry' = [registry EXCEPT ![IdOf[h]] = None]
    /\ loop' = Calling("release", [id \in {IdOf[h]} |-> 0])
    /\ Forget({h})
    /\ UNCHANGED <<user, clock, conn, servers, faults>>

Request == [id \in {IdOf[h] : h \in Registered} |-> wants[registry[id]]]

WakeUp ==
    /\ loop.pc = "select" /\ wakeUp
    /\ wakeUp' = FALSE /\ timer' = "none"
    /\ loop' = Calling("get", Request)
    /\ UNCHANGED <<users, registry, lease, conn, servers, faults>>

\* Mutant of StopTimer: a timer that has fired already is forgotten.
StopTimerOnly ==
    /\ loop.pc = "stopping"
    /\ timer' = "none"
    /\ loop' = Calling("get", Request)
    /\ UNCHANGED <<users, registry, lease, wakeUp, conn, servers, faults>>

\* The timer is stopped; if it is too late for that the loop waits for it.
StopTimer ==
    /\ loop.pc = "stopping"
    /\ timer \in {"firing", "fired"} => wakeUp
    /\ wakeUp' = IF timer \in {"firing", "fired"} THEN FALSE ELSE wakeUp
    /\ timer' = "none"
    /\ loop' = Calling("get", Request)
    /\ UNCHANGED <<users, registry, lease, conn, servers, faults>>

TimerFires ==
    /\ timer = "armed"
    /\ timer' = "firing"
    /\ UNCHANGED <<users, registry, lease, loop, wakeUp, conn, servers, faults>>

\* The timer's function runs in a goroutine of its own.
TimerSends ==
    /\ timer = "firing" /\ ~wakeUp
    /\ timer' = "fired" /\ wakeUp' = TRUE
    /\ UNCHANGED <<users, registry, lease, loop, conn, servers, faults>>

-----------------------------------------------------------------------------
(* runMasterAware *)

Server == IF conn = None THEN Home ELSE conn

\* Mutant of HasRoom: one too many.
HasRoomForOneMore(h) == channel[h] <= ChannelSize

HasRoom(h) == channel[h] < ChannelSize

IsNews(h, grant) == grant # lease[h].capacity

\* performRequests handles the response and arms the timer.  A user hears of a
\* capacity that is news if its channel has room for it.
RefreshAll(grants) ==
    LET Grant(h) == grants[IdOf[h]]
        Heard == {h \in Registered : IsNews(h, Grant(h)) /\ HasRoom(h)}
    IN  /\ channel' = [h \in Handles |-> IF h \in Heard THEN channel[h] + 1 ELSE channel[h]]
        /\ latest' = [h \in Handles |-> IF h \in Heard THEN Grant(h) ELSE latest[h]]
        /\ lease' = [h \in Handles |->
              IF h \in Registered THEN [capacity |-> Grant(h), live |-> TRUE] ELSE lease[h]]
        /\ timer' = "armed"
        /\ loop' = At("select")
        /\ UNCHANGED <<user, wants, registry, wakeUp>>

\* Release returns, and the loop goes on waiting for its old timer.
Released ==
    /\ user' = [h \in Handles |->
          IF user[h] = "releasing" /\ IdOf[h] \in DOMAIN loop.request /\ ~Claimed(h) THEN "released" ELSE user[h]]
    /\ loop' = At(IF loop.rpc = "close" THEN "closed" ELSE "select")
    /\ UNCHANGED <<wants, channel, latest, registry, lease, clock>>

\* What the master records of a request; a release wants nothing.
Record == held' = [id \in Ids |-> IF id \in DOMAIN loop.request THEN loop.request[id] ELSE held[id]]

\* The master executes the RPC and the answer arrives.
Execute ==
    /\ loop.pc = "calling" /\ Server = master
    /\ Record
    /\ IF loop.rpc = "get" THEN \E grants \in [Ids -> Capacities] : RefreshAll(grants) ELSE Released
    /\ conn' = IF loop.rpc = "close" THEN None ELSE Server
    /\ UNCHANGED <<master, knows, faults>>

\* Mutant of Redirect: the connection stays where it is.
RedirectIgnored ==
    /\ loop.pc = "calling" /\ Server # master
    /\ conn' = Server
    /\ UNCHANGED <<users, registry, lease, loop, clock, servers, faults>>

\* Another server answers who the master is, or, in which case it will be asked
\* again, that it does not know.
Redirect ==
    /\ loop.pc = "calling" /\ Server # master
    /\ conn' = IF knows[Server] # None THEN knows[Server] ELSE Server
    /\ UNCHANGED <<users, registry, lease, loop, clock, servers, faults>>

\* The RPC returns an error; the next attempt begins at Home.
RPCFails ==
    /\ loop.pc = "calling" /\ faults < MaxFaults
    /\ faults' = faults + 1
    /\ conn' = None
    /\ (Server = master /\ Record) \/ UNCHANGED held
    /\ UNCHANGED <<users, registry, lease, loop, clock, master, knows>>

-----------------------------------------------------------------------------
(* Close, and the world outside. *)

\* Close closes the channels of the loop, which then halts; Close goes on.
Close ==
    /\ loop.pc = "select" /\ \A h \in Handles : user[h] \notin {"claiming", "releasing"}
    /\ loop' = At("halted")
    /\ UNCHANGED <<users, registry, lease, clock, conn, servers, faults>>

ReleaseAtClose ==
    /\ loop.pc = "halted"
    /\ Forget(Registered)
    /\ loop' = Calling("close", [id \in {IdOf[h] : h \in Registered} |-> 0])
    /\ UNCHANGED <<user, registry, clock, conn, servers, faults>>

\* A lease runs out, which takes longer than a refresh that finds a master.
Expire(h) ==
    /\ master = None /\ loop.pc = "calling" /\ lease[h].live
    /\ lease' = [lease EXCEPT ![h] = [capacity |-> lease[h].capacity, live |-> FALSE]]
    /\ UNCHANGED <<users, registry, loop, clock, conn, servers, faults>>

Elect(s) ==
    /\ faults < MaxFaults /\ s # master
    /\ faults' = faults + 1
    /\ master' = s
    /\ held' = [id \in Ids |-> 0]
    /\ UNCHANGED <<users, registry, lease, loop, clock, conn, knows>>

Learn(s) ==
    /\ knows[s] # master
    /\ knows' = [knows EXCEPT ![s] = master]
    /\ UNCHANGED <<users, registry, lease, loop, clock, conn, master, held, faults>>

ServeUser == \E h \in Handles : AddResource(h) \/ RemoveResource(h)

LoopStep ==
    \/ ServeUser
    \/ WakeUp \/ StopTimer \/ Execute \/ Redirect \/ ReleaseAtClose

Next ==
    \/ \E h \in Handles : Claim(h) \/ AskForRelease(h) \/ Ask(h) \/ Receive(h) \/ Expire(h)
    \/ LoopStep \/ TimerFires \/ TimerSends \/ RPCFails \/ Close
    \/ \E s \in Servers \cup {None} : Elect(s)
    \/ \E s \in Servers : Learn(s)

\* The goroutines of the client go on running, and servers learn who the master
\* is.  Go's select picks one of the cases that are ready at random, so that the
\* wake-ups do not keep it from serving users for ever.  Nothing is assumed of
\* users, of elections and of faults.
Fairness ==
    /\ WF_vars(LoopStep) /\ SF_vars(ServeUser)
    /\ WF_vars(TimerFires) /\ WF_vars(TimerSends)
    /\ \A s \in Servers : WF_vars(Learn(s))

Spec == Init /\ [][Next]_vars /\ Fairness

-----------------------------------------------------------------------------
Leases == [capacity : Capacities \cup {Nothing}, live : BOOLEAN]

\* The state is well formed, and a channel holds what it has room for.
TypeOK ==
    /\ user \in [Handles -> {"idle", "claiming", "claimed", "refused", "releasing", "released"}]
    /\ wants \in [Handles -> Wants \cup {0}]
    /\ channel \in [Handles -> 0..ChannelSize] /\ latest \in [Handles -> Capacities \cup {Nothing}]
    /\ registry \in [Ids -> Handles \cup {None}]
    /\ \A id \in Ids : registry[id] # None => IdOf[registry[id]] = id
    /\ lease \in [Handles -> Leases]
    /\ loop.pc \in {"select", "stopping", "calling", "halted", "closed"}
    /\ loop.rpc \in {"none", "get", "release", "close"} 
    /\ DOMAIN loop.request \subseteq Ids /\ \A id \in DOMAIN loop.request : loop.request[id] \in Wants \cup {0}
    /\ timer \in {"none", "armed", "firing", "fired"} /\ wakeUp \in BOOLEAN
    /\ conn \in Servers \cup {None} /\ master \in Servers \cup {None}
    /\ knows \in [Servers -> Servers \cup {None}]
    /\ held \in [Ids -> Wants \cup {0}]
    /\ faults \in 0..MaxFaults

\* An accepted claim stays the registered one until its user releases it, whatever
\* others claim (ErrDuplicateResourceID): two users never share a resource id.
ClaimsAreExclusive == \A h \in Handles : user[h] = "claimed" => Claimed(h)

\* The wake-up channel is full only because of the timer that the loop waits for
\* now: none of a timer that was stopped too late makes it refresh again (the race
\* that run's comment describes), and no wake-up is lost.
WakeUpsAreTimely == wakeUp <=> timer = "fired"

\* When Release or Close has returned, no server keeps capacity for what nobody has
\* claimed, whichever calls failed, were repeated or redirected on the way.
ReleasedCapacityIsFree ==
    /\ \A id \in Ids :
        registry[id] = None /\ (\A h \in Handles : IdOf[h] = id => user[h] # "releasing") => held[id] = 0
    /\ loop.pc = "closed" => \A id \in Ids : held[id] = 0

Stable == <>[](master # None)

\* If there is a master from some time on, the calls of users return, and Close does.
CallsReturn ==
    Stable => /\ \A h \in Handles : user[h] \in {"claiming", "releasing"} ~> user[h] \notin {"claiming", "releasing"}
              /\ loop.pc = "halted" ~> loop.pc = "closed"

\* If there is a master from some time on, what a user asks for reaches it, through
\* redirects, repeated calls and new masters, unless the user or the client goes away.
AsksAreHeard ==
    Stable => \A h \in Handles : \A w \in Wants :
        user[h] = "claimed" /\ wants[h] = w
            ~> held[IdOf[h]] = w \/ wants[h] # w \/ user[h] # "claimed" \/ loop.pc = "closed"

=============================================================================
