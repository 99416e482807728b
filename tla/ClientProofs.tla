---------------------------- MODULE ClientProofs ----------------------------
(***************************************************************************)
(* Type correctness of Client, that released capacity is free, and that      *)
(* claims are exclusive, for any number of users, resources, servers and     *)
(* faults.                                                                  *)
(***************************************************************************)
EXTENDS Client, TLAPS

\* None is nobody's handle and no server.
USE HomeAssumption, AmountsAssumption, ChannelAssumption, BoundsAssumption
    DEF HomeAssumption, AmountsAssumption, ChannelAssumption, BoundsAssumption, Nothing

LEMMA InitTyped == Init => TypeOK
<1> SUFFICES ASSUME Init PROVE TypeOK
    OBVIOUS
<1>1. loop.pc = "select" /\ loop.rpc = "none" /\ DOMAIN loop.request = {}
    BY DEF Init, At
<1>2. NoLease \in Leases
    BY DEF NoLease, Leases
<1>3. lease \in [Handles -> Leases]
    BY <1>2 DEF Init
<1>4. latest \in [Handles -> Capacities \cup {Nothing}] /\ channel \in [Handles -> 0..ChannelSize]
    BY DEF Init
<1>5. /\ user \in [Handles -> {"idle", "claiming", "claimed", "refused", "releasing", "released"}]
      /\ wants \in [Handles -> Wants \cup {0}]
    BY DEF Init
<1>6. registry \in [Ids -> Handles \cup {None}] /\ \A id \in Ids : registry[id] = None
    BY DEF Init
<1>7. knows \in [Servers -> Servers \cup {None}] /\ held \in [Ids -> Wants \cup {0}]
    BY DEF Init
<1>8. /\ timer = "none" /\ wakeUp = FALSE
      /\ conn \in Servers /\ master \in Servers \cup {None} /\ faults \in 0..MaxFaults
    BY DEF Init
<1>9. QED BY <1>1, <1>3, <1>4, <1>5, <1>6, <1>7, <1>8 DEF TypeOK

LEMMA UsersTyped ==
    ASSUME TypeOK, NEW h \in Handles,
           Claim(h) \/ AskForRelease(h) \/ Ask(h) \/ Receive(h)
    PROVE  TypeOK'
<1>1. CASE Claim(h)
    BY <1>1 DEF Claim, TypeOK, clock, servers
<1>2. CASE AskForRelease(h)
    BY <1>2 DEF AskForRelease, TypeOK, clock, servers
<1>3. CASE Ask(h)
    BY <1>3 DEF Ask, TypeOK, clock, servers
<1>4. CASE Receive(h)
    BY <1>4 DEF Receive, TypeOK, clock, servers
<1>5. QED BY <1>1, <1>2, <1>3, <1>4

LEMMA RequestTyped ==
    ASSUME TypeOK
    PROVE  /\ DOMAIN Request \subseteq Ids
           /\ \A id \in DOMAIN Request : Request[id] \in Wants \cup {0}
<1>1. DOMAIN Request = {IdOf[h] : h \in Registered}
    BY DEF Request
<1>2. \A id \in DOMAIN Request : Request[id] = wants[registry[id]]
    BY DEF Request
<1>3. \A h \in Registered : IdOf[h] \in Ids /\ registry[IdOf[h]] \in Handles
    BY DEF Registered, Claimed, Ids
<1>4. QED BY <1>1, <1>2, <1>3 DEF TypeOK

LEMMA ForgetTyped ==
    ASSUME TypeOK, NEW handles, Forget(handles)
    PROVE  /\ wants' \in [Handles -> Wants \cup {0}]
           /\ channel' \in [Handles -> 0..ChannelSize]
           /\ latest' \in [Handles -> Capacities \cup {Nothing}]
           /\ lease' \in [Handles -> Leases]
BY DEF Forget, TypeOK, NoLease, Leases

LEMMA LoopTyped ==
    ASSUME TypeOK, LoopStep
    PROVE  TypeOK'
<1>1. ASSUME NEW h \in Handles, AddResource(h) PROVE TypeOK'
    <2>1. CASE Accept(h)
        BY <1>1, <2>1 DEF AddResource, Accept, TypeOK, At, clock, servers, Ids
    <2>2. CASE Refuse(h)
        BY <1>1, <2>2 DEF AddResource, Refuse, TypeOK, At, clock, servers, Ids
    <2>3. QED BY <1>1, <2>1, <2>2 DEF AddResource
<1>2. ASSUME NEW h \in Handles, RemoveResource(h) PROVE TypeOK'
    <2>1. IdOf[h] \in Ids
        BY DEF Ids
    <2>2. /\ loop'.pc = "calling" /\ loop'.rpc = "release" /\ DOMAIN loop'.request = {IdOf[h]}
          /\ \A id \in {IdOf[h]} : loop'.request[id] = 0
        BY <1>2 DEF RemoveResource, Calling
    <2>3. registry' \in [Ids -> Handles \cup {None}]
          /\ \A id \in Ids : registry'[id] # None => IdOf[registry'[id]] = id
        BY <1>2, <2>1 DEF RemoveResource, TypeOK
    <2>4. QED BY <1>2, <2>1, <2>2, <2>3, ForgetTyped DEF RemoveResource, TypeOK, clock, servers
<1>3. CASE WakeUp
    BY <1>3, RequestTyped DEF WakeUp, TypeOK, Calling, users, servers
<1>4. CASE StopTimer
    BY <1>4, RequestTyped DEF StopTimer, TypeOK, Calling, users, servers
<1>5. CASE Execute
    <2>1. held' \in [Ids -> Wants \cup {0}]
        BY <1>5 DEF Execute, Record, TypeOK
    <2>2. conn' \in Servers \cup {None}
        BY <1>5 DEF Execute, Server, TypeOK
    <2>3. ASSUME NEW grants \in [Ids -> Capacities], RefreshAll(grants) PROVE TypeOK'
        <3>1. \A h \in Handles : grants[IdOf[h]] \in Capacities
            BY DEF Ids
        <3>2. /\ channel' \in [Handles -> 0..ChannelSize]
              /\ latest' \in [Handles -> Capacities \cup {Nothing}]
              /\ lease' \in [Handles -> Leases]
            BY <2>3, <3>1 DEF RefreshAll, HasRoom, Registered, TypeOK, Leases
        <3>3. QED BY <1>5, <2>1, <2>2, <2>3, <3>2 DEF Execute, RefreshAll, TypeOK, At
    <2>4. CASE Released
        BY <1>5, <2>1, <2>2, <2>4 DEF Execute, Released, TypeOK, At, clock
    <2>5. QED BY <1>5, <2>3, <2>4 DEF Execute
<1>6. CASE Redirect
    BY <1>6 DEF Redirect, Server, TypeOK, users, clock, servers
<1>7. CASE ReleaseAtClose
    <2>1. {IdOf[h] : h \in Registered} \subseteq Ids
        BY DEF Registered, Ids
    <2>2. QED BY <1>7, <2>1, ForgetTyped DEF ReleaseAtClose, TypeOK, Calling, clock, servers
<1>8. QED BY <1>1, <1>2, <1>3, <1>4, <1>5, <1>6, <1>7 DEF LoopStep, ServeUser

LEMMA WorldTyped ==
    ASSUME TypeOK,
           \/ TimerFires \/ TimerSends \/ RPCFails \/ Close
           \/ \E h \in Handles : Expire(h)
           \/ \E s \in Servers \cup {None} : Elect(s)
           \/ \E s \in Servers : Learn(s)
    PROVE  TypeOK'
<1>1. CASE TimerFires
    BY <1>1 DEF TimerFires, TypeOK, users, servers
<1>2. CASE TimerSends
    BY <1>2 DEF TimerSends, TypeOK, users, servers
<1>3. CASE RPCFails
    <2>1. held' \in [Ids -> Wants \cup {0}]
        BY <1>3 DEF RPCFails, Record, TypeOK
    <2>2. QED BY <1>3, <2>1 DEF RPCFails, TypeOK, users, clock
<1>4. CASE Close
    <2>1. loop'.pc = "halted" /\ loop'.rpc = "none" /\ DOMAIN loop'.request = {}
        BY <1>4 DEF Close, At
    <2>2. QED BY <1>4, <2>1 DEF Close, TypeOK, users, clock, servers
<1>5. ASSUME NEW h \in Handles, Expire(h) PROVE TypeOK'
    BY <1>5 DEF Expire, TypeOK, Leases, users, clock, servers
<1>6. ASSUME NEW s \in Servers \cup {None}, Elect(s) PROVE TypeOK'
    BY <1>6 DEF Elect, TypeOK, users, clock
<1>7. ASSUME NEW s \in Servers, Learn(s) PROVE TypeOK'
    BY <1>7 DEF Learn, TypeOK, users, clock
<1>8. QED BY <1>1, <1>2, <1>3, <1>4, <1>5, <1>6, <1>7

\* Users, loop, connection and servers stay well formed.
THEOREM TypeCorrect == Spec => []TypeOK
<1>1. ASSUME TypeOK, [Next]_vars PROVE TypeOK'
    <2>1. CASE Next
        BY <1>1, <2>1, UsersTyped, LoopTyped, WorldTyped DEF Next
    <2>2. CASE UNCHANGED vars
        BY <1>1, <2>2 DEF TypeOK, vars
    <2>3. QED BY <1>1, <2>1, <2>2
<1>2. QED BY <1>1, InitTyped, PTL DEF Spec

-----------------------------------------------------------------------------
(* Released capacity is free.  The invariant follows the loop into its calls: *)
(* a get names registered ids only, a release wants nothing, and the last     *)
(* release names all that is registered; nobody is in a call by then.         *)

Releasing(id) == \E h \in Handles : IdOf[h] = id /\ user[h] = "releasing"
Free(id) == registry[id] = None /\ ~Releasing(id)

RequestOK ==
    /\ loop.pc = "calling" <=> loop.rpc # "none"
    /\ loop.rpc = "get" => \A id \in DOMAIN loop.request : registry[id] # None
    /\ loop.rpc \in {"release", "close"} => \A id \in DOMAIN loop.request : loop.request[id] = 0
    /\ loop.rpc = "close" => \A id \in Ids : registry[id] # None => id \in DOMAIN loop.request

NobodyCallsAtClose == ~Open => \A h \in Handles : user[h] \notin {"claiming", "releasing"}
FreeIsNotHeld == \A id \in Ids : Free(id) => held[id] = 0
ClosedIsNotHeld == loop.pc = "closed" => \A id \in Ids : held[id] = 0

CallsOK == RequestOK /\ NobodyCallsAtClose
HeldOK == FreeIsNotHeld /\ ClosedIsNotHeld
IInv == TypeOK /\ CallsOK /\ HeldOK

LEMMA ReleasedByInvariant == IInv => ReleasedCapacityIsFree
BY DEF IInv, HeldOK, FreeIsNotHeld, ClosedIsNotHeld, Free, Releasing, ReleasedCapacityIsFree

LEMMA InitReleased == Init => IInv
<1> SUFFICES ASSUME Init PROVE CallsOK /\ HeldOK
    BY InitTyped DEF IInv
<1>1. loop.pc = "select" /\ loop.rpc = "none"
    BY DEF Init, At
<1>2. \A id \in Ids : held[id] = 0
    BY DEF Init
<1>3. QED BY <1>1, <1>2 DEF CallsOK, RequestOK, NobodyCallsAtClose, Open, HeldOK, FreeIsNotHeld, ClosedIsNotHeld

\* A step of a user leaves loop, registry and record alone, and ends nobody's release.
LEMMA UsersRelease ==
    ASSUME IInv, NEW h \in Handles, Claim(h) \/ AskForRelease(h) \/ Ask(h) \/ Receive(h)
    PROVE  CallsOK' /\ HeldOK'
<1>1. loop' = loop /\ registry' = registry /\ held' = held
    BY DEF Claim, AskForRelease, Ask, Receive, servers
<1>2. (user' # user) => Open
    BY DEF Claim, AskForRelease, Ask, Receive
<1>3. \A g \in Handles : user[g] = "releasing" => user'[g] = "releasing"
    BY DEF Claim, AskForRelease, Ask, Receive, IInv, TypeOK
<1>4. CallsOK'
    BY <1>1, <1>2 DEF IInv, CallsOK, RequestOK, NobodyCallsAtClose, Open
<1>5. HeldOK'
    BY <1>1, <1>3 DEF IInv, HeldOK, FreeIsNotHeld, ClosedIsNotHeld, Free, Releasing
<1>6. QED BY <1>4, <1>5

LEMMA LoopReleases ==
    ASSUME IInv, LoopStep
    PROVE  CallsOK' /\ HeldOK'
<1> USE DEF IInv
<1>1. ASSUME NEW h \in Handles, AddResource(h) PROVE CallsOK' /\ HeldOK'
    <2>1. held' = held /\ loop'.pc = "stopping" /\ loop'.rpc = "none" /\ Open
        BY <1>1 DEF AddResource, At, servers, CallsOK, RequestOK, Open
    <2>2. \A id \in Ids : registry'[id] = None => registry[id] = None
        BY <1>1 DEF AddResource, Accept, Refuse, TypeOK
    <2>3. \A g \in Handles : user[g] = "releasing" => user'[g] = "releasing"
        BY <1>1 DEF AddResource, Accept, Refuse, TypeOK
    <2>4. CallsOK'
        BY <2>1 DEF CallsOK, RequestOK, NobodyCallsAtClose, Open
    <2>5. HeldOK'
        BY <2>1, <2>2, <2>3 DEF HeldOK, FreeIsNotHeld, ClosedIsNotHeld, Free, Releasing
    <2>6. QED BY <2>4, <2>5
<1>2. ASSUME NEW h \in Handles, RemoveResource(h) PROVE CallsOK' /\ HeldOK'
    <2>1. /\ loop'.pc = "calling" /\ loop'.rpc = "release"
          /\ \A id \in DOMAIN loop'.request : loop'.request[id] = 0
        BY <1>2 DEF RemoveResource, Calling
    <2>2. user' = user /\ held' = held /\ user[h] = "releasing"
        BY <1>2 DEF RemoveResource, servers
    <2>3. \A id \in Ids : registry'[id] # registry[id] => id = IdOf[h]
        BY <1>2 DEF RemoveResource, TypeOK
    <2>4. CallsOK'
        BY <2>1 DEF CallsOK, RequestOK, NobodyCallsAtClose, Open
    <2>5. HeldOK'
        BY <2>1, <2>2, <2>3 DEF HeldOK, FreeIsNotHeld, ClosedIsNotHeld, Free, Releasing
    <2>6. QED BY <2>4, <2>5
<1>3. CASE WakeUp \/ StopTimer
    <2>0. loop' = Calling("get", Request)
        BY <1>3 DEF WakeUp, StopTimer
    <2>1. loop'.pc = "calling" /\ loop'.rpc = "get" /\ loop'.request = Request
        BY <2>0 DEF Calling
    <2>2. user' = user /\ registry' = registry /\ held' = held
        BY <1>3 DEF WakeUp, StopTimer, users, servers
    <2>3. \A id \in DOMAIN Request : registry[id] # None
        BY DEF Request, Registered, Claimed
    <2>4. CallsOK'
        BY <2>1, <2>2, <2>3 DEF CallsOK, RequestOK, NobodyCallsAtClose, Open
    <2>5. HeldOK'
        BY <2>1, <2>2 DEF HeldOK, FreeIsNotHeld, ClosedIsNotHeld, Free, Releasing
    <2>6. QED BY <2>4, <2>5
<1>4. CASE Execute
    <2>1. \A id \in Ids : held'[id] = IF id \in DOMAIN loop.request THEN loop.request[id] ELSE held[id]
        BY <1>4 DEF Execute, Record
    <2>2. loop.pc = "calling" /\ registry' = registry
        BY <1>4 DEF Execute, RefreshAll, Released
    <2>3. CASE loop.rpc = "get"
        <3>1. user' = user /\ loop'.pc = "select" /\ loop'.rpc = "none"
            BY <1>4, <2>3 DEF Execute, RefreshAll, At
        <3>2. CallsOK'
            BY <3>1 DEF CallsOK, RequestOK, NobodyCallsAtClose, Open
        <3>3. HeldOK'
            BY <2>1, <2>2, <2>3, <3>1
            DEF CallsOK, RequestOK, HeldOK, FreeIsNotHeld, ClosedIsNotHeld, Free, Releasing
        <3>4. QED BY <3>2, <3>3
    <2>4. CASE loop.rpc = "release"
        <3>1. loop'.pc = "select" /\ loop'.rpc = "none"
            BY <1>4, <2>4 DEF Execute, Released, At
        <3>2. \A g \in Handles :
                IdOf[g] \notin DOMAIN loop.request /\ user[g] = "releasing" => user'[g] = "releasing"
            BY <1>4, <2>4 DEF Execute, Released
        <3>3. CallsOK'
            BY <3>1 DEF CallsOK, RequestOK, NobodyCallsAtClose, Open
        <3>4. HeldOK'
            BY <2>1, <2>2, <2>4, <3>1, <3>2
            DEF CallsOK, RequestOK, HeldOK, FreeIsNotHeld, ClosedIsNotHeld, Free, Releasing
        <3>5. QED BY <3>3, <3>4
    <2>5. CASE loop.rpc = "close"
        <3>1. loop'.pc = "closed" /\ loop'.rpc = "none"
            BY <1>4, <2>5 DEF Execute, Released, At
        <3>2. \A g \in Handles : user[g] \notin {"claiming", "releasing"}
            BY <2>5 DEF CallsOK, NobodyCallsAtClose, Open
        <3>3. \A g \in Handles : user'[g] \notin {"claiming", "releasing"}
            BY <1>4, <2>5, <3>2 DEF Execute, Released
        <3>4. \A id \in Ids : held'[id] = 0
            BY <2>1, <2>2, <2>5, <3>2
            DEF CallsOK, RequestOK, HeldOK, FreeIsNotHeld, Free, Releasing
        <3>5. QED
            BY <3>1, <3>3, <3>4
            DEF CallsOK, RequestOK, NobodyCallsAtClose, HeldOK, FreeIsNotHeld, ClosedIsNotHeld
    <2>6. QED BY <2>2, <2>3, <2>4, <2>5 DEF TypeOK, CallsOK, RequestOK
<1>5. CASE Redirect
    BY <1>5 DEF Redirect, users, servers, CallsOK, RequestOK, NobodyCallsAtClose, Open,
                HeldOK, FreeIsNotHeld, ClosedIsNotHeld, Free, Releasing
<1>6. CASE ReleaseAtClose
    <2>1. /\ loop'.pc = "calling" /\ loop'.rpc = "close"
          /\ DOMAIN loop'.request = {IdOf[h] : h \in Registered}
          /\ \A id \in DOMAIN loop'.request : loop'.request[id] = 0
        BY <1>6 DEF ReleaseAtClose, Calling
    <2>2. user' = user /\ registry' = registry /\ held' = held /\ ~Open
        BY <1>6 DEF ReleaseAtClose, servers, Open
    <2>3. \A id \in Ids : registry[id] # None => id \in {IdOf[h] : h \in Registered}
        BY DEF TypeOK, Registered, Claimed
    <2>4. CallsOK'
        BY <2>1, <2>2, <2>3 DEF CallsOK, RequestOK, NobodyCallsAtClose
    <2>5. HeldOK'
        BY <2>1, <2>2 DEF HeldOK, FreeIsNotHeld, ClosedIsNotHeld, Free, Releasing
    <2>6. QED BY <2>4, <2>5
<1>7. QED BY <1>1, <1>2, <1>3, <1>4, <1>5, <1>6 DEF LoopStep, ServeUser

LEMMA WorldReleases ==
    ASSUME IInv,
           \/ TimerFires \/ TimerSends \/ RPCFails \/ Close
           \/ \E h \in Handles : Expire(h)
           \/ \E s \in Servers \cup {None} : Elect(s)
           \/ \E s \in Servers : Learn(s)
    PROVE  CallsOK' /\ HeldOK'
<1> USE DEF IInv
<1>1. user' = user /\ registry' = registry
    BY DEF TimerFires, TimerSends, RPCFails, Close, Expire, Elect, Learn, users
<1>2. CASE RPCFails
    <2>1. loop' = loop /\ loop.pc = "calling"
        BY <1>2 DEF RPCFails
    <2>2. \/ held' = held
          \/ \A id \in Ids : held'[id] = IF id \in DOMAIN loop.request THEN loop.request[id] ELSE held[id]
        BY <1>2 DEF RPCFails, Record
    <2>3. CallsOK'
        BY <1>1, <2>1 DEF CallsOK, RequestOK, NobodyCallsAtClose, Open
    <2>4. \A id \in Ids : Free(id) => (id \in DOMAIN loop.request => loop.request[id] = 0)
        <3>1. loop.rpc \in {"get", "release", "close"}
            BY <2>1 DEF TypeOK, CallsOK, RequestOK
        <3>2. QED BY <3>1 DEF CallsOK, RequestOK, Free
    <2>5. HeldOK'
        BY <1>1, <2>1, <2>2, <2>4 DEF HeldOK, FreeIsNotHeld, ClosedIsNotHeld, Free, Releasing
    <2>6. QED BY <2>3, <2>5
<1>3. CASE Close
    <2>1. /\ loop'.pc = "halted" /\ loop'.rpc = "none" /\ held' = held
          /\ \A h \in Handles : user[h] \notin {"claiming", "releasing"}
        BY <1>3 DEF Close, At, servers
    <2>2. QED
        BY <1>1, <2>1 DEF CallsOK, RequestOK, NobodyCallsAtClose, HeldOK, FreeIsNotHeld, ClosedIsNotHeld,
                          Free, Releasing
<1>4. ASSUME NEW s \in Servers \cup {None}, Elect(s) PROVE CallsOK' /\ HeldOK'
    <2>1. loop' = loop /\ \A id \in Ids : held'[id] = 0
        BY <1>4 DEF Elect
    <2>2. QED
        BY <1>1, <2>1 DEF CallsOK, RequestOK, NobodyCallsAtClose, Open, HeldOK, FreeIsNotHeld, ClosedIsNotHeld
<1>5. CASE \/ TimerFires \/ TimerSends \/ \E h \in Handles : Expire(h)
           \/ \E s \in Servers : Learn(s)
    <2>1. loop' = loop /\ held' = held
        BY <1>5 DEF TimerFires, TimerSends, Expire, Learn, servers
    <2>2. QED
        BY <1>1, <2>1 DEF CallsOK, RequestOK, NobodyCallsAtClose, Open, HeldOK, FreeIsNotHeld, ClosedIsNotHeld,
                          Free, Releasing
<1>6. QED BY <1>2, <1>3, <1>4, <1>5

\* The invariant of the loop's calls and of the master's record.
THEOREM CallsAndRecord == Spec => []IInv
<1>1. ASSUME IInv, TypeOK', [Next]_vars PROVE IInv'
    <2>1. CASE Next
        <3>1. CallsOK' /\ HeldOK'
            BY <1>1, <2>1, UsersRelease, LoopReleases, WorldReleases DEF Next
        <3>2. QED BY <1>1, <3>1 DEF IInv
    <2>2. CASE UNCHANGED vars
        BY <1>1, <2>2 DEF vars, IInv, TypeOK, CallsOK, RequestOK, NobodyCallsAtClose, Open,
                          HeldOK, FreeIsNotHeld, ClosedIsNotHeld, Free, Releasing
    <2>3. QED BY <1>1, <2>1, <2>2
<1>2. QED BY <1>1, InitReleased, TypeCorrect, PTL DEF Spec

\* When Release or Close has returned no capacity is left with the master, whatever
\* failed, was repeated or redirected, and however often the master changed.
THEOREM ReleasedIsFree == Spec => []ReleasedCapacityIsFree
BY CallsAndRecord, ReleasedByInvariant, PTL

-----------------------------------------------------------------------------
(* Claims are exclusive.  A handle whose user waits for its release is still  *)
(* registered, or the release is what the loop is calling for: otherwise the  *)
(* loop could take another user's claim away.                               *)

InRelease(h) == loop.rpc = "release" /\ IdOf[h] \in DOMAIN loop.request
ReleasesOwnClaim == \A h \in Handles : user[h] = "releasing" => Claimed(h) \/ InRelease(h)

ClaimsInv == ClaimsAreExclusive /\ ReleasesOwnClaim

LEMMA ClaimsStep ==
    ASSUME IInv, TypeOK, RequestOK, ClaimsInv, Next
    PROVE  ClaimsInv'
<1> USE DEF ClaimsInv
<1>1. \A h \in Handles : IdOf[h] \in Ids /\ h # None
    BY DEF Ids
<1>2. ASSUME NEW h \in Handles, AddResource(h) PROVE ClaimsInv'
    <2>1. loop.rpc = "none"
        BY <1>2 DEF AddResource, RequestOK
    <2>2. \A g \in Handles : user[g] \in {"claimed", "releasing"} => Claimed(g)
        BY <2>1 DEF ClaimsAreExclusive, ReleasesOwnClaim, InRelease
    <2>3. CASE registry[IdOf[h]] = None
        <3>1. \A g \in Handles : user[g] \in {"claimed", "releasing"} => IdOf[g] # IdOf[h]
            BY <1>1, <2>2, <2>3 DEF Claimed
        <3>2. Accept(h)
            BY <1>2, <2>3 DEF AddResource
        <3>3. \A g \in Handles : user'[g] \in {"claimed", "releasing"} => registry'[IdOf[g]] = g
            BY <1>1, <2>2, <3>1, <3>2 DEF Accept, TypeOK, Claimed
        <3>4. QED BY <3>3 DEF ClaimsAreExclusive, ReleasesOwnClaim, Claimed
    <2>4. CASE registry[IdOf[h]] # None
        <3>1. Refuse(h)
            BY <1>2, <2>4 DEF AddResource
        <3>2. \A g \in Handles : user'[g] \in {"claimed", "releasing"} => registry'[IdOf[g]] = g
            BY <2>2, <3>1 DEF Refuse, TypeOK, Claimed
        <3>3. QED BY <3>2 DEF ClaimsAreExclusive, ReleasesOwnClaim, Claimed
    <2>5. QED BY <2>3, <2>4
<1>3. ASSUME NEW h \in Handles, RemoveResource(h) PROVE ClaimsInv'
    <2>1. loop.rpc = "none" /\ user[h] = "releasing" /\ user' = user
        BY <1>3 DEF RemoveResource, RequestOK
    <2>2. Claimed(h)
        BY <2>1 DEF ReleasesOwnClaim, InRelease
    <2>3. loop'.rpc = "release" /\ DOMAIN loop'.request = {IdOf[h]}
        BY <1>3 DEF RemoveResource, Calling
    <2>4. \A g \in Handles : IdOf[g] # IdOf[h] => registry'[IdOf[g]] = registry[IdOf[g]]
        BY <1>1, <1>3 DEF RemoveResource, TypeOK
    <2>5. ClaimsAreExclusive'
        BY <2>1, <2>2, <2>4 DEF ClaimsAreExclusive, Claimed
    <2>6. ReleasesOwnClaim'
        BY <2>1, <2>3, <2>4 DEF ReleasesOwnClaim, InRelease, Claimed
    <2>7. QED BY <2>5, <2>6
<1>4. CASE Execute
    <2>1. registry' = registry
        BY <1>4 DEF Execute, RefreshAll, Released
    <2>2. CASE loop.rpc = "get"
        <3>1. user' = user
            BY <1>4, <2>2 DEF Execute, RefreshAll
        <3>2. QED BY <2>1, <2>2, <3>1 DEF ClaimsAreExclusive, ReleasesOwnClaim, InRelease, Claimed
    <2>3. CASE loop.rpc # "get"
        <3>1. \A g \in Handles :
                user'[g] = IF user[g] = "releasing" /\ IdOf[g] \in DOMAIN loop.request /\ ~Claimed(g)
                           THEN "released" ELSE user[g]
            BY <1>4, <2>3 DEF Execute, Released
        <3>2. QED BY <2>1, <3>1 DEF ClaimsAreExclusive, ReleasesOwnClaim, InRelease, Claimed
    <2>4. QED BY <2>2, <2>3
<1>5. ASSUME NEW h \in Handles, AskForRelease(h) PROVE ClaimsInv'
    BY <1>5 DEF AskForRelease, TypeOK, ClaimsAreExclusive, ReleasesOwnClaim, InRelease, Claimed
<1>6. ASSUME NEW h \in Handles, Claim(h) PROVE ClaimsInv'
    BY <1>6 DEF Claim, TypeOK, ClaimsAreExclusive, ReleasesOwnClaim, InRelease, Claimed
<1>7. CASE WakeUp \/ StopTimer \/ Close \/ ReleaseAtClose
    <2>1. loop.rpc = "none" /\ user' = user /\ registry' = registry
        BY <1>7 DEF WakeUp, StopTimer, Close, ReleaseAtClose, RequestOK, users
    <2>2. QED BY <2>1 DEF ClaimsAreExclusive, ReleasesOwnClaim, InRelease, Claimed
<1>8. ASSUME user' = user, registry' = registry, loop' = loop PROVE ClaimsInv'
    BY <1>8 DEF ClaimsAreExclusive, ReleasesOwnClaim, InRelease, Claimed
<1>9. CASE Redirect \/ TimerFires \/ TimerSends \/ RPCFails
    BY <1>8, <1>9 DEF Redirect, TimerFires, TimerSends, RPCFails, users
<1>10. CASE \/ \E h \in Handles : Ask(h) \/ Receive(h) \/ Expire(h)
            \/ \E s \in Servers \cup {None} : Elect(s)
            \/ \E s \in Servers : Learn(s)
    BY <1>8, <1>10 DEF Ask, Receive, Expire, Elect, Learn, users
<1>11. QED
    BY <1>2, <1>3, <1>4, <1>5, <1>6, <1>7, <1>9, <1>10 DEF Next, LoopStep, ServeUser

\* An accepted claim is the registered one until its own user releases it, whatever
\* others claim or release.
THEOREM ClaimsExclusive == Spec => []ClaimsAreExclusive
<1>1. Init => ClaimsInv
    BY DEF Init, ClaimsInv, ClaimsAreExclusive, ReleasesOwnClaim
<1>2. ASSUME IInv, ClaimsInv, [Next]_vars PROVE ClaimsInv'
    <2>1. TypeOK /\ RequestOK
        BY <1>2 DEF IInv, CallsOK
    <2>2. CASE Next
        BY <1>2, <2>1, <2>2, ClaimsStep
    <2>3. CASE UNCHANGED vars
        BY <1>2, <2>3 DEF vars, ClaimsInv, ClaimsAreExclusive, ReleasesOwnClaim, InRelease, Claimed
    <2>4. QED BY <1>2, <2>2, <2>3
<1>3. ClaimsInv => ClaimsAreExclusive
    BY DEF ClaimsInv
<1>4. QED BY <1>1, <1>2, <1>3, CallsAndRecord, PTL DEF Spec

-----------------------------------------------------------------------------
(* Wake-ups are timely.  While the loop refreshes there is no timer, so that  *)
(* arming the next one finds the channel empty.                             *)

NoTimerInRefresh == loop.rpc = "get" => timer = "none"
TimerInv == WakeUpsAreTimely /\ NoTimerInRefresh

LEMMA InitTimer == Init => TimerInv
BY DEF Init, At, TimerInv, WakeUpsAreTimely, NoTimerInRefresh

LEMMA TimerStep ==
    ASSUME TypeOK, RequestOK, TimerInv, Next
    PROVE  TimerInv'
<1> USE DEF TimerInv, WakeUpsAreTimely, NoTimerInRefresh
<1>1. ASSUME NEW h \in Handles, Claim(h) \/ AskForRelease(h) \/ Ask(h) \/ Receive(h) \/ Expire(h)
      PROVE TimerInv'
    BY <1>1 DEF Claim, AskForRelease, Ask, Receive, Expire, clock
<1>2. ASSUME NEW h \in Handles, AddResource(h) \/ RemoveResource(h)
      PROVE TimerInv'
    BY <1>2 DEF AddResource, RemoveResource, At, Calling, clock
<1>3. CASE WakeUp
    BY <1>3 DEF WakeUp, Calling
<1>4. CASE StopTimer
    BY <1>4 DEF StopTimer, Calling, TypeOK
<1>5. CASE Execute
    <2>1. CASE loop.rpc = "get"
        <3>1. timer' = "armed" /\ wakeUp' = wakeUp /\ loop' = At("select")
            BY <1>5, <2>1 DEF Execute, RefreshAll
        <3>2. QED BY <2>1, <3>1 DEF At
    <2>2. CASE loop.rpc # "get"
        <3>1. Released
            BY <1>5, <2>2 DEF Execute
        <3>2. timer' = timer /\ wakeUp' = wakeUp /\ loop'.rpc = "none"
            BY <3>1 DEF Released, At, clock
        <3>3. QED BY <3>2
    <2>3. QED BY <2>1, <2>2
<1>6. CASE Redirect \/ RPCFails
    BY <1>6 DEF Redirect, RPCFails, clock
<1>7. CASE ReleaseAtClose \/ Close
    BY <1>7 DEF ReleaseAtClose, Close, Calling, At, clock
<1>8. CASE TimerFires \/ TimerSends
    BY <1>8 DEF TimerFires, TimerSends
<1>9. ASSUME (\E s \in Servers \cup {None} : Elect(s)) \/ \E s \in Servers : Learn(s)
      PROVE TimerInv'
    BY <1>9 DEF Elect, Learn, clock
<1>10. QED
    BY <1>1, <1>2, <1>3, <1>4, <1>5, <1>6, <1>7, <1>8, <1>9 DEF Next, LoopStep, ServeUser

\* The loop never refreshes for a timer that it has stopped, and misses no wake-up,
\* however the timer's goroutine and the loop interleave.
THEOREM TimelyWakeUps == Spec => []WakeUpsAreTimely
<1>1. ASSUME TypeOK, IInv, TimerInv, [Next]_vars PROVE TimerInv'
    <2>1. CASE Next
        BY <1>1, <2>1, TimerStep DEF IInv, CallsOK
    <2>2. CASE UNCHANGED vars
        BY <1>1, <2>2 DEF vars, TimerInv, WakeUpsAreTimely, NoTimerInRefresh
    <2>3. QED BY <1>1, <2>1, <2>2
<1>2. TimerInv => WakeUpsAreTimely
    BY DEF TimerInv
<1>3. QED BY <1>1, <1>2, InitTimer, TypeCorrect, CallsAndRecord, PTL DEF Spec

=============================================================================
