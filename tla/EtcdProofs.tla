------------------------------ MODULE EtcdProofs ------------------------------
(***************************************************************************)
(* What the two users of etcd keep true: the election, and the source of    *)
(* the configuration.                                                       *)
(*                                                                         *)
(* There is one master at most, for every number of servers and faults, if  *)
(* a renewal is sent and applied before the key expires.  That a master     *)
(* holds the key is not inductive: the key must also last until the server  *)
(* has renewed it or has learned that it could not, which is what KeyLasts  *)
(* says of each phase of the campaign.                                      *)
(*                                                                         *)
(* A server's configuration is never replaced by an older one, for any      *)
(* number of writes and failures: what is on its way to the server is in    *)
(* the order in which it was written, in any of the places where it may be. *)
(***************************************************************************)
EXTENDS Election, ConfigSource, TLAPS

\* The key of election.go:144-161 outlives the answer of the RPC that set it,
\* the sleep of a third of its life and the RPC that renews it.
RenewalsInTime == 2 * MaxRPC + Third < Delay

\* What is left of the life of a key that the server of campaign c holds.
KeyLasts(c) ==
    /\ c.result = "ok" => ttl >= Delay - c.clock
    /\ c.pc = "sleeping" => ttl >= Delay - MaxRPC - Third + c.clock
    /\ c.pc = "renewing" => ttl >= Delay - MaxRPC - Third - c.clock

\* What TypeOK says of a campaign.
Campaigns == [pc : Phases, clock : 0 .. Delay + MaxRPC, result : {"none", "ok", "failed"}]

\* A server that set the key, or was told that it is the master, holds the key.
Holds(s) ==
    /\ isMaster[s] => campaign[s].pc \in {"sleeping", "renewing"}
    /\ isMaster[s] \/ campaign[s].result = "ok" => lock = s /\ KeyLasts(campaign[s])

InTime == \A s \in Servers :
    /\ Calling(s) => campaign[s].clock <= MaxRPC
    /\ ~Calling(s) => campaign[s].result = "none"

IInv == TypeOK /\ InTime /\ \A s \in Servers : Holds(s)

-----------------------------------------------------------------------------

(* The constants are numbers.                                               *)
LEMMA Numbers == Delay \in Nat /\ Third \in Nat /\ Third > 0 /\ Third <= Delay /\ MaxRPC \in Nat
BY DelayAssumption, MaxRPCAssumption DEF Third

(* The parts of a campaign.                                                 *)
LEMMA CampaignType ==
    ASSUME TypeOK, NEW s \in Servers
    PROVE  /\ campaign[s].pc \in Phases
           /\ campaign[s].clock \in 0 .. Delay + MaxRPC
           /\ campaign[s].result \in {"none", "ok", "failed"}
           /\ campaign[s] = [pc |-> campaign[s].pc, clock |-> campaign[s].clock,
                             result |-> campaign[s].result]
BY DEF TypeOK

(* The parts of a campaign after a step of each kind.                       *)
LEMMA CampaignParts ==
    /\ \A pc, n : At(pc, n).pc = pc /\ At(pc, n).clock = n /\ At(pc, n).result = "none"
    /\ \A c, r : /\ Answer(c, r).pc = c.pc /\ Answer(c, r).clock = c.clock
                 /\ Answer(c, r).result = r
    /\ \A c : /\ Advance(c).pc = c.pc /\ Advance(c).result = c.result
              /\ c.pc \in {"trying", "renewing"} => Advance(c).clock = c.clock + 1
              /\ c.pc \in {"resting", "sleeping"} => Advance(c).clock = c.clock - 1
              /\ c.pc = "down" => Advance(c).clock = c.clock
BY DEF At, Answer, Advance, ClockAt

(* The waits and calls that the goroutine starts are campaigns.             *)
LEMMA AtType ==
    /\ At("sleeping", Third) \in Campaigns /\ At("resting", Delay) \in Campaigns
    /\ At("trying", 0) \in Campaigns /\ At("renewing", 0) \in Campaigns
    /\ At("down", 0) \in Campaigns
<1>1. Third \in 0 .. Delay + MaxRPC /\ Delay \in 0 .. Delay + MaxRPC /\ 0 \in 0 .. Delay + MaxRPC
    BY Numbers
<1> QED BY <1>1 DEF At, Campaigns, Phases

(* What the goroutine does of its own accord starts a wait or a call.       *)
LEMMA OwnSteps ==
    ASSUME TypeOK, NEW s \in Servers,
           WinElection(s) \/ RestAfterDefeat(s) \/ StayMaster(s) \/ LoseElection(s)
           \/ TryAgain(s) \/ Renew(s) \/ Crash(s) \/ Restart(s)
    PROVE  \E c \in {At("sleeping", Third), At("resting", Delay), At("trying", 0),
                     At("renewing", 0), At("down", 0)} :
               campaign' = [campaign EXCEPT ![s] = c]
BY DEF WinElection, RestAfterDefeat, StayMaster, LoseElection, TryAgain, Renew, Crash, Restart

(* A queue of events stays one when an event is added.                      *)
LEMMA NotifyType ==
    ASSUME TypeOK, NEW v \in Servers \cup {None}, Notify(v)
    PROVE  events' \in [Servers -> Seq(Servers \cup {None})]
BY DEF TypeOK, Notify

(* It stays one when one is taken, and the one taken is a value of the key. *)
LEMMA TakenType ==
    ASSUME TypeOK, NEW s \in Servers, events[s] # <<>>
    PROVE  /\ Head(events[s]) \in Servers \cup {None}
           /\ [events EXCEPT ![s] = Tail(@)] \in [Servers -> Seq(Servers \cup {None})]
<1>1. events[s] \in Seq(Servers \cup {None}) BY DEF TypeOK
<1>2. Tail(events[s]) \in Seq(Servers \cup {None}) /\ Head(events[s]) \in Servers \cup {None}
    BY <1>1
<1> QED BY <1>2 DEF TypeOK

(* A server none of whose state changes holds the key if it did.            *)
LEMMA HoldsStill ==
    ASSUME NEW s \in Servers, Holds(s),
           campaign'[s] = campaign[s], isMaster'[s] = isMaster[s],
           isMaster[s] \/ campaign[s].result = "ok" => lock' = lock /\ ttl' = ttl
    PROVE  Holds(s)'
BY DEF Holds, KeyLasts

(* Types: every action keeps every variable in its type.                    *)
LEMMA TypeInductive ==
    ASSUME TypeOK, InTime, [Next]_vars
    PROVE  TypeOK'
<1>0. CASE UNCHANGED vars
    BY <1>0 DEF TypeOK, vars
<1> SUFFICES ASSUME Next PROVE TypeOK'
    BY <1>0
<1> USE Numbers
<1>1. ASSUME NEW s \in Servers, Apply(s) PROVE TypeOK'
    <2>1. MaySet(s) => events' \in [Servers -> Seq(Servers \cup {None})]
        BY <1>1, NotifyType DEF Apply
    <2>2. campaign' \in [Servers -> Campaigns]
        BY <1>1 DEF Apply, Answer, Campaigns, TypeOK
    <2>3. events' \in [Servers -> Seq(Servers \cup {None})]
        BY <1>1, <2>1 DEF Apply, TypeOK
    <2>4. lock' \in Servers \cup {None} /\ ttl' \in 0 .. Delay
        BY <1>1 DEF Apply, TypeOK
    <2> QED BY <1>1, <2>2, <2>3, <2>4 DEF Apply, Campaigns, TypeOK, watches
<1>2. ASSUME NEW s \in Servers, RPCFails(s) PROVE TypeOK'
    <2>1. campaign' \in [Servers -> Campaigns]
        BY <1>2 DEF RPCFails, Answer, Campaigns, TypeOK
    <2>2. faults' \in 0 .. MaxFaults
        BY <1>2, MaxFaultsAssumption DEF RPCFails, Fault, TypeOK
    <2> QED BY <1>2, <2>1, <2>2 DEF RPCFails, Campaigns, TypeOK, watches
<1>3. ASSUME Expire PROVE TypeOK'
    <2>1. events' \in [Servers -> Seq(Servers \cup {None})]
        BY <1>3, NotifyType DEF Expire
    <2> QED BY <1>3, <2>1 DEF Expire, Campaigns, TypeOK, watches
<1>4. ASSUME NEW s \in Servers,
             WinElection(s) \/ RestAfterDefeat(s) \/ StayMaster(s) \/ LoseElection(s)
             \/ TryAgain(s) \/ Renew(s)
      PROVE  TypeOK'
    <2>1. campaign' \in [Servers -> Campaigns]
        <3>1. PICK c \in {At("sleeping", Third), At("resting", Delay), At("trying", 0),
                          At("renewing", 0), At("down", 0)} : campaign' = [campaign EXCEPT ![s] = c]
            BY <1>4, OwnSteps
        <3>2. c \in Campaigns
            BY AtType
        <3> QED BY <3>1, <3>2 DEF Campaigns, TypeOK
    <2>2. isMaster' \in [Servers -> BOOLEAN]
        BY <1>4 DEF WinElection, RestAfterDefeat, StayMaster, LoseElection, TryAgain, Renew, TypeOK
    <2>3. UNCHANGED <<lock, ttl, events, watches, faults>>
        BY <1>4 DEF WinElection, RestAfterDefeat, StayMaster, LoseElection, TryAgain, Renew
    <2> QED BY <2>1, <2>2, <2>3 DEF Campaigns, TypeOK, watches
<1>5. ASSUME NEW s \in Servers, SeeEvent(s) PROVE TypeOK'
    <2>1. /\ Head(events[s]) \in Servers \cup {None}
          /\ events' \in [Servers -> Seq(Servers \cup {None})]
        BY <1>5, TakenType DEF SeeEvent
    <2>2. /\ last' \in [Servers -> Servers \cup {None}]
          /\ current' \in [Servers -> Servers \cup {None}]
        BY <1>5, <2>1 DEF SeeEvent, TypeOK
    <2> QED BY <1>5, <2>1, <2>2 DEF SeeEvent, TypeOK
<1>6. ASSUME NEW s \in Servers, WatchFails(s) PROVE TypeOK'
    <2>1. faults' \in 0 .. MaxFaults
        BY <1>6, MaxFaultsAssumption DEF WatchFails, Fault, TypeOK
    <2> QED BY <1>6, <2>1 DEF WatchFails, TypeOK
<1>7. ASSUME NEW s \in Servers, Crash(s) PROVE TypeOK'
    <2>1. faults' \in 0 .. MaxFaults
        BY <1>7, MaxFaultsAssumption DEF Crash, Fault, TypeOK
    <2>2. campaign' \in [Servers -> Campaigns]
        BY <1>7, AtType DEF Crash, Campaigns, TypeOK
    <2>3. events' \in [Servers -> Seq(Servers \cup {None})]
        BY <1>7 DEF Crash, TypeOK
    <2> QED BY <1>7, <2>1, <2>2, <2>3 DEF Crash, Campaigns, TypeOK
<1>8. ASSUME NEW s \in Servers, Restart(s) PROVE TypeOK'
    <2>1. campaign' \in [Servers -> Campaigns]
        BY <1>8, AtType DEF Restart, Campaigns, TypeOK
    <2> QED BY <1>8, <2>1 DEF Restart, Campaigns, TypeOK, watches
<1>9. ASSUME ClockTick PROVE TypeOK'
    <2>1. ASSUME NEW s \in Servers
          PROVE  Advance(campaign[s]) \in Campaigns
        <3>0. campaign[s].clock \in 0 .. Delay + MaxRPC /\ campaign[s].pc \in Phases
            BY CampaignType
        <3>1. /\ Calling(s) => campaign[s].clock < MaxRPC
              /\ campaign[s].pc \in {"resting", "sleeping"} => campaign[s].clock > 0
            BY <1>9, <3>0 DEF ClockTick, MayWait
        <3>2. Advance(campaign[s]).clock \in 0 .. Delay + MaxRPC
            BY <3>0, <3>1 DEF Advance, ClockAt, Calling, Phases
        <3>3. Advance(campaign[s]) = [pc |-> Advance(campaign[s]).pc,
                  clock |-> Advance(campaign[s]).clock, result |-> Advance(campaign[s]).result]
            BY DEF Advance, ClockAt
        <3> QED BY <3>2, <3>3, CampaignType, CampaignParts DEF Campaigns
    <2>2. campaign' \in [Servers -> Campaigns]
        BY <1>9, <2>1 DEF ClockTick
    <2>3. ttl' \in 0 .. Delay /\ pause' \in [Servers -> 0 .. Delay]
        BY <1>9 DEF ClockTick, Down, TypeOK
    <2> QED BY <1>9, <2>2, <2>3 DEF ClockTick, Campaigns, TypeOK
<1> QED BY <1>1, <1>2, <1>3, <1>4, <1>5, <1>6, <1>7, <1>8, <1>9 DEF Next, Process

(* The RPCs stay in time, and only one that is under way has a result.      *)
LEMMA InTimeInductive ==
    ASSUME TypeOK, InTime, [Next]_vars
    PROVE  InTime'
<1>0. CASE UNCHANGED vars
    BY <1>0 DEF InTime, Calling, vars
<1> SUFFICES ASSUME Next, NEW s \in Servers
             PROVE  /\ Calling(s)' => campaign'[s].clock <= MaxRPC
                    /\ ~Calling(s)' => campaign'[s].result = "none"
    BY <1>0 DEF InTime
<1> USE Numbers, CampaignType
<1>1. ASSUME NEW t \in Servers, Apply(t) \/ RPCFails(t)
      PROVE  /\ Calling(s)' => campaign'[s].clock <= MaxRPC
             /\ ~Calling(s)' => campaign'[s].result = "none"
    <2>1. Calling(t) /\ \E r : campaign' = [campaign EXCEPT ![t] = Answer(campaign[t], r)]
        BY <1>1 DEF Apply, RPCFails
    <2>2. campaign'[s].pc = campaign[s].pc /\ campaign'[s].clock = campaign[s].clock
        BY <2>1, CampaignParts DEF TypeOK
    <2>3. ~Calling(s) => campaign'[s] = campaign[s]
        BY <2>1 DEF TypeOK
    <2> QED BY <2>2, <2>3 DEF InTime, Calling
<1>2. ASSUME NEW t \in Servers,
             WinElection(t) \/ RestAfterDefeat(t) \/ StayMaster(t) \/ LoseElection(t)
             \/ TryAgain(t) \/ Renew(t) \/ Crash(t) \/ Restart(t)
      PROVE  /\ Calling(s)' => campaign'[s].clock <= MaxRPC
             /\ ~Calling(s)' => campaign'[s].result = "none"
    <2>1. \/ campaign'[s] = campaign[s]
          \/ campaign'[s].result = "none" /\ campaign'[s].clock = 0
          \/ campaign'[s].result = "none" /\ campaign'[s].pc \in {"resting", "sleeping"}
        <3>1. PICK c \in {At("sleeping", Third), At("resting", Delay), At("trying", 0),
                          At("renewing", 0), At("down", 0)} : campaign' = [campaign EXCEPT ![t] = c]
            BY <1>2, OwnSteps
        <3>2. campaign'[s] = campaign[s] \/ campaign'[s] = c
            BY <3>1 DEF TypeOK
        <3> QED BY <3>2 DEF At
    <2> QED BY <2>1 DEF InTime, Calling
<1>3. ASSUME NEW t \in Servers, SeeEvent(t) \/ WatchFails(t) \/ Expire
      PROVE  /\ Calling(s)' => campaign'[s].clock <= MaxRPC
             /\ ~Calling(s)' => campaign'[s].result = "none"
    BY <1>3 DEF SeeEvent, WatchFails, Expire, InTime, Calling
<1>4. ASSUME ClockTick
      PROVE  /\ Calling(s)' => campaign'[s].clock <= MaxRPC
             /\ ~Calling(s)' => campaign'[s].result = "none"
    <2>1. campaign'[s] = Advance(campaign[s]) /\ (Calling(s) => campaign[s].clock < MaxRPC)
        BY <1>4 DEF ClockTick, MayWait
    <2>2. campaign[s].clock \in Int
        BY DEF TypeOK
    <2> QED BY <2>1, <2>2 DEF Advance, ClockAt, InTime, Calling
<1> QED BY <1>1, <1>2, <1>3, <1>4 DEF Next, Process

(* Who holds the key keeps it until it has learned that it could not renew  *)
(* it.                                                                      *)
LEMMA HoldsInductive ==
    ASSUME RenewalsInTime, IInv, [Next]_vars, NEW s \in Servers
    PROVE  Holds(s)'
<1> USE Numbers, CampaignType
<1>0. CASE UNCHANGED vars
    BY <1>0, HoldsStill DEF IInv, vars
<1> SUFFICES ASSUME Next PROVE Holds(s)'
    BY <1>0
<1>H. /\ Holds(s) /\ TypeOK
      /\ Calling(s) => campaign[s].clock <= MaxRPC
      /\ ~Calling(s) => campaign[s].result = "none"
    BY DEF IInv, InTime
<1>T. ttl \in Int /\ campaign[s].clock \in Int
    BY <1>H DEF TypeOK
<1>P. isMaster[s] \/ campaign[s].result = "ok" => ttl > 0
    BY <1>H, <1>T DEF Holds, KeyLasts, RenewalsInTime, Calling, TypeOK
<1>1. ASSUME NEW t \in Servers, Apply(t) PROVE Holds(s)'
    <2>1. CASE s = t
        <3>1. /\ campaign'[s] = Answer(campaign[s], IF MaySet(s) THEN "ok" ELSE "failed")
              /\ isMaster'[s] = isMaster[s] /\ Calling(s) /\ campaign[s].result = "none"
              /\ MaySet(s) => lock' = s /\ ttl' = Delay
            BY <1>1, <1>H, <2>1 DEF Apply, TypeOK
        <3>2. isMaster[s] => MaySet(s)
            BY <1>H DEF Holds, MaySet
        <3>3. /\ campaign'[s].pc = campaign[s].pc /\ campaign'[s].clock = campaign[s].clock
              /\ campaign'[s].result = IF MaySet(s) THEN "ok" ELSE "failed"
            BY <3>1, CampaignParts
        <3>4. CASE MaySet(s)
            <4>1. lock' = s /\ ttl' = Delay /\ campaign[s].clock >= 0
                BY <1>H, <3>1, <3>4 DEF TypeOK
            <4>2. campaign'[s].pc # "sleeping"
                BY <3>1, <3>3 DEF Calling
            <4>3. /\ ttl' >= Delay - campaign'[s].clock
                  /\ ttl' >= Delay - MaxRPC - Third - campaign'[s].clock
                BY <1>T, <3>3, <4>1
            <4> QED BY <1>H, <3>1, <3>3, <4>1, <4>2, <4>3 DEF Holds, KeyLasts
        <3>5. CASE ~MaySet(s)
            BY <1>H, <3>1, <3>2, <3>3, <3>5 DEF Holds
        <3> QED BY <3>4, <3>5
    <2>2. CASE s # t
        <3>1. campaign'[s] = campaign[s] /\ isMaster'[s] = isMaster[s]
            BY <1>1, <1>H, <2>2 DEF Apply, TypeOK
        <3>2. isMaster[s] \/ campaign[s].result = "ok" => ~MaySet(t)
            BY <1>1, <1>H, <2>2, NoneAssumption DEF Holds, MaySet
        <3>3. isMaster[s] \/ campaign[s].result = "ok" => lock' = lock /\ ttl' = ttl
            BY <1>1, <3>2 DEF Apply
        <3> QED BY <1>H, <3>1, <3>3, HoldsStill
    <2> QED BY <2>1, <2>2
<1>2. ASSUME NEW t \in Servers, RPCFails(t) PROVE Holds(s)'
    <2>1. CASE s = t
        <3>1. /\ campaign'[s] = Answer(campaign[s], "failed")
              /\ isMaster'[s] = isMaster[s] /\ Calling(s) /\ lock' = lock /\ ttl' = ttl
            BY <1>2, <1>H, <2>1 DEF RPCFails, TypeOK
        <3> QED BY <1>H, <1>T, <3>1 DEF Holds, KeyLasts, Answer, Calling
    <2>2. CASE s # t
        BY <1>2, <1>H, <2>2, HoldsStill DEF RPCFails, TypeOK
    <2> QED BY <2>1, <2>2
<1>3. ASSUME Expire PROVE Holds(s)'
    BY <1>3, <1>H, <1>P, HoldsStill DEF Expire
<1>4. ASSUME NEW t \in Servers,
             WinElection(t) \/ RestAfterDefeat(t) \/ StayMaster(t) \/ LoseElection(t)
             \/ TryAgain(t) \/ Renew(t) \/ Crash(t) \/ Restart(t)
      PROVE  Holds(s)'
    <2>0. lock' = lock /\ ttl' = ttl
        BY <1>4 DEF WinElection, RestAfterDefeat, StayMaster, LoseElection, TryAgain, Renew,
                    Crash, Restart
    <2>1. CASE s # t
        <3>1. campaign'[s] = campaign[s] /\ isMaster'[s] = isMaster[s]
            BY <1>4, <1>H, <2>1 DEF WinElection, RestAfterDefeat, StayMaster, LoseElection,
                                    TryAgain, Renew, Crash, Restart, TypeOK
        <3> QED BY <1>H, <2>0, <3>1, HoldsStill
    <2>2. CASE s = t /\ (WinElection(t) \/ StayMaster(t))
        <3>1. /\ campaign'[s] = At("sleeping", Third) /\ Calling(s)
              /\ campaign[s].result = "ok"
            BY <1>H, <2>2 DEF WinElection, StayMaster, Calling, TypeOK
        <3>2. lock = s /\ ttl >= Delay - MaxRPC
            BY <1>H, <1>T, <3>1 DEF Holds, KeyLasts
        <3>3. campaign'[s].pc = "sleeping" /\ campaign'[s].clock = Third /\ campaign'[s].result = "none"
            BY <3>1 DEF At
        <3> QED BY <1>T, <2>0, <3>2, <3>3 DEF Holds, KeyLasts
    <2>3. CASE s = t /\ Renew(t)
        <3>1. /\ campaign'[s] = At("renewing", 0) /\ isMaster'[s] = isMaster[s]
              /\ campaign[s].pc = "sleeping" /\ campaign[s].clock = 0
            BY <1>H, <2>3 DEF Renew, TypeOK
        <3>2. isMaster[s] => lock = s /\ ttl >= Delay - MaxRPC - Third
            BY <1>H, <1>T, <3>1 DEF Holds, KeyLasts
        <3>3. campaign'[s].pc = "renewing" /\ campaign'[s].clock = 0 /\ campaign'[s].result = "none"
            BY <3>1 DEF At
        <3> QED BY <1>T, <2>0, <3>1, <3>2, <3>3 DEF Holds, KeyLasts
    <2>4. CASE s = t /\ (RestAfterDefeat(t) \/ LoseElection(t) \/ TryAgain(t) \/ Crash(t) \/ Restart(t))
        <3>1. ~isMaster'[s] /\ campaign'[s].result = "none"
            BY <1>H, <2>4 DEF RestAfterDefeat, LoseElection, TryAgain, Crash, Restart, At, TypeOK, Holds
        <3> QED BY <3>1 DEF Holds
    <2> QED BY <1>4, <2>1, <2>2, <2>3, <2>4
<1>5. ASSUME NEW t \in Servers, SeeEvent(t) \/ WatchFails(t) PROVE Holds(s)'
    BY <1>5, <1>H, HoldsStill DEF SeeEvent, WatchFails
<1>6. ASSUME ClockTick PROVE Holds(s)'
    <2>1. /\ campaign'[s] = Advance(campaign[s]) /\ isMaster'[s] = isMaster[s] /\ lock' = lock
          /\ ttl' = Down(ttl)
        BY <1>6 DEF ClockTick
    <2>2. isMaster[s] \/ campaign[s].result = "ok" => ttl' = ttl - 1
        BY <1>P, <2>1 DEF Down
    <2>3. campaign[s].result = "ok" => Calling(s)
        BY <1>H
    <2> QED BY <1>H, <1>T, <2>1, <2>2, <2>3 DEF Holds, KeyLasts, Advance, ClockAt, Calling
<1> QED BY <1>1, <1>2, <1>3, <1>4, <1>5, <1>6 DEF Next, Process

(* The initial state satisfies the invariant.                               *)
LEMMA IInvInitially == Init => IInv
BY Numbers, MaxFaultsAssumption
   DEF Init, IInv, TypeOK, InTime, Holds, KeyLasts, At, Phases, Calling

(* The types are right in every state, whatever the timing.                 *)
THEOREM TypeCorrect == Spec => []TypeOK
<1>1. Init => TypeOK /\ InTime
    BY IInvInitially DEF IInv
<1>2. (TypeOK /\ InTime) /\ [Next]_vars => (TypeOK /\ InTime)'
    BY TypeInductive, InTimeInductive
<1> QED BY <1>1, <1>2, PTL DEF Spec

(* If the renewals are in time a master holds the key (election.go:144-161). *)
THEOREM MastersHold == RenewalsInTime => (Spec => []MastersHoldTheLock)
<1> SUFFICES ASSUME RenewalsInTime PROVE Spec => []MastersHoldTheLock
    OBVIOUS
<1>1. IInv /\ [Next]_vars => IInv'
    BY TypeInductive, InTimeInductive, HoldsInductive DEF IInv
<1>2. IInv => MastersHoldTheLock
    BY DEF IInv, Holds, MastersHoldTheLock
<1> QED BY IInvInitially, <1>1, <1>2, PTL DEF Spec

(* ... and there is one master at most, on the channel of election.go:32-35. *)
THEOREM OneMaster == RenewalsInTime => (Spec => []AtMostOneMaster)
<1> SUFFICES ASSUME RenewalsInTime PROVE Spec => []AtMostOneMaster
    OBVIOUS
<1>1. MastersHoldTheLock => AtMostOneMaster
    BY DEF MastersHoldTheLock, AtMostOneMaster
<1>2. Spec => []MastersHoldTheLock
    BY MastersHold
<1> QED BY <1>1, <1>2, PTL

\* Before the first fault no master is refused: what may cost it mastership.
NoneRefused == faults = 0 => \A s \in Servers : isMaster[s] => campaign[s].result # "failed"

(* Only a fault refuses a master: the key it renews is its own.             *)
LEMMA NoneRefusedInductive ==
    ASSUME IInv, NoneRefused, [Next]_vars
    PROVE  NoneRefused'
<1>0. TypeOK /\ faults \in Nat
    BY DEF IInv, TypeOK
<1> SUFFICES ASSUME NEW s \in Servers, faults' = 0, isMaster'[s]
             PROVE  campaign'[s].result # "failed"
    BY DEF NoneRefused
<1>U. CASE UNCHANGED vars
    BY <1>U DEF NoneRefused, vars
<1>1. CASE \E t \in Servers : RPCFails(t) \/ WatchFails(t) \/ Crash(t)
    BY <1>0, <1>1 DEF RPCFails, WatchFails, Crash, Fault
<1>2. ASSUME NEW t \in Servers, Apply(t) PROVE campaign'[s].result # "failed"
    <2>1. /\ Calling(t) /\ isMaster[s] /\ faults = 0
          /\ campaign' = [campaign EXCEPT ![t] =
                             Answer(campaign[t], IF MaySet(t) THEN "ok" ELSE "failed")]
        BY <1>2 DEF Apply
    <2>2. CASE s = t
        <3>1. MaySet(s)
            BY <2>1, <2>2 DEF IInv, Holds, MaySet
        <3> QED BY <1>0, <2>1, <2>2, <3>1, CampaignParts DEF TypeOK
    <2>3. CASE s # t
        BY <1>0, <2>1, <2>3 DEF NoneRefused, TypeOK
    <2> QED BY <2>2, <2>3
<1>3. ASSUME NEW t \in Servers,
             WinElection(t) \/ RestAfterDefeat(t) \/ StayMaster(t) \/ LoseElection(t)
             \/ TryAgain(t) \/ Renew(t) \/ Restart(t)
      PROVE  campaign'[s].result # "failed"
    <2>1. PICK c \in {At("sleeping", Third), At("resting", Delay), At("trying", 0),
                      At("renewing", 0), At("down", 0)} : campaign' = [campaign EXCEPT ![t] = c]
        BY <1>0, <1>3, OwnSteps
    <2>2. c.result = "none"
        BY <2>1, CampaignParts
    <2>3. faults = 0 /\ (s # t => isMaster[s])
        BY <1>0, <1>3 DEF WinElection, RestAfterDefeat, StayMaster, LoseElection, TryAgain,
                          Renew, Restart, TypeOK
    <2> QED BY <1>0, <2>1, <2>2, <2>3 DEF NoneRefused, TypeOK
<1>4. CASE Expire \/ \E t \in Servers : SeeEvent(t)
    BY <1>4 DEF Expire, SeeEvent, NoneRefused
<1>5. CASE ClockTick
    <2>1. isMaster[s] /\ faults = 0 /\ campaign'[s] = Advance(campaign[s])
        BY <1>5 DEF ClockTick
    <2> QED BY <2>1, CampaignParts DEF NoneRefused
<1> QED BY <1>U, <1>1, <1>2, <1>3, <1>4, <1>5 DEF Next, Process

(* If the renewals are in time, mastership that nothing disturbed is kept:  *)
(* what the campaigns of other servers do to the key of election.go:144-161 *)
(* never costs a master its own.                                            *)
THEOREM HandoversHaveCauses == RenewalsInTime => (Spec => NoNeedlessHandover)
<1> SUFFICES ASSUME RenewalsInTime PROVE Spec => NoNeedlessHandover
    OBVIOUS
<1>1. Init => IInv /\ NoneRefused
    BY IInvInitially DEF Init, NoneRefused
<1>2. (IInv /\ NoneRefused) /\ [Next]_vars => (IInv /\ NoneRefused)'
    BY TypeInductive, InTimeInductive, HoldsInductive, NoneRefusedInductive DEF IInv
<1>3. (IInv /\ NoneRefused) /\ (IInv /\ NoneRefused)' /\ [Next]_vars
      => [\A s \in Servers : isMaster[s] /\ ~isMaster'[s] => faults' > 0]_vars
    <2> SUFFICES ASSUME IInv, NoneRefused, Next, NEW s \in Servers, isMaster[s], ~isMaster'[s]
                 PROVE  faults' > 0
        OBVIOUS
    <2>0. TypeOK /\ faults \in Nat
        BY DEF IInv, TypeOK
    <2>1. CASE LoseElection(s)
        BY <2>0, <2>1 DEF LoseElection, NoneRefused
    <2>2. CASE Crash(s)
        BY <2>0, <2>2 DEF Crash, Fault
    <2>3. ASSUME NEW t \in Servers, t # s, LoseElection(t) \/ Crash(t)
          PROVE  FALSE
        BY <2>0, <2>3 DEF LoseElection, Crash, TypeOK
    <2>4. ASSUME NEW t \in Servers, WinElection(t)
          PROVE  FALSE
        BY <2>0, <2>4 DEF WinElection, TypeOK
    <2>5. CASE UNCHANGED isMaster
        BY <2>5
    <2>6. ASSUME NEW t \in Servers,
                 \/ Apply(t) \/ RestAfterDefeat(t) \/ StayMaster(t) \/ TryAgain(t) \/ Renew(t)
                 \/ SeeEvent(t) \/ RPCFails(t) \/ WatchFails(t) \/ Restart(t)
          PROVE  UNCHANGED isMaster
        BY <2>6 DEF Apply, RestAfterDefeat, StayMaster, TryAgain, Renew, SeeEvent, RPCFails,
                    WatchFails, Restart
    <2>7. CASE Expire \/ ClockTick
        BY <2>7 DEF Expire, ClockTick
    <2> QED BY <2>1, <2>2, <2>3, <2>4, <2>5, <2>6, <2>7 DEF Next, Process
<1> QED BY <1>1, <1>2, <1>3, PTL DEF Spec, NoNeedlessHandover

-----------------------------------------------------------------------------
(* The source of the configuration. *)

Places == {"idle", "reading", "connect", "get", "getting", "open", "watch"}

Sources ==
    [at : Places]
        \cup [at : {"pushing"}, content : Nat, next : {"idle", "retry", "watch", "wait"}]
        \cup [at : {"sleeping"}, next : {"connect", "watch"}]
        \cup [at : {"watching"}, from : Nat \ {0}]

SourceTypes ==
    /\ valid \in Seq(BOOLEAN)
    /\ source \in Sources
    /\ waitIndex \in Nat /\ loaded \in Nat
    /\ updates = <<>> \/ \E n \in Nat : updates = <<n>>

\* What has left the source's goroutine is no newer than content n.
UpTo(n) == loaded <= n /\ (updates # <<>> => updates[1] <= n)

\* What is on its way to the server, in any of the places where it may be, is
\* no older than what is ahead of it.
InOrder ==
    /\ updates # <<>> /\ updates[1] # Error => loaded <= updates[1]
    /\ source.at = "pushing" /\ source.content # Error => UpTo(source.content)
    /\ source.at = "watching" => UpTo(source.from - 1)

\* The next content to watch for is newer than all of them, and none is newer
\* than the newest one.
Ahead ==
    /\ waitIndex > 0 => /\ UpTo(waitIndex - 1)
                        /\ source.at = "pushing" => source.content < waitIndex
    /\ waitIndex <= Written + 1
    /\ UpTo(Written)
    /\ source.at = "pushing" => source.content <= Written

\* The watcher's index is known only after the first event, and from there on the
\* goroutine watches for ever.
Watches ==
    waitIndex > 0 =>
        \/ source.at \in {"watch", "open", "watching"}
        \/ source.at \in {"pushing", "sleeping"} /\ source.next \in {"watch", "wait"}

SourceInv == SourceTypes /\ InOrder /\ Ahead /\ Watches

LEMMA SourceInitially == SourceInit => SourceInv
<1> SUFFICES ASSUME SourceInit PROVE SourceInv
    OBVIOUS
<1>1. valid \in Seq(BOOLEAN) /\ Len(valid) = 1
    <2>1. PICK v \in BOOLEAN : valid = <<v>> BY DEF SourceInit
    <2> QED BY <2>1
<1>2. source \in Sources /\ source.at \in {"idle", "connect"}
    <2>1. source = AtPlace("idle") \/ source = AtPlace("connect") BY DEF SourceInit
    <2> QED BY <2>1 DEF AtPlace, Sources, Places
<1> QED BY <1>1, <1>2 DEF SourceInit, SourceInv, SourceTypes, InOrder, Ahead, Watches, UpTo, Written, Error

\* The goroutine moves to a place where it has nothing to deliver.
LEMMA Moves ==
    SourceInv /\ (TakeSignal \/ Connect \/ OpenWatch \/ WakeUp \/ WatcherFails) => SourceInv'
<1> SUFFICES ASSUME SourceInv, TakeSignal \/ Connect \/ OpenWatch \/ WakeUp \/ WatcherFails
             PROVE  SourceInv'
    OBVIOUS
<1>1. UNCHANGED <<valid, loaded, waitIndex, updates>>
    BY DEF TakeSignal, Connect, OpenWatch, WakeUp, WatcherFails, serverVars
<1>2. Written \in Nat /\ Written' = Written BY <1>1 DEF SourceInv, SourceTypes, Written
<1>3. /\ source' \in Sources
      /\ source'.at = "pushing" => source'.content = Error
      /\ source'.at = "watching" => UpTo(source'.from - 1)
      /\ waitIndex > 0 => \/ source'.at \in {"watch", "open", "watching"}
                          \/ source'.at \in {"pushing", "sleeping"} /\ source'.next \in {"watch", "wait"}
    <2>1. CASE TakeSignal
        BY <2>1 DEF TakeSignal, AtPlace, Sources, Places, SourceInv, Watches
    <2>2. CASE Connect
        BY <2>2 DEF Connect, AtPlace, Pushing, Sources, Places, SourceInv, Watches, Error
    <2>3. CASE OpenWatch
        BY <2>3, <1>2 DEF OpenWatch, AtPlace, Watching, Sources, SourceInv, SourceTypes, Ahead, UpTo
    <2>4. CASE WakeUp
        BY <2>4 DEF WakeUp, AtPlace, Sources, Places, SourceInv, SourceTypes, Watches
    <2>5. CASE WatcherFails
        BY <2>5 DEF WatcherFails, Pushing, Sources, Error
    <2> QED BY <2>1, <2>2, <2>3, <2>4, <2>5
<1> QED BY <1>1, <1>2, <1>3 DEF SourceInv, SourceTypes, InOrder, Ahead, Watches, UpTo, Written, Error

\* The newest content is read: nothing is ahead of it.
LEMMA Reads == SourceInv /\ (ReadFile \/ Get) => SourceInv'
<1> SUFFICES ASSUME SourceInv, ReadFile \/ Get PROVE SourceInv'
    OBVIOUS
<1>1. UNCHANGED <<valid, loaded, waitIndex, updates>>
    BY DEF ReadFile, Get, serverVars
<1>2. Written \in Nat /\ Written' = Written BY <1>1 DEF SourceInv, SourceTypes, Written
<1>3. /\ source' \in Sources
      /\ source'.at = "pushing" /\ source'.content \in {Written, Error}
    BY <1>2 DEF ReadFile, Get, Pushing, Sources, Error
<1>4. waitIndex = 0
    BY DEF ReadFile, Get, AtPlace, SourceInv, SourceTypes, Watches
<1> QED BY <1>1, <1>2, <1>3, <1>4 DEF SourceInv, SourceTypes, InOrder, Ahead, Watches, UpTo, Written, Error

LEMMA Sees == SourceInv /\ SeeContent => SourceInv'
<1> SUFFICES ASSUME SourceInv, SeeContent PROVE SourceInv'
    OBVIOUS
<1>1. UNCHANGED <<valid, loaded, updates>> BY DEF SeeContent, serverVars
<1>2. Written \in Nat /\ Written' = Written BY <1>1 DEF SourceInv, SourceTypes, Written
<1>3. /\ source.from \in Nat \ {0} /\ source.from <= Written
      /\ source' = Pushing(source.from, "watch")
      /\ waitIndex' = source.from + 1
      /\ UpTo(source.from - 1)
    BY DEF SeeContent, SourceInv, SourceTypes, Sources, Places, InOrder
<1>4. UpTo(source.from) BY <1>3 DEF UpTo, SourceInv, SourceTypes
<1> QED BY <1>1, <1>2, <1>3, <1>4 DEF SourceInv, SourceTypes, InOrder, Ahead, Watches, UpTo, Written, Error,
                                      Sources, Pushing

LEMMA Pushes == SourceInv /\ Push => SourceInv'
<1> SUFFICES ASSUME SourceInv, Push PROVE SourceInv'
    OBVIOUS
<1>1. UNCHANGED <<valid, loaded, waitIndex>> BY DEF Push, serverVars
<1>2. Written \in Nat /\ Written' = Written BY <1>1 DEF SourceInv, SourceTypes, Written
<1>3. /\ source.at = "pushing" /\ updates' = <<source.content>> /\ source.content \in Nat
      /\ source.next \in {"idle", "retry", "watch", "wait"}
    BY DEF Push, SourceInv, SourceTypes, Sources, Places
<1>4. /\ source' \in Sources /\ source'.at \in Places \cup {"sleeping"}
      /\ source.next \in {"watch", "wait"} =>
            \/ source'.at = "watch"
            \/ source'.at = "sleeping" /\ source'.next = "watch"
    BY <1>3 DEF Push, Sleeping, AtPlace, Sources, Places
<1> QED BY <1>1, <1>2, <1>3, <1>4 DEF SourceInv, SourceTypes, InOrder, Ahead, Watches, UpTo, Written, Error, Places

\* Nobody but LoadConfig replaces the configuration, with what updates held.
LEMMA Receives ==
    SourceInv /\ Receive => SourceInv' /\ (loaded' # loaded => loaded' > loaded /\ valid[loaded'])
<1> SUFFICES ASSUME SourceInv, Receive
             PROVE  SourceInv' /\ (loaded' # loaded => loaded' > loaded /\ valid[loaded'])
    OBVIOUS
<1>1. UNCHANGED <<valid, source, waitIndex>> /\ updates' = <<>> /\ updates # <<>> BY DEF Receive
<1>2. Written \in Nat /\ Written' = Written BY <1>1 DEF SourceInv, SourceTypes, Written
<1>3. PICK n \in Nat : updates = <<n>> BY <1>1 DEF SourceInv, SourceTypes
<1>4. \/ loaded' = loaded
      \/ loaded' = updates[1] /\ updates[1] # Error /\ valid[updates[1]]
    BY DEF Receive, LoadConfig
<1> QED BY <1>1, <1>2, <1>3, <1>4 DEF SourceInv, SourceTypes, InOrder, Ahead, Watches, UpTo, Written, Error

LEMMA Others == SourceInv /\ (Write \/ Hangup \/ Call \/ Serve \/ UNCHANGED sourceVars) => SourceInv'
<1> SUFFICES ASSUME SourceInv, Write \/ Hangup \/ Call \/ Serve \/ UNCHANGED sourceVars PROVE SourceInv'
    OBVIOUS
<1>1. UNCHANGED <<loaded, waitIndex, updates>>
    BY DEF Write, Hangup, Call, Serve, sourceVars, serverVars
<1>2. valid' \in Seq(BOOLEAN) /\ Written \in Nat /\ Written' \in Nat /\ Written <= Written'
    <2>1. CASE Write
        <3>1. PICK v \in BOOLEAN : valid' = Append(valid, v) BY <2>1 DEF Write
        <3> QED BY <3>1 DEF SourceInv, SourceTypes, Written
    <2>2. CASE ~Write
        <3>1. valid' = valid BY <2>2 DEF Hangup, Call, Serve, sourceVars, serverVars
        <3> QED BY <3>1 DEF SourceInv, SourceTypes, Written
    <2> QED BY <2>1, <2>2
<1>3. \/ source' = source
      \/ source = AtPlace("get") /\ source' = AtPlace("getting")
      \/ source = AtPlace("watch") /\ source' = AtPlace("open")
    BY DEF Write, Hangup, Call, Serve, sourceVars
<1> QED BY <1>1, <1>2, <1>3 DEF SourceInv, SourceTypes, InOrder, Ahead, Watches, UpTo, Written, Error, AtPlace, Sources, Places

\* Every step keeps SourceInv, and replaces the configuration by a newer one only.
LEMMA SourceKept ==
    SourceInv /\ [SourceNext]_sourceVars => SourceInv' /\ (loaded' # loaded => loaded' > loaded /\ valid[loaded'])
<1> SUFFICES ASSUME SourceInv, [SourceNext]_sourceVars
             PROVE  SourceInv' /\ (loaded' # loaded => loaded' > loaded /\ valid[loaded'])
    OBVIOUS
<1>1. CASE Receive BY <1>1, Receives
<1>2. CASE SourceStep \/ WatcherFails
    <2>1. loaded' = loaded
        BY <1>2 DEF SourceStep, TakeSignal, ReadFile, Connect, Get, OpenWatch, SeeContent, Push, WakeUp,
                    WatcherFails, serverVars
    <2> QED BY <1>2, <2>1, Moves, Reads, Sees, Pushes DEF SourceStep
<1>3. CASE Write \/ Hangup \/ Call \/ Serve \/ UNCHANGED sourceVars
    <2>1. loaded' = loaded BY <1>3 DEF Write, Hangup, Call, Serve, sourceVars, serverVars
    <2> QED BY <1>3, <2>1, Others
<1> QED BY <1>1, <1>2, <1>3 DEF SourceNext

(* A configuration is never replaced by an older one, nor by one that could *)
(* not be parsed or validated, however the source's goroutine, its channel  *)
(* and main's loop interleave with writes, signals and failures.            *)
THEOREM NeverGoesBack == SourceSpec => ConfigNeverGoesBack
<1>1. SourceInv /\ [SourceNext]_sourceVars => [loaded' # loaded => loaded' > loaded /\ valid[loaded']]_sourceVars
    BY SourceKept
<1> QED BY <1>1, SourceInitially, SourceKept, PTL DEF SourceSpec, ConfigNeverGoesBack

=============================================================================
