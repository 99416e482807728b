------------------------------ MODULE Election ------------------------------
(***************************************************************************)
(* The etcd election (election.go): servers campaign for a key that expires *)
(* Delay ticks after it was last set, the one that set it renews it every   *)
(* third of that time, and every server watches the key to know the master. *)
(*                                                                         *)
(* An RPC to etcd is sent, applied and answered; it takes at most MaxRPC    *)
(* ticks in all, which nothing in the code enforces, and timers fire on     *)
(* time.  Faults is what may go wrong: an RPC fails before or after it was  *)
(* applied, a watch fails, a server crashes and may restart.  MaxFaults     *)
(* bounds how often altogether.  The outcome is broadcast on a channel that *)
(* the server drains at once (handleElectionOutcome), and a watch delivers  *)
(* what happened before the next tick, or when its goroutine is back.       *)
(***************************************************************************)
EXTENDS Integers, Sequences

CONSTANTS Servers, None, Delay, MaxRPC, Faults, MaxFaults

Third == Delay \div 3

ASSUME DelayAssumption == Delay \in Nat /\ Third > 0
ASSUME MaxRPCAssumption == MaxRPC \in Nat
ASSUME MaxFaultsAssumption == MaxFaults \in Nat
ASSUME FaultsAssumption == Faults \subseteq {"rpc", "watch", "crash"}
ASSUME NoneAssumption == None \notin Servers

VARIABLES lock,         \* etcd: the value of the key, None if there is none
          ttl,          \* etcd: ticks until it expires
          campaign,     \* the campaigning goroutine of each server
          isMaster,     \* what each server was last told of its own mastership
          events,       \* the changes of the key its watcher has yet to see
          last,         \* the value its watcher saw last
          pause,        \* ticks until its watcher watches again
          current,      \* the master it was last told of
          faults

vars == <<lock, ttl, campaign, isMaster, events, last, pause, current, faults>>
watches == <<last, pause, current>>

Phases == {"trying", "resting", "sleeping", "renewing", "down"}

\* Of an RPC, `clock' is how long it has taken; of a sleep, how long it lasts.
At(pc, clock) == [pc |-> pc, clock |-> clock, result |-> "none"]

\* The RPC of c is answered; the clock of c is n.
Answer(c, result) == [pc |-> c.pc, clock |-> c.clock, result |-> result]
ClockAt(c, n) == [pc |-> c.pc, clock |-> n, result |-> c.result]

Calling(s) == campaign[s].pc \in {"trying", "renewing"}

Init ==
    /\ lock = None /\ ttl = 0
    /\ campaign = [s \in Servers |-> At("trying", 0)]
    /\ isMaster = [s \in Servers |-> FALSE]
    /\ events = [s \in Servers |-> <<>>]
    /\ last = [s \in Servers |-> None]
    /\ pause = [s \in Servers |-> 0]
    /\ current = [s \in Servers |-> None]
    /\ faults = 0

Fault(kind) == kind \in Faults /\ faults < MaxFaults /\ faults' = faults + 1

-----------------------------------------------------------------------------
(* etcd *)

\* The value a watcher has seen when it has seen all events.
Newest(s) == IF events[s] = <<>> THEN last[s] ELSE events[s][Len(events[s])]

\* Every server that is up gets to see that the key was set or expired; the
\* watchers pass over a value that they saw last.
Notify(value) ==
    events' = [s \in Servers |->
        IF campaign[s].pc = "down" \/ Newest(s) = value THEN events[s] ELSE Append(events[s], value)]

\* Mutant of MaySet: PrevNoExist of a renewal, too.
MaySetNew(s) == lock = None

\* PrevNoExist of a campaign, PrevExist and PrevValue of a renewal.
MaySet(s) == lock = IF campaign[s].pc = "trying" THEN None ELSE s

Apply(s) ==
    /\ Calling(s) /\ campaign[s].result = "none"
    /\ campaign' = [campaign EXCEPT ![s] = Answer(campaign[s], IF MaySet(s) THEN "ok" ELSE "failed")]
    /\ IF MaySet(s)
       THEN lock' = s /\ ttl' = Delay /\ Notify(s)
       ELSE UNCHANGED <<lock, ttl, events>>
    /\ UNCHANGED <<isMaster, watches, faults>>

\* The RPC returns an error, whether it was applied or not.
RPCFails(s) ==
    /\ Fault("rpc")
    /\ Calling(s) /\ campaign[s].result # "failed"
    /\ campaign' = [campaign EXCEPT ![s] = Answer(campaign[s], "failed")]
    /\ UNCHANGED <<lock, ttl, isMaster, events, watches>>

\* An expiry is a change with an empty value.
Expire ==
    /\ lock # None /\ ttl = 0
    /\ lock' = None
    /\ Notify(None)
    /\ UNCHANGED <<ttl, campaign, isMaster, watches, faults>>

-----------------------------------------------------------------------------
(* The campaigning goroutine. *)

\* Mutant of LoseElection: nobody is told that mastership is lost.
LoseElectionQuietly(s) ==
    /\ campaign[s].pc = "renewing" /\ campaign[s].result = "failed"
    /\ campaign' = [campaign EXCEPT ![s] = At("trying", 0)]
    /\ UNCHANGED <<lock, ttl, isMaster, events, watches, faults>>

WinElection(s) ==
    /\ campaign[s].pc = "trying" /\ campaign[s].result = "ok"
    /\ isMaster' = [isMaster EXCEPT ![s] = TRUE]
    /\ campaign' = [campaign EXCEPT ![s] = At("sleeping", Third)]
    /\ UNCHANGED <<lock, ttl, events, watches, faults>>

\* Mutant of RestAfterDefeat: the sleep of a defeated server does not end.
RestForGood(s) ==
    /\ campaign[s].pc = "trying" /\ campaign[s].result = "failed"
    /\ campaign' = [campaign EXCEPT ![s] = At("resting", -1)]
    /\ UNCHANGED <<lock, ttl, isMaster, events, watches, faults>>

RestAfterDefeat(s) ==
    /\ campaign[s].pc = "trying" /\ campaign[s].result = "failed"
    /\ campaign' = [campaign EXCEPT ![s] = At("resting", Delay)]
    /\ UNCHANGED <<lock, ttl, isMaster, events, watches, faults>>

\* Mutant of StayMaster: it sleeps until the key is about to expire.
StayMasterTooLong(s) ==
    /\ campaign[s].pc = "renewing" /\ campaign[s].result = "ok"
    /\ campaign' = [campaign EXCEPT ![s] = At("sleeping", Delay)]
    /\ UNCHANGED <<lock, ttl, isMaster, events, watches, faults>>

StayMaster(s) ==
    /\ campaign[s].pc = "renewing" /\ campaign[s].result = "ok"
    /\ campaign' = [campaign EXCEPT ![s] = At("sleeping", Third)]
    /\ UNCHANGED <<lock, ttl, isMaster, events, watches, faults>>

\* After a renewal that failed it campaigns again at once.
LoseElection(s) ==
    /\ campaign[s].pc = "renewing" /\ campaign[s].result = "failed"
    /\ isMaster' = [isMaster EXCEPT ![s] = FALSE]
    /\ campaign' = [campaign EXCEPT ![s] = At("trying", 0)]
    /\ UNCHANGED <<lock, ttl, events, watches, faults>>

\* Mutant of TryAgain: a defeated server goes on resting.
RestOn(s) ==
    /\ campaign[s].pc = "resting" /\ campaign[s].clock = 0
    /\ campaign' = [campaign EXCEPT ![s] = At("resting", Delay)]
    /\ UNCHANGED <<lock, ttl, isMaster, events, watches, faults>>

TryAgain(s) ==
    /\ campaign[s].pc = "resting" /\ campaign[s].clock = 0
    /\ campaign' = [campaign EXCEPT ![s] = At("trying", 0)]
    /\ UNCHANGED <<lock, ttl, isMaster, events, watches, faults>>

Renew(s) ==
    /\ campaign[s].pc = "sleeping" /\ campaign[s].clock = 0
    /\ campaign' = [campaign EXCEPT ![s] = At("renewing", 0)]
    /\ UNCHANGED <<lock, ttl, isMaster, events, watches, faults>>

-----------------------------------------------------------------------------
(* The watching goroutine. *)

\* Mutant of SeeEvent: what was seen last is not remembered.
SeeEventOnce(s) ==
    /\ pause[s] = 0 /\ events[s] # <<>>
    /\ events' = [events EXCEPT ![s] = Tail(@)]
    /\ IF Head(events[s]) # last[s] /\ last[s] = None
       THEN /\ last' = [last EXCEPT ![s] = Head(events[s])]
            /\ current' = [current EXCEPT ![s] = Head(events[s])]
       ELSE UNCHANGED <<last, current>>
    /\ UNCHANGED <<lock, ttl, campaign, isMaster, pause, faults>>

SeeEvent(s) ==
    /\ pause[s] = 0 /\ events[s] # <<>>
    /\ events' = [events EXCEPT ![s] = Tail(@)]
    /\ IF Head(events[s]) # last[s]
       THEN /\ last' = [last EXCEPT ![s] = Head(events[s])]
            /\ current' = [current EXCEPT ![s] = Head(events[s])]
       ELSE UNCHANGED <<last, current>>
    /\ UNCHANGED <<lock, ttl, campaign, isMaster, pause, faults>>

\* The master is unknown now; what was seen last is still remembered.
WatchFails(s) ==
    /\ Fault("watch")
    /\ campaign[s].pc # "down" /\ pause[s] = 0
    /\ pause' = [pause EXCEPT ![s] = Delay]
    /\ current' = [current EXCEPT ![s] = None]
    /\ UNCHANGED <<lock, ttl, campaign, isMaster, events, last>>

-----------------------------------------------------------------------------
(* Crashes and time. *)

Crash(s) ==
    /\ Fault("crash")
    /\ campaign[s].pc # "down"
    /\ campaign' = [campaign EXCEPT ![s] = At("down", 0)]
    /\ isMaster' = [isMaster EXCEPT ![s] = FALSE]
    /\ events' = [events EXCEPT ![s] = <<>>]
    /\ last' = [last EXCEPT ![s] = None]
    /\ pause' = [pause EXCEPT ![s] = 0]
    /\ current' = [current EXCEPT ![s] = None]
    /\ UNCHANGED <<lock, ttl>>

\* Its watch starts with the next change or renewal.
Restart(s) ==
    /\ campaign[s].pc = "down"
    /\ campaign' = [campaign EXCEPT ![s] = At("trying", 0)]
    /\ UNCHANGED <<lock, ttl, isMaster, events, watches, faults>>

Advance(c) ==
    ClockAt(c, IF c.pc \in {"trying", "renewing"} THEN c.clock + 1
               ELSE IF c.pc = "down" THEN c.clock ELSE c.clock - 1)

\* Nobody is late, and RPCs are in time.
MayWait(s) ==
    /\ Calling(s) => campaign[s].clock < MaxRPC
    /\ campaign[s].pc \in {"resting", "sleeping"} => campaign[s].clock # 0
    /\ events[s] # <<>> => pause[s] > 0

Down(n) == IF n > 0 THEN n - 1 ELSE 0

ClockTick ==
    /\ \A s \in Servers : MayWait(s)
    /\ lock # None => ttl > 0
    /\ ttl' = Down(ttl)
    /\ campaign' = [s \in Servers |-> Advance(campaign[s])]
    /\ pause' = [s \in Servers |-> Down(pause[s])]
    /\ UNCHANGED <<lock, isMaster, events, last, current, faults>>

Process(s) ==
    \/ Apply(s) \/ WinElection(s) \/ RestAfterDefeat(s) \/ StayMaster(s) \/ LoseElection(s)
    \/ TryAgain(s) \/ Renew(s) \/ SeeEvent(s)

Next ==
    \/ \E s \in Servers : Process(s) \/ RPCFails(s) \/ WatchFails(s) \/ Crash(s) \/ Restart(s)
    \/ Expire
    \/ ClockTick

\* The goroutines of a server that is up run on, and time passes.  A server
\* that crashed need not come back.
Fairness ==
    /\ \A s \in Servers : WF_vars(Process(s))
    /\ WF_vars(Expire)
    /\ WF_vars(ClockTick)

Spec == Init /\ [][Next]_vars /\ Fairness

-----------------------------------------------------------------------------
(* Properties *)

TypeOK ==
    /\ lock \in Servers \cup {None} /\ ttl \in 0 .. Delay
    /\ campaign \in [Servers -> [pc : Phases, clock : 0 .. Delay + MaxRPC,
                                 result : {"none", "ok", "failed"}]]
    /\ isMaster \in [Servers -> BOOLEAN]
    /\ events \in [Servers -> Seq(Servers \cup {None})]
    /\ last \in [Servers -> Servers \cup {None}]
    /\ current \in [Servers -> Servers \cup {None}]
    /\ pause \in [Servers -> 0 .. Delay]
    /\ faults \in 0 .. MaxFaults

\* A server that was told that it is the master holds the key: it learns of a
\* defeat before the key expires.  This is about the renewal period and the TTL
\* of election.go:144-161, and why there is one master at most.
MastersHoldTheLock == \A s \in Servers : isMaster[s] => lock = s

\* There is one master at most: one candidate was told true and not yet false
\* on the channel of election.go:32-35.
AtMostOneMaster == \A s, t \in Servers : isMaster[s] /\ isMaster[t] => s = t

\* Mastership that nothing disturbed is kept: the renewals are in time, and a
\* campaign of another server does not take the key away.
NoNeedlessHandover ==
    [][\A s \in Servers : isMaster[s] /\ ~isMaster'[s] => faults' > 0]_vars

\* Once the faults end there is a master again and again, whoever was the
\* master when they happened, if some server is up.
Elected ==
    []<>(\E s \in Servers : campaign[s].pc # "down") => []<>(\E s \in Servers : isMaster[s])

\* No server believes for ever in another master than the one that stays: it
\* knows the right one or none, even if its watch failed.
StaleMasterIsForgotten ==
    \A m, s \in Servers :
        <>[](isMaster[m] /\ campaign[s].pc # "down") => <>[](current[s] \in {m, None})

=============================================================================
