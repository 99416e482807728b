--------------------------- MODULE QPSRateLimiter ---------------------------
(***************************************************************************)
(* The limiter of ratelimiter.go: a loop that lets waiting goroutines pass  *)
(* at the rate of the capacity its resource receives.                       *)
(*                                                                         *)
(* All channels but the resource's are unbuffered, so a send and its        *)
(* receive are one step.  Wait first asks the loop for a channel to receive *)
(* from, and is then parked on it; the runtime serves parked goroutines in  *)
(* the order they came (`parked').  A timer is started anew in every round  *)
(* of the loop, and one that fired before the round ended is forgotten.     *)
(* Capacities are whole requests per second, intervals milliseconds.        *)
(***************************************************************************)
EXTENDS Integers, Sequences

CONSTANTS Users,
          Capacities,     \* what the resource's channel delivers
          MaxUpdates,     \* how often it delivers something new
          MaxCancels      \* how many contexts are cancelled

ASSUME CapacitiesAssumption == Capacities \subseteq Int
ASSUME LimiterBounds == MaxUpdates \in Nat /\ MaxCancels \in Nat

VARIABLES limiter,     \* the rate and the counters of the cycle it is in
          run,        \* where run() is
          fired,       \* whether this round's timer has expired
          user,        \* where each user's Wait is
          parked,      \* the users that receive from unfreeze, oldest first
          cancelled,   \* the users whose context is done
          closer,      \* where Close is
          resource,    \* "held", or "released": its channel is closed then
          updates, cancels,
          offered      \* thousandths of a request, at one capacity: how far the
                       \* offer is below it, and above twice as much

loopVars == <<limiter, run, fired, offered>>
userVars == <<user, parked, cancelled, cancels>>
limiterVars == <<loopVars, userVars, closer, resource, updates>>

Selecting == [at |-> "select"]
Answering(u) == [at |-> "answer", to |-> u]
Handing(u) == [at |-> "hand", to |-> u]
Ended == [at |-> "closed"]

InRate == [missing |-> 0, excess |-> 0]

LimiterInit ==
    /\ limiter = [capacity |-> 0, rate |-> 0, interval |-> 0, subintervals |-> 0,
                  released |-> 0, leftover |-> 0, original |-> 0]
    /\ run = Selecting /\ fired = FALSE
    /\ user = [u \in Users |-> "idle"] /\ parked = <<>> /\ cancelled = {} /\ cancels = 0
    /\ closer = "none" /\ resource = "held" /\ updates = 0
    /\ offered = InRate

Unlimited == limiter.rate < 0
Blocked == limiter.rate = 0

-----------------------------------------------------------------------------
(* The rate. *)

\* Mutant of Recalculate: the interval is divided as if nothing were left over.
RecalculateEvenly(rate, interval, subintervals) ==
    IF rate > 1 /\ interval >= 20
    THEN LET subs == IF rate < interval \div 20 THEN rate ELSE interval \div 20
         IN  [rate |-> rate \div subs, leftover |-> rate % subs, subintervals |-> subs,
              interval |-> interval \div subs]
    ELSE [rate |-> rate, leftover |-> 0, subintervals |-> subintervals, interval |-> interval]

\* More than one request for each interval of at least 20 ms: divide it.
Recalculate(rate, interval, subintervals) ==
    IF rate > 1 /\ interval >= 20
    THEN LET subs == IF rate < interval \div 20 THEN rate ELSE interval \div 20
         IN  [rate |-> rate \div subs, leftover |-> rate % subs, subintervals |-> subs,
              interval |-> ((rate \div subs) * interval) \div rate]
    ELSE [rate |-> rate, leftover |-> 0, subintervals |-> subintervals, interval |-> interval]

\* Unlimited and blocked limiters keep the interval they had.
NewRate(capacity) ==
    IF capacity > 10 THEN Recalculate(capacity, 1000, limiter.subintervals)
    ELSE IF capacity > 0 THEN Recalculate(1, 1000 \div capacity, limiter.subintervals)
    ELSE [rate |-> IF capacity < 0 THEN -1 ELSE 0, leftover |-> 0,
          subintervals |-> limiter.subintervals, interval |-> limiter.interval]

Update(capacity) ==
    /\ run = Selecting
    /\ LET new == NewRate(capacity) IN
       limiter' = [capacity |-> capacity, rate |-> new.rate, interval |-> new.interval,
                   subintervals |-> new.subintervals, released |-> 0,
                   leftover |-> new.leftover, original |-> new.leftover]
    /\ fired' = FALSE /\ offered' = InRate
    /\ UNCHANGED <<run, userVars, closer>>

ReceiveCapacity ==
    /\ resource = "held" /\ updates < MaxUpdates
    /\ \E capacity \in Capacities : Update(capacity)
    /\ updates' = updates + 1
    /\ UNCHANGED resource

\* A closed channel delivers zero, again and again.
ReceiveFromClosed == resource = "released" /\ Update(0) /\ UNCHANGED <<resource, updates>>

ReleaseResource ==
    /\ resource = "held" /\ resource' = "released"
    /\ UNCHANGED <<loopVars, userVars, closer, updates>>

-----------------------------------------------------------------------------
(* The rounds of the loop. *)

TimerExpires ==
    /\ run = Selecting /\ ~Blocked /\ ~Unlimited /\ ~fired
    /\ fired' = TRUE
    /\ UNCHANGED <<limiter, run, offered, userVars, closer, resource, updates>>

\* What is left of the rate after its division is spread over the cycle.
Step == limiter.leftover \div limiter.rate + 1

\* Mutant of InCycle: off by one.
InCycleTooLong == limiter.released <= limiter.subintervals

InCycle == limiter.released < limiter.subintervals

Passes == IF InCycle /\ limiter.leftover > 0 THEN limiter.rate + Step ELSE limiter.rate

AtMost(n, m) == IF n < m THEN n ELSE m
AtLeast(n, m) == IF n > m THEN n ELSE m

\* Nobody who comes later gets what is left.
WakeUp ==
    /\ run = Selecting /\ fired
    /\ LET n == AtMost(Passes, Len(parked))
           passing == {parked[i] : i \in 1..n}
       IN  /\ parked' = SubSeq(parked, n + 1, Len(parked))
           /\ user' = [u \in Users |-> IF u \in passing THEN "idle" ELSE user[u]]
           /\ cancelled' = cancelled \ passing
    /\ limiter' = [limiter EXCEPT
          !.released = IF InCycle THEN @ + 1 ELSE 0,
          !.leftover = IF ~InCycle THEN limiter.original ELSE IF @ > 0 THEN @ - Step ELSE @]
    /\ offered' =
          [missing |-> AtLeast(0, offered.missing + limiter.capacity * limiter.interval - 1000 * Passes),
           excess  |-> AtLeast(0, offered.excess + 1000 * Passes - 2 * (limiter.capacity + 1) * limiter.interval)]
    /\ fired' = FALSE
    /\ UNCHANGED <<run, cancels, closer, resource, updates>>

TakeEvent(u) ==
    /\ run = Selecting /\ user[u] = "asking"
    /\ run' = Answering(u)
    /\ user' = [user EXCEPT ![u] = "answered"]
    /\ UNCHANGED <<limiter, fired, offered, parked, cancelled, cancels, closer, resource, updates>>

\* The user learns which channel to receive from.
Answer(u) ==
    /\ run = Answering(u)
    /\ run' = IF Unlimited THEN Handing(u) ELSE Selecting
    /\ user' = [user EXCEPT ![u] = IF Unlimited THEN "receiving" ELSE "parking"]
    /\ fired' = FALSE
    /\ UNCHANGED <<limiter, offered, parked, cancelled, cancels, closer, resource, updates>>

\* nonBlocking <- true
Hand(u) ==
    /\ run = Handing(u) /\ user[u] = "receiving"
    /\ run' = Selecting
    /\ user' = [user EXCEPT ![u] = "idle"] /\ cancelled' = cancelled \ {u}
    /\ UNCHANGED <<limiter, fired, offered, parked, cancels, closer, resource, updates>>

\* The loop ends, and with it whoever waits on unfreeze.
Quit ==
    /\ run = Selecting /\ closer = "closing"
    /\ run' = Ended /\ closer' = "closed"
    /\ UNCHANGED <<limiter, fired, offered, userVars, resource, updates>>

-----------------------------------------------------------------------------
(* The users. *)

Wait(u) ==
    /\ user[u] = "idle"
    /\ user' = [user EXCEPT ![u] = "asking"]
    /\ UNCHANGED <<loopVars, parked, cancelled, cancels, closer, resource, updates>>

Park(u) ==
    /\ user[u] = "parking"
    /\ user' = [user EXCEPT ![u] = "parked"]
    /\ parked' = Append(parked, u)
    /\ UNCHANGED <<loopVars, cancelled, cancels, closer, resource, updates>>

CancelContext(u) ==
    /\ user[u] # "idle" /\ u \notin cancelled /\ cancels < MaxCancels
    /\ cancelled' = cancelled \cup {u} /\ cancels' = cancels + 1
    /\ UNCHANGED <<loopVars, user, parked, closer, resource, updates>>

\* The goroutines that go on waiting when u leaves.
ParkedWithout(u) ==
    IF user[u] = "parked"
    THEN LET place == CHOOSE i \in 1..Len(parked) : parked[i] = u
         IN  SubSeq(parked, 1, place - 1) \o SubSeq(parked, place + 1, Len(parked))
    ELSE parked

\* Mutant of ReturnError: unfreeze is not closed, or nobody notices.
ReturnErrorIfCancelled(u) ==
    /\ u \in cancelled /\ user[u] \in {"parked", "receiving"}
    /\ user' = [user EXCEPT ![u] = "idle"] /\ cancelled' = cancelled \ {u}
    /\ parked' = ParkedWithout(u)
    /\ UNCHANGED <<loopVars, cancels, closer, resource, updates>>

\* Wait returns with an error: its context is done, or unfreeze is closed.
ReturnError(u) ==
    /\ \/ u \in cancelled /\ user[u] \in {"parked", "receiving"}
       \/ run = Ended /\ user[u] = "parked"
    /\ user' = [user EXCEPT ![u] = "idle"] /\ cancelled' = cancelled \ {u}
    /\ parked' = ParkedWithout(u)
    /\ UNCHANGED <<loopVars, cancels, closer, resource, updates>>

\* Close() is called, once.
CloseLimiter ==
    /\ closer = "none" /\ closer' = "closing"
    /\ UNCHANGED <<loopVars, userVars, resource, updates>>

\* What the loop's select may do.
RunSelects == ReceiveCapacity \/ ReceiveFromClosed \/ WakeUp \/ Quit \/ \E u \in Users : TakeEvent(u)

UserStep(u) ==
    Wait(u) \/ Park(u) \/ CancelContext(u) \/ ReturnError(u) \/ Answer(u) \/ Hand(u)

LimiterNext == RunSelects \/ TimerExpires \/ ReleaseResource \/ CloseLimiter \/ \E u \in Users : UserStep(u)

\* A select picks at random among what is ready; a timer that is restarted for
\* ever need not expire; nobody has to call Wait, Close or cancel.
LimiterFairness ==
    /\ WF_limiterVars(TimerExpires) /\ SF_limiterVars(WakeUp) /\ SF_limiterVars(Quit)
    /\ \A u \in Users : /\ SF_limiterVars(TakeEvent(u))
                        /\ WF_limiterVars(Answer(u)) /\ WF_limiterVars(Hand(u))
                        /\ WF_limiterVars(Park(u)) /\ WF_limiterVars(ReturnError(u))

LimiterSpec == LimiterInit /\ [][LimiterNext]_limiterVars /\ LimiterFairness

-----------------------------------------------------------------------------
Waiting(u) == user[u] # "idle"

\* The loop hands a token to a user that has gone: it does so for ever.
Stuck == run.at = "hand" /\ user[run.to] # "receiving"

(* The counters of the cycle are in range, and the parked users are those   *)
(* that wait on unfreeze, each once.                                        *)
LimiterOK ==
    /\ limiter.capacity \in Capacities \cup {0}
    /\ limiter.rate >= -1 /\ limiter.interval >= 0 /\ limiter.subintervals >= 0
    /\ limiter.released \in 0..limiter.subintervals
    /\ run.at \in {"select", "answer", "hand", "closed"}
    /\ fired \in BOOLEAN /\ offered.missing \in Nat /\ offered.excess \in Nat
    /\ user \in [Users -> {"idle", "asking", "answered", "parking", "parked", "receiving"}]
    /\ {parked[i] : i \in 1..Len(parked)} = {u \in Users : user[u] = "parked"}
    /\ \A i, j \in 1..Len(parked) : parked[i] = parked[j] => i = j
    /\ cancelled \subseteq Users /\ updates \in 0..MaxUpdates /\ cancels \in 0..MaxCancels
    /\ closer \in {"none", "closing", "closed"} /\ resource \in {"held", "released"}

(* At one capacity the limiter never falls behind it, whatever the divisions *)
(* of its rate leave over, and over no stretch of time does it offer more   *)
(* than a second's worth of requests beyond twice that capacity: "so we     *)
(* release waiting goroutines at exactly original rate" (ratelimiter.go:157) *)
(* is kept up to a factor of two.                                           *)
RateIsKept == offered.missing = 0 /\ offered.excess <= AtLeast(0, 1000 * limiter.capacity)

(* A Wait returns, whatever the other users, cancelled contexts, Close and  *)
(* new capacities do meanwhile: unless the limiter is blocked, or becomes   *)
(* unlimited, while the user is parked, or it was closed before Wait        *)
(* reached its loop, or its loop is stuck.                                  *)
WaitsReturn ==
    \A u \in Users : Waiting(u) ~> \/ ~Waiting(u)
                                   \/ user[u] = "parked" /\ run # Ended /\ (Blocked \/ Unlimited)
                                   \/ user[u] = "asking" /\ run = Ended
                                   \/ Stuck

=============================================================================
