------------------------------ MODULE Algorithm ------------------------------
(***************************************************************************)
(* The algorithms of algorithm.go.  Each is the amount it hands to Assign,  *)
(* as a function of the store (already cleaned), the capacity and the       *)
(* request; Grant is the assignment they all end with.                      *)
(*                                                                         *)
(* A quotient is rounded down to the unit of capacity.  The divisors are    *)
(* positive wherever the code divides (SharedResource!DivisorsPositive).   *)
(***************************************************************************)
EXTENDS LeaseStore

\* Mutant of MinF: the comparison is turned round.
MinFReversed(left, right) == IF left < right THEN right ELSE left

MinF(left, right) == IF left > right THEN right ELSE left

Request == [client : Clients, has : Int, wants : Int, subclients : Int]

\* Mutant of Available: the client's claim is believed.
AvailableByClaim(s, capacity, r) == capacity - s.sumHas + r.has

\* Mutant of Available: the client's own lease counts against it.
AvailableToNew(s, capacity, r) == capacity - s.sumHas

\* What the request may take without touching what the others hold.
Available(s, capacity, r) == capacity - s.sumHas + Get(s, r.client).has

-----------------------------------------------------------------------------

NoAlgorithm(r) == r.wants

Static(capacity, r) == MinF(capacity, r.wants)

Learn(r) == r.has

-----------------------------------------------------------------------------
(* FairShare *)

\* Mutant of FairCount: the requester itself is not counted.
FairCountOfOthers(s, r) == s.count - Get(s, r.client).subclients

\* Mutant of FairCount: a client that refreshes is counted twice.
FairCountTwice(s, r) == s.count + r.subclients

\* store.Count() with this request in place of the client's lease.
FairCount(s, r) == s.count - Get(s, r.client).subclients + r.subclients

\* What each subclient is entitled to.
EqualShare(s, capacity, r) == capacity \div FairCount(s, r)

Others(s, r) == DOMAIN s.leases \ {r.client}

\* First round: what the modest clients leave, and who competes for it.
Deserved(s, c, equal) == Get(s, c).subclients * equal
Modest(s, r, equal) == {c \in Others(s, r) : Get(s, c).wants < Deserved(s, c, equal)}
WantExtraClients(s, r, equal) == {c \in Others(s, r) : Get(s, c).wants > Deserved(s, c, equal)}

Extra(s, r, equal) ==
    SumOver(Modest(s, r, equal), [c \in Clients |-> Deserved(s, c, equal) - Get(s, c).wants])
WantExtra(s, r, equal) == r.subclients + SubclientsOf(s, WantExtraClients(s, r, equal))

\* Mutant of FirstRoundShare: no extra is distributed.
FirstRoundWithoutExtra(s, r, equal) == equal * r.subclients

\* deservedShare + deservedExtra
FirstRoundShare(s, r, equal) ==
    equal * r.subclients + (Extra(s, r, equal) * r.subclients) \div WantExtra(s, r, equal)

\* Second round: what the competitors do not need of their part of the extra.
\* Their wants are compared with the share of the requester, `first'.
ExtraExtra(s, r, equal, first) ==
    SumOver({c \in WantExtraClients(s, r, equal) : Get(s, c).wants < first},
            [c \in Clients |-> first - Get(s, c).wants])
WantExtraExtra(s, r, equal, first) ==
    r.subclients + SubclientsOf(s, {c \in WantExtraClients(s, r, equal) : Get(s, c).wants > first})

SecondRoundShare(s, r, equal, first) ==
    first + (ExtraExtra(s, r, equal, first) * r.subclients) \div WantExtraExtra(s, r, equal, first)

\* What the request would get if all of it were available.
FairTarget(s, capacity, r) ==
    LET equal == EqualShare(s, capacity, r)
        first == FirstRoundShare(s, r, equal)
    IN  IF r.wants <= equal * r.subclients \/ r.wants < first
        THEN r.wants
        ELSE SecondRoundShare(s, r, equal, first)

FairShare(s, capacity, r) == MinF(FairTarget(s, capacity, r), Available(s, capacity, r))

-----------------------------------------------------------------------------
(* ProportionalShare *)

\* Mutant of ProportionalCount: a new client is not counted.
ProportionalCountKnown(s, r) == s.count

\* Mutant of ProportionalCount: a client that refreshes is counted twice.
ProportionalCountTwice(s, r) == s.count + r.subclients

ProportionalCount(s, r) == IF HasClient(s, r.client) THEN s.count ELSE s.count + r.subclients

ProportionalEqualShare(s, capacity, r) == capacity \div ProportionalCount(s, r)

\* What Map sees of client c: the request in place of the requester's lease.
Seen(s, r, c) == IF c = r.client THEN [wants |-> r.wants, subclients |-> r.subclients]
                 ELSE [wants |-> Get(s, c).wants, subclients |-> Get(s, c).subclients]

\* How much more than its equal share client c wants.
OverShare(s, r, c, equal) == Seen(s, r, c).wants - equal * Seen(s, r, c).subclients

ExtraCapacity(s, r, equal) ==
    SumOver({c \in DOMAIN s.leases : OverShare(s, r, c, equal) < 0},
            [c \in Clients |-> -OverShare(s, r, c, equal)])
ExtraNeed(s, r, equal) ==
    SumOver({c \in DOMAIN s.leases : OverShare(s, r, c, equal) >= 0},
            [c \in Clients |-> OverShare(s, r, c, equal)])

\* store.SumWants() still counts what the requester wanted before.
IsPlenty(s, capacity, r, equal) ==
    \/ s.sumWants <= capacity
    \/ r.wants <= equal * r.subclients

ProportionalTarget(s, capacity, r) ==
    LET equal == ProportionalEqualShare(s, capacity, r)
        share == equal * r.subclients
    IN  IF IsPlenty(s, capacity, r, equal)
        THEN r.wants
        ELSE share + ((r.wants - share) * ExtraCapacity(s, r, equal)) \div ExtraNeed(s, r, equal)

ProportionalShare(s, capacity, r) == MinF(ProportionalTarget(s, capacity, r), Available(s, capacity, r))

-----------------------------------------------------------------------------

Kinds == {"NO_ALGORITHM", "STATIC", "PROPORTIONAL_SHARE", "FAIR_SHARE"}

Amount(kind, s, capacity, r) ==
    CASE kind = "NO_ALGORITHM"       -> NoAlgorithm(r)
      [] kind = "STATIC"             -> Static(capacity, r)
      [] kind = "PROPORTIONAL_SHARE" -> ProportionalShare(s, capacity, r)
      [] kind = "FAIR_SHARE"         -> FairShare(s, capacity, r)

\* Mutant of Grant: wants and has are swapped in the call of Assign.
GrantSwapped(s, r, amount, leaseLength) ==
    Assign(s, r.client, r.wants, amount, r.subclients, leaseLength)

Grant(s, r, amount, leaseLength) ==
    Assign(s, r.client, amount, r.wants, r.subclients, leaseLength)

=============================================================================
