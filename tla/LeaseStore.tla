----------------------------- MODULE LeaseStore -----------------------------
(***************************************************************************)
(* leaseStoreImpl of store.go: the outstanding leases of one resource, and  *)
(* the running sums the algorithms read instead of walking the map.         *)
(*                                                                         *)
(* A store is a value, [leases, sumHas, sumWants, count], and an operation  *)
(* a function from a store to a store; the modules that own stores keep     *)
(* them in variables.  Clients are numbered.  Amounts of capacity, float64  *)
(* in the code, are integers in a unit small enough for the model at hand.  *)
(* `left' is the number of clock ticks from now to Lease.Expiry.            *)
(***************************************************************************)
EXTENDS Sums

CONSTANT NumClients

ASSUME NumClientsAssumption == NumClients \in Nat

Clients == 1..NumClients

\* What indexing the Go map with an unknown client returns.
ZeroLease == [has |-> 0, wants |-> 0, subclients |-> 0, left |-> 0]

Lease == [has : Int, wants : Int, subclients : Int, left : Int]

EmptyStore == [leases |-> <<>>, sumHas |-> 0, sumWants |-> 0, count |-> 0]

IsStore(s) ==
    /\ s = [leases |-> s.leases, sumHas |-> s.sumHas, sumWants |-> s.sumWants, count |-> s.count]
    /\ DOMAIN s.leases \subseteq Clients
    /\ s.leases \in [DOMAIN s.leases -> Lease]
    /\ s.sumHas \in Int
    /\ s.sumWants \in Int
    /\ s.count \in Int

HasClient(s, c) == c \in DOMAIN s.leases

Get(s, c) == IF HasClient(s, c) THEN s.leases[c] ELSE ZeroLease

\* The sum of f[c] over the clients c in C.
SumOver(C, f) == Sum([c \in Clients |-> IF c \in C THEN f[c] ELSE 0], NumClients)

\* What the leases of the clients in C add up to.
HasOf(s, C) == SumOver(C, [c \in Clients |-> Get(s, c).has])
WantsOf(s, C) == SumOver(C, [c \in Clients |-> Get(s, c).wants])
SubclientsOf(s, C) == SumOver(C, [c \in Clients |-> Get(s, c).subclients])

\* The running sums are the sums of the leases in the map.
SumsMatch(s) ==
    /\ s.sumHas = HasOf(s, Clients)
    /\ s.sumWants = WantsOf(s, Clients)
    /\ s.count = SubclientsOf(s, Clients)

-----------------------------------------------------------------------------

\* Mutant of Assign: what the client had before is not taken off the sum.
AssignAddsTwice(s, c, has, wants, subclients, leaseLength) ==
    LET old == Get(s, c)
        new == [has |-> has, wants |-> wants, subclients |-> subclients, left |-> leaseLength]
    IN  [leases   |-> [d \in DOMAIN s.leases \cup {c} |-> IF d = c THEN new ELSE s.leases[d]],
         sumHas   |-> s.sumHas + has,
         sumWants |-> s.sumWants + (wants - old.wants),
         count    |-> s.count + (subclients - old.subclients)]

Assign(s, c, has, wants, subclients, leaseLength) ==
    LET old == Get(s, c)
        new == [has |-> has, wants |-> wants, subclients |-> subclients, left |-> leaseLength]
    IN  [leases   |-> [d \in DOMAIN s.leases \cup {c} |-> IF d = c THEN new ELSE s.leases[d]],
         sumHas   |-> s.sumHas + (has - old.has),
         sumWants |-> s.sumWants + (wants - old.wants),
         count    |-> s.count + (subclients - old.subclients)]

\* The effect of Release(c) for every client c in C, in any order.
ReleaseAll(s, C) ==
    [leases   |-> [d \in DOMAIN s.leases \ C |-> s.leases[d]],
     sumHas   |-> s.sumHas - HasOf(s, C),
     sumWants |-> s.sumWants - WantsOf(s, C),
     count    |-> s.count - SubclientsOf(s, C)]

\* Mutant of Release: the client is forgotten, its subclients are still counted.
ReleaseKeepsCount(s, c) ==
    IF HasClient(s, c)
    THEN [leases   |-> [d \in DOMAIN s.leases \ {c} |-> s.leases[d]],
          sumHas   |-> s.sumHas - s.leases[c].has,
          sumWants |-> s.sumWants - s.leases[c].wants,
          count    |-> s.count]
    ELSE s

Release(s, c) ==
    IF HasClient(s, c)
    THEN [leases   |-> [d \in DOMAIN s.leases \ {c} |-> s.leases[d]],
          sumHas   |-> s.sumHas - s.leases[c].has,
          sumWants |-> s.sumWants - s.leases[c].wants,
          count    |-> s.count - s.leases[c].subclients]
    ELSE s

\* Mutant of Expired: a lease is gone at the tick of its expiry.
ExpiredTooSoon(s) == {c \in DOMAIN s.leases : s.leases[c].left <= 0}

\* now.After(Expiry) is strict: a lease lives through the tick of its expiry.
Expired(s) == {c \in DOMAIN s.leases : s.leases[c].left < 0}

Clean(s) == ReleaseAll(s, Expired(s))

\* One tick of the clock.  How long ago a lease expired makes no difference.
Tick(left) == IF left < 0 THEN left ELSE left - 1

AgeLease(lease) == [lease EXCEPT !.left = Tick(lease.left)]

AgeStore(s) == [s EXCEPT !.leases = [c \in DOMAIN s.leases |-> AgeLease(s.leases[c])]]

=============================================================================
