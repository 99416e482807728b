------------------------------ MODULE Resource ------------------------------
(***************************************************************************)
(* The type Resource of resource.go: a lease store under one configuration  *)
(* template, with the end of learning mode and, on a server that has a      *)
(* parent, the expiry of the capacity the parent granted.                   *)
(*                                                                         *)
(* Every method holds the resource's lock for its whole body, so each is    *)
(* one function from a resource to a resource.  A template is a record      *)
(*   [capacity, kind, leaseLength, learning]                                *)
(* with the durations in ticks.  The times of the code are kept as the      *)
(* number of ticks still to go.                                             *)
(***************************************************************************)
EXTENDS Algorithm

Template == [capacity : Nat, kind : Kinds, leaseLength : Nat \ {0}, learning : Nat]

\* The expiryTime pointer: nil on a root server.
Expiry == [set : BOOLEAN, left : Int]
NoExpiry == [set |-> FALSE, left |-> 0]
ExpiresIn(n) == [set |-> TRUE, left |-> n]

IsResource(res) ==
    /\ res = [store |-> res.store, config |-> res.config,
              expiry |-> res.expiry, learningLeft |-> res.learningLeft]
    /\ IsStore(res.store)
    /\ res.config \in Template
    /\ res.expiry \in Expiry
    /\ res.learningLeft \in Int

-----------------------------------------------------------------------------

\* expiryTime.Before(now): the capacity is gone one tick after its expiry.
Capacity(res) == IF res.expiry.set /\ res.expiry.left < 0 THEN 0 ELSE res.config.capacity

InLearningMode(res) == res.learningLeft > 0

\* The mastership is `age' ticks old when the resource is first asked for.
LearningLeft(cfg, age) == IF cfg.learning - age > 0 THEN cfg.learning - age ELSE 0

NewResource(cfg, age) ==
    [store |-> EmptyStore, config |-> cfg, expiry |-> NoExpiry, learningLeft |-> LearningLeft(cfg, age)]

\* Mutant of LoadConfig: the leases are lost with the old configuration.
LoadConfigAnew(res, cfg, expiry) ==
    [store |-> EmptyStore, config |-> cfg, expiry |-> expiry, learningLeft |-> res.learningLeft]

\* Store, learning mode and the leases granted so far survive a reload.
LoadConfig(res, cfg, expiry) ==
    [store |-> res.store, config |-> cfg, expiry |-> expiry, learningLeft |-> res.learningLeft]

\* The amount Decide grants, once the expired leases are gone.
DecidedAmount(res, r) ==
    IF InLearningMode(res)
    THEN Learn(r)
    ELSE Amount(res.config.kind, Clean(res.store), Capacity(res), r)

Decide(res, r) ==
    [res EXCEPT !.store = Grant(Clean(@), r, DecidedAmount(res, r), res.config.leaseLength)]

ReleaseClient(res, c) == [res EXCEPT !.store = Release(@, c)]

\* One tick of the clock.
AgeResource(res) ==
    [store        |-> AgeStore(res.store),
     config       |-> res.config,
     expiry       |-> IF res.expiry.set THEN ExpiresIn(Tick(res.expiry.left)) ELSE NoExpiry,
     learningLeft |-> IF res.learningLeft > 0 THEN res.learningLeft - 1 ELSE 0]

-----------------------------------------------------------------------------
SharingKinds == {"PROPORTIONAL_SHARE", "FAIR_SHARE"}

\* The divisors of a decision, where the algorithm divides at all.
Divisors(res, r) ==
    LET s == Clean(res.store)
        cap == Capacity(res)
        fair == EqualShare(s, cap, r)
        proportional == ProportionalEqualShare(s, cap, r)
    IN  CASE ~InLearningMode(res) /\ res.config.kind = "FAIR_SHARE" ->
               {FairCount(s, r), WantExtra(s, r, fair),
                WantExtraExtra(s, r, fair, FirstRoundShare(s, r, fair))}
          [] ~InLearningMode(res) /\ res.config.kind = "PROPORTIONAL_SHARE" ->
               {ProportionalCount(s, r)}
                 \cup (IF IsPlenty(s, cap, r, proportional) THEN {} ELSE {ExtraNeed(s, r, proportional)})
          [] OTHER -> {}

=============================================================================
