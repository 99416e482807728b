-------------------------- MODULE MCSharedResource --------------------------
(***************************************************************************)
(* Instances of SharedResource.  A capacity of 60 is divided without a      *)
(* remainder among up to three clients, and among up to four subclients.    *)
(***************************************************************************)
EXTENDS SharedResource

FairTemplate == [capacity |-> 60, kind |-> "FAIR_SHARE", leaseLength |-> 1, learning |-> 0]
ProportionalTemplate == [FairTemplate EXCEPT !.kind = "PROPORTIONAL_SHARE"]

\* Learning mode, a cut of the capacity, a change of the algorithm, no limit.
ChangingTemplates ==
    {[FairTemplate EXCEPT !.learning = 1],
     [ProportionalTemplate EXCEPT !.capacity = 24],
     [FairTemplate EXCEPT !.kind = "NO_ALGORITHM"]}

ParentExpiries == {NoExpiry, ExpiresIn(0)}

TwoWants == {10, 50}
SomeClaims == {50}
=============================================================================
