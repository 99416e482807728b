--------------------------- MODULE MCSteadyDemand ---------------------------
(* Instances of SteadyDemand, with a capacity of 60.                          *)
EXTENDS SteadyDemand

FairTemplate == [capacity |-> 60, kind |-> "FAIR_SHARE", leaseLength |-> 1, learning |-> 0]
ProportionalTemplate == [FairTemplate EXCEPT !.kind = "PROPORTIONAL_SHARE"]

OneEach == [c \in Clients |-> 1]

\* Fair share among single clients, and proportional share among clients with
\* one or two subclients: what the comments promise for fair share does not
\* hold with subclients.
BothAlgorithms ==
    {[template |-> FairTemplate, weight |-> OneEach]} \cup
    [template : {ProportionalTemplate}, weight : [Clients -> {1, 2}]]

\* Below, just above and well above the equal share of three clients.
ThreeDemands == [Clients -> {1, 25, 50}]
=============================================================================
