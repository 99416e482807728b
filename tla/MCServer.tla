------------------------------ MODULE MCServer ------------------------------
(***************************************************************************)
(* Instances of Server.                                                     *)
(***************************************************************************)
EXTENDS Server

FairTemplate == [capacity |-> 60, kind |-> "FAIR_SHARE", leaseLength |-> 1, learning |-> 0]
ProportionalTemplate == [FairTemplate EXCEPT !.kind = "PROPORTIONAL_SHARE"]
StaticTemplate == [FairTemplate EXCEPT !.kind = "STATIC"]

Everything(template) == [glob |-> "*", matches |-> Resources, template |-> template]
Only(id, template) == [glob |-> id, matches |-> {id}, template |-> template]

\* Either everything is shared fairly, or r1 proportionally.
SharingConfigs ==
    {<<Everything(FairTemplate)>>, <<Only("r1", ProportionalTemplate), Everything(FairTemplate)>>}

\* An algorithm that does not divide: races on the sums may leave a count of
\* clients that the sharing algorithms cannot divide by.
OneStatic == {<<Everything(StaticTemplate)>>}

=============================================================================
