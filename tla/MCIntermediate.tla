--------------------------- MODULE MCIntermediate ---------------------------
(* Instances of Intermediate.                                                *)
EXTENDS Intermediate

Roomy == [capacity |-> 60, kind |-> "FAIR_SHARE", leaseLength |-> 1, learning |-> 1]
Tight == [Roomy EXCEPT !.capacity = 24]
RoomyOrTight == {Roomy, Tight}

\* defaultResourceTemplate, with one tick of learning mode for its twenty
\* seconds.
DefaultTemplate == [capacity |-> 0, kind |-> "FAIR_SHARE", leaseLength |-> 1, learning |-> 1]

FitsRoomy == {<<20, 30>>}
=============================================================================
