------------------------------ MODULE LeasePool ------------------------------
(***************************************************************************)
(* What one resource of a master promises its clients, whatever algorithm   *)
(* it divides its capacity with: a pool with a limit, and the amount that   *)
(* each holder may use.                                                     *)
(*                                                                         *)
(* An amount changes in two ways only: a grant gives its holder another     *)
(* one, or it ends and is zero.  A grant never takes the pool beyond its    *)
(* limit, however far beyond it a lower limit has left the pool; and it is  *)
(* never negative while what the others hold is within the limit.           *)
(***************************************************************************)
EXTENDS Sums

CONSTANT NumHolders

Holders == 1..NumHolders

NoLimit == -1
Limits == Nat \cup {NoLimit}

VARIABLES limit, held

poolVars == <<limit, held>>

Init == limit \in Limits /\ held = [h \in Holders |-> 0]

HeldByOthers(h) == Sum(held, NumHolders) - held[h]

\* The holder gets the amount held'[h].
Grant(h) ==
    /\ held' = [g \in Holders |-> IF g = h THEN held'[h] ELSE held[g]]
    /\ held'[h] \in Int
    /\ limit # NoLimit =>
          /\ HeldByOthers(h) + held'[h] <= limit
          /\ HeldByOthers(h) <= limit => held'[h] >= 0
    /\ UNCHANGED limit

\* Amounts end, by a release or with time; so does a limit.
End(H) ==
    /\ held' = [h \in Holders |-> IF h \in H THEN 0 ELSE held[h]]
    /\ limit' \in Limits

Next == (\E h \in Holders : Grant(h)) \/ (\E H \in SUBSET Holders : End(H))

Spec == Init /\ [][Next]_poolVars

=============================================================================
