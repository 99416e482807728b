------------------------------ MODULE MCClient ------------------------------
(***************************************************************************)
(* Instances of Client: two users of one resource.                           *)
(***************************************************************************)
EXTENDS Client

SameId == [h \in Handles |-> "r1"]

=============================================================================
