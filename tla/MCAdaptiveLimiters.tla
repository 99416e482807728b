------------------------- MODULE MCAdaptiveLimiters -------------------------
(* Instances of AdaptiveLimiters.                                            *)
EXTENDS AdaptiveLimiters

\* Rates of 1 and 3 per range of 2 are set as 1 token, and as 3, per 2 units.
Slow == {1}
SlowAndFast == {1, 3}
=============================================================================
