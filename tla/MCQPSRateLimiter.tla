-------------------------- MODULE MCQPSRateLimiter --------------------------
(* Instances of QPSRateLimiter.                                              *)
EXTENDS QPSRateLimiter

\* Unlimited, blocked, one request per 200 ms, and a rate that leaves 49 of 99
\* requests over when it is divided by 50 intervals of a second.
AllKinds == {-1, 0, 5, 99}
=============================================================================
