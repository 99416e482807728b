------------------------------ MODULE Backoff ------------------------------
(***************************************************************************)
(* timeutil.Backoff: how long whoever failed waits before it tries again.   *)
(* Times are integers; the code's, nanoseconds, are as good as exact.       *)
(***************************************************************************)
EXTENDS Integers

\* It grows by 30 percent with every retry, until it reaches the maximum.
Grown(base, max, retries) ==
    LET grown[n \in 0..retries] ==
            IF n = 0 THEN base
            ELSE IF grown[n - 1] < max THEN (grown[n - 1] * 13) \div 10 ELSE grown[n - 1]
    IN  grown[retries]

Backoff(base, max, retries) ==
    IF Grown(base, max, retries) > max THEN max ELSE Grown(base, max, retries)

=============================================================================
