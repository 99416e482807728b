-------------------------------- MODULE Sums --------------------------------
(***************************************************************************)
(* Sums of integer functions on 1 .. n.  The lease store of doorman keeps   *)
(* running sums over a Go map; every module that has to say what such a     *)
(* sum ought to be says it with Sum.                                        *)
(*                                                                         *)
(* The recursion is a recursive function, not a RECURSIVE operator, so that *)
(* the theorems of SumTheorems can be proved about it.                      *)
(***************************************************************************)
EXTENDS Integers

\* The sum of f[1] .. f[n].
Sum(f, n) ==
    LET upTo[i \in 0..n] == IF i = 0 THEN 0 ELSE upTo[i - 1] + f[i]
    IN  upTo[n]

=============================================================================
