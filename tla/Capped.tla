------------------------------- MODULE Capped -------------------------------
(* Counters and ages that matter only up to a bound, and stop there.         *)
EXTENDS Integers

AtMost(n, bound) == IF n > bound THEN bound ELSE n

=============================================================================
