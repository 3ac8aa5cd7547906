------------------------------- MODULE Stats --------------------------------
(***************************************************************************)
(* The 99th percentile that the benchmark prints of the latencies of one   *)
(* kind of operation (Stats::latency_stats in bencher/main.rs).            *)
(*                                                                         *)
(* The code computes the index in floating point.  0.99 is represented by  *)
(* a slightly smaller number and products are rounded to the nearest one,  *)
(* so that ceil gives the integer below for all feasible numbers.          *)
(***************************************************************************)
EXTENDS Integers

CONSTANT MaxSamples   \* bound: numbers of samples for which TLC checks the index

ASSUME StatsAssumption == MaxSamples \in Nat

Ceil99(n) == (99 * n + 99) \div 100

\* Mutant: the rounded number is the index.
P99IndexFrom1(n) == IF Ceil99(n) < n - 1 THEN Ceil99(n) ELSE n - 1

\* The index in the n sorted samples, counted from 0.
P99Index(n) ==
  LET i == IF Ceil99(n) = 0 THEN 0 ELSE Ceil99(n) - 1
  IN  IF i < n - 1 THEN i ELSE n - 1

\* The 99th percentile of n samples: at least 99% of them, itself included, do
\* not come after it in the sorted list, and fewer than 99% come before it.
IsP99(i, n) == i \in 0 .. n - 1 /\ 100 * (i + 1) >= 99 * n /\ 100 * i < 99 * n

IndexRight == \A n \in 1 .. MaxSamples : IsP99(P99Index(n), n)
=============================================================================
