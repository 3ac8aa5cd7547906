----------------------------- MODULE MCBencher -----------------------------
(***************************************************************************)
(* The instances of the benchmark that TLC checks.                         *)
(***************************************************************************)
EXTENDS Bencher
=============================================================================
