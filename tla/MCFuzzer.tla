------------------------------ MODULE MCFuzzer ------------------------------
(***************************************************************************)
(* The instances of the fuzzer that TLC checks.                            *)
(***************************************************************************)
EXTENDS Fuzzer, TLC

CONSTANTS Ann, Bob

\* --conflict: every client draws from the same keys.
Conflicting == Ann :> Keys @@ Bob :> Keys

\* Without it the keys of the clients are disjoint.
Disjoint == Ann :> {1} @@ Bob :> Keys \ {1}

TheClients == {Ann, Bob}

TheTimes == 1 .. 2 * TotalOps

Symmetry == Permutations({Ann, Bob})
=============================================================================
