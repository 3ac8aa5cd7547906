----------------------------- MODULE MCRefCli ------------------------------
(***************************************************************************)
(* The instance of the reference client that TLC checks.                   *)
(***************************************************************************)
EXTENDS RefCli

\* Calls of test 1 (run_test.sh:178): no range has its start after its end.
ClosedScans == {k \in Calls : k.op = "Put" \/ (k.op = "Scan" /\ k.start <= k.end)}
=============================================================================
