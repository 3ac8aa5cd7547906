---------------------------- MODULE MCKVServer -----------------------------
(***************************************************************************)
(* The instance of the service that TLC checks.                            *)
(***************************************************************************)
EXTENDS KVRefinement
=============================================================================
