---------------------------- MODULE MCClientProc ----------------------------
(***************************************************************************)
(* The instance of the client handle that TLC checks.                      *)
(***************************************************************************)
EXTENDS ClientProcRefinement
=============================================================================
