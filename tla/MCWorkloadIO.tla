--------------------------- MODULE MCWorkloadIO ----------------------------
(***************************************************************************)
(* The instance of the text interface that TLC checks: its keys and values *)
(* include the words that the interface uses itself.                       *)
(***************************************************************************)
EXTENDS WorkloadIO

TheWords == <<"SCAN", "STOP">>
=============================================================================
