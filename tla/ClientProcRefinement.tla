------------------------ MODULE ClientProcRefinement ------------------------
(***************************************************************************)
(* The client handle implements CallHandle.  The last call is where its    *)
(* number is: on its way to the client it has been made, in the RPC it is  *)
(* issued, and as a response on its way back it is answered.  Only a STOP  *)
(* may follow it, hence the heads of the channels and pipes tell.          *)
(***************************************************************************)
EXTENDS ClientProc

\* The last call is the next to be taken from s.
First(s) == s # <<>> /\ Head(s) = sent

\* Neither issued nor lost.
OnItsWay ==
  First(calls) \/ (driver = "write" /\ cur = sent) \/ First(stdin)

Issued == proc = "rpc" /\ cmd = sent

OnItsWayBack ==
  First(stdout) \/ (driver = "send" /\ cur = sent) \/ First(resps)

opBar ==
  IF sent = Stop       THEN "none"
  ELSE IF OnItsWayBack THEN "answered"
  ELSE IF Issued       THEN "issued"
  ELSE IF OnItsWay     THEN "made"
  ELSE "none"

ownerBar == IF caller \in {"stopfailed", "dropped"} THEN "closed" ELSE caller

H == INSTANCE CallHandle WITH owner <- ownerBar, op <- opBar

(***************************************************************************)
(* The handle keeps its promise (proc.rs): whatever the channels, the      *)
(* pipes, the timeouts and the death of the client do, each call is issued *)
(* at most once and answered to its owner only as itself, no call is made  *)
(* after an error, and stop() succeeds only when all are answered.         *)
(***************************************************************************)
HandleContract == H!Spec
=============================================================================
