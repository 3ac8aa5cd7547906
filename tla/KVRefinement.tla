---------------------------- MODULE KVRefinement ----------------------------
(***************************************************************************)
(* The service implements AtomicKV.  The map is the abstract store at      *)
(* every instant, also halfway through an operation, because each          *)
(* operation changes it in one statement; a call takes effect when its     *)
(* store operation returns, while the handler still holds the mutex.       *)
(***************************************************************************)
EXTENDS KVServer

opBar ==
  [c \in Clients |->
     CASE pc[c] = "none"                  -> "none"
       [] pc[c] \in {"unlock", "replied"} -> "done"
       [] OTHER                           -> "pending"]

\* The answer is determined before the reply exists.
respBar ==
  [c \in Clients |->
     CASE pc[c] = "unlock"  -> Printed(req[c], ReplyFor(req[c], ret[c]))
       [] pc[c] = "replied" -> Printed(req[c], reply[c])
       [] OTHER             -> out[c]]

A == INSTANCE AtomicKV WITH store <- data, call <- req, op <- opBar, resp <- respBar

(***************************************************************************)
(* The service is linearizable: every behaviour of the clients, the        *)
(* handler threads and the map operations is one in which each call takes  *)
(* effect atomically between its invocation and its answer, at most once,  *)
(* and the printed answer is the one of that instant.                      *)
(***************************************************************************)
Linearizable == A!Spec
=============================================================================
