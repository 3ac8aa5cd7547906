----------------------------- MODULE CallHandle -----------------------------
(***************************************************************************)
(* What a client handle promises to the thread that owns it and to the     *)
(* service: calls are made one at a time and none after an error; a call   *)
(* is issued to the service at most once, perhaps only after its owner has *)
(* given up; an answer that is returned is the one to the call that is     *)
(* waited for; and a stop succeeds only when every call has been answered. *)
(*                                                                         *)
(* There are no channels, threads, pipes and processes here.               *)
(***************************************************************************)
EXTENDS Integers, Sequences

CONSTANT MaxCalls   \* bound: calls made through the handle before it is stopped

VARIABLES
  owner,   \* "idle", "waiting", "failed", "stopping", "stopped" or "closed"
  sent,    \* calls made so far: a call is its number
  got,     \* the answers returned, each with the call it was taken to answer
  op       \* the last call: "made", "issued" to the service, "answered" by it,
           \* or "none" once its answer has been returned or it is lost

vars == <<owner, sent, got, op>>

Init ==
  /\ owner = "idle"
  /\ sent = 0
  /\ got = <<>>
  /\ op = "none"

Invoke ==
  /\ owner = "idle"
  /\ sent < MaxCalls
  /\ owner' = "waiting"
  /\ sent' = sent + 1
  /\ op' = "made"
  /\ UNCHANGED got

Issue ==
  /\ op = "made"
  /\ op' = "issued"
  /\ UNCHANGED <<owner, sent, got>>

Answer ==
  /\ op = "issued"
  /\ op' = "answered"
  /\ UNCHANGED <<owner, sent, got>>

\* The call, its RPC or its answer is lost.
Lose ==
  /\ op # "none"
  /\ op' = "none"
  /\ UNCHANGED <<owner, sent, got>>

Return ==
  /\ owner = "waiting"
  /\ op = "answered"
  /\ owner' = "idle"
  /\ got' = Append(got, [call |-> sent, resp |-> sent])
  /\ op' = "none"
  /\ UNCHANGED sent

GiveUp ==
  /\ owner = "waiting"
  /\ owner' = "failed"
  /\ UNCHANGED <<sent, got, op>>

Close ==
  /\ owner \in {"idle", "failed"}
  /\ owner' \in {"stopping", "closed"}
  /\ UNCHANGED <<sent, got, op>>

StopSucceeds ==
  /\ owner = "stopping"
  /\ Len(got) = sent
  /\ op = "none"
  /\ owner' = "stopped"
  /\ UNCHANGED <<sent, got, op>>

\* A late answer is discarded.
StopFails ==
  /\ owner = "stopping"
  /\ owner' = "closed"
  /\ op' \in {op, "none"}
  /\ UNCHANGED <<sent, got>>

Next ==
  \/ Invoke
  \/ Issue
  \/ Answer
  \/ Lose
  \/ Return
  \/ GiveUp
  \/ Close
  \/ StopSucceeds
  \/ StopFails

Spec == Init /\ [][Next]_vars
=============================================================================
