----------------------------- MODULE AtomicKV ------------------------------
(***************************************************************************)
(* What the key-value service promises to its clients: linearizability.    *)
(* Every call takes effect atomically, at one instant between the moment   *)
(* the client issues it and the moment the answer is printed, and the      *)
(* answer is the one the store interface gives at that instant.            *)
(*                                                                         *)
(* The service keeps nothing on disk and a client never retries: a crash   *)
(* empties the store, a call that fails may or may not have taken effect,  *)
(* it takes effect at most once, and it makes its client exit.             *)
(***************************************************************************)
EXTENDS KVStore

CONSTANTS
  Clients,   \* the client processes
  None       \* no call, no answer

VARIABLES
  store,     \* the map
  cli,       \* per client: "ready" for a command, "waiting" or "exited"
  op,        \* per client: its call is "pending", "done" or there is "none"
  call,      \* per client: its last call
  resp       \* per client: the answer to its last call, None until it has one

vars == <<store, cli, op, call, resp>>

Init ==
  /\ store = Empty
  /\ cli = [c \in Clients |-> "ready"]
  /\ op = [c \in Clients |-> "none"]
  /\ call = [c \in Clients |-> None]
  /\ resp = [c \in Clients |-> None]

Invoke(c, k) ==
  /\ cli[c] = "ready"
  /\ cli' = [cli EXCEPT ![c] = "waiting"]
  /\ op' = [op EXCEPT ![c] = "pending"]
  /\ call' = [call EXCEPT ![c] = k]
  /\ resp' = [resp EXCEPT ![c] = None]
  /\ UNCHANGED store

\* The instant at which the call takes effect.
Execute(c) ==
  /\ op[c] = "pending"
  /\ op' = [op EXCEPT ![c] = "done"]
  /\ store' = Effect(store, call[c])
  /\ \E r \in Results(store, call[c]) : resp' = [resp EXCEPT ![c] = r]
  /\ UNCHANGED <<cli, call>>

Return(c) ==
  /\ cli[c] = "waiting"
  /\ op[c] = "done"
  /\ cli' = [cli EXCEPT ![c] = "ready"]
  /\ op' = [op EXCEPT ![c] = "none"]
  /\ UNCHANGED <<store, call, resp>>

Quit(c) ==
  /\ cli[c] = "ready"
  /\ cli' = [cli EXCEPT ![c] = "exited"]
  /\ UNCHANGED <<store, op, call, resp>>

\* The request or its answer is lost.
Lose(c) ==
  /\ op[c] \in {"pending", "done"}
  /\ op' = [op EXCEPT ![c] = "none"]
  /\ resp' = [resp EXCEPT ![c] = None]
  /\ UNCHANGED <<store, cli, call>>

Fail(c) ==
  /\ cli[c] = "waiting"
  /\ cli' = [cli EXCEPT ![c] = "exited"]
  /\ UNCHANGED <<store, op, call, resp>>

\* The service stops: the map is gone, and so are some of the calls.
Crash(lost) ==
  /\ \A c \in lost : op[c] \in {"pending", "done"}
  /\ store' = Empty
  /\ op' = [c \in Clients |-> IF c \in lost THEN "none" ELSE op[c]]
  /\ resp' = [c \in Clients |-> IF c \in lost THEN None ELSE resp[c]]
  /\ UNCHANGED <<cli, call>>

Next ==
  \/ \E c \in Clients :
       \/ \E k \in Calls : Invoke(c, k)
       \/ Execute(c)
       \/ Return(c)
       \/ Quit(c)
       \/ Lose(c)
       \/ Fail(c)
  \/ \E lost \in SUBSET Clients : Crash(lost)

Spec == Init /\ [][Next]_vars
=============================================================================
