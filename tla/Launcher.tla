------------------------------ MODULE Launcher ------------------------------
(***************************************************************************)
(* The service launcher (runner/src/bin/service) and its handle of the     *)
(* process it starts (ServerProc in proc.rs): depending on its node ID it  *)
(* runs the server or the manager of the service and waits for it.         *)
(*                                                                         *)
(* The child is not that process but `just`, which runs it and ends with   *)
(* its status (proj1.just).  A vector of arguments is told apart by its    *)
(* first one: there is none, it is none in some case, or it is a recipe.   *)
(***************************************************************************)
EXTENDS Naturals

VARIABLES
  node,      \* the first letter of node_id: "s", "m" or "other"
  args,      \* per kind: its arguments are "absent", "none" or a "recipe"
  main,      \* "starting", "waiting"; "ok", "err" or "panicked" when it has ended
  kind,      \* the kind of process that was started, "none" if none was
  just,      \* the child: "none", "running", "success" or "failure"
  proc       \* the process that just runs: likewise

vars == <<node, args, main, kind, just, proc>>

Kinds == {"server", "manager"}

Init ==
  /\ node \in {"s", "m", "other"}
  /\ args \in [Kinds -> {"absent", "none", "recipe"}]
  /\ main = "starting"
  /\ kind = "none"
  /\ just = "none"
  /\ proc = "none"

\* The kind of process that the node is for.
Kind == IF node = "s" THEN "server" ELSE IF node = "m" THEN "manager" ELSE "none"

InvalidNode ==
  /\ main = "starting"
  /\ Kind = "none"
  /\ main' = "err"
  /\ UNCHANGED <<node, args, kind, just, proc>>

\* Element 0 of an empty vector.
NoArguments ==
  /\ main = "starting"
  /\ Kind # "none" /\ args[Kind] = "absent"
  /\ main' = "panicked"
  /\ UNCHANGED <<node, args, kind, just, proc>>

\* Mutant: a none in either vector will do.
NothingToLaunchAny ==
  /\ main = "starting"
  /\ Kind # "none" /\ \E k \in Kinds : args[k] = "none"
  /\ main' = "ok"
  /\ UNCHANGED <<node, args, kind, just, proc>>

NothingToLaunch ==
  /\ main = "starting"
  /\ Kind # "none" /\ args[Kind] = "none"
  /\ main' = "ok"
  /\ UNCHANGED <<node, args, kind, just, proc>>

Spawn ==
  /\ main = "starting"
  /\ Kind # "none" /\ args[Kind] = "recipe"
  /\ main' = "waiting"
  /\ kind' = Kind
  /\ just' = "running"
  /\ UNCHANGED <<node, args, proc>>

SpawnFails ==
  /\ main = "starting"
  /\ Kind # "none" /\ args[Kind] = "recipe"
  /\ main' = "err"
  /\ UNCHANGED <<node, args, kind, just, proc>>

\* Mutant: the launcher waits for a child that succeeds.
WaitForSuccess ==
  /\ main = "waiting"
  /\ just = "success"
  /\ main' = "ok"
  /\ UNCHANGED <<node, args, kind, just, proc>>

Wait ==
  /\ main = "waiting"
  /\ just \in {"success", "failure"}
  /\ main' = IF just = "success" THEN "ok" ELSE "err"
  /\ UNCHANGED <<node, args, kind, just, proc>>

(***************************************************************************)
(* just and the process it runs.                                           *)
(***************************************************************************)
JustRuns ==
  /\ just = "running"
  /\ proc = "none"
  /\ proc' = "running"
  /\ UNCHANGED <<node, args, main, kind, just>>

\* There is no such recipe.
JustFails ==
  /\ just = "running"
  /\ proc = "none"
  /\ just' = "failure"
  /\ UNCHANGED <<node, args, main, kind, proc>>

\* It cannot listen, fails, or is killed (p1::kill).  The server of p1 does not
\* terminate by itself.
ProcEnds ==
  /\ proc = "running"
  /\ proc' \in {"success", "failure"}
  /\ UNCHANGED <<node, args, main, kind, just>>

JustEnds ==
  /\ just = "running"
  /\ proc \in {"success", "failure"}
  /\ just' = proc
  /\ UNCHANGED <<node, args, main, kind, proc>>

Main == InvalidNode \/ NoArguments \/ NothingToLaunch \/ Spawn \/ SpawnFails \/ Wait
Just == JustRuns \/ JustFails \/ JustEnds

Next == Main \/ Just \/ ProcEnds

Spec == Init /\ [][Next]_vars

\* Fairness: the launcher and just run on; the process may run for ever.
FairSpec == Spec /\ WF_vars(Main) /\ WF_vars(Just)

----------------------------------------------------------------------------
\* A process of kind k has run and succeeded, or none was to run.
EndsWell(k) ==
  \/ args[k] = "recipe" /\ kind = k /\ proc = "success"
  \/ args[k] = "none" /\ kind = "none" /\ proc = "none"

(***************************************************************************)
(* The result of the launcher tells what has become of its node (service/  *)
(* main.rs:43, proc.rs:33): it ends well only if the arguments of the      *)
(* node's own kind say that it needs no process, and none was started, or  *)
(* if they are a recipe, and the process of that kind has run and has      *)
(* terminated successfully; and it leaves no process behind.               *)
(***************************************************************************)
ResultTells ==
  /\ main = "ok" =>
       \/ node = "s" /\ EndsWell("server")
       \/ node = "m" /\ EndsWell("manager")
  /\ main \in {"ok", "err", "panicked"} => proc # "running"

(***************************************************************************)
(* The launcher does not outlive the process that it has launched.         *)
(***************************************************************************)
EndsWithProcess == (proc \in {"success", "failure"}) ~> (main \in {"ok", "err"})
=============================================================================
