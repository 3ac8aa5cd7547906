--------------------------- MODULE LauncherProofs ---------------------------
(***************************************************************************)
(* Proof that the result of the launcher tells what has become of its node.*)
(***************************************************************************)
EXTENDS Launcher, TLAPS

(***************************************************************************)
(* The inductive invariant: what has been started is of the node's kind,   *)
(* and just has the status of the process, or has not run it at all.       *)
(***************************************************************************)
TypeInv ==
  /\ node \in {"s", "m", "other"}
  /\ args \in [Kinds -> {"absent", "none", "recipe"}]
  /\ main \in {"starting", "waiting", "ok", "err", "panicked"}
  /\ just \in {"none", "running", "success", "failure"}
  /\ proc \in {"none", "running", "success", "failure"}

IInv ==
  /\ TypeInv
  /\ just = "none" => kind = "none" /\ proc = "none"
  /\ just # "none" => kind = Kind /\ Kind # "none" /\ args[kind] = "recipe"
  /\ just = "success" => proc = "success"
  /\ just = "failure" => proc \in {"none", "failure"}
  /\ main = "starting" => just = "none"
  /\ main = "waiting" => just # "none"
  /\ main \in {"ok", "err", "panicked"} => just # "running"
  /\ main = "ok" =>
       just = "success" \/ (just = "none" /\ Kind # "none" /\ args[Kind] = "none")

\* The kind of a node is one of the kinds, if it is one.
LEMMA KindType ==
  ASSUME TypeInv
  PROVE  /\ Kind \in Kinds \cup {"none"}
         /\ Kind = "server" => node = "s"
         /\ Kind = "manager" => node = "m"
BY DEF TypeInv, Kind, Kinds

\* The invariant says what ResultTells says.
LEMMA IInvTells == IInv => ResultTells
<1> SUFFICES ASSUME IInv PROVE ResultTells
  OBVIOUS
<1>1. main = "ok" => Kind # "none" /\ EndsWell(Kind)
  <2>1. CASE just = "success"
    BY <2>1 DEF IInv, EndsWell
  <2>2. CASE just # "success"
    BY <2>2 DEF IInv, EndsWell
  <2> QED
    BY <2>1, <2>2
<1>2. main \in {"ok", "err", "panicked"} => proc # "running"
  BY DEF IInv, TypeInv
<1>3. Kind # "none" => (Kind = "server" /\ node = "s") \/ (Kind = "manager" /\ node = "m")
  BY KindType DEF IInv, Kinds
<1> QED
  BY <1>1, <1>2, <1>3 DEF ResultTells

\* Every step preserves the invariant.
LEMMA NextIInv == IInv /\ [Next]_vars => IInv'
<1> SUFFICES ASSUME IInv, [Next]_vars PROVE IInv'
  OBVIOUS
<1> USE DEF IInv, TypeInv
<1>1. CASE InvalidNode \/ NoArguments \/ SpawnFails
  BY <1>1 DEF InvalidNode, NoArguments, SpawnFails, Kind
<1>2. CASE NothingToLaunch
  BY <1>2, KindType DEF NothingToLaunch, Kind
<1>3. CASE Spawn
  BY <1>3 DEF Spawn, Kind
<1>4. CASE Wait
  BY <1>4 DEF Wait, Kind
<1>5. CASE Just
  BY <1>5 DEF Just, JustRuns, JustFails, JustEnds, Kind
<1>6. CASE ProcEnds
  BY <1>6 DEF ProcEnds, Kind
<1>7. CASE UNCHANGED vars
  BY <1>7 DEF vars, Kind
<1> QED
  BY <1>1, <1>2, <1>3, <1>4, <1>5, <1>6, <1>7 DEF Next, Main

(***************************************************************************)
(* Whatever the node, its arguments and the status of the process are, a   *)
(* launcher that ends well has run the process of its node to a good end,  *)
(* or the arguments of that node said that there was none to run, and it   *)
(* never ends before the process does.                                     *)
(***************************************************************************)
THEOREM LauncherTells == Spec => []ResultTells
<1>1. Init => IInv
  BY DEF Init, IInv, TypeInv
<1> QED
  BY <1>1, NextIInv, IInvTells, PTL DEF Spec
=============================================================================
