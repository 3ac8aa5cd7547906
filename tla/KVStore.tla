------------------------------ MODULE KVStore ------------------------------
(***************************************************************************)
(* The KVStore interface: what each of the five operations means when it   *)
(* is executed alone on a map from keys to values.  Everything here is     *)
(* independent of how the store, the server or the clients carry an        *)
(* operation out.                                                          *)
(*                                                                         *)
(* A key is the rank of its string in dictionary order, so that the        *)
(* comparisons of std::map and String are the order of the integers.       *)
(***************************************************************************)
EXTENDS Integers, Sequences

CONSTANTS
  NumKeys,   \* how many distinct keys the clients use
  Values,    \* the strings that are stored
  Nil        \* std::nullopt, Option::None, the word "null"

ASSUME KVAssumption ==
  /\ NumKeys \in Nat \ {0}
  /\ Nil \notin Values

Keys == 1 .. NumKeys

\* The contents of the map; Nil marks a key that is absent.
Stores == [Keys -> Values \cup {Nil}]

Empty == [k \in Keys |-> Nil]

Entries == Keys \X Values

(***************************************************************************)
(* A call (KvCall without Stop) and the answer to it (KvResp without       *)
(* Stop).                                                                  *)
(***************************************************************************)
UpdateOps == {"Put", "Swap", "Delete"}

Calls ==
  [op : {"Put", "Swap"}, key : Keys, value : Values]
    \cup [op : {"Get", "Delete"}, key : Keys]
    \cup [op : {"Scan"}, start : Keys, end : Keys]

Answers ==
  [op : {"Put", "Delete"}, key : Keys, found : BOOLEAN]
    \cup [op : {"Swap", "Get"}, key : Keys, value : Values \cup {Nil}]
    \cup [op : {"Scan"}, start : Keys, end : Keys, entries : Seq(Entries)]

(***************************************************************************)
(* The entries of d whose keys are in the inclusive range start..end, and  *)
(* the lists that hold exactly these in ascending key order.  There is one *)
(* such list; it is described rather than computed.                        *)
(***************************************************************************)
InRange(d, start, end) ==
  {<<k, d[k]>> : k \in {i \in Keys : start <= i /\ i <= end /\ d[i] # Nil}}

Ascending(list) ==
  \A i, j \in 1 .. Len(list) : i < j => list[i][1] < list[j][1]

ScanLists(d, start, end) ==
  {list \in UNION {[1 .. n -> InRange(d, start, end)] : n \in 0 .. NumKeys} :
     /\ Ascending(list)
     /\ \A e \in InRange(d, start, end) : \E i \in 1 .. Len(list) : list[i] = e}

\* The map after the call has been executed on d.
Effect(d, call) ==
  CASE call.op \in {"Put", "Swap"} -> [d EXCEPT ![call.key] = call.value]
    [] call.op = "Delete"          -> [d EXCEPT ![call.key] = Nil]
    [] OTHER                       -> d

\* The answers a client may be given to a call that is executed on d.
Results(d, call) ==
  CASE call.op \in {"Put", "Delete"} ->
         {[op |-> call.op, key |-> call.key, found |-> d[call.key] # Nil]}
    [] call.op \in {"Swap", "Get"} ->
         {[op |-> call.op, key |-> call.key, value |-> d[call.key]]}
    [] OTHER ->
         {[op |-> "Scan", start |-> call.start, end |-> call.end, entries |-> list] :
            list \in ScanLists(d, call.start, call.end)}
=============================================================================
