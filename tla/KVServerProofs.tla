--------------------------- MODULE KVServerProofs ---------------------------
(***************************************************************************)
(* Proofs that the service keeps its invariants and is linearizable, for   *)
(* any number of clients, keys, values, calls and crashes.                 *)
(***************************************************************************)
EXTENDS KVRefinement, KVStoreProofs

(***************************************************************************)
(* The inductive invariant.  Protocol ties a client to its request: it     *)
(* reads a command only when nothing of the previous one is left, and it   *)
(* has printed nothing while something is.  Mutex makes the handlers in    *)
(* the critical section exclude one another.  The last three say what a    *)
(* handler's place implies for its locals.                                 *)
(***************************************************************************)
Protocol(c) ==
  /\ cli[c] = "ready" => pc[c] = "none"
  /\ pc[c] # "none" => req[c] \in Calls /\ out[c] = None

Mutex(c) == pc[c] \in Critical <=> mu = c

Place(c) ==
  /\ pc[c] = "act" => req[c].op # "Scan"
  /\ pc[c] = "scan" => /\ req[c].op = "Scan"
                       /\ req[c].start <= it[c]
                       /\ Len(list[c]) < it[c]

ReturnedFor(k) ==
  CASE k.op \in {"Put", "Delete"} -> [found : BOOLEAN]
    [] k.op \in {"Swap", "Get"}   -> [value : Values \cup {Nil}]
    [] OTHER                      -> [list : Seq(Entries)]

RepliesFor(k) ==
  CASE k.op \in {"Put", "Delete"} -> [found : BOOLEAN]
    [] k.op \in {"Swap", "Get"}   -> [found : BOOLEAN, value : Values \cup {Nil}]
    [] OTHER                      -> [list : Seq(Entries)]

Outcome(c) ==
  /\ pc[c] = "unlock" => ret[c] \in ReturnedFor(req[c])
  /\ pc[c] = "replied" => reply[c] \in RepliesFor(req[c])

HandlerInv == \A c \in Clients : Protocol(c) /\ Mutex(c) /\ Place(c) /\ Outcome(c)

IInv == TypeOK /\ HandlerInv /\ IteratorValid /\ ScanSnapshot

----------------------------------------------------------------------------
(***************************************************************************)
(* Facts about calls and what is said in reply to them.                    *)
(***************************************************************************)

\* The reply that a handler builds has the type of its operation.
LEMMA ReplyForType ==
  ASSUME NEW k \in Calls, NEW r \in ReturnedFor(k)
  PROVE  ReplyFor(k, r) \in RepliesFor(k)
BY CallFields DEF ReplyFor, ReturnedFor, RepliesFor

\* What a client prints is an answer.
LEMMA PrintedType ==
  ASSUME NEW k \in Calls, NEW r \in RepliesFor(k)
  PROVE  Printed(k, r) \in Answers
<1>1. CASE k.op \in {"Put", "Delete"}
  BY <1>1, CallFields DEF Printed, RepliesFor, Answers
<1>2. CASE k.op \in {"Swap", "Get"}
  BY <1>2, CallFields DEF Printed, RepliesFor, Answers
<1>3. CASE k.op = "Scan"
  BY <1>3, CallFields DEF Printed, RepliesFor, Answers
<1> QED
  BY <1>1, <1>2, <1>3, CallFields

\* Returned and Replies are the unions of what belongs to each operation.
LEMMA OutcomeTypes ==
  ASSUME NEW k \in Calls
  PROVE  ReturnedFor(k) \subseteq Returned /\ RepliesFor(k) \subseteq Replies
BY CallFields DEF ReturnedFor, RepliesFor, Returned, Replies

\* An iterator is a key or the end.
LEMMA EndType ==
  /\ NumKeys \in Nat
  /\ End \notin Keys
  /\ Iterators = Keys \cup {End}
BY KVAssumption DEF End, Iterators, Keys

----------------------------------------------------------------------------
\* The initial state satisfies the inductive invariant.
LEMMA InitIInv == Init => IInv
<1> SUFFICES ASSUME Init PROVE IInv
  OBVIOUS
<1>1. TypeOK
  BY EndType, ServerAssumption DEF Init, TypeOK, Stores, Empty
<1>2. HandlerInv
  BY ServerAssumption DEF Init, HandlerInv, Protocol, Mutex, Place, Outcome, Critical
<1>3. IteratorValid /\ ScanSnapshot
  BY DEF Init, IteratorValid, ScanSnapshot
<1> QED
  BY <1>1, <1>2, <1>3 DEF IInv

\* What a step says of the handlers at act or scan: they are where they were, with
\* their locals and the map as they were.  Then iterators and scans stay right.
LEMMA SectionUntouched ==
  ASSUME IteratorValid, ScanSnapshot,
         \A d \in Clients : pc'[d] \in {"act", "scan"} =>
           pc'[d] = pc[d] /\ req'[d] = req[d] /\ it'[d] = it[d] /\ list'[d] = list[d],
         data' = data
  PROVE  IteratorValid' /\ ScanSnapshot'
<1>1. IteratorValid'
  BY DEF IteratorValid
<1>2. ScanSnapshot'
  BY DEF ScanSnapshot, InRange
<1> QED
  BY <1>1, <1>2

\* The client's steps and those of the network leave the map and the locals
\* of the handlers alone.
LEMMA OutsideIInv ==
  ASSUME IInv, NEW c \in Clients,
         \/ \E k \in Calls : Call(c, k)
         \/ Receive(c) \/ Stop(c) \/ RpcFail(c)
         \/ Dispatch(c) \/ Refuse(c) \/ Drop(c)
  PROVE  IInv'
<1> USE DEF IInv
<1>1. CASE \E k \in Calls : Call(c, k)
  <2> PICK k \in Calls : Call(c, k)
    BY <1>1
  <2>1. TypeOK'
    BY ServerAssumption DEF TypeOK, Call
  <2>2. HandlerInv'
    BY DEF TypeOK, Call, HandlerInv, Protocol, Mutex, Place, Outcome, Critical
  <2>3. \A d \in Clients : pc'[d] \in {"act", "scan"} => pc'[d] = pc[d] /\ req'[d] = req[d]
    <3>1. pc'[c] = "sent"
      BY DEF TypeOK, Call
    <3>2. \A d \in Clients : d # c => pc'[d] = pc[d] /\ req'[d] = req[d]
      BY DEF TypeOK, Call
    <3> QED
      BY <3>1, <3>2
  <2>4. it' = it /\ list' = list /\ data' = data
    BY DEF Call
  <2>5. IteratorValid' /\ ScanSnapshot'
    BY <2>3, <2>4, SectionUntouched
  <2> QED
    BY <2>1, <2>2, <2>5
<1>2. CASE Receive(c)
  <2> USE <1>2
  <2>1. Printed(req[c], reply[c]) \in Answers
    BY PrintedType DEF Receive, HandlerInv, Protocol, Outcome
  <2>2. TypeOK'
    BY <2>1 DEF TypeOK, Receive
  <2>3. HandlerInv'
    BY DEF TypeOK, Receive, HandlerInv, Protocol, Mutex, Place, Outcome, Critical
  <2>4. IteratorValid' /\ ScanSnapshot'
    <3>1. \A d \in Clients : pc'[d] \in {"act", "scan"} => pc'[d] = pc[d] /\ req'[d] = req[d]
      BY DEF TypeOK, Receive
    <3>2. it' = it /\ list' = list /\ data' = data
      BY DEF Receive
    <3> QED
      BY <3>1, <3>2, SectionUntouched
  <2> QED
    BY <2>2, <2>3, <2>4
<1>3. CASE Stop(c)
  <2> USE <1>3
  <2>2. TypeOK'
    BY DEF TypeOK, Stop, Critical
  <2>3. HandlerInv'
    BY DEF TypeOK, Stop, HandlerInv, Protocol, Mutex, Place, Outcome, Critical
  <2>4. IteratorValid' /\ ScanSnapshot'
    <3>1. \A d \in Clients : pc'[d] \in {"act", "scan"} => pc'[d] = pc[d] /\ req'[d] = req[d]
      BY DEF TypeOK, Stop
    <3>2. it' = it /\ list' = list /\ data' = data
      BY DEF Stop
    <3> QED
      BY <3>1, <3>2, SectionUntouched
  <2> QED
    BY <2>2, <2>3, <2>4
<1>4. CASE RpcFail(c)
  <2> USE <1>4
  <2>2. TypeOK'
    BY DEF TypeOK, RpcFail, Critical
  <2>3. HandlerInv'
    BY DEF TypeOK, RpcFail, HandlerInv, Protocol, Mutex, Place, Outcome, Critical
  <2>4. IteratorValid' /\ ScanSnapshot'
    <3>1. \A d \in Clients : pc'[d] \in {"act", "scan"} => pc'[d] = pc[d] /\ req'[d] = req[d]
      BY DEF TypeOK, RpcFail
    <3>2. it' = it /\ list' = list /\ data' = data
      BY DEF RpcFail
    <3> QED
      BY <3>1, <3>2, SectionUntouched
  <2> QED
    BY <2>2, <2>3, <2>4
<1>5. CASE Dispatch(c)
  <2> USE <1>5
  <2>2. TypeOK'
    BY DEF TypeOK, Dispatch, Critical
  <2>3. HandlerInv'
    BY DEF TypeOK, Dispatch, HandlerInv, Protocol, Mutex, Place, Outcome, Critical
  <2>4. IteratorValid' /\ ScanSnapshot'
    <3>1. \A d \in Clients : pc'[d] \in {"act", "scan"} => pc'[d] = pc[d] /\ req'[d] = req[d]
      BY DEF TypeOK, Dispatch
    <3>2. it' = it /\ list' = list /\ data' = data
      BY DEF Dispatch
    <3> QED
      BY <3>1, <3>2, SectionUntouched
  <2> QED
    BY <2>2, <2>3, <2>4
<1>6. CASE Refuse(c)
  <2> USE <1>6
  <2>2. TypeOK'
    BY DEF TypeOK, Refuse, Critical
  <2>3. HandlerInv'
    BY DEF TypeOK, Refuse, HandlerInv, Protocol, Mutex, Place, Outcome, Critical
  <2>4. IteratorValid' /\ ScanSnapshot'
    <3>1. \A d \in Clients : pc'[d] \in {"act", "scan"} => pc'[d] = pc[d] /\ req'[d] = req[d]
      BY DEF TypeOK, Refuse
    <3>2. it' = it /\ list' = list /\ data' = data
      BY DEF Refuse
    <3> QED
      BY <3>1, <3>2, SectionUntouched
  <2> QED
    BY <2>2, <2>3, <2>4
<1>7. CASE Drop(c)
  <2> USE <1>7
  <2>2. TypeOK'
    BY DEF TypeOK, Drop, Critical
  <2>3. HandlerInv'
    BY DEF TypeOK, Drop, HandlerInv, Protocol, Mutex, Place, Outcome, Critical
  <2>4. IteratorValid' /\ ScanSnapshot'
    <3>1. \A d \in Clients : pc'[d] \in {"act", "scan"} => pc'[d] = pc[d] /\ req'[d] = req[d]
      BY DEF TypeOK, Drop
    <3>2. it' = it /\ list' = list /\ data' = data
      BY DEF Drop
    <3> QED
      BY <3>1, <3>2, SectionUntouched
  <2> QED
    BY <2>2, <2>3, <2>4
<1> QED
  BY <1>1, <1>2, <1>3, <1>4, <1>5, <1>6, <1>7

----------------------------------------------------------------------------
\* At most one handler is inside the critical section.
LEMMA Exclusion ==
  ASSUME HandlerInv, NEW c \in Clients, NEW d \in Clients,
         pc[c] \in Critical, pc[d] \in Critical
  PROVE  c = d
BY DEF HandlerInv, Mutex

\* A step of the mutex changes neither the map nor what is in its section.
LEMMA MutexIInv ==
  ASSUME IInv, NEW c \in Clients, Lock(c) \/ Reply(c)
  PROVE  IInv'
<1> USE DEF IInv
<1>1. CASE Lock(c)
  <2> USE <1>1
  <2>1. TypeOK'
    BY DEF TypeOK, Lock, Critical
  <2>2. HandlerInv'
    BY ServerAssumption
    DEF TypeOK, Lock, HandlerInv, Protocol, Mutex, Place, Outcome, Critical
  <2>3. IteratorValid' /\ ScanSnapshot'
    <3>1. \A d \in Clients : pc'[d] \in {"act", "scan"} => pc'[d] = pc[d] /\ req'[d] = req[d]
      BY DEF TypeOK, Lock
    <3>2. it' = it /\ list' = list /\ data' = data
      BY DEF Lock
    <3> QED
      BY <3>1, <3>2, SectionUntouched
  <2> QED
    BY <2>1, <2>2, <2>3
<1>2. CASE Reply(c)
  <2> USE <1>2
  <2>1. ReplyFor(req[c], ret[c]) \in RepliesFor(req[c]) /\ req[c] \in Calls
    BY ReplyForType DEF Reply, HandlerInv, Protocol, Outcome
  <2>2. TypeOK'
    BY <2>1, OutcomeTypes, EndType DEF TypeOK, Reply, Critical
  <2>3. HandlerInv'
    BY <2>1, Exclusion, ServerAssumption
    DEF TypeOK, Reply, HandlerInv, Protocol, Mutex, Place, Outcome, Critical
  <2>4. IteratorValid' /\ ScanSnapshot'
    <3>1. \A d \in Clients : pc'[d] \in {"act", "scan"} =>
            pc'[d] = pc[d] /\ req'[d] = req[d] /\ it'[d] = it[d] /\ list'[d] = list[d]
      <4>1. pc' = [pc EXCEPT ![c] = "replied"] /\ req' = req
        BY DEF Reply
      <4>2. it' = [it EXCEPT ![c] = End] /\ list' = [list EXCEPT ![c] = <<>>]
        BY DEF Reply
      <4>3. /\ pc \in [Clients -> Critical \cup {"none", "sent", "lock", "replied"}]
            /\ it \in [Clients -> Iterators] /\ list \in [Clients -> Seq(Entries)]
        BY DEF TypeOK
      <4> QED BY ONLY <4>1, <4>2, <4>3
    <3>2. data' = data
      BY DEF Reply
    <3> QED
      BY <3>1, <3>2, SectionUntouched
  <2> QED
    BY <2>2, <2>3, <2>4
<1> QED
  BY <1>1, <1>2

\* The find at the beginning of Put, Swap, Get and Delete.
LEMMA FindIInv ==
  ASSUME IInv, NEW c \in Clients, Find(c)
  PROVE  IInv'
<1> USE DEF IInv
<1>1. req[c] \in Calls /\ req[c].key \in Keys
  BY CallFields DEF Find, HandlerInv, Protocol
<1>2. TypeOK'
  BY <1>1, EndType DEF TypeOK, Find, Critical
<1>3. HandlerInv'
  BY DEF TypeOK, Find, HandlerInv, Protocol, Mutex, Place, Outcome, Critical
<1>4. IteratorValid' /\ ScanSnapshot'
  BY Exclusion DEF TypeOK, Find, IteratorValid, ScanSnapshot, InRange, Critical
<1> QED
  BY <1>2, <1>3, <1>4

\* When a store operation returns, its handler is the only one in the critical
\* section: whatever became of the map, no iterator and no scan depends on it.
LEMMA ReturnIInv ==
  ASSUME IInv, NEW c \in Clients, pc[c] \in {"act", "scan"}, data' \in Stores,
         NEW r \in ReturnedFor(req[c]), ReturnFromStore(c, r)
  PROVE  IInv'
<1> USE DEF IInv
<1>1. req[c] \in Calls /\ r \in Returned
  BY OutcomeTypes DEF HandlerInv, Protocol
<1>2. TypeOK'
  BY <1>1 DEF TypeOK, ReturnFromStore, Critical
<1>3. HandlerInv'
  BY DEF TypeOK, ReturnFromStore, HandlerInv, Protocol, Mutex, Place, Outcome, Critical
<1>4. \A d \in Clients : pc'[d] \notin {"act", "scan"}
  BY Exclusion DEF TypeOK, ReturnFromStore, Critical
<1>5. IteratorValid' /\ ScanSnapshot'
  BY <1>4 DEF IteratorValid, ScanSnapshot
<1> QED
  BY <1>2, <1>3, <1>5

\* The statement of Put, Swap, Get and Delete that acts on the result of find,
\* and the return from the loop of Scan.
LEMMA ActIInv ==
  ASSUME IInv, NEW c \in Clients,
         Put(c) \/ Swap(c) \/ Get(c) \/ Delete(c) \/ ScanEnd(c)
  PROVE  IInv'
<1> USE DEF IInv
<1>1. req[c] \in Calls
  BY DEF Put, Swap, Get, Delete, ScanEnd, HandlerInv, Protocol
<1>2. it[c] # End => it[c] \in Keys
  BY EndType DEF TypeOK
<1>3. CASE Put(c)
  <2>1. req[c].key \in Keys /\ req[c].value \in Values
    BY <1>1, <1>3, CallFields DEF Put
  <2>2. data' \in Stores /\ [found |-> it[c] # End] \in ReturnedFor(req[c])
    BY <1>3, <2>1 DEF Put, TypeOK, Stores, ReturnedFor
  <2> QED
    BY <1>3, <2>2, ReturnIInv DEF Put
<1>4. CASE Swap(c)
  <2>1. req[c].key \in Keys /\ req[c].value \in Values
    BY <1>1, <1>4, CallFields DEF Swap
  <2>2. CASE it[c] = End
    <3>1. data' \in Stores /\ [value |-> Nil] \in ReturnedFor(req[c])
      BY <1>4, <2>1, <2>2 DEF Swap, TypeOK, Stores, ReturnedFor
    <3> QED
      BY <1>4, <2>2, <3>1, ReturnIInv DEF Swap
  <2>3. CASE it[c] # End
    <3>1. data' \in Stores /\ [value |-> data[it[c]]] \in ReturnedFor(req[c])
      BY <1>2, <1>4, <2>1, <2>3 DEF Swap, TypeOK, Stores, ReturnedFor
    <3> QED
      BY <1>4, <2>3, <3>1, ReturnIInv DEF Swap
  <2> QED
    BY <2>2, <2>3
<1>5. CASE Get(c)
  <2> DEFINE v == IF it[c] = End THEN Nil ELSE data[it[c]]
  <2>1. data' \in Stores /\ [value |-> v] \in ReturnedFor(req[c])
    BY <1>2, <1>5 DEF Get, TypeOK, Stores, ReturnedFor
  <2> QED
    BY <1>5, <2>1, ReturnIInv DEF Get
<1>6. CASE Delete(c)
  <2>1. req[c].key \in Keys
    BY <1>1, <1>6, CallFields DEF Delete
  <2>2. data' \in Stores
    BY <1>6, <2>1 DEF Delete, TypeOK, Stores
  <2>3. [found |-> FALSE] \in ReturnedFor(req[c]) /\ [found |-> TRUE] \in ReturnedFor(req[c])
    BY <1>6 DEF Delete, ReturnedFor
  <2> QED
    BY <1>6, <2>2, <2>3, ReturnIInv DEF Delete
<1>7. CASE ScanEnd(c)
  <2>1. req[c].op = "Scan" /\ list[c] \in Seq(Entries)
    BY <1>7 DEF ScanEnd, TypeOK, HandlerInv, Place
  <2>2. [list |-> list[c]] \in ReturnedFor(req[c])
    BY <2>1 DEF ReturnedFor
  <2>3. data' \in Stores
    BY <1>7 DEF ScanEnd, TypeOK
  <2> QED
    BY <1>7, <2>2, <2>3, ReturnIInv DEF ScanEnd
<1> QED
  BY <1>3, <1>4, <1>5, <1>6, <1>7

----------------------------------------------------------------------------
\* The entry under the iterator is all that a scan adds when the iterator moves
\* from one key of the map to the next.
LEMMA InRangeStep ==
  ASSUME NEW d \in Stores, NEW start \in Keys, NEW i \in Keys, NEW j \in Iterators,
         start <= i, i < j, d[i] # Nil,
         \A m \in Keys : i < m /\ m < j => d[m] = Nil
  PROVE  InRange(d, start, j - 1) = InRange(d, start, i - 1) \cup {<<i, d[i]>>}
<1> DEFINE In(e) == {m \in Keys : start <= m /\ m <= e /\ d[m] # Nil}
<1>1. In(j - 1) = In(i - 1) \cup {i}
  BY EndType DEF Keys, Iterators, End
<1> QED
  BY <1>1 DEF InRange

\* The loop of Scan: its first position, and one turn.
LEMMA ScanIInv ==
  ASSUME IInv, NEW c \in Clients, ScanBegin(c) \/ ScanNext(c)
  PROVE  IInv'
<1> USE DEF IInv
<1>1. /\ req[c] \in Calls
      /\ req[c].op = "Scan"
      /\ req[c].start \in Keys
      /\ req[c].end \in Keys
      /\ pc[c] \in Critical
  BY CallFields DEF ScanBegin, ScanNext, HandlerInv, Protocol, Place, Critical
<1>2. \A d \in Clients : d # c => pc[d] \notin {"act", "scan"}
  BY <1>1, Exclusion DEF Critical
<1>3. data \in Stores /\ NumKeys \in Nat
  BY EndType DEF TypeOK
<1>4. CASE ScanBegin(c)
  <2>1. PICK i \in Iterators : IsLowerBound(req[c].start, i) /\ it' = [it EXCEPT ![c] = i]
    BY <1>4 DEF ScanBegin
  <2>2. TypeOK'
    BY <1>4, <2>1 DEF ScanBegin, TypeOK, Critical
  <2>3. /\ it'[c] = i /\ list'[c] = <<>> /\ pc'[c] = "scan"
        /\ req' = req /\ data' = data
        /\ \A d \in Clients : d # c => pc'[d] = pc[d]
    BY <1>4, <2>1 DEF ScanBegin, TypeOK
  <2>4. HandlerInv'
    BY <1>1, <1>4, <2>1
    DEF ScanBegin, TypeOK, HandlerInv, Protocol, Mutex, Place, Outcome, Critical, Iterators,
        IsLowerBound
  <2>5. IteratorValid'
    BY <1>2, <2>1, <2>3 DEF IteratorValid, IsLowerBound
  <2>6. InRange(data, req[c].start, i - 1) = {}
    BY <1>1, <2>1, EndType DEF InRange, IsLowerBound, Keys, Iterators, End
  <2>7. ScanSnapshot'
    BY <1>2, <2>3, <2>6 DEF ScanSnapshot, Ascending, InRange
  <2> QED
    BY <2>2, <2>4, <2>5, <2>7
<1>5. CASE ScanNext(c)
  <2> DEFINE e == <<it[c], data[it[c]]>>
  <2>1. PICK i \in Iterators : IsLowerBound(it[c] + 1, i) /\ it' = [it EXCEPT ![c] = i]
    BY <1>5 DEF ScanNext
  <2>2. it[c] \in Keys /\ data[it[c]] # Nil /\ e \in Entries
    BY <1>3, <1>5 DEF ScanNext, IteratorValid, TypeOK, Iterators, Keys, End, Stores, Entries
  <2>3. /\ Ascending(list[c])
        /\ {list[c][m] : m \in 1 .. Len(list[c])} = InRange(data, req[c].start, it[c] - 1)
        /\ \A m \in 1 .. Len(list[c]) : list[c][m][1] <= req[c].end
        /\ list[c] \in Seq(Entries)
        /\ Len(list[c]) < it[c]
    BY <1>5 DEF ScanNext, ScanSnapshot, TypeOK, HandlerInv, Place
  <2>4. \A m \in 1 .. Len(list[c]) : list[c][m][1] < it[c]
    <3> TAKE m \in 1 .. Len(list[c])
    <3>1. list[c][m] \in InRange(data, req[c].start, it[c] - 1)
      BY <2>3
    <3>2. \E n \in Keys : list[c][m] = <<n, data[n]>> /\ n <= it[c] - 1
      BY <3>1 DEF InRange
    <3> QED
      BY <2>2, <3>2, EndType DEF Keys
  <2>5. /\ it'[c] = i /\ list'[c] = Append(list[c], e) /\ pc' = pc
        /\ req' = req /\ data' = data
    BY <1>5, <2>1 DEF ScanNext, TypeOK
  <2>6. /\ list'[c] \in Seq(Entries)
        /\ Len(list'[c]) = Len(list[c]) + 1
        /\ Ascending(list'[c])
        /\ {list'[c][m] : m \in 1 .. Len(list'[c])}
             = InRange(data, req[c].start, it[c] - 1) \cup {e}
    BY <2>2, <2>3, <2>4, <2>5, AppendAscending
  <2>7. TypeOK'
    BY <1>5, <2>1, <2>6 DEF ScanNext, TypeOK
  <2>8. req'[c].start <= it[c] /\ it[c] < it'[c] /\ Len(list'[c]) < it'[c]
    BY <1>5, <2>1, <2>3, <2>5, <2>6
    DEF ScanNext, IsLowerBound, TypeOK, Iterators, HandlerInv, Place
  <2>9. HandlerInv'
    <3>1. it[c] \in Int /\ it'[c] \in Int /\ req'[c].start \in Int
      BY <1>1, <2>1, <2>2, <2>5 DEF Keys, Iterators
    <3>2. req'[c].start <= it'[c]
      BY <2>8, <3>1
    <3> QED
      BY <1>1, <1>5, <2>8, <3>2
      DEF ScanNext, TypeOK, HandlerInv, Protocol, Mutex, Place, Outcome, Critical
  <2>10. IteratorValid'
    BY <1>1, <1>2, <1>5, <2>1, <2>5 DEF ScanNext, IteratorValid, IsLowerBound
  <2>11. InRange(data, req[c].start, i - 1) = InRange(data, req[c].start, it[c] - 1) \cup {e}
    <3>1. \A m \in Keys : it[c] < m /\ m < i => data[m] = Nil
      BY <2>1, <2>2 DEF IsLowerBound, Keys
    <3>2. req[c].start <= it[c] /\ it[c] < i
      BY <2>5, <2>8
    <3> QED
      BY <1>1, <1>3, <2>2, <3>1, <3>2, InRangeStep
  <2>12. \A m \in 1 .. Len(list'[c]) : list'[c][m][1] <= req[c].end
    <3>1. it[c] <= req[c].end
      BY <1>5 DEF ScanNext
    <3> QED
      BY <2>3, <2>5, <3>1
  <2>13. ScanSnapshot'
    <3> SUFFICES ASSUME NEW d \in Clients, pc'[d] = "scan"
                 PROVE  /\ Ascending(list'[d])
                        /\ {list'[d][m] : m \in 1 .. Len(list'[d])}
                             = InRange(data, req[d].start, it'[d] - 1)
                        /\ \A m \in 1 .. Len(list'[d]) : list'[d][m][1] <= req[d].end
      BY <2>5 DEF ScanSnapshot, InRange
    <3>1. d = c
      BY <1>2, <2>5
    <3> QED
      BY <2>5, <2>6, <2>11, <2>12, <3>1
  <2> QED
    BY <2>7, <2>9, <2>10, <2>13
<1> QED
  BY <1>4, <1>5

----------------------------------------------------------------------------
\* A crash empties the critical section together with the map.
LEMMA CrashIInv ==
  ASSUME IInv, Crash \/ Restart
  PROVE  IInv'
<1> USE DEF IInv
<1>1. CASE Crash
  <2> USE <1>1
  <2>1. TypeOK'
    <3>1. ncrashes' \in 0 .. MaxCrashes
      BY ServerAssumption DEF TypeOK, Crash
    <3>2. data' \in Stores /\ it' \in [Clients -> Iterators]
      BY EndType DEF Crash, Stores, Empty
    <3>3. pc' \in [Clients -> Critical \cup {"none", "sent", "lock", "replied"}]
      BY DEF TypeOK, Crash
    <3>4. list' \in [Clients -> Seq(Entries)] /\ ret' \in [Clients -> Returned \cup {None}]
      BY DEF Crash
    <3>5. mu' \in Clients \cup {None} /\ up' \in BOOLEAN
      BY DEF Crash
    <3> QED
      BY <3>1, <3>2, <3>3, <3>4, <3>5 DEF TypeOK, Crash
  <2>2. HandlerInv'
    BY ServerAssumption DEF TypeOK, Crash, HandlerInv, Protocol, Mutex, Place, Outcome, Critical
  <2>3. IteratorValid' /\ ScanSnapshot'
    BY DEF TypeOK, Crash, IteratorValid, ScanSnapshot, Critical
  <2> QED
    BY <2>1, <2>2, <2>3
<1>2. CASE Restart
  <2> USE <1>2
  <2>1. TypeOK'
    BY DEF TypeOK, Restart
  <2>2. HandlerInv'
    BY DEF Restart, HandlerInv, Protocol, Mutex, Place, Outcome
  <2>3. IteratorValid' /\ ScanSnapshot'
    BY DEF Restart, IteratorValid, ScanSnapshot, InRange
  <2> QED
    BY <2>1, <2>2, <2>3
<1> QED
  BY <1>1, <1>2

\* The inductive invariant is kept by every step.
LEMMA NextIInv == IInv /\ [Next]_vars => IInv'
<1> SUFFICES ASSUME IInv, [Next]_vars PROVE IInv'
  OBVIOUS
<1>1. ASSUME NEW c \in Clients, Handler(c) PROVE IInv'
  BY <1>1, MutexIInv, FindIInv, ActIInv, ScanIInv DEF Handler
<1>2. CASE UNCHANGED vars
  BY <1>2 DEF vars, IInv, TypeOK, HandlerInv, Protocol, Mutex, Place, Outcome,
              IteratorValid, ScanSnapshot, InRange
<1> QED
  BY <1>1, <1>2, OutsideIInv, CrashIInv DEF Next

(***************************************************************************)
(* The variables of the service keep their types, the iterators of the     *)
(* store operations never dangle and a Scan sees one state of the map, in  *)
(* every behaviour of server.cc, in_memory_kvstore.cc and client.cc.       *)
(***************************************************************************)
THEOREM ServiceInvariants == Spec => [](TypeOK /\ IteratorValid /\ ScanSnapshot)
<1>1. IInv => TypeOK /\ IteratorValid /\ ScanSnapshot
  BY DEF IInv
<1> QED
  BY <1>1, InitIInv, NextIInv, PTL DEF Spec

----------------------------------------------------------------------------
(***************************************************************************)
(* The mutex.                                                              *)
(***************************************************************************)

\* The map has a first key that is not below k, or none.
LEMMA LowerBoundExists ==
  ASSUME NEW k \in Iterators
  PROVE  \E i \in Iterators : IsLowerBound(k, i)
<1> DEFINE S == {i \in Iterators : k <= i /\ (i # End => data[i] # Nil)}
<1>1. NumKeys \in Nat /\ End = NumKeys + 1 /\ Iterators = 1 .. End /\ Keys = 1 .. NumKeys
  BY EndType DEF Iterators, End, Keys
<1>2. S \in SUBSET Nat /\ End \in S
  BY <1>1
<1>3. PICK i \in S : \A j \in S : i <= j
  <2> HIDE DEF S
  <2> QED
    BY <1>2, LeastExists
<1>4. ASSUME NEW j \in Keys, k <= j, j < i PROVE data[j] = Nil
  <2>1. j \in Iterators /\ ~(i <= j)
    BY <1>1, <1>3, <1>4
  <2> QED
    BY <1>3, <1>4, <2>1
<1> QED
  BY <1>3, <1>4 DEF IsLowerBound

\* The handler that holds the mutex has a next step.
LEMMA HolderSteps == IInv => HolderCanStep
<1> SUFFICES ASSUME IInv, NEW c \in Clients, mu = c
             PROVE  \/ pc[c] = "find" /\ req[c].op # "Scan"
                    \/ pc[c] = "find" /\ \E i \in Iterators : IsLowerBound(req[c].start, i)
                    \/ pc[c] = "act" /\ req[c].op # "Scan"
                    \/ /\ pc[c] = "scan" /\ it[c] # End
                       /\ \E i \in Iterators : IsLowerBound(it[c] + 1, i)
                    \/ pc[c] = "scan" /\ it[c] = End
                    \/ pc[c] = "unlock"
  BY DEF HolderCanStep
<1> USE DEF IInv, HandlerInv
<1>1. pc[c] \in Critical /\ req[c] \in Calls /\ it[c] \in Iterators
  BY DEF Mutex, Protocol, TypeOK, Critical
<1>2. CASE pc[c] = "find" /\ req[c].op = "Scan"
  <2>1. req[c].start \in Iterators
    BY <1>1, <1>2, CallFields, EndType
  <2> QED
    BY <1>2, <2>1, LowerBoundExists
<1>3. CASE pc[c] = "scan" /\ it[c] # End
  <2>1. it[c] + 1 \in Iterators
    BY <1>1, <1>3, EndType DEF Iterators, End
  <2> QED
    BY <1>3, <2>1, LowerBoundExists
<1>4. pc[c] = "act" => req[c].op # "Scan"
  BY DEF Place
<1> QED
  BY <1>1, <1>2, <1>3, <1>4 DEF Critical

\* What it does next brings it nearer to the release of the mutex, and the others
\* do not touch it.
LEMMA HolderNearer ==
  ASSUME IInv, [Next]_vars, NEW c \in Clients, mu = c
  PROVE  \/ StepsLeft(c)' < StepsLeft(c)
         \/ UNCHANGED <<mu, pc[c], it[c], list[c], ret[c]>>
<1> USE DEF IInv, HandlerInv
<1>1. /\ pc[c] \in Critical /\ req[c] \in Calls /\ it[c] \in Iterators
      /\ c # None
      /\ NumKeys \in Nat /\ End = NumKeys + 1 /\ Iterators = 1 .. End
  BY EndType, ServerAssumption DEF Mutex, Protocol, TypeOK, Critical, Iterators, End
<1>2. ASSUME NEW d \in Clients,
             \/ \E k \in Calls : Call(d, k)
             \/ Receive(d) \/ Stop(d) \/ RpcFail(d)
             \/ Dispatch(d) \/ Refuse(d) \/ Drop(d)
      PROVE  UNCHANGED <<mu, pc[c], it[c], list[c], ret[c]>>
  <2>1. UNCHANGED <<mu, it, list, ret>>
    BY <1>2 DEF Call, Receive, Stop, RpcFail, Dispatch, Refuse, Drop
  <2>2. pc'[c] = pc[c]
    BY <1>1, <1>2
    DEF TypeOK, Protocol, Critical, Call, Receive, Stop, RpcFail, Dispatch, Refuse, Drop
  <2> QED
    BY <2>1, <2>2
<1>3. ASSUME NEW d \in Clients, d # c, Handler(d)
      PROVE  UNCHANGED <<mu, pc[c], it[c], list[c], ret[c]>>
  <2>1. pc[d] = "lock" \/ pc[d] \in Critical
    BY <1>3 DEF Handler, Lock, Find, Put, Swap, Get, Delete, ScanBegin, ScanNext, ScanEnd,
                Reply, Critical
  <2>2. pc[d] \notin Critical /\ ~Lock(d)
    BY <1>1, <1>3, Exclusion DEF Lock
  <2> QED
    BY <1>3, <2>1, <2>2
    DEF Handler, Find, Put, Swap, Get, Delete, ScanBegin, ScanNext, ScanEnd, Reply, Critical
<1>4. CASE Find(c)
  BY <1>1, <1>4 DEF Find, StepsLeft, TypeOK
<1>5. CASE Put(c) \/ Swap(c) \/ Get(c) \/ Delete(c)
  <2>1. pc[c] = "act" /\ pc'[c] = "unlock"
    BY <1>5 DEF Put, Swap, Get, Delete, ReturnFromStore, TypeOK
  <2> QED
    BY <2>1 DEF StepsLeft
<1>6. CASE ScanBegin(c)
  <2>1. pc[c] = "find" /\ pc'[c] = "scan" /\ it'[c] \in Iterators
    BY <1>6 DEF ScanBegin, TypeOK
  <2>2. StepsLeft(c) = NumKeys + 3 /\ StepsLeft(c)' = End - it'[c] + 2
    BY <2>1 DEF StepsLeft, End
  <2> QED
    BY <1>1, <2>1, <2>2
<1>7. CASE ScanNext(c)
  <2>1. /\ pc[c] = "scan" /\ pc'[c] = "scan"
        /\ it'[c] \in Iterators /\ it[c] + 1 <= it'[c]
    BY <1>7 DEF ScanNext, TypeOK, IsLowerBound
  <2>2. StepsLeft(c) = End - it[c] + 2 /\ StepsLeft(c)' = End - it'[c] + 2
    BY <2>1 DEF StepsLeft, End
  <2> QED
    BY <1>1, <2>1, <2>2
<1>8. CASE ScanEnd(c)
  <2>1. pc[c] = "scan" /\ pc'[c] = "unlock"
    BY <1>8 DEF ScanEnd, ReturnFromStore, TypeOK
  <2>2. StepsLeft(c) = End - it[c] + 2 /\ StepsLeft(c)' = 1
    BY <2>1 DEF StepsLeft
  <2> QED
    BY <1>1, <2>1, <2>2
<1>9. CASE Reply(c)
  BY <1>9 DEF Reply, StepsLeft, TypeOK
<1>10. CASE Crash
  <2>1. pc'[c] = "none"
    BY <1>1, <1>10 DEF Crash
  <2>2. StepsLeft(c)' = 0
    BY <2>1 DEF StepsLeft
  <2>3. StepsLeft(c) > 0
    BY <1>1 DEF StepsLeft, Critical
  <2> QED
    BY <2>2, <2>3
<1>11. CASE Restart
  BY <1>11 DEF Restart
<1>12. CASE UNCHANGED vars
  BY <1>12 DEF vars
<1>13. ~Lock(c)
  BY <1>1 DEF Lock
<1> QED
  BY <1>2, <1>3, <1>4, <1>5, <1>6, <1>7, <1>8, <1>9, <1>10, <1>11, <1>12, <1>13
  DEF Next, Handler

(***************************************************************************)
(* The mutex of the service is never left locked: its holder always has a  *)
(* next step, and is at most NumKeys + 3 steps from the release, for every *)
(* number of clients and keys, wherever crashes come.                      *)
(***************************************************************************)
THEOREM MutexIsReleased == Spec => []HolderCanStep /\ HolderComesNearer
<1>1. IInv /\ [Next]_vars =>
        [\A c \in Clients :
           mu = c =>
             \/ StepsLeft(c)' < StepsLeft(c)
             \/ UNCHANGED <<mu, pc[c], it[c], list[c], ret[c]>>]_vars
  BY HolderNearer
<1> QED
  BY <1>1, HolderSteps, InitIInv, NextIInv, PTL DEF Spec, HolderComesNearer

----------------------------------------------------------------------------
(***************************************************************************)
(* The service implements AtomicKV under the mapping of KVRefinement:      *)
(* every step of the service is a step of AtomicKV or changes nothing that *)
(* AtomicKV sees.                                                          *)
(***************************************************************************)

\* The instance's copies of the interface are the interface.
LEMMA SameInterface ==
  /\ A!Calls = Calls
  /\ A!Empty = Empty
  /\ \A d, k : A!Effect(d, k) = Effect(d, k)
  /\ \A d, k : A!Results(d, k) = Results(d, k)
<1>1. A!Calls = Calls /\ A!Empty = Empty
  BY DEF A!Calls, Calls, A!Empty, Empty, A!Keys, Keys
<1>2. \A d, k : A!Effect(d, k) = Effect(d, k)
  BY DEF A!Effect, Effect
<1>3. \A d, s, e : A!InRange(d, s, e) = InRange(d, s, e)
  BY DEF A!InRange, InRange, A!Keys, Keys
<1>4. \A l : A!Ascending(l) = Ascending(l)
  BY DEF A!Ascending, Ascending
<1>5. \A d, s, e : A!ScanLists(d, s, e) = ScanLists(d, s, e)
  BY <1>3, <1>4 DEF A!ScanLists, ScanLists
<1>6. \A d, k : A!Results(d, k) = Results(d, k)
  BY <1>5 DEF A!Results, Results
<1> QED
  BY <1>1, <1>2, <1>6

\* A step of one client changes the mapped state of that client only.
LEMMA BarsOfOne ==
  ASSUME NEW c \in Clients,
         \A d \in Clients : d # c => /\ pc'[d] = pc[d] /\ req'[d] = req[d]
                                    /\ ret'[d] = ret[d] /\ reply'[d] = reply[d]
                                    /\ out'[d] = out[d]
  PROVE  /\ opBar' = [opBar EXCEPT ![c] = opBar'[c]]
         /\ respBar' = [respBar EXCEPT ![c] = respBar'[c]]
<1>1. \A d \in Clients : d # c => opBar'[d] = opBar[d]
  BY DEF opBar
<1>2. \A d \in Clients : d # c => respBar'[d] = respBar[d]
  BY DEF respBar
<1>3. /\ opBar = [d \in Clients |-> opBar[d]]
      /\ opBar' = [d \in Clients |-> opBar'[d]]
  BY DEF opBar
<1>4. /\ respBar = [d \in Clients |-> respBar[d]]
      /\ respBar' = [d \in Clients |-> respBar'[d]]
  BY DEF respBar
<1> QED
  BY <1>1, <1>2, <1>3, <1>4

\* The initial states of the service are initial states of AtomicKV.
LEMMA InitRefines == Init => A!Init
BY SameInterface DEF Init, A!Init, opBar, respBar

\* The client's steps.
LEMMA ClientRefines ==
  ASSUME IInv, NEW c \in Clients,
         (\E k \in Calls : Call(c, k)) \/ Receive(c) \/ Stop(c) \/ RpcFail(c)
  PROVE  A!Next
<1> USE DEF IInv
<1>1. CASE \E k \in Calls : Call(c, k)
  <2> PICK k \in Calls : Call(c, k)
    BY <1>1
  <2>1. /\ opBar' = [opBar EXCEPT ![c] = opBar'[c]]
        /\ respBar' = [respBar EXCEPT ![c] = respBar'[c]]
    BY BarsOfOne DEF Call, TypeOK
  <2>2. opBar'[c] = "pending" /\ respBar'[c] = None
    BY DEF Call, TypeOK, opBar, respBar
  <2>3. A!Invoke(c, k)
    BY <2>1, <2>2 DEF Call, A!Invoke
  <2> QED
    BY <2>3, SameInterface DEF A!Next
<1>2. CASE Receive(c)
  <2>1. /\ opBar' = [opBar EXCEPT ![c] = opBar'[c]]
        /\ respBar' = [respBar EXCEPT ![c] = respBar'[c]]
    BY <1>2, BarsOfOne DEF Receive, TypeOK
  <2>2. opBar[c] = "done" /\ opBar'[c] = "none" /\ respBar'[c] = respBar[c]
    BY <1>2 DEF Receive, TypeOK, opBar, respBar
  <2>3. respBar' = respBar
    BY <2>1, <2>2 DEF respBar
  <2>4. A!Return(c)
    BY <1>2, <2>1, <2>2, <2>3 DEF Receive, A!Return
  <2> QED
    BY <2>4 DEF A!Next
<1>3. CASE Stop(c)
  <2>1. opBar' = opBar /\ respBar' = respBar
    BY <1>3 DEF Stop, opBar, respBar
  <2>2. A!Quit(c)
    BY <1>3, <2>1 DEF Stop, A!Quit
  <2> QED
    BY <2>2 DEF A!Next
<1>4. CASE RpcFail(c)
  <2>1. opBar' = opBar /\ respBar' = respBar
    BY <1>4 DEF RpcFail, opBar, respBar
  <2>2. A!Fail(c)
    BY <1>4, <2>1 DEF RpcFail, A!Fail
  <2> QED
    BY <2>2 DEF A!Next
<1> QED
  BY <1>1, <1>2, <1>3, <1>4

\* A message that is refused or lost is a call that is lost.
LEMMA LossRefines ==
  ASSUME IInv, NEW c \in Clients, Refuse(c) \/ Drop(c)
  PROVE  A!Next
<1> USE DEF IInv
<1>1. /\ opBar' = [opBar EXCEPT ![c] = opBar'[c]]
      /\ respBar' = [respBar EXCEPT ![c] = respBar'[c]]
  BY BarsOfOne DEF Refuse, Drop, TypeOK
<1>2. opBar[c] \in {"pending", "done"} /\ opBar'[c] = "none" /\ respBar'[c] = None
  BY DEF Refuse, Drop, TypeOK, opBar, respBar, HandlerInv, Protocol
<1>3. A!Lose(c)
  BY <1>1, <1>2 DEF Refuse, Drop, A!Lose
<1> QED
  BY <1>3 DEF A!Next

\* The steps of a handler other than the return from the store operation.
LEMMA HiddenRefines ==
  ASSUME IInv, NEW c \in Clients,
         Dispatch(c) \/ Lock(c) \/ Find(c) \/ ScanBegin(c) \/ ScanNext(c) \/ Reply(c)
  PROVE  UNCHANGED A!vars
<1> USE DEF IInv
<1>1. opBar'[c] = opBar[c] /\ respBar'[c] = respBar[c]
  <2>1. CASE Dispatch(c) \/ Lock(c)
    BY <2>1 DEF Dispatch, Lock, TypeOK, opBar, respBar
  <2>2. CASE Find(c) \/ ScanBegin(c)
    BY <2>2 DEF Find, ScanBegin, TypeOK, opBar, respBar
  <2>3. CASE ScanNext(c)
    BY <2>3 DEF ScanNext, TypeOK, opBar, respBar
  <2>4. CASE Reply(c)
    BY <2>4 DEF Reply, TypeOK, opBar, respBar
  <2> QED
    BY <2>1, <2>2, <2>3, <2>4
<1>2. /\ opBar' = [opBar EXCEPT ![c] = opBar'[c]]
      /\ respBar' = [respBar EXCEPT ![c] = respBar'[c]]
  BY BarsOfOne DEF Dispatch, Lock, Find, ScanBegin, ScanNext, Reply, TypeOK
<1>3. opBar' = opBar /\ respBar' = respBar
  <2>1. /\ opBar = [d \in Clients |-> opBar[d]]
        /\ respBar = [d \in Clients |-> respBar[d]]
    BY DEF opBar, respBar
  <2> QED
    BY <1>1, <1>2, <2>1
<1>4. data' = data /\ cli' = cli /\ req' = req
  BY DEF Dispatch, Lock, Find, ScanBegin, ScanNext, Reply
<1> QED
  BY <1>3, <1>4 DEF A!vars

\* A store operation that changes the map as the interface says, and returns
\* what makes the client print the interface's answer, executes the call.
LEMMA ReturnRefines ==
  ASSUME IInv, NEW c \in Clients, pc[c] \in {"act", "scan"},
         NEW r, ReturnFromStore(c, r),
         data' = Effect(data, req[c]),
         Printed(req[c], ReplyFor(req[c], r)) \in Results(data, req[c])
  PROVE  A!Next
<1> USE DEF IInv
<1>1. /\ opBar' = [opBar EXCEPT ![c] = opBar'[c]]
      /\ respBar' = [respBar EXCEPT ![c] = respBar'[c]]
  BY BarsOfOne DEF ReturnFromStore, TypeOK
<1>2. /\ opBar[c] = "pending" /\ opBar'[c] = "done"
      /\ respBar'[c] = Printed(req[c], ReplyFor(req[c], r))
  BY DEF ReturnFromStore, TypeOK, opBar, respBar
<1>3. A!Execute(c)
  BY <1>1, <1>2, SameInterface DEF ReturnFromStore, A!Execute
<1> QED
  BY <1>3 DEF A!Next

\* The list of a scan that has ended is the one the interface describes.
LEMMA ScanEndList ==
  ASSUME IInv, NEW c \in Clients, ScanEnd(c)
  PROVE  list[c] \in ScanLists(data, req[c].start, req[c].end)
<1> USE DEF IInv
<1> DEFINE start == req[c].start
           end   == req[c].end
           n     == Len(list[c])
<1>1. /\ start \in Keys /\ end \in Keys
      /\ it[c] \in Iterators
      /\ it[c] = End \/ it[c] > end
      /\ pc[c] = "scan"
      /\ list[c] \in Seq(Entries)
      /\ n < it[c]
  BY CallFields DEF ScanEnd, HandlerInv, Protocol, Place, TypeOK
<1>2. /\ Ascending(list[c])
      /\ {list[c][i] : i \in 1 .. n} = InRange(data, start, it[c] - 1)
      /\ \A i \in 1 .. n : list[c][i][1] <= end
  BY <1>1 DEF ScanSnapshot
<1>3. n \in 0 .. NumKeys
  BY <1>1, EndType DEF Iterators, End
<1>4. InRange(data, start, end) \subseteq InRange(data, start, it[c] - 1)
  <2>1. \A k \in Keys : k <= end => k <= it[c] - 1
    BY <1>1, EndType DEF Iterators, End, Keys
  <2> QED
    BY <2>1 DEF InRange
<1>5. \A e \in InRange(data, start, end) : \E i \in 1 .. n : list[c][i] = e
  BY <1>2, <1>4
<1>6. \A i \in 1 .. n : list[c][i] \in InRange(data, start, end)
  <2> TAKE i \in 1 .. n
  <2>1. list[c][i] \in InRange(data, start, it[c] - 1)
    BY <1>2
  <2>2. PICK k \in Keys : list[c][i] = <<k, data[k]>> /\ start <= k /\ data[k] # Nil
    BY <2>1 DEF InRange
  <2>3. k <= end
    BY <1>2, <2>2
  <2> QED
    BY <2>2, <2>3 DEF InRange
<1>7. list[c] \in [1 .. n -> InRange(data, start, end)]
  BY <1>1, <1>6
<1> QED
  BY <1>2, <1>3, <1>5, <1>7 DEF ScanLists

\* A call takes effect when its store operation returns.
LEMMA ActRefines ==
  ASSUME IInv, NEW c \in Clients,
         Put(c) \/ Swap(c) \/ Get(c) \/ Delete(c) \/ ScanEnd(c)
  PROVE  A!Next
<1> USE DEF IInv
<1>1. req[c] \in Calls
  BY DEF Put, Swap, Get, Delete, ScanEnd, HandlerInv, Protocol
<1>2. pc[c] = "act" => /\ req[c].key \in Keys
                       /\ it[c] = IF data[req[c].key] # Nil THEN req[c].key ELSE End
  BY <1>1, CallFields DEF HandlerInv, Place, IteratorValid
<1>3. \A k \in Keys : k # End
  BY EndType
<1>4. CASE Put(c)
  <2> DEFINE r == [found |-> it[c] # End]
  <2>1. data' = Effect(data, req[c])
    BY <1>4 DEF Put, Effect
  <2>2. Printed(req[c], ReplyFor(req[c], r)) \in Results(data, req[c])
    BY <1>2, <1>3, <1>4 DEF Put, Printed, ReplyFor, Results
  <2> QED
    BY <1>4, <2>1, <2>2, ReturnRefines DEF Put
<1>5. CASE Swap(c)
  <2>1. data' = Effect(data, req[c])
    BY <1>2, <1>3, <1>5 DEF Swap, Effect
  <2> DEFINE r == [value |-> data[req[c].key]]
  <2>2. Printed(req[c], ReplyFor(req[c], r)) \in Results(data, req[c])
    BY <1>5 DEF Swap, Printed, ReplyFor, Results
  <2>3. ReturnFromStore(c, r)
    BY <1>2, <1>3, <1>5 DEF Swap
  <2> QED
    BY <1>5, <2>1, <2>2, <2>3, ReturnRefines DEF Swap
<1>6. CASE Get(c)
  <2>1. data' = Effect(data, req[c])
    BY <1>6 DEF Get, Effect
  <2> DEFINE r == [value |-> data[req[c].key]]
  <2>2. Printed(req[c], ReplyFor(req[c], r)) \in Results(data, req[c])
    BY <1>6 DEF Get, Printed, ReplyFor, Results
  <2>3. ReturnFromStore(c, r)
    BY <1>2, <1>3, <1>6 DEF Get
  <2> QED
    BY <1>6, <2>1, <2>2, <2>3, ReturnRefines DEF Get
<1>7. CASE Delete(c)
  <2>1. data' = Effect(data, req[c])
    BY <1>2, <1>3, <1>7 DEF Delete, Effect, TypeOK, Stores
  <2> DEFINE r == [found |-> data[req[c].key] # Nil]
  <2>2. Printed(req[c], ReplyFor(req[c], r)) \in Results(data, req[c])
    BY <1>7 DEF Delete, Printed, ReplyFor, Results
  <2>3. ReturnFromStore(c, r)
    BY <1>2, <1>3, <1>7 DEF Delete
  <2> QED
    BY <1>7, <2>1, <2>2, <2>3, ReturnRefines DEF Delete
<1>8. CASE ScanEnd(c)
  <2> DEFINE r == [list |-> list[c]]
  <2>1. req[c].op = "Scan"
    BY <1>8 DEF ScanEnd, HandlerInv, Place
  <2>2. data' = Effect(data, req[c])
    BY <1>8, <2>1 DEF ScanEnd, Effect
  <2>3. Printed(req[c], ReplyFor(req[c], r))
          = [op |-> "Scan", start |-> req[c].start, end |-> req[c].end, entries |-> list[c]]
    BY <2>1 DEF Printed, ReplyFor
  <2>4. Printed(req[c], ReplyFor(req[c], r)) \in Results(data, req[c])
    BY <1>8, <2>1, <2>3, ScanEndList DEF Results
  <2> QED
    BY <1>8, <2>2, <2>4, ReturnRefines DEF ScanEnd
<1> QED
  BY <1>4, <1>5, <1>6, <1>7, <1>8

\* A crash loses the calls that are with the handlers; a restart is invisible.
LEMMA CrashRefines ==
  ASSUME IInv, Crash \/ Restart
  PROVE  [A!Next]_(A!vars)
<1> USE DEF IInv
<1>1. CASE Crash
  <2> DEFINE lost == {c \in Clients : pc[c] \in Critical \cup {"lock"}}
  <2>1. \A c \in lost : opBar[c] \in {"pending", "done"}
    BY DEF opBar, Critical
  <2>2. opBar' = [c \in Clients |-> IF c \in lost THEN "none" ELSE opBar[c]]
    BY <1>1 DEF Crash, opBar
  <2>3. respBar' = [c \in Clients |-> IF c \in lost THEN None ELSE respBar[c]]
    <3> SUFFICES ASSUME NEW c \in Clients
                 PROVE  respBar'[c] = IF c \in lost THEN None ELSE respBar[c]
      BY DEF respBar
    <3>1. CASE c \in lost
      BY <1>1, <3>1 DEF Crash, respBar, HandlerInv, Protocol, Critical
    <3>2. CASE c \notin lost
      BY <1>1, <3>2 DEF Crash, respBar, Critical
    <3> QED
      BY <3>1, <3>2
  <2>4. A!Crash(lost)
    BY <1>1, <2>1, <2>2, <2>3, SameInterface DEF Crash, A!Crash
  <2> QED
    BY <2>4 DEF A!Next
<1>2. CASE Restart
  BY <1>2 DEF Restart, A!vars, opBar, respBar
<1> QED
  BY <1>1, <1>2

\* Every step maps to a step or to a stutter.
LEMMA NextRefines == IInv /\ [Next]_vars => [A!Next]_(A!vars)
<1> SUFFICES ASSUME IInv, [Next]_vars PROVE [A!Next]_(A!vars)
  OBVIOUS
<1>1. ASSUME NEW c \in Clients, Handler(c) PROVE [A!Next]_(A!vars)
  BY <1>1, HiddenRefines, ActRefines DEF Handler
<1>2. CASE UNCHANGED vars
  BY <1>2 DEF vars, A!vars, opBar, respBar
<1> QED
  BY <1>1, <1>2, ClientRefines, LossRefines, HiddenRefines, CrashRefines DEF Next

(***************************************************************************)
(* The service is linearizable, for every number of clients, keys, values, *)
(* calls and crashes: the handlers of server.cc, which hold mu_ around     *)
(* every operation of in_memory_kvstore.cc, implement AtomicKV.            *)
(***************************************************************************)
THEOREM ServiceIsLinearizable == Spec => Linearizable
<1> QED
  BY InitIInv, NextIInv, InitRefines, NextRefines, PTL DEF Spec, Linearizable, A!Spec
=============================================================================
