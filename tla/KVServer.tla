----------------------------- MODULE KVServer ------------------------------
(***************************************************************************)
(* The key-value service: client processes (client.cc) that make one       *)
(* blocking RPC at a time, the handler threads of the gRPC server          *)
(* (server.cc) that serve these under one mutex, and the map operations    *)
(* (in_memory_kvstore.cc) that a handler carries out statement by          *)
(* statement, so that handlers which did not exclude one another would     *)
(* interleave inside an operation.                                         *)
(*                                                                         *)
(* A client waits for its RPC, hence it has at most one handler, which is  *)
(* named after it.  The handler outlives the client's interest: a client   *)
(* that was told the RPC failed is gone, its handler runs on.              *)
(***************************************************************************)
EXTENDS KVStore

CONSTANTS
  Clients,      \* the client processes
  None,         \* no request, no result, no output, no holder of the mutex
  MaxCalls,     \* bound: commands read by the clients, all together
  MaxCrashes    \* bound: times the server process stops

ASSUME ServerAssumption ==
  /\ None \notin Clients
  /\ MaxCalls \in Nat
  /\ MaxCrashes \in Nat

VARIABLES
  data,      \* InMemoryKVStore::data_
  mu,        \* ServiceImpl::mu_: the client whose handler holds it, or None
  up,        \* the server process is running
  cli,       \* per client: "ready" to read a command, "waiting", "exited"
  pc,        \* per client: where its request or its handler is
  req,       \* per client: the request of its last RPC
  it,        \* per handler: the iterator `it` of the store operation
  list,      \* per handler: the vector `result` of a Scan in progress
  ret,       \* per handler: what the store operation returned
  reply,     \* per client: the reply message on its way to the client
  out,       \* per client: what it printed for its last command
  ncalls,    \* commands read so far by the clients
  ncrashes   \* crashes so far

vars == <<data, mu, up, cli, pc, req, it, list, ret, reply, out, ncalls, ncrashes>>

\* data_.end(), past the last key
End == NumKeys + 1

Iterators == 1 .. End

\* A handler holds the mutex at these places.
Critical == {"find", "act", "scan", "unlock"}

\* What a store operation returns: a bool, an optional or a vector.
Returned ==
  [found : BOOLEAN] \cup [value : Values \cup {Nil}] \cup [list : Seq(Entries)]

Replies ==
  [found : BOOLEAN] \cup [found : BOOLEAN, value : Values \cup {Nil}]
    \cup [list : Seq(Entries)]

----------------------------------------------------------------------------
Init ==
  /\ data = Empty
  /\ mu = None
  /\ up = TRUE
  /\ cli = [c \in Clients |-> "ready"]
  /\ pc = [c \in Clients |-> "none"]
  /\ req = [c \in Clients |-> None]
  /\ it = [c \in Clients |-> End]
  /\ list = [c \in Clients |-> <<>>]
  /\ ret = [c \in Clients |-> None]
  /\ reply = [c \in Clients |-> None]
  /\ out = [c \in Clients |-> None]
  /\ ncalls = 0
  /\ ncrashes = 0

(***************************************************************************)
(* The client: a command is turned into a request, and the thread blocks   *)
(* in the stub until the reply arrives or the RPC fails.                   *)
(***************************************************************************)
Call(c, k) ==
  /\ cli[c] = "ready"
  /\ ncalls < MaxCalls
  /\ cli' = [cli EXCEPT ![c] = "waiting"]
  /\ pc' = [pc EXCEPT ![c] = "sent"]
  /\ req' = [req EXCEPT ![c] = k]
  /\ out' = [out EXCEPT ![c] = None]
  /\ ncalls' = ncalls + 1
  /\ UNCHANGED <<data, mu, up, it, list, ret, reply, ncrashes>>

\* What the client prints for a reply: the keys are those of the request,
\* and a value is printed only when the reply says that it was found.
Printed(k, r) ==
  CASE k.op \in {"Put", "Delete"} ->
         [op |-> k.op, key |-> k.key, found |-> r.found]
    [] k.op \in {"Swap", "Get"} ->
         [op |-> k.op, key |-> k.key, value |-> IF r.found THEN r.value ELSE Nil]
    [] OTHER ->
         [op |-> "Scan", start |-> k.start, end |-> k.end, entries |-> r.list]

Receive(c) ==
  /\ cli[c] = "waiting"
  /\ pc[c] = "replied"
  /\ cli' = [cli EXCEPT ![c] = "ready"]
  /\ pc' = [pc EXCEPT ![c] = "none"]
  /\ out' = [out EXCEPT ![c] = Printed(req[c], reply[c])]
  /\ reply' = [reply EXCEPT ![c] = None]
  /\ UNCHANGED <<data, mu, up, req, it, list, ret, ncalls, ncrashes>>

\* STOP, a malformed command, or the end of the input.
Stop(c) ==
  /\ cli[c] = "ready"
  /\ cli' = [cli EXCEPT ![c] = "exited"]
  /\ UNCHANGED <<data, mu, up, pc, req, it, list, ret, reply, out, ncalls, ncrashes>>

\* The stub returns a status that is not OK: the client reports it on stderr
\* and exits, without a retry.  Its request may still be served.
RpcFail(c) ==
  /\ cli[c] = "waiting"
  /\ cli' = [cli EXCEPT ![c] = "exited"]
  /\ UNCHANGED <<data, mu, up, pc, req, it, list, ret, reply, out, ncalls, ncrashes>>

(***************************************************************************)
(* gRPC and the network, as far as the code can tell: a request reaches a  *)
(* handler thread of a running server, a request to a server that is down  *)
(* is refused, and a message is lost when the connection breaks.           *)
(***************************************************************************)
Dispatch(c) ==
  /\ up
  /\ pc[c] = "sent"
  /\ pc' = [pc EXCEPT ![c] = "lock"]
  /\ UNCHANGED <<data, mu, up, cli, req, it, list, ret, reply, out, ncalls, ncrashes>>

Refuse(c) ==
  /\ ~up
  /\ pc[c] = "sent"
  /\ pc' = [pc EXCEPT ![c] = "none"]
  /\ UNCHANGED <<data, mu, up, cli, req, it, list, ret, reply, out, ncalls, ncrashes>>

Drop(c) ==
  /\ pc[c] \in {"sent", "replied"}
  /\ pc' = [pc EXCEPT ![c] = "none"]
  /\ reply' = [reply EXCEPT ![c] = None]
  /\ UNCHANGED <<data, mu, up, cli, req, it, list, ret, out, ncalls, ncrashes>>
----------------------------------------------------------------------------
(***************************************************************************)
(* The handler: std::lock_guard, the store operation, the reply.  The      *)
(* guard's destructor releases the mutex after the reply has been filled   *)
(* in, and the locals of the handler are gone when it returns.             *)
(***************************************************************************)
\* Mutant: the handler has no lock_guard.
LockWithoutWaiting(c) ==
  /\ pc[c] = "lock"
  /\ mu' = c
  /\ pc' = [pc EXCEPT ![c] = "find"]
  /\ UNCHANGED <<data, up, cli, req, it, list, ret, reply, out, ncalls, ncrashes>>

Lock(c) ==
  /\ pc[c] = "lock"
  /\ mu = None
  /\ mu' = c
  /\ pc' = [pc EXCEPT ![c] = "find"]
  /\ UNCHANGED <<data, up, cli, req, it, list, ret, reply, out, ncalls, ncrashes>>

\* The reply message for what the store operation returned.
ReplyFor(k, r) ==
  CASE k.op \in {"Put", "Delete"} -> [found |-> r.found]
    [] k.op \in {"Swap", "Get"}   -> [found |-> r.value # Nil, value |-> r.value]
    [] OTHER                      -> [list |-> r.list]

\* Mutant: a bare mu_.lock() whose unlock is forgotten.
ReplyWithoutUnlock(c) ==
  /\ pc[c] = "unlock"
  /\ reply' = [reply EXCEPT ![c] = ReplyFor(req[c], ret[c])]
  /\ pc' = [pc EXCEPT ![c] = "replied"]
  /\ it' = [it EXCEPT ![c] = End]
  /\ list' = [list EXCEPT ![c] = <<>>]
  /\ ret' = [ret EXCEPT ![c] = None]
  /\ UNCHANGED <<data, mu, up, cli, req, out, ncalls, ncrashes>>

Reply(c) ==
  /\ pc[c] = "unlock"
  /\ reply' = [reply EXCEPT ![c] = ReplyFor(req[c], ret[c])]
  /\ mu' = None
  /\ pc' = [pc EXCEPT ![c] = "replied"]
  /\ it' = [it EXCEPT ![c] = End]
  /\ list' = [list EXCEPT ![c] = <<>>]
  /\ ret' = [ret EXCEPT ![c] = None]
  /\ UNCHANGED <<data, up, cli, req, out, ncalls, ncrashes>>

(***************************************************************************)
(* The store operations.  All but Scan first look their key up.            *)
(***************************************************************************)
Find(c) ==
  /\ pc[c] = "find"
  /\ req[c].op # "Scan"
  /\ it' = [it EXCEPT ![c] = IF data[req[c].key] # Nil THEN req[c].key ELSE End]
  /\ pc' = [pc EXCEPT ![c] = "act"]
  /\ UNCHANGED <<data, mu, up, cli, req, list, ret, reply, out, ncalls, ncrashes>>

\* The operation returns r to the handler of c.
ReturnFromStore(c, r) ==
  /\ ret' = [ret EXCEPT ![c] = r]
  /\ pc' = [pc EXCEPT ![c] = "unlock"]
  /\ UNCHANGED <<mu, up, cli, req, it, list, reply, out, ncalls, ncrashes>>

Put(c) ==
  /\ pc[c] = "act"
  /\ req[c].op = "Put"
  /\ data' = [data EXCEPT ![req[c].key] = req[c].value]
  /\ ReturnFromStore(c, [found |-> it[c] # End])

\* Mutant: a key that is absent is not inserted.
SwapWithoutInsert(c) ==
  /\ pc[c] = "act"
  /\ req[c].op = "Swap"
  /\ \/ /\ it[c] = End
        /\ UNCHANGED data
        /\ ReturnFromStore(c, [value |-> Nil])
     \/ /\ it[c] # End
        /\ data' = [data EXCEPT ![it[c]] = req[c].value]
        /\ ReturnFromStore(c, [value |-> data[it[c]]])

Swap(c) ==
  /\ pc[c] = "act"
  /\ req[c].op = "Swap"
  /\ \/ /\ it[c] = End
        /\ data' = [data EXCEPT ![req[c].key] = req[c].value]
        /\ ReturnFromStore(c, [value |-> Nil])
     \/ /\ it[c] # End
        /\ data' = [data EXCEPT ![it[c]] = req[c].value]
        /\ ReturnFromStore(c, [value |-> data[it[c]]])

Get(c) ==
  /\ pc[c] = "act"
  /\ req[c].op = "Get"
  /\ ReturnFromStore(c, [value |-> IF it[c] = End THEN Nil ELSE data[it[c]]])
  /\ UNCHANGED data

Delete(c) ==
  /\ pc[c] = "act"
  /\ req[c].op = "Delete"
  /\ \/ /\ it[c] = End
        /\ UNCHANGED data
        /\ ReturnFromStore(c, [found |-> FALSE])
     \/ /\ it[c] # End
        /\ data' = [data EXCEPT ![req[c].key] = Nil]
        /\ ReturnFromStore(c, [found |-> TRUE])

\* i is the first key of the map that is not below k, or the end.
IsLowerBound(k, i) ==
  /\ k <= i
  /\ i # End => data[i] # Nil
  /\ \A j \in Keys : k <= j /\ j < i => data[j] = Nil

ScanBegin(c) ==
  /\ pc[c] = "find"
  /\ req[c].op = "Scan"
  /\ \E i \in Iterators :
       /\ IsLowerBound(req[c].start, i)
       /\ it' = [it EXCEPT ![c] = i]
  /\ list' = [list EXCEPT ![c] = <<>>]
  /\ pc' = [pc EXCEPT ![c] = "scan"]
  /\ UNCHANGED <<data, mu, up, cli, req, ret, reply, out, ncalls, ncrashes>>

\* Mutant: the next key is visited whether or not the map has it.
ScanNextOverGaps(c) ==
  /\ pc[c] = "scan"
  /\ it[c] # End
  /\ it[c] <= req[c].end
  /\ list' = [list EXCEPT ![c] = Append(@, <<it[c], data[it[c]]>>)]
  /\ it' = [it EXCEPT ![c] = @ + 1]
  /\ UNCHANGED <<data, mu, up, cli, pc, req, ret, reply, out, ncalls, ncrashes>>

\* Mutant: the iterator does not advance.
ScanNextStays(c) ==
  /\ pc[c] = "scan"
  /\ it[c] # End
  /\ it[c] <= req[c].end
  /\ list' = [list EXCEPT ![c] = Append(@, <<it[c], data[it[c]]>>)]
  /\ UNCHANGED <<data, mu, up, cli, pc, req, it, ret, reply, out, ncalls, ncrashes>>

\* One turn of the loop: the entry is copied and the iterator advances.
ScanNext(c) ==
  /\ pc[c] = "scan"
  /\ it[c] # End
  /\ it[c] <= req[c].end
  /\ list' = [list EXCEPT ![c] = Append(@, <<it[c], data[it[c]]>>)]
  /\ \E i \in Iterators :
       /\ IsLowerBound(it[c] + 1, i)
       /\ it' = [it EXCEPT ![c] = i]
  /\ UNCHANGED <<data, mu, up, cli, pc, req, ret, reply, out, ncalls, ncrashes>>

ScanEnd(c) ==
  /\ pc[c] = "scan"
  /\ it[c] = End \/ it[c] > req[c].end
  /\ UNCHANGED data
  /\ ReturnFromStore(c, [list |-> list[c]])

Handler(c) ==
  \/ Lock(c)
  \/ Find(c)
  \/ Put(c)
  \/ Swap(c)
  \/ Get(c)
  \/ Delete(c)
  \/ ScanBegin(c)
  \/ ScanNext(c)
  \/ ScanEnd(c)
  \/ Reply(c)
----------------------------------------------------------------------------
(***************************************************************************)
(* The server process stops, taking the map and its threads with it, and   *)
(* is started again with an empty map.                                     *)
(***************************************************************************)
Crash ==
  /\ up
  /\ ncrashes < MaxCrashes
  /\ up' = FALSE
  /\ data' = Empty
  /\ mu' = None
  /\ pc' = [c \in Clients |-> IF pc[c] \in Critical \cup {"lock"} THEN "none" ELSE pc[c]]
  /\ it' = [c \in Clients |-> End]
  /\ list' = [c \in Clients |-> <<>>]
  /\ ret' = [c \in Clients |-> None]
  /\ ncrashes' = ncrashes + 1
  /\ UNCHANGED <<cli, req, reply, out, ncalls>>

Restart ==
  /\ ~up
  /\ up' = TRUE
  /\ UNCHANGED <<data, mu, cli, pc, req, it, list, ret, reply, out, ncalls, ncrashes>>

Next ==
  \/ \E c \in Clients :
       \/ \E k \in Calls : Call(c, k)
       \/ Receive(c)
       \/ Stop(c)
       \/ RpcFail(c)
       \/ Dispatch(c)
       \/ Refuse(c)
       \/ Drop(c)
       \/ Handler(c)
  \/ Crash
  \/ Restart

Spec == Init /\ [][Next]_vars

(***************************************************************************)
(* Fairness: the operating system runs a handler thread that can run and   *)
(* the mutex is granted when it stays free; gRPC delivers a request to a   *)
(* running server and fails one to a server that is down; the stub returns *)
(* when a reply is there, and with an error when none can come any more.   *)
(* Nothing obliges a server to be restarted or a client to issue a call.   *)
(***************************************************************************)
Fairness ==
  \A c \in Clients :
    /\ WF_vars(Handler(c))
    /\ WF_vars(Dispatch(c) \/ Refuse(c))
    /\ WF_vars(Receive(c))
    /\ WF_vars(pc[c] = "none" /\ RpcFail(c))

FairSpec == Spec /\ Fairness
----------------------------------------------------------------------------
(***************************************************************************)
(* Every variable has its type: in particular an iterator of a store       *)
(* operation (in_memory_kvstore.cc) is a key or the end.                   *)
(***************************************************************************)
TypeOK ==
  /\ data \in Stores
  /\ mu \in Clients \cup {None}
  /\ up \in BOOLEAN
  /\ cli \in [Clients -> {"ready", "waiting", "exited"}]
  /\ pc \in [Clients -> Critical \cup {"none", "sent", "lock", "replied"}]
  /\ req \in [Clients -> Calls \cup {None}]
  /\ it \in [Clients -> Iterators]
  /\ list \in [Clients -> Seq(Entries)]
  /\ ret \in [Clients -> Returned \cup {None}]
  /\ reply \in [Clients -> Replies \cup {None}]
  /\ out \in [Clients -> Answers \cup {None}]
  /\ ncalls \in 0 .. MaxCalls
  /\ ncrashes \in 0 .. MaxCrashes

(***************************************************************************)
(* Iterators never dangle: between the find of Put, Swap, Get or Delete    *)
(* and the statement that acts on its result, the key neither appears nor  *)
(* disappears, and the entry a Scan stands on is not erased beneath it     *)
(* (in_memory_kvstore.cc, whose operations rely on the handler's mutex).   *)
(***************************************************************************)
IteratorValid ==
  \A c \in Clients :
    /\ pc[c] = "act" => it[c] = IF data[req[c].key] # Nil THEN req[c].key ELSE End
    /\ pc[c] = "scan" /\ it[c] # End => data[it[c]] # Nil

(***************************************************************************)
(* A Scan is a snapshot: at every turn of its loop what it has collected   *)
(* is exactly the part of the current map between start_key and the        *)
(* iterator, without a gap, a duplicate or a value that was overwritten    *)
(* meanwhile, and with nothing past end_key (InMemoryKVStore::Scan under   *)
(* ServiceImpl::mu_).                                                      *)
(***************************************************************************)
ScanSnapshot ==
  \A c \in Clients :
    pc[c] = "scan" =>
      /\ Ascending(list[c])
      /\ {list[c][i] : i \in 1 .. Len(list[c])} = InRange(data, req[c].start, it[c] - 1)
      /\ \A i \in 1 .. Len(list[c]) : list[c][i][1] <= req[c].end

(***************************************************************************)
(* The mutex is never left locked (server.cc, the lock_guards): the        *)
(* handler that holds it is at a place where it has a next step, wherever  *)
(* the server was stopped and restarted before, and each of these steps    *)
(* brings it nearer to the release, which is at most NumKeys + 3 steps     *)
(* away.  In particular the loop of Scan ends, although the map does not   *)
(* say how many entries are in its range.                                  *)
(***************************************************************************)
HolderCanStep ==
  \A c \in Clients :
    mu = c =>
      \/ pc[c] = "find" /\ req[c].op # "Scan"
      \/ pc[c] = "find" /\ \E i \in Iterators : IsLowerBound(req[c].start, i)
      \/ pc[c] = "act" /\ req[c].op # "Scan"
      \/ pc[c] = "scan" /\ it[c] # End /\ \E i \in Iterators : IsLowerBound(it[c] + 1, i)
      \/ pc[c] = "scan" /\ it[c] = End
      \/ pc[c] = "unlock"

\* How many steps the handler of c has left, at most, until it releases the mutex.
StepsLeft(c) ==
  CASE pc[c] = "find"   -> NumKeys + 3
    [] pc[c] = "scan"   -> End - it[c] + 2
    [] pc[c] = "act"    -> 2
    [] pc[c] = "unlock" -> 1
    [] OTHER            -> 0

HolderComesNearer ==
  [][\A c \in Clients :
       mu = c =>
         \/ StepsLeft(c)' < StepsLeft(c)
         \/ UNCHANGED <<mu, pc[c], it[c], list[c], ret[c]>>]_vars

(***************************************************************************)
(* A client that waits for an RPC does not wait forever: it prints the     *)
(* answer or exits, although the server may stop, messages may be lost and *)
(* the mutex is contended (client.cc sets no deadline).                    *)
(***************************************************************************)
CallsComplete ==
  \A c \in Clients : cli[c] = "waiting" ~> cli[c] # "waiting"
=============================================================================
