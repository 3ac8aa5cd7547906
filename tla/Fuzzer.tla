------------------------------- MODULE Fuzzer -------------------------------
(***************************************************************************)
(* The fuzz tester (runner/src/bin/fuzzer): one thread that issues random  *)
(* calls through its clients, harvests the responses in a random order,    *)
(* and checks these against a trimmed history of the acknowledged updates. *)
(*                                                                         *)
(* The service under test executes a call at one instant while the call is *)
(* in flight.  Service says how: "atomic" is what AtomicKV promises,       *)
(* "swapbug" is the first implementation the report tells of, whose Swap   *)
(* does not insert an absent key, and "arbitrary" answers anything.        *)
(*                                                                         *)
(* A random value is one that no other call writes: the timestamp of its   *)
(* call.  Comparing keys and values is all that the fuzzer does with them. *)
(***************************************************************************)
EXTENDS KVStore, FiniteSets, FiniteSetsExt, Functions

CONSTANTS
  Clients,       \* the clients, args.num_clis of them
  None,          \* no client is waited for, no answer yet, no value
  Pool,          \* per client: the keys it draws from
  Ops,           \* the operations that are drawn
  TotalOps,      \* args.num_ops * args.num_clis
  RemainThresh,  \* REMAIN_THRESH
  Service        \* how the service under test executes a call

Times == 1 .. 2 * TotalOps

PoolKeys == UNION Range(Pool)

ASSUME FuzzerAssumption ==
  /\ IsFiniteSet(Clients) /\ Clients # {}
  /\ None \notin Clients
  /\ Pool \in [Clients -> (SUBSET Keys) \ {{}}]
  /\ Ops \subseteq UpdateOps \cup {"Get", "Scan"}
  /\ TotalOps \in Nat \ {0}
  /\ RemainThresh \in Nat
  /\ Service \in {"atomic", "swapbug", "arbitrary"}
  /\ Values = Times /\ Nil = 0

VARIABLES
  store,      \* the map of the service under test
  answer,     \* per client: what the service has answered to its call
  flying,     \* per client: it has an on-the-fly request
  memo,       \* call_memo: per client, the start time and the call
  at,         \* the client whose response the thread is blocked on, or None
  timestamp,
  called,     \* ops_called
  waited,     \* ops_waited
  queue,      \* History::queue
  spans,      \* History::spans
  maxtr,      \* History::maxtr
  verdict,    \* "running", "PASSED", "UNFAIR", "FAILED" or "error"
  full,       \* history variable: spans, had nothing been trimmed
  checked     \* history variable: the responses checked, and with what outcome

vars == <<store, answer, flying, memo, at, timestamp, called, waited, queue, spans,
          maxtr, verdict, full, checked>>

service == <<store, answer>>
history == <<queue, spans, maxtr, full, checked>>

Spans == [ts_call : {0} \cup Times, ts_resp : {0} \cup Times, value : Values \cup {Nil}]

\* The dummy Delete at the head of every list.
Dummy == [ts_call |-> 0, ts_resp |-> 0, value |-> Nil]

\* The answer of a client process that has read STOP.
StopResp == [op |-> "Stop"]

ASSUME NoneAssumption ==
  None \notin [ts_call : Times, call : Calls] \cup Answers \cup {StopResp}

Init ==
  /\ store = Empty
  /\ answer = [c \in Clients |-> None]
  /\ flying = [c \in Clients |-> FALSE]
  /\ memo = [c \in Clients |-> None]
  /\ at = None
  /\ timestamp = 0
  /\ called = 0
  /\ waited = 0
  /\ queue = <<>>
  /\ spans = [k \in PoolKeys |-> [c \in Clients |-> <<Dummy>>]]
  /\ maxtr = [c \in Clients |-> 0]
  /\ verdict = "running"
  /\ full = spans
  /\ checked = {}

----------------------------------------------------------------------------
(***************************************************************************)
(* The loop of fuzz_test: each turn draws a call or a wait, and the client *)
(* it is for.                                                              *)
(***************************************************************************)
RandomCalls(c) ==
  {k \in [op : {"Put", "Swap"}, key : Pool[c], value : {timestamp + 1}]
           \cup [op : {"Get", "Delete"}, key : Pool[c]]
           \cup [op : {"Scan"}, start : Pool[c], end : Pool[c]] :
     k.op \in Ops /\ (k.op = "Scan" => k.start <= k.end)}

InLoop == verdict = "running" /\ at = None /\ waited < TotalOps

\* Mutant: the calls are not counted against the total.
MayCallUncounted(c) == ~flying[c]

\* What may be drawn.  When every call has been made, or every client has one
\* in flight, only a wait is left.
MayCall(c) == called # TotalOps /\ ~flying[c]

MayWait(c) == flying[c]

Call(c) ==
  /\ InLoop
  /\ MayCall(c)
  /\ timestamp' = timestamp + 1
  /\ \E k \in RandomCalls(c) :
       memo' = [memo EXCEPT ![c] = [ts_call |-> timestamp', call |-> k]]
  /\ flying' = [flying EXCEPT ![c] = TRUE]
  /\ called' = called + 1
  /\ UNCHANGED <<service, at, waited, history, verdict>>

\* The thread blocks on the response of c.
Await(c) ==
  /\ InLoop
  /\ MayWait(c)
  /\ timestamp' = timestamp + 1
  /\ at' = c
  /\ UNCHANGED <<service, flying, memo, called, waited, history, verdict>>

\* ClientProc returns an error from send_call, wait_resp or stop.
RunnerFailure ==
  /\ verdict = "running"
  /\ verdict' = "error"
  /\ at' = None
  /\ UNCHANGED <<service, flying, memo, timestamp, called, waited, history>>

----------------------------------------------------------------------------
(***************************************************************************)
(* The service under test.                                                 *)
(***************************************************************************)
BuggyEffect(call) ==
  IF call.op = "Swap" /\ store[call.key] = Nil THEN store ELSE Effect(store, call)

\* Whatever a client process can print: a list of the keys is one per key here.
AnyResults ==
  [op : {"Put", "Delete"}, key : Keys, found : BOOLEAN]
    \cup [op : {"Swap", "Get"}, key : Keys, value : Values \cup {Nil}]
    \cup [op : {"Scan"}, start : Keys, end : Keys,
          entries : UNION {[1 .. n -> Entries] : n \in 0 .. 2}]
    \cup {StopResp}

Execute(c) ==
  /\ flying[c]
  /\ answer[c] = None
  /\ memo[c] # None
  /\ \/ /\ Service = "arbitrary"
        /\ \E r \in AnyResults : r.op \in Ops \cup {"Stop"} /\ answer' = [answer EXCEPT ![c] = r]
        /\ UNCHANGED store
     \/ /\ Service # "arbitrary"
        /\ \E r \in Results(store, memo[c].call) : answer' = [answer EXCEPT ![c] = r]
        /\ store' = IF Service = "atomic" THEN Effect(store, memo[c].call)
                    ELSE BuggyEffect(memo[c].call)
  /\ UNCHANGED <<flying, memo, at, timestamp, called, waited, history, verdict>>

----------------------------------------------------------------------------
(***************************************************************************)
(* Checking an entry of the queue.  The values of a key that the answer    *)
(* may show are those of the updates called before the response, as far    *)
(* back as, for each client, its last update acknowledged before the call. *)
(***************************************************************************)
\* Mutant: the scan of a client's list stops before its last span that was
\* acknowledged before the call.
VisibleBreakFirst(s, e) ==
  {s[n].value : n \in {i \in DOMAIN s :
     s[i].ts_call < e.ts_resp /\ \A m \in i .. Len(s) : s[m].ts_resp >= e.ts_call}}

VisibleOf(s, e) ==
  {s[n].value : n \in {i \in DOMAIN s :
     s[i].ts_call < e.ts_resp /\ \A m \in i + 1 .. Len(s) : s[m].ts_resp >= e.ts_call}}

Visible(keySpans, e) == UNION {VisibleOf(keySpans[c], e) : c \in Clients}

Shows(keySpans, e, values) == Visible(keySpans, e) \cap values # {}

\* The value of key in the entries of a Scan, Nil when it is not there.
EntryOf(entries, key) ==
  LET there == {i \in DOMAIN entries : entries[i][1] = key}
  IN  IF there = {} THEN Nil ELSE entries[Min(there)][2]

\* Mutant: the range of a scan is half-open, as in a Rust range.
CheckScanHalfOpen(h, e) ==
  LET r == e.resp IN
    /\ \A i \in DOMAIN r.entries : r.start <= r.entries[i][1] /\ r.entries[i][1] < r.end
    /\ \A i, j \in DOMAIN r.entries : r.entries[i][1] = r.entries[j][1] => i = j
    /\ \A k \in PoolKeys :
         r.start <= k /\ k <= r.end => Shows(h[k], e, {EntryOf(r.entries, k)})

CheckScan(h, e) ==
  LET r == e.resp IN
    /\ \A i \in DOMAIN r.entries : r.start <= r.entries[i][1] /\ r.entries[i][1] <= r.end
    /\ \A i, j \in DOMAIN r.entries : r.entries[i][1] = r.entries[j][1] => i = j
    /\ \A k \in PoolKeys :
         r.start <= k /\ k <= r.end => Shows(h[k], e, {EntryOf(r.entries, k)})

CheckCall(h, e) ==
  LET r == e.resp IN
    CASE r.op \in {"Put", "Delete"} ->
           r.key \in PoolKeys /\ Shows(h[r.key], e, IF r.found THEN Values ELSE {Nil})
      [] r.op \in {"Swap", "Get"} ->
           r.key \in PoolKeys /\ Shows(h[r.key], e, {r.value})
      [] OTHER -> CheckScan(h, e)

----------------------------------------------------------------------------
(***************************************************************************)
(* A response is due for its check when every client has acknowledged an   *)
(* update after it.  Spans are dropped from the head of a client's list, but      *)
(* never all, while they were acknowledged before the call of the last     *)
(* span that is fully ahead of every check to come.                        *)
(***************************************************************************)
\* Mutant: the latest instead of the earliest of the clients.
LatestComing(max) == Max(Range(max))

MinComing(max) == Min(Range(max))

\* Mutant: one check per update.
DueHead(q, coming) == {i \in DOMAIN q : i = 1 /\ q[i].ts_resp < coming}

Due(q, coming) == {i \in DOMAIN q : \A j \in 1 .. i : q[j].ts_resp < coming}

\* Mutant: the checks that are still queued are forgotten.
TrimBoundWithoutQueue(q, coming) == coming

TrimBound(q, coming) == Min({coming} \cup {q[i].ts_call : i \in DOMAIN q})

KeepFrom(s, bound) ==
  LET ahead == {n \in DOMAIN s : s[n].ts_resp < bound}
  IN  IF ahead = {} THEN 0 ELSE s[Max(ahead)].ts_call

Trim(s, bound) ==
  LET kept == {n \in DOMAIN s : n = Len(s) \/ s[n].ts_resp >= KeepFrom(s, bound)}
  IN  SubSeq(s, Min(kept), Len(s))

\* Mutant: the memo has been taken before.
SpanOfTakenMemo(m, ts_resp) ==
  [ts_call |-> 0, ts_resp |-> ts_resp,
   value   |-> IF m.call.op = "Delete" THEN Nil ELSE m.call.value]

\* The update that a call makes, by its response time (KvCall::update_info).
SpanOf(m, ts_resp) ==
  [ts_call |-> m.ts_call, ts_resp |-> ts_resp,
   value   |-> IF m.call.op = "Delete" THEN Nil ELSE m.call.value]

Harvest(c) ==
  /\ verdict = "running"
  /\ at = c
  /\ answer[c] \notin {None, StopResp}
  /\ at' = None
  /\ memo' = [memo EXCEPT ![c] = None]
  /\ answer' = [answer EXCEPT ![c] = None]
  /\ UNCHANGED <<store, timestamp, called>>

\* Mutant: the response is not counted.
HarvestedUncounted(c) ==
  /\ flying' = [flying EXCEPT ![c] = FALSE]
  /\ UNCHANGED waited

Harvested(c) ==
  /\ flying' = [flying EXCEPT ![c] = FALSE]
  /\ waited' = waited + 1

Entry(c) == [ts_call |-> memo[c].ts_call, ts_resp |-> timestamp, resp |-> answer[c]]

\* Mutant: only the responses of updates are queued.
HarvestReadUnqueued(c) ==
  /\ Harvest(c)
  /\ memo[c].call.op \notin UpdateOps
  /\ Harvested(c)
  /\ UNCHANGED <<queue, spans, maxtr, full, checked, verdict>>

\* The response of a Get or a Scan is queued for its check.
HarvestRead(c) ==
  /\ Harvest(c)
  /\ memo[c].call.op \notin UpdateOps
  /\ queue' = Append(queue, Entry(c))
  /\ Harvested(c)
  /\ UNCHANGED <<spans, maxtr, full, checked, verdict>>

\* The response of an update is queued, then apply_update records the update,
\* trims the history of its key and makes the checks that are due, in order,
\* up to the first that fails.
HarvestUpdate(c) ==
  /\ Harvest(c)
  /\ memo[c].call.op \in UpdateOps
  /\ LET key     == memo[c].call.key
         span    == SpanOf(memo[c], timestamp)
         newmax  == [maxtr EXCEPT ![c] = timestamp]
         coming  == MinComing(newmax)
         q       == Append(queue, Entry(c))
         bound   == TrimBound(q, coming)
         grown   == [spans[key] EXCEPT ![c] = Append(@, span)]
         trimmed == [spans EXCEPT ![key] = [d \in Clients |-> Trim(grown[d], bound)]]
         due     == Due(q, coming)
         failing == {i \in due : ~CheckCall(trimmed, q[i])}
         popped  == IF failing = {} THEN Cardinality(due) ELSE Min(failing)
     IN /\ maxtr' = newmax
        /\ spans' = trimmed
        /\ full' = [full EXCEPT ![key][c] = Append(@, span)]
        /\ queue' = SubSeq(q, popped + 1, Len(q))
        /\ checked' = checked \cup {[entry |-> q[i], ok |-> i \notin failing] : i \in 1 .. popped}
        /\ \/ /\ failing = {}
              /\ Harvested(c)
              /\ UNCHANGED verdict
           \/ /\ failing # {}
              /\ verdict' = "FAILED"
              /\ UNCHANGED <<flying, waited>>

UnexpectedStop(c) ==
  /\ verdict = "running"
  /\ at = c
  /\ answer[c] = StopResp
  /\ at' = None
  /\ verdict' = "FAILED"
  /\ UNCHANGED <<service, flying, memo, timestamp, called, waited, history>>

\* Mutant: the threshold itself is still taken for a pass.
FinishOffByOne ==
  /\ verdict = "running"
  /\ waited = TotalOps
  /\ verdict' = IF Len(queue) > RemainThresh THEN "UNFAIR" ELSE "PASSED"
  /\ UNCHANGED <<service, flying, memo, at, timestamp, called, waited, history>>

\* The loop is over, the clients are stopped and main prints the result.
Finish ==
  /\ verdict = "running"
  /\ waited = TotalOps
  /\ verdict' = IF Len(queue) >= RemainThresh THEN "UNFAIR" ELSE "PASSED"
  /\ UNCHANGED <<service, flying, memo, at, timestamp, called, waited, history>>

Turn ==
  \/ \E c \in Clients :
       \/ Call(c)
       \/ Await(c)
       \/ HarvestRead(c)
       \/ HarvestUpdate(c)
       \/ UnexpectedStop(c)
  \/ Finish

Next ==
  \/ Turn
  \/ RunnerFailure
  \/ \E c \in Clients : Execute(c)

Spec == Init /\ [][Next]_vars

----------------------------------------------------------------------------
(***************************************************************************)
(* Every variable has its type: in particular the loop of fuzz_test issues *)
(* and harvests no more than TotalOps calls.                               *)
(***************************************************************************)
TypeOK ==
  /\ store \in Stores
  /\ answer \in [Clients -> Answers \cup {None, StopResp}]
  /\ flying \in [Clients -> BOOLEAN]
  /\ memo \in [Clients -> [ts_call : Times, call : Calls] \cup {None}]
  /\ at \in Clients \cup {None}
  /\ timestamp \in {0} \cup Times
  /\ called \in 0 .. TotalOps
  /\ waited \in 0 .. called
  /\ queue \in Seq([ts_call : Times, ts_resp : Times, resp : Answers])
  /\ spans \in [PoolKeys -> [Clients -> Seq(Spans)]]
  /\ maxtr \in [Clients -> {0} \cup Times]
  /\ verdict \in {"running", "PASSED", "UNFAIR", "FAILED", "error"}
  /\ full \in [PoolKeys -> [Clients -> Seq(Spans)]]
  /\ \A x \in checked : x.ok \in BOOLEAN

(***************************************************************************)
(* The fuzzer raises no false alarm: it never fails a service that is      *)
(* linearizable (history.rs, whose checks are necessary conditions).       *)
(***************************************************************************)
NoFalseAlarm == Service = "atomic" => verdict # "FAILED"

(***************************************************************************)
(* The assertions of history.rs (lines 68, 69 and 100): the queue is       *)
(* ordered by response time, and each client's updates of a key follow one *)
(* another, so that scanning a list from its end visits the latest first.  *)
(***************************************************************************)
HistoryInOrder ==
  /\ \A i \in DOMAIN queue : queue[i].ts_call < queue[i].ts_resp
  /\ \A i, j \in DOMAIN queue : i < j => queue[i].ts_resp < queue[j].ts_resp
  /\ \A k \in PoolKeys, c \in Clients :
       /\ spans[k][c] # <<>>
       /\ \A i, j \in DOMAIN spans[k][c] :
            i < j => spans[k][c][i].ts_resp < spans[k][c][j].ts_call

(***************************************************************************)
(* Trimming loses nothing (history.rs:118): whatever is queued, in flight  *)
(* or still to be called sees in the trimmed history exactly the values it *)
(* would see in the whole one.                                             *)
(***************************************************************************)
Pending ==
  {[ts_call |-> queue[i].ts_call, ts_resp |-> queue[i].ts_resp] : i \in DOMAIN queue}
    \cup {[ts_call |-> memo[c].ts_call, ts_resp |-> timestamp + 1] :
            c \in {d \in Clients : memo[d] # None}}
    \cup {[ts_call |-> timestamp + 1, ts_resp |-> timestamp + 2]}

TrimHarmless ==
  \A k \in PoolKeys, e \in Pending : Visible(spans[k], e) = Visible(full[k], e)

(***************************************************************************)
(* A check is made only when it is decidable (history.rs:151): neither an  *)
(* update that is still in flight nor one that comes later can change the  *)
(* outcome, which is the one the untrimmed history of all updates gives.   *)
(***************************************************************************)
InFlight(k, c) ==
  memo[c] # None /\ memo[c].call.op \in UpdateOps /\ memo[c].call.key = k

AllUpdates ==
  [k \in PoolKeys |-> [c \in Clients |->
     IF InFlight(k, c) THEN Append(full[k][c], SpanOf(memo[c], 2 * TotalOps + 1))
                       ELSE full[k][c]]]

CheckFinal == \A x \in checked : x.ok <=> CheckCall(AllUpdates, x.entry)

(***************************************************************************)
(* Between two turns of the loop nothing that is due is left in the queue  *)
(* (the while of history.rs:136), so that what remains at the end was      *)
(* answered after the last acknowledged update of some client.             *)
(***************************************************************************)
NothingDueWaits ==
  verdict = "running" => \A i \in DOMAIN queue : queue[i].ts_resp >= MinComing(maxtr)

(***************************************************************************)
(* What the result of a test stands for (main.rs:257).  As long as no      *)
(* check has failed, each response that was harvested is either queued or  *)
(* was checked, once, and passed, so that PASSED says that fewer than      *)
(* RemainThresh responses were left unchecked.  FAILED has a reason: a     *)
(* check that failed, or a client process that stopped by itself.          *)
(***************************************************************************)
VerdictAccounts ==
  /\ verdict # "FAILED" =>
       /\ \A x \in checked : x.ok
       /\ Cardinality(checked) + Len(queue) = waited
  /\ verdict = "PASSED" => Cardinality(checked) + RemainThresh > TotalOps
  /\ verdict = "FAILED" =>
       (\E x \in checked : ~x.ok) \/ (\E c \in Clients : answer[c] = StopResp)

(***************************************************************************)
(* The loop of gen_rand_client (random.rs:40), which draws until it finds  *)
(* a client with or without a call in flight, always has one to find: as   *)
(* long as fuzz_test goes on, there is a call to make or one to wait for.  *)
(* Each turn makes or harvests one of TotalOps calls, so that fuzz_test    *)
(* comes to its end if it is answered.                                     *)
(***************************************************************************)
DrawsEnd == InLoop => \E c \in Clients : MayCall(c) \/ MayWait(c)

(***************************************************************************)
(* What report/proj1.md:70 says of the test with conflicting keys, for the *)
(* Gets that find nothing: one that was accepted can be explained by an    *)
(* ordering of the operations.  A Delete of the key was called before the  *)
(* answer, or no update of the key had been acknowledged before the call.  *)
(***************************************************************************)
AcceptedNullExplained ==
  \A x \in checked :
    (x.ok /\ x.entry.resp.op = "Get" /\ x.entry.resp.value = Nil) =>
      LET updates == UNION {{AllUpdates[x.entry.resp.key][c][n] :
                               n \in 2 .. Len(AllUpdates[x.entry.resp.key][c])} : c \in Clients}
      IN  \/ \E u \in updates : u.value = Nil /\ u.ts_call < x.entry.ts_resp
          \/ \A u \in updates : u.ts_resp >= x.entry.ts_call
=============================================================================
