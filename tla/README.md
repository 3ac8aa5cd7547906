# A verification of MadKV

The repository holds an in-memory key-value store behind a gRPC server, its
command-line client (`kvstore/in_memory_kvstore`, C++), and a test runner in
Rust (`runner`) that drives client processes: a fuzz tester, a YCSB benchmark
and a launcher. This directory models them in TLA+, checks the models with TLC
on small instances and proves theorems about them with TLAPS. All paths below
are relative to `src/` (`FILE:LINE` without a path is a file of the part
under discussion).

## 1. The system

| component | state it keeps | operations | what is hard | what makes it correct |
|---|---|---|---|---|
| store (`in_memory_kvstore.cc`) | `data_`, a `std::map` | Put, Swap, Get, Scan, Delete | no lock of its own; find-then-act on an iterator, a loop over iterators in Scan | iterators never dangle, a Scan is a snapshot |
| server (`server.cc`) | the store, `mu_`, one handler thread per RPC | five handlers; start, crash, restart | handlers of different clients interleave; a crash in the middle of handlers | the service is linearizable; the mutex is always released |
| client (`client.cc`) | at most one RPC | read a command, call, print; STOP, end of input | the RPC has no deadline and is never retried; its reply may be lost after the effect | prints only what the service answered; every call ends |
| fuzz tester (`runner/src/bin/fuzzer`) | timestamp, call memos, History (`queue`, `spans`, `maxtr`) | draw and send a call, wait for a response, record an update, trim, check | responses are harvested in a random order and checked against a trimmed history | no false alarm; nothing is trimmed that a check needs; a check is final; the test ends |
| client handle (`runner/src/proc.rs`) | two channels, a driver thread, two pipes, a child process | `send_call`, `wait_resp`, `stop`, drop | timeouts race with late answers; the child or the thread dies with a call in flight | responses stay matched to calls; no child is left behind |
| workload API (`runner/src/ioapi.rs`) | none (a read buffer) | encode a call, read and parse a response, `update_info` | reserved words (`null`, `SCAN END`), the end of the output | a response parses to what was printed |
| benchmark (`runner/src/bin/bencher`) | a feeder thread and a YCSB process per client, statistics, inserted keys | load phase, run phase, translate, feed, merge, wait | several feeders, one of which fails or times out; keys handed from phase to phase | all clients are stopped; statistics are complete; percentiles are right |
| launcher (`runner/src/bin/service`) | one child process | launch, wait | an empty argument list; `just` stands between it and the process | its result tells what became of the process |
| reference client (`refcli`) | a local map | the client's commands | must answer as the store does, at the ends of a range, too | prints only what the service may print |
| test script (`kvstore/.../tests/run_test.sh`) | the FIFOs and outputs of two clients | five tests, some with concurrent clients | the expected answers must not depend on the interleaving, nor on what an earlier run has left | a correct service never fails it |
| summaries, recipes (`sumgen`, `Justfile`, `justmod`) | - | read logs, draw plots, build and launch | - | - |

How they interact: `fuzzer` and `bencher` own client handles; a handle's driver
thread writes commands to the standard input of a client process and reads its
answers; the client makes blocking gRPC calls; the server runs each in a thread
of its own under `ServiceImpl::mu_` on the one `InMemoryKVStore`. Nothing is
persisted: a server that is restarted is empty.

The hazards these components are exposed to are listed, line by line, in
`PROJECT.json`, each with the properties that cover it or the reason why none
does.

## 2. The modules

### The key-value service

* `KVStore` - what the five operations mean on a map when executed alone
  (`Effect`, `Results`), and the types of calls and answers. A key is the rank
  of its string in dictionary order, so `<=` on strings is `<=` on integers, and
  `Nil` marks an absent key. The list a Scan returns is described (ascending,
  exactly the entries in range), not computed.
* `AtomicKV` - the abstract specification, the promise of the service to its
  clients: a call takes effect atomically between its invocation and its answer,
  at most once, and the answer is that of that instant. A call may be lost, and
  then its client exits; a crash empties the map and loses calls.
* `KVServer` - the code. Its state and the code's:

  | variable | code |
  |---|---|
  | `data` | `InMemoryKVStore::data_` |
  | `mu` | `ServiceImpl::mu_` (who holds it) |
  | `pc`, `it`, `list`, `ret` | a handler thread: its place, the iterator `it` and the vector `result` of the store operation, its result |
  | `req`, `reply` | the request and reply messages of `in_memory_kvstore.proto` |
  | `cli`, `out` | the main loop of `client.cc` and what it printed last |
  | `up` | the server process exists |

  A client makes one blocking RPC at a time, so it has at most one handler,
  named after it. Actions: `Call`, `Receive`, `Stop`, `RpcFail` (client);
  `Dispatch`, `Refuse`, `Drop` (gRPC and the network, external code); `Lock`,
  `Find`, `Put`, `Swap`, `Get`, `Delete`, `ScanBegin`, `ScanNext`, `ScanEnd`,
  `Reply` (the handler and the store operation it calls, one statement per
  action: the `find`, the statement that acts on the iterator, each turn of the
  loop of Scan); `Crash`, `Restart`. A store operation is *not* one atomic
  action: two handlers that did not exclude one another would interleave inside
  it, and the mutant that drops the lock shows that they then do harm.
* `KVRefinement` - the refinement mapping from `KVServer` to `AtomicKV`. The map
  is the abstract store at every instant (each operation changes it in one
  statement), and a call takes effect when its store operation returns, while
  the handler still holds the mutex.

### The fuzz tester

* `Fuzzer` - the loop of `fuzz_test` (`main.rs`), the draw of calls
  (`random.rs`), `History` (`history.rs`) and the verdict. `Call` and `Await` are
  the two outcomes of a draw; `HarvestRead` and `HarvestUpdate` are
  everything the loop does with a response, `add_to_queue` and `apply_update`
  with its trimming and its checks included, in one action, because the loop is
  one thread; `UnexpectedStop`, `RunnerFailure` and `Finish` are the ways out.
  `Execute` is the service under test at the instant the call takes effect:
  `Service = "atomic"` is `AtomicKV`'s promise, without losses, which end the
  fuzz test with an error (`RunnerFailure`); `"swapbug"` is the Swap that
  `report/proj1.md` tells of, which does not insert an absent key;
  `"arbitrary"` answers anything. The composition is by contract: the fuzzer
  relies on what `ServiceIsLinearizable` proves of the server, and on what
  `HandleKeepsItsPromise` proves of its client handles.

  Two history variables serve the properties and guard nothing: `full` is the
  history had nothing been trimmed, `checked` the checks made with their outcome.
  A random value is the timestamp of its call: two calls never write the same
  value, as with the code's random strings. The fuzzer only compares values, and
  different values are the case that distinguishes most. Statistics and progress
  output are left out.

### The client handle

* `ClientProc` - the owner of a handle (as the fuzzer and the benchmark use it:
  no call after an error; the fuzzer then drops the handle, the benchmark's
  feeder stops it), the driver thread, and the client process, with the two
  channels and two pipes between them. The child of the handle is `just`, which
  runs the client (`justmod/proj1.just`) and shares its pipes: `handle` is that
  child, `proc` the client, and a kill reaches the former only. A call is its
  number, a response the number of the call it answers. `Die` is a client that
  could not be launched or that somebody kills. A response that does not parse ends the
  driver (`DriverReadError`). When the pipes are closed and the
  output has been read, the driver goes around `read_next_line` for ever: that is a
  step that changes nothing.
* `CallHandle` - the abstract specification, the promise of a handle to its owner and
  to the service: calls are made one at a time and none after an error; a call is issued
  to the service at most once, perhaps only after its owner has given up; what is
  returned is the answer to the call that is waited for; a stop succeeds only when every
  call has been answered. There are no channels, threads, pipes and processes in it.
* `ClientProcRefinement` - the refinement mapping from `ClientProc` to `CallHandle`. The
  last call is where its number is: made while it is first on the first channel or on the
  standard input of the client, or in the driver's hand between the two; issued while the
  client is in its RPC; answered while it is first on the standard output or on the second
  channel, or in the driver's hand between these; and lost when it is nowhere.

### The workload API

* `WorkloadIO` - the lines between a driver thread (`ioapi.rs`) and a client
  process (`client.cc`), as sequences of words: how a call is written and read
  (`CallLine`, `Command`), how an answer is (`AnswerLines`, `LastLine`,
  `Response`). Nothing is quoted in these lines, so that a value `null` and an entry
  of a scan that reads `SCAN END` are taken for something else; `misled` records
  that an answer held one. The lines of a scan that was cut short stay in the pipe
  for the next response, or end the driver with an error (`Read`); from then on calls may
  wait in the pipe as well, so `stdin` is a sequence. Other clients of
  the service change the store meanwhile (`Other`). `update_info`, the third part of
  the API, is in `Fuzzer`, where it is used.

### The benchmark

* `Bencher` - `main` with its two phases, one feeder thread per client
  (`ycsb.rs`) and the service. `ReadCall`, `ReadOther`, `ReadError` and `ReadEof` are
  what the feeder makes of the next line of its YCSB process, `Answered` and
  `CallFails` the two ends of a call, `Signal` the way out through `client.stop()`;
  `Launch`, `Collect`, `FeederFailed`, `WaitFails` are the main thread. `Execute` is the
  service: it may come after the feeder has given up its wait, since nothing calls a
  request back. `KvCall` and `EndKey` translate a line of YCSB, `% Usize` included,
  where `nth(scnt - 1)` wraps around. `executed` is a history variable.
* `Stats` - the index of the 99th percentile (`main.rs:62`) and what it should be.

### Launcher, reference client, test script

* `Launcher` - `main` of `service`, `ServerProc` of `proc.rs`, and `just` between the
  launcher and the server: which kind of node takes which arguments, and what each
  one learns from the end of the next.
* `RefCli` - the loop of the reference client and its five operations on a map of
  its own, and a refinement mapping to `AtomicKV` with one client: reading a line is
  the invocation, handling it the execution, writing the answer the return. An error of
  its input or output ends it as it ends a client. A panic is none of the ends that
  `AtomicKV` knows. `EndMissing` and `RangePanics` say, in terms of the service, what
  its scans do that the service does not.
* `TestScript` - the five tests as data (the keys reset, what is fed to whom in
  which order, what each command must print), and the script that resets, feeds,
  waits for a line and compares (`Reset`, `Feed`, `LineThere`, ...), with two clients
  and a service that executes each command at one instant. It starts from every map
  that an earlier run of the same test, complete or cut short, may have left.

### Proofs

`KVStoreProofs` (facts about calls, answers and maps, used by the others),
`KVServerProofs` (of `KVServer` and of `KVRefinement`), `ClientProcProofs` (of `ClientProc` and of
`ClientProcRefinement`), `FuzzerProofs`, `WorkloadIOProofs`, `BencherProofs`, `RefCliProofs`,
`LauncherProofs`: section 4.

Mutants (definitions marked so) are the code with a plausible bug; every property of
a passing run below is broken by one.

## 3. The runs

| run | instance | what it shows |
|---|---|---|
| `server` | 2 clients, 3 calls in all, 2 keys, 1 value, 1 crash, fairness | iterators are valid, a Scan is a snapshot, the holder of the mutex always has a next step and comes nearer to the release with each, the service implements `AtomicKV`, and every call ends with an answer or an error |
| `fuzzer_trim` | 2 clients, 1 key, 5 Swaps, Gets and Deletes, a linearizable service | no false alarm; the assertions of `history.rs` hold; trimming loses nothing; a check is made when it is decidable and no later; no response is lost on the way to its check, so that a verdict stands for the checks made; a draw never runs out of clients |
| `fuzzer_scan` | 2 clients, 2 keys, 4 calls out of Put, Delete, Scan | no false alarm from the check of a Scan |
| `fuzzer_faulty` | 2 clients, 1 key, 3 Puts and Gets, a service that answers anything | the outcome of a check, also of one that fails, is that of the whole history; a failed verdict has a failed check as its reason |
| `client_handle` | up to 4 calls, fairness | responses stay matched to calls, the parties run in lockstep, the driver and the client never wait for each other, what is left of a handle that is given up winds down step by step, a client process does not outlive its handle for ever, and the handle implements `CallHandle` |
| `bencher` | 2 clients, 2 keys, 1 value, workload e (inserts and scans), 2 lines per YCSB process and phase, fairness of the main thread | a SCAN covers what was asked for; the run phase starts when the load phase is over and with its keys; results are complete or not printed; the benchmark ends; the percentile is right for 1 to 1000 samples |
| `workload_io` | 2 keys spelled `SCAN` and `STOP`, the values `END`, `null`, `found` | a response is read as it was printed, unless the answer holds `null` or an entry `SCAN END` |
| `test_script` | the five tests, every leftover | no interleaving makes a correct service fail; in tests 4 and 5 one command is under way at a time |
| `launcher` | all nodes, arguments and ends of the process | its result tells the truth; it ends when the process does |
| `fuzzer_swap_bug`, `client_handle_stop` | as `fuzzer_trim` with 4 calls, as `client_handle` | violations: see section 6 |
| `refcli` | Puts, and Scans of ranges in order; 2 keys, 1 value, 3 lines | a violation: see section 6 |

**Bounds.** The server's interesting cases need two handlers and three calls: an
update between the find and the act of another operation, or between two turns
of a Scan's loop, which takes two keys. The third call finds the effect of an
earlier one, and one crash may come at any place of either handler. One value
suffices to tell a key that is present from one that is absent; with the theorems,
which hold for all values, nothing rests on it. A third client adds a third waiter
for the mutex, no new interference inside it.

For the fuzzer, an update is trimmed while a check is still queued only when one
client has acknowledged two updates of a key and the other one has a response
waiting: five calls. A false alarm needs two updates, a read, and an update of
each client to make the check due: four. `fuzzer_faulty` needs one bogus answer
and one update of each client: three; its service multiplies the answers, which
is why it is smaller. `REMAIN_THRESH` is scaled from 1000 to 2, so that a run of
four calls reaches both verdicts, PASSED and UNFAIR. `TotalOps` bounds the
timestamps to twice its value, as in the code, where each call and each wait
takes one. All properties of the fuzzer are also theorems.

In `ClientProc` every call leaves the parties as the first one found them (that is
`Lockstep`), so four are more than enough. In `Bencher` two lines let a feeder
insert a key and scan over it while the other one inserts; `MaxCount` is 2, the
number of keys, so that a scan may ask for none, fewer and as many as there are;
`Usize` is 8, greater than both, which is all that `EndKey` needs of the width of
`usize`. In `RefCli` a Put and a Scan that ends at its key are two lines. `TestScript` and `Launcher` have no bounds: their instances are the
code's own.

**Deadlock** is not checked, but for `workload_io`, where other clients may always go
on: the modelled programs stop. Clients come to the end of their input, the fuzz test
ends with a verdict, a script passes, a handle is given up. That nothing stops too
early is what the liveness properties say, `DrawsEnd` for the loop of the fuzzer, and
`NoFalseFailure` for the waits of the test script.

**Symmetry** is over the two clients of the fuzzer, whose runs check no liveness.

**Fairness.**
* `KVServer`: a handler thread that can run runs, and one that waits for the
  mutex gets it if it stays free (`WF` of `Handler(c)`). `std::mutex` is not
  fair, so nothing stronger is assumed. Weak fairness is enough because the
  number of calls is bounded: the others must come to an end. A client that is
  overtaken for ever by others that never stop is beyond what this run says, and
  beyond what the code guarantees. gRPC hands a request to a running server,
  refuses it when the server is down, and the stub returns when there is a reply,
  or with an error when none can come: the behaviour of gRPC the code relies
  on. Nothing obliges the server to restart or a client to call.
* `ClientProc`: the driver and the process run, an RPC returns (`CallsComplete`
  of `KVServer`), and `recv_timeout` returns. The owner is obliged to nothing.
* `Bencher`: the main thread runs, and its `recv_timeout` returns. Feeders, YCSB
  processes, clients and the service are obliged to nothing, and may hang.
* `Launcher`: the launcher and `just` run. The process may run for ever.
* The fuzzer has none: that its loop never draws in vain is the invariant `DrawsEnd`,
  since each turn that draws a client makes or harvests a call, and there are
  2 * `TotalOps` of these.

## 4. What is proved

For every value of the constants, from `KVAssumption` (at least one key, `Nil`
is not a value) and `ServerAssumption` (`None` is no client, the bounds are
naturals) alone:

* `KVServerProofs!ServiceInvariants`: `TypeOK`, `IteratorValid` and
  `ScanSnapshot` always hold. They are not inductive alone. The inductive
  invariant `IInv` adds `HandlerInv`, for each client: *Protocol*, what client
  and request state go together; *Mutex*, a handler is in its critical section
  exactly if it is the holder in `mu`, from which two handlers are never both
  inside (lemma `Exclusion`); *Place*, which operation may be at which place;
  and *Outcome*, that what an operation returned has the type its request calls
  for. The proof has one lemma per group of actions. The step of each is: a
  handler that writes `data` holds the mutex, so no other handler is at `act` or
  `scan`, and its own iterator is gone with the step (`Put` to `Delete`) or moved
  to the next lower bound (`ScanNext`, with lemmas `InRangeStep` and
  `AppendAscending` on how the snapshot grows by one entry).
* `KVServerProofs!MutexIsReleased`: `HolderCanStep` and `HolderComesNearer`. The handler
  that holds the mutex always has a next step, and `StepsLeft`, the steps to the release,
  at most `NumKeys + 3`, goes down with each of them, the turns of the loop of Scan
  included, while no step of anyone else but a crash touches it. This is what can go
  wrong in the code of the liveness of the service: that a path leaves the mutex locked,
  or a loop does not end. What is left of `CallsComplete` is the scheduling, which
  fairness speaks of. The step that exists is the next lower bound of an iterator
  (`LowerBoundExists`); `Mutex` and `Exclusion` keep the others away.
* `KVServerProofs!ServiceIsLinearizable`: `Spec => Linearizable`. Under the
  mapping of `KVRefinement`, `Put` to `Delete` and `ScanEnd` are `Execute`, for
  which `IteratorValid` makes the iterator agree with the map and `ScanSnapshot`
  makes the collected list the one of `ScanLists`; `Call`, `Receive`, `Stop`,
  `RpcFail` are `Invoke`, `Return`, `Quit`, `Fail`; `Drop` and `Refuse` are `Lose`;
  `Crash` is `Crash` of the calls then inside a handler; the rest is hidden.
* `KVStoreProofs!OneAnswer`: on every map, every call has exactly one answer
  (`Results`). Since the list of a Scan is described and not computed, an unsatisfiable
  description would make the abstract service refuse scans, and an ambiguous one would
  let it choose; neither is the case (`ScanListExists`, `SameScanList`). The list is
  built range by range, with `AppendAscending`, by induction over the end of the range.
  This induction is stated with a set of naturals that has a least element outside
  (`UpTo`), which needs no operator as a parameter.

* `ClientProcProofs!ResponsesMatch`: `RespMatchesCall` and `Lockstep` always hold,
  for every number of calls (`ClientProcAssumption`: the bound is a natural).
  The inductive invariant `OneOutstanding` says where the one unanswered call,
  and the STOP that may follow it after a timeout, can be: on the first channel,
  carried by the driver and the process (`Carried`, by stage), on the second
  channel, or lost with the process; and that once a late response is first in
  line, the response to STOP can no longer be.
* `ClientProcProofs!HandleComesToItsEnd`: `NoMutualWait` and `GivenUpWindsDown`.
  `OneOutstanding` is silent about a handle that is given up, so `PipesInv` adds what
  holds of the pipes then, too: at most one message is on them or with the client, and
  only while the driver waits to read. `StepsToEnd` weighs what each party has still to do
  (a driver about to write also what it gives the client to do); it never exceeds 11, and
  every step after the end of the handle makes it smaller (`SumSmaller`). The turns in
  which the driver of a dead client tries to read again are no steps here (section 6).
* `ClientProcProofs!HandleKeepsItsPromise`: `Spec => HandleContract`. What is to be shown is
  that a call never takes a step back, from the RPC or the way back to the way there,
  also when its owner has long given up and a STOP is behind it. `OneOutstanding` says
  nothing of a handle that is given up, and `PipesInv` counts messages without saying which,
  so `OnceInv` adds that the number of the last call is at one place at most: only at the
  head of a channel, not behind; on the first channel only while the driver waits for
  a call or has ended; on the second channel only when it is neither there nor with
  the driver and the client (lemma `OnePlace`). Then `SendCall` is `Invoke`, the
  client reading the call is `Issue`, its RPC returning is `Answer`, `WaitResp` is
  `Return`, a timeout `GiveUp`, the ends of `stop()` are `StopSucceeds` and `StopFails`,
  and whatever takes the call from its place without moving it on (the death of the client,
  an RPC that fails, a channel whose receiver is gone) is `Lose`.

* `FuzzerProofs`, from `KVAssumption` and `FuzzerAssumption` (finitely many clients
  with non-empty sets of keys, any operations, any number of calls, any threshold, and
  values that are the timestamps of their calls): `LoopComesToItsEnd` (`TypeOK` and
  `DrawsEnd`), `HistoryKeepsOrder`, `TrimmingIsHarmless`, `ChecksAreMadeWhenDue`,
  `ChecksAreFinal`, `ResultsAreFounded` (`VerdictAccounts`), for whatever service, and `FuzzerIsSound` (`NoFalseAlarm`) for a
  linearizable one. One inductive invariant serves them all, built in layers:
  1. `LoopInv`: who has a call in flight, and that `timestamp` counts the calls and
     the waits. From it, the draws never run out of clients.
  2. `ClockInv`: everything that is recorded is ordered by its timestamps: a client's
     updates one after the other, the queue by its responses, and each memo after the
     client's last update.
  3. `TrimInv`: what is left of each list is an end of the full list, and what was
     dropped was acknowledged, like the first span that is left, before the call of
     everything that is still to be checked. Hence trimming changes no check: a span
     before the last one acknowledged before a call is not visible to that call.
  4. `NothingDueWaits` and `CheckInv`: a check that was made had its response before
     the last update of every client, and so no update that is recorded later can be
     visible to it; its outcome is that of the full history.
  5. `WriterInv`: each value in the store is that of some client's last update of the
     key that the service has executed, be it in flight or recorded.
  6. `AnswersExplained`, `QueueExplained`: at the instant the service answers a call
     there is a store, its own, all of whose values are visible to the call in the
     full history, updates in flight included. An update moves from flight to the
     history without ceasing to be visible, because the call is answered before the
     update is acknowledged or after it has begun.
  7. `NoFalseAlarm`: when a response is checked, no update in flight is visible to it
     any more, so what explains it is in the history (by 4), and in what trimming has
     left of it (by 3).
  8. `AccountInv`: the checks made and the responses queued are as many as the responses
     harvested, unless a check has failed. It is the trimming that could break this: the
     responses that an update takes off the queue are checked once each, for no two have
     the same time (`CheckedOnce`, by 2), and none was checked before, for what was
     checked had its response earlier than anything that is queued (`NotCheckedBefore`,
     by 4).

* `BencherProofs!BenchmarkInvariants` (`TypeOK` and `Handover`), for all numbers of
  clients, keys, lines and all workloads, from `BencherAssumption` and
  `NoneAssumption` (`None` is no line and no answer). The invariant ties the keys a feeder keeps to
  the calls it has seen answered: a key of the load phase is in the store unless its
  INSERT is in the feeder's hand, and no feeder that returned its keys has a line in
  hand. `PercentileRight`: `P99Right` for every number of samples, by arithmetic on
  the rounding (`P99IndexRight`).

* `BencherProofs!ScansCover`: `ScanCovers`, which is not inductive alone. `StoredInv`
  adds that a key a feeder knows of is in the store, unless it is the key of an INSERT in
  the feeder's own hand, so that none is missing by the time the feeder scans. That the
  end key `EndKey` picks leaves enough keys in the range is an argument on
  cardinalities (`ScanLongEnough`): a list without repetition that shows all keys of the
  range is at least as long as there are keys (`ScanCounts`). What is inserted
  between the scan and its answer only adds to the store (`StoreGrows`).

* `BencherProofs!ReportIsComplete`: `ReportComplete`. `SampleInv` says that the calls of a
  phase that the service has executed are the sum over the feeders of the samples they
  have and of the answered call in their hand, and that what main has merged is the
  same sum over the feeders it has waited for. The sum is the last of the partial sums
  of a sequence that is said to exist (`Tallied`), one for each word, and each step shows
  the next such sequence: this needs no recursion. A feeder returns without a call in its
  hand, so at the end of a phase the two sums are over the same samples (`AllTallied`).

* `WorkloadIOProofs!ResponsesSayTheAnswer`: `ReadAsAnswered`, for all keys, values and
  spellings, those of the interface included, from `WordAssumption` (two keys are not
  spelled alike, and `None` is no answer). The invariant is that, until the
  driver has been misled, the pipes hold one call, or the lines of the answer to it, or
  nothing. Two round trips make it inductive: the client reads from a line the call that
  was written (`CallReadBack`), and the driver reads from the lines the answer that was
  printed and no line beyond it (`AnswerReadBack`), because the line `SCAN END` that
  ends a list is the first one there (`LastLineFound`).

* `RefCliProofs!ReferenceDivergesOnlyInScans`: `Spec => DivergesOnlyInScans`, for all
  keys, values, numbers of lines and inputs that consist of calls. `DemonstratesInterface`
  does not hold (section 6), and the theorem says how far it is from holding: each step
  of the reference client is a step of `AtomicKV` seen by one client, or `EndMissing`, a
  scan whose end is stored and which lists everything in its range but that end, or
  `RangePanics`, a scan whose start is greater than its end. A scan whose end is not
  stored is the service's (`HalfOpen`). For one whose end is stored, its entry is the last
  of the service's list, and the list without it is the one that the half-open range
  describes (`LastEntryMissing`), there being only one (`SameScanList`). The invariant is
  that the map is one of `Stores` and that a call which is handled was typed.

* `LauncherProofs!LauncherTells`: `ResultTells`, which is about the arguments of the
  node's own kind only (`EndsWell`): what the other kind is given must make no
  difference. The model has no constants, and the theorem says what the run says.

Only model-checked:

* liveness (`CallsComplete`, `ClientExits`, `BenchEnds`, `EndsWithProcess`): it needs
  fairness and ENABLED, which are out of the prover's reach. Of `CallsComplete` and `ClientExits` the part
  that rests on the code, and not on the scheduling, is proved (`MutexIsReleased`,
  `HandleComesToItsEnd`);
* `NoFalseFailure` and `OneAtATime` of the test script. The module has no parameter: its
  tests, commands and expected lines are the data of `run_test.sh`, of which TLC visits
  every interleaving, so that a theorem would say what the run says.

## 5. Abstractions

* Strings: keys are ranks, values are members of a set. The modules but for
  `WorkloadIO` exchange calls and answers as records; there they are lines of words.
  The line that is empty and the one that never comes (`ioapi.rs:84`) are in
  `ClientProc`.
* `grpc`, `std::mutex`, channels, pipes, the process table, `just` and YCSB are
  external: they are modelled by what the code relies on, and marked so in the map.
* Time: a timeout may strike whenever no response is there. The durations and the
  throughput that the benchmark prints are left out; how many samples it has of what
  is not.
* The release build is modelled: an overflow wraps around and does not panic.
* `error.rs` wraps errors and words them; what an error ends is in the module of the
  function that returns it.
* A client process that reads a malformed command exits, one that reads an
  unknown command ignores it; the runner sends neither. `Stop` covers the first.
* The wait of the fuzzer for responses has a timeout of its own; it is
  `RunnerFailure`, which may come at any point, since any step of the loop may
  return an error.
* The fuzzer's error for a response to a key it does not know is unreachable in
  `apply_update`, as the keys come from the pool; for answers it is in `CheckCall`.
* The fuzzer's harvest waits for a client with a response, or draws another one:
  the draw of a client with a call in flight, followed by a blocking wait.
* The modules are composed by contract: `Fuzzer`, `Bencher`, `WorkloadIO` and
  `TestScript` take of the service what `ServiceIsLinearizable` proves, a call that
  takes effect at one instant between its invocation and its answer, and of a
  client handle what `HandleKeepsItsPromise` does: one call at a time, issued once,
  answered as itself.

## 6. Where the code disagrees with what is said of it

By a run:

1. `report/proj1.md:70` says the test with conflicting keys checks that the
   responses of different clients "can be explained by a consistent ordering of
   operations". Each client's history of a key begins with a dummy Delete
   (`history.rs:47`) that stays visible until that client updates the key, so a
   null is accepted although the key was written and never deleted. Run
   `fuzzer_swap_bug`: a client swaps a value in, sees the Swap acknowledged,
   gets null from a service that lost it, and the answer passes. With disjoint
   keys (`Pool <- Disjoint`) and two clients or more it is the same, for the
   dummies of the clients that do not own a key are never replaced.
2. `proc.rs:99` says of `stop()`: "Send stop to the client process (and kill it
   just to be sure)". It returns before the kill when the response to STOP is
   late or is not STOP (run `client_handle_stop`). The process still exits on its
   own when the driver ends or its answer comes (`ClientExits`).
3. `refcli/src/main.rs:1` calls it the "Reference client that demonstrates the stdin/out
   workload interface". Its Scan goes over `start..end` (`refcli/src/main.rs:110`), which
   leaves out an entry at `end`, where `report/proj1.md:24` has "the inclusive range" and
   test 1 expects that entry (`run_test.sh:209`). Run `refcli`: a Put of a key, and a Scan
   from that key to that key that lists nothing. The same line panics when the start is
   greater than the end, where test 2 expects an empty list (`run_test.sh:236` and 258);
   the run stays clear of this case and the theorem `ReferenceDivergesOnlyInScans` has
   both.

Met while modelling, without a run:

4. `read_next_line` (`ioapi.rs:84`) takes the end of the output for an empty
   line and tries again for ever: a driver whose client has died never reports it,
   and its owner learns of it by the timeout. It is the step of `ClientProc` that
   changes nothing.
5. The reference client does the same with the end of its standard input
   (`refcli/src/main.rs:194`): without a STOP it never exits.
6. The feeder takes the end of the output of YCSB for the end of the workload
   (`ycsb.rs:194`), also if YCSB has died: the results of a workload that was cut
   short are printed as complete.
7. The comment in `ycsb.rs:178` has the feeder record the performance report of YCSB;
   these lines are skipped (`ycsb.rs:217`).
8. `service/main.rs:43` reads element 0 of an argument vector that may be empty, and
   panics.

## 7. Not modelled, and what is left

Every part of the system that keeps state or runs concurrently is modelled. Left out
are `sumgen` (reads the logs of finished runs and draws plots), the recipes (command
lines; what they have to do with the runtime, the processes that `just` runs, is in
`ClientProc` and `Launcher`) and `target` (generated).

Every safety property of a passing run is a theorem, but for those of the test script
(section 4). What further work could add:

1. `Fuzzer` and `Bencher` take the service by contract. That the service inside each of
   them (`Execute` and the places of its calls) implements `AtomicKV` would join them
   to `ServiceIsLinearizable` by a theorem and not by reading. `AtomicKV` remembers the
   last call of a client and its answer, which these modules do not keep: this takes
   history variables. The same holds of their calls and `CallHandle`.
2. A measure like `StepsLeft` for the benchmark, with its timeouts: the safety part of
   `BenchEnds`.
