------------------------------ MODULE Bencher -------------------------------
(***************************************************************************)
(* The benchmark (runner/src/bin/bencher): a load and a run phase.  In     *)
(* each, main starts one YCSB process per client with a feeder thread that *)
(* turns the lines it prints into calls of that client, one at a time, and *)
(* then waits for the feeders in order, for a limited time.                *)
(*                                                                         *)
(* The service executes a call at one instant while it is in flight, as    *)
(* AtomicKV promises; a call whose feeder gave up may still be executed.   *)
(* The release build is modelled, in which an overflow wraps around.       *)
(***************************************************************************)
EXTENDS KVStore, Stats, FiniteSets, FiniteSetsExt

CONSTANTS
  NumClis,    \* args.num_clis
  None,       \* no line in hand, no answer
  Workload,   \* the calls of the workload profile: {"INSERT", "SCAN"} is "e"
  MaxLines,   \* bound: lines that a YCSB process prints
  MaxCount,   \* bound: keys that a YCSB SCAN asks for
  Usize       \* how many integers usize has: more than there are keys

ASSUME BencherAssumption ==
  /\ NumClis \in Nat \ {0}
  /\ MaxLines \in Nat
  /\ Workload \subseteq {"INSERT", "UPDATE", "READ", "SCAN"}
  /\ MaxCount \in Nat
  /\ Usize \in Nat /\ Usize > NumKeys /\ Usize > MaxCount

Feeders == 1 .. NumClis
Phases == {"load", "run"}
CallWords == {"INSERT", "UPDATE", "READ", "SCAN"}

\* The lines of YCSB that are calls: a SCAN has a start and a number of keys.
CallLines ==
  [word : {"INSERT", "UPDATE"}, key : Keys, value : Values]
    \cup [word : {"READ"}, key : Keys]
    \cup [word : {"SCAN"}, key : Keys, count : 0 .. MaxCount]

ASSUME NoneAssumption == None \notin CallLines \cup Answers

\* A load phase only inserts.
PhaseLines(p) == {l \in CallLines : l.word \in IF p = "load" THEN {"INSERT"} ELSE Workload}

VARIABLES
  store,      \* the map of the service under test
  main,       \* the main thread: "launching", "waiting", "done" or "error"
  phase,      \* its phase
  next,       \* the feeder that it launches or waits for next
  stats,      \* per phase: Stats::merged and the number of samples of each word
  given,      \* the keys that the feeders of the phase start with
  collected,  \* the keys of the feeders that it has waited for
  pc,         \* per feeder: "off", "feeding", "calling", "stopping" or "returned"
  line,       \* per feeder: the line whose call is in flight
  resp,       \* per feeder: the answer of the service to that call
  ikeys,      \* per feeder: the keys inserted
  samples,    \* per feeder: the number of samples of each word
  ended,      \* per feeder: it has read the end of the output of YCSB
  lines,      \* per feeder: the lines read
  executed    \* history variable: per phase, the calls executed of each word

vars == <<store, main, phase, next, stats, given, collected, pc, line, resp, ikeys,
          samples, ended, lines, executed>>

mainVars == <<main, phase, next, stats, given, collected>>
service == <<store, resp, executed>>

NoSamples == [w \in CallWords |-> 0]

Init ==
  /\ store = Empty
  /\ main = "launching"
  /\ phase = "load"
  /\ next = 1
  /\ stats = [p \in Phases |-> [merged |-> 0, samples |-> NoSamples]]
  /\ given = {}
  /\ collected = {}
  /\ pc = [f \in Feeders |-> "off"]
  /\ line = [f \in Feeders |-> None]
  /\ resp = [f \in Feeders |-> None]
  /\ ikeys = [f \in Feeders |-> {}]
  /\ samples = [f \in Feeders |-> NoSamples]
  /\ ended = [f \in Feeders |-> FALSE]
  /\ lines = [f \in Feeders |-> 0]
  /\ executed = [p \in Phases |-> NoSamples]

----------------------------------------------------------------------------
(***************************************************************************)
(* From a line of YCSB to a call of the client.                            *)
(***************************************************************************)
\* The end of a scan of count keys from start on, counted in the keys that the
\* feeder knows of.  "zzzzzzzz" sorts after the keys of YCSB.
EndKey(keys, start, count) ==
  LET from == {k \in keys : k >= start}
      nth  == {k \in from : Cardinality({j \in from : j < k}) = (count - 1) % Usize}
  IN  IF keys = {} THEN NumKeys ELSE IF nth # {} THEN Max(nth) ELSE Max(keys)

KvCall(l, keys) ==
  CASE l.word = "INSERT" -> [op |-> "Put", key |-> l.key, value |-> l.value]
    [] l.word = "UPDATE" -> [op |-> "Swap", key |-> l.key, value |-> l.value]
    [] l.word = "READ"   -> [op |-> "Get", key |-> l.key]
    [] l.word = "SCAN"   ->
         [op |-> "Scan", start |-> l.key, end |-> EndKey(keys, l.key, l.count)]

----------------------------------------------------------------------------
(***************************************************************************)
(* The feeder threads.  They end with the process when main returns.       *)
(***************************************************************************)
Running == main \in {"launching", "waiting"}

ReadLine(f) ==
  /\ Running
  /\ pc[f] = "feeding"
  /\ lines[f] < MaxLines
  /\ lines' = [lines EXCEPT ![f] = @ + 1]

\* A call line: its call is sent to the client.
ReadCall(f) ==
  /\ ReadLine(f)
  /\ \E l \in PhaseLines(phase) :
       /\ line' = [line EXCEPT ![f] = l]
       /\ ikeys' = [ikeys EXCEPT ![f] = IF l.word = "INSERT" THEN @ \cup {l.key} ELSE @]
  /\ pc' = [pc EXCEPT ![f] = "calling"]
  /\ UNCHANGED <<mainVars, service, samples, ended>>

\* An empty line, a performance report or anything else that is no call.
ReadOther(f) ==
  /\ ReadLine(f)
  /\ UNCHANGED <<mainVars, service, pc, line, ikeys, samples, ended>>

\* A call line that does not parse, or that a file is missing.
ReadError(f) ==
  /\ ReadLine(f)
  /\ pc' = [pc EXCEPT ![f] = "stopping"]
  /\ UNCHANGED <<mainVars, service, line, ikeys, samples, ended>>

\* The output ends when YCSB has completed its workload or has died: the feeder
\* takes both for the end of the workload.
ReadEof(f) ==
  /\ Running
  /\ pc[f] = "feeding"
  /\ ended' = [ended EXCEPT ![f] = TRUE]
  /\ pc' = [pc EXCEPT ![f] = "stopping"]
  /\ UNCHANGED <<mainVars, service, line, ikeys, samples, lines>>

\* wait_resp returns the response; it is recorded whatever it says.
Answered(f) ==
  /\ Running
  /\ pc[f] = "calling"
  /\ resp[f] # None
  /\ samples' = [samples EXCEPT ![f][line[f].word] = @ + 1]
  /\ line' = [line EXCEPT ![f] = None]
  /\ resp' = [resp EXCEPT ![f] = None]
  /\ pc' = [pc EXCEPT ![f] = "feeding"]
  /\ UNCHANGED <<mainVars, store, executed, ikeys, ended, lines>>

\* Mutant: a call that fails is skipped.
CallFailsGoesOn(f) ==
  /\ Running
  /\ pc[f] = "calling"
  /\ pc' = [pc EXCEPT ![f] = "feeding"]
  /\ line' = [line EXCEPT ![f] = None]
  /\ resp' = [resp EXCEPT ![f] = None]
  /\ UNCHANGED <<mainVars, store, executed, ikeys, samples, ended, lines>>

\* The client fails or does not answer within RESP_TIMEOUT.
CallFails(f) ==
  /\ Running
  /\ pc[f] = "calling"
  /\ pc' = [pc EXCEPT ![f] = "stopping"]
  /\ UNCHANGED <<mainVars, service, line, ikeys, samples, ended, lines>>

\* client.stop() has returned, with or without an error.
Signal(f) ==
  /\ Running
  /\ pc[f] = "stopping"
  /\ pc' = [pc EXCEPT ![f] = "returned"]
  /\ UNCHANGED <<mainVars, service, line, ikeys, samples, ended, lines>>

\* The service executes the call, also when nobody waits for it any more.
Execute(f) ==
  /\ line[f] # None
  /\ resp[f] = None
  /\ LET call == KvCall(line[f], ikeys[f])
     IN  /\ store' = Effect(store, call)
         /\ \E r \in Results(store, call) : resp' = [resp EXCEPT ![f] = r]
  /\ executed' = [executed EXCEPT ![phase][line[f].word] = @ + 1]
  /\ UNCHANGED <<mainVars, pc, line, ikeys, samples, ended, lines>>

Feeder(f) ==
  \/ ReadCall(f)
  \/ ReadOther(f)
  \/ ReadError(f)
  \/ ReadEof(f)
  \/ Answered(f)
  \/ CallFails(f)
  \/ Signal(f)

----------------------------------------------------------------------------
(***************************************************************************)
(* The main thread.                                                        *)
(***************************************************************************)
\* Mutant: one driver too many is launched.
LaunchOneMore ==
  /\ main = "launching"
  /\ pc' = [pc EXCEPT ![next] = "feeding"]
  /\ IF next <= NumClis
       THEN next' = next + 1 /\ UNCHANGED main
       ELSE next' = 1 /\ main' = "waiting"
  /\ UNCHANGED <<phase, stats, given, collected, line, ikeys, samples, ended, lines,
                 service>>

Launch ==
  /\ main = "launching"
  /\ pc' = [pc EXCEPT ![next] = "feeding"]
  /\ ikeys' = [ikeys EXCEPT ![next] = given]
  /\ samples' = [samples EXCEPT ![next] = NoSamples]
  /\ ended' = [ended EXCEPT ![next] = FALSE]
  /\ lines' = [lines EXCEPT ![next] = 0]
  /\ IF next < NumClis
       THEN next' = next + 1 /\ UNCHANGED main
       ELSE next' = 1 /\ main' = "waiting"
  /\ UNCHANGED <<phase, stats, given, collected, line, service>>

Fails ==
  /\ main' = "error"
  /\ UNCHANGED <<phase, next, stats, given, collected, pc, line, ikeys, samples, ended,
                 lines, service>>

\* A client or a YCSB process cannot be spawned.
LaunchFails == main = "launching" /\ Fails

\* Stats::merge, of the stats of one feeder.
Merge(s, other) ==
  [merged  |-> s.merged + 1,
   samples |-> [w \in CallWords |-> s.samples[w] + other[w]]]

\* The run phase starts with the keys that the load phase has collected.
PhaseOver ==
  /\ next' = 1
  /\ phase' = "run"
  /\ given' = collected'
  /\ main' = IF phase = "load" THEN "launching" ELSE "done"

\* Mutant: the keys of the feeder waited for last replace those of the others.
CollectLast ==
  /\ main = "waiting"
  /\ pc[next] = "returned"
  /\ ended[next]
  /\ stats' = [stats EXCEPT ![phase] = Merge(@, samples[next])]
  /\ collected' = ikeys[next]
  /\ IF next < NumClis
       THEN next' = next + 1 /\ UNCHANGED <<main, phase, given>>
       ELSE PhaseOver
  /\ UNCHANGED <<pc, line, ikeys, samples, ended, lines, service>>

\* The feeder has returned its stats and keys.
Collect ==
  /\ main = "waiting"
  /\ pc[next] = "returned"
  /\ ended[next]
  /\ stats' = [stats EXCEPT ![phase] = Merge(@, samples[next])]
  /\ collected' = collected \cup ikeys[next]
  /\ IF next < NumClis
       THEN next' = next + 1 /\ UNCHANGED <<main, phase, given>>
       ELSE PhaseOver
  /\ UNCHANGED <<pc, line, ikeys, samples, ended, lines, service>>

\* Mutant: a feeder that failed is passed over.
FeederFailedPassed ==
  /\ main = "waiting"
  /\ pc[next] = "returned"
  /\ ~ended[next]
  /\ UNCHANGED <<stats, collected, pc, line, ikeys, samples, ended, lines, service>>
  /\ IF next < NumClis
       THEN next' = next + 1 /\ UNCHANGED <<main, phase, given>>
       ELSE PhaseOver

\* The feeder has returned None.
FeederFailed == main = "waiting" /\ pc[next] = "returned" /\ ~ended[next] /\ Fails

\* Mutant: the wait has no limit.
WaitForever == FALSE /\ Fails

\* YCSB_TIMEOUT is over.
WaitFails == main = "waiting" /\ pc[next] # "returned" /\ Fails

Main == Launch \/ LaunchFails \/ Collect \/ FeederFailed \/ WaitFails

Next == Main \/ \E f \in Feeders : Feeder(f) \/ Execute(f)

Spec == Init /\ [][Next]_vars

(***************************************************************************)
(* Fairness: the main thread runs on, and recv_timeout returns.  Neither   *)
(* YCSB, nor the clients, nor the service need do anything.                *)
(***************************************************************************)
FairSpec == Spec /\ WF_vars(Main)

----------------------------------------------------------------------------
(***************************************************************************)
(* Every variable has its type: in particular a feeder in a call has its   *)
(* line in hand.                                                           *)
(***************************************************************************)
TypeOK ==
  /\ store \in Stores
  /\ main \in {"launching", "waiting", "done", "error"}
  /\ phase \in Phases
  /\ next \in Feeders
  /\ stats \in [Phases -> [merged : Nat, samples : [CallWords -> Nat]]]
  /\ given \subseteq Keys
  /\ collected \subseteq Keys
  /\ pc \in [Feeders -> {"off", "feeding", "calling", "stopping", "returned"}]
  /\ line \in [Feeders -> CallLines \cup {None}]
  /\ resp \in [Feeders -> Answers \cup {None}]
  /\ ikeys \in [Feeders -> SUBSET Keys]
  /\ samples \in [Feeders -> [CallWords -> Nat]]
  /\ ended \in [Feeders -> BOOLEAN]
  /\ lines \in [Feeders -> 0 .. MaxLines]
  /\ executed \in [Phases -> [CallWords -> Nat]]
  /\ \A f \in Feeders : pc[f] = "calling" => line[f] # None

(***************************************************************************)
(* A scan finds the keys that YCSB asked for (ycsb.rs:160): at least as    *)
(* many as the SCAN line counts, or all from its start on, of those that   *)
(* the feeder has been given by the load phase or has inserted itself.     *)
(* What others insert meanwhile only adds to them.                         *)
(***************************************************************************)
Wanted(f) ==
  Min({line[f].count, Cardinality({k \in ikeys[f] : k >= line[f].key})})

ScanCovers ==
  \A f \in Feeders :
    pc[f] = "calling" /\ line[f].word = "SCAN" /\ resp[f] # None =>
      Len(resp[f].entries) >= Wanted(f)

(***************************************************************************)
(* When the run phase starts, the load phase is over (main.rs:143 and      *)
(* 215): none of its calls is still in flight and might be executed later, *)
(* and its feeders hand over exactly the keys that are in the store.       *)
(***************************************************************************)
Handover ==
  phase = "run" /\ main = "launching" /\ next = 1 =>
    /\ \A f \in Feeders : line[f] = None
    /\ given = {k \in Keys : store[k] # Nil}

(***************************************************************************)
(* The results are printed only when they are complete: those of all       *)
(* clients, with one sample for each call that the service has executed in *)
(* the phase, whatever the feeders, the clients and YCSB do.               *)
(***************************************************************************)
ReportComplete ==
  main = "done" =>
    \A p \in Phases : stats[p] = [merged |-> NumClis, samples |-> executed[p]]

(***************************************************************************)
(* The results that are printed show the right 99th percentile             *)
(* (bencher/main.rs:62 and 63), however many samples there are.            *)
(***************************************************************************)
P99Right == main = "done" => IndexRight

(***************************************************************************)
(* The benchmark ends, also when YCSB, a client or the service hangs.      *)
(***************************************************************************)
BenchEnds == <>(main \in {"done", "error"})
=============================================================================
