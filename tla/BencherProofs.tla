--------------------------- MODULE BencherProofs ----------------------------
(***************************************************************************)
(* Proofs that the benchmark keeps its types, hands the keys of the load   *)
(* phase over to the run phase, scans as many keys as it is asked to, and  *)
(* prints complete results with the right 99th percentile, for any number  *)
(* of clients, keys, lines and samples.                                    *)
(***************************************************************************)
EXTENDS Bencher, KVStoreProofs, FiniteSetTheorems

(***************************************************************************)
(* The inductive invariant.  FeederInv says what a feeder's place implies  *)
(* for its call, MainInv which feeders have returned, and LoadInv, of the  *)
(* load phase, that a key is stored exactly when a feeder has it and its   *)
(* INSERT is not still to be executed.                                     *)
(***************************************************************************)
FeederInv(f) ==
  /\ pc[f] \in {"off", "feeding"} \/ ended[f] => line[f] = None
  /\ pc[f] \in {"off", "feeding", "calling"} => ~ended[f]
  /\ line[f] = None => resp[f] = None
  /\ pc[f] = "off" => ikeys[f] = {}

\* The feeder f is not needed any more, or not yet.
Idle(f) == pc[f] = "off" \/ (pc[f] = "returned" /\ ended[f])

MainInv ==
  /\ main = "launching" =>
       \A f \in next .. NumClis : Idle(f) /\ (phase = "load" => pc[f] = "off")
  /\ main = "waiting" => \A f \in 1 .. next - 1 : pc[f] = "returned" /\ ended[f]

Inserting(f, k) == line[f] # None /\ resp[f] = None /\ line[f].key = k

KeysOf(n) == UNION {ikeys[f] : f \in 1 .. n}

LoadInv ==
  phase = "load" =>
    /\ given = {}
    /\ \A f \in Feeders :
         line[f] # None => line[f].word = "INSERT" /\ line[f].key \in ikeys[f]
    /\ \A f \in Feeders : \A k \in ikeys[f] : store[k] # Nil \/ Inserting(f, k)
    /\ \A k \in Keys : store[k] # Nil => \E f \in Feeders : k \in ikeys[f]
    /\ main = "launching" => collected = {}
    /\ main = "waiting" => collected = KeysOf(next - 1)

IInv == TypeOK /\ (\A f \in Feeders : FeederInv(f)) /\ MainInv /\ LoadInv /\ Handover

----------------------------------------------------------------------------
(***************************************************************************)
(* Facts about calls, answers and keys.                                    *)
(***************************************************************************)

\* A non-empty set of keys has a greatest one.
LEMMA MaxOfKeys ==
  ASSUME NEW S \in SUBSET Keys, S # {}
  PROVE  Max(S) \in S /\ Max(S) \in Keys /\ \A k \in S : k <= Max(S)
<1>1. NumKeys \in Nat /\ S \in SUBSET (0 .. NumKeys)
  BY KVAssumption DEF Keys
<1>2. PICK x \in S : \A y \in S : y <= x
  BY <1>1, GreatestExists
<1>3. \A y \in S : x >= y
  BY <1>1, <1>2
<1>4. Max(S) \in S /\ \A y \in S : Max(S) >= y
  BY <1>3 DEF Max
<1> QED
  BY <1>1, <1>4

\* A scan ends at a key.
LEMMA EndKeyType ==
  ASSUME NEW keys \in SUBSET Keys, NEW start, NEW count
  PROVE  EndKey(keys, start, count) \in Keys
<1> DEFINE from == {k \in keys : k >= start}
           nth  == {k \in from : Cardinality({j \in from : j < k}) = (count - 1) % Usize}
<1>1. nth \in SUBSET Keys
  <2>1. from \in SUBSET Keys
    OBVIOUS
  <2> QED
    BY <2>1
<1>4. NumKeys \in Keys
  BY KVAssumption DEF Keys
<1>2. nth # {} => Max(nth) \in Keys
  <2> HIDE DEF nth
  <2> QED
    BY <1>1, MaxOfKeys
<1>3. keys # {} => Max(keys) \in Keys
  BY MaxOfKeys
<1> QED
  BY <1>2, <1>3, <1>4 DEF EndKey

\* A line becomes a call of the interface.
LEMMA KvCallType ==
  ASSUME NEW l \in CallLines, NEW keys \in SUBSET Keys
  PROVE  KvCall(l, keys) \in Calls
<1>1. CASE l.word \in {"INSERT", "UPDATE"}
  BY <1>1 DEF KvCall, CallLines, Calls
<1>2. CASE l.word = "READ"
  BY <1>2 DEF KvCall, CallLines, Calls
<1>3. CASE l.word = "SCAN"
  <2>1. EndKey(keys, l.key, l.count) \in Keys /\ l.key \in Keys
    BY EndKeyType DEF CallLines
  <2> QED
    BY <1>3, <2>1 DEF KvCall, Calls
<1> QED
  BY <1>1, <1>2, <1>3 DEF CallLines

\* The lines of a phase are call lines, those of the load phase INSERTs.
LEMMA PhaseLinesType ==
  ASSUME NEW p \in Phases, NEW l \in PhaseLines(p)
  PROVE  /\ l \in CallLines
         /\ l.word \in CallWords
         /\ p = "load" => l.word = "INSERT"
BY DEF PhaseLines, CallLines, CallWords


----------------------------------------------------------------------------
\* The initial state satisfies the inductive invariant.
LEMMA InitIInv == Init => IInv
<1> SUFFICES ASSUME Init PROVE IInv
  OBVIOUS
<1>1. TypeOK
  BY KVAssumption, BencherAssumption
  DEF Init, TypeOK, Stores, Empty, Phases, Feeders, NoSamples
<1>2. \A f \in Feeders : FeederInv(f)
  BY DEF Init, FeederInv
<1>3. MainInv /\ LoadInv /\ Handover
  BY DEF Init, MainInv, Idle, Feeders, LoadInv, Empty, Handover
<1> QED
  BY <1>1, <1>2, <1>3 DEF IInv

\* A feeder that acts is not idle: it does not disturb what main knows.
LEMMA FeederMainInv ==
  ASSUME IInv, NEW f \in Feeders,
         pc[f] \in {"feeding", "calling", "stopping"},
         UNCHANGED mainVars,
         \A g \in Feeders : g # f => pc'[g] = pc[g] /\ ended'[g] = ended[g]
  PROVE  /\ MainInv'
         /\ main = "launching" => f < next
         /\ main = "waiting" => f >= next
<1> USE DEF IInv
<1>1. main = "launching" => f < next
  <2> SUFFICES ASSUME main = "launching", f >= next PROVE FALSE
    BY DEF TypeOK, Feeders
  <2>1. f \in next .. NumClis
    BY BencherAssumption DEF TypeOK, Feeders
  <2> QED
    BY <2>1 DEF MainInv, Idle
<1>2. main = "waiting" => f >= next
  BY DEF MainInv, TypeOK, Feeders
<1>3. next' = next /\ main' = main /\ phase' = phase /\ next \in Nat
  BY DEF mainVars, TypeOK, Feeders
<1>4. main = "launching" =>
        \A g \in next .. NumClis : g \in Feeders /\ pc'[g] = pc[g] /\ ended'[g] = ended[g]
  BY <1>1, <1>3, BencherAssumption DEF TypeOK, Feeders
<1>5. main = "waiting" =>
        \A g \in 1 .. next - 1 : g \in Feeders /\ pc'[g] = pc[g] /\ ended'[g] = ended[g]
  BY <1>2, <1>3, BencherAssumption DEF TypeOK, Feeders
<1>6. MainInv'
  BY <1>3, <1>4, <1>5 DEF MainInv, Idle
<1> QED
  BY <1>1, <1>2, <1>6

\* A call line is read.
LEMMA ReadCallIInv ==
  ASSUME IInv, NEW f \in Feeders, ReadCall(f)
  PROVE  IInv'
<1> USE DEF IInv, ReadCall, ReadLine, mainVars, service
<1>1. PICK l \in PhaseLines(phase) :
        /\ line' = [line EXCEPT ![f] = l]
        /\ ikeys' = [ikeys EXCEPT ![f] = IF l.word = "INSERT" THEN @ \cup {l.key} ELSE @]
  OBVIOUS
<1>2. /\ l \in CallLines /\ l # None /\ l.key \in Keys
      /\ phase = "load" => l.word = "INSERT"
  BY PhaseLinesType, NoneAssumption DEF TypeOK, CallLines
<1>3. TypeOK'
  BY <1>1, <1>2, BencherAssumption DEF TypeOK
<1>4. \A g \in Feeders : FeederInv(g)'
  BY <1>1, <1>2 DEF TypeOK, FeederInv
<1>5. MainInv' /\ (main = "launching" => f < next) /\ (main = "waiting" => f >= next)
  BY FeederMainInv DEF TypeOK
<1>6. LoadInv'
  <2> SUFFICES ASSUME phase = "load" PROVE LoadInv'
    BY DEF LoadInv
  <2>1. \A g \in Feeders : g # f => ikeys'[g] = ikeys[g] /\ line'[g] = line[g]
    BY <1>1 DEF TypeOK
  <2>2. line'[f] = l /\ ikeys'[f] = ikeys[f] \cup {l.key} /\ line[f] = None /\ resp[f] = None
    BY <1>1, <1>2 DEF TypeOK, FeederInv
  <2>3. \A g \in Feeders : line'[g] # None => line'[g].word = "INSERT" /\ line'[g].key \in ikeys'[g]
    BY <1>2, <2>1, <2>2 DEF LoadInv
  <2>4. \A g \in Feeders : \A k \in ikeys'[g] : store[k] # Nil \/ Inserting(g, k)'
    BY <1>2, <2>1, <2>2 DEF LoadInv, Inserting
  <2>5. \A k \in Keys : store[k] # Nil => \E g \in Feeders : k \in ikeys'[g]
    BY <2>1, <2>2 DEF LoadInv
  <2>6. main = "waiting" => KeysOf(next - 1)' = KeysOf(next - 1)
    BY <1>5, <2>1 DEF TypeOK, Feeders, KeysOf
  <2> QED
    BY <2>3, <2>4, <2>5, <2>6 DEF LoadInv
<1>7. Handover'
  BY <1>5 DEF Handover, TypeOK, Feeders
<1> QED
  BY <1>3, <1>4, <1>5, <1>6, <1>7

\* The other steps of a feeder, none of which inserts a key.
LEMMA FeederIInv ==
  ASSUME IInv, NEW f \in Feeders,
         \/ ReadOther(f) \/ ReadError(f) \/ ReadEof(f)
         \/ Answered(f) \/ CallFails(f) \/ Signal(f)
  PROVE  IInv'
<1> USE DEF IInv, mainVars, service
<1>1. TypeOK'
  <2>1. CASE ReadOther(f) \/ ReadError(f)
    <3>1. lines' \in [Feeders -> 0 .. MaxLines]
      <4>1. ReadLine(f)
        BY <2>1 DEF ReadOther, ReadError
      <4>2. lines[f] \in 0 .. MaxLines /\ lines[f] < MaxLines
        BY <4>1 DEF ReadLine, TypeOK
      <4>3. lines[f] + 1 \in 0 .. MaxLines
        BY <4>2, BencherAssumption
      <4> QED
        BY <4>1, <4>3 DEF ReadLine, TypeOK
    <3>2. UNCHANGED <<mainVars, service, line, ikeys, samples, ended>>
      BY <2>1 DEF ReadOther, ReadError
    <3>3. /\ pc' \in [Feeders -> {"off", "feeding", "calling", "stopping", "returned"}]
          /\ \A g \in Feeders : pc'[g] = "calling" => pc[g] = "calling"
      BY <2>1 DEF TypeOK, ReadOther, ReadError
    <3> QED
      BY <3>1, <3>2, <3>3 DEF TypeOK
  <2>2. CASE ReadEof(f) \/ CallFails(f) \/ Signal(f)
    BY <2>2 DEF TypeOK, ReadEof, CallFails, Signal
  <2>3. CASE Answered(f)
    <3>1. line[f] \in CallLines
      BY <2>3, NoneAssumption DEF TypeOK, Answered
    <3>2. line[f].word \in CallWords
      BY <3>1 DEF CallLines, CallWords
    <3>3. samples' \in [Feeders -> [CallWords -> Nat]]
      BY <2>3, <3>2 DEF TypeOK, Answered
    <3> QED
      BY <2>3, <3>3 DEF TypeOK, Answered
  <2> QED
    BY <2>1, <2>2, <2>3
<1>2. \A g \in Feeders : FeederInv(g)'
  BY DEF TypeOK, FeederInv, ReadOther, ReadError, ReadLine, ReadEof, Answered, CallFails, Signal
<1>3. MainInv' /\ (main = "launching" => f < next)
  BY FeederMainInv
  DEF TypeOK, ReadOther, ReadError, ReadLine, ReadEof, Answered, CallFails, Signal
<1>4. UNCHANGED <<mainVars, store, ikeys>>
  BY DEF ReadOther, ReadError, ReadLine, ReadEof, Answered, CallFails, Signal
<1>5. /\ \A g \in Feeders : line'[g] # None => line'[g] = line[g]
      /\ phase = "load" => \A g \in Feeders : \A k \in ikeys[g] :
                              store[k] # Nil \/ Inserting(g, k)'
  <2>1. CASE Answered(f)
    BY <2>1 DEF Answered, LoadInv, TypeOK, Inserting
  <2>2. CASE ~Answered(f)
    BY <2>2 DEF LoadInv, Inserting, ReadOther, ReadError, ReadLine, ReadEof, CallFails, Signal
  <2> QED
    BY <2>1, <2>2
<1>6. LoadInv'
  <2>1. KeysOf(next - 1)' = KeysOf(next - 1)
    BY <1>4 DEF KeysOf
  <2> QED
    BY <1>4, <1>5, <2>1 DEF LoadInv
<1>7. Handover'
  BY <1>3, <1>4 DEF Handover, TypeOK, Feeders
<1> QED
  BY <1>1, <1>2, <1>3, <1>6, <1>7

\* The service executes a call: a key is stored whose INSERT has been read.
LEMMA ExecuteIInv ==
  ASSUME IInv, NEW f \in Feeders, Execute(f)
  PROVE  IInv'
<1> USE DEF IInv, mainVars
<1> DEFINE k == KvCall(line[f], ikeys[f])
<1>1. line[f] \in CallLines /\ line[f].word \in CallWords /\ ikeys[f] \in SUBSET Keys
  BY DEF Execute, TypeOK, CallLines, CallWords
<1>2. k \in Calls
  BY <1>1, KvCallType
<1>3. /\ store' = Effect(store, k)
      /\ \E r \in Results(store, k) : resp' = [resp EXCEPT ![f] = r]
  BY DEF Execute
<1>4. UNCHANGED <<mainVars, pc, line, ikeys, samples, ended, lines>>
  BY DEF Execute
<1>5. TypeOK'
  <2>1. store' \in Stores /\ resp' \in [Feeders -> Answers \cup {None}]
    <3> HIDE DEF k
    <3> QED
      BY <1>2, <1>3, InterfaceTypes DEF TypeOK
  <2>2. executed' \in [Phases -> [CallWords -> Nat]]
    BY <1>1 DEF Execute, TypeOK
  <2> QED
    BY <1>4, <2>1, <2>2 DEF TypeOK
<1>6. \A g \in Feeders : g # f => resp'[g] = resp[g]
  BY <1>3 DEF TypeOK
<1>7. \A g \in Feeders : FeederInv(g)'
  BY <1>4, <1>6 DEF Execute, FeederInv
<1>8. MainInv'
  BY <1>4 DEF MainInv, Idle
<1>9. LoadInv'
  <2> SUFFICES ASSUME phase = "load" PROVE LoadInv'
    BY <1>4 DEF LoadInv
  <2>1. line[f].word = "INSERT" /\ line[f].key \in ikeys[f] /\ line[f].key \in Keys
    BY <1>1 DEF Execute, LoadInv
  <2>2. line[f].value \in Values /\ line[f].value # Nil
    BY <1>1, <2>1, KVAssumption DEF CallLines
  <2>3. store' = [store EXCEPT ![line[f].key] = line[f].value]
    BY <1>3, <2>1 DEF KvCall, Effect
  <2>4. \A j \in Keys : store'[j] # Nil <=> store[j] # Nil \/ j = line[f].key
    BY <2>1, <2>2, <2>3 DEF TypeOK, Stores
  <2>5. \A g \in Feeders : \A j \in ikeys[g] : store'[j] # Nil \/ Inserting(g, j)'
    <3> SUFFICES ASSUME NEW g \in Feeders, NEW j \in ikeys[g], ~(store'[j] # Nil)
                 PROVE  Inserting(g, j)'
      OBVIOUS
    <3>1. j \in Keys
      BY DEF TypeOK
    <3>2. Inserting(g, j) /\ j # line[f].key
      BY <2>4, <3>1 DEF LoadInv
    <3> QED
      BY <1>4, <1>6, <3>2 DEF Inserting
  <2>6. \A j \in Keys : store'[j] # Nil => \E g \in Feeders : j \in ikeys[g]
    BY <2>1, <2>4 DEF LoadInv
  <2>7. KeysOf(next - 1)' = KeysOf(next - 1)
    BY <1>4 DEF KeysOf
  <2> QED
    BY <1>4, <2>5, <2>6, <2>7 DEF LoadInv
<1>10. Handover'
  BY <1>4 DEF Handover, Execute
<1> QED
  BY <1>5, <1>7, <1>8, <1>9, <1>10

\* Main launches a driver for a feeder that is idle.
LEMMA LaunchIInv ==
  ASSUME IInv, Launch
  PROVE  IInv'
<1> USE DEF IInv, service
<1>1. next \in Feeders /\ next \in next .. NumClis /\ next \in Nat
  BY BencherAssumption DEF TypeOK, Feeders
<1>2. Idle(next) /\ (phase = "load" => pc[next] = "off")
  BY <1>1 DEF Launch, MainInv
<1>3. line[next] = None /\ resp[next] = None /\ (pc[next] = "off" => ikeys[next] = {})
  BY <1>1, <1>2 DEF FeederInv, Idle
<1>4. UNCHANGED <<phase, stats, given, collected, line, store, resp, executed>>
  BY DEF Launch
<1>5. \/ next < NumClis /\ next' = next + 1 /\ main' = "launching"
      \/ next' = 1 /\ main' = "waiting"
  BY DEF Launch
<1>6. \A f \in Feeders : f # next => /\ pc'[f] = pc[f] /\ ended'[f] = ended[f]
                                     /\ ikeys'[f] = ikeys[f]
  BY DEF Launch, TypeOK
<1>7. pc'[next] = "feeding" /\ ~ended'[next] /\ ikeys'[next] = given
  BY <1>1 DEF Launch, TypeOK
<1>8. TypeOK'
  <2>1. next' \in Feeders /\ main' \in {"launching", "waiting", "done", "error"}
    BY <1>1, <1>5, BencherAssumption DEF Feeders
  <2>2. /\ pc' \in [Feeders -> {"off", "feeding", "calling", "stopping", "returned"}]
        /\ ikeys' \in [Feeders -> SUBSET Keys]
        /\ samples' \in [Feeders -> [CallWords -> Nat]]
        /\ ended' \in [Feeders -> BOOLEAN]
        /\ lines' \in [Feeders -> 0 .. MaxLines]
    BY BencherAssumption DEF Launch, TypeOK, NoSamples
  <2>3. \A f \in Feeders : pc'[f] = "calling" => line[f] # None
    BY <1>6, <1>7 DEF TypeOK
  <2> QED
    BY <1>4, <2>1, <2>2, <2>3 DEF TypeOK
<1>9. \A f \in Feeders : FeederInv(f)'
  <2> TAKE f \in Feeders
  <2>1. CASE f = next
    BY <1>3, <1>4, <1>7, <2>1 DEF FeederInv
  <2>2. CASE f # next
    BY <1>4, <1>6, <2>2 DEF FeederInv
  <2> QED
    BY <2>1, <2>2
<1>10. MainInv'
  <2>1. CASE next < NumClis /\ next' = next + 1 /\ main' = "launching"
    <3>1. \A f \in next' .. NumClis : f \in next .. NumClis /\ f \in Feeders /\ f # next
      BY <1>1, <2>1, BencherAssumption DEF Feeders
    <3> QED
      BY <1>4, <1>6, <2>1, <3>1 DEF MainInv, Idle, Launch
  <2>2. CASE next' = 1 /\ main' = "waiting"
    BY <2>2 DEF MainInv
  <2> QED
    BY <1>5, <2>1, <2>2
<1>11. LoadInv'
  <2> SUFFICES ASSUME phase = "load" PROVE LoadInv'
    BY <1>4 DEF LoadInv
  <2>1. \A f \in Feeders : ikeys'[f] = ikeys[f]
    BY <1>2, <1>3, <1>6, <1>7 DEF LoadInv
  <2>2. main' = "waiting" => collected = {} /\ KeysOf(next - 1)' = {}
    BY <1>5 DEF LoadInv, Launch, KeysOf
  <2>3. main' = "launching" => collected = {}
    BY DEF LoadInv, Launch
  <2>4. /\ given = {}
        /\ \A f \in Feeders :
             line[f] # None => line[f].word = "INSERT" /\ line[f].key \in ikeys'[f]
        /\ \A f \in Feeders : \A k \in ikeys'[f] : store[k] # Nil \/ Inserting(f, k)
        /\ \A k \in Keys : store[k] # Nil => \E f \in Feeders : k \in ikeys'[f]
    BY <2>1 DEF LoadInv
  <2> QED
    BY <1>4, <2>2, <2>3, <2>4 DEF LoadInv, Inserting
<1>12. Handover'
  BY <1>1, <1>5 DEF Handover, Feeders
<1> QED
  BY <1>8, <1>9, <1>10, <1>11, <1>12

\* Main fails: it learns nothing more.
LEMMA FailsIInv ==
  ASSUME IInv, LaunchFails \/ FeederFailed \/ WaitFails
  PROVE  IInv'
<1> USE DEF IInv, service
<1>1. Fails
  BY DEF LaunchFails, FeederFailed, WaitFails
<1> QED
  <2>1. TypeOK' /\ \A f \in Feeders : FeederInv(f)'
    BY <1>1 DEF Fails, TypeOK, FeederInv
  <2>2. MainInv' /\ Handover'
    BY <1>1 DEF Fails, MainInv, Handover
  <2>3. LoadInv'
    BY <1>1 DEF Fails, LoadInv, Inserting, KeysOf
  <2> QED
    BY <2>1, <2>2, <2>3

\* Main collects what a feeder has returned, that of the last one included.
LEMMA CollectIInv ==
  ASSUME IInv, Collect
  PROVE  IInv'
<1> USE DEF IInv, service
<1>1. next \in Feeders /\ next \in Nat
  BY DEF TypeOK, Feeders
<1>2. UNCHANGED <<pc, line, ikeys, samples, ended, lines, store, resp, executed>>
  BY DEF Collect
<1>3. \/ next < NumClis /\ next' = next + 1 /\ main' = main /\ phase' = phase /\ given' = given
      \/ next = NumClis /\ PhaseOver
  BY <1>1, BencherAssumption DEF Collect, Feeders
<1>4. main = "waiting" /\ collected' = collected \cup ikeys[next]
  BY DEF Collect
<1>5. \A f \in 1 .. next : pc[f] = "returned" /\ ended[f]
  BY <1>1 DEF Collect, MainInv
<1>6. phase = "load" => collected' = KeysOf(next)
  <2>1. 1 .. next = (1 .. next - 1) \cup {next}
    BY <1>1 DEF Feeders
  <2> QED
    BY <1>4, <2>1 DEF LoadInv, KeysOf
<1>7. stats' \in [Phases -> [merged : Nat, samples : [CallWords -> Nat]]]
  <2>1. Merge(stats[phase], samples[next]) \in [merged : Nat, samples : [CallWords -> Nat]]
    BY <1>1 DEF Merge, TypeOK
  <2> QED
    BY <2>1 DEF Collect, TypeOK
<1>8. TypeOK'
  <2>1. collected' \subseteq Keys
    BY <1>1, <1>4 DEF TypeOK
  <2>2. /\ next' \in Feeders /\ phase' \in Phases /\ given' \subseteq Keys
        /\ main' \in {"launching", "waiting", "done", "error"}
    BY <1>1, <1>3, <2>1, BencherAssumption DEF TypeOK, PhaseOver, Phases, Feeders
  <2> QED
    BY <1>2, <1>7, <2>1, <2>2 DEF TypeOK
<1>9. \A f \in Feeders : FeederInv(f)'
  BY <1>2 DEF FeederInv
<1>10. MainInv'
  <2>1. CASE next < NumClis /\ next' = next + 1 /\ main' = main /\ phase' = phase
    <3>1. next' - 1 = next
      BY <1>1, <2>1
    <3> QED
      BY <1>2, <1>4, <1>5, <2>1, <3>1 DEF MainInv
  <2>2. CASE next = NumClis /\ PhaseOver
    BY <1>2, <1>5, <2>2 DEF MainInv, Idle, PhaseOver
  <2> QED
    BY <1>3, <2>1, <2>2
<1>11. LoadInv'
  <2>1. CASE next < NumClis /\ next' = next + 1 /\ main' = main /\ phase' = phase
               /\ given' = given
    <3>1. next' - 1 = next
      BY <1>1, <2>1
    <3>2. KeysOf(next - 1)' = KeysOf(next)
      BY <1>2, <3>1 DEF KeysOf
    <3> QED
      BY <1>2, <1>4, <1>6, <2>1, <3>2 DEF LoadInv, Inserting
  <2>2. CASE PhaseOver
    BY <2>2 DEF PhaseOver, LoadInv
  <2> QED
    BY <1>3, <2>1, <2>2
<1>12. Handover'
  <2> SUFFICES ASSUME phase' = "run", main' = "launching", next' = 1
               PROVE  /\ \A f \in Feeders : line[f] = None
                      /\ given' = {k \in Keys : store[k] # Nil}
    BY <1>2 DEF Handover
  <2>1. next = NumClis /\ phase = "load" /\ given' = collected'
    BY <1>1, <1>3, <1>4 DEF PhaseOver
  <2>2. given' = UNION {ikeys[f] : f \in Feeders}
    BY <1>6, <2>1 DEF Feeders, KeysOf
  <2>3. \A f \in Feeders : line[f] = None
    BY <1>5, <2>1 DEF Feeders, FeederInv
  <2>4. \A f \in Feeders : \A k \in ikeys[f] : k \in Keys /\ store[k] # Nil
    BY <2>1, <2>3 DEF LoadInv, Inserting, TypeOK
  <2>5. \A k \in Keys : store[k] # Nil => \E f \in Feeders : k \in ikeys[f]
    BY <2>1 DEF LoadInv
  <2> QED
    BY <2>2, <2>3, <2>4, <2>5
<1> QED
  BY <1>8, <1>9, <1>10, <1>11, <1>12

\* Every step preserves the inductive invariant.
LEMMA NextIInv == IInv /\ [Next]_vars => IInv'
<1> SUFFICES ASSUME IInv, [Next]_vars PROVE IInv'
  OBVIOUS
<1>1. CASE Main
  BY <1>1, LaunchIInv, CollectIInv, FailsIInv DEF Main
<1>2. ASSUME NEW f \in Feeders, Feeder(f) \/ Execute(f) PROVE IInv'
  BY <1>2, ReadCallIInv, FeederIInv, ExecuteIInv DEF Feeder
<1>3. CASE UNCHANGED vars
  BY <1>3 DEF vars, IInv, TypeOK, FeederInv, MainInv, Idle, LoadInv, KeysOf, Inserting, Handover
<1> QED
  BY <1>1, <1>2, <1>3 DEF Next

(***************************************************************************)
(* When the run phase of the benchmark starts, no INSERT of the load phase *)
(* is still in flight, and its feeders are given exactly the keys that are *)
(* in the store: for every number of clients, keys and lines, whatever the *)
(* YCSB processes print and however the calls interleave.                  *)
(***************************************************************************)
THEOREM BenchmarkInvariants == Spec => [](TypeOK /\ Handover)
<1>1. IInv => TypeOK /\ Handover
  BY DEF IInv
<1> QED
  BY <1>1, InitIInv, NextIInv, PTL DEF Spec

----------------------------------------------------------------------------
(***************************************************************************)
(* Scans.  A key that a feeder knows of is in the store, unless its INSERT *)
(* is still to be executed; nothing deletes a key.                         *)
(***************************************************************************)
Storing(f, k) == Inserting(f, k) /\ line[f].word = "INSERT"

StoredInv ==
  /\ main = "launching" => \A k \in given : store[k] # Nil
  /\ \A f \in Feeders : \A k \in ikeys[f] : store[k] # Nil \/ Storing(f, k)

\* The least of two numbers is at most each of them.
LEMMA MinOfTwo ==
  ASSUME NEW a \in Nat, NEW b \in Nat
  PROVE  Min({a, b}) \in Nat /\ Min({a, b}) <= a /\ Min({a, b}) <= b
<1>1. \E x \in {a, b} : \A y \in {a, b} : x <= y
  <2>1. CASE a <= b
    BY <2>1
  <2>2. CASE b <= a
    BY <2>2
  <2> QED
    BY <2>1, <2>2
<1>2. Min({a, b}) \in {a, b} /\ \A y \in {a, b} : Min({a, b}) <= y
  BY <1>1 DEF Min
<1> QED
  BY <1>2

\* The list of a Scan is as long as there are keys in its range, and so at
\* least as long as any set of stored keys in it.
LEMMA ScanCounts ==
  ASSUME NEW d \in Stores, NEW start \in Keys, NEW end \in Keys,
         NEW list \in ScanLists(d, start, end),
         NEW S \in SUBSET Keys, \A k \in S : start <= k /\ k <= end /\ d[k] # Nil
  PROVE  IsFiniteSet(S) /\ Len(list) \in Nat /\ Cardinality(S) <= Len(list)
<1> DEFINE T == {k \in Keys : start <= k /\ k <= end /\ d[k] # Nil}
           g == [i \in 1 .. Len(list) |-> list[i][1]]
<1>1. PICK n \in 0 .. NumKeys : list \in [1 .. n -> InRange(d, start, end)]
  BY DEF ScanLists
<1>2. /\ n \in Nat /\ Len(list) = n
      /\ \A i \in 1 .. n : list[i] \in InRange(d, start, end)
  BY <1>1, KVAssumption
<1>3. \A i \in 1 .. n : list[i][1] \in T
  BY <1>2 DEF InRange
<1>4. \A k \in T : \E i \in 1 .. n : list[i][1] = k
  <2> TAKE k \in T
  <2>1. <<k, d[k]>> \in InRange(d, start, end)
    BY DEF InRange
  <2>2. PICK i \in 1 .. n : list[i] = <<k, d[k]>>
    BY <1>2, <2>1 DEF ScanLists
  <2> QED
    BY <2>2
<1>5. g \in Surjection(1 .. n, T)
  BY <1>2, <1>3, <1>4 DEF Surjection
<1>6. Cardinality(T) <= n /\ IsFiniteSet(T)
  <2>1. ExistsSurjection(1 .. n, T)
    <3> HIDE DEF g, T
    <3> QED
      BY <1>5 DEF ExistsSurjection
  <2> QED
    BY <1>2, <2>1, FS_SurjCardinalityBound, FS_NatSurjection
<1>7. S \subseteq T
  OBVIOUS
<1>8. IsFiniteSet(S) /\ Cardinality(S) <= Cardinality(T)
  <2> HIDE DEF T
  <2> QED
    BY <1>6, <1>7, FS_Subset
<1>9. Cardinality(S) \in Nat /\ Cardinality(T) \in Nat
  BY <1>6, <1>8, FS_CardinalityType
<1> QED
  BY <1>2, <1>6, <1>8, <1>9

\* A scan for count keys from start on, all of whose known keys are stored, finds
\* count keys or all of them.  The end is the key that count - 1 known keys from
\* start on precede, or, when there is none, the greatest one.
LEMMA ScanLongEnough ==
  ASSUME NEW d \in Stores, NEW keys \in SUBSET Keys, \A k \in keys : d[k] # Nil,
         NEW start \in Keys, NEW count \in 0 .. MaxCount,
         NEW list \in ScanLists(d, start, EndKey(keys, start, count))
  PROVE  Len(list) >= Min({count, Cardinality({k \in keys : k >= start})})
<1> DEFINE from == {k \in keys : k >= start}
           nth  == {k \in from : Cardinality({j \in from : j < k}) = (count - 1) % Usize}
           end  == EndKey(keys, start, count)
           wanted == Min({count, Cardinality(from)})
<1>1. /\ NumKeys \in Nat /\ NumKeys >= 1 /\ Keys = 1 .. NumKeys
      /\ MaxCount \in Nat /\ Usize \in Nat /\ Usize > MaxCount /\ count \in Nat
  BY KVAssumption, BencherAssumption DEF Keys
<1>2. IsFiniteSet(keys) /\ IsFiniteSet(from) /\ Cardinality(from) \in Nat
  <2>1. IsFiniteSet(Keys)
    BY <1>1, FS_Interval
  <2>2. from \in SUBSET keys
    OBVIOUS
  <2> HIDE DEF from
  <2> QED
    BY <2>1, <2>2, FS_Subset, FS_CardinalityType
<1>3. wanted \in Nat /\ wanted <= count /\ wanted <= Cardinality(from)
  BY <1>1, <1>2, MinOfTwo
<1>4. end \in Keys
  BY EndKeyType
<1>5. CASE nth # {} /\ count # 0
  <2> DEFINE e == Max(nth)
             before == {j \in from : j < e}
             S == {j \in from : j <= e}
  <2>1. nth \in SUBSET Keys
    OBVIOUS
  <2>2. e \in nth
    <3> HIDE DEF nth
    <3> QED
      BY <1>5, <2>1, MaxOfKeys
  <2>3. e \in from /\ Cardinality(before) = (count - 1) % Usize
    BY <2>2
  <2>4. keys # {} /\ end = e
    BY <1>5 DEF EndKey
  <2>5. (count - 1) % Usize = count - 1
    BY <1>1, <1>5
  <2>6. S = before \cup {e} /\ e \notin before /\ before \subseteq from
    <3> HIDE DEF e, nth
    <3>1. \A j \in from : j \in Keys
      OBVIOUS
    <3>2. \A j \in Keys : j \in Nat
      BY <1>1
    <3>3. e \in from /\ e \in Nat /\ \A j \in from : j \in Nat
      <4> HIDE DEF from
      <4> QED
        BY <2>3, <3>1, <3>2
    <3>4. \A j \in from : j <= e <=> (j < e \/ j = e)
      <4> HIDE DEF from
      <4> QED
        BY <3>3
    <3>5. ~ (e < e)
      BY <3>3
    <3> HIDE DEF from
    <3> QED
      BY <3>3, <3>4, <3>5
  <2>7. Cardinality(S) = count
    <3>1. IsFiniteSet(before)
      <4> HIDE DEF before, from
      <4> QED
        BY <1>2, <2>6, FS_Subset
    <3>2. Cardinality(before \cup {e}) = Cardinality(before) + 1
      <4> HIDE DEF before, e
      <4> QED
        BY <2>6, <3>1, FS_AddElement
    <3> HIDE DEF S, before, e
    <3> QED
      BY <1>1, <2>3, <2>5, <2>6, <3>2
  <2>8. S \in SUBSET Keys /\ \A k \in S : start <= k /\ k <= end /\ d[k] # Nil
    <3>1. \A j \in from : j \in keys /\ j \in Keys /\ start <= j
      BY <1>1
    <3> HIDE DEF e, end
    <3> QED
      BY <2>4, <3>1
  <2>9. Cardinality(S) <= Len(list) /\ Len(list) \in Nat
    <3> HIDE DEF S, end
    <3> QED
      BY <1>4, <2>8, ScanCounts DEF end
  <2> QED
    BY <1>1, <1>3, <2>7, <2>9
<1>6. CASE nth = {} \/ count = 0
  <2>1. CASE count = 0
    <3>1. Len(list) \in Nat
      <4>1. \A k \in {} : start <= k /\ k <= end /\ d[k] # Nil
        OBVIOUS
      <4> HIDE DEF end
      <4> QED
        BY <1>4, <4>1, ScanCounts DEF end
    <3> QED
      BY <1>3, <2>1, <3>1
  <2>2. CASE nth = {}
    <3>1. \A k \in from : start <= k /\ k <= end /\ d[k] # Nil
      <4> TAKE k \in from
      <4>1. keys # {} /\ k \in keys /\ end = Max(keys)
        BY <2>2 DEF EndKey
      <4>2. k <= Max(keys)
        BY <4>1, MaxOfKeys
      <4> QED
        BY <1>1, <4>1, <4>2
    <3>2. from \in SUBSET Keys
      OBVIOUS
    <3>3. Cardinality(from) <= Len(list) /\ Len(list) \in Nat
      <4> HIDE DEF from, end
      <4> QED
        BY <1>4, <3>1, <3>2, ScanCounts DEF end
    <3> QED
      BY <1>2, <1>3, <3>3
  <2> QED
    BY <1>6, <2>1, <2>2
<1> QED
  BY <1>5, <1>6

\* No step removes a key from the store.
LEMMA StoreGrows ==
  ASSUME IInv, [Next]_vars
  PROVE  \A k \in Keys : store[k] # Nil => store'[k] # Nil
<1>1. ASSUME NEW f \in Feeders, Execute(f)
      PROVE  \A k \in Keys : store[k] # Nil => store'[k] # Nil
  <2> DEFINE call == KvCall(line[f], ikeys[f])
  <2>1. store \in Stores /\ line[f] \in CallLines /\ store' = Effect(store, call)
    BY <1>1 DEF Execute, IInv, TypeOK
  <2>2. CASE line[f].word \in {"INSERT", "UPDATE"}
    <3>1. line[f].value # Nil /\ store' = [store EXCEPT ![line[f].key] = line[f].value]
      BY <2>1, <2>2, KVAssumption DEF KvCall, Effect, CallLines
    <3> QED
      BY <2>1, <3>1 DEF Stores
  <2>3. CASE line[f].word \in {"READ", "SCAN"}
    <3>1. store' = store
      BY <2>1, <2>3 DEF KvCall, Effect
    <3> QED
      BY <3>1
  <2> QED
    BY <2>1, <2>2, <2>3 DEF CallLines
<1>2. CASE UNCHANGED store
  BY <1>2
<1>3. CASE UNCHANGED vars
  BY <1>3 DEF vars
<1>4. CASE Main
  BY <1>2, <1>4
  DEF Main, Launch, LaunchFails, Collect, FeederFailed, WaitFails, Fails, service
<1>5. ASSUME NEW f \in Feeders, Feeder(f)
      PROVE  UNCHANGED store
  BY <1>5 DEF Feeder, ReadCall, ReadOther, ReadError, ReadEof, Answered, CallFails, Signal,
              service
<1> QED
  BY <1>1, <1>2, <1>3, <1>4, <1>5 DEF Next

\* A step of a feeder or for a feeder, and what it does to the keys it knows of.
LEMMA StoredByFeeder ==
  ASSUME IInv, StoredInv, NEW f \in Feeders, Feeder(f) \/ Execute(f)
  PROVE  StoredInv'
<1> USE DEF IInv, mainVars, service
<1>1. \A k \in Keys : store[k] # Nil => store'[k] # Nil
  BY StoreGrows DEF Next
<1>2. UNCHANGED <<main, given>> /\ given \subseteq Keys
  BY DEF TypeOK, Feeder, Execute, ReadCall, ReadOther, ReadError, ReadEof, Answered, CallFails,
         Signal
<1>3. ASSUME NEW g \in Feeders, g # f
      PROVE  ikeys'[g] = ikeys[g] /\ line'[g] = line[g] /\ resp'[g] = resp[g]
  BY <1>3 DEF TypeOK, Feeder, Execute, ReadCall, ReadOther, ReadError, ReadEof, Answered,
              CallFails, Signal
<1>4. \A k \in ikeys'[f] : store'[k] # Nil \/ Storing(f, k)'
  <2>1. CASE ReadCall(f)
    <3>1. PICK l \in PhaseLines(phase) :
            /\ line' = [line EXCEPT ![f] = l]
            /\ ikeys' = [ikeys EXCEPT
                           ![f] = IF l.word = "INSERT" THEN @ \cup {l.key} ELSE @]
      BY <2>1 DEF ReadCall
    <3>2. l # None
      BY PhaseLinesType, NoneAssumption DEF TypeOK
    <3>3. line[f] = None /\ resp[f] = None /\ store' = store /\ resp' = resp
      BY <2>1 DEF ReadCall, ReadLine, FeederInv
    <3>4. \A k \in ikeys[f] : store[k] # Nil
      BY <3>3 DEF StoredInv, Storing, Inserting
    <3>5. line'[f] = l
      BY <3>1 DEF TypeOK
    <3>6. ikeys'[f] = IF l.word = "INSERT" THEN ikeys[f] \cup {l.key} ELSE ikeys[f]
      BY <3>1 DEF TypeOK
    <3> QED
      BY <3>2, <3>3, <3>4, <3>5, <3>6 DEF Storing, Inserting
  <2>2. CASE Execute(f)
    <3>1. line[f] \in CallLines /\ ikeys' = ikeys /\ store \in Stores
      BY <2>2, NoneAssumption DEF Execute, TypeOK
    <3>2. ASSUME NEW k \in ikeys[f], Storing(f, k) PROVE store'[k] # Nil
      <4>1. line[f].word = "INSERT" /\ line[f].key = k /\ k \in Keys
        BY <3>2 DEF Storing, Inserting, TypeOK
      <4>2. line[f].value # Nil /\ store' = [store EXCEPT ![k] = line[f].value]
        BY <2>2, <3>1, <4>1, KVAssumption DEF Execute, KvCall, Effect, CallLines
      <4> QED
        BY <3>1, <4>1, <4>2 DEF Stores
    <3>3. \A k \in ikeys[f] : k \in Keys
      BY DEF TypeOK
    <3> QED
      BY <1>1, <3>1, <3>2, <3>3 DEF StoredInv
  <2>3. CASE Answered(f)
    BY <2>3 DEF Answered, StoredInv, Storing, Inserting
  <2>4. CASE ReadOther(f) \/ ReadError(f) \/ ReadEof(f) \/ CallFails(f) \/ Signal(f)
    BY <2>4 DEF ReadOther, ReadError, ReadEof, CallFails, Signal, StoredInv, Storing, Inserting
  <2> QED
    BY <2>1, <2>2, <2>3, <2>4 DEF Feeder
<1>5. \A g \in Feeders : g # f => \A k \in ikeys'[g] : store'[k] # Nil \/ Storing(g, k)'
  <2> SUFFICES ASSUME NEW g \in Feeders, g # f, NEW k \in ikeys[g], ~(store'[k] # Nil)
               PROVE  Storing(g, k)'
    BY <1>3
  <2>1. k \in Keys
    BY DEF TypeOK
  <2>2. Storing(g, k)
    BY <1>1, <2>1 DEF StoredInv
  <2> QED
    BY <1>3, <2>2 DEF Storing, Inserting
<1>6. main' = "launching" => \A k \in given' : store'[k] # Nil
  BY <1>1, <1>2 DEF StoredInv
<1> QED
  BY <1>4, <1>5, <1>6 DEF StoredInv

\* A step of main: the keys that it gives to a feeder are in the store.
LEMMA StoredByMain ==
  ASSUME IInv, StoredInv, Main
  PROVE  StoredInv'
<1> USE DEF IInv, service
<1>1. CASE Launch
  <2>1. /\ UNCHANGED <<given, line, resp, store>> /\ main = "launching"
        /\ ikeys' = [ikeys EXCEPT ![next] = given]
    BY <1>1 DEF Launch
  <2>2. \A f \in Feeders : ikeys'[f] = ikeys[f] \/ ikeys'[f] = given
    BY <2>1 DEF TypeOK
  <2> QED
    BY <2>1, <2>2 DEF StoredInv, Storing, Inserting
<1>2. CASE LaunchFails \/ FeederFailed \/ WaitFails
  BY <1>2 DEF LaunchFails, FeederFailed, WaitFails, Fails, StoredInv, Storing, Inserting
<1>3. CASE Collect
  <2>1. UNCHANGED <<ikeys, line, resp, store>> /\ main = "waiting"
    BY <1>3 DEF Collect
  <2>2. Handover'
    BY <1>3, CollectIInv
  <2>3. main' = "launching" => phase' = "run" /\ next' = 1
    BY <1>3, <2>1 DEF Collect, PhaseOver
  <2> QED
    BY <2>1, <2>2, <2>3 DEF StoredInv, Storing, Inserting, Handover
<1> QED
  BY <1>1, <1>2, <1>3 DEF Main

\* A scan is executed when its feeder's keys are all stored; its answer stays.
LEMMA ScanCoversNext ==
  ASSUME IInv, StoredInv, ScanCovers, [Next]_vars
  PROVE  ScanCovers'
<1> USE DEF IInv
<1> SUFFICES ASSUME NEW f \in Feeders,
                    pc'[f] = "calling", line'[f].word = "SCAN", resp'[f] # None
             PROVE  Len(resp'[f].entries) >= Wanted(f)'
  BY DEF ScanCovers
<1>1. CASE Execute(f)
  <2> DEFINE call == KvCall(line[f], ikeys[f])
  <2>1. line[f] \in CallLines /\ line' = line /\ ikeys' = ikeys
    BY <1>1, NoneAssumption DEF Execute, TypeOK
  <2>2. /\ call = [op |-> "Scan", start |-> line[f].key,
                   end |-> EndKey(ikeys[f], line[f].key, line[f].count)]
        /\ line[f].key \in Keys /\ line[f].count \in 0 .. MaxCount
    BY <2>1 DEF KvCall, CallLines
  <2>3. PICK r \in Results(store, call) : resp'[f] = r
    BY <1>1 DEF Execute, TypeOK
  <2>4. r.entries \in ScanLists(store, line[f].key,
                                EndKey(ikeys[f], line[f].key, line[f].count))
    BY <2>2, <2>3 DEF Results
  <2>5. \A k \in ikeys[f] : store[k] # Nil
    BY <2>1 DEF StoredInv, Storing
  <2>6. store \in Stores /\ ikeys[f] \in SUBSET Keys
    BY DEF TypeOK
  <2>7. Len(r.entries) >=
          Min({line[f].count, Cardinality({k \in ikeys[f] : k >= line[f].key})})
    BY <2>2, <2>4, <2>5, <2>6, ScanLongEnough
  <2> QED
    BY <2>1, <2>3, <2>7 DEF Wanted
<1>2. CASE UNCHANGED <<pc[f], line[f], resp[f], ikeys[f]>>
  BY <1>2 DEF ScanCovers, Wanted
<1>3. CASE Feeder(f)
  <2>1. ~ReadCall(f)
    BY DEF ReadCall, ReadLine, FeederInv, service
  <2> QED
    BY <1>2, <1>3, <2>1
    DEF TypeOK, Feeder, ReadOther, ReadLine, ReadError, ReadEof, Answered, CallFails, Signal, service
<1>4. ASSUME NEW g \in Feeders, g # f, Feeder(g) \/ Execute(g)
      PROVE  UNCHANGED <<pc[f], line[f], resp[f], ikeys[f]>>
  BY <1>4 DEF TypeOK, Feeder, Execute, ReadCall, ReadOther, ReadLine, ReadError, ReadEof,
              Answered, CallFails, Signal, service
<1>5. CASE Launch
  <2>1. f # next
    BY <1>5 DEF Launch, TypeOK
  <2> QED
    BY <1>2, <1>5, <2>1 DEF Launch, TypeOK, service
<1>6. CASE LaunchFails \/ Collect \/ FeederFailed \/ WaitFails
  BY <1>2, <1>6 DEF LaunchFails, Collect, FeederFailed, WaitFails, Fails, service
<1>7. CASE UNCHANGED vars
  BY <1>2, <1>7 DEF vars
<1> QED
  BY <1>1, <1>2, <1>3, <1>4, <1>5, <1>6, <1>7 DEF Next, Main

(***************************************************************************)
(* A scan finds as many keys as the SCAN line of YCSB asks for, or all     *)
(* that the feeder knows of from its start on: for every number of clients *)
(* and keys, every count and every interleaving of the feeders' calls.     *)
(***************************************************************************)
THEOREM ScansCover == Spec => []ScanCovers
<1> DEFINE ScanInv == IInv /\ StoredInv /\ ScanCovers
<1>1. Init => ScanInv
  <2> SUFFICES ASSUME Init PROVE ScanInv
    OBVIOUS
  <2>1. StoredInv /\ ScanCovers
    BY DEF Init, StoredInv, ScanCovers
  <2> QED
    BY <2>1, InitIInv
<1>2. ScanInv /\ [Next]_vars => ScanInv'
  <2> SUFFICES ASSUME IInv, StoredInv, ScanCovers, [Next]_vars
               PROVE  IInv' /\ StoredInv' /\ ScanCovers'
    OBVIOUS
  <2>1. IInv' /\ ScanCovers'
    BY NextIInv, ScanCoversNext
  <2>2. StoredInv'
    <3>1. CASE UNCHANGED vars
      BY <3>1 DEF vars, StoredInv, Storing, Inserting
    <3>2. CASE Next
      BY <3>2, StoredByFeeder, StoredByMain DEF Next
    <3> QED
      BY <3>1, <3>2
  <2> QED
    BY <2>1, <2>2
<1>3. ScanInv => ScanCovers
  OBVIOUS
<1> QED
  BY <1>1, <1>2, <1>3, PTL DEF Spec

----------------------------------------------------------------------------
(***************************************************************************)
(* The report.  Count(f, w) is how many of the calls of word w that the    *)
(* service has executed in the phase are those of f: those that f has a    *)
(* sample of and the one it is still to be given the answer of.  Feeders   *)
(* not yet launched still have the samples of the phase before.            *)
(***************************************************************************)
Launched(f) == main = "waiting" \/ f < next

Held(f, w) == IF line[f] # None /\ resp[f] # None /\ line[f].word = w THEN 1 ELSE 0

Count(f, w) == IF Launched(f) THEN samples[f][w] + Held(f, w) ELSE 0

\* How many feeders of the phase main has waited for.
Merged == IF main = "waiting" THEN next - 1 ELSE 0

\* sums[i] is the sum of the counts of the first i feeders.
Sums(w, sums) ==
  /\ sums \in [0 .. NumClis -> Nat]
  /\ sums[0] = 0
  /\ \A f \in Feeders : sums[f] = sums[f - 1] + Count(f, w)

\* All calls executed are counted, and main has the samples of those it has
\* waited for.
Tallied(w) ==
  \E sums \in [0 .. NumClis -> Nat] :
    /\ Sums(w, sums)
    /\ executed[phase][w] = sums[NumClis]
    /\ stats[phase].samples[w] = sums[Merged]

SampleInv ==
  /\ Running => stats[phase].merged = Merged /\ \A w \in CallWords : Tallied(w)
  /\ phase = "load" =>
       stats["run"] = [merged |-> 0, samples |-> NoSamples] /\ executed["run"] = NoSamples
  /\ phase = "run" => stats["load"] = [merged |-> NumClis, samples |-> executed["load"]]
  /\ main = "done" =>
       /\ phase = "run"
       /\ stats["run"] = [merged |-> NumClis, samples |-> executed["run"]]
       /\ \A f \in Feeders : line[f] = None

\* The numbers of the sums.
LEMMA SumNumbers ==
  /\ NumClis \in Nat /\ NumClis >= 1
  /\ 0 \in 0 .. NumClis /\ NumClis \in 0 .. NumClis
  /\ \A f \in Feeders : f \in 0 .. NumClis /\ f - 1 \in 0 .. NumClis /\ f \in Nat
  /\ TypeOK => Merged \in 0 .. NumClis /\ next \in Nat
BY BencherAssumption DEF Feeders, TypeOK, Merged

\* A phase that has just started.
NewPhase ==
  /\ main = "launching" /\ next = 1
  /\ \A w \in CallWords : executed[phase][w] = 0 /\ stats[phase].samples[w] = 0

AllTallied == \A w \in CallWords : Tallied(w)

\* In it, nothing is counted.
LEMMA NothingCounted == TypeOK /\ NewPhase => AllTallied
<1> SUFFICES ASSUME TypeOK, NewPhase, NEW w \in CallWords PROVE Tallied(w)
  BY DEF AllTallied
<1> USE DEF NewPhase
<1> DEFINE sums == [i \in 0 .. NumClis |-> 0]
<1>1. \A f \in Feeders : Count(f, w) = 0
  BY DEF Count, Launched, Feeders
<1>2. sums \in [0 .. NumClis -> Nat] /\ Sums(w, sums)
  BY <1>1, SumNumbers DEF Sums
<1>3. sums[NumClis] = 0 /\ sums[Merged] = 0
  BY SumNumbers
<1> HIDE DEF sums
<1> QED
  BY <1>2, <1>3 DEF Tallied

\* The same of the next state.
LEMMA NothingCountedNext == TypeOK' /\ NewPhase' => AllTallied'
BY NothingCounted, PTL

\* A step that changes no count keeps the tally.
LEMMA CountsStay ==
  ASSUME NEW w \in CallWords, Tallied(w),
         \A f \in Feeders : Count(f, w)' = Count(f, w),
         UNCHANGED Merged, UNCHANGED phase, executed'[phase][w] = executed[phase][w],
         stats'[phase].samples[w] = stats[phase].samples[w]
  PROVE  Tallied(w)'
<1>1. PICK sums \in [0 .. NumClis -> Nat] :
        /\ Sums(w, sums)
        /\ executed[phase][w] = sums[NumClis]
        /\ stats[phase].samples[w] = sums[Merged]
  BY DEF Tallied
<1>2. Sums(w, sums)'
  BY <1>1 DEF Sums
<1> QED
  BY <1>1, <1>2 DEF Tallied

\* A feeder that has been answered has a sample where it held an answer.
LEMMA FeederSamples ==
  ASSUME IInv, SampleInv, NEW f \in Feeders, Feeder(f)
  PROVE  SampleInv'
<1> USE DEF IInv, mainVars, service
<1>1. Running /\ UNCHANGED <<main, phase, next, stats, executed>>
  BY DEF Feeder, ReadCall, ReadOther, ReadLine, ReadError, ReadEof, Answered, CallFails, Signal
<1>2. \A g \in Feeders : g # f =>
        samples'[g] = samples[g] /\ line'[g] = line[g] /\ resp'[g] = resp[g]
  BY DEF TypeOK, Feeder, ReadCall, ReadOther, ReadLine, ReadError, ReadEof, Answered,
         CallFails, Signal
<1>3. \A w \in CallWords : samples'[f][w] + Held(f, w)' = samples[f][w] + Held(f, w)
  <2> TAKE w \in CallWords
  <2>1. CASE Answered(f)
    <3>1. line[f] \in CallLines /\ line[f] # None /\ resp[f] # None /\ line'[f] = None
      BY <2>1, NoneAssumption DEF Answered, TypeOK
    <3>2. line[f].word \in CallWords
      BY <3>1 DEF CallLines, CallWords
    <3>3. samples[f] \in [CallWords -> Nat] /\ samples[f][w] \in Nat
      BY DEF TypeOK
    <3>4. samples' = [samples EXCEPT ![f][line[f].word] = @ + 1]
      BY <2>1 DEF Answered
    <3>5. samples'[f] = [samples[f] EXCEPT ![line[f].word] = @ + 1]
      BY <3>4 DEF TypeOK
    <3>6. samples'[f][w] = IF w = line[f].word THEN samples[f][w] + 1 ELSE samples[f][w]
      BY <3>2, <3>3, <3>5
    <3>7. Held(f, w) = (IF w = line[f].word THEN 1 ELSE 0) /\ Held(f, w)' = 0
      BY <3>1 DEF Held
    <3> QED
      BY <3>3, <3>6, <3>7
  <2>2. CASE ReadCall(f)
    <3>1. UNCHANGED <<samples, resp>> /\ resp[f] = None
      BY <2>2 DEF ReadCall, ReadLine, FeederInv
    <3> QED
      BY <3>1 DEF Held
  <2>3. CASE UNCHANGED <<samples, line, resp>>
    BY <2>3 DEF Held
  <2> QED
    BY <2>1, <2>2, <2>3 DEF Feeder, ReadOther, ReadError, ReadEof, CallFails, Signal
<1>4. \A w \in CallWords : \A g \in Feeders : Count(g, w)' = Count(g, w)
  <2> TAKE w \in CallWords
  <2> TAKE g \in Feeders
  <2>1. Launched(g)' = Launched(g)
    BY <1>1 DEF Launched
  <2>2. samples'[g][w] + Held(g, w)' = samples[g][w] + Held(g, w)
    BY <1>2, <1>3 DEF Held
  <2> QED
    BY <2>1, <2>2 DEF Count
<1>5. UNCHANGED Merged
  BY <1>1 DEF Merged
<1>6. \A w \in CallWords : Tallied(w)'
  BY <1>1, <1>4, <1>5, CountsStay DEF SampleInv
<1> QED
  BY <1>1, <1>5, <1>6 DEF SampleInv, Running

\* The service executes a call of a feeder that is launched and that main has not
\* waited for.
LEMMA ExecuteSamples ==
  ASSUME IInv, SampleInv, NEW f \in Feeders, Execute(f)
  PROVE  SampleInv'
<1> USE DEF IInv
<1> DEFINE word == line[f].word
<1>1. /\ UNCHANGED <<main, phase, next, stats, line, samples>>
      /\ line[f] # None /\ line[f] \in CallLines /\ resp[f] = None
      /\ executed' = [executed EXCEPT ![phase][word] = @ + 1]
  BY NoneAssumption DEF Execute, TypeOK, mainVars
<1>2. word \in CallWords
  BY <1>1 DEF CallLines, CallWords
<1>3. resp'[f] # None /\ \A g \in Feeders : g # f => resp'[g] = resp[g]
  <2>1. KvCall(line[f], ikeys[f]) \in Calls /\ store \in Stores
    BY <1>1, KvCallType DEF TypeOK
  <2>2. PICK r \in Results(store, KvCall(line[f], ikeys[f])) : resp' = [resp EXCEPT ![f] = r]
    BY DEF Execute
  <2>3. r # None
    BY <2>1, <2>2, InterfaceTypes, NoneAssumption
  <2> QED
    BY <2>2, <2>3 DEF TypeOK
<1>4. \A w \in CallWords : executed'[phase][w] = executed[phase][w] + (IF w = word THEN 1 ELSE 0)
  <2>1. executed[phase] \in [CallWords -> Nat] /\ phase \in Phases
    BY DEF TypeOK
  <2>2. executed'[phase] = [executed[phase] EXCEPT ![word] = @ + 1]
    BY <1>1, <2>1 DEF TypeOK
  <2> HIDE DEF word
  <2> QED
    BY <2>1, <2>2
<1>5. \A p \in Phases : p # phase => executed'[p] = executed[p]
  BY <1>1 DEF TypeOK
<1>6. main = "launching" => f < next
  <2> SUFFICES ASSUME main = "launching", f >= next PROVE FALSE
    BY DEF TypeOK, Feeders
  <2>1. f \in next .. NumClis
    BY BencherAssumption DEF TypeOK, Feeders
  <2> QED
    BY <1>1, <2>1 DEF MainInv, Idle, FeederInv
<1>7. main = "waiting" => f >= next
  <2> SUFFICES ASSUME main = "waiting", f < next PROVE FALSE
    BY DEF TypeOK, Feeders
  <2>1. f \in 1 .. next - 1
    BY DEF TypeOK, Feeders
  <2> QED
    BY <1>1, <2>1 DEF MainInv, FeederInv
<1>8. ASSUME Running, NEW w \in CallWords PROVE Tallied(w)'
  <2>1. PICK sums \in [0 .. NumClis -> Nat] :
          /\ Sums(w, sums)
          /\ executed[phase][w] = sums[NumClis]
          /\ stats[phase].samples[w] = sums[Merged]
    BY <1>8 DEF SampleInv, Tallied
  <2> DEFINE more == IF w = word THEN 1 ELSE 0
             sums2 == [i \in 0 .. NumClis |-> IF i < f THEN sums[i] ELSE sums[i] + more]
  <2>2. more \in Nat /\ \A i \in 0 .. NumClis : sums[i] \in Nat
    BY <2>1
  <2>3. \A g \in Feeders : Count(g, w)' = IF g = f THEN Count(g, w) + more ELSE Count(g, w)
    <3> TAKE g \in Feeders
    <3>1. CASE g = f
      <4>1. Launched(f) /\ Launched(f)'
        BY <1>1, <1>6, <1>8 DEF Launched, Running
      <4>2. Held(f, w) = 0 /\ Held(f, w)' = more
        BY <1>1, <1>3 DEF Held
      <4>3. samples[f][w] \in Nat
        BY DEF TypeOK
      <4> HIDE DEF more
      <4> QED
        BY <1>1, <2>2, <3>1, <4>1, <4>2, <4>3 DEF Count
    <3>2. CASE g # f
      BY <1>1, <1>3, <3>2 DEF Count, Launched, Held
    <3> QED
      BY <3>1, <3>2
  <2>4. \A g \in Feeders : Count(g, w) \in Nat
    BY DEF Count, Held, TypeOK
  <2>5. sums2 \in [0 .. NumClis -> Nat] /\ \A i \in 0 .. NumClis :
          sums2[i] = IF i < f THEN sums[i] ELSE sums[i] + more
    <3> HIDE DEF more
    <3> QED
      BY <2>2
  <2>6. sums2[0] = 0
    BY <2>1, <2>5, SumNumbers DEF Sums, Feeders
  <2>7. \A g \in Feeders : sums2[g] = sums2[g - 1] + Count(g, w)'
    <3> TAKE g \in Feeders
    <3>1. /\ g \in 0 .. NumClis /\ g - 1 \in 0 .. NumClis /\ g \in Nat /\ f \in Nat
          /\ sums[g] = sums[g - 1] + Count(g, w)
      BY <2>1, SumNumbers DEF Sums
    <3>2. Count(g, w)' = IF g = f THEN Count(g, w) + more ELSE Count(g, w)
      BY <2>3
    <3>3. Count(g, w) \in Nat /\ sums[g] \in Nat /\ sums[g - 1] \in Nat
      BY <2>2, <2>4, <3>1
    <3>4. /\ sums2[g] = IF g < f THEN sums[g] ELSE sums[g] + more
          /\ sums2[g - 1] = IF g - 1 < f THEN sums[g - 1] ELSE sums[g - 1] + more
      BY <2>5, <3>1
    <3> HIDE DEF more, sums2
    <3> QED
      BY ONLY <2>2, <3>1, <3>2, <3>3, <3>4
  <2>8. executed'[phase][w] = sums2[NumClis]
    <3>1. NumClis \in 0 .. NumClis /\ ~(NumClis < f)
      BY SumNumbers DEF Feeders
    <3> HIDE DEF sums2
    <3> QED
      BY <1>4, <2>1, <2>5, <3>1
  <2>9. UNCHANGED Merged /\ stats'[phase].samples[w] = sums2[Merged]
    <3>1. UNCHANGED Merged /\ Merged < f /\ Merged \in 0 .. NumClis
      BY <1>1, <1>7, SumNumbers DEF Merged, Feeders, TypeOK
    <3> HIDE DEF sums2
    <3> QED
      BY <1>1, <2>1, <2>5, <3>1
  <2> HIDE DEF sums2, more
  <2>10. PICK new \in [0 .. NumClis -> Nat] : new = sums2
    BY <2>5
  <2>11. Sums(w, new)'
    BY <2>6, <2>7, <2>10 DEF Sums
  <2> QED
    BY <1>1, <2>8, <2>9, <2>10, <2>11 DEF Tallied
<1>9. UNCHANGED Merged
  BY <1>1 DEF Merged
<1>10. main # "done"
  BY <1>1 DEF SampleInv
<1> QED
  BY <1>1, <1>5, <1>8, <1>9, <1>10 DEF SampleInv, Running, Phases

\* A feeder is launched with no samples and no call in flight.
LEMMA LaunchSamples ==
  ASSUME IInv, SampleInv, Launch
  PROVE  SampleInv'
<1> USE DEF IInv
<1>1. /\ UNCHANGED <<phase, stats, line, resp, executed>> /\ main = "launching"
      /\ samples' = [samples EXCEPT ![next] = NoSamples]
  BY DEF Launch, service
<1>2. next \in Feeders /\ next \in next .. NumClis /\ next \in Nat
  BY BencherAssumption DEF TypeOK, Feeders
<1>3. line[next] = None
  BY <1>1, <1>2 DEF MainInv, Idle, FeederInv
<1>4. \/ next < NumClis /\ next' = next + 1 /\ main' = "launching"
      \/ next = NumClis /\ next' = 1 /\ main' = "waiting"
  BY <1>1, <1>2, BencherAssumption DEF Launch, Feeders
<1>5. Merged = 0 /\ Merged' = 0
  BY <1>1, <1>4 DEF Merged
<1>6. \A w \in CallWords : \A f \in Feeders : Count(f, w)' = Count(f, w)
  <2> TAKE w \in CallWords
  <2> TAKE f \in Feeders
  <2>1. CASE f = next
    <3>1. ~Launched(f) /\ samples'[f][w] = 0 /\ Held(f, w)' = 0
      BY <1>1, <1>2, <1>3, <2>1 DEF Launched, TypeOK, NoSamples, Held
    <3> QED
      BY <3>1 DEF Count
  <2>2. CASE f # next
    <3>1. Launched(f)' <=> Launched(f)
      BY <1>1, <1>2, <1>4, <2>2 DEF Launched, Feeders
    <3>2. samples'[f] = samples[f] /\ Held(f, w)' = Held(f, w)
      BY <1>1, <2>2 DEF TypeOK, Held
    <3> QED
      BY <3>1, <3>2 DEF Count
  <2> QED
    BY <2>1, <2>2
<1>7. \A w \in CallWords : Tallied(w)'
  BY <1>1, <1>5, <1>6, CountsStay DEF SampleInv, Running
<1> QED
  BY <1>1, <1>4, <1>5, <1>7 DEF SampleInv, Running

\* Main merges the samples of a feeder that has no call in flight; after the last
\* one, it has a sample of every call.
LEMMA CollectSamples ==
  ASSUME IInv, SampleInv, Collect
  PROVE  SampleInv'
<1> USE DEF IInv
<1>1. /\ UNCHANGED <<line, resp, samples, executed>> /\ main = "waiting" /\ ended[next]
      /\ stats' = [stats EXCEPT ![phase] = Merge(@, samples[next])]
  BY DEF Collect, service
<1>2. next \in Feeders /\ next \in Nat /\ phase \in Phases
  BY DEF TypeOK, Feeders
<1>3. Merged = next - 1 /\ stats[phase].merged = next - 1
  BY <1>1 DEF Merged, SampleInv, Running
<1>4. /\ stats'[phase] = [merged |-> next, samples |-> stats'[phase].samples]
      /\ \A w \in CallWords : stats'[phase].samples[w] = stats[phase].samples[w] + samples[next][w]
      /\ \A p \in Phases : p # phase => stats'[p] = stats[p]
  <2>1. stats'[phase] = Merge(stats[phase], samples[next])
    BY <1>1, <1>2 DEF TypeOK
  <2> QED
    BY <1>1, <1>2, <1>3, <2>1 DEF TypeOK, Merge
<1>5. ASSUME NEW w \in CallWords
      PROVE  \E sums \in [0 .. NumClis -> Nat] :
               /\ Sums(w, sums)
               /\ executed[phase][w] = sums[NumClis]
               /\ stats'[phase].samples[w] = sums[next]
  <2>1. PICK sums \in [0 .. NumClis -> Nat] :
          /\ Sums(w, sums)
          /\ executed[phase][w] = sums[NumClis]
          /\ stats[phase].samples[w] = sums[next - 1]
    BY <1>1, <1>3 DEF SampleInv, Tallied, Running
  <2>2. line[next] = None
    BY <1>1, <1>2 DEF FeederInv
  <2>3. Count(next, w) = samples[next][w]
    <3>1. samples[next][w] \in Nat
      BY <1>2 DEF TypeOK
    <3> QED
      BY <1>1, <2>2, <3>1 DEF Count, Launched, Held
  <2> QED
    BY <1>2, <1>4, <2>1, <2>3 DEF Sums
<1>6. CASE next < NumClis
  <2>1. next' = next + 1 /\ UNCHANGED <<main, phase>>
    BY <1>6 DEF Collect
  <2>2. Merged' = next
    BY <1>1, <1>2, <2>1 DEF Merged
  <2>3. \A w \in CallWords : \A f \in Feeders : Count(f, w)' = Count(f, w)
    BY <1>1, <2>1 DEF Count, Launched, Held
  <2>4. ASSUME NEW w \in CallWords PROVE Tallied(w)'
    <3>1. PICK sums \in [0 .. NumClis -> Nat] :
            /\ Sums(w, sums)
            /\ executed[phase][w] = sums[NumClis]
            /\ stats'[phase].samples[w] = sums[next]
      BY <1>5
    <3>2. Sums(w, sums)'
      BY <2>3, <3>1 DEF Sums
    <3> QED
      BY <1>1, <2>1, <2>2, <3>1, <3>2 DEF Tallied
  <2> QED
    BY <1>1, <1>4, <2>1, <2>2, <2>4 DEF SampleInv, Running, Phases
<1>7. CASE ~(next < NumClis)
  <2>1. PhaseOver /\ next = NumClis
    BY <1>2, <1>7, BencherAssumption DEF Collect, Feeders
  <2>2. stats'[phase] = [merged |-> NumClis, samples |-> executed[phase]]
    <3>1. \A w \in CallWords : stats'[phase].samples[w] = executed[phase][w]
      BY <1>5, <2>1
    <3>2. stats'[phase].samples \in [CallWords -> Nat] /\ executed[phase] \in [CallWords -> Nat]
      BY <1>2, CollectIInv DEF TypeOK, PhaseOver
    <3>3. stats'[phase].samples = executed[phase]
      BY <3>1, <3>2
    <3> QED
      BY <1>4, <2>1, <3>3
  <2>3. CASE phase = "load"
    <3>1. main' = "launching" /\ phase' = "run" /\ next' = 1
      BY <2>1, <2>3 DEF PhaseOver
    <3>2. /\ stats'["run"] = [merged |-> 0, samples |-> NoSamples]
          /\ executed'["run"] = NoSamples
      BY <1>1, <1>4, <2>3 DEF SampleInv, Phases
    <3>3. \A w \in CallWords : executed'[phase'][w] = 0 /\ stats'[phase'].samples[w] = 0
      BY <3>1, <3>2 DEF NoSamples
    <3>4. TypeOK'
      BY CollectIInv
    <3>5. \A w \in CallWords : Tallied(w)'
      BY <3>1, <3>3, <3>4, NothingCountedNext DEF NewPhase, AllTallied
    <3>6. Merged' = 0
      BY <3>1 DEF Merged
    <3> QED
      BY <1>1, <2>2, <2>3, <3>1, <3>2, <3>5, <3>6 DEF SampleInv, Running
  <2>4. CASE phase = "run"
    <3>1. main' = "done" /\ phase' = "run"
      BY <2>1, <2>4 DEF PhaseOver
    <3>2. \A f \in Feeders : line[f] = None
      <4> TAKE f \in Feeders
      <4>1. ended[f]
        BY <1>1, <2>1, BencherAssumption DEF MainInv, Feeders
      <4> QED
        BY <4>1 DEF FeederInv
    <3>3. stats'["load"] = stats["load"]
      BY <1>4, <2>4 DEF Phases
    <3> QED
      BY <1>1, <2>2, <2>4, <3>1, <3>2, <3>3 DEF SampleInv, Running
  <2> QED
    BY <1>2, <2>3, <2>4 DEF Phases
<1> QED
  BY <1>6, <1>7

(***************************************************************************)
(* The results are printed only when they are complete: for every number   *)
(* of clients and lines, with one sample for each call that the service    *)
(* has executed in the phase, whatever the feeders, the clients and the    *)
(* YCSB processes do.                                                      *)
(***************************************************************************)
THEOREM ReportIsComplete == Spec => []ReportComplete
<1>1. Init => IInv /\ SampleInv
  <2> SUFFICES ASSUME Init PROVE SampleInv
    BY InitIInv
  <2>1. TypeOK
    BY InitIInv DEF IInv
  <2>2. \A w \in CallWords : Tallied(w)
    BY <2>1, NothingCounted DEF Init, NewPhase, AllTallied, Phases, NoSamples
  <2> QED
    BY <2>2 DEF Init, SampleInv, Running, Merged, Phases, NoSamples
<1>2. IInv /\ SampleInv /\ [Next]_vars => (IInv /\ SampleInv)'
  <2> SUFFICES ASSUME IInv, SampleInv, [Next]_vars PROVE SampleInv'
    BY NextIInv
  <2>1. CASE Main
    <3>1. CASE LaunchFails \/ FeederFailed \/ WaitFails
      BY <3>1 DEF LaunchFails, FeederFailed, WaitFails, Fails, service, SampleInv, Running
    <3> QED
      BY <2>1, <3>1, LaunchSamples, CollectSamples DEF Main
  <2>2. ASSUME NEW f \in Feeders, Feeder(f) \/ Execute(f) PROVE SampleInv'
    BY <2>2, FeederSamples, ExecuteSamples
  <2>3. CASE UNCHANGED vars
    <3>1. UNCHANGED <<main, phase, next, stats, executed, line, resp, samples>>
      BY <2>3 DEF vars
    <3>2. \A w \in CallWords : \A f \in Feeders : Count(f, w)' = Count(f, w)
      BY <3>1 DEF Count, Launched, Held
    <3>3. UNCHANGED Merged
      BY <3>1 DEF Merged
    <3>4. Running => \A w \in CallWords : Tallied(w)'
      BY <3>1, <3>2, <3>3, CountsStay DEF SampleInv
    <3> QED
      BY <3>1, <3>3, <3>4 DEF SampleInv, Running
  <2> QED
    BY <2>1, <2>2, <2>3 DEF Next
<1>3. SampleInv => ReportComplete
  BY DEF SampleInv, ReportComplete, Phases
<1> QED
  BY <1>1, <1>2, <1>3, PTL DEF Spec

----------------------------------------------------------------------------
(***************************************************************************)
(* The 99th percentile.                                                    *)
(***************************************************************************)

\* The index is that of the 99th percentile, for every number of samples.
LEMMA P99IndexRight == \A n \in Nat \ {0} : IsP99(P99Index(n), n)
<1> TAKE n \in Nat \ {0}
<1> DEFINE c == Ceil99(n)
<1>1. c \in Nat /\ 100 * c >= 99 * n /\ 100 * c < 99 * n + 100
  BY DEF Ceil99
<1>2. c >= 1 /\ c <= n
  BY <1>1
<1>3. P99Index(n) = c - 1
  <2> HIDE DEF c
  <2>1. P99Index(n) = IF c - 1 < n - 1 THEN c - 1 ELSE n - 1
    BY <1>2 DEF P99Index, c
  <2> QED
    BY <1>1, <1>2, <2>1
<1> HIDE DEF c
<1> QED
  BY <1>1, <1>2, <1>3 DEF IsP99

(***************************************************************************)
(* The percentile that is printed is the right one, however many samples   *)
(* there are.                                                              *)
(***************************************************************************)
THEOREM PercentileRight == Spec => []P99Right
<1>1. IndexRight
  BY P99IndexRight, StatsAssumption DEF IndexRight
<1>2. P99Right
  BY <1>1 DEF P99Right
<1> QED
  BY <1>2, PTL
=============================================================================
