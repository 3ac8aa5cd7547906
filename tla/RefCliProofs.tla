---------------------------- MODULE RefCliProofs ----------------------------
(***************************************************************************)
(* Where the reference client is the service and where it is not, for any  *)
(* keys, values, number of lines and input: its scans are the only         *)
(* difference, and what they get wrong is said exactly.                    *)
(***************************************************************************)
EXTENDS RefCli, KVStoreProofs, SequenceTheorems

(***************************************************************************)
(* The inductive invariant: the map is a map, and only a call that was     *)
(* typed is carried out.                                                   *)
(***************************************************************************)
IInv ==
  /\ state \in Stores
  /\ stdin \in Seq(Inputs \cup {Stop, Invalid})
  /\ proc \in {"reading", "handling", "writing", "exited", "failed", "panicked"}
  /\ proc = "handling" => call \in Inputs

----------------------------------------------------------------------------
\* The instance's copies of the interface are the interface.
LEMMA SameInterface ==
  /\ A!Calls = Calls
  /\ A!Empty = Empty
  /\ \A d, k : A!Effect(d, k) = Effect(d, k)
  /\ \A d, k : A!Results(d, k) = Results(d, k)
<1>1. A!Calls = Calls /\ A!Empty = Empty
  BY DEF A!Calls, Calls, A!Empty, Empty, A!Keys, Keys
<1>2. \A d, k : A!Effect(d, k) = Effect(d, k)
  BY DEF A!Effect, Effect
<1>3. \A d, s, e : A!InRange(d, s, e) = InRange(d, s, e)
  BY DEF A!InRange, InRange, A!Keys, Keys
<1>4. \A l : A!Ascending(l) = Ascending(l)
  BY DEF A!Ascending, Ascending
<1>5. \A d, s, e : A!ScanLists(d, s, e) = ScanLists(d, s, e)
  BY <1>3, <1>4 DEF A!ScanLists, ScanLists
<1>6. \A d, k : A!Results(d, k) = Results(d, k)
  BY <1>5 DEF A!Results, Results
<1> QED
  BY <1>1, <1>2, <1>6

\* A range whose end is not stored is the same with and without its end.
LEMMA HalfOpen ==
  ASSUME NEW start \in Keys, NEW end \in Keys, state[end] = Nil
  PROVE  ScanLists(state, start, end - 1) = ScanLists(state, start, end)
<1>1. \A i \in Keys : state[i] # Nil => (i <= end - 1 <=> i <= end)
  BY DEF Keys
<1>2. InRange(state, start, end - 1) = InRange(state, start, end)
  BY <1>1 DEF InRange
<1> QED
  BY <1>2 DEF ScanLists

\* A range whose end is stored has that entry last, and the range without its
\* end has all the others.
LEMMA LastEntryMissing ==
  ASSUME NEW d \in Stores, NEW start \in Keys, NEW end \in Keys,
         start <= end, d[end] # Nil,
         NEW list \in ScanLists(d, start, end - 1),
         NEW full \in ScanLists(d, start, end)
  PROVE  list = SubSeq(full, 1, Len(full) - 1)
<1> DEFINE R == InRange(d, start, end)
           Q == InRange(d, start, end - 1)
           last == <<end, d[end]>>
           n == Len(full)
           cut == SubSeq(full, 1, n - 1)
<1>1. /\ n \in 0 .. NumKeys /\ NumKeys \in Nat
      /\ full \in [1 .. n -> R]
      /\ \A i, j \in 1 .. n : i < j => full[i][1] < full[j][1]
      /\ \A e \in R : \E i \in 1 .. n : full[i] = e
  <2>1. PICK m \in 0 .. NumKeys : full \in [1 .. m -> R]
    BY DEF ScanLists
  <2>2. n = m
    BY <2>1, KVAssumption
  <2> QED
    BY <2>1, <2>2, KVAssumption DEF ScanLists, Ascending
<1>2. /\ last \in R /\ last \notin Q /\ last[1] = end /\ end \in Nat
      /\ \A e \in R : e[1] \in Nat /\ e[1] <= end /\ (e \in Q \/ e = last)
      /\ \A e \in Q : e \in R
  BY KVAssumption DEF InRange, Keys
<1> HIDE DEF R, Q, last
<1>3. n \in 1 .. NumKeys /\ full[n] = last
  <2>1. PICK j \in 1 .. n : full[j] = last
    BY <1>1, <1>2
  <2>2. n \in Nat /\ n \in 1 .. n /\ full[n] \in R
    BY <1>1, <2>1
  <2>3. ~(j < n)
    <3>1. j < n => full[j][1] < full[n][1]
      BY <1>1, <2>1, <2>2
    <3>2. full[j][1] = end /\ full[n][1] \in Nat /\ full[n][1] <= end
      BY <1>2, <2>1, <2>2
    <3> QED
      BY <1>2, <3>1, <3>2
  <2> QED
    BY <1>1, <2>1, <2>2, <2>3
<1>4. /\ Len(cut) = n - 1 /\ cut \in Seq(R)
      /\ \A i \in 1 .. n - 1 : cut[i] = full[i]
  <2>1. 1 \in Int /\ n - 1 \in Int /\ \A i \in 1 .. n - 1 : full[i] \in R
    BY <1>1
  <2>2. /\ cut \in Seq(R)
        /\ Len(cut) = IF 1 <= n - 1 THEN (n - 1) - 1 + 1 ELSE 0
        /\ \A i \in 1 .. (n - 1) - 1 + 1 : cut[i] = full[1 + i - 1]
    BY <2>1, SubSeqProperties
  <2> HIDE DEF cut
  <2>3. Len(cut) = n - 1
    <3> HIDE DEF n
    <3>1. n \in Nat /\ (n = 1 \/ 1 <= n - 1)
      BY <1>1, <1>3
    <3> QED
      BY <2>2, <3>1
  <2>4. ASSUME NEW i \in 1 .. n - 1 PROVE cut[i] = full[i]
    <3>1. i \in 1 .. (n - 1) - 1 + 1 /\ 1 + i - 1 = i
      BY <1>3
    <3> QED
      BY <2>2, <3>1
  <2> QED
    BY <2>2, <2>3, <2>4
<1> HIDE DEF cut
<1>5. cut \in [1 .. n - 1 -> Q]
  <2>1. ASSUME NEW i \in 1 .. n - 1 PROVE cut[i] \in Q
    <3>1. i \in 1 .. n /\ n \in 1 .. n /\ i < n
      BY <1>3
    <3>2. full[i] \in R /\ full[i][1] < full[n][1]
      BY <1>1, <3>1
    <3>3. full[i] # last
      BY <1>2, <1>3, <3>2
    <3> QED
      BY <1>2, <1>4, <3>2, <3>3
  <2>2. cut = [i \in 1 .. n - 1 |-> cut[i]]
    BY <1>3, <1>4
  <2> QED
    BY <2>1, <2>2
<1>6. Ascending(cut)
  BY <1>1, <1>3, <1>4 DEF Ascending
<1>7. \A e \in Q : \E i \in 1 .. Len(cut) : cut[i] = e
  <2> TAKE e \in Q
  <2>1. PICK i \in 1 .. n : full[i] = e
    BY <1>1, <1>2
  <2>2. i # n
    BY <1>2, <1>3, <2>1
  <2> QED
    BY <1>3, <1>4, <2>1, <2>2
<1>8. cut \in ScanLists(d, start, end - 1)
  <2>1. n - 1 \in 0 .. NumKeys
    BY <1>1, <1>3
  <2> QED
    BY <1>5, <1>6, <1>7, <2>1 DEF ScanLists, Q
<1> QED
  BY <1>8, SameScanList DEF cut

----------------------------------------------------------------------------
\* The initial state satisfies the invariant.
LEMMA InitIInv == Init => IInv
BY KVAssumption DEF Init, IInv, Stores, Empty

\* Every step preserves the invariant.
LEMMA NextIInv ==
  ASSUME Inputs \subseteq Calls
  PROVE  IInv /\ [Next]_vars => IInv'
<1> SUFFICES ASSUME IInv, [Next]_vars PROVE IInv'
  OBVIOUS
<1> USE DEF IInv
<1>1. CASE Type
  BY <1>1 DEF Type
<1>2. CASE ReadCall
  <2>1. Head(stdin) \in Inputs \cup {Stop, Invalid} /\ Tail(stdin) \in Seq(Inputs \cup {Stop, Invalid})
    BY <1>2 DEF ReadCall
  <2>2. Head(stdin) # Stop /\ Head(stdin) # Invalid
    BY <1>2, CallFields DEF ReadCall, Stop, Invalid
  <2> QED
    BY <1>2, <2>1, <2>2 DEF ReadCall
<1>3. CASE ReadLast
  BY <1>3 DEF ReadLast
<1>4. CASE Handle
  <2>1. call \in Calls
    BY <1>4 DEF Handle
  <2>2. Effect(state, call) \in Stores
    BY <2>1, InterfaceTypes
  <2> QED
    BY <1>4, <2>2 DEF Handle
<1>5. CASE HandleScan \/ ScanPanics \/ Write \/ WriteFails \/ ReadFails
  BY <1>5 DEF HandleScan, ScanPanics, Write, WriteFails, ReadFails
<1>6. CASE UNCHANGED vars
  BY <1>6 DEF vars
<1> QED
  BY <1>1, <1>2, <1>3, <1>4, <1>5, <1>6 DEF Next, Main

----------------------------------------------------------------------------
\* The initial states are initial states of AtomicKV.
LEMMA InitRefines == Init => A!Init
BY SameInterface DEF Init, A!Init, cliBar, opBar

\* A scan that is answered is a scan of the service, or misses its last entry.
LEMMA ScanRefines ==
  ASSUME Inputs \subseteq Calls, IInv, HandleScan
  PROVE  A!Execute(1) \/ EndMissing
<1> USE DEF cliBar, opBar
<1>1. call.op = "Scan" /\ call.start <= call.end /\ call.start \in Keys /\ call.end \in Keys
  BY CallFields DEF HandleScan, IInv
<1>2. CASE state[call.end] = Nil
  <2>1. ScanLists(state, call.start, call.end - 1) = ScanLists(state, call.start, call.end)
    BY <1>1, <1>2, HalfOpen
  <2>2. \E r \in Results(state, call) : resp' = r
    BY <1>1, <2>1 DEF HandleScan, Results
  <2>3. state' = Effect(state, call)
    BY <1>1 DEF HandleScan, Effect
  <2>4. /\ cliBar = "waiting" /\ opBar = "pending"
        /\ cliBar' = "waiting" /\ opBar' = "done" /\ call' = call
    BY DEF HandleScan
  <2> HIDE DEF cliBar, opBar
  <2>5. A!Execute(1)
    BY <2>2, <2>3, <2>4, SameInterface DEF A!Execute
  <2> QED
    BY <2>5
<1>3. CASE state[call.end] # Nil
  <2>1. PICK list \in ScanLists(state, call.start, call.end - 1) :
          resp' = [op |-> "Scan", start |-> call.start, end |-> call.end, entries |-> list]
    BY DEF HandleScan
  <2>2. state \in Stores
    BY DEF IInv
  <2>3. PICK full \in ScanLists(state, call.start, call.end) : TRUE
    <3>1. \A s, e \in Keys : ScanLists(state, s, e) # {}
      BY <2>2, ScanListExists
    <3> QED
      BY <1>1, <3>1
  <2>4. list = SubSeq(full, 1, Len(full) - 1)
    <3> DEFINE s == call.start
               e == call.end
    <3>1. s \in Keys /\ e \in Keys /\ s <= e /\ state[e] # Nil
      BY <1>1, <1>3
    <3>2. list \in ScanLists(state, s, e - 1) /\ full \in ScanLists(state, s, e)
      BY <2>1, <2>3
    <3> HIDE DEF s, e
    <3> QED
      BY <2>2, <3>1, <3>2, LastEntryMissing
  <2>5. EndMissing
    BY <1>1, <1>3, <2>1, <2>3, <2>4 DEF HandleScan, EndMissing
  <2> QED
    BY <2>5
<1> QED
  BY <1>2, <1>3

\* Every step maps to a step of AtomicKV, to a stutter, or to one of the two
\* steps that are told apart.
LEMMA NextRefines ==
  ASSUME Inputs \subseteq Calls
  PROVE  IInv /\ [Next]_vars => [A!Next \/ EndMissing \/ RangePanics]_(A!vars)
<1> SUFFICES ASSUME IInv, [Next]_vars
             PROVE  [A!Next \/ EndMissing \/ RangePanics]_(A!vars)
  OBVIOUS
<1> USE DEF cliBar, opBar
<1>1. CASE Type \/ UNCHANGED vars
  <2>1. UNCHANGED <<state, proc, call, resp>>
    BY <1>1 DEF Type, vars
  <2>2. UNCHANGED A!vars
    BY <2>1 DEF A!vars
  <2> QED
    BY <2>2
<1>2. CASE ReadCall
  <2>1. A!Invoke(1, Head(stdin)) /\ Head(stdin) \in A!Calls
    BY <1>2, SameInterface DEF ReadCall, A!Invoke
  <2> QED
    BY <2>1 DEF A!Next
<1>3. CASE ReadLast \/ ReadFails
  <2>1. A!Quit(1)
    BY <1>3 DEF ReadLast, ReadFails, A!Quit
  <2> QED
    BY <2>1 DEF A!Next
<1>4. CASE Handle
  <2>1. A!Execute(1)
    BY <1>4, SameInterface DEF Handle, A!Execute
  <2> QED
    BY <2>1 DEF A!Next
<1>5. CASE HandleScan
  <2>1. A!Execute(1) \/ EndMissing
    BY <1>5, ScanRefines
  <2> QED
    BY <2>1 DEF A!Next
<1>6. CASE ScanPanics
  BY <1>6 DEF ScanPanics, RangePanics
<1>7. CASE Write
  <2>1. A!Return(1)
    BY <1>7 DEF Write, A!Return
  <2> QED
    BY <2>1 DEF A!Next
<1>8. CASE WriteFails
  <2>1. A!Fail(1)
    BY <1>8 DEF WriteFails, A!Fail
  <2> QED
    BY <2>1 DEF A!Next
<1> QED
  BY <1>1, <1>2, <1>3, <1>4, <1>5, <1>6, <1>7, <1>8 DEF Next, Main

(***************************************************************************)
(* For every number of keys and values, every input and any number of      *)
(* lines: each step of the reference client is one that the service could  *)
(* take, or a scan that misses the entry at the end of its range and that  *)
(* entry only, or a scan whose start is greater than its end and which     *)
(* ends the client.                                                        *)
(***************************************************************************)
THEOREM ReferenceDivergesOnlyInScans ==
  ASSUME Inputs \subseteq Calls
  PROVE  Spec => DivergesOnlyInScans
<1>1. IInv /\ [Next]_vars => IInv'
  BY NextIInv
<1>2. IInv /\ [Next]_vars => [A!Next \/ EndMissing \/ RangePanics]_(A!vars)
  BY NextRefines
<1> QED
  BY <1>1, <1>2, InitIInv, InitRefines, PTL DEF Spec, DivergesOnlyInScans
=============================================================================
