--------------------------- MODULE KVStoreProofs ----------------------------
(***************************************************************************)
(* Facts that the proofs about several components rest on: numbers, calls, *)
(* and what the interface says of a call that is executed; and that this   *)
(* is exactly one answer.                                                  *)
(***************************************************************************)
EXTENDS KVStore, WellFoundedInduction, TLAPS

\* A non-empty set of natural numbers has a least element.
LEMMA LeastExists ==
  ASSUME NEW S \in SUBSET Nat, S # {}
  PROVE  \E x \in S : \A y \in S : x <= y
<1> DEFINE R == OpToRel(<, Nat)
<1>1. IsWellFoundedOn(R, Nat)
  BY NatLessThanWellFounded
<1>2. \E x \in S : \A y \in S : ~(<<y, x>> \in R)
  <2> HIDE DEF R
  <2> QED
    BY <1>1, WFMin
<1>3. ASSUME NEW x \in S, NEW y \in S, y < x PROVE <<y, x>> \in R
  BY <1>3 DEF OpToRel
<1>4. \A x, y \in S : y < x \/ x <= y
  OBVIOUS
<1> HIDE DEF R
<1>5. PICK x \in S : \A y \in S : ~(<<y, x>> \in R)
  BY <1>2
<1>6. \A y \in S : ~(y < x)
  BY <1>3, <1>5
<1> QED
  BY <1>4, <1>6

\* A non-empty set of natural numbers that is bounded has a greatest element.
LEMMA GreatestExists ==
  ASSUME NEW n \in Nat, NEW S \in SUBSET (0 .. n), S # {}
  PROVE  \E x \in S : \A y \in S : y <= x
<1>1. \A k \in S : k \in Nat /\ k <= n /\ n - k \in Nat
  <2> TAKE k \in S
  <2>1. k \in 0 .. n
    BY S \subseteq 0 .. n
  <2> QED
    BY <2>1
<1> DEFINE T == {n - k : k \in S}
<1>2. T \in SUBSET Nat /\ T # {}
  <2>1. \A u \in T : u \in Nat
    BY <1>1
  <2>2. PICK k \in S : TRUE
    OBVIOUS
  <2>3. n - k \in T
    OBVIOUS
  <2> QED
    BY <2>1, <2>3
<1>3. PICK t \in T : \A u \in T : t <= u
  BY <1>2, LeastExists
<1>4. PICK k \in S : t = n - k
  OBVIOUS
<1>5. \A j \in S : n - k <= n - j
  BY <1>3, <1>4
<1> QED
  BY <1>1, <1>5

\* A call has one of the five operations, and the fields that go with it.
LEMMA CallFields ==
  ASSUME NEW k \in Calls
  PROVE  /\ k.op \in {"Put", "Swap", "Get", "Delete", "Scan"}
         /\ k.op # "Scan" => k.key \in Keys
         /\ k.op \in {"Put", "Swap"} => k.value \in Values
         /\ k.op = "Scan" => k.start \in Keys /\ k.end \in Keys
BY DEF Calls

\* What the interface says of a call that is executed has its type.
LEMMA InterfaceTypes ==
  ASSUME NEW d \in Stores, NEW k \in Calls
  PROVE  Effect(d, k) \in Stores /\ Results(d, k) \subseteq Answers
<1>1. Effect(d, k) \in Stores
  BY DEF Effect, Stores, Calls
<1>2. CASE k.op \in {"Put", "Delete"}
  <2> DEFINE found == d[k.key] # Nil
  <2>1. k.key \in Keys /\ found \in BOOLEAN
    BY <1>2 DEF Calls
  <2>2. Results(d, k) = {[op |-> k.op, key |-> k.key, found |-> found]}
    BY <1>2 DEF Results
  <2> HIDE DEF found
  <2> QED
    BY <1>1, <1>2, <2>1, <2>2 DEF Answers
<1>3. CASE k.op \in {"Swap", "Get"}
  BY <1>1, <1>3 DEF Results, Answers, Calls, Stores
<1>4. CASE k.op = "Scan"
  <2> SUFFICES ASSUME NEW list \in ScanLists(d, k.start, k.end)
               PROVE  [op |-> "Scan", start |-> k.start, end |-> k.end, entries |-> list]
                        \in Answers
    BY <1>1, <1>4 DEF Results
  <2>1. PICK n \in 0 .. NumKeys : list \in [1 .. n -> InRange(d, k.start, k.end)]
    BY DEF ScanLists
  <2>2. InRange(d, k.start, k.end) \subseteq Entries
    BY DEF InRange, Entries, Stores
  <2>3. list \in Seq(Entries)
    BY <2>1, <2>2, KVAssumption
  <2>4. k.start \in Keys /\ k.end \in Keys
    BY <1>4 DEF Calls
  <2> QED
    BY <2>3, <2>4 DEF Answers
<1> QED
  BY <1>2, <1>3, <1>4 DEF Calls

----------------------------------------------------------------------------
(***************************************************************************)
(* The list of a Scan is described in KVStore, not computed.  There is     *)
(* exactly one that fits the description.                                  *)
(***************************************************************************)
\* Appending a larger key keeps a list ascending, and adds one element to it.
LEMMA AppendAscending ==
  ASSUME NEW s \in Seq(Entries), NEW e \in Entries, Ascending(s),
         \A i \in 1 .. Len(s) : s[i][1] < e[1]
  PROVE  /\ Append(s, e) \in Seq(Entries)
         /\ Len(Append(s, e)) = Len(s) + 1
         /\ Ascending(Append(s, e))
         /\ {Append(s, e)[i] : i \in 1 .. Len(Append(s, e))}
              = {s[i] : i \in 1 .. Len(s)} \cup {e}
<1>1. Len(s) \in Nat /\ Append(s, e) \in Seq(Entries) /\ Len(Append(s, e)) = Len(s) + 1
  OBVIOUS
<1>2. /\ \A i \in 1 .. Len(s) : Append(s, e)[i] = s[i]
      /\ Append(s, e)[Len(s) + 1] = e
  OBVIOUS
<1>3. Ascending(Append(s, e))
  <2> SUFFICES ASSUME NEW i \in 1 .. Len(s) + 1, NEW j \in 1 .. Len(s) + 1, i < j
               PROVE  Append(s, e)[i][1] < Append(s, e)[j][1]
    BY <1>1 DEF Ascending
  <2>1. i \in 1 .. Len(s)
    BY <1>1
  <2>2. CASE j \in 1 .. Len(s)
    BY <1>2, <2>1, <2>2 DEF Ascending
  <2>3. CASE j = Len(s) + 1
    BY <1>2, <2>1, <2>3
  <2> QED
    BY <1>1, <2>2, <2>3
<1>4. {Append(s, e)[i] : i \in 1 .. Len(Append(s, e))} = {s[i] : i \in 1 .. Len(s)} \cup {e}
  <2>1. 1 .. Len(Append(s, e)) = (1 .. Len(s)) \cup {Len(s) + 1}
    BY <1>1
  <2> QED
    BY <1>2, <2>1
<1> QED
  BY <1>1, <1>3, <1>4

\* A set that has 0, and with a number also the next one, has all numbers up to n.
LEMMA UpTo ==
  ASSUME NEW n \in Nat, NEW S, 0 \in S, \A i \in 0 .. n : i # n /\ i \in S => i + 1 \in S
  PROVE  \A i \in 0 .. n : i \in S
<1> DEFINE Missing == {i \in 0 .. n : i \notin S}
<1> SUFFICES ASSUME Missing # {} PROVE FALSE
  OBVIOUS
<1>1. Missing \in SUBSET Nat
  OBVIOUS
<1>2. PICK m \in Missing : \A i \in Missing : m <= i
  BY <1>1, LeastExists
<1>3. m \in 0 .. n /\ m \notin S /\ m # 0
  OBVIOUS
<1>4. m - 1 \in 0 .. n /\ m - 1 # n /\ (m - 1) + 1 = m /\ ~(m <= m - 1)
  BY <1>3
<1>5. m - 1 \in S
  BY <1>2, <1>4
<1> QED
  BY <1>3, <1>4, <1>5

\* The entries with keys up to a key are those with smaller keys, and its own if
\* it is present and in the range.
LEMMA InRangeGrows ==
  ASSUME NEW d \in Stores, NEW start \in Keys, NEW k \in Keys
  PROVE  InRange(d, start, k) = InRange(d, start, k - 1)
           \cup (IF start <= k /\ d[k] # Nil THEN {<<k, d[k]>>} ELSE {})
<1> DEFINE In(e) == {m \in Keys : start <= m /\ m <= e /\ d[m] # Nil}
<1>1. \A m \in Keys : m <= k <=> m <= k - 1 \/ m = k
  BY KVAssumption DEF Keys
<1>2. k \in Keys /\ k <= k
  BY KVAssumption DEF Keys
<1>3. In(k) = In(k - 1) \cup (IF start <= k /\ d[k] # Nil THEN {k} ELSE {})
  BY <1>1, <1>2
<1> QED
  BY <1>3 DEF InRange

\* There is a list for each range.
LEMMA ScanListExists ==
  ASSUME NEW d \in Stores, NEW start \in Keys, NEW end \in Keys
  PROVE  ScanLists(d, start, end) # {}
<1> DEFINE Fits(list, e) ==
             /\ Ascending(list)
             /\ Len(list) <= e
             /\ {list[i] : i \in 1 .. Len(list)} = InRange(d, start, e)
           S == {e \in 0 .. NumKeys : \E list \in Seq(Entries) : Fits(list, e)}
<1>1. NumKeys \in Nat /\ Keys = 1 .. NumKeys
  BY KVAssumption DEF Keys
<1>2. 0 \in S
  <2>1. InRange(d, start, 0) = {}
    BY <1>1 DEF InRange
  <2>2. <<>> \in Seq(Entries) /\ Len(<<>>) = 0 /\ Ascending(<<>>)
    BY DEF Ascending
  <2>3. {<<>>[i] : i \in 1 .. Len(<<>>)} = {}
    BY <2>2
  <2>4. Fits(<<>>, 0)
    BY <2>1, <2>2, <2>3
  <2> HIDE DEF Fits
  <2>5. \E list \in Seq(Entries) : Fits(list, 0)
    BY <2>2, <2>4
  <2>6. 0 \in 0 .. NumKeys
    BY <1>1
  <2> QED
    BY <2>5, <2>6
<1>3. ASSUME NEW i \in 0 .. NumKeys, i # NumKeys, i \in S PROVE i + 1 \in S
  <2>1. PICK list \in Seq(Entries) : Fits(list, i)
    BY <1>3
  <2> DEFINE k == i + 1
  <2>2. k \in Keys /\ k - 1 = i /\ k \in 0 .. NumKeys /\ i \in Nat /\ i < k
    BY <1>1, <1>3
  <2>3. Len(list) \in Nat
    OBVIOUS
  <2>4. CASE start <= k /\ d[k] # Nil
    <3> DEFINE more == Append(list, <<k, d[k]>>)
    <3>1. <<k, d[k]>> \in Entries
      BY <2>2, <2>4 DEF Stores, Entries
    <3>2. \A j \in 1 .. Len(list) : list[j][1] < <<k, d[k]>>[1]
      <4> TAKE j \in 1 .. Len(list)
      <4>1. list[j] \in InRange(d, start, i)
        BY <2>1
      <4>2. PICK m \in Keys : list[j] = <<m, d[m]>> /\ m <= i
        BY <4>1 DEF InRange
      <4> QED
        BY <1>1, <2>2, <4>2
    <3> HIDE DEF k
    <3>3. /\ more \in Seq(Entries)
          /\ Len(more) = Len(list) + 1
          /\ Ascending(more)
          /\ {more[j] : j \in 1 .. Len(more)}
               = {list[j] : j \in 1 .. Len(list)} \cup {<<k, d[k]>>}
      BY <2>1, <3>1, <3>2, AppendAscending
    <3>4. InRange(d, start, k) = InRange(d, start, i) \cup {<<k, d[k]>>}
      BY <2>2, <2>4, InRangeGrows
    <3>5. Len(more) <= k
      BY <2>1, <2>2, <2>3, <3>3
    <3>6. Fits(more, k)
      <4> HIDE DEF more
      <4> QED
        BY <2>1, <3>3, <3>4, <3>5
    <3> HIDE DEF more, Fits
    <3> QED
      BY <2>2, <3>3, <3>6 DEF k
  <2>5. CASE ~(start <= k /\ d[k] # Nil)
    <3> HIDE DEF k
    <3>1. InRange(d, start, k) = InRange(d, start, i)
      <4>1. InRange(d, start, k) = InRange(d, start, k - 1) \cup {}
        BY <2>2, <2>5, InRangeGrows
      <4> QED
        BY <2>2, <4>1
    <3>2. Fits(list, k)
      BY <2>1, <2>2, <2>3, <3>1
    <3> HIDE DEF Fits
    <3> QED
      BY <2>2, <3>2 DEF k
  <2> QED
    BY <2>4, <2>5
<1>4. \A e \in 0 .. NumKeys : e \in S
  <2> HIDE DEF S
  <2> QED
    BY <1>1, <1>2, <1>3, UpTo
<1>5. end \in 0 .. NumKeys
  BY <1>1
<1>6. PICK list \in Seq(Entries) : Fits(list, end)
  BY <1>4, <1>5
<1>7. Len(list) \in 0 .. NumKeys /\ list \in [1 .. Len(list) -> InRange(d, start, end)]
  BY <1>1, <1>5, <1>6
<1>8. \A e \in InRange(d, start, end) : \E i \in 1 .. Len(list) : list[i] = e
  BY <1>6
<1>9. list \in ScanLists(d, start, end)
  BY <1>6, <1>7, <1>8 DEF ScanLists
<1> QED
  BY <1>9

\* Two lists for a range agree as far as the first one goes.
LEMMA ScanListsAgree ==
  ASSUME NEW d \in Stores, NEW start \in Keys, NEW end,
         NEW l1 \in ScanLists(d, start, end), NEW l2 \in ScanLists(d, start, end)
  PROVE  /\ Len(l1) \in Nat /\ DOMAIN l1 = 1 .. Len(l1)
         /\ Len(l1) <= Len(l2)
         /\ \A i \in 1 .. Len(l1) : l1[i] = l2[i]
<1> DEFINE R == InRange(d, start, end)
           n1 == Len(l1)
           n2 == Len(l2)
<1>1. /\ n1 \in Nat /\ n2 \in Nat /\ DOMAIN l1 = 1 .. n1
      /\ l1 \in [1 .. n1 -> R] /\ l2 \in [1 .. n2 -> R]
      /\ \A i, j \in 1 .. n1 : i < j => l1[i][1] < l1[j][1]
      /\ \A i, j \in 1 .. n2 : i < j => l2[i][1] < l2[j][1]
      /\ \A e \in R : \E i \in 1 .. n1 : l1[i] = e
      /\ \A e \in R : \E i \in 1 .. n2 : l2[i] = e
  <2>1. PICK m1 \in 0 .. NumKeys : l1 \in [1 .. m1 -> R]
    BY DEF ScanLists
  <2>2. PICK m2 \in 0 .. NumKeys : l2 \in [1 .. m2 -> R]
    BY DEF ScanLists
  <2>3. m1 \in Nat /\ m2 \in Nat /\ n1 = m1 /\ n2 = m2
    BY <2>1, <2>2, KVAssumption
  <2> QED
    BY <2>1, <2>2, <2>3 DEF ScanLists, Ascending
<1>2. \A e \in R : e[1] \in Nat
  BY KVAssumption DEF InRange, Keys
<1>3. \A e, f \in R : e[1] = f[1] => e = f
  BY DEF InRange
<1> HIDE DEF R, n1, n2
\* An entry of the first list is in the second one at the same place.
<1> DEFINE Odd == {i \in 1 .. n1 : ~(i <= n2 /\ l1[i] = l2[i])}
<1>4. Odd = {}
  <2> SUFFICES ASSUME Odd # {} PROVE FALSE
    OBVIOUS
  <2>1. Odd \in SUBSET Nat
    OBVIOUS
  <2>2. PICK i \in Odd : \A j \in Odd : i <= j
    <3> HIDE DEF Odd
    <3> QED
      BY <2>1, LeastExists
  <2>3. i \in 1 .. n1 /\ \A j \in 1 .. n1 : j < i => j <= n2 /\ l1[j] = l2[j]
    BY <1>1, <2>2
  <2>4. l1[i] \in R /\ \A j \in 1 .. n1 : l1[j] \in R
    BY <1>1, <2>3
  <2>5. PICK j \in 1 .. n2 : l2[j] = l1[i]
    BY <1>1, <2>4
  <2>6. ~(j < i)
    <3> SUFFICES ASSUME j < i PROVE FALSE
      OBVIOUS
    <3>1. j \in 1 .. n1 /\ l1[j] = l1[i]
      BY <1>1, <2>3, <2>5
    <3>2. l1[j][1] < l1[i][1] /\ l1[i][1] \in Nat
      BY <1>1, <1>2, <2>3, <2>4, <3>1
    <3> QED
      BY <3>1, <3>2
  <2>7. i \in 1 .. n2 /\ l2[i] \in R /\ i # j
    BY <1>1, <2>2, <2>3, <2>5, <2>6
  <2>8. i < j /\ l2[i][1] < l2[j][1]
    <3>1. i \in Nat /\ j \in Nat
      BY <1>1, <2>7
    <3>2. i < j
      BY <2>6, <2>7, <3>1
    <3> HIDE DEF Odd
    <3> QED
      BY <1>1, <2>7, <3>2
  <2>9. PICK m \in 1 .. n1 : l1[m] = l2[i]
    BY <1>1, <2>7
  <2>10. CASE m < i
    <3>1. m \in 1 .. n2 /\ l2[m] = l2[i]
      BY <1>1, <2>3, <2>9, <2>10
    <3>2. l2[m][1] < l2[i][1] /\ l2[i][1] \in Nat
      BY <1>1, <1>2, <2>7, <2>10, <3>1
    <3> QED
      BY <3>1, <3>2
  <2>11. CASE m = i
    BY <2>2, <2>7, <2>9, <2>11
  <2>12. CASE i < m
    <3>1. l1[i][1] < l1[m][1]
      BY <1>1, <2>3, <2>12
    <3>2. l1[i][1] \in Nat /\ l1[m][1] \in Nat
      BY <1>2, <2>4
    <3>3. l1[i][1] < l2[i][1] /\ l2[i][1] < l1[i][1] /\ l2[i][1] \in Nat
      BY <2>5, <2>8, <2>9, <3>1, <3>2
    <3> QED
      BY <3>2, <3>3
  <2> QED
    BY <1>1, <2>3, <2>10, <2>11, <2>12
<1>5. \A i \in 1 .. n1 : i <= n2 /\ l1[i] = l2[i]
  BY <1>4
<1>6. n1 <= n2
  <2>1. CASE n1 = 0
    BY <1>1, <2>1
  <2>2. CASE n1 # 0
    BY <1>1, <1>5, <2>2
  <2> QED
    BY <2>1, <2>2
<1> QED
  BY <1>1, <1>5, <1>6 DEF n1, n2

\* No two lists fit the description of a scan.
LEMMA SameScanList ==
  ASSUME NEW d \in Stores, NEW start \in Keys, NEW end,
         NEW l1 \in ScanLists(d, start, end), NEW l2 \in ScanLists(d, start, end)
  PROVE  l1 = l2
<1>1. /\ Len(l1) \in Nat /\ DOMAIN l1 = 1 .. Len(l1)
      /\ Len(l1) <= Len(l2)
      /\ \A i \in 1 .. Len(l1) : l1[i] = l2[i]
  BY ScanListsAgree
<1>2. Len(l2) \in Nat /\ DOMAIN l2 = 1 .. Len(l2) /\ Len(l2) <= Len(l1)
  BY ScanListsAgree
<1>3. Len(l1) = Len(l2)
  <2> DEFINE n1 == Len(l1)
             n2 == Len(l2)
  <2>1. n1 \in Nat /\ n2 \in Nat /\ n1 <= n2 /\ n2 <= n1
    BY <1>1, <1>2
  <2> HIDE DEF n1, n2
  <2>2. n1 = n2
    BY <2>1
  <2> QED
    BY <2>2 DEF n1, n2
<1>4. l1 = [i \in DOMAIN l1 |-> l1[i]] /\ l2 = [i \in DOMAIN l2 |-> l2[i]]
  BY DEF ScanLists
<1> QED
  BY <1>1, <1>2, <1>3, <1>4

\* Exactly one does.
LEMMA OneScanList ==
  ASSUME NEW d \in Stores, NEW start \in Keys, NEW end \in Keys
  PROVE  \E list : ScanLists(d, start, end) = {list}
<1>1. \A l1, l2 \in ScanLists(d, start, end) : l1 = l2
  BY SameScanList
<1>2. PICK list \in ScanLists(d, start, end) : TRUE
  BY ScanListExists
<1>3. ScanLists(d, start, end) = {list}
  BY <1>1, <1>2
<1> QED
  BY <1>3

(***************************************************************************)
(* The interface leaves no choice and no gap: on every map, every call has *)
(* exactly one answer.  So the service that implements AtomicKV may answer *)
(* a call that it executes in one way only, and every call, each Scan      *)
(* included, can be executed.                                              *)
(***************************************************************************)
THEOREM OneAnswer ==
  \A d \in Stores : \A call \in Calls : \E r \in Answers : Results(d, call) = {r}
<1> TAKE d \in Stores
<1> TAKE call \in Calls
<1>1. Results(d, call) \subseteq Answers
  BY InterfaceTypes
<1>2. CASE call.op = "Scan"
  <2>1. PICK list : ScanLists(d, call.start, call.end) = {list}
    <3>1. call.start \in Keys /\ call.end \in Keys
      BY <1>2, CallFields
    <3>2. \A start, end \in Keys : \E list : ScanLists(d, start, end) = {list}
      BY OneScanList
    <3> QED
      BY <3>1, <3>2
  <2>2. Results(d, call)
          = {[op |-> "Scan", start |-> call.start, end |-> call.end, entries |-> list]}
    BY <1>2, <2>1 DEF Results
  <2> QED
    BY <1>1, <2>2
<1>3. CASE call.op \in {"Put", "Delete"}
  <2> DEFINE r == [op |-> call.op, key |-> call.key, found |-> d[call.key] # Nil]
  <2>1. Results(d, call) = {r}
    BY <1>3 DEF Results
  <2> HIDE DEF r
  <2> QED
    BY <1>1, <2>1
<1>4. CASE call.op \in {"Swap", "Get"}
  <2> DEFINE r == [op |-> call.op, key |-> call.key, value |-> d[call.key]]
  <2>1. Results(d, call) = {r}
    BY <1>4 DEF Results
  <2> HIDE DEF r
  <2> QED
    BY <1>1, <2>1
<1> QED
  BY <1>2, <1>3, <1>4, CallFields
=============================================================================
