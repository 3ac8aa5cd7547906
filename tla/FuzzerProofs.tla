---------------------------- MODULE FuzzerProofs ----------------------------
(***************************************************************************)
(* Proofs that the fuzz tester keeps its history in order, trims nothing   *)
(* that a check needs, makes each check when its outcome is settled, and   *)
(* raises no false alarm: for any number of clients, keys and calls, any   *)
(* choice of keys and operations, and every interleaving of the service.   *)
(***************************************************************************)
EXTENDS Fuzzer, KVStoreProofs, FiniteSetTheorems, SequenceTheorems

----------------------------------------------------------------------------
(***************************************************************************)
(* Least and greatest elements.                                            *)
(***************************************************************************)

\* Min of a set of numbers that is not empty.
LEMMA MinOf ==
  ASSUME NEW S \in SUBSET Nat, S # {}
  PROVE  Min(S) \in S /\ \A y \in S : Min(S) <= y
<1>1. \E x \in S : \A y \in S : x <= y
  BY LeastExists
<1> QED
  BY <1>1 DEF Min

\* Max of a set of numbers that is not empty and has a bound.
LEMMA MaxOf ==
  ASSUME NEW n \in Nat, NEW S \in SUBSET (0 .. n), S # {}
  PROVE  Max(S) \in S /\ \A y \in S : y <= Max(S)
<1>1. \E x \in S : \A y \in S : x >= y
  <2>1. PICK x \in S : \A y \in S : y <= x
    BY GreatestExists
  <2>2. \A y \in S : x >= y
    BY <2>1
  <2> QED
    BY <2>2
<1>2. Max(S) \in S /\ \A y \in S : Max(S) >= y
  BY <1>1 DEF Max
<1> QED
  BY <1>2

\* The time before which every client has acknowledged an update.
LEMMA ComingIs ==
  ASSUME NEW max \in [Clients -> Nat]
  PROVE  /\ MinComing(max) \in Nat
         /\ \A c \in Clients : MinComing(max) <= max[c]
         /\ \E c \in Clients : MinComing(max) = max[c]
<1> DEFINE S == Range(max)
<1>1. S = {max[c] : c \in Clients}
  BY DEF Range
<1>2. S \in SUBSET Nat /\ S # {}
  BY <1>1, FuzzerAssumption
<1>3. Min(S) \in S /\ \A y \in S : Min(S) <= y
  <2> HIDE DEF S
  <2> QED
    BY <1>2, MinOf
<1> QED
  BY <1>1, <1>2, <1>3 DEF MinComing

----------------------------------------------------------------------------
(***************************************************************************)
(* The lists of updates.                                                   *)
(***************************************************************************)
Checkable == [ts_call : Times, ts_resp : Times, resp : Answers]

Ordered(s) ==
  /\ s # <<>>
  /\ \A i \in DOMAIN s : s[i].ts_call <= s[i].ts_resp
  /\ \A i, j \in DOMAIN s : i < j => s[i].ts_resp < s[j].ts_call

\* The times of calls and responses are numbers.
LEMMA TimesAreNumbers ==
  /\ TotalOps \in Nat /\ Times \subseteq Nat /\ {0} \cup Times \subseteq Nat
  /\ \A t \in Times : 1 <= t /\ t <= 2 * TotalOps
BY FuzzerAssumption DEF Times

\* So are those of the spans in a list.
LEMMA SpanTimes ==
  ASSUME NEW s \in Seq(Spans), NEW i \in DOMAIN s
  PROVE  s[i] \in Spans /\ s[i].ts_call \in Nat /\ s[i].ts_resp \in Nat
<1>1. s[i] \in Spans
  OBVIOUS
<1> QED
  BY <1>1, TimesAreNumbers DEF Spans

\* What SubSeq keeps of the end of a list.
LEMMA SuffixIs ==
  ASSUME NEW S, NEW s \in Seq(S), NEW d \in 0 .. Len(s)
  PROVE  /\ SubSeq(s, d + 1, Len(s)) \in Seq(S)
         /\ Len(SubSeq(s, d + 1, Len(s))) = Len(s) - d
         /\ \A i \in 1 .. Len(s) - d : SubSeq(s, d + 1, Len(s))[i] = s[d + i]
<1>1. Len(s) \in Nat /\ d \in Int /\ d + 1 \in Int /\ Len(s) \in Int
  OBVIOUS
<1>2. \A i \in d + 1 .. Len(s) : s[i] \in S
  OBVIOUS
<1>3. /\ SubSeq(s, d + 1, Len(s)) \in Seq(S)
      /\ Len(SubSeq(s, d + 1, Len(s)))
           = IF d + 1 <= Len(s) THEN Len(s) - (d + 1) + 1 ELSE 0
      /\ \A i \in 1 .. Len(s) - (d + 1) + 1 : SubSeq(s, d + 1, Len(s))[i] = s[d + 1 + i - 1]
  BY <1>1, <1>2, SubSeqProperties
<1> QED
  BY <1>1, <1>3

\* The end of the end of a list.
LEMMA SuffixOfSuffix ==
  ASSUME NEW S, NEW s \in Seq(S), NEW d \in 0 .. Len(s), NEW m \in 0 .. Len(s) - d,
         NEW t, t = SubSeq(s, d + 1, Len(s))
  PROVE  SubSeq(t, m + 1, Len(t)) = SubSeq(s, d + m + 1, Len(s))
<1> DEFINE u == SubSeq(t, m + 1, Len(t))
           v == SubSeq(s, d + m + 1, Len(s))
<1>1. /\ t \in Seq(S) /\ Len(t) = Len(s) - d
      /\ \A i \in 1 .. Len(s) - d : t[i] = s[d + i]
  BY SuffixIs
<1>2. /\ u \in Seq(S) /\ Len(u) = Len(s) - d - m
      /\ \A i \in 1 .. Len(s) - d - m : u[i] = t[m + i]
  <2>1. m \in 0 .. Len(t)
    BY <1>1
  <2> QED
    BY <1>1, <2>1, SuffixIs
<1>3. /\ v \in Seq(S) /\ Len(v) = Len(s) - d - m
      /\ \A i \in 1 .. Len(s) - d - m : v[i] = s[d + m + i]
  <2>1. d + m \in 0 .. Len(s)
    OBVIOUS
  <2> QED
    BY <2>1, SuffixIs
<1>4. \A i \in 1 .. Len(s) - d - m : u[i] = v[i]
  <2> TAKE i \in 1 .. Len(s) - d - m
  <2>1. m + i \in 1 .. Len(s) - d /\ d + (m + i) = d + m + i
    OBVIOUS
  <2> QED
    BY <1>1, <1>2, <1>3, <2>1
<1> HIDE DEF u, v
<1>5. u = v
  BY <1>2, <1>3, <1>4
<1> QED
  BY <1>5 DEF u, v

\* Appending to the end of a list or to the list is the same.
LEMMA SuffixOfAppend ==
  ASSUME NEW S, NEW s \in Seq(S), NEW x \in S, NEW d \in 0 .. Len(s)
  PROVE  Append(SubSeq(s, d + 1, Len(s)), x)
           = SubSeq(Append(s, x), d + 1, Len(Append(s, x)))
<1> DEFINE t == SubSeq(s, d + 1, Len(s))
           u == Append(t, x)
           a == Append(s, x)
           v == SubSeq(a, d + 1, Len(a))
<1>1. /\ t \in Seq(S) /\ Len(t) = Len(s) - d
      /\ \A i \in 1 .. Len(s) - d : t[i] = s[d + i]
  BY SuffixIs
<1>2. /\ a \in Seq(S) /\ Len(a) = Len(s) + 1 /\ a[Len(s) + 1] = x
      /\ \A i \in 1 .. Len(s) : a[i] = s[i]
  OBVIOUS
<1>3. d \in 0 .. Len(a)
  BY <1>2
<1>4. /\ v \in Seq(S) /\ Len(v) = Len(a) - d
      /\ \A i \in 1 .. Len(a) - d : v[i] = a[d + i]
  <2> HIDE DEF a
  <2> QED
    BY <1>2, <1>3, SuffixIs
<1>5. /\ u \in Seq(S) /\ Len(u) = Len(s) - d + 1 /\ u[Len(s) - d + 1] = x
      /\ \A i \in 1 .. Len(s) - d : u[i] = s[d + i]
  <2> HIDE DEF t
  <2> QED
    BY <1>1
<1> HIDE DEF u, v, a
<1>6. \A i \in 1 .. Len(s) - d + 1 : u[i] = v[i]
  <2> TAKE i \in 1 .. Len(s) - d + 1
  <2>1. CASE i = Len(s) - d + 1
    <3>1. d + i = Len(s) + 1 /\ i \in 1 .. Len(a) - d
      BY <1>2, <2>1
    <3> QED
      BY <1>2, <1>4, <1>5, <2>1, <3>1
  <2>2. CASE i # Len(s) - d + 1
    <3>1. d + i \in 1 .. Len(s) /\ i \in 1 .. Len(a) - d /\ i \in 1 .. Len(s) - d
      BY <1>2, <2>2
    <3> QED
      BY <1>2, <1>4, <1>5, <3>1
  <2> QED
    BY <2>1, <2>2
<1>7. Len(u) = Len(v)
  BY <1>2, <1>4, <1>5
<1>8. u = v
  BY <1>4, <1>5, <1>6, <1>7
<1> QED
  BY <1>8 DEF u, v, t, a

\* Trimming leaves the end of a list, from a span on that was acknowledged
\* before the bound, unless it leaves the whole list.
LEMMA TrimSuffix ==
  ASSUME NEW s \in Seq(Spans), Ordered(s), NEW bound \in Nat
  PROVE  \E d \in 0 .. Len(s) - 1 :
           /\ Trim(s, bound) = SubSeq(s, d + 1, Len(s))
           /\ d > 0 => s[d + 1].ts_resp < bound
<1> DEFINE ahead == {n \in DOMAIN s : s[n].ts_resp < bound}
           from  == KeepFrom(s, bound)
           kept  == {n \in DOMAIN s : n = Len(s) \/ s[n].ts_resp >= from}
<1>1. /\ Len(s) \in Nat /\ Len(s) >= 1 /\ DOMAIN s = 1 .. Len(s)
      /\ \A n \in DOMAIN s : s[n].ts_call \in Nat /\ s[n].ts_resp \in Nat
                             /\ s[n].ts_call <= s[n].ts_resp
  BY SpanTimes DEF Ordered
<1>2. Len(s) \in kept /\ kept \in SUBSET Nat
  BY <1>1
<1>3. Min(kept) \in kept /\ \A n \in kept : Min(kept) <= n
  <2> HIDE DEF kept
  <2> QED
    BY <1>2, MinOf
<1>4. Min(kept) \in 1 .. Len(s)
  BY <1>1, <1>3
<1>5. from = IF ahead = {} THEN 0 ELSE s[Max(ahead)].ts_call
  BY DEF KeepFrom
<1>6. ahead # {} => Max(ahead) \in ahead
  <2>1. ahead \in SUBSET (0 .. Len(s))
    BY <1>1
  <2> HIDE DEF ahead
  <2> QED
    BY <1>1, <2>1, MaxOf
<1>7. from \in Nat
  BY <1>1, <1>5, <1>6
<1>8. ASSUME Min(kept) # 1 PROVE s[Min(kept)].ts_resp < bound
  <2> HIDE DEF from
  <2>1. 1 \notin kept
    <3>1. Min(kept) > 1
      BY <1>1, <1>4, <1>8
    <3>2. \A n \in kept : Min(kept) <= n
      BY <1>3
    <3> HIDE DEF kept
    <3> QED
      BY <1>1, <1>4, <3>1, <3>2
  <2>2. 1 # Len(s) /\ s[1].ts_resp < from
    <3>1. 1 \in DOMAIN s
      BY <1>1
    <3>2. ~(1 = Len(s) \/ s[1].ts_resp >= from)
      BY <2>1, <3>1
    <3>3. s[1].ts_resp \in Nat
      BY <1>1, <3>1
    <3> HIDE DEF kept, ahead
    <3> QED
      BY <1>7, <3>2, <3>3
  <2>3. ahead # {}
    BY <1>1, <1>5, <2>2
  <2>4. PICK a \in ahead : from = s[a].ts_call
    BY <1>5, <1>6, <2>3
  <2>5. a \in kept /\ a \in DOMAIN s /\ s[a].ts_resp < bound
    BY <1>1, <2>4
  <2>6. \A n \in DOMAIN s : n < a => n \notin kept
    <3> TAKE n \in DOMAIN s
    <3> HAVE n < a
    <3>1. s[n].ts_resp < s[a].ts_call
      BY <2>5 DEF Ordered
    <3>2. n # Len(s)
      BY <1>1, <2>5
    <3>3. ~(s[n].ts_resp >= from)
      BY <1>1, <2>4, <2>5, <3>1
    <3> QED
      BY <3>2, <3>3
  <2>7. Min(kept) = a
    <3>1. Min(kept) <= a /\ Min(kept) \in DOMAIN s /\ ~(Min(kept) < a)
      BY <1>1, <1>3, <1>4, <2>5, <2>6
    <3> QED
      BY <1>1, <2>5, <3>1
  <2> QED
    BY <2>5, <2>7
<1>9. Trim(s, bound) = SubSeq(s, Min(kept), Len(s))
  BY DEF Trim
<1> DEFINE d == Min(kept) - 1
<1>10. d \in 0 .. Len(s) - 1 /\ d + 1 = Min(kept)
  BY <1>1, <1>4
<1> HIDE DEF kept
<1> QED
  BY <1>8, <1>9, <1>10

\* What a response that was called after the response of the first span left
\* can show is all in what is left.
LEMMA SuffixVisible ==
  ASSUME NEW s \in Seq(Spans), NEW e, e.ts_call \in Nat,
         NEW d \in 0 .. Len(s) - 1,
         d > 0 => s[d + 1].ts_resp < e.ts_call
  PROVE  VisibleOf(SubSeq(s, d + 1, Len(s)), e) = VisibleOf(s, e)
<1> DEFINE t == SubSeq(s, d + 1, Len(s))
           Shown(l, i) == l[i].ts_call < e.ts_resp
                          /\ \A m \in i + 1 .. Len(l) : l[m].ts_resp >= e.ts_call
<1>1. /\ t \in Seq(Spans) /\ Len(t) = Len(s) - d /\ DOMAIN t = 1 .. Len(s) - d
      /\ \A i \in 1 .. Len(s) - d : t[i] = s[d + i]
      /\ DOMAIN s = 1 .. Len(s) /\ Len(s) \in Nat /\ d \in Nat
  <2>1. d \in 0 .. Len(s)
    OBVIOUS
  <2> QED
    BY <2>1, SuffixIs
<1>2. \A i \in 1 .. d : ~Shown(s, i)
  <2> TAKE i \in 1 .. d
  <2>1. d > 0 /\ d + 1 \in i + 1 .. Len(s)
    BY <1>1
  <2>2. s[d + 1].ts_resp < e.ts_call /\ s[d + 1].ts_resp \in Nat
    BY <1>1, <2>1, SpanTimes
  <2>3. ~(s[d + 1].ts_resp >= e.ts_call)
    BY <2>2
  <2> QED
    BY <2>1, <2>3
<1>3. \A i \in 1 .. Len(s) - d : Shown(t, i) <=> Shown(s, d + i)
  <2> TAKE i \in 1 .. Len(s) - d
  <2>1. ASSUME \A m \in i + 1 .. Len(t) : t[m].ts_resp >= e.ts_call
        PROVE  \A m \in d + i + 1 .. Len(s) : s[m].ts_resp >= e.ts_call
    <3> TAKE m \in d + i + 1 .. Len(s)
    <3>1. m - d \in i + 1 .. Len(t) /\ m - d \in 1 .. Len(s) - d /\ d + (m - d) = m
      BY <1>1
    <3> QED
      BY <1>1, <2>1, <3>1
  <2>2. ASSUME \A m \in d + i + 1 .. Len(s) : s[m].ts_resp >= e.ts_call
        PROVE  \A m \in i + 1 .. Len(t) : t[m].ts_resp >= e.ts_call
    <3> TAKE m \in i + 1 .. Len(t)
    <3>1. d + m \in d + i + 1 .. Len(s) /\ m \in 1 .. Len(s) - d
      BY <1>1
    <3> QED
      BY <1>1, <2>2, <3>1
  <2> QED
    BY <1>1, <2>1, <2>2
<1>4. VisibleOf(t, e) = {t[i].value : i \in {j \in 1 .. Len(s) - d : Shown(t, j)}}
  BY <1>1 DEF VisibleOf
<1>5. VisibleOf(s, e) = {s[i].value : i \in {j \in 1 .. Len(s) : Shown(s, j)}}
  BY <1>1 DEF VisibleOf
<1> HIDE DEF Shown, t
<1>6. ASSUME NEW v \in VisibleOf(t, e) PROVE v \in VisibleOf(s, e)
  <2>1. PICK i \in 1 .. Len(s) - d : Shown(t, i) /\ v = t[i].value
    BY <1>4
  <2>2. d + i \in 1 .. Len(s) /\ Shown(s, d + i) /\ v = s[d + i].value
    BY <1>1, <1>3, <2>1
  <2> QED
    BY <1>5, <2>2
<1>7. ASSUME NEW v \in VisibleOf(s, e) PROVE v \in VisibleOf(t, e)
  <2>1. PICK i \in 1 .. Len(s) : Shown(s, i) /\ v = s[i].value
    BY <1>5
  <2>2. i - d \in 1 .. Len(s) - d /\ d + (i - d) = i
    BY <1>1, <1>2, <2>1
  <2>3. Shown(t, i - d) /\ v = t[i - d].value
    BY <1>1, <1>3, <2>1, <2>2
  <2> QED
    BY <1>4, <2>2, <2>3
<1> QED
  BY <1>6, <1>7 DEF t

\* An update that was called after a response and acknowledged after its call
\* makes no difference to it.
LEMMA AppendVisible ==
  ASSUME NEW s \in Seq(Spans), NEW x, NEW e,
         x.ts_call \in Nat, x.ts_resp \in Nat, e.ts_call \in Nat, e.ts_resp \in Nat,
         x.ts_call >= e.ts_resp, x.ts_resp >= e.ts_call
  PROVE  VisibleOf(Append(s, x), e) = VisibleOf(s, e)
<1> DEFINE t == Append(s, x)
           Shown(l, i) == l[i].ts_call < e.ts_resp
                          /\ \A m \in i + 1 .. Len(l) : l[m].ts_resp >= e.ts_call
<1>1. /\ Len(s) \in Nat /\ DOMAIN s = 1 .. Len(s) /\ Len(t) = Len(s) + 1
      /\ DOMAIN t = 1 .. Len(s) + 1 /\ t[Len(s) + 1] = x
      /\ \A i \in 1 .. Len(s) : t[i] = s[i]
  OBVIOUS
<1>2. ~Shown(t, Len(s) + 1)
  BY <1>1
<1>3. \A i \in 1 .. Len(s) : Shown(t, i) <=> Shown(s, i)
  <2> TAKE i \in 1 .. Len(s)
  <2>1. t[Len(s) + 1].ts_resp >= e.ts_call
    BY <1>1
  <2>2. \A m \in i + 1 .. Len(t) : m = Len(s) + 1 \/ m \in i + 1 .. Len(s)
    BY <1>1
  <2>3. \A m \in i + 1 .. Len(s) : t[m] = s[m] /\ m \in i + 1 .. Len(t)
    BY <1>1
  <2> QED
    BY <1>1, <2>1, <2>2, <2>3
<1>4. VisibleOf(t, e) = {t[i].value : i \in {j \in 1 .. Len(s) + 1 : Shown(t, j)}}
  BY <1>1 DEF VisibleOf
<1>5. VisibleOf(s, e) = {s[i].value : i \in {j \in 1 .. Len(s) : Shown(s, j)}}
  BY <1>1 DEF VisibleOf
<1> HIDE DEF Shown, t
<1>6. \A i \in 1 .. Len(s) + 1 : Shown(t, i) => i \in 1 .. Len(s) /\ Shown(s, i)
  BY <1>1, <1>2, <1>3
<1>7. \A i \in 1 .. Len(s) : Shown(s, i) => i \in 1 .. Len(s) + 1 /\ Shown(t, i)
  BY <1>1, <1>3
<1>8. VisibleOf(t, e) \subseteq VisibleOf(s, e)
  BY <1>1, <1>4, <1>5, <1>6
<1>9. VisibleOf(s, e) \subseteq VisibleOf(t, e)
  BY <1>1, <1>4, <1>5, <1>7
<1> QED
  BY <1>8, <1>9 DEF t

\* A check depends on the history only by the values that are visible in it.
LEMMA SameCheck ==
  ASSUME NEW h1, NEW h2, NEW e,
         \A k \in PoolKeys : Visible(h1[k], e) = Visible(h2[k], e)
  PROVE  CheckCall(h1, e) <=> CheckCall(h2, e)
<1>1. \A k \in PoolKeys : \A v : Shows(h1[k], e, v) <=> Shows(h2[k], e, v)
  BY DEF Shows
<1>2. CheckScan(h1, e) <=> CheckScan(h2, e)
  BY <1>1 DEF CheckScan
<1> QED
  BY <1>1, <1>2 DEF CheckCall

\* The responses that are due are the first ones of the queue.
LEMMA DueFirst ==
  ASSUME NEW q \in Seq(Checkable), NEW coming \in Nat
  PROVE  \E m \in 0 .. Len(q) :
           /\ Due(q, coming) = 1 .. m /\ Cardinality(Due(q, coming)) = m
           /\ \A i \in 1 .. m : q[i].ts_resp < coming
           /\ m < Len(q) => q[m + 1].ts_resp >= coming
<1> DEFINE late == {i \in 1 .. Len(q) : q[i].ts_resp >= coming}
<1>1. /\ DOMAIN q = 1 .. Len(q) /\ Len(q) \in Nat
      /\ \A i \in 1 .. Len(q) : q[i].ts_resp \in Nat
  <2>1. \A x \in Checkable : x.ts_resp \in Nat
    BY TimesAreNumbers DEF Checkable
  <2>2. \A i \in 1 .. Len(q) : q[i] \in Checkable
    OBVIOUS
  <2> QED
    BY <2>1, <2>2
<1>2. \A i \in 1 .. Len(q) : i \in late \/ q[i].ts_resp < coming
  BY <1>1
<1>3. ASSUME NEW m \in 0 .. Len(q), \A i \in 1 .. m : q[i].ts_resp < coming,
             m < Len(q) => q[m + 1].ts_resp >= coming
      PROVE  Due(q, coming) = 1 .. m /\ Cardinality(Due(q, coming)) = m
  <2>1. \A i \in 1 .. m : i \in DOMAIN q /\ \A j \in 1 .. i : q[j].ts_resp < coming
    BY <1>1, <1>3
  <2>2. \A i \in DOMAIN q : i > m => ~(\A j \in 1 .. i : q[j].ts_resp < coming)
    <3> TAKE i \in DOMAIN q
    <3> HAVE i > m
    <3>1. m + 1 \in 1 .. i /\ m < Len(q) /\ m + 1 \in 1 .. Len(q)
      BY <1>1
    <3>2. ~(q[m + 1].ts_resp < coming)
      BY <1>1, <1>3, <3>1
    <3> QED
      BY <3>1, <3>2
  <2>3. Due(q, coming) = 1 .. m
    BY <1>1, <2>1, <2>2 DEF Due
  <2>4. Cardinality(1 .. m) = m
    BY FS_Interval
  <2> QED
    BY <2>3, <2>4
<1>4. CASE late = {}
  BY <1>1, <1>2, <1>3, <1>4
<1>5. CASE late # {}
  <2>1. late \in SUBSET Nat
    OBVIOUS
  <2>2. Min(late) \in late /\ \A y \in late : Min(late) <= y
    <3> HIDE DEF late
    <3> QED
      BY <1>5, <2>1, MinOf
  <2> DEFINE m == Min(late) - 1
  <2>3. m \in 0 .. Len(q) /\ m + 1 = Min(late) /\ q[m + 1].ts_resp >= coming
    BY <2>2
  <2>4. \A i \in 1 .. m : i \in 1 .. Len(q) /\ i \notin late
    BY <2>2, <2>3
  <2>5. \A i \in 1 .. m : q[i].ts_resp < coming
    BY <1>2, <2>4
  <2> HIDE DEF m
  <2> QED
    BY <1>3, <2>3, <2>5
<1> QED
  BY <1>4, <1>5

----------------------------------------------------------------------------
(***************************************************************************)
(* The inductive invariant.  LoopInv is about the loop of fuzz_test: which *)
(* clients have a call in flight, and that each call and each wait takes   *)
(* one timestamp.  ClockInv puts everything that is recorded in the order  *)
(* of the timestamps; a response that is waited for has the current one,   *)
(* so that Horizon is the first that nothing recorded has.                 *)
(***************************************************************************)
Flying == {c \in Clients : flying[c]}

LoopInv ==
  /\ \A c \in Clients :
       /\ memo[c] # None => /\ flying[c]
                            /\ memo[c].call.op # "Scan" => memo[c].call.key \in PoolKeys
       /\ answer[c] # None => memo[c] # None
       /\ verdict = "running" /\ flying[c] => memo[c] # None
  /\ verdict = "running" =>
       /\ timestamp = called + waited + (IF at = None THEN 0 ELSE 1)
       /\ Cardinality(Flying) = called - waited
       /\ waited <= TotalOps
  /\ at # None => verdict = "running" /\ memo[at] # None

Horizon == IF at = None THEN timestamp + 1 ELSE timestamp

ClockInv ==
  /\ \A i \in DOMAIN queue : queue[i].ts_call < queue[i].ts_resp /\ queue[i].ts_resp < Horizon
  /\ \A i, j \in DOMAIN queue : i < j => queue[i].ts_resp < queue[j].ts_resp
  /\ \A c \in Clients :
       /\ maxtr[c] < Horizon
       /\ memo[c] # None => maxtr[c] < memo[c].ts_call /\ memo[c].ts_call < Horizon
  /\ \A k \in PoolKeys, c \in Clients :
       /\ Ordered(full[k][c])
       /\ \A i \in DOMAIN full[k][c] : full[k][c][i].ts_resp <= maxtr[c]

\* Everything that is still to be checked was called after time t.
Ahead(t) ==
  /\ \A i \in DOMAIN queue : t < queue[i].ts_call
  /\ \A c \in Clients : memo[c] # None => t < memo[c].ts_call
  /\ t <= timestamp

\* What is left of a list is its end, and what was dropped is out of sight.
EndLeft(k, c) ==
  \E d \in 0 .. Len(full[k][c]) - 1 :
    /\ spans[k][c] = SubSeq(full[k][c], d + 1, Len(full[k][c]))
    /\ d > 0 => Ahead(full[k][c][d + 1].ts_resp)

TrimInv == \A k \in PoolKeys, c \in Clients : EndLeft(k, c)

----------------------------------------------------------------------------
(***************************************************************************)
(* The parts of HarvestUpdate, by their names in it.                       *)
(***************************************************************************)
UKey(c) == memo[c].call.key
USpan(c) == SpanOf(memo[c], timestamp)
NewMax(c) == [maxtr EXCEPT ![c] = timestamp]
Coming(c) == MinComing(NewMax(c))
Q(c) == Append(queue, Entry(c))
Bound(c) == TrimBound(Q(c), Coming(c))
Grown(c) == [spans[UKey(c)] EXCEPT ![c] = Append(@, USpan(c))]
Trimmed(c) == [spans EXCEPT ![UKey(c)] = [d \in Clients |-> Trim(Grown(c)[d], Bound(c))]]
DueOf(c) == Due(Q(c), Coming(c))
Failing(c) == {i \in DueOf(c) : ~CheckCall(Trimmed(c), Q(c)[i])}
Popped(c) == IF Failing(c) = {} THEN Cardinality(DueOf(c)) ELSE Min(Failing(c))

\* HarvestUpdate in these terms.
LEMMA UpdateIs ==
  ASSUME NEW c \in Clients, HarvestUpdate(c)
  PROVE  /\ Harvest(c) /\ memo[c].call.op \in UpdateOps
         /\ maxtr' = NewMax(c) /\ spans' = Trimmed(c)
         /\ full' = [full EXCEPT ![UKey(c)][c] = Append(@, USpan(c))]
         /\ queue' = SubSeq(Q(c), Popped(c) + 1, Len(Q(c)))
         /\ checked' = checked \cup {[entry |-> Q(c)[i], ok |-> i \notin Failing(c)] :
                                      i \in 1 .. Popped(c)}
         /\ \/ Failing(c) = {} /\ Harvested(c) /\ verdict' = verdict
            \/ Failing(c) # {} /\ verdict' = "FAILED" /\ flying' = flying /\ waited' = waited
BY DEF HarvestUpdate, UKey, USpan, NewMax, Coming, Q, Bound, Grown, Trimmed, DueOf, Failing,
       Popped

\* The keys that are drawn are keys, and there are clients.
LEMMA PoolType ==
  /\ PoolKeys \subseteq Keys
  /\ \A c \in Clients : Pool[c] \subseteq PoolKeys
<1>1. DOMAIN Pool = Clients /\ \A c \in Clients : Pool[c] \subseteq Keys
  BY FuzzerAssumption
<1> QED
  BY <1>1 DEF PoolKeys, Range

\* The calls that are drawn are calls with keys of the pool.
LEMMA RandomCallsType ==
  ASSUME NEW c \in Clients, timestamp + 1 \in Times, NEW k \in RandomCalls(c)
  PROVE  k \in Calls /\ (k.op # "Scan" => k.key \in PoolKeys)
BY PoolType, FuzzerAssumption DEF RandomCalls, Calls

\* What a harvest finds, and what it makes of it.
LEMMA HarvestTypes ==
  ASSUME TypeOK, LoopInv, NEW c \in Clients, Harvest(c)
  PROVE  /\ memo[c] # None /\ memo[c].ts_call \in Times /\ memo[c].call \in Calls
         /\ answer[c] \in Answers /\ timestamp \in Nat
         /\ waited < called /\ waited < TotalOps
         /\ timestamp \in Times /\ Entry(c) \in Checkable /\ Q(c) \in Seq(Checkable)
<1> USE DEF TypeOK, LoopInv, Harvest
<1>1. at # None /\ memo[c] # None
  BY FuzzerAssumption
<1>2. memo[c] \in [ts_call : Times, call : Calls]
  BY <1>1
<1>3. answer[c] \in Answers
  OBVIOUS
<1>4. timestamp \in Nat /\ timestamp \in {0} \cup Times /\ called \in Nat /\ waited \in Nat
  BY TimesAreNumbers
<1>5. timestamp = called + waited + 1
  BY <1>1
<1>6. timestamp \in Times
  BY <1>4, <1>5
<1>7. waited < called /\ waited < TotalOps
  <2>1. IsFiniteSet(Flying) /\ Flying # {}
    <3>1. Flying \in SUBSET Clients /\ c \in Flying
      BY <1>1 DEF Flying
    <3> QED
      BY <3>1, FS_Subset, FuzzerAssumption
  <2>2. Cardinality(Flying) # 0 /\ Cardinality(Flying) \in Nat
    BY <2>1, FS_EmptySet, FS_CardinalityType
  <2>3. Cardinality(Flying) = called - waited /\ called <= TotalOps
    BY <1>1, TimesAreNumbers
  <2> QED
    BY <1>4, <2>2, <2>3, TimesAreNumbers
<1>8. Entry(c) \in Checkable
  BY <1>2, <1>3, <1>6 DEF Entry, Checkable
<1>9. Q(c) \in Seq(Checkable)
  BY <1>8 DEF Q, Checkable
<1> QED
  BY <1>1, <1>2, <1>3, <1>4, <1>6, <1>7, <1>8, <1>9

\* The bounds that an update trims and checks by.
LEMMA UpdateBounds ==
  ASSUME TypeOK, LoopInv, NEW c \in Clients, HarvestUpdate(c)
  PROVE  /\ NewMax(c) \in [Clients -> Nat]
         /\ Coming(c) \in Nat /\ Bound(c) \in Nat /\ Bound(c) <= Coming(c)
         /\ \A d \in Clients : Coming(c) <= NewMax(c)[d]
         /\ Coming(c) <= timestamp
         /\ \A i \in DOMAIN Q(c) : Q(c)[i] \in Checkable /\ Bound(c) <= Q(c)[i].ts_call
<1>1. timestamp \in Nat /\ Q(c) \in Seq(Checkable)
  BY UpdateIs, HarvestTypes
<1>2. NewMax(c) \in [Clients -> Nat] /\ NewMax(c)[c] = timestamp
  BY <1>1, TimesAreNumbers DEF TypeOK, NewMax
<1>3. Coming(c) \in Nat /\ \A d \in Clients : Coming(c) <= NewMax(c)[d]
  BY <1>2, ComingIs DEF Coming
<1> DEFINE calls == {Q(c)[i].ts_call : i \in DOMAIN Q(c)}
           S == {Coming(c)} \cup calls
<1>4. \A i \in DOMAIN Q(c) : Q(c)[i] \in Checkable
  BY <1>1
<1>5. S \in SUBSET Nat /\ S # {} /\ Coming(c) \in S
  <2>1. \A x \in Checkable : x.ts_call \in Nat
    BY TimesAreNumbers DEF Checkable
  <2>2. calls \in SUBSET Nat
    BY <1>4, <2>1
  <2> QED
    BY <1>3, <2>2
<1>6. Min(S) \in S /\ \A y \in S : Min(S) <= y
  <2> HIDE DEF S
  <2> QED
    BY <1>5, MinOf
<1>7. Bound(c) = Min(S)
  BY DEF Bound, TrimBound
<1>8. Bound(c) \in Nat /\ \A y \in S : Bound(c) <= y
  <2> HIDE DEF S
  <2> QED
    BY <1>5, <1>6, <1>7
<1> QED
  BY <1>1, <1>2, <1>3, <1>4, <1>8

\* The checks that an update makes: of the first responses of the queue, all
\* due, up to the first that fails; none that is due is left if none fails.
LEMMA PoppedIs ==
  ASSUME TypeOK, LoopInv, NEW c \in Clients, HarvestUpdate(c)
  PROVE  /\ Popped(c) \in 0 .. Len(Q(c))
         /\ \A i \in 1 .. Popped(c) :
              /\ Q(c)[i].ts_resp < Coming(c)
              /\ i \notin Failing(c) <=> CheckCall(Trimmed(c), Q(c)[i])
         /\ Failing(c) # {} => Popped(c) \in Failing(c)
         /\ Failing(c) = {} => \/ Popped(c) = Len(Q(c))
                               \/ Q(c)[Popped(c) + 1].ts_resp >= Coming(c)
<1>1. Q(c) \in Seq(Checkable) /\ Coming(c) \in Nat
  BY UpdateIs, HarvestTypes, UpdateBounds
<1>2. PICK m \in 0 .. Len(Q(c)) :
        /\ DueOf(c) = 1 .. m /\ Cardinality(DueOf(c)) = m
        /\ \A i \in 1 .. m : Q(c)[i].ts_resp < Coming(c)
        /\ m < Len(Q(c)) => Q(c)[m + 1].ts_resp >= Coming(c)
  BY <1>1, DueFirst DEF DueOf
<1>3. Len(Q(c)) \in Nat
  BY <1>1
<1>4. \A i \in 1 .. m : i \notin Failing(c) <=> CheckCall(Trimmed(c), Q(c)[i])
  BY <1>2 DEF Failing
<1>5. Failing(c) \subseteq 1 .. m
  BY <1>2 DEF Failing
<1>6. CASE Failing(c) = {}
  <2>1. Popped(c) = m
    BY <1>2, <1>6 DEF Popped
  <2>2. m < Len(Q(c)) \/ m = Len(Q(c))
    BY <1>3
  <2> QED
    BY <1>2, <1>4, <1>6, <2>1, <2>2
<1>7. CASE Failing(c) # {}
  <2>1. Failing(c) \in SUBSET Nat
    BY <1>5
  <2>2. Popped(c) \in Failing(c)
    BY <1>7, <2>1, MinOf DEF Popped
  <2>3. Popped(c) \in 1 .. m
    BY <1>5, <2>2
  <2>4. 1 .. Popped(c) \subseteq 1 .. m /\ Popped(c) \in 0 .. Len(Q(c))
    BY <1>3, <2>3
  <2> QED
    BY <1>2, <1>4, <1>7, <2>2, <2>4
<1> QED
  BY <1>6, <1>7

\* The queue that an update leaves is the end of the one it found.
LEMMA QueueLeft ==
  ASSUME TypeOK, LoopInv, NEW c \in Clients, HarvestUpdate(c)
  PROVE  /\ queue' \in Seq(Checkable)
         /\ Len(queue') = Len(Q(c)) - Popped(c)
         /\ \A i \in DOMAIN queue' :
              Popped(c) + i \in DOMAIN Q(c) /\ queue'[i] = Q(c)[Popped(c) + i]
<1>1. Q(c) \in Seq(Checkable) /\ Popped(c) \in 0 .. Len(Q(c))
  BY UpdateIs, HarvestTypes, PoppedIs
<1>2. queue' = SubSeq(Q(c), Popped(c) + 1, Len(Q(c)))
  BY UpdateIs
<1>3. /\ queue' \in Seq(Checkable) /\ Len(queue') = Len(Q(c)) - Popped(c)
      /\ \A i \in 1 .. Len(Q(c)) - Popped(c) : queue'[i] = Q(c)[Popped(c) + i]
  BY <1>1, <1>2, SuffixIs
<1>4. \A i \in 1 .. Len(Q(c)) - Popped(c) : Popped(c) + i \in 1 .. Len(Q(c))
  BY <1>1
<1> QED
  BY <1>1, <1>3, <1>4

----------------------------------------------------------------------------
(***************************************************************************)
(* The loop of fuzz_test.                                                  *)
(***************************************************************************)

\* One more, or one fewer, client has a call in flight.
LEMMA FlyingCount ==
  ASSUME NEW c \in Clients, NEW f \in [Clients -> BOOLEAN], NEW b \in BOOLEAN, f[c] # b
  PROVE  LET old == {d \in Clients : f[d]}
             new == {d \in Clients : [f EXCEPT ![c] = b][d]}
         IN  /\ Cardinality(old) \in Nat
             /\ Cardinality(new) = Cardinality(old) + (IF b THEN 1 ELSE -1)
<1> DEFINE old == {d \in Clients : f[d]}
           new == {d \in Clients : [f EXCEPT ![c] = b][d]}
<1>1. IsFiniteSet(old)
  BY FS_Subset, FuzzerAssumption
<1>2. CASE b = TRUE
  <2>1. new = old \cup {c} /\ c \notin old
    BY <1>2
  <2>2. Cardinality(old \cup {c}) = Cardinality(old) + 1
    BY <1>1, <2>1, FS_AddElement
  <2> QED
    BY <1>1, <1>2, <2>1, <2>2, FS_CardinalityType
<1>3. CASE b = FALSE
  <2>1. new = old \ {c} /\ c \in old
    BY <1>3
  <2>2. Cardinality(old \ {c}) = Cardinality(old) - 1
    BY <1>1, <2>1, FS_RemoveElement
  <2> QED
    BY <1>1, <1>3, <2>1, <2>2, FS_CardinalityType
<1> QED
  BY <1>2, <1>3

\* The counters, and who has a call in flight.
LEMMA Counters ==
  ASSUME TypeOK
  PROVE  /\ called \in Nat /\ waited \in Nat /\ timestamp \in Nat
         /\ waited <= called /\ called <= TotalOps
         /\ flying \in [Clients -> BOOLEAN] /\ IsFiniteSet(Flying)
         /\ Cardinality(Flying) \in Nat
<1>1. called \in 0 .. TotalOps /\ waited \in 0 .. called /\ timestamp \in {0} \cup Times
      /\ flying \in [Clients -> BOOLEAN]
  BY DEF TypeOK
<1>2. Flying \in SUBSET Clients
  BY DEF Flying
<1>3. IsFiniteSet(Flying)
  BY <1>2, FS_Subset, FuzzerAssumption
<1> QED
  BY <1>1, <1>3, FS_CardinalityType, TimesAreNumbers

\* A new call.
LEMMA CallLoop ==
  ASSUME TypeOK, LoopInv, NEW c \in Clients, Call(c)
  PROVE  /\ timestamp' \in Times
         /\ \E k \in Calls :
              /\ memo' = [memo EXCEPT ![c] = [ts_call |-> timestamp', call |-> k]]
              /\ k.op # "Scan" => k.key \in PoolKeys
         /\ memo[c] = None /\ answer[c] = None
         /\ LoopInv'
<1>a. verdict = "running" /\ at = None /\ called # TotalOps /\ ~flying[c]
  BY DEF Call, InLoop, MayCall
<1>b. /\ timestamp' = timestamp + 1 /\ called' = called + 1
      /\ flying' = [flying EXCEPT ![c] = TRUE]
      /\ UNCHANGED <<answer, at, waited, verdict>>
  BY DEF Call, service
<1>1. /\ timestamp = called + waited /\ called \in Nat /\ waited \in Nat
      /\ called < TotalOps /\ waited <= called /\ waited < TotalOps
  <2>1. timestamp = called + waited + 0
    BY <1>a DEF LoopInv
  <2> QED
    BY <1>a, <2>1, Counters, TimesAreNumbers
<1>2. timestamp + 1 \in Times
  BY <1>1, TimesAreNumbers DEF Times
<1>3. PICK k \in RandomCalls(c) :
        memo' = [memo EXCEPT ![c] = [ts_call |-> timestamp', call |-> k]]
  BY DEF Call
<1>4. k \in Calls /\ (k.op # "Scan" => k.key \in PoolKeys)
  BY <1>2, RandomCallsType
<1>5. memo[c] = None /\ answer[c] = None
  BY <1>a DEF LoopInv
<1>6. Cardinality(Flying') = called' - waited'
  <2>1. flying[c] # TRUE /\ flying \in [Clients -> BOOLEAN]
    BY <1>a, Counters
  <2>2. LET old == {d \in Clients : flying[d]}
            new == {d \in Clients : [flying EXCEPT ![c] = TRUE][d]}
        IN  Cardinality(new) = Cardinality(old) + (IF TRUE THEN 1 ELSE -1)
    BY <2>1, FlyingCount
  <2>3. Cardinality(Flying') = Cardinality(Flying) + 1
    BY <1>b, <2>2 DEF Flying
  <2>4. Cardinality(Flying) = called - waited
    BY <1>a DEF LoopInv
  <2> QED
    BY <1>1, <1>b, <2>3, <2>4
<1>7. memo'[c] = [ts_call |-> timestamp', call |-> k] /\ memo'[c] # None /\ flying'[c]
  <2>1. memo'[c] = [ts_call |-> timestamp', call |-> k] /\ flying'[c]
    BY <1>b, <1>3 DEF TypeOK
  <2>2. [ts_call |-> timestamp', call |-> k] \in [ts_call : Times, call : Calls]
    BY <1>b, <1>2, <1>4
  <2> QED
    BY <2>1, <2>2, NoneAssumption
<1>8. \A d \in Clients : d # c => memo'[d] = memo[d] /\ flying'[d] = flying[d]
  BY <1>b, <1>3 DEF TypeOK
<1>9. \A d \in Clients :
        /\ memo'[d] # None => /\ flying'[d]
                              /\ memo'[d].call.op # "Scan" => memo'[d].call.key \in PoolKeys
        /\ answer'[d] # None => memo'[d] # None
        /\ verdict' = "running" /\ flying'[d] => memo'[d] # None
  <2> TAKE d \in Clients
  <2>1. CASE d = c
    BY <1>4, <1>7, <2>1
  <2>2. CASE d # c
    BY <1>b, <1>8, <2>2 DEF LoopInv
  <2> QED
    BY <2>1, <2>2
<1>10. timestamp' = called' + waited' + (IF at' = None THEN 0 ELSE 1) /\ waited' <= TotalOps
  BY <1>1, <1>a, <1>b, TimesAreNumbers
<1>11. at' # None => verdict' = "running" /\ memo'[at'] # None
  BY <1>a, <1>b
<1>12. LoopInv'
  BY <1>6, <1>9, <1>10, <1>11 DEF LoopInv
<1> QED
  BY <1>b, <1>2, <1>3, <1>4, <1>5, <1>12

\* A harvest that counts the response.
LEMMA HarvestedLoop ==
  ASSUME TypeOK, LoopInv, NEW c \in Clients, Harvest(c), Harvested(c), verdict' = verdict
  PROVE  LoopInv'
<1>a. /\ flying' = [flying EXCEPT ![c] = FALSE] /\ waited' = waited + 1
      /\ at = c /\ at' = None /\ verdict = "running"
      /\ UNCHANGED <<timestamp, called>>
  BY DEF Harvest, Harvested
<1>1. /\ memo[c] # None /\ waited < called /\ waited < TotalOps /\ at # None
      /\ waited \in Nat /\ called \in Nat /\ flying[c]
  BY <1>a, HarvestTypes, Counters, FuzzerAssumption DEF LoopInv
<1>2. Cardinality(Flying') = called' - waited'
  <2>1. flying[c] # FALSE /\ flying \in [Clients -> BOOLEAN]
    BY <1>1, Counters
  <2>2. LET old == {d \in Clients : flying[d]}
            new == {d \in Clients : [flying EXCEPT ![c] = FALSE][d]}
        IN  Cardinality(new) = Cardinality(old) + (IF FALSE THEN 1 ELSE -1)
    BY <2>1, FlyingCount
  <2>3. Cardinality(Flying') = Cardinality(Flying) - 1 /\ Cardinality(Flying) \in Nat
    BY <1>a, <2>2, Counters DEF Flying
  <2>4. Cardinality(Flying) = called - waited
    BY <1>a DEF LoopInv
  <2> QED
    BY <1>1, <1>a, <2>3, <2>4
<1>3. timestamp' = called' + waited' + (IF at' = None THEN 0 ELSE 1) /\ waited' <= TotalOps
  <2>1. timestamp = called + waited + 1
    BY <1>1, <1>a DEF LoopInv
  <2> QED
    BY <1>1, <1>a, <2>1, TimesAreNumbers
<1>4. /\ memo'[c] = None /\ answer'[c] = None /\ ~flying'[c]
      /\ \A d \in Clients : d # c =>
           memo'[d] = memo[d] /\ answer'[d] = answer[d] /\ flying'[d] = flying[d]
  BY DEF Harvest, Harvested, TypeOK
<1>5. \A d \in Clients :
        /\ memo'[d] # None => /\ flying'[d]
                              /\ memo'[d].call.op # "Scan" => memo'[d].call.key \in PoolKeys
        /\ answer'[d] # None => memo'[d] # None
        /\ verdict' = "running" /\ flying'[d] => memo'[d] # None
  <2> TAKE d \in Clients
  <2>1. CASE d = c
    BY <1>4, <2>1
  <2>2. CASE d # c
    BY <1>4, <2>2 DEF LoopInv
  <2> QED
    BY <2>1, <2>2
<1> QED
  BY <1>a, <1>2, <1>3, <1>5 DEF LoopInv

\* Every step.
LEMMA LoopStep ==
  ASSUME TypeOK, LoopInv, [Next]_vars
  PROVE  LoopInv'
<1> USE DEF LoopInv
<1>1. CASE UNCHANGED vars
  BY <1>1 DEF vars, Flying
<1>2. ASSUME NEW c \in Clients, Call(c) PROVE LoopInv'
  BY <1>2, CallLoop
<1>3. ASSUME NEW c \in Clients, Await(c) PROVE LoopInv'
  <2> USE <1>3 DEF Await, InLoop, MayWait, service
  <2>1. memo[c] # None /\ at' = c /\ c # None /\ Flying' = Flying
    BY FuzzerAssumption DEF Flying
  <2>2. timestamp' = called' + waited' + 1
    BY TimesAreNumbers DEF TypeOK
  <2> QED
    BY <2>1, <2>2
<1>4. ASSUME NEW c \in Clients, HarvestRead(c) PROVE LoopInv'
  <2>1. Harvest(c) /\ Harvested(c) /\ verdict' = verdict
    BY <1>4 DEF HarvestRead
  <2> QED
    BY <2>1, HarvestedLoop
<1>5. ASSUME NEW c \in Clients, HarvestUpdate(c) PROVE LoopInv'
  <2>1. CASE Harvested(c) /\ verdict' = verdict
    <3>1. Harvest(c)
      BY <1>5, UpdateIs
    <3> QED
      BY <2>1, <3>1, HarvestedLoop
  <2>2. CASE verdict' = "FAILED" /\ flying' = flying /\ waited' = waited
    <3>1. Harvest(c)
      BY <1>5, UpdateIs
    <3>2. /\ memo'[c] = None /\ answer'[c] = None /\ at' = None
          /\ \A d \in Clients : d # c => memo'[d] = memo[d] /\ answer'[d] = answer[d]
      BY <3>1 DEF Harvest, TypeOK
    <3>3. \A d \in Clients :
            /\ memo'[d] # None => /\ flying'[d]
                                  /\ memo'[d].call.op # "Scan" => memo'[d].call.key \in PoolKeys
            /\ answer'[d] # None => memo'[d] # None
      BY <2>2, <3>2
    <3> QED
      BY <2>2, <3>2, <3>3
  <2> QED
    BY <1>5, <2>1, <2>2, UpdateIs
<1>6. ASSUME NEW c \in Clients, UnexpectedStop(c) PROVE LoopInv'
  BY <1>6 DEF UnexpectedStop, service
<1>7. CASE Finish
  <2>1. at = None
    <3>1. SUFFICES ASSUME at # None PROVE FALSE
      OBVIOUS
    <3>2. at \in Clients /\ memo[at] # None /\ verdict = "running" /\ flying[at]
      BY <1>7, <3>1 DEF TypeOK
    <3>3. Flying \in SUBSET Clients /\ at \in Flying
      BY <3>2 DEF Flying
    <3>4. IsFiniteSet(Flying)
      BY <3>3, FS_Subset, FuzzerAssumption
    <3>5. Cardinality(Flying) # 0 /\ Cardinality(Flying) \in Nat
      BY <3>3, <3>4, FS_EmptySet, FS_CardinalityType
    <3>6. /\ Cardinality(Flying) = called - waited /\ waited = TotalOps
          /\ called \in Nat /\ called <= TotalOps /\ TotalOps \in Nat
      BY <1>7, <3>2, TimesAreNumbers DEF Finish, TypeOK
    <3> QED
      BY <3>5, <3>6
  <2> QED
    BY <1>7, <2>1 DEF Finish, service
<1>8. CASE RunnerFailure
  BY <1>8 DEF RunnerFailure, service
<1>9. ASSUME NEW c \in Clients, Execute(c) PROVE LoopInv'
  <2>1. \A d \in Clients : d # c => answer'[d] = answer[d]
    BY <1>9 DEF Execute, TypeOK
  <2>2. /\ memo[c] # None /\ Flying' = Flying
        /\ UNCHANGED <<flying, memo, at, timestamp, called, waited, verdict>>
    BY <1>9 DEF Execute, Flying
  <2> QED
    BY <2>1, <2>2
<1> QED
  BY <1>1, <1>2, <1>3, <1>4, <1>5, <1>6, <1>7, <1>8, <1>9 DEF Next, Turn

----------------------------------------------------------------------------
(***************************************************************************)
(* The history of the key that an update writes.                           *)
(***************************************************************************)

\* The end of an ordered list is ordered.
LEMMA OrderedSuffix ==
  ASSUME NEW s \in Seq(Spans), Ordered(s), NEW d \in 0 .. Len(s) - 1
  PROVE  Ordered(SubSeq(s, d + 1, Len(s)))
<1> DEFINE t == SubSeq(s, d + 1, Len(s))
<1>1. /\ t \in Seq(Spans) /\ Len(t) = Len(s) - d
      /\ \A i \in 1 .. Len(s) - d : t[i] = s[d + i]
  <2>1. d \in 0 .. Len(s)
    OBVIOUS
  <2> QED
    BY <2>1, SuffixIs
<1> HIDE DEF t
<1>2. DOMAIN t = 1 .. Len(s) - d /\ DOMAIN s = 1 .. Len(s) /\ t # <<>>
  BY <1>1
<1>3. \A i \in DOMAIN t : d + i \in DOMAIN s
  BY <1>2
<1>4. \A i, j \in DOMAIN t : i < j => d + i < d + j
  BY <1>2
<1>5. Ordered(t)
  BY <1>1, <1>2, <1>3, <1>4 DEF Ordered
<1> QED
  BY <1>5 DEF t

\* An ordered list stays so by an update that was called after the last of it.
LEMMA OrderedAppend ==
  ASSUME NEW s \in Seq(Spans), Ordered(s), NEW x \in Spans, x.ts_call <= x.ts_resp,
         \A i \in DOMAIN s : s[i].ts_resp < x.ts_call
  PROVE  Ordered(Append(s, x))
<1> DEFINE t == Append(s, x)
<1>1. /\ DOMAIN t = 1 .. Len(s) + 1 /\ DOMAIN s = 1 .. Len(s) /\ t[Len(s) + 1] = x
      /\ \A i \in 1 .. Len(s) : t[i] = s[i]
      /\ Len(s) \in Nat /\ t # <<>>
  OBVIOUS
<1>2. \A i \in DOMAIN t : i \in DOMAIN s \/ i = Len(s) + 1
  BY <1>1
<1>3. \A i, j \in DOMAIN t : i < j => i \in DOMAIN s
  BY <1>1
<1> HIDE DEF t
<1>4. \A i \in DOMAIN t : t[i].ts_call <= t[i].ts_resp
  BY <1>1, <1>2 DEF Ordered
<1>5. \A i, j \in DOMAIN t : i < j => t[i].ts_resp < t[j].ts_call
  BY <1>1, <1>2, <1>3 DEF Ordered
<1>6. Ordered(t)
  BY <1>1, <1>4, <1>5 DEF Ordered
<1> QED
  BY <1>6 DEF t

\* The update that is recorded.
LEMMA SpanIs ==
  ASSUME TypeOK, LoopInv, NEW c \in Clients, HarvestUpdate(c)
  PROVE  /\ UKey(c) \in PoolKeys
         /\ USpan(c) \in Spans
         /\ USpan(c).ts_call = memo[c].ts_call /\ USpan(c).ts_resp = timestamp
<1>1. /\ memo[c] # None /\ memo[c].ts_call \in Times /\ memo[c].call \in Calls
      /\ timestamp \in Times /\ memo[c].call.op \in UpdateOps
  BY UpdateIs, HarvestTypes
<1>2. UKey(c) \in PoolKeys
  BY <1>1 DEF UKey, LoopInv, UpdateOps
<1>3. memo[c].call.op # "Delete" => memo[c].call.value \in Values
  BY <1>1, CallFields DEF UpdateOps
<1> QED
  BY <1>1, <1>2, <1>3 DEF USpan, SpanOf, Spans

\* The whole history after the update, and the trimmed one before trimming.
LEMMA GrownIs ==
  ASSUME TypeOK, LoopInv, ClockInv, TrimInv, NEW c \in Clients, HarvestUpdate(c),
         NEW d \in Clients
  PROVE  /\ full'[UKey(c)][d] = IF d = c THEN Append(full[UKey(c)][c], USpan(c))
                                         ELSE full[UKey(c)][d]
         /\ full'[UKey(c)][d] \in Seq(Spans) /\ Ordered(full'[UKey(c)][d])
         /\ \E m \in 0 .. Len(full'[UKey(c)][d]) - 1 :
              /\ Grown(c)[d] = SubSeq(full'[UKey(c)][d], m + 1, Len(full'[UKey(c)][d]))
              /\ m > 0 => Ahead(full'[UKey(c)][d][m + 1].ts_resp)
         /\ Grown(c)[d] \in Seq(Spans) /\ Ordered(Grown(c)[d])
<1> DEFINE s == full[UKey(c)][d]
           t == full'[UKey(c)][d]
<1>1. /\ UKey(c) \in PoolKeys /\ USpan(c) \in Spans
      /\ USpan(c).ts_call = memo[c].ts_call /\ USpan(c).ts_resp = timestamp
  BY SpanIs
<1>2. s \in Seq(Spans) /\ full[UKey(c)] \in [Clients -> Seq(Spans)]
  BY <1>1 DEF TypeOK
<1>3. t = IF d = c THEN Append(full[UKey(c)][c], USpan(c)) ELSE s
  <2>1. full' = [full EXCEPT ![UKey(c)][c] = Append(@, USpan(c))]
    BY UpdateIs
  <2>2. full'[UKey(c)] = [full[UKey(c)] EXCEPT ![c] = Append(@, USpan(c))]
    BY <1>1, <2>1 DEF TypeOK
  <2> QED
    BY <1>2, <2>2
<1>4. Ordered(s) /\ \A i \in DOMAIN s : s[i].ts_resp <= maxtr[d]
  BY <1>1 DEF ClockInv
<1>5. PICK m \in 0 .. Len(s) - 1 :
        /\ spans[UKey(c)][d] = SubSeq(s, m + 1, Len(s))
        /\ m > 0 => Ahead(s[m + 1].ts_resp)
  BY <1>1 DEF TrimInv, EndLeft
<1>6. Grown(c)[d] = IF d = c THEN Append(spans[UKey(c)][c], USpan(c)) ELSE spans[UKey(c)][d]
  BY <1>1 DEF Grown, TypeOK
<1>7. Len(s) \in Nat /\ m \in 0 .. Len(s)
  BY <1>2
<1>8. t \in Seq(Spans) /\ Ordered(t)
  <2>1. CASE d # c
    BY <1>2, <1>3, <1>4, <2>1
  <2>2. CASE d = c
    <3>1. maxtr[c] < memo[c].ts_call /\ memo[c].ts_call < timestamp
      <4>1. memo[c] # None /\ at # None
        BY UpdateIs, HarvestTypes, FuzzerAssumption DEF Harvest
      <4> QED
        BY <4>1 DEF ClockInv, Horizon
    <3>2. maxtr[c] \in Nat /\ memo[c].ts_call \in Nat /\ timestamp \in Nat
      <4>1. memo[c].ts_call \in Times /\ timestamp \in Nat
        BY UpdateIs, HarvestTypes
      <4> QED
        BY <4>1, TimesAreNumbers DEF TypeOK
    <3>3. \A i \in DOMAIN s : s[i].ts_resp < USpan(c).ts_call
      <4> TAKE i \in DOMAIN s
      <4>1. s[i].ts_resp \in Nat
        BY <1>2, SpanTimes
      <4>2. s[i].ts_resp <= maxtr[c]
        BY <1>4, <2>2
      <4> QED
        BY <1>1, <3>1, <3>2, <4>1, <4>2
    <3>4. USpan(c).ts_call <= USpan(c).ts_resp
      BY <1>1, <3>1, <3>2
    <3>5. Ordered(Append(s, USpan(c))) /\ Append(s, USpan(c)) \in Seq(Spans)
      BY <1>1, <1>2, <1>4, <3>3, <3>4, OrderedAppend
    <3> QED
      BY <1>3, <2>2, <3>5
  <2> QED
    BY <2>1, <2>2
<1>9. m \in 0 .. Len(t) - 1 /\ t[m + 1] = s[m + 1]
  BY <1>1, <1>2, <1>3, <1>7
<1>10. Grown(c)[d] = SubSeq(t, m + 1, Len(t))
  <2>1. CASE d # c
    BY <1>3, <1>5, <1>6, <2>1
  <2>2. CASE d = c
    <3>1. Append(SubSeq(s, m + 1, Len(s)), USpan(c))
            = SubSeq(Append(s, USpan(c)), m + 1, Len(Append(s, USpan(c))))
      BY <1>1, <1>2, <1>7, SuffixOfAppend
    <3>2. t = Append(s, USpan(c)) /\ Grown(c)[d] = Append(SubSeq(s, m + 1, Len(s)), USpan(c))
      BY <1>3, <1>5, <1>6, <2>2
    <3> HIDE DEF s, t
    <3> QED
      BY <3>1, <3>2
  <2> QED
    BY <2>1, <2>2
<1>11. Grown(c)[d] \in Seq(Spans) /\ Ordered(Grown(c)[d])
  <2>1. m \in 0 .. Len(t)
    BY <1>8, <1>9
  <2> HIDE DEF t, s
  <2> QED
    BY <1>8, <1>9, <1>10, <2>1, OrderedSuffix, SuffixIs
<1>12. m > 0 => Ahead(t[m + 1].ts_resp)
  BY <1>5, <1>9
<1> HIDE DEF s, t
<1>13. \E n \in 0 .. Len(t) - 1 :
         /\ Grown(c)[d] = SubSeq(t, n + 1, Len(t))
         /\ n > 0 => Ahead(t[n + 1].ts_resp)
  BY <1>9, <1>10, <1>12
<1> QED
  BY <1>3, <1>8, <1>11, <1>13 DEF s, t

\* What is left of a list after trimming it.
LEMMA TrimmedIs ==
  ASSUME TypeOK, LoopInv, ClockInv, TrimInv, NEW c \in Clients, HarvestUpdate(c),
         NEW d \in Clients
  PROVE  LET t == full'[UKey(c)][d]
             left == Trim(Grown(c)[d], Bound(c))
         IN  /\ \E m \in 0 .. Len(t) - 1 :
                  /\ left = SubSeq(t, m + 1, Len(t))
                  /\ m > 0 => \/ Ahead(t[m + 1].ts_resp)
                              \/ t[m + 1].ts_resp < Bound(c)
             /\ left \in Seq(Spans)
<1> DEFINE t == full'[UKey(c)][d]
           g == Grown(c)[d]
           left == Trim(g, Bound(c))
<1>1. /\ t \in Seq(Spans) /\ Ordered(t) /\ g \in Seq(Spans) /\ Ordered(g)
      /\ \E m \in 0 .. Len(t) - 1 :
           /\ g = SubSeq(t, m + 1, Len(t))
           /\ m > 0 => Ahead(t[m + 1].ts_resp)
  BY GrownIs
<1>2. Bound(c) \in Nat
  BY UpdateBounds
<1> HIDE DEF t, g
<1>3. PICK m \in 0 .. Len(t) - 1 :
        /\ g = SubSeq(t, m + 1, Len(t))
        /\ m > 0 => Ahead(t[m + 1].ts_resp)
  BY <1>1
<1>4. PICK n \in 0 .. Len(g) - 1 :
        /\ left = SubSeq(g, n + 1, Len(g))
        /\ n > 0 => g[n + 1].ts_resp < Bound(c)
  BY <1>1, <1>2, TrimSuffix
<1>5. m \in 0 .. Len(t) /\ Len(t) \in Nat
  BY <1>1
<1>6. Len(g) = Len(t) - m /\ \A i \in 1 .. Len(t) - m : g[i] = t[m + i]
  BY <1>1, <1>3, <1>5, SuffixIs
<1>7. n \in 0 .. Len(t) - m /\ n \in 0 .. Len(g) /\ m + n \in 0 .. Len(t) - 1
  BY <1>5, <1>6
<1>8. left = SubSeq(t, m + n + 1, Len(t))
  BY <1>1, <1>3, <1>4, <1>5, <1>7, SuffixOfSuffix
<1>9. ASSUME m + n > 0
      PROVE  Ahead(t[m + n + 1].ts_resp) \/ t[m + n + 1].ts_resp < Bound(c)
  <2>1. CASE n = 0
    <3>1. m > 0 /\ m + n + 1 = m + 1
      BY <1>9, <2>1
    <3> QED
      BY <1>3, <3>1
  <2>2. CASE n # 0
    <3>1. n > 0 /\ n + 1 \in 1 .. Len(t) - m /\ m + (n + 1) = m + n + 1
      BY <1>6, <1>7, <2>2
    <3>2. g[n + 1] = t[m + n + 1]
      BY <1>6, <3>1
    <3> QED
      BY <1>4, <3>1, <3>2
  <2> QED
    BY <2>1, <2>2
<1>10. left \in Seq(Spans)
  <2>1. SubSeq(g, n + 1, Len(g)) \in Seq(Spans)
    BY <1>1, <1>7, SuffixIs
  <2> QED
    BY <1>4, <2>1
<1> HIDE DEF left
<1>11. \E k \in 0 .. Len(t) - 1 :
         /\ left = SubSeq(t, k + 1, Len(t))
         /\ k > 0 => Ahead(t[k + 1].ts_resp) \/ t[k + 1].ts_resp < Bound(c)
  BY <1>7, <1>8, <1>9
<1> QED
  BY <1>10, <1>11 DEF left, t, g

----------------------------------------------------------------------------
(***************************************************************************)
(* The order of the timestamps.                                            *)
(***************************************************************************)

\* The times that are recorded are numbers.
LEMMA RecordedTimes ==
  ASSUME TypeOK
  PROVE  /\ timestamp \in Nat /\ Horizon \in Nat /\ timestamp <= Horizon
         /\ \A i \in DOMAIN queue : /\ queue[i] \in Checkable
                                    /\ queue[i].ts_call \in Nat /\ queue[i].ts_resp \in Nat
         /\ \A c \in Clients : /\ maxtr[c] \in Nat
                               /\ memo[c] # None => memo[c].ts_call \in Nat
         /\ \A k \in PoolKeys, c \in Clients : full[k][c] \in Seq(Spans)
<1>1. timestamp \in Nat
  BY Counters
<1>2. Horizon \in Nat /\ timestamp <= Horizon
  BY <1>1 DEF Horizon
<1>3. \A i \in DOMAIN queue : queue[i] \in Checkable
  <2>1. queue \in Seq(Checkable)
    BY DEF TypeOK, Checkable
  <2> QED
    BY <2>1
<1>4. \A x \in Checkable : x.ts_call \in Nat /\ x.ts_resp \in Nat
  BY TimesAreNumbers DEF Checkable
<1>5. \A c \in Clients : maxtr[c] \in Nat
  BY TimesAreNumbers DEF TypeOK
<1>6. \A c \in Clients : memo[c] # None => memo[c].ts_call \in Times
  BY DEF TypeOK
<1> QED
  BY <1>1, <1>2, <1>3, <1>4, <1>5, <1>6, TimesAreNumbers DEF TypeOK

\* The queue with the response that is harvested.
LEMMA QueueGrown ==
  ASSUME TypeOK, LoopInv, ClockInv, NEW c \in Clients, Harvest(c)
  PROVE  /\ \A i \in DOMAIN Q(c) : /\ Q(c)[i].ts_call < Q(c)[i].ts_resp
                                   /\ Q(c)[i].ts_resp < Horizon'
                                   /\ \/ i \in DOMAIN queue /\ Q(c)[i] = queue[i]
                                      \/ Q(c)[i].ts_call = memo[c].ts_call
         /\ \A i, j \in DOMAIN Q(c) : i < j => Q(c)[i].ts_resp < Q(c)[j].ts_resp
         /\ Horizon = timestamp /\ Horizon' = timestamp + 1 /\ timestamp' = timestamp
<1>1. at # None /\ at' = None /\ timestamp' = timestamp
  BY FuzzerAssumption DEF Harvest
<1>2. Horizon = timestamp /\ Horizon' = timestamp + 1 /\ timestamp \in Nat
  BY <1>1, RecordedTimes DEF Horizon
<1>3. /\ Entry(c).ts_call = memo[c].ts_call /\ Entry(c).ts_resp = timestamp
      /\ memo[c].ts_call < timestamp /\ memo[c].ts_call \in Nat
  <2>1. memo[c] # None
    BY HarvestTypes
  <2> QED
    BY <1>2, <2>1, RecordedTimes DEF Entry, ClockInv
<1>4. queue \in Seq(Checkable)
  BY DEF TypeOK, Checkable
<1>5. /\ DOMAIN Q(c) = 1 .. Len(queue) + 1 /\ DOMAIN queue = 1 .. Len(queue)
      /\ Q(c)[Len(queue) + 1] = Entry(c) /\ Len(queue) \in Nat
      /\ \A i \in 1 .. Len(queue) : Q(c)[i] = queue[i]
  BY <1>4 DEF Q
<1>6. \A i \in DOMAIN Q(c) : i \in DOMAIN queue \/ i = Len(queue) + 1
  BY <1>5
<1>7. \A i, j \in DOMAIN Q(c) : i < j => i \in DOMAIN queue
  BY <1>5
<1>8. \A i \in DOMAIN queue : /\ queue[i].ts_call < queue[i].ts_resp
                              /\ queue[i].ts_resp < timestamp /\ queue[i].ts_resp \in Nat
  BY <1>2, RecordedTimes DEF ClockInv
<1>9. \A i \in DOMAIN Q(c) : /\ Q(c)[i].ts_call < Q(c)[i].ts_resp
                             /\ Q(c)[i].ts_resp < timestamp + 1
  <2> TAKE i \in DOMAIN Q(c)
  <2>1. CASE i \in DOMAIN queue
    <3>1. Q(c)[i] = queue[i]
      BY <1>5, <2>1
    <3> QED
      BY <1>2, <1>8, <2>1, <3>1
  <2>2. CASE i = Len(queue) + 1
    BY <1>2, <1>3, <1>5, <2>2
  <2> QED
    BY <1>6, <2>1, <2>2
<1>10. \A i, j \in DOMAIN Q(c) : i < j => Q(c)[i].ts_resp < Q(c)[j].ts_resp
  <2> TAKE i, j \in DOMAIN Q(c)
  <2> HAVE i < j
  <2>1. i \in DOMAIN queue /\ Q(c)[i] = queue[i]
    BY <1>5, <1>7
  <2>2. CASE j \in DOMAIN queue
    BY <1>5, <2>1, <2>2 DEF ClockInv
  <2>3. CASE j = Len(queue) + 1
    BY <1>3, <1>5, <1>8, <2>1, <2>3
  <2> QED
    BY <1>6, <2>2, <2>3
<1> QED
  BY <1>1, <1>2, <1>3, <1>5, <1>6, <1>9, <1>10

\* A step that records nothing, and after which the memo of a client is its
\* old one or one of a new call.
LEMMA ClockKept ==
  ASSUME TypeOK, ClockInv, UNCHANGED <<queue, maxtr, full>>, Horizon' \in Nat,
         Horizon <= Horizon',
         \A c \in Clients :
           memo'[c] # None => \/ memo'[c] = memo[c]
                              \/ memo'[c].ts_call = Horizon /\ Horizon < Horizon'
  PROVE  ClockInv'
<1>1. \A i \in DOMAIN queue' : /\ queue'[i].ts_call < queue'[i].ts_resp
                               /\ queue'[i].ts_resp < Horizon'
  BY RecordedTimes DEF ClockInv
<1>2. \A i, j \in DOMAIN queue' : i < j => queue'[i].ts_resp < queue'[j].ts_resp
  BY DEF ClockInv
<1>3. \A c \in Clients :
        /\ maxtr'[c] < Horizon'
        /\ memo'[c] # None => maxtr'[c] < memo'[c].ts_call /\ memo'[c].ts_call < Horizon'
  BY RecordedTimes DEF ClockInv
<1>4. \A k \in PoolKeys, c \in Clients :
        /\ Ordered(full'[k][c])
        /\ \A i \in DOMAIN full'[k][c] : full'[k][c][i].ts_resp <= maxtr'[c]
  BY DEF ClockInv
<1> QED
  BY <1>1, <1>2, <1>3, <1>4 DEF ClockInv

\* The harvest of a read records its response only in the queue.
LEMMA ReadClock ==
  ASSUME TypeOK, LoopInv, ClockInv, NEW c \in Clients, HarvestRead(c)
  PROVE  ClockInv'
<1>1. /\ Harvest(c) /\ queue' = Q(c) /\ UNCHANGED <<maxtr, full>>
      /\ memo' = [memo EXCEPT ![c] = None]
  BY DEF HarvestRead, Harvest, Q
<1>2. Horizon = timestamp /\ Horizon' = timestamp + 1 /\ timestamp \in Nat
  BY <1>1, QueueGrown, RecordedTimes
<1>3. \A i \in DOMAIN queue' : /\ queue'[i].ts_call < queue'[i].ts_resp
                               /\ queue'[i].ts_resp < Horizon'
  BY <1>1, QueueGrown
<1>4. \A i, j \in DOMAIN queue' : i < j => queue'[i].ts_resp < queue'[j].ts_resp
  BY <1>1, QueueGrown
<1>5. \A d \in Clients : memo'[d] # None => memo'[d] = memo[d]
  BY <1>1 DEF TypeOK
<1>6. \A d \in Clients :
        /\ maxtr'[d] < Horizon'
        /\ memo'[d] # None => maxtr'[d] < memo'[d].ts_call /\ memo'[d].ts_call < Horizon'
  BY <1>1, <1>2, <1>5, RecordedTimes DEF ClockInv
<1>7. \A k \in PoolKeys, d \in Clients :
        /\ Ordered(full'[k][d])
        /\ \A i \in DOMAIN full'[k][d] : full'[k][d][i].ts_resp <= maxtr'[d]
  BY <1>1 DEF ClockInv
<1> QED
  BY <1>3, <1>4, <1>6, <1>7 DEF ClockInv

\* The harvest of an update records it at the end of its client's list.
LEMMA UpdateClock ==
  ASSUME TypeOK, LoopInv, ClockInv, TrimInv, NEW c \in Clients, HarvestUpdate(c)
  PROVE  ClockInv'
<1>1. /\ Harvest(c) /\ maxtr' = NewMax(c) /\ memo' = [memo EXCEPT ![c] = None]
      /\ full' = [full EXCEPT ![UKey(c)][c] = Append(@, USpan(c))]
      /\ at # None /\ memo[c] # None
  BY UpdateIs, HarvestTypes, FuzzerAssumption DEF Harvest
<1>2. Horizon = timestamp /\ Horizon' = timestamp + 1 /\ timestamp \in Nat
  BY <1>1, QueueGrown, RecordedTimes
<1>3. \A i \in DOMAIN queue' : /\ queue'[i].ts_call < queue'[i].ts_resp
                               /\ queue'[i].ts_resp < Horizon'
  BY <1>1, QueueLeft, QueueGrown
<1>4. \A i, j \in DOMAIN queue' : i < j => queue'[i].ts_resp < queue'[j].ts_resp
  <2> TAKE i, j \in DOMAIN queue'
  <2> HAVE i < j
  <2>1. /\ Popped(c) + i \in DOMAIN Q(c) /\ queue'[i] = Q(c)[Popped(c) + i]
        /\ Popped(c) + j \in DOMAIN Q(c) /\ queue'[j] = Q(c)[Popped(c) + j]
    BY QueueLeft
  <2>2. Popped(c) + i < Popped(c) + j
    <3>1. i \in Int /\ j \in Int /\ Popped(c) \in Int
      BY QueueLeft, PoppedIs
    <3> QED
      BY <3>1
  <2> QED
    BY <1>1, <2>1, <2>2, QueueGrown
<1>5. memo'[c] = None /\ \A d \in Clients : d # c => memo'[d] = memo[d]
  BY <1>1 DEF TypeOK
<1>6. maxtr'[c] = timestamp /\ \A d \in Clients : d # c => maxtr'[d] = maxtr[d]
  BY <1>1 DEF TypeOK, NewMax
<1>7. \A d \in Clients : maxtr[d] \in Nat /\ maxtr'[d] \in Nat /\ maxtr[d] <= maxtr'[d]
  BY <1>2, <1>6, RecordedTimes DEF ClockInv
<1>8. \A d \in Clients :
        /\ maxtr'[d] < Horizon'
        /\ memo'[d] # None => maxtr'[d] < memo'[d].ts_call /\ memo'[d].ts_call < Horizon'
  BY <1>2, <1>5, <1>6, RecordedTimes DEF ClockInv
<1>9. UKey(c) \in PoolKeys /\ USpan(c).ts_resp = timestamp
  BY SpanIs
<1>10. \A k \in PoolKeys : k # UKey(c) => full'[k] = full[k]
  BY <1>1 DEF TypeOK
<1>11. ASSUME NEW k \in PoolKeys, NEW d \in Clients
       PROVE  /\ Ordered(full'[k][d])
              /\ \A i \in DOMAIN full'[k][d] : full'[k][d][i].ts_resp <= maxtr'[d]
  <2>1. \A i \in DOMAIN full[k][d] : full[k][d][i].ts_resp <= maxtr'[d]
    <3> TAKE i \in DOMAIN full[k][d]
    <3>1. full[k][d][i].ts_resp \in Nat
      BY RecordedTimes, SpanTimes
    <3>2. full[k][d][i].ts_resp <= maxtr[d]
      BY DEF ClockInv
    <3> QED
      BY <1>7, <3>1, <3>2
  <2>2. CASE k # UKey(c)
    BY <1>10, <2>1, <2>2 DEF ClockInv
  <2>3. CASE k = UKey(c)
    <3>1. /\ Ordered(full'[k][d])
          /\ full'[k][d] = IF d = c THEN Append(full[k][c], USpan(c)) ELSE full[k][d]
      BY <2>3, GrownIs
    <3>2. CASE d # c
      BY <2>1, <3>1, <3>2
    <3>3. CASE d = c
      <4>1. full[k][c] \in Seq(Spans)
        BY RecordedTimes
      <4>2. \A i \in DOMAIN full'[k][c] :
              \/ i \in DOMAIN full[k][c] /\ full'[k][c][i] = full[k][c][i]
              \/ full'[k][c][i] = USpan(c)
        BY <3>1, <3>3, <4>1
      <4> QED
        BY <1>2, <1>6, <1>9, <2>1, <3>1, <3>3, <4>2
    <3> QED
      BY <3>2, <3>3
  <2> QED
    BY <2>2, <2>3
<1> QED
  BY <1>3, <1>4, <1>8, <1>11 DEF ClockInv

\* Every step.
LEMMA ClockStep ==
  ASSUME TypeOK, LoopInv, ClockInv, TrimInv, [Next]_vars
  PROVE  ClockInv'
<1>1. timestamp \in Nat /\ Horizon \in Nat
  BY RecordedTimes
<1>2. CASE UNCHANGED vars
  <2>1. Horizon' = Horizon /\ UNCHANGED <<queue, maxtr, full, memo>>
    BY <1>2 DEF vars, Horizon
  <2> QED
    BY <1>1, <2>1, ClockKept
<1>3. ASSUME NEW c \in Clients, Call(c) PROVE ClockInv'
  <2>1. /\ UNCHANGED <<queue, maxtr, full>> /\ timestamp' = timestamp + 1
        /\ at = None /\ at' = None
    BY <1>3 DEF Call, InLoop, history
  <2>2. Horizon = timestamp + 1 /\ Horizon' = timestamp + 2
    BY <1>1, <2>1 DEF Horizon
  <2>3. PICK k \in Calls : memo' = [memo EXCEPT ![c] = [ts_call |-> timestamp', call |-> k]]
    BY <1>3, CallLoop
  <2>4. \A d \in Clients : memo'[d] = memo[d] \/ memo'[d].ts_call = Horizon
    BY <2>1, <2>2, <2>3 DEF TypeOK
  <2>5. Horizon < Horizon' /\ Horizon <= Horizon' /\ Horizon' \in Nat
    BY <1>1, <2>2
  <2> QED
    BY <2>1, <2>4, <2>5, ClockKept
<1>4. ASSUME NEW c \in Clients, Await(c) PROVE ClockInv'
  <2>1. /\ UNCHANGED <<queue, maxtr, full, memo>> /\ timestamp' = timestamp + 1
        /\ at = None /\ at' # None
    BY <1>4, FuzzerAssumption DEF Await, InLoop, history
  <2>2. Horizon = timestamp + 1 /\ Horizon' = timestamp + 1
    BY <1>1, <2>1 DEF Horizon
  <2> QED
    BY <1>1, <2>1, <2>2, ClockKept
<1>5. ASSUME NEW c \in Clients, HarvestRead(c) PROVE ClockInv'
  BY <1>5, ReadClock
<1>6. ASSUME NEW c \in Clients, HarvestUpdate(c) PROVE ClockInv'
  BY <1>6, UpdateClock
<1>7. ASSUME UNCHANGED <<queue, maxtr, full, memo, timestamp>>, at' = None \/ at' = at
      PROVE  ClockInv'
  <2>1. Horizon' \in Nat /\ Horizon <= Horizon'
    BY <1>1, <1>7 DEF Horizon
  <2> QED
    BY <1>7, <2>1, ClockKept
<1>8. ASSUME NEW c \in Clients, UnexpectedStop(c) PROVE ClockInv'
  BY <1>7, <1>8 DEF UnexpectedStop, history
<1>9. CASE Finish
  BY <1>7, <1>9 DEF Finish, history
<1>10. CASE RunnerFailure
  BY <1>7, <1>10 DEF RunnerFailure, history
<1>11. ASSUME NEW c \in Clients, Execute(c) PROVE ClockInv'
  BY <1>7, <1>11 DEF Execute, history
<1> QED
  BY <1>2, <1>3, <1>4, <1>5, <1>6, <1>8, <1>9, <1>10, <1>11 DEF Next, Turn

----------------------------------------------------------------------------
(***************************************************************************)
(* What is trimmed is out of sight.                                        *)
(***************************************************************************)

\* A time that is ahead of everything to be checked stays so.
LEMMA AheadKept ==
  ASSUME TypeOK, LoopInv, ClockInv, TrimInv, [Next]_vars, NEW t \in Nat, Ahead(t)
  PROVE  Ahead(t)'
<1> SUFFICES Ahead(t)'
  OBVIOUS
<1>1. timestamp \in Nat
  BY Counters
<1>2. ASSUME UNCHANGED <<queue, memo>>, timestamp' = timestamp \/ timestamp' = timestamp + 1
      PROVE  Ahead(t)'
  BY <1>1, <1>2 DEF Ahead
<1>3. CASE UNCHANGED vars
  BY <1>2, <1>3 DEF vars
<1>4. ASSUME NEW c \in Clients, Call(c) PROVE Ahead(t)'
  <2>1. UNCHANGED queue /\ timestamp' = timestamp + 1
    BY <1>4 DEF Call, history
  <2>2. PICK k \in Calls : memo' = [memo EXCEPT ![c] = [ts_call |-> timestamp', call |-> k]]
    BY <1>4, CallLoop
  <2>3. \A d \in Clients : memo'[d] = memo[d] \/ memo'[d].ts_call = timestamp + 1
    BY <2>1, <2>2 DEF TypeOK
  <2>4. t < timestamp + 1 /\ t <= timestamp + 1
    BY <1>1 DEF Ahead
  <2> QED
    BY <2>1, <2>3, <2>4 DEF Ahead
<1>5. ASSUME NEW c \in Clients, Await(c) PROVE Ahead(t)'
  BY <1>2, <1>5 DEF Await, history
<1>6. ASSUME NEW c \in Clients, Harvest(c),
             \A i \in DOMAIN queue' : \E j \in DOMAIN Q(c) : queue'[i] = Q(c)[j]
      PROVE  Ahead(t)'
  <2>1. memo[c] # None /\ t < memo[c].ts_call
    BY <1>6, HarvestTypes DEF Ahead
  <2>2. \A j \in DOMAIN Q(c) : t < Q(c)[j].ts_call
    BY <1>6, <2>1, QueueGrown DEF Ahead
  <2>3. \A d \in Clients : memo'[d] # None => memo'[d] = memo[d]
    BY <1>6 DEF Harvest, TypeOK
  <2>4. timestamp' = timestamp
    BY <1>6 DEF Harvest
  <2> QED
    BY <1>6, <2>2, <2>3, <2>4 DEF Ahead
<1>7. ASSUME NEW c \in Clients, HarvestRead(c) PROVE Ahead(t)'
  <2>1. Harvest(c) /\ queue' = Q(c)
    BY <1>7 DEF HarvestRead, Q
  <2> QED
    BY <1>6, <2>1
<1>8. ASSUME NEW c \in Clients, HarvestUpdate(c) PROVE Ahead(t)'
  BY <1>6, <1>8, QueueLeft, UpdateIs
<1>9. ASSUME NEW c \in Clients, UnexpectedStop(c) PROVE Ahead(t)'
  BY <1>2, <1>9 DEF UnexpectedStop, history
<1>10. CASE Finish
  BY <1>2, <1>10 DEF Finish, history
<1>11. CASE RunnerFailure
  BY <1>2, <1>11 DEF RunnerFailure, history
<1>12. ASSUME NEW c \in Clients, Execute(c) PROVE Ahead(t)'
  BY <1>2, <1>12 DEF Execute, history
<1> QED
  BY <1>3, <1>4, <1>5, <1>7, <1>8, <1>9, <1>10, <1>11, <1>12 DEF Next, Turn

\* So is one that is ahead of the bound of an update.
LEMMA BoundAhead ==
  ASSUME TypeOK, LoopInv, ClockInv, TrimInv, NEW c \in Clients, HarvestUpdate(c),
         NEW t \in Nat, t < Bound(c)
  PROVE  Ahead(t)'
<1>1. /\ Bound(c) \in Nat /\ Coming(c) \in Nat /\ Bound(c) <= Coming(c)
      /\ Coming(c) <= timestamp /\ \A d \in Clients : Coming(c) <= NewMax(c)[d]
  BY UpdateBounds
<1>2. Harvest(c) /\ timestamp' = timestamp /\ timestamp \in Nat
  BY UpdateIs, Counters DEF Harvest
<1>3. \A i \in DOMAIN queue' : t < queue'[i].ts_call
  <2> TAKE i \in DOMAIN queue'
  <2>1. PICK j \in DOMAIN Q(c) : queue'[i] = Q(c)[j]
    BY QueueLeft
  <2>2. Bound(c) <= Q(c)[j].ts_call /\ Q(c)[j].ts_call \in Nat
    <3>1. \A x \in Checkable : x.ts_call \in Nat
      BY TimesAreNumbers DEF Checkable
    <3> QED
      BY <3>1, UpdateBounds
  <2> QED
    BY <1>1, <2>1, <2>2
<1>4. \A d \in Clients : memo'[d] # None => t < memo'[d].ts_call
  <2> TAKE d \in Clients
  <2> HAVE memo'[d] # None
  <2>1. d # c /\ memo'[d] = memo[d] /\ memo[d] # None
    BY <1>2 DEF Harvest, TypeOK
  <2>2. NewMax(c)[d] = maxtr[d]
    BY <2>1 DEF NewMax, TypeOK
  <2>3. maxtr[d] < memo[d].ts_call
    BY <2>1 DEF ClockInv
  <2>4. maxtr[d] \in Nat /\ memo[d].ts_call \in Nat /\ Coming(c) <= maxtr[d]
    BY <1>1, <2>1, <2>2, RecordedTimes
  <2> QED
    BY <1>1, <2>1, <2>3, <2>4
<1>5. t <= timestamp'
  BY <1>1, <1>2
<1> QED
  BY <1>3, <1>4, <1>5 DEF Ahead

\* A list that is left as it is.
LEMMA TrimKept ==
  ASSUME TypeOK, LoopInv, ClockInv, TrimInv, [Next]_vars,
         NEW k \in PoolKeys, NEW c \in Clients,
         spans'[k][c] = spans[k][c], full'[k][c] = full[k][c]
  PROVE  EndLeft(k, c)'
<1>1. PICK d \in 0 .. Len(full[k][c]) - 1 :
        /\ spans[k][c] = SubSeq(full[k][c], d + 1, Len(full[k][c]))
        /\ d > 0 => Ahead(full[k][c][d + 1].ts_resp)
  BY DEF TrimInv, EndLeft
<1>2. full[k][c] \in Seq(Spans)
  BY RecordedTimes
<1>3. d + 1 \in DOMAIN full[k][c]
  BY <1>2
<1>4. full[k][c][d + 1].ts_resp \in Nat
  BY <1>2, <1>3, SpanTimes
<1>5. PICK t \in Nat : t = full[k][c][d + 1].ts_resp
  BY <1>4
<1>6. d > 0 => Ahead(t)'
  BY <1>1, <1>5, AheadKept
<1>7. d > 0 => Ahead(full[k][c][d + 1].ts_resp)'
  BY <1>5, <1>6 DEF Ahead
<1> QED
  BY <1>1, <1>7 DEF EndLeft

\* A list of the key that an update writes.
LEMMA TrimUpdated ==
  ASSUME TypeOK, LoopInv, ClockInv, TrimInv, NEW c \in Clients, HarvestUpdate(c),
         NEW d \in Clients, NEW k \in PoolKeys, k = UKey(c)
  PROVE  EndLeft(k, d)'
<1>1. k = UKey(c)
  OBVIOUS
<1>2. spans'[k][d] = Trim(Grown(c)[d], Bound(c))
  BY <1>1, UpdateIs DEF Trimmed, TypeOK
<1>3. PICK m \in 0 .. Len(full'[k][d]) - 1 :
        /\ spans'[k][d] = SubSeq(full'[k][d], m + 1, Len(full'[k][d]))
        /\ m > 0 => \/ Ahead(full'[k][d][m + 1].ts_resp)
                    \/ full'[k][d][m + 1].ts_resp < Bound(c)
  BY <1>1, <1>2, TrimmedIs
<1>4. full'[k][d] \in Seq(Spans)
  BY <1>1, GrownIs
<1>5. m + 1 \in DOMAIN full'[k][d]
  BY <1>4
<1>6. full'[k][d][m + 1].ts_resp \in Nat
  BY <1>4, <1>5, SpanTimes
<1>7. PICK t \in Nat : t = full'[k][d][m + 1].ts_resp
  BY <1>6
<1>8. [Next]_vars
  BY DEF Next, Turn
<1>9. m > 0 => Ahead(t)'
  BY <1>3, <1>7, <1>8, AheadKept, BoundAhead
<1>10. m > 0 => Ahead(full[k][d][m + 1].ts_resp)'
  BY <1>7, <1>9 DEF Ahead
<1> QED
  BY <1>3, <1>10 DEF EndLeft

\* Every step.
LEMMA TrimStep ==
  ASSUME TypeOK, LoopInv, ClockInv, TrimInv, [Next]_vars
  PROVE  TrimInv'
<1> SUFFICES ASSUME NEW k \in PoolKeys, NEW d \in Clients PROVE EndLeft(k, d)'
  BY DEF TrimInv
<1>1. ASSUME UNCHANGED <<spans, full>> PROVE EndLeft(k, d)'
  BY <1>1, TrimKept
<1>2. CASE UNCHANGED vars
  BY <1>1, <1>2 DEF vars
<1>3. ASSUME NEW c \in Clients, Call(c) PROVE EndLeft(k, d)'
  BY <1>1, <1>3 DEF Call, history
<1>4. ASSUME NEW c \in Clients, Await(c) PROVE EndLeft(k, d)'
  BY <1>1, <1>4 DEF Await, history
<1>5. ASSUME NEW c \in Clients, HarvestRead(c) PROVE EndLeft(k, d)'
  BY <1>1, <1>5 DEF HarvestRead
<1>6. ASSUME NEW c \in Clients, HarvestUpdate(c) PROVE EndLeft(k, d)'
  <2>1. CASE k = UKey(c)
    BY <1>6, <2>1, TrimUpdated
  <2>2. CASE k # UKey(c)
    <3>1. UKey(c) \in PoolKeys /\ spans' = Trimmed(c)
          /\ full' = [full EXCEPT ![UKey(c)][c] = Append(@, USpan(c))]
      BY <1>6, SpanIs, UpdateIs
    <3>2. spans'[k] = spans[k] /\ full'[k] = full[k]
      BY <2>2, <3>1 DEF Trimmed, TypeOK
    <3> QED
      BY <3>2, TrimKept
  <2> QED
    BY <2>1, <2>2
<1>7. ASSUME NEW c \in Clients, UnexpectedStop(c) PROVE EndLeft(k, d)'
  BY <1>1, <1>7 DEF UnexpectedStop, history
<1>8. CASE Finish
  BY <1>1, <1>8 DEF Finish, history
<1>9. CASE RunnerFailure
  BY <1>1, <1>9 DEF RunnerFailure, history
<1>10. ASSUME NEW c \in Clients, Execute(c) PROVE EndLeft(k, d)'
  BY <1>1, <1>10 DEF Execute, history
<1> QED
  BY <1>2, <1>3, <1>4, <1>5, <1>6, <1>7, <1>8, <1>9, <1>10 DEF Next, Turn

----------------------------------------------------------------------------
(***************************************************************************)
(* Types.                                                                  *)
(***************************************************************************)

\* An answer that a service of any kind gives.
LEMMA ExecuteTypes ==
  ASSUME TypeOK, NEW c \in Clients, Execute(c)
  PROVE  store' \in Stores /\ answer' \in [Clients -> Answers \cup {None, StopResp}]
<1>1. memo[c] # None /\ memo[c].call \in Calls
  BY DEF Execute, TypeOK
<1>2. CASE Service = "arbitrary"
  <2>1. \A n \in 0 .. 2 : [1 .. n -> Entries] \subseteq Seq(Entries)
    OBVIOUS
  <2>2. AnyResults \subseteq Answers \cup {StopResp}
    BY <2>1 DEF AnyResults, Answers
  <2> QED
    BY <1>2, <2>2 DEF Execute, TypeOK
<1>3. CASE Service # "arbitrary"
  <2>1. /\ Effect(store, memo[c].call) \in Stores
        /\ Results(store, memo[c].call) \subseteq Answers
    BY <1>1, InterfaceTypes DEF TypeOK
  <2>2. BuggyEffect(memo[c].call) \in Stores
    BY <2>1 DEF BuggyEffect, TypeOK
  <2> QED
    BY <1>3, <2>1, <2>2 DEF Execute, TypeOK
<1> QED
  BY <1>2, <1>3

\* The counters and the memos after a harvest.
LEMMA HarvestedTypes ==
  ASSUME TypeOK, LoopInv, NEW c \in Clients, Harvest(c)
  PROVE  /\ store' \in Stores
         /\ answer' \in [Clients -> Answers \cup {None, StopResp}]
         /\ memo' \in [Clients -> [ts_call : Times, call : Calls] \cup {None}]
         /\ at' \in Clients \cup {None} /\ timestamp' \in {0} \cup Times
         /\ called' \in 0 .. TotalOps
         /\ (flying' = flying /\ waited' = waited) \/ Harvested(c) =>
              /\ flying' \in [Clients -> BOOLEAN] /\ waited' \in 0 .. called'
<1>1. waited < called /\ called \in Nat /\ waited \in Nat
  BY HarvestTypes, Counters
<1>2. waited + 1 \in 0 .. called
  BY <1>1
<1> QED
  BY <1>2 DEF Harvest, Harvested, TypeOK

\* The history after an update.
LEMMA UpdateTypes ==
  ASSUME TypeOK, LoopInv, ClockInv, TrimInv, NEW c \in Clients, HarvestUpdate(c)
  PROVE  /\ queue' \in Seq([ts_call : Times, ts_resp : Times, resp : Answers])
         /\ spans' \in [PoolKeys -> [Clients -> Seq(Spans)]]
         /\ maxtr' \in [Clients -> {0} \cup Times]
         /\ full' \in [PoolKeys -> [Clients -> Seq(Spans)]]
         /\ \A x \in checked' : x.ok \in BOOLEAN
         /\ verdict' \in {"running", "PASSED", "UNFAIR", "FAILED", "error"}
<1>1. queue' \in Seq([ts_call : Times, ts_resp : Times, resp : Answers])
  BY QueueLeft DEF Checkable
<1>2. UKey(c) \in PoolKeys /\ USpan(c) \in Spans
  BY SpanIs
<1>3. spans' \in [PoolKeys -> [Clients -> Seq(Spans)]]
  <2>1. [d \in Clients |-> Trim(Grown(c)[d], Bound(c))] \in [Clients -> Seq(Spans)]
    BY TrimmedIs
  <2> QED
    BY <1>2, <2>1, UpdateIs DEF Trimmed, TypeOK
<1>4. maxtr' \in [Clients -> {0} \cup Times]
  BY UpdateIs DEF NewMax, TypeOK
<1>5. full' \in [PoolKeys -> [Clients -> Seq(Spans)]]
  <2>1. full' = [full EXCEPT ![UKey(c)][c] = Append(@, USpan(c))]
    BY UpdateIs
  <2>2. full[UKey(c)] \in [Clients -> Seq(Spans)]
    BY <1>2 DEF TypeOK
  <2>3. Append(full[UKey(c)][c], USpan(c)) \in Seq(Spans)
    BY <1>2, <2>2
  <2> DEFINE lists == [full[UKey(c)] EXCEPT ![c] = Append(@, USpan(c))]
  <2>4. lists \in [Clients -> Seq(Spans)]
    BY <2>2, <2>3
  <2>5. full' = [full EXCEPT ![UKey(c)] = lists]
    BY <2>1
  <2> HIDE DEF lists
  <2> QED
    BY <1>2, <2>4, <2>5 DEF TypeOK
<1>6. \A x \in checked' : x.ok \in BOOLEAN
  <2>1. checked' = checked \cup {[entry |-> Q(c)[i], ok |-> i \notin Failing(c)] :
                                   i \in 1 .. Popped(c)}
    BY UpdateIs
  <2>2. ASSUME NEW i \in 1 .. Popped(c)
        PROVE  [entry |-> Q(c)[i], ok |-> i \notin Failing(c)].ok \in BOOLEAN
    <3> DEFINE ok == i \notin Failing(c)
    <3>1. ok \in BOOLEAN
      OBVIOUS
    <3> HIDE DEF ok
    <3>2. [entry |-> Q(c)[i], ok |-> ok].ok \in BOOLEAN
      BY <3>1
    <3> QED
      BY <3>2 DEF ok
  <2>3. \A x \in checked : x.ok \in BOOLEAN
    BY DEF TypeOK
  <2> QED
    BY <2>1, <2>2, <2>3
<1> QED
  BY <1>1, <1>3, <1>4, <1>5, <1>6, UpdateIs DEF TypeOK

\* Every step.
LEMMA TypeStep ==
  ASSUME TypeOK, LoopInv, ClockInv, TrimInv, [Next]_vars
  PROVE  TypeOK'
<1>1. CASE UNCHANGED vars
  BY <1>1 DEF vars, TypeOK
<1>2. ASSUME NEW c \in Clients, Call(c) PROVE TypeOK'
  <2>1. memo' \in [Clients -> [ts_call : Times, call : Calls] \cup {None}]
    BY <1>2, CallLoop DEF TypeOK
  <2>2. called' \in 0 .. TotalOps /\ waited' \in 0 .. called'
    <3>1. called' = called + 1 /\ called # TotalOps /\ waited' = waited
      BY <1>2 DEF Call, MayCall
    <3> QED
      BY <3>1, Counters, TimesAreNumbers
  <2>3. timestamp' \in Times
    BY <1>2, CallLoop
  <2>4. /\ flying' = [flying EXCEPT ![c] = TRUE]
        /\ UNCHANGED <<store, answer, at, queue, spans, maxtr, full, checked, verdict>>
    BY <1>2 DEF Call, service, history
  <2> QED
    BY <2>1, <2>2, <2>3, <2>4 DEF TypeOK
<1>3. ASSUME NEW c \in Clients, Await(c) PROVE TypeOK'
  <2>1. timestamp' = timestamp + 1 /\ at' = c
        /\ UNCHANGED <<store, answer, flying, memo, called, waited, queue, spans, maxtr, full,
                       checked, verdict>>
    BY <1>3 DEF Await, service, history
  <2>2. timestamp' \in Times
    <3>1. /\ verdict = "running" /\ at = None /\ waited < TotalOps
      BY <1>3 DEF Await, InLoop
    <3>2. timestamp = called + waited + 0
      BY <3>1 DEF LoopInv
    <3> QED
      BY <2>1, <3>1, <3>2, Counters, TimesAreNumbers DEF Times
  <2> QED
    BY <2>1, <2>2 DEF TypeOK
<1>4. ASSUME NEW c \in Clients, HarvestRead(c) PROVE TypeOK'
  <2>1. Harvest(c) /\ Harvested(c) /\ queue' = Q(c)
        /\ UNCHANGED <<spans, maxtr, full, checked, verdict>>
    BY <1>4 DEF HarvestRead, Q
  <2>2. queue' \in Seq([ts_call : Times, ts_resp : Times, resp : Answers])
    BY <2>1, HarvestTypes DEF Checkable
  <2>3. /\ store' \in Stores
        /\ answer' \in [Clients -> Answers \cup {None, StopResp}]
        /\ memo' \in [Clients -> [ts_call : Times, call : Calls] \cup {None}]
        /\ at' \in Clients \cup {None} /\ timestamp' \in {0} \cup Times
        /\ called' \in 0 .. TotalOps
        /\ flying' \in [Clients -> BOOLEAN] /\ waited' \in 0 .. called'
    BY <2>1, HarvestedTypes
  <2> QED
    BY <2>1, <2>2, <2>3 DEF TypeOK
<1>5. ASSUME NEW c \in Clients, HarvestUpdate(c) PROVE TypeOK'
  <2>1. /\ store' \in Stores
        /\ answer' \in [Clients -> Answers \cup {None, StopResp}]
        /\ memo' \in [Clients -> [ts_call : Times, call : Calls] \cup {None}]
        /\ at' \in Clients \cup {None} /\ timestamp' \in {0} \cup Times
        /\ called' \in 0 .. TotalOps
        /\ flying' \in [Clients -> BOOLEAN] /\ waited' \in 0 .. called'
    BY <1>5, UpdateIs, HarvestedTypes
  <2> QED
    BY <1>5, <2>1, UpdateTypes DEF TypeOK
<1>6. ASSUME UNCHANGED <<store, answer, flying, memo, timestamp, called, waited, queue, spans,
                         maxtr, full, checked>>,
             at' = None \/ at' = at,
             verdict' \in {"running", "PASSED", "UNFAIR", "FAILED", "error"}
      PROVE  TypeOK'
  BY <1>6 DEF TypeOK
<1>7. ASSUME NEW c \in Clients, UnexpectedStop(c) PROVE TypeOK'
  BY <1>6, <1>7 DEF UnexpectedStop, history, service
<1>8. CASE Finish
  BY <1>6, <1>8 DEF Finish, history, service
<1>9. CASE RunnerFailure
  BY <1>6, <1>9 DEF RunnerFailure, history, service
<1>10. ASSUME NEW c \in Clients, Execute(c) PROVE TypeOK'
  <2>1. UNCHANGED <<flying, memo, at, timestamp, called, waited, queue, spans, maxtr, full,
                    checked, verdict>>
    BY <1>10 DEF Execute, history
  <2> QED
    BY <1>10, <2>1, ExecuteTypes DEF TypeOK
<1> QED
  BY <1>1, <1>2, <1>3, <1>4, <1>5, <1>7, <1>8, <1>9, <1>10 DEF Next, Turn

----------------------------------------------------------------------------
(***************************************************************************)
(* What these say of the queue, of the history and of the draws.           *)
(***************************************************************************)

\* Between two turns nothing that is due is left in the queue.
LEMMA DueStep ==
  ASSUME TypeOK, LoopInv, ClockInv, TrimInv, NothingDueWaits, [Next]_vars
  PROVE  NothingDueWaits'
<1>1. ASSUME UNCHANGED <<queue, maxtr>>, verdict' = "running" => verdict = "running"
      PROVE  NothingDueWaits'
  BY <1>1 DEF NothingDueWaits
<1>2. CASE UNCHANGED vars
  BY <1>1, <1>2 DEF vars
<1>3. ASSUME NEW c \in Clients, Call(c) PROVE NothingDueWaits'
  BY <1>1, <1>3 DEF Call, history
<1>4. ASSUME NEW c \in Clients, Await(c) PROVE NothingDueWaits'
  BY <1>1, <1>4 DEF Await, history
<1>5. ASSUME NEW c \in Clients, HarvestRead(c) PROVE NothingDueWaits'
  <2>1. Harvest(c) /\ queue' = Append(queue, Entry(c)) /\ maxtr' = maxtr /\ verdict = "running"
    BY <1>5 DEF HarvestRead, Harvest
  <2>2. queue \in Seq(Checkable)
    BY DEF TypeOK, Checkable
  <2>3. Entry(c).ts_resp >= MinComing(maxtr)
    <3>1. maxtr \in [Clients -> Nat]
      BY TimesAreNumbers DEF TypeOK
    <3>2. MinComing(maxtr) \in Nat /\ MinComing(maxtr) <= maxtr[c]
      BY <3>1, ComingIs
    <3>3. Horizon = timestamp /\ maxtr[c] < Horizon
      BY <2>1, QueueGrown DEF ClockInv
    <3>4. maxtr[c] \in Nat /\ timestamp \in Nat
      BY RecordedTimes
    <3> QED
      BY <3>2, <3>3, <3>4 DEF Entry
  <2>4. \A i \in DOMAIN queue' : \/ i \in DOMAIN queue /\ queue'[i] = queue[i]
                                \/ queue'[i] = Entry(c)
    BY <2>1, <2>2
  <2> QED
    BY <2>1, <2>3, <2>4 DEF NothingDueWaits
<1>6. ASSUME NEW c \in Clients, HarvestUpdate(c) PROVE NothingDueWaits'
  <2>1. CASE verdict' = "FAILED"
    BY <2>1 DEF NothingDueWaits
  <2>2. CASE Failing(c) = {}
    <3>1. \/ Popped(c) = Len(Q(c))
          \/ Q(c)[Popped(c) + 1].ts_resp >= Coming(c)
      BY <1>6, <2>2, PoppedIs
    <3>2. MinComing(maxtr') = Coming(c) /\ Coming(c) \in Nat
      BY <1>6, UpdateIs, UpdateBounds DEF Coming
    <3>3. ASSUME NEW i \in DOMAIN queue' PROVE queue'[i].ts_resp >= Coming(c)
      <4>1. /\ Popped(c) + i \in DOMAIN Q(c) /\ queue'[i] = Q(c)[Popped(c) + i]
            /\ Popped(c) \in Nat /\ i \in Nat /\ i >= 1
            /\ Len(queue') = Len(Q(c)) - Popped(c) /\ i <= Len(queue') /\ Len(Q(c)) \in Nat
        BY <1>6, QueueLeft, PoppedIs, UpdateIs, HarvestTypes
      <4>2. Popped(c) # Len(Q(c))
        BY <4>1
      <4>3. Popped(c) + 1 \in DOMAIN Q(c)
        <5>1. Popped(c) + 1 \in 1 .. Len(Q(c))
          BY <4>1
        <5>2. Q(c) \in Seq(Checkable)
          BY <1>6, UpdateIs, HarvestTypes
        <5> QED
          BY <5>1, <5>2
      <4>4. \A j \in DOMAIN Q(c) : Q(c)[j].ts_resp \in Nat
        <5>1. \A x \in Checkable : x.ts_resp \in Nat
          BY TimesAreNumbers DEF Checkable
        <5> QED
          BY <1>6, <5>1, UpdateBounds
      <4>5. CASE i = 1
        BY <3>1, <4>1, <4>2, <4>5
      <4>6. CASE i # 1
        <5>1. Popped(c) + 1 < Popped(c) + i
          BY <4>1, <4>6
        <5>2. Q(c)[Popped(c) + 1].ts_resp < Q(c)[Popped(c) + i].ts_resp
          BY <1>6, <4>1, <4>3, <5>1, UpdateIs, QueueGrown
        <5>3. Q(c)[Popped(c) + 1].ts_resp \in Nat /\ Q(c)[Popped(c) + i].ts_resp \in Nat
          BY <4>1, <4>3, <4>4
        <5> QED
          BY <3>1, <3>2, <4>1, <4>2, <5>2, <5>3
      <4> QED
        BY <4>5, <4>6
    <3> QED
      BY <3>2, <3>3 DEF NothingDueWaits
  <2> QED
    BY <1>6, <2>1, <2>2, UpdateIs
<1>7. ASSUME NEW c \in Clients, UnexpectedStop(c) PROVE NothingDueWaits'
  BY <1>1, <1>7 DEF UnexpectedStop, history
<1>8. CASE Finish
  BY <1>1, <1>8 DEF Finish, history
<1>9. CASE RunnerFailure
  BY <1>1, <1>9 DEF RunnerFailure, history
<1>10. ASSUME NEW c \in Clients, Execute(c) PROVE NothingDueWaits'
  BY <1>1, <1>10 DEF Execute, history
<1> QED
  BY <1>2, <1>3, <1>4, <1>5, <1>6, <1>7, <1>8, <1>9, <1>10 DEF Next, Turn

\* There is a call to make or one to wait for.
LEMMA DrawsSound ==
  ASSUME TypeOK, LoopInv
  PROVE  DrawsEnd
<1> SUFFICES ASSUME InLoop, \A c \in Clients : ~MayCall(c) /\ ~MayWait(c) PROVE FALSE
  BY DEF DrawsEnd
<1>1. verdict = "running" /\ waited < TotalOps
  BY DEF InLoop
<1>2. \A c \in Clients : ~flying[c]
  BY DEF MayWait
<1>3. called = TotalOps
  BY <1>2, FuzzerAssumption DEF MayCall
<1>4. Flying = {}
  BY <1>2 DEF Flying
<1>5. Cardinality(Flying) = 0
  BY <1>4, FS_EmptySet
<1>6. Cardinality(Flying) = called - waited
  BY <1>1 DEF LoopInv
<1> QED
  BY <1>1, <1>3, <1>5, <1>6, Counters, TimesAreNumbers

\* What is left of each list is ordered.
LEMMA OrderSound ==
  ASSUME TypeOK, ClockInv, TrimInv
  PROVE  HistoryInOrder
<1>1. ASSUME NEW k \in PoolKeys, NEW c \in Clients PROVE Ordered(spans[k][c])
  <2>1. full[k][c] \in Seq(Spans) /\ Ordered(full[k][c])
    BY RecordedTimes DEF ClockInv
  <2>2. PICK d \in 0 .. Len(full[k][c]) - 1 :
          spans[k][c] = SubSeq(full[k][c], d + 1, Len(full[k][c]))
    BY DEF TrimInv, EndLeft
  <2> QED
    BY <2>1, <2>2, OrderedSuffix
<1> QED
  BY <1>1 DEF HistoryInOrder, ClockInv, Ordered

\* Whatever was called after the horizon of what was dropped sees the same.
LEMMA SameVisible ==
  ASSUME TypeOK, TrimInv, NEW k \in PoolKeys, NEW e, e.ts_call \in Nat,
         \A t \in Nat : Ahead(t) => t < e.ts_call
  PROVE  Visible(spans[k], e) = Visible(full[k], e)
<1>1. ASSUME NEW c \in Clients PROVE VisibleOf(spans[k][c], e) = VisibleOf(full[k][c], e)
  <2>1. full[k][c] \in Seq(Spans)
    BY RecordedTimes
  <2>2. PICK d \in 0 .. Len(full[k][c]) - 1 :
          /\ spans[k][c] = SubSeq(full[k][c], d + 1, Len(full[k][c]))
          /\ d > 0 => Ahead(full[k][c][d + 1].ts_resp)
    BY DEF TrimInv, EndLeft
  <2>3. d + 1 \in DOMAIN full[k][c]
    BY <2>1
  <2>4. full[k][c][d + 1].ts_resp \in Nat
    BY <2>1, <2>3, SpanTimes
  <2>5. d > 0 => full[k][c][d + 1].ts_resp < e.ts_call
    BY <2>2, <2>4
  <2> QED
    BY <2>1, <2>2, <2>5, SuffixVisible
<1> QED
  BY <1>1 DEF Visible

\* So do all that are pending.
LEMMA TrimSound ==
  ASSUME TypeOK, TrimInv
  PROVE  TrimHarmless
<1> SUFFICES ASSUME NEW k \in PoolKeys, NEW e \in Pending
             PROVE  Visible(spans[k], e) = Visible(full[k], e)
  BY DEF TrimHarmless
<1>1. timestamp \in Nat
  BY RecordedTimes
<1>2. CASE \E i \in DOMAIN queue : e.ts_call = queue[i].ts_call
  <2>1. e.ts_call \in Nat
    BY <1>2, RecordedTimes
  <2>2. \A t \in Nat : Ahead(t) => t < e.ts_call
    BY <1>2 DEF Ahead
  <2> QED
    BY <2>1, <2>2, SameVisible
<1>3. CASE \E c \in Clients : memo[c] # None /\ e.ts_call = memo[c].ts_call
  <2>1. e.ts_call \in Nat
    BY <1>3, RecordedTimes
  <2>2. \A t \in Nat : Ahead(t) => t < e.ts_call
    BY <1>3 DEF Ahead
  <2> QED
    BY <2>1, <2>2, SameVisible
<1>4. CASE e.ts_call = timestamp + 1
  <2>1. \A t \in Nat : Ahead(t) => t < e.ts_call
    BY <1>1, <1>4 DEF Ahead
  <2> QED
    BY <1>1, <1>4, <2>1, SameVisible
<1> QED
  BY <1>2, <1>3, <1>4 DEF Pending

----------------------------------------------------------------------------
(***************************************************************************)
(* A check is made when its outcome is settled.                            *)
(***************************************************************************)
Right(h, x) == x.ok <=> CheckCall(h, x.entry)

CheckInv ==
  \A x \in checked :
    /\ x.entry \in Checkable
    /\ x.entry.ts_call < x.entry.ts_resp
    /\ x.entry.ts_resp < MinComing(maxtr)
    /\ Right(full, x)

\* The spans of updates in flight: these are acknowledged after everything.
FlyingSpans == [ts_call : Times, ts_resp : {2 * TotalOps + 1}, value : Values \cup {Nil}]

Recorded == Spans \cup FlyingSpans

\* The times in the spans are numbers.
LEMMA RecordedNats == \A x \in Recorded : x.ts_call \in Nat /\ x.ts_resp \in Nat
<1>1. \A y \in Spans : y.ts_call \in Nat /\ y.ts_resp \in Nat
  BY TimesAreNumbers DEF Spans
<1>2. 2 * TotalOps + 1 \in Nat
  BY TimesAreNumbers
<1>3. \A y \in FlyingSpans : y.ts_call \in Times /\ y.ts_resp = 2 * TotalOps + 1
  BY DEF FlyingSpans
<1> QED
  BY <1>1, <1>2, <1>3, TimesAreNumbers DEF Recorded

\* The history h2 has, over h1, only updates that came after e in either sense.
Later(h1, h2, e) ==
  \A k \in PoolKeys, c \in Clients :
    \/ h2[k][c] = h1[k][c]
    \/ \E x \in Recorded :
         /\ x.ts_call >= e.ts_resp /\ x.ts_resp >= e.ts_call
         /\ h2[k][c] = Append(h1[k][c], x)

\* These make no difference to the check of e.
LEMMA LaterSame ==
  ASSUME NEW h1 \in [PoolKeys -> [Clients -> Seq(Spans)]], NEW h2, NEW e \in Checkable,
         Later(h1, h2, e)
  PROVE  CheckCall(h1, e) <=> CheckCall(h2, e)
<1>1. e.ts_call \in Nat /\ e.ts_resp \in Nat
  BY TimesAreNumbers DEF Checkable
<1>2. ASSUME NEW k \in PoolKeys, NEW c \in Clients
      PROVE  VisibleOf(h1[k][c], e) = VisibleOf(h2[k][c], e)
  <2>1. CASE h2[k][c] = h1[k][c]
    BY <2>1
  <2>2. ASSUME NEW x \in Recorded,
               x.ts_call >= e.ts_resp, x.ts_resp >= e.ts_call,
               h2[k][c] = Append(h1[k][c], x)
        PROVE  VisibleOf(h1[k][c], e) = VisibleOf(h2[k][c], e)
    <3>1. x.ts_call \in Nat /\ x.ts_resp \in Nat
      BY RecordedNats
    <3>2. h1[k][c] \in Seq(Spans)
      OBVIOUS
    <3> QED
      BY <1>1, <2>2, <3>1, <3>2, AppendVisible
  <2> QED
    BY <2>1, <2>2 DEF Later
<1>3. \A k \in PoolKeys : Visible(h1[k], e) = Visible(h2[k], e)
  BY <1>2 DEF Visible
<1> QED
  BY <1>3, SameCheck

\* An update in flight was called after the horizon of the checks that are due.
LEMMA FlyingLater ==
  ASSUME TypeOK, ClockInv, NEW e \in Checkable, e.ts_call < e.ts_resp,
         e.ts_resp < MinComing(maxtr)
  PROVE  Later(full, AllUpdates, e)
<1> SUFFICES ASSUME NEW k \in PoolKeys, NEW c \in Clients, InFlight(k, c)
             PROVE  \E x \in FlyingSpans :
                      /\ x.ts_call >= e.ts_resp /\ x.ts_resp >= e.ts_call
                      /\ AllUpdates[k][c] = Append(full[k][c], x)
  BY DEF Later, AllUpdates, Recorded
<1> DEFINE x == SpanOf(memo[c], 2 * TotalOps + 1)
<1>1. memo[c] # None /\ memo[c].call.op \in UpdateOps
  BY DEF InFlight
<1>2. memo[c].ts_call \in Times /\ memo[c].call \in Calls
  BY <1>1 DEF TypeOK
<1>3. memo[c].call.op # "Delete" => memo[c].call.value \in Values
  BY <1>1, <1>2, CallFields DEF UpdateOps
<1>4. /\ x \in FlyingSpans
      /\ x.ts_call = memo[c].ts_call /\ x.ts_resp = 2 * TotalOps + 1
  BY <1>2, <1>3 DEF SpanOf, FlyingSpans
<1>5. AllUpdates[k][c] = Append(full[k][c], x)
  BY DEF AllUpdates
<1>6. maxtr \in [Clients -> Nat]
  BY TimesAreNumbers DEF TypeOK
<1>7. MinComing(maxtr) \in Nat /\ MinComing(maxtr) <= maxtr[c] /\ maxtr[c] \in Nat
  BY <1>6, ComingIs
<1>8. maxtr[c] < memo[c].ts_call
  BY <1>1 DEF ClockInv
<1>9. e.ts_call \in Times /\ e.ts_resp \in Times
  BY DEF Checkable
<1>10. x.ts_call >= e.ts_resp /\ x.ts_resp >= e.ts_call
  <2>1. /\ e.ts_call \in Nat /\ e.ts_resp \in Nat /\ memo[c].ts_call \in Nat
        /\ e.ts_call <= 2 * TotalOps /\ TotalOps \in Nat
    BY <1>2, <1>9, TimesAreNumbers
  <2> HIDE DEF x
  <2> QED
    BY <1>4, <1>7, <1>8, <2>1
<1> HIDE DEF x
<1> QED
  BY <1>4, <1>5, <1>10

\* So the outcome of a check is the one that all updates give.
LEMMA CheckSound ==
  ASSUME TypeOK, ClockInv, CheckInv
  PROVE  CheckFinal
<1> SUFFICES ASSUME NEW x \in checked PROVE x.ok <=> CheckCall(AllUpdates, x.entry)
  BY DEF CheckFinal
<1>1. /\ x.entry \in Checkable /\ x.entry.ts_call < x.entry.ts_resp
      /\ x.entry.ts_resp < MinComing(maxtr)
      /\ x.ok <=> CheckCall(full, x.entry)
  BY DEF CheckInv, Right
<1>2. Later(full, AllUpdates, x.entry)
  BY <1>1, FlyingLater
<1>3. full \in [PoolKeys -> [Clients -> Seq(Spans)]]
  BY DEF TypeOK
<1>4. CheckCall(full, x.entry) <=> CheckCall(AllUpdates, x.entry)
  BY <1>1, <1>2, <1>3, LaterSame
<1> QED
  BY <1>1, <1>4

\* A response in the queue sees in what an update leaves of the history the
\* values that it would see in the whole one.
LEMMA SameInTrimmed ==
  ASSUME TypeOK, LoopInv, ClockInv, TrimInv, NEW c \in Clients, HarvestUpdate(c),
         NEW i \in DOMAIN Q(c)
  PROVE  CheckCall(Trimmed(c), Q(c)[i]) <=> CheckCall(full', Q(c)[i])
<1>1. PICK e \in Checkable : e = Q(c)[i] /\ Bound(c) <= e.ts_call
  BY UpdateBounds
<1>2. e.ts_call \in Nat /\ Bound(c) \in Nat
  BY UpdateBounds, TimesAreNumbers DEF Checkable
<1>3. \A t \in Nat : Ahead(t) => t < e.ts_call
  <2>1. memo[c] # None /\ Harvest(c)
    BY UpdateIs, HarvestTypes
  <2> QED
    BY <1>1, <2>1, QueueGrown DEF Ahead
<1>4. ASSUME NEW k \in PoolKeys
      PROVE  Visible(Trimmed(c)[k], e) = Visible(full'[k], e)
  <2>1. CASE k # UKey(c)
    <3>1. Trimmed(c)[k] = spans[k] /\ full'[k] = full[k]
      BY <2>1, UpdateIs, SpanIs DEF Trimmed, TypeOK
    <3> QED
      BY <1>2, <1>3, <3>1, SameVisible
  <2>2. CASE k = UKey(c)
    <3>1. ASSUME NEW d \in Clients
          PROVE  VisibleOf(Trimmed(c)[k][d], e) = VisibleOf(full'[k][d], e)
      <4>1. Trimmed(c)[k][d] = Trim(Grown(c)[d], Bound(c))
        BY <2>2 DEF Trimmed, TypeOK
      <4>2. PICK m \in 0 .. Len(full'[k][d]) - 1 :
              /\ Trimmed(c)[k][d] = SubSeq(full'[k][d], m + 1, Len(full'[k][d]))
              /\ m > 0 => \/ Ahead(full'[k][d][m + 1].ts_resp)
                          \/ full'[k][d][m + 1].ts_resp < Bound(c)
        BY <2>2, <4>1, TrimmedIs
      <4>3. full'[k][d] \in Seq(Spans)
        BY <2>2, GrownIs
      <4>4. m + 1 \in DOMAIN full'[k][d]
        BY <4>3
      <4>5. full'[k][d][m + 1].ts_resp \in Nat
        BY <4>3, <4>4, SpanTimes
      <4>6. m > 0 => full'[k][d][m + 1].ts_resp < e.ts_call
        BY <1>1, <1>2, <1>3, <4>2, <4>5
      <4> QED
        BY <1>2, <4>2, <4>3, <4>6, SuffixVisible
    <3> QED
      BY <3>1 DEF Visible
  <2> QED
    BY <2>1, <2>2
<1>5. CheckCall(Trimmed(c), e) <=> CheckCall(full', e)
  BY <1>4, SameCheck
<1> QED
  BY <1>1, <1>5

\* What an update does not change for the checks that were made before.
LEMMA UpdateLater ==
  ASSUME TypeOK, LoopInv, ClockInv, TrimInv, NEW c \in Clients, HarvestUpdate(c),
         NEW e \in Checkable, e.ts_call < e.ts_resp, e.ts_resp < MinComing(maxtr)
  PROVE  /\ Later(full, full', e)
         /\ e.ts_resp < MinComing(maxtr')
<1>1. /\ UKey(c) \in PoolKeys /\ USpan(c) \in Spans
      /\ USpan(c).ts_call = memo[c].ts_call /\ USpan(c).ts_resp = timestamp
  BY SpanIs
<1>2. maxtr \in [Clients -> Nat] /\ maxtr' \in [Clients -> Nat] /\ maxtr' = NewMax(c)
  BY UpdateIs, UpdateBounds, TimesAreNumbers DEF TypeOK
<1>3. /\ MinComing(maxtr) \in Nat /\ MinComing(maxtr') \in Nat
      /\ \A d \in Clients : MinComing(maxtr) <= maxtr[d]
      /\ \E d \in Clients : MinComing(maxtr') = maxtr'[d]
  BY <1>2, ComingIs
<1>4. memo[c] # None /\ memo[c].ts_call \in Nat /\ timestamp \in Nat /\ Harvest(c)
  BY UpdateIs, HarvestTypes, RecordedTimes
<1>5. maxtr[c] < memo[c].ts_call /\ memo[c].ts_call < timestamp
  BY <1>4, QueueGrown DEF ClockInv
<1>6. e.ts_call \in Nat /\ e.ts_resp \in Nat
  BY TimesAreNumbers DEF Checkable
<1>7. e.ts_resp < MinComing(maxtr')
  <2>1. PICK d \in Clients : MinComing(maxtr') = maxtr'[d]
    BY <1>3
  <2>2. maxtr[d] <= maxtr'[d] /\ maxtr[d] \in Nat /\ maxtr'[d] \in Nat
    BY <1>2, <1>4, <1>5, RecordedTimes DEF NewMax
  <2> QED
    BY <1>3, <1>6, <2>1, <2>2
<1>8. USpan(c).ts_call >= e.ts_resp /\ USpan(c).ts_resp >= e.ts_call
  <2>1. maxtr[c] \in Nat /\ MinComing(maxtr) <= maxtr[c]
    BY <1>2, <1>3
  <2> QED
    BY <1>1, <1>3, <1>4, <1>5, <1>6, <2>1
<1>9. ASSUME NEW k \in PoolKeys, NEW d \in Clients
      PROVE  \/ full'[k][d] = full[k][d]
             \/ full'[k][d] = Append(full[k][d], USpan(c))
  <2>1. CASE k = UKey(c)
    BY <2>1, GrownIs
  <2>2. CASE k # UKey(c)
    BY <1>1, <2>2, UpdateIs DEF TypeOK
  <2> QED
    BY <2>1, <2>2
<1>10. Later(full, full', e)
  BY <1>1, <1>8, <1>9 DEF Later, Recorded
<1> QED
  BY <1>7, <1>10

\* Every step.
LEMMA CheckStep ==
  ASSUME TypeOK, LoopInv, ClockInv, TrimInv, CheckInv, [Next]_vars
  PROVE  CheckInv'
<1>1. ASSUME UNCHANGED <<checked, maxtr, full>> PROVE CheckInv'
  BY <1>1 DEF CheckInv
<1>2. CASE UNCHANGED vars
  BY <1>1, <1>2 DEF vars
<1>3. ASSUME NEW c \in Clients, Call(c) PROVE CheckInv'
  BY <1>1, <1>3 DEF Call, history
<1>4. ASSUME NEW c \in Clients, Await(c) PROVE CheckInv'
  BY <1>1, <1>4 DEF Await, history
<1>5. ASSUME NEW c \in Clients, HarvestRead(c) PROVE CheckInv'
  BY <1>1, <1>5 DEF HarvestRead
<1>6. ASSUME NEW c \in Clients, HarvestUpdate(c) PROVE CheckInv'
  <2> SUFFICES ASSUME NEW x \in checked'
               PROVE  /\ x.entry \in Checkable
                      /\ x.entry.ts_call < x.entry.ts_resp
                      /\ x.entry.ts_resp < MinComing(maxtr')
                      /\ Right(full', x)
    BY DEF CheckInv
  <2>1. CASE x \in checked
    <3>1. PICK e \in Checkable : e = x.entry /\ e.ts_call < e.ts_resp
                                 /\ e.ts_resp < MinComing(maxtr)
      BY <2>1 DEF CheckInv
    <3>2. Later(full, full', e) /\ e.ts_resp < MinComing(maxtr')
      BY <1>6, <3>1, UpdateLater
    <3>3. full \in [PoolKeys -> [Clients -> Seq(Spans)]]
      BY DEF TypeOK
    <3>4. CheckCall(full, e) <=> CheckCall(full', e)
      BY <3>2, <3>3, LaterSame
    <3>5. Right(full', x)
      BY <2>1, <3>1, <3>4 DEF CheckInv, Right
    <3> QED
      BY <3>1, <3>2, <3>5
  <2>2. ASSUME NEW i \in 1 .. Popped(c), x = [entry |-> Q(c)[i], ok |-> i \notin Failing(c)]
        PROVE  /\ x.entry \in Checkable
               /\ x.entry.ts_call < x.entry.ts_resp
               /\ x.entry.ts_resp < MinComing(maxtr')
               /\ Right(full', x)
    <3> DEFINE ok == i \notin Failing(c)
    <3>1. i \in DOMAIN Q(c)
      <4>1. Q(c) \in Seq(Checkable) /\ Popped(c) \in 0 .. Len(Q(c))
        BY <1>6, UpdateIs, HarvestTypes, PoppedIs
      <4> QED
        BY <4>1
    <3>2. Q(c)[i].ts_resp < Coming(c) /\ (ok <=> CheckCall(Trimmed(c), Q(c)[i]))
      BY <1>6, PoppedIs
    <3>3. CheckCall(Trimmed(c), Q(c)[i]) <=> CheckCall(full', Q(c)[i])
      BY <1>6, <3>1, SameInTrimmed
    <3>4. x = [entry |-> Q(c)[i], ok |-> ok]
      BY <2>2
    <3>5. Q(c)[i] \in Checkable /\ Q(c)[i].ts_call < Q(c)[i].ts_resp
      BY <1>6, <3>1, UpdateBounds, QueueGrown, UpdateIs
    <3>6. MinComing(maxtr') = Coming(c)
      BY <1>6, UpdateIs DEF Coming
    <3> HIDE DEF ok
    <3>7. x.entry = Q(c)[i] /\ x.ok = ok
      BY <3>4
    <3>8. x.ok <=> CheckCall(full', x.entry)
      BY <3>2, <3>3, <3>7
    <3> QED
      BY <3>2, <3>5, <3>6, <3>7, <3>8 DEF Right
  <2>3. \/ x \in checked
        \/ \E i \in 1 .. Popped(c) : x = [entry |-> Q(c)[i], ok |-> i \notin Failing(c)]
    BY <1>6, UpdateIs
  <2> QED
    BY <2>1, <2>2, <2>3
<1>7. ASSUME NEW c \in Clients, UnexpectedStop(c) PROVE CheckInv'
  BY <1>1, <1>7 DEF UnexpectedStop, history
<1>8. CASE Finish
  BY <1>1, <1>8 DEF Finish, history
<1>9. CASE RunnerFailure
  BY <1>1, <1>9 DEF RunnerFailure, history
<1>10. ASSUME NEW c \in Clients, Execute(c) PROVE CheckInv'
  BY <1>1, <1>10 DEF Execute, history
<1> QED
  BY <1>2, <1>3, <1>4, <1>5, <1>6, <1>7, <1>8, <1>9, <1>10 DEF Next, Turn

----------------------------------------------------------------------------
(***************************************************************************)
(* No response is lost between the harvest and its check.                  *)
(***************************************************************************)
AccountInv == IsFiniteSet(checked) /\ VerdictAccounts

\* The responses that an update checks, with their outcomes.
NewlyChecked(c) ==
  {[entry |-> Q(c)[i], ok |-> i \notin Failing(c)] : i \in 1 .. Popped(c)}

\* They are as many as are popped: no two have the same response time.
LEMMA CheckedOnce ==
  ASSUME TypeOK, LoopInv, ClockInv, NEW c \in Clients, HarvestUpdate(c)
  PROVE  IsFiniteSet(NewlyChecked(c)) /\ Cardinality(NewlyChecked(c)) = Popped(c)
<1> DEFINE n == Popped(c)
           item(i) == [entry |-> Q(c)[i], ok |-> i \notin Failing(c)]
           f == [i \in 1 .. n |-> item(i)]
<1>1. Harvest(c) /\ Q(c) \in Seq(Checkable) /\ n \in Nat /\ n <= Len(Q(c))
  BY UpdateIs, HarvestTypes, PoppedIs
<1>2. \A i \in 1 .. n : i \in DOMAIN Q(c)
  BY <1>1
<1>3. \A i \in 1 .. n : Q(c)[i].ts_resp \in Nat
  <2>1. \A x \in Checkable : x.ts_resp \in Nat
    BY TimesAreNumbers DEF Checkable
  <2> QED
    BY <1>2, <2>1, UpdateBounds
<1>4. ASSUME NEW i \in 1 .. n, NEW j \in 1 .. n, f[i] = f[j] PROVE i = j
  <2>1. Q(c)[i] = Q(c)[j]
    <3>1. f[i].entry = Q(c)[i] /\ f[j].entry = Q(c)[j]
      OBVIOUS
    <3> QED
      BY <1>4, <3>1
  <2>2. ~(i < j) /\ ~(j < i)
    BY <1>1, <1>2, <1>3, <2>1, QueueGrown
  <2> QED
    BY <1>1, <2>2
<1>5. ASSUME NEW x \in NewlyChecked(c) PROVE \E i \in 1 .. n : f[i] = x
  BY DEF NewlyChecked
<1>6. f \in [1 .. n -> NewlyChecked(c)]
  BY DEF NewlyChecked
<1>7. ExistsBijection(1 .. n, NewlyChecked(c))
  <2> HIDE DEF f, n
  <2>1. f \in Bijection(1 .. n, NewlyChecked(c))
    BY <1>4, <1>5, <1>6 DEF Bijection, Injection, Surjection, IsInjective
  <2> QED
    BY <2>1 DEF ExistsBijection
<1>8. IsFiniteSet(1 .. n) /\ Cardinality(1 .. n) = n
  <2>1. n = IF 1 > n THEN 0 ELSE n - 1 + 1
    BY <1>1
  <2> HIDE DEF n
  <2> QED
    BY <1>1, <2>1, FS_Interval
<1> HIDE DEF f, n
<1>9. IsFiniteSet(NewlyChecked(c)) /\ Cardinality(NewlyChecked(c)) = n
  BY <1>7, <1>8, FS_Bijection
<1> QED
  BY <1>9 DEF n

\* None of them has been checked before: each was acknowledged later than all
\* that had been due.
LEMMA NotCheckedBefore ==
  ASSUME TypeOK, LoopInv, ClockInv, NothingDueWaits, CheckInv,
         NEW c \in Clients, HarvestUpdate(c)
  PROVE  checked \cap NewlyChecked(c) = {}
<1>1. Harvest(c) /\ verdict = "running" /\ Q(c) \in Seq(Checkable)
      /\ Popped(c) \in 0 .. Len(Q(c))
  BY UpdateIs, HarvestTypes, PoppedIs DEF Harvest
<1>2. MinComing(maxtr) \in Nat /\ MinComing(maxtr) <= maxtr[c] /\ maxtr[c] <= timestamp
      /\ maxtr[c] \in Nat /\ timestamp \in Nat
  <2>1. maxtr \in [Clients -> Nat]
    BY TimesAreNumbers DEF TypeOK
  <2>2. Horizon = timestamp /\ maxtr[c] < Horizon
    BY <1>1, QueueGrown DEF ClockInv
  <2> QED
    BY <2>1, <2>2, ComingIs, RecordedTimes
<1>3. ASSUME NEW i \in DOMAIN Q(c)
      PROVE  Q(c)[i].ts_resp \in Nat /\ Q(c)[i].ts_resp >= MinComing(maxtr)
  <2>1. queue \in Seq(Checkable)
    BY DEF TypeOK, Checkable
  <2>2. (i \in DOMAIN queue /\ Q(c)[i] = queue[i]) \/ Q(c)[i] = Entry(c)
    BY <2>1 DEF Q
  <2>3. CASE i \in DOMAIN queue /\ Q(c)[i] = queue[i]
    BY <1>1, <2>3, RecordedTimes DEF NothingDueWaits
  <2>4. CASE Q(c)[i] = Entry(c)
    BY <1>2, <2>4 DEF Entry
  <2> QED
    BY <2>2, <2>3, <2>4
<1>4. ASSUME NEW x \in checked, x \in NewlyChecked(c) PROVE FALSE
  <2>1. PICK i \in 1 .. Popped(c) : x = [entry |-> Q(c)[i], ok |-> i \notin Failing(c)]
    BY <1>4 DEF NewlyChecked
  <2>2. i \in DOMAIN Q(c) /\ x.entry = Q(c)[i]
    BY <1>1, <2>1
  <2>3. x.entry.ts_resp < MinComing(maxtr)
    BY DEF CheckInv
  <2> QED
    BY <1>2, <1>3, <2>2, <2>3
<1> QED
  BY <1>4

\* Every step.
LEMMA AccountStep ==
  ASSUME TypeOK, LoopInv, ClockInv, TrimInv, NothingDueWaits, CheckInv, AccountInv,
         [Next]_vars
  PROVE  AccountInv'
<1>1. ASSUME UNCHANGED <<checked, queue, waited, verdict>>,
             verdict = "FAILED" => \A c \in Clients : answer[c] = StopResp => answer'[c] = StopResp
      PROVE  AccountInv'
  BY <1>1 DEF AccountInv, VerdictAccounts
<1>2. CASE UNCHANGED vars
  BY <1>1, <1>2 DEF vars
<1>3. ASSUME NEW c \in Clients, Call(c) PROVE AccountInv'
  BY <1>1, <1>3 DEF Call, history, service
<1>4. ASSUME NEW c \in Clients, Await(c) PROVE AccountInv'
  BY <1>1, <1>4 DEF Await, history, service
<1>5. ASSUME NEW c \in Clients, HarvestRead(c) PROVE AccountInv'
  <2>1. /\ verdict = "running" /\ verdict' = verdict /\ checked' = checked
        /\ queue' = Append(queue, Entry(c)) /\ waited' = waited + 1
    BY <1>5 DEF HarvestRead, Harvest, Harvested
  <2>2. queue \in Seq(Checkable)
    BY DEF TypeOK, Checkable
  <2>3. Len(queue') = Len(queue) + 1 /\ Len(queue) \in Nat
    BY <2>1, <2>2
  <2>4. Cardinality(checked) \in Nat /\ waited \in Nat
    BY Counters, FS_CardinalityType DEF AccountInv
  <2>5. Cardinality(checked') + Len(queue') = waited'
    BY <2>1, <2>3, <2>4 DEF AccountInv, VerdictAccounts
  <2> QED
    BY <2>1, <2>5 DEF AccountInv, VerdictAccounts
<1>6. ASSUME NEW c \in Clients, HarvestUpdate(c) PROVE AccountInv'
  <2> DEFINE new == NewlyChecked(c)
  <2>1. /\ verdict = "running" /\ checked' = checked \cup new
        /\ Len(queue') = Len(Q(c)) - Popped(c) /\ Len(Q(c)) = Len(queue) + 1
        /\ Len(queue) \in Nat /\ Popped(c) \in 0 .. Len(Q(c))
    <3>1. queue \in Seq(Checkable)
      BY DEF TypeOK, Checkable
    <3>2. Len(Q(c)) = Len(queue) + 1 /\ Len(queue) \in Nat
      BY <3>1 DEF Q
    <3>3. verdict = "running" /\ checked' = checked \cup new
      BY <1>6, UpdateIs DEF Harvest, NewlyChecked
    <3> HIDE DEF new
    <3> QED
      BY <1>6, <3>2, <3>3, QueueLeft, PoppedIs
  <2>2. /\ IsFiniteSet(checked') /\ Cardinality(checked) \in Nat
        /\ Cardinality(checked') = Cardinality(checked) + Popped(c)
    <3>1. IsFiniteSet(new) /\ Cardinality(new) = Popped(c) /\ checked \cap new = {}
      BY <1>6, CheckedOnce, NotCheckedBefore
    <3>2. IsFiniteSet(checked) /\ Cardinality(checked) \in Nat
      BY FS_CardinalityType DEF AccountInv
    <3>3. Cardinality(checked \cap new) = 0
      BY <3>1, FS_EmptySet
    <3> HIDE DEF new
    <3>4. /\ IsFiniteSet(checked \cup new)
          /\ Cardinality(checked \cup new)
               = Cardinality(checked) + Cardinality(new) - Cardinality(checked \cap new)
      BY <3>1, <3>2, FS_Union
    <3>5. Popped(c) \in Nat
      BY <2>1
    <3> QED
      BY <2>1, <3>1, <3>2, <3>3, <3>4, <3>5
  <2>3. CASE Failing(c) = {}
    <3>1. verdict' = verdict /\ waited' = waited + 1
      BY <1>6, <2>3, UpdateIs DEF Harvested
    <3>2. \A x \in checked' : x.ok
      <4>1. \A x \in new : x.ok
        <5> TAKE x \in new
        <5>1. PICK i \in 1 .. Popped(c) : x = [entry |-> Q(c)[i], ok |-> i \notin Failing(c)]
          BY DEF NewlyChecked
        <5>2. i \notin Failing(c)
          BY <2>3
        <5> QED
          BY <5>1, <5>2
      <4> QED
        BY <2>1, <4>1 DEF AccountInv, VerdictAccounts
    <3>3. Cardinality(checked) + Len(queue) = waited
      BY <2>1 DEF AccountInv, VerdictAccounts
    <3>4. Cardinality(checked') + Len(queue') = waited'
      <4> HIDE DEF new
      <4> QED
        BY <2>1, <2>2, <3>1, <3>3
    <3> QED
      BY <2>1, <2>2, <3>1, <3>2, <3>4 DEF AccountInv, VerdictAccounts
  <2>4. CASE Failing(c) # {}
    <3>1. verdict' = "FAILED"
      BY <1>6, <2>4, UpdateIs
    <3>2. Popped(c) \in Failing(c) /\ Popped(c) \in 1 .. Popped(c)
      <4>1. Popped(c) \in Failing(c)
        BY <1>6, <2>4, PoppedIs
      <4>2. Popped(c) \in DOMAIN Q(c)
        BY <4>1 DEF Failing, DueOf, Due
      <4>3. Q(c) \in Seq(Checkable)
        BY <1>6, UpdateIs, HarvestTypes
      <4> QED
        BY <4>1, <4>2, <4>3
    <3>3. PICK x \in new : ~x.ok
      <4> DEFINE y == [entry |-> Q(c)[Popped(c)], ok |-> Popped(c) \notin Failing(c)]
      <4>1. y \in new
        BY <3>2 DEF NewlyChecked
      <4>2. ~y.ok
        BY <3>2
      <4> QED
        BY <4>1, <4>2
    <3>4. x \in checked'
      BY <2>1
    <3> QED
      BY <2>2, <3>1, <3>3, <3>4 DEF AccountInv, VerdictAccounts
  <2> QED
    BY <2>3, <2>4
<1>7. ASSUME NEW c \in Clients, UnexpectedStop(c) PROVE AccountInv'
  <2>1. /\ answer'[c] = StopResp /\ verdict' = "FAILED" /\ checked' = checked
    BY <1>7 DEF UnexpectedStop, history, service
  <2> QED
    BY <2>1 DEF AccountInv, VerdictAccounts
<1>8. CASE Finish
  <2>1. /\ verdict = "running" /\ waited = TotalOps
        /\ verdict' = IF Len(queue) >= RemainThresh THEN "UNFAIR" ELSE "PASSED"
        /\ UNCHANGED <<checked, queue, waited>>
    BY <1>8 DEF Finish, history
  <2>2. Cardinality(checked) \in Nat /\ Len(queue) \in Nat
    <3>1. queue \in Seq(Checkable)
      BY DEF TypeOK, Checkable
    <3> QED
      BY <3>1, FS_CardinalityType DEF AccountInv
  <2>3. \A x \in checked : x.ok
    BY <2>1 DEF AccountInv, VerdictAccounts
  <2>4. Cardinality(checked) + Len(queue) = waited
    BY <2>1 DEF AccountInv, VerdictAccounts
  <2>5. verdict' = "PASSED" => Cardinality(checked) + RemainThresh > TotalOps
    BY <2>1, <2>2, <2>4, FuzzerAssumption
  <2> QED
    BY <2>1, <2>3, <2>4, <2>5 DEF AccountInv, VerdictAccounts
<1>9. CASE RunnerFailure
  BY <1>9 DEF RunnerFailure, history, AccountInv, VerdictAccounts
<1>10. ASSUME NEW c \in Clients, Execute(c) PROVE AccountInv'
  <2>1. \A d \in Clients : answer[d] = StopResp => answer'[d] = StopResp
    <3>1. \A d \in Clients : answer[d] = StopResp => d # c
      BY <1>10, NoneAssumption DEF Execute
    <3> QED
      BY <1>10, <3>1 DEF Execute, TypeOK
  <2> QED
    BY <1>1, <1>10, <2>1 DEF Execute, history
<1> QED
  BY <1>2, <1>3, <1>4, <1>5, <1>6, <1>7, <1>8, <1>9, <1>10 DEF Next, Turn

----------------------------------------------------------------------------
(***************************************************************************)
(* A linearizable service passes its checks.  Each answer is explained by  *)
(* the store at the instant when it was computed: each of the values in it *)
(* was written by an update that is visible to the response.  That stays   *)
(* so as the lists of updates grow.                                        *)
(***************************************************************************)
Explained(h, r, ts_call, ts_resp) ==
  \E d \in Stores, k \in Calls :
    /\ k.op # "Scan" => k.key \in PoolKeys
    /\ r \in Results(d, k)
    /\ \A key \in PoolKeys :
         d[key] \in Visible(h[key], [ts_call |-> ts_call, ts_resp |-> ts_resp])

\* The list t is s with the response times of some updates known better, and
\* with later ones.
Grows(s, t, now) ==
  /\ Len(s) <= Len(t)
  /\ \A n \in 1 .. Len(s) :
       /\ t[n].value = s[n].value /\ t[n].ts_call = s[n].ts_call
       /\ t[n].ts_resp = s[n].ts_resp \/ t[n].ts_resp >= now
  /\ \A n \in Len(s) + 1 .. Len(t) : t[n].ts_resp >= now

\* What was visible in s is visible in t, to a response that is not earlier.
LEMMA GrowsVisible ==
  ASSUME NEW S, NEW s \in Seq(S), NEW t \in Seq(S), NEW now \in Nat, Grows(s, t, now),
         \A x \in S : x.ts_call \in Nat /\ x.ts_resp \in Nat,
         NEW ts_call \in Nat, ts_call <= now,
         NEW r1 \in Nat, NEW r2 \in Nat, r1 <= r2
  PROVE  VisibleOf(s, [ts_call |-> ts_call, ts_resp |-> r1])
           \subseteq VisibleOf(t, [ts_call |-> ts_call, ts_resp |-> r2])
<1> SUFFICES ASSUME NEW v \in VisibleOf(s, [ts_call |-> ts_call, ts_resp |-> r1])
             PROVE  v \in VisibleOf(t, [ts_call |-> ts_call, ts_resp |-> r2])
  OBVIOUS
<1>1. /\ DOMAIN s = 1 .. Len(s) /\ DOMAIN t = 1 .. Len(t) /\ Len(s) \in Nat /\ Len(t) \in Nat
      /\ \A i \in 1 .. Len(s) : s[i] \in S
      /\ \A i \in 1 .. Len(t) : t[i] \in S
  OBVIOUS
<1>2. PICK n \in 1 .. Len(s) :
        /\ v = s[n].value /\ s[n].ts_call < r1
        /\ \A m \in n + 1 .. Len(s) : s[m].ts_resp >= ts_call
  BY <1>1 DEF VisibleOf
<1>3. n \in 1 .. Len(t) /\ t[n].value = v /\ t[n].ts_call < r2
  <2>1. n \in 1 .. Len(t)
    BY <1>1 DEF Grows
  <2>2. t[n].value = s[n].value /\ t[n].ts_call = s[n].ts_call /\ s[n].ts_call \in Nat
    BY <1>1 DEF Grows
  <2> QED
    BY <1>2, <2>1, <2>2
<1>4. \A m \in n + 1 .. Len(t) : t[m].ts_resp >= ts_call
  <2> TAKE m \in n + 1 .. Len(t)
  <2>1. m \in 1 .. Len(t)
    BY <1>1
  <2>2. t[m].ts_resp \in Nat
    BY <1>1, <2>1
  <2>3. CASE t[m].ts_resp >= now
    BY <2>2, <2>3
  <2>4. CASE m \in 1 .. Len(s) /\ t[m].ts_resp = s[m].ts_resp
    <3>1. m \in n + 1 .. Len(s)
      BY <1>1, <2>4
    <3> QED
      BY <1>2, <2>4, <3>1
  <2>5. m \in 1 .. Len(s) \/ m \in Len(s) + 1 .. Len(t)
    BY <1>1, <2>1
  <2> QED
    BY <2>3, <2>4, <2>5 DEF Grows
<1> QED
  BY <1>1, <1>3, <1>4 DEF VisibleOf

\* A scan shows of each key in its range the value in the store.
LEMMA ScanShows ==
  ASSUME NEW d \in Stores, NEW start \in Keys, NEW end \in Keys,
         NEW list \in ScanLists(d, start, end)
  PROVE  /\ \A i \in DOMAIN list : start <= list[i][1] /\ list[i][1] <= end
         /\ \A i, j \in DOMAIN list : list[i][1] = list[j][1] => i = j
         /\ \A k \in Keys : start <= k /\ k <= end => EntryOf(list, k) = d[k]
<1>1. PICK n \in 0 .. NumKeys : list \in [1 .. n -> InRange(d, start, end)]
  BY DEF ScanLists
<1>2. DOMAIN list = 1 .. n /\ Len(list) = n /\ n \in Nat
  BY <1>1, KVAssumption
<1>3. \A i \in DOMAIN list : /\ list[i][1] \in Keys /\ list[i] = <<list[i][1], d[list[i][1]]>>
                             /\ start <= list[i][1] /\ list[i][1] <= end
                             /\ d[list[i][1]] # Nil
  <2>1. \A x \in InRange(d, start, end) :
          /\ x[1] \in Keys /\ x = <<x[1], d[x[1]]>>
          /\ start <= x[1] /\ x[1] <= end /\ d[x[1]] # Nil
    BY DEF InRange
  <2> QED
    BY <1>1, <2>1
<1>4. \A i, j \in DOMAIN list : i < j => list[i][1] < list[j][1]
  BY <1>2 DEF ScanLists, Ascending
<1>5. \A i, j \in DOMAIN list : list[i][1] = list[j][1] => i = j
  <2> TAKE i, j \in DOMAIN list
  <2>1. i \in Nat /\ j \in Nat /\ list[i][1] \in Nat /\ list[j][1] \in Nat
    BY <1>2, <1>3 DEF Keys
  <2>2. (i < j => list[i][1] < list[j][1]) /\ (j < i => list[j][1] < list[i][1])
    BY <1>4
  <2> HIDE <1>3, <1>4
  <2> QED
    BY <2>1, <2>2
<1>6. ASSUME NEW k \in Keys, start <= k, k <= end PROVE EntryOf(list, k) = d[k]
  <2> DEFINE there == {i \in DOMAIN list : list[i][1] = k}
  <2>1. EntryOf(list, k) = IF there = {} THEN Nil ELSE list[Min(there)][2]
    BY DEF EntryOf
  <2>2. CASE d[k] = Nil
    <3>1. there = {}
      BY <1>3, <2>2
    <3> QED
      BY <2>1, <2>2, <3>1
  <2>3. CASE d[k] # Nil
    <3>1. <<k, d[k]>> \in InRange(d, start, end)
      BY <1>6, <2>3 DEF InRange
    <3>2. PICK i \in 1 .. Len(list) : list[i] = <<k, d[k]>>
      BY <3>1 DEF ScanLists
    <3>3. i \in there
      BY <1>2, <3>2
    <3>4. there \in SUBSET Nat
      BY <1>2
    <3>5. Min(there) \in there
      <4> HIDE DEF there
      <4> QED
        BY <3>3, <3>4, MinOf
    <3>6. list[Min(there)][1] = k /\ Min(there) \in DOMAIN list
      BY <3>5
    <3>7. list[Min(there)] = <<k, d[k]>>
      BY <1>3, <3>6
    <3> HIDE DEF there
    <3> QED
      BY <2>1, <3>3, <3>7
  <2> QED
    BY <2>2, <2>3
<1> QED
  BY <1>3, <1>5, <1>6

\* A response that is explained passes its check.
LEMMA ExplainedPasses ==
  ASSUME NEW h, NEW e \in Checkable, Explained(h, e.resp, e.ts_call, e.ts_resp)
  PROVE  CheckCall(h, e)
<1>1. PICK d \in Stores, k \in Calls :
        /\ k.op # "Scan" => k.key \in PoolKeys
        /\ e.resp \in Results(d, k)
        /\ \A key \in PoolKeys :
             d[key] \in Visible(h[key], [ts_call |-> e.ts_call, ts_resp |-> e.ts_resp])
  BY DEF Explained
<1>2. \A key \in PoolKeys : d[key] \in Visible(h[key], e)
  BY <1>1 DEF Visible, VisibleOf
<1>3. \A key \in PoolKeys : d[key] \in Values \cup {Nil}
  BY PoolType DEF Stores
<1>4. CASE k.op \in {"Put", "Delete"}
  <2> DEFINE found == d[k.key] # Nil
  <2>1. k.key \in PoolKeys
    BY <1>1, <1>4
  <2>2. Results(d, k) = {[op |-> k.op, key |-> k.key, found |-> found]}
    BY <1>4 DEF Results
  <2>3. d[k.key] \in Visible(h[k.key], e) /\ d[k.key] \in IF found THEN Values ELSE {Nil}
    BY <1>2, <1>3, <2>1
  <2> HIDE DEF found
  <2>4. e.resp = [op |-> k.op, key |-> k.key, found |-> found]
    BY <1>1, <2>2
  <2>5. e.resp.op = k.op /\ e.resp.key = k.key /\ e.resp.found = found
    BY <2>4
  <2>6. Shows(h[k.key], e, IF found THEN Values ELSE {Nil})
    BY <2>3 DEF Shows
  <2> QED
    BY <1>4, <2>1, <2>5, <2>6 DEF CheckCall
<1>5. CASE k.op \in {"Swap", "Get"}
  <2>1. k.key \in PoolKeys
    BY <1>1, <1>5
  <2>2. Results(d, k) = {[op |-> k.op, key |-> k.key, value |-> d[k.key]]}
    BY <1>5 DEF Results
  <2>3. e.resp = [op |-> k.op, key |-> k.key, value |-> d[k.key]]
    BY <1>1, <2>2
  <2>4. e.resp.op = k.op /\ e.resp.key = k.key /\ e.resp.value = d[k.key]
    BY <2>3
  <2>5. Shows(h[k.key], e, {d[k.key]})
    BY <1>2, <2>1 DEF Shows
  <2>6. e.resp.op \notin {"Put", "Delete"}
    BY <1>5, <2>4
  <2> QED
    BY <1>5, <2>1, <2>4, <2>5, <2>6 DEF CheckCall
<1>6. CASE k.op = "Scan"
  <2>1. k.start \in Keys /\ k.end \in Keys
    BY <1>6, CallFields
  <2>2. PICK list \in ScanLists(d, k.start, k.end) :
          e.resp = [op |-> "Scan", start |-> k.start, end |-> k.end, entries |-> list]
    BY <1>1, <1>6 DEF Results
  <2>3. /\ e.resp.op = "Scan" /\ e.resp.start = k.start /\ e.resp.end = k.end
        /\ e.resp.entries = list
    BY <2>2
  <2>4. /\ \A i \in DOMAIN list : k.start <= list[i][1] /\ list[i][1] <= k.end
        /\ \A i, j \in DOMAIN list : list[i][1] = list[j][1] => i = j
        /\ \A key \in Keys : k.start <= key /\ key <= k.end => EntryOf(list, key) = d[key]
    BY <2>1, ScanShows
  <2>5. \A key \in PoolKeys :
          k.start <= key /\ key <= k.end => Shows(h[key], e, {EntryOf(list, key)})
    BY <1>2, <2>4, PoolType DEF Shows
  <2>6. CheckScan(h, e)
    BY <2>3, <2>4, <2>5 DEF CheckScan
  <2> QED
    BY <2>3, <2>6 DEF CheckCall
<1> QED
  BY <1>4, <1>5, <1>6, CallFields

----------------------------------------------------------------------------
(***************************************************************************)
(* How the lists of all updates grow.                                      *)
(***************************************************************************)
\* A list grows into itself, with an update appended, and by the response time
\* of its last one.
LEMMA GrowsBy ==
  ASSUME NEW s \in Seq(Recorded), NEW x, NEW y, NEW now,
         x.ts_resp >= now, y.ts_resp >= now, x.value = y.value, x.ts_call = y.ts_call
  PROVE  /\ Grows(s, s, now) /\ Grows(s, Append(s, x), now)
         /\ Grows(Append(s, x), Append(s, y), now)
<1>1. Grows(s, s, now)
  BY DEF Grows
<1>2. Grows(s, Append(s, x), now)
  BY DEF Grows
<1>3. Grows(Append(s, x), Append(s, y), now)
  BY DEF Grows
<1> QED
  BY <1>1, <1>2, <1>3

\* The span of an update in flight, and the list of all updates that it ends.
AllTypes ==
  \A k \in PoolKeys, c \in Clients :
    /\ full[k][c] \in Seq(Spans) /\ full[k][c] \in Seq(Recorded)
    /\ AllUpdates[k][c] \in Seq(Recorded)
    /\ IF InFlight(k, c)
         THEN /\ AllUpdates[k][c] = Append(full[k][c], SpanOf(memo[c], 2 * TotalOps + 1))
              /\ SpanOf(memo[c], 2 * TotalOps + 1) \in FlyingSpans
              /\ SpanOf(memo[c], 2 * TotalOps + 1).ts_resp = 2 * TotalOps + 1
              /\ SpanOf(memo[c], 2 * TotalOps + 1).ts_call = memo[c].ts_call
         ELSE AllUpdates[k][c] = full[k][c]

\* These are sequences of spans.
LEMMA AllUpdatesType == TypeOK => AllTypes
<1> SUFFICES ASSUME TypeOK, NEW k \in PoolKeys, NEW c \in Clients
    PROVE  /\ full[k][c] \in Seq(Spans) /\ full[k][c] \in Seq(Recorded)
           /\ AllUpdates[k][c] \in Seq(Recorded)
           /\ IF InFlight(k, c)
                THEN /\ AllUpdates[k][c] = Append(full[k][c], SpanOf(memo[c], 2 * TotalOps + 1))
                     /\ SpanOf(memo[c], 2 * TotalOps + 1) \in FlyingSpans
                     /\ SpanOf(memo[c], 2 * TotalOps + 1).ts_resp = 2 * TotalOps + 1
                     /\ SpanOf(memo[c], 2 * TotalOps + 1).ts_call = memo[c].ts_call
                ELSE AllUpdates[k][c] = full[k][c]
  BY DEF AllTypes
<1>1. full[k][c] \in Seq(Spans)
  BY DEF TypeOK
<1>2. full[k][c] \in Seq(Recorded)
  <2>1. Spans \subseteq Recorded
    BY DEF Recorded
  <2> QED
    BY <1>1, <2>1
<1>3. AllUpdates[k][c] = IF InFlight(k, c)
                           THEN Append(full[k][c], SpanOf(memo[c], 2 * TotalOps + 1))
                           ELSE full[k][c]
  BY DEF AllUpdates
<1>4. CASE ~InFlight(k, c)
  BY <1>1, <1>2, <1>3, <1>4
<1>5. CASE InFlight(k, c)
  <2> DEFINE x == SpanOf(memo[c], 2 * TotalOps + 1)
  <2>1. memo[c] # None /\ memo[c].call.op \in UpdateOps
    BY <1>5 DEF InFlight
  <2>2. memo[c].ts_call \in Times /\ memo[c].call \in Calls
    BY <2>1 DEF TypeOK
  <2>3. memo[c].call.op # "Delete" => memo[c].call.value \in Values
    BY <2>1, <2>2, CallFields DEF UpdateOps
  <2>4. x \in FlyingSpans /\ x.ts_resp = 2 * TotalOps + 1 /\ x.ts_call = memo[c].ts_call
    BY <2>2, <2>3 DEF SpanOf, FlyingSpans
  <2>5. x \in Recorded
    BY <2>4 DEF Recorded
  <2> HIDE DEF x
  <2>6. Append(full[k][c], x) \in Seq(Recorded)
    BY <1>2, <2>5
  <2>7. AllUpdates[k][c] = Append(full[k][c], x)
    BY <1>3, <1>5 DEF x
  <2> QED
    BY <1>1, <1>2, <1>5, <2>4, <2>6, <2>7 DEF x
<1> QED
  BY <1>4, <1>5

\* So they are after a step.
LEMMA AllUpdatesNext == TypeOK' => AllTypes'
BY AllUpdatesType, PTL

\* Every step.
LEMMA GrowStep ==
  ASSUME TypeOK, LoopInv, ClockInv, TrimInv, [Next]_vars,
         NEW k \in PoolKeys, NEW c \in Clients
  PROVE  /\ AllUpdates[k][c] \in Seq(Recorded) /\ AllUpdates'[k][c] \in Seq(Recorded)
         /\ Grows(AllUpdates[k][c], AllUpdates'[k][c], timestamp)
<1>1. AllTypes /\ AllTypes'
  BY AllUpdatesType, AllUpdatesNext, TypeStep
<1>2. /\ AllUpdates[k][c] \in Seq(Recorded) /\ AllUpdates'[k][c] \in Seq(Recorded)
      /\ full[k][c] \in Seq(Recorded)
  BY <1>1 DEF AllTypes
<1>3. timestamp \in Nat /\ timestamp <= 2 * TotalOps + 1 /\ 2 * TotalOps + 1 >= timestamp
      /\ timestamp >= timestamp
  BY TimesAreNumbers DEF TypeOK
<1> SUFFICES Grows(AllUpdates[k][c], AllUpdates'[k][c], timestamp)
  BY <1>2
<1> DEFINE x == SpanOf(memo[c], 2 * TotalOps + 1)
           late == [ts_call |-> 0, ts_resp |-> 2 * TotalOps + 1, value |-> Nil]
<1>4. ASSUME AllUpdates'[k][c] = AllUpdates[k][c]
      PROVE  Grows(AllUpdates[k][c], AllUpdates'[k][c], timestamp)
  <2>1. late.ts_resp >= timestamp
    BY <1>3
  <2> QED
    BY <1>2, <1>4, <2>1, GrowsBy
<1>5. ASSUME memo'[c] = memo[c], full'[k][c] = full[k][c]
      PROVE  Grows(AllUpdates[k][c], AllUpdates'[k][c], timestamp)
  <2>1. InFlight(k, c)' = InFlight(k, c)
    BY <1>5 DEF InFlight
  <2>2. AllUpdates'[k][c] = AllUpdates[k][c]
    BY <1>5, <2>1 DEF AllUpdates
  <2> QED
    BY <1>4, <2>2
<1>6. ASSUME ~InFlight(k, c), full'[k][c] = full[k][c]
      PROVE  Grows(AllUpdates[k][c], AllUpdates'[k][c], timestamp)
  <2>1. AllUpdates[k][c] = full[k][c]
    BY <1>1, <1>6 DEF AllTypes
  <2>2. CASE ~InFlight(k, c)'
    <3>1. AllUpdates'[k][c] = full[k][c]
      BY <1>1, <1>6, <2>2 DEF AllTypes
    <3> QED
      BY <1>4, <2>1, <3>1
  <2>3. CASE InFlight(k, c)'
    <3> DEFINE y == SpanOf(memo'[c], 2 * TotalOps + 1)
    <3>1. AllUpdates'[k][c] = Append(full[k][c], y) /\ y.ts_resp = 2 * TotalOps + 1
      BY <1>1, <1>6, <2>3 DEF AllTypes
    <3> HIDE DEF y
    <3>2. Grows(full[k][c], Append(full[k][c], y), timestamp)
      BY <1>2, <1>3, <3>1, GrowsBy
    <3> QED
      BY <2>1, <3>1, <3>2
  <2> QED
    BY <2>2, <2>3
<1>7. CASE UNCHANGED vars
  BY <1>5, <1>7 DEF vars
<1>8. ASSUME NEW d \in Clients, Call(d)
      PROVE  Grows(AllUpdates[k][c], AllUpdates'[k][c], timestamp)
  <2>1. full' = full
    BY <1>8 DEF Call, history
  <2>2. memo[d] = None /\ (c # d => memo'[c] = memo[c])
    BY <1>8, CallLoop DEF TypeOK
  <2>3. CASE c = d
    BY <1>6, <2>1, <2>2, <2>3 DEF InFlight
  <2> QED
    BY <1>5, <2>1, <2>2, <2>3
<1>9. ASSUME NEW d \in Clients, Await(d)
      PROVE  Grows(AllUpdates[k][c], AllUpdates'[k][c], timestamp)
  BY <1>5, <1>9 DEF Await, history
<1>10. ASSUME NEW d \in Clients, HarvestRead(d)
       PROVE  Grows(AllUpdates[k][c], AllUpdates'[k][c], timestamp)
  <2>1. full' = full /\ (c # d => memo'[c] = memo[c]) /\ memo[d].call.op \notin UpdateOps
    BY <1>10 DEF HarvestRead, Harvest, TypeOK
  <2>2. CASE c = d
    BY <1>6, <2>1, <2>2 DEF InFlight
  <2> QED
    BY <1>5, <2>1, <2>2
<1>11. ASSUME NEW d \in Clients, HarvestUpdate(d)
       PROVE  Grows(AllUpdates[k][c], AllUpdates'[k][c], timestamp)
  <2>1. /\ memo' = [memo EXCEPT ![d] = None] /\ memo[d] # None
        /\ memo[d].call.op \in UpdateOps /\ UKey(d) \in PoolKeys
    BY <1>11, UpdateIs, HarvestTypes, SpanIs DEF Harvest
  <2>2. CASE c # d
    <3>1. memo'[c] = memo[c]
      BY <2>1, <2>2 DEF TypeOK
    <3>2. full'[k][c] = full[k][c]
      <4>1. CASE k = UKey(d)
        BY <1>11, <2>2, <4>1, GrownIs
      <4>2. CASE k # UKey(d)
        BY <1>11, <2>1, <4>2, UpdateIs DEF TypeOK
      <4> QED
        BY <4>1, <4>2
    <3> QED
      BY <1>5, <3>1, <3>2
  <2>3. CASE c = d /\ k # UKey(d)
    <3>1. full'[k][c] = full[k][c]
      BY <1>11, <2>1, <2>3, UpdateIs DEF TypeOK
    <3>2. ~InFlight(k, c)
      BY <2>3 DEF InFlight, UKey
    <3> QED
      BY <1>6, <3>1, <3>2
  <2>4. CASE c = d /\ k = UKey(d)
    <3> DEFINE y == USpan(c)
    <3>1. full'[k][c] = Append(full[k][c], y) /\ y.ts_resp = timestamp
          /\ y.ts_call = memo[c].ts_call
      BY <1>11, <2>4, GrownIs, SpanIs
    <3>2. memo'[c] = None
      BY <2>1, <2>4 DEF TypeOK
    <3>3. AllUpdates'[k][c] = Append(full[k][c], y)
      BY <1>1, <3>1, <3>2 DEF AllTypes, InFlight
    <3>4. /\ AllUpdates[k][c] = Append(full[k][c], x)
          /\ x.ts_resp = 2 * TotalOps + 1 /\ x.ts_call = memo[c].ts_call
      BY <1>1, <2>1, <2>4 DEF AllTypes, InFlight, UKey
    <3>5. x.value = y.value
      BY DEF SpanOf, USpan
    <3> HIDE DEF x, y
    <3>6. Grows(Append(full[k][c], x), Append(full[k][c], y), timestamp)
      BY <1>2, <1>3, <3>1, <3>4, <3>5, GrowsBy
    <3> QED
      BY <3>3, <3>4, <3>6
  <2> QED
    BY <2>2, <2>3, <2>4
<1>12. ASSUME NEW d \in Clients, UnexpectedStop(d)
       PROVE  Grows(AllUpdates[k][c], AllUpdates'[k][c], timestamp)
  BY <1>5, <1>12 DEF UnexpectedStop, history
<1>13. CASE Finish
  BY <1>5, <1>13 DEF Finish, history
<1>14. CASE RunnerFailure
  BY <1>5, <1>14 DEF RunnerFailure, history
<1>15. ASSUME NEW d \in Clients, Execute(d)
       PROVE  Grows(AllUpdates[k][c], AllUpdates'[k][c], timestamp)
  BY <1>5, <1>15 DEF Execute, history
<1> QED
  BY <1>7, <1>8, <1>9, <1>10, <1>11, <1>12, <1>13, <1>14, <1>15 DEF Next, Turn

----------------------------------------------------------------------------
(***************************************************************************)
(* Who wrote what is in the store: some client's last update of the key    *)
(* that has been executed.                                                 *)
(***************************************************************************)
NewValue(c) == SpanOf(memo[c], 0).value

Written(k, c) ==
  \/ /\ store[k] = full[k][c][Len(full[k][c])].value
     /\ InFlight(k, c) => answer[c] = None
  \/ /\ InFlight(k, c) /\ answer[c] # None
     /\ store[k] = NewValue(c)

WriterInv == Service = "atomic" => \A k \in PoolKeys : \E c \in Clients : Written(k, c)

\* An update puts its value at its key, and a read leaves the store alone.
LEMMA EffectIs ==
  ASSUME TypeOK, NEW c \in Clients, Execute(c), Service = "atomic", NEW k \in PoolKeys
  PROVE  /\ answer'[c] \in Results(store, memo[c].call) /\ answer'[c] # None
         /\ answer'[c] # StopResp
         /\ store'[k] = IF InFlight(k, c) THEN NewValue(c) ELSE store[k]
<1>1. /\ memo[c] # None /\ memo[c].call \in Calls /\ store \in Stores /\ k \in Keys
      /\ store' = Effect(store, memo[c].call)
      /\ \E r \in Results(store, memo[c].call) : answer' = [answer EXCEPT ![c] = r]
  BY PoolType DEF Execute, TypeOK
<1>2. answer'[c] \in Results(store, memo[c].call)
  BY <1>1 DEF TypeOK
<1>3. answer'[c] \in Answers
  BY <1>1, <1>2, InterfaceTypes
<1>4. StopResp \notin Answers
  BY DEF StopResp, Answers
<1>5. CASE memo[c].call.op \in {"Put", "Swap"}
  <2>1. store' = [store EXCEPT ![memo[c].call.key] = memo[c].call.value]
    BY <1>1, <1>5 DEF Effect
  <2> QED
    BY <1>1, <1>2, <1>3, <1>4, <1>5, <2>1, NoneAssumption
       DEF InFlight, NewValue, SpanOf, UpdateOps, Stores
<1>6. CASE memo[c].call.op = "Delete"
  <2>1. store' = [store EXCEPT ![memo[c].call.key] = Nil]
    BY <1>1, <1>6 DEF Effect
  <2> QED
    BY <1>1, <1>2, <1>3, <1>4, <1>6, <2>1, NoneAssumption
       DEF InFlight, NewValue, SpanOf, UpdateOps, Stores
<1>7. CASE memo[c].call.op \in {"Get", "Scan"}
  <2>1. store' = store /\ ~InFlight(k, c)
    BY <1>1, <1>7 DEF Effect, InFlight, UpdateOps
  <2> QED
    BY <1>2, <1>3, <1>4, <2>1, NoneAssumption
<1> QED
  BY <1>1, <1>5, <1>6, <1>7, CallFields

\* Every step.
LEMMA WriterStep ==
  ASSUME TypeOK, LoopInv, ClockInv, TrimInv, WriterInv, [Next]_vars
  PROVE  WriterInv'
<1> SUFFICES ASSUME Service = "atomic", NEW k \in PoolKeys
             PROVE  \E c \in Clients : Written(k, c)'
  BY DEF WriterInv
<1>1. PICK w \in Clients : Written(k, w)
  BY DEF WriterInv
<1>2. ASSUME UNCHANGED <<store, full, memo, answer>> PROVE Written(k, w)'
  BY <1>1, <1>2 DEF Written, InFlight, NewValue
<1>3. CASE UNCHANGED vars
  BY <1>2, <1>3 DEF vars
<1>4. ASSUME NEW c \in Clients, Call(c) PROVE Written(k, w)'
  <2>1. UNCHANGED <<store, full, answer>>
    BY <1>4 DEF Call, history, service
  <2>2. memo[c] = None /\ answer[c] = None /\ (w # c => memo'[w] = memo[w])
    BY <1>4, CallLoop DEF TypeOK
  <2>3. CASE w = c
    BY <1>1, <2>1, <2>2, <2>3 DEF Written, InFlight
  <2>4. CASE w # c
    BY <1>1, <2>1, <2>2, <2>4 DEF Written, InFlight, NewValue
  <2> QED
    BY <2>3, <2>4
<1>5. ASSUME NEW c \in Clients, Await(c) PROVE Written(k, w)'
  BY <1>2, <1>5 DEF Await, history, service
<1>6. ASSUME NEW c \in Clients, HarvestRead(c) PROVE Written(k, w)'
  <2>1. /\ store' = store /\ full' = full /\ memo[c].call.op \notin UpdateOps
        /\ memo'[c] = None
        /\ w # c => memo'[w] = memo[w] /\ answer'[w] = answer[w]
    BY <1>6 DEF HarvestRead, Harvest, TypeOK
  <2>2. CASE w = c
    BY <1>1, <2>1, <2>2 DEF Written, InFlight
  <2>3. CASE w # c
    BY <1>1, <2>1, <2>3 DEF Written, InFlight, NewValue
  <2> QED
    BY <2>2, <2>3
<1>7. ASSUME NEW c \in Clients, HarvestUpdate(c) PROVE Written(k, w)'
  <2>1. /\ store' = store /\ memo'[c] = None /\ answer[c] # None /\ memo[c] # None
        /\ memo[c].call.op \in UpdateOps /\ UKey(c) \in PoolKeys
        /\ w # c => memo'[w] = memo[w] /\ answer'[w] = answer[w]
    <3>1. Harvest(c) /\ memo[c].call.op \in UpdateOps /\ memo[c] # None /\ UKey(c) \in PoolKeys
      BY <1>7, UpdateIs, HarvestTypes, SpanIs
    <3> QED
      BY <3>1 DEF Harvest, TypeOK
  <2>2. k # UKey(c) => full'[k] = full[k]
    BY <1>7, <2>1, UpdateIs DEF TypeOK
  <2>3. CASE w # c
    <3>1. full'[k][w] = full[k][w]
      BY <1>7, <2>2, <2>3, GrownIs
    <3> QED
      BY <1>1, <2>1, <2>3, <3>1 DEF Written, InFlight, NewValue
  <2>4. CASE w = c /\ k # UKey(c)
    <3>1. ~InFlight(k, w) /\ ~InFlight(k, w)'
      BY <2>1, <2>4 DEF InFlight, UKey
    <3> QED
      BY <1>1, <2>1, <2>2, <2>4, <3>1 DEF Written
  <2>5. CASE w = c /\ k = UKey(c)
    <3>1. InFlight(k, w) /\ ~InFlight(k, w)'
      BY <2>1, <2>5 DEF InFlight, UKey
    <3>2. store[k] = NewValue(c)
      BY <1>1, <2>1, <2>5, <3>1 DEF Written
    <3>3. full'[k][c] = Append(full[k][c], USpan(c)) /\ full[k][c] \in Seq(Spans)
      BY <1>7, <2>1, <2>5, GrownIs, RecordedTimes
    <3>4. full'[k][c][Len(full'[k][c])] = USpan(c)
      BY <3>3
    <3>5. USpan(c).value = NewValue(c)
      BY DEF USpan, NewValue, SpanOf
    <3> QED
      BY <2>1, <2>5, <3>1, <3>2, <3>4, <3>5 DEF Written
  <2> QED
    BY <2>3, <2>4, <2>5
<1>8. ASSUME NEW c \in Clients, UnexpectedStop(c) PROVE Written(k, w)'
  BY <1>2, <1>8 DEF UnexpectedStop, history, service
<1>9. CASE Finish
  BY <1>2, <1>9 DEF Finish, history, service
<1>10. CASE RunnerFailure
  BY <1>2, <1>10 DEF RunnerFailure, history, service
<1>11. ASSUME NEW c \in Clients, Execute(c) PROVE \E d \in Clients : Written(k, d)'
  <2>1. /\ memo' = memo /\ full' = full /\ answer'[c] # None
        /\ store'[k] = IF InFlight(k, c) THEN NewValue(c) ELSE store[k]
        /\ w # c => answer'[w] = answer[w]
    <3>1. memo' = memo /\ full' = full /\ (w # c => answer'[w] = answer[w])
      BY <1>11 DEF Execute, history, TypeOK
    <3> QED
      BY <1>11, <3>1, EffectIs
  <2>2. CASE InFlight(k, c)
    <3>1. Written(k, c)'
      BY <2>1, <2>2 DEF Written, InFlight, NewValue
    <3> QED
      BY <3>1
  <2>3. CASE ~InFlight(k, c) /\ w = c
    <3>1. Written(k, w)'
      BY <1>1, <2>1, <2>3 DEF Written, InFlight
    <3> QED
      BY <3>1
  <2>4. CASE ~InFlight(k, c) /\ w # c
    <3>1. Written(k, w)'
      BY <1>1, <2>1, <2>4 DEF Written, InFlight, NewValue
    <3> QED
      BY <3>1
  <2> QED
    BY <2>2, <2>3, <2>4
<1> QED
  BY <1>3, <1>4, <1>5, <1>6, <1>7, <1>8, <1>9, <1>10, <1>11 DEF Next, Turn

----------------------------------------------------------------------------
(***************************************************************************)
(* Every answer of a linearizable service is explained, and so is every    *)
(* response in the queue.                                                  *)
(***************************************************************************)
AnswersExplained ==
  Service = "atomic" =>
    \A c \in Clients :
      answer[c] # None =>
        answer[c] # StopResp /\ Explained(AllUpdates, answer[c], memo[c].ts_call, Horizon)

QueueExplained ==
  Service = "atomic" =>
    \A i \in DOMAIN queue :
      Explained(AllUpdates, queue[i].resp, queue[i].ts_call, queue[i].ts_resp)

\* What is in the store is visible to any call that has been made.
LEMMA StoreVisible ==
  ASSUME TypeOK, ClockInv, NEW k \in PoolKeys, NEW w \in Clients, Written(k, w),
         NEW ts_call \in Times
  PROVE  store[k] \in Visible(AllUpdates[k], [ts_call |-> ts_call, ts_resp |-> Horizon])
<1> DEFINE s == AllUpdates[k][w]
           e == [ts_call |-> ts_call, ts_resp |-> Horizon]
           f == full[k][w]
           x == SpanOf(memo[w], 2 * TotalOps + 1)
<1>1. /\ f \in Seq(Spans) /\ f # <<>> /\ s \in Seq(Recorded)
      /\ IF InFlight(k, w)
           THEN s = Append(f, x) /\ x.ts_resp = 2 * TotalOps + 1 /\ x.ts_call = memo[w].ts_call
           ELSE s = f
  BY AllUpdatesType DEF AllTypes, ClockInv, Ordered
<1>2. Horizon \in Nat /\ maxtr[w] \in Nat /\ maxtr[w] < Horizon
  BY RecordedTimes DEF ClockInv
<1>3. ts_call \in Nat /\ 2 * TotalOps + 1 >= ts_call
  BY TimesAreNumbers
<1>4. /\ Len(f) \in DOMAIN f
      /\ f[Len(f)].ts_call \in Nat /\ f[Len(f)].ts_resp \in Nat
      /\ f[Len(f)].ts_call <= f[Len(f)].ts_resp /\ f[Len(f)].ts_resp <= maxtr[w]
  <2>1. Len(f) \in DOMAIN f
    BY <1>1
  <2>2. f[Len(f)].ts_call \in Nat /\ f[Len(f)].ts_resp \in Nat
    BY <1>1, <2>1, SpanTimes
  <2>3. Ordered(f) /\ f[Len(f)].ts_resp <= maxtr[w]
    BY <2>1 DEF ClockInv
  <2> QED
    BY <2>1, <2>2, <2>3 DEF Ordered
<1>5. f[Len(f)].ts_call < Horizon
  BY <1>2, <1>4
<1> HIDE DEF f, x, s
<1>6. ASSUME NEW n \in DOMAIN s, s[n].value = store[k], s[n].ts_call < Horizon,
             \A m \in n + 1 .. Len(s) : s[m].ts_resp >= ts_call
      PROVE  store[k] \in Visible(AllUpdates[k], e)
  <2>1. store[k] \in VisibleOf(s, e)
    BY <1>6 DEF VisibleOf
  <2> QED
    BY <2>1 DEF Visible, s
<1>7. CASE ~InFlight(k, w)
  <2>1. s = f /\ store[k] = f[Len(f)].value
    BY <1>1, <1>7 DEF Written, f
  <2>2. \A m \in Len(f) + 1 .. Len(s) : s[m].ts_resp >= ts_call
    BY <1>1, <2>1
  <2> QED
    BY <1>4, <1>5, <1>6, <2>1, <2>2
<1>8. CASE InFlight(k, w)
  <2>1. s = Append(f, x) /\ x.ts_resp = 2 * TotalOps + 1 /\ x.ts_call = memo[w].ts_call
    BY <1>1, <1>8
  <2>2. /\ Len(s) = Len(f) + 1 /\ s[Len(f) + 1] = x /\ s[Len(f)] = f[Len(f)]
        /\ DOMAIN s = 1 .. Len(f) + 1 /\ Len(f) \in Nat /\ Len(f) >= 1
    BY <1>1, <2>1
  <2>3. CASE store[k] = f[Len(f)].value
    <3>1. \A m \in Len(f) + 1 .. Len(s) : s[m].ts_resp >= ts_call
      <4>1. \A m \in Len(f) + 1 .. Len(s) : m = Len(f) + 1
        BY <2>2
      <4> QED
        BY <1>3, <2>1, <2>2, <4>1
    <3>2. Len(f) \in DOMAIN s
      BY <2>2
    <3> QED
      BY <1>5, <1>6, <2>2, <2>3, <3>1, <3>2
  <2>4. CASE store[k] = NewValue(w)
    <3>1. x.value = NewValue(w)
      BY DEF x, NewValue, SpanOf
    <3>2. x.ts_call < Horizon
      BY <1>8, <2>1 DEF ClockInv, InFlight
    <3>3. Len(f) + 1 \in DOMAIN s /\ \A m \in Len(f) + 2 .. Len(s) : s[m].ts_resp >= ts_call
      BY <2>2
    <3>4. (Len(f) + 1) + 1 = Len(f) + 2
      BY <2>2
    <3> QED
      BY <1>6, <2>2, <2>4, <3>1, <3>2, <3>3, <3>4
  <2> QED
    BY <1>8, <2>3, <2>4 DEF Written, f
<1> QED
  BY <1>7, <1>8

\* What is explained stays so, also to a response that is not earlier.
LEMMA ExplainedKept ==
  ASSUME TypeOK, LoopInv, ClockInv, TrimInv, [Next]_vars, NEW r, NEW ts_call \in Nat,
         ts_call <= timestamp, NEW r1 \in Nat, NEW r2 \in Nat, r1 <= r2,
         Explained(AllUpdates, r, ts_call, r1)
  PROVE  Explained(AllUpdates', r, ts_call, r2)
<1>1. PICK d \in Stores, k \in Calls :
        /\ k.op # "Scan" => k.key \in PoolKeys
        /\ r \in Results(d, k)
        /\ \A key \in PoolKeys :
             d[key] \in Visible(AllUpdates[key], [ts_call |-> ts_call, ts_resp |-> r1])
  BY DEF Explained
<1>2. timestamp \in Nat
  BY RecordedTimes
<1>3. ASSUME NEW key \in PoolKeys, NEW c \in Clients
      PROVE  VisibleOf(AllUpdates[key][c], [ts_call |-> ts_call, ts_resp |-> r1])
               \subseteq VisibleOf(AllUpdates'[key][c], [ts_call |-> ts_call, ts_resp |-> r2])
  <2>1. /\ AllUpdates[key][c] \in Seq(Recorded) /\ AllUpdates'[key][c] \in Seq(Recorded)
        /\ Grows(AllUpdates[key][c], AllUpdates'[key][c], timestamp)
    BY GrowStep
  <2> QED
    BY <1>2, <2>1, RecordedNats, GrowsVisible
<1>4. \A key \in PoolKeys :
        d[key] \in Visible(AllUpdates'[key], [ts_call |-> ts_call, ts_resp |-> r2])
  BY <1>1, <1>3 DEF Visible
<1> QED
  BY <1>1, <1>4 DEF Explained

\* The horizon never comes nearer.
LEMMA HorizonStep ==
  ASSUME TypeOK, [Next]_vars
  PROVE  Horizon \in Nat /\ Horizon' \in Nat /\ Horizon <= Horizon'
<1>1. timestamp \in Nat
  BY Counters
<1>2. ASSUME timestamp' = timestamp, at' = None \/ at' = at
      PROVE  Horizon \in Nat /\ Horizon' \in Nat /\ Horizon <= Horizon'
  BY <1>1, <1>2 DEF Horizon
<1>3. CASE UNCHANGED vars
  BY <1>2, <1>3 DEF vars
<1>4. ASSUME NEW c \in Clients, Call(c) \/ Await(c)
      PROVE  Horizon \in Nat /\ Horizon' \in Nat /\ Horizon <= Horizon'
  <2>1. at = None /\ timestamp' = timestamp + 1
    BY <1>4 DEF Call, Await, InLoop
  <2> QED
    BY <1>1, <2>1 DEF Horizon
<1>5. ASSUME NEW c \in Clients, HarvestRead(c) \/ HarvestUpdate(c)
      PROVE  Horizon \in Nat /\ Horizon' \in Nat /\ Horizon <= Horizon'
  BY <1>2, <1>5, UpdateIs DEF HarvestRead, Harvest
<1>6. ASSUME NEW c \in Clients, UnexpectedStop(c)
      PROVE  Horizon \in Nat /\ Horizon' \in Nat /\ Horizon <= Horizon'
  BY <1>2, <1>6 DEF UnexpectedStop
<1>7. CASE Finish
  BY <1>2, <1>7 DEF Finish
<1>8. CASE RunnerFailure
  BY <1>2, <1>8 DEF RunnerFailure
<1>9. ASSUME NEW c \in Clients, Execute(c)
      PROVE  Horizon \in Nat /\ Horizon' \in Nat /\ Horizon <= Horizon'
  BY <1>2, <1>9 DEF Execute
<1> QED
  BY <1>3, <1>4, <1>5, <1>6, <1>7, <1>8, <1>9 DEF Next, Turn

\* A call that is answered stays so, or is harvested.
LEMMA AnswersStep ==
  ASSUME TypeOK, LoopInv, ClockInv, TrimInv, WriterInv, AnswersExplained, [Next]_vars
  PROVE  AnswersExplained'
<1> DEFINE Fine(d) == answer[d] # None =>
                        /\ answer[d] # StopResp
                        /\ Explained(AllUpdates, answer[d], memo[d].ts_call, Horizon)
<1> SUFFICES ASSUME Service = "atomic", NEW d \in Clients PROVE Fine(d)'
  BY DEF AnswersExplained
<1>1. Horizon \in Nat /\ Horizon' \in Nat /\ Horizon <= Horizon'
  BY HorizonStep
<1>2. memo[d] # None => /\ memo[d].ts_call \in Nat /\ memo[d].ts_call \in Times
                        /\ memo[d].ts_call <= timestamp
  <2> HAVE memo[d] # None
  <2>1. memo[d].ts_call \in Nat /\ memo[d].ts_call < Horizon /\ memo[d].ts_call \in Times
    BY RecordedTimes DEF ClockInv, TypeOK
  <2> QED
    BY <2>1, RecordedTimes DEF Horizon
<1>3. ASSUME answer'[d] = answer[d], memo'[d] = memo[d] PROVE Fine(d)'
  <2> SUFFICES ASSUME answer[d] # None
               PROVE  /\ answer[d] # StopResp
                      /\ Explained(AllUpdates', answer[d], memo[d].ts_call, Horizon')
    BY <1>3
  <2>1. memo[d] # None /\ answer[d] # StopResp
        /\ Explained(AllUpdates, answer[d], memo[d].ts_call, Horizon)
    BY DEF LoopInv, AnswersExplained
  <2> QED
    BY <1>1, <1>2, <2>1, ExplainedKept
<1>4. ASSUME answer'[d] = None PROVE Fine(d)'
  BY <1>4
<1>5. CASE UNCHANGED vars
  BY <1>3, <1>5 DEF vars
<1>6. ASSUME NEW c \in Clients, Call(c) PROVE Fine(d)'
  <2>1. answer' = answer /\ answer[c] = None /\ (d # c => memo'[d] = memo[d])
    BY <1>6, CallLoop DEF Call, service, TypeOK
  <2> QED
    BY <1>3, <1>4, <2>1
<1>7. ASSUME NEW c \in Clients, Await(c) PROVE Fine(d)'
  BY <1>3, <1>7 DEF Await, service
<1>8. ASSUME NEW c \in Clients, HarvestRead(c) \/ HarvestUpdate(c) PROVE Fine(d)'
  <2>1. Harvest(c)
    BY <1>8, UpdateIs DEF HarvestRead
  <2>2. IF d = c THEN answer'[d] = None ELSE answer'[d] = answer[d] /\ memo'[d] = memo[d]
    BY <2>1 DEF Harvest, TypeOK
  <2> QED
    BY <1>3, <1>4, <2>2
<1>9. ASSUME NEW c \in Clients, UnexpectedStop(c) PROVE Fine(d)'
  BY <1>3, <1>9 DEF UnexpectedStop, service
<1>10. CASE Finish
  BY <1>3, <1>10 DEF Finish, service
<1>11. CASE RunnerFailure
  BY <1>3, <1>11 DEF RunnerFailure, service
<1>12. ASSUME NEW c \in Clients, Execute(c) PROVE Fine(d)'
  <2>1. memo' = memo /\ (d # c => answer'[d] = answer[d])
    BY <1>12 DEF Execute, TypeOK
  <2>2. CASE d # c
    BY <1>3, <2>1, <2>2
  <2>3. CASE d = c
    <3>1. /\ answer'[c] # StopResp
          /\ answer'[c] \in Results(store, memo[c].call)
      BY <1>12, PoolType, EffectIs, FuzzerAssumption
    <3>2. memo[c] # None /\ memo[c].call \in Calls /\ store \in Stores
      BY <1>12 DEF Execute, TypeOK
    <3>3. memo[c].call.op # "Scan" => memo[c].call.key \in PoolKeys
      BY <3>2 DEF LoopInv
    <3>4. \A k \in PoolKeys :
            store[k] \in Visible(AllUpdates[k], [ts_call |-> memo[c].ts_call, ts_resp |-> Horizon])
      BY <1>2, <2>3, <3>2, StoreVisible DEF WriterInv
    <3>5. Explained(AllUpdates, answer'[c], memo[c].ts_call, Horizon)
      BY <3>1, <3>2, <3>3, <3>4 DEF Explained
    <3>6. PICK r : r = answer'[c]
      OBVIOUS
    <3>7. Explained(AllUpdates', r, memo[c].ts_call, Horizon')
      BY <1>1, <1>2, <2>3, <3>2, <3>5, <3>6, ExplainedKept
    <3> QED
      BY <2>1, <2>3, <3>1, <3>6, <3>7
  <2> QED
    BY <2>2, <2>3
<1> QED
  BY <1>5, <1>6, <1>7, <1>8, <1>9, <1>10, <1>11, <1>12 DEF Next, Turn

\* A response with its answer explained, by its place in the queue.
LEMMA EntriesExplained ==
  ASSUME TypeOK, LoopInv, ClockInv, TrimInv, AnswersExplained, QueueExplained, [Next]_vars,
         Service = "atomic", NEW c \in Clients, Harvest(c), NEW i \in DOMAIN Q(c)
  PROVE  Explained(AllUpdates', Q(c)[i].resp, Q(c)[i].ts_call, Q(c)[i].ts_resp)
<1>1. queue \in Seq(Checkable) /\ Q(c) \in Seq(Checkable)
  BY HarvestTypes DEF TypeOK, Checkable
<1>2. PICK e \in Checkable : e = Q(c)[i]
  BY <1>1
<1>3. e.ts_call \in Nat /\ e.ts_resp \in Nat /\ e.ts_resp <= e.ts_resp
  <2>1. e.ts_call \in Nat /\ e.ts_resp \in Nat
    BY TimesAreNumbers DEF Checkable
  <2> QED
    BY <2>1
<1>4. /\ Horizon = timestamp /\ timestamp \in Nat
      /\ e.ts_call <= timestamp
  <2>1. /\ Horizon = timestamp /\ Horizon' = timestamp + 1
        /\ e.ts_call < e.ts_resp /\ e.ts_resp < Horizon'
    BY <1>2, QueueGrown
  <2> QED
    BY <1>3, <2>1, RecordedTimes
<1>5. CASE i \in DOMAIN queue /\ e = queue[i]
  <2>1. Explained(AllUpdates, e.resp, e.ts_call, e.ts_resp)
    BY <1>5 DEF QueueExplained
  <2> QED
    BY <1>2, <1>3, <1>4, <2>1, ExplainedKept
<1>6. CASE e = Entry(c)
  <2>1. answer[c] # None
    BY DEF Harvest
  <2>2. Explained(AllUpdates, e.resp, e.ts_call, e.ts_resp)
    BY <1>4, <1>6, <2>1 DEF AnswersExplained, Entry
  <2> QED
    BY <1>2, <1>3, <1>4, <2>2, ExplainedKept
<1>7. (i \in DOMAIN queue /\ e = queue[i]) \/ e = Entry(c)
  BY <1>1, <1>2 DEF Q
<1> QED
  BY <1>5, <1>6, <1>7

\* Every step.
LEMMA QueueStep ==
  ASSUME TypeOK, LoopInv, ClockInv, TrimInv, AnswersExplained, QueueExplained, [Next]_vars
  PROVE  QueueExplained'
<1> SUFFICES ASSUME Service = "atomic", NEW i \in DOMAIN queue'
             PROVE  Explained(AllUpdates', queue'[i].resp, queue'[i].ts_call, queue'[i].ts_resp)
  BY DEF QueueExplained
<1> DEFINE Goal ==
      Explained(AllUpdates', queue'[i].resp, queue'[i].ts_call, queue'[i].ts_resp)
<1>1. ASSUME queue' = queue PROVE Goal
  <2>1. i \in DOMAIN queue /\ queue'[i] = queue[i]
    BY <1>1
  <2>2. PICK e \in Checkable : e = queue[i]
    BY <2>1, RecordedTimes
  <2>3. Explained(AllUpdates, e.resp, e.ts_call, e.ts_resp)
    BY <2>1, <2>2 DEF QueueExplained
  <2>4. /\ e.ts_call \in Nat /\ e.ts_resp \in Nat /\ e.ts_resp <= e.ts_resp
        /\ e.ts_call <= timestamp
    <3>1. e.ts_call \in Nat /\ e.ts_resp \in Nat
      BY TimesAreNumbers DEF Checkable
    <3>2. e.ts_call < e.ts_resp /\ e.ts_resp < Horizon
      BY <2>1, <2>2 DEF ClockInv
    <3> QED
      BY <3>1, <3>2, RecordedTimes DEF Horizon
  <2> QED
    BY <2>1, <2>2, <2>3, <2>4, ExplainedKept
<1>2. CASE UNCHANGED vars
  BY <1>1, <1>2 DEF vars
<1>3. ASSUME NEW c \in Clients, Call(c) PROVE Goal
  BY <1>1, <1>3 DEF Call, history
<1>4. ASSUME NEW c \in Clients, Await(c) PROVE Goal
  BY <1>1, <1>4 DEF Await, history
<1>5. ASSUME NEW c \in Clients, HarvestRead(c) PROVE Goal
  <2>1. Harvest(c) /\ queue' = Q(c)
    BY <1>5 DEF HarvestRead, Q
  <2> QED
    BY <2>1, EntriesExplained
<1>6. ASSUME NEW c \in Clients, HarvestUpdate(c) PROVE Goal
  <2>1. Harvest(c)
    BY <1>6, UpdateIs
  <2>2. PICK j \in DOMAIN Q(c) : queue'[i] = Q(c)[j]
    BY <1>6, QueueLeft
  <2> QED
    BY <2>1, <2>2, EntriesExplained
<1>7. ASSUME NEW c \in Clients, UnexpectedStop(c) PROVE Goal
  BY <1>1, <1>7 DEF UnexpectedStop, history
<1>8. CASE Finish
  BY <1>1, <1>8 DEF Finish, history
<1>9. CASE RunnerFailure
  BY <1>1, <1>9 DEF RunnerFailure, history
<1>10. ASSUME NEW c \in Clients, Execute(c) PROVE Goal
  BY <1>1, <1>10 DEF Execute, history
<1> QED
  BY <1>2, <1>3, <1>4, <1>5, <1>6, <1>7, <1>8, <1>9, <1>10 DEF Next, Turn

\* FlyingLater, in a form that holds of the next state as well.
FlyingAfter ==
  \A e \in Checkable :
    e.ts_call < e.ts_resp /\ e.ts_resp < MinComing(maxtr) => Later(full, AllUpdates, e)

\* In this state.
LEMMA FlyingNow == TypeOK /\ ClockInv => FlyingAfter
BY FlyingLater DEF FlyingAfter

\* In the next.
LEMMA FlyingNext == TypeOK' /\ ClockInv' => FlyingAfter'
BY FlyingNow, PTL

\* The checks of an update pass.
LEMMA UpdatePasses ==
  ASSUME TypeOK, LoopInv, ClockInv, TrimInv, AnswersExplained, QueueExplained,
         Service = "atomic", NEW c \in Clients, HarvestUpdate(c)
  PROVE  Failing(c) = {}
<1> SUFFICES ASSUME Failing(c) # {} PROVE FALSE
  OBVIOUS
<1>1. [Next]_vars /\ Harvest(c)
  BY UpdateIs DEF Next, Turn
<1>2. PICK i : i = Popped(c)
  OBVIOUS
<1>3. i \in Failing(c) /\ i \in 0 .. Len(Q(c))
  BY <1>2, PoppedIs
<1>4. i \in DOMAIN Q(c) /\ i \in 1 .. i
  <2>1. i \in DOMAIN Q(c)
    BY <1>3 DEF Failing, DueOf, Due
  <2>2. Q(c) \in Seq(Checkable)
    BY <1>1, HarvestTypes
  <2> QED
    BY <2>1, <2>2
<1>5. PICK e \in Checkable : e = Q(c)[i]
  BY <1>4, UpdateBounds
<1>6. ~CheckCall(Trimmed(c), e)
  BY <1>3, <1>5 DEF Failing
<1>7. e.ts_resp < MinComing(maxtr') /\ e.ts_call < e.ts_resp
  BY <1>1, <1>2, <1>4, <1>5, PoppedIs, QueueGrown, UpdateIs DEF Coming
<1>8. Later(full', AllUpdates', e)
  <2>1. TypeOK' /\ ClockInv'
    BY <1>1, TypeStep, ClockStep
  <2> QED
    BY <1>7, <2>1, FlyingNext DEF FlyingAfter
<1>9. Explained(AllUpdates', e.resp, e.ts_call, e.ts_resp)
  BY <1>1, <1>4, <1>5, EntriesExplained
<1>10. CheckCall(AllUpdates', e)
  BY <1>9, ExplainedPasses
<1>11. CheckCall(full', e)
  <2>1. full' \in [PoolKeys -> [Clients -> Seq(Spans)]]
    BY UpdateTypes
  <2> QED
    BY <1>8, <1>10, <2>1, LaterSame
<1>12. CheckCall(Trimmed(c), e)
  BY <1>4, <1>5, <1>11, SameInTrimmed
<1> QED
  BY <1>6, <1>12

\* Every step.
LEMMA AlarmStep ==
  ASSUME TypeOK, LoopInv, ClockInv, TrimInv, AnswersExplained, QueueExplained, NoFalseAlarm,
         [Next]_vars
  PROVE  NoFalseAlarm'
<1> SUFFICES ASSUME Service = "atomic" PROVE verdict' # "FAILED"
  BY DEF NoFalseAlarm
<1>1. verdict # "FAILED"
  BY DEF NoFalseAlarm
<1>2. CASE UNCHANGED vars
  BY <1>1, <1>2 DEF vars
<1>3. ASSUME NEW c \in Clients,
             Call(c) \/ Await(c) \/ HarvestRead(c) \/ Execute(c)
      PROVE  verdict' # "FAILED"
  BY <1>1, <1>3 DEF Call, Await, HarvestRead, Execute
<1>4. ASSUME NEW c \in Clients, HarvestUpdate(c) PROVE verdict' # "FAILED"
  <2>1. verdict' = verdict
    BY <1>4, UpdatePasses, UpdateIs
  <2> QED
    BY <1>1, <2>1
<1>5. ASSUME NEW c \in Clients, UnexpectedStop(c) PROVE verdict' # "FAILED"
  <2>1. answer[c] = StopResp /\ StopResp # None
    BY <1>5, NoneAssumption DEF UnexpectedStop
  <2>2. answer[c] # StopResp
    BY <2>1 DEF AnswersExplained
  <2> QED
    BY <2>1, <2>2
<1>6. CASE Finish
  BY <1>6 DEF Finish
<1>7. CASE RunnerFailure
  BY <1>7 DEF RunnerFailure
<1> QED
  BY <1>2, <1>3, <1>4, <1>5, <1>6, <1>7 DEF Next, Turn

----------------------------------------------------------------------------
(***************************************************************************)
(* The theorems.                                                           *)
(***************************************************************************)
IInv ==
  /\ TypeOK /\ LoopInv /\ ClockInv /\ TrimInv
  /\ NothingDueWaits /\ CheckInv
  /\ WriterInv /\ AnswersExplained /\ QueueExplained /\ NoFalseAlarm

\* The parts about the fuzzer hold in the initial states.
LEMMA InitFuzzer ==
  ASSUME Init
  PROVE  TypeOK /\ LoopInv /\ ClockInv /\ TrimInv /\ NothingDueWaits /\ CheckInv
<1>1. /\ Dummy \in Spans /\ <<Dummy>> \in Seq(Spans)
      /\ Len(<<Dummy>>) = 1 /\ DOMAIN <<Dummy>> = {1} /\ <<Dummy>>[1] = Dummy
  BY DEF Dummy, Spans
<1>2. \A k \in PoolKeys, c \in Clients : full[k][c] = <<Dummy>> /\ spans[k][c] = <<Dummy>>
  BY DEF Init
<1>3. TypeOK
  <2>1. Empty \in Stores
    BY DEF Empty, Stores
  <2>2. 0 \in 0 .. TotalOps /\ 0 \in 0 .. 0
    BY TimesAreNumbers
  <2> QED
    BY <1>1, <2>1, <2>2 DEF Init, TypeOK
<1>4. LoopInv
  <2>1. Flying = {}
    BY DEF Init, Flying
  <2>2. Cardinality({}) = 0
    BY FS_EmptySet
  <2> QED
    BY <2>1, <2>2, TimesAreNumbers DEF Init, LoopInv
<1>5. ClockInv
  <2>1. Horizon = 1 /\ queue = <<>> /\ \A c \in Clients : maxtr[c] = 0 /\ memo[c] = None
    BY DEF Init, Horizon
  <2>2. Ordered(<<Dummy>>)
    BY <1>1 DEF Ordered, Dummy
  <2>3. \A i \in DOMAIN <<Dummy>> : <<Dummy>>[i].ts_resp <= 0
    BY <1>1 DEF Dummy
  <2> QED
    BY <1>2, <2>1, <2>2, <2>3 DEF ClockInv
<1>6. TrimInv
  <2> SUFFICES ASSUME NEW k \in PoolKeys, NEW c \in Clients PROVE EndLeft(k, c)
    BY DEF TrimInv
  <2>1. PICK l \in Seq(Spans) : l = <<Dummy>>
    BY <1>1
  <2>2. Len(l) = 1 /\ 0 \in 0 .. Len(l) /\ 0 \in 0 .. Len(l) - 1 /\ Len(l) - 0 = 1
    BY <1>1, <2>1
  <2>3. SubSeq(l, 0 + 1, Len(l)) = l
    <3> DEFINE t == SubSeq(l, 0 + 1, Len(l))
    <3>1. t \in Seq(Spans) /\ Len(t) = 1 /\ \A i \in 1 .. 1 : t[i] = l[0 + i]
      BY <2>2, SuffixIs
    <3> HIDE DEF t
    <3>2. t[1] = l[1]
      BY <3>1
    <3>3. t = l
      BY <2>2, <3>1, <3>2
    <3> QED
      BY <3>3 DEF t
  <2>4. full[k][c] = l /\ spans[k][c] = l
    BY <1>2, <2>1
  <2>5. ~(0 > 0)
    OBVIOUS
  <2> QED
    BY <2>2, <2>3, <2>4, <2>5 DEF EndLeft
<1>7. NothingDueWaits /\ CheckInv
  BY DEF Init, NothingDueWaits, CheckInv
<1> QED
  BY <1>3, <1>4, <1>5, <1>6, <1>7

\* So do those about the service.
LEMMA InitService ==
  ASSUME Init
  PROVE  WriterInv /\ AnswersExplained /\ QueueExplained /\ NoFalseAlarm
<1>1. ASSUME NEW k \in PoolKeys, NEW c \in Clients PROVE Written(k, c)
  <2>1. full[k][c] = <<Dummy>> /\ store[k] = Nil /\ memo[c] = None
    BY <1>1, PoolType DEF Init, Empty
  <2> QED
    BY <2>1 DEF Written, InFlight, Dummy
<1>2. WriterInv
  BY <1>1, FuzzerAssumption DEF WriterInv
<1>3. AnswersExplained /\ QueueExplained /\ NoFalseAlarm
  BY DEF Init, AnswersExplained, QueueExplained, NoFalseAlarm
<1> QED
  BY <1>2, <1>3

\* The inductive invariant.
LEMMA Inductive == Spec => []IInv
<1>1. Init => IInv
  BY InitFuzzer, InitService DEF IInv
<1>2. IInv /\ [Next]_vars => IInv'
  BY TypeStep, LoopStep, ClockStep, TrimStep, DueStep, CheckStep, WriterStep, AnswersStep,
     QueueStep, AlarmStep DEF IInv
<1> QED
  BY <1>1, <1>2, PTL DEF Spec

\* Every variable has its type, and fuzz_test always finds a call to make or
\* one to wait for until it has made and harvested its TotalOps calls.
THEOREM LoopComesToItsEnd == Spec => [](TypeOK /\ DrawsEnd)
<1>1. IInv => TypeOK /\ DrawsEnd
  BY DrawsSound DEF IInv
<1> QED
  BY <1>1, Inductive, PTL

\* The assertions of history.rs hold.
THEOREM HistoryKeepsOrder == Spec => []HistoryInOrder
<1>1. IInv => HistoryInOrder
  BY OrderSound DEF IInv
<1> QED
  BY <1>1, Inductive, PTL

\* Trimming the history hides nothing from a check that is still to be made.
THEOREM TrimmingIsHarmless == Spec => []TrimHarmless
<1>1. IInv => TrimHarmless
  BY TrimSound DEF IInv
<1> QED
  BY <1>1, Inductive, PTL

\* A check is made as soon as it is due.
THEOREM ChecksAreMadeWhenDue == Spec => []NothingDueWaits
<1>1. IInv => NothingDueWaits
  BY DEF IInv
<1> QED
  BY <1>1, Inductive, PTL

\* A check is not made before its outcome is settled.
THEOREM ChecksAreFinal == Spec => []CheckFinal
<1>1. IInv => CheckFinal
  BY CheckSound DEF IInv
<1> QED
  BY <1>1, Inductive, PTL

\* A linearizable service never fails.
THEOREM FuzzerIsSound == Spec => []NoFalseAlarm
<1>1. IInv => NoFalseAlarm
  BY DEF IInv
<1> QED
  BY <1>1, Inductive, PTL

\* No response is lost between its harvest and its check: what a result says
\* is founded on the checks that were made.
THEOREM ResultsAreFounded == Spec => []VerdictAccounts
<1>1. Init => AccountInv
  <2> SUFFICES ASSUME Init PROVE AccountInv
    OBVIOUS
  <2>1. checked = {} /\ queue = <<>> /\ waited = 0 /\ verdict = "running"
    BY DEF Init
  <2>2. IsFiniteSet(checked) /\ Cardinality(checked) + Len(queue) = waited
    BY <2>1, FS_EmptySet
  <2> QED
    BY <2>1, <2>2 DEF AccountInv, VerdictAccounts
<1>2. IInv /\ AccountInv /\ [Next]_vars => AccountInv'
  BY AccountStep DEF IInv
<1>3. AccountInv => VerdictAccounts
  BY DEF AccountInv
<1> QED
  BY <1>1, <1>2, <1>3, Inductive, PTL DEF Spec
=============================================================================
