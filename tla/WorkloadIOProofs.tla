-------------------------- MODULE WorkloadIOProofs --------------------------
(***************************************************************************)
(* Proof that what the driver makes of the lines of the client is what the *)
(* service has answered, for any keys, values and words: the client reads  *)
(* from a line the call that was made, and the driver reads from the lines *)
(* of an answer that answer, and all of these lines, unless one misleads.  *)
(***************************************************************************)
EXTENDS WorkloadIO, KVStoreProofs, SequenceTheorems

(***************************************************************************)
(* The inductive invariant.  Unless the driver has been misled, the pipes  *)
(* hold a call or the lines of its answer while the driver waits, and are  *)
(* empty while it does not.                                                *)
(***************************************************************************)
CallLines == {CallLine(call) : call \in Calls}

Sent == \E call \in Calls : stdin = <<CallLine(call)>>

Waiting ==
  \/ Sent /\ stdout = <<>>
  \/ /\ stdin = <<>>
     /\ answer \in Answers
     /\ ~Misleads(answer)
     /\ stdout = AnswerLines(answer)

Settled ==
  /\ stdin = <<>>
  /\ stdout = <<>>
  /\ answer # None => resp = InWords(answer)

IInv ==
  /\ store \in Stores
  /\ stdin \in Seq(CallLines)
  /\ ~misled => IF driver = "reading" THEN Waiting ELSE Settled

----------------------------------------------------------------------------
(***************************************************************************)
(* There and back again.                                                   *)
(***************************************************************************)

\* A key is found by its word.
LEMMA KeyOfWord ==
  ASSUME NEW k \in Keys
  PROVE  Key(Word[k]) = k
<1>1. \A j \in Keys : Word[j] = Word[k] => j = k
  BY WordAssumption DEF IsInjective
<1>2. Key(Word[k]) \in Keys /\ Word[Key(Word[k])] = Word[k]
  BY DEF Key
<1> QED
  BY <1>1, <1>2

\* The client makes the call that the driver has written.
LEMMA CallReadBack ==
  ASSUME NEW call \in Calls
  PROVE  Command(CallLine(call)) = call
<1>1. CASE call.op \in {"Put", "Swap"}
  <2>1. Key(Word[call.key]) = call.key /\ call = [op |-> call.op, key |-> call.key, value |-> call.value]
    BY <1>1, KeyOfWord DEF Calls
  <2>2. Command(CallLine(call)) = [op |-> call.op, key |-> Key(Word[call.key]), value |-> call.value]
    BY <1>1 DEF CallLine, Command
  <2> QED
    BY <2>1, <2>2
<1>2. CASE call.op \in {"Get", "Delete"}
  <2>1. Key(Word[call.key]) = call.key /\ call = [op |-> call.op, key |-> call.key]
    BY <1>2, KeyOfWord DEF Calls
  <2>2. Command(CallLine(call)) = [op |-> call.op, key |-> Key(Word[call.key])]
    BY <1>2 DEF CallLine, Command
  <2> QED
    BY <2>1, <2>2
<1>3. CASE call.op = "Scan"
  <2>1. /\ Key(Word[call.start]) = call.start /\ Key(Word[call.end]) = call.end
        /\ call = [op |-> "Scan", start |-> call.start, end |-> call.end]
    BY <1>3, KeyOfWord DEF Calls
  <2>2. Command(CallLine(call))
          = [op |-> "Scan", start |-> Key(Word[call.start]), end |-> Key(Word[call.end])]
    BY <1>3 DEF CallLine, Command
  <2> QED
    BY <2>1, <2>2
<1> QED
  BY <1>1, <1>2, <1>3, CallFields

\* The answer to a scan is printed as a header, a line per entry and the end line.
LEMMA ScanPrinted ==
  ASSUME NEW a \in Answers, a.op = "Scan"
  PROVE  LET n == Len(a.entries) IN
           /\ n \in Nat /\ DOMAIN a.entries = 1 .. n
           /\ Len(AnswerLines(a)) = n + 2
           /\ AnswerLines(a)[1] = <<"SCAN", Word[a.start], Word[a.end], "BEGIN">>
           /\ \A i \in 1 .. n : AnswerLines(a)[i + 1] = EntryLines(a.entries)[i]
           /\ AnswerLines(a)[n + 2] = EndLine
           /\ \E T : AnswerLines(a) \in Seq(T)
<1> DEFINE n == Len(a.entries)
           header == <<"SCAN", Word[a.start], Word[a.end], "BEGIN">>
           body == EntryLines(a.entries)
           front == <<header>> \o body
           S == {header, EndLine} \cup {body[i] : i \in 1 .. n}
<1>1. a.entries \in Seq(Entries)
  BY DEF Answers
<1>2. n \in Nat /\ DOMAIN a.entries = 1 .. n
  BY <1>1, LenProperties
<1>3. body \in Seq(S) /\ Len(body) = n
  <2>1. DOMAIN body = 1 .. n /\ body \in [1 .. n -> S]
    BY <1>2 DEF EntryLines
  <2> HIDE DEF body, S, n
  <2> QED
    BY <1>2, <2>1, SeqDef, LenProperties
<1>4. /\ <<header>> \in Seq(S) /\ Len(<<header>>) = 1 /\ <<header>>[1] = header
      /\ <<EndLine>> \in Seq(S) /\ Len(<<EndLine>>) = 1 /\ <<EndLine>>[1] = EndLine
  <2>1. header \in S /\ EndLine \in S
    OBVIOUS
  <2> HIDE DEF header, EndLine, S
  <2> QED
    BY <2>1
<1>5. AnswerLines(a) = front \o <<EndLine>>
  <2> HIDE DEF EndLine
  <2> QED
    BY DEF AnswerLines
<1> HIDE DEF header, body, S, n
<1>6. /\ front \in Seq(S) /\ Len(front) = 1 + n
      /\ \A i \in 1 .. 1 + n : front[i] = IF i <= 1 THEN <<header>>[i] ELSE body[i - 1]
  BY <1>3, <1>4, ConcatProperties
<1> HIDE DEF front
<1>7. /\ AnswerLines(a) \in Seq(S)
      /\ Len(AnswerLines(a)) = (1 + n) + 1
      /\ \A i \in 1 .. (1 + n) + 1 :
           AnswerLines(a)[i] = IF i <= 1 + n THEN front[i] ELSE <<EndLine>>[i - (1 + n)]
  BY <1>4, <1>5, <1>6, ConcatProperties
<1>8. AnswerLines(a)[1] = header
  BY <1>2, <1>4, <1>6, <1>7
<1>9. \A i \in 1 .. n : AnswerLines(a)[i + 1] = body[i]
  <2> TAKE i \in 1 .. n
  <2>1. /\ i + 1 \in 1 .. (1 + n) + 1 /\ i + 1 \in 1 .. 1 + n
        /\ i + 1 <= 1 + n /\ ~(i + 1 <= 1) /\ i + 1 - 1 = i
    BY <1>2
  <2> QED
    BY <1>6, <1>7, <2>1
<1>10. Len(AnswerLines(a)) = n + 2 /\ AnswerLines(a)[n + 2] = EndLine
  <2>1. /\ n + 2 \in 1 .. (1 + n) + 1 /\ n + 2 = (1 + n) + 1
        /\ ~(n + 2 <= 1 + n) /\ n + 2 - (1 + n) = 1
    BY <1>2
  <2>2. AnswerLines(a)[n + 2] = <<EndLine>>[n + 2 - (1 + n)]
    BY <1>2, <1>7, <2>1
  <2> QED
    BY <1>4, <1>7, <2>1, <2>2
<1>11. \E T : AnswerLines(a) \in Seq(T)
  BY <1>7
<1> QED
  BY <1>2, <1>7, <1>8, <1>9, <1>10, <1>11 DEF n, header, body

\* The driver finds the last line of an answer that does not mislead it.
LEMMA LastLineFound ==
  ASSUME NEW a \in Answers, ~Misleads(a)
  PROVE  /\ LastLine(AnswerLines(a)) = Len(AnswerLines(a))
         /\ Len(AnswerLines(a)) \in Nat
<1>1. CASE a.op # "Scan"
  <2>1. a.op \in {"Put", "Delete", "Swap", "Get"}
    BY <1>1 DEF Answers
  <2>2. PICK l : AnswerLines(a) = <<l>> /\ l[1] # "SCAN"
    BY <2>1 DEF AnswerLines
  <2> QED
    BY <2>2 DEF LastLine
<1>2. CASE a.op = "Scan"
  <2> DEFINE out == AnswerLines(a)
             n == Len(a.entries)
             ends == {i \in 2 .. Len(out) : out[i] = EndLine}
  <2>1. /\ n \in Nat /\ DOMAIN a.entries = 1 .. n
        /\ Len(out) = n + 2
        /\ out[1] = <<"SCAN", Word[a.start], Word[a.end], "BEGIN">>
        /\ \A i \in 1 .. n : out[i + 1] = EntryLines(a.entries)[i]
        /\ out[n + 2] = EndLine
    BY <1>2, ScanPrinted
  <2>2. \A i \in 1 .. n : EntryLines(a.entries)[i] # EndLine
    BY <1>2, <2>1 DEF Misleads
  <2>3. out[1][1] = "SCAN" /\ Len(out[1]) = 4
    <3> HIDE DEF out
    <3> QED
      BY <2>1
  <2> HIDE DEF out, n
  <2>4. ends = {n + 2}
    <3>1. ASSUME NEW i \in 2 .. n + 2, i # n + 2 PROVE out[i] # EndLine
      <4>1. i - 1 \in 1 .. n /\ (i - 1) + 1 = i
        BY <2>1, <3>1
      <4> QED
        BY <2>1, <2>2, <4>1
    <3>2. n + 2 \in 2 .. n + 2
      BY <2>1
    <3> QED
      BY <2>1, <3>1, <3>2
  <2>5. Min(ends) = n + 2
    <3> HIDE DEF ends
    <3> QED
      BY <2>1, <2>4 DEF Min
  <2> QED
    BY <2>1, <2>3, <2>4, <2>5 DEF LastLine, out
<1> QED
  BY <1>1, <1>2

\* The driver reads the answer that the client has printed.
LEMMA AnswerReadBack ==
  ASSUME NEW a \in Answers, ~Misleads(a)
  PROVE  Response(AnswerLines(a)) = InWords(a)
<1>1. CASE a.op \in {"Put", "Delete"}
  <2> DEFINE word == Found(a.found)
             found == word = "found"
  <2>1. /\ a = [op |-> a.op, key |-> a.key, found |-> a.found]
        /\ word \in {"found", "not_found"} /\ found = a.found
    <3>1. a \in [op : {"Put", "Delete"}, key : Keys, found : BOOLEAN]
      BY <1>1 DEF Answers
    <3>2. a = [op |-> a.op, key |-> a.key, found |-> a.found] /\ a.found \in BOOLEAN
      BY <3>1
    <3> QED
      BY <3>2 DEF Found
  <2>2. Response(AnswerLines(a)) = [op |-> a.op, key |-> Word[a.key], found |-> found]
    <3>1. AnswerLines(a)[1] = <<IF a.op = "Put" THEN "PUT" ELSE "DELETE", Word[a.key], word>>
      BY <1>1 DEF AnswerLines
    <3> HIDE DEF word
    <3> QED
      BY <1>1, <2>1, <3>1 DEF Response
  <2>3. InWords(a) = [op |-> a.op, key |-> Word[a.key], found |-> a.found]
    BY <1>1, <2>1 DEF InWords
  <2> QED
    BY <2>1, <2>2, <2>3
<1>2. CASE a.op \in {"Swap", "Get"}
  <2> DEFINE value == IF OrNull(a.value) = "null" THEN Nil ELSE OrNull(a.value)
  <2>1. a = [op |-> a.op, key |-> a.key, value |-> a.value] /\ value = a.value
    BY <1>2 DEF Answers, Misleads, OrNull
  <2>2. Response(AnswerLines(a)) = [op |-> a.op, key |-> Word[a.key], value |-> value]
    <3>1. AnswerLines(a)[1]
            = <<IF a.op = "Swap" THEN "SWAP" ELSE "GET", Word[a.key], OrNull(a.value)>>
      BY <1>2 DEF AnswerLines
    <3> QED
      BY <1>2, <3>1 DEF Response
  <2>3. InWords(a) = [op |-> a.op, key |-> Word[a.key], value |-> a.value]
    BY <1>2, <2>1 DEF InWords
  <2> QED
    BY <2>1, <2>2, <2>3
<1>3. CASE a.op = "Scan"
  <2> DEFINE out == AnswerLines(a)
             n == Len(a.entries)
             body == EntryLines(a.entries)
             S == {body[i] : i \in 1 .. n}
  <2>1. /\ n \in Nat /\ DOMAIN a.entries = 1 .. n
        /\ Len(out) = n + 2
        /\ out[1] = <<"SCAN", Word[a.start], Word[a.end], "BEGIN">>
        /\ \A i \in 1 .. n : out[i + 1] = body[i]
    BY <1>3, ScanPrinted
  <2>2. LastLine(out) = n + 2
    BY <2>1, LastLineFound
  <2>3. body \in Seq(S) /\ Len(body) = n
    <3>1. DOMAIN body = 1 .. n /\ body \in [1 .. n -> S]
      BY <2>1 DEF EntryLines
    <3> HIDE DEF body, S, n
    <3> QED
      BY <2>1, <3>1, SeqDef, LenProperties
  <2>4. SubSeq(out, 2, LastLine(out) - 1) = body
    <3> HIDE DEF out, body, S, n
    <3>1. \A i \in 2 .. n + 1 : out[i] \in S
      <4> TAKE i \in 2 .. n + 1
      <4>1. i - 1 \in 1 .. n /\ (i - 1) + 1 = i
        BY <2>1
      <4> QED
        BY <2>1, <4>1 DEF S
    <3>2. 2 \in Int /\ n + 1 \in Int /\ LastLine(out) - 1 = n + 1 /\ (n + 1) - 2 + 1 = n
      BY <2>1, <2>2
    <3> DEFINE sub == SubSeq(out, 2, n + 1)
    <3>3. /\ sub \in Seq(S)
          /\ Len(sub) = IF 2 <= n + 1 THEN (n + 1) - 2 + 1 ELSE 0
          /\ \A i \in 1 .. (n + 1) - 2 + 1 : sub[i] = out[2 + i - 1]
      BY <3>1, <3>2, SubSeqProperties
    <3> HIDE DEF sub
    <3>4. Len(sub) = n
      BY <2>1, <3>3
    <3>5. \A i \in 1 .. n : sub[i] = body[i]
      <4> TAKE i \in 1 .. n
      <4>1. 2 + i - 1 = i + 1
        BY <2>1
      <4> QED
        BY <2>1, <3>2, <3>3, <4>1
    <3>6. sub = body
      BY <2>3, <3>3, <3>4, <3>5, SeqEqual
    <3> QED
      BY <3>2, <3>6 DEF sub
  <2>5. Response(out) = [op |-> "Scan", start |-> Word[a.start], end |-> Word[a.end],
                         entries |-> SubSeq(out, 2, LastLine(out) - 1)]
    <3> HIDE DEF out
    <3> QED
      BY <2>1 DEF Response
  <2> QED
    BY <1>3, <2>4, <2>5 DEF InWords
<1> QED
  BY <1>1, <1>2, <1>3 DEF Answers

----------------------------------------------------------------------------
\* The client makes the call of the line, and prints the lines of its answer.
LEMMA ServeIInv ==
  ASSUME IInv, Serve
  PROVE  IInv'
<1>1. PICK call \in Calls : Head(stdin) = CallLine(call)
  <2>1. Head(stdin) \in CallLines
    BY DEF IInv, Serve
  <2> QED
    BY <2>1 DEF CallLines
<1>2. Command(Head(stdin)) = call
  BY <1>1, CallReadBack
<1>3. PICK a \in Results(store, call) :
        /\ answer' = a
        /\ stdout' = stdout \o AnswerLines(a)
        /\ misled' = (misled \/ Misleads(a))
  BY <1>2 DEF Serve
<1>4. store' \in Stores /\ a \in Answers
  BY <1>2, <1>3, InterfaceTypes DEF IInv, Serve
<1>5. stdin' = Tail(stdin) /\ stdin # <<>> /\ driver' = driver
  BY DEF Serve
<1>6. ASSUME ~misled' PROVE driver = "reading" /\ Waiting'
  <2>1. ~misled /\ ~Misleads(a)
    BY <1>3, <1>6
  <2>2. driver = "reading" /\ stdout = <<>> /\ Sent
    BY <1>5, <2>1 DEF IInv, Waiting, Settled
  <2>3. <<>> \o AnswerLines(a) = AnswerLines(a)
    <3>1. CASE a.op = "Scan"
      <4>1. PICK S : AnswerLines(a) \in Seq(S)
        BY <1>4, <3>1, ScanPrinted
      <4> QED
        BY <4>1, ConcatEmptySeq
    <3>2. CASE a.op # "Scan"
      <4>1. PICK l : AnswerLines(a) = <<l>>
        BY <1>4, <3>2 DEF AnswerLines, Answers
      <4> QED
        BY <4>1
    <3> QED
      BY <3>1, <3>2
  <2>4. stdin' = <<>>
    <3>1. PICK line : stdin = <<line>>
      BY <2>2 DEF Sent
    <3>2. Tail(<<line>>) = <<>>
      OBVIOUS
    <3> QED
      BY <1>5, <3>1, <3>2
  <2> QED
    BY <1>3, <1>4, <1>5, <2>1, <2>2, <2>3, <2>4 DEF Waiting
<1>7. stdin' \in Seq(CallLines)
  BY <1>5 DEF IInv
<1> QED
  BY <1>4, <1>5, <1>6, <1>7 DEF IInv

\* The driver reads all lines of the answer, and sends on what they say.
LEMMA ReadIInv ==
  ASSUME IInv, Read
  PROVE  IInv'
<1>1. UNCHANGED <<store, stdin, answer, misled>> /\ driver = "reading" /\ driver' # "reading"
  BY DEF Read
<1>2. ASSUME ~misled PROVE Settled'
  <2>1. /\ stdin = <<>> /\ answer \in Answers /\ ~Misleads(answer)
        /\ stdout = AnswerLines(answer)
    <3>1. stdout # <<>>
      BY DEF Read
    <3> QED
      BY <1>1, <1>2, <3>1 DEF IInv, Waiting
  <2>2. resp' = InWords(answer)
    BY <2>1, AnswerReadBack DEF Read
  <2>3. LastLine(stdout) = Len(stdout) /\ Len(stdout) \in Nat
    BY <2>1, LastLineFound
  <2>4. SubSeq(stdout, Len(stdout) + 1, Len(stdout)) = <<>>
    BY <2>3, SubSeqEmpty
  <2>5. stdout' = <<>>
    BY <2>3, <2>4 DEF Read
  <2> QED
    BY <1>1, <2>1, <2>2, <2>5 DEF Settled
<1> QED
  BY <1>1, <1>2 DEF IInv, Sent

\* Every step preserves the inductive invariant.
LEMMA NextIInv == IInv /\ [Next]_vars => IInv'
<1> SUFFICES ASSUME IInv, [Next]_vars PROVE IInv'
  OBVIOUS
<1>1. CASE Send
  <2>1. PICK call \in Calls : stdin' = Append(stdin, CallLine(call))
    BY <1>1 DEF Send
  <2>2. CallLine(call) \in CallLines
    BY DEF CallLines
  <2>3. stdin' \in Seq(CallLines)
    BY <2>1, <2>2 DEF IInv
  <2>4. stdin = <<>> => stdin' = <<CallLine(call)>>
    BY <2>1
  <2> QED
    BY <1>1, <2>3, <2>4 DEF Send, IInv, Sent, Waiting, Settled
<1>2. CASE Other
  <2>1. store' \in Stores
    BY <1>2, InterfaceTypes DEF Other, IInv
  <2> QED
    BY <1>2, <2>1 DEF Other, IInv, Sent, Waiting, Settled
<1>3. CASE UNCHANGED vars
  BY <1>3 DEF vars, IInv, Sent, Waiting, Settled
<1> QED
  BY <1>1, <1>2, <1>3, ServeIInv, ReadIInv DEF Next

(***************************************************************************)
(* The response that the driver sends on says what the service has         *)
(* answered, and nothing is left in the pipe, unless an answer has misled  *)
(* the driver: for all keys, their words and values, the words of the      *)
(* interface included, and whatever other clients store.                   *)
(***************************************************************************)
THEOREM ResponsesSayTheAnswer == Spec => []ReadAsAnswered
<1>1. Init => IInv
  <2>1. Init => store \in Stores
    BY DEF Init, Stores, Empty
  <2> QED
    BY <2>1 DEF Init, IInv, Settled
<1>2. IInv => ReadAsAnswered
  BY DEF IInv, Settled, ReadAsAnswered
<1> QED
  BY <1>1, <1>2, NextIInv, PTL DEF Spec
=============================================================================
