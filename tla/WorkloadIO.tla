----------------------------- MODULE WorkloadIO -----------------------------
(***************************************************************************)
(* The text interface between a client handle of the runner (ioapi.rs) and *)
(* the client process (client.cc): calls and answers as lines of words.    *)
(* One handle makes calls, one at a time; the other clients of the service *)
(* change the store meanwhile.                                             *)
(*                                                                         *)
(* Nothing is quoted: the word null stands for no value and the line       *)
(* SCAN END for the end of a scan, but both may be stored, too.            *)
(***************************************************************************)
EXTENDS KVStore, FiniteSetsExt, Functions

CONSTANTS
  Word,      \* the word that a key is spelled with
  None       \* no call, no answer, no response

ASSUME WordAssumption ==
  /\ IsInjective(Word) /\ DOMAIN Word = Keys
  /\ None \notin Answers

VARIABLES
  store,     \* the map of the service
  driver,    \* the driver thread: "idle", "reading" or "ended" by an error
  stdin,     \* the lines that the client has not read yet
  stdout,    \* the lines that the driver has not read yet
  answer,    \* history variable: the answer of the service to the last call
  resp,      \* the response to it that the driver has sent on
  misled     \* history variable: an answer held a word that stands for something else

vars == <<store, driver, stdin, stdout, answer, resp, misled>>

Init ==
  /\ store = Empty
  /\ driver = "idle"
  /\ stdin = <<>>
  /\ stdout = <<>>
  /\ answer = None
  /\ resp = None
  /\ misled = FALSE

----------------------------------------------------------------------------
(***************************************************************************)
(* The driver writes a call, the client reads it.                          *)
(***************************************************************************)
CallLine(call) ==
  CASE call.op = "Put"    -> <<"PUT", Word[call.key], call.value>>
    [] call.op = "Swap"   -> <<"SWAP", Word[call.key], call.value>>
    [] call.op = "Get"    -> <<"GET", Word[call.key]>>
    [] call.op = "Delete" -> <<"DELETE", Word[call.key]>>
    [] call.op = "Scan"   -> <<"SCAN", Word[call.start], Word[call.end]>>

Key(word) == CHOOSE k \in Keys : Word[k] = word

\* The call that the client makes of a line, which has the right length.
Command(words) ==
  CASE words[1] = "PUT"    -> [op |-> "Put", key |-> Key(words[2]), value |-> words[3]]
    [] words[1] = "SWAP"   -> [op |-> "Swap", key |-> Key(words[2]), value |-> words[3]]
    [] words[1] = "GET"    -> [op |-> "Get", key |-> Key(words[2])]
    [] words[1] = "DELETE" -> [op |-> "Delete", key |-> Key(words[2])]
    [] words[1] = "SCAN"   -> [op |-> "Scan", start |-> Key(words[2]), end |-> Key(words[3])]

(***************************************************************************)
(* The client prints an answer, the driver reads it.                       *)
(***************************************************************************)
Found(b) == IF b THEN "found" ELSE "not_found"

OrNull(value) == IF value = Nil THEN "null" ELSE value

EndLine == <<"SCAN", "END">>

EntryLines(entries) == [i \in DOMAIN entries |-> <<Word[entries[i][1]], entries[i][2]>>]

AnswerLines(a) ==
  CASE a.op = "Put"    -> << <<"PUT", Word[a.key], Found(a.found)>> >>
    [] a.op = "Delete" -> << <<"DELETE", Word[a.key], Found(a.found)>> >>
    [] a.op = "Swap"   -> << <<"SWAP", Word[a.key], OrNull(a.value)>> >>
    [] a.op = "Get"    -> << <<"GET", Word[a.key], OrNull(a.value)>> >>
    [] a.op = "Scan"   -> << <<"SCAN", Word[a.start], Word[a.end], "BEGIN">> >>
                             \o EntryLines(a.entries) \o <<EndLine>>

\* Mutant: a scan ends at the first line that starts with SCAN.
LastLineAnyScan(out) ==
  IF out[1][1] # "SCAN" \/ Len(out[1]) < 4 THEN 1
  ELSE LET ends == {i \in 2 .. Len(out) : out[i][1] = "SCAN"}
       IN  IF ends = {} THEN 0 ELSE Min(ends)

\* The line on which the response ends, 0 when it is not there yet.
LastLine(out) ==
  IF out[1][1] # "SCAN" \/ Len(out[1]) < 4 THEN 1
  ELSE LET ends == {i \in 2 .. Len(out) : out[i] = EndLine}
       IN  IF ends = {} THEN 0 ELSE Min(ends)

\* from_read, None when it returns an error.  The words after those that are
\* expected are ignored.
Response(out) ==
  LET l == out[1] IN
    CASE l[1] = "PUT" /\ Len(l) >= 3 /\ l[3] \in {"found", "not_found"} ->
           [op |-> "Put", key |-> l[2], found |-> l[3] = "found"]
      [] l[1] = "DELETE" /\ Len(l) >= 3 /\ l[3] \in {"found", "not_found"} ->
           [op |-> "Delete", key |-> l[2], found |-> l[3] = "found"]
      [] l[1] = "SWAP" /\ Len(l) >= 3 ->
           [op |-> "Swap", key |-> l[2], value |-> IF l[3] = "null" THEN Nil ELSE l[3]]
      [] l[1] = "GET" /\ Len(l) >= 3 ->
           [op |-> "Get", key |-> l[2], value |-> IF l[3] = "null" THEN Nil ELSE l[3]]
      [] l[1] = "SCAN" /\ Len(l) >= 4 /\ l[4] = "BEGIN" ->
           [op |-> "Scan", start |-> l[2], end |-> l[3],
            entries |-> SubSeq(out, 2, LastLine(out) - 1)]
      [] l[1] = "STOP" -> [op |-> "Stop"]
      [] OTHER -> None

----------------------------------------------------------------------------
\* An answer that holds a word, or a line, that stands for something else.
Misleads(a) ==
  \/ a.op \in {"Swap", "Get"} /\ a.value = "null"
  \/ a.op = "Scan" /\ \E i \in DOMAIN a.entries : EntryLines(a.entries)[i] = EndLine

Send ==
  /\ driver = "idle"
  /\ \E call \in Calls : stdin' = Append(stdin, CallLine(call))
  /\ driver' = "reading"
  /\ answer' = None
  /\ resp' = None
  /\ UNCHANGED <<store, stdout, misled>>

Serve ==
  /\ stdin # <<>>
  /\ stdin' = Tail(stdin)
  /\ store' = Effect(store, Command(Head(stdin)))
  /\ \E a \in Results(store, Command(Head(stdin))) :
       /\ answer' = a
       /\ stdout' = stdout \o AnswerLines(a)
       /\ misled' = (misled \/ Misleads(a))
  /\ UNCHANGED <<driver, resp>>

Read ==
  /\ driver = "reading"
  /\ stdout # <<>>
  /\ LastLine(stdout) # 0
  /\ resp' = Response(stdout)
  /\ stdout' = SubSeq(stdout, LastLine(stdout) + 1, Len(stdout))
  /\ driver' = IF resp' = None THEN "ended" ELSE "idle"
  /\ UNCHANGED <<store, stdin, answer, misled>>

\* Another client's call.
Other ==
  /\ \E call \in Calls : store' = Effect(store, call)
  /\ UNCHANGED <<driver, stdin, stdout, answer, resp, misled>>

Next == Send \/ Serve \/ Read \/ Other

Spec == Init /\ [][Next]_vars

(***************************************************************************)
(* Whatever is stored, the response that the driver sends on says what the *)
(* service has answered, and nothing is left in the pipe for the next one, *)
(* unless an answer has misled the driver (ioapi.rs:137, 148 and 169): a   *)
(* value null, or an entry of a scan that reads SCAN END.                  *)
(***************************************************************************)
InWords(a) ==
  IF a.op = "Scan"
    THEN [op |-> "Scan", start |-> Word[a.start], end |-> Word[a.end],
          entries |-> EntryLines(a.entries)]
    ELSE [a EXCEPT !.key = Word[@]]

ReadAsAnswered ==
  driver # "reading" /\ answer # None /\ ~misled => resp = InWords(answer) /\ stdout = <<>>
=============================================================================
