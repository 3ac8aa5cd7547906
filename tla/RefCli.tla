------------------------------- MODULE RefCli -------------------------------
(***************************************************************************)
(* The reference client (refcli/src/main.rs): it carries the commands of   *)
(* its standard input out on a map of its own.                             *)
(***************************************************************************)
EXTENDS KVStore

CONSTANTS
  None,      \* no call, no answer
  Inputs,    \* the calls that are typed, a set of Calls
  MaxLines   \* bound: the lines that are typed

VARIABLES
  state,     \* the map
  stdin,     \* the lines that have been typed and not been read
  lines,     \* the lines typed
  proc,      \* main: "reading", "handling" or "writing"; its end: "exited",
             \* "failed" to write, or "panicked"
  call,      \* the last call
  resp       \* the answer to it, None until it has one

vars == <<state, stdin, lines, proc, call, resp>>

Stop == [op |-> "Stop"]
Invalid == [op |-> "Invalid"]

Init ==
  /\ state = Empty
  /\ stdin = <<>>
  /\ lines = 0
  /\ proc = "reading"
  /\ call = None
  /\ resp = None

Type ==
  /\ lines < MaxLines
  /\ \E line \in Inputs \cup {Stop, Invalid} : stdin' = Append(stdin, line)
  /\ lines' = lines + 1
  /\ UNCHANGED <<state, proc, call, resp>>

----------------------------------------------------------------------------
(***************************************************************************)
(* The loop of main.  At the end of the input read_line returns no bytes,  *)
(* the empty buffer is taken for an empty line and skipped, and main tries *)
(* again: nothing changes.                                                 *)
(***************************************************************************)
ReadCall ==
  /\ proc = "reading"
  /\ stdin # <<>>
  /\ Head(stdin) \in Calls
  /\ call' = Head(stdin)
  /\ resp' = None
  /\ stdin' = Tail(stdin)
  /\ proc' = "handling"
  /\ UNCHANGED <<state, lines>>

\* STOP is answered; a line that is not UTF-8 or does not parse is an error of main.
ReadLast ==
  /\ proc = "reading"
  /\ stdin # <<>>
  /\ Head(stdin) \in {Stop, Invalid}
  /\ stdin' = Tail(stdin)
  /\ proc' = "exited"
  /\ UNCHANGED <<state, lines, call, resp>>

\* handle_kv_call of all but Scan.
Handle ==
  /\ proc = "handling"
  /\ call.op # "Scan"
  /\ state' = Effect(state, call)
  /\ \E r \in Results(state, call) : resp' = r
  /\ proc' = "writing"
  /\ UNCHANGED <<stdin, lines, call>>

\* The range start..end does not include its end.
HandleScan ==
  /\ proc = "handling"
  /\ call.op = "Scan"
  /\ call.start <= call.end
  /\ \E list \in ScanLists(state, call.start, call.end - 1) :
       resp' = [op |-> "Scan", start |-> call.start, end |-> call.end, entries |-> list]
  /\ proc' = "writing"
  /\ UNCHANGED <<state, stdin, lines, call>>

\* BTreeMap::range panics when its start is greater than its end.
ScanPanics ==
  /\ proc = "handling"
  /\ call.op = "Scan"
  /\ call.start > call.end
  /\ proc' = "panicked"
  /\ UNCHANGED <<state, stdin, lines, call, resp>>

Write ==
  /\ proc = "writing"
  /\ proc' = "reading"
  /\ UNCHANGED <<state, stdin, lines, call, resp>>

\* The standard output is closed: write_response returns an error, and so does main.
WriteFails ==
  /\ proc = "writing"
  /\ proc' = "failed"
  /\ UNCHANGED <<state, stdin, lines, call, resp>>

\* The standard input cannot be read: likewise.
ReadFails ==
  /\ proc = "reading"
  /\ proc' = "exited"
  /\ UNCHANGED <<state, stdin, lines, call, resp>>

Main ==
  \/ ReadCall
  \/ ReadLast
  \/ ReadFails
  \/ Handle
  \/ HandleScan
  \/ ScanPanics
  \/ Write
  \/ WriteFails

Next == Main \/ Type

Spec == Init /\ [][Next]_vars

----------------------------------------------------------------------------
(***************************************************************************)
(* The client that AtomicKV promises its answers to.  A panic is not one   *)
(* of the ends that it knows: only a call that is lost may end a client,   *)
(* and no call is lost on the way to a map of one's own.                   *)
(***************************************************************************)
cliBar ==
  CASE proc = "reading"                  -> "ready"
    [] proc \in {"handling", "writing"} -> "waiting"
    [] proc \in {"exited", "failed"}    -> "exited"
    [] proc = "panicked"                 -> "panicked"

opBar ==
  CASE proc \in {"handling", "panicked"} -> "pending"
    [] proc \in {"writing", "failed"}    -> "done"
    [] proc \in {"reading", "exited"}    -> "none"

\* The service, seen by its only client.
A == INSTANCE AtomicKV WITH
       Clients <- {1}, store <- state, cli <- [c \in {1} |-> cliBar],
       op <- [c \in {1} |-> opBar], call <- [c \in {1} |-> call],
       resp <- [c \in {1} |-> resp]

(***************************************************************************)
(* "Reference client that demonstrates the stdin/out workload interface"   *)
(* (main.rs:1): what it prints is what a client of the service may print,  *)
(* whose scans include the end of their range (report/proj1.md:24) and     *)
(* answer a range whose start is greater than its end with an empty list   *)
(* (run_test.sh:236 and 258).                                              *)
(***************************************************************************)
DemonstratesInterface == A!Spec

----------------------------------------------------------------------------
(***************************************************************************)
(* Where it does not: steps of the client, in terms of the service.        *)
(***************************************************************************)

\* A scan is answered with the right list, but for its last entry, the one at
\* the end of the range.
EndMissing ==
  /\ opBar = "pending" /\ call.op = "Scan"
  /\ call.start <= call.end /\ state[call.end] # Nil
  /\ opBar' = "done"
  /\ \E full \in ScanLists(state, call.start, call.end) :
       resp' = [op |-> "Scan", start |-> call.start, end |-> call.end,
                entries |-> SubSeq(full, 1, Len(full) - 1)]
  /\ UNCHANGED <<state, cliBar, call>>

\* A scan ends the client, and is not answered.
RangePanics ==
  /\ opBar = "pending" /\ call.op = "Scan" /\ call.start > call.end
  /\ cliBar' = "panicked"
  /\ UNCHANGED <<state, opBar, call, resp>>

(***************************************************************************)
(* Whatever is typed, the reference client is the service but for its      *)
(* scans of a range whose end is stored, which miss that entry and no      *)
(* other one, and those of a range whose start is greater than its end,    *)
(* which end it (main.rs:110).                                             *)
(***************************************************************************)
DivergesOnlyInScans == A!Init /\ [][A!Next \/ EndMissing \/ RangePanics]_(A!vars)
=============================================================================
