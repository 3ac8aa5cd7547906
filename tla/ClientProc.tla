----------------------------- MODULE ClientProc -----------------------------
(***************************************************************************)
(* One client handle of the test runner (runner/src/proc.rs): the thread   *)
(* that owns the handle and makes one call at a time, the driver thread    *)
(* that carries calls and responses between two channels and the pipes of  *)
(* the client process, and that process (client.cc).  The child of the     *)
(* handle is not the client but `just`, which runs it and waits for it     *)
(* (proj1.just): the client shares its pipes, and survives it.             *)
(*                                                                         *)
(* A call is its number and a response the number of the call it answers:  *)
(* what travels on the pipes and how it is parsed is left out.             *)
(***************************************************************************)
EXTENDS Integers, Sequences

CONSTANT MaxCalls   \* bound: calls made through the handle before it is stopped

ASSUME ClientProcAssumption == MaxCalls \in Nat

VARIABLES
  caller,   \* the owner: "idle", "waiting" in wait_resp, "failed" after an error
            \* there, "stopping" in stop; the handle is gone: "stopped",
            \* "stopfailed" when stop has returned an error, "dropped"
  sent,     \* calls sent so far
  got,      \* the responses received, each with the call it was taken to answer
  calls,    \* the channel from call_tx to call_rx
  resps,    \* the channel from resp_tx to resp_rx
  driver,   \* the driver thread: "recv", "write", "read", "send", "ended"
  cur,      \* the call or the response that the driver has in hand
  stdin,    \* the pipe to the client process
  stdout,   \* the pipe from it
  handle,   \* the child: "running", "exited" or "killed"
  proc,     \* the client: "reading", in an "rpc", "leaving" after STOP, "exited"
  cmd       \* the command it is carrying out

vars == <<caller, sent, got, calls, resps, driver, cur, stdin, stdout, handle, proc, cmd>>

owner == <<caller, sent, got>>
thread == <<driver, cur>>
process == <<handle, proc, cmd>>

\* KvCall::Stop and KvResp::Stop
Stop == 0

Messages == 0 .. MaxCalls

Gone == {"stopped", "stopfailed", "dropped"}

\* Nobody holds the other ends of the pipes any more.
Unread == proc = "exited" /\ handle # "running"

Init ==
  /\ caller = "idle"
  /\ sent = 0
  /\ got = <<>>
  /\ calls = <<>>
  /\ resps = <<>>
  /\ driver = "recv"
  /\ cur = Stop
  /\ stdin = <<>>
  /\ stdout = <<>>
  /\ handle = "running"
  /\ proc = "reading"
  /\ cmd = Stop

----------------------------------------------------------------------------
(***************************************************************************)
(* The owner, as the fuzzer and the benchmark use the handle: they wait    *)
(* for each response, and make no call after an error.  The feeder of the  *)
(* benchmark stops the client then, too; the fuzzer drops the handle.      *)
(*                                                                         *)
(* While the owner is idle the driver is there (Lockstep), hence send_call *)
(* does not fail.                                                          *)
(***************************************************************************)
SendCall ==
  /\ caller = "idle"
  /\ sent < MaxCalls
  /\ calls' = Append(calls, sent + 1)
  /\ sent' = sent + 1
  /\ caller' = "waiting"
  /\ UNCHANGED <<got, resps, thread, stdin, stdout, process>>

WaitResp ==
  /\ caller = "waiting"
  /\ resps # <<>>
  /\ got' = Append(got, [call |-> sent, resp |-> Head(resps)])
  /\ resps' = Tail(resps)
  /\ caller' = "idle"
  /\ UNCHANGED <<sent, calls, thread, stdin, stdout, process>>

\* Mutant: the owner makes its next call after a timeout.
WaitErrorGoesOn ==
  /\ caller = "waiting"
  /\ resps = <<>>
  /\ caller' = "idle"
  /\ UNCHANGED <<sent, got, calls, resps, thread, stdin, stdout, process>>

\* Mutant: the owner sends its call again after a timeout.
WaitErrorRetries ==
  /\ caller = "waiting"
  /\ resps = <<>>
  /\ calls = <<>>
  /\ calls' = <<sent>>
  /\ UNCHANGED <<caller, sent, got, resps, thread, stdin, stdout, process>>

\* recv_timeout gives up: the time is over, or the driver has ended.
WaitError ==
  /\ caller = "waiting"
  /\ resps = <<>>
  /\ caller' = "failed"
  /\ UNCHANGED <<sent, got, calls, resps, thread, stdin, stdout, process>>

\* The handle goes out of scope without a stop.
DropHandle ==
  /\ caller \in {"idle", "failed"}
  /\ caller' = "dropped"
  /\ UNCHANGED <<sent, got, calls, resps, thread, stdin, stdout, process>>

StopSend ==
  /\ caller \in {"idle", "failed"}
  /\ driver # "ended"
  /\ calls' = Append(calls, Stop)
  /\ caller' = "stopping"
  /\ UNCHANGED <<sent, got, resps, thread, stdin, stdout, process>>

\* The receiving end of the channel is gone.
StopSendError ==
  /\ caller = "failed"
  /\ driver = "ended"
  /\ caller' = "stopfailed"
  /\ UNCHANGED <<sent, got, calls, resps, thread, stdin, stdout, process>>

\* A response is there.  If it is the one to STOP, the child is killed to be
\* sure; a late one to the call that timed out is an error.
StopDone ==
  /\ caller = "stopping"
  /\ resps # <<>>
  /\ resps' = Tail(resps)
  /\ \/ /\ Head(resps) = Stop
        /\ caller' = "stopped"
        /\ handle' = IF handle = "running" THEN "killed" ELSE handle
     \/ /\ Head(resps) # Stop
        /\ caller' = "stopfailed"
        /\ UNCHANGED handle
  /\ UNCHANGED <<sent, got, calls, thread, stdin, stdout, proc, cmd>>

StopError ==
  /\ caller = "stopping"
  /\ resps = <<>>
  /\ caller' = "stopfailed"
  /\ UNCHANGED <<sent, got, calls, resps, thread, stdin, stdout, process>>

Owner ==
  \/ SendCall
  \/ WaitResp
  \/ WaitError
  \/ DropHandle
  \/ StopSend
  \/ StopSendError
  \/ StopDone
  \/ StopError

----------------------------------------------------------------------------
(***************************************************************************)
(* The driver thread.  Every error ends it, and closes the pipes.          *)
(***************************************************************************)
DriverRecv ==
  /\ driver = "recv"
  /\ calls # <<>>
  /\ cur' = Head(calls)
  /\ calls' = Tail(calls)
  /\ driver' = "write"
  /\ UNCHANGED <<owner, resps, stdin, stdout, process>>

\* Mutant: the thread tries again when the channel is closed.
DriverRecvRetries ==
  /\ driver = "recv"
  /\ calls = <<>>
  /\ caller \in Gone
  /\ UNCHANGED vars

DriverRecvError ==
  /\ driver = "recv"
  /\ calls = <<>>
  /\ caller \in Gone
  /\ driver' = "ended"
  /\ UNCHANGED <<owner, calls, resps, cur, stdin, stdout, process>>

DriverWrite ==
  /\ driver = "write"
  /\ ~Unread
  /\ stdin' = Append(stdin, cur)
  /\ driver' = "read"
  /\ UNCHANGED <<owner, calls, resps, cur, stdout, process>>

DriverWriteError ==
  /\ driver = "write"
  /\ Unread
  /\ driver' = "ended"
  /\ UNCHANGED <<owner, calls, resps, cur, stdin, stdout, process>>

\* read_next_line.  When the pipe is closed and the output has been read,
\* read_line returns no bytes, the empty buffer is taken for an empty line and
\* skipped, and the thread tries again: nothing changes.
DriverRead ==
  /\ driver = "read"
  /\ stdout # <<>>
  /\ cur' = Head(stdout)
  /\ stdout' = Tail(stdout)
  /\ driver' = "send"
  /\ UNCHANGED <<owner, calls, resps, stdin, process>>

\* from_read returns an error: the response does not parse (WorkloadIO), or the
\* death of the client has cut it short.
DriverReadError ==
  /\ driver = "read"
  /\ stdout # <<>>
  /\ stdout' = Tail(stdout)
  /\ driver' = "ended"
  /\ UNCHANGED <<owner, calls, resps, cur, stdin, process>>

DriverSend ==
  /\ driver = "send"
  /\ caller \notin Gone
  /\ resps' = Append(resps, cur)
  /\ driver' = "recv"
  /\ UNCHANGED <<owner, calls, cur, stdin, stdout, process>>

\* Mutant: the thread ignores that nobody takes the response.
DriverSendErrorIgnored ==
  /\ driver = "send"
  /\ caller \in Gone
  /\ driver' = "recv"
  /\ UNCHANGED <<owner, calls, resps, cur, stdin, stdout, process>>

DriverSendError ==
  /\ driver = "send"
  /\ caller \in Gone
  /\ driver' = "ended"
  /\ UNCHANGED <<owner, calls, resps, cur, stdin, stdout, process>>

Driver ==
  \/ DriverRecv
  \/ DriverRecvError
  \/ DriverWrite
  \/ DriverWriteError
  \/ DriverRead
  \/ DriverReadError
  \/ DriverSend
  \/ DriverSendError

----------------------------------------------------------------------------
(***************************************************************************)
(* The client process: client.cc, whose RPC is answered or fails.          *)
(***************************************************************************)
ReadCommand ==
  /\ proc = "reading"
  /\ stdin # <<>>
  /\ Head(stdin) # Stop
  /\ cmd' = Head(stdin)
  /\ stdin' = Tail(stdin)
  /\ proc' = "rpc"
  /\ UNCHANGED <<owner, calls, resps, thread, stdout, handle>>

ReadStop ==
  /\ proc = "reading"
  /\ stdin # <<>>
  /\ Head(stdin) = Stop
  /\ stdin' = Tail(stdin)
  /\ stdout' = Append(stdout, Stop)
  /\ proc' = "leaving"
  /\ UNCHANGED <<owner, calls, resps, thread, handle, cmd>>

\* The end of the input, or the way out after STOP.
Exit ==
  /\ \/ proc = "leaving"
     \/ proc = "reading" /\ stdin = <<>> /\ driver = "ended"
  /\ proc' = "exited"
  /\ UNCHANGED <<owner, calls, resps, thread, stdin, stdout, handle, cmd>>

RpcAnswered ==
  /\ proc = "rpc"
  /\ stdout' = Append(stdout, cmd)
  /\ proc' = "reading"
  /\ UNCHANGED <<owner, calls, resps, thread, stdin, handle, cmd>>

\* Mutant: the client reports the error and reads the next command.
RpcFailedGoesOn ==
  /\ proc = "rpc"
  /\ proc' = "reading"
  /\ UNCHANGED <<owner, calls, resps, thread, stdin, stdout, handle, cmd>>

RpcFailed ==
  /\ proc = "rpc"
  /\ proc' = "exited"
  /\ UNCHANGED <<owner, calls, resps, thread, stdin, stdout, handle, cmd>>

\* `just` exits when the client has.
HandleExit ==
  /\ handle = "running"
  /\ proc = "exited"
  /\ handle' = "exited"
  /\ UNCHANGED <<owner, calls, resps, thread, stdin, stdout, proc, cmd>>

\* The client dies of itself: it could not be launched, or is killed.
Die ==
  /\ proc # "exited"
  /\ proc' = "exited"
  /\ UNCHANGED <<owner, calls, resps, thread, stdin, stdout, handle, cmd>>

Process ==
  \/ ReadCommand
  \/ ReadStop
  \/ Exit
  \/ RpcAnswered
  \/ RpcFailed
  \/ HandleExit

Next == Owner \/ Driver \/ Process \/ Die

Spec == Init /\ [][Next]_vars

(***************************************************************************)
(* Fairness: the driver and the process run when they can, an RPC returns  *)
(* (CallsComplete of KVServer), and recv_timeout does too.  Nothing makes  *)
(* the owner call or stop.                                                 *)
(***************************************************************************)
FairSpec ==
  /\ Spec
  /\ WF_vars(Driver)
  /\ WF_vars(Process)
  /\ WF_vars(WaitResp \/ WaitError)
  /\ WF_vars(StopDone \/ StopError)

----------------------------------------------------------------------------
(***************************************************************************)
(* Every variable has its type: in particular what travels on the channels *)
(* and pipes is a call that was made, or STOP.                             *)
(***************************************************************************)
TypeOK ==
  /\ caller \in {"idle", "waiting", "failed", "stopping"} \cup Gone
  /\ sent \in 0 .. MaxCalls
  /\ got \in Seq([call : Messages, resp : Messages])
  /\ calls \in Seq(Messages)
  /\ resps \in Seq(Messages)
  /\ driver \in {"recv", "write", "read", "send", "ended"}
  /\ cur \in Messages
  /\ stdin \in Seq(Messages)
  /\ stdout \in Seq(Messages)
  /\ handle \in {"running", "exited", "killed"}
  /\ proc \in {"reading", "rpc", "leaving", "exited"}
  /\ cmd \in Messages

(***************************************************************************)
(* The owner never mistakes a late response for the answer to a later      *)
(* call, and stop() never the response to one call for that to STOP: each  *)
(* response received is the one to the call it was taken to answer, and a  *)
(* stop that succeeds leaves no call unanswered and a client that is on    *)
(* its way out (proc.rs:94 and 101).                                       *)
(***************************************************************************)
RespMatchesCall ==
  /\ \A i \in 1 .. Len(got) : got[i].resp = got[i].call
  /\ caller = "stopped" => proc \in {"leaving", "exited"} /\ Len(got) = sent

(***************************************************************************)
(* The parties run in lockstep: when the owner is about to make a call,    *)
(* nothing is left on the channels and the pipes, the driver waits for a   *)
(* call and the process, unless it has died, for a command.                *)
(***************************************************************************)
Lockstep ==
  caller = "idle" =>
    /\ calls = <<>> /\ resps = <<>> /\ stdin = <<>> /\ stdout = <<>>
    /\ driver = "recv" /\ proc \in {"reading", "exited"}

(***************************************************************************)
(* The driver (proc.rs:129) and the client (client.cc:41) never wait for   *)
(* each other, the one for a line of output and the other for a command:   *)
(* that pair would survive its handle, since the driver closes the pipe    *)
(* only when it ends.                                                      *)
(***************************************************************************)
NoMutualWait ==
  driver = "read" /\ proc = "reading" => stdin # <<>> \/ stdout # <<>>

(***************************************************************************)
(* Once the handle is given up, every step of the driver, the client and   *)
(* `just` brings them nearer to their end, however many calls and          *)
(* responses are still on their way (proc.rs:146 to 158), but for the      *)
(* turns of a driver whose client has died, which change nothing.          *)
(***************************************************************************)
DriverSteps == [recv |-> 8, write |-> 7, read |-> 2, send |-> 1, ended |-> 0]

ProcessSteps == [rpc |-> 2, leaving |-> 2, reading |-> 1, exited |-> 0]

HandleSteps == [running |-> 1, exited |-> 0, killed |-> 0]

StepsToEnd ==
  DriverSteps[driver] + 3 * Len(stdin) + ProcessSteps[proc] + HandleSteps[handle]

GivenUpWindsDown == [][(caller \in Gone) => StepsToEnd' < StepsToEnd]_vars

(***************************************************************************)
(* No client process outlives its handle for ever, stopped or not: the     *)
(* driver notices, closes the pipe, and the process reads the end of its   *)
(* input.                                                                  *)
(***************************************************************************)
ClientExits == (caller \in Gone) ~> (proc = "exited")

(***************************************************************************)
(* proc.rs:99 of stop(): "Send stop to the client process (and kill it     *)
(* just to be sure)".  When stop() has returned, the client is gone or the *)
(* child has been killed.                                                  *)
(***************************************************************************)
StopKills ==
  caller \in {"stopped", "stopfailed"} => proc = "exited" \/ handle = "killed"
=============================================================================
