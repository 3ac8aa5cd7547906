-------------------------- MODULE ClientProcProofs --------------------------
(***************************************************************************)
(* The client handle keeps responses matched to calls, however long it is  *)
(* used.  The invariant that makes it so says where the one unanswered     *)
(* call, and the STOP that may follow it, can be.  Once it is given up,    *)
(* what is left of it winds down in a bounded number of steps.             *)
(***************************************************************************)
EXTENDS ClientProcRefinement, SequenceTheorems, TLAPS

----------------------------------------------------------------------------
\* The driver waits for a call, and the process for a command.
AtRest ==
  /\ driver = "recv" /\ stdin = <<>> /\ stdout = <<>>
  /\ proc \in {"reading", "exited"}

\* What becomes of the process once it has answered m.
After(m) == IF m = Stop THEN {"leaving", "exited"} ELSE {"reading", "exited"}

\* The driver has taken m and has not yet passed an answer on.
Carried(m) ==
  \/ /\ driver = "write" /\ cur = m /\ stdin = <<>> /\ stdout = <<>>
     /\ proc \in {"reading", "exited"}
  \/ /\ driver = "read" /\ stdin = <<m>> /\ stdout = <<>>
     /\ proc \in {"reading", "exited"}
  \/ /\ driver = "read" /\ stdin = <<>> /\ stdout = <<>>
     /\ \/ proc = "rpc" /\ cmd = m /\ m # Stop
        \/ proc = "exited"
  \/ /\ driver = "read" /\ stdin = <<>> /\ stdout = <<m>>
     /\ proc \in After(m)
  \/ /\ driver = "send" /\ cur = m /\ stdin = <<>> /\ stdout = <<>>
     /\ proc \in After(m)

\* m is unanswered, or its answer has not been received.  Before the driver
\* takes m the channel holds before, then after.
Outstanding(m, before, after) ==
  \/ calls = before /\ resps = <<>> /\ AtRest
  \/ calls = after /\ resps = <<>> /\ Carried(m)
  \/ /\ calls = after /\ resps = <<m>>
     /\ driver = "recv" /\ stdin = <<>> /\ stdout = <<>> /\ proc \in After(m)
  \/ resps = <<>> /\ driver = "ended"

\* The next response is the late one to the last call.
LateFirst == resps # <<>> /\ Head(resps) = sent

(***************************************************************************)
(* Where things are, by what the owner is doing.                           *)
(***************************************************************************)
OneOutstanding ==
  /\ caller = "idle" =>
       Len(got) = sent /\ calls = <<>> /\ resps = <<>> /\ AtRest
  /\ caller \in {"waiting", "failed"} =>
       /\ sent # Stop /\ Len(got) + 1 = sent
       /\ Outstanding(sent, <<sent>>, <<>>)
  /\ caller = "stopping" =>
       \/ Len(got) = sent /\ Outstanding(Stop, <<Stop>>, <<>>)
       \/ sent # Stop /\ (Outstanding(sent, <<sent, Stop>>, <<Stop>>) \/ LateFirst)
  /\ caller = "stopped" =>
       Len(got) = sent /\ proc \in {"leaving", "exited"}

Matched == \A i \in 1 .. Len(got) : got[i].resp = got[i].call

IInv == TypeOK /\ Matched /\ OneOutstanding

----------------------------------------------------------------------------
(***************************************************************************)
(* The properties follow from the invariant.                               *)
(***************************************************************************)
LEMMA IInvSafe == IInv => RespMatchesCall /\ Lockstep
BY DEF IInv, Matched, OneOutstanding, RespMatchesCall, Lockstep, AtRest

\* The invariant holds initially.
LEMMA InitIInv == ASSUME Init PROVE IInv
BY ClientProcAssumption
  DEF Init, IInv, TypeOK, Matched, OneOutstanding, AtRest, Messages, Stop, Gone

----------------------------------------------------------------------------
(***************************************************************************)
(* Types.                                                                  *)
(***************************************************************************)
LEMMA OwnerTypes == ASSUME TypeOK, Owner PROVE TypeOK'
<1> USE ClientProcAssumption DEF TypeOK, Messages, Gone, Stop
<1>1. ASSUME SendCall PROVE TypeOK'
  BY <1>1 DEF SendCall, thread, process
<1>2. ASSUME WaitResp PROVE TypeOK'
  BY <1>2 DEF WaitResp, thread, process
<1>3. ASSUME WaitError \/ DropHandle \/ StopSendError \/ StopError PROVE TypeOK'
  BY <1>3 DEF WaitError, DropHandle, StopSendError, StopError, thread, process
<1>4. ASSUME StopSend PROVE TypeOK'
  BY <1>4 DEF StopSend, thread, process
<1>5. ASSUME StopDone PROVE TypeOK'
  BY <1>5 DEF StopDone, thread
<1> QED BY <1>1, <1>2, <1>3, <1>4, <1>5 DEF Owner

\* The driver preserves the types.
LEMMA DriverTypes == ASSUME TypeOK, Driver PROVE TypeOK'
<1> USE ClientProcAssumption DEF TypeOK, Messages, Gone, Stop
<1>1. ASSUME DriverRecv PROVE TypeOK'
  BY <1>1 DEF DriverRecv, owner, process
<1>2. ASSUME DriverRecvError \/ DriverWriteError \/ DriverSendError PROVE TypeOK'
  BY <1>2 DEF DriverRecvError, DriverWriteError, DriverSendError, owner, process
<1>3. ASSUME DriverWrite PROVE TypeOK'
  BY <1>3 DEF DriverWrite, owner, process
<1>4. ASSUME DriverRead PROVE TypeOK'
  BY <1>4 DEF DriverRead, owner, process
<1>5. ASSUME DriverSend PROVE TypeOK'
  BY <1>5 DEF DriverSend, owner, process
<1>6. ASSUME DriverReadError PROVE TypeOK'
  BY <1>6 DEF DriverReadError, owner, process
<1> QED BY <1>1, <1>2, <1>3, <1>4, <1>5, <1>6 DEF Driver

\* The process preserves the types.
LEMMA ProcessTypes == ASSUME TypeOK, Process \/ Die PROVE TypeOK'
<1> USE ClientProcAssumption DEF TypeOK, Messages, Gone, Stop
<1>1. ASSUME ReadCommand PROVE TypeOK'
  BY <1>1 DEF ReadCommand, owner, thread
<1>2. ASSUME ReadStop PROVE TypeOK'
  BY <1>2 DEF ReadStop, owner, thread
<1>3. ASSUME Exit \/ RpcFailed \/ HandleExit \/ Die PROVE TypeOK'
  BY <1>3 DEF Exit, RpcFailed, HandleExit, Die, owner, thread
<1>4. ASSUME RpcAnswered PROVE TypeOK'
  BY <1>4 DEF RpcAnswered, owner, thread
<1> QED BY <1>1, <1>2, <1>3, <1>4 DEF Process

----------------------------------------------------------------------------
(***************************************************************************)
(* The process moves a message along, or loses it by dying.                *)
(***************************************************************************)
LEMMA ProcessAtRest ==
  ASSUME TypeOK, Process \/ Die, AtRest
  PROVE  AtRest'
BY DEF Process, Die, ReadCommand, ReadStop, Exit, RpcAnswered, RpcFailed, HandleExit,
       AtRest, TypeOK, thread

\* A process that has answered m and has no further input only exits.
LEMMA ProcessAfter ==
  ASSUME TypeOK, NEW m, Process \/ Die, driver # "ended", stdin = <<>>, proc \in After(m)
  PROVE  proc' \in After(m) /\ stdin' = <<>> /\ stdout' = stdout
BY DEF Process, Die, ReadCommand, ReadStop, Exit, RpcAnswered, RpcFailed, HandleExit,
       After, TypeOK

\* While the driver carries m the process moves m from its input to its output.
LEMMA ProcessCarries ==
  ASSUME TypeOK, NEW m \in Messages, Process \/ Die, Carried(m)
  PROVE  Carried(m)'
<1>1. UNCHANGED <<driver, cur>>
  BY DEF Process, Die, ReadCommand, ReadStop, Exit, RpcAnswered, RpcFailed, HandleExit, thread
<1>2. CASE driver \in {"write"}
  BY <1>1, <1>2 DEF Process, Die, ReadCommand, ReadStop, Exit, RpcAnswered, RpcFailed,
                    HandleExit, Carried, TypeOK
<1>3. CASE driver = "read" /\ stdin = <<m>> /\ stdout = <<>> /\ proc \in {"reading", "exited"}
  <2>1. ASSUME ReadCommand PROVE Carried(m)'
    BY <1>1, <1>3, <2>1 DEF ReadCommand, Carried
  <2>2. ASSUME ReadStop PROVE Carried(m)'
    BY <1>1, <1>3, <2>2 DEF ReadStop, Carried, After
  <2>3. ASSUME HandleExit PROVE Carried(m)'
    BY <1>1, <1>3, <2>3 DEF HandleExit, Carried
  <2>4. ASSUME Die PROVE Carried(m)'
    BY <1>1, <1>3, <2>4 DEF Die, Carried
  <2> QED BY <1>3, <2>1, <2>2, <2>3, <2>4 DEF Process, Exit, RpcAnswered, RpcFailed
<1>4. CASE driver = "read" /\ stdin = <<>> /\ stdout = <<>> /\ proc = "rpc" /\ cmd = m /\ m # Stop
  <2>1. ASSUME RpcAnswered PROVE Carried(m)'
    BY <1>1, <1>4, <2>1 DEF RpcAnswered, Carried, After
  <2>2. ASSUME RpcFailed \/ Die PROVE Carried(m)'
    BY <1>1, <1>4, <2>2 DEF RpcFailed, Die, Carried
  <2> QED BY <1>4, <2>1, <2>2 DEF Process, ReadCommand, ReadStop, Exit, HandleExit
<1>5. CASE driver = "read" /\ stdin = <<>> /\ stdout = <<>> /\ proc = "exited"
  BY <1>1, <1>5 DEF Process, Die, ReadCommand, ReadStop, Exit, RpcAnswered, RpcFailed,
                    HandleExit, Carried
<1>6. CASE driver \in {"read", "send"} /\ stdin = <<>> /\ proc \in After(m)
            /\ (driver = "read" => stdout = <<m>>)
            /\ (driver = "send" => cur = m /\ stdout = <<>>)
  BY <1>1, <1>6, ProcessAfter DEF Carried
<1> QED BY <1>2, <1>3, <1>4, <1>5, <1>6 DEF Carried

\* Hence no step of the process touches what is outstanding.
LEMMA ProcessOutstanding ==
  ASSUME TypeOK, NEW m \in Messages, NEW before, NEW after, Process \/ Die,
         Outstanding(m, before, after)
  PROVE  Outstanding(m, before, after)'
<1>1. UNCHANGED <<calls, resps, driver>>
  BY DEF Process, Die, ReadCommand, ReadStop, Exit, RpcAnswered, RpcFailed, HandleExit, thread
<1> QED BY <1>1, ProcessAtRest, ProcessCarries, ProcessAfter DEF Outstanding

\* The process preserves the invariant.
LEMMA ProcessIInv == ASSUME IInv, Process \/ Die PROVE IInv'
<1>1. TypeOK /\ TypeOK'
  BY ProcessTypes DEF IInv
<1>2. UNCHANGED <<caller, sent, got, calls, resps>>
  BY DEF Process, Die, ReadCommand, ReadStop, Exit, RpcAnswered, RpcFailed, HandleExit, owner
<1>3. proc \in {"leaving", "exited"} => proc' \in {"leaving", "exited"}
  BY DEF Process, Die, ReadCommand, ReadStop, Exit, RpcAnswered, RpcFailed, HandleExit
<1>4. Matched'
  BY <1>2 DEF IInv, Matched
<1>5. sent \in Messages /\ Stop \in Messages
  BY ClientProcAssumption, <1>1 DEF TypeOK, Messages, Stop
<1>6. OneOutstanding'
  BY <1>1, <1>2, <1>3, <1>5, ProcessAtRest, ProcessOutstanding
    DEF IInv, OneOutstanding, LateFirst
<1> QED BY <1>1, <1>4, <1>6 DEF IInv

----------------------------------------------------------------------------
(***************************************************************************)
(* The driver takes the message, carries it, and passes the answer on.     *)
(***************************************************************************)
\* The driver keeps m outstanding, unless its answer waits and it takes the next.
LEMMA DriverOutstanding ==
  ASSUME TypeOK, NEW m \in Messages, NEW before, NEW after,
         before # <<>>, Head(before) = m, Tail(before) = after,
         caller \notin Gone, Driver, Outstanding(m, before, after)
  PROVE  \/ Outstanding(m, before, after)'
         \/ resps = <<m>> /\ resps' = <<m>> /\ calls # <<>>
<1>1. CASE calls = before /\ resps = <<>> /\ AtRest
  BY <1>1 DEF Driver, DriverRecv, DriverRecvError, DriverWrite, DriverWriteError, DriverRead,
              DriverReadError, DriverSend, DriverSendError, AtRest, Outstanding, Carried, process
<1>2. CASE calls = after /\ resps = <<>> /\ Carried(m)
  <2>1. ASSUME DriverWrite PROVE Outstanding(m, before, after)'
    BY <1>2, <2>1 DEF DriverWrite, Outstanding, Carried, process
  <2>2. ASSUME DriverRead PROVE Outstanding(m, before, after)'
    <3>1. stdout = <<m>> /\ stdin = <<>> /\ proc \in After(m)
      BY <1>2, <2>2 DEF DriverRead, Carried
    <3>2. Head(<<m>>) = m /\ Tail(<<m>>) = <<>>
      OBVIOUS
    <3>3. Carried(m)'
      BY <2>2, <3>1, <3>2 DEF DriverRead, Carried, process, After
    <3> QED BY <1>2, <2>2, <3>3 DEF DriverRead, Outstanding
  <2>3. ASSUME DriverSend PROVE Outstanding(m, before, after)'
    BY <1>2, <2>3 DEF DriverSend, Outstanding, Carried, process, After
  <2>4. ASSUME DriverWriteError PROVE Outstanding(m, before, after)'
    BY <1>2, <2>4 DEF DriverWriteError, Outstanding
  <2>5. ASSUME DriverReadError PROVE Outstanding(m, before, after)'
    BY <1>2, <2>5 DEF DriverReadError, Outstanding
  <2> QED BY <1>2, <2>1, <2>2, <2>3, <2>4, <2>5
        DEF Driver, DriverRecv, DriverRecvError, DriverSendError, Carried
<1>3. CASE /\ calls = after /\ resps = <<m>>
           /\ driver = "recv" /\ stdin = <<>> /\ stdout = <<>> /\ proc \in After(m)
  BY <1>3 DEF Driver, DriverRecv, DriverRecvError, DriverWrite, DriverWriteError, DriverRead,
              DriverReadError, DriverSend, DriverSendError
<1>4. CASE resps = <<>> /\ driver = "ended"
  BY <1>4 DEF Driver, DriverRecv, DriverRecvError, DriverWrite, DriverWriteError, DriverRead,
              DriverReadError, DriverSend, DriverSendError
<1> QED BY <1>1, <1>2, <1>3, <1>4 DEF Outstanding

\* The driver preserves the invariant.
LEMMA DriverIInv == ASSUME IInv, Driver PROVE IInv'
<1>1. TypeOK /\ TypeOK'
  BY DriverTypes DEF IInv
<1>2. UNCHANGED <<caller, sent, got, proc>>
  BY DEF Driver, DriverRecv, DriverRecvError, DriverWrite, DriverWriteError, DriverRead,
         DriverReadError, DriverSend, DriverSendError, owner, process
<1>3. sent \in Messages /\ Stop \in Messages
  BY ClientProcAssumption, <1>1 DEF TypeOK, Messages, Stop
<1>4. Matched'
  BY <1>2 DEF IInv, Matched
<1>5. OneOutstanding'
  <2>1. CASE caller = "idle"
    BY <1>2, <2>1 DEF IInv, OneOutstanding, AtRest, Gone, Driver, DriverRecv, DriverRecvError,
      DriverWrite, DriverWriteError, DriverRead, DriverReadError, DriverSend,
      DriverSendError
  <2>2. CASE caller \in {"waiting", "failed"}
    <3>1. Outstanding(sent, <<sent>>, <<>>) /\ sent # Stop /\ Len(got) + 1 = sent
      BY <2>2 DEF IInv, OneOutstanding
    <3>2. resps = <<sent>> => calls = <<>>
      BY <3>1 DEF Outstanding
    <3>3. <<sent>> # <<>> /\ Head(<<sent>>) = sent /\ Tail(<<sent>>) = <<>>
      OBVIOUS
    <3>4. Outstanding(sent, <<sent>>, <<>>)'
      BY <1>1, <1>2, <1>3, <2>2, <3>1, <3>2, <3>3, DriverOutstanding DEF Gone
    <3> QED BY <1>2, <2>2, <3>1, <3>4 DEF OneOutstanding
  <2>3. CASE caller = "stopping" /\ Len(got) = sent /\ Outstanding(Stop, <<Stop>>, <<>>)
    <3>1. resps = <<Stop>> => calls = <<>>
      BY <2>3 DEF Outstanding
    <3>2. <<Stop>> # <<>> /\ Head(<<Stop>>) = Stop /\ Tail(<<Stop>>) = <<>>
      OBVIOUS
    <3>3. Outstanding(Stop, <<Stop>>, <<>>)'
      BY <1>1, <1>3, <2>3, <3>1, <3>2, DriverOutstanding DEF Gone
    <3> QED BY <1>2, <2>3, <3>3 DEF OneOutstanding
  <2>4. CASE caller = "stopping" /\ sent # Stop /\ Outstanding(sent, <<sent, Stop>>, <<Stop>>)
    <3>1. /\ <<sent, Stop>> # <<>> /\ Head(<<sent, Stop>>) = sent
          /\ Tail(<<sent, Stop>>) = <<Stop>>
      OBVIOUS
    <3>2. \/ Outstanding(sent, <<sent, Stop>>, <<Stop>>)'
          \/ resps' = <<sent>>
      BY <1>1, <1>2, <1>3, <2>4, <3>1, DriverOutstanding DEF Gone
    <3>3. resps' = <<sent>> => LateFirst'
      BY <1>2 DEF LateFirst
    <3> QED BY <1>2, <2>4, <3>2, <3>3 DEF OneOutstanding
  <2>5. CASE caller = "stopping" /\ sent # Stop /\ LateFirst
    <3>1. resps' = resps \/ resps' = Append(resps, cur)
      BY DEF Driver, DriverRecv, DriverRecvError, DriverWrite, DriverWriteError, DriverRead,
             DriverReadError, DriverSend, DriverSendError
    <3>2. ASSUME resps' = Append(resps, cur) PROVE resps' # <<>> /\ Head(resps') = Head(resps)
      <4>1. resps \in Seq(Messages) /\ cur \in Messages
        BY DEF IInv, TypeOK
      <4>2. resps # <<>>
        BY <2>5 DEF LateFirst
      <4>3. Append(resps, cur) # <<>> /\ Head(Append(resps, cur)) = Head(resps)
        BY <4>1, <4>2, HeadTailAppend, AppendProperties
      <4> QED BY <3>2, <4>3
    <3>3. LateFirst'
      BY <1>2, <2>5, <3>1, <3>2 DEF LateFirst
    <3> QED BY <1>2, <2>5, <3>3 DEF OneOutstanding
  <2>6. CASE caller \in Gone
    BY <1>2, <2>6 DEF IInv, OneOutstanding, Gone
  <2> QED BY <1>1, <2>1, <2>2, <2>3, <2>4, <2>5, <2>6 DEF IInv, OneOutstanding, TypeOK
<1> QED BY <1>1, <1>4, <1>5 DEF IInv

----------------------------------------------------------------------------
(***************************************************************************)
(* The owner.                                                              *)
(***************************************************************************)
\* The response received is the one to the last call, and all is at rest then.
LEMMA WaitRespIInv == ASSUME IInv, WaitResp PROVE IInv'
<1>1. TypeOK /\ TypeOK'
  BY OwnerTypes DEF IInv, Owner
<1>2. /\ caller' = "idle" /\ got' = Append(got, [call |-> sent, resp |-> Head(resps)])
      /\ resps' = Tail(resps) /\ UNCHANGED <<sent, calls, driver, stdin, stdout, proc>>
  BY DEF WaitResp, thread, process
<1>3. /\ calls = <<>> /\ resps = <<sent>> /\ driver = "recv" /\ stdin = <<>> /\ stdout = <<>>
      /\ proc \in After(sent) /\ sent # Stop /\ Len(got) + 1 = sent
  BY DEF IInv, OneOutstanding, Outstanding, WaitResp
<1>4. resps' = <<>> /\ Head(resps) = sent
  BY <1>2, <1>3
<1>5. OneOutstanding'
  BY <1>1, <1>2, <1>3, <1>4 DEF OneOutstanding, AtRest, After, TypeOK
<1>6. Matched'
  <2>1. /\ Len(got') = Len(got) + 1 /\ Len(got) \in Nat
        /\ got'[Len(got) + 1] = [call |-> sent, resp |-> sent]
        /\ \A i \in 1 .. Len(got) : got'[i] = got[i]
    BY <1>1, <1>2, <1>4 DEF TypeOK
  <2> QED BY <2>1 DEF IInv, Matched
<1> QED BY <1>1, <1>5, <1>6 DEF IInv

\* STOP is queued behind at most one call.
LEMMA AppendTo ==
  ASSUME NEW S, NEW x \in S, NEW y \in S
  PROVE  Append(<<x>>, y) = <<x, y>> /\ Append(<<>>, y) = <<y>>
<1>1. Append(<<>>, y) = <<y>>
  BY SMT
<1>2. Append(<<x>>, y) = <<x, y>>
  <2>1. /\ Append(<<x>>, y) \in Seq(S) /\ Len(Append(<<x>>, y)) = 2
        /\ Append(<<x>>, y)[1] = x /\ Append(<<x>>, y)[2] = y
    BY <<x>> \in Seq(S), Len(<<x>>) = 1, AppendProperties
  <2>2. <<x, y>> \in Seq(S) /\ Len(<<x, y>>) = 2 /\ <<x, y>>[1] = x /\ <<x, y>>[2] = y
    OBVIOUS
  <2>3. \A i \in 1 .. Len(<<x, y>>) : Append(<<x>>, y)[i] = <<x, y>>[i]
    <3>1. \A i \in 1 .. 2 : i = 1 \/ i = 2
      OBVIOUS
    <3> QED BY <2>1, <2>2, <3>1
  <2> QED BY <2>1, <2>2, <2>3, SeqEqual, Zenon
<1> QED BY <1>1, <1>2

\* STOP follows the last call if that is unanswered.
LEMMA StopSendIInv == ASSUME IInv, StopSend PROVE IInv'
<1>1. TypeOK /\ TypeOK'
  BY OwnerTypes DEF IInv, Owner
<1>2. /\ caller' = "stopping" /\ calls' = Append(calls, Stop)
      /\ UNCHANGED <<sent, got, resps, driver, cur, stdin, stdout, proc, cmd>>
  BY DEF StopSend, thread, process
<1>3. Matched'
  BY <1>2 DEF IInv, Matched
<1>4. CASE caller = "idle"
  <2>1. Len(got) = sent /\ calls' = <<Stop>> /\ resps = <<>> /\ AtRest
    BY <1>2, <1>4 DEF IInv, OneOutstanding
  <2>2. Outstanding(Stop, <<Stop>>, <<>>)'
    BY <1>2, <2>1 DEF Outstanding, AtRest
  <2> QED BY <1>1, <1>2, <1>3, <2>1, <2>2 DEF IInv, OneOutstanding
<1>5. CASE caller = "failed"
  <2>1. sent # Stop /\ Outstanding(sent, <<sent>>, <<>>)
    BY <1>5 DEF IInv, OneOutstanding
  <2>2. Append(<<sent>>, Stop) = <<sent, Stop>> /\ Append(<<>>, Stop) = <<Stop>>
    <3>1. sent \in Messages /\ Stop \in Messages
      BY ClientProcAssumption, <1>1 DEF TypeOK, Messages, Stop
    <3> QED BY <3>1, AppendTo
  <2>3. driver # "ended"
    BY DEF StopSend
  <2>4. Outstanding(sent, <<sent, Stop>>, <<Stop>>)'
    BY <1>2, <2>1, <2>2, <2>3 DEF Outstanding, AtRest, Carried
  <2> QED BY <1>1, <1>2, <1>3, <2>1, <2>4 DEF IInv, OneOutstanding
<1> QED BY <1>4, <1>5 DEF StopSend

\* STOP is answered only if every call has been.
LEMMA StopDoneIInv == ASSUME IInv, StopDone PROVE IInv'
<1>1. TypeOK /\ TypeOK'
  BY OwnerTypes DEF IInv, Owner
<1>2. caller = "stopping" /\ resps # <<>> /\ UNCHANGED <<sent, got, proc>>
  BY DEF StopDone
<1>3. Matched'
  BY <1>2 DEF IInv, Matched
<1>4. CASE Head(resps) = Stop
  <2>1. caller' = "stopped"
    BY <1>4 DEF StopDone
  <2>2. Len(got) = sent /\ Outstanding(Stop, <<Stop>>, <<>>)
    BY <1>2, <1>4 DEF IInv, OneOutstanding, Outstanding, LateFirst
  <2>3. proc \in {"leaving", "exited"}
    BY <1>2, <2>2 DEF Outstanding, After
  <2> QED BY <1>1, <1>2, <1>3, <2>1, <2>2, <2>3 DEF IInv, OneOutstanding
<1>5. CASE Head(resps) # Stop
  <2>1. caller' = "stopfailed"
    BY <1>5 DEF StopDone
  <2> QED BY <1>1, <1>3, <2>1 DEF IInv, OneOutstanding
<1> QED BY <1>4, <1>5

\* The owner preserves the invariant.
LEMMA OwnerIInv == ASSUME IInv, Owner PROVE IInv'
<1>1. TypeOK /\ TypeOK'
  BY OwnerTypes DEF IInv
<1>2. ASSUME SendCall PROVE IInv'
  <2>1. /\ caller' = "waiting" /\ sent' = sent + 1 /\ calls' = <<sent + 1>> /\ Len(got) = sent
        /\ resps' = <<>> /\ got' = got /\ AtRest'
    BY <1>2 DEF SendCall, IInv, OneOutstanding, AtRest, thread, process
  <2>2. sent' # Stop /\ Len(got') + 1 = sent'
    BY <1>1, <2>1 DEF TypeOK, Stop
  <2>3. Outstanding(sent, <<sent>>, <<>>)'
    BY <2>1 DEF Outstanding
  <2>4. Matched'
    BY <2>1 DEF IInv, Matched
  <2> QED BY <1>1, <2>1, <2>2, <2>3, <2>4 DEF IInv, OneOutstanding
<1>3. ASSUME WaitError PROVE IInv'
  <2>1. /\ caller = "waiting" /\ caller' = "failed"
        /\ UNCHANGED <<sent, got, calls, resps, driver, cur, stdin, stdout, proc, cmd>>
    BY <1>3 DEF WaitError, thread, process
  <2> QED BY <1>1, <2>1 DEF IInv, Matched, OneOutstanding, Outstanding, AtRest, Carried
<1>4. ASSUME DropHandle \/ StopSendError \/ StopError PROVE IInv'
  <2>1. caller' \in {"dropped", "stopfailed"} /\ UNCHANGED got
    BY <1>4 DEF DropHandle, StopSendError, StopError
  <2> QED BY <1>1, <2>1 DEF IInv, Matched, OneOutstanding
<1> QED BY <1>2, <1>3, <1>4, WaitRespIInv, StopSendIInv, StopDoneIInv DEF Owner

----------------------------------------------------------------------------
\* A stuttering step changes nothing.
LEMMA StutterIInv == ASSUME IInv, UNCHANGED vars PROVE IInv'
BY DEF vars, IInv, TypeOK, Matched, OneOutstanding, Outstanding, LateFirst, AtRest, Carried

(***************************************************************************)
(* However many calls are made through a handle, whenever its waits time   *)
(* out, the process dies or stop() is called: a response is never taken    *)
(* for the answer to another call (proc.rs), and the owner makes a call    *)
(* only when driver and process have nothing left to do.                   *)
(***************************************************************************)
THEOREM ResponsesMatch == Spec => [](RespMatchesCall /\ Lockstep)
<1>1. Init => IInv
  BY InitIInv
<1>2. IInv /\ [Next]_vars => IInv'
  BY OwnerIInv, DriverIInv, ProcessIInv, StutterIInv DEF Next
<1>3. IInv => RespMatchesCall /\ Lockstep
  BY IInvSafe
<1> QED BY <1>1, <1>2, <1>3, PTL DEF Spec

----------------------------------------------------------------------------
(***************************************************************************)
(* The end of the handle.  Unlike OneOutstanding, PipesInv speaks also of  *)
(* handles that are given up with calls and responses on their way: at     *)
(* most one message is on the pipes or with the client, and only while the *)
(* driver waits to read.                                                   *)
(***************************************************************************)
PipesInv ==
  /\ driver # "read" => stdin = <<>> /\ stdout = <<>> /\ proc # "rpc"
  /\ driver = "read" =>
       \/ Len(stdin) = 1 /\ stdout = <<>> /\ proc # "rpc"
       \/ stdin = <<>> /\ Len(stdout) = 1 /\ proc # "rpc"
       \/ stdin = <<>> /\ stdout = <<>> /\ proc \in {"rpc", "exited"}

\* Every step keeps the pipes in order.
LEMMA NextPipes == ASSUME TypeOK, PipesInv, [Next]_vars PROVE PipesInv'
<1> USE DEF PipesInv, TypeOK
<1>1. CASE Owner \/ HandleExit \/ UNCHANGED vars
  BY <1>1 DEF Owner, SendCall, WaitResp, WaitError, DropHandle, StopSend, StopSendError,
              StopDone, StopError, HandleExit, thread, process, vars
<1>2. CASE DriverRecv \/ DriverRecvError \/ DriverWriteError \/ DriverSend \/ DriverSendError
  BY <1>2 DEF DriverRecv, DriverRecvError, DriverWriteError, DriverSend, DriverSendError,
              process
<1>3. CASE DriverWrite
  BY <1>3 DEF DriverWrite, process
<1>4. CASE DriverRead \/ DriverReadError
  <2>1. Len(stdout) = 1 /\ stdin = <<>> /\ proc # "rpc"
    BY <1>4 DEF DriverRead, DriverReadError
  <2>2. stdout' = <<>>
    BY <1>4, <2>1 DEF DriverRead, DriverReadError
  <2> QED
    BY <1>4, <2>1, <2>2 DEF DriverRead, DriverReadError, process
<1>5. CASE ReadCommand
  BY <1>5 DEF ReadCommand, thread
<1>6. CASE ReadStop
  BY <1>6 DEF ReadStop, thread
<1>7. CASE Exit \/ RpcFailed \/ Die
  BY <1>7 DEF Exit, RpcFailed, Die, thread
<1>8. CASE RpcAnswered
  BY <1>8 DEF RpcAnswered, thread
<1> QED
  BY <1>1, <1>2, <1>3, <1>4, <1>5, <1>6, <1>7, <1>8 DEF Next, Driver, Process

\* What a party at each place has still to do.
LEMMA Weights ==
  /\ DriverSteps["recv"] = 8 /\ DriverSteps["write"] = 7 /\ DriverSteps["read"] = 2
  /\ DriverSteps["send"] = 1 /\ DriverSteps["ended"] = 0
  /\ ProcessSteps["rpc"] = 2 /\ ProcessSteps["leaving"] = 2
  /\ ProcessSteps["reading"] = 1 /\ ProcessSteps["exited"] = 0
  /\ HandleSteps["running"] = 1 /\ HandleSteps["exited"] = 0 /\ HandleSteps["killed"] = 0
BY DEF DriverSteps, ProcessSteps, HandleSteps

\* What is left to do in a state, party by party.
LEMMA WeightRanges ==
  ASSUME TypeOK
  PROVE  /\ DriverSteps[driver] \in 0 .. 8
         /\ Len(stdin) \in Nat
         /\ ProcessSteps[proc] \in 0 .. 2
         /\ HandleSteps[handle] \in 0 .. 1
<1>1. driver \in {"recv", "write", "read", "send", "ended"}
  BY DEF TypeOK
<1>2. DriverSteps[driver] \in 0 .. 8
  BY <1>1, Weights
<1>3. proc \in {"reading", "rpc", "leaving", "exited"}
  BY DEF TypeOK
<1>4. ProcessSteps[proc] \in 0 .. 2
  BY <1>3, Weights
<1>5. handle \in {"running", "exited", "killed"}
  BY DEF TypeOK
<1>6. HandleSteps[handle] \in 0 .. 1
  BY <1>5, Weights
<1>7. Len(stdin) \in Nat
  BY DEF TypeOK
<1> QED
  BY <1>2, <1>4, <1>6, <1>7

\* The measure of a handle is a natural, at most 11 in what PipesInv allows.
LEMMA StepsToEndBound ==
  ASSUME TypeOK, PipesInv PROVE StepsToEnd \in 0 .. 11
<1> DEFINE d == DriverSteps[driver]
<1> DEFINE n == Len(stdin)
<1> DEFINE p == ProcessSteps[proc]
<1> DEFINE h == HandleSteps[handle]
<1>1. StepsToEnd = d + 3 * n + p + h
  BY DEF StepsToEnd
<1>2. d \in 0 .. 8 /\ n \in Nat /\ p \in 0 .. 2 /\ h \in 0 .. 1
  BY WeightRanges
<1>3. n = 0 \/ (n = 1 /\ d = 2)
  BY Weights DEF PipesInv
<1> HIDE DEF d, n, p, h
<1> QED
  BY <1>1, <1>2, <1>3

(***************************************************************************)
(* The step of one party makes the sum smaller, although the client gets   *)
(* something to do from a driver that writes, or has more to do with a     *)
(* command than without.                                                   *)
(***************************************************************************)
LEMMA SumSmaller ==
  ASSUME TypeOK, TypeOK',
         \/ /\ DriverSteps[driver'] < DriverSteps[driver]
            /\ UNCHANGED <<stdin, proc, handle>>
         \/ /\ DriverSteps[driver'] + 5 = DriverSteps[driver]
            /\ Len(stdin') = Len(stdin) + 1
            /\ UNCHANGED <<proc, handle>>
         \/ /\ Len(stdin') + 1 = Len(stdin)
            /\ ProcessSteps[proc'] = ProcessSteps[proc] + 1
            /\ UNCHANGED <<driver, handle>>
         \/ /\ ProcessSteps[proc'] < ProcessSteps[proc]
            /\ UNCHANGED <<driver, stdin, handle>>
         \/ /\ HandleSteps[handle'] < HandleSteps[handle]
            /\ UNCHANGED <<driver, stdin, proc>>
  PROVE  StepsToEnd' < StepsToEnd
<1> DEFINE d == DriverSteps[driver]
<1> DEFINE n == Len(stdin)
<1> DEFINE p == ProcessSteps[proc]
<1> DEFINE h == HandleSteps[handle]
<1> DEFINE dd == DriverSteps[driver']
<1> DEFINE nn == Len(stdin')
<1> DEFINE pp == ProcessSteps[proc']
<1> DEFINE hh == HandleSteps[handle']
<1>1. StepsToEnd = d + 3 * n + p + h
  BY DEF StepsToEnd
<1>2. StepsToEnd' = dd + 3 * nn + pp + hh
  BY DEF StepsToEnd, DriverSteps, ProcessSteps, HandleSteps
<1>3. d \in Nat /\ n \in Nat /\ p \in Nat /\ h \in Nat
  <2>1. d \in 0 .. 8 /\ n \in Nat /\ p \in 0 .. 2 /\ h \in 0 .. 1
    BY WeightRanges
  <2> HIDE DEF d, n, p, h
  <2> QED
    BY <2>1
<1>4. dd \in Nat /\ nn \in Nat /\ pp \in Nat /\ hh \in Nat
  <2>1. driver' \in {"recv", "write", "read", "send", "ended"} /\ dd \in 0 .. 8
    <3>1. driver' \in {"recv", "write", "read", "send", "ended"}
      BY DEF TypeOK
    <3> QED
      BY <3>1, Weights
  <2>2. pp \in 0 .. 2
    <3>1. proc' \in {"reading", "rpc", "leaving", "exited"}
      BY DEF TypeOK
    <3> QED
      BY <3>1, Weights
  <2>3. hh \in 0 .. 1
    <3>1. handle' \in {"running", "exited", "killed"}
      BY DEF TypeOK
    <3> QED
      BY <3>1, Weights
  <2>4. nn \in Nat
    BY DEF TypeOK
  <2> HIDE DEF dd, nn, pp, hh
  <2> QED
    BY <2>1, <2>2, <2>3, <2>4
<1>5. \/ dd < d /\ nn = n /\ pp = p /\ hh = h
      \/ dd + 5 = d /\ nn = n + 1 /\ pp = p /\ hh = h
      \/ dd = d /\ nn + 1 = n /\ pp = p + 1 /\ hh = h
      \/ dd = d /\ nn = n /\ pp < p /\ hh = h
      \/ dd = d /\ nn = n /\ pp = p /\ hh < h
  OBVIOUS
<1> HIDE DEF d, n, p, h, dd, nn, pp, hh
<1> QED
  BY <1>1, <1>2, <1>3, <1>4, <1>5

\* The driver comes nearer to its end, what it writes to the client included.
LEMMA DriverNearer ==
  ASSUME TypeOK, TypeOK', caller \in Gone, Driver
  PROVE  StepsToEnd' < StepsToEnd
<1>1. CASE DriverWrite
  <2>1. /\ driver = "write" /\ driver' = "read" /\ Len(stdin') = Len(stdin) + 1
        /\ UNCHANGED <<proc, handle>>
    BY <1>1 DEF DriverWrite, TypeOK, process
  <2>2. DriverSteps[driver'] + 5 = DriverSteps[driver]
    BY <2>1, Weights
  <2> QED
    BY <2>1, <2>2, SumSmaller
<1>2. CASE ~DriverWrite
  <2>1. /\ UNCHANGED <<stdin, proc, handle>>
        /\ \/ driver = "recv" /\ driver' \in {"write", "ended"}
           \/ driver = "write" /\ driver' = "ended"
           \/ driver = "read" /\ driver' \in {"send", "ended"}
           \/ driver = "send" /\ driver' = "ended"
    BY <1>2 DEF Driver, DriverRecv, DriverRecvError, DriverWriteError, DriverRead,
                DriverReadError, DriverSend, DriverSendError, process
  <2>2. DriverSteps[driver'] < DriverSteps[driver]
    BY <2>1, Weights
  <2> QED
    BY <2>1, <2>2, SumSmaller
<1> QED
  BY <1>1, <1>2

\* So do the client and `just`.
LEMMA ProcessNearer ==
  ASSUME TypeOK, TypeOK', Process \/ Die
  PROVE  StepsToEnd' < StepsToEnd
<1>1. CASE ReadCommand \/ ReadStop
  <2>1. /\ Len(stdin') + 1 = Len(stdin) /\ UNCHANGED <<driver, handle>>
        /\ proc = "reading" /\ proc' \in {"rpc", "leaving"}
    BY <1>1 DEF ReadCommand, ReadStop, TypeOK, thread
  <2>2. ProcessSteps[proc'] = ProcessSteps[proc] + 1
    BY <2>1, Weights
  <2> QED
    BY <2>1, <2>2, SumSmaller
<1>2. CASE HandleExit
  <2>1. UNCHANGED <<driver, stdin, proc>> /\ handle = "running" /\ handle' = "exited"
    BY <1>2 DEF HandleExit, thread
  <2>2. HandleSteps[handle'] < HandleSteps[handle]
    BY <2>1, Weights
  <2> QED
    BY <2>1, <2>2, SumSmaller
<1>3. CASE Exit \/ RpcAnswered \/ RpcFailed \/ Die
  <2>1. /\ UNCHANGED <<driver, stdin, handle>>
        /\ \/ proc \in {"reading", "rpc", "leaving"} /\ proc' = "exited"
           \/ proc = "rpc" /\ proc' = "reading"
    BY <1>3 DEF Exit, RpcAnswered, RpcFailed, Die, thread, TypeOK
  <2>2. ProcessSteps[proc'] < ProcessSteps[proc]
    BY <2>1, Weights
  <2> QED
    BY <2>1, <2>2, SumSmaller
<1> QED
  BY <1>1, <1>2, <1>3 DEF Process

(***************************************************************************)
(* A handle that is given up comes to its end: the driver and the client   *)
(* never wait for each other, and each step of the driver, the client and  *)
(* `just` is one of the at most 11 that are left, whatever calls and       *)
(* responses are on their way (proc.rs and client.cc).                     *)
(***************************************************************************)
THEOREM HandleComesToItsEnd ==
  Spec => []NoMutualWait /\ GivenUpWindsDown /\ [](StepsToEnd \in 0 .. 11)
<1>1. Init => IInv /\ PipesInv
  BY InitIInv DEF Init, PipesInv
<1>2. IInv /\ [Next]_vars => IInv'
  BY OwnerIInv, DriverIInv, ProcessIInv, StutterIInv DEF Next
<1>3. IInv /\ PipesInv /\ [Next]_vars => PipesInv'
  BY NextPipes DEF IInv
<1>4. IInv /\ PipesInv => NoMutualWait /\ StepsToEnd \in 0 .. 11
  <2>1. ASSUME IInv, PipesInv PROVE NoMutualWait
    BY <2>1 DEF PipesInv, NoMutualWait
  <2> QED
    BY <2>1, StepsToEndBound DEF IInv
<1>5. IInv /\ IInv' /\ [Next]_vars => [(caller \in Gone) => StepsToEnd' < StepsToEnd]_vars
  <2>1. caller \in Gone => ~Owner
    BY DEF Gone, Owner, SendCall, WaitResp, WaitError, DropHandle, StopSend, StopSendError,
           StopDone, StopError
  <2> QED
    BY <2>1, DriverNearer, ProcessNearer DEF Next, IInv
<1> QED
  BY <1>1, <1>2, <1>3, <1>4, <1>5, PTL DEF Spec, GivenUpWindsDown

----------------------------------------------------------------------------
(***************************************************************************)
(* The handle implements CallHandle.  OnceInv says where the last call is  *)
(* not: it is at one place at most, also in a handle that has been given   *)
(* up.                                                                     *)
(***************************************************************************)
Only(s, m) == \A i \in DOMAIN s : s[i] = m => i = 1

\* The driver, the client or a pipe between them has the last call.
InHand ==
  \/ driver = "write" /\ cur = sent
  \/ First(stdin)
  \/ Issued
  \/ First(stdout)
  \/ driver = "send" /\ cur = sent

OnceInv ==
  sent # Stop =>
    /\ Only(calls, sent) /\ Only(resps, sent)
    /\ First(calls) => driver \in {"recv", "ended"} /\ resps = <<>>
    /\ InHand => resps = <<>>

\* What is taken from a channel is not there any more.
LEMMA OnlyTail ==
  ASSUME NEW S, NEW s \in Seq(S), s # <<>>, NEW m, Only(s, m)
  PROVE  /\ Only(Tail(s), m)
         /\ Tail(s) # <<>> => Head(Tail(s)) # m
<1>1. \A i \in DOMAIN Tail(s) : i + 1 \in DOMAIN s /\ Tail(s)[i] = s[i + 1] /\ i \in Nat /\ i >= 1
  OBVIOUS
<1>2. \A i \in DOMAIN Tail(s) : Tail(s)[i] # m
  BY <1>1 DEF Only
<1>3. Tail(s) # <<>> => 1 \in DOMAIN Tail(s) /\ Head(Tail(s)) = Tail(s)[1]
  OBVIOUS
<1> QED
  BY <1>2, <1>3 DEF Only

\* What is put into a channel is its last message.
LEMMA OnlyAppend ==
  ASSUME NEW S, NEW s \in Seq(S), NEW x \in S, NEW m, Only(s, m), x # m \/ s = <<>>
  PROVE  /\ Only(Append(s, x), m)
         /\ Append(s, x) # <<>>
         /\ Head(Append(s, x)) = IF s = <<>> THEN x ELSE Head(s)
<1>1. /\ Len(Append(s, x)) = Len(s) + 1 /\ Len(s) \in Nat
      /\ DOMAIN Append(s, x) = 1 .. Len(s) + 1 /\ DOMAIN s = 1 .. Len(s)
      /\ Append(s, x)[Len(s) + 1] = x
      /\ \A i \in 1 .. Len(s) : Append(s, x)[i] = s[i]
  OBVIOUS
<1>2. s = <<>> => Len(s) = 0
  OBVIOUS
<1>3. Only(Append(s, x), m)
  BY <1>1, <1>2 DEF Only
<1>4. Head(Append(s, x)) = IF s = <<>> THEN x ELSE Head(s)
  BY HeadTailAppend
<1>5. Append(s, x) # <<>>
  BY AppendProperties
<1> QED
  BY <1>3, <1>4, <1>5

\* A pipe with one message.
LEMMA OneMessage ==
  ASSUME NEW S, NEW s \in Seq(S), Len(s) = 1
  PROVE  s # <<>> /\ Tail(s) = <<>>
<1>1. s # <<>>
  BY EmptySeq
<1>2. Tail(s) \in Seq(S) /\ Len(Tail(s)) = 0
  BY <1>1, HeadTailProperties
<1> QED
  BY <1>1, <1>2, EmptySeq

\* Where the last call is, and where it is not.
LEMMA OnePlace ==
  ASSUME TypeOK, PipesInv, OnceInv, sent # Stop
  PROVE  /\ opBar = "made" <=> OnItsWay
         /\ opBar = "issued" <=> Issued
         /\ opBar = "answered" <=> OnItsWayBack
         /\ opBar \in {"none", "made", "issued", "answered"}
BY DEF TypeOK, PipesInv, OnceInv, InHand, First, Issued, OnItsWay, OnItsWayBack, opBar

\* The owner.
LEMMA OwnerOnce ==
  ASSUME IInv, PipesInv, OnceInv, Owner PROVE OnceInv'
<1>1. TypeOK
  BY DEF IInv
<1>2. Stop \in Messages /\ sent \in Messages
  BY <1>1, ClientProcAssumption DEF TypeOK, Messages, Stop
<1>3. ASSUME SendCall PROVE OnceInv'
  <2>1. /\ calls = <<>> /\ resps' = <<>> /\ stdin' = <<>> /\ stdout' = <<>>
        /\ driver' = "recv" /\ proc' \in {"reading", "exited"}
        /\ calls' = Append(calls, sent + 1) /\ sent' = sent + 1
    BY <1>3, IInvSafe DEF SendCall, Lockstep, thread, process
  <2>2. calls' = <<sent'>>
    BY <2>1
  <2>3. Only(calls', sent') /\ Only(resps', sent')
    BY <2>1, <2>2 DEF Only
  <2>4. ~InHand'
    BY <2>1 DEF InHand, First, Issued
  <2> QED
    BY <2>1, <2>3, <2>4 DEF OnceInv
<1>4. ASSUME WaitResp \/ StopDone PROVE OnceInv'
  <2>1. resps # <<>> /\ resps' = Tail(resps) /\ resps \in Seq(Messages)
        /\ UNCHANGED <<sent, calls, driver, cur, stdin, stdout, proc, cmd>>
    BY <1>1, <1>4 DEF WaitResp, StopDone, thread, process, TypeOK
  <2> SUFFICES ASSUME sent # Stop
               PROVE  /\ Only(calls, sent) /\ Only(resps', sent)
                      /\ ~First(calls) /\ ~InHand
    BY <2>1 DEF OnceInv, InHand, First, Issued
  <2>2. Only(resps', sent)
    BY <2>1, OnlyTail DEF OnceInv
  <2> QED
    BY <2>1, <2>2 DEF OnceInv
<1>5. ASSUME StopSend PROVE OnceInv'
  <2>1. calls' = Append(calls, Stop) /\ calls \in Seq(Messages)
        /\ UNCHANGED <<sent, resps, driver, cur, stdin, stdout, proc, cmd>>
    BY <1>1, <1>5 DEF StopSend, thread, process, TypeOK
  <2> SUFFICES ASSUME sent # Stop
               PROVE  Only(calls', sent) /\ (First(calls)' => First(calls))
    BY <2>1 DEF OnceInv, InHand, First, Issued
  <2>2. Only(calls, sent)
    BY DEF OnceInv
  <2> QED
    BY <1>2, <2>1, <2>2, OnlyAppend DEF First
<1>6. ASSUME WaitError \/ DropHandle \/ StopSendError \/ StopError PROVE OnceInv'
  BY <1>6 DEF WaitError, DropHandle, StopSendError, StopError, thread, process,
              OnceInv, InHand, First, Issued
<1> QED
  BY <1>3, <1>4, <1>5, <1>6 DEF Owner

\* The driver.
LEMMA DriverOnce ==
  ASSUME IInv, PipesInv, OnceInv, Driver PROVE OnceInv'
<1>1. TypeOK
  BY DEF IInv
<1>2. UNCHANGED <<sent, proc, cmd>>
  BY DEF Driver, DriverRecv, DriverRecvError, DriverWrite, DriverWriteError, DriverRead,
         DriverReadError, DriverSend, DriverSendError, owner, process
<1> SUFFICES ASSUME sent # Stop
             PROVE  /\ Only(calls', sent) /\ Only(resps', sent)
                    /\ First(calls)' => driver' \in {"recv", "ended"} /\ resps' = <<>>
                    /\ InHand' => resps' = <<>>
  BY <1>2 DEF OnceInv
<1>3. CASE DriverRecv
  <2>1. calls # <<>> /\ calls \in Seq(Messages) /\ cur' = Head(calls) /\ calls' = Tail(calls)
        /\ driver = "recv" /\ driver' = "write" /\ UNCHANGED <<resps, stdin, stdout>>
    BY <1>1, <1>3 DEF DriverRecv, TypeOK
  <2>2. Only(calls', sent) /\ ~First(calls)'
    BY <1>2, <2>1, OnlyTail DEF OnceInv, First
  <2>3. InHand' => First(calls)
    BY <1>2, <2>1 DEF InHand, First, Issued, PipesInv
  <2> QED
    BY <2>1, <2>2, <2>3 DEF OnceInv
<1>4. CASE DriverWrite
  <2>1. /\ UNCHANGED <<calls, resps, stdout>> /\ driver = "write" /\ stdin' = <<cur>>
        /\ driver' = "read"
    BY <1>4 DEF DriverWrite, PipesInv
  <2> QED
    BY <1>2, <2>1 DEF OnceInv, InHand, First, Issued
<1>5. CASE DriverRead \/ DriverReadError
  <2>1. /\ UNCHANGED <<calls, resps, stdin>> /\ driver = "read" /\ stdout # <<>>
        /\ stdin = <<>> /\ proc # "rpc" /\ stdout' = <<>>
        /\ \/ driver' = "send" /\ cur' = Head(stdout)
           \/ driver' = "ended" /\ cur' = cur
    <3>1. Len(stdout) = 1 /\ stdin = <<>> /\ proc # "rpc"
      BY <1>5 DEF DriverRead, DriverReadError, PipesInv
    <3>2. stdout \in Seq(Messages)
      BY <1>1 DEF TypeOK
    <3>3. Tail(stdout) = <<>>
      BY <3>1, <3>2, OneMessage
    <3> QED
      BY <1>5, <3>1, <3>3 DEF DriverRead, DriverReadError
  <2> QED
    BY <1>2, <2>1 DEF OnceInv, InHand, First, Issued
<1>6. CASE DriverSend
  <2>1. /\ UNCHANGED <<calls, stdin, stdout>> /\ driver = "send" /\ driver' = "recv"
        /\ stdin = <<>> /\ stdout = <<>> /\ proc # "rpc"
        /\ resps' = Append(resps, cur) /\ resps \in Seq(Messages) /\ cur \in Messages
    BY <1>1, <1>6 DEF DriverSend, PipesInv, TypeOK
  <2>2. Only(resps', sent)
    <3>1. cur = sent => resps = <<>>
      BY <2>1 DEF OnceInv, InHand
    <3> QED
      BY <2>1, <3>1, OnlyAppend DEF OnceInv
  <2>3. ~First(calls)' /\ ~InHand'
    BY <1>2, <2>1 DEF OnceInv, InHand, First, Issued
  <2> QED
    BY <2>1, <2>2, <2>3 DEF OnceInv
<1>7. CASE DriverRecvError \/ DriverWriteError \/ DriverSendError
  BY <1>2, <1>7 DEF DriverRecvError, DriverWriteError, DriverSendError, PipesInv, OnceInv,
                    InHand, First, Issued
<1> QED
  BY <1>3, <1>4, <1>5, <1>6, <1>7 DEF Driver

\* The client process, and a step that changes nothing.
LEMMA ProcessOnce ==
  ASSUME IInv, PipesInv, OnceInv, Process \/ Die \/ UNCHANGED vars PROVE OnceInv'
<1>1. UNCHANGED <<sent, calls, resps, driver, cur>>
  BY DEF Process, Die, ReadCommand, ReadStop, Exit, RpcAnswered, RpcFailed, HandleExit, owner,
         thread, vars
<1>2. sent # Stop /\ InHand' => InHand
  <2>1. stdin \in Seq(Messages) /\ cmd \in Messages /\ Append(<<>>, cmd) = <<cmd>>
        /\ Append(<<>>, Stop) = <<Stop>>
    BY DEF IInv, TypeOK
  <2>2. CASE ReadCommand
    <3>1. stdin # <<>> /\ cmd' = Head(stdin) /\ stdin' = Tail(stdin) /\ stdout' = stdout
          /\ stdin' = <<>>
      <4>1. Len(stdin) = 1
        BY <2>2 DEF ReadCommand, PipesInv
      <4> QED
        BY <2>1, <2>2, <4>1, OneMessage DEF ReadCommand
    <3> QED
      BY <1>1, <3>1 DEF InHand, First, Issued
  <2>3. CASE ReadStop
    <3>1. stdin' = <<>> /\ stdout' = <<Stop>> /\ proc' = "leaving"
      <4>1. Len(stdin) = 1 /\ stdout = <<>>
        BY <2>3 DEF ReadStop, PipesInv
      <4> QED
        BY <2>1, <2>3, <4>1, OneMessage DEF ReadStop
    <3> QED
      BY <1>1, <3>1 DEF InHand, First, Issued
  <2>4. CASE RpcAnswered
    <3>1. stdout' = <<cmd>> /\ proc = "rpc" /\ proc' = "reading" /\ stdin' = stdin
      <4>1. stdout = <<>>
        BY <2>4 DEF RpcAnswered, PipesInv
      <4> QED
        BY <2>1, <2>4, <4>1 DEF RpcAnswered
    <3> QED
      BY <1>1, <3>1 DEF InHand, First, Issued
  <2>5. CASE Exit \/ RpcFailed \/ HandleExit \/ Die \/ UNCHANGED vars
    BY <1>1, <2>5 DEF Exit, RpcFailed, HandleExit, Die, vars, InHand, First, Issued
  <2> QED
    BY <2>2, <2>3, <2>4, <2>5 DEF Process
<1> QED
  BY <1>1, <1>2 DEF OnceInv, First

\* Everything that holds of a state of the handle.
Sound == IInv /\ PipesInv /\ OnceInv

\* OnePlace, in a form that holds of the next state as well.
Placed ==
  /\ sent # Stop =>
       /\ opBar = "made" <=> OnItsWay
       /\ opBar = "issued" <=> Issued
       /\ opBar = "answered" <=> OnItsWayBack
       /\ opBar \in {"none", "made", "issued", "answered"}
  /\ sent = Stop => opBar = "none"

\* In this state.
LEMMA PlacedNow == Sound => Placed
BY OnePlace DEF Sound, Placed, IInv, opBar

\* In the next.
LEMMA PlacedNext == Sound' => Placed'
BY PlacedNow, PTL

\* The steps of the owner.
LEMMA OwnerContract ==
  ASSUME Sound, Sound', Owner PROVE [H!Next]_H!vars
<1> USE DEF H!Next, H!vars
<1>1. Placed /\ Placed' /\ TypeOK
  BY PlacedNow, PlacedNext DEF Sound, IInv
<1>2. ASSUME SendCall PROVE [H!Next]_H!vars
  <2>1. /\ caller = "idle" /\ caller' = "waiting" /\ sent < MaxCalls /\ sent' = sent + 1
        /\ got' = got /\ calls' = Append(calls, sent') /\ calls \in Seq(Messages)
        /\ calls = <<>> /\ sent' # Stop
    BY <1>1, <1>2, IInvSafe DEF SendCall, Sound, Lockstep, TypeOK, Stop
  <2>2. First(calls)'
    <3>1. calls' = <<sent'>>
      BY <2>1
    <3> QED
      BY <3>1 DEF First
  <2>3. opBar' = "made"
    BY <1>1, <2>1, <2>2 DEF Placed, OnItsWay
  <2> QED
    BY <2>1, <2>3 DEF H!Invoke, ownerBar
<1>3. ASSUME WaitResp PROVE [H!Next]_H!vars
  <2>1. /\ caller = "waiting" /\ caller' = "idle" /\ resps # <<>> /\ sent' = sent
        /\ got' = Append(got, [call |-> sent, resp |-> Head(resps)])
    BY <1>3 DEF WaitResp
  <2>2. sent # Stop /\ Head(resps) = sent
    <3>1. sent # Stop /\ Outstanding(sent, <<sent>>, <<>>)
      BY <2>1 DEF Sound, IInv, OneOutstanding
    <3>2. resps = <<sent>>
      BY <2>1, <3>1 DEF Outstanding
    <3> QED
      BY <3>1, <3>2
  <2>3. opBar = "answered"
    BY <1>1, <2>1, <2>2 DEF Placed, OnItsWayBack, First
  <2>4. opBar' = "none"
    <3>1. /\ ~OnItsWayBack' /\ ~Issued' /\ ~OnItsWay'
      <4>1. Lockstep'
        BY IInvSafe, <1>3, OwnerIInv, PTL DEF Sound
      <4> QED
        BY <2>1, <4>1 DEF Lockstep, OnItsWayBack, Issued, OnItsWay, First
    <3> QED
      BY <1>1, <2>1, <2>2, <3>1 DEF Placed
  <2> QED
    BY <2>1, <2>2, <2>3, <2>4 DEF H!Return, ownerBar
<1>4. ASSUME WaitError \/ DropHandle \/ StopSendError \/ StopError PROVE [H!Next]_H!vars
  <2>1. UNCHANGED <<sent, got, calls, resps, driver, cur, stdin, stdout, proc, cmd>>
    BY <1>4 DEF WaitError, DropHandle, StopSendError, StopError, thread, process
  <2>2. opBar' = opBar
    BY <2>1 DEF opBar, OnItsWay, Issued, OnItsWayBack, First
  <2>3. \/ ownerBar = "waiting" /\ ownerBar' = "failed"
        \/ ownerBar \in {"idle", "failed"} /\ ownerBar' = "closed"
        \/ ownerBar = "stopping" /\ ownerBar' = "closed"
    BY <1>4 DEF WaitError, DropHandle, StopSendError, StopError, ownerBar
  <2> QED
    BY <2>1, <2>2, <2>3 DEF H!GiveUp, H!Close, H!StopFails
<1>5. ASSUME StopSend PROVE [H!Next]_H!vars
  <2>1. /\ caller \in {"idle", "failed"} /\ caller' = "stopping" /\ calls \in Seq(Messages)
        /\ calls' = Append(calls, Stop)
        /\ UNCHANGED <<sent, got, resps, driver, cur, stdin, stdout, proc, cmd>>
    BY <1>1, <1>5 DEF StopSend, thread, process, TypeOK
  <2>2. sent # Stop => (First(calls)' <=> First(calls))
    <3>1. Stop \in Messages
      BY ClientProcAssumption DEF Messages, Stop
    <3>2. /\ Append(calls, Stop) # <<>>
          /\ Head(Append(calls, Stop)) = IF calls = <<>> THEN Stop ELSE Head(calls)
      BY <2>1, <3>1, HeadTailAppend, AppendProperties
    <3> QED
      BY <2>1, <3>2 DEF First
  <2>3. opBar' = opBar
    BY <2>1, <2>2 DEF opBar, OnItsWay, Issued, OnItsWayBack, First
  <2> QED
    BY <2>1, <2>3 DEF H!Close, ownerBar
<1>6. ASSUME StopDone PROVE [H!Next]_H!vars
  <2>1. /\ caller = "stopping" /\ resps # <<>> /\ resps' = Tail(resps) /\ resps \in Seq(Messages)
        /\ UNCHANGED <<sent, got, calls, driver, cur, stdin, stdout, proc, cmd>>
    BY <1>1, <1>6 DEF StopDone, thread, TypeOK
  <2>2. CASE Head(resps) = Stop
    <3>1. caller' = "stopped"
      BY <1>6, <2>2 DEF StopDone
    <3>2. Len(got) = sent /\ Outstanding(Stop, <<Stop>>, <<>>)
      BY <2>1, <2>2 DEF Sound, IInv, OneOutstanding, Outstanding, LateFirst
    <3>3. /\ calls = <<>> /\ driver = "recv" /\ stdin = <<>> /\ stdout = <<>>
          /\ resps = <<Stop>> /\ resps' = <<>> /\ proc \in {"leaving", "exited"}
      BY <2>1, <3>2 DEF Outstanding, After
    <3>4. opBar = "none" /\ opBar' = "none"
      BY <2>1, <3>3 DEF opBar, OnItsWay, Issued, OnItsWayBack, First
    <3> QED
      BY <2>1, <3>1, <3>2, <3>4 DEF H!StopSucceeds, ownerBar
  <2>3. CASE Head(resps) # Stop
    <3>1. caller' = "stopfailed"
      BY <1>6, <2>3 DEF StopDone
    <3>2. opBar' \in {opBar, "none"}
      <4>1. sent # Stop /\ ~OnItsWayBack => ~First(resps)
        BY DEF OnItsWayBack
      <4>2. sent # Stop => ~First(resps)'
        BY <2>1, OnlyTail DEF Sound, OnceInv, First
      <4>3. OnItsWay' <=> OnItsWay
        BY <2>1 DEF OnItsWay, First
      <4>4. Issued' <=> Issued
        BY <2>1 DEF Issued
      <4>5. sent # Stop /\ OnItsWayBack' => OnItsWayBack
        BY <2>1, <4>2 DEF OnItsWayBack, First
      <4> QED
        BY <1>1, <2>1, <4>3, <4>4, <4>5 DEF Placed
    <3> QED
      BY <2>1, <3>1, <3>2 DEF H!StopFails, ownerBar
  <2> QED
    BY <2>2, <2>3
<1> QED
  BY <1>2, <1>3, <1>4, <1>5, <1>6 DEF Owner

\* The steps of the driver: it carries the last call, or loses it.
LEMMA DriverContract ==
  ASSUME Sound, Sound', Driver PROVE [H!Next]_H!vars
<1>1. Placed /\ Placed' /\ TypeOK
  BY PlacedNow, PlacedNext DEF Sound, IInv
<1>2. UNCHANGED <<caller, sent, got, proc, cmd>>
  BY DEF Driver, DriverRecv, DriverRecvError, DriverWrite, DriverWriteError, DriverRead,
         DriverReadError, DriverSend, DriverSendError, owner, process
<1> DEFINE Moved ==
      \/ UNCHANGED <<OnItsWay, OnItsWayBack>>
      \/ ~OnItsWay' /\ ~OnItsWayBack' /\ ~Issued
<1>3. sent # Stop => Moved
  <2> SUFFICES ASSUME sent # Stop PROVE Moved
    OBVIOUS
  <2>1. CASE DriverRecv
    <3>1. calls # <<>> /\ calls \in Seq(Messages) /\ cur' = Head(calls) /\ calls' = Tail(calls)
          /\ driver = "recv" /\ driver' = "write" /\ UNCHANGED <<resps, stdin, stdout>>
      BY <1>1, <2>1 DEF DriverRecv, TypeOK
    <3>2. ~First(calls)'
      BY <1>2, <3>1, OnlyTail DEF Sound, OnceInv, First
    <3> QED
      BY <1>2, <3>1, <3>2 DEF OnItsWay, OnItsWayBack, First
  <2>2. CASE DriverWrite
    <3>1. /\ UNCHANGED <<calls, resps, stdout>> /\ driver = "write" /\ stdin' = <<cur>>
          /\ driver' = "read" /\ stdin = <<>>
      BY <2>2 DEF DriverWrite, Sound, PipesInv
    <3> QED
      BY <1>2, <3>1 DEF OnItsWay, OnItsWayBack, First
  <2>3. CASE DriverRead
    <3>1. /\ UNCHANGED <<calls, resps, stdin>> /\ driver = "read" /\ cur' = Head(stdout)
          /\ stdout # <<>> /\ stdout' = <<>> /\ driver' = "send"
      <4>1. Len(stdout) = 1
        BY <2>3 DEF DriverRead, Sound, PipesInv
      <4>2. stdout \in Seq(Messages)
        BY <1>1 DEF TypeOK
      <4> QED
        BY <2>3, <4>1, <4>2, OneMessage DEF DriverRead
    <3> QED
      BY <1>2, <3>1 DEF OnItsWay, OnItsWayBack, First
  <2>4. CASE DriverSend
    <3>1. /\ UNCHANGED <<calls, stdin, stdout>> /\ driver = "send" /\ driver' = "recv"
          /\ stdout = <<>> /\ resps' = Append(resps, cur) /\ resps \in Seq(Messages)
          /\ cur \in Messages
      BY <1>1, <2>4 DEF DriverSend, Sound, PipesInv, TypeOK
    <3>2. cur = sent => resps = <<>>
      BY <3>1 DEF Sound, OnceInv, InHand
    <3>3. /\ resps' # <<>> /\ Head(resps') = IF resps = <<>> THEN cur ELSE Head(resps)
      BY <3>1, HeadTailAppend, AppendProperties
    <3> QED
      BY <1>2, <3>1, <3>2, <3>3 DEF OnItsWay, OnItsWayBack, First
  <2>5. CASE DriverRecvError
    BY <1>2, <2>5 DEF DriverRecvError, OnItsWay, OnItsWayBack, First
  <2>6. CASE DriverReadError
    <3>1. /\ UNCHANGED <<calls, resps, stdin>> /\ driver = "read" /\ driver' = "ended"
          /\ stdin = <<>> /\ stdout # <<>> /\ stdout' = <<>> /\ proc # "rpc"
      <4>1. Len(stdout) = 1 /\ stdin = <<>> /\ proc # "rpc"
        BY <2>6 DEF DriverReadError, Sound, PipesInv
      <4>2. stdout \in Seq(Messages)
        BY <1>1 DEF TypeOK
      <4> QED
        BY <2>6, <4>1, <4>2, OneMessage DEF DriverReadError
    <3>2. ~First(calls)
      BY <3>1 DEF Sound, OnceInv
    <3>3. ~OnItsWay /\ ~OnItsWay' /\ ~Issued
      BY <1>2, <3>1, <3>2 DEF OnItsWay, Issued, First
    <3>4. OnItsWayBack' <=> First(resps)
      BY <1>2, <3>1 DEF OnItsWayBack, First
    <3>5. CASE First(resps)
      <4>1. OnItsWayBack /\ OnItsWayBack' /\ OnItsWayBack \in BOOLEAN /\ OnItsWayBack' \in BOOLEAN
        BY <3>4, <3>5 DEF OnItsWayBack, First
      <4>2. OnItsWay \in BOOLEAN /\ OnItsWay' \in BOOLEAN
        BY DEF OnItsWay, First
      <4> QED
        BY <3>3, <4>1, <4>2
    <3>6. CASE ~First(resps)
      BY <3>3, <3>4, <3>6
    <3> QED
      BY <3>5, <3>6
  <2>7. CASE DriverWriteError \/ DriverSendError
    <3>1. /\ UNCHANGED <<calls, resps, stdin, stdout>> /\ driver \in {"write", "send"}
          /\ driver' = "ended" /\ stdin = <<>> /\ stdout = <<>> /\ proc # "rpc"
      BY <2>7 DEF DriverWriteError, DriverSendError, Sound, PipesInv
    <3>2. ~First(calls)
      BY <3>1 DEF Sound, OnceInv
    <3>3. ~OnItsWay' /\ ~Issued
      BY <1>2, <3>1, <3>2 DEF OnItsWay, Issued, First
    <3>4. OnItsWayBack' <=> First(resps)
      BY <1>2, <3>1 DEF OnItsWayBack, First
    <3>5. driver = "write" => OnItsWayBack' = OnItsWayBack
      BY <1>2, <3>1 DEF OnItsWayBack, First
    <3> QED
      BY <1>2, <3>1, <3>2, <3>3, <3>4, <3>5 DEF Sound, OnceInv, InHand, OnItsWay,
                                                OnItsWayBack, First
  <2> QED
    BY <2>1, <2>2, <2>3, <2>4, <2>5, <2>6, <2>7 DEF Driver
<1>4. Issued' <=> Issued
  BY <1>2 DEF Issued
<1>5. opBar' = opBar \/ (opBar # "none" /\ opBar' = "none")
  BY <1>1, <1>2, <1>3, <1>4 DEF Placed
<1> QED
  BY <1>2, <1>5 DEF H!Next, H!Lose, H!vars, ownerBar

\* The steps of the client: it issues the last call, answers it, or loses it.
LEMMA ProcessContract ==
  ASSUME Sound, Sound', Process \/ Die \/ UNCHANGED vars PROVE [H!Next]_H!vars
<1>1. Placed /\ Placed' /\ TypeOK
  BY PlacedNow, PlacedNext DEF Sound, IInv
<1>2. UNCHANGED <<caller, sent, got, calls, resps, driver, cur>>
  BY DEF Process, Die, ReadCommand, ReadStop, Exit, RpcAnswered, RpcFailed, HandleExit, owner,
         thread, vars
<1>3. /\ stdin \in Seq(Messages) /\ cmd \in Messages
      /\ Append(<<>>, cmd) = <<cmd>> /\ Append(<<>>, Stop) = <<Stop>>
  BY <1>1 DEF TypeOK
<1> DEFINE Moved ==
      \/ UNCHANGED <<OnItsWay, Issued, OnItsWayBack>>
      \/ OnItsWay /\ Issued'
      \/ Issued /\ OnItsWayBack'
      \/ Issued /\ ~Issued' /\ ~OnItsWay' /\ ~OnItsWayBack'
<1>4. sent # Stop => Moved
  <2> SUFFICES ASSUME sent # Stop PROVE Moved
    OBVIOUS
  <2> USE DEF OnItsWay, Issued, OnItsWayBack, First
  <2>1. CASE ReadCommand
    <3>1. /\ stdin # <<>> /\ cmd' = Head(stdin) /\ stdin' = <<>> /\ stdout' = stdout
          /\ proc = "reading" /\ proc' = "rpc" /\ driver = "read"
      <4>1. Len(stdin) = 1 /\ driver = "read"
        BY <2>1 DEF ReadCommand, Sound, PipesInv
      <4> QED
        BY <1>3, <2>1, <4>1, OneMessage DEF ReadCommand
    <3>2. ~First(calls)
      BY <3>1 DEF Sound, OnceInv
    <3> QED
      BY <1>2, <3>1, <3>2
  <2>2. CASE ReadStop
    <3>1. /\ Head(stdin) = Stop /\ stdin' = <<>> /\ stdout' = <<Stop>> /\ stdout = <<>>
          /\ proc = "reading" /\ proc' = "leaving"
      <4>1. Len(stdin) = 1 /\ stdout = <<>>
        BY <2>2 DEF ReadStop, Sound, PipesInv
      <4> QED
        BY <1>3, <2>2, <4>1, OneMessage DEF ReadStop
    <3> QED
      BY <1>2, <3>1
  <2>3. CASE RpcAnswered
    <3>1. /\ stdout' = <<cmd>> /\ stdout = <<>> /\ proc = "rpc" /\ proc' = "reading"
          /\ UNCHANGED <<stdin, cmd>>
      <4>1. stdout = <<>>
        BY <2>3 DEF RpcAnswered, Sound, PipesInv
      <4> QED
        BY <1>3, <2>3, <4>1 DEF RpcAnswered
    <3> QED
      BY <1>2, <3>1
  <2>4. CASE RpcFailed \/ Die
    <3>1. UNCHANGED <<stdin, stdout, cmd>> /\ proc # "exited" /\ proc' = "exited"
      BY <2>4 DEF RpcFailed, Die
    <3>2. Issued => ~OnItsWay /\ ~OnItsWayBack
      BY <1>1 DEF Placed
    <3> QED
      BY <1>2, <3>1, <3>2
  <2>5. CASE Exit \/ HandleExit \/ UNCHANGED vars
    BY <1>2, <2>5 DEF Exit, HandleExit, vars
  <2> QED
    BY <2>1, <2>2, <2>3, <2>4, <2>5 DEF Process
<1>5. \/ opBar' = opBar
      \/ opBar = "made" /\ opBar' = "issued"
      \/ opBar = "issued" /\ opBar' \in {"answered", "none"}
  BY <1>1, <1>2, <1>4 DEF Placed
<1> QED
  BY <1>2, <1>5 DEF H!Next, H!Issue, H!Answer, H!Lose, H!vars, ownerBar

(***************************************************************************)
(* Whatever happens to the client and to its messages, the handle promises *)
(* its owner what CallHandle says: no call is issued twice, none is        *)
(* answered by the response to another, none is made after an error, and   *)
(* stop() succeeds only when all have been answered (proc.rs).             *)
(***************************************************************************)
THEOREM HandleKeepsItsPromise == Spec => HandleContract
<1>1. Init => Sound
  <2> SUFFICES ASSUME Init PROVE Sound
    OBVIOUS
  <2> QED
    BY InitIInv DEF Init, Sound, PipesInv, OnceInv, Stop
<1>2. Sound /\ [Next]_vars => Sound'
  <2> SUFFICES ASSUME Sound, [Next]_vars PROVE Sound'
    OBVIOUS
  <2>1. IInv'
    BY OwnerIInv, DriverIInv, ProcessIInv, StutterIInv DEF Next, Sound
  <2>2. PipesInv'
    BY NextPipes DEF Sound, IInv
  <2>3. OnceInv'
    BY OwnerOnce, DriverOnce, ProcessOnce DEF Next, Sound
  <2> QED
    BY <2>1, <2>2, <2>3 DEF Sound
<1>3. Init => H!Init
  BY DEF Init, H!Init, ownerBar, opBar, Stop
<1>4. Sound /\ Sound' /\ [Next]_vars => [H!Next]_H!vars
  BY OwnerContract, DriverContract, ProcessContract DEF Next
<1> QED
  BY <1>1, <1>2, <1>3, <1>4, PTL DEF Spec, HandleContract, H!Spec
=============================================================================
