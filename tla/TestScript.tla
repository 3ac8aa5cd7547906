----------------------------- MODULE TestScript -----------------------------
(***************************************************************************)
(* The test script (tests/run_test.sh): what its five tests feed to the    *)
(* client processes, in which order, and what they expect these to print.  *)
(* The two clients of a test run concurrently, against a server whose map  *)
(* may hold what an earlier run of the test has left.                      *)
(*                                                                         *)
(* A key is its rank among the keys of its test.  The service executes a   *)
(* command at one instant, as AtomicKV promises, and does not fail.        *)
(***************************************************************************)
EXTENDS KVStore, Functions

CONSTANT None   \* no answer

Clients == {"A", "B"}

Put(k, v)  == [op |-> "Put", key |-> k, value |-> v]
Swap(k, v) == [op |-> "Swap", key |-> k, value |-> v]
Get(k)     == [op |-> "Get", key |-> k]
Delete(k)  == [op |-> "Delete", key |-> k]
Scan(s, e) == [op |-> "Scan", start |-> s, end |-> e]

\* A command and what is expected of it.
Finds(c, b)   == [call |-> c, answer |-> [op |-> c.op, key |-> c.key, found |-> b]]
Shows(c, v)   == [call |-> c, answer |-> [op |-> c.op, key |-> c.key, value |-> v]]
Lists(c, seq) == [call |-> c, answer |-> [op |-> "Scan", start |-> c.start, end |-> c.end,
                                          entries |-> seq]]

(***************************************************************************)
(* The tests: the keys deleted first, the order in which the clients are   *)
(* given their commands one by one (<<>> when each one reads them from a   *)
(* file), the commands, and what is expected of each one.                  *)
(***************************************************************************)
\* alpha, beta, delta
Test1 ==
  [reset |-> {1, 2, 3}, order |-> <<>>, B |-> <<>>,
   A |-> << Shows(Get(1), Nil), Finds(Put(1, "one"), FALSE), Finds(Put(1, "two"), TRUE),
            Shows(Get(1), "two"), Shows(Swap(1, "three"), "two"), Shows(Get(1), "three"),
            Finds(Put(2, "bee"), FALSE), Finds(Put(3, "dee"), FALSE),
            Lists(Scan(1, 3), << <<1, "three">>, <<2, "bee">>, <<3, "dee">> >>),
            Finds(Delete(2), TRUE), Shows(Get(2), Nil), Finds(Delete(2), FALSE) >>]

\* aaa, t2_A, t2_a, t2_aa, t2_ghost, zzz
Test2 ==
  [reset |-> {2, 3, 4, 5}, order |-> <<>>, B |-> <<>>,
   A |-> << Shows(Get(5), Nil), Shows(Swap(5, "created"), Nil), Shows(Get(5), "created"),
            Finds(Delete(5), TRUE), Finds(Put(2, "upper"), FALSE),
            Finds(Put(3, "lower"), FALSE), Finds(Put(4, "double"), FALSE),
            Lists(Scan(2, 4), << <<2, "upper">>, <<3, "lower">>, <<4, "double">> >>),
            Finds(Put(3, "lower2"), TRUE), Shows(Swap(3, "lower3"), "lower2"),
            Shows(Get(3), "lower3"), Lists(Scan(6, 1), <<>>),
            Finds(Delete(3), TRUE), Shows(Get(3), Nil) >>]

\* a1, a2, a9, b1
Test3 ==
  [reset |-> {1, 2, 4}, order |-> <<>>,
   A |-> << Finds(Put(1, "one"), FALSE), Finds(Put(2, "two"), FALSE), Shows(Get(1), "one"),
            Lists(Scan(1, 3), << <<1, "one">>, <<2, "two">> >>) >>,
   B |-> << Finds(Put(4, "three"), FALSE), Shows(Swap(4, "four"), "three"),
            Shows(Get(4), "four"), Finds(Delete(4), TRUE) >>]

\* shared
Test4 ==
  [reset |-> {1}, order |-> <<"A", "B", "B", "A">>,
   A |-> << Finds(Put(1, "v1"), FALSE), Shows(Get(1), "v2") >>,
   B |-> << Shows(Get(1), "v1"), Shows(Swap(1, "v2"), "v1") >>]

\* item
Test5 ==
  [reset |-> {1}, order |-> <<"A", "B", "A", "B", "A", "B">>,
   A |-> << Finds(Put(1, "first"), FALSE), Shows(Get(1), Nil),
            Shows(Swap(1, "third"), "second") >>,
   B |-> << Finds(Delete(1), TRUE), Finds(Put(1, "second"), FALSE), Shows(Get(1), "third") >>]

Tests == {Test1, Test2, Test3, Test4, Test5}

----------------------------------------------------------------------------
VARIABLES
  store,    \* the map of the server
  test,     \* the test that is run
  script,   \* "reset", "feeding", "awaiting" a line, "PASS", "FAIL" or "timeout"
  step,     \* the steps of the order that have been taken
  fed,      \* per client: how many of its commands it has been given
  reply,    \* per client: the answer to a command that it has not printed yet
  out       \* per client: what it has printed

vars == <<store, test, script, step, fed, reply, out>>

\* What an earlier run of test t, complete or not, may have left in a key.
Left(t, k) ==
  {Nil} \cup {e.call.value : e \in {x \in Range(t.A) \cup Range(t.B) :
                                    x.call.op \in {"Put", "Swap"} /\ x.call.key = k}}

Leftovers(t) ==
  {d \in [Keys -> UNION {Left(t, k) : k \in Keys}] : \A k \in Keys : d[k] \in Left(t, k)}

Init ==
  /\ test \in Tests
  /\ store \in Leftovers(test)
  /\ script = "reset"
  /\ step = 0
  /\ fed = [c \in Clients |-> 0]
  /\ reply = [c \in Clients |-> None]
  /\ out = [c \in Clients |-> <<>>]

----------------------------------------------------------------------------
(***************************************************************************)
(* The script.                                                             *)
(***************************************************************************)
\* Mutant: the keys are left as they are.
ResetNothing ==
  /\ script = "reset"
  /\ script' = "feeding"
  /\ fed' = [c \in Clients |-> IF test.order = <<>> THEN Len(test[c]) ELSE 0]
  /\ UNCHANGED <<store, test, step, reply, out>>

\* reset_keys, by a client that has ended when the other ones are started.
Reset ==
  /\ script = "reset"
  /\ store' = [k \in Keys |-> IF k \in test.reset THEN Nil ELSE store[k]]
  /\ script' = "feeding"
  /\ fed' = [c \in Clients |-> IF test.order = <<>> THEN Len(test[c]) ELSE 0]
  /\ UNCHANGED <<test, step, reply, out>>

\* The command is written to the FIFO of the client.
Feed ==
  /\ script = "feeding"
  /\ step < Len(test.order)
  /\ fed' = [fed EXCEPT ![test.order[step + 1]] = @ + 1]
  /\ script' = "awaiting"
  /\ UNCHANGED <<store, test, step, reply, out>>

\* The client the script waits for, and the line.
Awaited == test.order[step + 1]
Line == test[Awaited][fed[Awaited]].answer

\* Mutant: the script does not look at what the client has printed.
LineNotAwaited ==
  /\ script = "awaiting"
  /\ script' = "feeding"
  /\ step' = step + 1
  /\ UNCHANGED <<store, test, fed, reply, out>>

\* wait_for_line finds the line anywhere in the output.
LineThere ==
  /\ script = "awaiting"
  /\ Line \in Range(out[Awaited])
  /\ script' = "feeding"
  /\ step' = step + 1
  /\ UNCHANGED <<store, test, fed, reply, out>>

\* The deadline of wait_for_line is over.
LineMissing ==
  /\ script = "awaiting"
  /\ Line \notin Range(out[Awaited])
  /\ script' = "timeout"
  /\ UNCHANGED <<store, test, step, fed, reply, out>>

\* The clients have been told to stop and have ended: the outputs are compared.
Expected(c) == [i \in DOMAIN test[c] |-> test[c][i].answer]

Compare ==
  /\ script = "feeding"
  /\ step = Len(test.order)
  /\ \A c \in Clients : Len(out[c]) = Len(test[c])
  /\ script' = IF \A c \in Clients : out[c] = Expected(c) THEN "PASS" ELSE "FAIL"
  /\ UNCHANGED <<store, test, step, fed, reply, out>>

(***************************************************************************)
(* The clients and the service.                                            *)
(***************************************************************************)
Execute(c) ==
  /\ reply[c] = None
  /\ Len(out[c]) < fed[c]
  /\ LET call == test[c][Len(out[c]) + 1].call
     IN  /\ store' = Effect(store, call)
         /\ \E r \in Results(store, call) : reply' = [reply EXCEPT ![c] = r]
  /\ UNCHANGED <<test, script, step, fed, out>>

PrintAnswer(c) ==
  /\ reply[c] # None
  /\ out' = [out EXCEPT ![c] = Append(@, reply[c])]
  /\ reply' = [reply EXCEPT ![c] = None]
  /\ UNCHANGED <<store, test, script, step, fed>>

Next ==
  \/ Reset
  \/ Feed
  \/ LineThere
  \/ LineMissing
  \/ Compare
  \/ \E c \in Clients : Execute(c) \/ PrintAnswer(c)

Spec == Init /\ [][Next]_vars

----------------------------------------------------------------------------
CaughtUp(c) == reply[c] = None /\ Len(out[c]) = fed[c]

(***************************************************************************)
(* The tests pass against every linearizable server, in every interleaving *)
(* of the clients and whatever an earlier run has left: an output differs  *)
(* from the expected one never, and a wait times out only when a client is *)
(* slow (run_test.sh:44, 315, 366).                                        *)
(***************************************************************************)
NoFalseFailure ==
  /\ script # "FAIL"
  /\ script = "awaiting" /\ CaughtUp(Awaited) => Line \in Range(out[Awaited])

(***************************************************************************)
(* A command of a test with an order is given only when those before it    *)
(* have been answered: no line that is waited for is mistaken for the same *)
(* line of an earlier command (run_test.sh:108).                           *)
(***************************************************************************)
OneAtATime ==
  script = "feeding" /\ test.order # <<>> => \A c \in Clients : CaughtUp(c)
=============================================================================
