------------------------------ MODULE UartBridge ------------------------------
(***************************************************************************)
(* The host side of the PMU UART transport: uart::Transaction              *)
(* (isml_diag/src/uart/UartProtocol.cpp) driven by the worker thread of    *)
(* UartBridge::Impl and by the threads that call UartBridge::transact      *)
(* (isml_diag/src/core/UartBridge.cpp).                                    *)
(*                                                                         *)
(* Mutexes.  `callers` is a variable: the caller that holds it, or NoOne.  *)
(* The mutex Impl::state is held by the worker exactly while worker is     *)
(* "read" or "send" (one loop iteration), and by every other thread only   *)
(* inside one action, so the predicate StateFree stands for it.            *)
(*                                                                         *)
(* Time.  deadline_ and now are abstracted to `due`, which is now >=       *)
(* deadline_.  Elapse makes it true; storing a deadline in the future      *)
(* makes it false.                                                         *)
(*                                                                         *)
(* The line.  cmds and rsps are the frames ever put on the line.  A frame  *)
(* of rsps may be read at any later time, any number of times, in any      *)
(* order, or never: lost, late, duplicated and reordered replies are all   *)
(* behaviours.                                                             *)
(***************************************************************************)
EXTENDS Naturals

CONSTANTS
  Callers,        \* threads that call UartBridge::read / write
  Ops,            \* what a command asks for: direction, address and value
  Asks,           \* the operations each caller asks for
  RetryCount,     \* RetryConfig::retry_count
  RetryInterval,  \* RetryConfig::retry_interval_ms; only zero or not matters
  MaxRequest,     \* the largest request ID, UINT32_MAX in the code
  NoOne,          \* no caller
  None            \* no operation, no value

ASSUME ConstantsAssumption ==
  /\ Asks \in [Callers -> SUBSET Ops]
  /\ RetryCount \in Nat
  /\ RetryInterval \in Nat
  /\ MaxRequest \in Nat \ {0}
  /\ NoOne \notin Callers
  /\ None \notin Ops

VARIABLES
  state, request, retries, due, wire, result,    \* uart::Transaction
  stopping, failure, worker,                     \* UartBridge::Impl
  callers,                                       \* the mutex Impl::callers
  pc, op, answer,                                \* one call per caller
  closer,                                        \* the thread in Impl::close
  cmds, rsps,                                    \* frames on the line
  sends                                          \* history: sends of this request

txn == <<state, request, retries, due, wire, result, sends>>
port == <<stopping, failure, worker, closer>>
calls == <<callers, pc, op, answer>>
line == <<cmds, rsps>>
vars == <<txn, port, calls, line>>

-----------------------------------------------------------------------------
States == {"Idle", "Sending", "Waiting", "Backoff", "Done"}

\* Frames carry the session of the process that sent them or whose command
\* they answer; "old" is any session but this one.
Sessions == {"mine", "old"}

Commands == [session : Sessions, request : 1 .. MaxRequest, op : Ops]

Responses == [session : Sessions, request : 1 .. MaxRequest,
              status : {"ok", "error"}, value : Ops]

Outcome(kind, value) == [kind |-> kind, value |-> value]

\* TransactionResult: UartResult and the value of the reply.
Verdicts == [kind : {"Ok", "Firmware"}, value : Ops \cup {None}]
              \cup [kind : {"Timeout", "Transport"}, value : {None}]

\* UartResponse; "None" is the answer of a call that has not returned.
Outcomes == Verdicts \cup [kind : {"None", "Invalid"}, value : {None}]

NoWire == [session |-> "mine", request |-> 0, op |-> None]

\* Transaction::active
Active == state \in {"Sending", "Waiting", "Backoff"}

StateFree == worker \notin {"read", "send"}

\* Condition variable `changed`: notify_all moves every sleeper to "woken",
\* where it takes the state mutex and evaluates its predicate again.
Awaken(p) == [c \in Callers |-> IF p[c] = "waiting" THEN "woken" ELSE p[c]]

\* Transaction::fail
Fail(kind) == /\ result' = Outcome(kind, None)
              /\ state' = "Done"

-----------------------------------------------------------------------------
\* UartBridge::open has succeeded: transaction idle, worker started.  Any
\* reply to a command of an earlier session may still be on the line.
Init ==
  /\ state = "Idle" /\ request = 0 /\ retries = 0 /\ due = FALSE
  /\ wire = NoWire /\ result = Outcome("Ok", None) /\ sends = 0
  /\ stopping = FALSE /\ failure = FALSE /\ worker = "poll" /\ closer = "open"
  /\ callers = NoOne
  /\ pc = [c \in Callers |-> "idle"]
  /\ op = [c \in Callers |-> None]
  /\ answer = [c \in Callers |-> Outcome("None", None)]
  /\ cmds = {}
  /\ rsps = {r \in Responses : r.session = "old"}

-----------------------------------------------------------------------------
(***************************************************************************)
(* UartBridge::transact, one call of a caller c.                           *)
(***************************************************************************)

\* An aligned request goes on to the callers mutex.
Call(c) ==
  /\ pc[c] = "idle"
  /\ pc' = [pc EXCEPT ![c] = "called"]
  /\ \E o \in Asks[c] : op' = [op EXCEPT ![c] = o]
  /\ answer' = [answer EXCEPT ![c] = Outcome("None", None)]
  /\ UNCHANGED <<txn, port, callers, line>>

\* address % 4 # 0 is refused before any lock is taken.
CallUnaligned(c) ==
  /\ pc[c] = "idle"
  /\ answer' = [answer EXCEPT ![c] = Outcome("Invalid", None)]
  /\ UNCHANGED <<txn, port, callers, pc, op, line>>

EnterCallers(c) ==
  /\ pc[c] = "called"
  /\ callers = NoOne
  /\ callers' = c
  /\ pc' = [pc EXCEPT ![c] = "entered"]
  /\ UNCHANGED <<txn, port, op, answer, line>>

Finish(c, outcome) ==
  /\ answer' = [answer EXCEPT ![c] = outcome]
  /\ pc' = [pc EXCEPT ![c] = "idle"]
  /\ callers' = NoOne

IdsLeft == request < MaxRequest

\* The session is closed or has failed: nothing is started.
Refused(c) ==
  /\ pc[c] = "entered" /\ StateFree
  /\ stopping \/ failure
  /\ Finish(c, Outcome("Transport", None))
  /\ UNCHANGED <<txn, port, op, line>>

\* Transaction::start finds request_ at its maximum; the wait predicate is
\* already true, so transact returns without sleeping.
Exhausted(c) ==
  /\ pc[c] = "entered" /\ StateFree
  /\ ~stopping /\ ~failure
  /\ ~Active /\ ~IdsLeft
  /\ Fail("Transport")
  /\ Finish(c, Outcome("Transport", None))
  /\ UNCHANGED <<request, retries, due, wire, sends, port, op, line>>

\* Transaction::start, then changed.wait releases the state mutex.  A start
\* while a transaction is active would change nothing, and transact ignores
\* its return value.
Start(c) ==
  /\ pc[c] = "entered" /\ StateFree
  /\ ~stopping /\ ~failure
  /\ Active \/ IdsLeft
  /\ IF Active
       THEN UNCHANGED txn
       ELSE /\ request' = request + 1
            /\ wire' = [session |-> "mine", request |-> request + 1, op |-> op[c]]
            /\ result' = Outcome("Ok", None)
            /\ retries' = 0 /\ due' = TRUE /\ state' = "Sending" /\ sends' = 0
  /\ pc' = [pc EXCEPT ![c] = "waiting"]
  /\ UNCHANGED <<port, callers, op, answer, line>>

\* A condition variable may wake a thread that nobody notified.
SpuriousWake(c) ==
  /\ pc[c] = "waiting"
  /\ pc' = [pc EXCEPT ![c] = "woken"]
  /\ UNCHANGED <<txn, port, callers, op, answer, line>>

\* The predicate !active() is evaluated with the state mutex held.
SleepAgain(c) ==
  /\ pc[c] = "woken" /\ StateFree
  /\ Active
  /\ pc' = [pc EXCEPT ![c] = "waiting"]
  /\ UNCHANGED <<txn, port, callers, op, answer, line>>

Return(c) ==
  /\ pc[c] = "woken" /\ StateFree
  /\ ~Active
  /\ Finish(c, result)
  /\ UNCHANGED <<txn, port, op, line>>

-----------------------------------------------------------------------------
(***************************************************************************)
(* UartBridge::Impl::run, the worker thread.                               *)
(***************************************************************************)

\* poll() fails, or the port reports POLLERR, POLLHUP or POLLNVAL after the
\* stopping test.  The exception releases the state mutex on its way out.
Disconnect ==
  /\ worker = "poll"
  /\ worker' = "threw"
  /\ UNCHANGED <<txn, stopping, failure, closer, calls, line>>

\* poll() returns, the state mutex is taken and nobody is closing the port.
BeginIteration ==
  /\ worker = "poll"
  /\ ~stopping
  /\ worker' = "read"
  /\ UNCHANGED <<txn, stopping, failure, closer, calls, line>>

BugStopIdle ==
  /\ worker = "poll"
  /\ stopping /\ state = "Idle"
  /\ worker' = "exited"
  /\ UNCHANGED <<txn, stopping, failure, closer, calls, line>>

StopWorker ==
  /\ worker = "poll"
  /\ stopping
  /\ worker' = "exited"
  /\ UNCHANGED <<txn, stopping, failure, closer, calls, line>>

BugMatchesSession(f) == f.session = "mine"

Matches(f) == f.session = "mine" /\ f.request = request

\* Transaction::receive, for a frame the stream decoder hands over.
Receive(f) ==
  /\ worker = "read"
  /\ Active /\ Matches(f)
  /\ result' = Outcome(IF f.status = "ok" THEN "Ok" ELSE "Firmware", f.value)
  /\ state' = "Done"
  /\ UNCHANGED <<request, retries, due, wire, sends, port, calls, line>>

ReadFails ==
  /\ worker = "read"
  /\ worker' = "threw"
  /\ UNCHANGED <<txn, stopping, failure, closer, calls, line>>

BugRetriesLeft == retries # RetryCount + 1

RetriesLeft == retries # RetryCount

\* Transaction::tick.  With retry_interval_ms = 0 the backoff it enters is
\* over in the same call.
Tick ==
  LET expired == state = "Waiting" /\ due
      retry   == expired /\ RetriesLeft
      over    == \/ retry /\ RetryInterval = 0
                 \/ state = "Backoff" /\ due
  IN  /\ result' = IF expired /\ ~retry THEN Outcome("Timeout", None) ELSE result
      /\ retries' = IF retry THEN retries + 1 ELSE retries
      /\ due' = IF retry THEN RetryInterval = 0 ELSE due
      /\ state' = CASE over              -> "Sending"
                    [] retry /\ ~over    -> "Backoff"
                    [] expired /\ ~retry -> "Done"
                    [] OTHER             -> state

\* The rest of an iteration without a send: tick, then notify_all and unlock.
EndIteration ==
  /\ worker = "read"
  /\ Tick
  /\ worker' = IF state' = "Sending" THEN "send" ELSE "poll"
  /\ pc' = IF state' = "Sending" THEN pc ELSE Awaken(pc)
  /\ UNCHANGED <<request, wire, sends, stopping, failure, closer>>
  /\ UNCHANGED <<callers, op, answer, line>>

\* serial.send wrote the whole frame; Transaction::sent, notify_all, unlock.
Send ==
  /\ worker = "send"
  /\ cmds' = cmds \cup {wire}
  /\ sends' = sends + 1
  /\ state' = "Waiting" /\ due' = FALSE
  /\ worker' = "poll"
  /\ pc' = Awaken(pc)
  /\ UNCHANGED <<request, retries, wire, result, stopping, failure, closer>>
  /\ UNCHANGED <<callers, op, answer, rsps>>

\* serial.send gave up.  What was written may still complete a frame for the
\* device, hence "command outcome may be unknown".
SendFails ==
  /\ worker = "send"
  /\ cmds' \in {cmds, cmds \cup {wire}}
  /\ worker' = "threw"
  /\ UNCHANGED <<txn, stopping, failure, closer, calls, rsps>>

\* The handler of every exception of the loop.
Catch ==
  /\ worker = "threw"
  /\ failure' = TRUE
  /\ Fail("Transport")
  /\ pc' = Awaken(pc)
  /\ worker' = "exited"
  /\ UNCHANGED <<request, retries, due, wire, sends, stopping, closer>>
  /\ UNCHANGED <<callers, op, answer, line>>

Elapse ==
  /\ state \in {"Waiting", "Backoff"} /\ ~due
  /\ due' = TRUE
  /\ UNCHANGED <<state, request, retries, wire, result, sends, port, calls, line>>

-----------------------------------------------------------------------------
(***************************************************************************)
(* UartBridge::Impl::close.                                                *)
(***************************************************************************)

BugAbortsAlways == TRUE

BugAbortsNever == FALSE

CloseAborts == Active

Close ==
  /\ closer = "open" /\ StateFree
  /\ closer' = "joining"
  /\ stopping' = TRUE
  /\ IF CloseAborts THEN Fail("Transport") ELSE UNCHANGED <<state, result>>
  /\ pc' = Awaken(pc)
  /\ UNCHANGED <<request, retries, due, wire, sends, failure, worker>>
  /\ UNCHANGED <<callers, op, answer, line>>

\* worker.join() returns; the log and the serial port are closed.
Joined ==
  /\ closer = "joining"
  /\ worker = "exited"
  /\ closer' = "closed"
  /\ UNCHANGED <<txn, stopping, failure, worker, calls, line>>

-----------------------------------------------------------------------------
\* The firmware (not part of this repository) answers a command it received,
\* as often as it received it.
Firmware ==
  \E m \in cmds, s \in {"ok", "error"} :
    /\ rsps' = rsps \cup {[session |-> m.session, request |-> m.request,
                           status |-> s, value |-> m.op]}
    /\ UNCHANGED <<txn, port, calls, cmds>>

Worker ==
  \/ BeginIteration \/ StopWorker \/ EndIteration \/ Send \/ Catch
  \/ Disconnect \/ ReadFails \/ SendFails
  \/ \E f \in rsps : Receive(f)

Caller(c) ==
  \/ Call(c) \/ CallUnaligned(c) \/ EnterCallers(c)
  \/ Refused(c) \/ Exhausted(c) \/ Start(c)
  \/ SpuriousWake(c) \/ SleepAgain(c) \/ Return(c)

Next ==
  \/ \E c \in Callers : Caller(c)
  \/ Worker
  \/ Close \/ Joined
  \/ Elapse
  \/ Firmware

Spec == Init /\ [][Next]_vars

\* The threads run.  The holder of the callers mutex needs the state mutex for
\* its steps and is strongly fair: the worker sleeps in poll() without it
\* between two iterations, and a thread that waits for a mutex that is released
\* again and again gets it.  Nothing is assumed of the line, the firmware or
\* whoever closes the port.
Fairness ==
  /\ WF_vars(BeginIteration \/ StopWorker \/ EndIteration \/ Send \/ Catch)
  /\ WF_vars(Elapse)
  /\ WF_vars(Joined)
  /\ SF_vars(\E c \in Callers :
       Refused(c) \/ Exhausted(c) \/ Start(c) \/ SleepAgain(c) \/ Return(c))

FairSpec == Spec /\ Fairness

-----------------------------------------------------------------------------
(***************************************************************************)
(* Properties.                                                             *)
(***************************************************************************)

\* Every variable keeps its type; request_ never passes its maximum.
TypeOK ==
  /\ state \in States
  /\ request \in 0 .. MaxRequest
  /\ retries \in 0 .. RetryCount
  /\ due \in BOOLEAN
  /\ wire \in Commands \cup {NoWire}
  /\ result \in Verdicts
  /\ sends \in Nat
  /\ stopping \in BOOLEAN /\ failure \in BOOLEAN
  /\ worker \in {"poll", "read", "send", "threw", "exited"}
  /\ closer \in {"open", "joining", "closed"}
  /\ callers \in Callers \cup {NoOne}
  /\ pc \in [Callers -> {"idle", "called", "entered", "waiting", "woken"}]
  /\ op \in [Callers -> Ops \cup {None}]
  /\ \A c \in Callers : pc[c] # "idle" => op[c] \in Ops
  /\ answer \in [Callers -> Outcomes]
  /\ cmds \in SUBSET Commands
  /\ rsps \in SUBSET Responses

\* A call that returns Ok or Firmware returns what the device answered to its
\* own command: never the reply to another caller's request, to an earlier
\* request that timed out, to another session, or no reply at all
\* (Transaction::receive, UartProtocol.cpp:157-162).
ReplyIsOwn ==
  \A c \in Callers :
    answer[c].kind \in {"Ok", "Firmware"} => answer[c].value = op[c]

\* The sends of a request against its budget.
RetriesInv ==
  /\ sends <= RetryCount + 1
  /\ state = "Done" /\ result.kind = "Timeout" => sends = RetryCount + 1

\* State in range: request_ never wraps and retries_ never passes its limit.
\* retry_count = N means one send and at most N retries, and a request times
\* out only after all of them (Transaction::tick, UartProtocol.cpp:149-156).
RetryBudget == TypeOK /\ RetriesInv

\* What the worker is about to send is the command of the caller that holds
\* the callers mutex and sleeps in transact: the sends and retries of two
\* callers never interleave (UartBridge.cpp:278-282, 329-334).
SendIsHolders ==
  worker = "send" =>
    \E c \in Callers :
      /\ callers = c
      /\ pc[c] \in {"waiting", "woken"}
      /\ wire = [session |-> "mine", request |-> request, op |-> op[c]]

\* Until its caller has taken it, the result of a finished transaction can be
\* replaced by nothing but the transport failure that ends the session
\* (Impl::run, UartBridge.cpp:285-289).
ResultKept ==
  [][ \A c \in Callers :
        /\ pc[c] \in {"waiting", "woken"} /\ pc'[c] \in {"waiting", "woken"}
        /\ state = "Done" /\ result' # result
        => failure' /\ result'.kind = "Transport" ]_vars

\* Impl::close returns: the worker it joins terminates (UartBridge.cpp:237-248).
CloseReturns == (closer = "joining") ~> (closer = "closed")

-----------------------------------------------------------------------------
\* The session as its callers see it.
Port == INSTANCE UartPort WITH
  phase <- [c \in Callers |-> CASE pc[c] = "idle"   -> "idle"
                                [] pc[c] = "called" -> "asked"
                                [] OTHER            -> "served"],
  asked <- op,
  reply <- answer

\* The bridge implements the promise of UartPort (UartBridge.cpp:324-350): one
\* call at a time, answered with its own reply or an error; and a call being
\* served returns, whatever the line loses and whenever the port dies or is
\* closed.
ImplementsPort == Port!PortSpec
=============================================================================
