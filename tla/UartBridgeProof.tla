--------------------------- MODULE UartBridgeProof ---------------------------
(***************************************************************************)
(* Proofs about UartBridge, for every set of callers and operations, every *)
(* retry configuration and every bound on request IDs; and about the       *)
(* session's log, LogFile, for every buffer limit and amount of text.      *)
(***************************************************************************)
EXTENDS UartBridge, LogFile, TLAPS

InTransact(c) == pc[c] \in {"waiting", "woken"}

\* The callers mutex is held by the caller that is past it.
MutexInv ==
  \A c \in Callers : callers = c <=> pc[c] \in {"entered", "waiting", "woken"}

\* An active transaction is the one its sleeping caller started.
ActiveInv ==
  Active => \E c \in Callers :
              /\ callers = c
              /\ InTransact(c)
              /\ wire = [session |-> "mine", request |-> request, op |-> op[c]]

\* Request IDs on the line are not in the future, and the current one stands
\* for one command only.
LineInv ==
  /\ \A m \in cmds : /\ m.session = "mine"
                     /\ m.request <= request
                     /\ m.request = request => m = wire
  /\ \A r \in rsps : r.session = "mine" =>
       \E m \in cmds : m.request = r.request /\ m.op = r.value

\* A caller asleep has a transaction, and a reply in it is its own.
ResultInv ==
  \A c \in Callers : InTransact(c) =>
    /\ state # "Idle"
    /\ state = "Done" /\ result.kind \in {"Ok", "Firmware"} => result.value = op[c]

SendsInv ==
  /\ state \in {"Sending", "Backoff"} => sends = retries
  /\ state = "Waiting" => sends = retries + 1
  /\ worker = "send" => state = "Sending"

IInv == /\ TypeOK /\ MutexInv /\ ActiveInv /\ LineInv /\ ResultInv
        /\ SendsInv /\ RetriesInv /\ ReplyIsOwn

-----------------------------------------------------------------------------
(***************************************************************************)
(* The inductive invariant.                                                *)
(***************************************************************************)

\* The state UartBridge::open leaves satisfies the invariant.
LEMMA InitIInv == Init => IInv
<1> SUFFICES ASSUME Init PROVE IInv
  BY Zenon
<1> USE ConstantsAssumption DEF Init
<1>1. TypeOK
  <2>1. result \in Verdicts /\ answer \in [Callers -> Outcomes]
    BY Zenon DEF Outcomes, Outcome, Verdicts
  <2>2. cmds \in SUBSET Commands /\ rsps \in SUBSET Responses
    BY Zenon
  <2>3. /\ pc \in [Callers -> {"idle", "called", "entered", "waiting", "woken"}]
        /\ op \in [Callers -> Ops \cup {None}]
        /\ \A c \in Callers : pc[c] # "idle" => op[c] \in Ops
    BY Zenon
  <2>4. /\ due \in BOOLEAN /\ stopping \in BOOLEAN /\ failure \in BOOLEAN
        /\ state \in States
    BY Zenon DEF States
  <2>5. QED
    BY <2>1, <2>2, <2>3, <2>4 DEF TypeOK
<1>2. MutexInv /\ ActiveInv /\ ResultInv
  BY Zenon DEF MutexInv, ActiveInv, ResultInv, InTransact, Active
<1>3. LineInv
  BY Zenon DEF LineInv
<1>4. SendsInv /\ RetriesInv /\ ReplyIsOwn
  BY DEF SendsInv, RetriesInv, ReplyIsOwn, Outcome
<1>5. QED
  BY <1>1, <1>2, <1>3, <1>4, Zenon DEF IInv

\* A step that leaves the transaction, the callers and the line alone, and may
\* move the worker on, let the deadline pass or close the port, preserves the
\* invariant.
LEMMA FrameIInv ==
  ASSUME IInv,
         UNCHANGED <<state, request, retries, wire, result, sends, stopping, failure>>,
         UNCHANGED <<calls, line>>,
         worker' \in {worker, "read", "threw", "exited"},
         due' \in {due, TRUE}, closer' \in {closer, "closed"}
  PROVE  IInv'
<1> USE DEF IInv, calls, line
<1>1. TypeOK'
  <2>1. due' \in BOOLEAN
    BY Zenon DEF TypeOK
  <2>2. worker' \in {"poll", "read", "send", "threw", "exited"}
    BY Zenon DEF TypeOK
  <2>3. QED
    BY <2>1, <2>2, Zenon DEF TypeOK
<1>2. MutexInv'
  BY Zenon DEF MutexInv
<1>3. ActiveInv'
  BY Zenon DEF ActiveInv, InTransact, Active
<1>4. LineInv'
  BY Zenon DEF LineInv
<1>5. ResultInv'
  BY Zenon DEF ResultInv, InTransact
<1>6. SendsInv'
  BY Zenon DEF SendsInv
<1>7. RetriesInv'
  BY Zenon DEF RetriesInv
<1>8. ReplyIsOwn'
  BY Zenon DEF ReplyIsOwn
<1>9. QED
  BY <1>1, <1>2, <1>3, <1>4, <1>5, <1>6, <1>7, <1>8, Zenon DEF IInv

\* Every step of a caller in transact preserves the invariant.
LEMMA CallerIInv ==
  ASSUME IInv, NEW c \in Callers, Caller(c)
  PROVE  IInv'
<1> USE ConstantsAssumption DEF IInv, txn, port, calls, line
<1>1. CASE Call(c)
  <2> USE <1>1 DEF Call, Outcome
  <2>1. TypeOK'
    BY DEF TypeOK, States, Outcomes, Verdicts
  <2>2. MutexInv'
    BY Zenon DEF TypeOK, MutexInv
  <2>3. ActiveInv'
    BY Zenon DEF TypeOK, MutexInv, ActiveInv, InTransact, Active
  <2>4. LineInv'
    BY Zenon DEF TypeOK, LineInv
  <2>5. ResultInv'
    BY ZenonT(30) DEF TypeOK, MutexInv, ActiveInv, LineInv, ResultInv, InTransact, Active
  <2>6. SendsInv'
    BY Zenon DEF TypeOK, SendsInv, StateFree
  <2>7. RetriesInv'
    BY Zenon DEF TypeOK, SendsInv, RetriesInv
  <2>8. ReplyIsOwn'
    BY ZenonT(60) DEF TypeOK, MutexInv, ResultInv, ReplyIsOwn, InTransact, Active
  <2>9. QED
    BY <2>1, <2>2, <2>3, <2>4, <2>5, <2>6, <2>7, <2>8, Zenon DEF IInv
<1>2. CASE CallUnaligned(c)
  <2> USE <1>2 DEF CallUnaligned, Outcome
  <2>1. TypeOK'
    BY DEF TypeOK, States, Outcomes, Verdicts
  <2>2. MutexInv'
    BY Zenon DEF TypeOK, MutexInv
  <2>3. ActiveInv'
    BY Zenon DEF TypeOK, MutexInv, ActiveInv, InTransact, Active
  <2>4. LineInv'
    BY Zenon DEF TypeOK, LineInv
  <2>5. ResultInv'
    BY Zenon DEF TypeOK, MutexInv, ResultInv, InTransact
  <2>6. SendsInv'
    BY Zenon DEF SendsInv, StateFree
  <2>7. RetriesInv'
    BY Zenon DEF RetriesInv
  <2>8. ReplyIsOwn'
    BY Zenon DEF TypeOK, ReplyIsOwn
  <2>9. QED
    BY <2>1, <2>2, <2>3, <2>4, <2>5, <2>6, <2>7, <2>8, Zenon DEF IInv
<1>3. CASE EnterCallers(c)
  <2> USE <1>3 DEF EnterCallers
  <2>1. TypeOK'
    BY DEF TypeOK, States, Outcomes, Verdicts
  <2>2. MutexInv'
    BY Zenon DEF TypeOK, MutexInv
  <2>3. ActiveInv'
    BY Zenon DEF TypeOK, MutexInv, ActiveInv, InTransact, Active
  <2>4. LineInv'
    BY Zenon DEF TypeOK, LineInv
  <2>5. ResultInv'
    BY ZenonT(60) DEF TypeOK, MutexInv, ActiveInv, LineInv, ResultInv, InTransact, Active
  <2>6. SendsInv'
    BY Zenon DEF TypeOK, SendsInv, StateFree
  <2>7. RetriesInv'
    BY Zenon DEF TypeOK, SendsInv, RetriesInv
  <2>8. ReplyIsOwn'
    BY Zenon DEF TypeOK, MutexInv, ResultInv, ReplyIsOwn, InTransact, Active
  <2>9. QED
    BY <2>1, <2>2, <2>3, <2>4, <2>5, <2>6, <2>7, <2>8, Zenon DEF IInv
<1>4. CASE Refused(c)
  <2> USE <1>4 DEF Refused, Finish, Outcome
  <2>1. TypeOK'
    BY DEF TypeOK, States, Outcomes, Verdicts
  <2>2. MutexInv'
    BY Zenon DEF TypeOK, MutexInv
  <2>3. ActiveInv'
    BY Zenon DEF TypeOK, MutexInv, ActiveInv, InTransact, Active
  <2>4. LineInv'
    BY Zenon DEF TypeOK, LineInv
  <2>5. ResultInv'
    BY ZenonT(30) DEF TypeOK, MutexInv, ActiveInv, LineInv, ResultInv, InTransact, Active
  <2>6. SendsInv'
    BY Zenon DEF TypeOK, SendsInv, StateFree
  <2>7. RetriesInv'
    BY Zenon DEF TypeOK, SendsInv, RetriesInv
  <2>8. ReplyIsOwn'
    BY Zenon DEF TypeOK, MutexInv, ResultInv, ReplyIsOwn, InTransact, Active
  <2>9. QED
    BY <2>1, <2>2, <2>3, <2>4, <2>5, <2>6, <2>7, <2>8, Zenon DEF IInv
<1>5. CASE Exhausted(c)
  <2> USE <1>5 DEF Exhausted, Finish, Fail, Outcome
  <2>1. TypeOK'
    BY Zenon DEF TypeOK, States, Outcomes, Verdicts
  <2>2. MutexInv'
    BY Zenon DEF TypeOK, MutexInv
  <2>3. ActiveInv'
    BY Zenon DEF TypeOK, MutexInv, ActiveInv, InTransact, Active
  <2>4. LineInv'
    BY Zenon DEF TypeOK, LineInv
  <2>5. ResultInv'
    BY Zenon DEF TypeOK, MutexInv, ActiveInv, LineInv, ResultInv, InTransact, Active
  <2>6. SendsInv'
    BY Zenon DEF TypeOK, SendsInv, StateFree
  <2>7. RetriesInv'
    BY Zenon DEF TypeOK, SendsInv, RetriesInv
  <2>8. ReplyIsOwn'
    BY ZenonT(60) DEF TypeOK, MutexInv, ResultInv, ReplyIsOwn, InTransact, Active
  <2>9. QED
    BY <2>1, <2>2, <2>3, <2>4, <2>5, <2>6, <2>7, <2>8, Zenon DEF IInv
<1>6. CASE Start(c)
  <2> USE <1>6 DEF Start, Outcome, IdsLeft
  <2>1. TypeOK'
    <3>1. wire' \in Commands \cup {NoWire}
      BY DEF TypeOK, Commands, Sessions, Active
    <3>2. result' \in Verdicts
      BY DEF TypeOK, Verdicts
    <3>3. request' \in 0 .. MaxRequest
      BY DEF TypeOK, Active
    <3>4. /\ pc' \in [Callers -> {"idle", "called", "entered", "waiting", "woken"}]
          /\ \A d \in Callers : pc'[d] # "idle" => op'[d] \in Ops
      BY Zenon DEF TypeOK
    <3>5. due' \in BOOLEAN /\ state' \in States
      BY Zenon DEF TypeOK, States
    <3>6. QED
      BY <3>1, <3>2, <3>3, <3>4, <3>5 DEF TypeOK
  <2>2. MutexInv'
    BY Zenon DEF TypeOK, MutexInv
  <2>3. ActiveInv'
    BY Zenon DEF TypeOK, MutexInv, ActiveInv, InTransact, Active
  <2>4. LineInv'
    BY DEF TypeOK, LineInv, Active, Commands
  <2>5. ResultInv'
    BY Zenon DEF TypeOK, MutexInv, ActiveInv, LineInv, ResultInv, InTransact, Active
  <2>6. SendsInv'
    BY Zenon DEF TypeOK, SendsInv, StateFree, MutexInv, ActiveInv, InTransact, Active
  <2>7. RetriesInv'
    BY DEF TypeOK, SendsInv, RetriesInv, Active
  <2>8. ReplyIsOwn'
    BY Zenon DEF TypeOK, MutexInv, ResultInv, ReplyIsOwn, InTransact, Active
  <2>9. QED
    BY <2>1, <2>2, <2>3, <2>4, <2>5, <2>6, <2>7, <2>8, Zenon DEF IInv
<1>7. CASE SpuriousWake(c)
  <2> USE <1>7 DEF SpuriousWake
  <2>1. TypeOK'
    BY DEF TypeOK, States, Outcomes, Verdicts
  <2>2. MutexInv'
    BY Zenon DEF TypeOK, MutexInv
  <2>3. ActiveInv'
    BY Zenon DEF TypeOK, MutexInv, ActiveInv, InTransact, Active
  <2>4. LineInv'
    BY Zenon DEF TypeOK, LineInv
  <2>5. ResultInv'
    BY Zenon DEF TypeOK, MutexInv, ResultInv, InTransact
  <2>6. SendsInv'
    BY Zenon DEF SendsInv, StateFree
  <2>7. RetriesInv'
    BY Zenon DEF RetriesInv
  <2>8. ReplyIsOwn'
    BY Zenon DEF TypeOK, ReplyIsOwn
  <2>9. QED
    BY <2>1, <2>2, <2>3, <2>4, <2>5, <2>6, <2>7, <2>8, Zenon DEF IInv
<1>8. CASE SleepAgain(c)
  <2> USE <1>8 DEF SleepAgain
  <2>1. TypeOK'
    BY DEF TypeOK, States, Outcomes, Verdicts
  <2>2. MutexInv'
    BY Zenon DEF TypeOK, MutexInv
  <2>3. ActiveInv'
    BY Zenon DEF TypeOK, MutexInv, ActiveInv, InTransact, Active
  <2>4. LineInv'
    BY Zenon DEF TypeOK, LineInv
  <2>5. ResultInv'
    BY Zenon DEF TypeOK, MutexInv, ResultInv, InTransact
  <2>6. SendsInv'
    BY Zenon DEF SendsInv, StateFree
  <2>7. RetriesInv'
    BY Zenon DEF RetriesInv
  <2>8. ReplyIsOwn'
    BY Zenon DEF TypeOK, ReplyIsOwn
  <2>9. QED
    BY <2>1, <2>2, <2>3, <2>4, <2>5, <2>6, <2>7, <2>8, Zenon DEF IInv
<1>9. CASE Return(c)
  <2> USE <1>9 DEF Return, Finish
  <2>1. TypeOK'
    BY DEF TypeOK, States, Outcomes, Verdicts
  <2>2. MutexInv'
    BY Zenon DEF TypeOK, MutexInv
  <2>3. ActiveInv'
    BY Zenon DEF TypeOK, MutexInv, ActiveInv, InTransact, Active
  <2>4. LineInv'
    BY Zenon DEF TypeOK, LineInv
  <2>5. ResultInv'
    BY Zenon DEF TypeOK, MutexInv, ActiveInv, LineInv, ResultInv, InTransact, Active
  <2>6. SendsInv'
    BY Zenon DEF TypeOK, SendsInv, StateFree
  <2>7. RetriesInv'
    BY Zenon DEF TypeOK, SendsInv, RetriesInv
  <2>8. ReplyIsOwn'
    BY Zenon DEF TypeOK, MutexInv, ResultInv, ReplyIsOwn, InTransact, Active, States
  <2>9. QED
    BY <2>1, <2>2, <2>3, <2>4, <2>5, <2>6, <2>7, <2>8, Zenon DEF IInv
<1>10. QED
  BY <1>1, <1>2, <1>3, <1>4, <1>5, <1>6, <1>7, <1>8, <1>9, Zenon DEF Caller

\* Every step of the worker thread preserves the invariant.
LEMMA WorkerIInv ==
  ASSUME IInv, Worker
  PROVE  IInv'
<1> USE ConstantsAssumption DEF IInv, txn, port, calls, line
<1>1. CASE BeginIteration
  BY FrameIInv, <1>1, Zenon DEF BeginIteration
<1>2. CASE StopWorker
  BY FrameIInv, <1>2, Zenon DEF StopWorker
<1>3. CASE EndIteration
  <2> USE <1>3 DEF EndIteration, Tick, RetriesLeft, Awaken, Outcome
  <2>1. TypeOK'
    <3>1. retries' \in 0 .. RetryCount
      BY DEF TypeOK
    <3>2. state' \in States /\ due' \in BOOLEAN
      BY Zenon DEF TypeOK, States
    <3>3. result' \in Verdicts
      BY Zenon DEF TypeOK, Verdicts
    <3>4. pc' \in [Callers -> {"idle", "called", "entered", "waiting", "woken"}]
      BY Zenon DEF TypeOK
    <3>5. \A c \in Callers : pc'[c] # "idle" => op'[c] \in Ops
      BY Zenon DEF TypeOK
    <3>6. QED
      BY <3>1, <3>2, <3>3, <3>4, <3>5, Zenon DEF TypeOK
  <2>2. MutexInv'
    BY Zenon DEF TypeOK, MutexInv
  <2>3. ActiveInv'
    BY Zenon DEF TypeOK, MutexInv, ActiveInv, InTransact, Active
  <2>4. LineInv'
    BY Zenon DEF TypeOK, LineInv
  <2>5. ResultInv'
    BY ZenonT(60) DEF TypeOK, MutexInv, ActiveInv, LineInv, ResultInv, InTransact, Active, States
  <2>6. SendsInv'
    BY Zenon DEF TypeOK, SendsInv, StateFree
  <2>7. RetriesInv'
    BY Zenon DEF TypeOK, SendsInv, RetriesInv
  <2>8. ReplyIsOwn'
    BY Zenon DEF TypeOK, MutexInv, ResultInv, ReplyIsOwn, InTransact, Active
  <2>9. QED
    BY <2>1, <2>2, <2>3, <2>4, <2>5, <2>6, <2>7, <2>8, Zenon DEF IInv
<1>4. CASE Send
  <2> USE <1>4 DEF Send, Awaken
  <2>1. TypeOK'
    <3>1. wire \in Commands
      BY DEF TypeOK, SendsInv, ActiveInv, Active, InTransact, NoWire
    <3>2. cmds' \in SUBSET Commands
      BY <3>1, Zenon DEF TypeOK
    <3>3. /\ pc' \in [Callers -> {"idle", "called", "entered", "waiting", "woken"}]
          /\ \A d \in Callers : pc'[d] # "idle" => op'[d] \in Ops
      BY Zenon DEF TypeOK
    <3>4. due' \in BOOLEAN /\ state' \in States
      BY Zenon DEF TypeOK, States
    <3>5. QED
      BY <3>2, <3>3, <3>4 DEF TypeOK
  <2>2. MutexInv'
    BY Zenon DEF TypeOK, MutexInv
  <2>3. ActiveInv'
    BY Zenon DEF TypeOK, MutexInv, ActiveInv, InTransact, Active, SendsInv
  <2>4. LineInv'
    BY DEF TypeOK, LineInv, SendsInv, ActiveInv, InTransact, Active
  <2>5. ResultInv'
    BY Zenon DEF TypeOK, MutexInv, ActiveInv, LineInv, ResultInv, InTransact, Active, SendsInv
  <2>6. SendsInv'
    BY Zenon DEF TypeOK, SendsInv, StateFree
  <2>7. RetriesInv'
    BY DEF TypeOK, SendsInv, RetriesInv
  <2>8. ReplyIsOwn'
    BY Zenon DEF TypeOK, MutexInv, ResultInv, ReplyIsOwn, InTransact, Active
  <2>9. QED
    BY <2>1, <2>2, <2>3, <2>4, <2>5, <2>6, <2>7, <2>8, Zenon DEF IInv
<1>5. CASE Catch
  <2> USE <1>5 DEF Catch, Fail, Awaken, Outcome
  <2>1. TypeOK'
    BY Zenon DEF TypeOK, States, Outcomes, Verdicts
  <2>2. MutexInv'
    BY Zenon DEF TypeOK, MutexInv
  <2>3. ActiveInv'
    BY Zenon DEF TypeOK, MutexInv, ActiveInv, InTransact, Active
  <2>4. LineInv'
    BY Zenon DEF TypeOK, LineInv
  <2>5. ResultInv'
    BY Zenon DEF TypeOK, MutexInv, ActiveInv, LineInv, ResultInv, InTransact, Active
  <2>6. SendsInv'
    BY Zenon DEF TypeOK, SendsInv, StateFree
  <2>7. RetriesInv'
    BY Zenon DEF TypeOK, SendsInv, RetriesInv
  <2>8. ReplyIsOwn'
    BY Zenon DEF TypeOK, MutexInv, ResultInv, ReplyIsOwn, InTransact, Active
  <2>9. QED
    BY <2>1, <2>2, <2>3, <2>4, <2>5, <2>6, <2>7, <2>8, Zenon DEF IInv
<1>6. CASE Disconnect
  BY FrameIInv, <1>6, Zenon DEF Disconnect
<1>7. CASE ReadFails
  BY FrameIInv, <1>7, Zenon DEF ReadFails
<1>8. CASE SendFails
  <2> USE <1>8 DEF SendFails
  <2>1. TypeOK'
    <3>1. wire \in Commands
      BY DEF TypeOK, SendsInv, ActiveInv, Active, InTransact, NoWire
    <3>2. QED
      BY <3>1, Zenon DEF TypeOK
  <2>2. MutexInv'
    BY Zenon DEF TypeOK, MutexInv
  <2>3. ActiveInv'
    BY Zenon DEF TypeOK, MutexInv, ActiveInv, InTransact, Active
  <2>4. LineInv'
    BY DEF TypeOK, LineInv, SendsInv, ActiveInv, InTransact, Active
  <2>5. ResultInv'
    BY Zenon DEF TypeOK, MutexInv, ActiveInv, LineInv, ResultInv, InTransact, Active
  <2>6. SendsInv'
    BY Zenon DEF TypeOK, SendsInv, StateFree
  <2>7. RetriesInv'
    BY Zenon DEF TypeOK, SendsInv, RetriesInv
  <2>8. ReplyIsOwn'
    BY Zenon DEF TypeOK, MutexInv, ResultInv, ReplyIsOwn, InTransact, Active
  <2>9. QED
    BY <2>1, <2>2, <2>3, <2>4, <2>5, <2>6, <2>7, <2>8, Zenon DEF IInv
<1>9. ASSUME NEW f \in rsps, Receive(f) PROVE IInv'
  <2> USE <1>9 DEF Receive, Matches, Outcome
  <2>1. TypeOK'
    BY ZenonT(60) DEF TypeOK, States, Outcomes, Verdicts, Responses
  <2>2. MutexInv'
    BY Zenon DEF TypeOK, MutexInv
  <2>3. ActiveInv'
    BY Zenon DEF TypeOK, MutexInv, ActiveInv, InTransact, Active
  <2>4. LineInv'
    BY Zenon DEF TypeOK, LineInv
  <2>5. ResultInv'
    <3>1. PICK c \in Callers : /\ callers = c
                              /\ wire = [session |-> "mine", request |-> request, op |-> op[c]]
      BY Zenon DEF ActiveInv
    <3>2. PICK m \in cmds : m.request = f.request /\ m.op = f.value
      BY Zenon DEF LineInv
    <3>3. f.value = op[c]
      BY <3>1, <3>2 DEF LineInv
    <3>4. \A d \in Callers : InTransact(d) => d = c
      BY <3>1, Zenon DEF MutexInv, InTransact
    <3>5. QED
      BY <3>3, <3>4, Zenon DEF ResultInv, InTransact
  <2>6. SendsInv'
    BY Zenon DEF TypeOK, SendsInv, StateFree, Active
  <2>7. RetriesInv'
    BY Zenon DEF TypeOK, SendsInv, RetriesInv
  <2>8. ReplyIsOwn'
    BY Zenon DEF TypeOK, MutexInv, ResultInv, ReplyIsOwn, InTransact, Active
  <2>9. QED
    BY <2>1, <2>2, <2>3, <2>4, <2>5, <2>6, <2>7, <2>8, Zenon DEF IInv
<1>10. QED
  BY <1>1, <1>2, <1>3, <1>4, <1>5, <1>6, <1>7, <1>8, <1>9, Zenon DEF Worker

\* Every step of the thread that closes the port, of the clock and of the
\* firmware preserves the invariant.
LEMMA OtherIInv ==
  ASSUME IInv, Close \/ Joined \/ Elapse \/ Firmware
  PROVE  IInv'
<1> USE ConstantsAssumption DEF IInv, txn, port, calls, line
<1>1. CASE Close
  <2> USE <1>1 DEF Close, Fail, Awaken, Outcome, CloseAborts
  <2>1. TypeOK'
    BY DEF TypeOK, States, Outcomes, Verdicts
  <2>2. MutexInv'
    BY Zenon DEF TypeOK, MutexInv
  <2>3. ActiveInv'
    BY Zenon DEF TypeOK, MutexInv, ActiveInv, InTransact, Active
  <2>4. LineInv'
    BY Zenon DEF TypeOK, LineInv
  <2>5. ResultInv'
    BY DEF TypeOK, MutexInv, ActiveInv, LineInv, ResultInv, InTransact, Active
  <2>6. SendsInv'
    BY Zenon DEF TypeOK, SendsInv, StateFree
  <2>7. RetriesInv'
    BY DEF TypeOK, SendsInv, RetriesInv
  <2>8. ReplyIsOwn'
    BY Zenon DEF TypeOK, MutexInv, ResultInv, ReplyIsOwn, InTransact, Active
  <2>9. QED
    BY <2>1, <2>2, <2>3, <2>4, <2>5, <2>6, <2>7, <2>8, Zenon DEF IInv
<1>2. CASE Joined
  BY FrameIInv, <1>2, Zenon DEF Joined
<1>3. CASE Elapse
  BY FrameIInv, <1>3, Zenon DEF Elapse
<1>4. CASE Firmware
  <2> USE <1>4 DEF Firmware
  <2>1. TypeOK'
    <3>1. rsps' \in SUBSET Responses
      BY DEF TypeOK, Commands, Responses, Sessions
    <3>2. QED
      BY <3>1, ZenonT(30) DEF TypeOK
  <2>2. MutexInv'
    BY Zenon DEF TypeOK, MutexInv
  <2>3. ActiveInv'
    BY Zenon DEF TypeOK, MutexInv, ActiveInv, InTransact, Active
  <2>4. LineInv'
    BY DEF TypeOK, LineInv, Commands
  <2>5. ResultInv'
    BY ZenonT(30) DEF TypeOK, MutexInv, ActiveInv, LineInv, ResultInv, InTransact, Active
  <2>6. SendsInv'
    BY Zenon DEF TypeOK, SendsInv, StateFree
  <2>7. RetriesInv'
    BY Zenon DEF TypeOK, SendsInv, RetriesInv
  <2>8. ReplyIsOwn'
    BY Zenon DEF TypeOK, MutexInv, ResultInv, ReplyIsOwn, InTransact, Active
  <2>9. QED
    BY <2>1, <2>2, <2>3, <2>4, <2>5, <2>6, <2>7, <2>8, Zenon DEF IInv
<1>5. QED
  BY <1>1, <1>2, <1>3, <1>4, Zenon

\* The invariant is inductive.
LEMMA StepIInv == IInv /\ [Next]_vars => IInv'
<1> SUFFICES ASSUME IInv, [Next]_vars PROVE IInv'
  BY Zenon
<1>1. CASE UNCHANGED vars
  <2>1. /\ UNCHANGED <<state, request, retries, wire, result, sends, stopping, failure>>
        /\ UNCHANGED <<calls, line>>
    BY <1>1, Zenon DEF vars, txn, port, calls, line
  <2>2. worker' = worker /\ due' = due /\ closer' = closer
    BY <1>1, Zenon DEF vars, txn, port
  <2>3. QED
    BY <2>1, <2>2, FrameIInv, Zenon
<1>2. QED
  BY <1>1, CallerIInv, WorkerIInv, OtherIInv, Zenon DEF Next

-----------------------------------------------------------------------------
(***************************************************************************)
(* Theorems.                                                               *)
(***************************************************************************)

\* The inductive invariant holds in every reachable state of the bridge.
THEOREM Invariance == Spec => []IInv
<1>1. Init => IInv
  BY InitIInv, Zenon
<1>2. IInv /\ [Next]_vars => IInv'
  BY StepIInv, Zenon
<1>3. QED
  BY <1>1, <1>2, PTL DEF Spec

\* The state of Transaction, Impl and the callers is well typed; request_
\* never passes its maximum and retries_ never passes retry_count.
THEOREM TypeCorrect == Spec => []TypeOK
<1>1. IInv => TypeOK
  BY Zenon DEF IInv
<1>2. QED
  BY <1>1, Invariance, PTL

\* A reply that completes a call of transact answers the command of that call.
THEOREM RepliesAreOwn == Spec => []ReplyIsOwn
<1>1. IInv => ReplyIsOwn
  BY Zenon DEF IInv
<1>2. QED
  BY <1>1, Invariance, PTL

\* A request is sent at most retry_count + 1 times, and times out only after
\* the last of these sends.
THEOREM RetriesBounded == Spec => []RetryBudget
<1>1. IInv => RetryBudget
  BY Zenon DEF IInv, RetryBudget
<1>2. QED
  BY <1>1, Invariance, PTL

\* The worker only ever sends the command of the caller asleep in transact.
THEOREM NoInterleaving == Spec => []SendIsHolders
<1>1. IInv => SendIsHolders
  BY Zenon DEF IInv, SendsInv, ActiveInv, Active, InTransact, SendIsHolders
<1>2. QED
  BY <1>1, Invariance, PTL

\* A finished result that its caller has not taken yet is replaced only by the
\* transport failure that ends the session.
THEOREM ResultIsKept == Spec => ResultKept
<1> DEFINE Kept == \A c \in Callers :
        /\ pc[c] \in {"waiting", "woken"} /\ pc'[c] \in {"waiting", "woken"}
        /\ state = "Done" /\ result' # result
        => failure' /\ result'.kind = "Transport"
<1>1. IInv /\ [Next]_vars => [Kept]_vars
  <2> SUFFICES ASSUME IInv, [Next]_vars,
                      NEW d \in Callers,
                      pc[d] \in {"waiting", "woken"}, pc'[d] \in {"waiting", "woken"},
                      state = "Done", result' # result
               PROVE  failure' /\ result'.kind = "Transport"
    BY Zenon
  <2>1. callers = d
    BY Zenon DEF IInv, MutexInv
  <2>2. ASSUME NEW c \in Callers, Caller(c) PROVE FALSE
    <3>1. pc[c] # "entered"
      BY <2>1, Zenon DEF IInv, MutexInv
    <3>2. QED
      BY <2>2, <3>1, Zenon DEF Caller, Call, CallUnaligned, EnterCallers, Refused, Exhausted,
         Start, SpuriousWake, SleepAgain, Return, txn
  <2>3. CASE Worker
    <3>1. ~Active
      BY Zenon DEF Active
    <3>2. ASSUME NEW f \in rsps, Receive(f) PROVE FALSE
      BY <3>1, <3>2, Zenon DEF Receive
    <3>3. CASE EndIteration
      BY <3>3, Zenon DEF EndIteration, Tick
    <3>4. CASE Catch
      <4>1. failure' /\ result' = Outcome("Transport", None)
        BY <3>4, Zenon DEF Catch, Fail
      <4>2. Outcome("Transport", None).kind = "Transport"
        BY Zenon DEF Outcome
      <4>3. QED
        BY <4>1, <4>2, Zenon
    <3>5. QED
      BY <2>3, <3>2, <3>3, <3>4, Zenon DEF Worker, BeginIteration, StopWorker, Send, Disconnect,
         ReadFails, SendFails, txn
  <2>4. CASE Close
    BY <2>4, Zenon DEF Close, CloseAborts, Active
  <2>5. QED
    BY <2>2, <2>3, <2>4, Zenon DEF Next, Joined, Elapse, Firmware, vars, txn
<1>2. QED
  BY <1>1, Invariance, PTL DEF Spec, ResultKept

-----------------------------------------------------------------------------
(***************************************************************************)
(* The bridge implements the safety part of UartPort.                      *)
(***************************************************************************)

\* Every behaviour of the bridge is, seen through its callers, a behaviour of
\* the session that serves one call at a time and answers it with its own
\* reply or a transport error.
THEOREM PortRefinement == Spec => Port!PortSafety
<1>1. Init => Port!PortInit
  BY Zenon DEF Init, Port!PortInit, Port!NoReply, Outcome
<1>2. IInv /\ [Next]_vars => [Port!PortNext]_(Port!portVars)
  <2> SUFFICES ASSUME IInv, [Next]_vars
               PROVE  Port!PortNext \/ UNCHANGED Port!portVars
    BY Zenon
  <2>1. TypeOK /\ MutexInv /\ ReplyIsOwn /\ ResultInv
    BY Zenon DEF IInv
  <2>2. ASSUME NEW c \in Callers, Call(c) PROVE Port!Ask(c)
    BY <2>1, <2>2, ConstantsAssumption, Zenon DEF Call, Port!Ask, Port!NoReply, Outcome, TypeOK
  <2>3. ASSUME NEW c \in Callers, CallUnaligned(c) PROVE Port!Refuse(c)
    BY <2>1, <2>3, Zenon DEF CallUnaligned, Port!Refuse, Outcome, TypeOK
  <2>4. ASSUME NEW c \in Callers, EnterCallers(c) PROVE Port!Serve(c)
    <3>1. \A d \in Callers : pc[d] \in {"idle", "called"}
      BY <2>1, <2>4, ConstantsAssumption, Zenon DEF EnterCallers, MutexInv, TypeOK
    <3>2. QED
      BY <2>1, <2>4, <3>1, Zenon DEF EnterCallers, Port!Serve, TypeOK
  <2>5. ASSUME NEW c \in Callers, NEW a, pc[c] \in {"entered", "woken"},
               Finish(c, a), UNCHANGED op, a \in Port!Answers(c)
        PROVE  Port!Answer(c)
    BY <2>1, <2>5, Zenon DEF Finish, Port!Answer, TypeOK
  <2>6. ASSUME NEW c \in Callers PROVE Outcome("Transport", None) \in Port!Answers(c)
    BY Zenon DEF Outcome, Port!Answers
  <2>7. ASSUME NEW c \in Callers, Refused(c) \/ Exhausted(c) PROVE Port!Answer(c)
    BY <2>5, <2>6, <2>7 DEF Refused, Exhausted
  <2>8. ASSUME NEW c \in Callers, Return(c) PROVE Port!Answer(c)
    <3>1. InTransact(c) /\ state = "Done"
      BY <2>1, <2>8, Zenon DEF Return, ResultInv, InTransact, Active, TypeOK, States
    <3>2. result \in Port!Answers(c)
      BY <2>1, <3>1, Zenon DEF ResultInv, TypeOK, Verdicts, Port!Answers
    <3>3. QED
      BY <2>5, <2>8, <3>2 DEF Return
  <2>9. ASSUME NEW c \in Callers, Start(c) \/ SpuriousWake(c) \/ SleepAgain(c)
        PROVE  UNCHANGED Port!portVars
    BY <2>1, <2>9, Zenon DEF Start, SpuriousWake, SleepAgain, Port!portVars, TypeOK
  <2>10. ASSUME pc' = pc \/ pc' = Awaken(pc), UNCHANGED <<op, answer>>
         PROVE  UNCHANGED Port!portVars
    BY <2>1, <2>10, Zenon DEF Awaken, Port!portVars, TypeOK
  <2>11. CASE Worker
    BY Zenon, <2>10, <2>11 DEF Worker, BeginIteration, StopWorker, EndIteration, Send, Catch,
       Disconnect, ReadFails, SendFails, Receive, calls
  <2>12. CASE Close \/ Joined \/ Elapse \/ Firmware \/ UNCHANGED vars
    BY <2>10, <2>12, Zenon DEF Close, Joined, Elapse, Firmware, calls, vars
  <2>13. QED
    BY <2>2, <2>3, <2>4, <2>7, <2>8, <2>9, <2>11, <2>12, Zenon
       DEF Next, Caller, Port!PortNext
<1>3. QED
  BY <1>1, <1>2, Invariance, PTL DEF Spec, Port!PortSafety

-----------------------------------------------------------------------------
(***************************************************************************)
(* The session's log file.                                                 *)
(***************************************************************************)
\* The writer's chunk exists only while it writes; it leaves with nothing
\* pending, after an error or after stopping_ was set, and stopping_ is set only
\* when nobody appends any more.
LogThreadsInv ==
  /\ writer \in {"wait", "exited"} => chunk = 0
  /\ writer = "exited" => pending = 0 /\ (error \/ logStopping)
  /\ logStopping => source = "joined"
  /\ logCloser = "closed" => writer = "exited"

\* The inductive invariant.
LogIInv == Accounted /\ LogThreadsInv

-----------------------------------------------------------------------------
\* The invariant holds when the log is opened.
LEMMA LogInitIInv ==
  ASSUME LogInit
  PROVE  LogIInv
<1>1. LogTypeOK
  <2>1. error \in BOOLEAN /\ logStopping \in BOOLEAN
    BY Zenon DEF LogInit
  <2>2. QED
    BY <2>1, SizesAssumption DEF LogInit, LogTypeOK
<1>2. LogThreadsInv
  BY Zenon DEF LogInit, LogThreadsInv
<1>3. QED
  BY <1>1, <1>2 DEF LogInit, LogIInv, Accounted

\* Every step of the UART worker, the log thread and the closer preserves it.
LEMMA LogStepIInv ==
  ASSUME LogIInv, [LogNext]_logVars
  PROVE  LogIInv'
<1> USE SizesAssumption DEF LogIInv, Accounted, LogTypeOK, LogThreadsInv
<1>1. ASSUME NEW n \in 1 .. MaxText, Append(n) PROVE LogIInv'
  <2> USE <1>1 DEF Append, Fits
  <2>1. CASE Fits(n)
    BY <2>1
  <2>2. CASE ~ Fits(n)
    BY <2>2
  <2>3. QED
    BY <2>1, <2>2
<1>2. CASE Swap
  BY <1>2 DEF Swap
<1>3. CASE Exit
  BY <1>3 DEF Exit
<1>4. ASSUME NEW k \in 1 .. MaxPending, Write(k) PROVE LogIInv'
  BY <1>4 DEF Write
<1>5. CASE WriteFails
  BY <1>5 DEF WriteFails
<1>6. CASE RecordError
  BY <1>6 DEF RecordError
<1>7. CASE JoinSource
  BY <1>7 DEF JoinSource
<1>8. CASE CloseLog
  BY <1>8 DEF CloseLog
<1>9. CASE LogJoined
  BY <1>9 DEF LogJoined
<1>10. CASE UNCHANGED logVars
  BY <1>10 DEF logVars
<1>11. QED
  BY <1>1, <1>2, <1>3, <1>4, <1>5, <1>6, <1>7, <1>8, <1>9, <1>10, Zenon
     DEF LogNext, Finished

\* The invariant holds in every reachable state.
THEOREM LogInvariance == LogSpec => []LogIInv
<1>1. LogInit => LogIInv
  BY LogInitIInv, Zenon
<1>2. LogIInv /\ [LogNext]_logVars => LogIInv'
  BY LogStepIInv, Zenon
<1> QED
  BY <1>1, <1>2, PTL DEF LogSpec

\* No byte is lost uncounted: what append was given is in the file, in one of
\* the two buffers or in dropped_, for any MAX_PENDING and any texts.
THEOREM NothingUncounted == LogSpec => []Accounted
<1>1. LogIInv => Accounted
  BY DEF LogIInv
<1>2. QED
  BY <1>1, LogInvariance, PTL

\* When LogFile::close has returned, what is not reported as dropped is in
\* the file, whichever of the threads was ahead and whether or not a write
\* failed.
THEOREM Flushed == LogSpec => []FlushedAtClose
<1>1. LogIInv => FlushedAtClose
  BY DEF LogIInv, Accounted, LogTypeOK, LogThreadsInv, FlushedAtClose
<1>2. QED
  BY <1>1, LogInvariance, PTL
=============================================================================
