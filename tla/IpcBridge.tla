------------------------------ MODULE IpcBridge ------------------------------
(***************************************************************************)
(* The host side of the firmware IPC slot, IpcBridge::transact in          *)
(* isml_diag/src/core/IpcBridge.cpp.  A slot holds one request: threads    *)
(* write its words one at a time, the sequence number last, and poll the   *)
(* acknowledge word.  The firmware (external, from how the host uses it)   *)
(* serves the slot when seq_num differs from ack_num.                      *)
(***************************************************************************)
EXTENDS Naturals

CONSTANTS
  Threads,
  Requests,         \* the requests threads make: [op, addr, data]
  SeqMod,           \* 2^32
  None

ASSUME ConstantsAssumption ==
  /\ SeqMod \in Nat \ {0, 1}
  /\ None \notin Threads
  /\ \A r \in Requests : r = [op |-> r.op, addr |-> r.addr, data |-> r.data]

VARIABLES
  slot,             \* the words of the slot
  fw,               \* the request the firmware is serving, and its step
  lock, pc, req, seq,
  behind,           \* history: the firmware owed an answer when the call began
  result            \* the caller's status and value_out

vars == <<slot, fw, lock, pc, req, seq, behind, result>>

Seqs == 0 .. SeqMod - 1
Next1(n) == (n + 1) % SeqMod

\* What the firmware leaves in the value word: its answer to a request, or
\* one of its IPC_ERR_* codes.
Answers == [to : Requests, ok : BOOLEAN]

\* The request in the slot as the firmware reads it.
InSlot == [op |-> slot.op, addr |-> slot.addr, data |-> slot.value]

\* Words in range, and lock_ held by the one thread that uses the slot.
TypeOK ==
  /\ slot.seq \in Seqs /\ slot.ack \in Seqs
  /\ fw.step \in {"idle", "busy", "replied"} /\ fw.seq \in Seqs
  /\ lock \in Threads \cup {None}
  /\ \A t \in Threads :
       /\ seq[t] \in Seqs
       /\ pc[t] \notin {"idle", "lock"} => lock = t

Init ==
  /\ \E r \in Requests, n \in Seqs :
       slot = [seq |-> n, ack |-> n, op |-> r.op, addr |-> r.addr, value |-> r.data]
  /\ fw = [step |-> "idle", seq |-> 0, req |-> None, ok |-> TRUE]
  /\ lock = None
  /\ pc = [t \in Threads |-> "idle"]
  /\ req = [t \in Threads |-> None]
  /\ seq = [t \in Threads |-> 0]
  /\ behind = [t \in Threads |-> FALSE]
  /\ result = [t \in Threads |-> None]

-----------------------------------------------------------------------------
Go(t, step) == pc' = [pc EXCEPT ![t] = step]

Call(t, r) ==
  /\ pc[t] = "idle"
  /\ req' = [req EXCEPT ![t] = r]
  /\ result' = [result EXCEPT ![t] = None]
  /\ Go(t, "lock")
  /\ UNCHANGED <<slot, fw, lock, seq, behind>>

\* std::lock_guard on lock_.
Unlocked == lock = None

BugSeqAfter == slot.ack

\* "seq = last_ack + 1."
SeqAfter == Next1(slot.ack)

Acquire(t) ==
  /\ pc[t] = "lock" /\ Unlocked
  /\ lock' = t
  /\ seq' = [seq EXCEPT ![t] = SeqAfter]
  /\ behind' = [behind EXCEPT ![t] = slot.seq # slot.ack \/ fw.step # "idle"]
  /\ Go(t, "value")
  /\ UNCHANGED <<slot, fw, req, result>>

\* "Payload first, seq_num last (doorbell)."
Put(t, from, to, word, v) ==
  /\ pc[t] = from
  /\ slot' = [slot EXCEPT ![word] = v]
  /\ Go(t, to)
  /\ UNCHANGED <<fw, lock, req, seq, behind, result>>

BugSend(t) ==
  \/ Put(t, "value", "addr", "value", req[t].data)
  \/ Put(t, "addr", "doorbell", "addr", req[t].addr)
  \/ Put(t, "doorbell", "op", "seq", seq[t])
  \/ Put(t, "op", "poll", "op", req[t].op)

Send(t) ==
  \/ Put(t, "value", "addr", "value", req[t].data)
  \/ Put(t, "addr", "op", "addr", req[t].addr)
  \/ Put(t, "op", "doorbell", "op", req[t].op)
  \/ Put(t, "doorbell", "poll", "seq", seq[t])

\* transact returns.
Finish(t, r) ==
  /\ result' = [result EXCEPT ![t] = r]
  /\ lock' = None
  /\ req' = [req EXCEPT ![t] = None]
  /\ seq' = [seq EXCEPT ![t] = 0]
  /\ Go(t, "idle")
  /\ UNCHANGED <<slot, fw, behind>>

\* The ack word is read, then the value word.
Acked(t) ==
  /\ pc[t] = "poll" /\ slot.ack = seq[t]
  /\ Go(t, "fetch")
  /\ UNCHANGED <<slot, fw, lock, req, seq, behind, result>>

\* Ok, whatever the value says: the switch over IPC_ERR_* is commented out.
Fetch(t) ==
  /\ pc[t] = "fetch"
  /\ Finish(t, [status |-> "Ok", value |-> slot.value, of |-> req[t]])

BugTimeout(t) == FALSE

\* poll_max spins or the deadline, on a read that found another ack.
Timeout(t) ==
  /\ pc[t] = "poll" /\ slot.ack # seq[t]
  /\ Finish(t, [status |-> "ErrTimeout", value |-> None, of |-> req[t]])

-----------------------------------------------------------------------------
\* The firmware takes the request, answers in the value word, acknowledges.
Take ==
  /\ fw.step = "idle" /\ slot.seq # slot.ack
  /\ \E ok \in BOOLEAN :
       fw' = [step |-> "busy", seq |-> slot.seq, req |-> InSlot, ok |-> ok]
  /\ UNCHANGED <<slot, lock, pc, req, seq, behind, result>>

Answer ==
  /\ fw.step = "busy"
  /\ slot' = [slot EXCEPT !.value = [to |-> fw.req, ok |-> fw.ok]]
  /\ fw' = [fw EXCEPT !.step = "replied"]
  /\ UNCHANGED <<lock, pc, req, seq, behind, result>>

Ack ==
  /\ fw.step = "replied"
  /\ slot' = [slot EXCEPT !.ack = fw.seq]
  /\ fw' = [step |-> "idle", seq |-> 0, req |-> None, ok |-> TRUE]
  /\ UNCHANGED <<lock, pc, req, seq, behind, result>>

Transact(t) == Send(t) \/ Acked(t) \/ Fetch(t) \/ Timeout(t)

Next ==
  \/ \E t \in Threads :
       \/ \E r \in Requests : Call(t, r)
       \/ Acquire(t) \/ Transact(t)
  \/ Take \/ Answer \/ Ack

Spec == Init /\ [][Next]_vars

\* The calling thread runs and its poll is bounded; nothing is assumed of
\* the firmware.
FairSpec ==
  Spec /\ \A t \in Threads : WF_vars(Transact(t)) /\ SF_vars(Acquire(t))
-----------------------------------------------------------------------------
\* A call that found the slot at rest and returns Ok got the firmware's
\* answer to its own request, also after earlier calls timed out.
AnswerIsOwn ==
  \A t \in Threads :
    result[t] # None /\ ~ behind[t] /\ result[t].status = "Ok" =>
      result[t].value \in [to : {result[t].of}, ok : BOOLEAN]

\* State in range, and the firmware serves only requests some caller made: a torn mixture of two
\* is taken only when a call overwrote a request it had not answered.
RequestWhole ==
  /\ TypeOK
  /\ fw.req # None /\ fw.req \notin Requests => \E t \in Threads : behind[t]

\* Every call returns, whether or not the firmware runs.
TransactReturns == \A t \in Threads : pc[t] = "lock" ~> pc[t] = "idle"

\* "wait until the firmware acks our seq": Ok means this request was answered.
OkIsAnswered ==
  \A t \in Threads :
    result[t] # None /\ result[t].status = "Ok" =>
      result[t].value \in [to : {result[t].of}, ok : BOOLEAN]
=============================================================================
