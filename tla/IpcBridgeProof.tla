---------------------------- MODULE IpcBridgeProof ----------------------------
(***************************************************************************)
(* Proofs about IpcBridge for any threads, requests and sequence modulus.  *)
(***************************************************************************)
EXTENDS IpcBridge, TLAPS

-----------------------------------------------------------------------------
Pcs == {"idle", "lock", "value", "addr", "op", "doorbell", "poll", "fetch"}

\* The shape of the state.
Shape ==
  /\ slot = [seq |-> slot.seq, ack |-> slot.ack, op |-> slot.op,
             addr |-> slot.addr, value |-> slot.value]
  /\ fw = [step |-> fw.step, seq |-> fw.seq, req |-> fw.req, ok |-> fw.ok]
  /\ fw.ok \in BOOLEAN
  /\ pc \in [Threads -> Pcs]
  /\ DOMAIN req = Threads /\ DOMAIN result = Threads
  /\ req = [t \in Threads |-> req[t]] /\ result = [t \in Threads |-> result[t]]
  /\ seq \in [Threads -> Seqs]
  /\ behind \in [Threads -> BOOLEAN]
  /\ \A t \in Threads : pc[t] # "idle" => req[t] \in Requests /\ result[t] = None

\* The slot is at rest: nothing asked, nothing being served.
AtRest == slot.seq = slot.ack /\ fw.step = "idle"

\* The value word answers r.
Answered(r) == slot.value \in [to : {r}, ok : BOOLEAN]

\* A call that found the slot at rest, up to its doorbell: the words it wrote.
Writing(t) ==
  /\ AtRest /\ seq[t] = Next1(slot.ack)
  /\ pc[t] \in {"addr", "op", "doorbell"} => slot.value = req[t].data
  /\ pc[t] \in {"op", "doorbell"} => slot.addr = req[t].addr
  /\ pc[t] = "doorbell" => slot.op = req[t].op

\* And after it: its request waits, is being served, or has been answered.
Asked(t) ==
  /\ slot.seq = seq[t]
  /\ \/ fw.step = "idle" /\ slot.ack # seq[t] /\ InSlot = req[t]
     \/ /\ fw.step \in {"busy", "replied"} /\ slot.ack # seq[t]
        /\ fw.seq = seq[t] /\ fw.req = req[t]
        /\ fw.step = "replied" => Answered(req[t])
     \/ fw.step = "idle" /\ slot.ack = seq[t] /\ Answered(req[t])

CallInv(t) ==
  ~ behind[t] =>
    /\ pc[t] \in {"value", "addr", "op", "doorbell"} => Writing(t)
    /\ pc[t] \in {"poll", "fetch"} => Asked(t)
    /\ pc[t] = "fetch" => slot.ack = seq[t]

\* Some call since began on an unanswered request.
Overrun == \E t \in Threads : behind[t]

\* The firmware's view of the slot, as long as no call overran it.
FwInv ==
  /\ fw.step = "idle" => fw.req = None
  /\ fw.step # "idle" => Overrun \/ fw.req \in Requests
  /\ fw.step # "idle" => Overrun \/ fw.seq = slot.seq
  /\ ~ AtRest /\ fw.step = "idle" => Overrun \/ InSlot \in Requests

\* The inductive invariant.
IInv ==
  /\ TypeOK /\ Shape /\ FwInv /\ AnswerIsOwn
  /\ \A t \in Threads : CallInv(t)

-----------------------------------------------------------------------------
(***************************************************************************)
(* Lemmas about the words of the slot.                                     *)
(***************************************************************************)

\* Writing the value word leaves the others alone.
LEMMA PutValue ==
  ASSUME Shape, NEW v, slot' = [slot EXCEPT !["value"] = v]
  PROVE  slot' = [seq |-> slot.seq, ack |-> slot.ack, op |-> slot.op,
                  addr |-> slot.addr, value |-> v]
  BY Zenon DEF Shape

\* So does writing the address word.
LEMMA PutAddr ==
  ASSUME Shape, NEW v, slot' = [slot EXCEPT !["addr"] = v]
  PROVE  slot' = [seq |-> slot.seq, ack |-> slot.ack, op |-> slot.op,
                  addr |-> v, value |-> slot.value]
  BY Zenon DEF Shape

\* So does writing the operation word.
LEMMA PutOp ==
  ASSUME Shape, NEW v, slot' = [slot EXCEPT !["op"] = v]
  PROVE  slot' = [seq |-> slot.seq, ack |-> slot.ack, op |-> v,
                  addr |-> slot.addr, value |-> slot.value]
  BY Zenon DEF Shape

\* So does writing the sequence number.
LEMMA PutSeq ==
  ASSUME Shape, NEW v, slot' = [slot EXCEPT !["seq"] = v]
  PROVE  slot' = [seq |-> v, ack |-> slot.ack, op |-> slot.op,
                  addr |-> slot.addr, value |-> slot.value]
  BY Zenon DEF Shape

\* The next sequence number is in range and another one.
LEMMA Next1Facts ==
  ASSUME NEW n \in Seqs
  PROVE  Next1(n) \in Seqs /\ Next1(n) # n
  BY ConstantsAssumption, SMTT(30) DEF Seqs, Next1

-----------------------------------------------------------------------------
(***************************************************************************)
(* Every action keeps the inductive invariant.                             *)
(***************************************************************************)

\* The slot starts at rest.
LEMMA InitIInv == Init => IInv
<1> SUFFICES ASSUME Init PROVE IInv
  BY Zenon
<1>1. PICK r \in Requests, n \in Seqs :
        slot = [seq |-> n, ack |-> n, op |-> r.op, addr |-> r.addr, value |-> r.data]
  BY Zenon DEF Init
<1>2. /\ fw = [step |-> "idle", seq |-> 0, req |-> None, ok |-> TRUE]
      /\ lock = None /\ pc = [t \in Threads |-> "idle"]
      /\ req = [t \in Threads |-> None] /\ seq = [t \in Threads |-> 0]
      /\ behind = [t \in Threads |-> FALSE] /\ result = [t \in Threads |-> None]
  BY Zenon DEF Init
<1>3. 0 \in Seqs
  BY ConstantsAssumption DEF Seqs
<1>4. TypeOK
  BY <1>1, <1>2, <1>3, Zenon DEF TypeOK
<1>5. Shape
  <2>1. behind \in [Threads -> BOOLEAN] /\ fw.ok \in BOOLEAN
    BY <1>2, Zenon
  <2>2. seq \in [Threads -> Seqs] /\ pc \in [Threads -> Pcs]
    BY <1>2, <1>3, Zenon DEF Pcs
  <2>3. QED
    BY <1>1, <1>2, <2>1, <2>2, Zenon DEF Shape
<1>6. FwInv
  BY <1>1, <1>2, Zenon DEF FwInv, AtRest
<1>7. AnswerIsOwn
  BY <1>2, Zenon DEF AnswerIsOwn
<1>8. \A t \in Threads : CallInv(t)
  BY <1>2, Zenon DEF CallInv
<1>9. QED
  BY <1>4, <1>5, <1>6, <1>7, <1>8, Zenon DEF IInv

\* A call waits for the lock.
LEMMA CallIInv ==
  ASSUME IInv, NEW t \in Threads, NEW r \in Requests, Call(t, r)
  PROVE  IInv'
<1>1. /\ TypeOK /\ Shape /\ FwInv /\ AnswerIsOwn /\ pc[t] = "idle"
      /\ req' = [req EXCEPT ![t] = r] /\ result' = [result EXCEPT ![t] = None]
      /\ pc' = [pc EXCEPT ![t] = "lock"]
      /\ UNCHANGED <<slot, fw, lock, seq, behind>>
  BY Zenon DEF IInv, Call, Go
<1>2. /\ pc'[t] = "lock" /\ req'[t] = r /\ result'[t] = None
      /\ \A u \in Threads \ {t} : UNCHANGED <<pc[u], req[u], result[u]>>
  BY <1>1, Zenon DEF Shape
<1>3. TypeOK'
  BY <1>1, <1>2, Zenon DEF TypeOK
<1>4. Shape'
  BY <1>1, <1>2, Zenon DEF Shape, Pcs
<1>5. FwInv'
  BY <1>1, Zenon DEF FwInv, AtRest, Overrun, InSlot
<1>6. AnswerIsOwn'
  BY <1>1, <1>2, ZenonT(60) DEF AnswerIsOwn
<1>7. ASSUME NEW u \in Threads PROVE CallInv(u)'
  BY <1>1, <1>2 DEF IInv, CallInv, Writing, Asked, Answered, AtRest, InSlot
<1>8. QED
  BY <1>3, <1>4, <1>5, <1>6, <1>7, Zenon DEF IInv

\* A call begins: it is behind, or the slot is at rest.
LEMMA AcquireIInv ==
  ASSUME IInv, NEW t \in Threads, Acquire(t)
  PROVE  IInv'
<1>1. /\ TypeOK /\ Shape /\ FwInv /\ AnswerIsOwn /\ pc[t] = "lock" /\ lock = None
      /\ lock' = t /\ seq' = [seq EXCEPT ![t] = Next1(slot.ack)]
      /\ behind' = [behind EXCEPT ![t] = slot.seq # slot.ack \/ fw.step # "idle"]
      /\ pc' = [pc EXCEPT ![t] = "value"]
      /\ UNCHANGED <<slot, fw, req, result>>
  BY Zenon DEF IInv, Acquire, Unlocked, SeqAfter, Go
<1>2. Next1(slot.ack) \in Seqs
  BY <1>1, Next1Facts, Zenon DEF TypeOK
<1>3. /\ pc'[t] = "value" /\ seq'[t] = Next1(slot.ack)
      /\ \A u \in Threads \ {t} : UNCHANGED <<pc[u], seq[u], behind[u]>>
  BY <1>1, Zenon DEF Shape
<1>4. behind' \in [Threads -> BOOLEAN] /\ (behind'[t] <=> ~ AtRest)
  BY <1>1, Zenon DEF Shape, AtRest
<1>5. \A u \in Threads : pc[u] \in {"idle", "lock"}
  BY <1>1, ConstantsAssumption, Zenon DEF TypeOK, Shape, Pcs
<1>6. TypeOK'
  BY <1>1, <1>2, <1>3, <1>5 DEF TypeOK
<1>7. Shape'
  BY <1>1, <1>2, <1>3, <1>4, Zenon DEF Shape, Pcs
<1>8. FwInv'
  BY <1>1, <1>4, Zenon DEF FwInv, AtRest, Overrun
<1>9. AnswerIsOwn'
  <2>1. result[t] = None
    BY <1>1, Zenon DEF Shape
  <2>2. QED
    BY <1>1, <1>3, <2>1, ZenonT(30) DEF AnswerIsOwn
<1>10. ASSUME NEW u \in Threads PROVE CallInv(u)'
  <2>1. CASE u = t
    BY <1>1, <1>3, <1>4, <2>1, Zenon DEF CallInv, Writing, AtRest
  <2>2. CASE u # t
    BY <1>3, <1>5, <2>2, Zenon DEF CallInv
  <2>3. QED
    BY <2>1, <2>2, Zenon
<1>11. QED
  BY <1>6, <1>7, <1>8, <1>9, <1>10, Zenon DEF IInv

\* A call past the lock holds it, alone.
LEMMA HolderFacts ==
  ASSUME IInv, NEW t \in Threads, pc[t] \notin {"idle", "lock"}
  PROVE  /\ lock = t /\ req[t] \in Requests /\ result[t] = None
         /\ \A u \in Threads \ {t} : pc[u] \in {"idle", "lock"}
  BY Zenon DEF IInv, TypeOK, Shape, Pcs

\* A word written by the holder concerns the holder and the firmware only.
LEMMA PutIInv ==
  ASSUME IInv, NEW t \in Threads, NEW from, NEW to \in Pcs \ {"idle", "lock"},
         NEW word, NEW v, Put(t, from, to, word, v), from \notin {"idle", "lock"},
         slot' = [seq |-> slot'.seq, ack |-> slot'.ack, op |-> slot'.op,
                  addr |-> slot'.addr, value |-> slot'.value],
         slot'.seq \in Seqs, slot'.ack \in Seqs,
         FwInv', CallInv(t)'
  PROVE  IInv'
<1>1. /\ TypeOK /\ Shape /\ AnswerIsOwn /\ pc[t] = from
      /\ pc' = [pc EXCEPT ![t] = to]
      /\ UNCHANGED <<fw, lock, req, seq, behind, result>>
  BY Zenon DEF IInv, Put, Go
<1>2. /\ pc'[t] = to /\ \A u \in Threads \ {t} : pc'[u] = pc[u]
      /\ \A u \in Threads \ {t} : pc[u] \in {"idle", "lock"}
      /\ lock = t /\ req[t] \in Requests /\ result[t] = None
  BY <1>1, HolderFacts, Zenon DEF Shape
<1>3. TypeOK'
  BY <1>1, <1>2, Zenon DEF TypeOK
<1>4. Shape'
  BY <1>1, <1>2, Zenon DEF Shape
<1>5. AnswerIsOwn'
  BY <1>1, Zenon DEF AnswerIsOwn
<1>6. \A u \in Threads \ {t} : CallInv(u)'
  BY <1>2, Zenon DEF CallInv
<1>7. QED
  BY <1>3, <1>4, <1>5, <1>6, Zenon DEF IInv

\* The value word is written, if the call is not behind, on a slot at rest.
LEMMA PutValueIInv ==
  ASSUME IInv, NEW t \in Threads, Put(t, "value", "addr", "value", req[t].data)
  PROVE  IInv'
<1>1. /\ TypeOK /\ Shape /\ FwInv /\ CallInv(t) /\ pc[t] = "value" /\ req[t] \in Requests
      /\ pc' = [pc EXCEPT ![t] = "addr"]
      /\ UNCHANGED <<fw, lock, req, seq, behind, result>>
  BY HolderFacts, Zenon DEF IInv, Put, Go
<1>2. slot' = [seq |-> slot.seq, ack |-> slot.ack, op |-> slot.op,
                  addr |-> slot.addr, value |-> req[t].data]
  BY <1>1, PutValue, Zenon DEF Put
<1>3. pc'[t] = "addr"
  BY <1>1, Zenon DEF Shape
<1>4. slot'.seq \in Seqs /\ slot'.ack \in Seqs
  BY <1>1, <1>2, Zenon DEF TypeOK
<1>5. behind[t] \/ AtRest
  BY <1>1, Zenon DEF CallInv, Writing
<1>6. FwInv'
  BY <1>1, <1>2, <1>5, Zenon DEF FwInv, AtRest, Overrun
<1>7. CallInv(t)'
  BY <1>1, <1>2, <1>3, Zenon DEF CallInv, Writing, AtRest
<1>8. QED
  BY <1>2, <1>4, <1>6, <1>7, PutIInv DEF Pcs

\* The address word likewise.
LEMMA PutAddrIInv ==
  ASSUME IInv, NEW t \in Threads, Put(t, "addr", "op", "addr", req[t].addr)
  PROVE  IInv'
<1>1. /\ TypeOK /\ Shape /\ FwInv /\ CallInv(t) /\ pc[t] = "addr" /\ req[t] \in Requests
      /\ pc' = [pc EXCEPT ![t] = "op"]
      /\ UNCHANGED <<fw, lock, req, seq, behind, result>>
  BY HolderFacts, Zenon DEF IInv, Put, Go
<1>2. slot' = [seq |-> slot.seq, ack |-> slot.ack, op |-> slot.op,
                  addr |-> req[t].addr, value |-> slot.value]
  BY <1>1, PutAddr, Zenon DEF Put
<1>3. pc'[t] = "op"
  BY <1>1, Zenon DEF Shape
<1>4. slot'.seq \in Seqs /\ slot'.ack \in Seqs
  BY <1>1, <1>2, Zenon DEF TypeOK
<1>5. behind[t] \/ AtRest
  BY <1>1, Zenon DEF CallInv, Writing
<1>6. FwInv'
  BY <1>1, <1>2, <1>5, Zenon DEF FwInv, AtRest, Overrun
<1>7. CallInv(t)'
  BY <1>1, <1>2, <1>3, Zenon DEF CallInv, Writing, AtRest
<1>8. QED
  BY <1>2, <1>4, <1>6, <1>7, PutIInv DEF Pcs

\* The operation word likewise.
LEMMA PutOpIInv ==
  ASSUME IInv, NEW t \in Threads, Put(t, "op", "doorbell", "op", req[t].op)
  PROVE  IInv'
<1>1. /\ TypeOK /\ Shape /\ FwInv /\ CallInv(t) /\ pc[t] = "op" /\ req[t] \in Requests
      /\ pc' = [pc EXCEPT ![t] = "doorbell"]
      /\ UNCHANGED <<fw, lock, req, seq, behind, result>>
  BY HolderFacts, Zenon DEF IInv, Put, Go
<1>2. slot' = [seq |-> slot.seq, ack |-> slot.ack, op |-> req[t].op,
                  addr |-> slot.addr, value |-> slot.value]
  BY <1>1, PutOp, Zenon DEF Put
<1>3. pc'[t] = "doorbell"
  BY <1>1, Zenon DEF Shape
<1>4. slot'.seq \in Seqs /\ slot'.ack \in Seqs
  BY <1>1, <1>2, Zenon DEF TypeOK
<1>5. behind[t] \/ AtRest
  BY <1>1, Zenon DEF CallInv, Writing
<1>6. FwInv'
  BY <1>1, <1>2, <1>5, Zenon DEF FwInv, AtRest, Overrun
<1>7. CallInv(t)'
  BY <1>1, <1>2, <1>3, Zenon DEF CallInv, Writing, AtRest
<1>8. QED
  BY <1>2, <1>4, <1>6, <1>7, PutIInv DEF Pcs

\* The sequence number comes last: the slot then holds the whole request.
LEMMA PutSeqIInv ==
  ASSUME IInv, NEW t \in Threads, Put(t, "doorbell", "poll", "seq", seq[t])
  PROVE  IInv'
<1>1. /\ TypeOK /\ Shape /\ FwInv /\ CallInv(t) /\ pc[t] = "doorbell" /\ req[t] \in Requests
      /\ pc' = [pc EXCEPT ![t] = "poll"]
      /\ UNCHANGED <<fw, lock, req, seq, behind, result>>
  BY HolderFacts, Zenon DEF IInv, Put, Go
<1>2. slot' = [seq |-> seq[t], ack |-> slot.ack, op |-> slot.op,
                  addr |-> slot.addr, value |-> slot.value]
  BY <1>1, PutSeq, Zenon DEF Put
<1>3. pc'[t] = "poll"
  BY <1>1, Zenon DEF Shape
<1>4. slot'.seq \in Seqs /\ slot'.ack \in Seqs
  BY <1>1, <1>2, Zenon DEF TypeOK, Shape
<1>5. behind[t] \/ (fw.step = "idle" /\ seq[t] = Next1(slot.ack) /\ slot.ack # seq[t])
  BY <1>1, Next1Facts, Zenon DEF CallInv, Writing, AtRest, TypeOK
<1>6. behind[t] \/ InSlot' = req[t]
  <2>1. InSlot' = [op |-> slot.op, addr |-> slot.addr, data |-> slot.value]
    BY <1>2, Zenon DEF InSlot
  <2>2. QED
    BY <1>1, <2>1, ConstantsAssumption, Zenon DEF CallInv, Writing
<1>7. FwInv'
  BY <1>1, <1>2, <1>5, <1>6, Zenon DEF FwInv, Overrun
<1>8. CallInv(t)'
  BY <1>1, <1>2, <1>3, <1>5, <1>6, Zenon DEF CallInv, Asked
<1>9. QED
  BY <1>2, <1>4, <1>7, <1>8, PutIInv DEF Pcs

\* The call has seen its sequence number acknowledged.
LEMMA AckedIInv ==
  ASSUME IInv, NEW t \in Threads, Acked(t)
  PROVE  IInv'
<1>1. /\ TypeOK /\ Shape /\ FwInv /\ AnswerIsOwn /\ CallInv(t) /\ pc[t] = "poll"
      /\ slot.ack = seq[t] /\ pc' = [pc EXCEPT ![t] = "fetch"]
      /\ UNCHANGED <<slot, fw, lock, req, seq, behind, result>>
  BY Zenon DEF IInv, Acked, Go
<1>2. /\ pc'[t] = "fetch" /\ \A u \in Threads \ {t} : pc'[u] = pc[u]
      /\ \A u \in Threads \ {t} : pc[u] \in {"idle", "lock"}
      /\ lock = t /\ req[t] \in Requests /\ result[t] = None
  BY <1>1, HolderFacts, Zenon DEF Shape
<1>3. TypeOK'
  BY <1>1, <1>2, Zenon DEF TypeOK
<1>4. Shape'
  BY <1>1, <1>2, Zenon DEF Shape, Pcs
<1>5. FwInv' /\ AnswerIsOwn'
  BY <1>1, Zenon DEF FwInv, AtRest, Overrun, InSlot, AnswerIsOwn
<1>6. \A u \in Threads \ {t} : CallInv(u)'
  BY <1>2, Zenon DEF CallInv
<1>7. CallInv(t)'
  BY <1>1, <1>2, Zenon DEF CallInv, Asked, Answered, InSlot
<1>8. QED
  BY <1>3, <1>4, <1>5, <1>6, <1>7, Zenon DEF IInv

\* transact returns r, which is its own answer unless it was behind.
LEMMA FinishIInv ==
  ASSUME IInv, NEW t \in Threads, NEW r, pc[t] \in {"poll", "fetch"}, Finish(t, r),
         ~ behind[t] /\ r.status = "Ok" => r.value \in [to : {r.of}, ok : BOOLEAN]
  PROVE  IInv'
<1>1. /\ TypeOK /\ Shape /\ FwInv /\ AnswerIsOwn
      /\ result' = [result EXCEPT ![t] = r] /\ lock' = None
      /\ req' = [req EXCEPT ![t] = None] /\ seq' = [seq EXCEPT ![t] = 0]
      /\ pc' = [pc EXCEPT ![t] = "idle"]
      /\ UNCHANGED <<slot, fw, behind>>
  BY Zenon DEF IInv, Finish, Go
<1>2. /\ pc'[t] = "idle" /\ result'[t] = r
      /\ \A u \in Threads \ {t} : UNCHANGED <<pc[u], req[u], result[u], seq[u]>>
      /\ \A u \in Threads \ {t} : pc[u] \in {"idle", "lock"}
  BY <1>1, HolderFacts, Zenon DEF Shape
<1>3. 0 \in Seqs
  BY ConstantsAssumption DEF Seqs
<1>4. Shape'
  BY <1>1, <1>2, <1>3, Zenon DEF Shape, Pcs
<1>5. TypeOK'
  BY <1>1, <1>2, <1>4, ZenonT(60) DEF TypeOK, Shape
<1>6. FwInv'
  BY <1>1, Zenon DEF FwInv, AtRest, Overrun, InSlot
<1>7. AnswerIsOwn'
  BY <1>1, <1>2 DEF AnswerIsOwn
<1>8. \A u \in Threads : CallInv(u)'
  BY <1>2, Zenon DEF CallInv
<1>9. QED
  BY <1>4, <1>5, <1>6, <1>7, <1>8, Zenon DEF IInv

\* Ok with the value word, or the timeout.
LEMMA ReturnIInv ==
  ASSUME IInv, NEW t \in Threads, Fetch(t) \/ Timeout(t)
  PROVE  IInv'
<1>1. CASE Fetch(t)
  <2> DEFINE r == [status |-> "Ok", value |-> slot.value, of |-> req[t]]
  <2>1. pc[t] = "fetch" /\ Finish(t, r) /\ CallInv(t)
    BY <1>1, Zenon DEF Fetch, IInv
  <2>2. ~ behind[t] => r.value \in [to : {r.of}, ok : BOOLEAN]
    BY <2>1, Zenon DEF CallInv, Asked, Answered
  <2> HIDE DEF r
  <2>3. QED
    BY <2>1, <2>2, FinishIInv
<1>2. CASE Timeout(t)
  <2> DEFINE r == [status |-> "ErrTimeout", value |-> None, of |-> req[t]]
  <2>1. pc[t] = "poll" /\ Finish(t, r) /\ r.status # "Ok"
    BY <1>2, Zenon DEF Timeout
  <2> HIDE DEF r
  <2>2. QED
    BY <2>1, FinishIInv
<1>3. QED
  BY <1>1, <1>2, Zenon

\* The firmware takes what is in the slot.
LEMMA TakeIInv ==
  ASSUME IInv, Take
  PROVE  IInv'
<1>1. /\ TypeOK /\ Shape /\ FwInv /\ AnswerIsOwn
      /\ fw.step = "idle" /\ slot.seq # slot.ack
      /\ UNCHANGED <<slot, lock, pc, req, seq, behind, result>>
  BY Zenon DEF IInv, Take
<1>2. PICK ok \in BOOLEAN :
        fw' = [step |-> "busy", seq |-> slot.seq, req |-> InSlot, ok |-> ok]
  BY Zenon DEF Take
<1>3. TypeOK'
  BY <1>1, <1>2, Zenon DEF TypeOK
<1>4. Shape'
  BY <1>1, <1>2, Zenon DEF Shape
<1>5. FwInv'
  BY <1>1, <1>2, Zenon DEF FwInv, AtRest, Overrun, InSlot
<1>6. AnswerIsOwn'
  BY <1>1, Zenon DEF AnswerIsOwn
<1>7. ASSUME NEW t \in Threads PROVE CallInv(t)'
  BY <1>1, <1>2, Zenon DEF IInv, CallInv, Writing, Asked, AtRest, Answered, InSlot
<1>8. QED
  BY <1>3, <1>4, <1>5, <1>6, <1>7, Zenon DEF IInv

\* The firmware answers in the value word.
LEMMA AnswerIInv ==
  ASSUME IInv, Answer
  PROVE  IInv'
<1>1. /\ TypeOK /\ Shape /\ FwInv /\ AnswerIsOwn /\ fw.step = "busy"
      /\ UNCHANGED <<lock, pc, req, seq, behind, result>>
  BY Zenon DEF IInv, Answer
<1>2. slot' = [seq |-> slot.seq, ack |-> slot.ack, op |-> slot.op,
               addr |-> slot.addr, value |-> [to |-> fw.req, ok |-> fw.ok]]
  BY <1>1, Zenon DEF Answer, Shape
<1>3. fw' = [step |-> "replied", seq |-> fw.seq, req |-> fw.req, ok |-> fw.ok]
  BY <1>1, Zenon DEF Answer, Shape
<1>4. TypeOK'
  BY <1>1, <1>2, <1>3, Zenon DEF TypeOK
<1>5. Shape'
  BY <1>1, <1>2, <1>3, Zenon DEF Shape
<1>6. FwInv'
  BY <1>1, <1>2, <1>3, Zenon DEF FwInv, Overrun
<1>7. AnswerIsOwn'
  BY <1>1, Zenon DEF AnswerIsOwn
<1>8. ASSUME NEW t \in Threads PROVE CallInv(t)'
  <2>1. CallInv(t) /\ fw.ok \in BOOLEAN
    BY <1>1, Zenon DEF IInv, Shape
  <2>2. slot'.value \in [to : {fw.req}, ok : BOOLEAN]
    BY <1>2, <2>1, Zenon
  <2>3. QED
    BY <1>1, <1>2, <1>3, <2>1, <2>2, Zenon DEF CallInv, Writing, Asked, AtRest, Answered
<1>9. QED
  BY <1>4, <1>5, <1>6, <1>7, <1>8, Zenon DEF IInv

\* The firmware acknowledges.
LEMMA AckIInv ==
  ASSUME IInv, Ack
  PROVE  IInv'
<1>1. /\ TypeOK /\ Shape /\ FwInv /\ AnswerIsOwn /\ fw.step = "replied"
      /\ fw' = [step |-> "idle", seq |-> 0, req |-> None, ok |-> TRUE]
      /\ UNCHANGED <<lock, pc, req, seq, behind, result>>
  BY Zenon DEF IInv, Ack
<1>2. slot' = [seq |-> slot.seq, ack |-> fw.seq, op |-> slot.op,
               addr |-> slot.addr, value |-> slot.value]
  BY <1>1, Zenon DEF Ack, Shape
<1>3. 0 \in Seqs
  BY ConstantsAssumption DEF Seqs
<1>4. TypeOK'
  BY <1>1, <1>2, <1>3, Zenon DEF TypeOK
<1>5. Shape'
  BY <1>1, <1>2, Zenon DEF Shape
<1>6. FwInv'
  BY <1>1, <1>2, Zenon DEF FwInv, AtRest, Overrun
<1>7. AnswerIsOwn'
  BY <1>1, Zenon DEF AnswerIsOwn
<1>8. ASSUME NEW t \in Threads PROVE CallInv(t)'
  <2>1. CallInv(t)
    BY Zenon DEF IInv
  <2>2. QED
    BY <1>1, <1>2, <2>1, Zenon DEF CallInv, Writing, Asked, AtRest, Answered
<1>9. QED
  BY <1>4, <1>5, <1>6, <1>7, <1>8 DEF IInv

\* Every step of Next keeps the invariant.
LEMMA StepIInv == IInv /\ [Next]_vars => IInv'
<1> SUFFICES ASSUME IInv, [Next]_vars PROVE IInv'
  BY Zenon
<1>1. ASSUME NEW t \in Threads, NEW r \in Requests, Call(t, r) PROVE IInv'
  BY <1>1, CallIInv, Zenon
<1>2. ASSUME NEW t \in Threads, Acquire(t) PROVE IInv'
  BY <1>2, AcquireIInv, Zenon
<1>3. ASSUME NEW t \in Threads, Transact(t) PROVE IInv'
  BY <1>3, PutValueIInv, PutAddrIInv, PutOpIInv, PutSeqIInv, AckedIInv, ReturnIInv, Zenon
  DEF Transact, Send
<1>4. CASE Take \/ Answer \/ Ack
  BY <1>4, TakeIInv, AnswerIInv, AckIInv, Zenon
<1>5. CASE UNCHANGED vars
  <2>1. TypeOK' /\ Shape' /\ FwInv' /\ AnswerIsOwn'
    BY <1>5, Zenon
    DEF vars, IInv, TypeOK, Shape, FwInv, AnswerIsOwn, AtRest, Overrun, InSlot
  <2>2. ASSUME NEW t \in Threads PROVE CallInv(t)'
    BY <1>5, Zenon DEF vars, IInv, CallInv, Writing, Asked, Answered, AtRest, InSlot
  <2>3. QED
    BY <2>1, <2>2, Zenon DEF IInv
<1>6. QED
  BY <1>1, <1>2, <1>3, <1>4, <1>5, Zenon DEF Next

-----------------------------------------------------------------------------
(***************************************************************************)
(* The theorems.                                                           *)
(***************************************************************************)

\* The inductive invariant of transact and the firmware's loop.
THEOREM Invariance == Spec => []IInv
  BY InitIInv, StepIInv, PTL DEF Spec

\* A call that found the slot at rest and returns Ok got the firmware's answer
\* to its own request, whatever calls before it timed out.
THEOREM OwnAnswer == Spec => []AnswerIsOwn
<1>1. IInv => AnswerIsOwn
  BY Zenon DEF IInv
<1>2. QED
  BY Invariance, <1>1, PTL

\* The firmware never serves a mixture of two requests unless a call overwrote
\* a request it had not answered.
THEOREM WholeRequest == Spec => []RequestWhole
<1>1. IInv => RequestWhole
  BY Zenon DEF IInv, FwInv, Overrun, RequestWhole
<1>2. QED
  BY Invariance, <1>1, PTL
=============================================================================
