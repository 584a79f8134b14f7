--------------------------- MODULE HqcCpQueueProof ---------------------------
(***************************************************************************)
(* Proofs about HqcCpQueue for any threads, queues, doorbell pages, sizes  *)
(* and pointer width.                                                      *)
(***************************************************************************)
EXTENDS HqcCpQueue, TLAPS

-----------------------------------------------------------------------------
\* The steps at which a copy writes or reads through its doorbell page.
Paged == {"reset wptr", "reset rptr", "reset check", "fields", "read back",
          "doorbell", "completion", "acknowledge", "drain"}

\* The queue of a call.
Mine(t) == req[t].queue

\* A copy's doorbell page: as read, then legal, then its own queue's alone.
PageInv(t) ==
  /\ pc[t] \in {"wait idle", "q128", "place"} => page[t] = remap[Mine(t)]
  /\ pc[t] \in {"set remap", "check remap"} => ~ Collides(Mine(t), page[t])
  /\ pc[t] = "check remap" => remap[Mine(t)] = page[t]
  /\ pc[t] \in Paged => At(page[t]) = {Mine(t)}

\* The steps of a copy that has not rung the doorbell, after a reset check
\* if at all.
Fresh == {"remap", "wait idle", "q128", "place", "set remap", "check remap",
          "fields", "read back", "doorbell"}

\* What the guard of a copy records, and what that says of its queue.
GuardInv(t) ==
  /\ pc[t] \in {"idle", "lock"} => guard[t] = NewGuard
  /\ pc[t] \notin {"idle", "lock", "exit"} => ~ faulted[Mine(t)]
  /\ guard[t].kicked => guard[t].touched
  /\ guard[t].cleaned => guard[t].completed
  /\ status[t] = "OK" => guard[t].completed
  /\ pc[t] \in Fresh => ~ guard[t].kicked /\ ~ guard[t].completed
  /\ pc[t] \notin {"completion", "exit"} /\ guard[t].kicked => guard[t].completed
  /\ guard[t].completed => job[Mine(t)] = None /\ moved[Mine(t)] = req[t]

\* The registers of a copy's queue on the way to the doorbell and to
\* completion: WPTR counts what has been moved.
QueueInv(t) ==
  /\ pc[t] \in {"fields", "read back", "doorbell"} => wptr[Mine(t)] = 0
  /\ pc[t] = "doorbell" => config[Mine(t)] = req[t] /\ credit[Mine(t)] = Depth
  /\ pc[t] = "completion" =>
       IF job[Mine(t)] = None THEN moved[Mine(t)] = req[t]
       ELSE wptr[Mine(t)] = req[t].size - job[Mine(t)].left

\* The transfer of q is the one t has kicked and not seen completed.
InFlight(t, q) ==
  /\ pc[t] \in {"completion", "exit"} /\ Mine(t) = q /\ job[q].cfg = req[t]
  /\ guard[t].kicked /\ ~ guard[t].completed

\* A transfer is in flight for the copy holding the lock, or its queue is
\* poisoned and its buffers are retained.
JobInv ==
  \A q \in Queues : job[q] # None =>
    \/ faulted[q] /\ \A b \in Uses(job[q].cfg) : buf[b] = "kept"
    \/ lock # None /\ InFlight(lock, q)

\* The buffers of calls are owned, each by one call.
BufInv ==
  /\ \A t \in Threads : pc[t] # "idle" => \A b \in Uses(req[t]) : buf[b] = "owned"
  /\ \A t, u \in Threads : t # u /\ pc[t] # "idle" /\ pc[u] # "idle" =>
       Uses(req[t]) \cap Uses(req[u]) = {}

\* What one copy knows.
CopyInv(t) == PageInv(t) /\ GuardInv(t) /\ QueueInv(t)

\* The inductive invariant.
IInv == TypeOK /\ JobInv /\ BufInv /\ \A t \in Threads : CopyInv(t)

-----------------------------------------------------------------------------
(***************************************************************************)
(* Lemmas about SubmissionGuard's flags.                                   *)
(***************************************************************************)

\* Setting touched leaves the other flags alone.
LEMMA TouchedSet ==
  ASSUME NEW g \in [Threads -> Guards], NEW t \in Threads, NEW v \in BOOLEAN
  PROVE  LET h == [g EXCEPT ![t].touched = v]
         IN /\ h \in [Threads -> Guards] /\ h[t].touched = v
            /\ h[t].kicked = g[t].kicked
            /\ h[t].completed = g[t].completed
            /\ h[t].cleaned = g[t].cleaned
  BY Zenon DEF Guards

\* Setting kicked leaves the other flags alone.
LEMMA KickedSet ==
  ASSUME NEW g \in [Threads -> Guards], NEW t \in Threads, NEW v \in BOOLEAN
  PROVE  LET h == [g EXCEPT ![t].kicked = v]
         IN /\ h \in [Threads -> Guards] /\ h[t].kicked = v
            /\ h[t].touched = g[t].touched
            /\ h[t].completed = g[t].completed
            /\ h[t].cleaned = g[t].cleaned
  BY Zenon DEF Guards

\* Setting completed leaves the other flags alone.
LEMMA CompletedSet ==
  ASSUME NEW g \in [Threads -> Guards], NEW t \in Threads, NEW v \in BOOLEAN
  PROVE  LET h == [g EXCEPT ![t].completed = v]
         IN /\ h \in [Threads -> Guards] /\ h[t].completed = v
            /\ h[t].touched = g[t].touched
            /\ h[t].kicked = g[t].kicked
            /\ h[t].cleaned = g[t].cleaned
  BY Zenon DEF Guards

\* Setting cleaned leaves the other flags alone.
LEMMA CleanedSet ==
  ASSUME NEW g \in [Threads -> Guards], NEW t \in Threads, NEW v \in BOOLEAN
  PROVE  LET h == [g EXCEPT ![t].cleaned = v]
         IN /\ h \in [Threads -> Guards] /\ h[t].cleaned = v
            /\ h[t].touched = g[t].touched
            /\ h[t].kicked = g[t].kicked
            /\ h[t].completed = g[t].completed
  BY Zenon DEF Guards

\* So does setting touched and kicked together.
LEMMA BothSet ==
  ASSUME guard \in [Threads -> Guards], NEW t \in Threads,
         NEW v \in BOOLEAN, NEW w \in BOOLEAN,
         guard' = [guard EXCEPT ![t].touched = v, ![t].kicked = w]
  PROVE  /\ guard' \in [Threads -> Guards]
         /\ guard'[t].touched = v /\ guard'[t].kicked = w
         /\ guard'[t].completed = guard[t].completed
         /\ guard'[t].cleaned = guard[t].cleaned
<1> DEFINE f == [guard EXCEPT ![t].touched = v]
           h == [f EXCEPT ![t].kicked = w]
<1>1. guard' = h
  BY Zenon
<1>2. f \in [Threads -> Guards]
  BY TouchedSet, Zenon
<1>3. /\ f[t].touched = v /\ f[t].completed = guard[t].completed
      /\ f[t].cleaned = guard[t].cleaned
  BY TouchedSet
<1> HIDE DEF f
<1>4. h \in [Threads -> Guards]
  BY <1>2, KickedSet, Zenon
<1>5. /\ h[t].touched = f[t].touched /\ h[t].completed = f[t].completed
      /\ h[t].cleaned = f[t].cleaned /\ h[t].kicked = w
  <2>1. h[t] = [f[t] EXCEPT !.kicked = w] /\ f[t] \in Guards
    BY <1>2, Zenon
  <2> HIDE DEF h
  <2>2. QED
    BY <2>1, Zenon DEF Guards
<1> HIDE DEF h
<1>6. QED
  BY <1>1, <1>3, <1>4, <1>5, Zenon

-----------------------------------------------------------------------------
(***************************************************************************)
(* Lemmas about types and about steps of the copy that holds the lock.     *)
(***************************************************************************)

\* The fields of a request.
LEMMA RequestType ==
  ASSUME NEW r \in Requests
  PROVE  /\ r.queue \in Queues /\ r.size \in Nat \ {0} /\ r.size < Word /\ r # None
         /\ r.size \in 1 .. MaxSize
         /\ Uses(r) \subseteq Bufs
  BY ConstantsAssumption DEF Requests, Uses, Bufs

\* A call past the queue lock holds it, alone.
LEMMA HolderFacts ==
  ASSUME TypeOK, NEW t \in Threads, pc[t] \notin {"idle", "lock"}
  PROVE  /\ lock = t /\ req[t] \in Requests /\ Mine(t) \in Queues
         /\ lock # None
         /\ \A u \in Threads \ {t} : pc[u] \in {"idle", "lock"}
  BY RequestType, ConstantsAssumption, Zenon DEF TypeOK, Mine

\* A step of the holder says nothing of the others, and the buffers of calls
\* stay with them.
LEMMA HolderStep ==
  ASSUME IInv, NEW t \in Threads, pc[t] \notin {"idle", "lock"}, pc'[t] # "idle",
         UNCHANGED <<lock, faulted, buf, req>>,
         \A u \in Threads \ {t} : UNCHANGED <<pc[u], guard[u], status[u]>>,
         TypeOK', JobInv', CopyInv(t)'
  PROVE  IInv'
<1>1. \A u \in Threads \ {t} : CopyInv(u)'
  <2> SUFFICES ASSUME NEW u \in Threads \ {t} PROVE CopyInv(u)'
    BY Zenon
  <2>0. pc[u] \in {"idle", "lock"} /\ CopyInv(u)
    BY HolderFacts, Zenon DEF IInv
  <2>a. guard[u] = NewGuard /\ (status[u] = "OK" => guard[u].completed)
    BY <2>0, Zenon DEF CopyInv, GuardInv, Fresh
  <2>b. ~ NewGuard.completed
    BY Zenon DEF NewGuard
  <2>1. pc'[u] \in {"idle", "lock"} /\ guard'[u] = NewGuard /\ status'[u] # "OK"
    BY <2>0, <2>a, <2>b, Zenon
  <2>2. PageInv(u)'
    BY <2>1, Zenon DEF PageInv, Paged
  <2>3. GuardInv(u)'
    BY <2>1 DEF GuardInv, Fresh, NewGuard
  <2>4. QueueInv(u)'
    BY <2>1, Zenon DEF QueueInv
  <2>5. QED
    BY <2>2, <2>3, <2>4, Zenon DEF CopyInv
<1>2. BufInv'
  BY ZenonT(60) DEF IInv, BufInv
<1>3. QED
  BY <1>1, <1>2, Zenon DEF IInv

\* A step of the holder that leaves the device alone, and keeps the record of
\* a transfer in flight, leaves JobInv alone.
LEMMA JobKept ==
  ASSUME IInv, NEW t \in Threads, pc[t] \notin {"idle", "lock"},
         UNCHANGED <<lock, faulted, buf, req, job>>,
         pc[t] \in {"completion", "exit"} =>
           /\ pc'[t] \in {"completion", "exit"}
           /\ guard'[t].kicked = guard[t].kicked
           /\ guard'[t].completed = guard[t].completed
  PROVE  JobInv'
  BY HolderFacts, Zenon DEF IInv, JobInv, InFlight, Mine

-----------------------------------------------------------------------------
(***************************************************************************)
(* The inductive invariant is kept: the steps of a copy.                   *)
(***************************************************************************)

\* A step on the way, which does not change what is in flight nor what the
\* guard says of it, needs only the page and the registers looked at.
LEMMA GoesOn ==
  ASSUME IInv, NEW t \in Threads, pc[t] \notin {"idle", "lock", "exit"},
         NEW step \in Steps \ {"idle", "lock"}, Go(t, step),
         UNCHANGED <<job, moved, lock, faulted, buf, req, status>>,
         \A u \in Threads \ {t} : guard'[u] = guard[u],
         guard[t].touched => guard'[t].touched,
         UNCHANGED <<guard[t].kicked, guard[t].completed, guard[t].cleaned>>,
         step \in Fresh => pc[t] \in Fresh,
         pc[t] = "completion" => step \in {"completion", "exit"},
         TypeOK', PageInv(t)', QueueInv(t)'
  PROVE  IInv'
<1>1. /\ TypeOK /\ CopyInv(t) /\ pc'[t] = step
      /\ \A u \in Threads \ {t} : UNCHANGED <<pc[u], guard[u], status[u]>>
  BY ZenonT(60) DEF IInv, TypeOK, Go
<1>2. GuardInv(t)'
  BY <1>1, Zenon DEF CopyInv, GuardInv, Fresh, Mine
<1>3. JobInv'
  BY <1>1, JobKept, Zenon
<1>4. QED
  BY <1>1, <1>2, <1>3, HolderStep, Zenon DEF CopyInv

\* The same for a step that only reads the device.
LEMMA ReadsIInv ==
  ASSUME IInv, NEW t \in Threads, pc[t] \notin {"idle", "lock", "exit"},
         NEW step \in Steps \ {"idle", "lock"}, Reads(t, step),
         NEW p \in Pages \cup {Unset}, page' = [page EXCEPT ![t] = p],
         step \in Fresh => pc[t] \in Fresh,
         pc[t] = "completion" => step = "exit",
         step # "exit" => PageInv(t)' /\ QueueInv(t)'
  PROVE  IInv'
<1>1. TypeOK /\ pc'[t] = step
  BY Zenon DEF IInv, TypeOK, Reads, Go
<1>2. TypeOK'
  BY <1>1, HolderFacts, Zenon DEF TypeOK, Reads, Go, device
<1>3. PageInv(t)' /\ QueueInv(t)'
  BY <1>1, Zenon DEF PageInv, Paged, QueueInv
<1>4. QED
  BY <1>2, <1>3, GoesOn, Zenon DEF Reads, device

\* The copy notes the page its queue's remap register names.
LEMMA ReadRemapIInv ==
  ASSUME IInv, NEW t \in Threads, ReadRemap(t)
  PROVE  IInv'
<1>1. TypeOK /\ CopyInv(t) /\ pc[t] \notin {"idle", "lock"}
      /\ Mine(t) \in Queues /\ page[t] \in Pages \cup {Unset}
  BY HolderFacts, Zenon DEF IInv, ReadRemap, TypeOK
<1>2. /\ pc[t] = "remap" /\ Reads(t, "wait idle") /\ remap[Mine(t)] \in Pages \cup {Unset}
      /\ page' = [page EXCEPT ![t] = remap[Mine(t)]]
  BY <1>1, Zenon DEF ReadRemap, Mine, TypeOK
<1>3. pc'[t] = "wait idle" /\ page'[t] = remap[Mine(t)] /\ UNCHANGED <<remap, req>>
  BY <1>1, <1>2, Zenon DEF Reads, Go, device, TypeOK
<1>4. PageInv(t)' /\ QueueInv(t)'
  BY <1>3, Zenon DEF PageInv, Paged, QueueInv, Mine
<1>5. QED
  BY <1>2, <1>4, ReadsIInv, Zenon DEF Steps, Fresh

\* The queue is found drained.
LEMMA WaitIdleIInv ==
  ASSUME IInv, NEW t \in Threads, WaitIdle(t)
  PROVE  IInv'
<1>1. TypeOK /\ CopyInv(t) /\ pc[t] \notin {"idle", "lock"}
      /\ Mine(t) \in Queues /\ page[t] \in Pages \cup {Unset}
  BY HolderFacts, Zenon DEF IInv, WaitIdle, TypeOK
<1>2. page' = [page EXCEPT ![t] = page[t]]
  BY <1>1, Zenon DEF WaitIdle, TypeOK
<1>3. PICK step \in {"place", "q128"} : Reads(t, step) /\ pc[t] = "wait idle"
  BY Zenon DEF WaitIdle
<1>4. pc'[t] = step /\ UNCHANGED <<remap, req, page>>
  BY <1>1, <1>3, Zenon DEF Reads, Go, device, TypeOK, WaitIdle
<1>5. PageInv(t)' /\ QueueInv(t)'
  BY <1>1, <1>3, <1>4, Zenon DEF CopyInv, PageInv, Paged, QueueInv, Mine
<1>6. QED
  BY <1>1, <1>2, <1>3, <1>5, ReadsIInv, Zenon DEF Steps, Fresh

\* The Q128 mode is found on or off.
LEMMA CheckQ128IInv ==
  ASSUME IInv, NEW t \in Threads, CheckQ128(t)
  PROVE  IInv'
<1>1. TypeOK /\ CopyInv(t) /\ pc[t] \notin {"idle", "lock"}
      /\ Mine(t) \in Queues /\ page[t] \in Pages \cup {Unset}
  BY HolderFacts, Zenon DEF IInv, CheckQ128, TypeOK
<1>2. page' = [page EXCEPT ![t] = page[t]]
  BY <1>1, Zenon DEF CheckQ128, TypeOK
<1>3. PICK step \in {"place", "exit"} : Reads(t, step) /\ pc[t] = "q128"
  BY Zenon DEF CheckQ128
<1>4. pc'[t] = step /\ UNCHANGED <<remap, req, page>>
  BY <1>1, <1>3, Zenon DEF Reads, Go, device, TypeOK, CheckQ128
<1>5. PageInv(t)' /\ QueueInv(t)'
  BY <1>1, <1>3, <1>4, Zenon DEF CopyInv, PageInv, Paged, QueueInv, Mine
<1>6. QED
  BY <1>1, <1>2, <1>3, <1>5, ReadsIInv, Zenon DEF Steps, Fresh

\* A page no other queue answers at is chosen.
LEMMA PlaceIInv ==
  ASSUME IInv, NEW t \in Threads, Place(t)
  PROVE  IInv'
<1>1. TypeOK /\ CopyInv(t) /\ pc[t] \notin {"idle", "lock"}
      /\ Mine(t) \in Queues /\ page[t] \in Pages \cup {Unset}
  BY HolderFacts, Zenon DEF IInv, Place, TypeOK
<1>2. /\ pc[t] = "place" /\ page' = [page EXCEPT ![t] = Placed(t)]
      /\ Placed(t) \in Pages \cup {Unset}
  BY <1>1, ConstantsAssumption, Zenon DEF Place, Placed, Mine
<1>3. PICK step \in {"exit", "set remap", "reset wptr"} :
        /\ Reads(t, step)
        /\ step # "exit" => ~ Collides(Mine(t), Placed(t))
        /\ step = "reset wptr" => Placed(t) = page[t]
  BY Zenon DEF Place, Placed, Mine
<1>4. page[t] = remap[Mine(t)]
  BY <1>1, <1>2, Zenon DEF CopyInv, PageInv
<1>5. step = "reset wptr" => At(Placed(t)) = {Mine(t)}
  BY <1>1, <1>3, <1>4, Zenon DEF At, Collides
<1>6. pc'[t] = step /\ page'[t] = Placed(t) /\ UNCHANGED <<remap, req>>
  BY <1>1, <1>2, <1>3, Zenon DEF Reads, Go, device, TypeOK
<1>7. PageInv(t)' /\ QueueInv(t)'
  BY <1>3, <1>5, <1>6, Zenon DEF PageInv, Paged, QueueInv, Mine, At, Collides
<1>8. QED
  BY <1>2, <1>3, <1>7, ReadsIInv, Zenon DEF Steps, Fresh

\* The remap register is read back.
LEMMA CheckRemapIInv ==
  ASSUME IInv, NEW t \in Threads, CheckRemap(t)
  PROVE  IInv'
<1>1. TypeOK /\ CopyInv(t) /\ pc[t] \notin {"idle", "lock"}
      /\ Mine(t) \in Queues /\ page[t] \in Pages \cup {Unset}
  BY HolderFacts, Zenon DEF IInv, CheckRemap, TypeOK
<1>2. page' = [page EXCEPT ![t] = page[t]]
  BY <1>1, Zenon DEF CheckRemap, TypeOK
<1>3. PICK step \in {"reset wptr", "exit"} : Reads(t, step) /\ pc[t] = "check remap"
  BY Zenon DEF CheckRemap
<1>4. pc'[t] = step /\ UNCHANGED <<remap, req, page>>
  BY <1>1, <1>3, Zenon DEF Reads, Go, device, TypeOK, CheckRemap
<1>5. At(page[t]) = {Mine(t)}
  BY <1>1, <1>3, Zenon DEF CopyInv, PageInv, At, Collides
<1>6. PageInv(t)' /\ QueueInv(t)'
  BY <1>4, <1>5, Zenon DEF PageInv, Paged, QueueInv, Mine, At
<1>7. QED
  BY <1>1, <1>2, <1>3, <1>6, ReadsIInv, Zenon DEF Steps, Fresh

\* The fields and the credit are read back: the doorbell follows if they are
\* the copy's own.
LEMMA ReadBackIInv ==
  ASSUME IInv, NEW t \in Threads, ReadBack(t)
  PROVE  IInv'
<1>1. TypeOK /\ CopyInv(t) /\ pc[t] \notin {"idle", "lock"}
      /\ Mine(t) \in Queues /\ page[t] \in Pages \cup {Unset}
  BY HolderFacts, Zenon DEF IInv, ReadBack, TypeOK
<1>2. page' = [page EXCEPT ![t] = page[t]]
  BY <1>1, Zenon DEF ReadBack, TypeOK
<1>3. At(page[t]) = {Mine(t)} /\ pc[t] = "read back" /\ wptr[Mine(t)] = 0
  BY <1>1, Zenon DEF CopyInv, PageInv, Paged, QueueInv, ReadBack
<1>4. PICK step \in {"doorbell", "exit"} :
        /\ Reads(t, step)
        /\ step = "doorbell" => config[Mine(t)] = req[t] /\ credit[Mine(t)] = Depth
  BY <1>3, Zenon DEF ReadBack
<1>5. pc'[t] = step /\ UNCHANGED <<remap, req, page, config, credit, wptr>>
  BY <1>1, <1>4, ZenonT(60) DEF Reads, Go, device, TypeOK, ReadBack
<1>6. PageInv(t)' /\ QueueInv(t)'
  BY <1>3, <1>4, <1>5, Zenon DEF PageInv, Paged, QueueInv, Mine, At
<1>7. QED
  BY <1>1, <1>2, <1>3, <1>4, <1>6, ReadsIInv, Zenon DEF Steps, Fresh

\* The credit is back and the pointers are equal.
LEMMA DrainIInv ==
  ASSUME IInv, NEW t \in Threads, Drain(t)
  PROVE  IInv'
<1>1. TypeOK /\ CopyInv(t) /\ pc[t] \notin {"idle", "lock"}
      /\ Mine(t) \in Queues /\ page[t] \in Pages \cup {Unset}
  BY HolderFacts, Zenon DEF IInv, Drain, TypeOK
<1>2. page' = [page EXCEPT ![t] = page[t]]
  BY <1>1, Zenon DEF Drain, TypeOK
<1>3. Reads(t, "reset wptr") /\ pc[t] = "drain" /\ At(page[t]) = {Mine(t)}
  BY <1>1, Zenon DEF Drain, CopyInv, PageInv, Paged
<1>4. pc'[t] = "reset wptr" /\ UNCHANGED <<remap, req, page>>
  BY <1>1, <1>3, Zenon DEF Reads, Go, device, TypeOK, Drain
<1>5. PageInv(t)' /\ QueueInv(t)'
  BY <1>3, <1>4, Zenon DEF PageInv, Paged, QueueInv, Mine, At
<1>6. QED
  <2>1. "reset wptr" \in Steps \ {"idle", "lock"} /\ "reset wptr" \notin Fresh
    BY Zenon DEF Steps, Fresh
  <2>2. QED
    BY <1>1, <1>2, <1>3, <1>5, <2>1, ReadsIInv, Zenon

\* A poll gives up.
LEMMA TimeoutIInv ==
  ASSUME IInv, NEW t \in Threads, Timeout(t)
  PROVE  IInv'
<1>1. TypeOK /\ CopyInv(t) /\ pc[t] \notin {"idle", "lock"}
      /\ Mine(t) \in Queues /\ page[t] \in Pages \cup {Unset}
  BY HolderFacts, Zenon DEF IInv, Timeout, TypeOK, Polls
<1>2. page' = [page EXCEPT ![t] = page[t]]
  BY <1>1, Zenon DEF Timeout, TypeOK
<1>3. QED
  BY <1>1, <1>2, ReadsIInv, Zenon DEF Timeout, Polls, Steps, Fresh

\* The deadline passes.
LEMMA ElapseIInv ==
  ASSUME IInv, NEW t \in Threads, Elapse(t)
  PROVE  IInv'
<1>1. /\ TypeOK /\ CopyInv(t) /\ Go(t, pc[t]) /\ pc[t] \in Steps \ {"idle", "lock", "exit"}
      /\ UNCHANGED <<remap, credit, wptr, rptr, config, job, moved, q128>>
      /\ UNCHANGED <<lock, faulted, buf, pc, req, page, seen, guard, status>>
  BY Zenon DEF IInv, TypeOK, Elapse, Go, device
<1>2. late' \in [Threads -> BOOLEAN]
  BY <1>1, Zenon DEF Elapse, TypeOK
<1>3. TypeOK'
  BY <1>1, <1>2, Zenon DEF TypeOK
<1>4. PageInv(t)' /\ QueueInv(t)'
  BY <1>1, Zenon DEF CopyInv, PageInv, QueueInv, Mine, At, Collides
<1>5. QED
  BY <1>1, <1>3, <1>4, GoesOn, Zenon

\* The pointers are read back: before the transfer they are cleared, after it
\* the copy is over.
LEMMA ResetCheckIInv ==
  ASSUME IInv, NEW t \in Threads, ResetCheck(t)
  PROVE  IInv'
<1>1. /\ TypeOK /\ CopyInv(t) /\ pc[t] = "reset check" /\ Mine(t) \in Queues
      /\ req[t] \in Requests /\ lock = t /\ At(page[t]) = {Mine(t)}
      /\ UNCHANGED <<device, lock, faulted, buf, req, page, seen, late>>
  BY HolderFacts, Zenon DEF ResetCheck, IInv, CopyInv, PageInv, Paged
<1> DEFINE ok == wptr[Mine(t)] = 0 /\ rptr[Mine(t)] = 0
           last == guard[t].completed
<1>2. /\ guard' = [guard EXCEPT ![t].cleaned = ok /\ last]
      /\ status' = [status EXCEPT ![t] = IF ok /\ last THEN "OK" ELSE "ERROR"]
      /\ pc' = [pc EXCEPT ![t] = IF ok /\ ~ last THEN "fields" ELSE "exit"]
  BY <1>1, Zenon DEF ResetCheck, Go
<1>3. guard \in [Threads -> Guards]
  BY <1>1, Zenon DEF TypeOK
<1> DEFINE v == ok /\ last
<1>a. v \in BOOLEAN /\ guard' = [guard EXCEPT ![t].cleaned = v]
  BY <1>2, Zenon
<1> HIDE DEF v
<1>4. /\ guard' \in [Threads -> Guards]
      /\ guard'[t].touched = guard[t].touched /\ guard'[t].kicked = guard[t].kicked
      /\ guard'[t].completed = guard[t].completed /\ guard'[t].cleaned = v
  BY <1>3, <1>a, CleanedSet
<1>5. /\ pc'[t] \in {"fields", "exit"} /\ (pc'[t] = "fields" => ok /\ ~ last)
      /\ status'[t] = "OK" => ok /\ last
      /\ \A u \in Threads \ {t} : UNCHANGED <<pc[u], guard[u], status[u]>>
  BY <1>1, <1>2, Zenon DEF TypeOK
<1>6. TypeOK'
  BY <1>1, <1>2, <1>4, Zenon DEF TypeOK, Steps, Statuses, device
<1> HIDE DEF last
<1>7. PageInv(t)'
  BY <1>1, <1>5, Zenon DEF PageInv, Paged, Mine, At, device
<1>8. GuardInv(t)'
  BY <1>1, <1>4, <1>5, Zenon DEF CopyInv, GuardInv, Fresh, Mine, device, last, v
<1>9. QueueInv(t)'
  BY <1>1, <1>5, Zenon DEF QueueInv, Mine, device
<1>10. JobInv'
  BY <1>1, JobKept, Zenon DEF device
<1>11. QED
  BY <1>1, <1>5, <1>6, <1>7, <1>8, <1>9, <1>10, HolderStep, Zenon DEF CopyInv

\* An access fails: what it would have written counts as touched, a doorbell
\* as kicked.
LEMMA AccessFailsIInv ==
  ASSUME IInv, NEW t \in Threads, AccessFails(t)
  PROVE  IInv'
<1>1. /\ TypeOK /\ CopyInv(t) /\ pc[t] \notin {"idle", "lock", "exit"}
      /\ Mine(t) \in Queues /\ req[t] \in Requests /\ lock = t
      /\ UNCHANGED <<device, lock, faulted, buf, req, page, seen, late, status>>
      /\ pc' = [pc EXCEPT ![t] = "exit"]
  BY HolderFacts, Zenon DEF AccessFails, Go, IInv
<1> DEFINE v == guard[t].touched \/ pc[t] \in Writes
           w == guard[t].kicked \/ pc[t] = "doorbell"
<1>2. v \in BOOLEAN /\ w \in BOOLEAN
  BY Zenon
<1>3. guard' = [guard EXCEPT ![t].touched = v, ![t].kicked = w]
  BY <1>1, Zenon DEF AccessFails, TypeOK, Guards
<1>4. \A u \in Threads \ {t} : UNCHANGED <<pc[u], guard[u], status[u]>>
  BY <1>1, Zenon DEF AccessFails, TypeOK
<1> HIDE DEF v, w
<1>5. guard \in [Threads -> Guards]
  BY <1>1, Zenon DEF TypeOK
<1>6. /\ guard' \in [Threads -> Guards]
      /\ guard'[t].completed = guard[t].completed
      /\ guard'[t].cleaned = guard[t].cleaned
      /\ guard'[t].kicked = w /\ guard'[t].touched = v
  BY <1>2, <1>3, <1>5, BothSet, Zenon
<1>7. TypeOK'
  BY <1>1, <1>6, Zenon DEF TypeOK, Steps, device
<1>8. PageInv(t)'
  BY <1>1, Zenon DEF PageInv, Paged, TypeOK
<1>9. GuardInv(t)'
  BY <1>1, <1>6, Zenon DEF CopyInv, GuardInv, Fresh, TypeOK, Mine, Writes, v, w, device
<1>10. QueueInv(t)'
  BY <1>1, Zenon DEF QueueInv, TypeOK
<1>11. pc[t] = "completion" => guard'[t].kicked = guard[t].kicked
  <2>1. guard[t].kicked \in BOOLEAN
    BY <1>5, Zenon DEF Guards
  <2>2. pc[t] = "completion" => w = guard[t].kicked
    BY <2>1, Zenon DEF w
  <2>3. QED
    BY <1>6, <2>2, Zenon
<1>12. JobInv'
  BY <1>1, <1>6, <1>11, JobKept, Zenon DEF device, TypeOK
<1>13. QED
  BY <1>1, <1>4, <1>7, <1>8, <1>9, <1>10, <1>12, HolderStep, Zenon DEF CopyInv, TypeOK

\* Touch sets touched and leaves the other flags and the other threads alone.
LEMMA TouchFacts ==
  ASSUME TypeOK, NEW t \in Threads, Touch(t)
  PROVE  /\ guard' \in [Threads -> Guards]
         /\ guard'[t].touched
         /\ guard'[t].kicked = guard[t].kicked
         /\ guard'[t].completed = guard[t].completed
         /\ guard'[t].cleaned = guard[t].cleaned
         /\ \A u \in Threads \ {t} : guard'[u] = guard[u]
<1>1. guard \in [Threads -> Guards] /\ TRUE \in BOOLEAN
  BY Zenon DEF TypeOK
<1>2. /\ guard' \in [Threads -> Guards] /\ guard'[t].touched = TRUE
      /\ guard'[t].kicked = guard[t].kicked
      /\ guard'[t].completed = guard[t].completed
      /\ guard'[t].cleaned = guard[t].cleaned
  BY <1>1, TouchedSet, Zenon DEF Touch
<1>3. \A u \in Threads \ {t} : guard'[u] = guard[u]
  BY <1>1, Zenon DEF Touch
<1>4. QED
  BY <1>2, <1>3, Zenon

\* A write through the copy's page reaches its own queue only.
LEMMA WriteIsOwn ==
  ASSUME NEW t \in Threads, At(page[t]) = {Mine(t)}, NEW S, NEW f \in [Queues -> S],
         NEW v \in S
  PROVE  /\ WriteAt(t, f, v) \in [Queues -> S]
         /\ Mine(t) \in Queues => WriteAt(t, f, v)[Mine(t)] = v
         /\ \A q \in Queues \ {Mine(t)} : WriteAt(t, f, v)[q] = f[q]
  BY Zenon DEF WriteAt

\* WPTR of the copy's queue is cleared.
LEMMA ResetWptrIInv ==
  ASSUME IInv, NEW t \in Threads, ResetWptr(t)
  PROVE  IInv'
<1>1. /\ TypeOK /\ CopyInv(t) /\ pc[t] = "reset wptr" /\ Mine(t) \in Queues
      /\ req[t] \in Requests /\ lock = t /\ Touch(t) /\ Go(t, "reset rptr")
      /\ UNCHANGED <<remap, credit, rptr, config, job, moved, q128>>
      /\ UNCHANGED <<lock, faulted, buf, req, page, seen, late, status>>
  BY HolderFacts, Zenon DEF ResetWptr, IInv
<1>2. At(page[t]) = {Mine(t)} /\ pc'[t] = "reset rptr"
  BY <1>1, Zenon DEF CopyInv, PageInv, Paged, Go, TypeOK
<1>3. wptr' \in [Queues -> Pointers]
  <2>1. 0 \in Pointers
    BY ConstantsAssumption DEF Pointers
  <2>2. QED
    BY <1>1, <1>2, <2>1, WriteIsOwn, Zenon DEF ResetWptr, TypeOK
<1>4. TypeOK'
  BY <1>1, <1>3, TouchFacts, ZenonT(60) DEF TypeOK, Steps, Go
<1>5. PageInv(t)' /\ QueueInv(t)'
  BY <1>1, <1>2, Zenon DEF PageInv, Paged, CopyInv, QueueInv, Mine, At
<1>6. QED
  BY <1>1, <1>4, <1>5, TouchFacts, GoesOn, Zenon DEF Steps, Fresh

\* RPTR of the copy's queue is cleared.
LEMMA ResetRptrIInv ==
  ASSUME IInv, NEW t \in Threads, ResetRptr(t)
  PROVE  IInv'
<1>1. /\ TypeOK /\ CopyInv(t) /\ pc[t] = "reset rptr" /\ Mine(t) \in Queues
      /\ req[t] \in Requests /\ lock = t /\ Touch(t) /\ Go(t, "reset check")
      /\ UNCHANGED <<remap, credit, wptr, config, job, moved, q128>>
      /\ UNCHANGED <<lock, faulted, buf, req, page, seen, late, status>>
  BY HolderFacts, Zenon DEF ResetRptr, IInv
<1>2. At(page[t]) = {Mine(t)} /\ pc'[t] = "reset check"
  BY <1>1, Zenon DEF CopyInv, PageInv, Paged, Go, TypeOK
<1>3. rptr' \in [Queues -> Pointers]
  <2>1. 0 \in Pointers
    BY ConstantsAssumption DEF Pointers
  <2>2. QED
    BY <1>1, <1>2, <2>1, WriteIsOwn, Zenon DEF ResetRptr, TypeOK
<1>4. TypeOK'
  BY <1>1, <1>3, TouchFacts, ZenonT(60) DEF TypeOK, Steps, Go
<1>5. PageInv(t)' /\ QueueInv(t)'
  BY <1>1, <1>2, Zenon DEF PageInv, Paged, CopyInv, QueueInv, Mine, At
<1>6. QED
  BY <1>1, <1>4, <1>5, TouchFacts, GoesOn, Zenon DEF Steps, Fresh

\* The fields of the copy's queue are written, or spoilt.
LEMMA FieldsIInv ==
  ASSUME IInv, NEW t \in Threads, Fields(t)
  PROVE  IInv'
<1>1. /\ TypeOK /\ CopyInv(t) /\ pc[t] = "fields" /\ Mine(t) \in Queues
      /\ req[t] \in Requests /\ lock = t /\ Touch(t) /\ Go(t, "read back")
      /\ UNCHANGED <<remap, credit, wptr, rptr, job, moved, q128>>
      /\ UNCHANGED <<lock, faulted, buf, req, page, seen, late, status>>
  BY HolderFacts, Zenon DEF Fields, IInv
<1>2. At(page[t]) = {Mine(t)} /\ pc'[t] = "read back"
  BY <1>1, Zenon DEF CopyInv, PageInv, Paged, Go, TypeOK
<1>3. config' \in [Queues -> Requests \cup {None}]
  <2>1. PICK c \in {req[t], None} : config' = WriteAt(t, config, c)
    BY Zenon DEF Fields
  <2>2. c \in Requests \cup {None}
    BY <1>1, Zenon
  <2>3. QED
    BY <1>1, <1>2, <2>1, <2>2, WriteIsOwn, Zenon DEF TypeOK
<1>4. TypeOK'
  BY <1>1, <1>3, TouchFacts, ZenonT(60) DEF TypeOK, Steps, Go
<1>5. PageInv(t)' /\ QueueInv(t)'
  BY <1>1, <1>2, Zenon DEF PageInv, Paged, CopyInv, QueueInv, Mine, At
<1>6. QED
  BY <1>1, <1>4, <1>5, TouchFacts, GoesOn, Zenon DEF Steps, Fresh

\* RPTR of the copy's queue is set to the WPTR seen.
LEMMA AcknowledgeIInv ==
  ASSUME IInv, NEW t \in Threads, Acknowledge(t)
  PROVE  IInv'
<1>1. /\ TypeOK /\ CopyInv(t) /\ pc[t] = "acknowledge" /\ Mine(t) \in Queues
      /\ req[t] \in Requests /\ lock = t /\ Touch(t) /\ Go(t, "drain")
      /\ UNCHANGED <<remap, credit, wptr, config, job, moved, q128>>
      /\ UNCHANGED <<lock, faulted, buf, req, page, seen, late, status>>
  BY HolderFacts, Zenon DEF Acknowledge, IInv
<1>2. At(page[t]) = {Mine(t)} /\ pc'[t] = "drain"
  BY <1>1, Zenon DEF CopyInv, PageInv, Paged, Go, TypeOK
<1>3. rptr' \in [Queues -> Pointers]
  BY <1>1, <1>2, WriteIsOwn, Zenon DEF Acknowledge, TypeOK
<1>4. TypeOK'
  BY <1>1, <1>3, TouchFacts, ZenonT(60) DEF TypeOK, Steps, Go
<1>5. PageInv(t)' /\ QueueInv(t)'
  BY <1>1, <1>2, Zenon DEF PageInv, Paged, CopyInv, QueueInv, Mine, At
<1>6. QED
  BY <1>1, <1>4, <1>5, TouchFacts, GoesOn, Zenon DEF Steps, Fresh

\* The remap register of the copy's queue is set to a page no other queue is at.
LEMMA SetRemapIInv ==
  ASSUME IInv, NEW t \in Threads, SetRemap(t)
  PROVE  IInv'
<1>1. /\ TypeOK /\ CopyInv(t) /\ pc[t] = "set remap" /\ Mine(t) \in Queues
      /\ req[t] \in Requests /\ lock = t /\ Touch(t) /\ Go(t, "check remap")
      /\ remap' = [remap EXCEPT ![Mine(t)] = page[t]]
      /\ UNCHANGED <<credit, wptr, rptr, config, job, moved, q128>>
      /\ UNCHANGED <<lock, faulted, buf, req, page, seen, late, status>>
  BY HolderFacts, Zenon DEF SetRemap, IInv, Mine
<1>2. pc'[t] = "check remap"
  BY <1>1, Zenon DEF Go, TypeOK
<1>3. TypeOK'
  BY <1>1, TouchFacts, ZenonT(60) DEF TypeOK, Steps, Go
<1>4. PageInv(t)' /\ QueueInv(t)'
  BY <1>1, <1>2, Zenon DEF CopyInv, PageInv, Paged, QueueInv, Mine, Collides, TypeOK
<1>5. QED
  BY <1>1, <1>3, <1>4, TouchFacts, GoesOn, Zenon DEF Steps, Fresh

\* The doorbell starts the copy's own transfer and nobody else's.
LEMMA DoorbellIInv ==
  ASSUME IInv, NEW t \in Threads, Doorbell(t)
  PROVE  IInv'
<1>1. /\ TypeOK /\ JobInv /\ CopyInv(t) /\ pc[t] = "doorbell" /\ Mine(t) \in Queues
      /\ req[t] \in Requests /\ lock = t /\ lock # None
      /\ pc' = [pc EXCEPT ![t] = "completion"]
      /\ UNCHANGED <<remap, wptr, rptr, config, moved, q128>>
      /\ UNCHANGED <<lock, faulted, buf, req, page, seen, late, status>>
  BY HolderFacts, Zenon DEF Doorbell, Go, IInv
<1>2. /\ At(page[t]) = {Mine(t)} /\ config[Mine(t)] = req[t]
      /\ credit[Mine(t)] = Depth /\ wptr[Mine(t)] = 0 /\ ~ guard[t].completed
  BY <1>1, Zenon DEF CopyInv, PageInv, Paged, QueueInv, GuardInv, Fresh
<1>3. /\ guard' \in [Threads -> Guards]
      /\ guard'[t].touched = TRUE /\ guard'[t].kicked = TRUE
      /\ guard'[t].completed = guard[t].completed
      /\ guard'[t].cleaned = guard[t].cleaned
  <2>1. guard \in [Threads -> Guards] /\ TRUE \in BOOLEAN
    BY <1>1, Zenon DEF TypeOK
  <2>2. QED
    BY <2>1, BothSet, Zenon DEF Doorbell
<1>4. /\ pc'[t] = "completion"
      /\ \A u \in Threads \ {t} : UNCHANGED <<pc[u], guard[u], status[u]>>
  BY <1>1, Zenon DEF TypeOK, Doorbell
<1>5. /\ job' = [job EXCEPT ![Mine(t)] = [cfg |-> req[t], left |-> req[t].size]]
      /\ credit' = [credit EXCEPT ![Mine(t)] = Depth - 1]
  BY <1>1, <1>2, RequestType, Zenon DEF Doorbell, TypeOK
<1>6. [cfg |-> req[t], left |-> req[t].size] \in Jobs
  BY <1>1, RequestType, Zenon DEF Jobs
<1>7. TypeOK'
  <2>1. job' \in [Queues -> Jobs \cup {None}]
    BY <1>1, <1>5, <1>6, Zenon DEF TypeOK
  <2>2. credit' \in [Queues -> 0 .. Depth]
    <3>1. Depth - 1 \in 0 .. Depth
      BY ConstantsAssumption
    <3>2. QED
      BY <1>1, <1>5, <3>1, Zenon DEF TypeOK
  <2>3. QED
    BY <1>1, <1>3, <2>1, <2>2, Zenon DEF TypeOK, Steps
<1>8. PageInv(t)'
  BY <1>1, <1>2, <1>4, Zenon DEF PageInv, Paged, Mine, At
<1>9. GuardInv(t)'
  BY <1>1, <1>2, <1>3, <1>4, Zenon DEF CopyInv, GuardInv, Fresh, Mine
<1>10. job'[Mine(t)] = [cfg |-> req[t], left |-> req[t].size]
  BY <1>1, <1>5, Zenon DEF TypeOK
<1>11. QueueInv(t)'
  BY <1>1, <1>2, <1>4, <1>6, <1>10, RequestType, ConstantsAssumption DEF QueueInv, Mine
<1>12. JobInv'
  <2> SUFFICES ASSUME NEW q \in Queues, job'[q] # None
               PROVE  \/ faulted[q] /\ \A b \in Uses(job'[q].cfg) : buf[b] = "kept"
                      \/ lock # None /\ InFlight(lock, q)'
    BY <1>1, Zenon DEF JobInv, Uses
  <2>1. CASE q = Mine(t)
    BY <1>1, <1>2, <1>3, <1>4, <1>10, <2>1 DEF InFlight, Mine
  <2>2. CASE q # Mine(t)
    BY <1>1, <1>5, <2>2, Zenon DEF JobInv, InFlight, TypeOK
  <2>3. QED
    BY <2>1, <2>2, Zenon
<1>13. QED
  BY <1>1, <1>4, <1>7, <1>8, <1>9, <1>11, <1>12, HolderStep, Zenon DEF CopyInv

\* WPTR has counted the whole transfer, so it is over.
LEMMA CompletionIInv ==
  ASSUME IInv, NEW t \in Threads, Completion(t)
  PROVE  IInv'
<1>1. /\ TypeOK /\ JobInv /\ CopyInv(t) /\ pc[t] = "completion" /\ Mine(t) \in Queues
      /\ req[t] \in Requests /\ lock = t
      /\ pc' = [pc EXCEPT ![t] = "acknowledge"]
      /\ UNCHANGED <<remap, credit, wptr, rptr, config, job, moved, q128>>
      /\ UNCHANGED <<lock, faulted, buf, req, page, late, status>>
  BY HolderFacts, Zenon DEF Completion, Go, IInv, device
<1>2. At(page[t]) = {Mine(t)}
  BY <1>1, Zenon DEF CopyInv, PageInv, Paged
<1>3. Arrived(t, wptr[Mine(t)]) /\ seen' = [seen EXCEPT ![t] = wptr[Mine(t)]]
  BY <1>2, Zenon DEF Completion
<1>4. job[Mine(t)] = None /\ moved[Mine(t)] = req[t]
  <2>1. wptr[Mine(t)] \in Nat /\ wptr[Mine(t)] >= req[t].size
    BY <1>1, <1>3, RequestType, ConstantsAssumption
    DEF TypeOK, Arrived, Minus, Pointers
  <2>2. SUFFICES ASSUME job[Mine(t)] # None PROVE FALSE
    BY <1>1, Zenon DEF CopyInv, QueueInv
  <2>3. job[Mine(t)].left \in Nat \ {0}
    BY <1>1, <2>2, ConstantsAssumption DEF TypeOK, Jobs
  <2>4. wptr[Mine(t)] = req[t].size - job[Mine(t)].left
    BY <1>1, <2>2, Zenon DEF CopyInv, QueueInv
  <2>5. QED
    BY SMTT(60), <1>1, <2>1, <2>3, <2>4, RequestType
<1>5. /\ guard' \in [Threads -> Guards] /\ guard'[t].completed = TRUE
      /\ guard'[t].touched = guard[t].touched
      /\ guard'[t].kicked = guard[t].kicked
      /\ guard'[t].cleaned = guard[t].cleaned
  <2>1. guard \in [Threads -> Guards] /\ TRUE \in BOOLEAN
    BY <1>1, Zenon DEF TypeOK
  <2>2. QED
    BY <2>1, CompletedSet, Zenon DEF Completion
<1>6. /\ pc'[t] = "acknowledge"
      /\ \A u \in Threads \ {t} : UNCHANGED <<pc[u], guard[u], status[u]>>
  BY <1>1, Zenon DEF TypeOK, Completion
<1>7. TypeOK'
  BY <1>1, <1>3, <1>5, ZenonT(60) DEF TypeOK, Steps
<1>8. PageInv(t)'
  BY <1>1, <1>2, <1>6, Zenon DEF PageInv, Paged, Mine, At
<1>9. GuardInv(t)'
  BY <1>1, <1>4, <1>5, <1>6, Zenon DEF CopyInv, GuardInv, Fresh, Mine
<1>10. QueueInv(t)'
  BY <1>6, Zenon DEF QueueInv
<1>11. JobInv'
  BY <1>1, <1>4, Zenon DEF JobInv, InFlight
<1>12. QED
  BY <1>1, <1>6, <1>7, <1>8, <1>9, <1>10, <1>11, HolderStep, Zenon DEF CopyInv

-----------------------------------------------------------------------------
(***************************************************************************)
(* The inductive invariant is kept: calls, the lock, return, hardware.     *)
(***************************************************************************)

\* A call brings buffers it owns and no other call works on.
LEMMA CallIInv ==
  ASSUME IInv, NEW t \in Threads, NEW r \in Requests, Call(t, r)
  PROVE  IInv'
<1>1. /\ TypeOK /\ JobInv /\ BufInv /\ CopyInv(t) /\ pc[t] = "idle"
      /\ pc' = [pc EXCEPT ![t] = "lock"] /\ req' = [req EXCEPT ![t] = r]
      /\ UNCHANGED <<remap, credit, wptr, rptr, config, job, moved, q128>>
      /\ UNCHANGED <<lock, faulted, buf, page, seen, guard, late, status>>
  BY Zenon DEF Call, Go, IInv, device
<1>2. /\ pc'[t] = "lock" /\ req'[t] = r
      /\ \A u \in Threads \ {t} : UNCHANGED <<pc[u], req[u]>>
  BY <1>1, Zenon DEF TypeOK
<1>3. TypeOK'
  BY <1>1, <1>2, ZenonT(60) DEF TypeOK, Steps
<1>4. ASSUME NEW u \in Threads PROVE CopyInv(u)'
  <2>1. CopyInv(u)
    BY Zenon DEF IInv
  <2>2. CASE u = t
    <3>1. guard[t] = NewGuard /\ status[t] # "OK"
      BY <1>1 DEF CopyInv, GuardInv, Fresh, NewGuard
    <3>2. PageInv(t)' /\ QueueInv(t)'
      BY <1>2, Zenon DEF PageInv, Paged, QueueInv
    <3>3. GuardInv(t)'
      BY <1>1, <1>2, <3>1 DEF GuardInv, Fresh, NewGuard
    <3>4. QED
      BY <2>2, <3>2, <3>3, Zenon DEF CopyInv
  <2>3. CASE u # t
    <3>1. PageInv(u)'
      BY <1>1, <1>2, <2>1, <2>3, Zenon DEF CopyInv, PageInv, Mine, Collides, At
    <3>2. GuardInv(u)'
      BY <1>1, <1>2, <2>1, <2>3, Zenon DEF CopyInv, GuardInv, Fresh, Mine
    <3>3. QueueInv(u)'
      BY <1>1, <1>2, <2>1, <2>3, ZenonT(60) DEF CopyInv, QueueInv, Mine
    <3>4. QED
      BY <3>1, <3>2, <3>3, Zenon DEF CopyInv
  <2>4. QED
    BY <2>2, <2>3, Zenon
<1>5. JobInv'
  <2>1. ASSUME NEW q \in Queues, lock # None, InFlight(lock, q) PROVE InFlight(lock, q)'
    BY <1>1, <1>2, <2>1, Zenon DEF TypeOK, InFlight, Mine
  <2>2. QED
    BY <1>1, <2>1, Zenon DEF JobInv, Uses
<1>6. BufInv'
  <2>1. \A b \in Uses(r) : buf[b] = "owned" /\ b \notin InUse
    BY Zenon DEF Call
  <2>2. \A u \in Threads : pc[u] # "idle" => Uses(r) \cap Uses(req[u]) = {}
    BY <2>1, Zenon DEF InUse
  <2>3. QED
    BY <1>1, <1>2, <2>1, <2>2 DEF BufInv
<1>7. QED
  BY <1>3, <1>4, <1>5, <1>6, Zenon DEF IInv

\* With the lock free every transfer left over is on a poisoned queue.
LEMMA AcquireIInv ==
  ASSUME IInv, NEW t \in Threads, Acquire(t)
  PROVE  IInv'
<1>1. /\ TypeOK /\ JobInv /\ BufInv /\ CopyInv(t) /\ pc[t] = "lock" /\ lock = None
      /\ lock' = t /\ req[t] \in Requests /\ Mine(t) \in Queues
      /\ pc' = [pc EXCEPT ![t] = IF faulted[Mine(t)] THEN "exit" ELSE "remap"]
      /\ UNCHANGED <<remap, credit, wptr, rptr, config, job, moved, q128>>
      /\ UNCHANGED <<faulted, buf, req, page, seen, guard, late, status>>
  BY RequestType, Zenon DEF Acquire, Go, IInv, device, Unlocked, IsFaulted, Mine, TypeOK
<1>2. /\ pc'[t] \in {"exit", "remap"} /\ (pc'[t] = "remap" => ~ faulted[Mine(t)])
      /\ \A u \in Threads \ {t} : pc'[u] = pc[u]
  BY <1>1, Zenon DEF TypeOK
<1>3. \A u \in Threads : pc[u] \in {"idle", "lock"}
  BY <1>1, ConstantsAssumption, Zenon DEF TypeOK
<1>4. TypeOK'
  BY <1>1, <1>3, Zenon DEF TypeOK, Steps
<1>5. ASSUME NEW u \in Threads PROVE CopyInv(u)'
  <2>1. CopyInv(u)
    BY Zenon DEF IInv
  <2>2. guard[u] = NewGuard /\ status[u] # "OK"
    <3>1. guard[u] = NewGuard /\ (status[u] = "OK" => guard[u].completed)
      BY <1>3, <2>1, Zenon DEF CopyInv, GuardInv, Fresh
    <3>2. ~ NewGuard.completed
      BY Zenon DEF NewGuard
    <3>3. QED
      BY <3>1, <3>2, Zenon
  <2>3. pc'[u] \in {"idle", "lock", "exit", "remap"}
    BY <1>2, <1>3, Zenon
  <2>4. PageInv(u)' /\ QueueInv(u)'
    BY <2>3, Zenon DEF PageInv, Paged, QueueInv
  <2>5. GuardInv(u)'
    BY <1>1, <1>2, <1>3, <2>2 DEF GuardInv, Fresh, NewGuard, Mine
  <2>6. QED
    BY <2>4, <2>5, Zenon DEF CopyInv
<1>6. JobInv'
  BY <1>1, Zenon DEF JobInv, Uses
<1>7. BufInv'
  BY <1>1, <1>2, ZenonT(60) DEF BufInv
<1>8. QED
  BY <1>4, <1>5, <1>6, <1>7, Zenon DEF IInv

\* A copy that leaves its transfer in flight poisons the queue and retains
\* the buffers.
LEMMA ExitIInv ==
  ASSUME IInv, NEW t \in Threads, Exit(t)
  PROVE  IInv'
<1>1. /\ TypeOK /\ JobInv /\ BufInv /\ CopyInv(t) /\ pc[t] = "exit"
      /\ lock = t /\ req[t] \in Requests /\ Mine(t) \in Queues
      /\ \A u \in Threads \ {t} : pc[u] \in {"idle", "lock"}
      /\ lock' = None /\ pc' = [pc EXCEPT ![t] = "idle"]
      /\ faulted' = [faulted EXCEPT ![Mine(t)] = @ \/ Poisons(guard[t])]
      /\ buf' = [b \in Bufs |->
                   IF Retains(guard[t]) /\ b \in Uses(req[t]) THEN "kept" ELSE buf[b]]
      /\ moved' = [moved EXCEPT ![Mine(t)] = None]
      /\ req' = [req EXCEPT ![t] = None]
      /\ page' = [page EXCEPT ![t] = Unset]
      /\ seen' = [seen EXCEPT ![t] = 0]
      /\ guard' = [guard EXCEPT ![t] = NewGuard]
      /\ late' = [late EXCEPT ![t] = FALSE]
      /\ status' = [status EXCEPT ![t] = "ERROR"]
      /\ UNCHANGED <<remap, credit, wptr, rptr, config, job, q128>>
  BY HolderFacts, Zenon DEF Exit, Go, IInv, Mine
<1>2. /\ pc'[t] = "idle" /\ guard'[t] = NewGuard /\ status'[t] = "ERROR"
      /\ \A u \in Threads \ {t} : UNCHANGED <<pc[u], guard[u], status[u], req[u]>>
  BY <1>1, Zenon DEF TypeOK
<1>3. TypeOK'
  <2>1. faulted' \in [Queues -> BOOLEAN]
    BY <1>1, Zenon DEF TypeOK
  <2>2. late' \in [Threads -> BOOLEAN]
    BY <1>1, Zenon DEF TypeOK
  <2>3. NewGuard \in Guards
    BY Zenon DEF NewGuard, Guards
  <2>4. 0 \in Pointers
    BY ConstantsAssumption DEF Pointers
  <2>5. buf' \in [Bufs -> {"owned", "kept"}]
    BY <1>1, Zenon DEF TypeOK
  <2>6. guard' \in [Threads -> Guards] /\ seen' \in [Threads -> Pointers]
    BY <1>1, <2>3, <2>4, Zenon DEF TypeOK
  <2>7. QED
    BY <1>1, <2>1, <2>2, <2>5, <2>6, ZenonT(30) DEF TypeOK, Steps, Statuses
<1>4. ASSUME NEW u \in Threads PROVE CopyInv(u)'
  <2>1. CopyInv(u)
    BY DEF IInv
  <2>2. pc'[u] \in {"idle", "lock"} /\ guard'[u] = NewGuard
    BY <1>1, <1>2, <2>1, ZenonT(60) DEF CopyInv, GuardInv, Fresh
  <2>3. status'[u] # "OK"
    <3>1. u # t => guard[u] = NewGuard /\ (status[u] = "OK" => guard[u].completed)
      BY <1>1, <2>1, Zenon DEF CopyInv, GuardInv, Fresh
    <3>2. ~ NewGuard.completed
      BY DEF NewGuard
    <3>3. QED
      BY <1>2, <3>1, <3>2, Zenon
  <2>4. PageInv(u)' /\ QueueInv(u)'
    BY <2>2, Zenon DEF PageInv, Paged, QueueInv
  <2>5. GuardInv(u)'
    BY <2>2, <2>3 DEF GuardInv, Fresh, NewGuard
  <2>6. QED
    BY <2>4, <2>5 DEF CopyInv
<1>5. JobInv'
  <2> SUFFICES ASSUME NEW q \in Queues, job[q] # None
               PROVE  faulted'[q] /\ \A b \in Uses(job[q].cfg) : buf'[b] = "kept"
    BY <1>1, Zenon DEF JobInv, Uses
  <2>0. job[q].cfg \in Requests /\ Uses(job[q].cfg) \subseteq Bufs
    BY <1>1, RequestType, Zenon DEF TypeOK, Jobs
  <2>1. CASE faulted[q] /\ \A b \in Uses(job[q].cfg) : buf[b] = "kept"
    <3>1. faulted'[q]
      BY <1>1, <2>1, Zenon DEF TypeOK
    <3>2. QED
      BY <1>1, <2>0, <2>1, <3>1, Zenon
  <2>2. CASE InFlight(t, q)
    <3>1. Poisons(guard[t]) /\ Retains(guard[t])
      BY <1>1, <2>2, Zenon DEF InFlight, CopyInv, GuardInv, Fresh, Poisons, Retains
    <3>2. faulted'[q]
      BY <1>1, <2>2, <3>1, Zenon DEF TypeOK, InFlight
    <3>3. QED
      BY <1>1, <2>0, <2>2, <3>1, <3>2, Zenon DEF InFlight
  <2>3. QED
    BY <1>1, <2>1, <2>2, Zenon DEF JobInv
<1>6. BufInv'
  <2>1. ASSUME NEW u \in Threads, pc'[u] # "idle", NEW b \in Uses(req'[u])
        PROVE  buf'[b] = "owned"
    <3>1. u # t /\ pc[u] # "idle" /\ b \in Uses(req[u]) /\ pc[t] # "idle"
      BY <1>1, <1>2, <2>1, Zenon
    <3>2. buf[b] = "owned" /\ b \notin Uses(req[t])
      BY <1>1, <3>1, Zenon DEF BufInv
    <3>3. b \in Bufs
      BY <1>1, <3>1, RequestType, Zenon DEF TypeOK
    <3>4. QED
      BY <1>1, <3>2, <3>3, Zenon
  <2>2. ASSUME NEW u \in Threads, NEW w \in Threads, u # w,
               pc'[u] # "idle", pc'[w] # "idle"
        PROVE  Uses(req'[u]) \cap Uses(req'[w]) = {}
    <3>1. u # t /\ w # t
      BY <1>2, <2>2, Zenon
    <3>2. /\ pc[u] # "idle" /\ pc[w] # "idle"
          /\ req'[u] = req[u] /\ req'[w] = req[w]
      BY <1>2, <2>2, <3>1, Zenon
    <3>3. Uses(req[u]) \cap Uses(req[w]) = {}
      BY <1>1, <2>2, <3>2, Zenon DEF BufInv
    <3>4. QED
      BY <3>2, <3>3, Zenon DEF Uses
  <2>3. QED
    BY <2>1, <2>2, Zenon DEF BufInv
<1>7. QED
  BY <1>3, <1>4, <1>5, <1>6, Zenon DEF IInv

\* The hardware moves a unit for the copy in flight or for a copy long gone;
\* the WPTR of the copy in flight stays below its size, so it does not wrap.
LEMMA MoveIInv ==
  ASSUME IInv, NEW q \in Queues, Move(q)
  PROVE  IInv'
<1>1. /\ TypeOK /\ JobInv /\ BufInv /\ job[q] # None
      /\ UNCHANGED <<remap, credit, rptr, config, q128>>
      /\ UNCHANGED <<lock, faulted, buf, pc, req, page, seen, guard, late, status>>
  BY Zenon DEF Move, IInv, host
<1>2. /\ job[q] \in Jobs /\ job[q].cfg \in Requests
      /\ job[q].left \in Nat \ {0} /\ job[q].left <= MaxSize
  BY <1>1, ConstantsAssumption DEF TypeOK, Jobs
<1>3. /\ \A o \in Queues \ {q} : UNCHANGED <<job[o], moved[o], wptr[o]>>
      /\ job[q].left = 1 => job'[q] = None /\ moved'[q] = job[q].cfg
      /\ job[q].left # 1 => /\ job'[q] = [job[q] EXCEPT !.left = job[q].left - 1]
                            /\ moved'[q] = moved[q]
      /\ wptr'[q] = IF wptr[q] + 1 = Word THEN 0 ELSE wptr[q] + 1
  BY <1>1, Zenon DEF Move, TypeOK
<1>4. job[q].left # 1 =>
        /\ job'[q] \in Jobs /\ job'[q].cfg = job[q].cfg
        /\ job'[q].left = job[q].left - 1 /\ job'[q] # None
  BY <1>2, <1>3, ConstantsAssumption DEF Jobs
<1>5. TypeOK'
  <2>1. job' \in [Queues -> Jobs \cup {None}]
    BY <1>1, <1>3, <1>4, Zenon DEF TypeOK, Move
  <2>2. moved' \in [Queues -> Requests \cup {None}]
    BY <1>1, <1>2, <1>3, ZenonT(60) DEF TypeOK, Move
  <2>3. wptr' \in [Queues -> Pointers]
    <3>1. (IF wptr[q] + 1 = Word THEN 0 ELSE wptr[q] + 1) \in Pointers
      BY SMTT(60), <1>1, ConstantsAssumption DEF TypeOK, Pointers
    <3>2. QED
      BY <1>1, <3>1, Zenon DEF TypeOK, Move
  <2>4. QED
    BY <1>1, <2>1, <2>2, <2>3, Zenon DEF TypeOK
<1>6. JobInv'
  <2>1. ASSUME NEW o \in Queues, job'[o] # None
        PROVE  job[o] # None /\ job'[o].cfg = job[o].cfg
    BY <1>1, <1>3, <1>4, <2>1, Zenon
  <2>2. QED
    BY <1>1, <2>1 DEF JobInv, InFlight, Mine, Uses
<1>7. BufInv'
  BY <1>1, Zenon DEF BufInv
<1>8. ASSUME NEW t \in Threads PROVE CopyInv(t)'
  <2>1. CopyInv(t) /\ UNCHANGED Mine(t)
    BY <1>1, Zenon DEF IInv, Mine
  <2>2. PageInv(t)'
    BY <1>1, <2>1, Zenon DEF CopyInv, PageInv, Collides, At
  <2>3. pc[t] \notin {"idle", "lock"} => Mine(t) \in Queues /\ req[t] \in Requests
    BY <1>1, HolderFacts, Zenon
  <2>4. GuardInv(t)'
    <3>1. guard[t].completed => pc[t] \notin {"idle", "lock"} /\ Mine(t) # q
      <4>1. ~ NewGuard.completed
        BY Zenon DEF NewGuard
      <4>2. pc[t] \in {"idle", "lock"} => guard[t] = NewGuard
        BY <2>1, Zenon DEF CopyInv, GuardInv, Fresh
      <4>3. guard[t].completed => job[Mine(t)] = None
        BY <2>1, Zenon DEF CopyInv, GuardInv, Fresh
      <4>4. QED
        BY <1>1, <4>1, <4>2, <4>3, Zenon
    <3>2. guard[t].completed => UNCHANGED <<job[Mine(t)], moved[Mine(t)]>>
      BY <1>3, <2>1, <2>3, <3>1, ZenonT(30)
    <3>3. QED
      BY <1>1, <2>1, <3>2, Zenon DEF CopyInv, GuardInv, Fresh
  <2>5. Mine(t) = q /\ pc[t] \notin {"idle", "lock", "exit"} =>
          pc[t] = "completion" /\ job[q].cfg = req[t]
    BY <1>1, <2>1, HolderFacts, Zenon DEF CopyInv, GuardInv, Fresh, JobInv, InFlight
  <2>6. QueueInv(t)'
    <3>1. CASE pc[t] = "completion" /\ Mine(t) = q
      <4>1. /\ wptr[q] = req[t].size - job[q].left /\ job[q].cfg = req[t]
            /\ req[t].size \in Nat /\ req[t].size < Word
        BY <1>1, <2>1, <2>3, <2>5, <3>1, RequestType, Zenon DEF CopyInv, QueueInv
      <4>2. wptr'[q] = req[t].size - job[q].left + 1
        BY <1>2, <1>3, <4>1, ConstantsAssumption
      <4>3. QED
        BY <1>1, <1>2, <1>3, <1>4, <2>1, <3>1, <4>1, <4>2 DEF QueueInv
    <3>2. CASE pc[t] \in {"fields", "read back", "doorbell", "completion"} /\ Mine(t) # q
      BY <1>1, <1>3, <2>1, <2>3, <3>2, ZenonT(30) DEF CopyInv, QueueInv
    <3>3. CASE pc[t] \notin {"fields", "read back", "doorbell", "completion"}
      BY <1>1, <3>3, Zenon DEF QueueInv
    <3>4. QED
      BY <2>5, <3>1, <3>2, <3>3, Zenon
  <2>7. QED
    BY <2>2, <2>4, <2>6, Zenon DEF CopyInv
<1>9. QED
  BY <1>5, <1>6, <1>7, <1>8, Zenon DEF IInv

\* The hardware returns a credit; at the doorbell there is none to return.
LEMMA CreditIInv ==
  ASSUME IInv, NEW q \in Queues, Credit(q)
  PROVE  IInv'
<1>1. /\ TypeOK /\ credit[q] < Depth /\ credit' = [credit EXCEPT ![q] = @ + 1]
      /\ UNCHANGED <<remap, wptr, rptr, config, job, moved, q128>>
      /\ UNCHANGED <<lock, faulted, buf, pc, req, page, seen, guard, late, status>>
  BY Zenon DEF Credit, IInv, host
<1>2. credit' \in [Queues -> 0 .. Depth]
  <2>1. credit[q] + 1 \in 0 .. Depth
    BY <1>1, ConstantsAssumption DEF TypeOK
  <2>2. QED
    BY <1>1, <2>1, Zenon DEF TypeOK
<1>3. TypeOK'
  BY <1>1, <1>2, Zenon DEF TypeOK
<1>4. JobInv' /\ BufInv'
  BY <1>1 DEF IInv, JobInv, BufInv, InFlight, Mine, Uses
<1>5. ASSUME NEW t \in Threads PROVE CopyInv(t)'
  <2>1. CopyInv(t) /\ UNCHANGED Mine(t)
    BY <1>1, Zenon DEF IInv, Mine
  <2>2. PageInv(t)'
    BY <1>1, <2>1, Zenon DEF CopyInv, PageInv, Collides, At
  <2>3. GuardInv(t)'
    BY <1>1, <2>1, Zenon DEF CopyInv, GuardInv, Fresh
  <2>4. pc[t] = "doorbell" => Mine(t) \in Queues /\ Mine(t) # q
    <3>1. pc[t] = "doorbell" => Mine(t) \in Queues /\ credit[Mine(t)] = Depth
      BY <1>1, <2>1, HolderFacts, Zenon DEF CopyInv, QueueInv
    <3>2. QED
      BY <1>1, <3>1, ConstantsAssumption
  <2>5. QueueInv(t)'
    BY <1>1, <2>1, <2>4, Zenon DEF CopyInv, QueueInv, TypeOK
  <2>6. QED
    BY <2>2, <2>3, <2>5 DEF CopyInv
<1>6. QED
  BY <1>3, <1>4, <1>5, Zenon DEF IInv

-----------------------------------------------------------------------------
(***************************************************************************)
(* The theorems.                                                           *)
(***************************************************************************)

\* A session starts within the invariant.
LEMMA InitIInv == Init => IInv
<1> SUFFICES ASSUME Init PROVE IInv
  BY Zenon
<1>1. TypeOK
  <2>1. faulted \in [Queues -> BOOLEAN] /\ late \in [Threads -> BOOLEAN]
    BY Zenon DEF Init
  <2>2. guard \in [Threads -> Guards]
    BY Zenon DEF Init, Guards, NewGuard
  <2>3. 0 \in Pointers /\ Baselines \subseteq Pointers /\ Depth \in 0 .. Depth
    BY ConstantsAssumption DEF Pointers
  <2>4. credit \in [Queues -> 0 .. Depth] /\ seen \in [Threads -> Pointers]
    BY <2>3, Zenon DEF Init
  <2>5. wptr \in [Queues -> Pointers] /\ rptr \in [Queues -> Pointers]
    BY <2>3, Zenon DEF Init
  <2>6. QED
    BY <2>1, <2>2, <2>4, <2>5, Zenon DEF Init, TypeOK, Steps, Statuses
<1>2. JobInv
  BY Zenon DEF Init, JobInv
<1>3. BufInv
  BY Zenon DEF Init, BufInv
<1>4. ASSUME NEW t \in Threads PROVE CopyInv(t)
  <2>1. pc[t] = "idle" /\ guard[t] = NewGuard /\ status[t] = "ERROR"
    BY Zenon DEF Init
  <2>2. PageInv(t) /\ QueueInv(t)
    BY <2>1, Zenon DEF PageInv, Paged, QueueInv
  <2>3. GuardInv(t)
    BY <2>1 DEF GuardInv, Fresh, NewGuard
  <2>4. QED
    BY <2>2, <2>3, Zenon DEF CopyInv
<1>5. QED
  BY <1>1, <1>2, <1>3, <1>4, Zenon DEF IInv

\* Every step of Next keeps the invariant.
LEMMA StepIInv == IInv /\ [Next]_vars => IInv'
<1> SUFFICES ASSUME IInv, [Next]_vars PROVE IInv'
  BY Zenon
<1>1. ASSUME NEW t \in Threads, NEW r \in Requests, Call(t, r) PROVE IInv'
  BY <1>1, CallIInv, Zenon
<1>2. ASSUME NEW t \in Threads, Acquire(t) PROVE IInv'
  BY <1>2, AcquireIInv, Zenon
<1>3. ASSUME NEW t \in Threads, CopyStep(t) PROVE IInv'
  BY Zenon, <1>3, ReadRemapIInv, WaitIdleIInv, CheckQ128IInv, PlaceIInv, SetRemapIInv,
     CheckRemapIInv, ResetWptrIInv, ResetRptrIInv, ResetCheckIInv, FieldsIInv,
     ReadBackIInv, DoorbellIInv, CompletionIInv, AcknowledgeIInv, DrainIInv,
     TimeoutIInv, ExitIInv DEF CopyStep
<1>4. ASSUME NEW t \in Threads, AccessFails(t) \/ Elapse(t) PROVE IInv'
  BY <1>4, AccessFailsIInv, ElapseIInv, Zenon
<1>5. ASSUME NEW q \in Queues, Move(q) \/ Credit(q) PROVE IInv'
  BY <1>5, MoveIInv, CreditIInv, Zenon
<1>6. CASE UNCHANGED vars
  <2>1. TypeOK' /\ JobInv' /\ BufInv'
    BY SMTT(60), <1>6 DEF vars, IInv, TypeOK, JobInv, BufInv, InFlight, Mine, Uses
  <2>2. ASSUME NEW t \in Threads PROVE CopyInv(t)'
    BY <1>6, ZenonT(60)
    DEF vars, IInv, CopyInv, PageInv, GuardInv, Fresh, QueueInv, Mine, At, Collides
  <2>3. QED
    BY <2>1, <2>2, ZenonT(60) DEF IInv
<1>7. QED
  BY <1>1, <1>2, <1>3, <1>4, <1>5, <1>6, Zenon DEF Next

\* The inductive invariant of HqcCpQueue::copy and the hardware behind it.
THEOREM Invariance == Spec => []IInv
  BY InitIInv, StepIInv, PTL DEF Spec

\* A doorbell page a copy writes through is its own queue's and no other's.
THEOREM PageIsOwn == Spec => []OwnPage
<1>1. IInv => OwnPage
  BY Zenon DEF IInv, CopyInv, PageInv, Paged, OwnPage, Mine
<1>2. QED
  BY Invariance, <1>1, PTL

\* The hardware works only on buffers of the copy holding the lock and on
\* retained ones, however a copy ended: ~SubmissionGuard retains enough.
THEOREM BuffersOutliveTransfer == Spec => []NoLateAccess
<1>1. IInv => NoLateAccess
  <2> SUFFICES ASSUME IInv, NEW q \in Queues, job[q] # None, NEW b \in Uses(job[q].cfg)
               PROVE  \/ buf[b] = "kept"
                      \/ lock # None /\ buf[b] = "owned" /\ b \in Uses(req[lock])
    BY Zenon DEF NoLateAccess
  <2>1. \/ faulted[q] /\ \A c \in Uses(job[q].cfg) : buf[c] = "kept"
        \/ lock # None /\ InFlight(lock, q)
    BY Zenon DEF IInv, JobInv
  <2>2. lock # None => lock \in Threads
    BY Zenon DEF IInv, TypeOK
  <2>3. QED
    BY <2>1, <2>2, Zenon DEF InFlight, IInv, BufInv
<1>2. QED
  BY Invariance, <1>1, PTL

\* A copy that returns OK has had its own transfer carried out in full.
THEOREM OkIsMoved == Spec => []OkMeansMoved
<1>1. IInv => OkMeansMoved
  BY Zenon DEF IInv, CopyInv, GuardInv, Fresh, OkMeansMoved, Mine
<1>2. QED
  BY Invariance, <1>1, PTL

\* A queue being reset, configured or kicked has nothing in flight.
THEOREM QueueIdleWhenKicked == Spec => []KickedIdle
<1>1. IInv => KickedIdle
  <2> SUFFICES ASSUME IInv, NEW t \in Threads, job[Mine(t)] # None,
                      pc[t] \in {"reset rptr", "reset check", "fields", "read back",
                                 "doorbell"}
               PROVE  FALSE
    BY Zenon DEF KickedIdle, Mine
  <2>1. TypeOK /\ JobInv /\ GuardInv(t)
    BY Zenon DEF IInv, CopyInv
  <2>2. Mine(t) \in Queues /\ lock = t /\ ~ faulted[Mine(t)]
    BY <2>1, HolderFacts, Zenon DEF GuardInv, Fresh
  <2>3. QED
    BY <2>1, <2>2, Zenon DEF JobInv, InFlight
<1>2. QED
  BY Invariance, <1>1, PTL

\* No copy writes a poisoned queue's remap, RPTR or fields again: queue_faulted
\* is read under the lock that every writer holds, and a write reaches its own
\* queue alone.
THEOREM PoisonIsSilent == Spec => PoisonedSilent
<1> DEFINE Silent == \A q \in Queues : faulted[q] =>
                       /\ remap'[q] = remap[q] /\ rptr'[q] = rptr[q]
                       /\ config'[q] = config[q]
<1>1. ASSUME IInv, NEW t \in Threads, CopyStep(t), pc[t] \in Writes PROVE Silent
  <2> SUFFICES ASSUME NEW q \in Queues, faulted[q]
               PROVE  /\ remap'[q] = remap[q] /\ rptr'[q] = rptr[q]
                      /\ config'[q] = config[q]
    BY Zenon
  <2>1. /\ TypeOK /\ CopyInv(t) /\ Mine(t) \in Queues /\ req[t] \in Requests
        /\ pc[t] \notin {"idle", "lock", "exit"}
    BY <1>1, HolderFacts, Zenon DEF IInv, Writes
  <2>2. q # Mine(t)
    BY <2>1, Zenon DEF CopyInv, GuardInv, Fresh
  <2>3. CASE SetRemap(t)
    BY <2>1, <2>2, <2>3, Zenon DEF SetRemap, TypeOK, Mine
  <2>4. CASE ResetWptr(t) \/ Doorbell(t)
    BY <2>4, Zenon DEF ResetWptr, Doorbell
  <2>5. ASSUME pc[t] \in {"reset rptr", "fields", "acknowledge"} PROVE q \notin At(page[t])
    BY <2>1, <2>2, <2>5, Zenon DEF CopyInv, PageInv, Paged
  <2>6. CASE ResetRptr(t)
    BY <2>5, <2>6, Zenon DEF ResetRptr, WriteAt
  <2>7. CASE Fields(t)
    BY <2>5, <2>7, Zenon DEF Fields, WriteAt
  <2>8. CASE Acknowledge(t)
    BY <2>5, <2>8, Zenon DEF Acknowledge, WriteAt
  <2>9. QED
    BY <1>1, <2>3, <2>4, <2>6, <2>7, <2>8, Zenon
    DEF CopyStep, Writes, Polls, ReadRemap, WaitIdle, CheckQ128, Place, CheckRemap,
        ResetCheck, ReadBack, Completion, Drain, Timeout, Exit
<1>2. ASSUME NEW t \in Threads, CopyStep(t), pc[t] \notin Writes PROVE Silent
  BY <1>2, Zenon DEF CopyStep, Writes, ReadRemap, WaitIdle, CheckQ128, Place, CheckRemap,
     ResetCheck, ReadBack, Completion, Drain, Timeout, Exit, Reads, device,
     SetRemap, ResetWptr, ResetRptr, Fields, Doorbell, Acknowledge
<1>3. ASSUME NEW t \in Threads, NEW r \in Requests, Call(t, r) PROVE Silent
  BY <1>3, Zenon DEF Call, device
<1>4. ASSUME NEW t \in Threads, Acquire(t) \/ AccessFails(t) \/ Elapse(t) PROVE Silent
  BY <1>4, Zenon DEF Acquire, AccessFails, Elapse, device
<1>5. ASSUME NEW q \in Queues, Move(q) \/ Credit(q) PROVE Silent
  BY <1>5, Zenon DEF Move, Credit
<1>6. IInv /\ [Next]_vars => [Silent]_vars
  <2> HIDE DEF Silent
  <2> QED
    BY <1>1, <1>2, <1>3, <1>4, <1>5, Zenon DEF Next
<1>7. QED
  BY <1>6, Invariance, PTL DEF Spec, PoisonedSilent
=============================================================================
