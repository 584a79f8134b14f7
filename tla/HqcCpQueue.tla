----------------------------- MODULE HqcCpQueue -----------------------------
(***************************************************************************)
(* The CP fetch queues of the HQC block, HqcCpQueue::copy in               *)
(* isml_lib/implementer/src/atlas/pcie/hqc_cp_queue.cpp.  Threads copy     *)
(* between a host or DMEM buffer and an SRAM buffer through one of the     *)
(* device's queues; the hardware moves the payload at its own pace, so a   *)
(* transfer may outlive the call that gave up on it.                       *)
(*                                                                         *)
(* A queue's registers are seen through a doorbell page, the one its remap *)
(* register names.  Sizes and pointers are counted in units of ALIGNMENT.  *)
(* Every register access can fail, and a failed write may or may not have  *)
(* reached the device; the clock can pass the deadline at any time.        *)
(***************************************************************************)
EXTENDS Integers, FiniteSets

CONSTANTS
  Threads,
  Srams, Hosts, Dmems,  \* HQC SRAM, host and DMEM allocations
  Queues,           \* CpQueueId
  Pages,            \* doorbell pages a remap register can name
  Default,          \* info.default_remap, by queue
  Window,           \* the legal pages of a queue's group, by queue
  Unset,            \* remap register value 0
  Depth,            \* info.credit_depth
  Word,             \* 2^32 in units of ALIGNMENT
  MaxSize,          \* largest size_bytes in units of ALIGNMENT
  Baselines,        \* pointer values a session can start from
  None

\* CpTransferRequest: the queue, the SRAM buffer and the other one, which is
\* a DmaBuffer (host) or a DMEM MemBuffer.
Requests == [queue : Queues, sram : Srams, other : Hosts \cup Dmems,
             size : 1 .. MaxSize]

\* A transfer of the hardware: the fields it took and what is left of it.
Jobs == [cfg : Requests, left : 1 .. MaxSize]

ASSUME ConstantsAssumption ==
  /\ Default \in [Queues -> Pages]
  /\ Window \in [Queues -> SUBSET Pages]
  /\ \A q \in Queues : Default[q] \in Window[q]
  /\ Unset \notin Pages
  /\ Depth \in Nat \ {0} /\ MaxSize \in Nat \ {0}
  /\ Word \in Nat /\ MaxSize < Word
  /\ Baselines \subseteq 0 .. Word - 1
  /\ None \notin Threads /\ None \notin Requests /\ None \notin Jobs
  /\ Srams \cap (Hosts \cup Dmems) = {}

VARIABLES
  \* the device: remap, credit and pointer registers, the configuration
  \* fields, the transfer in flight and the last one finished during the
  \* current copy
  remap, credit, wptr, rptr, config, job, moved,
  q128,             \* PCIE_HQC_REG_HQC_Q128_CONFIG bit 0
  \* the host: DeviceMemoryState, the allocations, and each thread's call
  lock, faulted, buf, pc, req, page, seen, guard, late, status

device == <<remap, credit, wptr, rptr, config, job, moved, q128>>
host == <<lock, faulted, buf, pc, req, page, seen, guard, late, status>>
vars == <<remap, credit, wptr, rptr, config, job, moved, q128,
          lock, faulted, buf, pc, req, page, seen, guard, late, status>>

Bufs == Srams \cup Hosts \cup Dmems

Pointers == 0 .. Word - 1

Uses(r) == {r.sram, r.other}

\* SubmissionGuard.
Guards == [touched : BOOLEAN, kicked : BOOLEAN, completed : BOOLEAN,
           cleaned : BOOLEAN]
NewGuard == [touched |-> FALSE, kicked |-> FALSE, completed |-> FALSE,
             cleaned |-> FALSE]

Statuses == {"OK", "ERROR"}

Steps == {"idle", "lock", "remap", "wait idle", "q128", "place", "set remap",
          "check remap", "reset wptr", "reset rptr", "reset check", "fields",
          "read back", "doorbell", "completion", "acknowledge", "drain",
          "exit"}

\* The queues that answer at doorbell page p.
At(p) == {q \in Queues : remap[q] = p}

\* uint32 subtraction.
Minus(a, b) == IF a >= b THEN a - b ELSE a - b + Word

\* Every register and local keeps its range, and cp_queue_mutex admits one
\* copy at a time to the part of the call between Acquire and Exit.
TypeOK ==
  /\ remap \in [Queues -> Pages \cup {Unset}]
  /\ credit \in [Queues -> 0 .. Depth]
  /\ wptr \in [Queues -> Pointers] /\ rptr \in [Queues -> Pointers]
  /\ config \in [Queues -> Requests \cup {None}]
  /\ job \in [Queues -> Jobs \cup {None}]
  /\ moved \in [Queues -> Requests \cup {None}]
  /\ q128 \in BOOLEAN
  /\ lock \in Threads \cup {None}
  /\ faulted \in [Queues -> BOOLEAN]
  /\ buf \in [Bufs -> {"owned", "kept"}]
  /\ pc \in [Threads -> Steps]
  /\ req \in [Threads -> Requests \cup {None}]
  /\ page \in [Threads -> Pages \cup {Unset}]
  /\ seen \in [Threads -> Pointers]
  /\ guard \in [Threads -> Guards]
  /\ late \in [Threads -> BOOLEAN]
  /\ status \in [Threads -> Statuses]
  /\ \A t \in Threads : pc[t] # "idle" => req[t] \in Requests
  /\ \A t \in Threads : pc[t] \notin {"idle", "lock"} => lock = t

\* A session starts on drained queues: full credit, equal pointers, at
\* whatever baseline and page the firmware left them.
Init ==
  /\ remap \in [Queues -> Pages \cup {Unset}]
  /\ credit = [q \in Queues |-> Depth]
  /\ wptr \in [Queues -> Baselines] /\ rptr = wptr
  /\ config = [q \in Queues |-> None]
  /\ job = [q \in Queues |-> None]
  /\ moved = [q \in Queues |-> None]
  /\ q128 \in BOOLEAN
  /\ lock = None
  /\ faulted = [q \in Queues |-> FALSE]
  /\ buf = [b \in Bufs |-> "owned"]
  /\ pc = [t \in Threads |-> "idle"]
  /\ req = [t \in Threads |-> None]
  /\ page = [t \in Threads |-> Unset]
  /\ seen = [t \in Threads |-> 0]
  /\ guard = [t \in Threads |-> NewGuard]
  /\ late = [t \in Threads |-> FALSE]
  /\ status = [t \in Threads |-> "ERROR"]

-----------------------------------------------------------------------------
\* The calling thread.

\* Buffers some call is working on.
InUse == UNION {Uses(req[t]) : t \in {t \in Threads : pc[t] # "idle"}}

Go(t, step) == pc' = [pc EXCEPT ![t] = step]

\* copy up to the queue lock: the request's buffers are valid (line 210 and
\* after).  A buffer is passed by one thread at a time, and outside a call its
\* owner may release an owned one and allocate the memory again, which "owned"
\* stands for; keep_allocated takes the handle of a kept one away.
Call(t, r) ==
  /\ pc[t] = "idle"
  /\ \A b \in Uses(r) : buf[b] = "owned" /\ b \notin InUse
  /\ req' = [req EXCEPT ![t] = r]
  /\ Go(t, "lock")
  /\ UNCHANGED <<device, lock, faulted, buf, page, seen, guard, late, status>>

\* std::lock_guard on cp_queue_mutex.
Unlocked == lock = None

BugIsFaulted(q) == FALSE

\* queue_faulted, read under the lock.
IsFaulted(q) == faulted[q]

\* The queue lock, and the queue's fault flag.
Acquire(t) ==
  /\ pc[t] = "lock" /\ Unlocked
  /\ lock' = t
  /\ Go(t, IF IsFaulted(req[t].queue) THEN "exit" ELSE "remap")
  /\ UNCHANGED <<device, faulted, buf, req, page, seen, guard, late, status>>

\* The host's side of a step that only reads the device.
Reads(t, step) ==
  /\ Go(t, step)
  /\ UNCHANGED <<device, lock, faulted, buf, req, seen, guard, late, status>>

ReadRemap(t) ==
  /\ pc[t] = "remap"
  /\ page' = [page EXCEPT ![t] = remap[req[t].queue]]
  /\ Reads(t, "wait idle")

\* done of drain's poll.
Drained(q) == credit[q] = Depth /\ wptr[q] = rptr[q]

\* drain(canonical).
WaitIdle(t) ==
  /\ pc[t] = "wait idle" /\ ~late[t] /\ Drained(req[t].queue)
  /\ Reads(t, IF req[t].other \in Hosts THEN "place" ELSE "q128")
  /\ UNCHANGED page

CheckQ128(t) ==
  /\ pc[t] = "q128"
  /\ Reads(t, IF q128 THEN "place" ELSE "exit")
  /\ UNCHANGED page

\* The page a copy goes to: the one the firmware chose or the default.
Placed(t) == IF page[t] = Unset THEN Default[req[t].queue] ELSE page[t]

BugCollides(q, p) == FALSE

\* "Another queue aliasing this group would violate exclusive ownership."
Collides(q, p) == \E o \in Queues \ {q} : remap[o] = p

Place(t) ==
  LET q == req[t].queue
      p == Placed(t)
      legal == p \in Window[q] /\ ~ Collides(q, p)
  IN  /\ pc[t] = "place"
      /\ page' = [page EXCEPT ![t] = p]
      /\ Reads(t, IF ~ legal THEN "exit"
                  ELSE IF page[t] = Unset THEN "set remap" ELSE "reset wptr")

\* The host's side of a step that writes the device: touched is set whether
\* or not the write works.
Touch(t) == guard' = [guard EXCEPT ![t].touched = TRUE]

SetRemap(t) ==
  /\ pc[t] = "set remap"
  /\ Touch(t)
  /\ remap' = [remap EXCEPT ![req[t].queue] = page[t]]
  /\ Go(t, "check remap")
  /\ UNCHANGED <<credit, wptr, rptr, config, job, moved, q128,
                 lock, faulted, buf, req, page, seen, late, status>>

CheckRemap(t) ==
  /\ pc[t] = "check remap"
  /\ Reads(t, IF remap[req[t].queue] = page[t] THEN "reset wptr" ELSE "exit")
  /\ UNCHANGED page

\* f with every queue at the page of t's copy set to v.
WriteAt(t, f, v) == [q \in Queues |-> IF q \in At(page[t]) THEN v ELSE f[q]]

\* reset_pointers, before the transfer and after it.
ResetWptr(t) ==
  /\ pc[t] = "reset wptr"
  /\ Touch(t)
  /\ wptr' = WriteAt(t, wptr, 0)
  /\ Go(t, "reset rptr")
  /\ UNCHANGED <<remap, credit, rptr, config, job, moved, q128,
                 lock, faulted, buf, req, page, seen, late, status>>

ResetRptr(t) ==
  /\ pc[t] = "reset rptr"
  /\ Touch(t)
  /\ rptr' = WriteAt(t, rptr, 0)
  /\ Go(t, "reset check")
  /\ UNCHANGED <<remap, credit, wptr, config, job, moved, q128,
                 lock, faulted, buf, req, page, seen, late, status>>

\* The pointers read back; the second time round the transfer is over and
\* the copy returns OK.
ResetCheck(t) ==
  /\ pc[t] = "reset check"
  /\ \E q \in At(page[t]) :
       LET ok == wptr[q] = 0 /\ rptr[q] = 0
           last == guard[t].completed
       IN  /\ guard' = [guard EXCEPT ![t].cleaned = ok /\ last]
           /\ status' = [status EXCEPT ![t] = IF ok /\ last THEN "OK" ELSE "ERROR"]
           /\ Go(t, IF ok /\ ~ last THEN "fields" ELSE "exit")
  /\ UNCHANGED <<device, lock, faulted, buf, req, page, seen, late>>

\* The seven fields; the device may mask or drop a write, and a failure half
\* way leaves a mixture.
Fields(t) ==
  /\ pc[t] = "fields"
  /\ Touch(t)
  /\ \E c \in {req[t], None} : config' = WriteAt(t, config, c)
  /\ Go(t, "read back")
  /\ UNCHANGED <<remap, credit, wptr, rptr, job, moved, q128,
                 lock, faulted, buf, req, page, seen, late, status>>

ReadBack(t) ==
  /\ pc[t] = "read back"
  /\ \E q \in At(page[t]) :
       Reads(t, IF config[q] = req[t] /\ credit[q] = Depth /\ ~late[t]
                THEN "doorbell" ELSE "exit")
  /\ UNCHANGED page

\* The doorbell: kicked is set before the write, and every queue at the page
\* takes the transfer its fields describe.
Doorbell(t) ==
  /\ pc[t] = "doorbell"
  /\ guard' = [guard EXCEPT ![t].touched = TRUE, ![t].kicked = TRUE]
  /\ job' = [q \in Queues |->
               IF q \in At(page[t]) /\ config[q] # None
               THEN [cfg |-> config[q], left |-> config[q].size] ELSE job[q]]
  /\ credit' = [q \in Queues |->
                  IF q \in At(page[t]) THEN credit[q] - 1 ELSE credit[q]]
  /\ Go(t, "completion")
  /\ UNCHANGED <<remap, wptr, rptr, config, moved, q128,
                 lock, faulted, buf, req, page, seen, late, status>>

BugArrived(t, w) == Minus(w, 0) > 0

\* done of the completion poll: rptr is the 0 reset_pointers read back.
Arrived(t, w) == Minus(w, 0) >= req[t].size

Completion(t) ==
  /\ pc[t] = "completion" /\ ~late[t]
  /\ \E q \in At(page[t]) :
       /\ Arrived(t, wptr[q])
       /\ seen' = [seen EXCEPT ![t] = wptr[q]]
  /\ guard' = [guard EXCEPT ![t].completed = TRUE]
  /\ Go(t, "acknowledge")
  /\ UNCHANGED <<device, lock, faulted, buf, req, page, late, status>>

Acknowledge(t) ==
  /\ pc[t] = "acknowledge"
  /\ Touch(t)
  /\ rptr' = WriteAt(t, rptr, seen[t])
  /\ Go(t, "drain")
  /\ UNCHANGED <<remap, credit, wptr, config, job, moved, q128,
                 lock, faulted, buf, req, page, seen, late, status>>

Drain(t) ==
  /\ pc[t] = "drain" /\ ~late[t]
  /\ \E q \in At(page[t]) : Drained(q)
  /\ Reads(t, "reset wptr")
  /\ UNCHANGED page

\* A poll that finds the deadline passed.
Polls == {"wait idle", "completion", "drain"}

Timeout(t) ==
  /\ pc[t] \in Polls /\ late[t]
  /\ Reads(t, "exit")
  /\ UNCHANGED page

\* A register access fails, or the callback throws: the write was counted in
\* the guard first, the doorbell as kicked too.  A failed write that did reach
\* the device is the write followed by a failure of the next access.
Writes == {"set remap", "reset wptr", "reset rptr", "fields", "doorbell",
           "acknowledge"}

AccessFails(t) ==
  /\ pc[t] \in Steps \ {"idle", "lock", "exit"}
  /\ guard' = [guard EXCEPT
       ![t].touched = @ \/ pc[t] \in Writes,
       ![t].kicked = @ \/ pc[t] = "doorbell"]
  /\ Go(t, "exit")
  /\ UNCHANGED <<device, lock, faulted, buf, req, page, seen, late, status>>

BugPoisons(g) == g.completed /\ ~ g.cleaned

\* ~SubmissionGuard and line 416: poison the queue.
Poisons(g) == g.touched /\ ~ g.cleaned

BugRetains(g) == g.kicked /\ ~ g.touched

\* ~SubmissionGuard: retain the buffers.
Retains(g) == g.kicked /\ ~ g.completed

\* copy returns: the guard runs, then the queue is unlocked and the call's
\* locals are gone.
Exit(t) ==
  LET g == guard[t]
      q == req[t].queue
  IN  /\ pc[t] = "exit"
      /\ faulted' = [faulted EXCEPT ![q] = @ \/ Poisons(g)]
      /\ buf' = [b \in Bufs |->
                   IF Retains(g) /\ b \in Uses(req[t]) THEN "kept" ELSE buf[b]]
      /\ lock' = None
      /\ Go(t, "idle")
      /\ moved' = [moved EXCEPT ![q] = None]
      /\ req' = [req EXCEPT ![t] = None]
      /\ page' = [page EXCEPT ![t] = Unset]
      /\ seen' = [seen EXCEPT ![t] = 0]
      /\ guard' = [guard EXCEPT ![t] = NewGuard]
      /\ late' = [late EXCEPT ![t] = FALSE]
      /\ status' = [status EXCEPT ![t] = "ERROR"]
      /\ UNCHANGED <<remap, credit, wptr, rptr, config, job, q128>>

-----------------------------------------------------------------------------
\* The clock and the hardware.

Elapse(t) ==
  /\ pc[t] \notin {"idle", "lock", "exit"} /\ ~late[t]
  /\ late' = [late EXCEPT ![t] = TRUE]
  /\ UNCHANGED <<device, lock, faulted, buf, pc, req, page, seen, guard, status>>

\* The hardware moves a unit of payload and advances WPTR after it.
Move(q) ==
  /\ job[q] # None
  /\ LET last == job[q].left = 1
     IN  /\ job' = [job EXCEPT ![q] =
                      IF last THEN None ELSE [job[q] EXCEPT !.left = @ - 1]]
         /\ moved' = [moved EXCEPT ![q] = IF last THEN job[q].cfg ELSE @]
  /\ wptr' = [wptr EXCEPT ![q] = IF @ + 1 = Word THEN 0 ELSE @ + 1]
  /\ UNCHANGED <<remap, credit, rptr, config, q128, host>>

\* It returns the credit of a doorbell, before or after the payload is there.
Credit(q) ==
  /\ credit[q] < Depth
  /\ credit' = [credit EXCEPT ![q] = @ + 1]
  /\ UNCHANGED <<remap, wptr, rptr, config, job, moved, q128, host>>

CopyStep(t) ==
  \/ ReadRemap(t) \/ WaitIdle(t) \/ CheckQ128(t) \/ Place(t) \/ SetRemap(t)
  \/ CheckRemap(t) \/ ResetWptr(t) \/ ResetRptr(t) \/ ResetCheck(t)
  \/ Fields(t) \/ ReadBack(t) \/ Doorbell(t) \/ Completion(t)
  \/ Acknowledge(t) \/ Drain(t) \/ Timeout(t) \/ Exit(t)

Next ==
  \/ \E t \in Threads :
       \/ \E r \in Requests : Call(t, r)
       \/ Acquire(t) \/ CopyStep(t) \/ AccessFails(t) \/ Elapse(t)
  \/ \E q \in Queues : Move(q) \/ Credit(q)

Spec == Init /\ [][Next]_vars

-----------------------------------------------------------------------------
\* State in range, and while a copy writes through its doorbell page, that page is its own
\* queue's and no other's: neither the firmware's placement nor the default
\* that an earlier copy installed lets a write reach a second queue.
OwnPage ==
  /\ TypeOK
  /\ \A t \in Threads :
       pc[t] \in {"reset wptr", "reset rptr", "reset check", "fields",
                 "read back", "doorbell", "completion", "acknowledge", "drain"} =>
         At(page[t]) = {req[t].queue}

\* The hardware never works on memory whose owner could have released it:
\* a buffer of a transfer in flight belongs to the copy holding the queue
\* lock or is retained for good, however the copy ended.
NoLateAccess ==
  \A q \in Queues : job[q] # None =>
    \A b \in Uses(job[q].cfg) :
      \/ buf[b] = "kept"
      \/ lock # None /\ buf[b] = "owned" /\ b \in Uses(req[lock])

\* A copy that returns OK has had its own transfer carried out in full.
OkMeansMoved ==
  \A t \in Threads :
    pc[t] = "exit" /\ status[t] = "OK" => moved[req[t].queue] = req[t]

\* A queue is reconfigured and kicked only when nothing is in flight on it:
\* a transfer some earlier copy lost track of is never mistaken for idle.
KickedIdle ==
  \A t \in Threads :
    pc[t] \in {"reset rptr", "reset check", "fields", "read back", "doorbell"} =>
      job[req[t].queue] = None

\* No copy writes a poisoned queue's registers again.
PoisonedSilent ==
  [][\A q \in Queues : faulted[q] =>
       /\ remap'[q] = remap[q] /\ rptr'[q] = rptr[q]
       /\ config'[q] = config[q]]_vars
=============================================================================
