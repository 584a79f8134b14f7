------------------------------- MODULE IsmlDrv -------------------------------
(***************************************************************************)
(* The kernel driver isml_kmod/isml_diag_main.c: probe with its rollback,  *)
(* and the life of DMA buffers shared by a file's list, the ioctls in      *)
(* flight and the mappings of a process.  ctx->lock protects a file's list *)
(* and next_handle only; a buffer is kept by its reference count.  A handle*)
(* is any number a caller passes: a file's handles count up from 1, so one *)
(* can name a buffer that DMA_ALLOC has listed and not returned yet.       *)
(***************************************************************************)
EXTENDS Naturals, FiniteSets

CONSTANTS
  Procs,            \* threads inside the driver
  Files,            \* open files of the misc device
  Bufs,             \* kernel buffer objects; a freed one is reused
  Vmas,             \* mappings
  MaxHandle,        \* bound: handles a file gives out
  None

ASSUME ConstantsAssumption ==
  /\ IsFiniteSet(Procs) /\ IsFiniteSet(Files) /\ IsFiniteSet(Vmas)
  /\ MaxHandle \in Nat \ {0}
  /\ None \notin Bufs

VARIABLES
  phase, held,      \* probe's progress, and the resources it holds
  opened,           \* the files open
  list, next,       \* per file: ctx->buffers and ctx->next_handle
  ref, handle,      \* per buffer: its kref (0: not allocated) and handle
  vma,              \* per mapping: its file and vm_private_data
  op,               \* per thread: the ioctl or mmap in flight
  known,            \* per file: the handles returned, with their buffers
  early,            \* history: DMA_FREE found a handle not returned yet
  stray             \* a DMA_ALLOC unlisted and put a buffer freed under it

history == <<early, stray>>
vars == <<phase, held, opened, list, next, ref, handle, vma, op, known,
          early, stray>>
device == <<phase, held>>

Resources == {"enabled", "master", "ida", "misc"}
Handles == 0 .. MaxHandle
Idle == [at |-> "idle", file |-> None, buf |-> None]
Unmapped == [file |-> None, buf |-> None]

\* State in range; listed buffers belong to open files.
TypeOK ==
  /\ phase \in {"absent", "enabled", "masked", "named", "bound", "undo"}
  /\ held \subseteq Resources
  /\ opened \subseteq Files
  /\ list \in [Files -> SUBSET Bufs]
  /\ next \in [Files -> 1 .. MaxHandle + 1]
  /\ ref \in [Bufs -> 0 .. Cardinality(Procs) + Cardinality(Vmas) + 1]
  /\ handle \in [Bufs -> Handles]
  /\ \A v \in Vmas : vma[v] = Unmapped \/ vma[v] \in [file : opened, buf : Bufs]
  /\ \A p \in Procs : op[p] = Idle
       \/ op[p] \in [at : {"alloc", "reply", "stale", "put", "map", "dead"},
                    file : opened, buf : Bufs]
  /\ \A f \in Files : known[f] \subseteq Handles \X Bufs
  /\ early \in BOOLEAN /\ stray \in BOOLEAN

Init ==
  /\ phase = "absent" /\ held = {} /\ opened = {}
  /\ list = [f \in Files |-> {}]
  /\ next = [f \in Files |-> 1]
  /\ ref = [b \in Bufs |-> 0]
  /\ handle = [b \in Bufs |-> 0]
  /\ vma = [v \in Vmas |-> Unmapped]
  /\ op = [p \in Procs |-> Idle]
  /\ known = [f \in Files |-> {}]
  /\ early = FALSE /\ stray = FALSE

-----------------------------------------------------------------------------
\* isml_probe: each step may fail; a failure after pci_enable_device_mem
\* goes to disable_device.
ProbeStep(from, to, gained) ==
  /\ phase = from
  /\ phase' = to
  /\ held' = held \cup gained
  /\ UNCHANGED <<opened, list, next, ref, handle, vma, op, known, history>>

Probe ==
  \/ ProbeStep("absent", "enabled", {"enabled", "master"})
  \/ ProbeStep("enabled", "masked", {})
  \/ ProbeStep("masked", "named", {"ida"})
  \/ ProbeStep("named", "bound", {"misc"})

BugUndo == {}

\* ida_free before disable_device when misc_register fails.
Undo == IF phase = "named" THEN {"ida"} ELSE {}

ProbeFails ==
  /\ phase \in {"enabled", "masked", "named"}
  /\ phase' = "undo"
  /\ held' = held \ Undo
  /\ UNCHANGED <<opened, list, next, ref, handle, vma, op, known, history>>

DisableDevice ==
  /\ phase = "undo"
  /\ phase' = "absent"
  /\ held' = held \ {"enabled", "master"}
  /\ UNCHANGED <<opened, list, next, ref, handle, vma, op, known, history>>

\* isml_remove when the device is unbound.  Files stay open across it, with
\* calls in flight, and across a later probe; nothing of theirs is touched.
\* Their ctx->isml is freed then, so a DMA_ALLOC on one either works on what
\* the memory still holds or fails.
Remove ==
  /\ phase = "bound"
  /\ phase' = "absent"
  /\ held' = held \ {"misc", "ida", "master", "enabled"}
  /\ UNCHANGED <<opened, list, next, ref, handle, vma, op, known, history>>

Open(f) ==
  /\ phase = "bound" /\ f \notin opened
  /\ opened' = opened \cup {f}
  /\ next' = [next EXCEPT ![f] = 1]
  /\ UNCHANGED <<device, list, ref, handle, vma, op, known, history>>

\* isml_release puts every buffer still in the list.
Drain(f) == [b \in Bufs |-> IF b \in list[f] THEN ref[b] - 1 ELSE ref[b]]

\* The kernel releases a file when no call is in it and nothing maps it.
Close(f) ==
  /\ f \in opened
  /\ \A p \in Procs : op[p].file # f
  /\ \A v \in Vmas : vma[v].file # f
  /\ ref' = Drain(f)
  /\ list' = [list EXCEPT ![f] = {}]
  /\ known' = [known EXCEPT ![f] = {}]
  /\ next' = [next EXCEPT ![f] = 1]
  /\ opened' = opened \ {f}
  /\ UNCHANGED <<device, handle, vma, op, history>>

-----------------------------------------------------------------------------
\* ctx->lock, which a thread that died in list_del still holds.
Unlocked(f) == \A q \in Procs : op[q].file = f => op[q].at # "dead"

\* ISML_DIAG_IOCTL_DMA_ALLOC: allocate and kref_init; under the lock name
\* and list the buffer; copy the answer out, or unlist and put it.
AllocBegin(p, f, b) ==
  /\ op[p] = Idle /\ f \in opened /\ next[f] <= MaxHandle
  /\ ref[b] = 0
  /\ ref' = [ref EXCEPT ![b] = 1]
  /\ op' = [op EXCEPT ![p] = [at |-> "alloc", file |-> f, buf |-> b]]
  /\ UNCHANGED <<device, opened, list, next, handle, vma, known, history>>

BugNextHandle(f) == Cardinality(list[f]) + 2

NextHandle(f) == next[f] + 1

AllocInsert(p) ==
  /\ op[p].at = "alloc" /\ Unlocked(op[p].file) /\ next[op[p].file] <= MaxHandle
  /\ LET f == op[p].file  b == op[p].buf
     IN  /\ handle' = [handle EXCEPT ![b] = next[f]]
         /\ next' = [next EXCEPT ![f] = NextHandle(f)]
         /\ list' = [list EXCEPT ![f] = @ \cup {b}]
  /\ op' = [op EXCEPT ![p].at = "reply"]
  /\ UNCHANGED <<device, opened, ref, vma, known, history>>

AllocReturn(p) ==
  /\ op[p].at = "reply"
  /\ known' = [known EXCEPT ![op[p].file] = @ \cup {<<handle[op[p].buf], op[p].buf>>}]
  /\ op' = [op EXCEPT ![p] = Idle]
  /\ UNCHANGED <<device, opened, list, next, ref, handle, vma, history>>

AllocFault(p) ==
  /\ op[p].at = "reply" /\ Unlocked(op[p].file)
  /\ list' = [list EXCEPT ![op[p].file] = @ \ {op[p].buf}]
  /\ op' = [op EXCEPT ![p].at = "put"]
  /\ UNCHANGED <<device, opened, next, ref, handle, vma, known, history>>

\* The same two ends of DMA_ALLOC when a DMA_FREE has taken the buffer from
\* under it.  The first only reads it, freed or not, and returns a handle that
\* is not the caller's any more.  The second deletes it from a list it has left: list_del
\* faults with the lock held, or it unlinks whatever the memory is used for now
\* and the put is one too many.
StaleReturn(p) ==
  /\ op[p].at = "stale"
  /\ op' = [op EXCEPT ![p] = Idle]
  /\ UNCHANGED <<device, opened, list, next, ref, handle, vma, known, history>>

StaleFault(p) ==
  /\ op[p].at = "stale" /\ Unlocked(op[p].file)
  /\ \/ op' = [op EXCEPT ![p].at = "dead"] /\ UNCHANGED <<list, stray>>
     \/ /\ list' = [f \in Files |-> list[f] \ {op[p].buf}]
        /\ op' = [op EXCEPT ![p].at = "put"]
        /\ stray' = TRUE
  /\ UNCHANGED <<device, opened, next, ref, handle, vma, known, early>>

\* isml_find_buffer.
Find(f, h) == {b \in list[f] : handle[b] = h}

\* list_del under the lock, before the put outside it.
Unlist(f, b) == list[f] \ {b}

\* The call that frees b, and the one, if any, that has yet to return it.
Freeing(p, f, b) ==
  [q \in Procs |->
     IF q = p THEN [at |-> "put", file |-> f, buf |-> b]
     ELSE IF op[q].at = "reply" /\ op[q].buf = b THEN [op[q] EXCEPT !.at = "stale"]
     ELSE op[q]]

\* ISML_DIAG_IOCTL_DMA_FREE; an unlisted handle is -ENOENT and changes nothing.
FreeLookup(p, f, h) ==
  /\ op[p] = Idle /\ f \in opened /\ Unlocked(f)
  /\ \E b \in Find(f, h) :
       /\ list' = [list EXCEPT ![f] = Unlist(f, b)]
       /\ op' = Freeing(p, f, b)
  /\ known' = [known EXCEPT ![f] = {k \in @ : k[1] # h}]
  /\ early' = (early \/ \A k \in known[f] : k[1] # h)
  /\ UNCHANGED <<device, opened, next, ref, handle, vma, stray>>

\* kref_put; at zero isml_dma_buffer_release frees the memory.
Put(p) ==
  /\ op[p].at = "put"
  /\ ref' = [ref EXCEPT ![op[p].buf] = @ - 1]
  /\ op' = [op EXCEPT ![p] = Idle]
  /\ UNCHANGED <<device, opened, list, next, handle, vma, known, history>>

BugMmapGet(b) == ref[b]

\* kref_get under the lock keeps the buffer while it is mapped.
MmapGet(b) == ref[b] + 1

MmapLookup(p, f, h) ==
  /\ op[p] = Idle /\ f \in opened /\ Unlocked(f)
  /\ \E b \in Find(f, h) :
       /\ ref' = [ref EXCEPT ![b] = MmapGet(b)]
       /\ op' = [op EXCEPT ![p] = [at |-> "map", file |-> f, buf |-> b]]
  /\ UNCHANGED <<device, opened, list, next, handle, vma, known, history>>

\* dma_mmap_coherent succeeds: the mapping takes over the reference.
MmapOk(p, v) ==
  /\ op[p].at = "map" /\ vma[v] = Unmapped
  /\ vma' = [vma EXCEPT ![v] = [file |-> op[p].file, buf |-> op[p].buf]]
  /\ op' = [op EXCEPT ![p] = Idle]
  /\ UNCHANGED <<device, opened, list, next, ref, handle, known, history>>

\* A wrong size, or dma_mmap_coherent fails.
MmapFails(p) ==
  /\ op[p].at = "map"
  /\ op' = [op EXCEPT ![p].at = "put"]
  /\ UNCHANGED <<device, opened, list, next, ref, handle, vma, known, history>>

\* A fork or a split copies a mapping; unmapping drops it.
VmaOpen(v, w) ==
  /\ vma[v] # Unmapped /\ vma[w] = Unmapped
  /\ vma' = [vma EXCEPT ![w] = vma[v]]
  /\ ref' = [ref EXCEPT ![vma[v].buf] = @ + 1]
  /\ UNCHANGED <<device, opened, list, next, handle, op, known, history>>

VmaClose(v) ==
  /\ vma[v] # Unmapped
  /\ ref' = [ref EXCEPT ![vma[v].buf] = @ - 1]
  /\ vma' = [vma EXCEPT ![v] = Unmapped]
  /\ UNCHANGED <<device, opened, list, next, handle, op, known, history>>

Step ==
  \/ Probe \/ ProbeFails \/ DisableDevice \/ Remove
  \/ \E f \in Files : Open(f) \/ Close(f)
  \/ \E p \in Procs :
       \/ \E f \in Files, b \in Bufs : AllocBegin(p, f, b)
       \/ AllocInsert(p) \/ AllocReturn(p) \/ AllocFault(p) \/ Put(p) \/ MmapFails(p)
       \/ StaleReturn(p) \/ StaleFault(p)
       \/ \E f \in Files, h \in Handles : FreeLookup(p, f, h) \/ MmapLookup(p, f, h)
       \/ \E v \in Vmas : MmapOk(p, v)
  \/ \E v \in Vmas : VmaClose(v) \/ \E w \in Vmas : VmaOpen(v, w)

\* A stray list_del and put have damaged the kernel's memory: anything may
\* follow, and nothing is claimed or followed.
Damaged == stray /\ UNCHANGED vars

Next == (~stray /\ Step) \/ Damaged

Spec == Init /\ [][Next]_vars
-----------------------------------------------------------------------------
\* Whoever holds a buffer: a list, a mapping, or a call that must put it or
\* hand it on.
Holders(b) ==
  Cardinality({f \in Files : b \in list[f]})
    + Cardinality({v \in Vmas : vma[v].buf = b})
    + Cardinality({p \in Procs : op[p].buf = b /\ op[p].at \in {"alloc", "put", "map"}})

\* State in range, and the reference count of every buffer is the number of its
\* holders: nothing mapped, listed or in a call is freed under it, nothing is
\* freed twice, and what nobody holds any more has been freed, also when the
\* device was unbound and bound again under open files.  This ends when a
\* DMA_ALLOC that cannot copy its answer out undoes a buffer that a DMA_FREE
\* took from it (isml_diag_main.c:155-165), which takes a caller that frees a
\* handle before the driver has returned it; one that maps it early is safe.
RefExact ==
  /\ TypeOK
  /\ stray => early
  /\ stray \/ \A b \in Bufs : ref[b] = Holders(b)

\* A handle that was returned and not freed finds the buffer it was returned
\* with, and only that one, in its file, whatever handles callers tried before
\* they were returned, up to the same point.
HandleNames ==
  stray \/ \A f \in Files : \A k \in known[f] : Find(f, k[1]) = {k[2]}

\* A device that is not bound, its probe failed or removed, holds nothing of
\* what probe took; above all it is no bus master, whatever buffers the files
\* still open on it have.
UnboundClean == phase = "absent" => held = {}
=============================================================================
