------------------------------- MODULE HostMem -------------------------------
(***************************************************************************)
(* Host DMA memory, HalContext::host_mem_alloc with its two providers, and *)
(* the DmaBuffer objects that own it (isml_diag/src/core/HalContext.cpp).  *)
(* drv=isml_drv holds a driver fd, a kernel buffer and a mapping; drv=none *)
(* holds a locked anonymous mapping whose page frames must be contiguous.  *)
(* Each system call is a step and each may fail; the kernel may move pages *)
(* to other frames between any two.                                        *)
(***************************************************************************)
EXTENDS Naturals, Sequences, FiniteSets

CONSTANTS
  Allocs,           \* allocations live at once
  Objs,             \* DmaBuffer objects
  Frames,           \* physical page frame numbers; 0 hides the number
  MaxPages,         \* pages of a large buffer
  NoAlloc           \* no allocation and no object

ASSUME HostAssumption ==
  Frames \subseteq Nat /\ MaxPages \in Nat \ {0} /\ NoAlloc \notin Allocs

VARIABLES
  has,              \* per allocation: the system resources it holds
  frames,           \* per allocation: the frames under its mapping
  moved,            \* per allocation: pages migrated since their entry was read
  physical,         \* per allocation: the device address it reported
  obj,              \* per object: the allocation in its fields, and alloc_ctx_
  kept,             \* allocations left for the rest of the process
  step, job,        \* the allocation under way
  page, first_pfn,  \* pagemap entries it has read, and the first one's frame
  group             \* the device's IOMMU group

pages == <<frames, moved>>
scan == <<page, first_pfn>>
hostVars == <<has, frames, moved, physical, obj, kept, step, job, page, first_pfn, group>>

Resources == {"fd", "handle", "map", "lock"}
Empty == [alloc |-> NoAlloc, owner |-> FALSE]
NoJob == [alloc |-> NoAlloc, obj |-> NoAlloc, big |-> FALSE]
Steps == {"idle", "identity", "map", "lock", "resolve", "open", "ioctl", "align", "mmap"}

\* State in range; only the allocation under way has a job.
HostTypeOK ==
  /\ has \in [Allocs -> SUBSET Resources]
  /\ \A o \in Objs : obj[o] = Empty \/ obj[o] \in [alloc : Allocs, owner : BOOLEAN]
  /\ kept \subseteq Allocs
  /\ step \in Steps /\ (step = "idle" <=> job = NoJob)
  /\ group.type \in {"dma", "identity"} /\ group.unbound \in BOOLEAN

HostInit ==
  /\ has = [a \in Allocs |-> {}]
  /\ frames = [a \in Allocs |-> <<>>]
  /\ moved = [a \in Allocs |-> {}]
  /\ physical = [a \in Allocs |-> 0]
  /\ obj = [o \in Objs |-> Empty]
  /\ kept = {}
  /\ step = "idle" /\ job = NoJob
  /\ page = 0 /\ first_pfn = 0
  /\ group \in [type : {"dma", "identity"}, unbound : BOOLEAN]

-----------------------------------------------------------------------------
\* host_mem_alloc after its size and device checks, into an empty object.
Call(o, a, big, first) ==
  /\ step = "idle" /\ obj[o] = Empty /\ has[a] = {}
  /\ step' = first
  /\ job' = [alloc |-> a, obj |-> o, big |-> big]
  /\ UNCHANGED <<has, pages, physical, obj, kept, scan, group>>

\* One more resource for the allocation under way, and the next step.
Gain(from, res, to) ==
  /\ step = from
  /\ has' = [has EXCEPT ![job.alloc] = @ \cup res]
  /\ step' = to

\* The allocation is complete: a DmaBuffer owns it.
ReturnBuffer(from, res, first) ==
  /\ step = from
  /\ has' = [has EXCEPT ![job.alloc] = @ \cup res]
  /\ physical' = [physical EXCEPT ![job.alloc] = first]
  /\ obj' = [obj EXCEPT ![job.obj] = [alloc |-> job.alloc, owner |-> TRUE]]
  /\ step' = "idle" /\ job' = NoJob
  /\ page' = 0 /\ first_pfn' = 0
  /\ UNCHANGED <<pages, kept, group>>

\* ensure_iommu_identity: every device of the group unbound, then its type
\* is, or is written and read back as, identity.
EnsureIdentity ==
  /\ Gain("identity", {}, "map")
  /\ group.unbound
  /\ group' = [group EXCEPT !.type = "identity"]
  /\ UNCHANGED <<pages, physical, obj, kept, job, scan>>

\* mmap and a touch of every page: one page, a 2 MiB huge page (after one
\* reservation and retry), or ordinary pages when that fails.
MapPages ==
  /\ Gain("map", {"map"}, "lock")
  /\ \E n \in (IF job.big THEN {1, MaxPages} ELSE {1}) :
       \E f \in [1 .. n -> Frames] : frames' = [frames EXCEPT ![job.alloc] = f]
  /\ UNCHANGED <<moved, physical, obj, kept, job, scan, group>>

\* A page that is not locked may be reclaimed, and is in another frame when it
\* is touched again.
Reclaim(a) ==
  /\ "lock" \notin has[a]
  /\ \E i \in DOMAIN frames[a], f \in Frames : frames' = [frames EXCEPT ![a][i] = f]
  /\ UNCHANGED <<has, moved, physical, obj, kept, step, job, scan, group>>

\* mlock keeps a page in memory and not in its frame: compaction and the like
\* may migrate it at any time.
Migrate(a) ==
  /\ \E i \in DOMAIN frames[a], f \in Frames :
       /\ frames' = [frames EXCEPT ![a][i] = f]
       /\ moved' = [moved EXCEPT ![a] =
                      IF a = job.alloc /\ i > page THEN @ ELSE @ \cup {i}]
  /\ UNCHANGED <<has, physical, obj, kept, step, job, scan, group>>

\* mlock before the frames are read.
Locks == {"lock"}

LockPages ==
  /\ Gain("lock", Locks, "resolve")
  /\ UNCHANGED <<pages, physical, obj, kept, job, scan, group>>

BugFollows(pfn) == pfn # 0 /\ (page > 0 => pfn >= first_pfn + page)

\* The entry after the first `page` ones continues the range they form.
Follows(pfn) == pfn # 0 /\ (page > 0 => pfn = first_pfn + page)

\* resolve_contiguous_physical reads /proc/self/pagemap one entry at a time.
ReadEntry ==
  /\ step = "resolve" /\ page + 1 \in DOMAIN frames[job.alloc]
  /\ LET pfn == frames[job.alloc][page + 1]
     IN  /\ Follows(pfn)
         /\ first_pfn' = IF page = 0 THEN pfn ELSE first_pfn
  /\ page' = page + 1
  /\ UNCHANGED <<has, pages, physical, obj, kept, step, job, group>>

Resolve ==
  /\ step = "resolve" /\ DOMAIN frames[job.alloc] = 1 .. page
  /\ ReturnBuffer("resolve", {}, first_pfn)

\* open_device, the DMA_ALLOC ioctl, the alignment check and mmap.
OpenDevice ==
  /\ Gain("open", {"fd"}, "ioctl")
  /\ UNCHANGED <<pages, physical, obj, kept, job, scan, group>>

IoctlAlloc ==
  /\ Gain("ioctl", {"handle"}, "align")
  /\ UNCHANGED <<pages, physical, obj, kept, job, scan, group>>

Aligned ==
  /\ Gain("align", {}, "mmap")
  /\ UNCHANGED <<pages, physical, obj, kept, job, scan, group>>

MapBuffer == ReturnBuffer("mmap", {"map"}, 0)

BugUndo(s) == IF s = "align" THEN {"fd"} ELSE Resources

\* What each error path of host_mem_alloc gives back.  A failed readback leaves
\* the group as identity.
Undo(s) == CASE s = "lock" -> {"map"}
             [] s = "resolve" -> {"map", "lock"}
             [] s = "ioctl" -> {"fd"}
             [] s \in {"align", "mmap"} -> {"handle", "fd"}
             [] OTHER -> {}

AllocFails ==
  /\ step # "idle"
  /\ has' = [has EXCEPT ![job.alloc] = @ \ Undo(step)]
  /\ frames' = [frames EXCEPT ![job.alloc] = <<>>]
  /\ moved' = [moved EXCEPT ![job.alloc] = {}]
  /\ step' = "idle" /\ job' = NoJob
  /\ page' = 0 /\ first_pfn' = 0
  /\ \/ UNCHANGED group
     \/ /\ step = "identity" /\ group.unbound
        /\ group' = [group EXCEPT !.type = "identity"]
  /\ UNCHANGED <<physical, obj, kept>>

-----------------------------------------------------------------------------
\* free_host_dma_buffer: munmap, DMA_FREE and close, or munlock and munmap.
Freed(a) == IF "fd" \in has[a] THEN {"map", "handle", "fd"} ELSE {"lock", "map"}

\* release of one object's allocation; alloc_ctx_ null makes it a no-op.
ReleaseOf(o, next) ==
  /\ obj' = next
  /\ IF obj[o].owner
     THEN /\ has' = [has EXCEPT ![obj[o].alloc] = @ \ Freed(obj[o].alloc)]
          /\ frames' = [frames EXCEPT ![obj[o].alloc] = <<>>]
          /\ moved' = [moved EXCEPT ![obj[o].alloc] = {}]
          /\ physical' = [physical EXCEPT ![obj[o].alloc] = 0]
     ELSE UNCHANGED <<has, pages, physical>>
  /\ UNCHANGED <<kept, step, job, scan, group>>

\* release, or the destructor.
ReleaseBuffer(o) ==
  /\ step = "idle" /\ obj[o] # Empty
  /\ ReleaseOf(o, [obj EXCEPT ![o] = Empty])

\* keep_allocated.
KeepAllocated(o) ==
  /\ step = "idle" /\ obj[o].owner
  /\ obj' = [obj EXCEPT ![o].owner = FALSE]
  /\ kept' = kept \cup {obj[o].alloc}
  /\ UNCHANGED <<has, pages, physical, step, job, scan, group>>

\* The moved-from object's fields are reset.
Stolen(o) == Empty

MoveConstruct(o, from) ==
  /\ step = "idle" /\ o # from /\ obj[o] = Empty /\ obj[from] # Empty
  /\ obj' = [obj EXCEPT ![o] = obj[from], ![from] = Stolen(from)]
  /\ UNCHANGED <<has, pages, physical, kept, step, job, scan, group>>

MoveAssign(o, from) ==
  /\ step = "idle" /\ o # from /\ obj[o] # Empty
  /\ ReleaseOf(o, [obj EXCEPT ![o] = obj[from], ![from] = Stolen(from)])

HostNext ==
  \/ \E o \in Objs, a \in Allocs, big \in BOOLEAN, first \in {"identity", "open"} :
       Call(o, a, big, first)
  \/ EnsureIdentity \/ MapPages \/ LockPages \/ ReadEntry \/ Resolve
  \/ OpenDevice \/ IoctlAlloc \/ Aligned \/ MapBuffer \/ AllocFails
  \/ \E a \in Allocs : Reclaim(a) \/ Migrate(a)
  \/ \E o \in Objs : ReleaseBuffer(o) \/ KeepAllocated(o)
  \/ \E o, from \in Objs : MoveConstruct(o, from) \/ MoveAssign(o, from)

HostSpec == HostInit /\ [][HostNext]_hostVars
-----------------------------------------------------------------------------
Owners(a) == {o \in Objs : obj[o].owner /\ obj[o].alloc = a}

\* State in range, and every system resource has exactly one owner: an
\* object, the allocation under way, or the set kept for hardware; no error
\* path or move leaks one or leaves two objects to free it.  What is owned or
\* kept has all the resources of its provider.
OwnedOnce ==
  /\ HostTypeOK
  /\ \A a \in Allocs :
       /\ Cardinality(Owners(a)) + Cardinality({job.alloc, NoAlloc} \cap {a})
            + Cardinality(kept \cap {a}) = (IF has[a] = {} /\ job.alloc # a THEN 0 ELSE 1)
       /\ Owners(a) # {} \/ a \in kept =>
            has[a] \in {{"fd", "handle", "map"}, {"map", "lock"}}

\* The physical range a drv=none buffer reports is the frames under its
\* mapping, but for pages the kernel migrated after their pagemap entry was
\* read (HalContext.cpp:1158-1172: mlock stops reclaim and nothing pins a
\* page), as long as the buffer is held, and the IOMMU passes it through.
PhysicalIsMapped ==
  \A a \in Allocs : (Owners(a) # {} \/ a \in kept) /\ "fd" \notin has[a] =>
    /\ group.type = "identity"
    /\ \A i \in DOMAIN frames[a] \ moved[a] : frames[a][i] = physical[a] + (i - 1)
=============================================================================
