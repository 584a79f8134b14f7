------------------------------- MODULE DevMem -------------------------------
(***************************************************************************)
(* The device-memory allocator: HalContext::device_mem_alloc and the       *)
(* MemBuffer handle in isml_diag/src/core/DevMem.cpp, over one region of   *)
(* DeviceMemoryState::allocations.  Addresses and sizes are in 4-byte      *)
(* words.  The first-fit scan is a loop under allocation_mutex; here it    *)
(* takes one step per entry of the table.                                  *)
(***************************************************************************)
EXTENDS Integers, FiniteSets

CONSTANTS
  Threads, Handles,
  Capacity,         \* entry->size of the region
  Alignments,       \* the alignments callers ask for
  MaxAddress,       \* numeric_limits<uint64_t>::max()
  None

Intervals == [first : Nat, size : Nat]

\* A call's arguments: handle receives the result; fixed is fixed_offset.
Requests == [handle : Handles, size : 1 .. Capacity, align : Alignments,
             fixed : (0 .. Capacity + 1) \cup {None}]

\* Alignments are powers of two, so they divide 2^64.
ASSUME ConstantsAssumption ==
  /\ Capacity \in Nat /\ MaxAddress \in Nat /\ Capacity <= MaxAddress
  /\ Alignments \subseteq Nat \ {0}
  /\ \A a \in Alignments : (MaxAddress + 1) % a = 0
  /\ None \notin Threads /\ None \notin Nat /\ None \notin Handles
  /\ None \notin Intervals /\ None \notin Requests

VARIABLES
  occupied,         \* allocations[region]: the intervals in the table
  handle,           \* each MemBuffer: its interval, or None
  kept,             \* intervals of this session whose handle called keep_allocated
  lock, pc, req, offset, cursor     \* allocation_mutex and the running scan

vars == <<occupied, handle, kept, lock, pc, req, offset, cursor>>

End(e) == e.first + e.size
Overlap(d, e) == d.first < End(e) /\ e.first < End(d)

\* Every variable in range; only the holder of allocation_mutex scans, for a
\* handle that is empty until the scan ends.
TypeOK ==
  /\ occupied \subseteq Intervals
  /\ handle \in [Handles -> Intervals \cup {None}]
  /\ kept \subseteq Intervals
  /\ lock \in Threads \cup {None}
  /\ pc \in [Threads -> {"idle", "scan", "insert"}]
  /\ req \in [Threads -> Requests \cup {None}]
  /\ offset \in [Threads -> Nat]
  /\ cursor \in [Threads -> Nat \cup {-1}]
  /\ \A t \in Threads : pc[t] # "idle" =>
       lock = t /\ req[t] \in Requests /\ handle[req[t].handle] = None

Init ==
  /\ occupied = {} /\ kept = {}
  /\ handle = [h \in Handles |-> None]
  /\ lock = None
  /\ pc = [t \in Threads |-> "idle"]
  /\ req = [t \in Threads |-> None]
  /\ offset = [t \in Threads |-> 0]
  /\ cursor = [t \in Threads |-> -1]

-----------------------------------------------------------------------------
\* std::lock_guard on allocation_mutex.
Unlocked == lock = None

\* The call has passed the argument checks; a fixed offset skips the scan.
Alloc(t, r) ==
  /\ pc[t] = "idle" /\ Unlocked
  /\ handle[r.handle] = None
  /\ r.fixed # None => r.fixed <= Capacity /\ r.size <= Capacity - r.fixed
  /\ lock' = t
  /\ req' = [req EXCEPT ![t] = r]
  /\ offset' = [offset EXCEPT ![t] = IF r.fixed = None THEN 0 ELSE r.fixed]
  /\ cursor' = [cursor EXCEPT ![t] = -1]
  /\ pc' = [pc EXCEPT ![t] = IF r.fixed = None THEN "scan" ELSE "insert"]
  /\ UNCHANGED <<occupied, handle, kept>>

\* The lock is given up and the call returns.
Finish(t) ==
  /\ lock' = None
  /\ pc' = [pc EXCEPT ![t] = "idle"]
  /\ req' = [req EXCEPT ![t] = None]
  /\ offset' = [offset EXCEPT ![t] = 0]
  /\ cursor' = [cursor EXCEPT ![t] = -1]

\* align_up and its overflow test.
AlignUp(v, a) == v + ((a - (v % a)) % a)
CanAlign(v, a) == v <= MaxAddress - (a - 1)

\* The loop's next table entry, in key order.
IsNext(t, e) ==
  /\ e.first > cursor[t]
  /\ \A d \in occupied : d.first > cursor[t] => e.first <= d.first

BugFitsBefore(t, e) == offset[t] <= e.first /\ req[t].size < e.first - offset[t]

\* The loop's break.
FitsBefore(t, e) == offset[t] <= e.first /\ req[t].size <= e.first - offset[t]

\* offset after the loop body.
Past(t, e) == IF offset[t] < End(e) THEN AlignUp(End(e), req[t].align) ELSE offset[t]

Scan(t) ==
  /\ pc[t] = "scan"
  /\ \E e \in occupied :
       /\ IsNext(t, e) /\ ~ FitsBefore(t, e)
       /\ offset[t] < End(e) => CanAlign(End(e), req[t].align)
       /\ offset' = [offset EXCEPT ![t] = Past(t, e)]
       /\ cursor' = [cursor EXCEPT ![t] = e.first]
  /\ UNCHANGED <<occupied, handle, kept, lock, pc, req>>

ScanOverflows(t) ==
  /\ pc[t] = "scan"
  /\ \E e \in occupied :
       /\ IsNext(t, e) /\ ~ FitsBefore(t, e)
       /\ offset[t] < End(e) /\ ~ CanAlign(End(e), req[t].align)
  /\ Finish(t)
  /\ UNCHANGED <<occupied, handle, kept>>

\* A gap before the next entry, or the end of the table.
ScanEnds(t) ==
  /\ pc[t] = "scan"
  /\ \A e \in occupied : IsNext(t, e) => FitsBefore(t, e)
  /\ pc' = [pc EXCEPT ![t] = "insert"]
  /\ UNCHANGED <<occupied, handle, kept, lock, req, offset, cursor>>

Candidate(t) == [first |-> offset[t], size |-> req[t].size]

BugAccepts(t) == offset[t] <= Capacity /\ req[t].size <= Capacity - offset[t]

\* The capacity check, and the overlap check of a fixed offset.
Accepts(t) ==
  /\ offset[t] <= Capacity /\ req[t].size <= Capacity - offset[t]
  /\ req[t].fixed # None => \A e \in occupied : ~ Overlap(Candidate(t), e)

\* map::emplace does nothing when the key is taken.
Emplace(table, e) ==
  IF \E d \in table : d.first = e.first THEN table ELSE table \cup {e}

Insert(t) ==
  /\ pc[t] = "insert" /\ Accepts(t)
  /\ occupied' = Emplace(occupied, Candidate(t))
  /\ handle' = [handle EXCEPT ![req[t].handle] = Candidate(t)]
  /\ Finish(t)
  /\ UNCHANGED kept

Reject(t) ==
  /\ pc[t] = "insert" /\ ~ Accepts(t)
  /\ Finish(t)
  /\ UNCHANGED <<occupied, handle, kept>>

\* map::erase by key.
Erase(table, h) == {e \in table : e.first # h.first}

\* MemBuffer::release: ctx_ is taken first, then the lock.
Release(h) ==
  /\ Unlocked /\ handle[h] # None
  /\ occupied' = Erase(occupied, handle[h])
  /\ handle' = [handle EXCEPT ![h] = None]
  /\ UNCHANGED <<kept, lock, pc, req, offset, cursor>>

\* keep_allocated drops the handle without the lock and leaves the table.
KeepAllocated(h) ==
  /\ handle[h] # None
  /\ kept' = kept \cup {handle[h]}
  /\ handle' = [handle EXCEPT ![h] = None]
  /\ UNCHANGED <<occupied, lock, pc, req, offset, cursor>>

\* A handle the caller can touch: no allocation is under way for it.
Settled(h) == \A t \in Threads : pc[t] # "idle" => req[t].handle # h

\* The two handles after a move.
Stolen(to, from) == [handle EXCEPT ![to] = handle[from], ![from] = None]

BugMoveAssign(to, from) ==
  /\ Unlocked /\ to # from
  /\ handle' = Stolen(to, from)
  /\ UNCHANGED <<occupied, kept, lock, pc, req, offset, cursor>>

\* operator=(MemBuffer&&): release, then take over the other's interval.
MoveAssign(to, from) ==
  /\ Unlocked /\ to # from
  /\ occupied' = IF handle[to] = None THEN occupied ELSE Erase(occupied, handle[to])
  /\ handle' = Stolen(to, from)
  /\ UNCHANGED <<kept, lock, pc, req, offset, cursor>>

\* MemBuffer(MemBuffer&&) into a handle that did not exist.
MoveConstruct(to, from) ==
  /\ handle[to] = None /\ to # from /\ Settled(to)
  /\ handle' = Stolen(to, from)
  /\ Settled(from)
  /\ UNCHANGED <<occupied, kept, lock, pc, req, offset, cursor>>

\* discover, through HalContext::clear and mmap_bar_space: a new, empty
\* DeviceMemoryState.  It waits for the running testcase, and with it for its
\* handles, under execution_mutex_.  What was kept is forgotten, whether or not
\* the device still reaches it: "reset/quiesce the device before reopening the
\* session" asks the user to see to that (HqcDma has the case they do not).
Rediscover ==
  /\ Unlocked /\ \A h \in Handles : handle[h] = None
  /\ occupied' = {} /\ kept' = {}
  /\ UNCHANGED <<handle, lock, pc, req, offset, cursor>>

Next ==
  \/ \E t \in Threads :
       \/ \E r \in Requests : Alloc(t, r)
       \/ Scan(t) \/ ScanOverflows(t) \/ ScanEnds(t) \/ Insert(t) \/ Reject(t)
  \/ \E h \in Handles : Release(h) \/ KeepAllocated(h)
  \/ \E to, from \in Handles : MoveAssign(to, from) \/ MoveConstruct(to, from)
  \/ Rediscover

Spec == Init /\ [][Next]_vars
-----------------------------------------------------------------------------
\* "Separate allocations never overlap": the intervals of two handles, or of
\* a handle and an allocation retained in this session, are disjoint and inside
\* the region.
Disjoint ==
  /\ \A h \in Handles : handle[h] # None =>
       /\ End(handle[h]) <= Capacity
       /\ \A k \in kept : ~ Overlap(handle[h], k)
       /\ \A g \in Handles \ {h} : handle[g] # None => ~ Overlap(handle[h], handle[g])
  /\ \A j, k \in kept : j # k => ~ Overlap(j, k)

\* State in range, and the table holds exactly the allocations somebody can
\* still use: nothing leaks through moves, and nothing retained is given back.
TableExact == TypeOK /\ occupied = kept \cup ({handle[h] : h \in Handles} \ {None})

-----------------------------------------------------------------------------
\* The allocator as its callers see it.
Allocator == INSTANCE IntervalAllocator WITH asks <- req, owned <- handle, pinned <- kept

\* Stepwise scans, moves and drops of handles without the lock included, the
\* allocator grants what IntervalAllocator promises: "gaps are reused on the
\* next allocation", at the lowest aligned place, and a request fails only when
\* there is none.
ImplementsAllocator == Allocator!AllocSpec
=============================================================================
