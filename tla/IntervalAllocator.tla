-------------------------- MODULE IntervalAllocator --------------------------
(***************************************************************************)
(* What device_mem_alloc and MemBuffer promise a caller: every request is  *)
(* answered in one step, with the lowest aligned place that is free or the *)
(* place it names, and is refused only if there is none.  DevMem           *)
(* implements it.                                                          *)
(***************************************************************************)
EXTENDS Integers

CONSTANTS Threads, Handles, Capacity, Requests, None

VARIABLES
  asks,             \* each thread's request, or None
  owned,            \* each handle's interval, or None
  pinned            \* the intervals retained without a handle

allocVars == <<asks, owned, pinned>>

AllocInit ==
  /\ asks = [t \in Threads |-> None]
  /\ owned = [h \in Handles |-> None]
  /\ pinned = {}

Taken == pinned \cup ({owned[h] : h \in Handles} \ {None})

\* n words at o are inside the region and overlap nothing in use.
Free(o, n) ==
  /\ o + n <= Capacity
  /\ \A e \in Taken : o + n <= e.first \/ e.first + e.size <= o

\* The places at which a request may be granted: at most one.
Places(r) ==
  IF r.fixed # None THEN {o \in {r.fixed} : Free(o, r.size)}
  ELSE {o \in 0 .. Capacity :
          /\ o % r.align = 0 /\ Free(o, r.size)
          /\ \A p \in 0 .. o - 1 : p % r.align = 0 => ~ Free(p, r.size)}

Ask(t) ==
  /\ asks[t] = None
  /\ asks'[t] \in Requests /\ owned[asks'[t].handle] = None
  /\ asks' = [asks EXCEPT ![t] = asks'[t]]
  /\ UNCHANGED <<owned, pinned>>

Grant(t) ==
  /\ asks[t] # None
  /\ \E o \in Places(asks[t]) :
       owned' = [owned EXCEPT ![asks[t].handle] = [first |-> o, size |-> asks[t].size]]
  /\ asks' = [asks EXCEPT ![t] = None]
  /\ UNCHANGED pinned

Refuse(t) ==
  /\ asks[t] # None /\ Places(asks[t]) = {}
  /\ asks' = [asks EXCEPT ![t] = None]
  /\ UNCHANGED <<owned, pinned>>

Return(h) ==
  /\ owned[h] # None
  /\ owned' = [owned EXCEPT ![h] = None]
  /\ UNCHANGED <<asks, pinned>>

Pin(h) ==
  /\ owned[h] # None
  /\ owned' = [owned EXCEPT ![h] = None]
  /\ pinned' = pinned \cup {owned[h]}
  /\ UNCHANGED asks

Transfer(to, from) ==
  /\ to # from
  /\ owned' = [owned EXCEPT ![to] = owned[from], ![from] = None]
  /\ UNCHANGED <<asks, pinned>>

\* A new session starts with an empty region.
Reopen ==
  /\ \A h \in Handles : owned[h] = None
  /\ pinned' = {}
  /\ UNCHANGED <<asks, owned>>

AllocNext ==
  \/ \E t \in Threads : Ask(t) \/ Grant(t) \/ Refuse(t)
  \/ \E h \in Handles : Return(h) \/ Pin(h)
  \/ \E to, from \in Handles : Transfer(to, from)
  \/ Reopen

AllocSpec == AllocInit /\ [][AllocNext]_allocVars
=============================================================================
