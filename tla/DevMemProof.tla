----------------------------- MODULE DevMemProof -----------------------------
(***************************************************************************)
(* Proofs about DevMem for any region size, threads, handles, alignments   *)
(* and sequences of allocations, and that it implements IntervalAllocator. *)
(***************************************************************************)
EXTENDS DevMem, WellFoundedInduction, TLAPS

-----------------------------------------------------------------------------
\* The table holds what handles own and what was retained, nothing twice.
TableInv ==
  /\ occupied = kept \cup ({handle[h] : h \in Handles} \ {None})
  /\ \A h \in Handles : handle[h] # None => handle[h] \notin kept
  /\ \A g, h \in Handles : handle[g] # None /\ handle[g] = handle[h] => g = h

\* Entries of the table are not empty, inside the region and apart.
ApartInv ==
  /\ \A e \in occupied : e.size > 0 /\ End(e) <= Capacity
  /\ \A d, e \in occupied : d # e => ~ Overlap(d, e)

\* n words at o overlap an entry of the table.
Blocked(o, n) == \E e \in occupied : o < End(e) /\ e.first < o + n

\* What a scan knows: the entries up to the cursor end before the offset,
\* which is aligned, and every lower aligned place is blocked.
Scanned(t) ==
  /\ pc[t] = "idle" => req[t] = None
  /\ pc[t] = "scan" =>
       /\ req[t].fixed = None
       /\ \A e \in occupied : e.first <= cursor[t] => End(e) <= offset[t]
  /\ pc[t] = "insert" =>
       IF req[t].fixed = None THEN ~ Blocked(offset[t], req[t].size)
       ELSE offset[t] = req[t].fixed
  /\ pc[t] # "idle" /\ req[t].fixed = None =>
       /\ offset[t] % req[t].align = 0
       /\ \A p \in 0 .. offset[t] - 1 :
            p % req[t].align = 0 => Blocked(p, req[t].size)

ScanInv == \A t \in Threads : Scanned(t)

\* The inductive invariant.
IInv == TypeOK /\ TableInv /\ ApartInv /\ ScanInv

-----------------------------------------------------------------------------
(***************************************************************************)
(* Lemmas about the operators of the scan.                                 *)
(***************************************************************************)

\* A set of numbers has a least one: the loop's next entry exists.
LEMMA LeastElement ==
  ASSUME NEW S \in SUBSET Nat, S # {}
  PROVE  \E m \in S : \A k \in S : m <= k
<1>1. PICK m \in S : \A k \in S : ~ (<<k, m>> \in OpToRel(<, Nat))
  BY NatLessThanWellFounded, WFMin, Zenon
<1>2. \A k \in S : ~ (k < m)
  BY <1>1, Zenon DEF OpToRel
<1>3. QED
  BY <1>2

\* A number is a multiple of another plus a remainder, and multiples are ordered
\* as their factors.
LEMMA Division ==
  ASSUME NEW v \in Nat, NEW a \in Nat \ {0}
  PROVE  /\ v \div a \in Nat /\ (v % a) \in 0 .. a - 1
         /\ v = a * (v \div a) + (v % a)
  OBVIOUS

LEMMA TimesMonotone ==
  ASSUME NEW a \in Nat, NEW m \in Nat, NEW n \in Nat, m <= n
  PROVE  a * m \in Nat /\ a * n \in Nat /\ a * m <= a * n
  OBVIOUS

LEMMA MultipleMod ==
  ASSUME NEW a \in Nat \ {0}, NEW n \in Nat
  PROVE  (a * n) % a = 0
  OBVIOUS

\* align_up returns the least multiple of the alignment that is not below its
\* argument.
LEMMA AlignUpIsLeast ==
  ASSUME NEW v \in Nat, NEW a \in Nat \ {0}
  PROVE  /\ AlignUp(v, a) \in Nat /\ AlignUp(v, a) >= v
         /\ AlignUp(v, a) % a = 0
         /\ \A p \in Nat : p >= v /\ p % a = 0 => p >= AlignUp(v, a)
<1> DEFINE q == v \div a
           r == v % a
<1>1. q \in Nat /\ r \in 0 .. a - 1 /\ v = a * q + r
  BY Division, Zenon
<1>2. CASE r = 0
  <2>1. (a - r) % a = 0
    BY <1>2
  <2>2. AlignUp(v, a) = v
    BY <2>1 DEF AlignUp
  <2> QED
    BY <1>2, <2>2
<1>3. CASE r # 0
  <2> HIDE DEF q, r
  <2>1. (a - r) % a = a - r
    BY <1>1, <1>3
  <2>2. AlignUp(v, a) = v + (a - r)
    BY <2>1, Zenon DEF AlignUp, r
  <2>3. a * (q + 1) = a * q + a /\ a * q \in Nat
    BY <1>1
  <2>4. AlignUp(v, a) = a * (q + 1)
    BY <1>1, <2>2, <2>3
  <2>5. AlignUp(v, a) \in Nat /\ AlignUp(v, a) >= v
    BY <1>1, <2>2
  <2>6. AlignUp(v, a) % a = 0
    BY <1>1, <2>4, MultipleMod
  <2>7. ASSUME NEW p \in Nat, p >= v, p % a = 0 PROVE p >= AlignUp(v, a)
    <3>1. PICK m \in Nat : p = a * m
      <4>1. p \div a \in Nat /\ p = a * (p \div a) + (p % a)
        BY Division, Zenon
      <4>2. a * (p \div a) \in Nat
        BY <4>1
      <4>3. p = a * (p \div a)
        BY <4>1, <4>2, <2>7
      <4> QED
        BY <4>1, <4>3, Zenon
    <3>2. CASE m <= q
      <4>1. a * m <= a * q
        BY <1>1, <3>1, <3>2, TimesMonotone, Zenon
      <4> QED
        BY <1>1, <1>3, <2>3, <2>7, <3>1, <4>1
    <3>3. CASE q + 1 <= m
      BY <1>1, <2>4, <3>1, <3>3, TimesMonotone
    <3> QED
      BY <1>1, <3>1, <3>2, <3>3
  <2> QED
    BY <2>5, <2>6, <2>7, Zenon
<1> QED
  BY <1>2, <1>3, Zenon

\* When align_up overflows, no aligned place after v is inside the region:
\* the alignment divides 2^64.
LEMMA OverflowLeavesNothing ==
  ASSUME NEW v \in Nat, NEW a \in Alignments, ~ CanAlign(v, a),
         NEW p \in Nat, p >= v, p % a = 0
  PROVE  p >= Capacity
<1>1. (MaxAddress + 1) % a = 0 /\ a \in Nat \ {0} /\ MaxAddress \in Nat
  BY ConstantsAssumption, Zenon
<1>2. p > MaxAddress + 1 - a
  BY <1>1 DEF CanAlign
<1>3. p >= MaxAddress + 1
  <2>1. PICK q \in Nat, k \in Nat : p = a * q /\ MaxAddress + 1 = a * k
    <3>0. MaxAddress + 1 \in Nat
      BY <1>1
    <3>1. /\ p \div a \in Nat /\ p = a * (p \div a) + (p % a)
          /\ (MaxAddress + 1) \div a \in Nat
          /\ MaxAddress + 1 = a * ((MaxAddress + 1) \div a) + ((MaxAddress + 1) % a)
      BY <1>1, <3>0, Division, Zenon
    <3>2. a * (p \div a) \in Nat /\ a * ((MaxAddress + 1) \div a) \in Nat
      BY <1>1, <3>1
    <3>3. p = a * (p \div a) /\ MaxAddress + 1 = a * ((MaxAddress + 1) \div a)
      BY <1>1, <3>1, <3>2
    <3>4. QED
      BY <3>1, <3>3, Zenon
  <2>2. CASE q >= k
    BY <1>1, <2>1, <2>2, TimesMonotone
  <2>3. CASE q <= k - 1
    <3>1. k - 1 \in Nat /\ a * q <= a * (k - 1)
      BY <1>1, <2>1, <2>3, TimesMonotone
    <3>2. a * (k - 1) = a * k - a
      BY <1>1
    <3>3. QED
      BY <1>1, <1>2, <2>1, <3>1, <3>2
  <2>4. QED
    BY <2>2, <2>3
<1>4. QED
  BY <1>3, ConstantsAssumption

\* The fields of a request.
LEMMA RequestType ==
  ASSUME NEW r \in Requests
  PROVE  /\ r.handle \in Handles /\ r.size \in Nat \ {0}
         /\ r.align \in Alignments /\ r.align \in Nat \ {0}
         /\ r.fixed # None => r.fixed \in Nat
<1>1. Alignments \subseteq Nat \ {0} /\ Capacity \in Nat
  BY ConstantsAssumption, Zenon
<1>2. r.handle \in Handles /\ r.align \in Alignments
  BY Zenon DEF Requests
<1>3. r.size \in Nat \ {0}
  BY <1>1 DEF Requests
<1>4. r.fixed # None => r.fixed \in Nat
  BY <1>1 DEF Requests
<1>5. QED
  BY <1>1, <1>2, <1>3, <1>4, Zenon

\* erase by key removes one entry.
LEMMA EraseIsRemove ==
  ASSUME TypeOK, ApartInv, NEW e \in occupied
  PROVE  Erase(occupied, e) = occupied \ {e}
<1>1. \A d \in occupied : d.first = e.first => d = e
  BY DEF TypeOK, ApartInv, Overlap, End, Intervals
<1>2. QED
  BY <1>1, Zenon DEF Erase

-----------------------------------------------------------------------------
(***************************************************************************)
(* The invariant is inductive.                                             *)
(***************************************************************************)

\* The invariant holds on a new DeviceMemoryState.
LEMMA InitIInv == Init => IInv
<1> SUFFICES ASSUME Init PROVE IInv
  BY Zenon
<1> USE DEF Init
<1>1. TypeOK
  BY Zenon DEF TypeOK
<1>2. TableInv
  BY Zenon DEF TableInv
<1>3. ApartInv
  BY Zenon DEF ApartInv
<1>4. ScanInv
  BY Zenon DEF ScanInv, Scanned
<1>5. QED
  BY <1>1, <1>2, <1>3, <1>4, Zenon DEF IInv

\* The lock is taken and the scan starts at offset 0, or the fixed offset is
\* taken as it is.
LEMMA AllocIInv ==
  ASSUME IInv, NEW t \in Threads, NEW r \in Requests, Alloc(t, r)
  PROVE  IInv'
<1> USE ConstantsAssumption DEF IInv, Alloc, Unlocked
<1>1. TypeOK'
  BY DEF TypeOK, Requests
<1>2. TableInv' /\ ApartInv'
  BY Zenon DEF TableInv, ApartInv
<1>3. ScanInv'
  <2>1. \A a \in Alignments : 0 % a = 0
    OBVIOUS
  <2>2. /\ pc'[t] = IF r.fixed = None THEN "scan" ELSE "insert"
        /\ req'[t] = r /\ cursor'[t] = -1
        /\ offset'[t] = IF r.fixed = None THEN 0 ELSE r.fixed
    BY DEF TypeOK
  <2>3. \A e \in occupied : e.first \in Nat
    BY Zenon DEF TypeOK, Intervals
  <2>4. \A u \in Threads \ {t} : pc'[u] = "idle" /\ req'[u] = None
    BY DEF ScanInv, Scanned, TypeOK
  <2>5. r.align \in Alignments
    BY Zenon DEF Requests
  <2>6. QED
    <3>1. Scanned(t)'
      <4>1. CASE r.fixed = None
        <5>1. \A e \in occupied' : ~ (e.first <= -1)
          BY <2>3
        <5>2. 0 .. 0 - 1 = {} /\ 0 % r.align = 0
          BY <2>1, <2>5
        <5>3. pc'[t] = "scan" /\ req'[t] = r /\ cursor'[t] = -1 /\ offset'[t] = 0
          BY <2>2, <4>1, Zenon
        <5>4. QED
          BY <4>1, <5>1, <5>2, <5>3, Zenon DEF Scanned
      <4>2. CASE r.fixed # None
        BY <2>2, <4>2 DEF Scanned
      <4>3. QED
        BY <4>1, <4>2, Zenon
    <3>2. \A u \in Threads \ {t} : Scanned(u)'
      BY <2>4, Zenon DEF Scanned
    <3>3. QED
      BY <3>1, <3>2, Zenon DEF ScanInv
<1>4. QED
  BY <1>1, <1>2, <1>3, Zenon

\* The loop passes an entry that leaves no gap before it.
LEMMA ScanIInv ==
  ASSUME IInv, NEW t \in Threads, Scan(t)
  PROVE  IInv'
<1> USE ConstantsAssumption DEF IInv, Scan
<1>1. PICK e \in occupied :
        /\ IsNext(t, e) /\ ~ FitsBefore(t, e)
        /\ offset' = [offset EXCEPT ![t] = Past(t, e)]
        /\ cursor' = [cursor EXCEPT ![t] = e.first]
  BY Zenon
<1>2. /\ e.first \in Nat /\ e.size \in Nat /\ End(e) \in Nat /\ offset[t] \in Nat
      /\ req[t] \in Requests /\ req[t].align \in Nat \ {0} /\ req[t].size \in Nat
  <2>1. e \in Intervals /\ req[t] \in Requests /\ offset[t] \in Nat
    BY Zenon DEF TypeOK
  <2>2. QED
    BY <2>1, RequestType DEF Intervals, End
<1>3. /\ Past(t, e) \in Nat /\ Past(t, e) >= offset[t] /\ Past(t, e) >= End(e)
      /\ offset[t] % req[t].align = 0 => Past(t, e) % req[t].align = 0
  <2> DEFINE a == req[t].align
  <2>1. /\ AlignUp(End(e), a) \in Nat /\ AlignUp(End(e), a) >= End(e)
        /\ AlignUp(End(e), a) % a = 0
    BY <1>2, AlignUpIsLeast, Zenon
  <2>2. QED
    BY <1>2, <2>1 DEF Past
<1>4. TypeOK'
  BY <1>1, <1>2, <1>3, Zenon DEF TypeOK
<1>5. TableInv' /\ ApartInv'
  BY DEF TableInv, ApartInv
<1>6. \A d \in occupied : d.first <= e.first => End(d) <= Past(t, e)
  <2> SUFFICES ASSUME NEW d \in occupied, d.first <= e.first
               PROVE  End(d) <= Past(t, e)
    BY Zenon
  <2>1. d.first \in Nat /\ d.size \in Nat /\ End(d) \in Nat
    BY SMTT(60) DEF TypeOK, Intervals, End
  <2>2. CASE d.first <= cursor[t]
    BY <1>2, <1>3, <2>1, <2>2 DEF ScanInv, Scanned
  <2>3. CASE d.first > cursor[t]
    <3>1. d.first = e.first
      BY SMTT(60), <1>1, <1>2, <2>1, <2>3 DEF IsNext
    <3>2. d = e
      BY SMTT(60), <3>1, <1>2, <2>1 DEF ApartInv, Overlap, End
    <3>3. QED
      BY <3>2, <1>3, Zenon
  <2>4. QED
    BY <2>1, <2>2, <2>3 DEF TypeOK
<1>7. \A p \in 0 .. Past(t, e) - 1 :
        p % req[t].align = 0 => Blocked(p, req[t].size)
  <2> SUFFICES ASSUME NEW p \in 0 .. Past(t, e) - 1, p % req[t].align = 0
               PROVE  Blocked(p, req[t].size)
    BY Zenon
  <2>1. CASE p < offset[t]
    BY <1>2, <2>1 DEF ScanInv, Scanned
  <2>2. CASE p >= offset[t]
    <3>1. offset[t] < End(e) /\ Past(t, e) = AlignUp(End(e), req[t].align)
      BY SMTT(60), <1>2, <2>2 DEF Past
    <3>2. p < End(e)
      <4>1. p >= End(e) => p >= AlignUp(End(e), req[t].align)
        <5>1. p \in Nat
          BY SMTT(60), <1>3
        <5>2. QED
          BY <1>2, <5>1, AlignUpIsLeast, Zenon
      <4>2. QED
        BY <1>2, <1>3, <3>1, <4>1
    <3>3. e.first < p + req[t].size
      BY SMTT(60), <1>1, <1>2, <2>2 DEF FitsBefore
    <3>4. QED
      BY <3>2, <3>3, Zenon DEF Blocked
  <2>3. QED
    BY <1>2, <1>3, <2>1, <2>2
<1>8. ScanInv'
  BY <1>1, <1>2, <1>3, <1>6, <1>7 DEF ScanInv, Scanned, TypeOK, Blocked
<1>9. QED
  BY <1>4, <1>5, <1>8, Zenon

\* The loop ends at a gap or at the end of the table: nothing is in the way.
LEMMA ScanEndsIInv ==
  ASSUME IInv, NEW t \in Threads, ScanEnds(t)
  PROVE  IInv'
<1> USE ConstantsAssumption DEF IInv, ScanEnds
<1>1. TypeOK'
  BY ZenonT(60) DEF TypeOK
<1>2. TableInv' /\ ApartInv'
  BY Zenon DEF TableInv, ApartInv
<1>3. ~ Blocked(offset[t], req[t].size)
  <2> SUFFICES ASSUME NEW e \in occupied, offset[t] < End(e)
               PROVE  offset[t] + req[t].size <= e.first
    BY DEF Blocked, TypeOK, Intervals, Requests
  <2> DEFINE S == {d.first : d \in {d \in occupied : d.first > cursor[t]}}
  <2>1. e.first > cursor[t]
    BY DEF ScanInv, Scanned, TypeOK, Intervals, End
  <2>2. S \in SUBSET Nat /\ S # {}
    BY SMTT(60), <2>1 DEF TypeOK, Intervals
  <2>3. PICK m \in S : \A k \in S : m <= k
    BY <2>2, LeastElement, Zenon
  <2>4. PICK n \in occupied : n.first = m /\ n.first > cursor[t]
    BY <2>3, Zenon
  <2>5. IsNext(t, n) /\ n.first <= e.first
    BY <2>1, <2>3, <2>4, Zenon DEF IsNext
  <2>6. QED
    BY <2>5 DEF FitsBefore, TypeOK, Intervals, Requests
<1>4. ScanInv'
  BY <1>3, ZenonT(30) DEF ScanInv, Scanned, TypeOK, Blocked
<1>5. QED
  BY <1>1, <1>2, <1>4, Zenon

\* A scan that gives up leaves the table as it was.
LEMMA FinishIInv ==
  ASSUME IInv, NEW t \in Threads, pc[t] # "idle", Finish(t),
         UNCHANGED <<occupied, handle, kept>>
  PROVE  IInv'
<1> USE ConstantsAssumption DEF IInv, Finish
<1>1. \A u \in Threads : pc'[u] = "idle" /\ req'[u] = None
  BY DEF TypeOK, ScanInv, Scanned
<1>2. TypeOK'
  BY <1>1, Zenon DEF TypeOK
<1>3. TableInv' /\ ApartInv'
  BY Zenon DEF TableInv, ApartInv
<1>4. ScanInv'
  BY <1>1, Zenon DEF ScanInv, Scanned
<1>5. QED
  BY <1>2, <1>3, <1>4, Zenon

\* What insertion needs: the candidate is in the region, overlaps no entry,
\* and its key is new.
LEMMA CandidateFits ==
  ASSUME IInv, NEW t \in Threads, pc[t] = "insert", Accepts(t)
  PROVE  /\ Candidate(t) \in Intervals
         /\ Candidate(t).size > 0 /\ End(Candidate(t)) <= Capacity
         /\ \A e \in occupied : ~ Overlap(Candidate(t), e) /\ ~ Overlap(e, Candidate(t))
         /\ Emplace(occupied, Candidate(t)) = occupied \cup {Candidate(t)}
         /\ Candidate(t) \notin occupied
<1> DEFINE c == Candidate(t)
<1>1. /\ c.first = offset[t] /\ c.size = req[t].size
      /\ offset[t] \in Nat /\ req[t].size \in Nat \ {0} /\ req[t] \in Requests
  BY RequestType, Zenon DEF IInv, TypeOK, Candidate
<1>2. c \in Intervals
  BY <1>1, Zenon DEF Candidate, Intervals
<1>3. c.size > 0 /\ End(c) <= Capacity
  BY <1>1, ConstantsAssumption DEF Accepts, End
<1>4. ASSUME NEW e \in occupied PROVE ~ Overlap(c, e) /\ ~ Overlap(e, c)
  <2>1. e.first \in Nat /\ e.size \in Nat
    BY Zenon DEF IInv, TypeOK, Intervals
  <2>2. CASE req[t].fixed = None
    <3>1. ~ Blocked(offset[t], req[t].size)
      BY <2>2, Zenon DEF IInv, ScanInv, Scanned
    <3>2. QED
      BY <1>1, <2>1, <3>1, Zenon DEF Blocked, Overlap, End
  <2>3. CASE req[t].fixed # None
    BY <1>1, <2>1, <2>3, Zenon DEF Accepts, Overlap, End
  <2>4. QED
    BY <2>2, <2>3, Zenon
<1>5. \A e \in occupied : e.first # c.first
  <2> SUFFICES ASSUME NEW e \in occupied, e.first = c.first PROVE FALSE
    BY Zenon
  <2>1. e.first \in Nat /\ e.size \in Nat /\ e.size > 0
    BY Zenon DEF IInv, TypeOK, ApartInv, Intervals
  <2>2. QED
    BY <1>1, <1>4, <2>1 DEF Overlap, End
<1>6. QED
  BY <1>2, <1>3, <1>4, <1>5, Zenon DEF Emplace

\* The new interval is in the table and owned by the request's handle.
LEMMA InsertIInv ==
  ASSUME IInv, NEW t \in Threads, Insert(t)
  PROVE  IInv'
<1> DEFINE c == Candidate(t)
           h == req[t].handle
<1> USE DEF IInv, Insert, Finish
<1>1. /\ c \in Intervals /\ c.size > 0 /\ End(c) <= Capacity
      /\ \A e \in occupied : ~ Overlap(c, e) /\ ~ Overlap(e, c)
      /\ occupied' = occupied \cup {c} /\ c \notin occupied
  BY CandidateFits, Zenon
<1>2. /\ h \in Handles /\ handle[h] = None /\ handle' = [handle EXCEPT ![h] = c]
      /\ c # None
  BY <1>1, RequestType, ConstantsAssumption, Zenon DEF TypeOK
<1> HIDE DEF c, h
<1>3. \A u \in Threads : pc'[u] = "idle" /\ req'[u] = None
  BY ZenonT(60) DEF TypeOK, ScanInv, Scanned
<1>4. TypeOK'
  BY <1>1, <1>2, <1>3 DEF TypeOK
<1>5. TableInv'
  <2>1. /\ handle'[h] = c
        /\ \A g \in Handles \ {h} : handle'[g] = handle[g]
    BY <1>2, Zenon DEF TypeOK
  <2>2. \A g \in Handles : handle[g] # None => handle[g] \in occupied
    BY Zenon DEF TableInv
  <2>3. {handle'[g] : g \in Handles} \ {None} = ({handle[g] : g \in Handles} \ {None}) \cup {c}
    BY <1>2, <2>1
  <2>4. occupied' = kept' \cup ({handle'[g] : g \in Handles} \ {None})
    BY <1>1, <2>3, Zenon DEF TableInv
  <2>5. c \notin kept
    BY <1>1, Zenon DEF TableInv
  <2>6. QED
    BY <1>1, <1>2, <2>1, <2>2, <2>4, <2>5 DEF TableInv
<1>6. ApartInv'
  BY <1>1, Zenon DEF ApartInv
<1>7. ScanInv'
  BY <1>3, Zenon DEF ScanInv, Scanned
<1>8. QED
  BY <1>4, <1>5, <1>6, <1>7, Zenon

\* Without the lock no thread is inside device_mem_alloc.
LEMMA UnlockedIsIdle ==
  ASSUME IInv, Unlocked
  PROVE  \A t \in Threads : pc[t] = "idle" /\ req[t] = None
  BY ConstantsAssumption, ZenonT(30) DEF IInv, TypeOK, ScanInv, Scanned, Unlocked

\* What taking a handle's interval out of the table, or leaving the table alone,
\* preserves while no thread scans.
LEMMA QuietIInv ==
  ASSUME IInv, Unlocked, occupied' \subseteq occupied,
         UNCHANGED <<lock, pc, req, offset, cursor>>,
         handle' \in [Handles -> Intervals \cup {None}],
         kept' \subseteq Intervals, TableInv'
  PROVE  IInv'
<1>1. \A t \in Threads : pc'[t] = "idle" /\ req'[t] = None
  BY UnlockedIsIdle, Zenon
<1>2. TypeOK'
  BY <1>1, Zenon DEF IInv, TypeOK
<1>3. ApartInv'
  BY Zenon DEF IInv, ApartInv
<1>4. ScanInv'
  BY <1>1, Zenon DEF ScanInv, Scanned
<1>5. QED
  BY <1>2, <1>3, <1>4, Zenon DEF IInv

\* MemBuffer::release gives the handle's interval back and nothing else.
LEMMA ReleaseIInv ==
  ASSUME IInv, NEW h \in Handles, Release(h)
  PROVE  IInv'
<1> DEFINE e == handle[h]
<1>1. e \in occupied /\ e # None
  BY Zenon DEF IInv, TableInv, Release
<1>2. occupied' = occupied \ {e}
  BY <1>1, EraseIsRemove, Zenon DEF IInv, Release
<1>3. /\ handle'[h] = None
      /\ \A g \in Handles \ {h} : handle'[g] = handle[g]
  BY Zenon DEF IInv, TypeOK, Release
<1>4. e \notin kept /\ \A g \in Handles \ {h} : handle[g] # e
  BY <1>1, Zenon DEF IInv, TableInv
<1>5. TableInv'
  <2>1. {handle'[g] : g \in Handles} \ {None} = ({handle[g] : g \in Handles} \ {None}) \ {e}
    BY <1>3, <1>4, Zenon
  <2>2. occupied' = kept' \cup ({handle'[g] : g \in Handles} \ {None})
    BY <1>2, <1>4, <2>1, Zenon DEF IInv, TableInv, Release
  <2>3. QED
    BY <1>3, <2>2 DEF IInv, TableInv, Release
<1>6. QED
  BY <1>2, <1>5, QuietIInv, Zenon DEF IInv, TypeOK, Release

\* keep_allocated, which takes no lock: the interval changes its owner, and a
\* scan under way does not notice.
LEMMA KeepIInv ==
  ASSUME IInv, NEW h \in Handles, KeepAllocated(h)
  PROVE  IInv'
<1> DEFINE e == handle[h]
<1> USE DEF IInv, KeepAllocated
<1>1. e \in occupied /\ e # None /\ e \in Intervals
  BY Zenon DEF TableInv, TypeOK
<1>2. /\ handle'[h] = None
      /\ \A g \in Handles \ {h} : handle'[g] = handle[g]
  BY Zenon DEF TypeOK
<1>3. \A g \in Handles \ {h} : handle[g] # e
  BY <1>1, Zenon DEF TableInv
<1>4. TypeOK'
  BY <1>1, <1>2, RequestType, Zenon DEF TypeOK
<1>5. TableInv'
  <2>1. {handle'[g] : g \in Handles} \ {None} = ({handle[g] : g \in Handles} \ {None}) \ {e}
    BY <1>2, <1>3, ZenonT(60)
  <2>2. occupied' = kept' \cup ({handle'[g] : g \in Handles} \ {None})
    BY <1>1, <2>1, Zenon DEF TableInv
  <2>3. QED
    BY <1>2, <1>3, <2>2 DEF TableInv
<1>6. ApartInv' /\ ScanInv'
  BY Zenon DEF ApartInv, ScanInv, Scanned, Blocked
<1>7. QED
  BY <1>4, <1>5, <1>6, Zenon

\* operator=: the old interval of the target is released, the other one has a
\* new owner.
LEMMA MoveAssignIInv ==
  ASSUME IInv, NEW to \in Handles, NEW from \in Handles, MoveAssign(to, from)
  PROVE  IInv'
<1> DEFINE e == handle[to]
<1>1. occupied' = occupied \ {e}
  <2>1. CASE e = None
    BY <2>1, ConstantsAssumption DEF IInv, TypeOK, MoveAssign
  <2>2. CASE e # None
    <3>1. e \in occupied
      BY <2>2, Zenon DEF IInv, TableInv
    <3>2. QED
      BY <2>2, <3>1, EraseIsRemove, Zenon DEF IInv, MoveAssign
  <2>3. QED
    BY <2>1, <2>2, Zenon
<1>2. /\ handle'[to] = handle[from] /\ handle'[from] = None
      /\ \A g \in Handles \ {to, from} : handle'[g] = handle[g]
  BY Zenon DEF IInv, TypeOK, MoveAssign, Stolen
<1>3. e # None => e \notin kept /\ \A g \in Handles \ {to} : handle[g] # e
  BY Zenon DEF IInv, TableInv
<1>4. TableInv'
  <2>1. {handle'[g] : g \in Handles} \ {None} = ({handle[g] : g \in Handles} \ {None}) \ {e}
    BY <1>2, <1>3 DEF MoveAssign
  <2>2. None \notin kept
    BY ConstantsAssumption, Zenon DEF IInv, TypeOK
  <2>3. occupied' = kept' \cup ({handle'[g] : g \in Handles} \ {None})
    BY <1>1, <1>3, <2>1, <2>2, Zenon DEF IInv, TableInv, MoveAssign
  <2>4. QED
    BY SMTT(60), <1>2, <2>3 DEF IInv, TableInv, MoveAssign
<1>5. handle' \in [Handles -> Intervals \cup {None}]
  BY Zenon DEF IInv, TypeOK, MoveAssign, Stolen
<1>6. QED
  BY <1>1, <1>4, <1>5, QuietIInv, Zenon DEF IInv, TypeOK, MoveAssign

\* The move constructor, which takes no lock either.
LEMMA MoveConstructIInv ==
  ASSUME IInv, NEW to \in Handles, NEW from \in Handles, MoveConstruct(to, from)
  PROVE  IInv'
<1> USE DEF IInv, MoveConstruct
<1>1. /\ handle'[to] = handle[from] /\ handle'[from] = None
      /\ \A g \in Handles \ {to, from} : handle'[g] = handle[g]
  BY Zenon DEF TypeOK, Stolen
<1>2. TypeOK'
  <2>1. handle' \in [Handles -> Intervals \cup {None}]
    BY Zenon DEF TypeOK, Stolen
  <2>2. \A t \in Threads : pc[t] # "idle" => handle'[req[t].handle] = None
    BY <1>1, RequestType, ZenonT(60) DEF TypeOK, Settled
  <2>3. QED
    BY <2>1, <2>2, Zenon DEF TypeOK
<1>3. TableInv'
  <2>1. {handle'[g] : g \in Handles} \ {None} = {handle[g] : g \in Handles} \ {None}
    BY <1>1, ZenonT(60)
  <2>2. occupied' = kept' \cup ({handle'[g] : g \in Handles} \ {None})
    BY <2>1, Zenon DEF TableInv
  <2>3. QED
    BY <1>1, <2>2, ZenonT(30) DEF TableInv
<1>4. ApartInv' /\ ScanInv'
  BY ZenonT(60) DEF ApartInv, ScanInv, Scanned, Blocked
<1>5. QED
  BY <1>2, <1>3, <1>4, Zenon

\* Every step preserves the invariant.
LEMMA StepIInv == IInv /\ [Next]_vars => IInv'
<1> SUFFICES ASSUME IInv, [Next]_vars PROVE IInv'
  BY Zenon
<1>1. ASSUME NEW t \in Threads, ScanOverflows(t) \/ Reject(t) PROVE IInv'
  BY <1>1, FinishIInv, ZenonT(60) DEF ScanOverflows, Reject
<1>2. CASE Rediscover
  <2>1. TableInv'
    BY <1>2, ZenonT(60) DEF Rediscover, TableInv
  <2>2. QED
    BY <1>2, <2>1, QuietIInv, Zenon DEF Rediscover, IInv, TypeOK
<1>3. CASE UNCHANGED vars
  BY <1>3 DEF vars, IInv, TypeOK, TableInv, ApartInv, ScanInv, Scanned, Blocked, Settled
<1>4. QED
  BY Zenon, <1>1, <1>2, <1>3, AllocIInv, ScanIInv, ScanEndsIInv, InsertIInv, ReleaseIInv,
     KeepIInv, MoveAssignIInv, MoveConstructIInv DEF Next

-----------------------------------------------------------------------------
(***************************************************************************)
(* Theorems.                                                               *)
(***************************************************************************)

\* The invariant holds in every reachable state.
THEOREM Invariance == Spec => []IInv
  BY InitIInv, StepIInv, PTL DEF Spec

\* "Separate allocations never overlap", for any region and any sequence of
\* allocations, moves, releases and rediscoveries of any threads.
THEOREM AllocationsDisjoint == Spec => []Disjoint
<1>1. IInv => Disjoint
  <2> SUFFICES ASSUME IInv PROVE Disjoint
    BY Zenon
  <2>1. \A h \in Handles : handle[h] # None => handle[h] \in occupied
    BY Zenon DEF IInv, TableInv
  <2>2. kept \subseteq occupied
    BY Zenon DEF IInv, TableInv
  <2>3. QED
    BY <2>1, <2>2 DEF IInv, TableInv, ApartInv, Disjoint
<1>2. QED
  BY <1>1, Invariance, PTL

\* The table holds exactly what handles own and what was retained: no move,
\* release or failed request leaks an interval or gives back a retained one.
THEOREM TableIsExact == Spec => []TableExact
<1>1. IInv => TableExact
  BY Zenon DEF IInv, TableInv, TableExact
<1>2. QED
  BY <1>1, Invariance, PTL

-----------------------------------------------------------------------------
\* What the abstract allocator calls free is a place in the region that is
\* not blocked.
LEMMA FreeIsUnblocked ==
  ASSUME IInv, NEW o \in Nat, NEW n \in Nat
  PROVE  Allocator!Free(o, n) <=> o + n <= Capacity /\ ~ Blocked(o, n)
<1>1. Allocator!Taken = occupied
  BY Zenon DEF IInv, TableInv, Allocator!Taken
<1>2. \A e \in occupied : e.first \in Nat /\ e.size \in Nat
  BY Zenon DEF IInv, TypeOK, Intervals
<1>3. QED
  BY <1>1, <1>2 DEF Allocator!Free, Blocked, End

\* A thread inside device_mem_alloc has a request.
LEMMA BusyRequest ==
  ASSUME IInv, NEW t \in Threads, pc[t] # "idle"
  PROVE  /\ req[t] \in Requests /\ req[t] # None /\ offset[t] \in Nat
         /\ req[t].size \in Nat \ {0} /\ req[t].align \in Alignments
         /\ req[t].align \in Nat \ {0} /\ handle[req[t].handle] = None
  BY RequestType, ConstantsAssumption DEF IInv, TypeOK

\* Insertion grants the lowest aligned free place, or the one asked for.
LEMMA InsertGrants ==
  ASSUME IInv, NEW t \in Threads, Insert(t)
  PROVE  Allocator!Grant(t)
<1> DEFINE o == offset[t]
           n == req[t].size
<1>1. /\ req[t] # None /\ o \in Nat /\ n \in Nat \ {0}
      /\ req[t].align \in Nat \ {0} /\ pc[t] = "insert"
  BY BusyRequest, Zenon DEF Insert
<1>2. Allocator!Free(o, n) /\ o \in 0 .. Capacity
  <2>1. o <= Capacity /\ n <= Capacity - o
    BY Zenon DEF Insert, Accepts
  <2>2. \A e \in occupied : e.first \in Nat /\ e.size \in Nat
    BY Zenon DEF IInv, TypeOK, Intervals
  <2>3. ~ Blocked(o, n)
    BY <1>1, <2>2, CandidateFits, Zenon DEF Insert, Candidate, Overlap, End, Blocked
  <2>4. QED
    BY <1>1, <2>1, <2>3, FreeIsUnblocked, ConstantsAssumption
<1>3. o \in Allocator!Places(req[t])
  <2>1. CASE req[t].fixed # None
    BY <1>1, <1>2, <2>1, Zenon DEF Allocator!Places, IInv, ScanInv, Scanned
  <2>2. CASE req[t].fixed = None
    <3>1. o % req[t].align = 0
      BY <1>1, <2>2, Zenon DEF IInv, ScanInv, Scanned
    <3>2. ASSUME NEW p \in 0 .. o - 1, p % req[t].align = 0
          PROVE  ~ Allocator!Free(p, n)
      <4>1. Blocked(p, n)
        BY <1>1, <2>2, <3>2, Zenon DEF IInv, ScanInv, Scanned
      <4>2. QED
        BY <1>1, <4>1, FreeIsUnblocked
    <3>3. QED
      BY <1>2, <2>2, <3>1, <3>2, Zenon DEF Allocator!Places
  <2>3. QED
    BY <2>1, <2>2, Zenon
<1>4. handle' = [handle EXCEPT ![req[t].handle] = [first |-> o, size |-> n]]
  BY Zenon DEF Insert, Candidate
<1>5. QED
  BY <1>1, <1>3, <1>4, Zenon DEF Allocator!Grant, Insert, Finish

\* A request is rejected only when no place would do.
LEMMA RejectRefuses ==
  ASSUME IInv, NEW t \in Threads, Reject(t)
  PROVE  Allocator!Refuse(t)
<1> DEFINE o == offset[t]
           n == req[t].size
<1>1. /\ req[t] # None /\ o \in Nat /\ n \in Nat \ {0}
      /\ req[t].align \in Nat \ {0} /\ pc[t] = "insert"
  BY BusyRequest, Zenon DEF Reject
<1>2. Allocator!Places(req[t]) = {}
  <2>1. CASE req[t].fixed # None
    <3>1. req[t].fixed = o
      BY <1>1, <2>1, Zenon DEF IInv, ScanInv, Scanned
    <3>2. \A e \in occupied : e.first \in Nat /\ e.size \in Nat
      BY SMTT(60) DEF IInv, TypeOK, Intervals
    <3>3. ~ (o + n <= Capacity) \/ Blocked(o, n)
      BY <1>1, <2>1, <3>2, ConstantsAssumption
         DEF Reject, Accepts, Candidate, Overlap, End, Blocked
    <3>4. ~ Allocator!Free(o, n)
      BY <1>1, <3>3, FreeIsUnblocked, Zenon
    <3>5. QED
      BY <2>1, <3>1, <3>4, Zenon DEF Allocator!Places
  <2>2. CASE req[t].fixed = None
    <3>1. ~ (o + n <= Capacity)
      BY SMTT(60), <1>1, <2>2, ConstantsAssumption DEF Reject, Accepts
    <3>2. ASSUME NEW p \in 0 .. Capacity, p % req[t].align = 0
          PROVE  ~ Allocator!Free(p, n)
      <4>1. CASE p < o
        <5>1. Blocked(p, n)
          BY SMTT(60), <1>1, <2>2, <3>2, <4>1 DEF IInv, ScanInv, Scanned
        <5>2. QED
          BY SMTT(60), <1>1, <5>1, FreeIsUnblocked
      <4>2. CASE p >= o
        BY <1>1, <3>1, <4>2, FreeIsUnblocked, ConstantsAssumption
      <4>3. QED
        BY SMTT(60), <1>1, <4>1, <4>2
    <3>3. QED
      BY <2>2, <3>2, Zenon DEF Allocator!Places
  <2>3. QED
    BY <2>1, <2>2, Zenon
<1>3. QED
  BY <1>1, <1>2, Zenon DEF Allocator!Refuse, Reject, Finish

\* A scan gives up on an overflow only when no place would do.
LEMMA OverflowRefuses ==
  ASSUME IInv, NEW t \in Threads, ScanOverflows(t)
  PROVE  Allocator!Refuse(t)
<1> DEFINE o == offset[t]
           n == req[t].size
           a == req[t].align
<1>1. /\ req[t] # None /\ o \in Nat /\ n \in Nat \ {0}
      /\ a \in Alignments /\ a \in Nat \ {0} /\ pc[t] = "scan"
  BY BusyRequest, Zenon DEF ScanOverflows
<1>2. PICK e \in occupied :
        ~ FitsBefore(t, e) /\ o < End(e) /\ ~ CanAlign(End(e), a)
  BY Zenon DEF ScanOverflows
<1>3. e.first \in Nat /\ e.size \in Nat /\ End(e) \in Nat
  BY DEF IInv, TypeOK, Intervals, End
<1>4. req[t].fixed = None
  BY <1>1, Zenon DEF IInv, ScanInv, Scanned
<1>5. ASSUME NEW p \in 0 .. Capacity, p % a = 0
      PROVE  ~ Allocator!Free(p, n)
  <2>1. CASE p < o
    <3>1. Blocked(p, n)
      BY SMTT(60), <1>1, <1>4, <1>5, <2>1 DEF IInv, ScanInv, Scanned
    <3>2. QED
      BY SMTT(60), <1>1, <3>1, FreeIsUnblocked
  <2>2. CASE p >= o /\ p < End(e)
    <3>1. e.first < p + n
      BY <1>1, <1>2, <1>3, <2>2 DEF FitsBefore
    <3>2. Blocked(p, n)
      BY <2>2, <3>1, Zenon DEF Blocked
    <3>3. QED
      BY SMTT(60), <1>1, <3>2, FreeIsUnblocked
  <2>3. CASE p >= End(e)
    <3>1. p >= Capacity
      BY SMTT(60), <1>1, <1>2, <1>3, <1>5, <2>3, OverflowLeavesNothing
    <3>2. QED
      BY SMTT(60), <1>1, <3>1, FreeIsUnblocked, ConstantsAssumption
  <2>4. QED
    BY SMTT(60), <1>1, <1>3, <2>1, <2>2, <2>3
<1>6. Allocator!Places(req[t]) = {}
  BY <1>4, <1>5, Zenon DEF Allocator!Places
<1>7. QED
  BY <1>1, <1>6, Zenon DEF Allocator!Refuse, ScanOverflows, Finish

\* Every step of the allocator is a step of IntervalAllocator or leaves what
\* its callers see alone.
LEMMA RefineStep ==
  IInv /\ [Next]_vars => [Allocator!AllocNext]_(Allocator!allocVars)
<1> SUFFICES ASSUME IInv, [Next]_vars
             PROVE  Allocator!AllocNext \/ UNCHANGED Allocator!allocVars
  BY Zenon
<1> USE DEF Allocator!allocVars
<1>1. ASSUME NEW t \in Threads, NEW r \in Requests, Alloc(t, r) PROVE Allocator!Ask(t)
  <2>1. req[t] = None
    BY <1>1, Zenon DEF Alloc, IInv, ScanInv, Scanned
  <2>2. req'[t] = r /\ req' = [req EXCEPT ![t] = r]
    BY <1>1, Zenon DEF Alloc, IInv, TypeOK
  <2>3. QED
    BY <1>1, <2>1, <2>2, Zenon DEF Allocator!Ask, Alloc
<1>2. ASSUME NEW t \in Threads, Scan(t) \/ ScanEnds(t)
      PROVE  UNCHANGED Allocator!allocVars
  BY <1>2, Zenon DEF Scan, ScanEnds
<1>3. ASSUME NEW h \in Handles, Release(h) PROVE Allocator!Return(h)
  BY <1>3, Zenon DEF Release, Allocator!Return
<1>4. ASSUME NEW h \in Handles, KeepAllocated(h) PROVE Allocator!Pin(h)
  BY <1>4, Zenon DEF KeepAllocated, Allocator!Pin
<1>5. ASSUME NEW to \in Handles, NEW from \in Handles,
             MoveAssign(to, from) \/ MoveConstruct(to, from)
      PROVE  Allocator!Transfer(to, from)
  BY <1>5, Zenon DEF MoveAssign, MoveConstruct, Stolen, Allocator!Transfer
<1>6. CASE Rediscover
  <2>1. Allocator!Reopen
    BY <1>6, Zenon DEF Rediscover, Allocator!Reopen
  <2>2. QED
    BY <2>1, Zenon DEF Allocator!AllocNext
<1>7. CASE UNCHANGED vars
  BY <1>7, Zenon DEF vars
<1>8. QED
  BY Zenon, <1>1, <1>2, <1>3, <1>4, <1>5, <1>6, <1>7,
     InsertGrants, RejectRefuses, OverflowRefuses DEF Next, Allocator!AllocNext

\* device_mem_alloc and MemBuffer keep the promise IntervalAllocator states: a
\* request gets the lowest aligned free place, or the place it names, and fails
\* only when there is none, whatever else happens during its scan.
THEOREM AllocatorRefinement == Spec => ImplementsAllocator
<1>1. Init => Allocator!AllocInit
  BY Zenon DEF Init, Allocator!AllocInit
<1>2. QED
  BY <1>1, RefineStep, Invariance, PTL
     DEF Spec, ImplementsAllocator, Allocator!AllocSpec
=============================================================================
