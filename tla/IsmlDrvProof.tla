----------------------------- MODULE IsmlDrvProof -----------------------------
(***************************************************************************)
(* Proofs about IsmlDrv for any finite sets of threads, files and          *)
(* mappings, any buffers and any number of handles.                        *)
(***************************************************************************)
EXTENDS IsmlDrv, Integers, FiniteSetTheorems, TLAPS

-----------------------------------------------------------------------------
Steps == {"alloc", "reply", "stale", "put", "map", "dead"}
Dangling == {"stale", "dead"}
Calls == [at : Steps, file : opened, buf : Bufs]
Mappings == [file : opened, buf : Bufs]

\* The shape of the state; the range of the counts follows from the rest.
Shape ==
  /\ phase \in {"absent", "enabled", "masked", "named", "bound", "undo"}
  /\ opened \subseteq Files
  /\ list \in [Files -> SUBSET Bufs]
  /\ next \in [Files -> 1 .. MaxHandle + 1]
  /\ ref \in [Bufs -> Int]
  /\ handle \in [Bufs -> Handles]
  /\ vma \in [Vmas -> Mappings \cup {Unmapped}]
  /\ op \in [Procs -> Calls \cup {Idle}]
  /\ known \in [Files -> SUBSET (Handles \X Bufs)]

\* Probe holds exactly what its steps took.
ProbeInv ==
  /\ phase = "absent" => held = {}
  /\ phase \in {"enabled", "masked", "undo"} => held = {"enabled", "master"}
  /\ phase = "named" => held = {"enabled", "master", "ida"}
  /\ phase = "bound" => held = Resources

\* The lists: a buffer is in one at most, under a handle of its own that the
\* file has given out, and what a caller knows is listed.
FileInv(f) ==
  /\ f \notin opened => list[f] = {} /\ known[f] = {}
  /\ \A g \in Files : \A b \in list[f] : b \in list[g] => f = g
  /\ \A b \in list[f] : handle[b] < next[f]
  /\ \A b, c \in list[f] : handle[b] = handle[c] => b = c
  /\ \A k \in known[f] : k[2] \in list[f] /\ handle[k[2]] = k[1]

\* A buffer being allocated is its call's alone, but for calls whose own buffer
\* was freed under them and is allocated again.
Alone(p) ==
  /\ \A f \in Files : op[p].buf \notin list[f]
  /\ \A v \in Vmas : vma[v].buf # op[p].buf
  /\ \A q \in Procs \ {p} : op[q].at \notin Dangling => op[q].buf # op[p].buf

\* A buffer listed and not yet returned is known to no caller.
Unnamed(p) ==
  /\ op[p].buf \in list[op[p].file]
  /\ \A k \in known[op[p].file] : k[2] # op[p].buf
  /\ \A q \in Procs \ {p} : op[q].at = "reply" => op[q].buf # op[p].buf

CallInv(p) ==
  /\ op[p].at = "alloc" => Alone(p)
  /\ op[p].at = "reply" => Unnamed(p)

\* The holders of a buffer, by kind.
Lists(b) == {f \in Files : b \in list[f]}
Maps(b) == {v \in Vmas : vma[v].buf = b}
Callers(b) == {p \in Procs : op[p].buf = b /\ op[p].at \in {"alloc", "put", "map"}}

Counted(b) == ref[b] = Cardinality(Lists(b)) + Cardinality(Maps(b)) + Cardinality(Callers(b))

FilesInv == \A f \in Files : FileInv(f)
CallsInv == \A p \in Procs : CallInv(p)
AllCounted == \A b \in Bufs : Counted(b)

\* The inductive invariant of the driver's steps while nothing is damaged.
IInv == Shape /\ ProbeInv /\ FilesInv /\ CallsInv /\ AllCounted

\* Only a handle freed before it was returned leaves a call without its buffer.
EarlyInv == (stray \/ \E p \in Procs : op[p].at = "stale") => early

\* The inductive invariant of the module.
Inv == TypeOK /\ ProbeInv /\ EarlyInv /\ (~stray => IInv)

-----------------------------------------------------------------------------
\* The holders of a buffer are finitely many.
LEMMA Finite ==
  ASSUME NEW b
  PROVE  /\ IsFiniteSet(Lists(b)) /\ IsFiniteSet(Maps(b)) /\ IsFiniteSet(Callers(b))
         /\ Cardinality(Lists(b)) \in Nat /\ Cardinality(Maps(b)) \in Nat
         /\ Cardinality(Callers(b)) \in Nat
<1>1. Lists(b) \in SUBSET Files /\ Maps(b) \in SUBSET Vmas /\ Callers(b) \in SUBSET Procs
  BY Zenon DEF Lists, Maps, Callers
<1>2. IsFiniteSet(Lists(b)) /\ IsFiniteSet(Maps(b)) /\ IsFiniteSet(Callers(b))
  BY <1>1, ConstantsAssumption, FS_Subset, Zenon
<1> QED
  BY <1>2, FS_CardinalityType, Zenon

\* What the shape says of one call and of one mapping.
LEMMA CallType ==
  ASSUME Shape, NEW p \in Procs
  PROVE  /\ op[p] = Idle \/ op[p] \in Calls
         /\ op[p].at \in Steps => /\ op[p] \in Calls /\ op[p] # Idle
                                  /\ op[p].file \in opened /\ op[p].file \in Files
                                  /\ op[p].buf \in Bufs
         /\ op[p].at \notin Steps => op[p] = Idle
         /\ op[p] = Idle => op[p].at = "idle" /\ op[p].buf \notin Bufs /\ op[p].file = None
<1>1. op[p] = Idle \/ op[p] \in Calls
  BY Zenon DEF Shape
<1>2. Idle.at = "idle" /\ Idle.buf = None /\ Idle.file = None
  BY Zenon DEF Idle
<1>3. op[p] \in Calls => op[p].at \in Steps /\ op[p].file \in opened /\ op[p].buf \in Bufs
  BY Zenon DEF Calls
<1>4. opened \subseteq Files
  BY Zenon DEF Shape
<1>5. "idle" \notin Steps
  BY Zenon DEF Steps
<1> QED
  BY <1>1, <1>2, <1>3, <1>4, <1>5, ConstantsAssumption, Zenon

LEMMA MapType ==
  ASSUME Shape, NEW v \in Vmas
  PROVE  /\ vma[v] = Unmapped => vma[v].buf \notin Bufs /\ vma[v].file = None
         /\ vma[v] # Unmapped => /\ vma[v] \in Mappings /\ vma[v].buf \in Bufs
                                 /\ vma[v].file \in opened
<1>1. vma[v] = Unmapped \/ vma[v] \in Mappings
  BY Zenon DEF Shape
<1>2. Unmapped.buf = None /\ Unmapped.file = None
  BY Zenon DEF Unmapped
<1>3. vma[v] \in Mappings => vma[v].file \in opened /\ vma[v].buf \in Bufs
  BY Zenon DEF Mappings
<1> QED
  BY <1>1, <1>2, <1>3, ConstantsAssumption, Zenon

\* A call that moves on keeps its file and its buffer.
LEMMA CallMoves ==
  ASSUME Shape, NEW p \in Procs, op[p].at \in Steps, NEW a \in Steps,
         op' = [op EXCEPT ![p].at = a], UNCHANGED opened
  PROVE  /\ op' \in [Procs -> (Calls \cup {Idle})']
         /\ op'[p].at = a /\ op'[p].file = op[p].file /\ op'[p].buf = op[p].buf
         /\ \A q \in Procs \ {p} : op'[q] = op[q]
<1>1. op \in [Procs -> Calls \cup {Idle}]
  BY Zenon DEF Shape
<1>2. op[p] \in Calls
  BY CallType, Zenon
<1>3. op'[p] = [op[p] EXCEPT !.at = a] /\ \A q \in Procs \ {p} : op'[q] = op[q]
  BY <1>1, Zenon
<1>4. op'[p].at = a /\ op'[p].file = op[p].file /\ op'[p].buf = op[p].buf /\ op'[p] \in Calls
  BY <1>2, <1>3 DEF Calls
<1>5. (Calls \cup {Idle})' = Calls \cup {Idle}
  BY Zenon DEF Calls, Idle
<1> QED
  BY <1>1, <1>3, <1>4, <1>5, Zenon

\* A call that begins or ends.
LEMMA CallSet ==
  ASSUME Shape, NEW p \in Procs, NEW c, c \in Calls \/ c = Idle,
         op' = [op EXCEPT ![p] = c], UNCHANGED opened
  PROVE  /\ op' \in [Procs -> (Calls \cup {Idle})']
         /\ op'[p] = c
         /\ \A q \in Procs \ {p} : op'[q] = op[q]
<1>1. op \in [Procs -> Calls \cup {Idle}]
  BY Zenon DEF Shape
<1>2. op'[p] = c /\ \A q \in Procs \ {p} : op'[q] = op[q]
  BY <1>1, Zenon
<1>3. (Calls \cup {Idle})' = Calls \cup {Idle}
  BY Zenon DEF Calls, Idle
<1> QED
  BY <1>1, <1>2, <1>3, Zenon

LEMMA NewCall ==
  ASSUME NEW a \in Steps, NEW f \in opened, NEW b \in Bufs
  PROVE  LET c == [at |-> a, file |-> f, buf |-> b]
         IN  c \in Calls /\ c.at = a /\ c.file = f /\ c.buf = b
BY Zenon DEF Calls

-----------------------------------------------------------------------------
\* The probe touches no buffer.
LEMMA BuffersKept ==
  ASSUME IInv, UNCHANGED <<opened, list, next, ref, handle, vma, op, known>>,
         phase' \in {"absent", "enabled", "masked", "named", "bound", "undo"}
  PROVE  Shape' /\ FilesInv' /\ CallsInv' /\ AllCounted'
<1>1. Shape'
  BY Zenon DEF IInv, Shape, Calls, Mappings, Idle, Unmapped, Handles, Steps
<1>2. FilesInv'
  BY ZenonT(60) DEF IInv, FilesInv, FileInv
<1>3. CallsInv'
  BY Zenon DEF IInv, CallsInv, CallInv, Alone, Unnamed
<1>4. AllCounted'
  BY Zenon DEF IInv, AllCounted, Counted, Lists, Maps, Callers
<1> QED
  BY <1>1, <1>2, <1>3, <1>4, Zenon

LEMMA ProbeIInv ==
  ASSUME IInv, Probe \/ ProbeFails \/ DisableDevice \/ Remove
  PROVE  IInv'
<1>1. UNCHANGED <<opened, list, next, ref, handle, vma, op, known>>
  BY Zenon DEF Probe, ProbeStep, ProbeFails, DisableDevice, Remove
<1>2. phase' \in {"absent", "enabled", "masked", "named", "bound", "undo"}
  BY Zenon DEF Probe, ProbeStep, ProbeFails, DisableDevice, Remove
<1>3. ASSUME Probe PROVE ProbeInv'
  BY <1>3, Zenon DEF Probe, ProbeStep, ProbeInv, IInv, Resources
<1>4. ASSUME ProbeFails PROVE ProbeInv'
  BY <1>4, Zenon DEF ProbeFails, Undo, ProbeInv, IInv
<1>5. ASSUME DisableDevice PROVE ProbeInv'
  BY <1>5, Zenon DEF DisableDevice, ProbeInv, IInv
<1>6. ASSUME Remove PROVE ProbeInv'
  BY <1>6, Zenon DEF Remove, ProbeInv, IInv, Resources
<1> QED
  BY <1>1, <1>2, <1>3, <1>4, <1>5, <1>6, BuffersKept, Zenon DEF IInv

\* A file opens with its list empty.
LEMMA OpenIInv ==
  ASSUME IInv, NEW f \in Files, Open(f)
  PROVE  IInv'
<1>1. ProbeInv'
  BY Zenon DEF Open, device, IInv, ProbeInv
<1>2. Shape'
  <2>1. Calls \subseteq Calls' /\ Mappings \subseteq Mappings'
    BY Zenon DEF Open, Calls, Mappings
  <2>2. next' \in [Files -> 1 .. MaxHandle + 1]
    BY ConstantsAssumption DEF Open, IInv, Shape
  <2> QED
    BY <2>1, <2>2, Zenon DEF Open, device, IInv, Shape, Idle, Unmapped
<1>3. ASSUME NEW g \in Files PROVE FileInv(g)'
  <2>1. /\ FileInv(g) /\ UNCHANGED <<list, known, handle>>
        /\ opened' = opened \cup {f}
    BY Zenon DEF IInv, FilesInv, Open
  <2>2. g # f => next'[g] = next[g]
    BY Zenon DEF IInv, Shape, Open
  <2>3. g = f => list[g] = {}
    BY <2>1, Zenon DEF FileInv, Open
  <2> QED
    BY <2>1, <2>2, <2>3, Zenon DEF FileInv
<1>4. CallsInv'
  BY Zenon DEF Open, IInv, CallsInv, CallInv, Alone, Unnamed
<1>5. AllCounted'
  BY Zenon DEF Open, IInv, AllCounted, Counted, Lists, Maps, Callers
<1> QED
  BY <1>1, <1>2, <1>3, <1>4, <1>5, Zenon DEF IInv, FilesInv

\* A file closes with no call in it and no mapping of it; what it listed loses
\* one reference.
LEMMA CloseIInv ==
  ASSUME IInv, NEW f \in Files, Close(f)
  PROVE  IInv'
<1>a. Shape /\ FilesInv /\ CallsInv /\ AllCounted
  BY Zenon DEF IInv
<1>b. /\ list'[f] = {} /\ known'[f] = {} /\ opened' = opened \ {f}
      /\ \A g \in Files \ {f} : list'[g] = list[g] /\ known'[g] = known[g] /\ next'[g] = next[g]
      /\ handle' = handle /\ op' = op /\ vma' = vma
  BY <1>a, Zenon DEF Shape, Close
<1>1. ProbeInv'
  BY Zenon DEF Close, device, IInv, ProbeInv
<1>2. Shape'
  <2>1. ASSUME NEW p \in Procs PROVE op[p] \in Calls' \cup {Idle}
    <3>1. op[p] = Idle \/ op[p] \in Calls
      BY <1>a, CallType, Zenon
    <3>2. op[p].file # f
      BY Zenon DEF Close
    <3> QED
      BY <3>1, <3>2, <1>b, Zenon DEF Calls
  <2>2. ASSUME NEW v \in Vmas PROVE vma[v] \in Mappings' \cup {Unmapped}
    <3>1. vma[v] = Unmapped \/ vma[v] \in Mappings
      BY <1>a, MapType, Zenon
    <3>2. vma[v].file # f
      BY Zenon DEF Close
    <3> QED
      BY <3>1, <3>2, <1>b, Zenon DEF Mappings
  <2>3. op' \in [Procs -> Calls' \cup {Idle}] /\ vma' \in [Vmas -> Mappings' \cup {Unmapped}]
    BY <2>1, <2>2, <1>a, <1>b, Zenon DEF Shape
  <2>4. ref' \in [Bufs -> Int]
    BY <1>a DEF Shape, Close, Drain
  <2>5. next' \in [Files -> 1 .. MaxHandle + 1]
    BY <1>a, ConstantsAssumption DEF Shape, Close
  <2>6. /\ list' \in [Files -> SUBSET Bufs] /\ known' \in [Files -> SUBSET (Handles \X Bufs)]
        /\ opened' \subseteq Files
    BY <1>a, Zenon DEF Shape, Close
  <2> QED
    BY <1>a, <2>3, <2>4, <2>5, <2>6, Zenon DEF Shape, Close, device, Idle, Unmapped, Handles
<1>3. ASSUME NEW g \in Files PROVE FileInv(g)'
  <2>1. CASE g = f
    BY <2>1, <1>b, Zenon DEF FileInv
  <2>2. CASE g # f
    <3>1. FileInv(g)
      BY <1>a, Zenon DEF FilesInv
    <3>2. \A h \in Files : list'[h] \subseteq list[h]
      BY <1>b, Zenon
    <3> QED
      BY <3>1, <3>2, <2>2, <1>b, Zenon DEF FileInv
  <2> QED
    BY <2>1, <2>2, Zenon
<1>4. ASSUME NEW p \in Procs PROVE CallInv(p)'
  <2>1. CallInv(p) /\ op[p].file # f
    BY <1>a, Zenon DEF CallsInv, Close
  <2>2. \A g \in Files : list'[g] \subseteq list[g]
    BY <1>b, Zenon
  <2>3. op[p].at = "reply" => op[p].file \in Files
    BY <1>a, CallType, Zenon DEF Steps
  <2> QED
    BY <2>1, <2>2, <2>3, <1>b, Zenon DEF CallInv, Alone, Unnamed
<1>5. ASSUME NEW b \in Bufs PROVE Counted(b)'
  <2>1. Counted(b) /\ ref[b] \in Int
    BY <1>a, Zenon DEF AllCounted, Shape
  <2>2. Maps(b)' = Maps(b) /\ Callers(b)' = Callers(b)
    BY <1>b, Zenon DEF Maps, Callers
  <2>3. Lists(b)' = Lists(b) \ {f}
    BY <1>b, Zenon DEF Lists
  <2>4. f \in Lists(b) <=> b \in list[f]
    BY Zenon DEF Lists
  <2>5. ref'[b] = IF b \in list[f] THEN ref[b] - 1 ELSE ref[b]
    BY Zenon DEF Close, Drain
  <2>6. Cardinality(Lists(b) \ {f}) = IF f \in Lists(b) THEN Cardinality(Lists(b)) - 1
                                      ELSE Cardinality(Lists(b))
    BY Finite, FS_RemoveElement, Zenon
  <2> QED
    BY SMTT(60), <2>1, <2>2, <2>3, <2>4, <2>5, <2>6, Finite DEF Counted
<1> QED
  BY <1>1, <1>2, <1>3, <1>4, <1>5, Zenon DEF IInv, FilesInv, CallsInv, AllCounted

-----------------------------------------------------------------------------
\* A buffer nobody counts is in no list, mapping or call that still has one.
LEMMA Unheld ==
  ASSUME IInv, NEW b \in Bufs, ref[b] = 0
  PROVE  /\ \A f \in Files : b \notin list[f]
         /\ \A v \in Vmas : vma[v].buf # b
         /\ \A p \in Procs : op[p].at \notin Dangling => op[p].buf # b
<1>1. Shape /\ CallsInv /\ Counted(b)
  BY Zenon DEF IInv, AllCounted
<1>2. Cardinality(Lists(b)) = 0 /\ Cardinality(Maps(b)) = 0 /\ Cardinality(Callers(b)) = 0
  BY <1>1, Finite DEF Counted
<1>3. Lists(b) = {} /\ Maps(b) = {} /\ Callers(b) = {}
  BY <1>2, Finite, FS_EmptySet, Zenon
<1>4. \A f \in Files : b \notin list[f]
  BY <1>3, Zenon DEF Lists
<1>5. \A v \in Vmas : vma[v].buf # b
  BY <1>3, Zenon DEF Maps
<1>6. ASSUME NEW p \in Procs, op[p].at \notin Dangling, op[p].buf = b PROVE FALSE
  <2>1. op[p].at \in Steps
    BY <1>1, <1>6, CallType, Zenon
  <2>2. op[p].at \notin {"alloc", "put", "map"}
    BY <1>3, <1>6, Zenon DEF Callers
  <2>3. op[p].at = "reply"
    BY <1>6, <2>1, <2>2, Zenon DEF Steps, Dangling
  <2>4. b \in list[op[p].file] /\ op[p].file \in Files
    BY <1>1, <1>6, <2>1, <2>3, CallType, Zenon DEF CallsInv, CallInv, Unnamed
  <2> QED
    BY <2>4, <1>4, Zenon
<1> QED
  BY <1>4, <1>5, <1>6, Zenon

\* A call is left alone by a step of another that spares its buffer.
LEMMA CallKept ==
  ASSUME NEW p \in Procs, NEW q \in Procs \ {p}, CallInv(q),
         op'[q] = op[q],
         \A r \in Procs \ {p} : op'[r] = op[r] \/ op'[r].at \in Dangling,
         op[q].at = "alloc" => /\ \A g \in Files : op[q].buf \notin list'[g]
                               /\ \A v \in Vmas : vma'[v].buf # op[q].buf
                               /\ op'[p].buf # op[q].buf,
         op[q].at = "reply" => /\ op[q].buf \in list'[op[q].file]
                               /\ \A k \in known'[op[q].file] : k[2] # op[q].buf
                               /\ op'[p].at = "reply" => op'[p].buf # op[q].buf
  PROVE  CallInv(q)'
<1>1. op'[q] = op[q] /\ q \in Procs
  BY Zenon
<1>2. CASE op[q].at = "alloc"
  <2>1. ASSUME NEW r \in Procs \ {q}, op'[r].at \notin Dangling
        PROVE  op'[r].buf # op[q].buf
    BY <1>2, <2>1, Zenon DEF CallInv, Alone
  <2> QED
    BY <1>1, <1>2, <2>1, Zenon DEF CallInv, Alone
<1>3. CASE op[q].at = "reply"
  <2>1. ASSUME NEW r \in Procs \ {q}, op'[r].at = "reply" PROVE op'[r].buf # op[q].buf
    BY <1>3, <2>1, Zenon DEF CallInv, Unnamed, Dangling
  <2> QED
    BY <1>1, <1>3, <2>1, Zenon DEF CallInv, Unnamed
<1> QED
  BY <1>1, <1>2, <1>3, Zenon DEF CallInv

LEMMA AllocBeginIInv ==
  ASSUME IInv, NEW p \in Procs, NEW f \in Files, NEW b \in Bufs, AllocBegin(p, f, b)
  PROVE  IInv'
<1> DEFINE c == [at |-> "alloc", file |-> f, buf |-> b]
<1>a. Shape /\ FilesInv /\ CallsInv /\ AllCounted
  BY Zenon DEF IInv
<1>b. c \in Calls /\ c.at = "alloc" /\ c.file = f /\ c.buf = b
  BY NewCall, Zenon DEF Steps, AllocBegin
<1>c. /\ op' \in [Procs -> (Calls \cup {Idle})'] /\ op'[p] = c
      /\ \A q \in Procs \ {p} : op'[q] = op[q]
  <2>1. op' = [op EXCEPT ![p] = c] /\ UNCHANGED opened
    BY Zenon DEF AllocBegin
  <2> HIDE DEF c
  <2> QED
    BY <2>1, <1>a, <1>b, CallSet, Zenon
<1> HIDE DEF c
<1>d. /\ UNCHANGED <<phase, held, opened, list, next, handle, vma, known>>
      /\ op[p] = Idle /\ ref[b] = 0
  BY Zenon DEF AllocBegin, device
<1>e. op[p].at = "idle" /\ op[p].buf \notin Bufs
  BY <1>a, <1>d, CallType, Zenon
<1>f. /\ \A g \in Files : b \notin list[g]
      /\ \A v \in Vmas : vma[v].buf # b
      /\ \A q \in Procs : op[q].at \notin Dangling => op[q].buf # b
  BY <1>d, Unheld, Zenon
<1>g. /\ ref' \in [Bufs -> Int] /\ ref'[b] = 1
      /\ \A d \in Bufs \ {b} : ref'[d] = ref[d]
  BY <1>a DEF Shape, AllocBegin
<1>1. ProbeInv'
  BY <1>d, Zenon DEF IInv, ProbeInv
<1>2. Shape'
  BY <1>a, <1>c, <1>d, <1>g, Zenon DEF Shape, Mappings, Unmapped, Handles
<1>3. FilesInv'
  BY <1>a, <1>d, ZenonT(60) DEF FilesInv, FileInv
<1>4. ASSUME NEW q \in Procs PROVE CallInv(q)'
  <2>1. CASE q = p
    BY <2>1, <1>b, <1>c, <1>d, <1>f, Zenon DEF CallInv, Alone
  <2>2. CASE q # p
    <3>1. /\ CallInv(q) /\ op'[p].at # "reply"
          /\ op[q].at = "alloc" => op'[p].buf # op[q].buf
      BY <1>a, <1>b, <1>c, <1>f, Zenon DEF CallsInv, Dangling
    <3>2. op[q].at = "alloc" => /\ \A g \in Files : op[q].buf \notin list'[g]
                                /\ \A v \in Vmas : vma'[v].buf # op[q].buf
      BY <3>1, <1>d, Zenon DEF CallInv, Alone
    <3>3. op[q].at = "reply" => /\ op[q].buf \in list'[op[q].file]
                                /\ \A k \in known'[op[q].file] : k[2] # op[q].buf
      BY <3>1, <1>d, Zenon DEF CallInv, Unnamed
    <3> QED
      BY <2>2, <3>1, <3>2, <3>3, <1>c, CallKept, Zenon
  <2> QED
    BY <2>1, <2>2, Zenon
<1>5. ASSUME NEW d \in Bufs PROVE Counted(d)'
  <2>1. Counted(d) /\ ref[d] \in Int
    BY <1>a, Zenon DEF AllCounted, Shape
  <2>2. Lists(d)' = Lists(d) /\ Maps(d)' = Maps(d)
    BY <1>d, Zenon DEF Lists, Maps
  <2>3. CASE d = b
    <3>1. Callers(d)' = Callers(d) \cup {p}
      BY <2>3, <1>b, <1>c, Zenon DEF Callers
    <3>2. p \notin Callers(d)
      BY <1>e, Zenon DEF Callers
    <3>3. Cardinality(Callers(d) \cup {p}) = Cardinality(Callers(d)) + 1
      BY <3>2, Finite, FS_AddElement, Zenon
    <3> QED
      BY SMTT(60), <2>1, <2>2, <2>3, <3>1, <3>3, <1>d, <1>g, Finite DEF Counted
  <2>4. CASE d # b
    <3>1. Callers(d)' = Callers(d)
      BY <2>4, <1>b, <1>c, <1>e, ZenonT(60) DEF Callers
    <3> QED
      BY <2>1, <2>2, <2>4, <3>1, <1>g, Zenon DEF Counted
  <2> QED
    BY <2>3, <2>4, Zenon
<1> QED
  BY <1>1, <1>2, <1>3, <1>4, <1>5, Zenon DEF IInv, CallsInv, AllCounted

LEMMA AllocInsertIInv ==
  ASSUME IInv, NEW p \in Procs, AllocInsert(p)
  PROVE  IInv'
<1> DEFINE f == op[p].file
           b == op[p].buf
<1>a. Shape /\ FilesInv /\ CallsInv /\ AllCounted
  BY Zenon DEF IInv
<1>b. op[p].at = "alloc" /\ "alloc" \in Steps /\ "reply" \in Steps /\ next[f] <= MaxHandle
  BY Zenon DEF AllocInsert, Steps
<1>c. f \in Files /\ b \in Bufs /\ f \in opened
  BY <1>a, <1>b, CallType, Zenon
<1>d. /\ handle' = [handle EXCEPT ![b] = next[f]]
      /\ next' = [next EXCEPT ![f] = next[f] + 1]
      /\ list' = [list EXCEPT ![f] = list[f] \cup {b}]
      /\ op' = [op EXCEPT ![p].at = "reply"]
      /\ UNCHANGED <<phase, held, opened, ref, vma, known>>
  BY Zenon DEF AllocInsert, NextHandle, device
<1>e. /\ op' \in [Procs -> (Calls \cup {Idle})']
      /\ op'[p].at = "reply" /\ op'[p].file = f /\ op'[p].buf = b
      /\ \A q \in Procs \ {p} : op'[q] = op[q]
  BY <1>a, <1>b, <1>d, CallMoves, Zenon
<1>f. /\ \A g \in Files : b \notin list[g]
      /\ \A v \in Vmas : vma[v].buf # b
      /\ \A q \in Procs \ {p} : op[q].at \notin Dangling => op[q].buf # b
  BY <1>a, <1>b, Zenon DEF CallsInv, CallInv, Alone
<1> HIDE DEF f, b
<1>g. /\ list' \in [Files -> SUBSET Bufs] /\ list'[f] = list[f] \cup {b}
      /\ \A g \in Files \ {f} : list'[g] = list[g]
  BY <1>a, <1>c, <1>d, Zenon DEF Shape
<1>h. /\ next' \in [Files -> 1 .. MaxHandle + 1] /\ next'[f] = next[f] + 1 /\ next[f] \in Nat
      /\ \A g \in Files \ {f} : next'[g] = next[g]
  BY SMTT(60), <1>a, <1>b, <1>c, <1>d, ConstantsAssumption DEF Shape
<1>i. /\ handle' \in [Bufs -> Handles] /\ handle'[b] = next[f]
      /\ \A d \in Bufs \ {b} : handle'[d] = handle[d] /\ handle[d] \in Nat
  BY SMTT(60), <1>a, <1>b, <1>c, <1>d, ConstantsAssumption DEF Shape, Handles
<1>1. ProbeInv'
  BY <1>d, Zenon DEF IInv, ProbeInv
<1>2. Shape'
  BY <1>a, <1>d, <1>e, <1>g, <1>h, <1>i, Zenon DEF Shape, Mappings, Unmapped, Handles
<1>3. ASSUME NEW g \in Files PROVE FileInv(g)'
  <2>1. FileInv(g) /\ list[g] \subseteq Bufs \ {b}
    BY <1>a, <1>f, Zenon DEF FilesInv, Shape
  <2>2. \A d \in list[g] : handle'[d] = handle[d] /\ handle[d] \in Nat
    BY <2>1, <1>i, Zenon
  <2>3. CASE g = f
    <3>1. f \in opened' /\ known' = known
      BY <1>c, <1>d, Zenon
    <3>2. \A e \in Files : \A d \in list'[g] : d \in list'[e] => g = e
      BY <2>1, <2>3, <1>f, <1>g, ZenonT(60) DEF FileInv
    <3>3. \A d \in list'[g] : handle'[d] < next'[g]
      BY <2>1, <2>2, <2>3, <1>g, <1>h, <1>i DEF FileInv
    <3>4. \A d, e \in list'[g] : handle'[d] = handle'[e] => d = e
      BY SMTT(60), <2>1, <2>2, <2>3, <1>g, <1>h, <1>i DEF FileInv
    <3>5. \A k \in known'[g] : k[2] \in list'[g] /\ handle'[k[2]] = k[1]
      BY <2>1, <2>2, <2>3, <3>1, <1>g, Zenon DEF FileInv
    <3> QED
      BY <2>3, <3>1, <3>2, <3>3, <3>4, <3>5, Zenon DEF FileInv
  <2>4. CASE g # f
    <3>1. list'[g] = list[g] /\ next'[g] = next[g] /\ known' = known /\ opened' = opened
      BY <2>4, <1>d, <1>g, <1>h, Zenon
    <3>2. \A e \in Files : \A d \in list'[g] : d \in list'[e] => g = e
      BY <2>1, <3>1, <1>g, Zenon DEF FileInv
    <3> QED
      BY <2>1, <2>2, <3>1, <3>2, Zenon DEF FileInv
  <2> QED
    BY <2>3, <2>4, Zenon
<1>4. ASSUME NEW q \in Procs PROVE CallInv(q)'
  <2>1. \A r \in Procs \ {p} : op[r].at = "reply" =>
          op[r].file \in Files /\ op[r].buf \in list[op[r].file]
    BY <1>a, <1>b, CallType, Zenon DEF CallsInv, CallInv, Unnamed
  <2>2. CASE q = p
    <3>1. \A k \in known'[f] : k[2] # b
      <4>1. known' = known /\ \A k \in known[f] : k[2] \in list[f]
        BY <1>a, <1>c, <1>d, Zenon DEF FilesInv, FileInv
      <4> QED
        BY <4>1, <1>c, <1>f, Zenon
    <3>2. \A r \in Procs \ {p} : op'[r].at = "reply" => op'[r].buf # b
      BY <2>1, <1>e, <1>f, Zenon DEF Dangling
    <3> QED
      BY <2>2, <3>1, <3>2, <1>e, <1>g, Zenon DEF CallInv, Unnamed
  <2>3. CASE q # p
    <3>1. CallInv(q) /\ (op[q].at \in {"alloc", "reply"} => op'[p].buf # op[q].buf)
      BY <2>3, <1>a, <1>e, <1>f, Zenon DEF CallsInv, Dangling
    <3>2. \A g \in Files : list[g] \subseteq list'[g] /\ list'[g] \subseteq list[g] \cup {b}
      BY <1>g, Zenon
    <3>3. op[q].at = "alloc" => \A g \in Files : op[q].buf \notin list'[g]
      BY <3>1, <3>2, <1>e, Zenon DEF CallInv, Alone
    <3>4. op[q].at = "reply" => op[q].buf \in list'[op[q].file]
      BY <2>1, <2>3, <3>2, Zenon
    <3>5. op[q].at = "alloc" => \A v \in Vmas : vma'[v].buf # op[q].buf
      BY <3>1, <1>d, Zenon DEF CallInv, Alone
    <3>6. op[q].at = "reply" => \A k \in known'[op[q].file] : k[2] # op[q].buf
      BY <3>1, <1>d, Zenon DEF CallInv, Unnamed
    <3> QED
      BY <2>3, <3>1, <3>3, <3>4, <3>5, <3>6, <1>e, CallKept, Zenon
  <2> QED
    BY <2>2, <2>3, Zenon
<1>5. ASSUME NEW d \in Bufs PROVE Counted(d)'
  <2>1. Counted(d) /\ ref[d] \in Int /\ ref' = ref
    BY <1>a, <1>d, Zenon DEF AllCounted, Shape
  <2>2. Maps(d)' = Maps(d)
    BY <1>d, Zenon DEF Maps
  <2>3. CASE d = b
    <3>1. Callers(d)' = Callers(d) \ {p}
      BY <1>e, Zenon DEF Callers
    <3>2. p \in Callers(d)
      BY <2>3, <1>b, Zenon DEF Callers, b
    <3>3. Cardinality(Callers(d) \ {p}) = Cardinality(Callers(d)) - 1
      BY <3>2, Finite, FS_RemoveElement, Zenon
    <3>4. Lists(d)' = Lists(d) \cup {f}
      BY <2>3, <1>c, <1>g, Zenon DEF Lists
    <3>5. f \notin Lists(d)
      BY <2>3, <1>f, Zenon DEF Lists
    <3>6. Cardinality(Lists(d) \cup {f}) = Cardinality(Lists(d)) + 1
      BY <3>5, Finite, FS_AddElement, Zenon
    <3> QED
      BY SMTT(60), <2>1, <2>2, <3>1, <3>3, <3>4, <3>6, Finite DEF Counted
  <2>4. CASE d # b
    <3>1. Callers(d)' = Callers(d)
      BY <2>4, <1>e, Zenon DEF Callers, b
    <3>2. Lists(d)' = Lists(d)
      BY <2>4, <1>g, Zenon DEF Lists
    <3> QED
      BY <2>1, <2>2, <3>1, <3>2, Zenon DEF Counted
  <2> QED
    BY <2>3, <2>4, Zenon
<1> QED
  BY <1>1, <1>2, <1>3, <1>4, <1>5, Zenon DEF IInv, FilesInv, CallsInv, AllCounted

\* The caller learns the handle only now.
LEMMA AllocReturnIInv ==
  ASSUME IInv, NEW p \in Procs, AllocReturn(p)
  PROVE  IInv'
<1> DEFINE f == op[p].file
           b == op[p].buf
<1>a. Shape /\ FilesInv /\ CallsInv /\ AllCounted
  BY Zenon DEF IInv
<1>b. op[p].at = "reply" /\ "reply" \in Steps
  BY Zenon DEF AllocReturn, Steps
<1>c. f \in Files /\ b \in Bufs
  BY <1>a, <1>b, CallType, Zenon
<1>d. /\ known' = [known EXCEPT ![f] = known[f] \cup {<<handle[b], b>>}]
      /\ op' = [op EXCEPT ![p] = Idle]
      /\ UNCHANGED <<phase, held, opened, list, next, ref, handle, vma>>
  BY Zenon DEF AllocReturn, device
<1>e. /\ op' \in [Procs -> (Calls \cup {Idle})'] /\ op'[p] = Idle
      /\ \A q \in Procs \ {p} : op'[q] = op[q]
  BY <1>a, <1>d, CallSet, Zenon
<1>f. /\ b \in list[f]
      /\ \A q \in Procs \ {p} : op[q].at = "reply" => op[q].buf # b
  BY <1>a, <1>b, Zenon DEF CallsInv, CallInv, Unnamed
<1> HIDE DEF f, b
<1>g. /\ known' \in [Files -> SUBSET (Handles \X Bufs)]
      /\ known'[f] = known[f] \cup {<<handle[b], b>>}
      /\ \A g \in Files \ {f} : known'[g] = known[g]
  BY <1>a, <1>c, <1>d DEF Shape
<1>h. Idle.at = "idle" /\ Idle.buf \notin Bufs
  BY ConstantsAssumption, Zenon DEF Idle
<1>1. ProbeInv'
  BY <1>d, Zenon DEF IInv, ProbeInv
<1>2. Shape'
  BY <1>a, <1>d, <1>e, <1>g, Zenon DEF Shape, Mappings, Unmapped, Handles
<1>3. ASSUME NEW g \in Files PROVE FileInv(g)'
  <2>1. FileInv(g) /\ UNCHANGED <<opened, list, next, handle>>
    BY <1>a, <1>d, Zenon DEF FilesInv
  <2>2. g \notin opened => known'[g] = {}
    BY <2>1, <1>f, <1>g, Zenon DEF FileInv
  <2>3. \A k \in known'[g] : k[2] \in list[g] /\ handle[k[2]] = k[1]
    BY SMTT(60), <2>1, <1>f, <1>g DEF FileInv
  <2> QED
    BY <2>1, <2>2, <2>3, Zenon DEF FileInv
<1>4. ASSUME NEW q \in Procs PROVE CallInv(q)'
  <2>1. CASE q = p
    BY <2>1, <1>e, <1>h, Zenon DEF CallInv
  <2>2. CASE q # p
    <3>1. CallInv(q) /\ op'[p].at = "idle" /\ op'[p].buf \notin Bufs
      BY <1>a, <1>e, <1>h, Zenon DEF CallsInv
    <3>2. op[q].at \in Steps => op[q].buf \in Bufs /\ op[q].file \in Files
      BY <1>a, CallType, Zenon
    <3>3. op[q].at = "alloc" => /\ \A g \in Files : op[q].buf \notin list'[g]
                                /\ \A v \in Vmas : vma'[v].buf # op[q].buf
                                /\ op'[p].buf # op[q].buf
      BY <3>1, <3>2, <1>d, Zenon DEF CallInv, Alone, Steps
    <3>4. op[q].at = "reply" => \A k \in known'[op[q].file] : k[2] # op[q].buf
      BY SMTT(60), <2>2, <3>1, <3>2, <1>f, <1>g DEF CallInv, Unnamed, Steps
    <3>5. op[q].at = "reply" => op[q].buf \in list'[op[q].file]
      BY <3>1, <1>d, Zenon DEF CallInv, Unnamed
    <3> QED
      BY <2>2, <3>1, <3>3, <3>4, <3>5, <1>e, CallKept, Zenon
  <2> QED
    BY <2>1, <2>2, Zenon
<1>5. ASSUME NEW d \in Bufs PROVE Counted(d)'
  <2>1. Counted(d) /\ ref' = ref /\ Lists(d)' = Lists(d) /\ Maps(d)' = Maps(d)
    BY <1>a, <1>d, Zenon DEF AllCounted, Lists, Maps
  <2>2. Callers(d)' = Callers(d)
    BY <1>b, <1>e, <1>h, Zenon DEF Callers
  <2> QED
    BY <2>1, <2>2, Zenon DEF Counted
<1> QED
  BY <1>1, <1>2, <1>3, <1>4, <1>5, Zenon DEF IInv, FilesInv, CallsInv, AllCounted

-----------------------------------------------------------------------------
\* A buffer leaves its file's list and its reference passes to the call; a
\* DMA_ALLOC that has yet to return it loses it.
Unlists(p, f, b) ==
  /\ b \in list[f]
  /\ op[p].at \notin {"alloc", "put", "map"}
  /\ op' \in [Procs -> (Calls \cup {Idle})']
  /\ op'[p].at = "put" /\ op'[p].buf = b
  /\ \A q \in Procs \ {p} : \/ op'[q] = op[q] /\ (op[q].at = "reply" => op[q].buf # b)
                            \/ op[q].at = "reply" /\ op'[q].at = "stale"
  /\ list' = [list EXCEPT ![f] = list[f] \ {b}]
  /\ known' \in [Files -> SUBSET (Handles \X Bufs)]
  /\ \A g \in Files : known'[g] \subseteq known[g]
  /\ \A k \in known'[f] : k[2] # b
  /\ UNCHANGED <<phase, held, opened, next, ref, handle, vma>>

LEMMA UnlistIInv ==
  ASSUME IInv, NEW p \in Procs, NEW f \in Files, NEW b, Unlists(p, f, b)
  PROVE  IInv'
<1> USE DEF Unlists
<1>a. Shape /\ FilesInv /\ CallsInv /\ AllCounted /\ b \in Bufs
  BY Zenon DEF IInv, Shape
<1>b. /\ list' \in [Files -> SUBSET Bufs] /\ list'[f] = list[f] \ {b}
      /\ \A g \in Files \ {f} : list'[g] = list[g]
  BY <1>a, Zenon DEF Shape
<1>c. \A g \in Files : list'[g] \subseteq list[g]
  BY <1>b, Zenon
<1>1. ProbeInv'
  BY Zenon DEF IInv, ProbeInv
<1>2. Shape'
  BY <1>a, <1>b, Zenon DEF Shape, Mappings, Unmapped, Handles
<1>3. ASSUME NEW g \in Files PROVE FileInv(g)'
  <2>1. FileInv(g)
    BY <1>a, Zenon DEF FilesInv
  <2>2. g \notin opened => list'[g] = {} /\ known'[g] = {}
    <3>1. g \notin opened => list[g] = {} /\ known[g] = {}
      BY <2>1, Zenon DEF FileInv
    <3> QED
      BY <3>1, <1>c, Zenon
  <2>3. \A k \in known'[g] : k[2] \in list'[g] /\ handle[k[2]] = k[1]
    <3>1. \A k \in known'[g] : k[2] \in list[g] /\ handle[k[2]] = k[1]
      BY <2>1, Zenon DEF FileInv
    <3> QED
      BY <3>1, <1>b, Zenon
  <2>4. \A e \in Files : \A d \in list'[g] : d \in list'[e] => g = e
    BY <2>1, <1>c, Zenon DEF FileInv
  <2>5. \A d \in list'[g] : handle[d] < next[g]
    BY <2>1, <1>c, Zenon DEF FileInv
  <2>6. \A d, e \in list'[g] : handle[d] = handle[e] => d = e
    BY <2>1, <1>c, Zenon DEF FileInv
  <2> QED
    BY <2>2, <2>3, <2>4, <2>5, <2>6, Zenon DEF FileInv
<1>4. ASSUME NEW q \in Procs PROVE CallInv(q)'
  <2>1. CASE q = p
    BY <2>1, Zenon DEF CallInv
  <2>3. CASE q # p /\ op'[q].at = "stale"
    BY <2>3, Zenon DEF CallInv
  <2>2. CASE q # p /\ op'[q].at # "stale"
    <3>0. op'[q] = op[q] /\ (op[q].at = "reply" => op[q].buf # b)
      BY <2>2, Zenon
    <3>8. \A r \in Procs \ {p} : op'[r] = op[r] \/ op'[r].at \in Dangling
      BY Zenon DEF Dangling
    <3>1. CallInv(q) /\ op'[p].at # "reply"
      BY <1>a, Zenon DEF CallsInv
    <3>2. op[q].at = "alloc" => /\ \A g \in Files : op[q].buf \notin list'[g]
                                /\ \A v \in Vmas : vma'[v].buf # op[q].buf
      BY <3>1, <1>c, Zenon DEF CallInv, Alone
    <3>3. op[q].at = "alloc" => op'[p].buf # op[q].buf
      BY <3>1, Zenon DEF CallInv, Alone
    <3>4. op[q].at = "reply" => op[q].file \in Files
      BY <1>a, CallType, Zenon DEF Steps
    <3>5. op[q].at = "reply" => \A k \in known'[op[q].file] : k[2] # op[q].buf
      BY <3>1, <3>4, Zenon DEF CallInv, Unnamed
    <3>6. op[q].at = "reply" => op[q].buf \in list[op[q].file] /\ op[q].buf # b
      BY <3>0, <3>1, Zenon DEF CallInv, Unnamed
    <3>7. op[q].at = "reply" => op[q].buf \in list'[op[q].file]
      BY <3>4, <3>6, <1>b, Zenon
    <3> QED
      BY <2>2, <3>0, <3>1, <3>2, <3>3, <3>5, <3>7, <3>8, CallKept, Zenon
  <2> QED
    BY <2>1, <2>2, <2>3, Zenon
<1>5. ASSUME NEW d \in Bufs PROVE Counted(d)'
  <2>1. Counted(d) /\ Maps(d)' = Maps(d) /\ ref[d] \in Int
    BY <1>a, Zenon DEF AllCounted, Maps, Shape
  <2>2. CASE d = b
    <3>0. p \notin Callers(d)
      BY Zenon DEF Callers
    <3>1. Callers(d)' = Callers(d) \cup {p}
      <4>1. op'[p].buf = d /\ op'[p].at = "put"
        BY <2>2, Zenon
      <4>2. ASSUME NEW q \in Procs \ {p}
            PROVE  op'[q] = op[q] \/ (op[q].at = "reply" /\ op'[q].at = "stale")
        OBVIOUS
      <4> HIDE DEF Unlists
      <4> QED
        BY <4>1, <4>2, ZenonT(60) DEF Callers
    <3>2. Cardinality(Callers(d) \cup {p}) = Cardinality(Callers(d)) + 1
      BY <3>0, Finite, FS_AddElement, Zenon
    <3>3. Lists(d)' = Lists(d) \ {f} /\ f \in Lists(d)
      BY <2>2, <1>b, Zenon DEF Lists
    <3>4. Cardinality(Lists(d) \ {f}) = Cardinality(Lists(d)) - 1
      BY <3>3, Finite, FS_RemoveElement, Zenon
    <3> QED
      BY SMTT(60), <2>1, <3>1, <3>2, <3>3, <3>4, Finite DEF Counted
  <2>3. CASE d # b
    <3>1. Callers(d)' = Callers(d)
      <4>1. op'[p].buf # d /\ op[p].at \notin {"alloc", "put", "map"}
        BY <2>3, Zenon
      <4>2. ASSUME NEW q \in Procs \ {p}
            PROVE  op'[q] = op[q] \/ (op[q].at = "reply" /\ op'[q].at = "stale")
        OBVIOUS
      <4> HIDE DEF Unlists
      <4> QED
        BY <4>1, <4>2, Zenon DEF Callers
    <3>2. Lists(d)' = Lists(d)
      BY <2>3, <1>b, Zenon DEF Lists
    <3> QED
      BY <2>1, <3>1, <3>2, Zenon DEF Counted
  <2> QED
    BY <2>2, <2>3, Zenon
<1> QED
  BY <1>1, <1>2, <1>3, <1>4, <1>5, Zenon DEF IInv, FilesInv, CallsInv, AllCounted

LEMMA AllocFaultIInv ==
  ASSUME IInv, NEW p \in Procs, AllocFault(p)
  PROVE  IInv'
<1>a. Shape /\ CallsInv
  BY Zenon DEF IInv
<1>b. op[p].at = "reply" /\ "reply" \in Steps /\ "put" \in Steps
  BY Zenon DEF AllocFault, Steps
<1>c. op[p].file \in Files
  BY <1>a, <1>b, CallType, Zenon
<1>d. /\ list' = [list EXCEPT ![op[p].file] = list[op[p].file] \ {op[p].buf}]
      /\ op' = [op EXCEPT ![p].at = "put"]
      /\ UNCHANGED <<phase, held, opened, next, ref, handle, vma, known>>
  BY Zenon DEF AllocFault, device
<1>e. /\ op' \in [Procs -> (Calls \cup {Idle})']
      /\ op'[p].at = "put" /\ op'[p].buf = op[p].buf
      /\ \A q \in Procs \ {p} : op'[q] = op[q]
  BY <1>a, <1>b, <1>d, CallMoves, Zenon
<1>f. /\ op[p].buf \in list[op[p].file]
      /\ \A k \in known[op[p].file] : k[2] # op[p].buf
      /\ \A q \in Procs \ {p} : op[q].at = "reply" => op[q].buf # op[p].buf
  BY <1>a, <1>b, Zenon DEF CallsInv, CallInv, Unnamed
<1>g. /\ known' \in [Files -> SUBSET (Handles \X Bufs)]
      /\ \A g \in Files : known'[g] \subseteq known[g]
  BY <1>a, <1>d, Zenon DEF Shape
<1>h. \A k \in known'[op[p].file] : k[2] # op[p].buf
  BY <1>d, <1>f, Zenon
<1>i. op[p].at \notin {"alloc", "put", "map"}
  BY <1>b, Zenon
<1>1. Unlists(p, op[p].file, op[p].buf)
  BY <1>d, <1>e, <1>f, <1>g, <1>h, <1>i, Zenon DEF Unlists
<1> QED
  BY <1>1, <1>c, UnlistIInv, Zenon

\* A known handle finds the buffer it was returned with.
LEMMA KnownFinds ==
  ASSUME IInv, NEW f \in Files, NEW k \in known[f]
  PROVE  Find(f, k[1]) = {k[2]}
BY DEF IInv, FilesInv, FileInv, Find

\* DMA_FREE of any listed handle, also of one not returned yet.
LEMMA FreeIInv ==
  ASSUME IInv, NEW p \in Procs, NEW f \in Files, NEW h \in Handles, FreeLookup(p, f, h)
  PROVE  /\ IInv'
         /\ \A q \in Procs : op'[q].at = "stale" /\ op[q].at # "stale" => early'
<1>a. Shape /\ CallsInv /\ FileInv(f)
  BY Zenon DEF IInv, FilesInv
<1>b. op[p] = Idle /\ f \in opened
  BY Zenon DEF FreeLookup
<1>d. PICK b \in Find(f, h) :
        /\ list' = [list EXCEPT ![f] = Unlist(f, b)]
        /\ op' = Freeing(p, f, b)
        /\ known' = [known EXCEPT ![f] = {j \in known[f] : j[1] # h}]
  BY Zenon DEF FreeLookup
<1>e. b \in list[f] /\ b \in Bufs /\ handle[b] = h
  BY <1>a, <1>d, Zenon DEF Find, Shape
<1> DEFINE c == [at |-> "put", file |-> f, buf |-> b]
<1>f. c \in Calls /\ c.at = "put" /\ c.buf = b
  BY <1>b, <1>d, <1>e, NewCall, Zenon DEF Steps
<1>g. UNCHANGED <<phase, held, opened, next, ref, handle, vma>>
  BY Zenon DEF FreeLookup, device
<1>h. /\ op'[p] = c
      /\ \A q \in Procs \ {p} : op'[q] = IF op[q].at = "reply" /\ op[q].buf = b
                                      THEN [op[q] EXCEPT !.at = "stale"] ELSE op[q]
      /\ op' = [q \in Procs |-> op'[q]]
  BY <1>d, Zenon DEF Freeing
<1> HIDE DEF c
<1>n. ASSUME NEW q \in Procs \ {p}, op[q].at = "reply", op[q].buf = b
      PROVE  op'[q] \in Calls /\ op'[q].at = "stale"
  <2>1. op[q] \in Calls
    BY <1>a, <1>n, CallType, Zenon DEF Steps
  <2>2. op'[q] = [op[q] EXCEPT !.at = "stale"]
    BY <1>h, <1>n, Zenon
  <2> QED
    BY <2>1, <2>2 DEF Calls, Steps
<1>o. op' \in [Procs -> (Calls \cup {Idle})']
  <2>1. (Calls \cup {Idle})' = Calls \cup {Idle}
    BY <1>g, Zenon DEF Calls, Idle
  <2>2. ASSUME NEW q \in Procs PROVE op'[q] \in Calls \cup {Idle}
    <3>1. op[q] \in Calls \cup {Idle}
      BY <1>a, CallType, Zenon
    <3> QED
      BY <3>1, <1>f, <1>h, <1>n, Zenon
  <2> QED
    BY <2>1, <2>2, <1>h, Zenon
<1>i. op[p].at \notin {"alloc", "put", "map"}
  <2>1. op[p].at = "idle"
    BY <1>a, <1>b, CallType, Zenon
  <2> QED
    BY <2>1, Zenon
<1>j. /\ known' \in [Files -> SUBSET (Handles \X Bufs)]
      /\ \A g \in Files : known'[g] \subseteq known[g]
      /\ known'[f] = {j \in known[f] : j[1] # h}
  BY <1>a, <1>d, Zenon DEF Shape
<1>k. \A j \in known'[f] : j[2] # b
  BY <1>a, <1>e, <1>j, Zenon DEF FileInv
<1>l. ASSUME NEW q \in Procs \ {p}
      PROVE  \/ op'[q] = op[q] /\ (op[q].at = "reply" => op[q].buf # b)
             \/ op[q].at = "reply" /\ op[q].buf = b /\ op'[q].at = "stale"
  <2>1. CASE op[q].at = "reply" /\ op[q].buf = b
    BY <2>1, <1>n, Zenon
  <2>2. CASE ~(op[q].at = "reply" /\ op[q].buf = b)
    BY <2>2, <1>h, Zenon
  <2> QED
    BY <2>1, <2>2, Zenon
<1>m. list' = [list EXCEPT ![f] = list[f] \ {b}]
  BY <1>d, Zenon DEF Unlist
<1>1. Unlists(p, f, b)
  BY <1>e, <1>f, <1>g, <1>h, <1>o, <1>i, <1>j, <1>k, <1>l, <1>m, Zenon DEF Unlists
<1>2. ASSUME NEW q \in Procs, op'[q].at = "stale", op[q].at # "stale" PROVE early'
  <2>1. q # p /\ op[q].at = "reply" /\ op[q].buf = b
    BY <1>2, <1>f, <1>h, <1>l, Zenon
  <2>2. op[q].file \in Files /\ Unnamed(q)
    BY <2>1, <1>a, CallType, Zenon DEF CallsInv, CallInv, Steps
  <2>3. op[q].file = f
    BY <2>1, <2>2, <1>a, <1>e, Zenon DEF FileInv, Unnamed
  <2>4. \A k \in known[f] : k[2] # b
    BY <2>1, <2>2, <2>3, Zenon DEF Unnamed
  <2>5. \A k \in known[f] : k[1] # h
    BY <2>4, <1>a, <1>e, Zenon DEF FileInv
  <2> QED
    BY <2>5, Zenon DEF FreeLookup
<1> QED
  BY <1>1, <1>2, UnlistIInv, Zenon

-----------------------------------------------------------------------------
\* A step that changes no list: it only moves references between calls and
\* mappings, and leaves the buffers being allocated alone.
Moves ==
  /\ UNCHANGED <<phase, held, opened, list, next, handle, known>>
  /\ ref' \in [Bufs -> Int]
  /\ op' \in [Procs -> (Calls \cup {Idle})']
  /\ vma' \in [Vmas -> (Mappings \cup {Unmapped})']
  /\ \A q \in Procs : op'[q].at \in {"alloc", "reply"} => op'[q] = op[q]
  /\ \A q, r \in Procs : op[r].at = "alloc" /\ q # r /\ op'[q].at \notin Dangling
                            => op'[q].buf # op[r].buf
  /\ \A v \in Vmas, r \in Procs : op[r].at = "alloc" => vma'[v].buf # op[r].buf

LEMMA MovesIInv ==
  ASSUME IInv, Moves, AllCounted'
  PROVE  IInv'
<1>1. ProbeInv' /\ FilesInv'
  BY ZenonT(60) DEF Moves, IInv, ProbeInv, FilesInv, FileInv
<1>2. Shape'
  BY Zenon DEF Moves, IInv, Shape, Handles
<1>3. ASSUME NEW q \in Procs PROVE CallInv(q)'
  <2>1. CallInv(q)
    BY Zenon DEF IInv, CallsInv
  <2>2. CASE op'[q].at = "alloc"
    <3>1. op'[q] = op[q] /\ op[q].at = "alloc" /\ list' = list
      BY <2>2, Zenon DEF Moves
    <3>2. \A f \in Files : op[q].buf \notin list[f]
      BY <2>1, <3>1, Zenon DEF CallInv, Alone
    <3>3. /\ \A v \in Vmas : vma'[v].buf # op[q].buf
          /\ \A r \in Procs \ {q} : op'[r].at \notin Dangling => op'[r].buf # op[q].buf
      BY <3>1, Zenon DEF Moves
    <3>4. Alone(q)'
      BY <3>1, <3>2, <3>3, Zenon DEF Alone
    <3> QED
      BY <2>2, <3>4, Zenon DEF CallInv
  <2>3. CASE op'[q].at = "reply"
    <3>1. op'[q] = op[q] /\ op[q].at = "reply" /\ list' = list /\ known' = known
      BY <2>3, Zenon DEF Moves
    <3>2. \A r \in Procs : op'[r].at = "reply" => op'[r] = op[r]
      BY Zenon DEF Moves
    <3> QED
      BY <2>1, <3>1, <3>2, Zenon DEF CallInv, Unnamed
  <2> QED
    BY <2>2, <2>3, Zenon DEF CallInv
<1> QED
  BY <1>1, <1>2, <1>3, Zenon DEF IInv, CallsInv

\* No buffer is being allocated by two calls, mapped or listed meanwhile.
LEMMA AllocAlone ==
  ASSUME IInv, NEW r \in Procs, op[r].at = "alloc"
  PROVE  /\ op[r].buf \in Bufs
         /\ \A f \in Files : op[r].buf \notin list[f]
         /\ \A v \in Vmas : vma[v].buf # op[r].buf
         /\ \A q \in Procs \ {r} : op[q].at \notin Dangling => op[q].buf # op[r].buf
<1>1. op[r].buf \in Bufs
  BY CallType, Zenon DEF IInv, Steps
<1> QED
  BY <1>1, Zenon DEF IInv, CallsInv, CallInv, Alone

LEMMA PutIInv ==
  ASSUME IInv, NEW p \in Procs, Put(p)
  PROVE  IInv'
<1> DEFINE b == op[p].buf
<1>a. Shape /\ AllCounted
  BY Zenon DEF IInv
<1>b. op[p].at = "put" /\ "put" \in Steps
  BY Zenon DEF Put, Steps
<1>c. b \in Bufs
  BY <1>a, <1>b, CallType, Zenon
<1>d. /\ ref' = [ref EXCEPT ![b] = ref[b] - 1]
      /\ op' = [op EXCEPT ![p] = Idle]
      /\ UNCHANGED <<phase, held, opened, list, next, handle, vma, known>>
  BY Zenon DEF Put, device
<1>e. /\ op' \in [Procs -> (Calls \cup {Idle})'] /\ op'[p] = Idle
      /\ \A q \in Procs \ {p} : op'[q] = op[q]
  BY <1>a, <1>d, CallSet, Zenon
<1>f. Idle.at = "idle" /\ Idle.buf \notin Bufs
  BY ConstantsAssumption, Zenon DEF Idle
<1> HIDE DEF b
<1>g. ref' \in [Bufs -> Int] /\ ref'[b] = ref[b] - 1 /\ \A d \in Bufs \ {b} : ref'[d] = ref[d]
  BY <1>a, <1>c, <1>d DEF Shape
<1>1. Moves
  <2>1. vma' \in [Vmas -> (Mappings \cup {Unmapped})']
    BY <1>a, <1>d, Zenon DEF Shape, Mappings, Unmapped
  <2>2. \A q \in Procs : op'[q].at \in {"alloc", "reply"} => op'[q] = op[q]
    BY <1>e, <1>f, Zenon
  <2>3. ASSUME NEW q \in Procs, NEW r \in Procs, op[r].at = "alloc", q # r,
               op'[q].at \notin Dangling
        PROVE  op'[q].buf # op[r].buf
    BY SMTT(60), <2>3, <1>e, <1>f, AllocAlone
  <2>4. \A v \in Vmas, r \in Procs : op[r].at = "alloc" => vma'[v].buf # op[r].buf
    BY <1>d, AllocAlone, Zenon
  <2> QED
    BY <1>d, <1>e, <1>g, <2>1, <2>2, <2>3, <2>4, Zenon DEF Moves
<1>2. ASSUME NEW d \in Bufs PROVE Counted(d)'
  <2>1. Counted(d) /\ ref[d] \in Int /\ Lists(d)' = Lists(d) /\ Maps(d)' = Maps(d)
    BY <1>a, <1>d, Zenon DEF AllCounted, Shape, Lists, Maps
  <2>2. CASE d = b
    <3>1. p \in Callers(d)
      BY <2>2, <1>b, Zenon DEF Callers, b
    <3>2. Callers(d)' = Callers(d) \ {p}
      BY <1>e, <1>f, Zenon DEF Callers
    <3>3. Cardinality(Callers(d) \ {p}) = Cardinality(Callers(d)) - 1
      BY <3>1, Finite, FS_RemoveElement, Zenon
    <3> QED
      BY SMTT(60), <2>1, <2>2, <3>2, <3>3, <1>g, Finite DEF Counted
  <2>3. CASE d # b
    <3>1. Callers(d)' = Callers(d)
      BY <2>3, <1>e, <1>f, Zenon DEF Callers, b
    <3> QED
      BY <2>1, <2>3, <3>1, <1>g, Zenon DEF Counted
  <2> QED
    BY <2>2, <2>3, Zenon
<1> QED
  BY <1>1, <1>2, MovesIInv, Zenon DEF AllCounted

LEMMA MmapLookupIInv ==
  ASSUME IInv, NEW p \in Procs, NEW f \in Files, NEW h \in Handles, MmapLookup(p, f, h)
  PROVE  IInv'
<1>a. Shape /\ AllCounted
  BY Zenon DEF IInv
<1>b. op[p] = Idle /\ f \in opened
  BY Zenon DEF MmapLookup
<1>d. PICK b \in Find(f, h) :
        /\ ref' = [ref EXCEPT ![b] = ref[b] + 1]
        /\ op' = [op EXCEPT ![p] = [at |-> "map", file |-> f, buf |-> b]]
  BY Zenon DEF MmapLookup, MmapGet
<1>e. b \in list[f] /\ b \in Bufs
  BY <1>a, <1>d, Zenon DEF Find, Shape
<1> DEFINE c == [at |-> "map", file |-> f, buf |-> b]
<1>f. c \in Calls /\ c.at = "map" /\ c.buf = b /\ op' = [op EXCEPT ![p] = c]
  BY <1>b, <1>d, <1>e, NewCall, Zenon DEF Steps
<1> HIDE DEF c
<1>g. UNCHANGED <<phase, held, opened, list, next, handle, vma, known>>
  BY Zenon DEF MmapLookup, device
<1>h. /\ op' \in [Procs -> (Calls \cup {Idle})']
      /\ op'[p].at = "map" /\ op'[p].buf = b
      /\ \A q \in Procs \ {p} : op'[q] = op[q]
  BY <1>a, <1>f, <1>g, CallSet, Zenon
<1>i. ref' \in [Bufs -> Int] /\ ref'[b] = ref[b] + 1 /\ \A d \in Bufs \ {b} : ref'[d] = ref[d]
  BY <1>a, <1>d, <1>e DEF Shape
<1>j. op[p].at = "idle" /\ op[p].buf \notin Bufs
  BY <1>a, <1>b, CallType, Zenon
<1>1. Moves
  <2>1. vma' \in [Vmas -> (Mappings \cup {Unmapped})']
    BY <1>a, <1>g, Zenon DEF Shape, Mappings, Unmapped
  <2>2. \A q \in Procs : op'[q].at \in {"alloc", "reply"} => op'[q] = op[q]
    BY <1>h, Zenon
  <2>3. \A q, r \in Procs : op[r].at = "alloc" /\ q # r /\ op'[q].at \notin Dangling
                               => op'[q].buf # op[r].buf
    BY <1>e, <1>h, AllocAlone, Zenon
  <2>4. \A v \in Vmas, r \in Procs : op[r].at = "alloc" => vma'[v].buf # op[r].buf
    BY <1>g, AllocAlone, Zenon
  <2> QED
    BY <1>g, <1>h, <1>i, <2>1, <2>2, <2>3, <2>4, Zenon DEF Moves
<1>2. ASSUME NEW d \in Bufs PROVE Counted(d)'
  <2>1. Counted(d) /\ ref[d] \in Int /\ Lists(d)' = Lists(d) /\ Maps(d)' = Maps(d)
    BY <1>a, <1>g, Zenon DEF AllCounted, Shape, Lists, Maps
  <2>2. CASE d = b
    <3>1. p \notin Callers(d)
      BY <1>j, Zenon DEF Callers
    <3>2. Callers(d)' = Callers(d) \cup {p}
      BY <2>2, <1>h, Zenon DEF Callers
    <3>3. Cardinality(Callers(d) \cup {p}) = Cardinality(Callers(d)) + 1
      BY <3>1, Finite, FS_AddElement, Zenon
    <3> QED
      BY SMTT(60), <2>1, <2>2, <3>2, <3>3, <1>i, Finite DEF Counted
  <2>3. CASE d # b
    <3>1. Callers(d)' = Callers(d)
      BY <2>3, <1>h, <1>j, Zenon DEF Callers
    <3> QED
      BY <2>1, <2>3, <3>1, <1>i, Zenon DEF Counted
  <2> QED
    BY <2>2, <2>3, Zenon
<1> QED
  BY <1>1, <1>2, MovesIInv, Zenon DEF AllCounted

LEMMA MmapOkIInv ==
  ASSUME IInv, NEW p \in Procs, NEW v \in Vmas, MmapOk(p, v)
  PROVE  IInv'
<1> DEFINE b == op[p].buf
           m == [file |-> op[p].file, buf |-> b]
<1>a. Shape /\ AllCounted
  BY Zenon DEF IInv
<1>b. op[p].at = "map" /\ "map" \in Steps /\ vma[v] = Unmapped
  BY Zenon DEF MmapOk, Steps
<1>c. b \in Bufs /\ op[p].file \in opened
  BY <1>a, <1>b, CallType, Zenon
<1>d. /\ vma' = [vma EXCEPT ![v] = m]
      /\ op' = [op EXCEPT ![p] = Idle]
      /\ UNCHANGED <<phase, held, opened, list, next, ref, handle, known>>
  BY Zenon DEF MmapOk, device
<1>e. /\ op' \in [Procs -> (Calls \cup {Idle})'] /\ op'[p] = Idle
      /\ \A q \in Procs \ {p} : op'[q] = op[q]
  BY <1>a, <1>d, CallSet, Zenon
<1>f. Idle.at = "idle" /\ Idle.buf \notin Bufs
  BY ConstantsAssumption, Zenon DEF Idle
<1>g. m \in Mappings /\ m.buf = b
  BY <1>c, Zenon DEF Mappings
<1> HIDE DEF m
<1>h. /\ vma' \in [Vmas -> (Mappings \cup {Unmapped})'] /\ vma'[v] = m
      /\ \A w \in Vmas \ {v} : vma'[w] = vma[w]
  <2>1. (Mappings \cup {Unmapped})' = Mappings \cup {Unmapped}
    BY <1>d, Zenon DEF Mappings, Unmapped
  <2>2. vma \in [Vmas -> Mappings \cup {Unmapped}]
    BY <1>a, Zenon DEF Shape
  <2> QED
    BY <2>1, <2>2, <1>d, <1>g, Zenon
<1>i. vma[v].buf \notin Bufs
  BY <1>a, <1>b, MapType, Zenon
<1> HIDE DEF b
<1>1. Moves
  <2>1. ref' \in [Bufs -> Int]
    BY <1>a, <1>d, Zenon DEF Shape
  <2>2. \A q \in Procs : op'[q].at \in {"alloc", "reply"} => op'[q] = op[q]
    BY <1>e, <1>f, Zenon
  <2>3. ASSUME NEW q \in Procs, NEW r \in Procs, op[r].at = "alloc", q # r,
               op'[q].at \notin Dangling
        PROVE  op'[q].buf # op[r].buf
    BY SMTT(60), <2>3, <1>e, <1>f, AllocAlone
  <2>4. ASSUME NEW w \in Vmas, NEW r \in Procs, op[r].at = "alloc"
        PROVE  vma'[w].buf # op[r].buf
    <3>1. r # p
      BY <2>4, <1>b, Zenon
    <3>2. op[r].buf # b /\ vma[w].buf # op[r].buf
      BY <2>4, <3>1, <1>b, AllocAlone, Zenon DEF b, Dangling
    <3> QED
      BY <3>2, <1>g, <1>h, Zenon
  <2> QED
    BY <1>d, <1>e, <1>h, <2>1, <2>2, <2>3, <2>4, ZenonT(60) DEF Moves
<1>2. ASSUME NEW d \in Bufs PROVE Counted(d)'
  <2>1. Counted(d) /\ ref[d] \in Int /\ ref' = ref /\ Lists(d)' = Lists(d)
    BY <1>a, <1>d, Zenon DEF AllCounted, Shape, Lists
  <2>2. CASE d = b
    <3>1. p \in Callers(d)
      BY <2>2, <1>b, Zenon DEF Callers, b
    <3>2. Callers(d)' = Callers(d) \ {p}
      BY <1>e, <1>f, Zenon DEF Callers
    <3>3. Cardinality(Callers(d) \ {p}) = Cardinality(Callers(d)) - 1
      BY <3>1, Finite, FS_RemoveElement, Zenon
    <3>4. v \notin Maps(d)
      BY <1>i, Zenon DEF Maps
    <3>5. Maps(d)' = Maps(d) \cup {v}
      BY <2>2, <1>g, <1>h, Zenon DEF Maps
    <3>6. Cardinality(Maps(d) \cup {v}) = Cardinality(Maps(d)) + 1
      BY <3>4, Finite, FS_AddElement, Zenon
    <3> QED
      BY SMTT(60), <2>1, <3>2, <3>3, <3>5, <3>6, Finite DEF Counted
  <2>3. CASE d # b
    <3>1. Callers(d)' = Callers(d)
      BY <2>3, <1>e, <1>f, Zenon DEF Callers, b
    <3>2. Maps(d)' = Maps(d)
      BY <2>3, <1>g, <1>h, <1>i, Zenon DEF Maps
    <3> QED
      BY <2>1, <3>1, <3>2, Zenon DEF Counted
  <2> QED
    BY <2>2, <2>3, Zenon
<1> QED
  BY <1>1, <1>2, MovesIInv, Zenon DEF AllCounted

LEMMA MmapFailsIInv ==
  ASSUME IInv, NEW p \in Procs, MmapFails(p)
  PROVE  IInv'
<1>a. Shape /\ AllCounted
  BY Zenon DEF IInv
<1>b. op[p].at = "map" /\ "map" \in Steps /\ "put" \in Steps
  BY Zenon DEF MmapFails, Steps
<1>d. /\ op' = [op EXCEPT ![p].at = "put"]
      /\ UNCHANGED <<phase, held, opened, list, next, ref, handle, vma, known>>
  BY Zenon DEF MmapFails, device
<1>e. /\ op' \in [Procs -> (Calls \cup {Idle})']
      /\ op'[p].at = "put" /\ op'[p].buf = op[p].buf
      /\ \A q \in Procs \ {p} : op'[q] = op[q]
  BY <1>a, <1>b, <1>d, CallMoves, Zenon
<1>1. Moves
  <2>1. ref' \in [Bufs -> Int] /\ vma' \in [Vmas -> (Mappings \cup {Unmapped})']
    BY <1>a, <1>d, Zenon DEF Shape, Mappings, Unmapped
  <2>2. \A q \in Procs : op'[q].at \in {"alloc", "reply"} => op'[q] = op[q]
    BY <1>e, Zenon
  <2>3. ASSUME NEW q \in Procs, NEW r \in Procs, op[r].at = "alloc", q # r,
               op'[q].at \notin Dangling
        PROVE  op'[q].buf # op[r].buf
    <3>1. op[q].at \notin Dangling
      BY <2>3, <1>b, <1>e, Zenon DEF Dangling
    <3>2. op[q].buf # op[r].buf
      BY <2>3, <3>1, AllocAlone, Zenon
    <3> QED
      BY <3>2, <1>e, Zenon
  <2>4. \A v \in Vmas, r \in Procs : op[r].at = "alloc" => vma'[v].buf # op[r].buf
    BY <1>d, AllocAlone, Zenon
  <2> QED
    BY <1>d, <1>e, <2>1, <2>2, <2>3, <2>4, ZenonT(60) DEF Moves
<1>2. ASSUME NEW d \in Bufs PROVE Counted(d)'
  <2>1. Counted(d) /\ ref' = ref /\ Lists(d)' = Lists(d) /\ Maps(d)' = Maps(d)
    BY <1>a, <1>d, Zenon DEF AllCounted, Lists, Maps
  <2>2. Callers(d)' = Callers(d)
    BY <1>b, <1>e, Zenon DEF Callers
  <2> QED
    BY <2>1, <2>2, Zenon DEF Counted
<1> QED
  BY <1>1, <1>2, MovesIInv, Zenon DEF AllCounted

\* A DMA_ALLOC whose buffer was freed under it returns, or dies in list_del.
LEMMA StaleIInv ==
  ASSUME IInv, NEW p \in Procs, NEW c, c = Idle \/ c = [op[p] EXCEPT !.at = "dead"],
         op[p].at = "stale", op' = [op EXCEPT ![p] = c],
         UNCHANGED <<phase, held, opened, list, next, ref, handle, vma, known>>
  PROVE  IInv'
<1>a. Shape /\ AllCounted
  BY Zenon DEF IInv
<1>b. op[p] \in Calls
  BY <1>a, CallType, Zenon DEF Steps
<1>c. [op[p] EXCEPT !.at = "dead"] \in Calls /\ [op[p] EXCEPT !.at = "dead"].at = "dead"
  BY <1>b DEF Calls, Steps
<1>d. Idle.at = "idle" /\ Idle.buf \notin Bufs
  BY ConstantsAssumption, Zenon DEF Idle
<1>e. c \in Calls \cup {Idle} /\ c.at \in {"idle", "dead"} /\ (c.at = "idle" => c.buf \notin Bufs)
  BY <1>c, <1>d, Zenon
<1>f. /\ op' \in [Procs -> (Calls \cup {Idle})'] /\ op'[p] = c
      /\ \A q \in Procs \ {p} : op'[q] = op[q]
  BY <1>a, <1>e, CallSet, Zenon
<1>1. Moves
  <2>1. ref' \in [Bufs -> Int] /\ vma' \in [Vmas -> (Mappings \cup {Unmapped})']
    BY <1>a, Zenon DEF Shape, Mappings, Unmapped
  <2>2. \A q \in Procs : op'[q].at \in {"alloc", "reply"} => op'[q] = op[q]
    BY <1>e, <1>f, Zenon
  <2>3. ASSUME NEW q \in Procs, NEW r \in Procs, op[r].at = "alloc", q # r,
               op'[q].at \notin Dangling
        PROVE  op'[q].buf # op[r].buf
    <3>1. CASE q = p
      BY <2>3, <3>1, <1>e, <1>f, AllocAlone, Zenon DEF Dangling
    <3>2. CASE q # p
      BY <2>3, <3>2, <1>f, AllocAlone, Zenon
    <3> QED
      BY <3>1, <3>2, Zenon
  <2>4. \A v \in Vmas, r \in Procs : op[r].at = "alloc" => vma'[v].buf # op[r].buf
    BY AllocAlone, Zenon
  <2> QED
    BY <1>f, <2>1, <2>2, <2>3, <2>4, ZenonT(60) DEF Moves
<1>2. ASSUME NEW d \in Bufs PROVE Counted(d)'
  <2>1. Counted(d) /\ ref' = ref /\ Lists(d)' = Lists(d) /\ Maps(d)' = Maps(d)
    BY <1>a, Zenon DEF AllCounted, Lists, Maps
  <2>2. Callers(d)' = Callers(d)
    BY <1>e, <1>f, Zenon DEF Callers
  <2> QED
    BY <2>1, <2>2, Zenon DEF Counted
<1> QED
  BY <1>1, <1>2, MovesIInv, Zenon DEF AllCounted

\* A mapping copied or dropped takes or returns one reference.
LEMMA VmaMoves ==
  ASSUME IInv, NEW w \in Vmas, NEW m, m \in Mappings \/ m = Unmapped,
         \A r \in Procs : op[r].at = "alloc" => m.buf # op[r].buf,
         vma' = [vma EXCEPT ![w] = m], ref' \in [Bufs -> Int],
         UNCHANGED <<phase, held, opened, list, next, handle, op, known>>
  PROVE  /\ Moves
         /\ vma'[w] = m /\ \A v \in Vmas \ {w} : vma'[v] = vma[v]
         /\ \A d \in Bufs : Lists(d)' = Lists(d) /\ Callers(d)' = Callers(d)
<1>1. vma \in [Vmas -> Mappings \cup {Unmapped}]
  BY Zenon DEF IInv, Shape
<1>2. /\ (Mappings \cup {Unmapped})' = Mappings \cup {Unmapped}
      /\ (Calls \cup {Idle})' = Calls \cup {Idle}
  BY Zenon DEF Mappings, Unmapped, Calls, Idle
<1>3. vma' \in [Vmas -> (Mappings \cup {Unmapped})']
  BY <1>1, <1>2, Zenon
<1>4. vma'[w] = m /\ \A v \in Vmas \ {w} : vma'[v] = vma[v]
  BY <1>1, Zenon
<1>5. op' \in [Procs -> (Calls \cup {Idle})']
  BY <1>2, Zenon DEF IInv, Shape
<1>6. \A q, r \in Procs : op[r].at = "alloc" /\ q # r /\ op'[q].at \notin Dangling
                             => op'[q].buf # op[r].buf
  BY AllocAlone, Zenon
<1>7. ASSUME NEW v \in Vmas, NEW r \in Procs, op[r].at = "alloc"
      PROVE  vma'[v].buf # op[r].buf
  BY <1>4, <1>7, AllocAlone, ZenonT(60)
<1>8. Moves
  BY <1>3, <1>5, <1>6, <1>7, Zenon DEF Moves
<1>9. \A d \in Bufs : Lists(d)' = Lists(d) /\ Callers(d)' = Callers(d)
  BY Zenon DEF Lists, Callers
<1> QED
  BY <1>4, <1>8, <1>9, Zenon

LEMMA VmaOpenIInv ==
  ASSUME IInv, NEW v \in Vmas, NEW w \in Vmas, VmaOpen(v, w)
  PROVE  IInv'
<1> DEFINE m == vma[v]
           b == vma[v].buf
<1>a. Shape /\ AllCounted
  BY Zenon DEF IInv
<1>b. m \in Mappings /\ m.buf = b /\ b \in Bufs /\ vma[w] = Unmapped /\ vma[w].buf \notin Bufs
  BY <1>a, MapType, Zenon DEF VmaOpen
<1>c. /\ vma' = [vma EXCEPT ![w] = m]
      /\ ref' = [ref EXCEPT ![b] = ref[b] + 1]
      /\ UNCHANGED <<phase, held, opened, list, next, handle, op, known>>
  BY Zenon DEF VmaOpen, device
<1>d. \A r \in Procs : op[r].at = "alloc" => m.buf # op[r].buf
  BY AllocAlone, Zenon
<1> HIDE DEF m, b
<1>e. ref' \in [Bufs -> Int] /\ ref'[b] = ref[b] + 1 /\ \A d \in Bufs \ {b} : ref'[d] = ref[d]
  BY <1>a, <1>b, <1>c DEF Shape
<1>f. /\ Moves
      /\ vma'[w] = m /\ \A u \in Vmas \ {w} : vma'[u] = vma[u]
      /\ \A d \in Bufs : Lists(d)' = Lists(d) /\ Callers(d)' = Callers(d)
  BY <1>b, <1>c, <1>d, <1>e, VmaMoves, ZenonT(60)
<1>g. /\ vma'[w].buf = b /\ vma[w].buf \notin Bufs
      /\ \A u \in Vmas \ {w} : vma'[u].buf = vma[u].buf
  BY <1>b, <1>f, Zenon
<1>1. ASSUME NEW d \in Bufs PROVE Counted(d)'
  <2>1. Counted(d) /\ ref[d] \in Int
    BY <1>a, Zenon DEF AllCounted, Shape
  <2>2. CASE d = b
    <3>1. w \notin Maps(d)
      BY <1>b, Zenon DEF Maps
    <3>2. Maps(d)' = Maps(d) \cup {w}
      BY <2>2, <1>g, Zenon DEF Maps
    <3>3. Cardinality(Maps(d) \cup {w}) = Cardinality(Maps(d)) + 1
      BY <3>1, Finite, FS_AddElement, Zenon
    <3> QED
      BY SMTT(60), <2>1, <2>2, <3>2, <3>3, <1>e, <1>f, Finite DEF Counted
  <2>3. CASE d # b
    <3>1. Maps(d)' = Maps(d)
      BY <2>3, <1>g, Zenon DEF Maps
    <3> QED
      BY <2>1, <2>3, <3>1, <1>e, <1>f, Zenon DEF Counted
  <2> QED
    BY <2>2, <2>3, Zenon
<1> QED
  BY <1>1, <1>f, MovesIInv, Zenon DEF AllCounted

LEMMA VmaCloseIInv ==
  ASSUME IInv, NEW v \in Vmas, VmaClose(v)
  PROVE  IInv'
<1> DEFINE b == vma[v].buf
<1>a. Shape /\ AllCounted
  BY Zenon DEF IInv
<1>b. b \in Bufs
  BY <1>a, MapType, Zenon DEF VmaClose
<1>c. /\ vma' = [vma EXCEPT ![v] = Unmapped]
      /\ ref' = [ref EXCEPT ![b] = ref[b] - 1]
      /\ UNCHANGED <<phase, held, opened, list, next, handle, op, known>>
  BY Zenon DEF VmaClose, device
<1>d. Unmapped.buf \notin Bufs
  BY ConstantsAssumption, Zenon DEF Unmapped
<1>e. \A r \in Procs : op[r].at = "alloc" => Unmapped.buf # op[r].buf
  BY <1>d, AllocAlone, Zenon
<1>f. ref' \in [Bufs -> Int] /\ ref'[b] = ref[b] - 1 /\ \A d \in Bufs \ {b} : ref'[d] = ref[d]
  BY <1>a, <1>b, <1>c DEF Shape
<1>g. /\ Moves
      /\ vma'[v] = Unmapped /\ \A u \in Vmas \ {v} : vma'[u] = vma[u]
      /\ \A d \in Bufs : Lists(d)' = Lists(d) /\ Callers(d)' = Callers(d)
  BY <1>c, <1>e, <1>f, VmaMoves, Zenon
<1>1. ASSUME NEW d \in Bufs PROVE Counted(d)'
  <2>1. Counted(d) /\ ref[d] \in Int
    BY <1>a, Zenon DEF AllCounted, Shape
  <2>2. CASE d = b
    <3>1. v \in Maps(d)
      BY <2>2, Zenon DEF Maps
    <3>2. Maps(d)' = Maps(d) \ {v}
      BY <1>d, <1>g, Zenon DEF Maps
    <3>3. Cardinality(Maps(d) \ {v}) = Cardinality(Maps(d)) - 1
      BY <3>1, Finite, FS_RemoveElement, Zenon
    <3> QED
      BY SMTT(60), <2>1, <2>2, <3>2, <3>3, <1>f, <1>g, Finite DEF Counted
  <2>3. CASE d # b
    <3>1. Maps(d)' = Maps(d)
      BY <2>3, <1>d, <1>g, Zenon DEF Maps
    <3> QED
      BY <2>1, <2>3, <3>1, <1>f, <1>g, Zenon DEF Counted
  <2> QED
    BY <2>2, <2>3, Zenon
<1> QED
  BY <1>1, <1>g, MovesIInv, Zenon DEF AllCounted

-----------------------------------------------------------------------------
LEMMA InitIInv == Init => IInv
<1> SUFFICES ASSUME Init PROVE IInv
  BY Zenon
<1>1. Shape
  <2>1. 1 \in 1 .. MaxHandle + 1 /\ 0 \in Handles /\ 0 \in Int
    BY ConstantsAssumption DEF Handles
  <2> QED
    BY <2>1, Zenon DEF Init, Shape
<1>2. ProbeInv
  BY Zenon DEF Init, ProbeInv
<1>3. FilesInv
  BY Zenon DEF Init, FilesInv, FileInv
<1>4. CallsInv
  BY Zenon DEF Init, CallsInv, CallInv, Idle
<1>5. ASSUME NEW b \in Bufs PROVE Counted(b)
  <2>1. Lists(b) = {} /\ ref[b] = 0
    BY Zenon DEF Init, Lists
  <2>2. Idle.buf \notin Bufs /\ Unmapped.buf \notin Bufs
    BY ConstantsAssumption, Zenon DEF Idle, Unmapped
  <2>3. Maps(b) = {} /\ Callers(b) = {}
    BY <2>2, Zenon DEF Init, Maps, Callers
  <2> QED
    BY SMTT(60), <2>1, <2>3, FS_EmptySet DEF Counted
<1> QED
  BY <1>1, <1>2, <1>3, <1>4, <1>5, Zenon DEF IInv, AllCounted

\* The counts are in the range of the type invariant: one list holds a buffer
\* at most, each mapping and each call at most once.
LEMMA InRange ==
  ASSUME IInv, NEW b \in Bufs
  PROVE  ref[b] \in 0 .. Cardinality(Procs) + Cardinality(Vmas) + 1
<1>1. Cardinality(Maps(b)) <= Cardinality(Vmas) /\ Cardinality(Callers(b)) <= Cardinality(Procs)
  <2>1. Maps(b) \in SUBSET Vmas /\ Callers(b) \in SUBSET Procs
    BY Zenon DEF Maps, Callers
  <2> QED
    BY <2>1, ConstantsAssumption, FS_Subset, Zenon
<1>2. Cardinality(Lists(b)) <= 1
  <2>1. CASE Lists(b) = {}
    BY <2>1, FS_EmptySet
  <2>2. CASE Lists(b) # {}
    <3>1. PICK f \in Lists(b) : TRUE
      BY <2>2, Zenon
    <3>2. Lists(b) = {f}
      <4>1. \A g, h \in Files : b \in list[g] /\ b \in list[h] => g = h
        BY Zenon DEF IInv, FilesInv, FileInv
      <4> QED
        BY <3>1, <4>1, Zenon DEF Lists
    <3> QED
      BY <3>2, FS_Singleton
  <2> QED
    BY <2>1, <2>2, Zenon
<1>3. Cardinality(Vmas) \in Nat /\ Cardinality(Procs) \in Nat
  BY ConstantsAssumption, FS_CardinalityType, Zenon
<1>4. Counted(b)
  BY Zenon DEF IInv, AllCounted
<1> QED
  BY SMTT(60), <1>1, <1>2, <1>3, <1>4, Finite DEF Counted

\* The range of the state follows from the invariant.
LEMMA Ranges == IInv /\ early \in BOOLEAN /\ stray \in BOOLEAN => TypeOK
<1> SUFFICES ASSUME IInv, early \in BOOLEAN, stray \in BOOLEAN PROVE TypeOK
  BY Zenon
<1>1. Shape /\ ProbeInv
  BY Zenon DEF IInv
<1>2. ref \in [Bufs -> 0 .. Cardinality(Procs) + Cardinality(Vmas) + 1]
  BY <1>1, InRange, Zenon DEF Shape
<1>3. held \subseteq Resources
  BY <1>1, Zenon DEF Shape, ProbeInv, Resources
<1> QED
  BY <1>1, <1>2, <1>3, Zenon DEF TypeOK, Shape, Calls, Steps, Mappings

\* Every step but a stray list_del keeps the driver's invariant.
LEMMA StepIInv ==
  ASSUME IInv, Step
  PROVE  IInv' \/ \E p \in Procs : StaleFault(p)
<1>1. CASE Probe \/ ProbeFails \/ DisableDevice \/ Remove
  BY <1>1, ProbeIInv, Zenon
<1>2. CASE \E f \in Files : Open(f) \/ Close(f)
  BY <1>2, OpenIInv, CloseIInv, Zenon
<1>3. ASSUME NEW p \in Procs,
             \/ \E f \in Files, b \in Bufs : AllocBegin(p, f, b)
             \/ AllocInsert(p) \/ AllocReturn(p) \/ AllocFault(p)
      PROVE  IInv'
  BY <1>3, AllocBeginIInv, AllocInsertIInv, AllocReturnIInv, AllocFaultIInv, Zenon
<1>4. ASSUME NEW p \in Procs,
             \/ Put(p) \/ MmapFails(p)
             \/ \E f \in Files, h \in Handles : FreeLookup(p, f, h) \/ MmapLookup(p, f, h)
             \/ \E v \in Vmas : MmapOk(p, v)
      PROVE  IInv'
  BY <1>4, PutIInv, MmapFailsIInv, FreeIInv, MmapLookupIInv, MmapOkIInv, Zenon
<1>5. CASE \E v \in Vmas : VmaClose(v) \/ \E w \in Vmas : VmaOpen(v, w)
  BY <1>5, VmaCloseIInv, VmaOpenIInv, Zenon
<1>6. ASSUME NEW p \in Procs, StaleReturn(p) PROVE IInv'
  <2>1. /\ op[p].at = "stale" /\ op' = [op EXCEPT ![p] = Idle]
        /\ UNCHANGED <<phase, held, opened, list, next, ref, handle, vma, known>>
    BY <1>6, Zenon DEF StaleReturn, device
  <2> QED
    BY <2>1, StaleIInv, Zenon
<1> QED
  BY <1>1, <1>2, <1>3, <1>4, <1>5, <1>6, ZenonT(60) DEF Step

\* A step leaves the histories alone, and no call without its buffer, but for
\* the DMA_FREE of a handle that was not returned.
LEMMA StepEarly ==
  ASSUME IInv, Step, early \in BOOLEAN
  PROVE  /\ early' \in BOOLEAN /\ (early => early')
         /\ \A q \in Procs : op'[q].at = "stale" => op[q].at = "stale" \/ early'
         /\ stray' = stray \/ \E p \in Procs : StaleFault(p)
<1> DEFINE Kept == \A q \in Procs : op'[q].at = "stale" => op[q].at = "stale"
<1>a. Shape /\ op \in [Procs -> Calls \cup {Idle}] /\ Idle.at = "idle"
  BY Zenon DEF IInv, Shape, Idle
<1>b. ASSUME NEW p \in Procs, NEW c, op' = [op EXCEPT ![p] = c], c.at # "stale"
      PROVE  Kept
  BY <1>a, <1>b, Zenon
<1>c. ASSUME NEW p \in Procs, NEW a, op' = [op EXCEPT ![p].at = a], a # "stale",
             op[p].at \in Steps
      PROVE  Kept
  <2>1. op[p] \in Calls
    BY <1>a, <1>c, CallType, Zenon
  <2>2. [op[p] EXCEPT !.at = a].at = a
    BY <2>1 DEF Calls
  <2>3. op' = [op EXCEPT ![p] = [op[p] EXCEPT !.at = a]]
    BY <1>c, Zenon
  <2> QED
    BY <2>2, <2>3, <1>b, <1>c, Zenon
<1> HIDE DEF Kept
<1>1. CASE Probe \/ ProbeFails \/ DisableDevice \/ Remove
  <2>1. op' = op /\ early' = early /\ stray' = stray
    BY <1>1, Zenon DEF Probe, ProbeStep, ProbeFails, DisableDevice, Remove, history
  <2> QED
    BY <2>1, Zenon
<1>2. CASE \E f \in Files : Open(f) \/ Close(f)
  <2>1. op' = op /\ early' = early /\ stray' = stray
    BY <1>2, Zenon DEF Open, Close, history
  <2> QED
    BY <2>1, Zenon
<1>3. ASSUME NEW p \in Procs,
             \/ \E f \in Files, b \in Bufs : AllocBegin(p, f, b)
             \/ \E f \in Files, h \in Handles : MmapLookup(p, f, h)
      PROVE  Kept /\ early' = early /\ stray' = stray
  <2>1. early' = early /\ stray' = stray
    BY <1>3, Zenon DEF AllocBegin, MmapLookup, history
  <2>2. \/ \E f, b : op' = [op EXCEPT ![p] = [at |-> "alloc", file |-> f, buf |-> b]]
        \/ \E f, b : op' = [op EXCEPT ![p] = [at |-> "map", file |-> f, buf |-> b]]
    BY <1>3, Zenon DEF AllocBegin, MmapLookup
  <2>3. ASSUME NEW a \in {"alloc", "map"}, NEW f, NEW b,
               op' = [op EXCEPT ![p] = [at |-> a, file |-> f, buf |-> b]]
        PROVE  Kept
    <3>1. [at |-> a, file |-> f, buf |-> b].at # "stale"
      BY <2>3
    <3> DEFINE c == [at |-> a, file |-> f, buf |-> b]
    <3>2. op' = [op EXCEPT ![p] = c] /\ c.at # "stale"
      BY <2>3, <3>1, Zenon
    <3> HIDE DEF c
    <3> QED
      BY <3>2, <1>b, Zenon
  <2> QED
    BY <2>1, <2>2, <2>3, Zenon
<1>4. ASSUME NEW p \in Procs,
             \/ AllocReturn(p) \/ Put(p) \/ StaleReturn(p) \/ \E v \in Vmas : MmapOk(p, v)
      PROVE  Kept /\ early' = early /\ stray' = stray
  <2>1. op' = [op EXCEPT ![p] = Idle] /\ early' = early /\ stray' = stray
    BY <1>4, Zenon DEF AllocReturn, Put, StaleReturn, MmapOk, history
  <2> QED
    BY <2>1, <1>a, <1>b, Zenon
<1>5. ASSUME NEW p \in Procs, AllocInsert(p) \/ AllocFault(p) \/ MmapFails(p)
      PROVE  Kept /\ early' = early /\ stray' = stray
  <2>1. early' = early /\ stray' = stray /\ op[p].at \in Steps
    BY <1>5, Zenon DEF AllocInsert, AllocFault, MmapFails, history, Steps
  <2>2. op' = [op EXCEPT ![p].at = "reply"] \/ op' = [op EXCEPT ![p].at = "put"]
    BY <1>5, Zenon DEF AllocInsert, AllocFault, MmapFails
  <2> QED
    BY <2>1, <2>2, <1>c, Zenon
<1>6. ASSUME NEW p \in Procs, StaleFault(p)
      PROVE  Kept /\ early' = early
  <2>1. op[p].at \in Steps /\ early' = early
    BY <1>6, Zenon DEF StaleFault, Steps
  <2>2. op' = [op EXCEPT ![p].at = "dead"] \/ op' = [op EXCEPT ![p].at = "put"]
    BY <1>6, Zenon DEF StaleFault
  <2> QED
    BY <2>1, <2>2, <1>c, Zenon
<1>7. ASSUME NEW p \in Procs, NEW f \in Files, NEW h \in Handles, FreeLookup(p, f, h)
      PROVE  /\ early' \in BOOLEAN /\ (early => early') /\ stray' = stray
             /\ \A q \in Procs : op'[q].at = "stale" => op[q].at = "stale" \/ early'
  <2>1. early' \in BOOLEAN /\ (early => early') /\ stray' = stray
    BY <1>7, Zenon DEF FreeLookup
  <2> QED
    BY <2>1, <1>7, FreeIInv, Zenon
<1>8. CASE \E v \in Vmas : VmaClose(v) \/ \E w \in Vmas : VmaOpen(v, w)
  <2>1. op' = op /\ early' = early /\ stray' = stray
    BY <1>8, Zenon DEF VmaClose, VmaOpen, history
  <2> QED
    BY <2>1, Zenon
<1> QED
  BY <1>1, <1>2, <1>3, <1>4, <1>5, <1>6, <1>7, <1>8, ZenonT(60) DEF Step, Kept

\* The undo of a buffer freed under it kills the call, or strays.
LEMMA StaleFaultInv ==
  ASSUME IInv, TypeOK, NEW p \in Procs, StaleFault(p), early, stray = FALSE
  PROVE  Inv'
<1>a. /\ op[p].at = "stale" /\ "stale" \in Steps /\ "put" \in Steps /\ early' = early
      /\ UNCHANGED <<phase, held, opened, next, ref, handle, vma, known>>
  BY Zenon DEF StaleFault, Steps, device
<1>b. Shape /\ ProbeInv /\ EarlyInv' /\ early' \in BOOLEAN
  BY <1>a, Zenon DEF IInv, EarlyInv, TypeOK
<1>c. ProbeInv'
  BY <1>a, <1>b, Zenon DEF ProbeInv
<1>1. CASE op' = [op EXCEPT ![p].at = "dead"] /\ UNCHANGED <<list, stray>>
  <2>1. op' = [op EXCEPT ![p] = [op[p] EXCEPT !.at = "dead"]]
    BY <1>1, Zenon
  <2>2. IInv'
    BY <2>1, <1>1, <1>a, StaleIInv, Zenon
  <2>3. TypeOK'
    <3>1. early' \in BOOLEAN /\ stray' \in BOOLEAN
      BY <1>1, <1>b, Zenon
    <3>2. (IInv /\ early \in BOOLEAN /\ stray \in BOOLEAN)' => TypeOK'
      BY Ranges, PTL
    <3> QED
      BY <3>1, <3>2, <2>2, Zenon
  <2> QED
    BY <2>2, <2>3, <1>b, <1>c, Zenon DEF Inv
<1>2. CASE /\ list' = [f \in Files |-> list[f] \ {op[p].buf}]
           /\ op' = [op EXCEPT ![p].at = "put"]
           /\ stray' = TRUE
  <2>1. op' \in [Procs -> (Calls \cup {Idle})']
    BY <1>2, <1>a, <1>b, CallMoves, Zenon
  <2>2. list' \in [Files -> SUBSET Bufs]
    BY <1>2, <1>b, Zenon DEF Shape
  <2>3. TypeOK'
    BY <2>1, <2>2, <1>2, <1>a, <1>b, Zenon DEF TypeOK, Calls, Steps, Handles, Idle, Unmapped,
       Resources
  <2> QED
    BY <2>3, <1>2, <1>b, <1>c, Zenon DEF Inv
<1> QED
  BY <1>1, <1>2, Zenon DEF StaleFault

LEMMA NextInv == Inv /\ [Next]_vars => Inv'
<1> SUFFICES ASSUME Inv, [Next]_vars PROVE Inv'
  BY Zenon
<1>1. CASE ~stray /\ Step
  <2>1. IInv /\ TypeOK /\ EarlyInv /\ early \in BOOLEAN /\ stray = FALSE
    BY <1>1, Zenon DEF Inv, TypeOK
  <2>2. ASSUME NEW p \in Procs, StaleFault(p) PROVE Inv'
    <3>1. early
      BY <2>1, <2>2, Zenon DEF EarlyInv, StaleFault
    <3> QED
      BY <2>1, <2>2, <3>1, StaleFaultInv, Zenon
  <2>3. CASE ~ \E p \in Procs : StaleFault(p)
    <3>1. IInv' /\ stray' = FALSE
      BY <2>1, <2>3, <1>1, StepIInv, StepEarly, ZenonT(60)
    <3>2. /\ early' \in BOOLEAN /\ (early => early')
          /\ \A q \in Procs : op'[q].at = "stale" => op[q].at = "stale" \/ early'
      BY <2>1, <1>1, StepEarly, Zenon
    <3>3. EarlyInv'
      BY <3>1, <3>2, <2>1, Zenon DEF EarlyInv
    <3>4. stray' \in BOOLEAN
      BY <3>1, Zenon
    <3>5. (IInv /\ early \in BOOLEAN /\ stray \in BOOLEAN)' => TypeOK'
      BY Ranges, PTL
    <3> QED
      BY <3>1, <3>2, <3>3, <3>4, <3>5, ZenonT(60) DEF Inv, IInv
  <2> QED
    BY <2>2, <2>3, Zenon
<1>2. CASE UNCHANGED vars
  <2>1. /\ UNCHANGED <<opened, list, next, ref, handle, vma, op, known>>
        /\ UNCHANGED <<phase, held, early, stray>>
    BY <1>2, Zenon DEF vars
  <2>2. TypeOK'
    BY <2>1, Zenon DEF Inv, TypeOK, Handles, Idle, Unmapped, Resources
  <2>3. ProbeInv' /\ EarlyInv'
    BY <2>1, Zenon DEF Inv, ProbeInv, EarlyInv
  <2>4. ASSUME IInv PROVE IInv'
    BY <2>1, <2>2, <2>3, <2>4, BuffersKept, Zenon DEF IInv, TypeOK
  <2> QED
    BY <2>1, <2>2, <2>3, <2>4, Zenon DEF Inv
<1> QED
  BY <1>1, <1>2, Zenon DEF Next, Damaged

LEMMA InitInv == Init => Inv
<1> SUFFICES ASSUME Init PROVE Inv
  BY Zenon
<1>1. IInv
  BY InitIInv, Zenon
<1>2. early = FALSE /\ stray = FALSE /\ \A p \in Procs : op[p].at # "stale"
  BY Zenon DEF Init, Idle
<1>3. TypeOK
  BY <1>1, <1>2, Ranges, Zenon
<1> QED
  BY <1>1, <1>2, <1>3, Zenon DEF Inv, IInv, EarlyInv

-----------------------------------------------------------------------------
\* Inv holds of every reachable state of the driver.
THEOREM Invariance == Spec => []Inv
BY InitInv, NextInv, PTL DEF Spec

\* The reference count of every buffer is the number of lists, mappings and
\* calls that hold it, whatever handles the callers try and whatever calls,
\* closes, forks and unbinds interleave: kref_put frees a buffer exactly when
\* its last holder is gone.  Only a DMA_FREE of a handle that DMA_ALLOC has
\* listed and not returned can end this.
THEOREM CountsHolders == Spec => []RefExact
<1>1. ASSUME Inv PROVE RefExact
  <2>1. TypeOK /\ (stray => early)
    BY <1>1, Zenon DEF Inv, EarlyInv
  <2>2. ASSUME ~stray PROVE \A b \in Bufs : ref[b] = Holders(b)
    BY <1>1, <2>2, Zenon DEF Inv, IInv, AllCounted, Counted, Holders, Lists, Maps, Callers
  <2> QED
    BY <2>1, <2>2, Zenon DEF RefExact
<1> QED
  BY <1>1, Invariance, PTL

\* A handle isml_ioctl returned and nobody freed finds its own buffer, and no
\* other, in its file's list, also when callers free or map handles that were
\* never returned to them, until such a free has damaged the lists.
THEOREM HandlesName == Spec => []HandleNames
<1>1. ASSUME Inv PROVE HandleNames
  BY <1>1, KnownFinds, Zenon DEF Inv, HandleNames
<1> QED
  BY <1>1, Invariance, PTL

\* Every way out of isml_probe and isml_remove returns all the probe took.
THEOREM NothingLeft == Spec => []UnboundClean
<1>1. ASSUME Inv PROVE UnboundClean
  BY <1>1, Zenon DEF Inv, ProbeInv, UnboundClean
<1> QED
  BY <1>1, Invariance, PTL
=============================================================================
