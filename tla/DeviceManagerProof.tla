-------------------------- MODULE DeviceManagerProof --------------------------
(***************************************************************************)
(* Proofs about DeviceManager for any threads, any finite set of devices   *)
(* and any firmware slots.                                                 *)
(***************************************************************************)
EXTENDS DeviceManager, FiniteSetTheorems, TLAPS

-----------------------------------------------------------------------------
\* The steps that hold execution_mutex_, and those that hold the interpreter
\* lock.
Locked == {"scan", "ready", "resource", "register", "begin", "running", "unlock"} \cup Setup
Gilled == {"dlock", "scan", "ready", "resource", "register", "leave", "args"}

\* The steps of a run that has a device, and those with contexts.
Active == {"begin", "running"} \cup Setup
Scoped == {"running"} \cup Setup

\* The shape of the state.
Shape ==
  /\ pc \in [Threads -> Steps]
  /\ todo \subseteq Devs /\ cur \in Devs \cup {None}
  /\ devices \in Seq(Tpus)
  /\ maps \subseteq Devs /\ reset \subseteq Atlas /\ bound \in Devs \cup {None} /\ ctxs \subseteq Contexts
  /\ target \in [Threads -> Tpus \cup {None}]

\* Every function is registered once at most.
Room == Len(devices) + Cardinality(todo) <= Cardinality(Devs)

\* A registered device is mapped as its entry says, an Atlas is mapped and up.
Entries ==
  \A i \in 1 .. Len(devices) :
    /\ devices[i].mapped => devices[i].dev \in maps
    /\ devices[i].dev \in Atlas => devices[i].mapped /\ devices[i].dev \in ready \cup reset

\* Discovery has a function in hand, and an Atlas past its wait is up.
InHand(t) ==
  /\ pc[t] \in {"ready", "resource", "register"} =>
       cur \in Devs /\ Len(devices) + Cardinality(todo) < Cardinality(Devs)
  /\ pc[t] = "resource" \/ (pc[t] = "register" /\ cur \in Atlas) =>
       cur \in maps /\ cur \in ready

\* A run has a registered device, the HAL is bound to it, and the contexts are
\* those its setup has made so far.
OnDevice(t) ==
  /\ pc[t] \in Active => /\ \E i \in 1 .. Len(devices) : devices[i] = target[t]
                         /\ bound = target[t].dev
  /\ pc[t] = "root" => ctxs = {}
  /\ pc[t] = "aperture" => ctxs = {"root"}
  /\ pc[t] \in {"ipc", "window", "running"} => {"root", "aperture"} \subseteq ctxs

ThreadInv(t) ==
  /\ lock = t <=> pc[t] \in Locked
  /\ gil = t <=> pc[t] \in Gilled
  /\ InHand(t) /\ OnDevice(t)

Quiet == ctxs # {} => \E t \in Threads : pc[t] \in Scoped

\* The inductive invariant.
IInv == Shape /\ Room /\ Entries /\ Quiet /\ \A t \in Threads : ThreadInv(t)

-----------------------------------------------------------------------------
\* With the mutex free, or held by t, no other thread is at a step that holds
\* it.
LEMMA OthersOut ==
  ASSUME IInv, NEW t \in Threads, lock = None \/ lock = t, NEW u \in Threads, u # t
  PROVE  pc[u] \notin Locked
BY ConstantsAssumption, Zenon DEF IInv, ThreadInv

\* Then there are no contexts unless t has made them.
LEMMA NoContexts ==
  ASSUME IInv, NEW t \in Threads, lock = None \/ lock = t, pc[t] \notin Scoped
  PROVE  ctxs = {}
<1>1. \A u \in Threads : pc[u] \in Scoped => pc[u] \in Locked
  BY Zenon DEF Scoped, Locked
<1> QED
  BY <1>1, OthersOut, Zenon DEF IInv, Quiet

LEMMA PcGoes ==
  ASSUME Shape, NEW t \in Threads, NEW s \in Steps, Go(t, s)
  PROVE  /\ pc' \in [Threads -> Steps]
         /\ pc'[t] = s /\ \A u \in Threads \ {t} : pc'[u] = pc[u]
BY Zenon DEF Shape, Go

\* A step of a thread outside the mutex: it takes or gives up the interpreter
\* lock.
LEMMA OutIInv ==
  ASSUME IInv, NEW t \in Threads, NEW s \in Steps, Go(t, s),
         pc[t] \notin Locked, s \notin Locked,
         gil \in {None, t}, gil' \in {None, t}, gil' = t <=> s \in Gilled,
         UNCHANGED <<lock, target, todo, cur, devices, maps, bound, ctxs, ready, reset>>
  PROVE  IInv'
<1>1. /\ pc' \in [Threads -> Steps]
      /\ pc'[t] = s /\ \A u \in Threads \ {t} : pc'[u] = pc[u]
  BY PcGoes, Zenon DEF IInv
<1>2. Shape' /\ Room' /\ Entries'
  BY <1>1, Zenon DEF IInv, Shape, Room, Entries
<1>3. Quiet'
  <2>1. \A u \in Threads : pc[u] \in Scoped => u # t
    BY Zenon DEF Scoped, Locked
  <2> QED
    BY <1>1, <2>1, Zenon DEF IInv, Quiet
<1>4. ThreadInv(t)'
  <2>1. lock # t
    BY Zenon DEF IInv, ThreadInv
  <2>2. InHand(t)' /\ OnDevice(t)'
    BY <1>1, Zenon DEF InHand, OnDevice, Locked, Active, Setup
  <2> QED
    BY <1>1, <2>1, <2>2, Zenon DEF ThreadInv
<1>5. ASSUME NEW u \in Threads, u # t PROVE ThreadInv(u)'
  <2>1. ThreadInv(u) /\ pc'[u] = pc[u]
    BY <1>1, <1>5, Zenon DEF IInv
  <2>2. gil # u /\ gil' # u
    BY <1>5, ConstantsAssumption, Zenon
  <2>3. InHand(u)' /\ OnDevice(u)'
    BY <2>1, Zenon DEF ThreadInv, InHand, OnDevice
  <2> QED
    BY <2>1, <2>2, <2>3, Zenon DEF ThreadInv
<1> QED
  BY <1>2, <1>3, <1>4, <1>5, Zenon DEF IInv

LEMMA OutsideIInv ==
  ASSUME IInv, NEW t \in Threads,
         CallDiscover(t) \/ CallRun(t) \/ ReleaseGil(t) \/ Leave(t) \/ ReturnRun(t)
  PROVE  IInv'
<1>1. UNCHANGED <<lock, target, todo, cur, devices, maps, bound, ctxs, ready, reset>>
  BY Zenon DEF CallDiscover, CallRun, ReleaseGil, Leave, ReturnRun, hal, firmware
<1>2. gil = t <=> pc[t] \in Gilled
  BY Zenon DEF IInv, ThreadInv
<1>3. CASE CallDiscover(t)
  <2>1. "dlock" \in Steps /\ "dlock" \notin Locked /\ "dlock" \in Gilled /\ "idle" \notin Locked
    BY Zenon DEF Steps, Locked, Gilled, Setup
  <2> QED
    BY <1>1, <1>3, <2>1, OutIInv, Zenon DEF CallDiscover
<1>4. CASE CallRun(t)
  <2>1. "args" \in Steps /\ "args" \notin Locked /\ "args" \in Gilled /\ "idle" \notin Locked
    BY Zenon DEF Steps, Locked, Gilled, Setup
  <2> QED
    BY <1>1, <1>4, <2>1, OutIInv, Zenon DEF CallRun
<1>5. CASE ReleaseGil(t)
  <2>1. /\ "rlock" \in Steps /\ "rlock" \notin Locked /\ "rlock" \notin Gilled
        /\ "args" \notin Locked /\ "args" \in Gilled
    BY Zenon DEF Steps, Locked, Gilled, Setup
  <2> QED
    BY <1>1, <1>2, <1>5, <2>1, OutIInv, ConstantsAssumption, Zenon DEF ReleaseGil
<1>6. CASE Leave(t)
  <2>1. /\ "idle" \in Steps /\ "idle" \notin Locked /\ "idle" \notin Gilled
        /\ "leave" \notin Locked /\ "leave" \in Gilled
    BY Zenon DEF Steps, Locked, Gilled, Setup
  <2> QED
    BY <1>1, <1>2, <1>6, <2>1, OutIInv, ConstantsAssumption, Zenon DEF Leave
<1>7. CASE ReturnRun(t)
  <2>1. /\ "idle" \in Steps /\ "idle" \notin Locked /\ "idle" \notin Gilled /\ "gil" \notin Locked
    BY Zenon DEF Steps, Locked, Gilled, Setup
  <2> QED
    BY <1>1, <1>7, <2>1, OutIInv, ConstantsAssumption, Zenon DEF ReturnRun
<1> QED
  BY <1>3, <1>4, <1>5, <1>6, <1>7, Zenon

\* The firmware coming up disturbs nothing.
LEMMA BootIInv ==
  ASSUME IInv, NEW d \in Devs, Boot(d)
  PROVE  IInv'
<1>1. /\ UNCHANGED <<gil, lock, pc, target, todo, cur, devices, maps, bound, ctxs>>
      /\ ready \subseteq ready' /\ UNCHANGED reset
  BY Zenon DEF Boot, hal
<1>2. Shape' /\ Room' /\ Entries' /\ Quiet'
  BY <1>1, Zenon DEF IInv, Shape, Room, Entries, Quiet
<1>3. ASSUME NEW t \in Threads PROVE ThreadInv(t)'
  <2>1. ThreadInv(t)
    BY Zenon DEF IInv
  <2> QED
    BY <1>1, <2>1, Zenon DEF ThreadInv, InHand, OnDevice
<1> QED
  BY <1>2, <1>3, Zenon DEF IInv

\* A reset takes firmware down, which reset records; nothing is being discovered.
LEMMA ResetIInv ==
  ASSUME IInv, NEW t \in Threads, SecondaryBusReset(t)
  PROVE  IInv'
<1>1. /\ UNCHANGED <<gil, lock, pc, target, todo, cur, devices, maps, bound, ctxs>>
      /\ pc[t] = "running"
  BY Zenon DEF SecondaryBusReset, hal
<1>2. PICK below \in SUBSET Devs :
        ready' = ready \ below /\ reset' = reset \cup (below \cap Atlas)
  BY Zenon DEF SecondaryBusReset
<1>3. reset' \subseteq Atlas /\ ready \cap Atlas \subseteq ready' \cup reset' /\ reset \subseteq reset'
  BY <1>2, Zenon DEF IInv, Shape
<1>4. Shape' /\ Room' /\ Quiet'
  BY <1>1, <1>3, Zenon DEF IInv, Shape, Room, Quiet
<1>5. Entries'
  BY <1>1, <1>3, Zenon DEF IInv, Entries
<1>6. ASSUME NEW u \in Threads PROVE ThreadInv(u)'
  <2>1. ThreadInv(u)
    BY Zenon DEF IInv
  <2>2. pc[u] \notin {"ready", "resource", "register"}
    BY <1>1, OthersOut, Zenon DEF IInv, ThreadInv, Locked
  <2> QED
    BY <1>1, <2>1, <2>2, Zenon DEF ThreadInv, InHand, OnDevice
<1> QED
  BY <1>4, <1>5, <1>6, Zenon DEF IInv

-----------------------------------------------------------------------------
\* A step of the thread that holds the mutex, takes it or gives it up: the
\* other threads are all outside.
LEMMA InIInv ==
  ASSUME IInv, NEW t \in Threads, NEW s \in Steps, Go(t, s),
         lock \in {None, t}, lock' \in {None, t}, lock' = t <=> s \in Locked,
         UNCHANGED gil, s \in Gilled <=> pc[t] \in Gilled,
         Shape', Room', Entries', s \notin Scoped => ctxs' = {},
         InHand(t)', OnDevice(t)'
  PROVE  IInv'
<1>1. pc'[t] = s /\ \A u \in Threads \ {t} : pc'[u] = pc[u]
  BY PcGoes, Zenon DEF IInv
<1>2. Quiet'
  BY <1>1, Zenon DEF Quiet
<1>3. ThreadInv(t)'
  <2>1. gil = t <=> pc[t] \in Gilled
    BY Zenon DEF IInv, ThreadInv
  <2> QED
    BY <1>1, <2>1, Zenon DEF ThreadInv
<1>4. ASSUME NEW u \in Threads, u # t PROVE ThreadInv(u)'
  <2>1. ThreadInv(u) /\ pc'[u] = pc[u]
    BY <1>1, <1>4, Zenon DEF IInv
  <2>2. pc[u] \notin Locked
    BY <1>4, OthersOut, Zenon
  <2>3. lock' # u
    BY <1>4, ConstantsAssumption, Zenon
  <2>4. InHand(u)' /\ OnDevice(u)'
    BY <2>1, <2>2, Zenon DEF InHand, OnDevice, Locked, Active, Setup
  <2> QED
    BY <2>1, <2>2, <2>3, <2>4, Zenon DEF ThreadInv
<1> QED
  BY <1>2, <1>3, <1>4, Zenon DEF IInv

\* The holder of the mutex, by its step.
LEMMA Holds ==
  ASSUME IInv, NEW t \in Threads, pc[t] \in Locked
  PROVE  lock = t
BY Zenon DEF IInv, ThreadInv

\* Discovery waits for a device, gives it up or reads its resource word.
LEMMA WaitIInv ==
  ASSUME IInv, NEW t \in Threads, SystemReady(t) \/ NotReady(t) \/ ReadResource(t)
  PROVE  IInv'
<1>1. /\ UNCHANGED <<gil, lock, target, todo, cur, devices, maps, bound, ctxs, ready, reset>>
      /\ pc[t] \in {"ready", "resource"}
  BY Zenon DEF SystemReady, NotReady, ReadResource, hal, firmware
<1>2. PICK s \in {"scan", "resource", "register"} : Go(t, s)
  BY Zenon DEF SystemReady, NotReady, ReadResource
<1>3. /\ s \in Steps /\ s \in Locked /\ s \in Gilled /\ s \notin Scoped /\ s \notin Active
      /\ pc[t] \in Locked /\ pc[t] \in Gilled /\ pc[t] \notin Scoped
  BY <1>1, <1>2, Zenon DEF Steps, Locked, Gilled, Scoped, Active, Setup
<1>4. pc' \in [Threads -> Steps] /\ pc'[t] = s
  BY <1>2, <1>3, PcGoes, Zenon DEF IInv
<1>5. lock = t /\ ctxs = {}
  BY <1>3, Holds, NoContexts, Zenon
<1>6. Shape' /\ Room' /\ Entries'
  BY <1>1, <1>4, Zenon DEF IInv, Shape, Room, Entries
<1>7. InHand(t)'
  <2>1. InHand(t)
    BY Zenon DEF IInv, ThreadInv
  <2>2. CASE s = "resource"
    <3>1. SystemReady(t) \/ s = "scan" \/ s = "register"
      BY <1>2, <2>2, <1>1, <1>4, Zenon
      DEF SystemReady, NotReady, ReadResource, Go, IInv, Shape
    <3>2. cur \in maps /\ cur \in ready /\ pc[t] = "ready"
      BY <2>2, <3>1, Zenon DEF SystemReady, IsReady
    <3> QED
      BY <2>1, <2>2, <3>2, <1>1, <1>4, Zenon DEF InHand
  <2>3. CASE s = "register"
    <3>1. pc[t] = "resource"
      BY <1>2, <2>3, <1>1, <1>4, Zenon
      DEF SystemReady, NotReady, ReadResource, Go, IInv, Shape
    <3> QED
      BY <2>1, <2>3, <3>1, <1>1, <1>4, Zenon DEF InHand
  <2>4. CASE s = "scan"
    BY <2>4, <1>4, Zenon DEF InHand
  <2> QED
    BY <1>2, <2>2, <2>3, <2>4, Zenon
<1>8. OnDevice(t)'
  BY <1>2, <1>3, <1>4, Zenon DEF OnDevice
<1> QED
  BY <1>1, <1>2, <1>3, <1>5, <1>6, <1>7, <1>8, InIInv, Zenon

\* The registry is emptied with the mappings before the scan.
LEMMA DiscoverLockIInv ==
  ASSUME IInv, NEW t \in Threads, DiscoverLock(t)
  PROVE  IInv'
<1>1. /\ lock = None /\ lock' = t /\ pc[t] = "dlock" /\ Go(t, "scan")
      /\ UNCHANGED <<gil, target, cur, ready>> /\ reset' = {}
      /\ todo' = Devs /\ devices' = <<>> /\ maps' = {} /\ bound' = None /\ ctxs' = {}
  BY Zenon DEF DiscoverLock, Unlocked, ClearDiscovered, Clear
<1>2. /\ "scan" \in Steps /\ "scan" \in Locked /\ "scan" \in Gilled /\ "scan" \notin Active
      /\ "dlock" \in Gilled
  BY Zenon DEF Steps, Locked, Gilled, Active, Setup
<1>3. pc' \in [Threads -> Steps] /\ pc'[t] = "scan"
  BY <1>1, <1>2, PcGoes, Zenon DEF IInv
<1>4. Shape'
  BY <1>1, <1>3 DEF IInv, Shape
<1>5. Room' /\ Entries'
  <2>1. Cardinality(Devs) \in Nat
    BY ConstantsAssumption, FS_CardinalityType, Zenon
  <2>2. Len(devices') = 0
    BY <1>1, Zenon
  <2> QED
    BY <1>1, <2>1, <2>2 DEF Room, Entries
<1>6. InHand(t)' /\ OnDevice(t)'
  BY <1>2, <1>3, Zenon DEF InHand, OnDevice
<1> QED
  BY <1>1, <1>2, <1>4, <1>5, <1>6, InIInv, Zenon

LEMMA ScanEndsIInv ==
  ASSUME IInv, NEW t \in Threads, ScanEnds(t)
  PROVE  IInv'
<1>1. /\ lock' = None /\ pc[t] = "scan" /\ Go(t, "leave") /\ cur' = None
      /\ UNCHANGED <<gil, target, todo, devices, maps, bound, ctxs, ready, reset>>
  BY Zenon DEF ScanEnds, hal, firmware
<1>2. /\ "leave" \in Steps /\ "leave" \notin Locked /\ "leave" \in Gilled /\ "leave" \notin Active
      /\ "scan" \in Gilled /\ "scan" \in Locked /\ "scan" \notin Scoped
  BY Zenon DEF Steps, Locked, Gilled, Active, Scoped, Setup
<1>3. pc' \in [Threads -> Steps] /\ pc'[t] = "leave"
  BY <1>1, <1>2, PcGoes, Zenon DEF IInv
<1>4. lock = t /\ ctxs = {}
  BY <1>1, <1>2, Holds, NoContexts, Zenon
<1>5. Shape' /\ Room' /\ Entries'
  BY <1>1, <1>3, Zenon DEF IInv, Shape, Room, Entries
<1>6. InHand(t)' /\ OnDevice(t)'
  BY <1>2, <1>3, Zenon DEF InHand, OnDevice
<1> QED
  BY <1>1, <1>2, <1>4, <1>5, <1>6, InIInv, ConstantsAssumption, Zenon

\* A function is taken from the scan and mapped; mappings only grow meanwhile.
LEMMA MapBarsIInv ==
  ASSUME IInv, NEW t \in Threads, NEW d \in Devs, MapBars(t, d)
  PROVE  IInv'
<1>1. /\ pc[t] = "scan" /\ d \in todo /\ todo' = todo \ {d} /\ cur' = d
      /\ maps' \in {maps, maps \cup {d}} /\ UNCHANGED <<gil, lock, target, devices, ready, reset>>
  BY Zenon DEF MapBars, firmware
<1>2. PICK s \in {"ready", "register"} : Go(t, s) /\ (s = "register" => d \notin Atlas)
  BY Zenon DEF MapBars
<1>3. /\ s \in Steps /\ s \in Locked /\ s \in Gilled /\ s \notin Active /\ s # "resource"
      /\ "scan" \in Gilled /\ "scan" \in Locked /\ "scan" \notin Scoped
  BY <1>2, Zenon DEF Steps, Locked, Gilled, Active, Scoped, Setup
<1>4. pc' \in [Threads -> Steps] /\ pc'[t] = s
  BY <1>2, <1>3, PcGoes, Zenon DEF IInv
<1>5. lock = t /\ ctxs = {}
  BY <1>1, <1>3, Holds, NoContexts, Zenon
<1>6. ctxs' = {} /\ bound' \in Devs \cup {None}
  BY <1>5, Zenon DEF MapBars, Bind, IInv, Shape
<1>7. Shape'
  BY <1>1, <1>4, <1>6, Zenon DEF IInv, Shape
<1>8. Entries'
  BY <1>1, Zenon DEF IInv, Entries
<1>9. Room' /\ Len(devices') + Cardinality(todo') < Cardinality(Devs)
  <2>1. IsFiniteSet(todo) /\ Cardinality(Devs) \in Nat /\ todo \in SUBSET Devs
    BY ConstantsAssumption, FS_Subset, FS_CardinalityType, Zenon DEF IInv, Shape
  <2>2. Cardinality(todo) \in Nat /\ Cardinality(todo') = Cardinality(todo) - 1
    BY <1>1, <2>1, FS_CardinalityType, FS_RemoveElement, Zenon
  <2>3. Len(devices) \in Nat
    BY DEF IInv, Shape
  <2> QED
    BY <1>1, <2>1, <2>2, <2>3 DEF IInv, Room
<1>10. InHand(t)'
  BY <1>1, <1>2, <1>3, <1>4, <1>9, Zenon DEF InHand
<1>11. OnDevice(t)'
  BY <1>2, <1>3, <1>4, Zenon DEF OnDevice
<1> QED
  BY <1>1, <1>2, <1>3, <1>5, <1>6, <1>7, <1>8, <1>9, <1>10, <1>11, InIInv, Zenon

\* The entry registered is as the function in hand is mapped.
LEMMA RegisterIInv ==
  ASSUME IInv, NEW t \in Threads, Register(t)
  PROVE  IInv'
<1> DEFINE e == [dev |-> cur, mapped |-> cur \in maps]
<1>1. /\ pc[t] = "register" /\ Go(t, "scan") /\ devices' = Append(devices, e)
      /\ UNCHANGED <<gil, lock, target, todo, cur, maps, bound, ctxs, ready, reset>>
  BY Zenon DEF Register, hal, firmware
<1>2. /\ "scan" \in Steps /\ "scan" \in Locked /\ "scan" \in Gilled /\ "scan" \notin Active
      /\ "register" \in Gilled /\ "register" \in Locked /\ "register" \notin Scoped
  BY Zenon DEF Steps, Locked, Gilled, Active, Scoped, Setup
<1>3. pc' \in [Threads -> Steps] /\ pc'[t] = "scan"
  BY <1>1, <1>2, PcGoes, Zenon DEF IInv
<1>4. lock = t /\ ctxs = {}
  BY <1>1, <1>2, Holds, NoContexts, Zenon
<1>5. /\ cur \in Devs /\ Len(devices) + Cardinality(todo) < Cardinality(Devs)
      /\ cur \in Atlas => cur \in maps /\ cur \in ready
  BY <1>1, Zenon DEF IInv, ThreadInv, InHand
<1>6. e \in Tpus /\ e.dev = cur /\ (e.mapped <=> cur \in maps)
  <2>1. (cur \in maps) \in BOOLEAN
    OBVIOUS
  <2> QED
    BY <1>5, <2>1, Zenon DEF Tpus
<1> HIDE DEF e
<1>7. /\ devices' \in Seq(Tpus) /\ Len(devices') = Len(devices) + 1 /\ Len(devices) \in Nat
      /\ devices'[Len(devices) + 1] = e
      /\ \A i \in 1 .. Len(devices) : devices'[i] = devices[i]
  BY <1>1, <1>6 DEF IInv, Shape
<1>8. Shape'
  BY <1>1, <1>3, <1>7, Zenon DEF IInv, Shape
<1>9. Room'
  <2>1. IsFiniteSet(todo) /\ Cardinality(Devs) \in Nat
    BY ConstantsAssumption, FS_Subset, FS_CardinalityType, Zenon DEF IInv, Shape
  <2>2. Cardinality(todo) \in Nat
    BY <2>1, FS_CardinalityType, Zenon
  <2> QED
    BY <1>1, <1>5, <1>7, <2>1, <2>2 DEF Room
<1>10. ASSUME NEW i \in 1 .. Len(devices')
       PROVE  /\ devices'[i].mapped => devices'[i].dev \in maps
              /\ devices'[i].dev \in Atlas => devices'[i].mapped /\ devices'[i].dev \in ready \cup reset
  <2>1. CASE i = Len(devices) + 1
    BY <2>1, <1>5, <1>6, <1>7, Zenon
  <2>2. CASE i \in 1 .. Len(devices)
    BY <2>2, <1>7, Zenon DEF IInv, Entries
  <2> QED
    BY <2>1, <2>2, <1>7
<1>11. Entries'
  BY <1>1, <1>10, Zenon DEF Entries
<1>12. InHand(t)' /\ OnDevice(t)'
  BY <1>2, <1>3, Zenon DEF InHand, OnDevice
<1> QED
  BY <1>1, <1>2, <1>4, <1>8, <1>9, <1>11, <1>12, InIInv, Zenon

-----------------------------------------------------------------------------
\* A run finds its device in the registry and binds the HAL to it, or returns.
LEMMA RunLockIInv ==
  ASSUME IInv, NEW t \in Threads, RunLock(t)
  PROVE  IInv'
<1>1. /\ pc[t] = "rlock" /\ lock = None /\ lock' = t
      /\ UNCHANGED <<gil, todo, cur, devices, maps, ready, reset>>
  BY Zenon DEF RunLock, Unlocked, firmware
<1>2. /\ "begin" \in Steps /\ "begin" \in Locked /\ "begin" \notin Gilled /\ "begin" \notin Scoped
      /\ "unlock" \in Steps /\ "unlock" \in Locked /\ "unlock" \notin Gilled
      /\ "unlock" \notin Active /\ "rlock" \notin Gilled /\ "rlock" \notin Scoped
  BY Zenon DEF Steps, Locked, Gilled, Active, Scoped, Setup
<1>3. Room' /\ Entries' /\ ctxs = {}
  BY <1>1, <1>2, NoContexts, Zenon DEF IInv, Room, Entries
<1>4. ASSUME NEW i \in 1 .. Len(devices), target' = [target EXCEPT ![t] = devices[i]],
             Bind(devices[i].dev), Go(t, "begin")
      PROVE  IInv'
  <2>1. pc' \in [Threads -> Steps] /\ pc'[t] = "begin"
    BY <1>2, <1>4, PcGoes, Zenon DEF IInv
  <2>2. devices[i] \in Tpus /\ devices[i].dev \in Devs
    <3>1. devices \in Seq(Tpus)
      BY Zenon DEF IInv, Shape
    <3>2. devices[i] \in Tpus
      BY <1>4, <3>1
    <3> QED
      BY <3>2, Zenon DEF Tpus
  <2>3. target' \in [Threads -> Tpus \cup {None}] /\ target'[t] = devices[i]
    BY <1>4, <2>2, Zenon DEF IInv, Shape
  <2>4. bound' = devices[i].dev /\ ctxs' = {}
    BY <1>4, Zenon DEF Bind
  <2>5. Shape'
    BY <1>1, <2>1, <2>2, <2>3, <2>4, Zenon DEF IInv, Shape
  <2>6. InHand(t)' /\ OnDevice(t)'
    BY <1>1, <2>1, <2>3, <2>4, Zenon DEF InHand, OnDevice
  <2> QED
    BY <1>1, <1>2, <1>3, <1>4, <2>4, <2>5, <2>6, InIInv, Zenon
<1>5. ASSUME Go(t, "unlock"), UNCHANGED <<target, bound, ctxs>>
      PROVE  IInv'
  <2>1. pc' \in [Threads -> Steps] /\ pc'[t] = "unlock"
    BY <1>2, <1>5, PcGoes, Zenon DEF IInv
  <2>2. Shape'
    BY <1>1, <1>5, <2>1, Zenon DEF IInv, Shape
  <2>3. InHand(t)' /\ OnDevice(t)'
    BY <1>2, <2>1, Zenon DEF InHand, OnDevice
  <2> QED
    BY <1>1, <1>2, <1>3, <1>5, <2>2, <2>3, InIInv, Zenon
<1> QED
  BY <1>4, <1>5, Zenon DEF RunLock

\* A run is refused, or its setup begins.
LEMMA BeginIInv ==
  ASSUME IInv, NEW t \in Threads, RunRejected(t) \/ Begin(t)
  PROVE  IInv'
<1>1. /\ pc[t] = "begin"
      /\ UNCHANGED <<gil, lock, target, todo, cur, devices, maps, bound, ctxs, ready, reset>>
  BY Zenon DEF RunRejected, Begin, hal, firmware
<1>2. PICK s \in {"unlock", "root"} : Go(t, s)
  BY Zenon DEF RunRejected, Begin
<1>3. /\ s \in Steps /\ s \in Locked /\ s \notin Gilled /\ "begin" \notin Gilled
      /\ "begin" \in Locked /\ "begin" \in Active /\ "begin" \notin Scoped /\ "unlock" \notin Active
  BY <1>2, Zenon DEF Steps, Locked, Gilled, Active, Scoped, Setup
<1>4. pc' \in [Threads -> Steps] /\ pc'[t] = s
  BY <1>2, <1>3, PcGoes, Zenon DEF IInv
<1>5. lock = t /\ ctxs = {}
  BY <1>1, <1>3, Holds, NoContexts, Zenon
<1>6. Shape' /\ Room' /\ Entries'
  BY <1>1, <1>4, Zenon DEF IInv, Shape, Room, Entries
<1>7. InHand(t)'
  BY <1>2, <1>4, Zenon DEF InHand
<1>8. OnDevice(t)'
  <2>1. OnDevice(t)
    BY Zenon DEF IInv, ThreadInv
  <2>2. CASE s = "root"
    BY <1>1, <1>3, <1>4, <1>5, <2>1, <2>2, Zenon DEF OnDevice
  <2>3. CASE s = "unlock"
    BY <1>3, <1>4, <2>3, Zenon DEF OnDevice
  <2> QED
    BY <1>2, <2>2, <2>3, Zenon
<1> QED
  BY <1>1, <1>2, <1>3, <1>5, <1>6, <1>7, <1>8, InIInv, Zenon

\* begin_testcase makes the contexts one by one.
LEMMA CreateIInv ==
  ASSUME IInv, NEW t \in Threads, Create(t)
  PROVE  IInv'
<1>1. /\ UNCHANGED <<gil, lock, target, todo, cur, devices, maps, bound, ready, reset>>
      /\ pc[t] \in Setup
  BY Zenon DEF Create, Setup, firmware
<1>2. PICK s \in {"aperture", "ipc", "window", "running"} : Go(t, s)
  BY Zenon DEF Create
<1>3. /\ s \in Steps /\ s \in Locked /\ s \notin Gilled /\ s \in Scoped /\ s \in Active
      /\ pc[t] \notin Gilled /\ pc[t] \in Locked /\ pc[t] \in Active
  BY <1>1, <1>2, Zenon DEF Steps, Locked, Gilled, Active, Scoped, Setup
<1>4. pc' \in [Threads -> Steps] /\ pc'[t] = s
  BY <1>2, <1>3, PcGoes, Zenon DEF IInv
<1>5. lock = t
  BY <1>3, Holds, Zenon
<1>6. ctxs' \subseteq Contexts
  BY Zenon DEF Create, CreateContext, CreateIpcContext, Contexts, IInv, Shape
<1>7. Shape' /\ Room' /\ Entries'
  BY <1>1, <1>4, <1>6, Zenon DEF IInv, Shape, Room, Entries
<1>8. InHand(t)'
  BY <1>2, <1>4, Zenon DEF InHand
<1>9. OnDevice(t)'
  <2>1. OnDevice(t)
    BY Zenon DEF IInv, ThreadInv
  <2>2. s \in {"ipc", "window", "running"} => {"root", "aperture"} \subseteq ctxs'
    <3>1. ASSUME pc[t] = "root" PROVE s = "aperture"
      BY <3>1, <1>4, Zenon DEF Create, Go, IInv, Shape
    <3>2. ASSUME pc[t] = "aperture" PROVE ctxs' = ctxs \cup {"aperture"} /\ ctxs = {"root"}
      BY <3>2, <2>1, Zenon DEF Create, CreateContext, OnDevice
    <3>3. ASSUME pc[t] \in {"ipc", "window"}
          PROVE  ctxs \subseteq ctxs' /\ {"root", "aperture"} \subseteq ctxs
      <4>1. {"root", "aperture"} \subseteq ctxs
        BY <3>3, <2>1, Zenon DEF OnDevice
      <4>2. ctxs \subseteq ctxs'
        BY <3>3, Zenon DEF Create, CreateContext, CreateIpcContext
      <4> QED
        BY <4>1, <4>2, Zenon
    <3>4. pc[t] \in {"root", "aperture", "ipc", "window"}
      BY <1>1, Zenon DEF Setup
    <3>5. CASE pc[t] = "root"
      BY <3>1, <3>5, Zenon
    <3>6. CASE pc[t] = "aperture"
      BY <3>2, <3>6, Zenon
    <3>7. CASE pc[t] \in {"ipc", "window"}
      BY <3>3, <3>7, Zenon
    <3> QED
      BY <3>4, <3>5, <3>6, <3>7, Zenon
  <2>3. s = "aperture" => ctxs' = {"root"}
    <3>1. ASSUME s = "aperture" PROVE pc[t] = "root" /\ ctxs' = ctxs \cup {"root"}
      BY <3>1, <1>4, Zenon DEF Create, CreateContext, Go, IInv, Shape
    <3>2. pc[t] = "root" => ctxs = {}
      BY <2>1, Zenon DEF OnDevice
    <3> QED
      BY <3>1, <3>2, Zenon
  <2>4. /\ \E i \in 1 .. Len(devices') : devices'[i] = target'[t]
        /\ bound' = target'[t].dev
    BY <1>1, <1>3, <2>1, Zenon DEF OnDevice
  <2> QED
    BY <1>2, <1>4, <2>2, <2>3, <2>4, Zenon DEF OnDevice
<1> QED
  BY <1>1, <1>2, <1>3, <1>5, <1>7, <1>8, <1>9, InIInv, Zenon

\* The setup fails or the testcase ends: every context made is gone.
LEMMA EndIInv ==
  ASSUME IInv, NEW t \in Threads, BeginFails(t) \/ Execute(t)
  PROVE  IInv'
<1>1. /\ UNCHANGED <<gil, lock, target, todo, cur, devices, maps, bound, ready, reset>>
      /\ pc[t] \in Scoped /\ Go(t, "unlock")
  BY Zenon DEF BeginFails, Execute, Scoped, firmware
<1>2. /\ "unlock" \in Steps /\ "unlock" \in Locked /\ "unlock" \notin Gilled
      /\ "unlock" \notin Active /\ pc[t] \notin Gilled /\ pc[t] \in Locked
  BY <1>1, Zenon DEF Steps, Locked, Gilled, Active, Scoped, Setup
<1>3. pc' \in [Threads -> Steps] /\ pc'[t] = "unlock"
  BY <1>1, <1>2, PcGoes, Zenon DEF IInv
<1>4. lock = t
  BY <1>2, Holds, Zenon
<1>5. ctxs' = {}
  <2>1. CASE Execute(t)
    BY <2>1, Zenon DEF Execute, Scope
  <2>2. CASE BeginFails(t)
    <3>1. OnDevice(t) /\ ctxs \subseteq Contexts /\ ctxs' = ctxs \ Undo(pc[t])
      BY <2>2, Zenon DEF BeginFails, IInv, ThreadInv, Shape
    <3>2. pc[t] \in {"root", "aperture", "ipc", "window"}
      BY <2>2, Zenon DEF BeginFails, Setup
    <3>3. CASE pc[t] = "root"
      BY <3>1, <3>3, Zenon DEF OnDevice
    <3>4. CASE pc[t] = "aperture"
      BY <3>1, <3>4, Zenon DEF OnDevice, Undo
    <3>5. CASE pc[t] \in {"ipc", "window"}
      BY <3>1, <3>5, Zenon DEF Undo
    <3> QED
      BY <3>2, <3>3, <3>4, <3>5, Zenon
  <2> QED
    BY <2>1, <2>2, Zenon
<1>6. Shape' /\ Room' /\ Entries'
  BY <1>1, <1>3, <1>5, Zenon DEF IInv, Shape, Room, Entries
<1>7. InHand(t)' /\ OnDevice(t)'
  BY <1>2, <1>3, Zenon DEF InHand, OnDevice
<1> QED
  BY <1>1, <1>2, <1>4, <1>5, <1>6, <1>7, InIInv, Zenon

LEMMA UnlockIInv ==
  ASSUME IInv, NEW t \in Threads, Unlock(t)
  PROVE  IInv'
<1>1. /\ pc[t] = "unlock" /\ lock' = None /\ target' = [target EXCEPT ![t] = None] /\ Go(t, "gil")
      /\ UNCHANGED <<gil, todo, cur, devices, maps, bound, ctxs, ready, reset>>
  BY Zenon DEF Unlock, hal, firmware
<1>2. /\ "gil" \in Steps /\ "gil" \notin Locked /\ "gil" \notin Gilled /\ "gil" \notin Active
      /\ "unlock" \notin Gilled /\ "unlock" \in Locked /\ "unlock" \notin Scoped
  BY Zenon DEF Steps, Locked, Gilled, Active, Scoped, Setup
<1>3. pc' \in [Threads -> Steps] /\ pc'[t] = "gil"
  BY <1>1, <1>2, PcGoes, Zenon DEF IInv
<1>4. lock = t /\ ctxs = {}
  BY <1>1, <1>2, Holds, NoContexts, Zenon
<1>5. target' \in [Threads -> Tpus \cup {None}]
  BY <1>1, Zenon DEF IInv, Shape
<1>6. Shape' /\ Room' /\ Entries'
  BY <1>1, <1>3, <1>5, Zenon DEF IInv, Shape, Room, Entries
<1>7. InHand(t)' /\ OnDevice(t)'
  BY <1>2, <1>3, Zenon DEF InHand, OnDevice
<1> QED
  BY <1>1, <1>2, <1>4, <1>6, <1>7, InIInv, ConstantsAssumption, Zenon

-----------------------------------------------------------------------------
LEMMA InitIInv == Init => IInv
<1> SUFFICES ASSUME Init PROVE IInv
  BY Zenon
<1>1. "idle" \in Steps /\ "idle" \notin Locked /\ "idle" \notin Gilled /\ "idle" \notin Active
  BY Zenon DEF Steps, Locked, Gilled, Active, Setup
<1>2. Shape
  BY <1>1 DEF Init, Shape
<1>3. Room /\ Entries
  <2>1. Len(devices) = 0 /\ Cardinality(todo) = 0 /\ Cardinality(Devs) \in Nat
    BY ConstantsAssumption, FS_EmptySet, FS_CardinalityType, Zenon DEF Init
  <2> QED
    BY <2>1 DEF Room, Entries
<1>4. Quiet
  BY Zenon DEF Init, Quiet
<1>5. ASSUME NEW t \in Threads PROVE ThreadInv(t)
  <2>1. pc[t] = "idle" /\ lock # t /\ gil # t
    BY ConstantsAssumption, Zenon DEF Init
  <2> QED
    BY <1>1, <2>1, Zenon DEF ThreadInv, InHand, OnDevice
<1> QED
  BY <1>2, <1>3, <1>4, <1>5, Zenon DEF IInv

LEMMA NextIInv == IInv /\ [Next]_vars => IInv'
<1> SUFFICES ASSUME IInv, [Next]_vars PROVE IInv'
  BY Zenon
<1>1. ASSUME NEW t \in Threads,
             CallDiscover(t) \/ CallRun(t) \/ ReleaseGil(t) \/ Leave(t) \/ ReturnRun(t)
      PROVE  IInv'
  BY <1>1, OutsideIInv, Zenon
<1>2. ASSUME NEW t \in Threads,
             \/ SystemReady(t) \/ NotReady(t) \/ ReadResource(t) \/ Register(t)
             \/ \E d \in Devs : MapBars(t, d)
             \/ DiscoverLock(t) \/ ScanEnds(t)
      PROVE  IInv'
  BY <1>2, WaitIInv, RegisterIInv, MapBarsIInv, DiscoverLockIInv, ScanEndsIInv, Zenon
<1>3. ASSUME NEW t \in Threads,
             \/ RunLock(t) \/ RunRejected(t) \/ Begin(t) \/ Create(t)
             \/ BeginFails(t) \/ Execute(t) \/ Unlock(t)
      PROVE  IInv'
  BY <1>3, RunLockIInv, BeginIInv, CreateIInv, EndIInv, UnlockIInv, Zenon
<1>4. CASE (\E d \in Devs : Boot(d)) \/ (\E t \in Threads : SecondaryBusReset(t))
  BY <1>4, BootIInv, ResetIInv, Zenon
<1>5. CASE UNCHANGED vars
  <2>1. Shape' /\ Room' /\ Entries' /\ Quiet'
    BY <1>5, Zenon DEF vars, IInv, Shape, Room, Entries, Quiet
  <2>2. ASSUME NEW t \in Threads PROVE ThreadInv(t)'
    BY <1>5, Zenon DEF vars, IInv, ThreadInv, InHand, OnDevice
  <2> QED
    BY <2>1, <2>2, Zenon DEF IInv
<1> QED
  BY <1>1, <1>2, <1>3, <1>4, <1>5, Zenon DEF Next, Own, Locking

\* IInv holds of every reachable state of the manager.
THEOREM Invariance == Spec => []IInv
BY InitIInv, NextIInv, PTL DEF Spec

\* A testcase keeps its device, the mappings and the contexts it was started
\* with until it ends: discover cannot clear them under run_testcase, although
\* that gave the interpreter lock up.
THEOREM DeviceStays == Spec => []RunsOnItsDevice
<1>1. ASSUME IInv PROVE RunsOnItsDevice
  <2>1. ASSUME NEW t \in Threads, pc[t] = "running"
        PROVE  /\ \E i \in 1 .. Len(devices) : devices[i] = target[t]
               /\ target[t].mapped => target[t].dev \in maps
               /\ bound = target[t].dev
               /\ {"root", "aperture"} \subseteq ctxs
               /\ target[t].dev \in Atlas => target[t].mapped /\ target[t].dev \in ready \cup reset
    <3>1. "running" \in Active
      BY Zenon DEF Active
    <3>2. OnDevice(t)
      BY <1>1, Zenon DEF IInv, ThreadInv
    <3>3. PICK i \in 1 .. Len(devices) : devices[i] = target[t]
      BY <2>1, <3>1, <3>2, Zenon DEF OnDevice
    <3>4. /\ target[t].mapped => target[t].dev \in maps
          /\ target[t].dev \in Atlas => target[t].mapped /\ target[t].dev \in ready \cup reset
      BY <1>1, <3>3, Zenon DEF IInv, Entries
    <3> QED
      BY <2>1, <3>1, <3>2, <3>3, <3>4, Zenon DEF OnDevice
  <2> QED
    BY <2>1, Zenon DEF RunsOnItsDevice
<1> QED
  BY <1>1, Invariance, PTL

\* The two locks are held where the code holds them, the registry never has
\* more entries than there are functions, and PHAL contexts exist only inside
\* the scope of the one testcase that runs.
THEOREM ContextsInScope == Spec => []ContextsScoped
<1>1. ASSUME IInv PROVE ContextsScoped
  <2>1. Len(devices) <= Cardinality(Devs)
    <3>1. IsFiniteSet(todo) /\ Cardinality(Devs) \in Nat
      BY <1>1, ConstantsAssumption, FS_Subset, FS_CardinalityType, Zenon DEF IInv, Shape
    <3>2. Cardinality(todo) \in Nat
      BY <3>1, FS_CardinalityType, Zenon
    <3> QED
      BY <1>1, <3>1, <3>2 DEF IInv, Shape, Room
  <2>2. TypeOK
    BY <1>1, <2>1, Zenon DEF IInv, Shape, ThreadInv, TypeOK, Locked, Gilled
  <2>3. ASSUME NEW t \in Threads, pc[t] \in Scoped
        PROVE  lock = t /\ pc[t] \in Setup \cup {"running"}
    <3>1. pc[t] \in Locked /\ pc[t] \in Setup \cup {"running"}
      BY <2>3, Zenon DEF Scoped, Locked
    <3> QED
      BY <1>1, <3>1, Holds, Zenon
  <2> QED
    BY <1>1, <2>2, <2>3, Zenon DEF IInv, Quiet, ContextsScoped
<1> QED
  BY <1>1, Invariance, PTL
=============================================================================
