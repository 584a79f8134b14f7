---------------------------- MODULE DeviceManager ----------------------------
(***************************************************************************)
(* Discovery and testcase runs on one DeviceManager and its HalContext,    *)
(* isml_diag/src/device/DeviceManager.cpp and src/core/HalContext.cpp, as  *)
(* Python threads call them: discover keeps the interpreter lock (gil),    *)
(* run_testcase gives it up (PyBinding.cpp), both take execution_mutex_.   *)
(***************************************************************************)
EXTENDS Naturals, Sequences, FiniteSets

CONSTANTS
  Threads,
  Devs,             \* PCI functions that match the policy
  Atlas,            \* those of type Atlas: discovery waits for their firmware
  Fws,              \* firmware slots with an IPC context
  None

ASSUME ConstantsAssumption == IsFiniteSet(Devs) /\ Atlas \subseteq Devs /\ None \notin Threads \cup Devs

VARIABLES
  gil, lock,        \* the interpreter lock and execution_mutex_
  pc, target,       \* per thread: its step, and the TPUDevice it runs on
  todo, cur,        \* discovery: functions left to look at, and the current
  devices,          \* devices_; TPUi of the registry is entry i + 1
  maps,             \* functions with live BAR mappings
  bound, ctxs,      \* HalContext: active_device_, and its PHAL contexts
  ready,            \* functions whose firmware reports IP_INIT_DONE
  reset             \* history: functions a testcase reset since discovery

vars == <<gil, lock, pc, target, todo, cur, devices, maps, bound, ctxs, ready, reset>>
hal == <<maps, bound, ctxs>>
firmware == <<ready, reset>>

Contexts == {"root", "aperture"} \cup Fws
Tpus == [dev : Devs, mapped : BOOLEAN]
Setup == {"root", "aperture", "ipc", "window"}
Steps == {"idle", "dlock", "scan", "ready", "resource", "register", "leave",
          "args", "rlock", "begin", "running", "unlock", "gil"} \cup Setup

\* State in range; both locks are held by a thread at a step that holds them.
TypeOK ==
  /\ pc \in [Threads -> Steps]
  /\ todo \subseteq Devs /\ cur \in Devs \cup {None}
  /\ devices \in Seq(Tpus) /\ Len(devices) <= Cardinality(Devs)
  /\ maps \subseteq Devs /\ reset \subseteq Atlas /\ bound \in Devs \cup {None} /\ ctxs \subseteq Contexts
  /\ \A t \in Threads :
       /\ target[t] \in Tpus \cup {None}
       /\ lock = t <=> pc[t] \in {"scan", "ready", "resource", "register", "begin",
                                  "running", "unlock"} \cup Setup
       /\ gil = t <=> pc[t] \in {"dlock", "scan", "ready", "resource", "register",
                                 "leave", "args"}

Init ==
  /\ gil = None /\ lock = None
  /\ pc = [t \in Threads |-> "idle"]
  /\ target = [t \in Threads |-> None]
  /\ todo = {} /\ cur = None
  /\ devices = <<>>
  /\ maps = {} /\ bound = None /\ ctxs = {}
  /\ ready \in SUBSET Atlas /\ reset = {}

Go(t, step) == pc' = [pc EXCEPT ![t] = step]

\* HalContext::clear and clear_mappings: contexts go before the BARs they use.
Clear == maps' = {} /\ bound' = None /\ ctxs' = {}

\* clear_discovered_devices: the registry, the devices and the HAL.
ClearDiscovered == devices' = <<>> /\ Clear

\* bind_device drops every context of the device bound before.
Bind(d) == bound' = d /\ ctxs' = {}

-----------------------------------------------------------------------------
BugCallDiscover(t) ==
  /\ pc[t] = "idle" /\ gil = None
  /\ gil' = t
  /\ ClearDiscovered
  /\ Go(t, "dlock")
  /\ UNCHANGED <<lock, target, todo, cur, firmware>>

CallDiscover(t) ==
  /\ pc[t] = "idle" /\ gil = None
  /\ gil' = t
  /\ Go(t, "dlock")
  /\ UNCHANGED <<lock, target, todo, cur, devices, hal, firmware>>

\* std::lock_guard on execution_mutex_.
Unlocked == lock = None

\* clear_discovered_devices, then scan_pci_devices.
DiscoverLock(t) ==
  /\ pc[t] = "dlock" /\ Unlocked
  /\ lock' = t
  /\ ClearDiscovered
  /\ todo' = Devs /\ reset' = {}
  /\ Go(t, "scan")
  /\ UNCHANGED <<gil, target, cur, ready>>

\* mmap_bar_space, which may map nothing; bind_device for an Atlas.
MapBars(t, d) ==
  /\ pc[t] = "scan" /\ d \in todo
  /\ todo' = todo \ {d}
  /\ cur' = d
  /\ maps' \in {maps, maps \cup {d}}
  /\ IF d \in Atlas
     THEN Bind(d) /\ Go(t, "ready")
     ELSE Go(t, "register") /\ UNCHANGED <<bound, ctxs>>
  /\ UNCHANGED <<gil, lock, target, devices, firmware>>

\* wait_system_ready read IP_INIT_DONE from the device's BAR0.
IsReady(d) == d \in maps /\ d \in ready

SystemReady(t) ==
  /\ pc[t] = "ready" /\ IsReady(cur)
  /\ Go(t, "resource")
  /\ UNCHANGED <<gil, lock, target, todo, cur, devices, hal, firmware>>

BugNotReady(t) ==
  /\ pc[t] = "ready" /\ cur \notin maps
  /\ Go(t, "scan")
  /\ UNCHANGED <<gil, lock, target, todo, cur, devices, hal, firmware>>

\* The unlock write fails (BAR0 is not mapped, or only for reading), or the
\* deadline passes: discovery goes to the next function.
NotReady(t) ==
  /\ pc[t] = "ready"
  /\ Go(t, "scan")
  /\ UNCHANGED <<gil, lock, target, todo, cur, devices, hal, firmware>>

\* read_atlas_resource_info, valid or not.
ReadResource(t) ==
  /\ pc[t] = "resource"
  /\ Go(t, "register") \/ Go(t, "scan")
  /\ UNCHANGED <<gil, lock, target, todo, cur, devices, hal, firmware>>

\* The TPUDevice is built and registered under the next index.
Register(t) ==
  /\ pc[t] = "register"
  /\ devices' = Append(devices, [dev |-> cur, mapped |-> cur \in maps])
  /\ Go(t, "scan")
  /\ UNCHANGED <<gil, lock, target, todo, cur, hal, firmware>>

ScanEnds(t) ==
  /\ pc[t] = "scan" /\ todo = {}
  /\ lock' = None
  /\ cur' = None
  /\ Go(t, "leave")
  /\ UNCHANGED <<gil, target, todo, devices, hal, firmware>>

\* device_tree_to_dict under the interpreter lock, then back to Python.
Leave(t) ==
  /\ pc[t] = "leave"
  /\ gil' = None
  /\ Go(t, "idle")
  /\ UNCHANGED <<lock, target, todo, cur, devices, hal, firmware>>

-----------------------------------------------------------------------------
CallRun(t) ==
  /\ pc[t] = "idle" /\ gil = None
  /\ gil' = t
  /\ Go(t, "args")
  /\ UNCHANGED <<lock, target, todo, cur, devices, hal, firmware>>

\* py::call_guard<py::gil_scoped_release>.
ReleaseGil(t) ==
  /\ pc[t] = "args"
  /\ gil' = None
  /\ Go(t, "rlock")
  /\ UNCHANGED <<lock, target, todo, cur, devices, hal, firmware>>

\* get_target under the mutex, then bind_device; an unknown name returns.
RunLock(t) ==
  /\ pc[t] = "rlock" /\ Unlocked
  /\ lock' = t
  /\ \/ /\ \E i \in 1 .. Len(devices) :
             target' = [target EXCEPT ![t] = devices[i]] /\ Bind(devices[i].dev)
        /\ Go(t, "begin")
     \/ Go(t, "unlock") /\ UNCHANGED <<target, bound, ctxs>>
  /\ UNCHANGED <<gil, todo, cur, devices, maps, firmware>>

\* No such module, testcase or argument, or an unknown drv.
RunRejected(t) ==
  /\ pc[t] = "begin"
  /\ Go(t, "unlock")
  /\ UNCHANGED <<gil, lock, target, todo, cur, devices, hal, firmware>>

\* The HAL must be bound to the module's device, and begin_testcase refuses
\* while any context is active.
Begin(t) ==
  /\ pc[t] = "begin" /\ bound = target[t].dev /\ ctxs = {}
  /\ Go(t, "root")
  /\ UNCHANGED <<gil, lock, target, todo, cur, devices, hal, firmware>>

\* PhalBridge::create_context and create_ipc_context, when the bind and
\* phal_init they make succeed.
CreateContext(name) == ctxs' = ctxs \cup {name}

CreateIpcContext(fw) == ctxs' = ctxs \cup {fw}

\* begin_testcase: the two contexts every testcase has, those of the firmware
\* it requires, the default DMEM window.
Create(t) ==
  /\ \/ pc[t] = "root" /\ CreateContext("root") /\ Go(t, "aperture")
     \/ pc[t] = "aperture" /\ CreateContext("aperture") /\ Go(t, "ipc")
     \/ \E f \in Fws : pc[t] = "ipc" /\ CreateIpcContext(f) /\ Go(t, "ipc")
     \/ pc[t] = "ipc" /\ Go(t, "window") /\ UNCHANGED ctxs
     \/ pc[t] = "window" /\ Go(t, "running") /\ UNCHANGED ctxs
  /\ UNCHANGED <<gil, lock, target, todo, cur, devices, maps, bound, firmware>>

BugUndo(step) == IF step \in {"root", "aperture"} THEN {"root"} ELSE {"root", "aperture"}

\* What begin_testcase resets when the context of a step cannot be made.
Undo(step) == CASE step = "root" -> {}
                [] step = "aperture" -> {"root"}
                [] OTHER -> Contexts

BeginFails(t) ==
  /\ pc[t] \in Setup
  /\ ctxs' = ctxs \ Undo(pc[t])
  /\ Go(t, "unlock")
  /\ UNCHANGED <<gil, lock, target, todo, cur, devices, maps, bound, firmware>>

\* ~TestcaseScope.
Scope == {}

\* The testcase returns or throws.
Execute(t) ==
  /\ pc[t] = "running"
  /\ ctxs' = Scope
  /\ Go(t, "unlock")
  /\ UNCHANGED <<gil, lock, target, todo, cur, devices, maps, bound, firmware>>

\* A testcase resets the bus of its device, and with it the functions below
\* the same bridge; their firmware starts again, the HAL is left as it is.
SecondaryBusReset(t) ==
  /\ pc[t] = "running"
  /\ \E below \in SUBSET Devs :
       /\ bound \in below
       /\ ready' = ready \ below
       /\ reset' = reset \cup (below \cap Atlas)
  /\ UNCHANGED <<gil, lock, pc, target, todo, cur, devices, hal>>

\* execution_mutex_ is unlocked inside the call, before the guard takes the
\* interpreter lock back.
Unlock(t) ==
  /\ pc[t] = "unlock"
  /\ lock' = None
  /\ target' = [target EXCEPT ![t] = None]
  /\ Go(t, "gil")
  /\ UNCHANGED <<gil, todo, cur, devices, hal, firmware>>

ReturnRun(t) ==
  /\ pc[t] = "gil" /\ gil = None
  /\ Go(t, "idle")
  /\ UNCHANGED <<gil, lock, target, todo, cur, devices, hal, firmware>>

\* The firmware finishes initialising a device.
Boot(d) ==
  /\ d \in Atlas \ ready
  /\ ready' = ready \cup {d}
  /\ UNCHANGED <<gil, lock, pc, target, todo, cur, devices, hal, reset>>

Own(t) ==
  \/ \E d \in Devs : MapBars(t, d)
  \/ SystemReady(t) \/ NotReady(t) \/ ReadResource(t) \/ Register(t)
  \/ ScanEnds(t) \/ Leave(t) \/ ReleaseGil(t) \/ RunRejected(t) \/ Begin(t)
  \/ BeginFails(t) \/ Execute(t)

Locking(t) == DiscoverLock(t) \/ RunLock(t) \/ Unlock(t) \/ ReturnRun(t)

Next ==
  \/ \E t \in Threads :
       CallDiscover(t) \/ CallRun(t) \/ Own(t) \/ Create(t) \/ Locking(t) \/ SecondaryBusReset(t)
  \/ \E d \in Devs : Boot(d)

Spec == Init /\ [][Next]_vars

\* Threads run, and both locks are handed on; a testcase ends (its waits all
\* have deadlines).
Fairness == \A t \in Threads : WF_vars(Own(t) \/ Create(t)) /\ SF_vars(Locking(t))

FairSpec == Spec /\ Fairness
-----------------------------------------------------------------------------
\* While a testcase runs, its TPUDevice exists, its BARs are as they were
\* mapped for it, an Atlas is mapped and its firmware is up unless a testcase has
\* reset the device since discovery, and the HAL is bound to the device with the
\* contexts the testcase needs:
\* "Discovery must not invalidate mappings while a testcase is running."
RunsOnItsDevice ==
  \A t \in Threads : pc[t] = "running" =>
    /\ \E i \in 1 .. Len(devices) : devices[i] = target[t]
    /\ target[t].mapped => target[t].dev \in maps
    /\ bound = target[t].dev
    /\ {"root", "aperture"} \subseteq ctxs
    /\ target[t].dev \in Atlas => target[t].mapped /\ target[t].dev \in ready \cup reset

\* State and locks in range, and PHAL contexts "exist only while one testcase is
\* running", setup included, whatever step of the setup failed.
ContextsScoped ==
  /\ TypeOK
  /\ ctxs # {} => \E t \in Threads : lock = t /\ pc[t] \in Setup \cup {"running"}

\* Every discover and run_testcase call returns: the interpreter lock and
\* execution_mutex_ never wait for each other.
CallsReturn == \A t \in Threads : pc[t] # "idle" ~> pc[t] = "idle"
=============================================================================
