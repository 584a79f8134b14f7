------------------------------- MODULE HqcDma -------------------------------
(***************************************************************************)
(* The DMA data-transfer testcase, PCIeModule::dma_data_transfer in        *)
(* isml_diag/testcases/pcie/dma_copy.cpp, on top of AtlasPCIeImpl::dma_copy*)
(* and DmaDescriptor::execute in isml_lib/implementer/src/atlas/pcie/.     *)
(* A testcase owns DMEM and host buffers and runs one or two transfers; a  *)
(* transfer configures descriptor control and the DDP routing, writes a    *)
(* descriptor to HQC SRAM, waits for descriptor control to be idle,        *)
(* triggers it and polls a sync flag.  "example" is the one-transfer       *)
(* PCIeModule::dma_h2d_example.                                            *)
(*                                                                         *)
(* The hardware is taken at its best: it reports idle only when the        *)
(* transfer is over, and sets the flag at the same instant.  It may take   *)
(* longer than any timeout.                                                *)
(***************************************************************************)
EXTENDS Naturals, Sequences, FiniteSets

CONSTANTS
  Srams,            \* descriptor-sized ranges of HQC_SRAM_0
  Dmems, Hosts,     \* DMEM and host allocations
  Directions,       \* of the testcase argument
  Failures,         \* whether register and memory accesses can fail
  None

ASSUME ConstantsAssumption ==
  /\ Directions \subseteq {"h2d", "d2h", "h2i", "i2h", "d2i2d", "example"}
  /\ Failures \in BOOLEAN
  /\ Srams \cap (Dmems \cup Hosts) = {}
  /\ None \notin Srams

VARIABLES
  mem,              \* each allocation: free, owned or kept
  words,            \* the descriptor in each SRAM range
  addr,             \* CORE0_DESC_CTRL_FETCH_ADDR_LOW
  hw,               \* the hardware's transfer
  flag,             \* the sync flags' DONE bits
  ctrl, ddp,        \* whether the registers of init_desc_ctrl, init_ddp_ctrl are set
  test,             \* the testcase's argument, the direction
  pc, plan, own,    \* the testcase: its step, transfers left and buffers
  sram,             \* desc.descriptor_sram_
  overlap,          \* history: a transfer was in flight when execute began
  early             \* history: execute returned OK with the transfer in flight,
                    \* or discover forgot the memory kept for it

regs == <<ctrl, ddp>>

vars == <<mem, words, addr, hw, flag, ctrl, ddp, test, pc, plan, own, sram, overlap, early>>

Slots == Srams \cup Dmems \cup Hosts

\* DmaProfile, whose number in init_defaults is the sync flag.
Profiles == {"H2D", "D2H", "D2I", "I2D", "H2I", "I2H"}

\* The transfers of a direction: profile, and which of the testcase's
\* buffers each one touches.  SMEM directions have the shape of IMEM ones.
Step(p, uses) == [profile |-> p, uses |-> uses]

\* dma_h2d_example.
Example == <<Step("H2D", {"host", "device"})>>

Plan(direction) ==
  CASE direction = "example" -> Example
    [] direction = "h2d" -> <<Step("H2D", {"host", "device"})>>
    [] direction = "d2h" -> <<Step("D2H", {"host", "device"})>>
    [] direction = "h2i" -> <<Step("H2I", {"host"}), Step("I2D", {"device"})>>
    [] direction = "i2h" -> <<Step("D2I", {"device"}), Step("I2H", {"host"})>>
    [] direction = "d2i2d" -> <<Step("D2I", {"device"}), Step("I2D", {"return"})>>

\* The buffers a direction allocates.
Needs(direction) ==
  {"device"} \cup (IF direction = "d2i2d" THEN {"return"} ELSE {"host"})

Room(kind) == IF kind = "host" THEN Hosts ELSE Dmems

\* The profiles with a DMEM endpoint.
HasDmem(profile) == profile \in {"H2D", "D2H", "D2I", "I2D"}

\* A descriptor as the hardware fetches it, and whether the example wrote it.
Descriptors ==
  [profile : Profiles, uses : SUBSET (Dmems \cup Hosts), example : BOOLEAN]

\* Everything in range, and no handle of a testcase outlives it: an
\* allocation is free or retained when no testcase runs.
TypeOK ==
  /\ mem \in [Slots -> {"free", "owned", "kept"}]
  /\ words \in [Srams -> Descriptors \cup {None}]
  /\ addr \in Srams \cup {None}
  /\ hw.at \in Srams \cup {None} /\ hw.desc \in Descriptors \cup {None}
  /\ hw.state \in {"idle", "fetch", "move"}
  /\ flag \in [Profiles -> BOOLEAN]
  /\ ctrl \in BOOLEAN /\ ddp \in BOOLEAN /\ test \in Directions \cup {None}
  /\ sram \in Srams \cup {None}
  /\ pc = "idle" => sram = None /\ \A s \in Slots : mem[s] # "owned"
  /\ overlap \in BOOLEAN /\ early \in BOOLEAN

Init ==
  /\ mem = [s \in Slots |-> "free"]
  /\ words = [s \in Srams |-> None]
  /\ addr = None
  /\ hw = [state |-> "idle", at |-> None, desc |-> None]
  /\ flag \in [Profiles -> {FALSE}]
  /\ ctrl = FALSE /\ ddp = FALSE
  /\ pc = "idle" /\ test = None /\ plan = << >> /\ own = << >>
  /\ sram = None /\ overlap = FALSE /\ early = FALSE

-----------------------------------------------------------------------------
\* mem after the testcase's handles go out of scope, with those of kept
\* retained and the others released.
Released(kept) ==
  [s \in Slots |-> IF s \in kept THEN "kept"
                   ELSE IF mem[s] = "owned" THEN "free" ELSE mem[s]]

BugKeptOnFailure == {}

\* keep_device_buffers: the DMEM allocations of the testcase.  The example
\* has no such step.
KeptOnFailure ==
  IF test = "example" THEN {} ELSE {own[k] : k \in DOMAIN own} \cap Dmems

\* The testcase returns; kept are the allocations that outlive it.
Return(kept) ==
  /\ mem' = Released(kept)
  /\ pc' = "idle" /\ test' = None /\ plan' = << >> /\ own' = << >> /\ sram' = None
  /\ overlap' = FALSE

\* A transfer failed with the descriptor's SRAM range not retained.
FailTransfer ==
  /\ Return(KeptOnFailure)
  /\ UNCHANGED <<words, hw, flag, early>>

\* The buffers are allocated; without room the testcase returns at once and
\* changes nothing.
Start(direction) ==
  /\ pc = "idle"
  /\ \E o \in [Needs(direction) -> Dmems \cup Hosts] :
       /\ \A k \in Needs(direction) : o[k] \in Room(k) /\ mem[o[k]] = "free"
       /\ \A j, k \in Needs(direction) : o[j] = o[k] => j = k
       /\ own' = o
       /\ mem' = [s \in Slots |->
                    IF \E k \in Needs(direction) : o[k] = s THEN "owned" ELSE mem[s]]
  /\ test' = direction /\ plan' = Plan(direction)
  /\ pc' = "prepare"
  /\ UNCHANGED <<regs, words, addr, hw, flag, sram, overlap, early>>

\* prepare fills the source and reads it back.
Prepare ==
  /\ pc = "prepare"
  /\ pc' = "describe"
  /\ UNCHANGED <<regs, test, mem, words, addr, hw, flag, plan, own, sram, overlap, early>>

PrepareFails ==
  /\ pc = "prepare" /\ Failures
  /\ Return({})
  /\ UNCHANGED <<regs, words, addr, hw, flag, early>>

\* A new engine and descriptor: init_desc_ctrl sets the controller up and
\* zeroes the fetch address.
Describe ==
  /\ pc = "describe"
  /\ ctrl' = TRUE /\ addr' = None
  /\ overlap' = (hw.state # "idle")
  /\ pc' = "finalize"
  /\ UNCHANGED <<ddp, test, mem, words, hw, flag, plan, own, sram, early>>

\* Some of init_desc_ctrl's writes fail, the others are made; finalize
\* returns init_status_.
DescribeFails ==
  /\ pc = "describe" /\ Failures
  /\ addr' \in {addr, None}
  /\ FailTransfer
  /\ UNCHANGED regs

\* finalize: a transfer from or to DMEM needs init_ddp_ctrl.
Finalize ==
  /\ pc = "finalize"
  /\ ddp' = (ddp \/ HasDmem(Head(plan).profile))
  /\ pc' = "clear"
  /\ UNCHANGED <<ctrl, test, mem, words, addr, hw, flag, plan, own, sram, overlap, early>>

\* An endpoint is refused, or a write of init_ddp_ctrl fails.
FinalizeFails ==
  /\ pc = "finalize" /\ Failures
  /\ FailTransfer
  /\ UNCHANGED <<regs, addr>>

BugClear ==
  /\ pc = "clear"
  /\ pc' = "copy"
  /\ UNCHANGED <<regs, test, mem, words, addr, hw, flag, plan, own, sram, overlap, early>>

\* execute: "Clear previous sync flag".
Clear ==
  /\ pc = "clear"
  /\ flag' = [flag EXCEPT ![Head(plan).profile] = FALSE]
  /\ pc' = "copy"
  /\ UNCHANGED <<regs, test, mem, words, addr, hw, plan, own, sram, overlap, early>>

\* copy_descriptor: a range of SRAM and the descriptor in it.
CopyDescriptor ==
  /\ pc = "copy"
  /\ \E s \in Srams :
       /\ mem[s] = "free"
       /\ mem' = [mem EXCEPT ![s] = "owned"]
       /\ sram' = s
       /\ words' = [words EXCEPT ![s] =
            [profile |-> Head(plan).profile,
             uses |-> {own[k] : k \in Head(plan).uses}, example |-> test = "example"]]
  /\ pc' = "poll idle"
  /\ UNCHANGED <<regs, test, addr, hw, flag, plan, own, overlap, early>>

\* device_mem_alloc finds no room.
NoSram ==
  /\ pc = "copy" /\ \A s \in Srams : mem[s] # "free"
  /\ FailTransfer
  /\ UNCHANGED <<regs, addr>>

\* The idle bit.
Idle == hw.state = "idle"

\* send_descriptor, the idle poll and the fetch registers.
PollIdle ==
  /\ pc = "poll idle" /\ Idle
  /\ addr' = sram
  /\ pc' = "trigger"
  /\ UNCHANGED <<regs, test, mem, words, hw, flag, plan, own, sram, overlap, early>>

IdleTimeout ==
  /\ pc = "poll idle" /\ ~ Idle
  /\ FailTransfer
  /\ UNCHANGED <<regs, addr>>

\* The trigger; addr is captured by the hardware.
Trigger ==
  /\ pc = "trigger"
  /\ hw' = [state |-> "fetch", at |-> addr, desc |-> None]
  /\ pc' = "wait"
  /\ UNCHANGED <<regs, test, mem, words, addr, flag, plan, own, sram, overlap, early>>

\* One of the four writes fails.  The others are made all the same, so the
\* hardware may have been triggered, at the old address or the new.
TriggerFails ==
  /\ pc = "poll idle" /\ Idle /\ Failures
  /\ \E a \in {addr, sram} :
       /\ addr' = a
       /\ hw' \in {hw, [state |-> "fetch", at |-> a, desc |-> None]}
       /\ a = None => hw' = hw
  /\ Return(KeptOnFailure)
  /\ UNCHANGED <<regs, words, flag, early>>

\* An access before the trigger fails: finalize, clear_sync_flag_done,
\* mem_write, the idle register.
AccessFails ==
  /\ pc \in {"clear", "copy", "poll idle"} /\ Failures
  /\ FailTransfer
  /\ UNCHANGED <<regs, addr>>

\* wait_sync_flag.
Wait ==
  /\ pc = "wait" /\ flag[Head(plan).profile]
  /\ early' = (early \/ hw.state # "idle")
  /\ pc' = "release"
  /\ UNCHANGED <<regs, test, mem, words, addr, hw, flag, plan, own, sram, overlap>>

\* What a failed wait retains: the testcase's device buffers, and the
\* descriptor "while hardware may still read it".
Retained == KeptOnFailure \cup {sram}

WaitFails ==
  /\ pc = "wait"
  /\ Failures \/ ~ flag[Head(plan).profile]
  /\ Return(Retained)
  /\ UNCHANGED <<regs, words, addr, hw, flag, early>>

\* clear_completion and the release of the descriptor; then the next
\* transfer or the comparison.
Release ==
  /\ pc = "release"
  /\ flag' = [flag EXCEPT ![Head(plan).profile] = FALSE]
  /\ mem' = [mem EXCEPT ![sram] = "free"]
  /\ sram' = None
  /\ plan' = Tail(plan)
  /\ pc' = IF Len(plan) = 1 THEN "verify" ELSE "describe"
  /\ UNCHANGED <<regs, test, words, addr, hw, own, overlap, early>>

ReleaseFails ==
  /\ pc = "release" /\ Failures
  /\ FailTransfer
  /\ UNCHANGED <<regs, addr>>

\* mem_read and compare: whatever they find, the buffers are released.
Verify ==
  /\ pc = "verify"
  /\ Return({})
  /\ UNCHANGED <<regs, words, addr, hw, flag, early>>

-----------------------------------------------------------------------------
\* The hardware.
Fetch ==
  /\ hw.state = "fetch"
  /\ hw' = [state |-> IF words[hw.at] = None THEN "idle" ELSE "move",
            at |-> None, desc |-> words[hw.at]]
  /\ UNCHANGED <<regs, test, mem, words, addr, flag, pc, plan, own, sram, overlap, early>>

Complete ==
  /\ hw.state = "move"
  /\ hw' = [state |-> "idle", at |-> None, desc |-> None]
  /\ flag' = [flag EXCEPT ![hw.desc.profile] = TRUE]
  /\ early' = FALSE
  /\ UNCHANGED <<regs, test, mem, words, addr, pc, plan, own, sram, overlap>>

\* The device is reset between testcases.
Reset ==
  /\ pc = "idle"
  /\ hw' = [state |-> "idle", at |-> None, desc |-> None]
  /\ flag' = [p \in Profiles |-> FALSE]
  /\ ctrl' = FALSE /\ ddp' = FALSE /\ addr' = None
  /\ words' = [s \in Srams |-> None]
  /\ early' = FALSE
  /\ UNCHANGED <<mem, test, pc, plan, own, sram, overlap>>

-----------------------------------------------------------------------------
\* discover: memory is kept "until device teardown" (DevMem.h:67), that is until
\* HalContext::clear and a new, empty DeviceMemoryState.  The hardware is not
\* touched: whether it was reset first is up to the user.
Rediscover ==
  /\ pc = "idle"
  /\ mem' = [s \in Slots |-> "free"]
  /\ early' = (early \/ hw.state # "idle")
  /\ UNCHANGED <<regs, words, addr, hw, flag, test, pc, plan, own, sram, overlap>>

Host ==
  \/ Prepare \/ PrepareFails \/ Describe \/ DescribeFails
  \/ Finalize \/ FinalizeFails \/ Clear \/ CopyDescriptor
  \/ NoSram \/ PollIdle \/ IdleTimeout \/ Trigger \/ TriggerFails
  \/ AccessFails \/ Wait \/ WaitFails \/ Release \/ ReleaseFails \/ Verify

Next ==
  \/ \E direction \in Directions : Start(direction)
  \/ Host \/ Fetch \/ Complete \/ Reset \/ Rediscover

Spec == Init /\ [][Next]_vars
-----------------------------------------------------------------------------
\* State in range; descriptor control is triggered only when it is idle and
\* set up, with the DDP routing a DMEM endpoint needs, also in the first
\* transfer after a reset; and execute reports completion with its transfer
\* still in flight only if some earlier transfer had outlived its timeout when
\* execute began.
CompletionIsOwn ==
  /\ TypeOK
  /\ pc = "trigger" =>
       /\ hw.state = "idle" /\ ctrl
       /\ HasDmem(Head(plan).profile) => ddp
  /\ pc = "release" /\ hw.state # "idle" => overlap

\* The hardware works on DMEM that dma_data_transfer gave up only if execute
\* took another completion for this transfer's, or the device was discovered
\* again without a reset: every failure path retains the device buffers.
DeviceKept ==
  hw.state = "move" /\ ~ hw.desc.example =>
    early \/ \A s \in hw.desc.uses \cap Dmems : mem[s] # "free"
=============================================================================
