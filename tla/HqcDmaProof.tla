----------------------------- MODULE HqcDmaProof -----------------------------
(***************************************************************************)
(* Proofs about HqcDma for any SRAM ranges, any DMEM and host allocations  *)
(* and any set of directions, with failing accesses or without; and about  *)
(* HostMem, the host memory its transfers use, for any number of           *)
(* allocations, objects, pages and frames.                                 *)
(***************************************************************************)
EXTENDS HqcDma, HostMem, TLAPS

-----------------------------------------------------------------------------
Pcs == {"idle", "prepare", "describe", "finalize", "clear", "copy", "poll idle",
        "trigger", "wait", "release", "verify"}

\* The steps with a transfer to make, and those with its descriptor in SRAM.
Planned == Pcs \ {"idle", "verify"}
Placed == {"poll idle", "trigger", "wait", "release"}

Buffers == {"device", "return", "host"}
PlanSteps == [profile : Profiles, uses : SUBSET Buffers]

Shape ==
  /\ mem \in [Slots -> {"free", "owned", "kept"}]
  /\ words \in [Srams -> Descriptors \cup {None}]
  /\ addr \in Srams \cup {None}
  /\ hw \in [state : {"idle", "fetch", "move"}, at : Srams \cup {None},
             desc : Descriptors \cup {None}]
  /\ flag \in [Profiles -> BOOLEAN]
  /\ ctrl \in BOOLEAN /\ ddp \in BOOLEAN /\ overlap \in BOOLEAN /\ early \in BOOLEAN
  /\ test \in Directions \cup {None} /\ sram \in Srams \cup {None}
  /\ pc \in Pcs /\ plan \in Seq(PlanSteps)

\* The testcase: its transfers, its buffers, its descriptor.
TestInv ==
  /\ pc = "idle" => sram = None
  /\ pc # "idle" => test \in Directions /\ own \in [Needs(test) -> Dmems \cup Hosts]
  /\ pc \in Planned => plan # <<>>
  /\ \A i \in DOMAIN plan : plan[i].uses \subseteq Needs(test)
  /\ pc \in Placed => sram \in Srams
  /\ pc \in {"poll idle", "trigger"} =>
       /\ words[sram] \in Descriptors
       /\ words[sram].uses \subseteq {own[k] : k \in DOMAIN own}
       /\ words[sram].example <=> test = "example"

\* Memory is owned by the running testcase, and its buffers are.
MemInv ==
  /\ pc = "idle" => \A s \in Slots : mem[s] # "owned"
  /\ pc # "idle" => /\ \A k \in DOMAIN own : mem[own[k]] = "owned"
                    /\ \A s \in Dmems : mem[s] = "owned" => \E k \in DOMAIN own : own[k] = s

\* Descriptor control: what is set up at each step, and when it is idle.
HwInv ==
  /\ hw.state = "fetch" => hw.at \in Srams
  /\ hw.state = "move" => hw.desc \in Descriptors
  /\ pc \in {"finalize", "clear", "copy", "poll idle"} => addr = None
  /\ pc \in {"finalize", "clear", "copy", "poll idle", "trigger"} => ctrl
  /\ pc \in {"clear", "copy", "poll idle", "trigger"} /\ HasDmem(Head(plan).profile) => ddp
  /\ pc = "trigger" => hw.state = "idle" /\ addr = sram
  /\ pc \in {"release", "verify"} => early \/ hw.state = "idle"

\* Without an earlier transfer in flight, the flag is this transfer's own.
FlagInv ==
  ~ overlap =>
    /\ pc \in {"finalize", "clear", "copy", "poll idle", "trigger", "release"} =>
         hw.state = "idle"
    /\ pc \in {"copy", "poll idle", "trigger"} => ~ flag[Head(plan).profile]
    /\ pc = "wait" /\ hw.state # "idle" => ~ flag[Head(plan).profile]

\* A descriptor the hardware has or is about to fetch, and the memory it uses:
\* kept, or owned by a testcase whose failure keeps it.
InFlight(d) ==
  \/ hw.state = "fetch" /\ d = words[hw.at]
  \/ hw.state = "move" /\ d = hw.desc

Guarded(s) ==
  \/ mem[s] = "kept"
  \/ mem[s] = "owned" /\ pc \notin {"prepare", "verify"} /\ test # "example"

FlightInv ==
  early \/ \A d \in Descriptors :
             InFlight(d) /\ ~ d.example => \A s \in d.uses \cap Dmems : Guarded(s)

\* The inductive invariant.
IInv == Shape /\ TestInv /\ MemInv /\ HwInv /\ FlagInv /\ FlightInv

-----------------------------------------------------------------------------
\* The transfer at hand.
LEMMA Transfer ==
  ASSUME IInv, pc \in Planned
  PROVE  /\ Head(plan) \in PlanSteps /\ Head(plan).profile \in Profiles
         /\ Head(plan).uses \subseteq Needs(test) /\ Len(plan) \in Nat \ {0}
<1>1. /\ plan \in Seq(PlanSteps) /\ plan # <<>>
      /\ \A i \in DOMAIN plan : plan[i].uses \subseteq Needs(test)
  BY Zenon DEF IInv, Shape, TestInv
<1>2. /\ Head(plan) \in PlanSteps /\ Head(plan) = plan[1]
      /\ 1 \in DOMAIN plan /\ Len(plan) \in Nat \ {0}
  BY <1>1
<1> QED
  BY <1>1, <1>2, Zenon DEF PlanSteps

\* The buffers of a testcase are not SRAM.
LEMMA Buffered ==
  ASSUME IInv, pc # "idle"
  PROVE  /\ test \in Directions /\ DOMAIN own = Needs(test)
         /\ \A k \in DOMAIN own : own[k] \in Dmems \cup Hosts /\ own[k] \notin Srams
<1>1. test \in Directions /\ own \in [Needs(test) -> Dmems \cup Hosts]
  BY Zenon DEF IInv, TestInv
<1>2. \A x \in Dmems \cup Hosts : x \notin Srams
  BY ConstantsAssumption, Zenon
<1> QED
  BY <1>1, <1>2, Zenon

\* What is in flight stays guarded when only the step changes.
LEMMA FlightKept ==
  ASSUME FlightInv, UNCHANGED <<hw, words, mem, early, test>>,
         pc' \notin {"prepare", "verify"}
  PROVE  FlightInv'
BY Zenon DEF FlightInv, InFlight, Guarded

\* Steps of a testcase that touch neither the hardware nor memory.
LEMMA AdvanceIInv ==
  ASSUME IInv, pc \in {"prepare", "describe", "finalize", "clear", "poll idle"},
         pc' \in {"describe", "finalize", "clear", "copy", "trigger"},
         pc' = "trigger" => pc = "poll idle",
         UNCHANGED <<mem, words, test, own, plan, sram, hw, early>>,
         addr' \in Srams \cup {None}, flag' \in [Profiles -> BOOLEAN],
         ctrl' \in BOOLEAN, ddp' \in BOOLEAN, overlap' \in BOOLEAN,
         HwInv', FlagInv'
  PROVE  IInv'
<1>1. /\ pc \in Planned /\ pc' \in Planned /\ pc # "idle" /\ pc' # "idle" /\ pc' \in Pcs
      /\ pc' \in Placed => pc = "poll idle" /\ pc \in Placed
      /\ pc' \notin {"prepare", "verify"} /\ pc' # "poll idle"
  BY Zenon DEF Pcs, Planned, Placed
<1>2. Shape'
  BY <1>1, Zenon DEF IInv, Shape
<1>3. TestInv'
  BY <1>1, Zenon DEF IInv, TestInv
<1>4. MemInv'
  BY <1>1, Zenon DEF IInv, MemInv
<1>5. FlightInv'
  BY <1>1, FlightKept, Zenon DEF IInv
<1> QED
  BY <1>2, <1>3, <1>4, <1>5, Zenon DEF IInv

LEMMA PrepareIInv ==
  ASSUME IInv, Prepare
  PROVE  IInv'
<1>1. /\ pc = "prepare" /\ pc' = "describe"
      /\ UNCHANGED <<ctrl, ddp, test, mem, words, addr, hw, flag>>
      /\ UNCHANGED <<plan, own, sram, overlap, early>>
  BY Zenon DEF Prepare, regs
<1>2. HwInv' /\ FlagInv'
  BY <1>1, Zenon DEF IInv, HwInv, FlagInv
<1>3. Shape
  BY Zenon DEF IInv
<1> QED
  BY <1>1, <1>2, <1>3, AdvanceIInv, Zenon DEF Shape

LEMMA DescribeIInv ==
  ASSUME IInv, Describe
  PROVE  IInv'
<1>1. /\ pc = "describe" /\ pc' = "finalize" /\ ctrl' = TRUE /\ addr' = None
      /\ overlap' = (hw.state # "idle")
      /\ UNCHANGED <<ddp, test, mem, words, hw, flag, plan, own, sram, early>>
  BY Zenon DEF Describe
<1>2. HwInv' /\ FlagInv'
  BY <1>1, Zenon DEF IInv, HwInv, FlagInv
<1>3. Shape
  BY Zenon DEF IInv
<1>4. overlap' \in BOOLEAN
  BY <1>1, Zenon
<1> QED
  BY <1>1, <1>2, <1>3, <1>4, AdvanceIInv, Zenon DEF Shape

LEMMA FinalizeIInv ==
  ASSUME IInv, Finalize
  PROVE  IInv'
<1>1. /\ pc = "finalize" /\ pc' = "clear"
      /\ ddp' = (ddp \/ HasDmem(Head(plan).profile))
      /\ UNCHANGED <<ctrl, test, mem, words, addr, hw, flag>>
      /\ UNCHANGED <<plan, own, sram, overlap, early>>
  BY Zenon DEF Finalize
<1>2. HwInv' /\ FlagInv'
  BY <1>1, Zenon DEF IInv, HwInv, FlagInv
<1>3. Shape
  BY Zenon DEF IInv
<1>4. ddp' \in BOOLEAN
  BY <1>1, Zenon
<1> QED
  BY <1>1, <1>2, <1>3, <1>4, AdvanceIInv, Zenon DEF Shape

LEMMA ClearIInv ==
  ASSUME IInv, Clear
  PROVE  IInv'
<1>1. /\ pc = "clear" /\ pc' = "copy" /\ flag' = [flag EXCEPT ![Head(plan).profile] = FALSE]
      /\ UNCHANGED <<ctrl, ddp, test, mem, words, addr, hw, plan, own, sram, overlap, early>>
  BY Zenon DEF Clear, regs
<1>2. pc \in Planned
  BY <1>1, Zenon DEF Planned, Pcs
<1>3. Shape /\ Head(plan).profile \in Profiles
  BY <1>2, Transfer, Zenon DEF IInv
<1>4. flag' \in [Profiles -> BOOLEAN] /\ flag'[Head(plan).profile] = FALSE
  BY <1>1, <1>3, Zenon DEF Shape
<1>5. HwInv' /\ FlagInv'
  BY <1>1, <1>4, Zenon DEF IInv, HwInv, FlagInv
<1> QED
  BY <1>1, <1>3, <1>4, <1>5, AdvanceIInv, Zenon DEF Shape

LEMMA PollIdleIInv ==
  ASSUME IInv, PollIdle
  PROVE  IInv'
<1>1. /\ pc = "poll idle" /\ hw.state = "idle" /\ addr' = sram /\ pc' = "trigger"
      /\ UNCHANGED <<ctrl, ddp, test, mem, words, hw, flag>>
      /\ UNCHANGED <<plan, own, sram, overlap, early>>
  BY Zenon DEF PollIdle, Idle, regs
<1>2. HwInv' /\ FlagInv'
  BY <1>1, Zenon DEF IInv, HwInv, FlagInv
<1>3. Shape
  BY Zenon DEF IInv
<1> QED
  BY <1>1, <1>2, <1>3, AdvanceIInv, Zenon DEF Shape

-----------------------------------------------------------------------------
\* The descriptor goes into a free range.  It may be one the hardware is about
\* to fetch for an earlier transfer: then it fetches this one.
LEMMA CopyIInv ==
  ASSUME IInv, CopyDescriptor
  PROVE  IInv'
<1> DEFINE D == [profile |-> Head(plan).profile,
                 uses |-> {own[k] : k \in Head(plan).uses}, example |-> test = "example"]
<1>1. PICK s \in Srams : /\ mem[s] = "free" /\ mem' = [mem EXCEPT ![s] = "owned"]
                         /\ sram' = s /\ words' = [words EXCEPT ![s] = D]
  BY Zenon DEF CopyDescriptor
<1>2. /\ pc = "copy" /\ pc' = "poll idle"
      /\ UNCHANGED <<ctrl, ddp, test, addr, hw, flag, plan, own, overlap, early>>
  BY Zenon DEF CopyDescriptor, regs
<1>a. pc \in Planned /\ pc # "idle" /\ pc' \in Pcs /\ pc' # "idle"
  BY <1>2, Zenon DEF Planned, Pcs
<1>b. Shape /\ TestInv /\ MemInv /\ HwInv /\ FlagInv /\ FlightInv
  BY Zenon DEF IInv
<1>c. /\ Head(plan).profile \in Profiles /\ Head(plan).uses \subseteq DOMAIN own
      /\ \A k \in DOMAIN own : own[k] \in Dmems \cup Hosts /\ own[k] \notin Srams
  BY <1>a, Transfer, Buffered, Zenon
<1>d. /\ D.uses = {own[k] : k \in Head(plan).uses} /\ D.profile = Head(plan).profile
      /\ D.example <=> test = "example"
  BY Zenon
<1>e. D.uses \subseteq {own[k] : k \in DOMAIN own} /\ D.uses \subseteq Dmems \cup Hosts
  BY <1>c, <1>d, Zenon
<1>f. D \in Descriptors
  <2>1. (test = "example") \in BOOLEAN
    BY Zenon
  <2>2. {own[k] : k \in Head(plan).uses} \in SUBSET (Dmems \cup Hosts)
    BY <1>d, <1>e, Zenon
  <2> QED
    BY <1>c, <2>1, <2>2, Zenon DEF Descriptors
<1> HIDE DEF D
<1>g. /\ mem' \in [Slots -> {"free", "owned", "kept"}] /\ mem'[s] = "owned"
      /\ \A x \in Slots \ {s} : mem'[x] = mem[x]
  BY <1>1, <1>b, Zenon DEF Shape, Slots
<1>h. /\ words' \in [Srams -> Descriptors \cup {None}] /\ words'[s] = D
      /\ \A x \in Srams \ {s} : words'[x] = words[x]
  BY <1>1, <1>b, <1>f, Zenon DEF Shape
<1>i. \A x \in Dmems \cup Hosts : x \in Slots /\ x # s
  BY ConstantsAssumption, Zenon DEF Slots
<1>3. Shape'
  BY <1>1, <1>2, <1>a, <1>b, <1>g, <1>h, ZenonT(60) DEF Shape
<1>4. TestInv'
  <2>1. /\ test' \in Directions /\ own' \in [Needs(test') -> Dmems \cup Hosts] /\ plan' # <<>>
        /\ \A i \in DOMAIN plan' : plan'[i].uses \subseteq Needs(test')
    BY <1>2, <1>a, <1>b, Zenon DEF TestInv
  <2>2. /\ words'[sram'] = D /\ sram' \in Srams
        /\ D.uses \subseteq {own'[k] : k \in DOMAIN own'} /\ (D.example <=> test' = "example")
    BY <1>1, <1>2, <1>d, <1>e, <1>h, ZenonT(30)
  <2> QED
    BY <2>1, <2>2, <1>a, <1>f, Zenon DEF TestInv
<1>5. MemInv'
  BY <1>2, <1>a, <1>b, <1>c, <1>g, <1>i, ZenonT(60) DEF MemInv
<1>6. HwInv' /\ FlagInv'
  BY <1>2, <1>b, Zenon DEF HwInv, FlagInv
<1>7. FlightInv'
  <2>1. ASSUME ~ early, NEW d \in Descriptors, InFlight(d)', ~ d.example,
               NEW x \in d.uses \cap Dmems
        PROVE  Guarded(x)'
    <3>1. CASE InFlight(d)
      <4>1. Guarded(x)
        BY <2>1, <3>1, <1>b, Zenon DEF FlightInv
      <4>2. mem'[x] = mem[x] /\ pc' \notin {"prepare", "verify"} /\ test' = test
        BY <1>2, <1>g, <1>i, Zenon
      <4> QED
        BY <4>1, <4>2, Zenon DEF Guarded
    <3>2. CASE d = D
      <4>1. test # "example" /\ \E k \in DOMAIN own : x = own[k]
        BY <2>1, <3>2, <1>d, <1>e, Zenon
      <4>2. mem[x] = "owned"
        BY <4>1, <1>a, <1>b, Zenon DEF MemInv
      <4> QED
        BY <4>1, <4>2, <1>2, <1>g, <1>i, Zenon DEF Guarded
    <3>3. InFlight(d) \/ d = D
      <4>1. hw' = hw /\ (hw.state = "fetch" => hw.at \in Srams)
        BY <1>2, <1>b, Zenon DEF HwInv
      <4> QED
        BY <2>1, <4>1, <1>h, Zenon DEF InFlight
    <3> QED
      BY <3>1, <3>2, <3>3, Zenon
  <2> QED
    BY <2>1, <1>2, Zenon DEF FlightInv
<1> QED
  BY <1>3, <1>4, <1>5, <1>6, <1>7, Zenon DEF IInv

\* The hardware is given the testcase's own descriptor.
LEMMA TriggerIInv ==
  ASSUME IInv, Trigger
  PROVE  IInv'
<1>1. /\ pc = "trigger" /\ pc' = "wait"
      /\ hw' = [state |-> "fetch", at |-> addr, desc |-> None]
      /\ UNCHANGED <<ctrl, ddp, test, mem, words, addr, flag>>
      /\ UNCHANGED <<plan, own, sram, overlap, early>>
  BY Zenon DEF Trigger, regs
<1>a. /\ pc \in Planned /\ pc' \in Planned /\ pc # "idle" /\ pc' # "idle" /\ pc' \in Pcs
      /\ pc \in Placed /\ pc' \in Placed
  BY <1>1, Zenon DEF Planned, Placed, Pcs
<1>b. Shape /\ TestInv /\ MemInv /\ HwInv /\ FlagInv /\ FlightInv
  BY Zenon DEF IInv
<1>c. sram \in Srams /\ addr = sram /\ hw.state = "idle"
  BY <1>1, <1>a, <1>b, Zenon DEF TestInv, HwInv
<1>d. hw'.state = "fetch" /\ hw'.at = addr
  BY <1>1, Zenon
<1>2. Shape'
  <2>1. hw' \in [state : {"idle", "fetch", "move"}, at : Srams \cup {None},
                 desc : Descriptors \cup {None}]
    BY <1>1, <1>c, Zenon
  <2> QED
    BY <1>1, <1>a, <1>b, <2>1, Zenon DEF Shape
<1>3. TestInv'
  BY <1>1, <1>a, <1>b, Zenon DEF TestInv
<1>4. MemInv'
  BY <1>1, <1>a, <1>b, Zenon DEF MemInv
<1>5. HwInv' /\ FlagInv'
  BY <1>1, <1>b, <1>c, <1>d, Zenon DEF HwInv, FlagInv
<1>6. FlightInv'
  <2>1. ASSUME NEW d \in Descriptors, InFlight(d)', ~ d.example, NEW x \in d.uses \cap Dmems
        PROVE  Guarded(x)'
    <3>1. d = words[sram]
      BY <2>1, <1>1, <1>c, <1>d, Zenon DEF InFlight
    <3>2. test # "example" /\ \E k \in DOMAIN own : x = own[k]
      BY <2>1, <3>1, <1>1, <1>b, Zenon DEF TestInv
    <3>3. mem[x] = "owned"
      BY <3>2, <1>a, <1>b, Zenon DEF MemInv
    <3> QED
      BY <3>2, <3>3, <1>1, Zenon DEF Guarded
  <2> QED
    BY <2>1, Zenon DEF FlightInv
<1> QED
  BY <1>2, <1>3, <1>4, <1>5, <1>6, Zenon DEF IInv

LEMMA WaitIInv ==
  ASSUME IInv, Wait
  PROVE  IInv'
<1>1. /\ pc = "wait" /\ flag[Head(plan).profile] /\ early' = (early \/ hw.state # "idle")
      /\ pc' = "release"
      /\ UNCHANGED <<ctrl, ddp, test, mem, words, addr, hw, flag, plan, own, sram, overlap>>
  BY Zenon DEF Wait, regs
<1>a. /\ pc \in Planned /\ pc' \in Planned /\ pc # "idle" /\ pc' # "idle" /\ pc' \in Pcs
      /\ pc \in Placed /\ pc' \in Placed
  BY <1>1, Zenon DEF Planned, Placed, Pcs
<1>b. Shape /\ TestInv /\ MemInv /\ HwInv /\ FlagInv /\ FlightInv
  BY Zenon DEF IInv
<1>2. Shape'
  <2>1. early' \in BOOLEAN
    BY <1>1, Zenon
  <2> QED
    BY <1>1, <1>a, <1>b, <2>1, ZenonT(30) DEF Shape
<1>3. TestInv'
  BY <1>1, <1>a, <1>b, Zenon DEF TestInv
<1>4. MemInv'
  BY <1>1, <1>a, <1>b, Zenon DEF MemInv
<1>5. HwInv' /\ FlagInv'
  BY <1>1, <1>b, Zenon DEF HwInv, FlagInv
<1>6. FlightInv'
  <2>1. ~ early' => hw'.state = "idle"
    BY <1>1, Zenon
  <2> QED
    BY <2>1, Zenon DEF FlightInv, InFlight
<1> QED
  BY <1>2, <1>3, <1>4, <1>5, <1>6, Zenon DEF IInv

\* The next transfer, or the comparison.
LEMMA ReleaseIInv ==
  ASSUME IInv, Release
  PROVE  IInv'
<1>1. /\ pc = "release" /\ flag' = [flag EXCEPT ![Head(plan).profile] = FALSE]
      /\ mem' = [mem EXCEPT ![sram] = "free"] /\ sram' = None /\ plan' = Tail(plan)
      /\ pc' = (IF Len(plan) = 1 THEN "verify" ELSE "describe")
      /\ UNCHANGED <<ctrl, ddp, test, words, addr, hw, own, overlap, early>>
  BY Zenon DEF Release, regs
<1>a. /\ pc \in Planned /\ pc # "idle" /\ pc' # "idle" /\ pc' \in Pcs /\ pc \in Placed
      /\ pc' \in {"verify", "describe"} /\ pc' \notin Placed /\ "verify" \notin Planned
  BY <1>1, Zenon DEF Planned, Placed, Pcs
<1>b. Shape /\ TestInv /\ MemInv /\ HwInv /\ FlagInv /\ FlightInv
  BY Zenon DEF IInv
<1>c. sram \in Srams /\ Head(plan).profile \in Profiles /\ Len(plan) \in Nat \ {0}
  BY <1>a, <1>b, Transfer, Zenon DEF TestInv
<1>d. \A k \in DOMAIN own : own[k] \in Slots /\ own[k] # sram
  BY <1>a, <1>c, Buffered, Zenon DEF Slots
<1>e. /\ mem' \in [Slots -> {"free", "owned", "kept"}]
      /\ \A x \in Slots \ {sram} : mem'[x] = mem[x]
  BY <1>1, <1>b, Zenon DEF Shape, Slots
<1>f. \A x \in Dmems : x \in Slots /\ x # sram
  BY <1>c, ConstantsAssumption, Zenon DEF Slots
<1>g. /\ plan' \in Seq(PlanSteps) /\ (pc' = "describe" => plan' # <<>>)
      /\ \A i \in DOMAIN plan' : i + 1 \in DOMAIN plan /\ plan'[i] = plan[i + 1]
  <2>1. plan \in Seq(PlanSteps) /\ plan # <<>>
    BY <1>a, <1>b, Zenon DEF Shape, TestInv
  <2>2. /\ Tail(plan) \in Seq(PlanSteps) /\ Len(Tail(plan)) = Len(plan) - 1
        /\ \A i \in 1 .. Len(plan) - 1 : Tail(plan)[i] = plan[i + 1]
    BY <2>1
  <2>3. DOMAIN plan' = 1 .. Len(plan) - 1 /\ DOMAIN plan = 1 .. Len(plan)
    BY <2>1, <2>2, <1>1
  <2>4. \A i \in 1 .. Len(plan) - 1 : i + 1 \in 1 .. Len(plan)
    BY <1>c
  <2>5. pc' = "describe" => plan' # <<>>
    <3>1. pc' = "describe" => Len(plan) # 1
      BY <1>1, Zenon
    <3>2. Len(plan) # 1 => Len(plan') # 0
      BY <2>2, <1>1, <1>c
    <3>3. plan' = <<>> => Len(plan') = 0
      OBVIOUS
    <3> QED
      BY <3>1, <3>2, <3>3, Zenon
  <2> QED
    BY <1>1, <2>2, <2>3, <2>4, <2>5, Zenon
<1>2. Shape'
  <2>1. flag' \in [Profiles -> BOOLEAN]
    BY <1>1, <1>b, <1>c, Zenon DEF Shape
  <2> QED
    BY <1>1, <1>a, <1>b, <1>e, <1>g, <2>1, ZenonT(30) DEF Shape
<1>3. TestInv'
  <2>1. \A i \in DOMAIN plan' : plan'[i].uses \subseteq Needs(test')
    BY <1>1, <1>b, <1>g, Zenon DEF TestInv
  <2>2. pc' \in Planned => plan' # <<>>
    BY <1>a, <1>g, Zenon
  <2> QED
    BY <1>1, <1>a, <1>b, <2>1, <2>2, Zenon DEF TestInv
<1>4. MemInv'
  <2>1. \A k \in DOMAIN own' : mem'[own'[k]] = "owned"
    BY <1>1, <1>a, <1>b, <1>d, <1>e, Zenon DEF MemInv
  <2>2. \A x \in Dmems : mem'[x] = "owned" => \E k \in DOMAIN own' : own'[k] = x
    BY <1>1, <1>a, <1>b, <1>e, <1>f, Zenon DEF MemInv
  <2> QED
    BY <1>a, <2>1, <2>2, Zenon DEF MemInv
<1>5. HwInv' /\ FlagInv'
  <2>1. (early \/ hw.state = "idle") /\ UNCHANGED <<hw, early>>
    BY <1>1, <1>b, Zenon DEF HwInv
  <2> QED
    BY <1>a, <1>b, <2>1, Zenon DEF HwInv, FlagInv
<1>6. FlightInv'
  <2>1. early' \/ hw'.state = "idle"
    BY <1>1, <1>b, Zenon DEF HwInv
  <2> QED
    BY <2>1, Zenon DEF FlightInv, InFlight
<1> QED
  BY <1>2, <1>3, <1>4, <1>5, <1>6, Zenon DEF IInv

\* The plan of every direction uses only buffers the direction allocates.
LEMMA PlanType ==
  ASSUME NEW d \in Directions
  PROVE  /\ Plan(d) \in Seq(PlanSteps) /\ Plan(d) # <<>>
         /\ \A i \in DOMAIN Plan(d) : Plan(d)[i].uses \subseteq Needs(d)
<1>1. d \in {"h2d", "d2h", "h2i", "i2h", "d2i2d", "example"}
  BY ConstantsAssumption, Zenon
<1> USE DEF Plan, Example, Step, PlanSteps, Profiles, Buffers, Needs
<1>2. CASE d = "example"
  BY <1>2
<1>3. CASE d = "h2d"
  BY <1>3
<1>4. CASE d = "d2h"
  BY <1>4
<1>5. CASE d = "h2i"
  BY <1>5
<1>6. CASE d = "i2h"
  BY <1>6
<1>7. CASE d = "d2i2d"
  BY <1>7
<1> QED
  BY <1>1, <1>2, <1>3, <1>4, <1>5, <1>6, <1>7, Zenon

LEMMA StartIInv ==
  ASSUME IInv, NEW d \in Directions, Start(d)
  PROVE  IInv'
<1>1. /\ pc = "idle" /\ pc' = "prepare" /\ test' = d /\ plan' = Plan(d)
      /\ UNCHANGED <<ctrl, ddp, words, addr, hw, flag, sram, overlap, early>>
  BY Zenon DEF Start, regs
<1>2. PICK o \in [Needs(d) -> Dmems \cup Hosts] :
        /\ \A k \in Needs(d) : mem[o[k]] = "free"
        /\ own' = o
        /\ mem' = [s \in Slots |-> IF \E k \in Needs(d) : o[k] = s THEN "owned" ELSE mem[s]]
  BY Zenon DEF Start
<1>a. pc' # "idle" /\ pc' \in Pcs /\ pc' \notin Placed
  BY <1>1, Zenon DEF Pcs, Placed
<1>b. Shape /\ TestInv /\ MemInv /\ HwInv /\ FlagInv /\ FlightInv
  BY Zenon DEF IInv
<1>c. \A x \in Dmems \cup Hosts : x \in Slots
  BY Zenon DEF Slots
<1>d. /\ mem' \in [Slots -> {"free", "owned", "kept"}]
      /\ \A s \in Slots : mem'[s] = IF \E k \in Needs(d) : o[k] = s THEN "owned" ELSE mem[s]
  BY <1>2, <1>b, Zenon DEF Shape
<1>3. Shape'
  BY <1>1, <1>a, <1>b, <1>d, PlanType, ZenonT(60) DEF Shape
<1>4. TestInv'
  BY <1>1, <1>2, <1>a, PlanType, Zenon DEF TestInv
<1>5. MemInv'
  <2>1. DOMAIN o = Needs(d) /\ \A s \in Slots : mem[s] # "owned"
    BY <1>1, <1>b, Zenon DEF MemInv
  <2>2. \A k \in DOMAIN own' : mem'[own'[k]] = "owned"
    BY <2>1, <1>2, <1>c, <1>d, Zenon
  <2>3. \A x \in Dmems : mem'[x] = "owned" => \E k \in DOMAIN own' : own'[k] = x
    BY <2>1, <1>2, <1>c, <1>d, Zenon
  <2> QED
    BY <1>a, <2>2, <2>3, Zenon DEF MemInv
<1>6. HwInv' /\ FlagInv'
  BY <1>1, <1>b, Zenon DEF HwInv, FlagInv
<1>7. FlightInv'
  <2>1. ASSUME ~ early, NEW e \in Descriptors, InFlight(e)', ~ e.example,
               NEW x \in e.uses \cap Dmems
        PROVE  Guarded(x)'
    <3>1. InFlight(e)
      BY <2>1, <1>1, Zenon DEF InFlight
    <3>2. Guarded(x) /\ mem[x] # "owned" /\ x \in Slots
      BY <2>1, <3>1, <1>1, <1>b, <1>c, Zenon DEF FlightInv, MemInv
    <3>3. mem[x] = "kept"
      BY <3>2, Zenon DEF Guarded
    <3>4. mem'[x] = "kept"
      BY <3>2, <3>3, <1>2, <1>d, Zenon
    <3> QED
      BY <3>4, Zenon DEF Guarded
  <2> QED
    BY <2>1, <1>1, Zenon DEF FlightInv
<1> QED
  BY <1>3, <1>4, <1>5, <1>6, <1>7, Zenon DEF IInv

-----------------------------------------------------------------------------
\* What KeptOnFailure and Released do to what is in flight.
LEMMA KeptType ==
  ASSUME IInv, pc # "idle"
  PROVE  /\ KeptOnFailure \subseteq Slots
         /\ test # "example" => \A s \in Dmems : mem[s] = "owned" => s \in KeptOnFailure
<1>1. {own[k] : k \in DOMAIN own} \cap Dmems \subseteq Slots
  BY Zenon DEF Slots
<1>2. \A s \in Dmems : mem[s] = "owned" => \E k \in DOMAIN own : own[k] = s
  BY Zenon DEF IInv, MemInv
<1> QED
  BY <1>1, <1>2, Zenon DEF KeptOnFailure

LEMMA ReleasedType ==
  ASSUME Shape, NEW held \in SUBSET Slots, mem' = Released(held)
  PROVE  /\ mem' \in [Slots -> {"free", "owned", "kept"}]
         /\ \A s \in Slots : mem'[s] # "owned"
         /\ \A s \in Slots : mem[s] = "kept" \/ s \in held => mem'[s] = "kept"
BY Zenon DEF Shape, Released

\* A testcase that returns is over; only what the hardware may still be doing
\* remains.
LEMMA ReturnIInv ==
  ASSUME IInv, NEW held \in SUBSET Slots, Return(held),
         UNCHANGED <<ctrl, ddp, words, flag, early>>, addr' \in Srams \cup {None},
         hw' \in [state : {"idle", "fetch", "move"}, at : Srams \cup {None},
                  desc : Descriptors \cup {None}],
         hw'.state = "fetch" => hw'.at \in Srams,
         hw'.state = "move" => hw'.desc \in Descriptors,
         FlightInv'
  PROVE  IInv'
<1>1. /\ mem' = Released(held) /\ pc' = "idle" /\ test' = None /\ plan' = << >>
      /\ own' = << >> /\ sram' = None /\ overlap' = FALSE
  BY Zenon DEF Return
<1>2. Shape
  BY Zenon DEF IInv
<1>3. Shape'
  <2>0. << >> \in Seq(PlanSteps)
    OBVIOUS
  <2>1. plan' \in Seq(PlanSteps) /\ pc' \in Pcs /\ overlap' \in BOOLEAN
    BY <1>1, <2>0, Zenon DEF Pcs
  <2> QED
    BY <1>1, <1>2, <2>1, ReleasedType, Zenon DEF Shape
<1>4. TestInv'
  <2>1. DOMAIN plan' = {} /\ pc' \notin Planned /\ pc' \notin Placed
    BY <1>1 DEF Planned, Placed
  <2> QED
    BY <1>1, <2>1, Zenon DEF TestInv
<1>5. MemInv'
  BY <1>1, <1>2, ReleasedType, Zenon DEF MemInv
<1>6. HwInv' /\ FlagInv'
  BY <1>1, Zenon DEF HwInv, FlagInv
<1> QED
  BY <1>3, <1>4, <1>5, <1>6, Zenon DEF IInv

\* A failure keeps what is in flight, whoever started it.
LEMMA FailKeeps ==
  ASSUME IInv, pc \notin {"idle", "prepare", "verify"}, NEW held \in SUBSET Slots,
         KeptOnFailure \subseteq held, mem' = Released(held), UNCHANGED <<words, early>>
  PROVE  /\ UNCHANGED hw => FlightInv'
         /\ pc = "poll idle" /\ hw'.state = "fetch" /\ hw'.at = sram => FlightInv'
<1>b. Shape /\ TestInv /\ MemInv /\ FlightInv /\ pc # "idle"
  BY Zenon DEF IInv
<1>1. \A s \in Slots : mem[s] = "kept" \/ s \in held => mem'[s] = "kept"
  BY <1>b, ReleasedType, Zenon
<1>2. test # "example" => \A s \in Dmems : mem[s] = "owned" => s \in held
  BY <1>b, KeptType, Zenon
<1>3. \A s \in Dmems : s \in Slots
  BY Zenon DEF Slots
<1>4. ASSUME UNCHANGED hw, ~ early, NEW d \in Descriptors, InFlight(d)', ~ d.example,
             NEW s \in d.uses \cap Dmems
      PROVE  Guarded(s)'
  <2>1. InFlight(d)
    BY <1>4, Zenon DEF InFlight
  <2>2. Guarded(s)
    BY <1>4, <1>b, <2>1, Zenon DEF FlightInv
  <2>3. mem'[s] = "kept"
    BY <1>1, <1>2, <1>3, <2>2, Zenon DEF Guarded
  <2> QED
    BY <2>3, Zenon DEF Guarded
<1>5. ASSUME pc = "poll idle", hw'.state = "fetch", hw'.at = sram,
             NEW d \in Descriptors, InFlight(d)', ~ d.example, NEW s \in d.uses \cap Dmems
      PROVE  Guarded(s)'
  <2>1. d = words[sram]
    BY <1>5, Zenon DEF InFlight
  <2>2. test # "example" /\ \E k \in DOMAIN own : s = own[k]
    BY <1>5, <1>b, <2>1, Zenon DEF TestInv
  <2>3. mem[s] = "owned"
    BY <1>b, <2>2, Zenon DEF MemInv
  <2>4. mem'[s] = "kept"
    BY <1>1, <1>2, <1>3, <2>2, <2>3, Zenon
  <2> QED
    BY <2>4, Zenon DEF Guarded
<1>6. UNCHANGED hw => FlightInv'
  BY <1>4, Zenon DEF FlightInv
<1>7. pc = "poll idle" /\ hw'.state = "fetch" /\ hw'.at = sram => FlightInv'
  BY <1>5, Zenon DEF FlightInv
<1> QED
  BY <1>6, <1>7, Zenon

\* Every failure before the trigger, after it with the descriptor released, and
\* of the wait.
LEMMA FailIInv ==
  ASSUME IInv, \/ DescribeFails \/ FinalizeFails \/ NoSram \/ IdleTimeout
               \/ AccessFails \/ WaitFails \/ ReleaseFails
  PROVE  IInv'
<1>1. pc \in {"describe", "finalize", "clear", "copy", "poll idle", "wait", "release"}
  BY Zenon DEF DescribeFails, FinalizeFails, NoSram, IdleTimeout, AccessFails, WaitFails,
    ReleaseFails
<1>2. pc \notin {"idle", "prepare", "verify"} /\ pc # "idle"
  BY <1>1, Zenon
<1>3. Shape /\ TestInv /\ HwInv
  BY Zenon DEF IInv
<1>4. PICK held \in SUBSET Slots : Return(held) /\ KeptOnFailure \subseteq held
  <2>1. KeptOnFailure \in SUBSET Slots
    BY <1>2, KeptType, Zenon
  <2>2. CASE WaitFails
    <3>1. sram \in Srams
      BY <2>2, <1>3, Zenon DEF WaitFails, TestInv, Placed
    <3>2. Retained \in SUBSET Slots /\ KeptOnFailure \subseteq Retained
      BY <2>1, <3>1, Zenon DEF Retained, Slots
    <3> QED
      BY <2>2, <3>2, Zenon DEF WaitFails
  <2>3. CASE Return(KeptOnFailure)
    BY <2>1, <2>3, Zenon
  <2> QED
    BY <2>2, <2>3, Zenon
    DEF DescribeFails, FinalizeFails, NoSram, IdleTimeout, AccessFails, ReleaseFails,
      FailTransfer
<1>5. UNCHANGED <<ctrl, ddp, words, hw, flag, early>>
  BY Zenon
  DEF DescribeFails, FinalizeFails, NoSram, IdleTimeout, AccessFails, WaitFails, ReleaseFails,
      FailTransfer, regs
<1>6. addr' \in Srams \cup {None}
  BY <1>3, Zenon
  DEF DescribeFails, FinalizeFails, NoSram, IdleTimeout, AccessFails, WaitFails,
    ReleaseFails, Shape
<1>7. FlightInv'
  BY <1>2, <1>4, <1>5, FailKeeps, Zenon DEF Return
<1>8. /\ hw' \in [state : {"idle", "fetch", "move"}, at : Srams \cup {None},
                  desc : Descriptors \cup {None}]
      /\ hw'.state = "fetch" => hw'.at \in Srams
      /\ hw'.state = "move" => hw'.desc \in Descriptors
  BY <1>3, <1>5, Zenon DEF Shape, HwInv
<1> QED
  BY <1>4, <1>5, <1>6, <1>7, <1>8, ReturnIInv, Zenon

\* A trigger that may or may not have reached the hardware.
LEMMA TriggerFailsIInv ==
  ASSUME IInv, TriggerFails
  PROVE  IInv'
<1>1. /\ pc = "poll idle" /\ Return(KeptOnFailure)
      /\ UNCHANGED <<ctrl, ddp, words, flag, early>>
  BY Zenon DEF TriggerFails, regs
<1>2. PICK a \in {addr, sram} :
        /\ addr' = a
        /\ hw' \in {hw, [state |-> "fetch", at |-> a, desc |-> None]}
        /\ a = None => hw' = hw
  BY Zenon DEF TriggerFails
<1>3. Shape /\ TestInv /\ HwInv
  BY Zenon DEF IInv
<1>4. addr = None /\ sram \in Srams /\ pc # "idle" /\ pc \notin {"idle", "prepare", "verify"}
  BY <1>1, <1>3, Zenon DEF HwInv, TestInv, Placed
<1>5. KeptOnFailure \in SUBSET Slots /\ mem' = Released(KeptOnFailure)
  BY <1>1, <1>4, KeptType, Zenon DEF Return
<1>6. addr' \in Srams \cup {None}
  BY <1>2, <1>4, Zenon
<1>7. CASE hw' = hw
  <2>1. FlightInv'
    BY <1>1, <1>4, <1>5, <1>7, FailKeeps, Zenon
  <2>2. /\ hw' \in [state : {"idle", "fetch", "move"}, at : Srams \cup {None},
                    desc : Descriptors \cup {None}]
        /\ hw'.state = "fetch" => hw'.at \in Srams
        /\ hw'.state = "move" => hw'.desc \in Descriptors
    BY <1>3, <1>7, Zenon DEF Shape, HwInv
  <2> QED
    BY <1>1, <1>5, <1>6, <2>1, <2>2, ReturnIInv, Zenon
<1>8. CASE hw' # hw
  <2>1. hw' = [state |-> "fetch", at |-> sram, desc |-> None]
    BY <1>2, <1>4, <1>8, Zenon
  <2>2. hw'.state = "fetch" /\ hw'.at = sram
    BY <2>1, Zenon
  <2>3. FlightInv'
    BY <1>1, <1>4, <1>5, <2>2, FailKeeps, Zenon
  <2>4. hw' \in [state : {"idle", "fetch", "move"}, at : Srams \cup {None},
                 desc : Descriptors \cup {None}]
    BY <1>4, <2>1, Zenon
  <2> QED
    BY <1>1, <1>4, <1>5, <1>6, <2>2, <2>3, <2>4, ReturnIInv, Zenon
<1> QED
  BY <1>7, <1>8, Zenon

\* A testcase that fails before its first transfer, or has compared its data,
\* releases everything: nothing in flight is its own.
LEMMA ReleasesAllIInv ==
  ASSUME IInv, PrepareFails \/ Verify
  PROVE  IInv'
<1>1. /\ pc \in {"prepare", "verify"} /\ Return({})
      /\ UNCHANGED <<ctrl, ddp, words, addr, hw, flag, early>>
  BY Zenon DEF PrepareFails, Verify, regs
<1>2. Shape /\ HwInv /\ FlightInv
  BY Zenon DEF IInv
<1>3. {} \in SUBSET Slots /\ mem' = Released({})
  BY <1>1, Zenon DEF Return
<1>4. \A s \in Slots : mem[s] = "kept" => mem'[s] = "kept"
  BY <1>2, <1>3, ReleasedType, Zenon
<1>5. FlightInv'
  <2>1. ASSUME ~ early, NEW d \in Descriptors, InFlight(d)', ~ d.example,
               NEW s \in d.uses \cap Dmems
        PROVE  Guarded(s)'
    <3>1. InFlight(d) /\ s \in Slots
      BY <2>1, <1>1, Zenon DEF InFlight, Slots
    <3>2. Guarded(s)
      BY <2>1, <3>1, <1>2, Zenon DEF FlightInv
    <3>3. mem'[s] = "kept"
      BY <1>1, <1>4, <3>1, <3>2, Zenon DEF Guarded
    <3> QED
      BY <3>3, Zenon DEF Guarded
  <2> QED
    BY <2>1, <1>1, Zenon DEF FlightInv
<1>6. /\ hw' \in [state : {"idle", "fetch", "move"}, at : Srams \cup {None},
                  desc : Descriptors \cup {None}]
      /\ hw'.state = "fetch" => hw'.at \in Srams
      /\ hw'.state = "move" => hw'.desc \in Descriptors
      /\ addr' \in Srams \cup {None}
  BY <1>1, <1>2, Zenon DEF Shape, HwInv
<1> QED
  BY <1>1, <1>3, <1>5, <1>6, ReturnIInv, Zenon

-----------------------------------------------------------------------------
\* The hardware: whatever it works on was guarded when it was fetched.
LEMMA FetchIInv ==
  ASSUME IInv, Fetch
  PROVE  IInv'
<1>1. /\ hw.state = "fetch"
      /\ hw' = [state |-> IF words[hw.at] = None THEN "idle" ELSE "move",
                at |-> None, desc |-> words[hw.at]]
      /\ UNCHANGED <<ctrl, ddp, test, mem, words, addr, flag>>
      /\ UNCHANGED <<pc, plan, own, sram, overlap, early>>
  BY Zenon DEF Fetch, regs
<1>b. Shape /\ TestInv /\ MemInv /\ HwInv /\ FlagInv /\ FlightInv
  BY Zenon DEF IInv
<1>2. hw.at \in Srams /\ words[hw.at] \in Descriptors \cup {None}
  BY <1>1, <1>b, Zenon DEF HwInv, Shape
<1>3. /\ hw'.desc = words[hw.at] /\ hw'.state \in {"idle", "move"}
      /\ (hw'.state = "move" => words[hw.at] # None)
  BY <1>1, Zenon
<1>4. Shape'
  <2>1. hw' \in [state : {"idle", "fetch", "move"}, at : Srams \cup {None},
                 desc : Descriptors \cup {None}]
    BY <1>1, <1>2, Zenon
  <2> QED
    BY <1>1, <1>b, <2>1, Zenon DEF Shape
<1>5. TestInv' /\ MemInv'
  <2>1. TestInv'
    BY <1>1, <1>b, Zenon DEF TestInv
  <2>2. MemInv'
    BY <1>1, <1>b, Zenon DEF MemInv
  <2> QED
    BY <2>1, <2>2, Zenon
<1>6. HwInv'
  <2>1. pc # "trigger" /\ (pc \in {"release", "verify"} => early)
    BY <1>1, <1>b, Zenon DEF HwInv
  <2>2. hw'.state # "fetch" /\ (hw'.state = "move" => hw'.desc \in Descriptors)
    BY <1>2, <1>3, Zenon
  <2> QED
    BY <1>1, <1>b, <2>1, <2>2, Zenon DEF HwInv
<1>7. FlagInv'
  BY <1>1, <1>b, Zenon DEF FlagInv
<1>8. FlightInv'
  <2>1. \A d : InFlight(d)' => InFlight(d)
    BY <1>1, <1>3, Zenon DEF InFlight
  <2>2. \A s : Guarded(s) => Guarded(s)'
    BY <1>1, Zenon DEF Guarded
  <2> QED
    BY <1>1, <1>b, <2>1, <2>2, Zenon DEF FlightInv
<1> QED
  BY <1>4, <1>5, <1>6, <1>7, <1>8, Zenon DEF IInv

LEMMA CompleteIInv ==
  ASSUME IInv, Complete
  PROVE  IInv'
<1>1. /\ hw.state = "move" /\ hw' = [state |-> "idle", at |-> None, desc |-> None]
      /\ flag' = [flag EXCEPT ![hw.desc.profile] = TRUE]
      /\ UNCHANGED <<ctrl, ddp, test, mem, words, addr, pc, plan, own, sram, overlap>>
      /\ early' = FALSE
  BY Zenon DEF Complete, regs
<1>b. Shape /\ TestInv /\ MemInv /\ HwInv /\ FlagInv
  BY Zenon DEF IInv
<1>2. hw'.state = "idle"
  BY <1>1, Zenon
<1>3. Shape'
  <2>1. hw' \in [state : {"idle", "fetch", "move"}, at : Srams \cup {None},
                 desc : Descriptors \cup {None}]
    BY <1>1, Zenon
  <2>2. flag' \in [Profiles -> BOOLEAN]
    BY <1>1, <1>b, Zenon DEF Shape
  <2> QED
    BY <1>1, <1>b, <2>1, <2>2, Zenon DEF Shape
<1>4. TestInv' /\ MemInv'
  <2>1. TestInv'
    BY <1>1, <1>b, Zenon DEF TestInv
  <2>2. MemInv'
    BY <1>1, <1>b, Zenon DEF MemInv
  <2> QED
    BY <2>1, <2>2, Zenon
<1>5. HwInv'
  BY <1>1, <1>2, <1>b, Zenon DEF HwInv
<1>6. FlagInv'
  BY <1>1, <1>2, <1>b, Zenon DEF FlagInv
<1>7. FlightInv'
  BY <1>2, Zenon DEF FlightInv, InFlight
<1> QED
  BY <1>3, <1>4, <1>5, <1>6, <1>7, Zenon DEF IInv

LEMMA ResetIInv ==
  ASSUME IInv, Reset
  PROVE  IInv'
<1>1. /\ pc = "idle" /\ hw' = [state |-> "idle", at |-> None, desc |-> None]
      /\ flag' = [p \in Profiles |-> FALSE] /\ ctrl' = FALSE /\ ddp' = FALSE /\ addr' = None
      /\ words' = [s \in Srams |-> None] /\ early' = FALSE
      /\ UNCHANGED <<mem, test, pc, plan, own, sram, overlap>>
  BY Zenon DEF Reset
<1>b. Shape /\ TestInv /\ MemInv
  BY Zenon DEF IInv
<1>2. hw'.state = "idle"
  BY <1>1, Zenon
<1>3. Shape'
  BY <1>1, <1>b, Zenon DEF Shape
<1>4. TestInv'
  <2>1. pc \notin Planned /\ pc \notin Placed
    BY <1>1, Zenon DEF Planned, Placed
  <2> QED
    BY <1>1, <1>b, <2>1, Zenon DEF TestInv
<1>5. MemInv'
  BY <1>1, <1>b, Zenon DEF MemInv
<1>6. HwInv' /\ FlagInv'
  BY <1>1, <1>2, Zenon DEF HwInv, FlagInv
<1>7. FlightInv'
  BY <1>2, Zenon DEF FlightInv, InFlight
<1> QED
  BY <1>3, <1>4, <1>5, <1>6, <1>7, Zenon DEF IInv

\* What was kept for a transfer in flight is forgotten, and early says so.
LEMMA RediscoverIInv ==
  ASSUME IInv, Rediscover
  PROVE  IInv'
<1>1. /\ pc = "idle" /\ mem' = [s \in Slots |-> "free"]
      /\ early' = (early \/ hw.state # "idle")
      /\ UNCHANGED <<ctrl, ddp, words, addr, hw, flag, test, pc, plan, own, sram, overlap>>
  BY Zenon DEF Rediscover, regs
<1>b. Shape /\ TestInv /\ HwInv /\ FlagInv
  BY Zenon DEF IInv
<1>2. Shape'
  <2>1. early' \in BOOLEAN
    BY <1>1, Zenon
  <2> QED
    BY <1>1, <1>b, <2>1, ZenonT(60) DEF Shape
<1>3. TestInv'
  BY <1>1, <1>b, Zenon DEF TestInv
<1>4. MemInv'
  BY <1>1, Zenon DEF MemInv
<1>5. HwInv' /\ FlagInv'
  BY <1>1, <1>b, Zenon DEF HwInv, FlagInv
<1>6. FlightInv'
  <2>1. ~ early' => hw'.state = "idle"
    BY <1>1, Zenon
  <2> QED
    BY <2>1, Zenon DEF FlightInv, InFlight
<1> QED
  BY <1>2, <1>3, <1>4, <1>5, <1>6, Zenon DEF IInv

-----------------------------------------------------------------------------
LEMMA InitIInv == Init => IInv
<1> SUFFICES ASSUME Init PROVE IInv
  BY Zenon
<1>1. hw.state = "idle"
  BY Zenon DEF Init
<1>2. Shape
  <2>1. << >> \in Seq(PlanSteps) /\ "idle" \in Pcs
    BY DEF Pcs
  <2>2. flag \in [Profiles -> BOOLEAN]
    BY Zenon DEF Init
  <2> QED
    BY <2>1, <2>2, Zenon DEF Init, Shape
<1>3. TestInv
  <2>1. "idle" \notin Planned /\ "idle" \notin Placed /\ DOMAIN << >> = {}
    BY DEF Planned, Placed
  <2> QED
    BY <2>1, Zenon DEF Init, TestInv
<1>4. MemInv
  BY Zenon DEF Init, MemInv
<1>5. HwInv /\ FlagInv
  BY <1>1, Zenon DEF Init, HwInv, FlagInv
<1>6. FlightInv
  BY <1>1, Zenon DEF FlightInv, InFlight
<1> QED
  BY <1>2, <1>3, <1>4, <1>5, <1>6, Zenon DEF IInv

LEMMA NextIInv == IInv /\ [Next]_vars => IInv'
<1> SUFFICES ASSUME IInv, [Next]_vars PROVE IInv'
  BY Zenon
<1>1. CASE \E direction \in Directions : Start(direction)
  BY <1>1, StartIInv, Zenon
<1>2. CASE Prepare \/ Describe \/ Finalize \/ Clear \/ PollIdle
  BY <1>2, PrepareIInv, DescribeIInv, FinalizeIInv, ClearIInv, PollIdleIInv, Zenon
<1>3. CASE CopyDescriptor \/ Trigger \/ Wait \/ Release
  BY <1>3, CopyIInv, TriggerIInv, WaitIInv, ReleaseIInv, Zenon
<1>4. CASE \/ DescribeFails \/ FinalizeFails \/ NoSram \/ IdleTimeout
           \/ AccessFails \/ WaitFails \/ ReleaseFails
  BY <1>4, FailIInv, Zenon
<1>5. CASE TriggerFails \/ PrepareFails \/ Verify
  BY <1>5, TriggerFailsIInv, ReleasesAllIInv, Zenon
<1>6. CASE Fetch \/ Complete \/ Reset \/ Rediscover
  BY <1>6, FetchIInv, CompleteIInv, ResetIInv, RediscoverIInv, Zenon
<1>7. CASE UNCHANGED vars
  <2>u. /\ UNCHANGED <<ctrl, ddp, test, mem, words, addr, hw, flag>>
        /\ UNCHANGED <<pc, plan, own, sram, overlap, early>>
    BY <1>7, Zenon DEF vars
  <2>b. Shape /\ TestInv /\ MemInv
    BY Zenon DEF IInv
  <2>s. Shape'
    BY <2>u, <2>b, ZenonT(30) DEF Shape
  <2>t. TestInv'
    BY <2>u, <2>b, Zenon DEF TestInv
  <2>1. MemInv'
    BY <2>u, <2>b, Zenon DEF MemInv
  <2>2. HwInv' /\ FlagInv' /\ FlightInv'
    BY <1>7, Zenon DEF vars, IInv, HwInv, FlagInv, FlightInv, InFlight, Guarded
  <2> QED
    BY <2>s, <2>t, <2>1, <2>2, Zenon DEF IInv
<1> QED
  BY <1>1, <1>2, <1>3, <1>4, <1>5, <1>6, <1>7, Zenon DEF Next, Host

\* IInv holds of every reachable state of the testcase and the hardware.
THEOREM Invariance == Spec => []IInv
BY InitIInv, NextIInv, PTL DEF Spec

\* DmaDescriptor::execute triggers descriptor control only when it is idle and
\* set up, and takes another transfer's completion for its own only if that one
\* had outlived its timeout when execute began.
THEOREM OwnCompletion == Spec => []CompletionIsOwn
<1>1. ASSUME IInv PROVE CompletionIsOwn
  <2>1. Shape /\ TestInv /\ MemInv /\ HwInv /\ FlagInv
    BY <1>1, Zenon DEF IInv
  <2>2. hw.at \in Srams \cup {None} /\ hw.desc \in Descriptors \cup {None}
        /\ hw.state \in {"idle", "fetch", "move"}
    BY <2>1, Zenon DEF Shape
  <2>3. TypeOK
    BY <2>1, <2>2, Zenon DEF Shape, TestInv, MemInv, TypeOK
  <2> QED
    BY <2>1, <2>3, Zenon DEF HwInv, FlagInv, CompletionIsOwn
<1> QED
  BY <1>1, Invariance, PTL

\* No failure path of dma_data_transfer frees DMEM the hardware works on; only
\* a false completion, or a discovery without a reset, lets it.
THEOREM DmemKept == Spec => []DeviceKept
<1>1. ASSUME IInv PROVE DeviceKept
  <2>1. ASSUME hw.state = "move", ~ hw.desc.example, ~ early,
               NEW s \in hw.desc.uses \cap Dmems
        PROVE  mem[s] # "free"
    <3>1. hw.desc \in Descriptors /\ InFlight(hw.desc)
      BY <1>1, <2>1, Zenon DEF IInv, HwInv, InFlight
    <3>2. Guarded(s)
      BY <1>1, <2>1, <3>1, Zenon DEF IInv, FlightInv
    <3> QED
      BY <3>2, Zenon DEF Guarded
  <2> QED
    BY <2>1, Zenon DEF DeviceKept
<1> QED
  BY <1>1, Invariance, PTL

-----------------------------------------------------------------------------
(***************************************************************************)
(* Host memory.                                                            *)
(***************************************************************************)
HostBuffers == [alloc : Allocs, owner : BOOLEAN]
Jobs == [alloc : Allocs, obj : Objs, big : BOOLEAN]

\* All the resources of a provider.
Full == {{"fd", "handle", "map"}, {"map", "lock"}}

\* The shape of the state.
HostShape ==
  /\ has \in [Allocs -> SUBSET Resources]
  /\ frames = [a \in Allocs |-> frames[a]] /\ moved = [a \in Allocs |-> moved[a]]
  /\ physical = [a \in Allocs |-> physical[a]]
  /\ obj \in [Objs -> HostBuffers \cup {Empty}]
  /\ kept \subseteq Allocs
  /\ step \in Steps
  /\ group \in [type : {"dma", "identity"}, unbound : BOOLEAN]

\* What an allocation under way has taken so far, for an object still empty.
JobInv ==
  /\ step = "idle" => job = NoJob
  /\ step # "idle" => job \in Jobs /\ obj[job.obj] = Empty
  /\ step \in {"identity", "map", "open"} => has[job.alloc] = {}
  /\ step = "lock" => has[job.alloc] = {"map"}
  /\ step = "resolve" => has[job.alloc] = {"map", "lock"}
  /\ step = "ioctl" => has[job.alloc] = {"fd"}
  /\ step \in {"align", "mmap"} => has[job.alloc] = {"fd", "handle"}
  /\ step \in {"map", "lock", "resolve"} => group.type = "identity"

\* An owned allocation is complete, and nobody else's.
OwnInv(o) ==
  obj[o].owner =>
    /\ obj[o].alloc \in Allocs /\ obj[o].alloc # job.alloc /\ obj[o].alloc \notin kept
    /\ has[obj[o].alloc] \in Full
    /\ \A p \in Objs : obj[p].owner /\ obj[p].alloc = obj[o].alloc => p = o

KeptInv == \A a \in kept : a # job.alloc /\ has[a] \in Full

\* Whatever has resources is owned, kept or under way.
Owned(a) == \E o \in Objs : obj[o].owner /\ obj[o].alloc = a
Held(a) == Owned(a) \/ a \in kept
NoLeak == \A a \in Allocs : has[a] # {} => Held(a) \/ a = job.alloc

\* The address a drv=none buffer reported is that of its pages, those migrated
\* since apart.
TrueAddress(a) ==
  "fd" \notin has[a] =>
    /\ group.type = "identity"
    /\ \A n \in DOMAIN frames[a] \ moved[a] : frames[a][n] = physical[a] + (n - 1)

AddressInv == \A a \in Allocs : Held(a) => TrueAddress(a)

OwnsInv == \A o \in Objs : OwnInv(o)

\* Who holds what, and what its address is.
HostIInv == HostShape /\ JobInv /\ OwnsInv /\ KeptInv /\ NoLeak /\ AddressInv

\* The entries resolve_contiguous_physical has read are a range of frames, the
\* pages migrated since they were read apart.
ScanInv ==
  /\ page \in Nat
  /\ step # "resolve" => page = 0
  /\ \A a \in Allocs : \A n \in DOMAIN frames[a] : frames[a][n] \in Nat
  /\ \A n \in 1 .. page :
       /\ n \in DOMAIN frames[job.alloc]
       /\ n \notin moved[job.alloc] => frames[job.alloc][n] = first_pfn + (n - 1)

\* The inductive invariant.
HostInv == HostIInv /\ ScanInv

-----------------------------------------------------------------------------
LEMMA HostInitIInv == HostInit => HostIInv
<1> SUFFICES ASSUME HostInit PROVE HostIInv
  BY Zenon
<1>1. HostShape
  <2>1. /\ frames = [a \in Allocs |-> frames[a]] /\ moved = [a \in Allocs |-> moved[a]]
        /\ physical = [a \in Allocs |-> physical[a]]
    BY Zenon DEF HostInit
  <2>2. has \in [Allocs -> SUBSET Resources]
    BY Zenon DEF HostInit
  <2>3. obj \in [Objs -> HostBuffers \cup {Empty}]
    BY Zenon DEF HostInit
  <2> QED
    BY <2>1, <2>2, <2>3, Zenon DEF HostInit, HostShape, Steps
<1>2. JobInv
  BY Zenon DEF HostInit, JobInv
<1>3. \A o \in Objs : ~ obj[o].owner
  BY Zenon DEF HostInit, Empty
<1>4. \A a \in Allocs : has[a] = {}
  BY Zenon DEF HostInit
<1>5. OwnsInv /\ KeptInv /\ NoLeak /\ AddressInv
  BY <1>3, <1>4, Zenon DEF HostInit, OwnsInv, OwnInv, KeptInv, NoLeak, AddressInv, Held,
     Owned
<1> QED
  BY <1>1, <1>2, <1>5, Zenon DEF HostIInv

\* An allocation that nobody owns or keeps, and what is true of it, changes
\* alone; owners and kept allocations stay as they are.
Others(c) ==
  /\ obj' = obj /\ kept' = kept
  /\ \A a \in Allocs \ {c} :
       /\ has'[a] = has[a] /\ physical'[a] = physical[a]
       /\ frames'[a] = frames[a] /\ moved'[a] = moved[a]
  /\ group.type = "identity" => group'.type = "identity"

LEMMA OthersKeep ==
  ASSUME HostIInv, NEW c, Others(c), ~ Held(c), job'.alloc \in {c, NoAlloc}
  PROVE  OwnsInv' /\ KeptInv' /\ AddressInv'
<1>1. kept \subseteq Allocs /\ OwnsInv /\ KeptInv /\ AddressInv
  BY Zenon DEF HostIInv, HostShape
<1>n. NoAlloc \notin Allocs
  BY HostAssumption, Zenon
<1>2. \A a \in Allocs : Held(a) => a # c /\ a # job'.alloc /\ has'[a] = has[a]
  BY <1>n, Zenon DEF Others
<1>3. \A a : Held(a)' <=> Held(a)
  BY Zenon DEF Others, Held, Owned
<1>4. ASSUME NEW o \in Objs PROVE OwnInv(o)'
  <2> SUFFICES ASSUME obj'[o].owner PROVE OwnInv(o)'
    BY Zenon DEF OwnInv
  <2>1. obj[o].owner /\ obj'[o] = obj[o] /\ OwnInv(o)
    BY <1>1, Zenon DEF Others, OwnsInv
  <2>2. obj[o].alloc \in Allocs /\ Held(obj[o].alloc)
    BY <2>1, Zenon DEF OwnInv, Held, Owned
  <2>3. obj[o].alloc # job'.alloc /\ has'[obj[o].alloc] = has[obj[o].alloc]
    BY <1>2, <2>2, Zenon
  <2> QED
    BY <2>1, <2>2, <2>3, Zenon DEF OwnInv, Others
<1>5. KeptInv'
  BY <1>1, <1>2, Zenon DEF KeptInv, Others, Held
<1>6. AddressInv'
  <2>1. ASSUME NEW a \in Allocs, Held(a)' PROVE TrueAddress(a)'
    <3>1. Held(a) /\ a \in Allocs \ {c} /\ TrueAddress(a)
      BY <1>1, <1>2, <1>3, <2>1, Zenon DEF AddressInv
    <3> QED
      BY <3>1, Zenon DEF TrueAddress, Others
  <2> QED
    BY <2>1, Zenon DEF AddressInv
<1> QED
  BY <1>4, <1>5, <1>6, Zenon DEF OwnsInv

\* The allocation under way is nobody's.
LEMMA JobAlone ==
  ASSUME HostIInv, step # "idle"
  PROVE  job \in Jobs /\ job.alloc \in Allocs /\ job.obj \in Objs /\ ~ Held(job.alloc)
<1>1. job \in Jobs
  BY Zenon DEF HostIInv, JobInv
<1>2. job.alloc \in Allocs /\ job.obj \in Objs
  BY <1>1, Zenon DEF Jobs
<1> QED
  BY <1>1, <1>2, Zenon DEF HostIInv, OwnsInv, OwnInv, KeptInv, Held, Owned

\* A step of the allocation under way that succeeds.
LEMMA HostGainIInv ==
  ASSUME HostIInv, step # "idle", Others(job.alloc), HostShape', JobInv',
         job' = job, step' # "idle"
  PROVE  HostIInv'
<1>1. job.alloc \in Allocs /\ ~ Held(job.alloc)
  BY JobAlone, Zenon
<1>2. OwnsInv' /\ KeptInv' /\ AddressInv'
  BY <1>1, OthersKeep, Zenon
<1>3. NoLeak'
  BY <1>1, Zenon DEF HostIInv, NoLeak, Others, Held, Owned
<1> QED
  BY <1>2, <1>3, Zenon DEF HostIInv

\* Resources gained by the allocation under way.
LEMMA GainFacts ==
  ASSUME HostIInv, NEW from, NEW to, NEW res \in SUBSET Resources,
         Gain(from, res, to),
         from # "idle"
  PROVE  /\ step = from /\ step' = to
         /\ has' \in [Allocs -> SUBSET Resources]
         /\ has'[job.alloc] = has[job.alloc] \cup res
         /\ \A a \in Allocs \ {job.alloc} : has'[a] = has[a]
<1>1. /\ step = from /\ step' = to
      /\ has' = [has EXCEPT ![job.alloc] = has[job.alloc] \cup res]
  BY Zenon DEF Gain
<1>2. job.alloc \in Allocs
  BY <1>1, JobAlone, Zenon
<1>3. has[job.alloc] \cup res \in SUBSET Resources
  BY <1>2, Zenon DEF HostIInv, HostShape
<1> QED
  BY <1>1, <1>2, <1>3, Zenon DEF HostIInv, HostShape

LEMMA HostEnsureIdentityIInv ==
  ASSUME HostIInv, EnsureIdentity
  PROVE  HostIInv'
<1>1. /\ step = "identity" /\ step' = "map"
      /\ has' \in [Allocs -> SUBSET Resources]
      /\ has'[job.alloc] = has[job.alloc] \cup {}
      /\ \A a \in Allocs \ {job.alloc} : has'[a] = has[a]
  <2>1. {} \in SUBSET Resources
    BY Zenon
  <2> QED
    BY <2>1, GainFacts, Zenon DEF EnsureIdentity
<1>2. UNCHANGED <<frames, moved, physical, obj, kept, job>>
  BY Zenon DEF EnsureIdentity, pages
<1>3. group' \in [type : {"dma", "identity"}, unbound : BOOLEAN] /\ group'.type = "identity"
  BY Zenon DEF EnsureIdentity, HostIInv, HostShape
<1>4. has'[job.alloc] = {}
  BY <1>1, Zenon DEF HostIInv, JobInv
<1>5. Others(job.alloc)
  BY <1>1, <1>2, <1>3, Zenon DEF Others
<1>6. HostShape'
  BY <1>1, <1>2, <1>3, Zenon DEF HostIInv, HostShape, Steps
<1>7. JobInv'
  BY <1>1, <1>2, <1>3, <1>4, Zenon DEF HostIInv, JobInv
<1> QED
  BY <1>1, <1>2, <1>5, <1>6, <1>7, HostGainIInv, Zenon

LEMMA HostMapPagesIInv ==
  ASSUME HostIInv, MapPages
  PROVE  HostIInv'
<1>1. /\ step = "map" /\ step' = "lock"
      /\ has' \in [Allocs -> SUBSET Resources]
      /\ has'[job.alloc] = has[job.alloc] \cup {"map"}
      /\ \A a \in Allocs \ {job.alloc} : has'[a] = has[a]
  <2>1. {"map"} \in SUBSET Resources
    BY Zenon DEF Resources
  <2> QED
    BY <2>1, GainFacts, Zenon DEF MapPages
<1>2. UNCHANGED <<moved, physical, obj, kept, job, group>>
  BY Zenon DEF MapPages
<1>3. PICK f : frames' = [frames EXCEPT ![job.alloc] = f]
  BY Zenon DEF MapPages
<1>4. /\ frames' = [a \in Allocs |-> frames'[a]]
      /\ \A a \in Allocs \ {job.alloc} : frames'[a] = frames[a]
  <2>1. frames = [a \in Allocs |-> frames[a]]
    BY Zenon DEF HostIInv, HostShape
  <2> QED
    BY <1>3, <2>1, Zenon
<1>5. has'[job.alloc] = {"map"}
  BY <1>1, Zenon DEF HostIInv, JobInv
<1>6. Others(job.alloc)
  BY <1>1, <1>2, <1>4, Zenon DEF Others
<1>7. HostShape'
  BY <1>1, <1>2, <1>4, Zenon DEF HostIInv, HostShape, Steps
<1>8. JobInv'
  BY <1>1, <1>2, <1>5, Zenon DEF HostIInv, JobInv
<1> QED
  BY <1>1, <1>2, <1>6, <1>7, <1>8, HostGainIInv, Zenon

\* The steps that gain a resource or none and change nothing else.
LEMMA HostAcquireIInv ==
  ASSUME HostIInv,
         LockPages \/ OpenDevice \/ IoctlAlloc \/ Aligned
  PROVE  HostIInv'
<1>1. UNCHANGED <<frames, moved, physical, obj, kept, job, group>>
  BY Zenon DEF LockPages, OpenDevice, IoctlAlloc, Aligned, pages
<1>2. PICK from \in Steps, to \in Steps, res \in SUBSET Resources :
        /\ Gain(from, res, to)
        /\ <<from, to, res>> \in {<<"lock", "resolve", {"lock"}>>, <<"open", "ioctl", {"fd"}>>,
                                  <<"ioctl", "align", {"handle"}>>, <<"align", "mmap", {}>>}
  BY ZenonT(60) DEF LockPages, OpenDevice, IoctlAlloc, Aligned, Locks, Steps,
     Resources
<1>3. /\ step = from /\ step' = to
      /\ has' \in [Allocs -> SUBSET Resources]
      /\ has'[job.alloc] = has[job.alloc] \cup res
      /\ \A a \in Allocs \ {job.alloc} : has'[a] = has[a]
  <2>1. from # "idle"
    BY <1>2, Zenon
  <2> QED
    BY <1>2, <2>1, GainFacts, Zenon
<1>4. Others(job.alloc)
  BY <1>1, <1>3, Zenon DEF Others
<1>5. HostShape'
  BY <1>1, <1>3, Zenon DEF HostIInv, HostShape
<1>6. JobInv'
  <2>1. \/ step = "lock" /\ step' = "resolve" /\ has'[job.alloc] = has[job.alloc] \cup {"lock"}
        \/ step = "open" /\ step' = "ioctl" /\ has'[job.alloc] = has[job.alloc] \cup {"fd"}
        \/ step = "ioctl" /\ step' = "align" /\ has'[job.alloc] = has[job.alloc] \cup {"handle"}
        \/ step = "align" /\ step' = "mmap" /\ has'[job.alloc] = has[job.alloc] \cup {}
    BY <1>2, <1>3, Zenon
  <2>2. \/ step = "lock" /\ step' = "resolve" /\ has'[job.alloc] = {"map", "lock"}
        \/ step = "open" /\ step' = "ioctl" /\ has'[job.alloc] = {"fd"}
        \/ step = "ioctl" /\ step' = "align" /\ has'[job.alloc] = {"fd", "handle"}
        \/ step = "align" /\ step' = "mmap" /\ has'[job.alloc] = {"fd", "handle"}
    BY <2>1, Zenon DEF HostIInv, JobInv
  <2> QED
    BY <1>1, <2>2, Zenon DEF HostIInv, JobInv
<1>7. step # "idle" /\ step' # "idle"
  BY <1>2, <1>3, Zenon
<1> QED
  BY <1>1, <1>4, <1>5, <1>6, <1>7, HostGainIInv, Zenon

-----------------------------------------------------------------------------
LEMMA HostCallIInv ==
  ASSUME HostIInv, NEW o \in Objs, NEW a \in Allocs, NEW big \in BOOLEAN,
         NEW first \in {"identity", "open"}, Call(o, a, big, first)
  PROVE  HostIInv'
<1>1. /\ step = "idle" /\ obj[o] = Empty /\ has[a] = {}
      /\ step' = first /\ job' = [alloc |-> a, obj |-> o, big |-> big]
      /\ UNCHANGED <<has, frames, moved, physical, obj, kept, group>>
  BY Zenon DEF Call, pages
<1>2. job' \in Jobs /\ job'.alloc = a /\ job'.obj = o
  BY <1>1, Zenon DEF Jobs
<1>3. ~ Held(a)
  <2>1. {} \notin Full
    BY Zenon DEF Full
  <2> QED
    BY <1>1, <2>1, Zenon DEF HostIInv, OwnsInv, OwnInv, KeptInv, Held, Owned
<1>4. OwnsInv' /\ KeptInv' /\ AddressInv'
  <2>1. Others(a)
    BY <1>1, Zenon DEF Others
  <2> QED
    BY <1>2, <1>3, <2>1, OthersKeep, Zenon
<1>5. HostShape'
  BY <1>1, Zenon DEF HostIInv, HostShape, Steps
<1>6. JobInv'
  BY <1>1, <1>2, Zenon DEF JobInv
<1>7. NoLeak'
  <2>1. job.alloc = NoAlloc /\ NoAlloc \notin Allocs
    <3>1. job = NoJob /\ NoAlloc \notin Allocs
      BY <1>1, HostAssumption, Zenon DEF HostIInv, JobInv
    <3> QED
      BY <3>1, SMTT(60) DEF NoJob
  <2> QED
    BY <1>1, <2>1, Zenon DEF HostIInv, NoLeak, Held, Owned
<1> QED
  BY <1>4, <1>5, <1>6, <1>7, Zenon DEF HostIInv

\* An error path gives back all that the call has taken.
LEMMA HostAllocFailsIInv ==
  ASSUME HostIInv, AllocFails
  PROVE  HostIInv'
<1>1. /\ step # "idle" /\ step' = "idle" /\ job' = NoJob
      /\ has' = [has EXCEPT ![job.alloc] = has[job.alloc] \ Undo(step)]
      /\ frames' = [frames EXCEPT ![job.alloc] = <<>>]
      /\ moved' = [moved EXCEPT ![job.alloc] = {}]
      /\ UNCHANGED <<physical, obj, kept>>
  BY Zenon DEF AllocFails
<1>2. job.alloc \in Allocs /\ ~ Held(job.alloc)
  BY <1>1, JobAlone, Zenon
<1>3. has[job.alloc] \ Undo(step) = {}
  <2>1. step \in Steps /\ JobInv
    BY Zenon DEF HostIInv, HostShape
  <2>2. CASE step \in {"identity", "map", "open"}
    BY <2>1, <2>2, Zenon DEF JobInv
  <2>3. CASE step = "lock"
    BY <2>1, <2>3, Zenon DEF JobInv, Undo
  <2>4. CASE step = "resolve"
    BY <2>1, <2>4, Zenon DEF JobInv, Undo
  <2>5. CASE step = "ioctl"
    BY <2>1, <2>5, Zenon DEF JobInv, Undo
  <2>6. CASE step \in {"align", "mmap"}
    BY <2>1, <2>6, Zenon DEF JobInv, Undo
  <2> QED
    BY <1>1, <2>1, <2>2, <2>3, <2>4, <2>5, <2>6, Zenon DEF Steps
<1>4. /\ has' \in [Allocs -> SUBSET Resources] /\ has'[job.alloc] = {}
      /\ \A a \in Allocs \ {job.alloc} : has'[a] = has[a]
  BY <1>1, <1>2, <1>3, Zenon DEF HostIInv, HostShape
<1>5. /\ frames' = [a \in Allocs |-> frames'[a]] /\ moved' = [a \in Allocs |-> moved'[a]]
      /\ \A a \in Allocs \ {job.alloc} : frames'[a] = frames[a] /\ moved'[a] = moved[a]
  <2>1. frames = [a \in Allocs |-> frames[a]] /\ moved = [a \in Allocs |-> moved[a]]
    BY Zenon DEF HostIInv, HostShape
  <2> QED
    BY <1>1, <2>1, Zenon
<1>6. /\ group' \in [type : {"dma", "identity"}, unbound : BOOLEAN]
      /\ group.type = "identity" => group'.type = "identity"
  BY Zenon DEF AllocFails, HostIInv, HostShape
<1>7. job'.alloc = NoAlloc
  BY <1>1, Zenon DEF NoJob
<1>8. OwnsInv' /\ KeptInv' /\ AddressInv'
  <2>1. Others(job.alloc)
    BY <1>1, <1>4, <1>5, <1>6, Zenon DEF Others
  <2> QED
    BY <1>2, <1>7, <2>1, OthersKeep, Zenon
<1>9. HostShape'
  BY <1>1, <1>4, <1>5, <1>6, Zenon DEF HostIInv, HostShape, Steps
<1>10. JobInv'
  BY <1>1, Zenon DEF JobInv
<1>11. NoLeak'
  BY <1>1, <1>4, Zenon DEF HostIInv, NoLeak, Held, Owned
<1> QED
  BY <1>8, <1>9, <1>10, <1>11, Zenon DEF HostIInv

\* The kernel moves a page: one that is not locked is nobody's yet, and one
\* that was read is marked.
LEMMA HostMigrateIInv ==
  ASSUME HostIInv, NEW a \in Allocs, Reclaim(a) \/ Migrate(a)
  PROVE  HostIInv'
<1>1. UNCHANGED <<has, physical, obj, kept, step, job, group>>
  BY Zenon DEF Reclaim, Migrate
<1>2. PICK n \in DOMAIN frames[a], f \in Frames :
        /\ frames' = [frames EXCEPT ![a][n] = f]
        /\ \/ "lock" \notin has[a] /\ moved' = moved
           \/ moved' = [moved EXCEPT ![a] = IF a = job.alloc /\ n > page THEN moved[a]
                                            ELSE moved[a] \cup {n}]
  BY Zenon DEF Reclaim, Migrate
<1>3. /\ frames' = [b \in Allocs |-> frames'[b]] /\ moved' = [b \in Allocs |-> moved'[b]]
      /\ frames'[a] = [frames[a] EXCEPT ![n] = f]
      /\ "lock" \notin has[a] \/ a = job.alloc \/ moved'[a] = moved[a] \cup {n}
      /\ \A b \in Allocs \ {a} : frames'[b] = frames[b] /\ moved'[b] = moved[b]
  <2>1. frames = [b \in Allocs |-> frames[b]] /\ moved = [b \in Allocs |-> moved[b]]
    BY Zenon DEF HostIInv, HostShape
  <2> QED
    BY <1>2, <2>1, Zenon
<1>4. HostShape' /\ JobInv' /\ OwnsInv' /\ KeptInv' /\ NoLeak'
  BY <1>1, <1>3, ZenonT(60) DEF HostIInv, HostShape, JobInv, OwnsInv, OwnInv, KeptInv, NoLeak,
     Held, Owned
<1>5. AddressInv'
  <2>1. ASSUME NEW b \in Allocs, Held(b)' PROVE TrueAddress(b)'
    <3>1. Held(b) /\ TrueAddress(b) /\ has[b] \in Full /\ b # job.alloc
      BY <1>1, <2>1, Zenon DEF HostIInv, Held, Owned, AddressInv, OwnsInv, OwnInv, KeptInv
    <3>2. CASE b = a /\ "lock" \notin has[a]
      BY <1>1, <3>1, <3>2, Zenon DEF TrueAddress, Full
    <3>3. CASE b = a /\ moved'[a] = moved[a] \cup {n}
      BY <1>1, <1>3, <3>1, <3>3, Zenon DEF TrueAddress
    <3>4. CASE b # a
      BY <1>1, <1>3, <3>1, <3>4, Zenon DEF TrueAddress
    <3> QED
      BY <1>3, <3>1, <3>2, <3>3, <3>4, Zenon
  <2> QED
    BY <2>1, Zenon DEF AddressInv
<1> QED
  BY <1>4, <1>5, Zenon DEF HostIInv

\* A DmaBuffer gets the allocation under way, complete.
LEMMA HostReturnIInv ==
  ASSUME HostIInv, NEW s \in Steps \ {"idle"}, NEW res, NEW first,
         ReturnBuffer(s, res, first),
         has[job.alloc] \cup res \in Full,
         "fd" \notin has[job.alloc] \cup res =>
           /\ group.type = "identity"
           /\ \A n \in DOMAIN frames[job.alloc] \ moved[job.alloc] :
                frames[job.alloc][n] = first + (n - 1)
  PROVE  HostIInv'
<1>1. /\ step # "idle" /\ step' = "idle" /\ job' = NoJob
      /\ has' = [has EXCEPT ![job.alloc] = has[job.alloc] \cup res]
      /\ physical' = [physical EXCEPT ![job.alloc] = first]
      /\ obj' = [obj EXCEPT ![job.obj] = [alloc |-> job.alloc, owner |-> TRUE]]
      /\ UNCHANGED <<frames, moved, kept, group>>
  BY Zenon DEF ReturnBuffer, pages
<1>2. job.alloc \in Allocs /\ job.obj \in Objs /\ ~ Held(job.alloc)
  BY <1>1, JobAlone, Zenon
<1>3. HostShape /\ JobInv /\ OwnsInv /\ KeptInv /\ NoLeak /\ AddressInv
  BY Zenon DEF HostIInv
<1>4. /\ has' \in [Allocs -> SUBSET Resources]
      /\ has'[job.alloc] = has[job.alloc] \cup res
      /\ \A a \in Allocs \ {job.alloc} : has'[a] = has[a]
  <2>1. has[job.alloc] \cup res \in SUBSET Resources
    BY Zenon DEF Full, Resources
  <2> QED
    BY <1>1, <1>2, <1>3, <2>1, Zenon DEF HostShape
<1>5. /\ physical' = [a \in Allocs |-> physical'[a]] /\ physical'[job.alloc] = first
      /\ \A a \in Allocs \ {job.alloc} : physical'[a] = physical[a]
  <2>1. physical = [a \in Allocs |-> physical[a]]
    BY <1>3, Zenon DEF HostShape
  <2> QED
    BY <1>1, <1>2, <2>1, Zenon
<1>6. /\ obj' \in [Objs -> HostBuffers \cup {Empty}]
      /\ obj'[job.obj].owner /\ obj'[job.obj].alloc = job.alloc
      /\ \A p \in Objs \ {job.obj} : obj'[p] = obj[p]
  BY <1>1, <1>2, <1>3, Zenon DEF HostShape, HostBuffers
<1>7. job'.alloc = NoAlloc /\ NoAlloc \notin Allocs
  BY <1>1, HostAssumption, Zenon DEF NoJob
<1>8. ~ obj[job.obj].owner
  BY <1>1, <1>3 DEF JobInv, Empty
<1>9. \A a : Held(a)' <=> Held(a) \/ a = job.alloc
  BY <1>1, <1>2, <1>6, <1>8, Zenon DEF Held, Owned
<1>10. HostShape'
  BY <1>1, <1>3, <1>4, <1>5, <1>6, ZenonT(60) DEF HostShape, Steps
<1>11. JobInv'
  BY <1>1, Zenon DEF JobInv
<1>12. OwnsInv'
  <2> SUFFICES ASSUME NEW o \in Objs, obj'[o].owner PROVE OwnInv(o)'
    BY Zenon DEF OwnsInv, OwnInv
  <2>1. CASE o = job.obj
    <3>1. job.alloc \notin kept /\ \A p \in Objs : obj[p].owner => obj[p].alloc # job.alloc
      BY <1>2, Zenon DEF Held, Owned
    <3> QED
      BY <1>1, <1>2, <1>4, <1>6, <1>7, <2>1, <3>1, ZenonT(60) DEF OwnInv
  <2>2. CASE o # job.obj
    <3>1. obj[o].owner /\ obj'[o] = obj[o] /\ OwnInv(o)
      BY <1>3, <1>6, <2>2, Zenon DEF OwnsInv
    <3>2. obj[o].alloc # job.alloc /\ has'[obj[o].alloc] = has[obj[o].alloc]
      BY <1>4, <3>1, Zenon DEF OwnInv
    <3> QED
      BY <1>1, <1>6, <1>7, <3>1, <3>2, Zenon DEF OwnInv
  <2> QED
    BY <2>1, <2>2, Zenon
<1>13. KeptInv'
  BY <1>1, <1>3, <1>4, <1>7, ZenonT(60) DEF KeptInv, HostShape
<1>14. NoLeak'
  BY <1>3, <1>4, <1>9, Zenon DEF NoLeak
<1>15. AddressInv'
  <2>1. ASSUME NEW a \in Allocs, Held(a)' PROVE TrueAddress(a)'
    <3>1. CASE a = job.alloc
      BY <1>1, <1>4, <1>5, <3>1, Zenon DEF TrueAddress
    <3>2. CASE a # job.alloc
      BY <1>1, <1>3, <1>4, <1>5, <1>9, <2>1, <3>2, ZenonT(60) DEF TrueAddress, AddressInv
    <3> QED
      BY <3>1, <3>2, Zenon
  <2> QED
    BY <2>1, Zenon DEF AddressInv
<1> QED
  BY <1>10, <1>11, <1>12, <1>13, <1>14, <1>15, Zenon DEF HostIInv

LEMMA HostResolveIInv ==
  ASSUME HostIInv, ScanInv, Resolve
  PROVE  HostIInv'
<1>1. /\ step = "resolve" /\ DOMAIN frames[job.alloc] = 1 .. page
      /\ ReturnBuffer("resolve", {}, first_pfn)
  BY Zenon DEF Resolve
<1>2. has[job.alloc] = {"map", "lock"} /\ group.type = "identity"
  BY <1>1, Zenon DEF HostIInv, JobInv
<1>3. has[job.alloc] \cup {} \in Full
  BY <1>2, Zenon DEF Full
<1>4. \A n \in DOMAIN frames[job.alloc] \ moved[job.alloc] :
        frames[job.alloc][n] = first_pfn + (n - 1)
  BY <1>1, Zenon DEF ScanInv
<1>5. "resolve" \in Steps \ {"idle"}
  BY Zenon DEF Steps
<1> QED
  BY <1>1, <1>2, <1>3, <1>4, <1>5, HostReturnIInv, Zenon

\* An entry read changes nothing that anybody holds.
LEMMA HostReadIInv ==
  ASSUME HostIInv, ReadEntry
  PROVE  HostIInv'
<1>1. UNCHANGED <<has, frames, moved, physical, obj, kept, step, job, group>>
  BY Zenon DEF ReadEntry, pages
<1>2. HostShape' /\ JobInv'
  BY <1>1, Zenon DEF HostIInv, HostShape, JobInv
<1>3. OwnsInv' /\ KeptInv' /\ NoLeak'
  BY <1>1, Zenon DEF HostIInv, OwnsInv, OwnInv, KeptInv, NoLeak, Held, Owned
<1>4. AddressInv'
  BY <1>1, Zenon DEF HostIInv, AddressInv, TrueAddress, Held, Owned
<1> QED
  BY <1>2, <1>3, <1>4, Zenon DEF HostIInv

LEMMA HostMapBufferIInv ==
  ASSUME HostIInv, MapBuffer
  PROVE  HostIInv'
<1>1. step = "mmap" /\ ReturnBuffer("mmap", {"map"}, 0)
  BY Zenon DEF MapBuffer, ReturnBuffer
<1>2. has[job.alloc] = {"fd", "handle"}
  BY <1>1, Zenon DEF HostIInv, JobInv
<1>3. has[job.alloc] \cup {"map"} \in Full /\ "fd" \in has[job.alloc] \cup {"map"}
  BY <1>2, Zenon DEF Full
<1>4. "mmap" \in Steps \ {"idle"}
  BY Zenon DEF Steps
<1> QED
  BY <1>1, <1>3, <1>4, HostReturnIInv, Zenon

-----------------------------------------------------------------------------
\* What the objects own once o has let go: the same allocations, by one object
\* each.
Carried(after, o) ==
  /\ after \in [Objs -> HostBuffers \cup {Empty}]
  /\ \A p \in Objs : after[p].owner => \E q \in Objs \ {o} : after[p] = obj[q]
  /\ \A p, q \in Objs :
       after[p].owner /\ after[q].owner /\ after[p].alloc = after[q].alloc => p = q
  /\ \A q \in Objs \ {o} : obj[q].owner => \E p \in Objs : after[p] = obj[q]

LEMMA HostReleaseOfIInv ==
  ASSUME HostIInv, step = "idle", NEW o \in Objs, NEW after, Carried(after,
         o), ReleaseOf(o, after)
  PROVE  HostIInv'
<1>1. HostShape /\ JobInv /\ OwnsInv /\ KeptInv /\ NoLeak /\ AddressInv
  BY Zenon DEF HostIInv
<1>2. obj' = after /\ UNCHANGED <<kept, step, job, group>>
  BY Zenon DEF ReleaseOf
<1>3. job = NoJob /\ job.alloc = NoAlloc /\ NoAlloc \notin Allocs
  <2>1. job = NoJob /\ NoAlloc \notin Allocs
    BY <1>1, HostAssumption, Zenon DEF JobInv
  <2> QED
    BY <2>1, SMTT(60) DEF NoJob
<1> DEFINE Gone(a) == obj[o].owner /\ a = obj[o].alloc
<1>4. /\ has' \in [Allocs -> SUBSET Resources]
      /\ frames' = [a \in Allocs |-> frames'[a]] /\ moved' = [a \in Allocs |-> moved'[a]]
      /\ physical' = [a \in Allocs |-> physical'[a]]
      /\ \A a \in Allocs :
           IF Gone(a) THEN has'[a] = {}
           ELSE /\ has'[a] = has[a] /\ physical'[a] = physical[a]
                /\ frames'[a] = frames[a] /\ moved'[a] = moved[a]
  <2>1. CASE ~ obj[o].owner
    BY <1>1, <2>1, Zenon DEF ReleaseOf, HostShape, pages
  <2>2. CASE obj[o].owner
    <3>1. obj[o].alloc \in Allocs /\ has[obj[o].alloc] \in Full
      BY <1>1, <2>2, Zenon DEF OwnsInv, OwnInv
    <3>2. has[obj[o].alloc] \ Freed(obj[o].alloc) = {}
      BY <3>1, Zenon DEF Full, Freed
    <3>3. /\ has' = [has EXCEPT ![obj[o].alloc] = {}]
          /\ frames' = [frames EXCEPT ![obj[o].alloc] = <<>>]
          /\ moved' = [moved EXCEPT ![obj[o].alloc] = {}]
          /\ physical' = [physical EXCEPT ![obj[o].alloc] = 0]
      BY <2>2, <3>2, Zenon DEF ReleaseOf
    <3>4. /\ frames = [a \in Allocs |-> frames[a]] /\ moved = [a \in Allocs |-> moved[a]]
          /\ physical = [a \in Allocs |-> physical[a]]
      BY <1>1, Zenon DEF HostShape
    <3>8. /\ moved' = [a \in Allocs |-> moved'[a]]
          /\ \A a \in Allocs : a # obj[o].alloc => moved'[a] = moved[a]
      BY <3>1, <3>3, <3>4, Zenon
    <3>5. /\ frames' = [a \in Allocs |-> frames'[a]]
          /\ \A a \in Allocs : a # obj[o].alloc => frames'[a] = frames[a]
      BY <3>1, <3>3, <3>4, Zenon
    <3>6. /\ physical' = [a \in Allocs |-> physical'[a]]
          /\ \A a \in Allocs : a # obj[o].alloc => physical'[a] = physical[a]
      BY <3>1, <3>3, <3>4, Zenon
    <3>7. /\ has' \in [Allocs -> SUBSET Resources]
          /\ has'[obj[o].alloc] = {}
          /\ \A a \in Allocs : a # obj[o].alloc => has'[a] = has[a]
      BY <1>1, <3>1, <3>3, Zenon DEF HostShape
    <3> QED
      BY <2>2, <3>1, <3>5, <3>6, <3>7, <3>8, Zenon
  <2> QED
    BY <2>1, <2>2, Zenon
<1>5. ASSUME NEW p \in Objs, obj'[p].owner
      PROVE  /\ obj'[p].alloc \in Allocs /\ obj'[p].alloc \notin kept
             /\ has[obj'[p].alloc] \in Full /\ ~ Gone(obj'[p].alloc)
  <2>1. PICK q \in Objs \ {o} : obj'[p] = obj[q]
    BY <1>2, <1>5, Zenon DEF Carried
  <2>2. obj[q].owner /\ OwnInv(q)
    BY <1>1, <1>5, <2>1, Zenon DEF OwnsInv
  <2> QED
    BY <2>1, <2>2, Zenon DEF OwnInv
<1>6. ASSUME NEW a \in kept PROVE a \in Allocs /\ ~ Gone(a)
  BY <1>1, Zenon DEF HostShape, OwnsInv, OwnInv
<1>7. ASSUME NEW a, Held(a)' PROVE Held(a) /\ ~ Gone(a)
  BY <1>2, <1>5, <1>6, <1>7, ZenonT(60) DEF Held, Owned, Carried
<1>8. ASSUME NEW a, Held(a), ~ Gone(a) PROVE Held(a)'
  <2>1. CASE a \in kept
    BY <1>2, <2>1, Zenon DEF Held
  <2>2. CASE Owned(a)
    <3>1. PICK q \in Objs : obj[q].owner /\ obj[q].alloc = a
      BY <2>2, Zenon DEF Owned
    <3>2. q # o
      BY <1>8, <3>1, Zenon
    <3>3. PICK p \in Objs : after[p] = obj[q]
      BY <3>1, <3>2, Zenon DEF Carried
    <3> QED
      BY <1>2, <3>1, <3>3, Zenon DEF Held, Owned
  <2> QED
    BY <1>8, <2>1, <2>2, Zenon DEF Held
<1>9. HostShape'
  BY <1>1, <1>2, <1>4, Zenon DEF HostShape, Carried
<1>10. JobInv'
  BY <1>2, <1>3, Zenon DEF JobInv
<1>11. OwnsInv'
  BY <1>2, <1>3, <1>4, <1>5, Zenon DEF OwnsInv, OwnInv, Carried
<1>12. KeptInv'
  BY <1>1, <1>2, <1>3, <1>4, <1>6, Zenon DEF KeptInv
<1>13. NoLeak'
  BY <1>1, <1>2, <1>3, <1>4, <1>8, Zenon DEF NoLeak
<1>14. AddressInv'
  <2>1. ASSUME NEW a \in Allocs, Held(a)' PROVE TrueAddress(a)'
    <3>1. TrueAddress(a) /\ ~ Gone(a)
      BY <1>1, <1>7, <2>1, Zenon DEF AddressInv
    <3>2. /\ has'[a] = has[a] /\ physical'[a] = physical[a]
          /\ frames'[a] = frames[a] /\ moved'[a] = moved[a]
      BY <1>4, <3>1, Zenon
    <3> QED
      BY <1>2, <3>1, <3>2, Zenon DEF TrueAddress
  <2> QED
    BY <2>1, Zenon DEF AddressInv
<1> QED
  BY <1>9, <1>10, <1>11, <1>12, <1>13, <1>14, Zenon DEF HostIInv

\* Two objects never own the same allocation.
LEMMA OneOwner ==
  ASSUME HostIInv, NEW p \in Objs, NEW q \in Objs,
         obj[p].owner, obj[q].owner, obj[p].alloc = obj[q].alloc
  PROVE  p = q
BY Zenon DEF HostIInv, OwnsInv, OwnInv

LEMMA HostReleaseIInv ==
  ASSUME HostIInv, NEW o \in Objs, ReleaseBuffer(o)
  PROVE  HostIInv'
<1> DEFINE after == [obj EXCEPT ![o] = Empty]
<1>1. step = "idle" /\ ReleaseOf(o, after)
  BY Zenon DEF ReleaseBuffer
<1>2. obj \in [Objs -> HostBuffers \cup {Empty}] /\ ~ Empty.owner
  BY Zenon DEF HostIInv, HostShape, Empty
<1>3. /\ after \in [Objs -> HostBuffers \cup {Empty}] /\ after[o] = Empty
      /\ \A p \in Objs \ {o} : after[p] = obj[p]
  BY <1>2, Zenon
<1>4. Carried(after, o)
  <2> HIDE DEF after
  <2> QED
    BY <1>2, <1>3, OneOwner, Zenon DEF Carried
<1> HIDE DEF after
<1> QED
  BY <1>1, <1>4, HostReleaseOfIInv, Zenon

LEMMA MoveCarried ==
  ASSUME HostIInv, NEW o \in Objs, NEW from \in Objs, o # from
  PROVE  Carried([obj EXCEPT ![o] = obj[from], ![from] = Stolen(from)], o)
<1> DEFINE after == [obj EXCEPT ![o] = obj[from], ![from] = Stolen(from)]
<1>1. obj \in [Objs -> HostBuffers \cup {Empty}] /\ ~ Empty.owner
  BY Zenon DEF HostIInv, HostShape, Empty
<1>2. /\ after \in [Objs -> HostBuffers \cup {Empty}]
      /\ after[o] = obj[from] /\ after[from] = Empty
      /\ \A p \in Objs \ {o, from} : after[p] = obj[p]
  BY <1>1, Zenon DEF Stolen
<1> HIDE DEF after
<1>3. ASSUME NEW p \in Objs, after[p].owner
      PROVE  p # from /\ after[p] = obj[IF p = o THEN from ELSE p]
  BY <1>1, <1>2, <1>3, Zenon
<1>4. \A p, q \in Objs :
        after[p].owner /\ after[q].owner /\ after[p].alloc = after[q].alloc => p = q
  BY <1>3, OneOwner, ZenonT(60)
<1>5. \A p \in Objs : after[p].owner => \E q \in Objs \ {o} : after[p] = obj[q]
  BY <1>3, Zenon
<1>6. \A q \in Objs \ {o} : obj[q].owner => \E p \in Objs : after[p] = obj[q]
  BY <1>2, Zenon
<1>7. Carried(after, o)
  BY <1>2, <1>4, <1>5, <1>6, Zenon DEF Carried
<1> QED
  BY <1>7, Zenon DEF after

LEMMA HostMoveIInv ==
  ASSUME HostIInv, NEW o \in Objs, NEW from \in Objs, MoveConstruct(o,
         from) \/ MoveAssign(o, from)
  PROVE  HostIInv'
<1> DEFINE after == [obj EXCEPT ![o] = obj[from], ![from] = Stolen(from)]
<1>1. step = "idle" /\ o # from
  BY Zenon DEF MoveConstruct, MoveAssign
<1>2. ReleaseOf(o, after)
  <2>1. CASE MoveConstruct(o, from)
    <3>1. ~ obj[o].owner
      BY <2>1 DEF MoveConstruct, Empty
    <3> QED
      BY <2>1, <3>1, Zenon DEF MoveConstruct, ReleaseOf, pages
  <2>2. CASE MoveAssign(o, from)
    BY <2>2, Zenon DEF MoveAssign
  <2> QED
    BY <2>1, <2>2, Zenon
<1>3. Carried(after, o)
  BY <1>1, MoveCarried, Zenon
<1> HIDE DEF after
<1> QED
  BY <1>1, <1>2, <1>3, HostReleaseOfIInv, Zenon

\* keep_allocated: the object lets go, and the allocation is kept.
LEMMA HostKeepAllocatedIInv ==
  ASSUME HostIInv, NEW o \in Objs, KeepAllocated(o)
  PROVE  HostIInv'
<1>1. HostShape /\ JobInv /\ OwnsInv /\ KeptInv /\ NoLeak /\ AddressInv
  BY Zenon DEF HostIInv
<1>2. /\ step = "idle" /\ obj[o].owner
      /\ obj' = [obj EXCEPT ![o].owner = FALSE]
      /\ kept' = kept \cup {obj[o].alloc}
      /\ UNCHANGED <<has, frames, moved, physical, step, job, group>>
  BY Zenon DEF KeepAllocated, pages
<1>3. /\ obj[o].alloc \in Allocs /\ obj[o].alloc # job.alloc /\ has[obj[o].alloc] \in Full
      /\ \A p \in Objs : obj[p].owner /\ obj[p].alloc = obj[o].alloc => p = o
  BY <1>1, <1>2, Zenon DEF OwnsInv, OwnInv
<1>4. /\ obj' \in [Objs -> HostBuffers \cup {Empty}] /\ ~ obj'[o].owner
      /\ \A p \in Objs \ {o} : obj'[p] = obj[p]
  <2>1. obj[o] \in HostBuffers
    BY <1>1, <1>2 DEF HostShape, Empty
  <2>2. obj'[o] = [obj[o] EXCEPT !.owner = FALSE]
    BY <1>1, <1>2, Zenon DEF HostShape
  <2>3. obj'[o] \in HostBuffers /\ ~ obj'[o].owner
    BY <2>1, <2>2, Zenon DEF HostBuffers
  <2> QED
    BY <1>1, <1>2, <2>3, Zenon DEF HostShape
<1>5. \A a : Held(a)' => Held(a)
  BY <1>2, <1>4, Zenon DEF Held, Owned
<1>6. \A a : Held(a) => Held(a)'
  BY <1>2, <1>4, Zenon DEF Held, Owned
<1>7. HostShape'
  BY <1>1, <1>2, <1>3, <1>4, Zenon DEF HostShape
<1>8. JobInv'
  BY <1>1, <1>2, Zenon DEF JobInv
<1>9. OwnsInv'
  <2> SUFFICES ASSUME NEW p \in Objs, obj'[p].owner PROVE OwnInv(p)'
    BY Zenon DEF OwnsInv, OwnInv
  <2>1. obj'[p] = obj[p] /\ p # o /\ OwnInv(p)
    BY <1>1, <1>4, Zenon DEF OwnsInv
  <2>2. obj[p].owner /\ obj[p].alloc # obj[o].alloc
    BY <1>3, <2>1, Zenon
  <2> QED
    BY <1>2, <1>4, <2>1, <2>2, Zenon DEF OwnInv
<1>10. KeptInv'
  BY <1>1, <1>2, <1>3, Zenon DEF KeptInv
<1>11. NoLeak'
  BY <1>1, <1>2, <1>6, Zenon DEF NoLeak
<1>12. AddressInv'
  BY <1>1, <1>2, <1>5, Zenon DEF AddressInv, TrueAddress
<1> QED
  BY <1>7, <1>8, <1>9, <1>10, <1>11, <1>12, Zenon DEF HostIInv

LEMMA HostStepIInv ==
  ASSUME HostIInv, ScanInv, [HostNext]_hostVars
  PROVE  HostIInv'
<1>1. CASE \E o \in Objs, a \in Allocs, big \in BOOLEAN, first \in {"identity", "open"} :
             Call(o, a, big, first)
  BY <1>1, HostCallIInv, Zenon
<1>2. CASE EnsureIdentity
  BY <1>2, HostEnsureIdentityIInv, Zenon
<1>3. CASE MapPages
  BY <1>3, HostMapPagesIInv, Zenon
<1>4. CASE LockPages \/ OpenDevice \/ IoctlAlloc \/ Aligned
  BY <1>4, HostAcquireIInv, Zenon
<1>5. CASE Resolve
  BY <1>5, HostResolveIInv, Zenon
<1>6. CASE MapBuffer
  BY <1>6, HostMapBufferIInv, Zenon
<1>7. CASE AllocFails
  BY <1>7, HostAllocFailsIInv, Zenon
<1>12. CASE ReadEntry
  BY <1>12, HostReadIInv, Zenon
<1>8. CASE \E a \in Allocs : Reclaim(a) \/ Migrate(a)
  BY <1>8, HostMigrateIInv, Zenon
<1>9. CASE \E o \in Objs : ReleaseBuffer(o) \/ KeepAllocated(o)
  BY <1>9, HostReleaseIInv, HostKeepAllocatedIInv, Zenon
<1>10. CASE \E o, from \in Objs : MoveConstruct(o, from) \/ MoveAssign(o, from)
  BY <1>10, HostMoveIInv, Zenon
<1>11. CASE UNCHANGED hostVars
  <2>1. /\ UNCHANGED <<has, frames, moved, physical, obj, kept>>
        /\ UNCHANGED <<step, job, group>>
    BY <1>11, Zenon DEF hostVars
  <2>2. HostShape' /\ JobInv'
    BY <2>1, Zenon DEF HostIInv, HostShape, JobInv
  <2>3. OwnsInv' /\ KeptInv' /\ NoLeak'
    BY <2>1, Zenon DEF HostIInv, OwnsInv, OwnInv, KeptInv, NoLeak, Held, Owned
  <2>4. AddressInv'
    BY <2>1, Zenon DEF HostIInv, AddressInv, TrueAddress, Held, Owned
  <2> QED
    BY <2>2, <2>3, <2>4, Zenon DEF HostIInv
<1> QED
  BY <1>1, <1>2, <1>3, <1>4, <1>5, <1>6, <1>7, <1>8, <1>9, <1>10, <1>11, <1>12,
     Zenon DEF HostNext

\* The frames of a mapping and the entries read of them.
LEMMA HostStepScan ==
  ASSUME HostIInv, ScanInv, [HostNext]_hostVars
  PROVE  ScanInv'
<1>a. /\ HostShape /\ page \in Nat
      /\ frames = [a \in Allocs |-> frames[a]] /\ moved = [a \in Allocs |-> moved[a]]
      /\ \A a \in Allocs : \A n \in DOMAIN frames[a] : frames[a][n] \in Nat
  BY Zenon DEF HostIInv, HostShape, ScanInv
<1>b. step # "idle" => job.alloc \in Allocs
  BY JobAlone, Zenon
<1>c. 1 .. 0 = {} /\ 0 \in Nat
  OBVIOUS
<1>1. CASE ReadEntry
  <2> DEFINE pfn == frames[job.alloc][page + 1]
  <2>1. /\ step = "resolve" /\ page + 1 \in DOMAIN frames[job.alloc] /\ page' = page + 1
        /\ (page > 0 => pfn = first_pfn + page)
        /\ first_pfn' = IF page = 0 THEN pfn ELSE first_pfn
        /\ UNCHANGED <<frames, moved, step, job>>
    BY <1>1, Zenon DEF ReadEntry, Follows, pages
  <2>2. pfn \in Nat
    BY <1>a, <1>b, <2>1, Zenon
  <2> HIDE DEF pfn
  <2>3. ASSUME NEW n \in 1 .. page', n \notin moved[job.alloc]
        PROVE  frames[job.alloc][n] = first_pfn' + (n - 1)
    <3>1. CASE n = page + 1 /\ page = 0
      BY SMTT(60), <1>a, <2>1, <2>2, <3>1 DEF pfn
    <3>2. CASE n = page + 1 /\ page > 0
      BY SMTT(60), <1>a, <2>1, <2>2, <3>2 DEF pfn
    <3>3. CASE n \in 1 .. page
      BY <1>a, <2>1, <2>3, <3>3 DEF ScanInv
    <3> QED
      BY SMTT(60), <1>a, <2>1, <3>1, <3>2, <3>3
  <2>4. page' \in Nat
    BY <1>a, <2>1
  <2>5. ASSUME NEW n \in 1 .. page' PROVE n \in DOMAIN frames[job.alloc]
    <3>1. n \in 1 .. page \/ n = page + 1
      BY <1>a, <2>1
    <3> QED
      BY <2>1, <3>1, Zenon DEF ScanInv
  <2> QED
    BY <1>a, <2>1, <2>3, <2>4, <2>5, Zenon DEF ScanInv
<1>2. CASE \E a \in Allocs : Reclaim(a) \/ Migrate(a)
  <2>1. PICK a \in Allocs : Reclaim(a) \/ Migrate(a)
    BY <1>2, Zenon
  <2>2. PICK n \in DOMAIN frames[a], f \in Frames :
          /\ frames' = [frames EXCEPT ![a][n] = f]
          /\ \/ "lock" \notin has[a] /\ moved' = moved
             \/ moved' = [moved EXCEPT ![a] = IF a = job.alloc /\ n > page THEN moved[a]
                                              ELSE moved[a] \cup {n}]
    BY <2>1, Zenon DEF Reclaim, Migrate
  <2>3. UNCHANGED <<has, step, job, page, first_pfn>>
    BY <2>1, Zenon DEF Reclaim, Migrate, scan
  <2>4. /\ frames'[a] = [frames[a] EXCEPT ![n] = f]
        /\ \A b \in Allocs \ {a} : frames'[b] = frames[b] /\ moved'[b] = moved[b]
        /\ moved[a] \subseteq moved'[a]
        /\ \/ "lock" \notin has[a] \/ (a = job.alloc /\ n > page) \/ n \in moved'[a]
    BY <1>a, <2>2, ZenonT(60)
  <2>5. ASSUME NEW b \in Allocs, NEW m \in DOMAIN frames'[b] PROVE frames'[b][m] \in Nat
    <3>1. f \in Nat
      BY HostAssumption, Zenon
    <3>2. CASE b = a
      BY <1>a, <2>4, <3>1, <3>2, Zenon
    <3>3. CASE b # a
      BY <1>a, <2>4, <3>3, Zenon
    <3> QED
      BY <3>2, <3>3, Zenon
  <2>7. ASSUME NEW m \in 1 .. page PROVE m \in DOMAIN frames'[job.alloc]
    <3>1. step # "idle" /\ m \in DOMAIN frames[job.alloc]
      BY <1>c, <2>7, Zenon DEF ScanInv
    <3>2. job.alloc \in Allocs
      BY <1>b, <3>1, Zenon
    <3> QED
      BY <2>4, <3>1, <3>2, Zenon
  <2>6. ASSUME NEW m \in 1 .. page, m \notin moved'[job.alloc]
        PROVE  frames'[job.alloc][m] = first_pfn + (m - 1)
    <3>1. step = "resolve" /\ job.alloc \in Allocs /\ "lock" \in has[job.alloc]
      <4>1. step = "resolve"
        BY <1>c, <2>6, Zenon DEF ScanInv
      <4> QED
        BY <1>b, <4>1, Zenon DEF HostIInv, JobInv
    <3>2. m \notin moved[job.alloc]
      BY <2>4, <2>6, <3>1, Zenon
    <3>3. m \in DOMAIN frames[job.alloc] /\ frames[job.alloc][m] = first_pfn + (m - 1)
      BY <2>6, <3>2, Zenon DEF ScanInv
    <3>4. job.alloc = a => m # n
      <4>1. n > page => m # n
        BY <1>a, <2>6
      <4> QED
        BY <2>4, <2>6, <3>1, <4>1, Zenon
    <3> QED
      BY <2>4, <3>1, <3>3, <3>4, Zenon
  <2> QED
    BY <1>a, <2>3, <2>5, <2>6, <2>7, Zenon DEF ScanInv
<1>3. CASE MapPages
  <2>1. /\ step = "map" /\ step' = "lock" /\ page' = page
    BY <1>3, Zenon DEF MapPages, Gain, scan
  <2>2. page = 0
    BY <2>1, Zenon DEF ScanInv
  <2>3. PICK n \in {1, MaxPages} : \E f \in [1 .. n -> Frames] :
          frames' = [frames EXCEPT ![job.alloc] = f]
    BY <1>3, Zenon DEF MapPages
  <2>4. PICK f \in [1 .. n -> Frames] : frames' = [frames EXCEPT ![job.alloc] = f]
    BY <2>3, Zenon
  <2>5. ASSUME NEW b \in Allocs, NEW m \in DOMAIN frames'[b] PROVE frames'[b][m] \in Nat
    BY <1>a, <2>4, HostAssumption, Zenon
  <2> QED
    BY <1>c, <2>1, <2>2, <2>5, Zenon DEF ScanInv
<1>4. ASSUME page' = 0, step' # "resolve" \/ step = "lock",
             \A a \in Allocs : frames'[a] = frames[a] \/ frames'[a] = <<>>
      PROVE  ScanInv'
  <2>1. DOMAIN <<>> = {}
    OBVIOUS
  <2>2. \A a \in Allocs : \A n \in DOMAIN frames'[a] : frames'[a][n] \in Nat
    BY <1>a, <1>4, <2>1, Zenon
  <2> QED
    BY <1>4, <1>c, <2>2, Zenon DEF ScanInv
<1>5. CASE \/ \E o \in Objs, a \in Allocs, big \in BOOLEAN, first \in {"identity", "open"} :
                Call(o, a, big, first)
           \/ EnsureIdentity \/ LockPages \/ OpenDevice \/ IoctlAlloc \/ Aligned
  <2>1. page' = page /\ frames' = frames /\ step # "resolve" /\ (step' = "resolve" => step = "lock")
    BY <1>5, ZenonT(60) DEF Call, EnsureIdentity, LockPages, OpenDevice, IoctlAlloc, Aligned,
       Gain, pages, scan
  <2>2. page = 0
    BY <2>1, Zenon DEF ScanInv
  <2> QED
    BY <1>4, <2>1, <2>2, Zenon
<1>6. CASE Resolve \/ MapBuffer
  <2>1. page' = 0 /\ frames' = frames /\ step' = "idle"
    BY <1>6, Zenon DEF Resolve, MapBuffer, ReturnBuffer, pages
  <2> QED
    BY <1>4, <2>1, Zenon
<1>7. CASE AllocFails
  <2>1. page' = 0 /\ frames' = [frames EXCEPT ![job.alloc] = <<>>] /\ step' = "idle"
    BY <1>7, Zenon DEF AllocFails
  <2>2. \A a \in Allocs : frames'[a] = frames[a] \/ frames'[a] = <<>>
    BY <1>a, <2>1, Zenon
  <2> QED
    BY <1>4, <2>1, <2>2, Zenon
<1>8. ASSUME NEW o, NEW after, step = "idle", ReleaseOf(o, after) PROVE ScanInv'
  <2>1. page' = page /\ step' = "idle"
    BY <1>8, Zenon DEF ReleaseOf, scan
  <2>2. frames' = frames \/ frames' = [frames EXCEPT ![obj[o].alloc] = <<>>]
    BY <1>8, Zenon DEF ReleaseOf, pages
  <2>3. \A a \in Allocs : frames'[a] = frames[a] \/ frames'[a] = <<>>
    BY <1>a, <2>2, Zenon
  <2>4. page = 0
    BY <1>8, Zenon DEF ScanInv
  <2> QED
    BY <1>4, <2>1, <2>3, <2>4, Zenon
<1>9. CASE \/ \E o \in Objs : ReleaseBuffer(o)
           \/ \E o, from \in Objs : MoveAssign(o, from)
  BY <1>8, <1>9, Zenon DEF ReleaseBuffer, MoveAssign
<1>10. CASE \/ \E o \in Objs : KeepAllocated(o)
            \/ \E o, from \in Objs : MoveConstruct(o, from)
  <2>1. page' = page /\ frames' = frames /\ step = "idle" /\ step' = step
    BY <1>10, Zenon DEF KeepAllocated, MoveConstruct, pages, scan
  <2>2. page = 0
    BY <2>1, Zenon DEF ScanInv
  <2> QED
    BY <1>4, <2>1, <2>2, Zenon
<1>11. CASE UNCHANGED hostVars
  BY <1>11, Zenon DEF hostVars, ScanInv
<1> QED
  BY <1>1, <1>2, <1>3, <1>5, <1>6, <1>7, <1>9, <1>10, <1>11, ZenonT(60) DEF HostNext

-----------------------------------------------------------------------------
\* A fact the library states; its module's other facts are not needed here.
LEMMA Cardinalities ==
  ASSUME NEW x
  PROVE  Cardinality({}) = 0 /\ Cardinality({x}) = 1
<1>1. ASSUME NEW S \in {{}, {x}}
      PROVE  Cardinality(S) = IF S = {} THEN 0 ELSE 1
  <2> DEFINE Extends(f) == [T \in SUBSET S |->
                           IF T = {} THEN 0 ELSE 1 + f[T \ {CHOOSE y : y \in T}]]
             Count == [T \in SUBSET S |-> IF T = {} THEN 0 ELSE 1]
             CS == CHOOSE f : f = Extends(f)
  <2>1. \A T \in SUBSET S : T # {} => T \ {CHOOSE y : y \in T} = {}
    <3>1. ASSUME NEW T \in SUBSET S, T # {} PROVE T = {x}
      BY <3>1, Zenon
    <3>2. (CHOOSE y : y \in {x}) = x
      BY Zenon
    <3> QED
      BY <3>1, <3>2
  <2>2. Count = Extends(Count)
    <3>1. ASSUME NEW T \in SUBSET S, T # {} PROVE 1 + Count[T \ {CHOOSE y : y \in T}] = 1
      <4>1. T \ {CHOOSE y : y \in T} = {} /\ {} \in SUBSET S
        BY <2>1, <3>1, Zenon
      <4> QED
        BY <4>1
    <3> QED
      BY <3>1, Zenon
  <2>3. CS = Extends(CS)
    <3> HIDE DEF Extends, Count
    <3> QED
      BY <2>2, Zenon
  <2>4. Cardinality(S) = CS[S]
    BY Zenon DEF Cardinality
  <2> HIDE DEF CS
  <2>5. CS[{}] = 0 /\ {} \in SUBSET S /\ S \in SUBSET S
    BY <2>3, Zenon
  <2>6. S # {} => CS[S] = 1 + CS[{}]
    BY <2>1, <2>3, <2>5, Zenon
  <2> QED
    BY <2>4, <2>5, <2>6
<1>2. {x} # {}
  BY Zenon
<1> QED
  BY <1>1, <1>2, Zenon

LEMMA OneHolder ==
  ASSUME HostIInv, NEW a \in Allocs
  PROVE  /\ Cardinality(Owners(a)) + Cardinality({job.alloc, NoAlloc} \cap {a})
              + Cardinality(kept \cap {a}) = (IF has[a] = {} /\ job.alloc # a THEN 0 ELSE 1)
         /\ Held(a) => has[a] \in Full
         /\ Held(a) <=> Owners(a) # {} \/ a \in kept
<1>1. OwnsInv /\ KeptInv /\ NoLeak
  BY Zenon DEF HostIInv
<1>2. Held(a) => has[a] \in Full
  BY <1>1, Zenon DEF OwnsInv, OwnInv, KeptInv, Held, Owned
<1>3. Held(a) <=> Owners(a) # {} \/ a \in kept
  BY Zenon DEF Held, Owned, Owners
<1>4. {} \notin Full
  BY Zenon DEF Full
<1>5. /\ Cardinality({}) = 0 /\ \A x : Cardinality({x}) = 1
  BY Cardinalities, Zenon
<1>6. NoAlloc # a
  BY HostAssumption, Zenon
<1>7. CASE Owned(a)
  <2>1. PICK o \in Objs : obj[o].owner /\ obj[o].alloc = a
    BY <1>7, Zenon DEF Owned
  <2>2. OwnInv(o)
    BY <1>1, Zenon DEF OwnsInv
  <2>3. Owners(a) = {o}
    BY <2>1, <2>2, Zenon DEF OwnInv, Owners
  <2>4. {job.alloc, NoAlloc} \cap {a} = {} /\ kept \cap {a} = {}
    BY <1>6, <2>1, <2>2, Zenon DEF OwnInv
  <2>5. has[a] # {}
    BY <1>2, <1>4, <1>7, Zenon DEF Held
  <2> QED
    <3>1. /\ Cardinality(Owners(a)) = 1
          /\ Cardinality({job.alloc, NoAlloc} \cap {a}) = 0
          /\ Cardinality(kept \cap {a}) = 0
      BY <1>5, <2>3, <2>4, Zenon
    <3> QED
      BY <1>2, <1>3, <2>5, <3>1
<1>8. CASE ~ Owned(a) /\ a \in kept
  <2>1. Owners(a) = {}
    BY <1>8, Zenon DEF Owned, Owners
  <2>2. {job.alloc, NoAlloc} \cap {a} = {} /\ kept \cap {a} = {a}
    BY <1>1, <1>6, <1>8, Zenon DEF KeptInv
  <2>3. has[a] # {}
    BY <1>2, <1>4, <1>8, Zenon DEF Held
  <2> QED
    <3>1. /\ Cardinality(Owners(a)) = 0
          /\ Cardinality({job.alloc, NoAlloc} \cap {a}) = 0
          /\ Cardinality(kept \cap {a}) = 1
      BY <1>5, <2>1, <2>2, Zenon
    <3> QED
      BY <1>2, <1>3, <2>3, <3>1
<1>9. CASE ~ Held(a)
  <2>1. Owners(a) = {} /\ kept \cap {a} = {}
    BY <1>9, Zenon DEF Held, Owned, Owners
  <2>2. job.alloc = a => {job.alloc, NoAlloc} \cap {a} = {a}
    BY Zenon
  <2>3. job.alloc # a => {job.alloc, NoAlloc} \cap {a} = {} /\ has[a] = {}
    BY <1>1, <1>6, <1>9, Zenon DEF NoLeak
  <2> QED
    BY SMTT(60), <1>2, <1>3, <1>5, <2>1, <2>2, <2>3
<1> QED
  BY <1>7, <1>8, <1>9, Zenon DEF Held

\* The inductive invariant holds in every reachable state.
THEOREM HostInvariance == HostSpec => []HostInv
<1>1. HostInit => HostInv
  <2>1. HostInit => ScanInv
    <3>1. 1 .. 0 = {} /\ 0 \in Nat /\ DOMAIN <<>> = {}
      OBVIOUS
    <3> QED
      BY <3>1, Zenon DEF HostInit, ScanInv
  <2> QED
    BY <2>1, HostInitIInv, Zenon DEF HostInv
<1>2. HostInv /\ [HostNext]_hostVars => HostInv'
  BY HostStepIInv, HostStepScan, Zenon DEF HostInv
<1> QED
  BY <1>1, <1>2, PTL DEF HostSpec

\* Every file descriptor, handle, mapping and page lock has one owner: an object,
\* the allocation under way, or the set keep_allocated leaves to hardware.  No
\* error path of an allocation leaks one, and no move leaves two objects to
\* free it.
THEOREM ResourcesOwnedOnce == HostSpec => []OwnedOnce
<1>1. HostInv => OwnedOnce
  <2> SUFFICES ASSUME HostIInv PROVE OwnedOnce
    BY Zenon DEF HostInv
  <2>1. HostShape /\ JobInv
    BY Zenon DEF HostIInv
  <2>2. step = "idle" <=> job = NoJob
    <3>1. NoJob \notin Jobs
      BY HostAssumption, Zenon DEF NoJob, Jobs
    <3> QED
      BY <2>1, <3>1, Zenon DEF JobInv
  <2>3. group.type \in {"dma", "identity"} /\ group.unbound \in BOOLEAN
    BY <2>1, Zenon DEF HostShape
  <2>4. \A o \in Objs : obj[o] = Empty \/ obj[o] \in [alloc : Allocs, owner : BOOLEAN]
    BY <2>1, Zenon DEF HostShape, HostBuffers
  <2>5. HostTypeOK
    BY <2>1, <2>2, <2>3, <2>4, Zenon DEF HostTypeOK, HostShape
  <2>6. \A a \in Allocs :
          /\ Cardinality(Owners(a)) + Cardinality({job.alloc, NoAlloc} \cap {a})
               + Cardinality(kept \cap {a}) = (IF has[a] = {} /\ job.alloc # a THEN 0 ELSE 1)
          /\ Owners(a) # {} \/ a \in kept =>
               has[a] \in {{"fd", "handle", "map"}, {"map", "lock"}}
    BY OneHolder, Zenon DEF Full
  <2> QED
    BY <2>5, <2>6, Zenon DEF OwnedOnce
<1> QED
  BY <1>1, HostInvariance, PTL

\* The physical range a drv=none buffer reports is that of the frames under its
\* mapping for as long as it is held, page by page, whatever the kernel
\* reclaims: the pages are locked before the pagemap is read, and the IOMMU
\* group is an identity one.  Only a page migrated after its entry was read,
\* which mlock does not prevent, is elsewhere.
THEOREM AddressIsMemory == HostSpec => []PhysicalIsMapped
<1>1. HostInv => PhysicalIsMapped
  BY OneHolder, Zenon DEF HostInv, HostIInv, AddressInv, TrueAddress, PhysicalIsMapped
<1> QED
  BY <1>1, HostInvariance, PTL
=============================================================================
