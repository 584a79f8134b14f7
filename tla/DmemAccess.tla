----------------------------- MODULE DmemAccess -----------------------------
(***************************************************************************)
(* How testcases reach device memory: BAR mappings, PCIe aperture windows, *)
(* and the CPU transfers through them, in isml_diag/src/core/HalContext.cpp*)
(* and DevMem.cpp; with the testcases of isml_diag/testcases/pcie/ that use*)
(* or move the windows: aperture_mapping, cp_copy and dma_copy, example.   *)
(* Testcases of one device run one after another (execution_mutex_, see    *)
(* DeviceManager), so the model is one sequence of testcases; what makes   *)
(* it hard is what each one leaves behind in windows, memory and bridge.   *)
(*                                                                         *)
(* Memory is counted in blocks.  A test window is two blocks long, its     *)
(* edges; the default window covers the whole DMEM region.  Windows are    *)
(* numbered in the order of the aperture testcase's cases.                 *)
(***************************************************************************)
EXTENDS Integers, Sequences, FiniteSets

CONSTANTS
  Size,             \* region->size and aperture_size of DMEM
  Word,             \* one more than numeric_limits<uint64_t>::max()
  BarOf,            \* the BAR of each window
  Default,          \* the region's window: BAR4, aperture 0
  Mappings,         \* what mmap_bar_space may leave for BAR 0, 2 and 4
  Kinds,            \* the testcases that run
  CopyBlocks,       \* where device_mem_alloc may put a copy's buffers
  Arguments,        \* the offsets, lengths and targets a testcase passes
  MaxRuns,          \* bound: testcases
  MaxScans,         \* bound: discoveries after the first
  MaxFaults         \* bound: window writes the hardware gets wrong

ASSUME ConstantsAssumption ==
  /\ Size \in Nat /\ Word \in Nat /\ Size < Word
  /\ BarOf \in Seq({2, 4})
  /\ Default \in DOMAIN BarOf /\ BarOf[Default] = 4
  /\ Mappings \subseteq [{0, 2, 4} -> [mode : {"none", "ro", "rw"}, size : 0 .. Word - 1]]
  /\ CopyBlocks \subseteq 0 .. Size - 1
  /\ Arguments \subseteq 0 .. Word - 1
  /\ MaxRuns \in Nat /\ MaxScans \in Nat /\ MaxFaults \in Nat

VARIABLES
  link,             \* the endpoint: up, in reset, or down (COMMAND cleared)
  bars,             \* DeviceContext::bar_mappings: mode and size
  reg, map,         \* window registers, and the translation really in force
  mem,              \* the content of DMEM, SRAM, host buffer and IMEM
  pc, kind, i,      \* the running testcase, its step and loop index
  buf,              \* the DMEM blocks it allocated
  orig, written,    \* ApertureCase::originals and written
  plan,             \* a copy's steps left
  moved,            \* history: the engine moved the data of every step
  custom,           \* history: the testcase moved the default window itself
  status, before,   \* its result; history: mem when it began
  runs, scans, faults

vars == <<link, bars, reg, map, mem, pc, kind, i, buf, orig, written, plan,
          moved, custom, status, before, runs, scans, faults>>

hardware == <<link, bars, reg, map, scans, faults>>
edges == <<orig, written>>
copy == <<plan, moved>>

Windows == DOMAIN BarOf
Blocks == 0 .. Size - 1
EdgeCount == 2                          \* EDGES.size(), APERTURE_SIZE in blocks
Edges == 1 .. EdgeCount * Len(BarOf)    \* the nested loops, flattened
WindowOf(e) == (e + 1) \div EdgeCount
EdgeOf(e) == (e + 1) % EdgeCount

\* The offset of a window in its BAR: the windows of a BAR are laid side by side.
BarOffset(w) == EdgeCount * Cardinality({v \in Windows : v < w /\ BarOf[v] = BarOf[w]})

\* Places a copy reads and writes, and what they hold.
Dmem(b) == <<"dmem", b>>
Sram == <<"sram", 0>>
Host == <<"host", 0>>
Imem == <<"imem", 0>>
Places == {Dmem(b) : b \in Blocks} \cup {Sram, Host, Imem}
Old(b) == <<"old", b>>
Expected == <<"expected", 0>>
Ones == <<"ones", 0>>                   \* what a dead or untranslated read returns
User == <<"user", 0>>
Nowhere == Size

\* The poison of cp_copy: every bit of the pattern inverted.
Poison == <<"poison", 0>>

BugPattern(w) == <<"pattern", BarOf[w]>>

\* ApertureCase::pattern, different for every window.
Pattern(w) == <<"pattern", w>>

Data == {Old(b) : b \in 0 .. Size} \cup {Pattern(w) : w \in Windows}
        \cup {Expected, Ones, User, Poison}

NoBars == [b \in {0, 2, 4} |-> [mode |-> "none", size |-> 0]]
NoWindow == [target |-> 0, size |-> 0]

Init ==
  /\ link = "up"
  /\ bars \in Mappings
  /\ reg = [w \in Windows |-> NoWindow] /\ map = [w \in Windows |-> 0]
  /\ mem = [p \in Places |-> Old(p[2])]
  /\ pc = "idle" /\ kind = "none" /\ i = 1 /\ buf = {}
  /\ orig = [e \in Edges |-> Ones] /\ written = {}
  /\ plan = << >> /\ moved = TRUE /\ custom = FALSE
  /\ status = FALSE /\ before = mem
  /\ runs = 0 /\ scans = 0 /\ faults = 0

-----------------------------------------------------------------------------
\* common::mmio and common::bar.

Read == {"ro", "rw"}                    \* the modes a read and a write need
Written == {"rw"}

IsValidRange(size, offset, len) == len # 0 /\ offset <= size /\ len <= size - offset

\* common::bar::read and write: the BAR is mapped, and writable for a write.
Reaches(bar, offset, len, modes) ==
  bars[bar].mode \in modes /\ IsValidRange(bars[bar].size, offset, len)

\* Where the device takes an access to block a of window w.
Lands(w, a) ==
  IF link = "up" /\ a < reg[w].size /\ map[w] + a \in Blocks THEN map[w] + a ELSE Nowhere

Seen(m, w, a) == IF Lands(w, a) = Nowhere THEN Ones ELSE m[Dmem(Lands(w, a))]

\* mem after a write of d to the blocks as of window w.
Stored(w, as, d) ==
  [p \in Places |-> IF \E a \in as : p = Dmem(Lands(w, a)) THEN d ELSE mem[p]]

-----------------------------------------------------------------------------
\* Windows: phal_pcie_aperture_set on the device, and aperture_set.

\* Windows are aligned to their size.
AlignUp(v) == v + (v % EdgeCount)

Took(w, t, s) ==
  [reg |-> [reg EXCEPT ![w] = [target |-> t, size |-> s]],
   map |-> [map EXCEPT ![w] = t], bad |-> 0]

\* The hardware's answers to a write of window w.  A device that does not
\* respond ignores it.  A faulty one may ignore it, move another window's
\* translation, or another window's register along with it.
Programmed(w, t, s) ==
  LET exact == Took(w, t, s)
      ignored == [reg |-> reg, map |-> map, bad |-> 1]
      astray == UNION {{[exact EXCEPT !.map[v] = AlignUp(x), !.bad = 1] : x \in Blocks} :
                         v \in Windows}
      doubled == {[exact EXCEPT !.map[v] = t, !.reg[v].target = t, !.bad = 1] :
                    v \in Windows \ {w}}
  IN IF link # "up" THEN {[ignored EXCEPT !.bad = 0]}
     ELSE {exact} \cup (IF faults = MaxFaults THEN {} ELSE {ignored} \cup astray \cup doubled)

BugReadBack(w, t, s) == link = "up"

\* phal_pcie_aperture_get and the comparison with what was requested.
ReadBack(w, t, s) == link = "up" /\ reg'[w] = [target |-> t, size |-> s]

\* aperture_set, with the early return of a bad range.  Registers are behind
\* BAR0; the set or the get may also fail by themselves.
ApertureSet(w, t, s, ok) ==
  IF s = 0 \/ t > Word - 1 - (s - 1) \/ bars[0].mode # "rw"
  THEN ~ ok /\ UNCHANGED <<reg, map, faults>>
  ELSE /\ \E h \in Programmed(w, t, s) :
            reg' = h.reg /\ map' = h.map /\ faults' = faults + h.bad
       /\ ok => ReadBack(w, t, s)

-----------------------------------------------------------------------------
\* Discovery and testcase setup.

\* PCI COMMAND: memory and bus mastering are enabled, or a write enables
\* them.  Reads from a device in reset look enabled.
MmioEnabled(writable) == link # "down" \/ writable

\* mmap_bar_space in discover.  A device in reset does not become ready and
\* is not registered.
Discover ==
  /\ pc = "idle" /\ scans < MaxScans
  /\ \E writable \in BOOLEAN :
       /\ link' = IF link = "down" /\ writable THEN "up" ELSE link
       /\ IF MmioEnabled(writable) /\ link # "reset"
          THEN bars' \in Mappings
          ELSE bars' = NoBars
  /\ scans' = scans + 1
  /\ UNCHANGED <<reg, map, faults, mem, pc, kind, i, buf, edges, copy, custom,
                 status, before, runs>>

Start(k) ==
  /\ pc = "idle" /\ runs < MaxRuns
  /\ kind' = k /\ pc' = "begin" /\ runs' = runs + 1
  /\ before' = mem
  /\ UNCHANGED <<hardware, mem, i, buf, edges, copy, custom, status>>

Return(s) == status' = s /\ pc' = "done"

BugSetDefault(ok) == ok /\ UNCHANGED <<reg, map, faults>>

\* begin_testcase programs the region's own window.
SetDefault(ok) == ApertureSet(Default, 0, Size, ok)

Begin ==
  /\ pc = "begin"
  /\ \E ok \in BOOLEAN :
       /\ SetDefault(ok)
       /\ IF ok THEN pc' = "allocate" /\ UNCHANGED status ELSE Return(FALSE)
  /\ UNCHANGED <<link, bars, scans, mem, kind, i, buf, edges, copy, custom, before, runs>>

\* The handles and the TestcaseScope go out of scope.
End ==
  /\ pc = "done"
  /\ pc' = "idle" /\ kind' = "none" /\ i' = 1 /\ buf' = {}
  /\ orig' = [e \in Edges |-> Ones] /\ written' = {}
  /\ plan' = << >> /\ moved' = TRUE /\ custom' = FALSE /\ status' = FALSE
  /\ before' = mem
  /\ UNCHANGED <<hardware, mem, runs>>

-----------------------------------------------------------------------------
\* PCIeModule::sequential_aperture_mapping.

\* ApertureCase::target_addr.
Target(w) == AlignUp(CHOOSE b \in buf : \A c \in buf : b <= c) + EdgeCount * (w - 1)

\* One allocation for all ranges, and one more for the alignment.
AllocateRanges ==
  /\ pc = "allocate" /\ kind = "aperture"
  /\ \/ /\ \E o \in Blocks :
             LET n == EdgeCount * (Len(BarOf) + 1)
             IN o + n <= Size /\ buf' = o .. o + n - 1
        /\ pc' = "configure" /\ UNCHANGED status
     \/ Return(FALSE) /\ UNCHANGED buf
  /\ UNCHANGED <<hardware, mem, kind, i, edges, copy, custom, before, runs>>

\* 1. Set and verify a window.
Configure ==
  /\ pc = "configure"
  /\ \E ok \in BOOLEAN :
       /\ ApertureSet(i, Target(i), EdgeCount, ok)
       /\ IF ~ ok THEN Return(FALSE) /\ UNCHANGED i
          ELSE /\ pc' = IF i = Len(BarOf) THEN "save" ELSE pc
               /\ i' = IF i = Len(BarOf) THEN 1 ELSE i + 1
               /\ UNCHANGED status
  /\ UNCHANGED <<link, bars, scans, mem, kind, buf, edges, copy, custom, before, runs>>

\* The next pass over the edges, or the next edge.
NextEdge(step) ==
  IF i = Len(orig) THEN pc' = step /\ i' = 1 ELSE i' = i + 1 /\ UNCHANGED pc

EdgeOffset == BarOffset(WindowOf(i)) + EdgeOf(i)

\* 2. Read the original content of an edge.
Save ==
  /\ pc = "save"
  /\ IF Reaches(BarOf[WindowOf(i)], EdgeOffset, 1, Read)
     THEN /\ orig' = [orig EXCEPT ![i] = Seen(mem, WindowOf(i), EdgeOf(i))]
          /\ NextEdge("write") /\ UNCHANGED status
     ELSE Return(FALSE) /\ UNCHANGED <<orig, i>>
  /\ UNCHANGED <<hardware, mem, kind, buf, written, copy, custom, before, runs>>

\* The passes that restore follows, whatever happened.
ToRestore == pc' = "restore" /\ i' = 1 /\ status' = FALSE

\* 3. Write a pattern.
Write ==
  /\ pc = "write"
  /\ IF Reaches(BarOf[WindowOf(i)], EdgeOffset, 1, Written)
     THEN /\ mem' = Stored(WindowOf(i), {EdgeOf(i)}, Pattern(WindowOf(i)))
          /\ written' = written \cup {i}
          /\ NextEdge("check") /\ UNCHANGED status
     ELSE ToRestore /\ UNCHANGED <<mem, written>>
  /\ UNCHANGED <<hardware, kind, buf, orig, copy, custom, before, runs>>

\* verify_aperture and the comparison of an edge.
Matches ==
  /\ reg[WindowOf(i)] = [target |-> Target(WindowOf(i)), size |-> EdgeCount]
  /\ Seen(mem, WindowOf(i), EdgeOf(i)) = Pattern(WindowOf(i))

\* 4. Check a mapping and its data; the get may fail by itself.
Check ==
  /\ pc = "check"
  /\ \/ /\ Matches
        /\ NextEdge("restore")
        /\ status' = (i = Len(orig))
     \/ ToRestore
  /\ UNCHANGED <<hardware, mem, kind, buf, edges, copy, custom, before, runs>>

BugRestores(e) == e \in written /\ status

\* "Restore every written edge".
Restores(e) == e \in written

\* 5. Write an original back.
Restore ==
  /\ pc = "restore"
  /\ mem' = IF Restores(i) THEN Stored(WindowOf(i), {EdgeOf(i)}, orig[i]) ELSE mem
  /\ NextEdge("done")
  /\ UNCHANGED <<hardware, kind, buf, edges, copy, custom, status, before, runs>>

-----------------------------------------------------------------------------
\* CPU transfers: MemBuffer::transfer, dmem_transfer and direct_rcf_transfer.

\* validate_window: the aperture, and the BAR from the window's offset 0 on.
\* Nothing looks at where the window points.
ValidateWindow(offset, len) ==
  IsValidRange(Size, offset, len) /\ Reaches(BarOf[Default], offset, len, Read)

\* transfer, and transfer64 for one block.
WindowTransfers(offset, len, modes) ==
  bars[BarOf[Default]].mode \in modes /\ ValidateWindow(offset, len)

\* dmem_transfer and dmem_transfer64: the region.
DmemTransfers(addr, len, modes) ==
  IsValidRange(Size, addr, len) /\ WindowTransfers(addr, len, modes)

\* mmio_transfer: chunk after chunk of the range.
MmioTransfer(offset, len, d) == Stored(Default, {offset + k : k \in 0 .. len - 1}, d)

\* MemBuffer::transfer at an offset of a buffer of this size at first.
Transfers(first, size, offset, len, modes) ==
  IsValidRange(size, offset, len) /\ DmemTransfers((first + offset) % Word, len, modes)

\* A place of a copy can be accessed: memcpy, direct_rcf_transfer, DMEM.
Accessible(p, modes) ==
  CASE p = Host -> TRUE
    [] p = Sram -> Reaches(0, 0, 1, modes)
    [] OTHER -> Transfers(p[2], 1, 0, 1, modes)

\* What the CPU reads at a place of m, and mem after it wrote there.
CpuRead(m, p) ==
  CASE p = Host -> m[p]
    [] p = Sram -> IF link = "up" THEN m[p] ELSE Ones
    [] OTHER -> Seen(m, Default, p[2])

CpuWritten(p, d) ==
  CASE p = Host \/ (p = Sram /\ link = "up") -> [mem EXCEPT ![p] = d]
    [] p = Sram /\ link # "up" -> mem
    [] OTHER -> MmioTransfer(p[2], 1, d)

\* The steps of cp_copy and dma_copy: fill a place, let the engine move
\* data, and compare.  d and r are the DMEM buffers.
Fill(p, d) == [op |-> "fill", at |-> p, data |-> d]
Hop(p, q) == [op |-> "move", at |-> p, data |-> q]
Compare(p) == [op |-> "compare", at |-> p, data |-> Expected]

Plan(k, d, r) ==
  CASE k = "h2sram" -> <<Fill(Sram, Poison), Fill(Host, Expected), Hop(Host, Sram), Compare(Sram)>>
    [] k = "sram2h" -> <<Fill(Sram, Expected), Fill(Host, Poison), Hop(Sram, Host), Compare(Host)>>
    [] k = "d2sram" -> <<Fill(Sram, Poison), Fill(d, Expected), Hop(d, Sram), Compare(Sram)>>
    [] k = "sram2d" -> <<Fill(Sram, Expected), Fill(d, Poison), Hop(Sram, d), Compare(d)>>
    [] k = "h2d" -> <<Fill(Host, Expected), Hop(Host, d), Compare(d)>>
    [] k = "d2h" -> <<Fill(d, Expected), Hop(d, Host), Compare(Host)>>
    [] k = "h2i" -> <<Fill(Host, Expected), Hop(Host, Imem), Hop(Imem, d), Compare(d)>>
    [] k = "i2h" -> <<Fill(d, Expected), Hop(d, Imem), Hop(Imem, Host), Compare(Host)>>
    [] k = "d2i2d" -> <<Fill(d, Expected), Hop(d, Imem), Hop(Imem, r), Compare(r)>>

CpCopies == {"h2sram", "sram2h", "d2sram", "sram2d"}
DmaCopies == {"h2d", "d2h", "h2i", "i2h", "d2i2d"}

\* The buffers of a copy; the host buffer is new.
AllocateCopy ==
  /\ pc = "allocate" /\ kind \in CpCopies \cup DmaCopies
  /\ \/ /\ \E d \in CopyBlocks :
             \E r \in IF kind = "d2i2d" THEN CopyBlocks \ {d} ELSE {d} :
               plan' = Plan(kind, Dmem(d), Dmem(r)) /\ buf' = {d, r}
        /\ mem' = [mem EXCEPT ![Host] = Old(0)]
        /\ pc' = "copy" /\ UNCHANGED status
     \/ Return(FALSE) /\ UNCHANGED <<mem, buf, plan>>
  /\ UNCHANGED <<hardware, kind, i, edges, moved, custom, before, runs>>

\* prepare: write, read back, compare.
Prepare ==
  /\ pc = "copy" /\ Head(plan).op = "fill"
  /\ LET s == Head(plan)
     IN IF ~ Accessible(s.at, Written) THEN Return(FALSE) /\ UNCHANGED <<mem, plan>>
        ELSE /\ mem' = CpuWritten(s.at, s.data)
             /\ IF CpuRead(mem', s.at) = s.data
                THEN plan' = Tail(plan) /\ UNCHANGED <<pc, status>>
                ELSE Return(FALSE) /\ UNCHANGED plan
  /\ UNCHANGED <<hardware, kind, i, buf, edges, moved, custom, before, runs>>

\* One DMA or CP transfer.  The engine may report completion without having
\* moved the data, and move it without reporting completion.
Transfer ==
  /\ pc = "copy" /\ Head(plan).op = "move"
  /\ \E moves, ok \in BOOLEAN :
       /\ moves \/ ok => link = "up" /\ bars[0].mode = "rw"
       /\ mem' = IF moves THEN [mem EXCEPT ![Head(plan).data] = mem[Head(plan).at]] ELSE mem
       /\ moved' = (moved /\ moves)
       /\ IF ok THEN plan' = Tail(plan) /\ UNCHANGED <<pc, status>>
          ELSE Return(FALSE) /\ UNCHANGED plan
  /\ UNCHANGED <<hardware, kind, i, buf, edges, custom, before, runs>>

\* mem_read and the comparison with the pattern.
Verify ==
  /\ pc = "copy" /\ Head(plan).op = "compare"
  /\ Return(/\ Accessible(Head(plan).at, Read)
            /\ CpuRead(mem, Head(plan).at) = Expected)
  /\ UNCHANGED <<hardware, mem, kind, i, buf, edges, copy, custom, before, runs>>

-----------------------------------------------------------------------------
\* A testcase that writes its buffer with mem_write at any offset, and may
\* move the default window with aperture_set first.
AllocateUser ==
  /\ pc = "allocate" /\ kind = "user"
  /\ \E d \in CopyBlocks : d + 1 \in Blocks /\ buf' = {d, d + 1}
  /\ pc' = "access"
  /\ UNCHANGED <<hardware, mem, kind, i, edges, copy, custom, status, before, runs>>

MoveWindow ==
  /\ pc = "access" /\ ~ custom
  /\ \E ok \in BOOLEAN, t \in Arguments, s \in {0, EdgeCount} :
       ApertureSet(Default, t, s, ok)
  /\ custom' = TRUE
  /\ UNCHANGED <<link, bars, scans, mem, pc, kind, i, buf, edges, copy, status, before, runs>>

Access ==
  /\ pc = "access"
  /\ \E offset, len \in Arguments :
       LET first == CHOOSE d \in buf : d + 1 \in buf
       IN IF Transfers(first, 2, offset, len, Written)
          THEN /\ mem' = MmioTransfer((first + offset) % Word, len, User)
               /\ Return(TRUE)
          ELSE Return(FALSE) /\ UNCHANGED mem
  /\ UNCHANGED <<hardware, kind, i, buf, edges, copy, custom, before, runs>>

-----------------------------------------------------------------------------
\* PCIeModule::example: register reads, then secondary_bus_reset(true) and
\* (false).

ExampleReads ==
  /\ pc = "allocate" /\ kind = "example"
  /\ \/ link = "up" /\ pc' = "assert" /\ UNCHANGED status
     \/ Return(FALSE)
  /\ UNCHANGED <<hardware, mem, kind, i, buf, edges, copy, custom, before, runs>>

\* The reset bit is written, and the device loses its configuration; the
\* verification of the write may still fail.
AssertReset ==
  /\ pc = "assert"
  /\ link' = "reset"
  /\ reg' = [w \in Windows |-> NoWindow] /\ map' = [w \in Windows |-> 0]
  /\ (pc' = "deassert" /\ UNCHANGED status) \/ Return(FALSE)
  /\ UNCHANGED <<bars, scans, faults, mem, kind, i, buf, edges, copy, custom, before, runs>>

DeassertReset ==
  /\ pc = "deassert"
  /\ link' = "down"
  /\ \E s \in BOOLEAN : Return(s)
  /\ UNCHANGED <<bars, reg, map, scans, faults, mem, kind, i, buf, edges, copy, custom,
                 before, runs>>

\* The bridge cannot be resolved, opened or read, is no Type-1 bridge, the
\* write fails, or the bit reads back unchanged.
ResetFails ==
  /\ pc \in {"assert", "deassert"}
  /\ Return(FALSE)
  /\ UNCHANGED <<hardware, mem, kind, i, buf, edges, copy, custom, before, runs>>

Next ==
  \/ Discover
  \/ \E k \in Kinds : Start(k)
  \/ Begin \/ End
  \/ AllocateRanges \/ Configure \/ Save \/ Write \/ Check \/ Restore
  \/ AllocateCopy \/ Prepare \/ Transfer \/ Verify
  \/ AllocateUser \/ MoveWindow \/ Access
  \/ ExampleReads \/ AssertReset \/ DeassertReset \/ ResetFails

Spec == Init /\ [][Next]_vars
-----------------------------------------------------------------------------
\* Everything in range.
TypeOK ==
  /\ link \in {"up", "reset", "down"}
  /\ bars \in Mappings \cup {NoBars}
  /\ \A w \in Windows : map[w] \in 0 .. Word - 1 /\ reg[w].target \in 0 .. Word - 1
  /\ mem \in [Places -> Data]
  /\ buf \subseteq Blocks /\ written \subseteq Edges
  /\ runs <= MaxRuns /\ scans <= MaxScans /\ faults <= MaxFaults

\* The hardware translates as its registers say.
Honest == \A w \in Windows : map[w] = reg[w].target

\* A testcase changes only the device memory it allocated, whatever windows
\* earlier testcases left behind, and whatever offset and length it passes to
\* mem_write; unless it moved the default window itself ("The testcase owns
\* the mapping after reconfiguration") or the hardware mistranslates.
OwnMemoryOnly ==
  [][Honest /\ ~ custom =>
       \A b \in Blocks : mem'[Dmem(b)] # mem[Dmem(b)] => b \in buf]_vars

\* State in range, and the aperture testcase leaves memory as it found it on
\* every path, also when windows alias each other or point outside its buffer.
MemoryRestored ==
  /\ TypeOK
  /\ pc = "done" /\ kind = "aperture" =>
       \A b \in Blocks : mem[Dmem(b)] = before[Dmem(b)]

\* "so cross-window interference is visible": the aperture testcase passes
\* only if no two windows reach the same memory.
PassMeansDistinct ==
  pc = "done" /\ kind = "aperture" /\ status =>
    \A v, w \in Windows :
      /\ Lands(w, 0) # Nowhere
      /\ v # w => map[v] # map[w]

\* A testcase passes only on a device that responds, the one that resets it
\* excepted, which leaves it out of reset.  A copy passes only if the
\* destination in the device or the host really holds the pattern, and for CP
\* copies, which poison the destination first, only if this transfer moved it.
PassMeansData ==
  pc = "done" /\ status =>
    /\ link = IF kind = "example" THEN "down" ELSE "up"
    /\ Honest /\ kind \in CpCopies \cup DmaCopies => mem[Head(plan).at] = Expected
    /\ Honest /\ kind \in CpCopies => moved
=============================================================================
