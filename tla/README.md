# Kestrel in TLA+

Specifications of the ISML Diagnostic host tool: the library and testcases
under `isml_diag/`, the Atlas implementer under `isml_lib/`, the firmware-side
UART framing under `abios/`, and the kernel DMA driver under `isml_kmod/`.
TLC checks every module on small instances; TLAPS proves the safety properties
of ten of them, and two refinements, for all values of their constants.
`PROJECT.json` lists the runs, the lines each definition models, the hazards and
the theorems.

## The system and its parts

The host reaches an Atlas TPU in three ways: register and memory accesses
through PCIe BARs (with DMA engines driven through them), a shared-memory IPC
slot served by device firmware, and a UART to the PMU. Python or a CLI
discovers devices and runs testcases on them.

| Part | State | Operations | What makes it hard | Module |
|---|---|---|---|---|
| UART session | transaction, retries, deadline, two mutexes, condition variable | `transact`, worker loop, `close` | callers, worker and closer interleave; late, duplicate, lost replies | `UartBridge`, promise in `UartPort` |
| UART log file | two buffers, drop counter | `append`, writer thread, `close` | full buffer, failing disk, close race | `LogFile` |
| UART receiver | receive buffer, text mode, session | `feed`, `flush_partial_text` | resynchronisation after damage, boot text | `StreamDecoder` |
| COBS codec | none, two loops over buffers | `cobs_encode`, `cobs_decode` | block boundary, bad input | `Cobs` |
| UART frames | header, CRC | `uart_ipc_encode`, `uart_ipc_decode`, host rules | rules stated in three places | `UartFrame` |
| CP queue copy | queue registers, remap, poison flags, buffers | `HqcCpQueue::copy` | any access fails, hardware outlives timeouts, aliasing pages | `HqcCpQueue` |
| Descriptor DMA | descriptor control, sync flags, SRAM | `DmaDescriptor::execute`, `dma_data_transfer` | stale completion, buffers in flight | `HqcDma` |
| Device memory | table of intervals per region | `device_mem_alloc`, `MemBuffer`, rediscovery | moves, keeps, first fit, concurrency | `DevMem`, promise in `IntervalAllocator` |
| Access to device memory | BAR mappings, aperture windows, bridge reset bit, memory content | `aperture_set`, `mem_read`, `mem_write`, `secondary_bus_reset`; aperture, copy and example testcases | what one testcase leaves to the next; hardware that mistranslates; range checks in four layers | `DmemAccess` |
| Firmware IPC | one slot of words | `IpcBridge::transact` | slow firmware, reused sequence numbers | `IpcBridge` |
| Kernel driver | files, buffers, mappings, reference counts | probe, ioctls, `mmap`, vma callbacks | concurrent free and map, error paths | `IsmlDrv` |
| Discovery and runs | devices, BAR mappings, PHAL contexts | `discover`, `run_testcase` | interpreter lock against `execution_mutex_` | `DeviceManager` |
| Host DMA memory | fd, handle, mapping, lock | `host_mem_alloc`, `DmaBuffer` | six failing system calls, moves, physical addresses | `HostMem` |
| Resource word | decoded record, inventory | decode, inventory tree | tables that must agree | `AtlasResource` |
| Policy files | none, lines of text | `load_one_policy`, `parse_testcase_policies`, `get_testcase_runs` | nested sections found by search, any order | `PolicyParser` |

## How the modules correspond to the code

A variable is a member of the class it models, an action is a stretch of code
between two points where another thread, the kernel or the hardware can act.
Code under one mutex is one action where nobody else sees its intermediate
states, and is split where somebody does: the worker's loop iteration, each
register access of a CP copy, each word of the IPC slot, each system call of
`host_mem_alloc`.

*UartBridge.* `state`, `request`, `retries`, `due`, `wire`, `result` are
`uart::Transaction`; `callers` is the mutex of that name, and the mutex
`Impl::state` is held exactly while `worker` is `"read"` or `"send"`. Time is one
bit, whether the deadline has passed. The line is a set of frames ever sent, from
which any may be read at any time, any number of times or never; replies of an
earlier session are there from the start.
`UartPort` is the abstract session: a call is asked, served alone, and answered with
its own reply or an error. `ImplementsPort` maps `pc` to its three phases.

*HqcCpQueue.* One `copy` per thread, phase by phase with the code's names.
`SubmissionGuard` is the record `guard`, and `Exit` is its destructor. Registers are
read and written one at a time and every access may fail. The three reads of the
idle test are one step. The hardware moves words, or stalls for ever.

*HqcDma.* One testcase thread runs transfer after transfer on one engine; the
hardware fetches a descriptor and completes it at any later time, also after the
host stopped waiting. `overlap` and `early` record that this has happened. A
transfer builds its own engine, so `init_desc_ctrl` runs for each one and
`init_ddp_ctrl` for each with a DMEM endpoint; `ctrl` and `ddp` are the registers
they set, which a `Reset` of the device clears. `Rediscover` is the host's side only:
kept memory is forgotten and the hardware goes on with what it does. `"example"` is
the single transfer of `dma_h2d_example`.

*DevMem.* The first-fit loop takes one step per table entry under
`allocation_mutex`; handles are moved and dropped at any time. `kept` intervals
of this session have no handle any more. `Rediscover` is `HalContext::clear`, which
forgets them. `IntervalAllocator` answers a request in one
step; the mapping takes `req`, `handle` and `kept` for its three variables and
hides the scan.

*DmemAccess.* Testcases on one device run one after another, so the model is one
sequence of them, and its state is what they leave behind: the windows
(`reg` is what a readback shows, `map` what the hardware really does), the content
of DMEM, SRAM and IMEM, the BAR mappings of the last discovery and the endpoint's
state. Memory is counted in blocks; a test window has two, its edges. Hardware may
get one window write wrong: ignore it, or move another window along with it. A
copy engine may report completion without having moved data. `"user"` is a
testcase that passes any offset and length to `mem_write`, and may move the
default window first.

*PolicyParser.* A file is a sequence of lines, each an indentation, a key and
perhaps a value. The operators are the parser's functions; `PolicyThrows`,
`RunThrows` and `TestsThrow` say when one of them throws.

*IpcBridge.* The slot is a record of words written one by one. The firmware
takes a request when it sees a new number, answers, then acknowledges.
`behind` records that a call began while a request was unanswered.

*IsmlDrv.* Each process is inside at most one system call; lookups under
`ctx->lock` are single steps, and what follows the unlock is a step of its own.
A process may try any handle, also one that a DMA_ALLOC has listed and not returned
yet; `known` are those returned, `early` records a DMA_FREE of another, and a
DMA_ALLOC whose buffer is freed under it goes on `"stale"`. When it then fails to
copy its answer out it deletes the buffer from a list it has left, and `stray` ends
the behaviour: what the kernel does after that is not modelled. The device may be
unbound while files are open (through sysfs, or because it went away), and bound
again.

*HostMem.* One allocation is under way at a time, one system call or pagemap entry
per step. The kernel may migrate any page at any time, and reclaim one that is not
locked; `moved` are the pages migrated since their entry was read.

*DeviceManager.* Threads hold the interpreter lock, give it up in
`run_testcase` and take it back after `execution_mutex_` has been released.
Devices that match the policy are a constant set; firmware boots at any time, and
a running testcase may reset the bus of its device (`SecondaryBusReset`), which
`reset` records until the next discovery.

The remaining modules follow their source function by function; `PROJECT.json`
gives the lines of every definition. Definitions named `Bug...` are variants
with a plausible mistake and appear in no specification; each shows that the
property it is paired with depends on the code it replaces.

## Runs

| Run | Shows | Distinct states | Time |
|---|---|---|---|
| `uart_bridge` | own replies, retry budget, results kept, close returns; refinement of `UartPort` with its liveness | 244 k | 2.5 min |
| `log_file` | every byte accounted for, flushed at close, close returns | 2 k | 2 s |
| `uart_receive` | intact frames delivered once, in order, and never as text; COBS in bounds, zero free and invertible; encoder and host state the same header rules | 752 k | 30 s |
| `cp_queue` | memory and pages safe, completions true, poisoned queues left alone | 1.3 M | 1 min |
| `dma` | triggers find an idle, configured controller; own completions; retained device buffers | 1.9 M | 1 min |
| `dev_mem` | disjoint, exact table; refinement of `IntervalAllocator` | 34 k | 10 s |
| `ipc` | own answers and whole requests when the slot was at rest; calls return | 294 k | 1 min |
| `kmod` | exact references, no leaks, handles name their buffers, also across unbind | 399 k | 1 min |
| `devices` | testcases keep their device, contexts are scoped, no deadlock; resource tables and inventory agree; policies read back as written | 241 k | 1.5 min |
| `host_mem` | one owner per resource, whole buffers, addresses true of pages not migrated | 409 k | 1.5 min |
| `dmem` | a testcase changes only memory it allocated; the aperture test restores memory on every path and passes only if its windows are distinct; a passed copy has its data where it belongs | 1.3 M | 40 s |

The pure parts are operators, checked in the run of the component that calls
them: `MCStreamDecoder` puts every raw frame and byte string up to a length, and
every kind of header, to `Cobs` and `UartFrame`; `MCDeviceManager` puts resource
words to `AtlasResource` and whole policy files to `PolicyParser`. A behaviour of
these modules either is one of the component or holds one such input. In every
module the type invariant `TypeOK` is the first conjunct of one of the safety
invariants.

`ipc_late_ack` is expected to find a violation. `IpcBridge.cpp:165` says "wait
until the firmware acks our seq", but `seq` is the last acknowledged number plus
one, so after a timeout the next request carries the same number, and the late
acknowledgement of the first is taken for its own. `AnswerIsOwn` and
`RequestWhole` are what holds: calls that found the slot at rest are safe.

More observations made while modelling, each the reason for a condition in
a property or for its scope:

* `DmaDescriptor::execute` clears the sync flag (`hqc_dma.cpp:239`) before it
  waits for an idle controller. A transfer of the same profile that an earlier
  call gave up on can set the flag in between; `execute` then returns at once
  and releases its descriptor's SRAM unread. `CompletionIsOwn` and `DeviceKept`
  are conditional on this (`overlap`, `early`).
* After a timeout `dma_data_transfer` keeps the device buffers
  (`dma_copy.cpp:200`), the host buffer is released by its destructor.
  `DeviceKept` speaks of device memory only. `dma_h2d_example`
  (`example.cpp:26-59`) keeps neither buffer, and `DeviceKept` excepts it.
* `dma_copy` does not poison its destination, as `cp_copy` does (`cp_copy.cpp:62`).
  An engine that reports completion without moving data passes if the memory
  still holds the pattern of an earlier run; the last conjunct of `PassMeansData`
  speaks of CP copies only.
* When `secondary_bus_reset(false)` fails, the example testcase returns with the
  bus in reset. No testcase can begin then, and nothing but another caller of
  `secondary_bus_reset` clears the bit.
* Rediscovery forgets kept memory and poisoned queues (`HalContext.cpp:1315`).
  `hqc_cp_queue.cpp:245` tells the user to "reset/quiesce the device before
  reopening the session"; the code does not check it, and without it memory a
  transfer still reaches is allocated again. `Disjoint` speaks of one session, and
  `DeviceKept` excepts a rediscovery with a transfer in flight (`early`).
* DMA_ALLOC lists its buffer and unlocks before it copies the handle out
  (`isml_diag_main.c:155-161`). Handles are small numbers, so a DMA_FREE can name the
  buffer first; the DMA_ALLOC then reads a buffer that may be freed, and if
  `copy_to_user` fails it deletes and puts it a second time. `RefExact` and
  `HandleNames` hold up to that point, and `RefExact` says that only such a
  DMA_FREE leads there. An early mmap is harmless.
* `mlock` keeps the pages of a drv=none buffer in memory, not in their frames
  (`HalContext.cpp:1158`). `PhysicalIsMapped` speaks of pages that have not been
  migrated since pagemap was read; nothing in the code prevents a migration.
* After `secondary_bus_reset` the HAL and the registry are as before, so later
  testcases run on a device whose firmware may not be up; `RunsOnItsDevice`
  excepts it until the next discovery.
* Unbinding the kernel driver with open files leaves their `ctx->isml` pointing
  to memory that devm has freed (`isml_diag_main.c:316-323`).
* `IpcBridge::transact` returns `Ok` for every acknowledged request
  (`IpcBridge.cpp:195-203`, the switch on the value is commented out), so
  `AnswerIsOwn` allows a refusal as the answer.

### Bounds

Two callers or threads are enough for every race between a holder and a waiter.
Sequence numbers, pointers and request IDs have two to four values, so that
wrapping and exhaustion happen. One retry separates the first send, a retry and
the timeout. Each caller of the UART run asks for one operation of its own
(`Asks`), and the retry interval is not zero; the theorems cover every other
choice. COBS blocks are full at 3 instead of 254 bytes, with inputs long enough
for two blocks. The allocator's region has five words, room for two neighbours and
a gap on either side, and addresses end with it, so that the overflow checks
matter. A CP queue has a window of one or two pages, so that placement can
collide. DMA has two DMEM buffers, as many as a testcase holds, so that a kept one
is missed by the next; direction `d2h` differs from `h2d` in its flag only and is left
to the theorems. The driver has two buffers and three handles, so that handles are
used up and a buffer is reused under a new one. Host allocations have up to three
pages in four frames.

`dmem` has three windows, on two BARs, one of them the default, nine blocks of
memory (what the aperture test's allocation needs plus room to misalign it), and
addresses modulo 16, so that an offset plus a length can wrap. Two testcases are
enough for one to meet what another left; one rediscovery and one wrong window
write may happen anywhere. Resource words take every known value of each field
and one beyond it. Policy files take every order of their sections, and list zero
to two devices, modules and runs; the range of an index is 16 instead of 2^32, so
that the cast cuts one off.
Sets whose elements are only compared are symmetric in the runs without liveness.
Deadlock is not checked where a testcase ends, where an input is used up, or
where resources that were kept for hardware use up the constants.

### Fairness

Threads that can run do run (weak fairness on their steps), and a mutex that is
released again and again is eventually granted to a waiter (strong fairness; in
`UartBridge` one condition for the steps of the thread holding `callers`, whose
sleep ends again and again while it competes for `Impl::state`).
The clock advances. Nothing is assumed of the UART line, the firmware, the
hardware or whoever closes a port: the waits return because the code bounds
them. In `DeviceManager` a testcase is taken to end, as its waits do.

## Proofs

A module `XProof` holds the theorems about module `X` and their proofs. Each is
from the `ASSUME` of `X` alone and for every value of its constants. Two
components are proved about beside a neighbour: `LogFile`, the session's log, in
`UartBridgeProof`, and `HostMem`, the memory descriptor DMA works on, in
`HqcDmaProof`. These proof modules extend both specifications, whose variables are
distinct and whose common names carry a prefix (`LogSpec`, `HostSpec`). No theorem is
about the two specifications together.

| Module | Proved of every behaviour | For any |
|---|---|---|
| `UartBridgeProof` | `TypeOK`, `ReplyIsOwn`, `RetryBudget`, `SendIsHolders`, `ResultKept` (action property), the safety part of `UartPort` | callers, operations, retry configuration, largest request ID |
| `UartBridgeProof` | `LogFile`: `Accounted`, `FlushedAtClose` | buffer limit, texts |
| `DevMemProof` | `Disjoint`, `TableExact`, `ImplementsAllocator` | region, threads, handles, alignments |
| `HqcCpQueueProof` | `OwnPage`, `NoLateAccess`, `OkMeansMoved`, `KickedIdle`, `PoisonedSilent` (action property) | threads, queues, windows, buffers, credit depth, pointer width |
| `HqcDmaProof` | `CompletionIsOwn`, `DeviceKept` | SRAM ranges, buffers, set of directions, with or without failing accesses |
| `HqcDmaProof` | `HostMem`: `OwnedOnce`, `PhysicalIsMapped` | allocations, objects, frames, pages |
| `DmemAccessProof` | `MemoryRestored`, `PassMeansDistinct`, `PassMeansData`, `OwnMemoryOnly` (action property) | region size, word width, windows and their BARs, BAR mappings, testcases, arguments, faults |
| `IpcBridgeProof` | `AnswerIsOwn`, `RequestWhole` | threads, requests, sequence modulus |
| `IsmlDrvProof` | `RefExact`, `HandleNames`, `UnboundClean` | finite sets of processes, files and mappings, buffers, number of handles |
| `DeviceManagerProof` | `RunsOnItsDevice`, `ContextsScoped` | threads, finite set of devices |

Every proof has the same outline. An inductive invariant `IInv` is stated first;
TLC checked it on a small instance before it was proved. One lemma per action,
or per group of actions that change the same state, shows that `IInv` survives;
`InitIInv` and the lemma over `Next` give the theorem `Invariance`, and the other
theorems follow from it. Frame lemmas carry the conjuncts a group of actions
leaves alone.

### Assumptions

Most assumptions only keep `None` apart from the values it stands in for. The
others are facts of the code: alignments divide the address space (they are
powers of two, `DevMem`); a request is a record of an operation, an address and a
value (`IpcBridge`); descriptor SRAM is neither DMEM nor host memory (`HqcDma`,
`HqcCpQueue`); a transfer is shorter than the pointers' period, and the default
page of a queue lies in its window (`HqcCpQueue`); processes, files and mappings
are finitely many, as what is counted must be (`IsmlDrv`), and so are devices
(`DeviceManager`); addresses have more values than the region has blocks, windows
are of BAR 2 or 4 and the region's own is of BAR 4, and allocations lie in the region
(`DmemAccess`); physical frames are numbers and an allocation may have a page
(`HostMem`); sizes are numbers (`LogFile`); an index has a range (`PolicyParser`).
TLC evaluates them in every run.

What is assumed of the surroundings is in the actions that model them: hardware
reports idle only when its transfer is over (`HqcDma`), and the kernel releases a file
only when no call is in it and nothing maps it (`IsmlDrv`). That locked pages stay in
their frames is not assumed: `PhysicalIsMapped` names the pages it speaks of.

### The invariants

*UartBridge.* None of the properties is inductive as it stands. `IInv` adds

* `MutexInv`: a caller between entering and returning holds `callers`, so
  there is at most one;
* `ActiveInv`: an active transaction belongs to that caller and its wire image
  carries the caller's operation and the current request ID;
* `LineInv`: every command on the line is of this session, its ID is at most
  `request`, and the current ID stands for `wire` only; every response of this
  session answers a command on the line;
* `ResultInv`: a result waiting to be taken is the answer to the holder's command;
* `SendsInv`: how many sends each state of the transaction has behind it.

`ReplyIsOwn` rests on `LineInv`: an ID is never reused, so a response that
carries the current one, however late, was made for the current operation.
`TypeOK` is checked by the run within `RetryBudget`; `SendIsHolders`, the reason
why callers do not interleave, is proved only. The proof makes one thing explicit:
when the port fails after a reply has been accepted, the handler in `Impl::run`
replaces the result by a transport error before the caller has seen it.
`ResultKept` permits this one replacement.

*LogFile.* `Accounted` is nearly inductive. `FlushedAtClose` needs `LogThreadsInv`:
the writer leaves with nothing pending, after an error or after `stopping_`, and
`stopping_` is set only when nobody appends any more.

*DevMem.* `TableInv` and `ApartInv` give the two invariants. The refinement needs
`ScanInv`, what a scan in progress knows: the table entries up to its cursor end
at or below its offset, the offset is aligned, and every lower aligned place is
blocked by an entry. So a place it takes is the lowest one, and when it gives up
there is none. Alignment arithmetic is in lemmas on `%`, and the next entry of a
scan is the least one above the cursor (`WellFoundedInduction`).

*HqcCpQueue.* `PageInv` follows the doorbell page from the remap register to the
check that it is the queue's alone; `GuardInv` says what the fields of
`SubmissionGuard` record about the queue, `QueueInv` that WPTR counts what has been
moved. `JobInv` is the heart of `NoLateAccess`: a transfer in flight is that of the
copy holding the lock, which has kicked it and not seen it complete, or its queue
is poisoned and its buffers are retained.

*HqcDma.* `FlightInv`: DMEM of a descriptor that the hardware has fetched or is
about to fetch is kept, or owned by a testcase whose failure would keep it.
`HwInv` and `FlagInv` say what is set up and what is idle at each step of
`execute`; without `overlap`, nothing but this transfer can set its sync flag.

*HostMem.* `JobInv` lists what an allocation under way has taken at each step of
either provider, and that its object is still empty; `OwnInv` and `KeptInv` say that
what an object owns or hardware keeps is complete and nobody else's, `NoLeak` that
there is nothing else. Cardinalities are then 0 or 1. `ScanInv` says what the loop of
`resolve_contiguous_physical` knows: the pages read so far and not migrated since are
in consecutive frames from `first_pfn`. `AddressInv` says the same of a held drv=none
buffer and its address: such a buffer is complete, hence locked, so nothing but a
migration moves a page of it.

*DmemAccess.* The properties speak of the end of a testcase, so `IInv` says what each
step knows. `Flow`: from `begin_testcase` on the device answers, until the testcase
itself resets the bus. `DefaultInv`: while a copy or an access runs, the default
window is the region's own, unless the access moved it itself (the aperture testcase
sets every window, see `RegInv`). `EdgeInv` carries `MemoryRestored` through the
passes: what was saved is what was there before, and memory differs from it only at
blocks where an edge lands that was written and is not yet restored (`Only`). It
speaks of blocks and not of windows, so windows that alias each other are covered:
all edges that land on one block saved the same value. `PassMeansDistinct` follows
from the patterns seen at the end of the check pass, one per window. `RegInv` keeps
the configured windows in the allocated ranges, also when a fault moves one window's
register onto another's target. For CP copies `CpInv` says that the destination holds
the poison until the engine has moved data, whichever of the two places was filled
first.

*IpcBridge.* For a call that found the slot at rest, `Writing` lists the words it
has written so far, and `Asked` that its request waits, is being served or has
been answered. Nothing is claimed of a call that began `behind`, and `FwInv` is
conditional on no such call being under way.

*IsmlDrv.* The reference count of a buffer is split into the lists, the mappings
and the calls that hold it (`Counted`); each action moves one holder. `FileInv`
keeps lists apart and handles unique, `Alone` says that nothing but a call whose
own buffer was freed under it reaches a buffer before it is listed, and `Unnamed` that
a buffer listed and not yet returned is known to no caller. All this is `IInv`; the
invariant of the module, `Inv`, claims it until `stray`, and `EarlyInv` says that
only a handle freed before it was returned leads there.

*DeviceManager.* `ThreadInv` ties both locks to the steps that hold them, so the
steps of a run exclude those of `discover`, although `run_testcase` gives the
interpreter lock up; `OnDevice` then keeps the target registered and bound and
the contexts as far as the set-up has come. `Room` bounds the registry. `Entries` says
that a registered Atlas is up or was reset: no reset falls into a discovery.

### Only model-checked

* Liveness (`CloseReturns`, `LogCloseReturns`, `TransactReturns`, `CallsReturn`, and
  `ImplementsPort` with the fairness of `PortSpec`): it rests on fairness and
  `ENABLED`, which are beyond the prover.
* `StreamDecoder`, `Cobs`, `UartFrame`, `PolicyParser`, `AtlasResource`: what
  recursive definitions compute over byte strings, lines and tables would take
  induction over data, which the prover cannot instantiate.

## Not modelled

* CRC-32: a pure function whose strength TLC cannot decide; `UartFrame` takes it
  to detect the alterations the model makes.
* The PHAL callbacks and their status translation: they forward an access to a
  BAR, the IPC slot or the UART bridge, which are modelled. Creating the contexts
  is in `DeviceManager`. `with_pcie_context` resetting the context's base is left
  out: contexts are rebuilt for every testcase.
* Command line tools, Python argument conversion, the printed device tree, and
  reading the policy directory: parsing and printing around the modelled calls.
* Implementer tables and dispatch (`memory_regions.cpp`, `implementer.cpp`,
  `generic_impl.cpp`) and the ProtonHal stubs: constants and thin accessors.
* Exceptions from the standard library: an allocation failure between two passes
  of the aperture test would skip its restore pass.
* The layout of descriptors and command words: a word is its meaning.

## Plan

Every part with state is modelled and has proofs, the UART receiver excepted, whose
state is a string of bytes. What is left: an abstract copy service for `HqcCpQueue`,
with the step simulation on top of `JobInv`.
