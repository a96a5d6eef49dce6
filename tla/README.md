# uemu-ng in TLA+

Specifications of the RISC-V system emulator `uemu-ng`: the hart with its traps,
CSRs, address translation, decoder and instructions, the bus and its devices,
the interrupt controller, the user interface and the engine that runs and stops
an emulation. The modules are translated from the C++ sources and model-checked
with TLC on small instances; all safety properties but those of the decoder, which are
about fixed tables, are proved with TLAPS for every value of the constants.

## 1. The system

An emulation has two threads of its own. The **CPU thread**
(`ExecutionEngine::cpu_thread`) executes guest instructions; a guest load or
store that hits a device runs the device's handler on this thread. The **host
thread** (`execute_until_halt`) ticks the devices, polls the user interface and
decides when the emulation is over. They share

* one mutex per device that both reach (`plic_mutex_`, `clint_mutex_`,
  `ns16550_mutex_`, ...); a device holds its mutex while it calls into the PLIC,
* the atomic word `mip`, which devices move from both threads and CSR
  instructions rewrite with a compare-exchange loop,
* `cpu_mutex_` with `cpu_cond_`, for the start handshake, and the two shutdown
  flags, of which `shutdown_from_guest_` is a plain `bool`.

An interrupt travels from a device through `IrqDevice::update_irq`,
`Plic::set_interrupt_level` and `Hart::set_interrupt_pending` into `mip`; the
loop of `cpu_thread` looks at `mip` every 256 instructions, or at once after an
instruction that may have unmasked something, and `handle_trap` sends what it
finds to M or to S.

| Component | State | Operations | What makes it correct | Module |
|---|---|---|---|---|
| PLIC | priorities, levels, per context enable, pending, claimed, latched priority, threshold | level change, register reads and writes, claim, complete | no interrupt lost, stuck, stale or served twice | `PlicBest`, `Plic` |
| `mip`, `sip`, `mideleg`, `menvcfg.STCE` | one atomic word, masks | device updates, CSR instructions | behaves as an atomic register; hardware lines stay hardware's | `MipLines`, `MipAtomic`, `Mip` |
| Hart: traps and interrupts | privilege, `mstatus`, `xepc`, masks, `interrupt_check_pending` | trap, interrupt, `mret`, `sret`, `wfi`, `ecall`, CSR writes | returns resume what was interrupted; bounded delay; `MPRV` only in M; WFI wakes | `Hart` |
| Interrupt path | the three above and a guest | device line, PLIC, `mip`, trap, handler | every demand is served | `InterruptPath` |
| CSR access | CSR file | six CSR instructions | permission grows with privilege; a trap leaves no trace | `Csr` |
| Counters | `mcycle`, `minstret`, `mcountinhibit` | a turn of the loop, writes | each counts what it should since it was written | `Counters` |
| ExecutionEngine, SiFiveTest | thread, run flag, shutdown flags, exit code, exception | start, tick, timeout, shutdown from guest and host, destruction | every call returns, every join is answered, results and exceptions arrive | `Engine` |
| MMU and TLB | `satp`, two TLBs, page tables | translate, fill, fence | the walk is the architecture's; a stale entry is used only before a fence | `Sv39`, `Mmu` |
| Memory accesses, LR/SC | DRAM, reservation | load, store, LR, SC, AMO, fetch | a fault leaves memory alone and names its cause | `Memory` |
| Bus, DRAM bounds | device list | add a device, decode an address | one owner per byte | `Bus`, `MemoryMap` |
| Decoder | none | decode 16 and 32 bits | the manual's tables and immediates | `Decoder`, `Decoder16`, `Decoder32` |
| Integer instructions | none | arithmetic | laws of the arithmetic | `Alu` |
| Floating point | registers, `fflags`, `frm`, FS, SoftFloat's flags | F, D and C instructions, three CSRs | flags accrue and are drained; what is not dirty is saved | `FpFormat`, `FpValues`, `Fp` |
| CLINT | `mtime`, `mtimecmp`, `stimecmp`, `msip` | register access by halves, tick | timer lines follow the comparison; time goes on, up to rounding | `Clint` |
| VirtioBlk | status, rings, interrupt status | registers, notification, reset | a queue of requests, each answered once and truly, while its driver keeps to the slots | `BlockQueue`, `VirtioBlk` |
| NS16550 | registers, receive queue | tick, register access | the line equals the cause; nothing received is lost | `Ns16550` |
| PFlashCFI01 | command state, status, storage | write cycles, reads | buffered writes are all or nothing; the machine comes to rest | `PFlash`, `PFlashCfi` |
| GoldfishEvents | ring of event words, page, state | push, read, page | events whole, in order and announced | `GoldfishEvents`, `EventBits` |
| GoldfishRTC | offset, alarm, flags | tick, register access by halves | the time as set; no alarm early but while its high half is missing | `GoldfishRtc` |
| SimpleFB, SDL3 backend | frame buffer, window, event queue | store, update | whole frames, ordered events, the last picture shown | `Display` |
| TestIntrGen | none | a store drives lines | | in `Mip` |
| ELF loader, Emulator, `main` | DRAM image, pc | load, loadelf, run | the image the headers mean; only whole programs start | `Loader` |
| GoldfishBattery, BCM2835Rng, NemuConsole | registers that store | | | not modelled |

What is hard to test: level changes and guest register accesses in any order
from two threads; a device update inside a CSR read-modify-write; a test of
`STCE` or a read of a priority that is stale when used; nested traps that share
`mstatus`; an interrupt that waits for a batch to end; a thread that has come
and gone before the other one has looked; a timeout while the CPU thread stalls
in WFI; 64-bit device registers that are stored in two halves with a tick in
between; rings whose indices meet or wrap; a batch of disk requests that fails
half way; a TLB that outlives a mapping; a store across two pages of which one
faults; wrap-around at the top of the address space; decode tables in which an
earlier row hides a later one. `PROJECT.json` lists each at its line.

## 2. The modules

### PlicBest, Plic (`src/device/plic.cpp`)

`PlicBest` has the record of one context and `context_best_pending`, once as a
set (`BestPending`) and once as the loop of the source (`ScanBest`). `Plic` has
a variable per field of the class. Each register handler and each level change
is one action, since it runs under `plic_mutex_`; bit vectors are sets of source
ids. The exception is the read of `priority_[id]` in `set_interrupt_level`,
which comes before the lock: on the host thread it is an action of its own
(`SetLevelHostRead`) and the guest may write the priority before
`SetLevelHostApply`. On the CPU thread nothing can come between, because only
that thread writes priorities. Both threads can move one source, never at the
same moment: the device calls the PLIC with its own mutex held. `eip` is what
`context_update` last drove into `mip`. The history variable `skipped` holds the
sources whose last level change stopped at context 0 (the `break` of the loop)
although context 1 enables them too. Reads without effect (priority, enable,
threshold) have no action; `PendingRead` is what the pending register reports.
An 8-byte access is two 4-byte ones.

### MipLines, MipAtomic, Mip (`include/core/hart.hpp`, CSR instructions of `src/core/execute.cpp`)

`MipAtomic` is the promise: device updates and CSR writes of `mip` take effect at
once, and a CSR write changes the writable lines only. `Mip` has the steps of the
code: a CSR instruction reads (`CsrSwap`, `CsrSet`, `CsrClear`), enters
`write_unchecked` and loads the word (`CsrLoad`), and its `compare_exchange_weak`
succeeds (`CsrCommit`) or fails, also spuriously (`CsrRetry`). `sip` masks its
value before it hands it to `mip`. `handle_stimecmp` tests `STCE` in one step
(`TimerSample`) and moves `STIP` in another (`TimerDrive`). The history variables
`hw` and `soft` say what the devices last drove and which lines a CSR instruction
wrote last.

### Hart (`src/core/hart.cpp`, `include/core/hart.hpp`, `src/core/execute.cpp`, loop of `src/execution_engine.cpp`)

`phase` is the place in the loop: `Top` runs the check when it is due, then one
instruction action follows; `wfi` and `woken` are the stall and the check after
it. `HandleTrap`, `CheckInterrupts`, `MretReturns`, `SretReturns`, `Wfi` and the
CSR writes follow their functions field by field. `Privileged` is the common
shape of the instructions that set `interrupt_check_pending` before they test
whether they are allowed. Addresses are abstract; a trap vector is the guest's
choice. `mip` is an input (`MipMoves`), which over-approximates `Mip`. The history
variables `mframe` and `sframe` keep what the last trap into M and S interrupted
and are invalidated when the guest overwrites what the trap saved; `waited` counts
instructions run while an interrupt was deliverable. Counters, floating-point state
and address translation have modules of their own; `xtval`, `xcause` and `xtvec` are
left out.

### Engine (`src/execution_engine.cpp`, `src/device/sifive_test.cpp`)

Two program counters, `host` and `cpu`. A section under `cpu_mutex_` is one step;
notifications, the top of each loop, the two assignments of
`request_shutdown_from_guest` and the two of the catch-all are steps of their own.
`woken` is the condition variable: a wait is woken by a notification or
spuriously and evaluates its predicate again. A second call after a halt assigns
over a joinable `std::thread`, which ends the program (`host = "terminated"`).

### InterruptPath (`src/emulator.cpp`, with `Plic` and `Hart`)

Instances of `Plic` and `Hart` that share their wires: a step of the PLIC moves `mip`
in the same step (`Drive`), as `context_update` calls `set_interrupt_pending` under
the PLIC's mutex. The instructions come from a small supervisor, which stands for
software outside the repository: it delegates, enters S, gives every source a
priority, enables all, and then sleeps in `wfi`; its handler claims, lets the device
lower its line, completes and returns. A load or store is two steps, the device's
work and the end of the instruction. Its labels are the addresses of `Hart`, so that
`sepc` and `sret` do what they do in the code.

### Csr, Counters (`include/core/hart.hpp`, `src/core/execute.cpp`)

`Csr` has one register of every class of `check_permissions` and `write_unchecked`,
with values cut down to four bits, and the six instructions in the order in which
they check, read `rd` and write. `mstatus`, `mip` and the masks are left to `Hart` and
`Mip`. `Counters` has one action per way a turn of `cpu_thread` can end; an instruction
that writes a counter is not counted in it.

### Sv39, Mmu, Memory, Bus, MemoryMap (`include/core/mmu.hpp`, `bus.hpp`, `dram.hpp`, `device.hpp`)

`Sv39` is the walk as a function of the tables, with A and D updates under `ADUE`; its
last section states the architecture's rules without a loop, and `CpuThread` builds tables
for it entry by entry. Tables lie in DRAM, where the store of an A or D bit goes to the
word just read and cannot fail (`mmu.hpp:409` is for tables in a device, which are left
out), and addresses that are not canonical have faulted before the walk. `Mmu` adds the two
direct-mapped TLBs over tables that the guest changes; `unfenced` holds the pages
whose mapping has changed since the last fence. The TLB keeps an entry per 4 KiB page
even under a superpage, and `sfence.vma` with an address removes that page only,
so a changed superpage must be fenced page by page or as a whole. `Memory` takes
translation as "a page maps to this" and has the accesses that cross pages, the
probe before a store, LR/SC, AMOs and the fetch of an instruction in two halves; an
access fault inside a misaligned access reports the start of the access. `Bus` offers
ranges to `add_device` in any order, up to the last address, where the sum of
`Device::contains` wraps. No access of the MMU goes past it: whole accesses are
aligned, a fetch of four bytes stays in its page, all else goes byte by byte. `MemoryMap` is the map `Emulator` builds, in units
of 8 bytes because TLC's integers have 32 bits (DRAM above 8 GB is not tried).

### Decoder, Decoder16, Decoder32, Alu (`src/core/decoder.cpp`, `common/bit.hpp`, `src/core/execute.cpp`)

A word is the set of its one bits. `Decoder16` keeps the order of the table, because
rows hide each other, and tries every half word: its name, its operands, and whether it
traps (`Raises`), which depends on the table and on tests in `execute.cpp`; `Decoder32` has the table as a set,
shows that its rows exclude each other and tries words near all-zero and all-one
free bits. The references are the manual's: the names by quadrant and `funct3`
(`RefName`), the reserved code points (`Reserved`) and the immediates bit by bit. `Alu` has the instructions on 8-bit registers with 4-bit words; the laws
(division theorem, whole products, sign extension, agreement of comparisons) do not
repeat the definitions.

### FpFormat, FpValues, Fp (`common/float.hpp`, `src/common/float.cpp`, `src/core/execute.cpp`)

A format is a pair of widths; a single fills the low half of a register.
`FpValues` tries the pure operators on all values of a small format. `Fp` has the
state: registers, `fflags`, `frm`, FS, SoftFloat's own flag word and what an operating
system saved when it last saw FS dirty. SoftFloat's results and flags are
external choices. One register suffices, since no instruction relates two but as
operands, and operand pairs are `FpValues`'.

### Clint, GoldfishRtc, Ns16550, GoldfishEvents, EventBits (`src/device/`)

Each handler is one step under its mutex. `Clint` splits `handle_stimecmp` between its
test and its update, since `stimecmp` and `menvcfg` are written without the lock, and
stores its 64-bit registers by halves. Its time is kept in nanoseconds. The two
conversions of the code, ticks to `start_time_` and back, go through doubles: `Cut`
holds the times whose quotient in `write_internal` is a nanosecond short, and
`Short` the ticks that the product of `tick_internal` misses on the dot; any sets are
allowed, so that no rounding is assumed. From `Exact` on, where a double no longer tells
nanoseconds apart, and where the conversion overflows or the sign bit is set, the next tick
may compute anything (`wild`). `GoldfishRtc` runs an 8-byte access as two
4-byte ones with ticks between; `asked` and `set` are what the guest means by its stores,
taken whole at the first half, `carries` what the second half overwrites. In `GoldfishEvents` the history `unread` is what the
guest should read, and `odd` names two states that the code allows and the other
properties exclude: the full ring taken for empty, and the line raised for a driver
that became ready on an empty ring.

### BlockQueue, VirtioBlk (`src/device/virtio_blk.cpp`)

`BlockQueue` is the promise: requests are served in order on the disk, answered in
order, and after a failure nothing more happens until a reset. `VirtioBlk` has the
registers, the descriptor checks, the rings with wrapping indices and the batch
request by request. Its driver makes all mistakes the device checks for, and three it
does not check for, or not always:

* it stores any capacity, since the configuration space is plain memory. With 0 the
  `capacity - 1` of the test is the largest number, and above 2^55 sectors pass whose byte
  offset wraps. `BlockQueue` then allows a request for a missing block, and no other, to
  hit another block (`limited`, `Hit`);
* it posts more requests than there are slots (`OverPost`). The comparison at
  `virtio_blk.cpp:279` sees that unless the index has wrapped. In `BlockQueue` the device
  breaks (`overrun`), or goes `astray`: it serves something, and is in step again once it has
  handed everything over;
* it gives a data buffer outside DRAM (`BADDATA`), which ends the emulator (`Throws`: there is
  no step).

It makes none of the others: queue sizes are powers of two, a queue is made ready once with
fresh rings and left alone while ready, and the status byte, which the device stores
without a check, and the buffer of GET_ID lie in DRAM. One of the two queues is modelled.

### PFlash, PFlashCfi (`src/device/pflash_cfi01.cpp`)

The command machine on 32-bit words, an 8-byte access being two steps; and the
query table. The history `session` has the words of a buffered write, and `confirmed`
tells a refused confirmation from another command in its place. The model shows two quirks: the erase happens in the first cycle,
before its confirmation, and a buffered write with count 0 always fails.

### Display (`src/device/simple_fb.cpp`, `src/ui/sdl3_backend.cpp`)

The CPU thread stores pixels under the device's mutex; the host thread's `update`
drains the window's events, asks for the exit, and draws a frame when its interval
has passed. The table of scan codes is a set of keys with and one without a code. The
history `passed` counts the events of the window that the loop has polled, so that order
is "what was pushed is what was polled, without the keys that have no code".

### Loader (`src/utils/elfloader.cpp`, `utils/fileloader.hpp`, `src/emulator.cpp`, `src/main.cpp`)

`ElfLoader::load` segment by segment over a DRAM at the top of a 3-bit address space, so
that every sum can wrap. Files whose tables or segment bytes do not lie inside the
file are left out.

### CpuThread, TwoThreads

Each of these makes one run of several small instances that share no state. The
variable `part` is chosen in the initial state and names the instance that moves; the
others rest. That loses no behaviour of interest: the parts have no variable and no
step in common, each device has a mutex, a bus range and an interrupt line of its
own, and where lines meet is the business of `Plic`, `Hart` and `InterruptPath`. The
modules gather the properties of their parts, which are defined and explained one by
one in the modules of the components. The bounds are constants, given in
`TwoThreads.cfg`, `CpuHart.cfg`, `CpuDevices.cfg` and `MCCpuThread`, so that the proofs can
leave them open. `RunParts` says which parts of `CpuThread` a run starts: those of the hart in
one, those behind the bus in the other. Parts without a state of their own (decoder,
arithmetic, memory map, query table) walk through their inputs.

## 3. Runs

| Run | Instance | Shows |
|---|---|---|
| `plic` | 2 sources, priorities 0 and 1 | nesting of the bit vectors, current line, latch = enabled and high, demand reaches the hart, the scan finds the best candidate, service ends for a reason |
| `plic_shared` | 1 source | **violation**: a source enabled by both contexts is pending in one only, although `plic.hpp:45` gives each source *a* pending bit |
| `mip` | MEIP, SEIP, STIP, SSIP | machine lines are hardware's, the last writer wins, STCE is respected up to one update in flight, `Mip` implements `MipAtomic` |
| `mip_sip` | SEIP, SSIP | **violation**: a write of `sip` clears SEIP, although `hart.hpp:927` says only SSIP is writable |
| `hart_traps` | one line, 2 addresses, batch 1 | MPRV and the round trip through nested traps |
| `hart_delay` | MTIP and SEIP, batch 3 | bounded delay, unmasking is noticed, privilege moves as it should and interrupts land where delegated, WFI wakes |
| `hart_reserved` | batch 2, MPP = 2 written | **violation**: the reserved MPP becomes a privilege level, and `ecall` calls that `std::unreachable()` |
| `engine` | 2 exit codes, 2 calls, counter wraps at 3 | answered join, final result, surfaced exception; every wait ends |
| `interrupt_path` | 2 sources, batch 3 | claims and traps keep in step, an interrupt finds its cause, every demand is served |
| `cpu_hart` | the ten parts below | decoder, arithmetic, memory system, registers |
| `cpu_devices` | the seven parts below | bus, memory map, loader, storage devices, what devices tell of themselves |
| `two_threads` | the five parts below | devices on which the host and the CPU thread meet |

`cpu_hart`:

| Property | Part: instance | What it joins |
|---|---|---|
| `DecodesAsManual` | every half word; all 160 patterns of full words with 2 flipped bits | first row of the table, operands set, immediates, reserved half words trap; exclusive rows, immediates |
| `ArithmeticHolds` | every pair of 8-bit registers; every pair of 5-bit singles and sampled 10-bit doubles | seven laws of `Alu`, four of `FpValues` |
| `TranslationIsWalk` | 2 levels, 2 TLB entries, 1 unfenced change at a time | hits agree with the walk; no store through a page that is not dirty |
| `WalkIsLawful` | 2 levels of 2 entries, all kinds of entries, every request | the walk against the architecture's rules; access faults only for wild tables |
| `AccessesAreExact` | 2 pages of 4 bytes, sizes 1, 2, 4 | bytes placed, every one of them allowed, faulting stores clean, faults named, compressed fetches in their page, SC needs its LR |
| `CsrsKeepTheirOwner` | 4-bit CSRs, 2 writes; 3-bit counters | M's registers are M's, layered permissions, idle write-back, no trace of a trapped instruction; exact counts past the wrap |
| `CleanMeansSaved` | one register, three flag sets | FS tells what is saved, flags drained and accrued, CSR views agree |

`cpu_devices`:

| Property | Part: instance | What it joins |
|---|---|---|
| `AccessIsBytes` | every list of 3 ranges in an address space of 6 | one owner per byte; an access is its bytes |
| `DevicesAreFound` | DRAM of 64 MB to 8 GB, with and without disk; 8 x 13 flash geometries; 3 bytes of event bits | nothing refused, no shared interrupt; the query table and the event pages tell the truth |
| `ImageAsMeant` | 3-bit addresses, all pairs of segments | the image the headers mean; the machine runs iff it is loadable |
| `KeepsPromise` | 2 slots, indices modulo 4, sectors modulo 4 with offsets that wrap at 2, capacities 0, 1 and 3 | `VirtioBlk` implements `BlockQueue`; reset asked for faults only, partial batches told, line has a cause |
| `AllOrNothing` | 2 sectors of 2 words | buffered writes stored whole, or refused with the error bit; no block left open, rest state |

`two_threads`:

| Property | Part: instance | What it joins |
|---|---|---|
| `InputArrives` | ring of 8 words; UART queue of 3, two characters at a time; 2 window events | FIFO of whole events; nothing received is lost, LSR_DR is the queue; window events in order |
| `LinesHaveCauses` | the same, RTC halves of 3 values, CLINT halves of 2 | each interrupt line against its cause, after every step of either thread |
| `FramesAreWhole` | 2 pixels, 2 writes | no frame shows half an access |
| `ClocksGoOn` | RTC and CLINT, 2 nanoseconds a tick, the times 1 and 2 rounded down, 3 beyond a double | time as set less the lost carries, no alarm before the time asked for but inside a store, mtime goes on |
| `DueHappens` | all but the events | alarms and deadlines arrive, the console's backlog shrinks, the last picture is shown |

**Bounds.** Two sources suffice for everything a PLIC handler can do to a source
other than its own, and two priorities for "above" and "not above" the threshold;
the comparison of priorities is checked with four. Value 2^PrioBits is written too,
so that the masks matter. The four lines of `mip` cover each class: hardware only,
shared, owned according to STCE, software; MTIP and MSIP are treated as MEIP is.
`Batch` is 256 and `Wrap` 65536 in the code; only "the counter is zero" is ever
tested, so a short cycle has the same cases, and the proofs cover all lengths.
`hart_traps` runs with batch 1 because a check before every instruction has the
most interleavings of traps. The guest writes a few `mstatus` values (module
`MCHart`), chosen to reach S and U with `MPRV`, `TW` and `TSR` on and off; the other
values arise through traps and returns, and the proofs have no such limit. Two
calls reach the repeated call; a third finds nothing new. `CpuDrive`
leaves MTIP and STIP out because TestIntrGen's mask does; a guest access that
ticks the CLINT moves them by the same steps as the host thread. Widths are cut down where only their relation matters (a word is half a register,
a single half a double, an index wraps past the ring) and every value is tried. A
ring of 8 words is the smallest that is no multiple of an event's 3 words and holds
two events; with it the indices meet at every position. Virtio indices modulo 4 over 2
slots wrap twice over the ring; the disk has one block, on which sector 2 falls after
wrapping, capacity 1 keeps it out, 0 and 3 do not. Two TLB entries over four pages give every conflict.
Two pages are as many as an access can touch, two segments as many as overlap.

**Fairness.** `Hart` assumes weak fairness of the WFI poll and of the check after it;
`Engine` of the CPU thread's steps, of the host thread's steps inside a call or a
join, and of the passing of time: the operating system schedules both threads and
the clock runs. Nothing is assumed of interrupts, spurious wakeups, calls or the
guest, so a guest that loops or sleeps for ever is among the behaviours.
`WfiWakes` asks for an enabled line that stays pending: a pulse shorter than the
poll may be missed. `TwoThreads` assumes that the host thread ticks the CLINT, the
RTC and the UART, and for the display that both threads run and time passes; each
assumption is about the part that moves. `InterruptPath` assumes strong fairness
of the CPU thread: it may find a device's mutex taken again and again by the host
thread, which holds it for a moment of each tick; with weak fairness the handler
could starve on that mutex.

## 4. Proofs

All are inductive-invariant proofs; `IInv` is stated at the top of each module, and was
an invariant of a TLC run before it was proved.

* `PlicProofs`, for any number of sources and priority width. `LatchFollowsLevel` is
  carried together with the type, the nesting and the current line, since the
  handlers edit pending, claimed and the latched priority apart. `DemandHolds` also
  needs that a non-empty set of candidates has a best one, which comes from
  well-foundedness of the naturals (`BestExists`). `BestHolds` ties the set definition
  the model uses to the loop of the code, for which `Found` is the loop's invariant.
  `ServiceHolds` is an action property:
  a lemma per handler says which sources it takes out of `claimed`.
* `MipProofs`, for any set of lines. `IInv` is the type and `LinesFollowLastWriter`; the
  machine lines are its special case. `Refinement` maps each commit to an atomic
  write, each device update to an atomic one and all other steps to stuttering.
  `TimerHolds` follows from the places of the two-step timer update.
* `HartProofs`, for any lines, addresses, batch, causes and `mstatus` inputs.
  `StateOK` adds to the type that a valid frame still equals the saved fields
  (`FramesIntact`), which gives `RoundTrip`, and `MprvOnlyInM`; `WaitBound` ties `waited`
  to the position in the batch, which gives `BoundedDelay`. `UnmaskingHolds` and
  `PrivilegeHolds` go through the instructions one by one: which of them move what
  `Deliverable` reads, and to which level a trap goes.
* `EngineProofs`, for any counter width, exit codes and number of calls.
  `ThreadState` says that the run flag is the thread's place and that a thread which
  left its loop was told to; `HostKnows` says what the host can conclude at each of
  its places.
* `InterruptPathProofs` instantiates the proof modules of the two parts.
  `PathImplementsParts` shows that every step of the composition is a step, or a
  stutter, of `Plic` and of `Hart`, so that what is proved of them holds on the path
  (`PartsHoldOnPath`) and may be used for it. The invariant adds what the guest's place
  says about the machine. `GuestInv`: `irq` holds a source from its claim to its
  completion, and nothing else is in service. `ModeInv`: privilege, `mie`, `mideleg` and
  the fields of `mstatus` at each label; interrupts are open in the idle loop only, so a
  handler returns there. `CauseInv`: `mip` is what the PLIC drives, and from the trap to
  the claim a request is latched unless a device took one back. That gives
  `ServiceHolds` and `SpuriousHolds`.
* `TwoThreadsProofs`, for rings, queues, clock halves, frame buffers and accesses of
  every size. Each part has an invariant of its own, the properties of the run and
  what they need. `KeyInv`: before the driver is ready nothing is owed to it. `RtcInv`:
  between stores the alarm is the one asked for, the low halves of the clock and of the
  time that was set agree and the high halves differ by `carries`; inside a store, what is
  left of it completes them, and an alarm that is armed or goes off is the one asked for
  unless its high half is missing. `UartInv`: the transmitter is always empty. `TimerInv`: past its sample the host
  thread will drive what the present deadline asks for, unless the CPU thread has
  stored another and will tick; and `mtime` is at most a tick ahead of what the start time
  says, and that only since a store, unless it is `wild`. `FbInv`: the buffer is a picture whenever the CPU
  thread does not hold the mutex, the copying user interface does hold it, and an
  access stays inside the buffer. `InputHolds`, `LinesHold`, `FramesHold` and `ClocksHold`
  are the four safety properties of the run.

* `CpuThreadProofs`, for the registers, the loader, the storage devices and the
  arithmetic of `CpuThread`, each with an invariant of its own. `FlashInv` (`FlashHolds`): a block is open only inside a buffered write and then
  holds the array overlaid with the words of its session, for every geometry and every
  order of commands. `CsrInv` (`CsrsHold`): every register stays inside its mask and
  `satp` in a mode the hart has; the permissions of the levels are compared register by
  register.
  `CountInv`: the counter is the start plus what retired, modulo its width; the step
  needs that quotient and remainder are unique (`SplitUnique`), for division by a number
  of any size is not linear arithmetic.
  `FpInv` (`FpHolds`): while FS is not dirty the set of registers that differ from the saved
  ones is that of `c_fld` and `c_fldsp`, and no flag is pending between instructions. The
  views of `fcsr` are compared as quotients and remainders. `LoadInv` (`LoaderHolds`): the
  segments before `next` all lie in the DRAM, so that no sum of a later check or of the
  zero fill wraps (`PlacedIsMeant`), and the last segment over an address decides
  (`MeantNext`).
  `BlkInv` (`DiskHolds`): the requests posted and the answers not handed over yet fit
  together into the rings unless a slot was overwritten (`over`), which lasts until the
  device has handed over all or broken; inside a batch the next used index is the next
  available one. The queue size divides the number of indices, so that slots go round
  evenly over the wrap of an index (`SlotIsModulo`, `SlotsDiffer`), and the capacity test
  keeps a block's offset from wrapping while the capacity is between 1 and `Wrap`
  (`BlkServed`). `BlkModes` says which changes of `Mode` a step can make. `BlkRefines` then maps every step of
  `VirtioBlk` to a step of `BlockQueue` or to a stutter.
  `LawsHold` needs no more of a state than that the operands are registers, or values of
  the format; the work is in the laws, for every width. A cast is a congruence (`Same`,
  `SextSame`): that a word instruction depends on words alone is that sums, differences
  and products keep congruences. Division of signed numbers comes from the quotient
  being unique and in range but for the one case the code singles out (`QuotInRange`,
  `SignedDivision`), the halves of a product from bounds on its quotient
  (`ProductBounds`). `&`, `|` and `^` are sums of powers over a set of bits; that the bits of
  a sum are the set again is `BitsMake`. A float is a sign and a magnitude (`FieldsAre`):
  infinity is a magnitude, the NaNs are those above it, and class, comparison, minimum,
  maximum and sign injection are read off the pair (`ClassIs`, `NumbersCompare`). A boxed
  single has all ones where a double has its exponent (`FloatBoxed`).
* `MemoryProofs`, for its memory system. `TlbInv` (`TlbsHold`): every valid TLB entry of a
  page that needs no fence is backed by the leaf the tables have for that page, with the
  same place and permissions, A set, and D set if the entry is dirty. Tables that
  differ in the A and D bits of leaves only end at the same leaf (`WalkEnds`), so an
  access that sets them disturbs no other entry. `WalkLawful` compares the loop with the
  relation: the walk passes every table the chains reach (`WalkGoesThrough`), and the
  lowest one reached is where it ends (`ReachesAnEnd`).
  `MemInv` (`AccessesHold`): the reservation is that of the last LR. The size of an aligned
  access divides the page, so that its first byte speaks for all (`AlignedStaysInPage`),
  and bytes of one access never meet in memory, even through two pages that map the
  same one (`OffsetsDiffer`). `BusInv` (`BusHolds`): no two owners overlap, since
  `check_overlap` says exactly that no address is in both ranges (`OverlapIs`), and the sum of
  `Device::contains` does not wrap for an access that ends within the address space.
  `DevicesHold`: the fixed ranges of the emulator's map are apart and below the DRAM, so
  that no offer is refused whatever the DRAM's size (`BoardStep`); the bytes of the query
  table put together again are the logarithms and the counts they were taken from
  (`CfiTells`), for all geometries that fit into the table; and setting a bit in a byte
  changes that bit only (`PageStep`), also when it is set twice.

The loops of the walk and of the PLIC and the sum over the bits of a word are recursive
functions. Their equations have a solution (`WalkExists`, `ScanExists`, `SumExists`) and
what they compute is shown (`WalkEnds`, `WalkGoesThrough`, `ScanFinds`, `BitsMake`) by a
least counterexample over the level, the id or the bit, since the induction theorems of
the library cannot be instantiated by the provers. `UpTo` states this once, for a set
in place of a predicate.

The assumptions are those of the constants (`PlicAssumption`, `LinesAssumption`,
`HartAssumption`, `EngineAssumption`, `PathAssumption`, and for the devices and the parts
of `CpuThread` one each). The provers do not know `^` with a variable exponent, so the
assumptions name the facts of arithmetic a proof uses of it: that `2^n`, or the number
of pages below an entry of a page table, is positive, that exponents add up, and how
the fields of a single and a double relate (`PowerFacts`, `FieldFacts`). They are true of
all numbers; TLC evaluates them on each run. Besides, registers have a power of two of
bits, for shift amounts are cut with a mask; a double's fraction is wider than a
single, as 52 is more than 32; and flash geometries are those whose size a query
table can hold.

`TypeCorrect` of the first three modules is the type invariant, which the runs
therefore do not repeat.

Only model-checked: all liveness (`WfiWakes`, `EveryWaitEnds`, `DemandIsServed`,
`DueHappens`), for TLAPS does neither `ENABLED` nor fairness; and `DecodesAsManual`,
which compares fixed tables with fixed tables. For half words the run is complete: it
tries all 65536. For full words it tries every pattern with up to two flipped bits.

## 5. What the models say about the code

Three disagreements between the code and its comments or assertions have runs:
`plic_shared`, `mip_sip` and `hart_reserved`. Others came up while modelling; the
properties name each of them as an exception, so that it does not hide anything
else:

* `plic.cpp:209`: a source keeps the priority latched with its level, so that one
  latched at priority 0 stays silent after the priority is raised, although
  `plic.hpp:54` compares the threshold with the *source priority*.
* `goldfish_events.cpp:85`: the ring is full at `MAX_EVENTS` words, when its indices are
  equal again and it reads as empty (`:105`).
* `goldfish_events.cpp:50` says that the line rises only once the driver is ready, but
  reading a word out of a longer backlog raises it in any state (`:118`), and a driver
  that becomes ready on a ring it has emptied before finds it raised too (`:53`).
* `ns16550.cpp:183`: two causes at once are added up and read as a line status interrupt,
  which the device does not have.
* `execute.cpp:1142`: `c_fld` and `c_fldsp` load a register and leave FS clean, against
  the configuration's `HW_MSTATUS_FS_DIRTY_UPDATE: precise`.
* `execute.cpp:1104`: C.ADDIW of x0 passes as a no-operation, against the
  configuration's `TRAP_ON_RESERVED_INSTRUCTION: true` (`uemu-rv64gc.yaml:111`); every other
  reserved half word traps (`AddiwOfZero`).
* `execute.cpp:249`: `csrrwi` to a read-only CSR writes `rd` and then traps, against
  `PRECISE_SYNCHRONOUS_EXCEPTIONS: true`.

Further observations without a document to hold the code against:

* `execution_engine.cpp:57`: when the CPU thread fails before the host has seen it
  run, `execute_until_halt` returns without throwing. `ExceptionSurfaces` is stated for
  calls that saw the thread run.
* `execution_engine.cpp:50`: calling `execute_until_halt` again after a halt ends in
  `std::terminate`.
* `hart.hpp:961`: a write of `sie` also clears the machine bits of `mie`; the
  properties of `Csr` name this exception.
* `plic.cpp:42`: the priority is read before the lock. A device that raises its line
  while the guest sets the priority can be latched with the old one and then waits for
  the next level change (`Stale` in `InterruptPath`, excepted in `DemandIsServed`).
* `virtio_blk.cpp:94`: a reset does not lower a high line (`orphan`).
* `virtio_blk.cpp:206`: while the guest has stored a capacity of 0 or above 2^55, a sector
  beyond the disk whose byte offset wraps is read, or written, on another block and answered
  with `VIRTIO_BLK_S_OK`.
* `virtio_blk.cpp:279`: requests beyond the slots go unnoticed where the available index has
  wrapped, and the device then serves what the slots hold, some of it twice.
* `virtio_blk.cpp:134`: a data buffer outside DRAM ends the emulator, for the exception
  leaves a `noexcept` function; the status byte (`:244`) is stored without a check.
* `goldfish_rtc.cpp:80`: a carry between the two halves of a stored time is lost.
* `goldfish_rtc.cpp:104`: `set_alarm` runs when the low half of the alarm is stored. An
  8-byte store at `ALARM_LOW` is thus armed, or set off at once, with the old high half, and
  in the second case the alarm the guest asked for is never armed (`HighHalfMissing`). Storing
  the high half first, in 4-byte stores, has no such moment.
* `clint.cpp:91`: the first tick after a store to `mtime` may show one tick less than was
  stored, since both conversions round down; times that a double cannot hold to the
  nanosecond, from 52 days on, are held roughly, and those that overflow the duration or have
  the top bit set not at all.
* `device.hpp:52`: the sum wraps, so that a device at the top of the address space would
  take accesses that run past it. The emulator has no device there, and the MMU makes no
  such access.
* A host request is looked at when the 16-bit counter is zero, so it takes effect
  within 65536 instructions.

## 6. Not modelled

* GoldfishBattery, BCM2835Rng, NemuConsole: registers that only store, constants, a
  random word, a byte passed on. No handler relates two pieces of state.
* `xcause`, `xtval`, vectored `xtvec`: functions of the trap alone; `Memory` checks the
  addresses that faults report.
* SoftFloat and SDL: external. The scan code table: data.
* Command line, logging, window creation, terminal modes of the host console.
* 1- and 2-byte accesses of the flash; virtio's second queue and feature selectors; the
  UART's divisor, scratch and modem registers, which only store.
* `is_elf` and the symbol lookup of the ELF loader, which have no caller.

## 7. What could come next

* An ideal one-context controller that context 0 of `Plic` implements.
