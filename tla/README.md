# Sem86: a TLA+ model of the emulator around its instruction semantics

Sem86 is a full-system x86 emulator in Rust.  Guest code runs on one thread;
timers, the display, the network, the sound device and the page compiler run on
others.  This project models the parts of the emulator in which those threads
meet, and the parts whose state is kept consistent by hand (caches, dirty
tracking, ring buffers, device protocols); checks them with TLC on small
instances; and proves with TLAPS, for every value of the constants, what the INTR
line, the memory, the interrupt controllers, the clock, the instruction cache, the IDE
channel and the smaller devices promise.

## 1. Inventory

### Threads

* **CPU thread**: `run_inner` (`emulator/mod.rs`): guest instructions, port
  and MMIO handlers, user events, compiled pages, the poll of INTR.
* **Clock thread** (`time.rs`): ticks the registered timers.  It is detached and
  never joined.  With `--synchronous-clock` there is no such thread: every
  guest instruction advances the clock by 100 ns on the CPU thread.
* **Display thread** (`sem86-video/src/lib.rs`, `hw/vga/mod.rs`): copies changed
  video memory to the screen and resets the dirty tracking.
* **Network thread** (`hw/net/unat.rs`): the user-space NAT; it hands frames to the
  card through a channel and pulses the card's interrupt.
* **Audio thread** (`hw/sound`): the host's callback that empties the sample queue.
* **Compile threads** (`codegen/page/mod.rs`): three of them.
* The reader of trace files, the user interface.

### Components

| component | state | operations | meets | what makes it correct |
|---|---|---|---|---|
| INTR line (`hw/intr.rs`) | counter, validity flag, reference count | request, drop of a request, poll, build, drop | every interrupt source, the CPU | the count is exact up to what the build misses, no other underflow, no access after free, the drop ends |
| 8259 pair (`hw/pic/legacy.rs`) | pending, in service, mask, initialisation state, its INTR request | pulse, acknowledge, EOI, mask, ICWs, clear | devices on three threads, the CPU | INTR agrees with the registers, priorities, no line forgotten |
| I/O APIC, lines (`hw/pic/io.rs`, `mod.rs`) | line levels, redirection entries | set, pulse, guest writes | devices, local APIC | no lost edge, entries not corrupted |
| local APIC (`hw/pic/local.rs`) | requests, in service, task priority, its INTR request | raise, acknowledge, EOI, TPR, ICR, disable | I/O APIC, CPU | INTR agrees with the registers, priorities, no vector forgotten |
| clock (`time.rs`) | time base, timers, deadline, channel | register, tick, start, pause | all timed devices | time monotonic, no hidden timer, no panic |
| RTC (`hw/cmos.rs`) | status registers, its timer | program, stop, read status C | clock, both controllers | one timer at a time, a stopped one ticks no more |
| PIT (`hw/pit.rs`) | three counters, the timer of counter 0 | read, write, control, latch, read back | clock, both controllers | lazy counting equals real counting, latched pairs are consistent |
| interrupt entry and return (`emulator/mod.rs`) | registers, the guest's stacks | enter an interrupt, IRET | controllers, guest descriptors | the interrupted program is resumed as it was |
| run loop (`emulator/mod.rs`) | halted, IF, trace | poll, halt, events | everything | a ready interrupt is taken |
| instruction cache (`icache`) | frames (dirty, clean), entries, links, requests | decode, look up, link, invalidate, prune | CPU, memory, compile threads | no stale code is executed |
| mapping tracker (`icache/mapping.rs`, `tlb.rs`) | pages that show each frame, which are current, versions | resolve, mark stale, invalidate | guest page tables, the cache | a translation is used only while the guest may rely on it |
| page compiler (`codegen/page`, `components.rs`) | request, blocks, edges, flags | build blocks, find components, break loops | the cache, INTR | page code can be interrupted and resumed |
| memory (`sem86-arch/src/mem`) | physical map, metadata, windows, dirty frames | translate, read, write, remap, invalidate | CPU, devices, display | the fast path does what the slow path would; a clean frame is reported before it is written |
| video memory (`hw/vga`, `mem/metadata.rs`) | dirty map, traps, timer | guest write, update, clean | CPU, display thread | what is written is eventually shown |
| IDE, ATAPI (`hw/ide`) | task file, buffer, bus master | PIO, DMA, packet commands, reset | CPU, interrupt lines, storage | it is a block device; one interrupt per block |
| storage (`hw/storage.rs`) | layers of changed sectors | read, write, snapshot, restore | IDE, FDC | the newest write of a sector is read |
| DMA, floppy (`hw/dma.rs`, `hw/fdc.rs`) | channel registers, flip-flops; command, result | program, command, transfer | CPU, storage | the transfer is the one that was programmed |
| keyboard, mouse (`hw/ppi`) | two queues, pending command, movement | scan code, movement, port access | CPU, interrupt lines | no byte waits without an interrupt |
| network card (`hw/net/ne2k.rs`) | receive ring, remote DMA, interrupt status | receive, read, free, transmit | network thread, CPU | frames stay intact until freed, none is stranded |
| NAT (`hw/net/unat.rs`) | slab of host sockets, two maps | host event, guest packet, poll | host, the card | the maps and the slab agree, no data stalls |
| sound (`hw/sound/es1370.rs`) | counters, queue, timer | program, tick, take samples | clock thread, audio thread | a finished buffer is reported |
| serial port, PCI, ACPI, VGA registers | registers | ports, MMIO | CPU, host | per device |
| code generation (`codegen/mir`, `codegen/lir`) | values, uncommitted registers, blocks, dominators | build values, compile commands, merge paths, optimise | the page compiler, LLVM | compiled code does what the commands of the instructions say |
| semantics, decoder, LLVM, front ends, tracing tools | data | | | tests of the repository |

`PROJECT.json` lists all of them with their status, and under `hazards` what is
hard to test and where.  The hard behaviours are the interleavings of device
threads with the guest in the interrupt controllers (registers are separate
atomics, decisions use values read earlier), timers reprogrammed while they tick,
the end of the INTR counter's life, arithmetic shortcuts that replace counting,
code that changes while decoded or compiled copies of it are in use, cached
translations and traps that have to be dropped at the right moment, and device
protocols in which a forgotten interrupt stops the driver for ever.

## 2. Modules

| module | models | one action is |
|---|---|---|
| `Intr` | `hw/intr.rs` | one atomic operation of `IntrHandle::with`, `EarlyIntr::build`, `Intr::drop` |
| `LegacyPic` | `hw/pic/legacy.rs`, the poll of `emulator/mod.rs`, the periodic INTR of `time.rs` | one atomic access or one locked section |
| `Apic`, `MCApic` | `hw/pic/{mod,io,local}.rs` and the same poll | one atomic access or one locked section |
| `EmulatorClock` | `time.rs` with the timers of `hw/cmos.rs` and `hw/pit.rs` | one channel operation, one timer of a pass, one device operation |
| `PitTimer` | `struct Timer` of `hw/pit.rs` | one port access or one tick of the 1.19 MHz clock |
| `InstrCache`, `MCInstrCache` | `icache/{mod,inner,entry,tlb}.rs`, the dirty tracking of `mem/mod.rs`, the compile threads of `codegen/page`, the execution loop of `emulator/mod.rs` | one executed instruction or run of page code with the lookup of the next entry, one compilation, one result received, one periodic operation |
| `MappingTracker` | `icache/mapping.rs`, `icache/tlb.rs`, `util/version.rs` | one lookup, one notification, one change of the page tables |
| `PageLoops` | `codegen/page/mod.rs`, `codegen/components.rs` | the blocks of a request; one iteration of Tarjan's algorithm or of `dfs` |
| `Memory` | `sem86-arch/src/mem/{mod,metadata,fast}.rs` and page walks | one access with its page walk, one change of tables, registers or map |
| `VideoMemory` | the metadata and dirty map between `mem`, `hw/vga/mod.rs` and `sem86-video` | one access to what the threads share |
| `Interrupts` | `enter_interrupt`, `iret` of `emulator/mod.rs` | one interrupt or return |
| `BlockDevice` | abstract: what a disk promises | one word moved, or a DMA transfer |
| `Ide` | `hw/ide/{mod,atapi}.rs` | one port access |
| `CowDisk` | `hw/storage.rs` | one read, write, snapshot or restore |
| `Fdc` | `hw/fdc.rs`, `hw/dma.rs`, `hw/reg.rs` | one port access |
| `Ppi` | `hw/ppi/{mod,mouse}.rs` | one port access or host event |
| `Ne2k` | `hw/net/ne2k.rs` | one register access, or one step of the network thread |
| `Nat` | `Runner` of `hw/net/unat.rs` | one host event, packet or step of the loop |
| `Es1370` | `hw/sound/es1370.rs` | one register access, one step of a tick, one callback |
| `Val` | `codegen/mir/val.rs`: values and the rules that simplify them | |
| `ValTree` | the builder of values | one call of the builder |
| `UncommittedState` | `codegen/mir/state.rs`: registers changed and not yet written | |
| `BbGraph` | `codegen/mir/bb.rs`, `codegen/lir/dominator.rs`: blocks, path conditions, early commits, dominators | |
| `Lir` | `codegen/lir/mod.rs`: where a value is computed; what compiled code does | |
| `Mir` | `codegen/mir/mod.rs`: the compiler of instructions | one instruction compiled, one pass over the graph |
| `Devices` | instances of `Es1370`, `CowDisk`, `Ppi`, `PitTimer`, `Fdc`, `Ne2k` and `Nat`, for any constants | |
| `MCDevices` | `Ide`, `Devices` and `PageLoops` | |
| `MCCore` | instances of `Intr`, `Memory`, `Interrupts` and `VideoMemory` | |
| `MCCode` | `MCInstrCache`, `MappingTracker`, `Mir` and `ValTree` | |
| `EmulatorClockProofs`, `LegacyPicProofs`, `ApicProofs`, `IdeProofs` | theorems about the modules they are named for | |
| `InstrCacheProofs` | theorems about `InstrCache` and `MappingTracker` | |
| `CoreProofs` | theorems about `Intr`, `Memory` and `PageLoops` | |
| `DeviceProofs` | theorems about the components of `Devices` | |
| `NaturalSets` | lemmas on the least and the greatest of a set of natural numbers | |

`Devices`, `MCDevices`, `MCCore` and `MCCode` are sums, not products: the components in them share no
state, so each behaviour runs the one that the variable `focus` names and leaves
the others at power-on.  The behaviours together are all the behaviours of each
component, from each of its initial states, and a property of the sum reads
`focus = ... => ...`, or leaves that out where it holds at power-on.

Correspondence of the state:

* `Intr`: `count` is `Intr.count`, `valid` and `refcount` the fields of `Inner`;
  `phase` is the life of the allocation; `pc` and `call` say where each thread is
  in `with`; `held` are the `PendingRequest` values.  Any thread may call from the
  moment the early counter exists, also between the load of `EarlyIntr::build` and
  the write of the structure (`loaded`).  `missed` (increments less decrements that
  fell there), `counted` and `late` are history.
* `LegacyPic`: the `u8` atomics are sets of lines (both controllers together);
  `request` is `pending_request.is_some()`.  `loads[t]` are the values the
  thread has read in `update_pending_interrupt` or `get_next_interrupt`,
  eight loads in the order of the code.  `async` selects the clock mode.
* `Apic`: the bitsets are sets of vectors, which `highest_index_set` loads word by
  word (`ScanOn`); an entry is a record of the fields that matter; `loc[t]` holds the
  local variables of `set`, of `raise_interrupt` and of such a scan.  `trigger_mode` of the local APIC is written and never
  used by the code, and left out.
* `EmulatorClock`: `timers`, `queue`, `deadline` are the ticker and its channel;
  `enabled` is the set of timers whose shared flag is set; `tick` is the pass of
  `retain_mut` under way.
* `PitTimer`: `timer` is the code's counter, `gap` the clock ticks since its
  `last_tick`, `eager` the reference counter that takes each tick at once.
* `InstrCache`: the record `cache` is `InnerCache`; an entry is identified by the
  address it was made for.  `delay`, `cached`, `prev`, `checks` and `jit_page_in`
  are `cleaning_delay`, `cached_instr_bytes`, `prev_entry_indices`, `CheckingFlags`
  and `jit_page_in` of each frame; `clean` is `frame_is_clean` of the memory;
  `queue` and `results` are the two channels of the compile threads.  Paging is
  off, no instruction crosses a frame, every byte sequence decodes, and the
  requests of the benchmarks (`jits_pending`) are left out.  Where the code goes
  through the entries of a frame and drops them one after the other
  (`drop_entries`, `clean_frame`), `RemoveLinks` says what is left of every link at
  the end.  The entry-point flags
  are over-approximated: a compile thread may export any instructions of its page.
* `MappingTracker`: the record `tracker` is `MappingTracker` with the `Tlb` and the
  `Versioner`; `table` is the guest's page table, read only when a page is
  resolved.  `seen` is history: the translations of a page since the cache was last
  told of a change, any of which the architecture lets it use.
* `PageLoops`: an instruction is its place in the request, with a known or an
  unknown jump; a block is named by its first instruction.  `stage` ends in
  "done", or in "hung" (an endless chain) or "panic" (`Roots::of`), the two ways
  in which the code does not finish; `flags` are `check_intr` and `export`.
* `Val`: a node of the value graph is the term it stands for (the code numbers equal
  nodes equally); `W` bits stand for 128, `ByteBits` for 8.
* `UncommittedState`: `fixed` and `dynamic` are the values written under a name and
  under an index; the dynamic ones are a sequence in the order of the hash map.
* `BbGraph`, `Lir`: a graph is a sequence of blocks, block 1 is the root; `Definitions`
  are the values used more than once, with the block that computes them.
* `Mir`: `b` is the builder, `prog` the instructions; `ref` is a ghost, the CPU after the
  same commands executed one by one, in each of the environments `Cpus`.
* `ValTree`: `val` and `kept` are values of the builder, `want` what they have to be in
  each environment, `live` the environments that satisfy the assumption in force.
* `Memory`: a byte is known by the cell it lives in.  `phys` is the physical map and
  the set of frames that are not clean, `view` the metadata, the bitmap of modified
  chunks and the windows of the fast path.  `ghost` records the pages with stale
  translations the guest has not invalidated, and accesses outside the claims.
* `VideoMemory`: one frame with its block of the dirty map and one page that shows
  it; `vcpu.pc` and `disp.pc` say where the two threads are between shared accesses.
* `Interrupts`: a word is a number below `W`, a stack pointer counts words, what is
  pushed is truncated as in the code.  `saved` is history: the contexts the frames
  on the stacks stand for.  CR2, the accessed bits of descriptors and the trace are
  left out.
* `Ide`: `ch` is `ChannelState`; `job`, `out` and `ram` are the driver's side;
  `irqs` is the history of the last data command.  `BlockDevice` is instantiated
  with the driver's side as it is and `disk` for `store`.
* `CowDisk`: `cow` are the layers, newest first, over the file; `saved` is the
  snapshot; `truth` is the history of what was written.
* `Fdc`: `dma` holds channel 2 with the three cells it shares with the floppy
  controller, `drv` is the driver, `moved` the history of the last transfer.  The
  driver writes the registers in any order; `drv.fresh` says that it wrote the address
  or the page after the count.
* `Ppi`: a byte is represented by where it comes from; `lines` are the pulses the
  guest has not serviced.  Interrupts and their handlers come at any moment, also
  between a controller command and its data byte, and the mouse port is enabled and
  disabled while bytes wait.
* `Ne2k`: RAM is counted in units of a header, `U` to a page; `stored` and `dropped`
  are history.
* `Nat`: `slab`, `tcpMap` and `udpMap` are `backing_sockets`, `tcp_mapping` and
  `udp_mapping`; events are edge-triggered and bytes are counted.  A remote that closes
  its connection (state "closed") can still be written to; a packet for which the stack
  has no socket is dropped.
* `Es1370`: a tick of the timer is a sequence of steps that interleave with the
  guest and the audio thread; counters are modulo `Modulus`, 2^16 in the code.

What the drivers of the devices are assumed to do is stated in the header of each
module.  The type invariants (`TypeOK`) of the modules are kept for proofs.

Definitions whose comment starts with "Fault:" are deliberately wrong variants of
the next definition; substituting one makes the property named in
`PROJECT.json` fail.  They take no part in the specifications.

## 3. Runs

| run | result | what it shows |
|---|---|---|
| `core` | holds, 248 thousand states | INTR line: `CountExact`, `NoUnderflow`, `DrainedBeforeFree`, `DropTerminates`; memory: `AccessExact`, `DirtyTracked`; interrupts: `RoundTrip`; video: `EventuallyShown` |
| `intr_use_after_free` | **violated** | `SafeAccess`: the comment at `intr.rs:144` is wrong; see findings |
| `pic` | holds, 79 thousand states | `RequestExact` (synchronous clock), `ServiceLegal`, `ReadyServed`, `StaleIntrEnds` |
| `apic` | holds, 244 thousand states | `IntrExact`, `PulseDelivered` (synchronous clock), `ServiceLegal`, `EligibleServed` |
| `clock` | holds, 2.8 million states | `OneActive`, `DeadlineCovers`, `StopHolds`, `TimeMonotonic` |
| `clock_assertion` | **violated** | `NextTickUpdated`: a timer late by exactly one period trips the assertion at `time.rs:106` |
| `icache` | holds, 466 thousand states | instruction cache: `FreshExecution`, `JitCodeCurrent`, `CacheConsistent` (that is `LinksTracked`, `NoOverlap` and `DirtyFramesTracked`), `CleanFramesCurrent`; mapping tracker: `TranslationsFresh` (with `LinksDual`); compiler: `ValuesExact`, `GraphExact`, `CompiledExact` |
| `icache_dma` | **violated** | `CleanFramesCurrent`: a DMA transfer that starts inside a frame leaves its last frame clean |
| `icache_env` | **violated** | `EnvCurrent`: a link of MOV CR0 leads to code decoded for another environment |
| `devices` | holds, 1.1 million states | IDE: `HandshakeExact`, `ImplementsBlockDevice`; storage: `ContentsExact`; floppy and DMA: `TransferExact`; NAT: `NatConsistent` (`TablesAgree` and `NoStall`); keyboard and mouse: `NoByteStranded`; network card: `FramesKept`; sound: `InterruptReported`; PIT: `CounterExact`; page compiler: `PageCodeExact` (`NextBlocksExist`, `ComponentsExact` and `LoopsBroken`) |
| `code_conditions` | **violated** | `CompiledExact`: where paths meet, the compiler keeps a condition that one of them assumed |
| `video_race` | **violated** | `InvalidationKept`: the display thread undoes an invalidation of the CPU thread |

### Bounds

* `Intr` in `core`: three threads and two requests: the owner, and two that race each
  other and the owner; every step of `with` interleaves with every step of the
  drop.  The proofs remove the bound.
* `Memory` in `core`: pages of two bytes, so that an access can cross; two linear
  pages over two frames of RAM and one of a device (shared memory, ROM or MMIO), whose
  page of shared memory has the offset of a frame of RAM; A20 wraps after the first
  frame.  Four set-ups (no paging, and each page table
  format), one change of tables, registers or map in a behaviour, any number of
  accesses, invalidations and cleanings.  `AccessExact` claims nothing for pages
  with a stale translation, for pages whose window was left to another area at the
  same offset, for addresses wrapped by A20, for user writes with CR0.WP clear and for
  split writes that trap: there the code is known to differ from the hardware.
* `Interrupts` in `core`: words of five bits, so that selectors, flags and both
  halves of a pointer are told apart and truncation shows; six interrupted
  programs (real mode, rings 0 and 3 with 16- and 32-bit stacks, virtual 8086
  mode), two nested frames, two user descriptors that may vanish in between.
* `VideoMemory` in `core`: two writes, one of which may fall in each window of the
  display thread.
* `pic`: lines 0 (the PIT) and 8 (the RTC), one per controller, so that
  both controllers, priorities and nesting occur; one device thread.  With the
  synchronous clock all guest commands are explored (`SyncGuest`), with the
  device thread the ones that race it (`AsyncGuest`); re-initialisation for
  controller 1.
* `apic`: one input, two vectors of different priority classes in the two highest of the
  eight words (a scan that finds nothing goes through all of them), two task priorities; edge and level settings of the entry, and one with the pending
  bit written back as read.
* `clock`: four timers (two initial, two more to reprogram with), periods 2 and 3,
  a second of 3 ticks, 4 ticks of real time or 10 quanta of the synchronous clock,
  one pause after time has passed.  Periods exceed the quantum of the synchronous
  clock, as in the code (838 ns and more against 100 ns).  `InitialPeriod` is the
  period of the PIT at power-on.
* `icache`: two frames of two bytes; a conditional jump of one byte and an
  indirect jump of two, so that instructions overlap, fall through into the next
  frame, jump between frames and change their length when rewritten.  One write
  per behaviour (guest or DMA, in frame 0), one request or result in flight,
  two counted references (as many as a conditional jump has), three TLB slots,
  interrupts that enter frame 1; the delays are 2, the smallest value
  that still has a half-way point.  One write is enough for every state of a
  frame: clean, dirty, half cleaned, cleaned again.  DMA in this run covers whole
  frames; `icache_dma` adds transfers that start inside one, and `icache_env`
  replaces the indirect jump by MOV CR0 with two environments.
* `ValTree` in `icache`: words of eight bits and bytes of two, three calls of the
  builder from five families (sums, masks, mixtures of values, conditions, slices),
  each compared in six environments whose words and bytes tell the operators apart.
* `Mir` in `icache`: registers `a`, `b`, the flags `f` and `ip`, one temporary, four
  CPUs; programs that write a register under two names, branch, jump, write it twice,
  swap two and follow each other.  `code_conditions` adds two operands with
  exceptions that a flag can mask.
* `PitTimer` in `devices`: bytes of two values, so a counter of four and at most
  two ticks between accesses; `CounterIsExact` covers any gap below a whole turn.  A
  whole turn is excluded: modes 4 and 5 then differ in the output pin (which nothing in the
  emulator uses on those modes).
* `MappingTracker` in `icache`: three linear pages, of which the page tables show two
  frames and a disabled A20 line wraps the third to frame 0, two frames to a chunk, one TLB slot (every lookup
  collides), versions 1 and 2 so that they wrap, two changes of the page tables.
* `PageLoops` in `devices`: all pages of three instructions with near jumps, with
  every choice of entry points and with the special forms (I/O, unknown jumps,
  jumps off the page); and 625 pages of four blocks with two exits each, the
  smallest in which components nest and loops share blocks.
* `Ide` in `devices`: a disk of two sectors of two words, transfers of one and two
  sectors, two commands of a behaviour with every packet command; sectors by LBA.
* `CowDisk`: two sectors of two cells, three writes and two restores, so that a layer
  is hidden by one above it and a snapshot is taken of a restored disk.
* `Fdc`: registers of two binary digits, one programmed value, which differs from the
  value at power-on, for the address and the count, two pages, two sectors to a track, two
  cylinders, two commands: the registers of the second hold what the first left behind.
* `Ppi`: queues of two bytes, movement of one unit.
* `Ne2k`: a ring of four pages of two units, frames of two and three pages' worth of
  header and data, three frames: the ring fills, wraps and drops.
* `Nat`: one slot, two TCP connections, one remote and two local UDP endpoints, buffers
  of one byte and two packets in the channel: each buffer and the slab can be full, and a
  removed entry can leave an event.  That entries exist side by side, so that a SYN can
  be taken by another connection's socket or by none, is covered by the theorem
  `NatServesConnections` only.
* `Es1370`: counters modulo 8, buffers of one and two steps, the sample count 7,
  so that counters wrap during a tick.

### Fairness

Threads that have started an operation finish it; the two-second timer of
`time.rs` fires; a guest instruction ends.  Strong fairness is used for the CPU
where the synchronous clock interrupts it between instructions.  Of the guest it
is assumed that its handlers end their interrupts and that it does not keep IF
clear for ever: without these no interrupt controller can promise service.
`StaleIntrEnds` has the additional premise that the PIT keeps pulsing its line,
stated in the property itself (`TimerRuns`).  The display thread keeps running and
its ten-second timer fires (`EventuallyShown`).  In `Intr` a thread inside `with`,
the build and the deallocation are scheduled; no thread has to start a call.
In the sums the fairness of a component is that of its own steps, which are
disabled in the behaviours of the others.  `EmulatorClock`, `InstrCache` and the
components of `MCDevices` have safety properties only and assume no fairness.

## 4. Findings

Each has a run that shows it:

1. `hw/intr.rs:142`: the validity check and the reference are separate steps; a
   detached thread can access the freed counter.
2. `time.rs:317`, `hw/pit.rs:502`, `hw/cmos.rs:162`: `next < now` should include
   equality; the assertion in `ClockTicker::tick` fails otherwise.
3. `sem86-arch/src/mem/mod.rs:1244`: `write_physical_slice` marks the frames of
   `addr`, `addr + 4096`, ... below the length of the slice; when the slice starts
   inside a frame its last frame can be missed, and the instruction cache keeps
   the old code of that frame.
4. `icache/mod.rs:473`: links are made also after instructions that can change the
   environment (MOV CR0, MOV SS), although the comment at `icache/entry.rs:93`
   says they are not and omits the check of the environment for that reason.
5. `codegen/mir/bb.rs:412`: `Assumptions::union_with` keeps, where paths meet, what
   only one of them assumes.  Of two x87 operands with maskable exceptions the
   compiled code can forget that of the second; the doc of the function, and the
   interpreter, say otherwise.
6. `sem86-arch/src/mem/metadata.rs:200`: the display thread updates a byte of the
   metadata with a load and a store; an invalidation by the CPU thread in between
   is undone.  The doc at line 146 assumes a single writer.

Noticed while modelling; no run is aimed at these, most of them have no statement of
the repository to hold them against:

* `hw/intr.rs:118`: `EarlyIntr::build` starts the counter of the structure with the value
  it loads from the early counter (`BuildLoad`, `BuildStore`), so an interrupt requested
  before the build is still pending after it; the doc at line 113 says such requests
  "are ignored".
* `hw/intr.rs:117`: a request made while `EarlyIntr::build` runs, between the load of the
  counter and the write of the structure, is missed, and a later drop can panic, as the
  comment admits; `CountExact` says by how much the counter is off and `NoUnderflow`
  that nothing else makes the drop panic.  `EmulatorContext::new` starts the clock after
  the write (`emulator/mod.rs:447`), so the assembled emulator misses none.
* `hw/dma.rs:87`: `write_count` does not refresh `fdd_len`, which only writes of the
  address and the page do; a guest that writes the count last transfers the length of
  an earlier count.  `TransferExact` claims the length for the other orders (`fresh`).
* `hw/ppi/mod.rs:384`: the command 0xA8 enables the mouse port without a pulse; bytes the
  mouse has queued meanwhile are visible and not announced until the next one.
  `NoByteStranded` allows this step only.
* `hw/net/unat.rs:368`: `recv_from` that returns an error panics the NAT thread.
  `handle_event` asks for a socket's error first, `update_backing_sockets` does not
  (`UpdatePanics`); an event for a removed entry panics it too.  `TablesAgree` says that
  these two, both over UDP, are the only ones.
* `hw/net/unat.rs:284`: a remote's close (`Ok(0)`) is not passed on to the guest, whose
  connection stays open.
* `hw/pic/legacy.rs:102`: `update_pending_interrupt` decides on values read before
  the lock.  INTR can stay asserted with nothing to service until a line changes
  (`StaleIntrEnds` shows that it ends with a running PIT), and a lost INTR is
  repaired by the periodic one (`ReadyServed`).
* `sem86-arch/src/mem/mod.rs:858`: `map_address_before_access` keeps the window of a page
  when the offset it shows is the offset wanted, whichever shared memory it shows.  RAM
  (`main.rs:403`), the video memory (`hw/vga/mod.rs:267`) and the memory of PCI devices
  (`hw/pci/mod.rs:383`) are areas of their own with offsets of their own, so a page that
  moves between areas at one offset keeps the old window.  `AccessExact` and
  `DirtyTracked` claim nothing of such a page (`LeftBehind`).
* `hw/ide/mod.rs:1737`: `next_sector` for CHS addresses goes to the next cylinder
  after every sector of head 0, not only when the head wraps to 0, so a transfer of
  several sectors by CHS visits other sectors than the address computation numbers
  consecutively; the runs therefore use LBA addresses.
* `emulator/mod.rs:1632`: a switch of CR0.PG is not reported to the mapping tracker,
  which goes on with the translations it has until CR3 is loaded or the page is
  invalidated; `TranslationsFresh` allows them, as the code does.
* `icache/mod.rs:473`: an instruction that continues at itself in another environment
  than the one it was decoded for (a jump to itself after which the environment
  differs) is decoded again in place by `find_or_create_entry`, and then linked to
  itself as its old bytes chose.  If memory has changed in between and the new
  instruction jumps relatively, the link leads where the new instruction does not
  go.  The theorems about `InstrCache` exclude this step by name (`SelfSwitch`).
* `codegen/page/mod.rs:626`: `break_loops` searches a component only from its
  exported blocks; a loop in a component without one can stay without a check of
  INTR and without an entry point, against the comment at lines 573 to 576.
  `LoopsBroken`, a part of `PageCodeExact`, states what does hold.
* The instruction semantics, which are not modelled: SBB computes AF without CF (the
  TODO at `semgen/src/instrs/arith.rs:206`); IDIV extends its dividend with zeros and
  does not see a negative overflow; SHLD takes CF from the unmasked count; the shift
  with /6 sets CF and OF as ROL does; POPF changes IF and IOPL unconditionally.
* `codegen/page/mod.rs:343`: a chain that closes on itself without an entry is
  followed for ever (stage "hung" of `PageLoops`).
* `codegen/page/roots.rs:88`: `Roots::of` unwraps the root of every instruction; one
  that no entry point, split point or instruction without predecessors reaches has
  none (stage "panic").

## 5. Proofs

`CoreProofs` proves of `Intr`, for every finite set of threads and of requests and from
`ThreadsAssumption` and `RequestsAssumption` only: `Inductive` (the inductive
invariant), `TypeCorrect`, `IntrCountExact` (`CountExact`), `UnderflowNeedsMiss`
(`NoUnderflow`) and `DropDrains` (`DrainedBeforeFree`).  All threads may call at any time,
before and during the build; what the build misses then is in the statements (`missed`),
not ruled out.

None of the safety invariants is inductive alone.  `IInv` adds:

* `CallShape`: a call carries the request its operation needs, and none between
  calls; only a drop fails;
* `OneOwner`: a request belongs to at most one thread or to `held`: what
  makes a drop unique;
* `Accounting`: a request exists in the counter exactly while it is held or about
  to be dropped, which relates `counted` to `held` and the program counters; from
  it and `CountExact` follows that a decrement finds a positive count, unless the
  build missed requests;
* `NoneMissed`: nothing is missed before the build has loaded the counter;
* `RefExact`: `refcount` is the number of threads between the two reference steps.

Each action has a lemma that it preserves `IInv`; cardinality facts about the
set of threads inside `with` are the lemmas `InsideSame`, `InsideAdd`,
`InsideRemove`.

### The memory (`CoreProofs`)

For any numbers of pages and frames, page tables, memory maps, registers, accesses and
changes of them, from `MemoryAssumption` only (the sizes are positive, an access fits a
page, the guest's tables and maps have their shapes): `AccessesAreExact` (`AccessExact`)
and `WritesAreTracked` (`DirtyTracked`), with `MemoryInvariant`.  Its parts:

* `Pinned`: the tables, the dirty frames and the view of every page fit together
  (`Threaded`), which is the following of each page;
* `ViewOK`: a page that traps differently from one that was never filled is in a marked
  chunk, so that clearing the marked chunks clears all (`ClearMeta` walks the bitmap
  only); `current` is the offset of the window;
* `PageFresh`: an untrapped page without a stale translation was resolved by the tables as
  they are, up to accessed and dirty bits, and lets no access pass that would fault; its
  window shows the frame unless it was left behind;
* `PageTracked`: an untrapped page that can be written shows a frame marked dirty, and its
  dirty bit is set.

An access changes tables, dirty frames, metadata and windows as it goes, twice if it
crosses into another page.  `Sound` states the invariant of the state it threads through
its steps, with the stale pages it has refilled taken out; `Resolved` what
`resolve_access_address` returned, which stays true while later steps only set accessed
and dirty bits (`Walked`, `ResolvedLater`).  That the first page stays right while the
second is resolved, which no test reaches, is `ResolvedLater` and `CellsKeep`.

### The page code (`CoreProofs`)

For any pages, of instructions of any lengths with any targets, from
`CodePagesAssumption` only (a page is a sequence of instructions, whose targets are
places in it or outside): `PageCodeIsExact` (`PageCodeExact`).  A request may end in the
stages "hung" and "panic" (see "Noticed" above), where nothing is claimed.

Both searches are loops of the code, so the proof needs no induction over the graph: an
invariant of each is proved first for a graph in general, without the model's state.

* `VisitInv`, for Tarjan's algorithm: blocks that have left the stack jump to each other
  only (`LeftClosed`); a block of the stack leads to all above it and to one of the
  frontier below it (`StackLeads`); the number `low` of a frontier block is that of a
  block of the stack it leads to, and no jump looked at so far from its part of the
  stack leads lower (`LowsExact`).  So what is cut off the stack when `low` is a
  block's own number is a strongly connected component.
* `BreakInv`, for the search of a group by `break_loops`: the blocks it has left make no
  loop but through a block with both flags, and jump only to one another, to those and
  to blocks of the path.  A block that is met again while it is on the path gets both
  flags.

`TarjanOK` ties the first to sequences and numbers (`AscendsIn`: the stack is in the
order of the numbers; `RisesIn`: so is the frontier), `InSearch` the second to the group
under search.  `LoopsInv` says at which stage which of them holds, and that outside the
groups found so far only entries are exported; `LoopsStep` has a lemma for each action.
That blocks jump to blocks (`NextAreBlocks`) follows from the split points and the ends
of chains alone, which also makes the blocks a graph for the two searches.

### The clock (`EmulatorClockProofs`)

For any periods, number of timers and pauses: `OneActiveHolds`, `DeadlineHolds`,
`StopIsFinal` and `TimeIsMonotonic` (an action property), with
`InductiveInvariant` and `TypeCorrect`.  What makes them inductive:

* `AllSound`, `Distinct`: a timer whose flag is set is the one its device refers to,
  wherever it is (with the ticker, in the channel, about to be sent), and no two
  devices refer to one timer;
* `PassCovers`: half-way through a pass the deadline under construction hides none of
  the timers the pass has been through;
* `TickSound`: a timer that ticks was enabled when the pass reached it;
* `WaitCovers`: the synchronous clock waits only for what is not due;
* `OnTime`: with the synchronous clock a timer on its way to the ticker was created for
  a tick that was not past, so a deadline computed without it is at most `Second` and one
  quantum after that tick.

`DeadlineCovers` does not say that the clock never sleeps past a timer: a timer received
since the last pass (`fresh`) may be due before the deadline, which the code compares
alone (`time.rs:98-99`, `169`).  What it bounds is how late such a timer can be with the
synchronous clock.

### The interrupt controllers (`LegacyPicProofs`, `ApicProofs`)

For any lines, vectors (any bytes, in any of the eight words of the bitsets) and device
threads: `ServiceIsLegal` with both clocks, and with the synchronous clock
`RequestIsExact` and `IntrIsExact`, and `PulseIsDelivered`.

* `LegacyPic`: `AckExact` says that what the CPU has loaded while it chooses is still
  true except that more lines may be pending, since device threads only add;
  `OneAtATime` and `SyncExact` say that with the synchronous clock what a thread has
  loaded is what the registers hold; `RequestTaken` is exactness between updates.
* `Apic`: `Outranks` carries the CPU's choice from its load to the start of service;
  `LineOK`, `RaiseOK`, `ChoiceOK` say for each step of a pulse, of `raise_interrupt`
  and of the choice what INTR already reflects; `DueOK` follows a vector that a pulse
  owes through the entry that is written back as a whole.  `ToScan` says, for the
  synchronous clock, that the words a scan has passed are empty, so that the first word
  with a vector holds the strongest (`ScanFinds`); with device threads a stronger vector
  may appear in a word already passed, and `Outranks` does without it.

In the model the synchronous clock ticks its devices one after the other, as the one
thread of the code does (`Turn`).

### The instruction cache (`InstrCacheProofs`)

For any memory, opcode lengths, frames, entry points, writes, delays and queue limits:
`ExecutesMemory` (`FreshExecution`), `PageCodeIsCurrent` (`JitCodeCurrent`),
`CacheIsConsistent` (`CacheConsistent`) and `CleanFramesAreCurrent`
(`CleanFramesCurrent`), with `InductiveInvariant` and `TypeCorrect`.  What is executed
is current because of `Holds`: an entry of a clean frame holds what memory holds, and
an entry of a dirty one what memory held when the frame was noticed or the entry
decoded (`cached_instr_bytes`), which the checks compare.  It needs the rest:

* `Whole`, `Apart`: an entry holds one whole instruction inside its frame, and entries
  do not overlap, so that decoding a new one keeps what others say;
* `Counted`: the links of any entry, even a released one, lead to entries, and
  `prev_entry_indices` counts at least as many references as there are links, so that
  a drop finds them;
* `Fixed`: a link that is followed without looking at the program counter leads where
  its opcode continues; one that is followed without any check stays in a clean frame;
* `Noted`: the delay, the copy of the bytes, the list of dirty frames, the checking
  flags and `frame_is_clean` of the memory agree;
* `Attached`: page code is attached in clean frames and names cached instructions;
  requests and results name instructions of their frame.

Two hypotheses are in the theorems, both about what the code really does:

* `DmaMarks`: the marks of a DMA transfer cover the frames it writes.  The code does
  not guarantee it (finding 3, run `icache_dma`); frame-aligned transfers have it
  (lemma `AlignedMarks`).
* `[][~SelfSwitch]_vars`: no instruction becomes its own successor for another
  environment (see "Noticed" above).  `OneEnvironmentInvariant` and
  `OneEnvironmentCorrect` do without it for a guest that stays in one environment,
  such as real mode.

`MappingsAreFresh` (`TranslationsFresh` of `MappingTracker`) is proved there too, for any
pages, wrapping, frames, chunks, slots of the TLB and versions, from `MappingAssumption`.
`MapInv` says that the records of a frame are exactly the pages that show it
(`TrackerOK`, both directions of the table), that current frames lie in marked chunks,
that a TLB entry of the present version is what its page shows (`FreshIn`), and that the
present walk of the page tables is in the history of the page.  `Relinked` is the step
that moves a record in the linked lists; `TrackMappingExact`, `MoveMappingExact`,
`RemoveMappingExact` and `ResolveExact` say what each operation does to the records.
`RewalkExact` is the walk over all records of a chunk after a change of the page tables:
a recursion over a finite set, whose result is shown by the smallest set on which it
would differ.

The named assumptions of `InstrCache` are ranges: sizes and delays are positive, entry
points, targets, writes and transfers lie in memory, instructions have a length.

### The IDE channel (`IdeProofs`)

For any disk, words, sector size, counts, packets and byte limits, with LBA addresses:
`ImplementsDisk` (the channel implements `BlockDevice`) and `HandshakeIsExact`
(`HandshakeExact`), with `InductiveInvariant` and `TypeCorrect`.

The refinement goes step by step (`EveryStep`): a command that transfers sectors maps
to `Begin`, each word at the data port to `Put` or `Get`, the start of the bus master to
`TransferIn` or `TransferOut`; register writes, polls and failed commands to stutters;
identification and packets, which leave the sectors alone, to `Idle`.  The sectors
of the channel are those of the abstract disk, so that the mapping only hides the other
jobs.  Under it lies `IInv`:

* `JobOK`: a transfer stays inside the disk and inside a sector;
* `ReadOK`, `WriteOK`: the sector buffer holds exactly the words from the place the
  driver has come to (`WordAt`: word k from sector a is in sector a + (k - 1) div W),
  and the channel's block address is the transfer's;
* `IdentifyOK`, `ResponseOK`, `EmptyOK`: the same for the other commands, and an empty
  buffer for the rest: what an abandoned command leaves behind is no one's data;
* `DmaOK`: the bus master's pending command is the driver's, and the memory of a DMA
  write has the words of all its sectors.

`Handshake` adds where a transfer is in its interrupts: `Progress` counts one per sector
(the first before the words of a read, the last after the words of a write), `Blocks`
one per block of a packet's response, whose last block may be short; `RequestOK` ties
the data request bit to the words that remain.

Hypotheses: `IdeAssumption` (the disk has sectors, counts and limits are positive) and
`LbaOnly`.  With CHS addresses the code does not transfer consecutive sectors (see
"Noticed" above), so the theorem would be false.

### The smaller devices (`DeviceProofs`)

The theorems are about `DevicesSpec`, with all constants free.  A lemma for each device
(`SoundRuns` and so on) says that a behaviour of the sum is one of the device's own `Spec`;
the rest is the device's invariant under its own steps.

* `ReportedInterruptReachesDriver` (`Es1370`): for any sizes and sample counts.  The tick
  reads the enable bit before it counts and sets the status bit after; `SndInv` says
  what a tick that saw the bit set, and a status bit, mean in each phase of the driver's
  handler, which clears and restores the bit.
* `DiskKeepsContents` (`CowDisk`): for any disk, cell size, writes, snapshots and
  restores.  `CowInv` is that the stack of layers reads as the guest's view
  of the disk, now and in the snapshot; the lemmas say what a layer hides
  (`NewestLayer`) and what a partial write copies up from the layers below.
* `BytesAreAnnounced` (`Ppi`): for any queue lengths, an action property, from the types
  alone: each step that makes a byte visible, or ends the handler that would read it,
  leaves the interrupt of that byte's device pending, but for the one that enables the
  mouse port while the mouse has bytes.
* `CounterIsExact` (`PitTimer`): n ticks at once equal n ticks one by one, in every mode,
  for any byte size: `TickTwice` for one tick more, from the forms of a counter that runs
  through zero, with and without reload, and `PitInv` along the guest's accesses.  The
  hypothesis `LessThanATurn` bounds the ticks between two accesses by a turn of the
  counter (55 ms); in modes 4 and 5 the code takes a whole turn for no tick.
* `NatServesConnections` (`Nat`): for any slots, connections, endpoints and buffers.
  `Tables` is `TablesAgree` without its claim on panics, which is `Panicked`: each
  step that panics establishes it, and nothing a later step does undoes it (`PanicStep`).
  `EventsOK` says that a TCP socket has one event and goes
  with it, so that only a second UDP socket can leave a stale one; `Served` that a
  datagram in the stack has a host socket for its endpoint; `Flow` that bytes which can
  move on a connection that is open have an edge, an event not handled yet, or an update
  of all sockets ahead of the next wait, unless the thread has panicked.  From `Flow` and the empty set of events follows `NoStall`.
* `FramesAreKept` (`Ne2k`): for any ring, page size and frame lengths, from
  `Ne2kAssumption` (a page has units, the ring has pages, lengths are natural numbers).
  `RingExact` says nothing of the room between the frames; `EthInv` measures it.  From
  the driver's next page, each frame begins where the one before it ends (`FrameAt`:
  its header, its units and the page it names next), frames do not reach into
  one another, and the boundary register is the driver's page, or one page before
  it with a page of the ring kept free (`RingOK`); a frame that wraps is the same modulo
  the ring (`Wrap`).  So a frame that is stored hits none that waits (`FrameStored`), and
  what the driver has read of one, between two accesses that each may store another, is
  still its beginning (`Reading`).  For `NoFrameStranded` the status register shows a
  reception while frames wait, and the line is pulsed unless one was dropped, the handler
  runs or the network thread is about to pulse it (`Waiting`); the line the thread
  pulses is the one the BIOS chose.
* `TransfersAreExact` (`Fdc`): for any byte size, programmed values, geometry and
  cylinders, from `FdcAssumption`.  `FddInv` relates the registers to what the driver has
  sent of a value: both bytes, or one with the flip-flop set and the low byte in the
  register (`Sending`, `Pending`); the latched address follows the address and the
  page; the latched length is the count if the address or the page was written after it
  (`fresh`) and the driver has not read it back or abandoned it since (`Known`).  With
  the count written last the theorem claims address and reported position, not the
  length (see "Noticed" above).

### What stays with TLC

* Liveness (`DropTerminates`, `ReadyServed`, `StaleIntrEnds`, `EligibleServed`,
  `EventuallyShown`): the prover handles neither fairness nor ENABLED.
* `Val`, `UncommittedState`, `BbGraph`, `Lir`, `Mir` and `ValTree` are about recursive
  data (terms, graphs, programs): what they compute needs induction over data and
  recursive operators (`ValuesExact`, `GraphExact`, `CompiledExact`).
* `RoundTrip` of `Interrupts`, an action property (`[][ResumesOnReturn]_intVars`) that
  compares the state a return gives with one that was saved many steps earlier; its
  invariant has to say of every frame, at any depth of the nesting and on any stack,
  that nothing has overwritten it, and is not proved yet.

## 6. Not modelled

* Instruction semantics (`semgen`, liblisa encodings) and the decoder: tables and
  64-bit computations, out of TLC's reach in any instance that would mean something.
* Of code generation: accesses to memory and descriptors (the reads of an instruction
  are put at its start by `wrap_memory_accesses`, `il/mod.rs:1781`), floating-point
  operators, `Lir::optimize`, the backends (LLVM and the interpreter of compiled
  code), the counter `k` of instructions, `build_from_branching`, which nothing calls.
* Vendored software floating point, user interfaces, trace files and bisection, host
  networking, audio and rendering: third-party code, off-line tools or host I/O.
* Register files without concurrency or protocol: PCI and ACPI configuration, VGA
  registers, the serial port, the calendar of the RTC, the codec of the sound card;
  the DHCP answers of the NAT.
* Snapshots and `restore` of the controllers; only those of the disks are modelled.
* In modelled components: what `PROJECT.json` names under each of them.

## 7. Plan

Proofs: `RoundTrip` of `Interrupts` for a bounded nesting.

Models: instructions that cross a frame in `InstrCache`, the run loop with events
and snapshots, `restore` in the controllers, the control of instruction semantics
(string instructions, faults half-way), the x87 stack, the register files of VGA, PCI
and ports.
