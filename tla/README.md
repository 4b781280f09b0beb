# A TLA+ verification development for CEN64

CEN64 (`src/`) is a cycle-accurate Nintendo 64 emulator in C. This directory
holds TLA+ models of its parts, TLC configurations that check them on small
instances, and TLAPS proofs of theorems about them.

Line numbers refer to the files under `src/`. `PROJECT.json` maps every
definition to the lines it stands for, and names for every property a plausible
mistake in the code ("Mutant of ..." in the modules) that the property catches.

## 1. Inventory: the system and its parts

CEN64 runs as one process. The **main** thread owns the window. The **device**
thread emulates the machine; with `-multithread` it emulates the RCP (RSP, video)
and a third thread, **vr4300**, emulates the CPU, the audio interface and the
cartridge interface. With `-debug` a **gdb** thread serves a remote debugger. All
components live in one `struct cen64_device` and call each other through the bus
controller; nothing but two mutexes of the window, the barrier of the device and
the debugger's mutexes protects shared state.

| component | files | state | operations | interacts with | what is hard | correct when |
|---|---|---|---|---|---|---|
| device threads | `device/device.c`, `cen64.c`, `os/posix/thread.h` | `running`, `other_thread_is_waiting`, `sync_mutex`, `sync_cv` | quantum, barrier, exit, join | every component, the window | interleavings, lost and spurious wake-ups, exit in the middle of a quantum | threads stay in step, neither starves, closing ends the process |
| RCP interrupts (MI) | `vr4300/interface.c`, `cpu.c`, `cp0.c`, `fault.c` | `MI_INTR`, its mask, `CAUSE`, `COMPARE` | raise, clear, mask, poll, rewrite CAUSE | AI, PI, SI, VI, DP, SP raise; the pipeline polls | two threads read, modify and write the same words | no interrupt is lost or stuck |
| audio interface (AI) | `ai/*` | registers, ring of two buffers, countdown, OpenAL's buffers | register writes, DMA, cycle | MI, RDRAM, OpenAL | full and empty ring, unsigned wrap, buffer pool | a FIFO of two buffers, one interrupt each, in time |
| parallel interface (PI), FlashRAM, IS-Viewer | `pi/*` | registers, countdown, flash mode and page, SRAM, text buffer | register writes, DMA, cycle, flash commands, text | MI, DD, RDRAM, cartridge | a transfer made at its end from registers that may have changed; lengths at their limits; a page taken from RDRAM late | one interrupt per DMA, data where asked, pages hold what was programmed |
| 64DD disk drive (DD) | `dd/controller.c` | ASIC registers, buffer manager, sector and C2 buffers | register accesses, sector transfers, seek, reset | PI, CAUSE | three parties wait for one another; one line for two sources | every sector of a block once and in order |
| serial interface (SI), paks, clock, Game Boy cartridges | `si/*` | PIF RAM and its copy, buttons, EEPROM, pak state, clock offset, bank registers | DMA, packets, pak reads and writes, bank switching | MI, window's input | packed packets that may be cut or refused; banks put together from several registers | answers are those of the requests, saved data comes back |
| video interface (VI) | `vi/*`, `os/x11/*` | registers, line counter, frame buffer, two mutexes, pipe, X11 events | cycle, register writes, frame hand-over, events | MI, main thread, RDRAM | a frame shared by two threads; an event that Xlib has read already | every frame shown is whole, closing is seen |
| bus and memory map, RDRAM | `bus/*`, `ri/*` | red-black tree of ranges, memory | insert, resolve, read, write | every device | rotations through one nil node that all leaves share | an address finds the range inserted for it |
| VR4300 | `vr4300/*`, `arch/x86_64/{tlb,fpu}` | registers, latches, CP0, TLB, caches, FPU | a cycle, a stage, exceptions, cache operations, instructions | bus, MI | interlocks, faults with a full pipeline, delay slots, write-back, a cached segment | results as in program order, exceptions precise, newest data found |
| RSP | `rsp/*`, `arch/x86_64/rsp/*` | IMEM and DMEM, latches, SP_STATUS, semaphore, opcode cache, vector unit | a cycle, DMA, status writes, instructions | MI, RDP, RDRAM | a status word updated by two threads, a stale opcode cache, 48-bit sums in 16-bit lanes | commands not lost, code as in IMEM, results as specified |
| RDP | `rdp/*` | command registers and buffer, texture memory, edges and attributes | command list, loads, fetches, primitives | MI, RSP, RDRAM | commands cut anywhere, addresses with swapped halves, shared edges | every command once, texels as loaded, no pixel twice or not at all |
| debugger | `gdb/*`, `vr4300/debug.c`, `common/hash_table.c` | flags, breakpoints, buffers, one condition variable | packets, break, continue, detach | CPU thread, a client | two waiters on one condition variable, a table without a lock | client, debugger and CPU agree on who runs |
| set-up and hosts | `device/options.c`, `cart_db.c`, `netapi.c`, `sha1.c`, `os/*` | command line, files, sockets | parse, load, hash | the rest | - | - |

## 2. Plan

The order was: first what two threads share, then the protocols between the
guest, a controller and the interrupt, then the processors, which are sequential
but have the longest histories. All modules of the plan are written:

1. Threads and protocols, each with its abstract specification where it promises
   something simpler: `DeviceThreads`; `RcpInterrupts`; `AudioFifo` <-
   `AiController`; `PiController`, `PiRomDma`; `DiskBlocks` <- `DiskTransfer` =
   `PiController` + `DiskDrive` + a driver; `KeySet` <- `HashTable`; `GdbSession`.
2. The rest of the console: `VideoOut`, `FlashRam`, `IsViewer`, `JoyBus`, `Pak`,
   `MemoryMap`.
3. The processors: `RspPipeline` <- `RspThreads`, `RspScalar`, `RspVector`,
   `RspVectorMemory`; `VrPipeline`, `VrCaches`, `VrTlb`, `VrScalar`, `VrFloat`;
   `RdpCommands`, `RdpTexture`, `RdpSpans`.
4. Proofs: the modules `*_proofs`, and `Induction` with the lemmas about loops and
   about `\div` and `%` that they share; section 6 says what they establish, what is
   left to TLC and why. `Host_proofs` is about `DeviceThreads`, `GdbSession` and
   `HashTable`, `PiController_proofs` about the four modules of `pi/*`,
   `RcpInterrupts_proofs` about the interrupts and the two modules of the RSP's
   threads and pipeline, `VrMemory_proofs` about `VrCaches` and `VrTlb`,
   `Console_proofs` about `AiController`, `VideoOut`, `JoyBus` and `Pak`; the others
   are named for their module.

`MCHost`, `MCDevices`, `MCConsole`, `MCRsp`, `MCVr` and `MCRdp` each put several
modules, which share no variable, into one specification: a variable chosen in
the initial state says which of them runs, and the others stay as they start.
Their CONSTANT `Active...` lists the parts to look at, so that one part can be
checked alone.

## 3. Modules and how they correspond to the code

### DeviceThreads: `device/device.c`, `cen64.c`

`pc` is where each thread is, one action for what it does between two points at
which the other can see it: `TestRunning`, `Quantum`, `LockSync`, `Arrive`,
`SignalSync`, `FinishWait`, `LeaveLoop`, and for the main thread `CloseWindow`,
`StopDevice`, `JoinDevice`. `UnwindQuantum` is the `longjmp` of `device_exit`.
`SpuriousWakeup` is what POSIX allows a condition wait. `lead` counts quanta by
which one thread is ahead. A quantum is one step here: what the two quanta share
through memory is the subject of `RcpInterrupts` and `RspThreads`.

### RcpInterrupts: `vr4300/interface.c`, and CAUSE in `cpu.c`, `cp0.c`, `fault.c`

Each thread is in the middle of at most one operation, `op[t]`, whose field `at`
is its next access to shared memory: read MI_INTR, compare with the mask, set or
clear the line, store CAUSE. `SignalRcp`, `ClearRcp`, `WriteMask`, `WriteIntr`,
`Timer`, `WriteCompare`, `RewriteCause`, `SignalDisk`, `ClearDisk` start
operations; `Check`, `SetLine`, `StoreCause` continue them. The RCP's updates are
atomic instructions on CAUSE and MI_INTR, the CPU's are a load and a store. With
`multithread = FALSE` one operation runs at a time. `overwritten` notes that the
guest wrote MI_INTR as an ordinary register (`interface.c:183`), which changes it
without a check: until the next check the properties do not ask the line to match.

### AudioFifo and AiController: `ai/controller.c`, `ai/context.c`

`AudioFifo` is what the guest relies on: a queue of at most two buffers, finished
in order, an interrupt for each, empty buffers without a DMA. `AiController` has
the ring (`fifo`, `fifo_ri`, `fifo_wi`, `fifo_count`), the status bits, the
countdown and the pool of three OpenAL buffers. `WriteLen` is the whole handler of
AI_LEN_REG with the DMA that it may start; `Cycle` is `ai_cycle` with the end of a
buffer and the start of the next; `WriteDacRate` changes the frequency, and the
next DMA makes the context anew; `AlProcess` is OpenAL (external) finishing a
buffer. The mapping to `AudioFifo` reads the ring from `fifo_ri` on.

### PiController, PiRomDma, FlashRam, IsViewer: `pi/*`

`PiController` has the registers and the countdown. A write of a length only arms
the transfer; `PiFinish` makes it from the registers as they then are, as the code
does. For a copy from ROM it takes the closed form of the registers and bytes that
`PiRomDma` checks against the loop of `pi_dma_write`, one block to a step, with
the two hardware bugs that the code reproduces. SRAM is in banks; lengths wrap at
`WordMod` (2^32). `FlashRam` is the flash chip with the commands of
`write_flashram`, the DMA that only notes an address (`FlashDma`), and a guest
that runs through jobs and may drop one halfway (`FlashDrop`). `IsViewer` is the
text device: the buffer, the length that sends it (`IsLength`), the line that waits.

### DiskDrive, DiskBlocks, DiskTransfer: `dd/controller.c`

`DiskDrive` is the controller under a guest that mixes commands, control writes,
status reads, resets and DMAs in any order. It writes no plain register (CUR_SECTOR,
`dd/controller.c:324`), and its control writes start at one of the two blocks
(`:275`, an assertion; a build without it ignores others). The handlers are
functions of its record: `AfterStatusRead`, `AfterCommand`, `AfterControl`,
`AfterHardReset`, `AfterPiWrite`, `AfterDma`; those that call `dd_update_bm`
compose with `UpdateBm`, whose two halves are `WriteHalf` and `ReadHalf`. Reading
the status is an action, because the read handler moves the drive on.
`DiskTransfer` EXTENDS `PiController` and `DiskDrive`: `DiskFinish` is the PI's
transfer with the call into the drive, and a driver (external) seeks, starts, and
for each sector looks at the status, programs the DMA and waits. `DiskBlocks` is
the promise: the sectors of the blocks asked for, each once and in order, and in
the end all of them.

### GdbSession, HashTable, KeySet: `gdb/*`, `vr4300/debug.c`, `common/hash_table.c`

`GdbSession` has the CPU's thread (`CpuStep`: search the breakpoints, report, lock,
wait, resume), the debugger's thread (`GdbStep`: wait for the first breakpoint,
read, parse, handle one packet, scan for Control-C) and a client that keeps to the
protocol (`ClientStep`). `flags` has no lock: a modification is a load into
`loaded` and a store. The constants say which of three orders are left out:
a CPU that boots before the thread waits (`LateBoot`), a client that resumes a CPU
that has not begun to wait (`PatientClient`), packets that arrive together
(`SeparateReads`). `HashTable` has probing (`Find`), growth (`Set`, `GrownTo`,
`Resized`) and deletion with the filling of holes and shrinking (`Delete`,
`HolesFilled`, `ShrunkTo`); a place where the code would go through the entry NULL
sets `fault` and stops. `size` is kept as the code keeps it, so it may be less than
the number of entries. `KeySet` is a set.

### VideoOut: `vi/controller.c`, `os/x11/gl_window.c`

`vi_cycle` counts a period down, raises the interrupt and begins a frame; the
emulation then locks `render_mutex`, measures, copies and unlocks (`LockFrame` to
`PushFrame`) and puts a token into the pipe. The window's thread selects, pumps
events under `event_mutex`, reads tokens and draws. The X11 connection and the
queue that Xlib keeps are apart, because `select` sees only the first.

### JoyBus, Pak: `si/*`

`JoyBus` is a block of packets written, run and read back (`Write64`, `Read64`),
over a PIF RAM the guest may also write word by word; the walk (`Process`,
`Answered`, `NextChannel`) is that of `pif_process`. Its second half is the clock (`RtcRead`,
`RtcControl`, `RtcSet`, `RtcTick`) over a calendar of seconds and years. `Pak` is
what can be in a controller, with the Transfer Pak's window, and the bank
controllers MBC1, MBC2, MBC3 and MBC5 behind it.

### MemoryMap: `bus/*`, `ri/*`

Insertion into the red-black tree with its fix-up (`Linked`, `Fixup`, `Rotate`), the look-up,
`bus_init`'s own table with and without a 64DD, and a masked write and a read of a
word of RDRAM and a register through it.

### RspPipeline, RspThreads: `rsp/pipeline.c`, `cp0.c`, `interface.c`, `functions.c`

`RspPipeline` runs every program of a few words through the five stages with their
stalls, forwarding and delay slots, and `isa` runs the same program one instruction
at a time; BREAK, and the CPU that halts, restarts and points the RSP, may come at
any cycle. `RspThreads` takes `rsp_status_write` apart into loads, stores and its
compare-and-swap, with the semaphore, for the mode with two threads; `possible` is
the set of status words that some order of the whole writes gives. Its second half
is DMA, the CPU's writes and the RSP's stores, with the opcode cache.

### RspScalar, RspVector, RspVectorMemory: `rsp/functions.c`, `arch/x86_64/rsp/*`

Every scalar instruction beside the instruction set's definition; one lane of the
SSE code of every instruction that uses the accumulator or the flags, run as short
programs, beside the arithmetic it stands for; the divider's state; vector loads,
stores, transposes and moves over a DMEM whose bytes all differ.

### VrPipeline, VrCaches, VrTlb, VrScalar, VrFloat: `vr4300/*`, `arch/x86_64/*`

`VrPipeline` runs every program of three words and a loop, with interrupts and
cache misses at any cycle, a guest's handlers, the fast and the slow path, and
compares it with `vrisa`. `VrCaches` has both caches over memory, with every CACHE
operation the code implements, and a program that publishes new code. `VrTlb` has
the TLB, the segments of all modes and the segment that EX/DC keeps, with a guest
that fills the TLB from its page tables. `VrScalar` has the integer instructions,
loads and stores with their masks, and the registers of coprocessor 0 with COUNT
and COMPARE. `VrFloat` has the FPU's registers in both modes, moves, flags,
conversions and rounding; arithmetic itself is the host's.

### RdpCommands, RdpTexture, RdpSpans: `rdp/n64video.c`, `rdp/interface.c`

`RdpCommands` is the command list with its registers, chunks and leftovers
(`Chunks`, `Execute`), and the words triangles and rectangles become. `RdpTexture`
has a coordinate's way through wrap, mirror and clamp, and the loads and fetches of
texture memory, each with its own computation of an address. `RdpSpans` goes from
the words of a primitive to its pixels: the edges in quarters, the coverage of a
pixel and the attributes stepped to it.

## 4. What the runs check and what they show

| run | configuration | parts and bounds | shows |
|---|---|---|---|
| `host` | `MCHost` | device threads in both modes, with and without video, up to 2 condition waits that return by themselves; a session of the debugger over one breakpoint, one such wait; a table of 6 keys with common first slots, capacity 4 to 16 | `BarrierInv`, `SkewBound`; `SessionSafe`; `AllReachable`; `DeviceLive` (both threads emulate for ever, without a CPU thread the process ends when asked); `SessionLive` (a continue and a break are heard); `ImplementsSet`: the table is a set |
| `ai` | `MCAiController` | lengths 0, 2, 3; two frequencies; with and without output; integers modulo 4 | `FifoInv`, `BufferPool`, `OnTime`, and the refinement of `AudioFifo`, its liveness included |
| `devices` | `MCDevices` | PI: two banks of 8 bytes, two lengths, aligned or not, RESET and CLEAR_INTERRUPT at any time; ROM copies: the real block of 128 bytes, all alignments, 34 lengths on both sides of every limit, a ROM that ends inside; drive: 3 data sectors, the real 4 C2 sectors, a good and the bad track | `InterruptTold`, `BusyRight`, `LongSramInBank`, `BusyEnds`; `RomCopyRight` (every byte in its place but for the hole of "HARDWARE BUG #2", and the closed form); `SectorFresh`, `LineExact`, `ReadsInOrder` |
| `dd_read_blocks` | `DiskTransfer_read` | the real 85 + 4 sectors, one or two blocks, from either | `ImplementsBlocks`, and every read ends (`TransferEnds`) |
| `console` | `MCConsole` | 7 ranges in every order and `bus_init`'s own; 2 flash pages of 2 bytes; 7 characters; a clock of years of 12 seconds; carts of all five controllers; paks of four kinds; blocks of 36 bytes with refused, cut and filler packets; a field of 5 lines, two events of the user; two sources of the MI | `MapRight`, `FlashRight`, `IsShown`, `RtcExact`, `CartsRight`, `PacketsRight`, `FramesRight`, `LinesRight` |
| `rsp` | `MCRsp` | all programs of 4 words over 10 kinds of instruction; writes of SP_STATUS by two threads; DMA of two lengths, skips and counts; lanes of 3 bits; 14 addresses of vector accesses; registers of 8 bits | `RspRunsRight`, `SharedRight`, `VectorRight`, `RspComputesRight` |
| `vr` | `MCVr` | all programs of 3 words over 7 kinds of instruction and a loop; caches of 2 lines over 3; a TLB of 2 entries and six addresses of five segments; 10 operands; FPU programs of 3 instructions; COUNT modulo 16 | `VrRunsRight`, `CachesRight`, `AddressesRight`, `VrComputesRight` |
| `rdp` | `MCRdp` | two lists of 13 commands cut at three places, chunks of 44 words; every setting of a tile axis that shifts, masks, mirrors or clamps; 13 pictures of all formats; triples of primitives that share an edge under three scissors | `CommandsRight`, `TexelsRight`, `SpansRight` |
| `device_shutdown`, `mi_lost`, `dd_write_block`, `hash_full` | `DeviceThreads_shutdown`, `RcpInterrupts_lost`, `DiskTransfer_write`, `HashTable_full` | as small as the behaviour allows | each **violates** one property: section 5 |

A property whose name ends in `Right` is a conjunction of named parts, each with
its own comment in the module; TLC names the conjunction, and its trace shows the part.

### Why the bounds are enough

- Threads: the code has exactly these threads. `MaxSpurious = 2` makes the second
  wait meet the state the first left behind; the proof covers every bound. The
  session's safety is proved for every set of addresses; one breakpoint that is
  set, cleared, hit and taken out is enough for its liveness.
- Interrupts: the bits of MI_INTR do not interact but through "any of them
  unmasked". The proofs are for every set of sources.
- Audio: a ring of two is full after two writes, so the third write, the wrap of
  both indices and all combinations of empty and non-empty entries occur.
- PI: one length shorter than the misalignment, one longer; two banks have one
  boundary between them and one at the end of the file. The loop of the ROM copy
  tells apart the first block, the last and those between.
- Disk: `dd_update_bm` tells apart the first sector, the last data sector, each C2
  sector and the gap. The real size is used where the driver counts.
- Hash table: `MIN_TABLE_SIZE` is lowered so that a few keys reach two growths and
  both shrinks; the probing does not depend on it. The prime is the code's.
- Buses: seven ranges reach every case of the fix-up; the real table is inserted too.
- Paks and clock: bank numbers of the real widths; a year of 12 seconds has the
  carries into years and centuries.
- Pipelines: the RSP keeps no history beyond its five latches, so four words fill
  it; the VR4300's fast path looks back a few cycles, and its programs loop.
- Lanes of 3 bits have both signs, carry and saturation; the SSE code is the same
  for every width.
- Pictures: every format and size that loads, on even and odd lines, at addresses
  that wrap, with and without a palette. Spans: edges of both directions, steep and
  flat, with corners, cut by the scissor or not.

`CHECK_DEADLOCK FALSE` stands where the program may stop: threads left waiting for
good, a fault of the table, a program of the processors that has run.

### Fairness

- `host`: weak fairness of each thread's steps while its part runs: the operating
  system runs a thread that can run. For the session also of `Receive`: what was
  sent arrives. None for the user, for the client's decisions, or for condition
  waits that return by themselves.
- `ai`, `devices`, `dd_read_blocks`: weak fairness of the cycle, because the loop of
  the CPU's thread calls `ai_cycle`, `pi_cycle` and `vr4300_cycle` in turn for as long
  as the device runs. None for the guest's writes, nor for OpenAL. In `DiskTransfer`
  also of the driver's next step: guest code runs on; the next job is not fair.
- All other modules are about safety only.

## 5. Findings

The runs that expect a violation each show a disagreement between the code and
what its comments or assertions say (the quotes are in `PROJECT.json`).

1. *Shutdown* (`device/device.c:283`). With `-multithread` the window's exit
   request unwinds the RCP's thread out of its quantum; the CPU's thread waits
   at the barrier for a partner that does not come, and is joined.
2. *NoLostInterrupt* (`vr4300/interface.c:33`). The RCP's thread compares its
   flags with the mask, the CPU's thread unmasks and raises the line, and the
   RCP's thread then lowers it: a pending, unmasked interrupt is not seen until
   something else makes the comparison again.
3. *TransferEnds* for a write (`pi/controller.c:80`). The test for the drive's
   buffers looks at the RDRAM address, which was masked, not at the address on
   the bus; `dd_dma_read` is never called and a write of a block never ends.
4. *EntryFound* (`common/hash_table.c:73`). A resize forgets how many entries
   it moved; the table shrinks while it is full, and a search for another key
   goes round without a free slot.

The modules state more properties that do not hold, or not for every value of the
constants. Under the setting named here TLC refutes them.

| property | setting | what happens |
|---|---|---|
| `Lockstep` | `DeviceThreads`, `MaxSpurious = 1` | the wait at `device.c:215` has no loop: a spurious return lets one thread run ahead |
| `StopsOnlyOnRequest` | `DeviceThreads`, `NoVideoModes = {TRUE}` | without a window, `cen64.c:478` clears `running` at once |
| `OnTime` | `AiController`, lengths below `EarlySamples` | `samples - 10` is unsigned (`ai/controller.c:120`): a short buffer waits for 2^32 samples |
| `EveryBufferHeard` | `AiController`, `Lengths = {0, 3}` | "Keep spinning until OpenAL has some free buffers" (`:110`), but nothing spins |
| `NoStuckInterrupt` | `RcpInterrupts`, two threads | an exception stores a CAUSE it read before the other thread lowered the line (`fault.c:204`) |
| `SramInBank` | `PiController`, short lengths | `length -= source & 7` wraps for a transfer of fewer bytes (`pi/controller.c:58`) |
| `MechaHeard` | `DiskDrive` | acknowledging the buffer manager lowers the line for the command's interrupt too (`dd/controller.c:340`) |
| `WritesInOrder` | `DiskDrive` | the half for writing falls through into the one for reading (`:498`): a write moves on by two |
| `FirstStopHeard` | `GdbSession`, `LateBoot = FALSE` | the first breakpoint before the wait: the thread locks a mutex it holds (`gdb.c:90`), or waits for a signal already sent |
| `ContinueHeard` | `GdbSession`, `PatientClient = FALSE` | a continue between the report and the wait is lost (`gdb/protocol.c:193`) |
| `BreakHeard` | `GdbSession`, `SeparateReads = FALSE` | one packet for each `recv`: a Control-C behind a packet is not looked for |
| `DetachFrees` | `GdbSession` | detach signals nobody (`protocol.c:308`): the CPU stays stopped |
| `FlashHolds` | `FlashRam`, `FlashReuses = TRUE` | the page is taken from RDRAM at the execute command: a buffer reused before is programmed instead |
| `LineAtCurrent` | `VideoOut` | the interrupt comes at half the line asked for, and never for lines 0 and 1 (`vi/controller.c:78`) |
| `BreakKeepsAll`, `RspHaltedSpec => InOrder` | `RspPipeline` | BREAK drops what is in the stages before it; a halt by the CPU runs an instruction twice or not at all |
| `StartsWhereTold` | `RspPipeline`, `StartPcs = {0, 2}` | a start with old latches runs them first |
| `InterruptAtomic`, `ResetBetweenCycles` | `RspThreads` | the interrupt is raised before the swap succeeds (`rsp/cp0.c:104`); the CPU's thread resets the pipeline in the middle of a cycle, which the comment at `rsp/interface.c:182` leaves open |
| `OpcodesCurrent` | `RspThreads`, `Stores <- MCStoresPastEnd` | a store past the end of DMEM changes IMEM, not the opcode cache |
| `VrNothingLost`, `Precise`, `VrInOrder` | `VrPipeline` with `lwa` | an address error in DC after a taken branch loses the target |
| `VrInOrder` | `VrPipeline` with `trap` or `bad` | a trap or a reserved instruction raises its exception and the cycle goes on: the result of EX is kept |
| `ModToGeneral` | `VrPipeline` with `swm` | a modification exception goes to the refill vector after a TLB miss (`fault.c:346`) |
| `NotNested`, `VrRunsRight` | `VrPipeline`, `FetchFaults = TRUE` | a fault of a fetch in a delay slot sets ERL |
| `FaultsEnd` | `VrTlb`, `HandlerMasks = FALSE`, or `TlbStatus <- MCStatusMixed` | the probe uses the mask of another page; the segment of the last mode is kept |
| `LoadsRight` | `VrScalar`, `VLinked = TRUE` | LL and SC do not keep the link over an exception |
| `ReadsBack` | `VrScalar`, `CountWritten = {9}` | COUNT is kept doubled and loses its top bit |
| `FpuFlagsRight` | `VrFloat`, `FpuClose = TRUE` or `ComiNan = FALSE` | a comparison right behind a write of FCR31 is lost; ordered comparisons of NaN by `comi` |

Further differences from the hardware or from comments that the models reproduce
and that no property is about:

- *VR4300*: a kept XKSEG answers for addresses above the bound of `get_segment`, up to
  its length (`segment.c:94`, `:280`); ERL does not unmap the user segment; several TLB matches answer as
  none; a store in the delay slot of a loop onto itself stops the busy wait; SUBU
  lacks the flag that it needs rt; JAL to itself loses its link; CTC1 leaves the
  host's rounding alone.
- *RSP*: SPV, SUV and STV past the end of DMEM are not cut; MTC2 to element 15 writes
  one byte; the link of BGEZAL is not cut to IMEM; `write_sp_mem` ignores the byte mask.
- *Bus*: `bus_init` finds a range by the order of insertion where ranges overlap (SRAM
  overlaps FlashRAM and the ROM); a look-up in an empty map reads the nil node.
- *SI*: the error bit of a packet is only in the right place for one-byte requests;
  a refused packet does not skip the room of its reply; reading a block back runs
  it again, EEPROM writes included; Transfer Pak writes do not look at `pak_enabled`.
- *Game Boy*: the modes of MBC1 are mixed with its upper bits; the first write to
  the upper register of an MBC5 gives bank 0; MBC2 reduces before it replaces 0 by
  1; banks beyond the save file read what is behind it.
- *RDP*: `rdp_cmd_ptr` is neither checked nor reset; after a crash nothing runs; a
  LOAD_TILE of one line whose `tl` is not whole loads nothing or 4095 texels; a
  LOAD_BLOCK from `sl` >= 2048 counts from a negative one; formats 5 to 7 give a
  colour that was never set.
- *VI*: a frame is composed with the VI_STATUS of that moment, not of its start.
- *DD*: a second read of the status after the last C2 sector clears the interrupt.

## 6. What is proved

TLAPS checks these for every value of the constants that the named assumptions
allow. The assumptions say that sizes are natural numbers and sets of inputs are of
the right kind; those that say more are `PiAssumption` (a length and the SRAM's end
fit into a word, which 24 bits of length give), `VrCachesAssumption` (a cache is a
whole number of pages), `FlashAssumption` (a page is an even number of bytes), and the
modes of the host, which the proofs do not use. TLC evaluates every assumption in the passing runs.

- **Host_proofs**, device threads: `TypeCorrect`, `BarrierCorrect`, `SkewBounded`. Mutual
  exclusion and the flag alone are not inductive. `BarrierInv` counts arrivals
  (`Ahead`) and says that the flag is their parity, that the thread furthest ahead
  is on the condition variable with a signal still to come, and that a signal in
  flight past a thread that is not waiting was paid for by a spurious wake-up. With
  that the bound on the skew follows in every state.
- **Console_proofs**, audio: `FifoCorrect` (`TypeOK` and `FifoInv` together are
  inductive: the index arithmetic needs the count, the count needs the status), and
  `RingImplementsFifo`: initial state to initial state, and each action to `Push`,
  `Finish`, `Acknowledge` or a stutter of `AudioFifo`. `BuffersPooled` follows each
  buffer of OpenAL from the pool to the source and back. `InterruptsOnTime` needs the
  hypothesis `LongEnough`: a length is 0 or gives at least `EarlySamples` samples; the
  row `OnTime` of section 5 shows what happens to the others.
- **RcpInterrupts_proofs**: `LinesAreRight`, all of `LinesRight`. It takes three
  arguments. The timer's line: only the CPU's thread writes that bit, by a store whose
  value is still on its way in `op` (`TimerNeverLost`). The 64DD's line: likewise
  (`DiskNeverLost`). The RCP's line in one thread: what an operation carries was
  computed from words that have not changed since, and nothing else is under way
  (`SingleThreadInv`, `SingleThreadLineExact`). In two threads the same property
  fails, finding 2: the step of the proof that would not go through is the
  comparison of one thread followed by the store of the other. The second half of the
  module is about `RspThreads`: `StatusWritesAtomic`, `InterruptAlwaysKept` and
  `AlwaysOneHolder`, the three parts of `SharedRight` that two threads could break, for
  any words written. `Linear` is the argument for the compare-and-swap: one of the
  possible outcomes is the status that is, with every pending write still to come
  (so a write takes place at its swap), and the set of outcomes is closed under what is
  pending (`ClosureClosed`). `Keeping` follows the interrupt: while it is due nobody is
  on the way to take it back, and one that is coming is up before the swap.
  `MemoriesAlwaysRight` adds the rest (`OpcodesCurrent`, `RoundTrip`, `Confined`), for
  memories of any size and any transfers, and `SharedAlwaysRight` is all of
  `SharedRight`. `MemoriesInv` says that the opcode cache holds the words of IMEM; a DMA is
  a recursive function over its words, so each of its facts is a lemma by `SetInduction` on
  the words done, and a transfer there and back is the identity if no word is at the place
  of an earlier one (`Apart`: the transfer is no longer than both memories together). The hypothesis
  `StoresInside`, no store past the end of a memory, is necessary: row `OpcodesCurrent`
  of section 5.
- **RcpInterrupts_proofs**, pipeline: `RspAlwaysRunsRight`, all of `RspRunsRight`, for an
  IMEM of any size and every program. `PipeInv` compares the five latches with the
  program run one instruction at a time. `Follows` says how far the fetch has come: no
  word of the next instructions is in the first two latches, or one, or two, and in each
  case what the next fetch will be; branches, delay slots, stalls and restarts move
  between the three. `Computed` says that with the last three latches drained into them
  the registers and DMEM are those of the program (`DrainedMem`, `DrainedReg`), so
  forwarding is right when it reads what a drain would write; `Stored` says what is left
  of it once the RSP has stopped. The hypothesis `StartPcs \subseteq {0}`, a CPU that starts the RSP at
  0, is necessary: row `StartsWhereTold` of section 5.
- **PiController_proofs**: `InterruptAlwaysTold`, `BusyIsRight`, from `PiInv`, their
  conjunction with the types; `LongTransfersInBank`, from arithmetic about the last
  byte of a transfer and the bank it begins in (`Quotient`, `OffsetInBank`,
  `FitsInBank`, `LongBytes`). Of the FlashRAM chip behind the PI, `FlashAlwaysRight`:
  `FlashInv` says for every step of a job (`Erasing`, `Programming`, `Reading`,
  `Asking`) what the chip must have been told by then, so that a job dropped halfway
  leaves nothing behind that the next one would trust. Its hypothesis `~FlashReuses`,
  a guest that leaves the buffer alone until it is programmed, is necessary: row
  `FlashHolds` of section 5. `CopyAlwaysRight` is `RomCopyRight`, for every request,
  cartridge and size of a block: `RomInv` says, between two blocks, what is left of the
  request and that the bytes stored so far are those the closed form gives up to there,
  which `PiController` uses for a whole transfer. `IsAlwaysShown` is `IsShown`: `IsInv`
  says what the buffer holds of a text that is half written, and that a buffer is empty
  behind it; a text has no NUL in it (`IsAssumption`), at which the code would cut it.
- **DiskDrive_proofs**: `SectorsFresh`, `LineIsExact`, `ReadsAlwaysInOrder`. The
  invariant `DdGood` is a predicate of a record, so there is one lemma for each
  function of the drive; `UpdateGood` is about `dd_update_bm`, which repairs what
  the handlers leave between. `ReadsDeliver` is the safety half of `ImplementsBlocks`:
  the PI, the drive and the driver together deliver what `DiskBlocks` promises. Its
  invariant `TransferInv` reads the place of the read off what was delivered (block
  `b`, sector `r`) and says where the drive is then: one sector ahead (`AtSector`), in
  the C2 sectors (`AtC2`), or in the gap, where it has either stopped or turned to the
  other block (`AtGap`). Its hypothesis `ReadsOnly` is what the run checks, and what
  the property is about.
- **Host_proofs**, debugger: `SessionTypes` and `SessionIsSafe`, for all settings of the
  three orders. `SessionSafe` speaks of a client that waits for an answer, so the
  invariant `SessionInv` follows the request: what was sent and not handled
  (`Pending`) holds Control-Cs and stops in any number and at most one packet of
  another kind, and which kind it is, with what is on its way back, tells whether the
  CPU's thread waits (`Beliefs`: one part for each state of the client). `Threads` is
  about the two threads alone: who is on the condition variable, that the first
  breakpoint is taken out once, and that the packet being handled is the first one
  received. Lemmas about the buffers (`Dropped`, `FirstPacket`, `RestAfter`, `Taken`,
  `FirstPending`) carry it over a handler. It holds while no condition wait has
  returned by itself, as the property says: `gdb_handle_breakpoint` waits without a
  loop (`gdb.c:162`), and a CPU that is woken so runs on behind the client's back.
- **Host_proofs**, breakpoints: `EntriesReachable` (`AllReachable`) and `TableIsSet`
  (`ImplementsSet`, the refinement of `KeySet`), for any keys, multiplier and smallest
  table. `AllReachable` is not inductive: deleting from a table that is full needs to
  know more. `Good` says that no key is in two slots, that no search meets an unused slot
  before its key, and that there is a slot `z` which no search goes past: an unused one,
  or, in a full table, the one where the last key went. `RoomLeft` is the pigeonhole that a resize
  needs: while entries of the old table are left, the new one has a free slot. `FillInv`
  is the invariant of the loop that fills holes (`common/hash_table.c:141`): where the hole
  is, and that no entry the loop has passed has it in its way; the loop may begin behind
  `z` and goes once round. Both loops are folds, and their induction is by sets
  (`Induction`). A table that faults (finding 4) stops, and is still a set.
- **Console_proofs**, video and serial interface: `FramesAlwaysRight`, all of `FramesRight`. `FramesInv` says who
  holds the mutex of the frame and what it has done under it, that at most one frame is
  on its way to the screen, and that the newest one is either there or on its way
  (`Locked`, `OneFrame`, `OnItsWay`); `ClosesNext` bounds what a request to close can
  still see. `RtcAlwaysExact` is `RtcExact`: `RtcInv` says that the kept offset is the
  difference between the time the clock was set to and the host's time then, and that a
  stopped clock keeps the stamp it was read at; lemmas take the two-digit bytes and the
  stamps there and back. Its hypothesis `RtcInRange`: no clock reaches the year 11900,
  whose century has no two digits.

  `CartsAlwaysRight` is `CartsRight`, and `BanksAlwaysRight` its part about the bank
  controllers for writes to all of their registers. `GbInvOf` relates the code's
  registers to the documented ones, controller by controller: an MBC1 with more than 31
  banks keeps the upper register reduced by its banks and 0 for a lower register that
  was not yet written, a smaller one only the result; an MBC5 starts with a bank that
  its registers do not say. The hypotheses are `CartsInBits`, that an MBC1 has a power
  of two of banks, and that `GbAnyMode` is FALSE: under TRUE TLC refutes
  `CartsRight` by the modes of MBC1 that section 5 lists. For the checksum, a byte is a polynomial (`Bits`): a round of the
  loop is a multiplication by x and the next bit (`RoundShifts`), multiplication takes
  sums to sums (`ShiftOfDifference`) and `Power(n)` to `Power(n + 1)`, so that after k
  bits the loop has the sum of `Power(k - j)` over the bits j that are set (`CrcSums`).
  The recursive functions of the definitions exist by `IterationExists`, and the
  induction over the length of the block is by sets.
- **VrMemory_proofs**: `CachesAlwaysRight`, all of `CachesRight`. `CachesInv` is stronger
  in two places: a valid line is of an address that belongs where it is, and *every*
  line of memory, cached or not, is seen as it was last written (`Coherent`). The data
  cache is taken as a value, so that each CACHE operation is one of five changes of it
  (`Evict`, `PutLine`, `Hit`, `Flush`, `Dropped`), each with its lemma; the tag
  arithmetic (`TagLo`, the index and the page of an address) is in lemmas of its own.

  `AddressesAlwaysRight`, all of `AddressesRight`, for a guest of which `TlbGuest` says:
  its addresses are mapped in some mode, a setting of STATUS with 64-bit addresses has
  them in the modes below too, and its handlers set the mask of PageMask before they
  probe, or there are no large pages. The runs of section 5 show that the last two are
  needed (`FaultsEnd`): with a mixed STATUS the code keeps the segment of the other
  mode, and without the mask the probe uses the mask of another page. `TlbInv` says that
  the kept segment is the first one or that of a mapped address in the present mode
  (`SegmentKept`), that every entry of the TLB
  is of the page tables of some mapped address and no two are for one page (`TlbRight`),
  and what a fault leaves to its handler and the handler to the access that is tried
  again (`FaultState`), which bounds the faults of one access. Lemmas compare
  `get_segment` with the manual's map, an interval at a time, and the fields of an entry
  with the page number of an address.
- **VrPipeline_proofs**: `VrAlwaysRunsRight`, all of `VrRunsRight`, for any program,
  modulus and sequence of cache misses and interrupts. `VrPipeInv` compares the latches
  with `vrisa`, the program run one instruction at a time. Unlike the RSP's, a cycle of
  this pipeline can end at every stage, and the next one then goes on from there: so the
  invariant is said at a stage (`AtWb`, `AtDc`, `AtEx`, `AtRf`, `AtIc`, and `AtWait` for
  the busy wait), each stage has a lemma that takes it from its place to the next one or
  to the end of the cycle, and `vr4300_cycle` chains them, with every interlock and every
  exception as an exit. What it says there: EX/DC holds the one instruction that has been
  executed and not accepted (`Ahead`), and DC accepting it is the step of `vrisa`; the
  registers with DC/WB on top are those of the program (`Written`, `Held`); the two
  younger latches hold what follows, or are empty, and the fetch is then at the right
  place (`Follows`: `Decoded`, `Fetched`, `Empty`); EPC and the branch delay bit name the
  instruction to take up again, in a delay slot its branch (`Sound`, `Agree`). A
  multiplication changes LO in EX, before it is accepted, and stalls (`dmult`) or does
  not (`mult`): one that an interrupt takes
  back is done again, with the same result (`Redoes`). `Young` bounds `history`, the
  cycles since the last fault, by the place of a marked latch, so that none is left by
  the time `history` lets the fast mode begin. For the bound on interrupts, `Rank` orders the
  states a pending interrupt can find, and each cycle that does not stall comes
  nearer (`Prompt`). The hypotheses, no faults of
  fetches and none of `lwa`, `trap` and `bad`, are necessary: section 5.

Not proved, and why:

- Everything about liveness and fairness (`DeviceLive`, `SessionLive`, `BusyEnds`,
  `TransferEnds`, the liveness of `ImplementsFifo` and `ImplementsBlocks`): the
  prover does not reason about ENABLED.
- `MapRight`, `CommandsRight`, `RspComputesRight`, `VectorRight` and `VrComputesRight`:
  their modules have recursive or bitwise operators, which the prover does not take.
- `PacketsRight`: a walk over the bytes of a block against a list of the places where
  packets begin, a recursion over data of any length.
- `TexelsRight`, `SpansRight`: results of functions, with no state between but a mode;
  TLC enumerates their inputs, and a proof would be arithmetic of fixed widths.

## 7. What is not modelled

- Of the modelled components, what their notes in `PROJECT.json` list. In short:
  decoding of instruction words and the lengths of stalls; BADVADDR, CONTEXT and
  XCONTEXT; conversions of numbers out of range; the square root's half of the
  divider's table; the pixel after its texel (combiner, blender, depth, dither, frame
  buffer), spans in copy mode with a slope of 0, and the VI's filters, which nobody
  calls; the CIC's seed; EUC conversion and assertions of the IS-Viewer; formatting
  of paks and loading of cartridges; the file behind the drive's sectors; creation
  and destruction of everything, and `gdb_init` that fails.
- Start-up, the command line, the ROM database, SHA-1 and the network client:
  code that runs once, and pure functions.
- Windows, files and sockets of the hosts, front ends other than X11, and the Qt
  debugger, a program of its own.
- Everywhere: memory allocation that fails. Weak memory: accesses to shared words
  are interleaved one at a time, which is what the atomic instructions and the x86
  host of the code give.

## 8. Running

    tlc -workers 2 -config MCHost.cfg MCHost.tla
    tlc -workers 2 -config DiskTransfer_read.cfg DiskTransfer.tla
    tlapm Host_proofs.tla

`PROJECT.json` lists the module and the configuration of every run. The longest
run (`vr`) takes about three minutes.
