# A TLA+ model of pupsnes

pupsnes is a SNES emulator in C++. Its core is a single-threaded discrete-event
machine: one processor loop (65C816) is run up to the time of the next scheduled
event, the other devices catch up lazily to where the processor got, and only then
are the due events fired. Around that core there is one piece of real concurrency, the
ring of audio samples between the emulator thread and the host's audio callback, and
one piece of persistence, the battery save of a cartridge.

The project models the clockwork and the ring, the processor's instructions cycle by
cycle, the lazy devices beside devices that never are late, DMA and HDMA, the address
space under cartridges that come and go, and the saves under faults and crashes. The SPC700's
instructions, the synthesis of sound and the user interface are left out.

Contents: [components](#components), [modules](#modules-and-the-code),
[runs](#runs), [proofs](#proofs), [disagreements](#disagreements-between-text-and-code),
[what is left out](#what-is-not-modelled), [plan](#plan).

## Components

Paths are relative to `src/`; headers live under `includes/pupsnes/`, the rest under
`src/`.

| Component | State it keeps | Operations | Hard part | Modules |
| --- | --- | --- | --- | --- |
| Scheduler, `src/pupsnes/core/scheduler.cpp` | priority queue of signals, next sequence number, token table | Reset, ScheduleSignal, NextEventMasterTime, FireEventsThrough | handlers schedule while the drain runs; no cancel; ties | `SignalQueue`, `Scheduler` |
| Run loop, `src/debugger/run_control.cpp` | run state, pause reason, detached recorder | TickFrame, Pause, step and run requests | budget against event against deadline; faults; suppression of a breakpoint | `Machine`, `RunControl` |
| SNES, `src/pupsnes/core/snes.cpp` | master time, devices | MachineSync, Reset, LoadRom | order of reset; replacing the cartridge; a fault half-way | `Machine`, `Devices`, `CartridgeSlot` |
| CPU loop, `src/pupsnes/hw/5a22/cpu.cpp` | local time, refresh cursor, banked cycles, halt and wake | TickToTarget | a slice ends anywhere: in an operation, a refresh, a wake | `CpuClock`, `Machine` |
| CPU interrupts, same file | NMI edge detector, pending flag, IRQ level, P.I | SampleInterrupts, WaiShouldWake, OnNmiTimenChanged | the line is a level that is only looked at sometimes | `Machine`, `Cpu65816` |
| CPU instructions, `cpu_op*.cpp`, `cpu_opcode_defs_internal.h`, `addressing_fragments.h`, `cpu_bcd_internal.h` | registers, latches, micro-operation index | 256 opcodes and two interrupt entries | skip rules, wraps and widths that all instructions share | `MicroOps`, `Opcodes`, `Cpu65816`, `InstructionSet` |
| CpuMmio, `cpu_mmio.cpp` | NMITIMEN, HTIME, VTIME, TIMEUP, scheduled match, multiplier | register reads and writes, HandleIrqMatch | stale events; lazy PPU; drains that run late; triggers during an operation | `HvTimer`, `Machine`, `MathUnit`, `Devices` |
| DmaController, `dma_controller.cpp` | channels, HDMA phase, line, base, field, ring of triggers | Trigger, OnHdmaSignal | moves master time inside a bus write and inside a drain; tables walked over many lines | `DmaController`, `Machine` |
| PPU, `src/pupsnes/hw/sppu/ppu.cpp` | raster position, field, registers, VRAM, OAM, CGRAM, log of deferred writes, object pipeline, row caches | CatchUpTo, reads and writes, two fences | everything is late on purpose; short line in every second field | `PpuTimeline`, `PpuPorts`, `PpuPixel`, `Ppu` |
| Joypad, `src/pupsnes/hw/input/joypad.cpp` | shift registers, automatic read | OnVblankStart, StartAutoRead, CatchUpTo | free-running phase; enable bit changes between edges | `Joypad`, `Machine` |
| APU, `src/pupsnes/hw/apu/` | SPC700, timers, ports, DSP, clock phase | CatchUpTo, port reads and writes, LoadSpc | fractional clock; faults in a catch-up | `Apu` |
| SystemBus, WRAM, `src/pupsnes/memory` | page table, WRAM and its port | Plan, Follow, map, unmap | who owns a page, at which speed | `SystemBus`, `Mappers` |
| Cartridge, mappers, profiles, registry, `hw/rom` | ROM, SRAM, dirty flag | detection, Build, MapInitial, OnMemSelChanged | replacing a cartridge under a mapped bus; untrusted headers | `CartProfile`, `Mappers`, `CartridgeSlot` |
| AudioBuffer, `src/frontend/audio_buffer.cpp` | ring, indices, flush cutoff and generation, resampler | Configure, SetActive, Flush, PushSample, Render | two threads without locks | `SampleFifo`, `AudioBuffer` |
| Saves, `src/debugger/sram_persistence.cpp`, both `app.cpp` | .srm and temporary files, dirty flag | load, flush, swap, exit | failure or death between any two file operations | `SaveFiles` |
| AudioOutput, audio panel, `src/frontend/` | host device | open, restart, close | callbacks and notifications of a dying device | |
| Debugger core, `src/debugger/` | breakpoints, logs, traces | see files | ring logs, the recorder | `RunControl` in part |
| Panels, applications, tools | user interface | | pure I/O | |

How they interact. `RunControl::TickFrame` asks the scheduler for the next event time,
clamps it to the caller's cycle budget and calls `CPU::TickToTarget`. The processor
advances `SNES::time_now_` directly; its bus accesses reach the devices, which may first
catch the PPU up (`SampleNmiLine`, a register read), append to the PPU's log, schedule signals (a timer write) or
advance master time themselves (a write of MDMAEN runs the whole DMA burst).
`MachineSync(now)` then catches the passive devices up, and `FireEventsThrough(now)` runs the handlers:
frame-end fence, VBlank fence (which also starts the joypad's automatic read), H/V
timer match, automatic read, HDMA. HDMA raises master time again, inside the drain. No
event can be cancelled.

What makes each part correct:

* Scheduler: the documented total order, every event once, the drain ends.
* Run loop and CPU clock: no slice passes an event; banked cycles are neither lost nor
  spent twice.
* Interrupts: an NMI that becomes due can still be seen when the processor next looks,
  is taken once, and only then.
* Instructions: the published cycles, addresses, results, and nothing else changed, whatever the widths,
  pages and interrupts.
* H/V timer: it never goes dead, every programmed dot raises TIMEUP, if late, and a
  superseded programming raises none.
* Fences, HDMA: they stay aligned with the beam although the frame length alternates.
* DMA: the bytes of the pattern, the lines of the table, the one chip that cannot serve two buses.
* Lazy devices: nobody can tell that they are late.
* Bus and cartridge: every address leads where the map says, to the cartridge that is in.
* Saves: never half a save, never a save thrown away as written, never a good save overwritten because
  it could not be read.
* Audio ring: a bounded queue, in order, nothing overwritten, a flush complete and
  of the past only, playback always able to resume.

## Modules and the code

```
SignalQueue --+-- Scheduler ---- SchedulerProofs          SampleFifo
              |        |                                       |
PpuTimeline --+-- HvTimer --+--- CpuMmioProofs ..+       AudioBuffer ---- AudioBufferProofs
     |        |             |                    :
     |  CpuClock -----------+-- Machine --- MachineProofs RunControl ----- RunControlProofs
     |
PpuPorts -- PpuPixel -- Ppu -- PpuReference --+          MicroOps -- Opcodes -- Cpu65816 -- InstructionSet
                             Joypad, MathUnit +-- Devices
                                    Apu ......+          DmaController -- DmaProofs
SystemBus -- Mappers --+-- CartridgeSlot -- SaveFiles ---- SaveFilesProofs
           CartProfile-+
```

`SignalQueue` is the priority queue of `core/signal_event.h` and `core/scheduler.cpp` as a
set of records `[time, kind, seq]`: `Before` is the comparator, `IsTop` the top of the
heap, `Scheduled` a sequence of ScheduleSignal calls. Kinds keep their numeric values because
the comparator uses them. `Forever` stands for the largest `TimeMasterT`.

`Scheduler` is the contract the devices and the run loop have with the scheduler:
`Reset`, `ScheduleSignal`, and FireEventsThrough as `BeginFire`, one `FireTop` for each iteration
of its loop, and `EndFire`. Handlers are arbitrary, except that they schedule strictly
later than the event they handle. `Machine` shows that the real ones do.

`PpuTimeline` holds the raster: dot, line and frame costs, the short line,
`MasterCycleAt`, and `BeamAt(t)`, the cursor as a function of the PPU's local time. The code
steps the cursor dot by dot; since it starts at (0, 0) at time 0 and toggles its field at each
wrap, position, field and partial dot are determined by the local time.

`HvTimer` is CpuMmio's timer. `ComputeNextMatch` is the walk over the candidate lines of
this and following frames from the cursor; `WriteNmiTimen`, `WriteTime`, `ReadTimeUp`,
`OnIrqMatch` are the handlers, with the stale events left in the queue. When they run, and from which
lazy cursor, is for the run loop to decide, so the module has no behaviour of its own: `Machine` takes its operators.

`CpuClock` is the way `CPU::TickToTarget` spends time: halts, the wake of WAI, refresh, banking,
retiring. It has no Next; `Machine` puts its actions together.

`Machine` composes all of them: one action for each exit or iteration of
TickToTarget, for each kind of instruction that touches modelled state and for each event handler. `at`
says where the run loop is: `host`, `head` of the loop in TickFrame, `enter` of
TickToTarget, its `loop`, `step` (interrupts sampled, operation not yet done), and
`drain`. An instruction is a fetch and one more micro-operation, at whose end it acts.
That is enough for a slice to end before, inside, and after it, for an interrupt to replace the fetch,
and for a write to fall on any cycle. The target of a slice is read once, in `ChooseTarget`: a match that a
write schedules in mid-slice is passed and drained late, as in the code. Two variables are history. `due`: VBlank began with
NMI enabled and the processor has not sampled since. `since`: when the timer was last written or, without a write, when the last drain
ended, the moment from which programmed dots are owed an interrupt.

`RunControl` is the debugger's side of the same loop, with the times left out: the requests of the user between two calls
of TickFrame, the contract (`stepTarget`, `suppressed`, `granularity`) as `CPU::TickToTarget` and `FetchOpcode` honour it,
the fault and error paths, and the micro-operation recorder, detached for a free run. A slice may end before any
operation. An instruction is one byte and has up to `MaxOps` operations; an interrupt takes the place of a fetch;
any instruction may jump when it ends. `wanted`, `done`, `request`, `stoppedAt`, `moved` and `skipped` are history variables: what the
last request was and what has happened since. RequestStepOne is RequestStepN with one step; the trace sink and the
error log are left out, they change nothing the loop reads.

`AudioBuffer` is the ring at the granularity of its atomic accesses: each action
reads or writes at most one variable the other thread writes. `ppc` and `cpc` are the
positions of the producer and of the callback. A sample is its own number in the stream, so order, loss
and repetition are visible. `SampleFifo` is what the ring promises, a bounded queue whose
writer may flush and whose reader may then discard what was written before; `AudioBuffer` implements it with the slots between the indices as the
queue, those below the cutoff being stale. Interleaving is sequentially consistent. The code publishes each index with release and
reads it with acquire, and a stale value of the other side's index only makes a thread see the ring
fuller (producer) or emptier (consumer) than it is, which an earlier interleaving of the same loads also
gives.

The instructions. `MicroOps` is the language of the opcode table: a cycle is a slot with one bus action,
one internal operation, a rule under which it happens, and one byte of parameters that both decode on their own; the addressing
fragments are operators that return slots. A rule, in the code a truth table of 32 bits, is the set of the condition sets it accepts.
`Opcodes` holds the 256 specifications and the two interrupt entries, `Cpu65816` runs them: `FetchOpcode`, `RunMicroOp` with the
bus and internal operations, `FinishInstruction`. Memory is flat there and every slot one cycle; `CpuClock` and `SystemBus` have
the times and what lies behind the bus. `InstructionSet` says what the instructions should do without looking at their micro-programs:
cycles by mode and width, addresses by mode, results by definition (decimal arithmetic by decimal digits, not by the adjustments of
`cpu_bcd_internal.h`). The model was also run against the compiled C++ on 17,472 single-instruction scenarios with random
registers and memory, registers, cycles and bus accesses compared: there was no difference.

The lazy devices. `PpuPorts` has the registers and memories of the PPU, what the replay of one logged write does (`Decode`),
and what the read ports answer; `PpuPixel` the colour of a dot, with the cached tile rows and the compiled order of layers; `Ppu` the device: log, dots, the object
pipeline, fences. `PpuReference` is a PPU without log, caches, compiled tables and lazy pipeline, which sees a write as soon as it is
made and looks for the pixel in front by going down the priority ladder. `Joypad`, `Apu` and `MathUnit` are devices of their
own, operators on a state record or, for the arithmetic unit, actions on its registers. `Devices` runs two machines, `code` and `due`, on the same accesses: the first catches up where
the source does (a read, some writes, `MachineSync` at a fence), the second at every cycle. A session names the registers set up at
time 0, the accesses that may follow and their distances; TLC takes every order and every distance. The APU's core is a script of
bus accesses, as the SPC700's instructions are outside of this model.

`DmaController` moves one byte a step, inside a burst or the service of a line, with nothing else enabled meanwhile. A byte has
eight values, a bank 64 bytes and WRAM 128, so that every counter and address wraps within a run. The bus is ROM, WRAM with its
mirror and its port, open bus and one kind of device. History: `work.log`, the transfers of the call in progress, `frame`, the
registers HDMA started a frame from, and `triggers`, all bursts since the reset.

The address space. `SystemBus` is the page table and the three ways through it (`Plan` with `FollowRead`, the inline shortcut, the debugger's reads); `Mappers` the pages each
cartridge kind and each device claims; `CartProfile` the detection from three possible headers; `CartridgeSlot` puts them under
`LoadRom`, MEMSEL and reset. 46 pages stand for the 65536. `SaveFiles` adds the two applications and the disk: a flush is a
sequence of file operations each of which may fail, the process may die between any two, and what buffers
had passed on by then is one of `kCuts`. Fields `lost` and `unread` of `app` are history: the emulator's close failed
unseen, and the present cartridge was loaded beside a save that could not be read.

## Runs

| Run | Configuration | Shows | Distinct states |
| --- | --- | --- | --- |
| `scheduler` | two kinds, times 0 and 1, two events from outside, eight numbers | order, drains end | 1,433 |
| `machine` | 4 lines x 3 dots, 60 cycles, budgets, one reset | NMI, halts, DMA, HDMA, fences | 185,053 |
| `machine_timer` | 3 lines x 3 dots, 36 cycles, 2 timer writes | the timer inside the machine, late drains, WAI | 433,518 |
| `audio_buffer` | 6 slots, 8 samples, 3 flushes | the ring, every interleaving | 950,424 |
| `run_control` | 3 addresses, 3 operations, up to 2 steps | every order of requests, breakpoints, interrupts, faults, errors | 130,180 |
| `instruction_set` | 256 opcodes, 5 widths, 3 register files, 2 backgrounds; samples; 7 programs | cycles, addresses, results, block moves and the stack under interrupts | 109,451 |
| `dma` | 2 channels, bytes of 8 values, 9 set-ups, 6 lines | bursts, HDMA tables, the WRAM port, the ring of triggers | 667,823 |
| `cartridge` | 46 pages, 7 images and every header, two applications | the address space, detection, saves with faults and crashes | 109,940 |
| `devices` | 15 sessions, 5 lines x 24 dots, 4 objects | lazy devices beside eager ones, in these sessions | 27,023 |
| `machine_edge`, `machine_late`, `save_retry` | as `machine`, `machine_timer` and `cartridge` | a counterexample each, see below | |

The bounds and why they suffice.

* The raster. What matters in the code's 340 dots by 262 lines is that dots have two costs, that one line
  in every second frame is shorter, and that VBlank, its line and the end of the frame are
  different lines. Three dots of 2, 3, 2 cycles, and three or four lines of which one is
  the short one, keep all of that: a line is 7 cycles (6 when short), a frame of four lines 28 or 27. Two frames are
  a full period of the field, so the horizon of `machine`, a little beyond two frames, visits every phase of the beam
  and one more wrap. The timer's horizon of 36 cycles ends in the second of its frames of 20 and 21, behind the short line and the
  wrap of both fields' first lines; HTIME 3 lies outside the raster, which ReachableMatch must reject.
* The scheduler. Two events from outside may be handled by two new ones each, at either of two times, so events tie and are pushed in the middle
  of a drain. `MaxSeq` bounds the numbers handed out, and lies above what drains of strictly later handlers can use: without the guard "strictly
  later" a handler could go on at its own time, and `DrainEnds` fails (its mutant).
* The processor in the machine. Operations cost 1 or 2 cycles, so that one cycle can be banked; refresh stalls one cycle a line; a wake takes two internal
  cycles. A line costs at least three instructions, so the program can write, halt and be interrupted on the
  same line.
* Three physical assumptions of the machine runs. DMA bursts are shorter than a line (a burst of 3 cycles), an HDMA stall does not reach the next
  event, and overscan is off. The code enforces none; a burst longer than the VBlank line hides the whole /NMI assertion from the
  edge detector, and see the remarks below on the other two.
* Instructions. The three register files sit on the edges of the direct page, the stack page, a bank and the index range, in emulation
  mode and the four native widths; each opcode runs with two backgrounds of memory and flags. An addressing rule depends on
  nothing else. Arithmetic is sampled on the bytes and words at which a nibble, a byte, a sign or a decimal digit turns over. The
  programs nest calls of both kinds, pushes, changes of width, BRK and a block move, with an NMI and an IRQ at any instruction boundary.
* DMA. Two channels are enough for the order and the interference of channels; the set-ups cover the eight patterns' lengths, the three
  steps, both directions, direct and indirect tables, DAS = 0, the wrap of a bank, of BBAD and of a table, WRAM at both banks and its mirror. Six
  lines are more than the longest entry of a table. A ring of two records goes round with three bursts.
* Devices. Everything the PPU does depends on dots, tiles of eight dots, lines, VBlank and frames: 24 dots of which 16 are on the screen are two tiles, five lines of
  which two are visible give a line with and a line after another, and four objects with at most two on a line and three tiles overflow both limits. The log
  of four writes overflows (`Burst`). The sessions are: pictures in modes 0 to 4 and 7 with windows, colour arithmetic, offsets per tile, mosaic, rotation and extended background
  (`Plain`, `Windows`, `Offsets`, `Mosaics`, `Rotated`), overscan (`Overscanned`), ports and counters (`Burst`, `MemoryPorts`,
  `Counters`), the joypads with two buttons and an automatic read of five edges (`PadsUnderRead`), four audio programs on a clock of 2 in 7
  (`Answering`, `Counting`, `Failing`, `Played`), and arithmetic with bytes of three bits (`Sums`). A session changes things two to five times,
  at distances inside a dot, a tile, a line and across lines.
* Cartridges and saves. Pages are taken at both ends of every region of the map and on both sides of every border, offsets at both ends of
  a page. Every combination of header signals is tried at every image size at which another byte comes into reach. Two images share a save name with
  different SRAM sizes. Two faults, one crash and three loads are enough for a fault after a fault and a load after each.
* The ring. Six slots and up to eight samples wrap the ring; the capacity is 5 or 6
  of the 6 slots, and three flushes let a flush arrive before, during and after the
  application of the previous one. Rates 1 and 3 against 2 make the resampler consume several samples a frame, or repeat one.
* The debugger. Three addresses in a circle hold a breakpoint at PC, one at the next address and one at the interrupt vector, in every
  combination; three operations leave room for a stop after the fetch and inside the instruction; two steps tell the last
  from the others. Nothing is bounded but the data: requests, slices and errors may go on for ever.

Deadlock is checked where the system never stops: the scheduler, the machine, the ring and the debugger. `End` in `Machine` marks the time bound; nothing else
stutters, so a state in which the machine cannot go on is reported. The other four runs end when their
programs, set-ups and sessions are used up.

### Properties

`Scheduler`: `DispatchOrder` on the history `fired` of a drain, which also excludes that an event runs twice; `DrainEnds`. `EachEventOnce`, which
adds the pending events, is proved and not run. The order
is restated as a lexicographic comparison, so that it is not the comparator checked against itself.

`Machine`: `NmiStillVisible`, `NmiOnlyWhenDue`, `FencesAligned`, `NoOvershoot`, and `ImplementsScheduler`: every step of
the machine is a step of `Scheduler` on its variables or leaves them alone. Of the timer: `TimerStaysArmed` (a reachable programming has a match and
an event for it), `MatchIsNext` (outside a drain the match stands for a programmed dot, and none that is owed an interrupt lies before
it; the reference is the beam itself, not the walk), `LatchOnlyAtMatch` (TIMEUP is set only by the present match, not before its dot), `EveryDotLatches`
(a drain ends with TIMEUP set if a programmed dot has passed since the last drain or write). They say nothing of *when* within the slice TIMEUP
is set: it is late by up to the slice, see `machine_late`. A dot that passes between a late match's own dot and the drain that handles
it shares the interrupt of that drain.

`RunControl`: `StepsAsRequested` (a step request stops after exactly its count), `ResumeMakesProgress` and `OneSkipPerRequest` (a
suppressed breakpoint lets the machine leave it, and only it, once), `RecordsAreWhole` (a record cut by a free run is not continued).

`AudioBuffer`: `NeverOverwritesUnread`, `NothingFromBeforeFlush`, `RefillReachable`, `ImplementsFifo`.

`InstructionSet`: `CyclesAsPublished`, `OperandAddresses`, `ContinuesAt`, `ComputesItsMeaning`, `ChangesOnlyItsOwn`, over what the recorder saw of an
instruction; `BlockMoveProgress` (wherever it is interrupted, a block move has moved exactly the bytes its registers say) and
`StackMirrors` (a return, a pull or the end of a handler finds what the matching opening left).

`DmaController`: `BurstCopies`, `WramThroughPort`, `HdmaFollowsTable` (the k-th line of a frame moves what the table says for line k, by a
reading of the table that keeps no cursor), `RingShowsHistory`.

`SaveFiles`: `BusShowsMap` (each address, by all three ways through the bus, against the memory map written by address), `DetectionLoads`,
`CleanIsSaved`, `SaveReplacedWhole`, `SwapKeepsSave`, `UnreadSaveKept` (as long as the debugger keeps a cartridge whose save it could not read, no
save changes).

`Devices`: `AnswersAsDue` (every read gives what the eager machine gives), `PictureAsDue`, `ApuNeverDrifts` (the closed form of the clock and of the timers),
`MathResults`. `flushed` excuses the dots of a full log, which `ppu.cpp` replays early on purpose; no write may be lost all the same.

Each property has a mutant, an operator in the same module that changes one mapped
definition the way a plausible mistake would: a comparator without the kind, a
timer write that does not re-arm, a fence that is not rescheduled, a frame period without the short line, an
NMI by level, a pointer that wraps in its bank, a status pushed first, an HDMA channel served after its end, a flag cleared before the rename, a
query that does not catch up. The names end in what
was changed (`BeforeBySeq`, `WriteTimeNoRearm`, `FireVblankNoFence`, ...); no specification uses them.

### Fairness

Only `Scheduler!FairSpec` assumes any: weak fairness of the iterations and of the exit of the `while` loop
in FireEventsThrough. It is a loop of one thread that blocks on nothing. Nothing is assumed of the host
(when it calls TickFrame), of the program, of the audio callback, which may stop for
ever, or of the user; no liveness is claimed of them. `RefillReachable` is the safety part of
"playback resumes". What would be worth wishing, that a save reaches the disk in the end, the code does not
promise: see `save_retry`.

## Proofs

Seven modules prove things about one component each; `NaturalFacts` has the lemmas about natural numbers that several of them need.

| Theorem | States |
| --- | --- |
| `SchedulerProofs!DrainDispatchesInOrder` | `Spec => []DispatchOrder` |
| `SchedulerProofs!EventsDispatchedOnce` | `Spec => []EachEventOnce` |
| `AudioBufferProofs!NoOverwrite` | `Spec => []NeverOverwritesUnread` |
| `AudioBufferProofs!RefillAlwaysReachable` | `Spec => []RefillReachable` |
| `AudioBufferProofs!FlushSilencesPast` | `Spec => []NothingFromBeforeFlush` |
| `AudioBufferProofs!RingIsFifo` | `Spec => ImplementsFifo` |
| `RunControlProofs!StepsExact` | `Spec => StepsAsRequested` |
| `RunControlProofs!ResumeProgresses` | `Spec => ResumeMakesProgress` |
| `RunControlProofs!SkipsOnce` | `Spec => OneSkipPerRequest` |
| `RunControlProofs!RecorderKept` | `Spec => [](RecorderWhenStepping /\ RecordsAreWhole)` |
| `DmaProofs!RingDeliversHistory` | `Spec => []RingShowsHistory` |
| `DmaProofs!BurstCopiesAll` | `Spec => []BurstCopies` |
| `DmaProofs!WramOnlyThroughPort` | `Spec => []WramThroughPort` |
| `DmaProofs!HdmaTableFollowed` | `Spec => []HdmaFollowsTable` |
| `SaveFilesProofs!CleanCartridgeSaved` | `Spec => []CleanIsSaved` |
| `SaveFilesProofs!SaveNeverTorn` | `Spec => SaveReplacedWhole` |
| `SaveFilesProofs!SwapOnlySaved` | `Spec => SwapKeepsSave` |
| `SaveFilesProofs!UnreadSaveStays` | `Spec => UnreadSaveKept` |
| `SaveFilesProofs!DetectedLoads` | `Spec => []DetectionLoads` |
| `SaveFilesProofs!AddressSpaceIsMap` | `Spec => []BusShowsMap` if `WholeMirror` |
| `CpuMmioProofs!BeamAtTime`, `BeamAtDot` | the cursor and `MasterCycleAt` invert each other, on every raster |
| `CpuMmioProofs!NextMatchIsFirst` | what the walk of ComputeNextMatch returns, on every raster |
| `CpuMmioProofs!LineEntered`, `LineComesAgain` | the beam enters a line through its first dot, and again one frame period later |
| `CpuMmioProofs!ArithmeticCorrect` | `MathSpec => []MathResults`: the multiplier and the divider under any program |
| `MachineProofs!SchedulerImplemented` | `Spec => ImplementsScheduler` |
| `MachineProofs!NeverOvershoots` | `Spec => NoOvershoot` |
| `MachineProofs!NmiIsDue` | `Spec => NmiOnlyWhenDue` |
| `MachineProofs!TimerNeverDead` | `Spec /\ [](now <= bound) => []TimerStaysArmed` if `2 * (bound + TwoFrames) < Forever` |
| `MachineProofs!MatchStaysNext` | `Spec /\ [](now <= bound) => []MatchIsNext`, under the same condition |
| `MachineProofs!LatchIsProgrammed` | `Spec /\ [](now <= bound) => LatchOnlyAtMatch`, under the same condition |
| `MachineProofs!DotsLatch` | `Spec /\ [](now <= bound) => EveryDotLatches`, under the same condition |
| `MachineProofs!FencesStayAligned` | `Spec /\ []InTime => []FencesAligned` |
| `MachineProofs!HdmaKeepsItsFrame` | `Spec => []HdmaAligned` |

Each of the seven but `SaveFilesProofs` and `CpuMmioProofs` also has `TypeCorrect`, `Spec => []TypeOK`; the `TypeOK` of a component with proofs is a theorem and not among the properties of
its run. The invariant of `SaveFilesProofs` contains the types it needs; the operators `CpuMmioProofs` speaks of keep no state but the arithmetic unit's, which its invariant covers.

The theorems hold for every value of the constants that the named assumptions allow. Most only say of what kind a constant is:
`ForeverAssumption`, `KindsAssumption`, `BoundsAssumption`, `RunControlAssumption`, `ProgramAssumption`, `RingAssumption`,
`ImageAssumption`, `SessionAssumption`, `PagesAssumption`. The others have content:

* `AudioBufferAssumption`: its last conjunct is the static_assert of `audio_buffer.h`.
* `ByteAssumption`: a byte has at least eight values, a multiple of eight, so that the eight patterns and BBAD fit.
* `RasterAssumption`: a frame has a line and a dot, dots cost something, long dots are not shorter. How many, which and how long is free.
* `MachineAssumption`: no operation is free; the two moments of HDMA are in order and within a line.
* `FenceAssumption`: VBlank does not begin after the line that is short in every second field (225 and 240 in the code). Otherwise the
  distance of two VBlanks would not be the length of the frame that the first of them lies in, which is what the fence adds.
* `ForeverIsFar`: no match comes near the largest 64-bit number, which stands for "no match".
* `CellsAssumption`: the cells of SRAM that the model keeps include those that the chosen pages show.

`WholeMirror` is the one hypothesis on the images: one that is long enough to have an ExHiROM header is a whole number of 256-byte pages. The
code does not look, and without it `BusShowsMap` fails: TLC finds it violated by an image of 4,259,798 bytes (see the remarks on cartridges below). The images of `cartridge` satisfy it, as dumps of real cartridges do.

The argument of each.

*Scheduler.* The order is not inductive by itself: that the event dispatched next follows those already dispatched
depends on what is still pending. The invariant adds `PendingAfterFired` (every pending event follows
every dispatched one), which a handler's new event keeps because it is strictly later than the event being handled,
which in turn was the top of the queue. `NumbersBelow` and `NumbersDistinct` (numbers handed out are below the counter and
pairwise different) make equal-time order total. The lemmas `BeforeTransitive`,
`BeforeIsDispatchOrder` and `ScheduledIsFresh` are the facts about the queue that it rests on.

*Audio ring.* `NeverOverwritesUnread` speaks of a producer that decided on a read index which the
consumer has since moved. The invariant has `Counters` (the variables are numbers of the right ranges),
`Indices` (the read index never passes the write index, cutoffs loaded by the consumer are never ahead of it, and what
either side found free or filled is still so until it acts) and `Thresholds` (the recovery threshold fits the
capacity, or belongs to a configuration whose flush is still unseen, in which case it is replaced before it is used). For the flush
`Contents` says which sample each slot between the indices holds, and `Flushes` what a consumer that has loaded the generation, the
cutoff, or neither can still have in its hands. With both, the refinement of `SampleFifo` is a step-by-step
argument: the queue `Held` is the ring read from the read index on, a push appends, a pop removes the head. Storing a cutoff makes stale what is held at
that moment, and applying a flush drops a prefix of the stale samples, because a cutoff the callback has loaded is never above the present one, whichever flush it believes it applies.

*Run control.* The action properties follow from an invariant that says what each request has left behind. `StepsCounted`:
while a step request runs, steps done plus steps left are the steps wanted, something is left unless
the slice has just ended for it, and nothing is left when paused or running free. `SuppressionKept`: a suppression is the address of the last
request, is there until that breakpoint has been passed, and nothing has been skipped before. `RecordDropped`: no record is in the making
in a free run, without which `RecordsAreWhole` is not inductive.

*DMA.* `Ring`: the slot of each of the last `RingCapacity` bursts is the remainder of its number since the reset. `BurstSoFar`: in the middle of
a burst, the log is the transfers of the finished channels followed by the first i of the present one, its registers
are those of the record moved on by i steps, and the other channels have theirs. Address, count and pattern all wrap,
so the lemmas are about remainders (`NaturalFacts`). `PortSoFar`: the port has moved on by the transfers of the log that reached it.

*HDMA.* `HdmaFollowsTable` reads the table afresh for line k; the code keeps a cursor, a counter and a flag. `TablesTracked` says what the
three are for every k and at every byte of a line. Between two lines (`Between`) a channel has finished, or its counter has run out and the cursor is
at the entry the table gives for line k (`AtEntry`), or it is some lines into that entry: the counter has the lines left, the cursor is behind the units
moved so far, the flag is set if this line moves one (`InEntry`). In a line, the channels that have had their turn are one line on and have moved what the table says,
the one whose turn it is has moved the first i bytes of it, the others nothing. A full count is stored as zero and the repeat bit lies above
it, so the step of the counter (`CountedBetween`) is again an argument about remainders. `EntryOf` is recursive: `EntryFollows`
derives from `Recursion` that the entry of a line follows from that of the line before. Every other step leaves the cursor alone, or it takes the
channel out of the account, as a write to a register that HDMA works on does (`OutsideLine`).

*Saves.* `Account` says what is known of the dirty flag at each stage of a flush, which differs between the applications: the emulator clears it
before it closes the file, the debugger when the save is in place, and after a save it could not read no flush leaves the ground. `Files`: the temporary file about to be renamed is complete, and the save of
a cartridge that was written and is clean is in place. `DetectedLoads` is a case analysis of the detector and the loaders over every header and every size.

*Address space.* `SlotInv` says that the whole page table is `TableOf` the present cartridge (`Placed`), that the cartridge's device is alive and numbered below
`nextId`, and that what RAM and the save files hold are bytes (`Contents`, `StoredFiles`). `TableOf` is a closed form, page by page, of what the attach of the console's
devices and the loops of the mappers leave, in which later claims overwrite earlier ones. A load maps the new cartridge first and then sweeps the old one's identifier out:
`InstalledTable` shows that this leaves the new table and nothing of the old, because the sweep hits exactly the pages the new cartridge has not claimed, as identifiers are never used again. `RetimedTable` is the same for
MEMSEL, `EmptySlotTable` for power-on and reset. `SlotShown` then goes from the table to addresses: `ConsoleShown`, `RomShown`, `SramShown` and `NothingShown`, for each of the three ways through the bus. The
table keeps one base for a page, the map gives an offset for each address: `PageWraps` shows that a page wrapped round a store of whole pages stays in one piece, which is where
`WholeMirror` comes in, and `RamUnfolds` that the sizes of SRAM are whole pages.

*Raster.* The frames alternate, so a pair of them is the period: a time is a number of pairs, a field, and a rest that is in exactly one dot. The sums of dots and lines (`SumBelow`) are
recursive functions; `NaturalFacts` has the induction for them. The
library states induction for a predicate, which no installed prover can instantiate; here it is stated for a set of numbers, and
`Recursion`, that such a function exists and obeys its equation, is derived from it.

*H/V timer.* `NextMatchIsFirst` is about the walk alone: it meets every line of this frame and the next two, a programming
the beam can reach has a dot in one of them, and the candidates it leaves out lie before the time or before the cursor. What the timer then does is proved in the
machine, with the drains as late as they come: see `MatchComing` below.

*Multiplier and divider.* `MathSpec` lets the program write operands and triggers between any two steps; `Devices` takes the same actions, at the times of
its accesses. `MathProgress` is what a result alone does not say: the steps done and the steps to come make the width of the operand, and the shift register holds the
divisor times the power of two of the steps to come. A division step is then `NextBit`: whether the halved divisor still fits is the next binary digit of
the quotient. A multiplication step is `BitOfNumber` with `BitBelow`: the lowest bit of what is left of the quotient register is still one of the multiplicand, although the other operand lies above it.

*Machine.* The invariant `QueueInv` has the types, `Numbered`, `OneTransfer` (at most one HDMA event is pending, at the time the
controller's phase and line give) and `Steady` (where the run loop is, against the drain and the target). It gives the
refinement of `Scheduler`; each handler schedules later than its event because a period, a line and a time to a match are positive. The other theorems each add a part:

* `Aim`: while the processor runs, no event but a timer match is before the target. A timer match may be: the program can schedule it in mid-slice.
* `NmiKnown` and `NmiRequested`: with the gate open and no VBlank known to the edge detector or waiting, the PPU has not been on the NMI's line between
  where it was caught up to and now; a latched request is a due one. A catch-up that finds the line asserted must have entered it (`LineEntered`), and a VBlank fence does so for the history.
* `TimerRests` or `TimerRearms`, for every step: the timer is left alone with its event, or set again from a PPU that is not ahead of it, or off.
  Time is bounded because only then is a match different from "no match".
* `MatchStands` and `MatchComing`, for the three theorems about the match. A match stands for a programmed dot. The dots it may not miss are, outside a
  drain, those after `since`; in a drain, those the PPU has not reached yet, and those after `since` unless TIMEUP is set already. A handler that runs late reschedules from its
  own, old, time with the PPU at the end of the drain, so the walk starts at the PPU and what it finds is the first dot after it (`RearmingStands`); the dots in between are covered by the TIMEUP just set.
  A new match may even lie before the end of the drain: then the same drain fires it, as it ends only when no due event is left (`DrainEndsOnly`). `Owed` bounds `since` by the present.
* `FencesHold` and `HdmaAligned`: the events and the controller's frame base are on the beam, kept by `LineComesAgain`. The fence takes the present field for that of
  the frame it belongs to. That is what `InTime` says. HDMA counts fields on its own and needs no such hypothesis.

`InTime` holds in the runs of `Machine`, and TLC shows that it is needed: with a burst longer than a frame (31 cycles in a frame of 28), the drain after it finds
the PPU one frame on, the period is that of the other field, and the fence is off by the four cycles of a short line from then on. The code allows such
bursts; eight channels of 64 KiB take nearly twelve frames.

Only model-checked:

* `DrainEnds`: liveness.
* `NmiStillVisible`: not an invariant without a bound on what an instruction costs, since a burst longer than the VBlank line breaks it.
* The instructions and the devices. `Cpu65816` uses `Bitwise`; `Ppu`, `Joypad`, `Apu` and `Devices` recursive operators. The prover takes neither.

Master time is not monotonic (see below), in the machine as in the code: STP and WAI assign the slice's target, which an HDMA stall in the drain before may have passed. The
proofs of `MachineProofs` do not assume that it is, `NmiKnown` for one speaks of the later of the processor's and the PPU's time.

## Disagreements between text and code

Three runs expect a violation; each is a sentence of the repository that the code does not keep.

* `machine_edge`: the NMI edge detector is not refreshed while the processor sleeps. A WAI from one VBlank to the next loses the second NMI when
  the processor fell asleep on the VBlank line (`ppu.cpp:349-351` takes the opposite for granted).
* `machine_late`: "signals fire at the exact `master_time` they were scheduled for" (`docs/scheduler.md:166-167`). The loop reads the next event's time before the slice
  (`run_control.cpp:158`); a write of NMITIMEN, HTIME or VTIME within the slice schedules a match that may lie before it. The run shows a program that arms the timer and sleeps: WAI
  idles past the match to the old target, and only then is TIMEUP set and the processor woken.
* `save_retry`: "The dirty flag stays set so the next attempt retries" (`src/emulator/app.cpp:237-238`), but loading another image, and leaving the program, drop the
  cartridge, the memory and the flag without asking whether the flush before it succeeded (`:166`, `:147`). The debugger does ask.

Other differences met while modelling. No run is kept for them.

Clockwork:
* The frame origin of a timer match (`cpu_mmio.cpp:406-420`) is not the cycle at which the frame began when the PPU was caught up to the middle of a
  dot; a match is then up to five cycles late. `MatchIsNext` shows that the match is never worse.
* After a late drain the timer's new match may lie before the present and is fired by the same drain, or stand for the same dot a few cycles on; what it finds is always the
  first programmed dot the PPU has not passed.
* Master time is not monotonic, as `docs/systembus.md:77` and `docs/architecture.md:40` have it: STP assigns the slice's target (`cpu.cpp:1313`) even when an HDMA stall has passed it.
* With overscan on, the VBlank fence stays on line 225 and VBlank starts on line 240; the fence reschedules itself by a frame and never realigns, against `ppu.cpp:355-361`. WAI can sleep over the whole
  NMI line.
* The suppression meant for the breakpoint that stopped the machine (`debugger_contract.h:42-44`) is given to any breakpoint at PC (`run_control.cpp:65-73`). In the middle of an
  instruction PC is already the next address, and a breakpoint there is run over by the next request.
* A stop at a breakpoint has already charged the cycles of the fetch, which the resumed fetch charges again (`cpu.cpp:1446`).

Instructions:
* A hardware interrupt's entry takes 7 cycles in native mode and 6 in emulation mode; the comment of the table
  (`cpu_opcodes.cpp:1485-1486`) says 8 and 7. The first of them replaces the fetch (`cpu.cpp:1375`).
* The comment on `MakeAluAbsYSpecs` (`cpu_opcodes.cpp:1369-1373`) says that the index is always paid for; the fragment it uses pays only
  for a wide index or a crossed page, as published. The comment on PEI's tail counts three cycles where there are two.
* Reads through `(dp),Y` take a cycle more than published when no page is crossed, as their comment admits; `InstructionSet`
  states what the code does there.
* 16-bit direct-page data that begins at $00FFFF goes on in bank 1.
* An interrupt in emulation mode does not save PBR, so its handler returns into bank 0; and JSL and RTL do not mirror when the stack crosses
  the edge of its page in emulation mode. The programs of `instruction_set` avoid both.

Devices:
* A read of a port of page $21 in the middle of a dot replays the log up to the time of the read, so the dot in progress sees writes made after it began
  (against the comment at `ppu.cpp:244-245` and `docs/obj-pipeline.md`). The sessions read where this does not show.
* `QueryHvbStatus` and the read of RDNMI catch the PPU up without replaying what is left in the log.
* OAM's address is reloaded at the start of VBlank before the writes of the last dot are replayed.
* `SNES::LoadSpc` sets master time to 0 without resetting the scheduler.
* After a fault of the APU `MachineSync` leaves the joypad and the PPU behind, and the next request comes back to the same fence; `Devices` has this.

Cartridges and saves:
* The lower banks of an ExHiROM are said to mirror within what the image has above 4 MiB (`mapper.cpp:74-77`). Only the start of a page is wrapped so (`:93`). If that part is no multiple of
  256 bytes, the page in which it ends has no shortcut, and the slow path wraps by the size of the whole image (`cartridge.cpp:294`): it goes on at the start of the upper half.
* LoROM SRAM above 32 KiB shows only its first 32 KiB in each bank.
* With saving switched off the debugger loads a cartridge without looking at its save (`sram_persistence.cpp:17`); switched on afterwards, the first flush replaces that save by what
  the game made of an empty SRAM. `UnreadSaveKept` is about reads that failed, not about reads that were not made.
* A temporary file left behind by a crash blocks every later flush of the debugger (it is opened exclusively, `sram_persistence.cpp:49`), until somebody removes it.
* The emulator does not remember that a save could not be read and later overwrites it; it does not notice that closing the file failed
  (`lost` excuses `CleanIsSaved` there); and it does not flush while it is paused.

## What is not modelled

* The SPC700's instructions and the DSP: the APU's core is a script that reads and writes the S-SMP's registers, the DSP a register file that yields
  samples. The contents of audio RAM, with the echo area that LoadSpc clears, are left out.
* Open bus: the last value on the data bus, and the registers of which only some bits are driven.
* The debugger's reads and writes of registers, the copies kept for it, events, logs, traces, diffs, disassembly, and `force_overscan_draw_`, `drawn_mask_`.
* DMA from the B bus into the DMA registers themselves; a test of the APU's TEST register with the direct page moved (the fault of a write assumes P is clear);
  more than five layer bits of TM and TS; an HDMA write that meets an exactly full log after a burst.
* The cartridge's title, region, battery and clock fields, which nothing else reads.
* ABORT, a placeholder in the code.
* The composition of everything. `Machine` has the times of DMA and an abstract program, `Devices` accesses without a processor, `Cpu65816`
  memory without time, `RunControl` stops without times. Each pair would multiply spaces that are already at what a search can take.
* AudioOutput, the panels, the tools and the vendored DSP; tokens, which nothing creates (no device is mapped as cross-clock).

## Plan

1. Done: the clockwork, the ring, the debugger's run control and their proofs.
2. Done: instructions, DMA and HDMA, the lazy devices, the address space, the saves.
3. Done: the theorems above.
4. Next: `NmiStillVisible` as a theorem, for bursts and instructions shorter than a line.
