------------------------------ MODULE Machine ------------------------------
(***************************************************************************)
(* The whole console as one clockwork: the run loop (RunControl::TickFrame *)
(* in debugger/run_control.cpp), the processor loop (CPU::TickToTarget),   *)
(* the scheduler, and the devices that schedule signals: the PPU's frame   *)
(* and VBlank fences, the joypad auto-read, the H/V timer, and HDMA.       *)
(*                                                                         *)
(* The machine is single-threaded; its interleaving is in time.  The loop  *)
(* computes a target, the processor runs towards it, the passive devices   *)
(* catch up to where the processor got, and only then are the events fired *)
(* that are due.  Events scheduled while the processor runs, DMA stalls    *)
(* and HDMA stalls all land between those steps.                           *)
(*                                                                         *)
(* An instruction is an opcode fetch and one more micro-operation, at      *)
(* whose end its effect happens.  The program is any sequence of the       *)
(* instructions in Program.                                                *)
(***************************************************************************)
EXTENDS SignalQueue, PpuTimeline

CONSTANTS
  Program,        \* the instructions the program is made of
  Cost,           \* master cycles of each kind of micro-operation
  HTimes, VTimes, \* values the program stores in HTIME and VTIME
  DmaLengths,     \* lengths of general-purpose DMA bursts, in master cycles
  Overscan,       \* the value the program stores in SETINI bit 2 at the start
  VblankLine,     \* kVisibleVEnd224, 225
  OverscanLine,   \* kVisibleVEnd239, 240
  RefreshStart, RefreshPeriod, RefreshCycles, InternalCycles, WakeCycles,
  HdmaInitAt,     \* kHdmaInitMasterCycles, 24
  HdmaLineAt,     \* kHdmaPerLineMasterCycles, 1104
  HdmaInitCost,   \* stall of the frame initialisation without a channel, 18
  HdmaChannelInitCost, \* and for each channel, 8
  HdmaSetup,      \* stall before the first channel of a line, 8
  HdmaLineCosts,  \* stalls of the channels of one line
  JoyFirst,       \* 298: first auto-read start after the VBlank boundary
  JoyEarliest,    \* 130
  JoyClock,       \* 256
  Budgets,        \* master_cycles_budget of TickFrame, Forever for none
  Horizon,        \* bound: no TickFrame is called from this time on
  MaxWrites,      \* bound: writes to the registers of the timer
  MaxResets       \* bound: SNES::Reset calls

ASSUME MachineAssumption ==
  /\ RefreshStart \in Nat /\ RefreshPeriod \in Nat \ {0} /\ RefreshCycles \in Nat
  /\ InternalCycles \in Nat \ {0} /\ WakeCycles \in Nat \ {0}
  /\ {VblankLine, OverscanLine} \subseteq 1..(LinesPerFrame - 1) /\ Overscan \in BOOLEAN
  /\ HTimes \cup VTimes \cup DmaLengths \cup HdmaLineCosts \cup Budgets \subseteq Nat
  /\ {HdmaInitAt, HdmaLineAt, HdmaInitCost, HdmaChannelInitCost, HdmaSetup} \subseteq Nat
  /\ HdmaInitAt < HdmaLineAt /\ HdmaLineAt <= NormalLineCycles
  /\ {"fetch", "nmi", "irq"} \cup Program \subseteq DOMAIN Cost
  /\ Program \cap {"fetch", "nmi", "irq"} = {}
  /\ \A i \in DOMAIN Cost : Cost[i] \in Nat \ {0}
  /\ JoyFirst \in Nat \ {0} /\ JoyEarliest \in Nat \ {0} /\ JoyClock \in Nat \ {0}
  /\ Horizon \in Nat /\ MaxWrites \in Nat /\ MaxResets \in Nat

(***************************************************************************)
(* The VBlank fence is set for line 225 whatever SETINI says, and the      *)
(* short line is 240: up to the fence all lines are of one length.         *)
(***************************************************************************)
ASSUME FenceAssumption == VblankLine <= ShortLine

(***************************************************************************)
(* A run ends long before the largest 64-bit time.                         *)
(***************************************************************************)
ASSUME ForeverIsFar == 2 * (Horizon + TwoFrames) < Forever

VARIABLES
  now,         \* SNES::time_now_ and the processor's local_time_
  queue, nextSeq,                                    \* Scheduler
  ppu,                                               \* Ppu::local_time_
  mode, htime, vtime, timeup, match,                 \* CpuMmio, H/V timer
  nmiEnable, hdmaen,                                 \* CpuMmio
  refreshAt, refreshLeft, banked, halt, wakeLeft, wakePart, \* CPU, clocks
  instr,       \* the instruction in progress, "fetch" between two
  iflag,       \* P.I
  nmiPrev, nmiPending, irqLine,                      \* CPU, interrupts
  hdma,        \* DmaController, HDMA part
  joyStart,    \* Joypad::last_auto_start_, NoStart before the first
  at,          \* where the run loop is
  cap,         \* start_master_time + budget of the TickFrame call
  target,      \* target_master_time of the TickToTarget call
  through,     \* through_time of the drain
  fired,       \* history: the events dispatched in this drain
  since,       \* history: from when on the programmed dots are owed a match
  due,         \* history: an NMI was asserted and has not been sampled
  writes, resets                                     \* bounds

programming == <<mode, htime, vtime, timeup, match>>
timer == <<programming, since>>
clock == <<refreshAt, refreshLeft, banked, halt, wakeLeft, wakePart>>
irqs == <<nmiPrev, nmiPending, irqLine>>
events == <<queue, nextSeq>>
loop == <<at, cap, target>>
drain == <<through, fired>>
device == <<nmiEnable, hdmaen, hdma, joyStart>>
bounds == <<writes, resets>>
cpu == <<instr, iflag>>

vars == <<now, ppu, timer, clock, irqs, events, loop, drain, device, bounds, cpu, due>>

Timer == INSTANCE HvTimer
Clock == INSTANCE CpuClock
Sched == INSTANCE Scheduler WITH Kinds <- SignalKind, MaxTime <- Forever,
                                 MaxEvents <- Forever, MaxSeq <- Forever, MaxPush <- 2

NoStart == -1
Larger(a, b) == IF a > b THEN a ELSE b

-----------------------------------------------------------------------------
(***************************************************************************)
(* The PPU as the other devices see it.                                    *)
(***************************************************************************)
VblankStartLine == IF Overscan THEN OverscanLine ELSE VblankLine

(***************************************************************************)
(* SampleNmiLine at time t: the PPU catches up, and /NMI is asserted for   *)
(* the whole line on which VBlank starts.                                  *)
(***************************************************************************)
NmiLine(t) == BeamAt(Larger(ppu, t)).v = VblankStartLine

VblankStarts(a, b) == \E t \in (a + 1)..b : DotBegins(0, VblankStartLine, t)

DueAfter(t) == due \/ (nmiEnable /\ VblankStarts(now, t))

(***************************************************************************)
(* NextFramePeriod, with the PPU at p.                                     *)
(***************************************************************************)
NextFramePeriodNoShort(p) == LinesPerFrame * NormalLineCycles

NextFramePeriod(p) ==
  LinesPerFrame * NormalLineCycles
    - (IF BeamAt(p).field THEN LineCycles(ShortLine, FALSE) - LineCycles(ShortLine, TRUE)
       ELSE 0)

-----------------------------------------------------------------------------
(***************************************************************************)
(* SNES::Reset.  The devices schedule their first signals in this order:   *)
(* DmaController, then Ppu.  CpuMmio::Reset does not touch HDMAEN.         *)
(***************************************************************************)
FirstSignals ==
  << [time |-> HdmaInitAt, kind |-> HdmaFire],
     [time |-> NextFramePeriod(0), kind |-> FrameEnd],
     [time |-> VblankLine * NormalLineCycles, kind |-> VblankNmiBoundary] >>

HdmaReset ==
  [phase |-> "init", v |-> 0, base |-> 0, field |-> FALSE, active |-> FALSE]

Init ==
  /\ Clock!ClockInit
  /\ queue = Scheduled(FirstSignals, 0) /\ nextSeq = Len(FirstSignals)
  /\ ppu = 0
  /\ mode = "off" /\ htime = 0 /\ vtime = 0 /\ timeup = FALSE /\ match = Forever
  /\ since = 0
  /\ nmiEnable = FALSE /\ hdmaen = FALSE
  /\ instr = "fetch" /\ iflag = TRUE
  /\ nmiPrev = FALSE /\ nmiPending = FALSE /\ irqLine = FALSE
  /\ hdma = HdmaReset /\ joyStart = NoStart
  /\ at = "host" /\ cap = 0 /\ target = 0
  /\ through = Sched!NoDrain /\ fired = <<>>
  /\ due = FALSE /\ writes = 0 /\ resets = 0

Reset ==
  /\ at = "host" /\ resets < MaxResets
  /\ resets' = resets + 1
  /\ Clock!ClockReset
  /\ queue' = Scheduled(FirstSignals, 0) /\ nextSeq' = Len(FirstSignals)
  /\ ppu' = 0
  /\ mode' = "off" /\ htime' = 0 /\ vtime' = 0 /\ timeup' = FALSE /\ match' = Forever
  /\ since' = 0
  /\ nmiEnable' = FALSE
  /\ instr' = "fetch" /\ iflag' = TRUE
  /\ nmiPrev' = FALSE /\ nmiPending' = FALSE /\ irqLine' = FALSE
  /\ hdma' = HdmaReset /\ joyStart' = NoStart
  /\ due' = FALSE
  /\ UNCHANGED <<hdmaen, loop, drain, writes>>

-----------------------------------------------------------------------------
(***************************************************************************)
(* TickFrame.  The host gives a budget of master cycles or none.  At the   *)
(* head of the loop the wall-clock deadline may have passed.               *)
(***************************************************************************)
TickFrame(budget) ==
  /\ at = "host" /\ now < Horizon
  /\ at' = "head"
  /\ cap' = IF budget = Forever THEN Forever ELSE now + budget
  /\ UNCHANGED <<now, ppu, timer, clock, irqs, events, target, drain, device, bounds,
                 cpu, due>>

LeaveTickFrame ==
  /\ at = "head"
  /\ at' = "host" /\ cap' = 0
  /\ UNCHANGED <<now, ppu, timer, clock, irqs, events, target, drain, device, bounds,
                 cpu, due>>

ChooseTargetByBudget ==
  /\ at = "head" /\ now < cap /\ now < Horizon
  /\ at' = "enter"
  /\ target' = IF cap < Forever THEN cap ELSE NextEventTime(queue)
  /\ UNCHANGED <<now, ppu, timer, clock, irqs, events, cap, drain, device, bounds,
                 cpu, due>>

ChooseTarget ==
  /\ at = "head" /\ now < cap /\ now < Horizon
  /\ at' = "enter"
  /\ target' = LET next == NextEventTime(queue) IN IF cap < next THEN cap ELSE next
  /\ UNCHANGED <<now, ppu, timer, clock, irqs, events, cap, drain, device, bounds,
                 cpu, due>>

(***************************************************************************)
(* TickToTarget returns at time t, having sampled the PPU last at p;       *)
(* MachineSync(t) catches the passive devices up, and FireEventsThrough(t) *)
(* begins.                                                                 *)
(***************************************************************************)
ReturnAt(t, p) ==
  /\ at' = "drain"
  /\ target' = 0
  /\ through' = t
  /\ ppu' = Larger(Larger(ppu, p), t)
  /\ UNCHANGED <<cap, fired>>

-----------------------------------------------------------------------------
(***************************************************************************)
(* The entry of TickToTarget.                                              *)
(***************************************************************************)
EnterRunning ==
  /\ at = "enter" /\ halt = "none"
  /\ at' = "loop"
  /\ UNCHANGED <<now, ppu, timer, clock, irqs, events, cap, target, drain, device,
                 bounds, cpu, due>>

EnterStp ==
  /\ at = "enter" /\ halt = "stp"
  /\ Clock!Idle(target)
  /\ due' = DueAfter(target)
  /\ ReturnAt(target, 0)
  /\ UNCHANGED <<timer, irqs, events, device, bounds, cpu>>

(***************************************************************************)
(* WaiShouldWake looks at the raw /NMI pin, whatever the enable bit says,  *)
(* and at the latched requests, whatever P.I says.                         *)
(***************************************************************************)
WaiShouldWake == nmiPending \/ NmiLine(now) \/ irqLine \/ timeup

EnterWaiIdle ==
  /\ at = "enter" /\ halt = "wai" /\ wakeLeft = 0
  /\ ~WaiShouldWake
  /\ Clock!Idle(target)
  /\ due' = DueAfter(target)
  /\ ReturnAt(target, now)
  /\ UNCHANGED <<timer, irqs, events, device, bounds, cpu>>

EnterWaiWake ==
  /\ at = "enter" /\ halt = "wai"
  /\ wakeLeft > 0 \/ WaiShouldWake
  /\ Clock!Wake(IF wakeLeft > 0 THEN wakeLeft ELSE WakeCycles, target)
  /\ due' = DueAfter(now')
  /\ IF wakeLeft' = 0
     THEN /\ at' = "loop" /\ ppu' = Larger(ppu, now)
          /\ UNCHANGED <<cap, target, drain>>
     ELSE ReturnAt(now', now)
  /\ UNCHANGED <<timer, irqs, events, device, bounds, cpu>>

-----------------------------------------------------------------------------
(***************************************************************************)
(* The main loop of TickToTarget.                                          *)
(***************************************************************************)
LoopEnds ==
  /\ at = "loop" /\ now >= target
  /\ ReturnAt(now, 0)
  /\ UNCHANGED <<now, timer, clock, irqs, events, device, bounds, cpu, due>>

LoopHalted ==
  /\ at = "loop" /\ now < target /\ instr = "fetch"
  /\ Clock!Idle(target)
  /\ due' = DueAfter(target)
  /\ ReturnAt(target, 0)
  /\ UNCHANGED <<timer, irqs, events, device, bounds, cpu>>

(***************************************************************************)
(* SampleInterrupts and SelectPendingInterrupt before a fetch.  NMI is     *)
(* edge-triggered on the gated line, IRQ is a level masked by P.I.         *)
(***************************************************************************)
SampleInterruptsByLevel ==
  /\ at = "loop" /\ now < target /\ instr = "fetch" /\ halt = "none"
  /\ ppu' = Larger(ppu, now)
  /\ LET gated == NmiLine(now) /\ nmiEnable
         request == nmiPending \/ gated
     IN  /\ nmiPrev' = gated
         /\ nmiPending' = FALSE
         /\ instr' = IF request THEN "nmi"
                     ELSE IF timeup /\ ~iflag THEN "irq" ELSE "fetch"
         /\ due' = (due /\ ~gated /\ ~request)
  /\ irqLine' = timeup
  /\ at' = "step"
  /\ UNCHANGED <<now, timer, clock, events, cap, target, drain, device, bounds, iflag>>

SampleInterrupts ==
  /\ at = "loop" /\ now < target /\ instr = "fetch" /\ halt = "none"
  /\ ppu' = Larger(ppu, now)
  /\ LET gated == NmiLine(now) /\ nmiEnable
         request == nmiPending \/ (gated /\ ~nmiPrev)
     IN  /\ nmiPrev' = gated
         /\ nmiPending' = FALSE
         /\ instr' = IF request THEN "nmi"
                     ELSE IF timeup /\ ~iflag THEN "irq" ELSE "fetch"
         /\ due' = (due /\ ~gated /\ ~request)
  /\ irqLine' = timeup
  /\ at' = "step"
  /\ UNCHANGED <<now, timer, clock, events, cap, target, drain, device, bounds, iflag>>

Stepping == at = "step" \/ (at = "loop" /\ now < target /\ instr # "fetch")

StepCost == Cost[instr]

LoopRefresh ==
  /\ Stepping
  /\ Clock!RefreshStall(target) \/ Clock!RefreshBegin
  /\ due' = DueAfter(now')
  /\ at' = "loop"
  /\ UNCHANGED <<ppu, timer, irqs, events, cap, target, drain, device, bounds, cpu>>

LoopBank ==
  /\ Stepping
  /\ Clock!Bank(StepCost, target)
  /\ due' = DueAfter(target)
  /\ ReturnAt(target, 0)
  /\ UNCHANGED <<timer, irqs, events, device, bounds, cpu>>

(***************************************************************************)
(* The opcode fetch: the program's next instruction is any of Program.     *)
(***************************************************************************)
FetchOpcode ==
  /\ Stepping /\ instr = "fetch"
  /\ Clock!Retire(StepCost, 0, target)
  /\ due' = DueAfter(now')
  /\ \E i \in Program : (i = "timer" => writes < MaxWrites) /\ instr' = i
  /\ at' = "loop"
  /\ UNCHANGED <<ppu, timer, irqs, events, cap, target, drain, device, bounds, iflag,
                 halt, wakeLeft, wakePart>>

(***************************************************************************)
(* The end of the second micro-operation, common to all instructions.      *)
(***************************************************************************)
Finish(stall) ==
  /\ Stepping
  /\ Clock!Retire(StepCost, stall, target)
  /\ at' = "loop" /\ instr' = "fetch"
  /\ UNCHANGED <<cap, target, drain, resets, joyStart, hdma, irqLine>>

NoHalt == UNCHANGED <<halt, wakeLeft, wakePart>>
NoBus == UNCHANGED <<ppu, timer, events, nmiEnable, hdmaen, writes>>
NoNmi == UNCHANGED <<nmiPrev, nmiPending>> /\ due' = DueAfter(now')

(***************************************************************************)
(* An instruction that touches none of the modelled state, and SEI, CLI.   *)
(***************************************************************************)
ExecutePlain ==
  /\ instr \in {"op", "sei", "cli"}
  /\ Finish(0)
  /\ iflag' = (IF instr = "op" THEN iflag ELSE instr = "sei")
  /\ NoHalt /\ NoBus /\ NoNmi

(***************************************************************************)
(* kEnterInterruptHandler: the end of an interrupt sequence masks IRQ.     *)
(***************************************************************************)
EnterInterruptHandler ==
  /\ instr \in {"nmi", "irq"}
  /\ Finish(0)
  /\ iflag' = TRUE
  /\ NoHalt /\ NoBus /\ NoNmi

(***************************************************************************)
(* kHaltCpu.                                                               *)
(***************************************************************************)
HaltCpu ==
  /\ instr \in {"wai", "stp"}
  /\ Finish(0)
  /\ halt' = instr /\ wakeLeft' = 0 /\ wakePart' = 0
  /\ UNCHANGED iflag
  /\ NoBus /\ NoNmi

(***************************************************************************)
(* A write of NMITIMEN that flips bit 7, with OnNmiTimenChanged: opening   *)
(* the gate while /NMI is asserted requests an NMI at once, closing it     *)
(* cancels the request.                                                    *)
(***************************************************************************)
WriteNmiEnable ==
  /\ instr = "nmitimen"
  /\ Finish(0)
  /\ nmiEnable' = ~nmiEnable
  /\ ppu' = Larger(ppu, now')
  /\ LET line == NmiLine(now') /\ nmiEnable'
     IN  /\ nmiPending' = (nmiEnable' /\ (nmiPending \/ line))
         /\ nmiPrev' = line
         /\ due' = line
  /\ NoHalt
  /\ UNCHANGED <<timer, events, hdmaen, iflag, writes>>

(***************************************************************************)
(* Writes of NMITIMEN bits 5:4, of HTIME and VTIME, and a read of TIMEUP.  *)
(***************************************************************************)
WriteTimer ==
  /\ instr = "timer" /\ writes < MaxWrites
  /\ writes' = writes + 1
  /\ Finish(0)
  /\ \/ \E m \in Timer!IrqModes \ {mode} : Timer!WriteNmiTimen(m, now', ppu)
     \/ \E ht \in HTimes : Timer!WriteTime(ht, vtime, now', ppu)
     \/ \E vt \in VTimes : Timer!WriteTime(htime, vt, now', ppu)
  /\ since' = Larger(now', ppu)
  /\ NoHalt /\ NoNmi
  /\ UNCHANGED <<ppu, nmiEnable, hdmaen, iflag>>

ReadTimeUp ==
  /\ instr = "timeup"
  /\ Finish(0)
  /\ Timer!ReadTimeUp
  /\ NoHalt /\ NoNmi
  /\ UNCHANGED <<since, ppu, nmiEnable, hdmaen, iflag, writes>>

(***************************************************************************)
(* A write of MDMAEN runs the whole burst inside the bus write and moves   *)
(* master time to its end (CpuMmio::WriteRegister, DmaController::Trigger).*)
(***************************************************************************)
WriteMdmaEn ==
  /\ instr = "mdmaen"
  /\ \E length \in DmaLengths : Finish(length)
  /\ NoHalt /\ NoBus /\ NoNmi
  /\ UNCHANGED iflag

WriteHdmaEn ==
  /\ instr = "hdmaen"
  /\ Finish(0)
  /\ hdmaen' = ~hdmaen
  /\ NoHalt /\ NoNmi
  /\ UNCHANGED <<ppu, timer, events, nmiEnable, iflag, writes>>

-----------------------------------------------------------------------------
(***************************************************************************)
(* FireEventsThrough: the top event is popped and its handler runs.        *)
(***************************************************************************)
Firing(e) ==
  /\ at = "drain" /\ IsTop(e, queue) /\ e.time <= through
  /\ fired' = Append(fired, e)
  /\ UNCHANGED <<clock, irqs, loop, through, nmiEnable, hdmaen, bounds, cpu>>

FireFrameEnd(e) ==
  /\ e.kind = FrameEnd
  /\ Firing(e)
  /\ Timer!Push(queue \ {e}, <<[time |-> e.time + NextFramePeriod(ppu), kind |-> FrameEnd]>>)
  /\ UNCHANGED <<now, ppu, timer, hdma, joyStart, due>>

(***************************************************************************)
(* OnVblankNmiBoundarySignal.  The joypad's next automatic read starts at  *)
(* the first edge of its free-running clock that is late enough.           *)
(***************************************************************************)
AutoReadStartRoundsDown(boundary) ==
  IF joyStart = NoStart THEN boundary + JoyFirst
  ELSE joyStart + ((boundary + JoyEarliest - joyStart) \div JoyClock) * JoyClock

AutoReadStart(boundary) ==
  IF joyStart = NoStart THEN boundary + JoyFirst
  ELSE joyStart + ((boundary + JoyEarliest - joyStart + JoyClock - 1) \div JoyClock) * JoyClock

FireVblankNoFence(e) ==
  /\ e.kind = VblankNmiBoundary
  /\ Firing(e)
  /\ joyStart' = AutoReadStart(e.time)
  /\ Timer!Push(queue \ {e}, <<[time |-> joyStart', kind |-> AutoJoypadStart]>>)
  /\ UNCHANGED <<now, ppu, timer, hdma, due>>

FireVblank(e) ==
  /\ e.kind = VblankNmiBoundary
  /\ Firing(e)
  /\ joyStart' = AutoReadStart(e.time)
  /\ Timer!Push(queue \ {e},
       << [time |-> joyStart', kind |-> AutoJoypadStart],
          [time |-> e.time + NextFramePeriod(ppu), kind |-> VblankNmiBoundary] >>)
  /\ UNCHANGED <<now, ppu, timer, hdma, due>>

FireJoypad(e) ==
  /\ e.kind = AutoJoypadStart
  /\ Firing(e)
  /\ Timer!Push(queue \ {e}, <<>>)
  /\ UNCHANGED <<now, ppu, timer, hdma, joyStart, due>>

FireIrqMatch(e) ==
  /\ e.kind = HIrqMatch
  /\ Firing(e)
  /\ Timer!OnIrqMatch(e, ppu)
  /\ UNCHANGED <<since, now, ppu, hdma, joyStart, due>>

(***************************************************************************)
(* OnHdmaSignal raises master time to the end of its stall, past the time  *)
(* the drain runs through.                                                 *)
(***************************************************************************)
StallUntil(t) ==
  /\ now' = Larger(now, t)
  /\ due' = DueAfter(now')

FireHdmaInit(e) ==
  /\ e.kind = HdmaFire /\ hdma.phase = "init"
  /\ Firing(e)
  /\ StallUntil(e.time + HdmaInitCost + (IF hdmaen THEN HdmaChannelInitCost ELSE 0))
  /\ hdma' = [hdma EXCEPT !.phase = "line", !.v = 0, !.active = hdmaen]
  /\ Timer!Push(queue \ {e}, <<[time |-> hdma.base + HdmaLineAt, kind |-> HdmaFire]>>)
  /\ UNCHANGED <<ppu, timer, joyStart>>

(***************************************************************************)
(* One visible line: the channels that are enabled now and were enabled at *)
(* the start of the frame transfer, and may reach the end of their table.  *)
(***************************************************************************)
HdmaLastVisibleV == VblankLine - 1

AfterHdmaLine(active) ==
  IF hdma.v >= HdmaLastVisibleV
  THEN [phase |-> "init", v |-> hdma.v,
        base |-> MasterCycleAt(0, LinesPerFrame, hdma.base, hdma.field),
        field |-> ~hdma.field, active |-> active]
  ELSE [hdma EXCEPT !.v = hdma.v + 1, !.active = active]

FireHdmaLine(e) ==
  /\ e.kind = HdmaFire /\ hdma.phase = "line"
  /\ Firing(e)
  /\ IF hdma.active /\ hdmaen
     THEN \E cost \in HdmaLineCosts, goesOn \in BOOLEAN :
            /\ StallUntil(e.time + HdmaSetup + cost)
            /\ hdma' = AfterHdmaLine(goesOn)
     ELSE StallUntil(e.time) /\ hdma' = AfterHdmaLine(hdma.active)
  /\ Timer!Push(queue \ {e},
       << [kind |-> HdmaFire,
           time |-> IF hdma'.phase = "init" THEN hdma'.base + HdmaInitAt
                    ELSE hdma'.base + hdma'.v * NormalLineCycles + HdmaLineAt] >>)
  /\ UNCHANGED <<ppu, timer, joyStart>>

EndDrain ==
  /\ at = "drain" /\ \A e \in queue : e.time > through
  /\ at' = "head" /\ through' = Sched!NoDrain /\ fired' = <<>>
  /\ since' = ppu
  /\ UNCHANGED <<now, ppu, programming, clock, irqs, events, cap, target, device, bounds,
                 cpu, due>>

(***************************************************************************)
(* The bound: after Horizon no TickFrame is called.                        *)
(***************************************************************************)
End == at = "host" /\ now >= Horizon /\ UNCHANGED vars

Host == Reset \/ \E budget \in Budgets : TickFrame(budget)
Loop == LeaveTickFrame \/ ChooseTarget \/ EndDrain
Enter == EnterRunning \/ EnterStp \/ EnterWaiIdle \/ EnterWaiWake
Execute ==
  \/ ExecutePlain \/ EnterInterruptHandler \/ HaltCpu
  \/ WriteNmiEnable \/ WriteTimer \/ ReadTimeUp \/ WriteMdmaEn \/ WriteHdmaEn
Tick ==
  \/ LoopEnds \/ LoopHalted \/ SampleInterrupts \/ LoopRefresh \/ LoopBank
  \/ FetchOpcode \/ Execute
Fire ==
  \E e \in queue :
    \/ FireFrameEnd(e) \/ FireVblank(e) \/ FireJoypad(e)
    \/ FireIrqMatch(e) \/ FireHdmaInit(e) \/ FireHdmaLine(e)

Next == Host \/ Loop \/ Enter \/ Tick \/ Fire \/ End

Spec == Init /\ [][Next]_vars

-----------------------------------------------------------------------------

TypeOK ==
  /\ now \in Nat /\ ppu \in Nat
  /\ queue \in SUBSET SignalEvent /\ nextSeq \in Nat
  /\ mode \in Timer!IrqModes /\ htime \in HTimes \cup {0} /\ vtime \in VTimes \cup {0}
  /\ timeup \in BOOLEAN /\ match \in Nat /\ since \in Nat
  /\ nmiEnable \in BOOLEAN /\ hdmaen \in BOOLEAN
  /\ refreshAt \in Nat /\ refreshLeft \in 0..RefreshCycles
  /\ \E i \in DOMAIN Cost : banked \in 0..(Cost[i] - 1)
  /\ halt \in {"none", "wai", "stp"}
  /\ wakeLeft \in 0..WakeCycles /\ wakePart \in 0..(InternalCycles - 1)
  /\ instr \in Program \cup {"fetch", "nmi", "irq"} /\ iflag \in BOOLEAN
  /\ <<nmiPrev, nmiPending, irqLine, due>> \in BOOLEAN \X BOOLEAN \X BOOLEAN \X BOOLEAN
  /\ hdma \in [phase : {"init", "line"}, v : 0..HdmaLastVisibleV, base : Nat,
               field : BOOLEAN, active : BOOLEAN]
  /\ joyStart \in Nat \cup {NoStart}
  /\ at \in {"host", "head", "enter", "loop", "step", "drain"}
  /\ cap \in Nat /\ target \in Nat
  /\ through \in Nat \cup {Sched!NoDrain} /\ fired \in Seq(SignalEvent)
  /\ writes \in 0..MaxWrites /\ resets \in 0..MaxResets

(***************************************************************************)
(* An NMI that became due (VBlank began with NMITIMEN.7 set) stays within  *)
(* reach until the processor samples it: it is latched, or the /NMI line   *)
(* is still asserted.  What the VBlank fence is for: no slice, WAI,        *)
(* refresh, DMA burst shorter than a line, or HDMA stall may carry the     *)
(* processor over the whole line between two samples.                      *)
(***************************************************************************)
NmiStillVisible ==
  due /\ halt # "stp" => nmiPending \/ NmiLine(now)

(***************************************************************************)
(* The processor enters the NMI handler only for an NMI that became due    *)
(* and was not sampled before: at most one handler for each VBlank,        *)
(* although the line is a level, the gate may be toggled on it, and        *)
(* samples repeat.                                                         *)
(***************************************************************************)
NmiOnlyWhenDue == [][instr' = "nmi" /\ instr # "nmi" => due]_vars

(***************************************************************************)
(* The fences stay on the beam for ever: the pending frame-end event is at *)
(* a frame's first dot, the pending VBlank event at the first dot of its   *)
(* line, and HDMA works on a frame that starts at its base and has its     *)
(* field.  Every one is rescheduled by a period computed from the present  *)
(* field, from an event that a DMA burst may have delayed.                 *)
(***************************************************************************)
FencesAligned ==
  /\ \A e \in queue :
       /\ e.kind = FrameEnd => IsFrameStart(e.time)
       /\ e.kind = VblankNmiBoundary => DotBegins(0, VblankLine, e.time)
  /\ IsFrameStart(hdma.base) /\ BeamAt(hdma.base).field = hdma.field

(***************************************************************************)
(* Strict no-overshoot: the processor never spends time past a pending     *)
(* event of the fixed kinds; only a DMA burst inside a bus write and the   *)
(* stalls of the drain do.  An IRQ match scheduled by a register write     *)
(* during the slice is not in the target and may be passed.                *)
(***************************************************************************)
NoOvershoot ==
  [][instr # "mdmaen" /\ at \in {"enter", "loop", "step"} /\ now' > now =>
       \A e \in queue : e.kind # HIrqMatch => now' <= e.time]_vars

(***************************************************************************)
(* The timer cannot go dead: while a reachable match is programmed, a      *)
(* match is scheduled and an event for it is queued, whatever writes,      *)
(* resets, drains that run late and stale events came between.             *)
(***************************************************************************)
TimerStaysArmed == Timer!ArmedIsQueued

(***************************************************************************)
(* The dots the H/V timer is programmed for, as the beam passes them from  *)
(* time a (not included) to time b.  A match stands for such a dot when it *)
(* lies less than one dot after its beginning: the walk of                 *)
(* ComputeNextMatch keeps the cycles the cursor has spent in its dot.      *)
(***************************************************************************)
ProgrammedDots(a, b) == {d \in (a + 1)..b : d >= 0 /\ Timer!MatchesDot(d)}

StandsFor(d, t) == d <= t /\ t < d + LongDotCycles

(***************************************************************************)
(* The match is a programmed dot's, and it is the first one since the      *)
(* programming was written or, after a match, since the beam was last      *)
(* looked at: the short line, the field's toggle, the wrap of line and     *)
(* frame, a cursor that lags behind the write and a handler that           *)
(* reschedules from a match long past are where the walk could lose its    *)
(* place.  During a drain the match may lie in the past, and then its      *)
(* event is fired by the same drain.                                       *)
(***************************************************************************)
MatchIsNext ==
  at # "drain" /\ match # Forever =>
    /\ \E d \in ProgrammedDots(match - LongDotCycles, match) : StandsFor(d, match)
    /\ \A d \in ProgrammedDots(since, match) : StandsFor(d, match)

(***************************************************************************)
(* An interrupt is raised only for a dot of the present programming that   *)
(* the beam has reached: never by an event that a later write superseded,  *)
(* never with the timer off, and never ahead of the dot.  It may be raised *)
(* long after it: a match that was written during the slice is only seen   *)
(* when the slice ends.                                                    *)
(***************************************************************************)
LatchOnlyAtMatch ==
  [][timeup' /\ ~timeup =>
       /\ mode # "off" /\ match <= through
       /\ \E d \in ProgrammedDots(match - LongDotCycles, match) :
            StandsFor(d, match)]_vars

(***************************************************************************)
(* No programmed dot goes without its interrupt, however late the drain: a *)
(* dot that began after the programming was written or the last drain      *)
(* ended, and one dot's length ago, has raised TIMEUP when this drain      *)
(* ends, even if the program acknowledged an earlier match in between.     *)
(***************************************************************************)
EveryDotLatches ==
  [][at = "drain" /\ at' # "drain" =>
       \/ timeup \/ mode = "off"
       \/ ProgrammedDots(since, through - LongDotCycles + 1) = {}]_vars

(***************************************************************************)
(* The devices use the scheduler as its specification assumes: each step   *)
(* of the machine is a step of module Scheduler or leaves it alone.  In    *)
(* particular every handler schedules strictly after the event it handles, *)
(* so a drain ends.                                                        *)
(***************************************************************************)
NewRequests ==
  [i \in 1..(nextSeq' - nextSeq) |->
     LET new == CHOOSE e \in queue' : e.seq = nextSeq + i - 1
     IN  [time |-> new.time, kind |-> new.kind]]

SchedulerStep ==
  \/ Sched!Reset(FirstSignals)
  \/ Sched!ScheduleSignal(NewRequests)
  \/ Sched!BeginFire(through')
  \/ \E e \in queue : Sched!FireTop(e, NewRequests)
  \/ Sched!EndFire

ImplementsScheduler == [][SchedulerStep]_<<queue, nextSeq, through, fired>>

-----------------------------------------------------------------------------
(***************************************************************************)
(* What the comments of ppu.cpp take for granted, and the code breaks: the *)
(* edge detector remembers the falling edge, so an NMI that is due is      *)
(* taken when the processor samples it.                                    *)
(***************************************************************************)
NmiTakenWhenSampled ==
  [][at = "loop" /\ at' = "step" /\ due /\ ~due' => instr' = "nmi"]_vars

(***************************************************************************)
(* What docs/scheduler.md promises, and the run loop does not keep:        *)
(* signals fire at the exact master time they were scheduled for.  The     *)
(* target is read once, before the slice; a match that a register write    *)
(* schedules during the slice is passed and fires when the slice ends.     *)
(***************************************************************************)
SignalsFireOnTime ==
  [][Len(fired') > Len(fired) => fired'[Len(fired')].time = through]_vars
=============================================================================
