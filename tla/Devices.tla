------------------------------ MODULE Devices ------------------------------
(***************************************************************************)
(* The devices the CPU's bus accesses reach besides the DMA controller and *)
(* the cartridge: the PPU, the joypads, the audio unit, and the arithmetic *)
(* unit, with the glue that CpuMmio and SystemBus are between them.  All   *)
(* are lazy: they are brought up to a time by a read, by some writes, and  *)
(* by SNES::MachineSync at a fence.                                        *)
(*                                                                         *)
(* `code' is what the source does.  `due' is the same machine with devices *)
(* that work at every master cycle; it gets the same accesses.  A session  *)
(* is a set-up of the registers at time 0 and the accesses that may        *)
(* follow, at which distances in time and how many.                        *)
(***************************************************************************)
EXTENDS PpuReference, Joypad, MathUnit

CONSTANTS
  ClockNumerator, ClockDenominator, TimerPeriods, CounterRange, OutputRange, DspCycles,
  Sessions

A == INSTANCE Apu

ASSUME DevicesAssumption == A!ApuAssumption

LOCAL INSTANCE SequencesExt
LOCAL INSTANCE FiniteSetsExt

VARIABLES
  session,  \* the session this behaviour belongs to
  now,      \* master time
  code,     \* the machine of the source
  due,      \* the machine whose devices work at every cycle
  answers,  \* what the two answered last
  flushed,  \* writes were replayed before their time, the log being full
  fences,   \* what the scheduler holds: the next VBlank and automatic read
  left      \* accesses still to come

vars == <<session, now, code, due, answers, flushed, fences, left, math, sum>>

Never == -1

-----------------------------------------------------------------------------
(***************************************************************************)
(* The bus accesses (SystemBus::FollowInline, Ppu::ReadRegister and        *)
(* WriteRegister, CpuMmio::ReadRegister and WriteRegister).  A write of    *)
(* a PPU register is only logged; a read of any port of page $21, those of *)
(* the audio unit included, brings the PPU up to date.                     *)
(***************************************************************************)
Result(w, value) == [machine |-> w, value |-> value]
Silent(w) == Result(w, 0)

OfPpu(w, answer) == Result([w EXCEPT !.ppu = answer.ppu], answer.value)

PadsAt(w, t) == [w EXCEPT !.joy = CatchUpJoypad(@, t, w.auto_enabled)]

HvbJoy(w, status) ==
  Result(w, 2 * status + (IF AutoReadBusy(w.joy, w.auto_enabled) THEN 1 ELSE 0))

ReadHvbJoy(w, t) ==
  LET answer(hv) == HvbJoy(PadsAt([w EXCEPT !.ppu = hv.ppu], t), hv.value)
  IN  answer(QueryHvbStatus(w.ppu, t))

SerialPort(w, port) == Result([w EXCEPT !.joy = AfterSerial(@, port)], SerialValue(w.joy, port))

ReadSerialPort(w, port, t) == SerialPort(PadsAt(w, t), port)

ReadAutoResult(w, port, t) == LET q == PadsAt(w, t) IN Result(q, q.joy.results[port])

WriteNmitimen(w, enabled, t) == [PadsAt(w, t) EXCEPT !.auto_enabled = enabled]

WriteWrio(w, level, t) ==
  [w EXCEPT !.latch_level = level,
            !.ppu = IF w.latch_level /\ ~level THEN LatchHvCounters(CatchUpTo(@, t)) ELSE @]

WriteStrobe(w, strobe, t) == [PadsAt(w, t) EXCEPT !.joy = WriteJoySer0(@, strobe)]

ReadApuThroughBus(w, port, t) ==
  LET answer(r) ==
        Result([w EXCEPT !.ppu = DrainPendingWritesUpTo(CatchUpTo(@, t), t), !.apu = r.apu], r.value)
  IN  answer(A!ReadApuPort(w.apu, port, t))

Perform(w, a, t) ==
  CASE a.op = "ppu_read" -> OfPpu(w, ReadRegister(w.ppu, a.reg, t, w.latch_level))
    [] a.op = "ppu_write" -> Silent([w EXCEPT !.ppu = WriteRegister(@, a.reg, a.data, t)])
    [] a.op = "rdnmi" -> OfPpu(w, QueryAndClearVblankNmiFlag(w.ppu, t))
    [] a.op = "nmi_line" -> OfPpu(w, SampleNmiLine(w.ppu, t))
    [] a.op = "hvbjoy" -> ReadHvbJoy(w, t)
    [] a.op = "serial" -> ReadSerialPort(w, a.port, t)
    [] a.op = "auto_result" -> ReadAutoResult(w, a.port, t)
    [] a.op = "strobe" -> Silent(WriteStrobe(w, a.data = 1, t))
    [] a.op = "nmitimen" -> Silent(WriteNmitimen(w, a.data = 1, t))
    [] a.op = "wrio" -> Silent(WriteWrio(w, a.data = 1, t))
    [] a.op = "apu_read" -> ReadApuThroughBus(w, a.port, t)
    [] a.op = "apu_write" -> Silent([w EXCEPT !.apu = A!WriteApuPort(@, a.port, a.data, t)])

(***************************************************************************)
(* SNES::MachineSync, which every fence and every end of a frame performs: *)
(* the devices in the order of their construction.  The exception of an    *)
(* audio unit that faults leaves the devices after it behind.              *)
(***************************************************************************)
MachineSync(w, t) ==
  LET synced(apu) == IF apu.fault THEN [w EXCEPT !.apu = apu]
                     ELSE [PadsAt(w, t) EXCEPT !.apu = apu, !.ppu = CatchUpTo(@, t)]
  IN  synced(A!CatchUpApu(w.apu, t))

-----------------------------------------------------------------------------
(***************************************************************************)
(* The same accesses on devices that work at every cycle.  The audio unit  *)
(* has had floor(t * ClockNumerator / ClockDenominator) cycles by time t.  *)
(***************************************************************************)
RECURSIVE ApuCycles(_, _)
ApuCycles(apu, n) ==
  IF apu.fault \/ apu.core.cycle >= n THEN apu ELSE ApuCycles(A!ApuCycle(apu), n)

RECURSIVE PadEdges(_, _, _)
PadEdges(j, t, enabled) ==
  LET q == IF j.active /\ j.next_edge = j.local_time + 1 THEN Edge(j, enabled) ELSE j
  IN  IF j.local_time >= t THEN j
      ELSE PadEdges([q EXCEPT !.local_time = @ + 1], t, enabled)

AtEveryCycle(w, t) ==
  [w EXCEPT !.ppu = EveryCycleUpTo(@, t), !.joy = PadEdges(@, t, w.auto_enabled),
            !.apu = ApuCycles(@, (t * ClockNumerator) \div ClockDenominator)]

FlagOf(b) == IF b THEN 1 ELSE 0

(* The machine w has been brought up to t. *)
PerformAt(w, a, t) ==
  LET p == w.ppu
      drained == ApplyUpTo(p, t)
  IN  CASE a.op = "ppu_read" -> OfPpu(w, ReadReference(p, a.reg, t, w.latch_level))
        [] a.op = "ppu_write" -> Silent([w EXCEPT !.ppu = WriteReference(p, a.reg, a.data, t)])
        [] a.op = "rdnmi" -> Result([w EXCEPT !.ppu.nmi_flag = FALSE], FlagOf(p.nmi_flag))
        [] a.op = "nmi_line" -> Result(w, FlagOf(BeamAt(t).v = VblankStartLine(p)))
        [] a.op = "hvbjoy" ->
             Result(w, 4 * FlagOf(BeamAt(t).v >= VblankStartLine(p)) + 2 * FlagOf(BeamAt(t).h >= HblankStart)
                         + FlagOf(w.joy.active /\ w.auto_enabled))
        [] a.op = "serial" -> SerialPort(w, a.port)
        [] a.op = "auto_result" -> Result(w, w.joy.results[a.port])
        [] a.op = "strobe" -> Silent([w EXCEPT !.joy = WriteJoySer0(@, a.data = 1)])
        [] a.op = "nmitimen" -> Silent([w EXCEPT !.auto_enabled = a.data = 1])
        [] a.op = "wrio" ->
             Silent([w EXCEPT !.latch_level = a.data = 1,
                              !.ppu = IF w.latch_level /\ a.data = 0 THEN LatchHvCounters(@) ELSE @])
        [] a.op = "apu_read" ->
             Result([w EXCEPT !.ppu = drained], IF w.apu.fault THEN -1 ELSE w.apu.output[a.port])
        [] a.op = "apu_write" ->
             Silent([w EXCEPT !.apu.input[a.port] = IF w.apu.fault THEN @ ELSE a.data])

-----------------------------------------------------------------------------
(***************************************************************************)
(* The behaviour: the CPU's accesses, the fences, and what the frontend    *)
(* does between two calls of TickFrame.                                    *)
(***************************************************************************)
Now == Sessions[session]

(* The set-up's writes are made, and replayed, before the first dot. *)
RECURSIVE SetUp(_, _)
SetUp(p, writes) ==
  IF p.h # 0 \/ writes = <<>> THEN p
  ELSE SetUp(Decode(p, Head(writes)[1], Head(writes)[2]), Tail(writes))

StartOf(s) ==
  [ppu |-> SetUp(ResetPpu, s.setup),
   joy |-> ResetJoypad(s.buttons), auto_enabled |-> s.auto, latch_level |-> TRUE,
   apu |-> IF s.spc = <<>> THEN A!ResetApu(s.script) ELSE A!LoadSpc(s.spc[1], s.script)]

Init ==
  /\ session \in DOMAIN Sessions
  /\ now = 0 /\ flushed = FALSE /\ answers = <<0, 0>>
  /\ code = StartOf(Now) /\ due = code
  /\ fences = [vblank |-> VisibleVEnd224 * NormalLineCycles, frame |-> FrameCycles(FALSE), auto |-> Never]
  /\ left = Now.left
  /\ MathInit

NextFence == Min({fences.vblank, fences.frame, fences.auto} \ {Never})

(* A full log is replayed for a write, some of it before its time. *)
Flushes(a, t) ==
  /\ a.op = "ppu_write" /\ Len(code.ppu.log) = LogSize
  /\ \E i \in (code.ppu.cursor + 1)..LogSize :
       code.ppu.log[i].cycle > code.ppu.local_time - code.ppu.partial

Take(got, expected) ==
  /\ code' = got.machine /\ due' = expected.machine
  /\ answers' = <<got.value, expected.value>>

Access(a, d) ==
  LET t == now + d
  IN  /\ left > 0 /\ t < NextFence /\ t <= Now.horizon
      /\ now' = t /\ left' = left - 1
      /\ Take(Perform(code, a, t), PerformAt(AtEveryCycle(due, t), a, t))
      /\ flushed' = (flushed \/ Flushes(a, t))
      /\ UNCHANGED <<session, fences, math, sum>>

(***************************************************************************)
(* A fence: every device is synchronised, then the callbacks that are due. *)
(* The one at VBlank plans the automatic read (Joypad::OnVblankStart) and  *)
(* the next VBlank, a frame later (Ppu::OnVblankNmiBoundarySignal).  After *)
(* a fault of the audio unit none is called: the run stops with an error,  *)
(* and whoever continues it comes back to the same fence.                  *)
(***************************************************************************)
FireVblank(w, t) == [w EXCEPT !.joy = OnVblankStart(@, t)]
FireAuto(w, t) == [w EXCEPT !.joy = StartAutoRead(@, t, w.auto_enabled)]

Fired(w, t) ==
  CASE w.apu.fault -> w
    [] ~w.apu.fault /\ fences.vblank = t -> FireVblank(w, t)
    [] ~w.apu.fault /\ fences.auto = t -> FireAuto(w, t)
    [] OTHER -> w

NextFramePeriod == FrameCycles(code'.ppu.field)

FencesAfter(t) ==
  [vblank |-> IF fences.vblank = t THEN t + NextFramePeriod ELSE fences.vblank,
   frame |-> IF fences.frame = t THEN t + NextFramePeriod ELSE fences.frame,
   auto |-> CASE fences.vblank = t -> AutoStart(code.joy, t)
              [] fences.auto = t -> Never
              [] OTHER -> fences.auto]

Fence ==
  LET t == NextFence
  IN  /\ t <= Now.horizon
      /\ now' = t
      /\ code' = Fired(MachineSync(code, t), t)
      /\ due' = Fired(AtEveryCycle(due, t), t)
      /\ fences' = IF code'.apu.fault THEN fences ELSE FencesAfter(t)
      /\ UNCHANGED <<session, answers, flushed, left, math, sum>>

(* TickFrame returns, its budget used up, with the devices synchronised. *)
Pause ==
  /\ left = 0 /\ now < Now.horizon /\ NextFence > Now.horizon
  /\ now' = Now.horizon
  /\ code' = MachineSync(code, Now.horizon)
  /\ due' = AtEveryCycle(due, Now.horizon)
  /\ UNCHANGED <<session, answers, flushed, fences, left, math, sum>>

Synchronised(w) == {w.ppu.local_time, w.joy.local_time} = {now}

PressButtons(buttons) ==
  /\ left > 0 /\ Synchronised(code)
  /\ left' = left - 1
  /\ code' = [code EXCEPT !.joy.states = buttons]
  /\ due' = [due EXCEPT !.joy.states = buttons]
  /\ UNCHANGED <<session, now, answers, flushed, fences, math, sum>>

-----------------------------------------------------------------------------
(***************************************************************************)
(* The arithmetic unit, written and clocked by the program of the session. *)
(***************************************************************************)
MathWrite ==
  /\ left > 0 /\ left' = left - 1
  /\ \/ \E data \in Now.bytes : TriggerMultiply(data) \/ TriggerDivide(data)
     \/ \E a \in Now.bytes, dividend \in Now.words : SetOperands(a, dividend)
  /\ UNCHANGED <<session, now, code, due, answers, flushed, fences>>

MathClock ==
  /\ StepOperation
  /\ UNCHANGED <<session, now, code, due, answers, flushed, fences, left>>

Next ==
  \/ \E a \in Now.accesses, d \in Now.deltas : Access(a, d)
  \/ Fence
  \/ Pause
  \/ \E buttons \in Now.presses : PressButtons(buttons)
  \/ MathWrite
  \/ MathClock

Spec == Init /\ [][Next]_vars

-----------------------------------------------------------------------------
(***************************************************************************)
(* Laziness cannot be seen: every read of a PPU port, of RDNMI, HVBJOY and *)
(* the joypads' registers, and of the audio unit's ports, answers what a   *)
(* machine working at every cycle answers, whoever caught which device up  *)
(* before and when the last fence was (the flushing of a full log          *)
(* excepted).  The beam is where its time says it is, also when it is only *)
(* projected (Ppu::ProjectHvAt).                                           *)
(***************************************************************************)
BeamIsKept ==
  LET b == BeamAt(code.ppu.local_time)
  IN  /\ <<code.ppu.h, code.ppu.v, code.ppu.field, code.ppu.partial>> = <<b.h, b.v, b.field, b.partial>>
      /\ ProjectHvAt(code.ppu, now) = <<BeamAt(now).v, BeamAt(now).h>>

AnswersAsDue == /\ ~flushed => answers[1] = answers[2]
                /\ BeamIsKept

(***************************************************************************)
(* Whenever the PPU is up to date, both frame buffers hold what a PPU      *)
(* without log, caches, compiled priorities and a lazy object pipeline     *)
(* would have drawn; and when a full log had to be replayed early, at      *)
(* least no write was lost.                                                *)
(***************************************************************************)
Memories(p) == <<p.vram, p.cgram, p.vmadd, p.cgadd, p.m7, p.bg, p.brightness, p.forced_blank>>

PictureAsDue ==
  code.ppu.local_time = now =>
    /\ Memories(DrainPendingWritesUpTo(code.ppu, now)) = Memories(ApplyUpTo(due.ppu, now))
    /\ ~flushed => <<code.ppu.back, code.ppu.front>> = <<due.ppu.back, due.ppu.front>>

(***************************************************************************)
(* The audio unit never drifts: at every time it has had exactly the       *)
(* cycles its fraction of the master clock gives; every sample was yielded *)
(* and every tick of a timer since it was enabled is in its counter, in    *)
(* its output or was read by the core.                                     *)
(***************************************************************************)
Seed(i) == IF Now.spc = <<>> THEN 0 ELSE TimerPeriods[i] - 1

TimerKeepsCount(apu, i) ==
  LET timer == apu.timers[i]
      edges(n) == (n + Seed(i)) \div TimerPeriods[i]
      ticks == edges(apu.core.cycle) - edges(apu.core.since[i])
      target == IF timer.target = 0 THEN CounterRange ELSE timer.target
  IN  timer.enabled /\ apu.core.since[i] # -1 =>
        /\ timer.counter = ticks % target
        /\ (apu.core.taken[i] + timer.output - ticks \div target) % OutputRange = 0

ApuNeverDrifts ==
  LET apu == code.apu
  IN  ~apu.fault =>
        /\ apu.core.cycle = (apu.local_time * ClockNumerator) \div ClockDenominator
        /\ apu.samples = apu.core.cycle \div DspCycles
        /\ \A i \in A!Timers : TimerKeepsCount(apu, i)
=============================================================================
