-------------------------------- MODULE Apu --------------------------------
(***************************************************************************)
(* The audio unit (hw/apu/apu.cpp): its clock, a fraction of the master    *)
(* clock, the three timers, the ports it shares with the CPU and the       *)
(* registers of the S-SMP.                                                 *)
(*                                                                         *)
(* The SPC700 core and the DSP are external to this module.  The core is a *)
(* script, a sequence of bus accesses of which it performs one per cycle   *)
(* and which it repeats from its end; it has one register, `a', and it     *)
(* counts what it has read of each timer.  The DSP is a set of registers   *)
(* that yields one sample every DspCycles cycles.                          *)
(***************************************************************************)
EXTENDS Integers, Sequences

LOCAL INSTANCE TLC

CONSTANTS
  ClockNumerator, ClockDenominator, \* 5632 and 118125
  TimerPeriods, \* <<128, 128, 16>>
  CounterRange, \* 256
  OutputRange,  \* 16
  DspCycles     \* 32

(* What a user of this module assumes of its constants. *)
ApuAssumption ==
  /\ ClockNumerator \in Nat \ {0} /\ ClockDenominator \in Nat /\ ClockDenominator > ClockNumerator
  /\ TimerPeriods \in [1..3 -> Nat \ {0}]
  /\ {CounterRange, OutputRange, DspCycles} \subseteq Nat \ {0}

Timers == 1..3
Ports == 0..3
BitOf(x, i) == (x \div 2^i) % 2 = 1

(* One access of a script; the data -1 stands for the register `a'. *)
Idle == [op |-> "idle", reg |-> "none", i |-> 0, data |-> 0]
Load(reg, i) == [op |-> "read", reg |-> reg, i |-> i, data |-> 0]
Put(reg, i, data) == [op |-> "write", reg |-> reg, i |-> i, data |-> data]

NewTimer == [divider |-> 0, counter |-> 0, target |-> 0, output |-> 0, enabled |-> FALSE]

(***************************************************************************)
(* Apu::Reset, with the script the core will run.  `since' is the cycle in *)
(* which a timer was last enabled with the target it has, -1 if none.      *)
(***************************************************************************)
ResetApu(script) ==
  [local_time |-> 0, phase |-> 0, input |-> [i \in Ports |-> 0], output |-> [i \in Ports |-> 0],
   aux |-> [i \in 0..1 |-> 0], timers |-> [i \in Timers |-> NewTimer],
   dsp_address |-> 0, dsp |-> <<>>, dsp_phase |-> 0, samples |-> 0,
   ipl |-> TRUE, high |-> 0, fault |-> FALSE,
   core |-> [script |-> script, cycle |-> 0, a |-> 0, taken |-> [i \in Timers |-> 0],
             since |-> [i \in Timers |-> -1]]]

(***************************************************************************)
(* Apu::LoadSpc: the registers of a snapshot are installed, not written.   *)
(* One image of the ports serves both directions, and the prescalers,      *)
(* which a snapshot lacks, are one cycle before their edge.                *)
(***************************************************************************)
LoadSpc(file, script) ==
  LET apu == ResetApu(script)
      enabled(i) == BitOf(file.control, i - 1)
  IN  [apu EXCEPT !.input = file.ports, !.output = file.ports, !.aux = file.aux,
                  !.ipl = BitOf(file.control, 7), !.dsp_address = file.dsp_address,
                  !.timers = [i \in Timers |->
                                [divider |-> TimerPeriods[i] - 1, counter |-> 0,
                                 target |-> file.targets[i], output |-> file.outputs[i] % OutputRange,
                                 enabled |-> enabled(i)]],
                  !.core.taken = [i \in Timers |-> -(file.outputs[i] % OutputRange)],
                  !.core.since = [i \in Timers |-> IF enabled(i) THEN 0 ELSE -1]]

-----------------------------------------------------------------------------
(***************************************************************************)
(* StepHardware: the DSP and the timers, before the core's access.         *)
(***************************************************************************)
CountTimer(timer) ==
  LET counter == (timer.counter + 1) % CounterRange
  IN  IF counter = timer.target
      THEN [timer EXCEPT !.counter = 0, !.output = (@ + 1) % OutputRange]
      ELSE [timer EXCEPT !.counter = counter]

StepTimer(timer, period) ==
  LET edge == timer.divider + 1 = period
      q == [timer EXCEPT !.divider = IF edge THEN 0 ELSE @ + 1]
  IN  IF edge /\ timer.enabled THEN CountTimer(q) ELSE q

StepHardware(apu) ==
  LET phase == (apu.dsp_phase + 1) % DspCycles
  IN  [apu EXCEPT !.dsp_phase = phase, !.samples = @ + (IF phase = 0 THEN 1 ELSE 0),
                  !.timers = [i \in Timers |-> StepTimer(@[i], TimerPeriods[i])]]

(***************************************************************************)
(* Apu::Read: reading the output of a timer clears it.                     *)
(***************************************************************************)
BootRom == -2

ValueAt(apu, reg, i) ==
  CASE reg = "PORT" -> apu.input[i]
    [] reg = "AUX" -> apu.aux[i]
    [] reg = "OUTPUT" -> apu.timers[i].output
    [] reg = "DSPADDR" -> apu.dsp_address
    [] reg = "DSPDATA" -> LET r == apu.dsp_address % 128
                          IN  IF r \in DOMAIN apu.dsp THEN apu.dsp[r] ELSE 0
    [] reg = "HIGH" -> IF apu.ipl THEN BootRom ELSE apu.high
    [] OTHER -> 0

ReadApu(apu, reg, i) ==
  LET q == [apu EXCEPT !.core.a = ValueAt(apu, reg, i)]
  IN  IF reg = "OUTPUT"
      THEN [q EXCEPT !.timers[i].output = 0, !.core.taken[i] = @ + apu.timers[i].output] ELSE q

(***************************************************************************)
(* Apu::Write.  CONTROL starts a timer afresh only when it was disabled.   *)
(***************************************************************************)
WriteControl(apu, data) ==
  LET starts(i) == BitOf(data, i - 1) /\ ~apu.timers[i].enabled
      cleared == (IF BitOf(data, 4) THEN {0, 1} ELSE {}) \cup (IF BitOf(data, 5) THEN {2, 3} ELSE {})
  IN  [apu EXCEPT
         !.timers = [i \in Timers |->
                       [@[i] EXCEPT !.enabled = BitOf(data, i - 1),
                                    !.counter = IF starts(i) THEN 0 ELSE @,
                                    !.output = IF starts(i) THEN 0 ELSE @]],
         !.input = [i \in Ports |-> IF i \in cleared THEN 0 ELSE @[i]],
         !.ipl = BitOf(data, 7),
         !.core.since = [i \in Timers |-> IF starts(i) THEN apu.core.cycle
                                          ELSE IF BitOf(data, i - 1) THEN @[i] ELSE -1],
         !.core.taken = [i \in Timers |-> IF starts(i) THEN 0 ELSE @[i]]]

NormalTest == 10

WriteApu(apu, reg, i, data) ==
  CASE reg = "PORT" -> [apu EXCEPT !.output[i] = data]
    [] reg = "AUX" -> [apu EXCEPT !.aux[i] = data]
    [] reg = "TEST" -> [apu EXCEPT !.fault = data # NormalTest]
    [] reg = "CONTROL" -> WriteControl(apu, data)
    [] reg = "DSPADDR" -> [apu EXCEPT !.dsp_address = data]
    [] reg = "DSPDATA" -> IF apu.dsp_address >= 128 THEN apu
                          ELSE [apu EXCEPT !.dsp = (apu.dsp_address :> data) @@ @]
    [] reg = "TARGET" -> [apu EXCEPT !.timers[i].target = data, !.core.since[i] = -1]
    [] reg = "HIGH" -> [apu EXCEPT !.high = data]
    [] OTHER -> apu

(* The core's access of this cycle. *)
TickCore(apu) ==
  LET access == apu.core.script[(apu.core.cycle % Len(apu.core.script)) + 1]
      q == [apu EXCEPT !.core.cycle = @ + 1]
  IN  CASE access.op = "idle" -> q
        [] access.op = "read" -> ReadApu(q, access.reg, access.i)
        [] access.op = "write" ->
             WriteApu(q, access.reg, access.i, IF access.data = -1 THEN q.core.a ELSE access.data)

-----------------------------------------------------------------------------
(***************************************************************************)
(* CatchUpTo: the cycles whose edge, rounded up to a whole master cycle,   *)
(* has come.  After a fault every call fails and nothing moves.            *)
(***************************************************************************)
UntilEdge(apu) == (ClockDenominator - apu.phase + ClockNumerator - 1) \div ClockNumerator

ApuCycle(apu) == TickCore(StepHardware(apu))

(* Mutant: the way to the next edge is forgotten when the time is up. *)
RECURSIVE CatchUpApuForgets(_, _)
CatchUpApuForgets(apu, target) ==
  LET remaining == target - apu.local_time
      until == UntilEdge(apu)
  IN  IF apu.fault \/ remaining <= 0 THEN apu
      ELSE IF remaining < until THEN [apu EXCEPT !.local_time = target]
      ELSE CatchUpApuForgets(
             ApuCycle([apu EXCEPT !.local_time = @ + until,
                                  !.phase = @ + until * ClockNumerator - ClockDenominator]), target)

RECURSIVE CatchUpApu(_, _)
CatchUpApu(apu, target) ==
  LET remaining == target - apu.local_time
      until == UntilEdge(apu)
  IN  IF apu.fault \/ remaining <= 0 THEN apu
      ELSE IF remaining < until
      THEN [apu EXCEPT !.local_time = target, !.phase = @ + remaining * ClockNumerator]
      ELSE CatchUpApu(
             ApuCycle([apu EXCEPT !.local_time = @ + until,
                                  !.phase = @ + until * ClockNumerator - ClockDenominator]), target)

(***************************************************************************)
(* The CPU's side: every completed cycle comes before its access.          *)
(***************************************************************************)
ReadApuPort(apu, i, t) ==
  LET q == CatchUpApu(apu, t) IN [apu |-> q, value |-> IF q.fault THEN -1 ELSE q.output[i]]

WriteApuPort(apu, i, data, t) ==
  LET q == CatchUpApu(apu, t) IN IF q.fault THEN q ELSE [q EXCEPT !.input[i] = data]
=============================================================================
