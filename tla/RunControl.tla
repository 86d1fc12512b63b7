----------------------------- MODULE RunControl -----------------------------
(***************************************************************************)
(* The debugger's control of the processor: RunControl in                  *)
(* debugger/run_control.cpp, the part of CPU::TickToTarget and             *)
(* CPU::FetchOpcode that honours the DebuggerContract, and the recorder of *)
(* micro-operations (debugger/microop_trace.cpp).                          *)
(*                                                                         *)
(* The user interface acts between two calls of TickFrame.  A call runs    *)
(* slices until its deadline; a slice ends anywhere, in the middle of an   *)
(* instruction too (module Machine has the times, which do not matter      *)
(* here).  An instruction is one byte long, so that in its middle PC is    *)
(* already the address of the next; it may jump when it ends.              *)
(***************************************************************************)
EXTENDS Integers

CONSTANTS
  Addresses,    \* addresses of opcodes, 0..n
  Vector,       \* where a hardware interrupt continues
  MaxOps,       \* most micro-operations of an instruction, fetch included
  StepCounts    \* numbers of steps the user asks for

ASSUME RunControlAssumption ==
  /\ Addresses \subseteq Nat /\ {0, Vector} \subseteq Addresses
  /\ MaxOps \in Nat \ {0, 1} /\ StepCounts \subseteq Nat

VARIABLES
  pc,          \* regs_.PC
  instr,       \* current_instr_: "none", "code" or "interrupt"
  ops,         \* its micro-operations executed so far
  fault,       \* fault_ has a value
  enabled,     \* BreakpointSet::enabled_addresses_
  stepTarget, suppressed, granularity,   \* DebuggerContract
  state,       \* RunState; kStepOne and kStepN are "step"
  reason,      \* PauseReason
  saved,       \* saved_microop_recorder_ is set
  recording,   \* the CPU has the recorder
  trace,       \* operations in MicroOpTrace::current_, NoTrace without one
  at,          \* "host", "head" of TickFrame's loop, "cpu", "after" a slice
  result,      \* TickResult::reason
  wanted, done,   \* history: steps requested, steps seen since the request
  request,     \* history: PC at the last request, NoAddress before one
  stoppedAt,   \* history: the breakpoint at which that request resumed
  moved,       \* history: an operation was executed since the request
  skipped      \* history: a breakpoint was passed since the request

contract == <<stepTarget, suppressed, granularity>>
core == <<pc, instr, ops, fault>>
recorder == <<saved, recording, trace>>
history == <<wanted, done, request, stoppedAt, moved, skipped>>
vars == <<core, enabled, contract, state, reason, recorder, at, result, history>>

NoAddress == -1
NoTrace == -1

-----------------------------------------------------------------------------
(***************************************************************************)
(* The user interface, between two calls of TickFrame.  The application    *)
(* has installed the recorder when it loaded the ROM.                      *)
(***************************************************************************)
RestoreRecorder ==
  /\ saved' = FALSE
  /\ recording' = IF saved THEN TRUE ELSE recording

PauseBecause(why) ==
  /\ state' = "paused" /\ reason' = why
  /\ stepTarget' = 0
  /\ RestoreRecorder

InstallContract == stepTarget' = 0 /\ suppressed' = NoAddress /\ granularity' = "instruction"

Forget ==
  /\ wanted' = 0 /\ done' = 0 /\ request' = NoAddress /\ stoppedAt' = NoAddress
  /\ moved' = FALSE /\ skipped' = FALSE

Init ==
  /\ pc = 0 /\ instr = "none" /\ ops = 0 /\ fault = FALSE
  /\ enabled = {}
  /\ stepTarget = 0 /\ suppressed = NoAddress /\ granularity = "instruction"
  /\ state = "paused" /\ reason = "user"
  /\ saved = FALSE /\ recording = TRUE /\ trace = NoTrace
  /\ at = "host" /\ result = "target"
  /\ wanted = 0 /\ done = 0 /\ request = NoAddress /\ stoppedAt = NoAddress
  /\ moved = FALSE /\ skipped = FALSE

(***************************************************************************)
(* DebuggerApp::ResetMachine: SNES::Reset, MicroOpTrace::Clear, and        *)
(* RunControl::ResetMachineState, which pauses and installs the contract.  *)
(***************************************************************************)
ResetMachine ==
  /\ at = "host"
  /\ pc' = 0 /\ instr' = "none" /\ ops' = 0 /\ fault' = FALSE
  /\ state' = "paused" /\ reason' = "user"
  /\ RestoreRecorder /\ trace' = NoTrace
  /\ InstallContract
  /\ Forget
  /\ UNCHANGED <<enabled, at, result>>

Toggle(a) ==
  /\ at = "host"
  /\ enabled' = IF a \in enabled THEN enabled \ {a} ELSE enabled \cup {a}
  /\ UNCHANGED <<core, contract, state, reason, recorder, at, result, history>>

Pause ==
  /\ at = "host"
  /\ PauseBecause("user")
  /\ UNCHANGED <<core, enabled, suppressed, granularity, trace, at, result, history>>

SuppressKeepsOld ==
  suppressed' = IF pc \in enabled THEN pc ELSE suppressed

SuppressBreakpointAtCurrentPc ==
  suppressed' = IF pc \in enabled THEN pc ELSE NoAddress

(***************************************************************************)
(* What a request means to the user.                                       *)
(***************************************************************************)
Requested(n) ==
  /\ wanted' = n /\ done' = 0 /\ moved' = FALSE /\ skipped' = FALSE
  /\ request' = pc
  /\ stoppedAt' = IF instr = "none" /\ pc \in enabled THEN pc ELSE NoAddress

(***************************************************************************)
(* RequestStepN; RequestStepOne is the same with one step.                 *)
(***************************************************************************)
RequestStepN(n, g) ==
  /\ at = "host"
  /\ IF n = 0
     THEN /\ PauseBecause("user")
          /\ UNCHANGED <<suppressed, granularity, history>>
     ELSE /\ RestoreRecorder
          /\ SuppressBreakpointAtCurrentPc
          /\ stepTarget' = n /\ granularity' = g
          /\ state' = "step"
          /\ Requested(n)
          /\ UNCHANGED reason
  /\ UNCHANGED <<core, enabled, trace, at, result>>

(***************************************************************************)
(* DetachMicroOpRecorderForFreeRun drops the unfinished record.            *)
(***************************************************************************)
DetachKeepsCurrent ==
  IF recording
  THEN saved' = TRUE /\ recording' = FALSE /\ UNCHANGED trace
  ELSE UNCHANGED recorder

DetachRecorder ==
  IF recording
  THEN saved' = TRUE /\ recording' = FALSE /\ trace' = NoTrace
  ELSE UNCHANGED recorder

RequestRunUntilBreak ==
  /\ at = "host"
  /\ SuppressBreakpointAtCurrentPc
  /\ stepTarget' = 0 /\ granularity' = "instruction"
  /\ state' = "run"
  /\ DetachRecorder
  /\ Requested(0)
  /\ UNCHANGED <<core, enabled, reason, at, result>>

-----------------------------------------------------------------------------
(***************************************************************************)
(* TickFrame.                                                              *)
(***************************************************************************)
TickFrame ==
  /\ at = "host" /\ state # "paused"
  /\ at' = "head"
  /\ UNCHANGED <<core, enabled, contract, state, reason, recorder, result, history>>

(***************************************************************************)
(* The deadline, the budget, or a pause ends the loop; otherwise           *)
(* TickToTarget is called, and returns at once when the CPU has faulted.   *)
(***************************************************************************)
LeaveTickFrame ==
  /\ at = "head"
  /\ at' = "host"
  /\ UNCHANGED <<core, enabled, contract, state, reason, recorder, result, history>>

BeginSlice ==
  /\ at = "head" /\ state # "paused"
  /\ IF fault THEN at' = "after" /\ result' = "fault"
              ELSE at' = "cpu" /\ result' = "target"
  /\ UNCHANGED <<core, enabled, contract, state, reason, recorder, history>>

(***************************************************************************)
(* The target may come before any operation.                               *)
(***************************************************************************)
SliceEnds ==
  /\ at = "cpu"
  /\ at' = "after"
  /\ UNCHANGED <<core, enabled, contract, state, reason, recorder, result, history>>

(***************************************************************************)
(* The end of an iteration of TickToTarget: an instruction boundary, or    *)
(* any operation when stepping by micro-operations, counts as a step.      *)
(***************************************************************************)
CountEveryOperation(boundary) ==
  /\ stepTarget' = IF stepTarget > 0 THEN stepTarget - 1 ELSE 0
  /\ IF stepTarget = 1 THEN at' = "after" /\ result' = "step"
                       ELSE UNCHANGED <<at, result>>

CountStep(boundary) ==
  IF stepTarget > 0 /\ (boundary \/ granularity = "microop")
  THEN /\ stepTarget' = stepTarget - 1
       /\ IF stepTarget = 1 THEN at' = "after" /\ result' = "step"
                            ELSE UNCHANGED <<at, result>>
  ELSE UNCHANGED <<stepTarget, at, result>>

Observed(boundary) ==
  /\ moved' = TRUE
  /\ done' = IF wanted > 0 /\ (boundary \/ granularity = "microop") THEN done + 1 ELSE done
  /\ UNCHANGED <<wanted, request>>

(***************************************************************************)
(* A hardware interrupt replaces the fetch; PC does not move until its     *)
(* last operation.                                                         *)
(***************************************************************************)
EnterInterrupt ==
  /\ at = "cpu" /\ instr = "none"
  /\ instr' = "interrupt" /\ ops' = 0
  /\ trace' = IF recording THEN 0 ELSE trace
  /\ UNCHANGED <<pc, fault, enabled, contract, state, reason, saved, recording, at,
                 result, history>>

AtAnyBreakpoint == pc \in enabled

AtBreakpoint == pc \in enabled /\ suppressed # pc

FetchHitsBreakpoint ==
  /\ at = "cpu" /\ instr = "none"
  /\ AtBreakpoint
  /\ at' = "after" /\ result' = "breakpoint"
  /\ UNCHANGED <<core, enabled, contract, state, reason, recorder, history>>

Passes ==
  /\ skipped' = (skipped \/ pc \in enabled)
  /\ stoppedAt' = IF stoppedAt = pc THEN NoAddress ELSE stoppedAt

FetchOpcode ==
  /\ at = "cpu" /\ instr = "none"
  /\ ~AtBreakpoint
  /\ suppressed' = IF pc \in enabled THEN NoAddress ELSE suppressed
  /\ pc' = IF pc + 1 \in Addresses THEN pc + 1 ELSE 0
  /\ instr' = "code" /\ ops' = 1
  /\ trace' = IF recording THEN 1 ELSE trace
  /\ CountStep(FALSE)
  /\ Observed(FALSE) /\ Passes
  /\ UNCHANGED <<fault, enabled, granularity, state, reason, saved, recording>>

(***************************************************************************)
(* An opcode without an implementation: RecordFault.                       *)
(***************************************************************************)
FetchFaults ==
  /\ at = "cpu" /\ instr = "none"
  /\ ~AtBreakpoint
  /\ suppressed' = IF pc \in enabled THEN NoAddress ELSE suppressed
  /\ pc' = IF pc + 1 \in Addresses THEN pc + 1 ELSE 0
  /\ fault' = TRUE
  /\ at' = "after" /\ result' = "fault"
  /\ moved' = TRUE /\ Passes
  /\ UNCHANGED <<instr, ops, enabled, stepTarget, granularity, state, reason, recorder,
                 wanted, done, request>>

(***************************************************************************)
(* A further operation.  Operations that the timing rules skip make an     *)
(* instruction end early.                                                  *)
(***************************************************************************)
Execute ==
  /\ at = "cpu" /\ instr # "none" /\ ops + 1 < MaxOps
  /\ ops' = ops + 1
  /\ trace' = IF recording /\ trace # NoTrace THEN trace + 1 ELSE trace
  /\ CountStep(FALSE)
  /\ Observed(FALSE)
  /\ UNCHANGED <<pc, instr, fault, enabled, suppressed, granularity, state, reason,
                 saved, recording, stoppedAt, skipped>>

FinishInstruction ==
  /\ at = "cpu" /\ instr # "none"
  /\ instr' = "none" /\ ops' = 0
  /\ IF instr = "interrupt" THEN pc' = Vector
                            ELSE \E target \in {pc} \cup Addresses : pc' = target
  /\ trace' = IF recording THEN NoTrace ELSE trace
  /\ CountStep(TRUE)
  /\ Observed(TRUE)
  /\ UNCHANGED <<fault, enabled, suppressed, granularity, state, reason, saved,
                 recording, stoppedAt, skipped>>

(***************************************************************************)
(* A device may throw when it catches up (an APU fault): in a bus access,  *)
(* before the operation has changed anything else, or in MachineSync.      *)
(***************************************************************************)
SyncFails ==
  /\ at \in {"cpu", "after"}
  /\ LET fetching == at = "cpu" /\ instr = "none"
     IN  /\ fetching => ~AtBreakpoint
         /\ suppressed' = IF fetching /\ pc \in enabled THEN NoAddress ELSE suppressed
  /\ PauseBecause("error")
  /\ at' = "host"
  /\ UNCHANGED <<core, enabled, granularity, trace, result, history>>

HandlePostTickState ==
  /\ at = "after"
  /\ IF ~fault /\ result = "target"
     THEN at' = "head" /\ UNCHANGED <<state, reason, stepTarget, saved, recording>>
     ELSE /\ at' = "host"
          /\ PauseBecause(IF fault THEN "error"
                          ELSE IF result = "breakpoint" THEN "breakpoint"
                          ELSE "user")
  /\ UNCHANGED <<core, enabled, suppressed, granularity, trace, result, history>>

-----------------------------------------------------------------------------
User ==
  \/ ResetMachine \/ Pause \/ RequestRunUntilBreak
  \/ \E a \in Addresses : Toggle(a)
  \/ \E n \in StepCounts, g \in {"instruction", "microop"} : RequestStepN(n, g)

Frame ==
  \/ TickFrame \/ LeaveTickFrame \/ BeginSlice \/ SliceEnds
  \/ SyncFails \/ HandlePostTickState

Cpu ==
  \/ EnterInterrupt \/ FetchHitsBreakpoint \/ FetchOpcode \/ FetchFaults
  \/ Execute \/ FinishInstruction

Next == User \/ Frame \/ Cpu

Spec == Init /\ [][Next]_vars

-----------------------------------------------------------------------------

TypeOK ==
  /\ pc \in Addresses /\ instr \in {"none", "code", "interrupt"}
  /\ ops \in 0..(MaxOps - 1) /\ fault \in BOOLEAN
  /\ enabled \in SUBSET Addresses
  /\ stepTarget \in Nat
  /\ suppressed \in Addresses \cup {NoAddress}
  /\ granularity \in {"instruction", "microop"}
  /\ state \in {"paused", "step", "run"} /\ reason \in {"user", "breakpoint", "error"}
  /\ saved \in BOOLEAN /\ recording \in BOOLEAN /\ trace \in Nat \cup {NoTrace}
  /\ at \in {"host", "head", "cpu", "after"}
  /\ result \in {"target", "step", "breakpoint", "fault"}
  /\ wanted \in Nat /\ done \in Nat
  /\ request \in Addresses \cup {NoAddress} /\ stoppedAt \in Addresses \cup {NoAddress}
  /\ moved \in BOOLEAN /\ skipped \in BOOLEAN

(***************************************************************************)
(* A pause that ends a step comes after exactly the steps requested,       *)
(* whatever slices, interrupts and other requests came between: no step    *)
(* is counted twice or dropped, and no count of an older request is left.  *)
(***************************************************************************)
StepsAsRequested ==
  [][at = "after" /\ result = "step" /\ state' = "paused" => wanted > 0 /\ done = wanted]_vars

(***************************************************************************)
(* Resuming from a breakpoint makes progress: a request made at a          *)
(* breakpoint is not stopped by the same breakpoint before an operation    *)
(* has been executed, whatever the user toggles meanwhile.                 *)
(***************************************************************************)
ResumeMakesProgress ==
  [][at = "after" /\ reason' = "breakpoint" /\ state # "paused" /\ state' = "paused" =>
       moved \/ pc # stoppedAt]_vars

(***************************************************************************)
(* One request passes over at most one breakpoint, and only at the address *)
(* where the request was made: the suppression is used up by its fetch and *)
(* an old one does not outlive the next request.                           *)
(***************************************************************************)
OneSkipPerRequest ==
  [][instr = "none" /\ instr' = "code" /\ pc \in enabled => ~skipped /\ pc = request]_vars

(***************************************************************************)
(* The micro-operation recorder is attached exactly when the machine is    *)
(* paused or stepping, and is never lost between detaching and restoring,  *)
(* through pauses, steps, errors, breakpoints and resets.                  *)
(***************************************************************************)
RecorderWhenStepping ==
  /\ recording = (state # "run")
  /\ saved = (state = "run")

(***************************************************************************)
(* A record in the making holds every operation of the instruction in      *)
(* progress: no record that was interrupted by unrecorded execution is     *)
(* continued and shown as complete.                                        *)
(***************************************************************************)
RecordsAreWhole == trace # NoTrace => instr # "none" /\ trace = ops

=============================================================================
