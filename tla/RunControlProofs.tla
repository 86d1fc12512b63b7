-------------------------- MODULE RunControlProofs --------------------------
(***************************************************************************)
(* Proofs about RunControl, for any program, vector, length of             *)
(* instructions and numbers of steps.                                      *)
(***************************************************************************)
EXTENDS RunControl, TLAPS

(***************************************************************************)
(* The count of a step request is what is left of it, and is used up only  *)
(* in the moment that ends the slice.                                      *)
(***************************************************************************)
StepsCounted ==
  /\ at # "host" => state # "paused"
  /\ at = "cpu" => result = "target"
  /\ state = "run" => wanted = 0 /\ stepTarget = 0
  /\ state = "step" => wanted > 0 /\ done + stepTarget = wanted
  /\ state = "step" /\ at # "after" => stepTarget > 0
  /\ at = "after" /\ result = "step" => state = "step" /\ stepTarget = 0
  /\ at = "after" /\ result = "target" /\ state = "step" => stepTarget > 0

(***************************************************************************)
(* A suppression belongs to the last request and is there until the        *)
(* breakpoint it is for has been passed.                                   *)
(***************************************************************************)
SuppressionKept ==
  /\ suppressed # NoAddress => ~skipped /\ suppressed = request
  /\ state # "paused" /\ ~moved /\ stoppedAt # NoAddress => suppressed = stoppedAt
  /\ at = "after" /\ result = "breakpoint" => moved \/ pc # stoppedAt

(***************************************************************************)
(* A free run leaves no record in the making behind.                       *)
(***************************************************************************)
RecordDropped == recording \/ trace = NoTrace

IInv ==
  /\ TypeOK /\ RecorderWhenStepping /\ RecordsAreWhole
  /\ RecordDropped /\ StepsCounted /\ SuppressionKept

(***************************************************************************)
(* TypeOK in three parts, for the provers.                                 *)
(***************************************************************************)
CoreType ==
  /\ pc \in Addresses /\ instr \in {"none", "code", "interrupt"}
  /\ ops \in 0..(MaxOps - 1) /\ fault \in BOOLEAN
  /\ enabled \in SUBSET Addresses
  /\ stepTarget \in Nat
  /\ suppressed \in Addresses \cup {NoAddress}

ControlType ==
  /\ granularity \in {"instruction", "microop"}
  /\ state \in {"paused", "step", "run"} /\ reason \in {"user", "breakpoint", "error"}
  /\ saved \in BOOLEAN /\ recording \in BOOLEAN /\ trace \in Nat \cup {NoTrace}
  /\ at \in {"host", "head", "cpu", "after"}
  /\ result \in {"target", "step", "breakpoint", "fault"}

HistoryType ==
  /\ wanted \in Nat /\ done \in Nat
  /\ request \in Addresses \cup {NoAddress} /\ stoppedAt \in Addresses \cup {NoAddress}
  /\ moved \in BOOLEAN /\ skipped \in BOOLEAN

(***************************************************************************)
(* The first address and an instruction that has not begun.                *)
(***************************************************************************)
LEMMA Zeros == 0 \in Addresses /\ 0 \in 0..(MaxOps - 1)
BY RunControlAssumption

(***************************************************************************)
(* The invariant holds in the initial state and every action preserves it. *)
(***************************************************************************)
LEMMA InitInvariant == Init => IInv
<1> SUFFICES ASSUME Init PROVE IInv
    OBVIOUS
<1>1. TypeOK
  <2>1. CoreType
    BY Zeros DEF Init, CoreType, NoAddress
  <2>2. ControlType
    BY DEF Init, ControlType, NoTrace
  <2>3. HistoryType
    BY DEF Init, HistoryType, NoAddress
  <2> QED BY <2>1, <2>2, <2>3 DEF TypeOK, CoreType, ControlType, HistoryType
<1>2. RecorderWhenStepping
  BY DEF Init, RecorderWhenStepping
<1>3. RecordsAreWhole /\ RecordDropped /\ StepsCounted /\ SuppressionKept
  BY DEF Init, RecordsAreWhole, RecordDropped, StepsCounted, SuppressionKept
<1> QED BY <1>1, <1>2, <1>3 DEF IInv

(***************************************************************************)
(* Every step keeps the inductive invariant.                               *)
(***************************************************************************)
LEMMA StepInvariant == IInv /\ [Next]_vars => IInv'
<1> SUFFICES ASSUME IInv, [Next]_vars PROVE IInv'
    OBVIOUS
<1> USE RunControlAssumption
    DEF IInv, TypeOK, NoAddress, NoTrace, core, contract, recorder, history
<1>1. CASE ResetMachine
  <2>1. TypeOK'
    <3>1. CoreType'
      BY <1>1, Zeros DEF CoreType, ResetMachine, RestoreRecorder,
                         InstallContract, Forget
    <3>2. ControlType'
      BY <1>1 DEF ControlType, ResetMachine, RestoreRecorder, InstallContract,
                  Forget
    <3>3. HistoryType'
      BY <1>1 DEF HistoryType, ResetMachine, RestoreRecorder, InstallContract,
                  Forget
    <3> QED BY <3>1, <3>2, <3>3 DEF CoreType, ControlType, HistoryType
  <2>2. RecorderWhenStepping'
    BY <1>1 DEF RecorderWhenStepping, ResetMachine, RestoreRecorder,
                InstallContract, Forget
  <2>3. RecordsAreWhole'
    BY <1>1 DEF RecordsAreWhole, RecordDropped, ResetMachine, RestoreRecorder,
                InstallContract, Forget
  <2>4. RecordDropped'
    BY <1>1 DEF RecordDropped, RecorderWhenStepping, ResetMachine,
                RestoreRecorder, InstallContract, Forget
  <2>5. StepsCounted'
    BY <1>1 DEF StepsCounted, ResetMachine, RestoreRecorder, InstallContract,
                Forget
  <2>6. SuppressionKept'
    BY <1>1 DEF SuppressionKept, StepsCounted, ResetMachine, RestoreRecorder,
                InstallContract, Forget
  <2> QED BY <2>1, <2>2, <2>3, <2>4, <2>5, <2>6
<1>2. ASSUME NEW a \in Addresses, Toggle(a) PROVE IInv'
  <2>1. TypeOK'
    BY <1>2 DEF Toggle
  <2>2. RecorderWhenStepping'
    BY <1>2 DEF RecorderWhenStepping, Toggle
  <2>3. RecordsAreWhole'
    BY <1>2 DEF RecordsAreWhole, RecordDropped, Toggle
  <2>4. RecordDropped'
    BY <1>2 DEF RecordDropped, RecorderWhenStepping, Toggle
  <2>5. StepsCounted'
    BY <1>2 DEF StepsCounted, Toggle
  <2>6. SuppressionKept'
    BY <1>2 DEF SuppressionKept, StepsCounted, Toggle
  <2> QED BY <2>1, <2>2, <2>3, <2>4, <2>5, <2>6
<1>3. CASE Pause
  <2>1. TypeOK'
    <3>1. CoreType'
      BY <1>3 DEF CoreType, Pause, PauseBecause, RestoreRecorder
    <3>2. ControlType'
      BY <1>3 DEF ControlType, Pause, PauseBecause, RestoreRecorder
    <3>3. HistoryType'
      BY <1>3 DEF HistoryType, Pause, PauseBecause, RestoreRecorder
    <3> QED BY <3>1, <3>2, <3>3 DEF CoreType, ControlType, HistoryType
  <2>2. RecorderWhenStepping'
    BY <1>3 DEF RecorderWhenStepping, Pause, PauseBecause, RestoreRecorder
  <2>3. RecordsAreWhole'
    BY <1>3 DEF RecordsAreWhole, RecordDropped, Pause, PauseBecause,
                RestoreRecorder
  <2>4. RecordDropped'
    BY <1>3 DEF RecordDropped, RecorderWhenStepping, Pause, PauseBecause,
                RestoreRecorder
  <2>5. StepsCounted'
    BY <1>3 DEF StepsCounted, Pause, PauseBecause, RestoreRecorder
  <2>6. SuppressionKept'
    BY <1>3 DEF SuppressionKept, StepsCounted, Pause, PauseBecause,
                RestoreRecorder
  <2> QED BY <2>1, <2>2, <2>3, <2>4, <2>5, <2>6
<1>4. ASSUME NEW n \in StepCounts, NEW g \in {"instruction", "microop"},
             RequestStepN(n, g)
      PROVE  IInv'
  <2>1. TypeOK'
    <3>1. CoreType'
      BY <1>4 DEF CoreType, RequestStepN, PauseBecause, RestoreRecorder,
                  SuppressBreakpointAtCurrentPc, Requested
    <3>2. ControlType'
      BY <1>4 DEF ControlType, RequestStepN, PauseBecause, RestoreRecorder,
                  SuppressBreakpointAtCurrentPc, Requested
    <3>3. HistoryType'
      BY <1>4 DEF HistoryType, RequestStepN, PauseBecause, RestoreRecorder,
                  SuppressBreakpointAtCurrentPc, Requested
    <3> QED BY <3>1, <3>2, <3>3 DEF CoreType, ControlType, HistoryType
  <2>2. RecorderWhenStepping'
    BY <1>4 DEF RecorderWhenStepping, RequestStepN, PauseBecause,
                RestoreRecorder, SuppressBreakpointAtCurrentPc, Requested
  <2>3. RecordsAreWhole'
    BY <1>4 DEF RecordsAreWhole, RecordDropped, RequestStepN, PauseBecause,
                RestoreRecorder, SuppressBreakpointAtCurrentPc, Requested
  <2>4. RecordDropped'
    BY <1>4 DEF RecordDropped, RecorderWhenStepping, RequestStepN, PauseBecause,
                RestoreRecorder, SuppressBreakpointAtCurrentPc, Requested
  <2>5. StepsCounted'
    <3>1. CASE n = 0
      BY <3>1, <1>4 DEF StepsCounted, RequestStepN, PauseBecause,
                        RestoreRecorder, SuppressBreakpointAtCurrentPc,
                        Requested
    <3>2. CASE n # 0
      BY <3>2, <1>4 DEF StepsCounted, RequestStepN, PauseBecause,
                        RestoreRecorder, SuppressBreakpointAtCurrentPc,
                        Requested
    <3> QED BY <3>1, <3>2
  <2>6. SuppressionKept'
    BY <1>4 DEF SuppressionKept, StepsCounted, RequestStepN, PauseBecause,
                RestoreRecorder, SuppressBreakpointAtCurrentPc, Requested
  <2> QED BY <2>1, <2>2, <2>3, <2>4, <2>5, <2>6
<1>5. CASE RequestRunUntilBreak
  <2>1. TypeOK'
    BY <1>5 DEF RequestRunUntilBreak, SuppressBreakpointAtCurrentPc,
                DetachRecorder, Requested
  <2>2. RecorderWhenStepping'
    BY <1>5 DEF RecorderWhenStepping, RequestRunUntilBreak,
                SuppressBreakpointAtCurrentPc, DetachRecorder, Requested
  <2>3. RecordsAreWhole'
    BY <1>5 DEF RecordsAreWhole, RecordDropped, RequestRunUntilBreak,
                SuppressBreakpointAtCurrentPc, DetachRecorder, Requested
  <2>4. RecordDropped'
    BY <1>5 DEF RecordDropped, RecorderWhenStepping, RequestRunUntilBreak,
                SuppressBreakpointAtCurrentPc, DetachRecorder, Requested
  <2>5. StepsCounted'
    BY <1>5 DEF StepsCounted, RequestRunUntilBreak,
                SuppressBreakpointAtCurrentPc, DetachRecorder, Requested
  <2>6. SuppressionKept'
    BY <1>5 DEF SuppressionKept, StepsCounted, RequestRunUntilBreak,
                SuppressBreakpointAtCurrentPc, DetachRecorder, Requested
  <2> QED BY <2>1, <2>2, <2>3, <2>4, <2>5, <2>6
<1>6. CASE TickFrame
  <2>1. TypeOK'
    BY <1>6 DEF TickFrame
  <2>2. RecorderWhenStepping'
    BY <1>6 DEF RecorderWhenStepping, TickFrame
  <2>3. RecordsAreWhole'
    BY <1>6 DEF RecordsAreWhole, RecordDropped, TickFrame
  <2>4. RecordDropped'
    BY <1>6 DEF RecordDropped, RecorderWhenStepping, TickFrame
  <2>5. StepsCounted'
    BY <1>6 DEF StepsCounted, TickFrame
  <2>6. SuppressionKept'
    BY <1>6 DEF SuppressionKept, StepsCounted, TickFrame
  <2> QED BY <2>1, <2>2, <2>3, <2>4, <2>5, <2>6
<1>7. CASE LeaveTickFrame
  <2>1. TypeOK'
    BY <1>7 DEF LeaveTickFrame
  <2>2. RecorderWhenStepping'
    BY <1>7 DEF RecorderWhenStepping, LeaveTickFrame
  <2>3. RecordsAreWhole'
    BY <1>7 DEF RecordsAreWhole, RecordDropped, LeaveTickFrame
  <2>4. RecordDropped'
    BY <1>7 DEF RecordDropped, RecorderWhenStepping, LeaveTickFrame
  <2>5. StepsCounted'
    BY <1>7 DEF StepsCounted, LeaveTickFrame
  <2>6. SuppressionKept'
    BY <1>7 DEF SuppressionKept, StepsCounted, LeaveTickFrame
  <2> QED BY <2>1, <2>2, <2>3, <2>4, <2>5, <2>6
<1>8. CASE BeginSlice
  <2>1. TypeOK'
    BY <1>8 DEF BeginSlice
  <2>2. RecorderWhenStepping'
    BY <1>8 DEF RecorderWhenStepping, BeginSlice
  <2>3. RecordsAreWhole'
    BY <1>8 DEF RecordsAreWhole, RecordDropped, BeginSlice
  <2>4. RecordDropped'
    BY <1>8 DEF RecordDropped, RecorderWhenStepping, BeginSlice
  <2>5. StepsCounted'
    BY <1>8 DEF StepsCounted, BeginSlice
  <2>6. SuppressionKept'
    BY <1>8 DEF SuppressionKept, StepsCounted, BeginSlice
  <2> QED BY <2>1, <2>2, <2>3, <2>4, <2>5, <2>6
<1>9. CASE SliceEnds
  <2>1. TypeOK'
    BY <1>9 DEF SliceEnds
  <2>2. RecorderWhenStepping'
    BY <1>9 DEF RecorderWhenStepping, SliceEnds
  <2>3. RecordsAreWhole'
    BY <1>9 DEF RecordsAreWhole, RecordDropped, SliceEnds
  <2>4. RecordDropped'
    BY <1>9 DEF RecordDropped, RecorderWhenStepping, SliceEnds
  <2>5. StepsCounted'
    BY <1>9 DEF StepsCounted, SliceEnds
  <2>6. SuppressionKept'
    BY <1>9 DEF SuppressionKept, StepsCounted, SliceEnds
  <2> QED BY <2>1, <2>2, <2>3, <2>4, <2>5, <2>6
<1>10. CASE SyncFails
  <2>1. TypeOK'
    <3>1. CoreType'
      BY <1>10 DEF CoreType, SyncFails, PauseBecause, RestoreRecorder,
                   AtBreakpoint
    <3>2. ControlType'
      BY <1>10 DEF ControlType, SyncFails, PauseBecause, RestoreRecorder,
                   AtBreakpoint
    <3>3. HistoryType'
      BY <1>10 DEF HistoryType, SyncFails, PauseBecause, RestoreRecorder,
                   AtBreakpoint
    <3> QED BY <3>1, <3>2, <3>3 DEF CoreType, ControlType, HistoryType
  <2>2. RecorderWhenStepping'
    BY <1>10 DEF RecorderWhenStepping, SyncFails, PauseBecause, RestoreRecorder,
                 AtBreakpoint
  <2>3. RecordsAreWhole'
    BY <1>10 DEF RecordsAreWhole, RecordDropped, SyncFails, PauseBecause,
                 RestoreRecorder, AtBreakpoint
  <2>4. RecordDropped'
    BY <1>10 DEF RecordDropped, RecorderWhenStepping, SyncFails, PauseBecause,
                 RestoreRecorder, AtBreakpoint
  <2>5. StepsCounted'
    BY <1>10 DEF StepsCounted, SyncFails, PauseBecause, RestoreRecorder,
                 AtBreakpoint
  <2>6. SuppressionKept'
    BY <1>10 DEF SuppressionKept, StepsCounted, SyncFails, PauseBecause,
                 RestoreRecorder, AtBreakpoint
  <2> QED BY <2>1, <2>2, <2>3, <2>4, <2>5, <2>6
<1>11. CASE HandlePostTickState
  <2>1. TypeOK'
    <3>1. CoreType'
      BY <1>11 DEF CoreType, HandlePostTickState, PauseBecause, RestoreRecorder
    <3>2. ControlType'
      BY <1>11 DEF ControlType, HandlePostTickState, PauseBecause,
                   RestoreRecorder
    <3>3. HistoryType'
      BY <1>11 DEF HistoryType, HandlePostTickState, PauseBecause,
                   RestoreRecorder
    <3> QED BY <3>1, <3>2, <3>3 DEF CoreType, ControlType, HistoryType
  <2>2. RecorderWhenStepping'
    BY <1>11 DEF RecorderWhenStepping, HandlePostTickState, PauseBecause,
                 RestoreRecorder
  <2>3. RecordsAreWhole'
    BY <1>11 DEF RecordsAreWhole, RecordDropped, HandlePostTickState,
                 PauseBecause, RestoreRecorder
  <2>4. RecordDropped'
    BY <1>11 DEF RecordDropped, RecorderWhenStepping, HandlePostTickState,
                 PauseBecause, RestoreRecorder
  <2>5. StepsCounted'
    BY <1>11 DEF StepsCounted, HandlePostTickState, PauseBecause,
                 RestoreRecorder
  <2>6. SuppressionKept'
    BY <1>11 DEF SuppressionKept, StepsCounted, HandlePostTickState,
                 PauseBecause, RestoreRecorder
  <2> QED BY <2>1, <2>2, <2>3, <2>4, <2>5, <2>6
<1>12. CASE EnterInterrupt
  <2>1. TypeOK'
    BY <1>12 DEF EnterInterrupt
  <2>2. RecorderWhenStepping'
    BY <1>12 DEF RecorderWhenStepping, EnterInterrupt
  <2>3. RecordsAreWhole'
    BY <1>12 DEF RecordsAreWhole, RecordDropped, EnterInterrupt
  <2>4. RecordDropped'
    BY <1>12 DEF RecordDropped, RecorderWhenStepping, EnterInterrupt
  <2>5. StepsCounted'
    BY <1>12 DEF StepsCounted, EnterInterrupt
  <2>6. SuppressionKept'
    BY <1>12 DEF SuppressionKept, StepsCounted, EnterInterrupt
  <2> QED BY <2>1, <2>2, <2>3, <2>4, <2>5, <2>6
<1>13. CASE FetchHitsBreakpoint
  <2>1. TypeOK'
    BY <1>13 DEF FetchHitsBreakpoint, AtBreakpoint
  <2>2. RecorderWhenStepping'
    BY <1>13 DEF RecorderWhenStepping, FetchHitsBreakpoint, AtBreakpoint
  <2>3. RecordsAreWhole'
    BY <1>13 DEF RecordsAreWhole, RecordDropped, FetchHitsBreakpoint,
                 AtBreakpoint
  <2>4. RecordDropped'
    BY <1>13 DEF RecordDropped, RecorderWhenStepping, FetchHitsBreakpoint,
                 AtBreakpoint
  <2>5. StepsCounted'
    BY <1>13 DEF StepsCounted, FetchHitsBreakpoint, AtBreakpoint
  <2>6. SuppressionKept'
    BY <1>13 DEF SuppressionKept, StepsCounted, FetchHitsBreakpoint,
                 AtBreakpoint
  <2> QED BY <2>1, <2>2, <2>3, <2>4, <2>5, <2>6
<1>14. CASE FetchOpcode
  <2>1. TypeOK'
    BY <1>14 DEF FetchOpcode, AtBreakpoint, CountStep, Observed, Passes
  <2>2. RecorderWhenStepping'
    BY <1>14 DEF RecorderWhenStepping, FetchOpcode, AtBreakpoint, CountStep,
                 Observed, Passes
  <2>3. RecordsAreWhole'
    BY <1>14 DEF RecordsAreWhole, RecordDropped, FetchOpcode, AtBreakpoint,
                 CountStep, Observed, Passes
  <2>4. RecordDropped'
    BY <1>14 DEF RecordDropped, RecorderWhenStepping, FetchOpcode, AtBreakpoint,
                 CountStep, Observed, Passes
  <2>5. StepsCounted'
    BY <1>14 DEF StepsCounted, FetchOpcode, AtBreakpoint, CountStep, Observed,
                 Passes
  <2>6. SuppressionKept'
    BY <1>14 DEF SuppressionKept, StepsCounted, FetchOpcode, AtBreakpoint,
                 CountStep, Observed, Passes
  <2> QED BY <2>1, <2>2, <2>3, <2>4, <2>5, <2>6
<1>15. CASE FetchFaults
  <2>1. TypeOK'
    BY <1>15 DEF FetchFaults, AtBreakpoint, Passes
  <2>2. RecorderWhenStepping'
    BY <1>15 DEF RecorderWhenStepping, FetchFaults, AtBreakpoint, Passes
  <2>3. RecordsAreWhole'
    BY <1>15 DEF RecordsAreWhole, RecordDropped, FetchFaults, AtBreakpoint,
                 Passes
  <2>4. RecordDropped'
    BY <1>15 DEF RecordDropped, RecorderWhenStepping, FetchFaults, AtBreakpoint,
                 Passes
  <2>5. StepsCounted'
    BY <1>15 DEF StepsCounted, FetchFaults, AtBreakpoint, Passes
  <2>6. SuppressionKept'
    BY <1>15 DEF SuppressionKept, StepsCounted, FetchFaults, AtBreakpoint,
                 Passes
  <2> QED BY <2>1, <2>2, <2>3, <2>4, <2>5, <2>6
<1>16. CASE Execute
  <2>1. TypeOK'
    BY <1>16 DEF Execute, CountStep, Observed
  <2>2. RecorderWhenStepping'
    BY <1>16 DEF RecorderWhenStepping, Execute, CountStep, Observed
  <2>3. RecordsAreWhole'
    BY <1>16 DEF RecordsAreWhole, RecordDropped, Execute, CountStep, Observed
  <2>4. RecordDropped'
    BY <1>16 DEF RecordDropped, RecorderWhenStepping, Execute, CountStep,
                 Observed
  <2>5. StepsCounted'
    BY <1>16 DEF StepsCounted, Execute, CountStep, Observed
  <2>6. SuppressionKept'
    BY <1>16 DEF SuppressionKept, StepsCounted, Execute, CountStep, Observed
  <2> QED BY <2>1, <2>2, <2>3, <2>4, <2>5, <2>6
<1>17. CASE FinishInstruction
  <2>1. TypeOK'
    BY <1>17 DEF FinishInstruction, CountStep, Observed
  <2>2. RecorderWhenStepping'
    BY <1>17 DEF RecorderWhenStepping, FinishInstruction, CountStep, Observed
  <2>3. RecordsAreWhole'
    BY <1>17 DEF RecordsAreWhole, RecordDropped, FinishInstruction, CountStep,
                 Observed
  <2>4. RecordDropped'
    BY <1>17 DEF RecordDropped, RecorderWhenStepping, FinishInstruction,
                 CountStep, Observed
  <2>5. StepsCounted'
    BY <1>17 DEF StepsCounted, FinishInstruction, CountStep, Observed
  <2>6. SuppressionKept'
    BY <1>17 DEF SuppressionKept, StepsCounted, FinishInstruction, CountStep,
                 Observed
  <2> QED BY <2>1, <2>2, <2>3, <2>4, <2>5, <2>6
<1>18. CASE UNCHANGED vars
  BY <1>18 DEF vars, RecorderWhenStepping, RecordsAreWhole, RecordDropped,
     StepsCounted, SuppressionKept
<1> QED
  BY <1>1, <1>2, <1>3, <1>4, <1>5, <1>6, <1>7, <1>8, <1>9,
     <1>10, <1>11, <1>12, <1>13, <1>14, <1>15, <1>16, <1>17, <1>18
  DEF Next, User, Frame, Cpu

(***************************************************************************)
(* RunControl's inductive invariant.                                       *)
(***************************************************************************)
THEOREM Invariance == Spec => []IInv
BY InitInvariant, StepInvariant, PTL DEF Spec

(***************************************************************************)
(* Type correctness of the debugger's and the processor's control state.   *)
(***************************************************************************)
THEOREM TypeCorrect == Spec => []TypeOK
BY Invariance, PTL DEF IInv

(***************************************************************************)
(* The recorder is never lost and never left on the processor in a free    *)
(* run, and no broken record is continued.                                 *)
(***************************************************************************)
THEOREM RecorderKept == Spec => [](RecorderWhenStepping /\ RecordsAreWhole)
BY Invariance, PTL DEF IInv

(***************************************************************************)
(* A step request stops the machine after exactly the steps it asked for.  *)
(***************************************************************************)
THEOREM StepsExact == Spec => StepsAsRequested
<1>1. IInv /\ [Next]_vars =>
        [at = "after" /\ result = "step" /\ state' = "paused"
           => wanted > 0 /\ done = wanted]_vars
  BY DEF IInv, TypeOK, StepsCounted
<1> QED BY <1>1, Invariance, PTL DEF Spec, StepsAsRequested

(***************************************************************************)
(* A request made at a breakpoint is not stopped by that breakpoint before *)
(* an operation has been executed.                                         *)
(***************************************************************************)
THEOREM ResumeProgresses == Spec => ResumeMakesProgress
<1>1. IInv /\ [Next]_vars =>
        [at = "after" /\ reason' = "breakpoint" /\ state # "paused" /\ state' = "paused"
           => moved \/ pc # stoppedAt]_vars
  <2> SUFFICES ASSUME IInv, Next, at = "after", reason' = "breakpoint",
                      state # "paused", state' = "paused"
               PROVE  moved \/ pc # stoppedAt
      OBVIOUS
  <2>1. CASE SyncFails
    BY <2>1 DEF SyncFails, PauseBecause
  <2>2. CASE HandlePostTickState
    BY <2>2 DEF HandlePostTickState, PauseBecause, IInv, TypeOK, SuppressionKept
  <2>3. at = "after" => SyncFails \/ HandlePostTickState
    BY DEF Next, User, Frame, Cpu, ResetMachine, Toggle, Pause, RequestStepN,
           RequestRunUntilBreak, TickFrame, LeaveTickFrame, BeginSlice, SliceEnds,
           EnterInterrupt, FetchHitsBreakpoint, FetchOpcode, FetchFaults, Execute,
           FinishInstruction
  <2> QED BY <2>1, <2>2, <2>3
<1> QED BY <1>1, Invariance, PTL DEF Spec, ResumeMakesProgress

(***************************************************************************)
(* One request passes over at most one breakpoint, where it was made.      *)
(***************************************************************************)
THEOREM SkipsOnce == Spec => OneSkipPerRequest
<1>1. IInv /\ [Next]_vars =>
        [instr = "none" /\ instr' = "code" /\ pc \in enabled
           => ~skipped /\ pc = request]_vars
  <2> SUFFICES ASSUME IInv, Next, instr = "none", instr' = "code", pc \in enabled
               PROVE  ~skipped /\ pc = request
      OBVIOUS
  <2>1. FetchOpcode
    BY DEF Next, User, Frame, Cpu, ResetMachine, Toggle, Pause, RequestStepN,
           RequestRunUntilBreak, TickFrame, LeaveTickFrame, BeginSlice, SliceEnds,
           SyncFails, HandlePostTickState, EnterInterrupt, FetchHitsBreakpoint,
           FetchFaults, Execute, FinishInstruction, core
  <2>2. suppressed = pc /\ pc # NoAddress
    BY <2>1, RunControlAssumption
    DEF FetchOpcode, AtBreakpoint, IInv, TypeOK, NoAddress
  <2> QED BY <2>2 DEF IInv, SuppressionKept
<1> QED BY <1>1, Invariance, PTL DEF Spec, OneSkipPerRequest
=============================================================================
