------------------------------ MODULE CpuClock ------------------------------
(***************************************************************************)
(* How the 65C816 loop spends master time: CPU::TickToTarget in            *)
(* hw/5a22/cpu.cpp, without the instructions themselves.  Master time      *)
(* (SNES::time_now_) and the processor's local time are always equal here, *)
(* so one variable stands for both.                                        *)
(*                                                                         *)
(* A micro-operation of a given cost either fits before the target or      *)
(* banks what is left of the slice.  DRAM refresh stalls the processor     *)
(* once a line.  A halted processor burns the rest of the slice.           *)
(***************************************************************************)
EXTENDS Integers

CONSTANTS
  RefreshStart,    \* kDramRefreshStartCycle, 538
  RefreshPeriod,   \* kMasterCyclesPerScanline, 1364
  RefreshCycles,   \* kDramRefreshDurationCycles, 40
  InternalCycles,  \* kInternalCpuCycleMaster, 6
  WakeCycles       \* internal cycles a waking WAI takes, 2

VARIABLES
  now,          \* SNES::time_now_
  refreshAt,    \* next_refresh_time_
  refreshLeft,  \* refresh_cycles_remaining_
  banked,       \* partial_op_cycles_
  halt,         \* halt_state_
  wakeLeft,     \* wai_wake_cycles_remaining_
  wakePart      \* wai_wake_partial_cycles_

clockVars == <<now, refreshAt, refreshLeft, banked, halt, wakeLeft, wakePart>>

Lesser(a, b) == IF a < b THEN a ELSE b

ClockInit ==
  /\ now = 0
  /\ refreshAt = RefreshStart /\ refreshLeft = 0 /\ banked = 0
  /\ halt = "none" /\ wakeLeft = 0 /\ wakePart = 0

(***************************************************************************)
(* CPU::Reset at master time 0.                                            *)
(***************************************************************************)
ClockReset ==
  /\ now' = 0
  /\ refreshAt' = RefreshStart /\ refreshLeft' = 0 /\ banked' = 0
  /\ halt' = "none" /\ wakeLeft' = 0 /\ wakePart' = 0

-----------------------------------------------------------------------------

(***************************************************************************)
(* STP, WAI with nothing to wake it, and a halt taken inside the loop: the *)
(* rest of the slice is idle.  The code assigns the target to master time. *)
(***************************************************************************)
Idle(target) ==
  /\ halt # "none"
  /\ now' = target
  /\ UNCHANGED <<refreshAt, refreshLeft, banked, halt, wakeLeft, wakePart>>

(***************************************************************************)
(* catch_up_refresh_cursor: refresh windows that passed during a halt are  *)
(* not charged.                                                            *)
(***************************************************************************)
CaughtUpRefresh(t) ==
  IF refreshAt > t THEN refreshAt
  ELSE refreshAt + ((t - refreshAt) \div RefreshPeriod + 1) * RefreshPeriod

(***************************************************************************)
(* A waking WAI consumes its wake cycles, as far as the target allows;     *)
(* left is what wai_wake_cycles_remaining_ was when the loop began.        *)
(***************************************************************************)
Wake(left, target) ==
  LET need == left * InternalCycles - wakePart
      have == IF now < target THEN target - now ELSE 0
      used == wakePart + Lesser(need, have)
  IN  /\ halt = "wai"
      /\ now' = now + Lesser(need, have)
      /\ wakeLeft' = left - used \div InternalCycles
      /\ wakePart' = used % InternalCycles
      /\ IF wakeLeft' = 0
         THEN halt' = "none" /\ refreshAt' = CaughtUpRefresh(now')
         ELSE UNCHANGED <<halt, refreshAt>>
      /\ UNCHANGED <<refreshLeft, banked>>

(***************************************************************************)
(* The refresh part of one iteration of the main loop.                     *)
(***************************************************************************)
RefreshDue == refreshLeft > 0 \/ now >= refreshAt

RefreshStall(target) ==
  /\ refreshLeft > 0
  /\ LET take == Lesser(refreshLeft, target - now)
     IN  now' = now + take /\ refreshLeft' = refreshLeft - take
  /\ UNCHANGED <<refreshAt, banked, halt, wakeLeft, wakePart>>

RefreshBegin ==
  /\ refreshLeft = 0
  /\ now >= refreshAt
  /\ refreshLeft' = RefreshCycles
  /\ refreshAt' = refreshAt + RefreshPeriod
  /\ UNCHANGED <<now, banked, halt, wakeLeft, wakePart>>

(***************************************************************************)
(* The micro-operation part of an iteration: the operation does not fit    *)
(* and the slice is banked, or it fits and is executed at its end.         *)
(***************************************************************************)
Remaining(cost) == IF cost > banked THEN cost - banked ELSE 0

Fits(cost, target) == now + Remaining(cost) <= target \/ Remaining(cost) = 0

OpEnd(cost) == now + Remaining(cost)

Bank(cost, target) ==
  /\ ~RefreshDue
  /\ ~Fits(cost, target)
  /\ banked' = banked + (target - now)
  /\ now' = target
  /\ UNCHANGED <<refreshAt, refreshLeft, halt, wakeLeft, wakePart>>

(***************************************************************************)
(* stall is what the operation itself adds to master time: the length of   *)
(* a DMA burst started by its bus write.  What the operation does to the   *)
(* halt state is left to the module that knows the operations.             *)
(***************************************************************************)
Retire(cost, stall, target) ==
  /\ ~RefreshDue
  /\ Fits(cost, target)
  /\ now' = OpEnd(cost) + stall
  /\ banked' = 0
  /\ UNCHANGED <<refreshAt, refreshLeft>>
=============================================================================
