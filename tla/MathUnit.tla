------------------------------ MODULE MathUnit ------------------------------
(***************************************************************************)
(* The multiplier and divider behind $4202 to $4206 (CpuMmio, in           *)
(* hw/5a22/cpu_mmio.cpp).  An operation takes one step per CPU cycle, and  *)
(* its registers may be read or written meanwhile: a trigger that comes    *)
(* while an operation runs reloads the product, but not the operation.     *)
(***************************************************************************)
EXTENDS Integers

CONSTANT ByteBits  \* 8

ASSUME MathAssumption == ByteBits \in Nat \ {0}

VARIABLES
  math,  \* the registers of the unit
  sum    \* history: the operation in progress, as the program knows it

(* The powers of two: what a bit at a position is worth. *)
Power[n \in Nat] == IF n = 0 THEN 1 ELSE 2 * Power[n - 1]

Byte == Power[ByteBits]
Word == Power[2 * ByteBits]

(* The state after CpuMmio::Reset. *)
ResetMath ==
  [multiplicand |-> Byte - 1, dividend |-> Word - 1, quotient |-> 0, product |-> 0,
   shift |-> 0, remaining |-> 0, dividing |-> FALSE]

WriteMultiplicand(m, data) == [m EXCEPT !.multiplicand = data]
WriteDividend(m, word) == [m EXCEPT !.dividend = word]

Multiply(m, data) ==
  LET q == [m EXCEPT !.product = 0]
  IN  IF m.remaining # 0 THEN q
      ELSE [q EXCEPT !.quotient = data * Byte + m.multiplicand, !.shift = data,
                     !.remaining = ByteBits, !.dividing = FALSE]

(* Mutant: a second division starts over even when one is running. *)
DivideRestarts(m, data) ==
  [m EXCEPT !.product = m.dividend, !.shift = data * Word, !.remaining = 2 * ByteBits,
            !.dividing = TRUE]

Divide(m, data) ==
  LET q == [m EXCEPT !.product = m.dividend]
  IN  IF m.remaining # 0 THEN q
      ELSE [q EXCEPT !.shift = data * Word, !.remaining = 2 * ByteBits, !.dividing = TRUE]

(***************************************************************************)
(* StepMath and ClockMathCycle.                                            *)
(***************************************************************************)
DivideStep(m) ==
  LET shift == m.shift \div 2
      fits == m.product >= shift
  IN  [m EXCEPT !.shift = shift,
                !.quotient = ((2 * @) % Word) + (IF fits THEN 1 ELSE 0),
                !.product = IF fits THEN @ - shift ELSE @]

MultiplyStep(m) ==
  [m EXCEPT !.shift = 2 * @, !.quotient = @ \div 2,
            !.product = IF m.quotient % 2 = 1 THEN (@ + m.shift) % Word ELSE @]

StepMath(m) ==
  LET q == [m EXCEPT !.remaining = @ - 1]
  IN  IF m.dividing THEN DivideStep(q) ELSE MultiplyStep(q)

ClockMathCycle(m) == IF m.remaining = 0 THEN m ELSE StepMath(m)

-----------------------------------------------------------------------------
(***************************************************************************)
(* `sum' says what the operation was begun with, and what the product      *)
(* register was last loaded with, at which of its steps (`from').          *)
(***************************************************************************)
NoSum == [op |-> "none", a |-> 0, b |-> 0, base |-> 0, quotient |-> 0, from |-> 0, step |-> 0]

Begun(op, operand, loaded) ==
  IF math.remaining # 0 THEN [sum EXCEPT !.base = loaded, !.from = sum.step, !.quotient = math.quotient]
  ELSE [op |-> op, a |-> math.multiplicand, b |-> operand, base |-> loaded,
        quotient |-> math.quotient, from |-> 0, step |-> 0]

TriggerMultiply(data) ==
  /\ math' = Multiply(math, data)
  /\ sum' = Begun("multiply", data, 0)

TriggerDivide(data) ==
  /\ math' = Divide(math, data)
  /\ sum' = Begun("divide", data, math.dividend)

SetOperands(a, dividend) ==
  /\ math' = WriteDividend(WriteMultiplicand(math, a), dividend)
  /\ sum' = sum

StepOperation ==
  /\ math.remaining # 0
  /\ math' = ClockMathCycle(math)
  /\ sum' = [sum EXCEPT !.step = @ + 1]

(* Any program: writes of any operands and triggers between any two steps. *)
MathInit == math = ResetMath /\ sum = NoSum

MathNext ==
  \/ \E data \in 0..(Byte - 1) : TriggerMultiply(data) \/ TriggerDivide(data)
  \/ \E a \in 0..(Byte - 1), dividend \in 0..(Word - 1) : SetOperands(a, dividend)
  \/ StepOperation

MathSpec == MathInit /\ [][MathNext]_<<math, sum>>

-----------------------------------------------------------------------------
(***************************************************************************)
(* At every step of an operation, also one whose product register was      *)
(* reloaded by a trigger that came too early, the registers hold the       *)
(* partial product, or the quotient of the bits so far and its remainder;  *)
(* division by zero gives a quotient of ones and leaves the dividend.      *)
(***************************************************************************)
PartialProduct ==
  sum.base + sum.b * ((sum.a % Power[sum.step]) - (sum.a % Power[sum.from]))

QuotientSoFar(n, scale) ==
  LET ones == Power[n] - 1
  IN  IF sum.b = 0 \/ sum.base \div scale >= ones THEN ones ELSE sum.base \div scale

MathResults ==
  LET n == sum.step - sum.from
      scale == sum.b * Power[2 * ByteBits - sum.step]
      bits == QuotientSoFar(n, scale)
  IN  CASE sum.op = "multiply" ->
             /\ math.product = PartialProduct % Word
             /\ math.quotient = (sum.b * Byte + sum.a) \div Power[sum.step]
        [] sum.op = "divide" ->
             /\ math.product = sum.base - bits * scale
             /\ math.quotient = (sum.quotient * Power[n] + bits) % Word
        [] sum.op = "none" -> math.remaining = 0
=============================================================================
