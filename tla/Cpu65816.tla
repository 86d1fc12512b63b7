------------------------------ MODULE Cpu65816 ------------------------------
(***************************************************************************)
(* Execution of the 65816: an instruction is fetched, then its micro-        *)
(* program runs one slot per cycle, each slot a bus action followed by an    *)
(* internal operation on the registers and on three latches (the byte last   *)
(* read, the effective address, a scratch word).  A pending interrupt may    *)
(* replace an opcode fetch, never interrupt a micro-program.                 *)
(*                                                                         *)
(* Time, refresh and halting are in CpuClock; here every slot is one cycle.  *)
(* The bus is a flat memory of 2^24 bytes; SystemBus models what sits behind *)
(* it.                                                                      *)
(***************************************************************************)
EXTENDS Opcodes, TLC, Bitwise

VARIABLES
    core,            \* [regs, fetch_data, addr, addr_scratch, timing, halt]
    current_instr,   \* an opcode, an interrupt entry, or NoInstruction
    micro_op_index,  \* 1 is the first slot after the fetch
    memory,          \* [cells, fill]: written and loaded bytes over a background byte
    budget,          \* Bound: how many instructions may still be started
    requests,        \* interrupts that may still be delivered
    recorder         \* the MicroOpRecorder's view of the instruction last begun

vars == <<core, current_instr, micro_op_index, memory, budget, requests, recorder>>

NoInstruction == -1
(* What may be dispatched: an opcode, or the entry of a hardware interrupt.    *)
HwInterrupts == [NMI |-> 256, IRQ |-> 257]
HwInterruptTable == [entry \in {256, 257} |->
    MakeHwInterruptSpec(CHOOSE kind \in DOMAIN HwInterrupts : HwInterrupts[kind] = entry)]
Program(instr) == IF instr < 256 THEN InstructionTable[instr] ELSE HwInterruptTable[instr]

-----------------------------------------------------------------------------
(* Bytes, words and addresses.                                             *)
Low(w)         == w % 256
High(w)        == (w \div 256) % 256
BankOf(a)      == a \div 65536
Word(low, high) == low + 256 * high
WithLow(w, b)  == w - Low(w) + b
WithHigh(w, b) == w - 256 * High(w) + 256 * b
WithBank(a, b) == (a % 65536) + 65536 * b
WithByte(a, sel, b) ==
    CASE sel = "Low" -> WithLow(a, b) [] sel = "High" -> WithHigh(a, b) [] OTHER -> WithBank(a, b)
Plus16(w, delta)     == (w + delta) % 65536
Linear(a, delta)     == (a + delta) % 2^24
WithinBank(a, delta) == 65536 * BankOf(a) + Plus16(a, delta)
WithinPage(a, delta) == WithLow(a, (a + delta) % 256)
SignedByte(b) == IF b < 128 THEN b ELSE b - 256
SignedWord(w) == IF w < 32768 THEN w ELSE w - 65536

Peek(a)    == IF a \in DOMAIN memory.cells THEN memory.cells[a] ELSE memory.fill
Poke(a, b) == [memory EXCEPT !.cells = (a :> b) @@ @]

-----------------------------------------------------------------------------
(* Flags and registers.                                                    *)
ToByte(P) == Flag(P.N, 7) + Flag(P.V, 6) + Flag(P.M, 5) + Flag(P.X, 4)
                 + Flag(P.D, 3) + Flag(P.I, 2) + Flag(P.Z, 1) + Flag(P.C, 0)
FromByte(P, b) ==
    [N |-> Bit(b, 7), V |-> Bit(b, 6), M |-> IF P.E THEN P.M ELSE Bit(b, 5),
     X |-> IF P.E THEN P.X ELSE Bit(b, 4), D |-> Bit(b, 3), I |-> Bit(b, 2),
     Z |-> Bit(b, 1), C |-> Bit(b, 0), E |-> P.E]

IsAccumulator16Bit(r) == ~r.P.E /\ ~r.P.M
IsIndex16Bit(r)       == ~r.P.E /\ ~r.P.X
Page1(sp)             == 256 + Low(sp)
ApplyEmulationForcing(r) ==
    LET forced == IF r.P.E THEN [r EXCEPT !.P.M = TRUE, !.P.X = TRUE, !.SP = Page1(@)] ELSE r
    IN  IF forced.P.X THEN [forced EXCEPT !.X = Low(@), !.Y = Low(@)] ELSE forced
SetNz(r, value, wide) ==
    IF wide THEN [r EXCEPT !.P.Z = value = 0, !.P.N = Bit(value, 15)]
    ELSE [r EXCEPT !.P.Z = Low(value) = 0, !.P.N = Bit(value, 7)]
(* Mutant: an 8-bit result overwrites the whole register.                     *)
AssignWhole(r, reg, value, wide) == [r EXCEPT ![reg] = value]
Assign(r, reg, value, wide) == [r EXCEPT ![reg] = IF wide THEN value ELSE WithLow(@, Low(value))]
MaskedIndex(r, reg) == IF IsIndex16Bit(r) THEN r[reg] ELSE Low(r[reg])

(* Stack arithmetic: an old instruction stays in page 1 in emulation mode; a *)
(* new one uses all 16 bits and is put back at its end.                      *)
StepStack(r, new, delta) == IF r.P.E /\ ~new THEN Page1(r.SP + delta) ELSE Plus16(r.SP, delta)

-----------------------------------------------------------------------------
(* Decimal arithmetic, one digit at a time.  The overflow flag is taken when *)
(* the top digit has its carry in but not yet its own correction.            *)
(* Mutant: a digit of ten is left uncorrected.                               *)
AddDigitsTen(a, b, carry, width) ==
    LET digits == width \div 4
        partial[i \in 0..digits] ==        \* sum of the low i digits, corrected
            IF i = 0 THEN [sum |-> 0, carry |-> carry, raw |-> 0]
            ELSE LET unit == 16^(i - 1)
                     raw  == (Field(a, 4 * (i - 1), 4) + Field(b, 4 * (i - 1), 4)
                                 + Flag(partial[i - 1].carry, 0)) * unit + (partial[i - 1].sum % unit)
                     sum  == IF raw > 10 * unit + unit - 1 THEN raw + 6 * unit ELSE raw
                 IN  [sum |-> sum, carry |-> sum > 16 * unit - 1, raw |-> raw]
    IN  partial[digits]
AddDigits(a, b, carry, width) ==
    LET digits == width \div 4
        partial[i \in 0..digits] ==        \* sum of the low i digits, corrected
            IF i = 0 THEN [sum |-> 0, carry |-> carry, raw |-> 0]
            ELSE LET unit == 16^(i - 1)
                     raw  == (Field(a, 4 * (i - 1), 4) + Field(b, 4 * (i - 1), 4)
                                 + Flag(partial[i - 1].carry, 0)) * unit + (partial[i - 1].sum % unit)
                     sum  == IF raw > 10 * unit - 1 THEN raw + 6 * unit ELSE raw
                 IN  [sum |-> sum, carry |-> sum > 16 * unit - 1, raw |-> raw]
    IN  partial[digits]
SubDigits(a, nb, carry, width) ==
    LET digits == width \div 4
        partial[i \in 0..digits] ==
            IF i = 0 THEN [sum |-> 0, carry |-> carry, raw |-> 0]
            ELSE LET unit == 16^(i - 1)
                     raw  == (Field(a, 4 * (i - 1), 4) + Field(nb, 4 * (i - 1), 4)
                                 + Flag(partial[i - 1].carry, 0)) * unit + (partial[i - 1].sum % unit)
                     sum  == IF raw <= 16 * unit - 1 THEN raw - 6 * unit ELSE raw
                 IN  [sum |-> sum, carry |-> sum > 16 * unit - 1, raw |-> raw]
    IN  partial[digits]

SignsOverflow(a, b, result, width) ==
    Bit(a, width - 1) = Bit(b, width - 1) /\ Bit(a, width - 1) # Bit(result, width - 1)

Adc(r, operand, subtract, wide) ==
    LET width   == IF wide THEN 16 ELSE 8
        size    == 2^width
        a       == r.A % size
        b       == IF subtract THEN size - 1 - operand ELSE operand
        decimal == IF subtract THEN SubDigits(a, b, r.P.C, width) ELSE AddDigits(a, b, r.P.C, width)
        sum     == IF r.P.D THEN decimal.sum ELSE a + b + Flag(r.P.C, 0)
        forV    == IF r.P.D THEN decimal.raw ELSE sum
    IN  Assign([SetNz(r, sum % size, wide) EXCEPT
                  !.P.C = sum >= size, !.P.V = SignsOverflow(a, b, forV % size, width)],
               "A", sum % size, wide)

Shifted(op, operand, carry, wide) ==
    LET size == IF wide THEN 65536 ELSE 256
    IN  CASE op = "ASL" -> [result |-> (2 * operand) % size, carry |-> 2 * operand >= size]
          [] op = "ROL" -> [result |-> (2 * operand + Flag(carry, 0)) % size,
                            carry  |-> 2 * operand >= size]
          [] op = "LSR" -> [result |-> operand \div 2, carry |-> Bit(operand, 0)]
          [] op = "ROR" -> [result |-> operand \div 2 + (IF carry THEN size \div 2 ELSE 0),
                            carry  |-> Bit(operand, 0)]

-----------------------------------------------------------------------------
(* Internal operations that move the latches and form addresses.             *)
LoadReg(s, p) ==
    LET reg  == RegOf(p)
        high == LoadSelOf(p) = "High"
        value == IF high THEN WithHigh(s.regs[reg], s.fetch_data) ELSE WithLow(s.regs[reg], s.fetch_data)
        loaded == [s.regs EXCEPT ![reg] = value]
    IN  CASE reg = "P" -> [s EXCEPT !.regs =
                             ApplyEmulationForcing([@ EXCEPT !.P = FromByte(@, s.fetch_data)])]
          [] reg = "DBR" -> [s EXCEPT !.regs = SetNz([@ EXCEPT !.DBR = s.fetch_data],
                                                     s.fetch_data, FALSE)]
          [] OTHER -> [s EXCEPT !.regs = IF ~high /\ (reg = "DP" \/ ~Bit(p, 6)) THEN loaded
                                         ELSE SetNz(loaded, value, high),
                                !.addr = IF Bit(p, 7) THEN Linear(@, 1) ELSE @]

BranchHolds(P, cond) ==
    CASE cond = "Always" -> TRUE [] cond = "Z" -> P.Z [] cond = "NotZ" -> ~P.Z
      [] cond = "C" -> P.C [] cond = "NotC" -> ~P.C [] cond = "N" -> P.N [] cond = "NotN" -> ~P.N
      [] cond = "V" -> P.V [] cond = "NotV" -> ~P.V

BranchTo(s, wide) ==
    LET target == Plus16(s.regs.PC, IF wide THEN SignedWord(s.addr % 65536)
                                    ELSE SignedByte(s.fetch_data))
    IN  [s EXCEPT !.regs.PC = target,
                  !.timing.branch_page_crossed = IF wide THEN @ ELSE High(target) # High(s.regs.PC)]

DirectPageAligned(r) == r.P.E /\ Low(r.DP) = 0
AddrFromDp(s) == IF DirectPageAligned(s.regs) THEN WithinPage(s.regs.DP, s.fetch_data)
                 ELSE Plus16(s.regs.DP, s.fetch_data)

StashLow(s, next)  == [s EXCEPT !.addr_scratch = WithLow(@, s.fetch_data), !.addr = next]
StashHigh(s, next) == [s EXCEPT !.addr_scratch = WithHigh(@, s.fetch_data), !.addr = next]
(* Mutant: the pointer never wraps inside the direct page.                    *)
DpPointerNextInBank(s, new) == WithinBank(s.addr, 1)
DpPointerNext(s, new) ==
    IF DirectPageAligned(s.regs) /\ ~new THEN WithinPage(s.addr, 1) ELSE WithinBank(s.addr, 1)
DpXPointerNext(s) == IF s.regs.P.E THEN WithinPage(s.addr, 1) ELSE WithinBank(s.addr, 1)

AddIndexToAddr(s, p) ==
    LET index == MaskedIndex(s.regs, IF RegOf(p) = "Y" THEN "Y" ELSE "X")
    IN  [s EXCEPT !.addr = IF ~Bit(p, 4) THEN Linear(@, index)
                           ELSE IF Bit(p, 5) /\ s.regs.P.E THEN WithinPage(@, index)
                           ELSE WithinBank(@, index)]
AddrHighDbrAddIndex(s, p) ==
    LET index == MaskedIndex(s.regs, IF RegOf(p) = "Y" THEN "Y" ELSE "X")
        base  == WithBank(WithHigh(s.addr, s.fetch_data), s.regs.DBR)
    IN  [s EXCEPT !.addr = Linear(base, index),
                  !.timing.indexed_page_crossed = High(base) # High(Plus16(base, index))]
AddrByteFromFetch(s, p) ==
    LET placed == WithByte(s.addr, AddrSelOf(p), s.fetch_data)
    IN  [s EXCEPT !.addr =
           IF AddrSelOf(p) # "High" THEN placed
           ELSE CASE BankSrcOf(p) = "Leave" -> placed
                  [] BankSrcOf(p) = "DBR" -> WithBank(placed, s.regs.DBR)
                  [] BankSrcOf(p) = "PBR" -> WithBank(placed, s.regs.PBR)
                  [] BankSrcOf(p) = "Zero" -> WithBank(placed, 0)]
ScratchBank(s, withY) ==
    LET base == WithBank(s.addr_scratch, s.fetch_data)
    IN  IF withY THEN Linear(base, MaskedIndex(s.regs, "Y")) ELSE base
AddrByteAndSetPc(s, p) ==
    LET target == WithByte(s.addr, AddrSelOf(p), s.fetch_data)
    IN  [s EXCEPT !.addr = target, !.regs.PC = target % 65536,
                  !.regs.PBR = IF Bit(p, 2) THEN BankOf(target) ELSE @]

(* Internal operations on registers and flags.                              *)
IncDec(r, p) ==
    LET reg  == IncDecRegOf(p)
        wide == IF reg = "A" THEN IsAccumulator16Bit(r) ELSE IsIndex16Bit(r)
        next == Assign(r, reg, Plus16(r[reg], IF Bit(p, 0) THEN -1 ELSE 1), wide)
    IN  SetNz(next, next[reg], wide)
Transfer(r, p) ==
    LET src  == RegOf(p)
        dst  == DstRegOf(p)
        wide == CASE dst = "DP" -> TRUE
                  [] dst = "A" -> src \in {"DP", "SP"} \/ IsAccumulator16Bit(r)
                  [] OTHER -> IsIndex16Bit(r)
        next == Assign(r, dst, r[src], wide)
    IN  IF dst = "SP" THEN [r EXCEPT !.SP = IF r.P.E THEN Page1(r[src]) ELSE r[src]]
        ELSE SetNz(next, next[dst], wide)
MaskStatusBy(r, mask, orBits) ==
    LET p == ToByte(r.P)
    IN  ApplyEmulationForcing([r EXCEPT !.P = FromByte(@, IF orBits THEN p | mask
                                                         ELSE p - (p & mask))])
ExchangeCarryEmulation(r) ==
    ApplyEmulationForcing([r EXCEPT !.P.C = r.P.E, !.P.E = r.P.C])
SwapBA(r) == LET a == Word(High(r.A), Low(r.A)) IN SetNz([r EXCEPT !.A = a], a, FALSE)

InterruptVector(kind, e) ==
    CASE kind = "BRK" -> IF e THEN \hFFFE ELSE \hFFE6
      [] kind = "COP" -> IF e THEN \hFFF4 ELSE \hFFE4
      [] kind = "NMI" -> IF e THEN \hFFFA ELSE \hFFEA
      [] kind = "IRQ" -> IF e THEN \hFFFE ELSE \hFFEE
      [] kind = "ABORT" -> IF e THEN \hFFF8 ELSE \hFFE8

(* Mutant: the byte counter is decremented with the width of the accumulator.  *)
MoveAdjustNarrow(r, dec) ==
    LET delta == IF dec THEN -1 ELSE 1
        wide  == IsIndex16Bit(r)
    IN  Assign(Assign(Assign(r, "X", Plus16(r.X, delta), wide), "Y", Plus16(r.Y, delta), wide),
               "A", Plus16(r.A, -1), IsAccumulator16Bit(r))
MoveAdjust(r, dec) ==
    LET delta == IF dec THEN -1 ELSE 1
        wide  == IsIndex16Bit(r)
    IN  [Assign(Assign(r, "X", Plus16(r.X, delta), wide), "Y", Plus16(r.Y, delta), wide)
           EXCEPT !.A = Plus16(@, -1)]

ShiftRotateA(r, op) ==
    LET wide == IsAccumulator16Bit(r)
        out  == Shifted(op, IF wide THEN r.A ELSE Low(r.A), r.P.C, wide)
    IN  [Assign(SetNz(r, out.result, wide), "A", out.result, wide) EXCEPT !.P.C = out.carry]

(* Read-modify-write: an 8-bit operand is rewritten in place; a 16-bit one    *)
(* leaves its high byte in the fetch latch and its low byte in the scratch,   *)
(* for the two writes that follow, high first.                               *)
RmwMem(s, op) ==
    LET wide    == IsAccumulator16Bit(s.regs)
        size    == IF wide THEN 65536 ELSE 256
        operand == IF wide THEN Word(Low(s.addr_scratch), s.fetch_data) ELSE s.fetch_data
        a       == s.regs.A % size
        out     == Shifted(op, operand, s.regs.P.C, wide)
        result  == CASE op = "INC" -> (operand + 1) % size
                     [] op = "DEC" -> (operand + size - 1) % size
                     [] op = "TSB" -> operand | a
                     [] op = "TRB" -> operand - (operand & a)
                     [] OTHER -> out.result
        regs    == CASE op \in {"TSB", "TRB"} -> [s.regs EXCEPT !.P.Z = (operand & a) = 0]
                     [] op \in {"INC", "DEC"} -> SetNz(s.regs, result, wide)
                     [] OTHER -> [SetNz(s.regs, result, wide) EXCEPT !.P.C = out.carry]
    IN  IF wide
        THEN [s EXCEPT !.regs = regs, !.fetch_data = High(result),
                       !.addr_scratch = WithLow(@, Low(result))]
        ELSE [s EXCEPT !.regs = regs, !.fetch_data = result, !.addr = Linear(@, -1)]

Alu(s, p, wide) ==
    LET r       == s.regs
        op      == AluOpOf(p)
        size    == IF wide THEN 65536 ELSE 256
        operand == IF wide THEN Word(Low(IF Bit(p, 4) THEN s.addr_scratch ELSE s.addr), s.fetch_data)
                   ELSE s.fetch_data
        logical == CASE op = "AND" -> (r.A % size) & operand
                     [] op = "ORA" -> (r.A % size) | operand
                     [] op = "EOR" -> (r.A % size) ^^ operand
        compared == (CASE op = "CMP" -> r.A [] op = "CPX" -> r.X [] op = "CPY" -> r.Y) % size
    IN  CASE op = "ADC" -> Adc(r, operand, FALSE, wide)
          [] op = "SBC" -> Adc(r, operand, TRUE, wide)
          [] op \in {"AND", "ORA", "EOR"} -> Assign(SetNz(r, logical, wide), "A", logical, wide)
          [] op \in {"CMP", "CPX", "CPY"} ->
               [SetNz(r, (compared - operand) % size, wide) EXCEPT !.P.C = compared >= operand]
          [] op = "BITI" -> [r EXCEPT !.P.Z = ((r.A % size) & operand) = 0]
          [] op = "BIT"  -> [r EXCEPT !.P.Z = ((r.A % size) & operand) = 0,
                                      !.P.N = 2 * operand >= size,
                                      !.P.V = Bit(operand, IF wide THEN 14 ELSE 6)]

ExecuteInternalOp(s, op, p, new) ==
    CASE op = "None" -> s
      [] op = "LoadReg" -> LoadReg(s, p)
      [] op = "LoadPcLowFromFetch" -> [s EXCEPT !.regs.PC = WithLow(@, s.fetch_data)]
      [] op = "LoadPcHighFromFetch" -> [s EXCEPT !.regs.PC = WithHigh(@, s.fetch_data)]
      [] op = "LoadPbrFromFetch" -> [s EXCEPT !.regs.PBR = s.fetch_data]
      [] op = "SetBranchTakenCond" -> [s EXCEPT !.timing.branch_taken = BranchHolds(s.regs.P, CondOf(p))]
      [] op = "BranchRelative" -> BranchTo(s, Bit(p, 0))
      [] op = "SetAddrFromDp" -> [s EXCEPT !.addr = AddrFromDp(s)]
      [] op = "SetAddrFromSp" -> [s EXCEPT !.addr = Plus16(s.regs.SP, s.fetch_data)]
      [] op = "StashIndirectLow" -> StashLow(s, WithinBank(s.addr, 1))
      [] op = "StashIndirectHigh" -> StashHigh(s, WithinBank(s.addr, 1))
      [] op = "StashOperandLow" -> StashLow(s, Linear(s.addr, 1))
      [] op = "StashDpIndirectLow" -> StashLow(s, DpPointerNext(s, new))
      [] op = "StashDpXIndirectLow" -> StashLow(s, DpXPointerNext(s))
      [] op = "FormAddrFromScratchDbr" ->
           [s EXCEPT !.addr = WithBank(Word(Low(s.addr_scratch), s.fetch_data), s.regs.DBR)]
      [] op = "FormAddrFromScratchBank" -> [s EXCEPT !.addr = ScratchBank(s, Bit(p, 0))]
      [] op = "AddIndexToAddr" -> AddIndexToAddr(s, p)
      [] op = "SetAddrHighDbrAddIndex" -> AddrHighDbrAddIndex(s, p)
      [] op = "SetAddrBankFromFetchAddX" ->
           [s EXCEPT !.addr = Linear(WithBank(@, s.fetch_data), MaskedIndex(s.regs, "X"))]
      [] op = "SetAddrByteFromFetch" -> AddrByteFromFetch(s, p)
      [] op = "ModifyAddr" -> [s EXCEPT !.addr = Linear(@, IF Bit(p, 4) THEN -1 ELSE 1)]
      [] op = "ModifySp" -> [s EXCEPT !.regs.SP = StepStack(s.regs, new, IF Bit(p, 5) THEN 1 ELSE -1)]
      [] op = "ModifyPc" -> [s EXCEPT !.regs.PC = Plus16(@, IF Bit(p, 4) THEN -1 ELSE 1)]
      [] op = "IncDecReg" -> [s EXCEPT !.regs = IncDec(@, p)]
      [] op = "SetFlag" -> [s EXCEPT !.regs.P[SetFlagOf(p)] = Bit(p, 0)]
      [] op = "MaskStatus" -> [s EXCEPT !.regs = MaskStatusBy(@, s.fetch_data, Bit(p, 0))]
      [] op = "ExchangeCarryEmulation" -> [s EXCEPT !.regs = ExchangeCarryEmulation(@)]
      [] op = "SwapBA" -> [s EXCEPT !.regs = SwapBA(@)]
      [] op = "AddPcToAddr" -> [s EXCEPT !.addr = WithinBank(@, s.regs.PC)]
      [] op = "SetInterruptVector" -> [s EXCEPT !.addr = InterruptVector(InterruptOf(p), s.regs.P.E)]
      [] op = "EnterInterruptHandler" ->
           [s EXCEPT !.regs.PC = Word(Low(s.addr_scratch), s.fetch_data), !.regs.PBR = 0,
                     !.regs.P.I = TRUE, !.regs.P.D = FALSE]
      [] op = "HaltCpu" -> [s EXCEPT !.halt = IF Bit(p, 0) THEN "stp" ELSE "wai"]
      [] op = "MoveSetDbr" -> [s EXCEPT !.regs.DBR = s.fetch_data]
      [] op = "MoveSetAddrFromSrc" -> [s EXCEPT !.addr = WithBank(s.regs.X, s.fetch_data)]
      [] op = "MoveSetAddrFromDst" -> [s EXCEPT !.addr = WithBank(s.regs.Y, s.regs.DBR)]
      [] op = "MoveAdjust" -> [s EXCEPT !.regs = MoveAdjust(@, Bit(p, 4))]
      [] op = "MoveLoopCheck" -> [s EXCEPT !.regs.PC = IF s.regs.A = 65535 THEN @ ELSE Plus16(@, -3)]
      [] op = "TransferReg" -> [s EXCEPT !.regs = Transfer(@, p)]
      [] op = "LoadAddrByteAndSetPc" -> AddrByteAndSetPc(s, p)
      [] op = "SetPcFromScratchAndFetch" ->
           IF Bit(p, 0) THEN [s EXCEPT !.regs.PC = s.addr_scratch, !.regs.PBR = s.fetch_data]
           ELSE [s EXCEPT !.regs.PC = Word(Low(s.addr_scratch), s.fetch_data)]
      [] op = "ShiftRotateA" -> [s EXCEPT !.regs = ShiftRotateA(@, ShiftOpOf(p))]
      [] op = "RmwMem" -> RmwMem(s, RmwOpOf(p))
      [] op \in {"Alu8Imm", "Alu16Imm"} -> [s EXCEPT !.regs = Alu(s, p, op = "Alu16Imm")]

-----------------------------------------------------------------------------
(* Bus actions.                                                            *)
WrittenByte(s, p) ==
    LET reg(w) == IF WriteSelOf(p) = "Low" THEN Low(w) ELSE High(w)
        src    == WriteSrcOf(p)
    IN  CASE src = "FetchData" -> s.fetch_data [] src = "Zero" -> 0
          [] src = "ScratchLow" -> Low(s.addr_scratch)
          [] src \in {"A", "X", "Y"} -> reg(s.regs[src])
PushedByte(s, p) ==
    LET r      == s.regs
        src    == PushSrcOf(p)
        status == ToByte(r.P)
    IN  CASE src = "A8" -> Low(r.A) [] src = "AHigh" -> High(r.A)
          [] src = "X8" -> Low(r.X) [] src = "XHigh" -> High(r.X)
          [] src = "Y8" -> Low(r.Y) [] src = "YHigh" -> High(r.Y)
          [] src = "Pcl" -> Low(r.PC) [] src = "Pch" -> High(r.PC)
          [] src = "Pbr" -> r.PBR [] src = "Dbr" -> r.DBR
          [] src = "P" -> status
          [] src = "PHwIrq" -> IF r.P.E THEN status - (status & 16) ELSE status
          [] src = "DpLow" -> Low(r.DP) [] src = "DpHigh" -> High(r.DP)
          [] src = "AddrLow" -> Low(s.addr) [] src = "AddrHigh" -> High(s.addr)

PcAddr(r) == WithBank(r.PC, r.PBR)
(* Where the slot's bus action goes, and the core once the byte is latched.   *)
BusAddress(s, action, new) ==
    CASE action = "FetchPc" -> PcAddr(s.regs)
      [] action \in {"ReadAddr", "WriteRegByte"} -> s.addr
      [] action \in {"PushStack", "PullStack"} -> s.regs.SP
      [] action = "PreIncPullStack" -> StepStack(s.regs, new, 1)
      [] OTHER -> 0
AfterBus(s, action, address, new) ==
    CASE action = "FetchPc" -> [s EXCEPT !.fetch_data = Peek(address), !.regs.PC = Plus16(@, 1)]
      [] action \in {"ReadAddr", "PullStack"} -> [s EXCEPT !.fetch_data = Peek(address)]
      [] action = "PreIncPullStack" -> [s EXCEPT !.fetch_data = Peek(address), !.regs.SP = address]
      [] OTHER -> s
Writes(action) == action \in {"WriteRegByte", "PushStack"}

-----------------------------------------------------------------------------
TimingContext(dpLowNonzero) ==
    [branch_taken |-> FALSE, branch_page_crossed |-> FALSE,
     dp_low_nonzero |-> dpLowNonzero, indexed_page_crossed |-> FALSE]

ConditionBits(s) ==
    {c \in 0..4 :
        \/ c = BranchTaken /\ s.timing.branch_taken
        \/ c = Accumulator16 /\ IsAccumulator16Bit(s.regs)
        \/ c = Index16 /\ IsIndex16Bit(s.regs)
        \/ c = EmulationMode /\ s.regs.P.E
        \/ c = BranchPageCrossed /\ (\/ s.timing.branch_page_crossed
                                     \/ s.timing.dp_low_nonzero
                                     \/ s.timing.indexed_page_crossed)}
EvaluateTimingRule(s, slot) == ConditionBits(s) \in slot.rule

(* What follows a cycle: the next slot whose rule holds, or the end of the    *)
(* instruction, which restores the stack page of a new instruction.          *)
FinishInstruction(s, new) ==
    [s EXCEPT !.regs.SP = IF new /\ s.regs.P.E THEN Page1(@) ELSE @,
              !.timing = TimingContext(FALSE)]
DrainSkippedMicroOps(s, instr, spec, from) ==
    LET ahead == {j \in from..Len(spec.slots) : EvaluateTimingRule(s, spec.slots[j])}
    IN  IF ahead = {}
        THEN /\ core' = FinishInstruction(s, spec.new)
             /\ current_instr' = NoInstruction
             /\ micro_op_index' = 0
        ELSE /\ core' = s
             /\ current_instr' = instr
             /\ micro_op_index' = CHOOSE j \in ahead : \A k \in ahead : j <= k

(* The recorder notes each cycle under the instruction it belongs to.         *)
Recorded(action, address, value) == [action |-> action, address |-> address, value |-> value]
BeginRecord(instr, spec, cycles) ==
    [opcode |-> instr, spec |-> [mnemonic |-> spec.mnemonic, mode |-> spec.mode],
     regs |-> core.regs, cycles |-> cycles]
AtBoundary == current_instr = NoInstruction

BeginInstruction(at, code, spec) ==
    /\ LET s == [core EXCEPT !.fetch_data = code, !.regs.PC = Plus16(@, 1),
                             !.timing = TimingContext(spec.dp /\ Low(core.regs.DP) # 0)]
       IN  DrainSkippedMicroOps(s, code, spec, 1)
    /\ recorder' = BeginRecord(code, spec, <<Recorded("FetchPc", at, code)>>)

FetchOpcode ==
    /\ AtBoundary
    /\ core.halt = "none"
    /\ budget > 0
    /\ LET code == Peek(PcAddr(core.regs))
       IN  BeginInstruction(PcAddr(core.regs), code, InstructionTable[code])
    /\ budget' = budget - 1
    /\ UNCHANGED <<memory, requests>>

(* The boundary sampler replaces the fetch by the entry for the interrupt.    *)
TakeInterrupt(kind) ==
    /\ AtBoundary
    /\ core.halt = "none"
    /\ kind \in requests
    /\ kind = "IRQ" => ~core.regs.P.I
    /\ core' = [core EXCEPT !.timing = TimingContext(FALSE)]
    /\ current_instr' = HwInterrupts[kind]
    /\ micro_op_index' = 1
    /\ recorder' = BeginRecord(HwInterrupts[kind], HwInterruptTable[HwInterrupts[kind]], << >>)
    /\ requests' = requests \ {kind}
    /\ UNCHANGED <<memory, budget>>

(* One slot: its bus action, its record, its internal operation.              *)
ExecuteSlot(spec, slot, address) ==
    LET byte    == IF slot.bus = "PushStack" THEN PushedByte(core, slot.params)
                   ELSE IF slot.bus = "WriteRegByte" THEN WrittenByte(core, slot.params)
                   ELSE Peek(address)
        latched == AfterBus(core, slot.bus, address, spec.new)
    IN  /\ memory' = IF Writes(slot.bus) THEN Poke(address, byte) ELSE memory
        /\ recorder' = [recorder EXCEPT !.cycles =
                          Append(@, IF slot.bus = "None" THEN Recorded("None", 0, 0)
                                    ELSE Recorded(slot.bus, address, byte))]
        /\ DrainSkippedMicroOps(ExecuteInternalOp(latched, slot.op, slot.params, spec.new),
                                current_instr, spec, micro_op_index + 1)

ExecuteMicroOp ==
    /\ ~AtBoundary
    /\ LET spec == Program(current_instr)
           slot == spec.slots[micro_op_index]
       IN  ExecuteSlot(spec, slot, BusAddress(core, slot.bus, spec.new))
    /\ UNCHANGED <<budget, requests>>

Next ==
    \/ FetchOpcode
    \/ \E kind \in {"NMI", "IRQ"} : TakeInterrupt(kind)
    \/ ExecuteMicroOp

StartAt(regs, mem, instructions, interrupts) ==
    /\ core = [regs |-> regs, fetch_data |-> 0, addr |-> 0, addr_scratch |-> 0,
               timing |-> TimingContext(FALSE), halt |-> "none"]
    /\ current_instr = NoInstruction
    /\ micro_op_index = 0
    /\ memory = mem
    /\ budget = instructions
    /\ requests = interrupts
    /\ recorder = [opcode |-> NoInstruction, spec |-> [mnemonic |-> "none", mode |-> "none"],
                   regs |-> regs, cycles |-> << >>]

TypeOK ==
    /\ \A reg \in {"A", "X", "Y", "SP", "DP", "PC"} : core.regs[reg] \in 0..65535
    /\ core.regs.DBR \in 0..255 /\ core.regs.PBR \in 0..255
    /\ core.regs.P \in [{"N", "V", "M", "X", "D", "I", "Z", "C", "E"} -> BOOLEAN]
    /\ core.fetch_data \in 0..255
    /\ core.addr \in 0..(2^24 - 1)
    /\ core.addr_scratch \in 0..65535
    /\ core.halt \in {"none", "wai", "stp"}
    /\ AtBoundary => micro_op_index = 0
    /\ ~AtBoundary => micro_op_index \in DOMAIN Program(current_instr).slots
    /\ \A a \in DOMAIN memory.cells : a \in 0..(2^24 - 1) /\ memory.cells[a] \in 0..255
    /\ budget \in Nat
=============================================================================
