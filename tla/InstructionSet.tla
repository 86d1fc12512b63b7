--------------------------- MODULE InstructionSet ---------------------------
(***************************************************************************)
(* What an instruction promises, stated without the micro-programs: how     *)
(* many cycles it takes, where it continues, which addresses it touches,    *)
(* what it computes and what it leaves alone.  The promises are checked     *)
(* against what the cycles of Cpu65816 did, as the recorder saw them.       *)
(***************************************************************************)
EXTENDS Cpu65816

CONSTANTS
    Profiles,    \* register files to start single instructions from
    Modes,       \* [E, M, X] widths to start them in
    Operands,    \* what follows the opcode
    Backgrounds, \* the byte every other cell holds, with the flags N V D I Z C set or clear
    Samples,     \* [opcodes, a, b]: immediate arithmetic on all pairs from a and b
    Programs     \* [regs, cells, fill, budget, requests]: longer runs, with interrupts

VARIABLE frames  \* History: the openings (calls, pushes, interrupts) not yet closed

isaVars == <<vars, frames>>

WithMode(regs, mode, flags) ==
    ApplyEmulationForcing([regs EXCEPT !.P =
        [N |-> flags, V |-> flags, D |-> flags, I |-> flags, Z |-> flags, C |-> flags,
         M |-> mode.M, X |-> mode.X, E |-> mode.E]])
CodeAt(pc, pbr, bytes) ==
    LET at(i) == WithBank(Plus16(pc, i - 1), pbr)
    IN  [a \in {at(i) : i \in DOMAIN bytes} |-> bytes[CHOOSE i \in DOMAIN bytes : at(i) = a]]

SingleInstruction ==
    \E profile \in Profiles, mode \in Modes, bg \in Backgrounds, operand \in Operands,
       opcode \in 0..255 :
        StartAt(WithMode(profile, mode, bg.flags),
                [cells |-> CodeAt(profile.PC, profile.PBR, <<opcode>> \o operand),
                 fill |-> bg.fill], 1, {})
ImmediateArithmetic ==
    \E sample \in Samples : \E opcode \in sample.opcodes, a \in sample.a, b \in sample.b,
       decimal \in BOOLEAN, carry \in BOOLEAN, wide \in {sample.wide} :
        \E profile \in {CHOOSE q \in Profiles : TRUE} :
        StartAt([WithMode(profile, [E |-> FALSE, M |-> ~wide, X |-> ~wide], FALSE)
                   EXCEPT !.A = a, !.P.D = decimal, !.P.C = carry],
                [cells |-> CodeAt(profile.PC, profile.PBR, <<opcode, Low(b), High(b)>>),
                 fill |-> 0], 1, {})
RunProgram ==
    \E p \in Programs :
        StartAt(p.regs, [cells |-> p.cells, fill |-> p.fill], p.budget, p.requests)

-----------------------------------------------------------------------------
(* What the recorder saw of the instruction that has just ended.            *)
Completed   == AtBoundary /\ recorder.opcode \in 0..255
spec        == recorder.spec
before      == recorder.regs
after       == core.regs
of(actions) == SelectSeq(Tail(recorder.cycles), LAMBDA c : c.action \in actions)
Fetched     == of({"FetchPc"})
Data        == of({"ReadAddr", "WriteRegByte"})
Pulled      == of({"PreIncPullStack", "PullStack"})
Pushed      == of({"PushStack"})
op(i)       == Fetched[i].value
operand16   == Word(op(1), op(2))

m == IF IsAccumulator16Bit(before) THEN 0 ELSE 1
x == IF IsIndex16Bit(before) THEN 0 ELSE 1
e == IF before.P.E THEN 1 ELSE 0
w == IF Low(before.DP) = 0 THEN 0 ELSE 1
X == MaskedIndex(before, "X")
Y == MaskedIndex(before, "Y")

IndexMnemonics == {"LDX", "LDY", "STX", "STY", "CPX", "CPY"}
Stores         == {"STA", "STX", "STY", "STZ"}
AccumulatorOps == {"LDA", "ADC", "SBC", "AND", "ORA", "EOR", "CMP", "BIT"}
ModifyOps      == DOMAIN RmwRow \union {"TSB", "TRB"}
Conditional    == {"BEQ", "BNE", "BCS", "BCC", "BMI", "BPL", "BVS", "BVC"}
narrow         == IF spec.mnemonic \in IndexMnemonics THEN x ELSE m

ReadsOrWrites ==
    /\ spec.mnemonic \in IndexMnemonics \union Stores \union AccumulatorOps \union ModifyOps
    /\ spec.mode \notin {"implied", "immediate", "immediate index"}

Taken ==
    CASE spec.mnemonic = "BRA" -> TRUE
      [] spec.mnemonic = "BEQ" -> before.P.Z [] spec.mnemonic = "BNE" -> ~before.P.Z
      [] spec.mnemonic = "BCS" -> before.P.C [] spec.mnemonic = "BCC" -> ~before.P.C
      [] spec.mnemonic = "BMI" -> before.P.N [] spec.mnemonic = "BPL" -> ~before.P.N
      [] spec.mnemonic = "BVS" -> before.P.V [] spec.mnemonic = "BVC" -> ~before.P.V
Target == Plus16(before.PC, 2 + SignedByte(op(1)))

IndexedCrossing ==
    LET index == IF spec.mode = "absolute indexed X" THEN X ELSE Y
    IN  IF High(operand16) # High(Plus16(operand16, index)) THEN 1 ELSE 0

(* The published cycle counts, by addressing mode for the instructions that   *)
(* have an operand in memory, by mnemonic for the rest.                      *)
MemoryCycles ==
    LET indexed == IF spec.mnemonic \in Stores \union ModifyOps THEN 6
                   ELSE 6 - x + x * IndexedCrossing
        base == CASE spec.mode = "direct page" -> 4 + w
                  [] spec.mode \in {"direct page indexed X", "direct page indexed Y"} -> 5 + w
                  [] spec.mode \in {"absolute", "stack relative"} -> 5
                  [] spec.mode \in {"absolute long", "absolute long indexed X"} -> 6
                  [] spec.mode \in {"absolute indexed X", "absolute indexed Y"} -> indexed
                  [] spec.mode = "direct indirect" -> 6 + w
                  [] spec.mode \in {"direct indirect long", "direct indexed indirect X",
                                    "direct indirect indexed Y",
                                    "direct indirect long indexed Y"} -> 7 + w
                  [] spec.mode = "stack relative indirect indexed Y" -> 8
    IN  base - narrow + (IF spec.mnemonic \in ModifyOps THEN 3 - m ELSE 0)
OtherCycles ==
    LET n == spec.mnemonic IN
    CASE spec.mode \in {"immediate", "immediate index"} -> 3 - narrow
      [] n \in {"XBA", "STP", "WAI", "REP", "SEP", "PHB", "PHK", "PHP"} -> 3
      [] n = "PHA" -> 4 - m [] n \in {"PHX", "PHY"} -> 4 - x
      [] n = "PLA" -> 5 - m [] n \in {"PLX", "PLY"} -> 5 - x
      [] n \in {"PHD", "PLB", "PLP", "BRL"} -> 4
      [] n \in {"PLD", "PEA"} -> 5
      [] n = "PEI" -> 6 + w
      [] n \in {"PER", "RTS", "RTL"} -> 6
      [] n = "RTI" -> 7 - e
      [] n \in {"BRK", "COP"} -> 8 - e
      [] n \in {"MVN", "MVP"} -> 7
      [] n = "JMP" -> (CASE spec.mode = "absolute" -> 3 [] spec.mode = "absolute long" -> 4
                         [] spec.mode = "absolute indirect" -> 5 [] OTHER -> 6)
      [] n = "JSR" -> IF spec.mode = "absolute" THEN 6 ELSE 8
      [] n = "JSL" -> 8
      [] n \in Conditional \union {"BRA"} ->
           IF ~Taken THEN 2
           ELSE 3 + (IF High(Target) # High(Plus16(before.PC, 2)) THEN e ELSE 0)
      [] OTHER -> 2

(* An instruction takes exactly the cycles the published formula gives for     *)
(* its mode, its operand widths, a direct page off a page boundary, and a page *)
(* crossed: slots skipped by a timing rule and the three conditions that share *)
(* one bit of the truth table never cost or save a cycle they should not.      *)
CyclesAsPublished ==
    Completed => Len(recorder.cycles) = IF ReadsOrWrites THEN MemoryCycles ELSE OtherCycles

-----------------------------------------------------------------------------
(* Where the operand is.  Pointers read from memory are taken from the first  *)
(* data cycles; everything else from the operand bytes and the registers.     *)
DirectBase == Plus16(before.DP, op(1))
DirectIndexed(index) ==
    IF before.P.E THEN WithinPage(DirectBase, index) ELSE Plus16(DirectBase, index)
PointerCells ==      \* where the bytes of the pointer lie
    CASE spec.mode \in {"direct indirect", "direct indirect indexed Y"} ->
           <<DirectBase, IF before.P.E /\ Low(before.DP) = 0 THEN WithinPage(DirectBase, 1)
                         ELSE Plus16(DirectBase, 1)>>
      [] spec.mode = "direct indexed indirect X" ->
           <<DirectIndexed(X), IF before.P.E THEN WithinPage(DirectIndexed(X), 1)
                               ELSE Plus16(DirectIndexed(X), 1)>>
      [] spec.mode \in {"direct indirect long", "direct indirect long indexed Y"} ->
           <<DirectBase, Plus16(DirectBase, 1), Plus16(DirectBase, 2)>>
      [] spec.mode = "stack relative indirect indexed Y" ->
           <<Plus16(before.SP, op(1)), Plus16(before.SP, op(1) + 1)>>
      [] OTHER -> << >>
Pointer == LET at(i) == Data[i].value
           IN  Word(at(1), at(2)) + 65536 * (IF Len(PointerCells) = 3 THEN at(3) ELSE before.DBR)
EffectiveAddress ==
    LET absolute == WithBank(operand16, before.DBR)
        long     == operand16 + 65536 * op(3)
        mode     == spec.mode IN
    CASE mode = "direct page" -> DirectBase
      [] mode = "direct page indexed X" -> DirectIndexed(X)
      [] mode = "direct page indexed Y" -> DirectIndexed(Y)
      [] mode = "absolute" -> absolute
      [] mode = "absolute indexed X" -> Linear(absolute, X)
      [] mode = "absolute indexed Y" -> Linear(absolute, Y)
      [] mode = "absolute long" -> long
      [] mode = "absolute long indexed X" -> Linear(long, X)
      [] mode = "stack relative" -> Plus16(before.SP, op(1))
      [] mode \in {"direct indirect", "direct indexed indirect X", "direct indirect long"} -> Pointer
      [] OTHER -> Linear(Pointer, Y)
DataCells ==
    LET second == Linear(EffectiveAddress, 1) IN
    IF spec.mnemonic \in ModifyOps
    THEN IF narrow = 1 THEN <<EffectiveAddress, EffectiveAddress>>
         ELSE <<EffectiveAddress, second, second, EffectiveAddress>>
    ELSE IF narrow = 1 THEN <<EffectiveAddress>> ELSE <<EffectiveAddress, second>>

(* The bus sees exactly the addresses the addressing mode defines, in order:   *)
(* the pointer with the wrap of its page or its bank, then the operand, low    *)
(* byte first (a read-modify-write writes back high byte first).  The latches, *)
(* the scratch word and the index additions in between leave no trace.         *)
OperandAddresses ==
    (Completed /\ ReadsOrWrites) =>
        [i \in DOMAIN Data |-> Data[i].address] = PointerCells \o DataCells

-----------------------------------------------------------------------------
(* Where execution continues.                                              *)
ReturnFrames == [RTS |-> 2, RTL |-> 3, RTI |-> 3 + (1 - e)]
VectorCells ==
    CASE spec.mnemonic \in {"BRK", "COP"} ->
           LET v == InterruptVector(spec.mnemonic, before.P.E) IN <<v, v + 1>>
      [] spec.mode = "absolute indirect" -> <<operand16, Plus16(operand16, 1)>>
      [] spec.mode = "absolute indirect long" ->
           <<operand16, Plus16(operand16, 1), Plus16(operand16, 2)>>
      [] spec.mode = "absolute indexed indirect X" ->
           LET a == Plus16(operand16, X)
           IN  <<WithBank(a, before.PBR), WithBank(Plus16(a, 1), before.PBR)>>
      [] OTHER -> << >>
Vector == Word(Data[1].value, Data[2].value)
NextAddress ==
    LET n      == spec.mnemonic
        length == ComputeInstructionLength(spec.mode, before.P.E, before.P.M, before.P.X)
        past   == Plus16(before.PC, length)
        pulled(i) == Pulled[i].value
    IN  CASE n \in Conditional \union {"BRA"} -> WithBank(IF Taken THEN Target ELSE past, before.PBR)
          [] n = "BRL" -> WithBank(Plus16(past, SignedWord(operand16)), before.PBR)
          [] n \in {"BRK", "COP"} -> Vector
          [] n \in {"JMP", "JSR", "JSL"} ->
               (CASE spec.mode = "absolute" -> WithBank(operand16, before.PBR)
                  [] spec.mode = "absolute long" -> operand16 + 65536 * op(3)
                  [] spec.mode = "absolute indirect long" -> Vector + 65536 * Data[3].value
                  [] OTHER -> WithBank(Vector, before.PBR))
          [] n = "RTS" -> WithBank(Plus16(Word(pulled(1), pulled(2)), 1), before.PBR)
          [] n = "RTL" -> WithBank(Plus16(Word(pulled(1), pulled(2)), 1), pulled(3))
          [] n = "RTI" -> WithBank(Word(pulled(2), pulled(3)),
                                   IF before.P.E THEN before.PBR ELSE pulled(4))
          [] n \in {"MVN", "MVP"} -> WithBank(IF before.A = 0 THEN past ELSE before.PC, before.PBR)
          [] OTHER -> WithBank(past, before.PBR)
ReturnAddress ==       \* what a call pushes, first byte first
    LET last == Plus16(before.PC, IF spec.mnemonic = "JSL" THEN 3 ELSE 2)
        bank == IF spec.mnemonic = "JSL" \/ (spec.mnemonic \in {"BRK", "COP"} /\ ~before.P.E)
                THEN <<before.PBR>> ELSE << >>
    IN  bank \o <<High(last), Low(last)>>

(* Execution continues where the instruction says: behind it, with the length  *)
(* the disassembler and the tracer assume for the operand widths, at the target *)
(* with the wrap of its bank, or at a pointer read from where the mode puts it; *)
(* and a call has pushed the address its return needs.                         *)
ContinuesAt ==
    Completed =>
        /\ PcAddr(after) = NextAddress
        /\ VectorCells # << >> => [i \in DOMAIN Data |-> Data[i].address] = VectorCells
        /\ spec.mnemonic \in {"JSR", "JSL", "BRK", "COP"} =>
              LET n == Len(ReturnAddress)
              IN  [i \in 1..n |-> Pushed[i].value] = ReturnAddress

-----------------------------------------------------------------------------
(* What is computed.                                                       *)
width   == 8 * (2 - narrow)
size    == 2^width
Operand == LET first == Len(PointerCells) + 1
           IN  IF spec.mode \in {"immediate", "immediate index"}
               THEN (IF narrow = 1 THEN op(1) ELSE operand16)
               ELSE IF narrow = 1 THEN Data[first].value
               ELSE Word(Data[first].value, Data[first + 1].value)
InMemory == LET a == EffectiveAddress
            IN  IF narrow = 1 THEN Peek(a) ELSE Word(Peek(a), Peek(Linear(a, 1)))
Signed(v) == IF 2 * v >= size THEN v - size ELSE v
Digit(v, k) == Field(v, 4 * k, 4)
Digits      == 0..(width \div 4 - 1)
Decimal(v)  == Digit(v, 0) + 10 * Digit(v, 1)
                   + (IF width = 16 THEN 100 * Digit(v, 2) + 1000 * Digit(v, 3) ELSE 0)
IsDecimal(v) == \A k \in Digits : Digit(v, k) <= 9
ShowsNz(v)  == after.P.Z = (v = 0) /\ after.P.N = (2 * v >= size)
carryIn     == IF before.P.C THEN 1 ELSE 0

Adds(sign) ==
    LET a      == before.A % size
        result == after.A % size
        borrow == IF sign = 1 THEN carryIn ELSE carryIn - 1
        total  == a + sign * Operand + borrow
        modulus == 10^(width \div 4)
        decimal == Decimal(a) + sign * Decimal(Operand) + borrow
    IN  /\ ShowsNz(result)
        /\ ~before.P.D =>
              /\ result = total % size
              /\ after.P.C = IF sign = 1 THEN total >= size ELSE total >= 0
              /\ after.P.V = (Signed(a) + sign * Signed(Operand) + borrow
                                 \notin -(size \div 2)..(size \div 2 - 1))
        /\ (before.P.D /\ IsDecimal(a) /\ IsDecimal(Operand)) =>
              /\ IsDecimal(result)
              /\ Decimal(result) = decimal % modulus
              /\ after.P.C = IF sign = 1 THEN decimal >= modulus ELSE decimal >= 0
Compares(reg) == /\ after.P.C = ((before[reg] % size) >= Operand)
                 /\ ShowsNz((before[reg] - Operand) % size)
BitByBit(f(_, _)) ==
    /\ ShowsNz(after.A % size)
    /\ \A k \in 0..(width - 1) : Bit(after.A, k) = f(Bit(before.A, k), Bit(Operand, k))
Tested == \E k \in 0..(width - 1) : Bit(before.A, k) /\ Bit(Operand, k)
Rewrites(value) == InMemory = value % size /\ ShowsNz(value % size)

Means ==
    LET n == spec.mnemonic IN
    CASE n = "ADC" -> Adds(1) [] n = "SBC" -> Adds(-1)
      [] n = "AND" -> BitByBit(LAMBDA a, b : a /\ b)
      [] n = "ORA" -> BitByBit(LAMBDA a, b : a \/ b)
      [] n = "EOR" -> BitByBit(LAMBDA a, b : a # b)
      [] n = "CMP" -> Compares("A") [] n = "CPX" -> Compares("X") [] n = "CPY" -> Compares("Y")
      [] n = "BIT" -> /\ after.P.Z = ~Tested
                      /\ spec.mode # "immediate" => /\ after.P.N = Bit(Operand, width - 1)
                                                    /\ after.P.V = Bit(Operand, width - 2)
      [] n \in {"LDA", "LDX", "LDY"} ->
           LET reg == CASE n = "LDA" -> "A" [] n = "LDX" -> "X" [] n = "LDY" -> "Y"
           IN  (after[reg] % size) = Operand /\ ShowsNz(Operand)
      [] n \in Stores ->
           InMemory = (CASE n = "STA" -> before.A [] n = "STX" -> before.X
                         [] n = "STY" -> before.Y [] n = "STZ" -> 0) % size
      [] n = "INC" -> Rewrites(Operand + 1) [] n = "DEC" -> Rewrites(Operand - 1)
      [] n = "ASL" -> Rewrites(2 * Operand) /\ after.P.C = (2 * Operand >= size)
      [] n = "ROL" -> Rewrites(2 * Operand + carryIn) /\ after.P.C = (2 * Operand >= size)
      [] n = "LSR" -> Rewrites(Operand \div 2) /\ after.P.C = (Operand % 2 = 1)
      [] n = "ROR" -> Rewrites((Operand + carryIn * size) \div 2) /\ after.P.C = (Operand % 2 = 1)
      [] n \in {"TSB", "TRB"} ->
           /\ after.P.Z = ~Tested
           /\ \A k \in 0..(width - 1) :
                 Bit(InMemory, k) = IF Bit(before.A, k) THEN n = "TSB" ELSE Bit(Operand, k)

(* An instruction computes what arithmetic says of its operands: sums, signed   *)
(* overflow, decimal sums of decimal operands with their carry, comparisons,    *)
(* single bits, and for a read-modify-write the cell it leaves in memory, in    *)
(* both widths, although each works through bytes, digits and latches.          *)
ComputesItsMeaning ==
    (/\ Completed
     /\ ReadsOrWrites \/ spec.mode \in {"immediate", "immediate index"}) => Means

-----------------------------------------------------------------------------
(* What is left alone.                                                     *)
NoFlags == {"NOP", "WDM", "PHA", "PHB", "PHX", "PHY", "PHP", "PHD", "PHK", "PEA", "PER", "PEI",
            "BRA", "BRL", "JMP", "JSR", "JSL", "RTS", "RTL", "STP", "WAI", "MVN", "MVP",
            "TXS", "TCS"} \union Stores \union Conditional
FlagsOf(n) ==
    CASE n \in NoFlags -> {}
      [] n \in {"PLP", "REP", "SEP", "RTI"} -> {"N", "V", "M", "X", "D", "I", "Z", "C"}
      [] n \in {"ADC", "SBC"} -> {"N", "V", "Z", "C"}
      [] n \in {"CMP", "CPX", "CPY", "ASL", "LSR", "ROL", "ROR"} -> {"N", "Z", "C"}
      [] n \in {"TSB", "TRB"} -> {"Z"}
      [] n = "BIT" -> IF spec.mode = "immediate" THEN {"Z"} ELSE {"N", "V", "Z"}
      [] n \in {"BRK", "COP"} -> {"D", "I"}
      [] n = "XCE" -> {"M", "X", "C", "E"}
      [] n \in {"CLC", "SEC"} -> {"C"} [] n \in {"CLI", "SEI"} -> {"I"}
      [] n \in {"CLD", "SED"} -> {"D"} [] n = "CLV" -> {"V"}
      [] OTHER -> {"N", "Z"}
RegistersOf(n) ==
    CASE n \in {"LDA", "PLA", "ADC", "SBC", "AND", "ORA", "EOR", "XBA", "TXA", "TYA", "TDC", "TSC"} -> {"A"}
      [] n \in ModifyOps /\ spec.mode = "implied" -> {"A"}
      [] n \in {"LDX", "PLX", "INX", "DEX", "TAX", "TYX", "TSX"} -> {"X"}
      [] n \in {"LDY", "PLY", "INY", "DEY", "TAY", "TXY"} -> {"Y"}
      [] n \in {"MVN", "MVP"} -> {"A", "X", "Y", "DBR"}
      [] n \in {"PLP", "RTI", "SEP", "REP", "XCE"} -> {"X", "Y"}
      [] n \in {"TCD", "PLD"} -> {"DP"} [] n = "PLB" -> {"DBR"}
      [] OTHER -> {}
KeepsHigh(reg) == IF reg = "A" THEN m = 1 /\ spec.mnemonic \notin {"XBA", "TDC", "TSC", "MVN", "MVP"}
                  ELSE x = 1

(* An instruction changes the flags the published table gives it and the        *)
(* registers it names, and no others; an 8-bit operation keeps the other half of *)
(* the accumulator, and narrowing the index registers clears their high halves  *)
(* and nothing else; the stack moves by exactly what was pushed and pulled.     *)
ChangesOnlyItsOwn ==
    Completed =>
        /\ \A flag \in {"N", "V", "M", "X", "D", "I", "Z", "C", "E"} \ FlagsOf(spec.mnemonic) :
              after.P[flag] = before.P[flag]
        /\ \A reg \in {"A", "X", "Y", "DP", "DBR"} \ RegistersOf(spec.mnemonic) :
              after[reg] = before[reg]
        /\ KeepsHigh("A") => High(after.A) = High(before.A)
        /\ spec.mnemonic \in {"PLP", "RTI", "SEP", "REP", "XCE"} =>
              \A reg \in {"X", "Y"} :
                 after[reg] = IF after.P.X THEN Low(before[reg]) ELSE before[reg]
        /\ LET moved == Plus16(before.SP, Len(Pulled) - Len(Pushed))
           IN  spec.mnemonic \notin {"TXS", "TCS"} =>
                  after.SP = IF after.P.E THEN Page1(moved) ELSE moved

-----------------------------------------------------------------------------
(* Openings and closings.  A frame is the register file an opening started     *)
(* from, and what closes it.                                                *)
Closing == [PHA |-> "PLA", PHX |-> "PLX", PHY |-> "PLY", PHP |-> "PLP", PHB |-> "PLB",
            PHD |-> "PLD", JSR |-> "RTS", JSL |-> "RTL", BRK |-> "RTI", COP |-> "RTI",
            NMI |-> "RTI", IRQ |-> "RTI"]
Began == recorder.spec.mnemonic
Ends  == ~AtBoundary /\ current_instr' = NoInstruction
Opens == Ends /\ Began \in DOMAIN Closing
Closes == Ends /\ frames # << >> /\ Began = Closing[frames[Len(frames)].by]

Track ==
    frames' = IF Opens THEN Append(frames, [by |-> Began, regs |-> recorder.regs])
              ELSE IF Closes THEN SubSeq(frames, 1, Len(frames) - 1)
              ELSE frames

ISAInit == (SingleInstruction \/ ImmediateArithmetic \/ RunProgram) /\ frames = << >>
ISANext == Next /\ Track
ISASpec == ISAInit /\ [][ISANext]_isaVars

(* Closing an opening undoes it, whatever ran in between and whatever          *)
(* interrupted it: a pull restores its register and the stack, a return the     *)
(* stack and the address behind the call, and a return from an interrupt every   *)
(* register and flag, so the interrupted program cannot tell.  (A frame is        *)
(* pushed in one instruction and pulled in another, by different micro-programs,  *)
(* in an order that has to mirror the first.)                                *)
Restores(frame, now) ==
    LET n     == frame.by
        start == frame.regs
        reg   == CASE n = "PHA" -> "A" [] n = "PHX" -> "X" [] n = "PHY" -> "Y"
                   [] n = "PHB" -> "DBR" [] n = "PHD" -> "DP" [] n = "PHP" -> "P" [] OTHER -> "SP"
        past  == CASE n = "JSL" -> 4 [] n = "JSR" -> 3 [] n \in {"BRK", "COP"} -> 2 [] OTHER -> 0
    IN  /\ now.SP = start.SP
        /\ IF n = "PHA" /\ start.P.M THEN Low(now.A) = Low(start.A) ELSE now[reg] = start[reg]
        /\ n \in {"JSR", "JSL"} => PcAddr(now) = WithinBank(PcAddr(start), past)
        /\ Closing[n] = "RTI" => now = [start EXCEPT !.PC = Plus16(@, past)]
StackMirrors == [][Closes => Restores(frames[Len(frames)], core'.regs)]_isaVars

(* A block move is one instruction per byte, and any of its boundaries may take *)
(* an interrupt.  Whenever the program counter is back on it, the bytes moved    *)
(* so far are in place, the counters agree with them, and what remains is intact. *)
Move == [at |-> \h29000, from |-> \h1000, to |-> \h2000, bytes |-> 3, bank |-> \h7E]
BlockMoveProgress ==
    LET r    == core.regs
        done == Plus16(Move.bytes - 1, -r.A)
    IN  (AtBoundary /\ PcAddr(r) \in {Move.at, Move.at + 3}) =>
          /\ done \in 0..Move.bytes /\ (done = Move.bytes) = (PcAddr(r) = Move.at + 3)
          /\ r.X = Move.from + done /\ r.Y = Move.to + done
          /\ done > 0 => r.DBR = Move.bank
          /\ \A k \in 0..(Move.bytes - 1) :
                Peek(WithBank(Move.to + k, Move.bank)) =
                   IF k < done THEN Peek(WithBank(Move.from + k, Move.bank)) ELSE memory.fill
=============================================================================
