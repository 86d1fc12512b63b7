------------------------------ MODULE Opcodes ------------------------------
(***************************************************************************)
(* The opcode table of the 65816: for each of the 256 opcodes, the micro-   *)
(* program that follows its fetch.  One definition per family of the source; *)
(* the regular families are written by the row and the column of the opcode  *)
(* (opcode = 32 * row + column), which is how the instruction set is laid    *)
(* out.                                                                     *)
(***************************************************************************)
EXTENDS MicroOps, FiniteSets

(* A specification in the table.  `new` marks the instructions the 65816     *)
(* added to the 6502 family's, which use the whole stack pointer in emulation *)
(* mode; `dp` asks for the direct-page penalty condition to be seeded.        *)
Opcode(code, mnemonic, mode, f) ==
    [code |-> code, mnemonic |-> mnemonic, mode |-> mode, new |-> FALSE,
     dp |-> f.dp, slots |-> f.slots]
NewInstruction(spec) == [spec EXCEPT !.new = TRUE]
Implied(code, mnemonic, slots) == Opcode(code, mnemonic, "implied", Cycles(slots))

AluRow == [ORA |-> 0, AND |-> 1, EOR |-> 2, ADC |-> 3, CMP |-> 6, SBC |-> 7]
RmwRow == [ASL |-> 0, ROL |-> 1, LSR |-> 2, ROR |-> 3, DEC |-> 6, INC |-> 7]
StaRow == 4
LdaRow == 5

(* The six arithmetic operations in one addressing mode.                     *)
AluColumn(column, mode, fetch) ==
    {Opcode(32 * AluRow[op] + column, op, mode, fetch ++ AluFromAddr(op, Accumulator16)) :
        op \in DOMAIN AluRow}
LoadA(column, mode, fetch) ==
    Opcode(32 * LdaRow + column, "LDA", mode, fetch ++ LoadRegFromAddr("A", Accumulator16))
StoreA(column, mode, fetch) ==
    Opcode(32 * StaRow + column, "STA", mode, fetch ++ StoreRegToAddr("A", Accumulator16))
LoadX(code, mode, fetch)  == Opcode(code, "LDX", mode, fetch ++ LoadRegFromAddr("X", Index16))
LoadY(code, mode, fetch)  == Opcode(code, "LDY", mode, fetch ++ LoadRegFromAddr("Y", Index16))
StoreX(code, mode, fetch) == Opcode(code, "STX", mode, fetch ++ StoreRegToAddr("X", Index16))
StoreY(code, mode, fetch) == Opcode(code, "STY", mode, fetch ++ StoreRegToAddr("Y", Index16))
StoreZ(code, mode, fetch) ==
    Opcode(code, "STZ", mode, fetch ++ StoreRegToAddr("Zero", Accumulator16))
BitMem(code, mode, fetch) == Opcode(code, "BIT", mode, fetch ++ AluFromAddr("BIT", Accumulator16))

-----------------------------------------------------------------------------
(* Immediates: one byte when the register is 8 bits wide, two when it is 16. *)
LoadImmediate(reg, wide) ==
    Cycles(<<When(Negation(Condition(wide)), LoadRegFromFetch(reg, "Low", TRUE)),
             When(Condition(wide), LoadRegFromFetch(reg, "Low", FALSE)),
             When(Condition(wide), LoadRegFromFetch(reg, "High", TRUE))>>)
AluImmediate(op, wide) ==
    Cycles(<<When(Negation(Condition(wide)), AluImm8(op)),
             When(Condition(wide), FetchAddrByte("Low", "Leave")),
             When(Condition(wide), AluImm16(op))>>)

BranchSequence(cond) ==
    <<FetchPcBranchTest(cond),
      When(Condition(BranchTaken), BranchRelative(FALSE)),
      When(AllOf(Condition(EmulationMode), Condition(BranchPageCrossed)), Idle)>>

PushWide(high, low, rule) == <<Idle, When(rule, PushReg(high)), PushReg(low)>>
PullWide(reg, wide) ==
    <<Idle, Idle,
      When(Negation(Condition(wide)), PullPreIncLoadReg(reg, "Low", TRUE)),
      When(Condition(wide), PullPreIncLoadReg(reg, "Low", FALSE)),
      When(Condition(wide), PullPreIncLoadReg(reg, "High", TRUE))>>

-----------------------------------------------------------------------------
MakeMiscSpecs ==
    {Implied(234, "NOP", <<Idle>>),
     Opcode(66, "WDM", "immediate byte", Cycles(<<FetchPc("None", 0)>>)),
     Implied(235, "XBA", <<Internal("SwapBA", 0), Idle>>)}

MakeStackSpecs ==
    {Implied(72,  "PHA", PushWide("AHigh", "A8", Condition(Accumulator16))),
     Implied(218, "PHX", PushWide("XHigh", "X8", Condition(Index16))),
     Implied(90,  "PHY", PushWide("YHigh", "Y8", Condition(Index16))),
     Implied(8,   "PHP", <<Idle, PushReg("P")>>),
     Implied(104, "PLA", PullWide("A", Accumulator16)),
     Implied(250, "PLX", PullWide("X", Index16)),
     Implied(122, "PLY", PullWide("Y", Index16)),
     Implied(40,  "PLP", <<Idle, Idle, PullPreIncLoadReg("P", "Low", FALSE)>>)}
    \union
    {NewInstruction(spec) : spec \in
       {Implied(139, "PHB", <<Idle, PushReg("Dbr")>>),
        Implied(171, "PLB", <<Idle, ModifySp(TRUE),
                              Slot("PullStack", "LoadReg", Always,
                                   PackLoadReg("DBR", "Low", TRUE, FALSE))>>),
        Implied(11,  "PHD", PushWide("DpHigh", "DpLow", Always)),
        Implied(75,  "PHK", <<Idle, PushReg("Pbr")>>),
        Implied(43,  "PLD", <<Idle, Idle, PullPreIncLoadReg("DP", "Low", FALSE),
                              PullPreIncLoadReg("DP", "High", TRUE)>>),
        Opcode(244, "PEA", "absolute",
               Cycles(<<FetchAddrByte("Low", "Leave"), FetchAddrByte("High", "Leave"),
                        PushReg("AddrHigh"), PushReg("AddrLow")>>)),
        Opcode(98, "PER", "relative long",
               Cycles(<<FetchAddrByte("Low", "Leave"), FetchAddrByte("High", "Leave"),
                        Internal("AddPcToAddr", 0), PushReg("AddrHigh"), PushReg("AddrLow")>>)),
        Opcode(212, "PEI", "direct page",
               FetchDirectPage ++ FetchDirectIndirect
                   ++ Cycles(<<PushReg("AddrHigh"), PushReg("AddrLow")>>))}}

MakeLoadSpecs ==
    {Opcode(169, "LDA", "immediate", LoadImmediate("A", Accumulator16)),
     Opcode(162, "LDX", "immediate index", LoadImmediate("X", Index16)),
     Opcode(160, "LDY", "immediate index", LoadImmediate("Y", Index16)),
     LoadA(5, "direct page", FetchDirectPage),
     LoadX(166, "direct page", FetchDirectPage),
     LoadY(164, "direct page", FetchDirectPage),
     LoadA(21, "direct page indexed X", FetchDirectPageIndexed("X")),
     LoadY(180, "direct page indexed X", FetchDirectPageIndexed("X")),
     LoadX(182, "direct page indexed Y", FetchDirectPageIndexed("Y")),
     LoadA(3, "stack relative", FetchStackRelative),
     LoadA(18, "direct indirect", FetchDirectPage ++ FetchDirectIndirect),
     LoadA(7, "direct indirect long", FetchDirectPage ++ FetchDirectIndirectLong)}

MakeStoreSpecs ==
    {StoreA(13, "absolute", FetchAbsolute),
     StoreX(142, "absolute", FetchAbsolute),
     StoreY(140, "absolute", FetchAbsolute),
     StoreA(15, "absolute long", FetchAbsoluteLong),
     StoreA(5, "direct page", FetchDirectPage),
     StoreX(134, "direct page", FetchDirectPage),
     StoreY(132, "direct page", FetchDirectPage),
     StoreZ(100, "direct page", FetchDirectPage),
     StoreA(21, "direct page indexed X", FetchDirectPageIndexed("X")),
     StoreY(148, "direct page indexed X", FetchDirectPageIndexed("X")),
     StoreX(150, "direct page indexed Y", FetchDirectPageIndexed("Y")),
     StoreZ(116, "direct page indexed X", FetchDirectPageIndexed("X")),
     StoreZ(156, "absolute", FetchAbsolute),
     StoreZ(158, "absolute indexed X", FetchAbsoluteIndexed("X")),
     StoreA(29, "absolute indexed X", FetchAbsoluteIndexed("X")),
     StoreA(25, "absolute indexed Y", FetchAbsoluteIndexed("Y")),
     StoreA(3, "stack relative", FetchStackRelative),
     StoreA(18, "direct indirect", FetchDirectPage ++ FetchDirectIndirect),
     StoreA(7, "direct indirect long", FetchDirectPage ++ FetchDirectIndirectLong)}

MakeIncDecSpecs ==
    {Implied(26,  "INC", <<IncDecReg("A", FALSE)>>), Implied(58,  "DEC", <<IncDecReg("A", TRUE)>>),
     Implied(232, "INX", <<IncDecReg("X", FALSE)>>), Implied(202, "DEX", <<IncDecReg("X", TRUE)>>),
     Implied(200, "INY", <<IncDecReg("Y", FALSE)>>), Implied(136, "DEY", <<IncDecReg("Y", TRUE)>>)}

MakeFlagSpecs ==
    {Implied(24,  "CLC", <<SetFlag("C", FALSE)>>), Implied(56,  "SEC", <<SetFlag("C", TRUE)>>),
     Implied(88,  "CLI", <<SetFlag("I", FALSE)>>), Implied(120, "SEI", <<SetFlag("I", TRUE)>>),
     Implied(216, "CLD", <<SetFlag("D", FALSE)>>), Implied(248, "SED", <<SetFlag("D", TRUE)>>),
     Implied(184, "CLV", <<SetFlag("V", FALSE)>>),
     Implied(251, "XCE", <<Internal("ExchangeCarryEmulation", 0)>>),
     Opcode(194, "REP", "immediate byte", Cycles(<<FetchPc("None", 0), MaskStatus(FALSE)>>)),
     Opcode(226, "SEP", "immediate byte", Cycles(<<FetchPc("None", 0), MaskStatus(TRUE)>>))}

MakeTransferSpecs ==
    {Implied(170, "TAX", <<TransferReg("A", "X")>>),  Implied(168, "TAY", <<TransferReg("A", "Y")>>),
     Implied(186, "TSX", <<TransferReg("SP", "X")>>), Implied(138, "TXA", <<TransferReg("X", "A")>>),
     Implied(154, "TXS", <<TransferReg("X", "SP")>>), Implied(155, "TXY", <<TransferReg("X", "Y")>>),
     Implied(152, "TYA", <<TransferReg("Y", "A")>>),  Implied(187, "TYX", <<TransferReg("Y", "X")>>),
     Implied(91,  "TCD", <<TransferReg("A", "DP")>>), Implied(27,  "TCS", <<TransferReg("A", "SP")>>),
     Implied(123, "TDC", <<TransferReg("DP", "A")>>), Implied(59,  "TSC", <<TransferReg("SP", "A")>>)}

BranchCodes == <<128, 240, 208, 176, 144, 48, 16, 112, 80>>
BranchMnemonics == <<"BRA", "BEQ", "BNE", "BCS", "BCC", "BMI", "BPL", "BVS", "BVC">>
MakeBranchSpecs ==
    {Opcode(BranchCodes[i], BranchMnemonics[i], "relative",
            Cycles(BranchSequence(BranchConds[i]))) : i \in DOMAIN BranchConds}
    \union
    {Opcode(130, "BRL", "relative long",
            Cycles(<<FetchAddrByte("Low", "Leave"), FetchAddrByte("High", "Leave"),
                     BranchRelative(TRUE)>>))}

-----------------------------------------------------------------------------
PushReturn == <<PushReg("Pch"), PushReg("Pcl")>>
PullPc     == <<PullPreInc("LoadPcLowFromFetch", 0), PullPreInc("LoadPcHighFromFetch", 0)>>
Native     == Negation(Condition(EmulationMode))
(* Mutant: the status is pushed before the return address.                   *)
EnterHandlerStatusFirst(pushP) ==
    <<When(Native, PushReg("Pbr")), PushReg(pushP)>> \o PushReturn
        \o <<ReadAddr("StashIndirectLow", 0), ReadAddr("EnterInterruptHandler", 0)>>
EnterHandler(pushP) ==
    <<When(Native, PushReg("Pbr"))>> \o PushReturn
        \o <<PushReg(pushP), ReadAddr("StashIndirectLow", 0), ReadAddr("EnterInterruptHandler", 0)>>

SoftwareInterrupt(kind) ==
    Cycles(<<FetchPc("SetInterruptVector", CodeOf(InterruptKinds, kind))>> \o EnterHandler("P"))
ReturnFromInterrupt ==
    <<Idle, Idle, PullPreIncLoadReg("P", "Low", FALSE)>> \o PullPc
        \o <<When(Native, PullPreInc("LoadPbrFromFetch", 0))>>

(* The synthetic entry the boundary sampler dispatches in place of an opcode *)
(* fetch.                                                                   *)
MakeHwInterruptSpec(kind) ==
    Opcode(0, kind, "hw-interrupt",
           Cycles(<<Internal("SetInterruptVector", CodeOf(InterruptKinds, kind))>>
                      \o EnterHandler("PHwIrq")))

JsrAbsolute ==
    <<FetchAddrByte("Low", "Leave"), Idle>> \o PushReturn \o <<LoadAddrByteAndSetPc("High", FALSE)>>
JsrAbsoluteLong ==
    <<FetchAddrByte("Low", "Leave"), FetchAddrByte("High", "Leave"), PushReg("Pbr"), Idle>>
        \o PushReturn \o <<LoadAddrByteAndSetPc("Bank", TRUE)>>
JsrAbsoluteIndexedIndirectX ==
    <<FetchAddrByte("Low", "Leave")>> \o PushReturn
        \o <<FetchAddrByte("High", "PBR"), AddIndex("X", TRUE, FALSE),
             ReadAddr("StashIndirectLow", 0), ReadAddr("SetPcFromScratchAndFetch", 0)>>

(* A block move advances one byte, then rewinds the program counter over     *)
(* itself.  The direction rides in bit 4, beside the write source.           *)
BlockMove(dec) ==
    Cycles(<<FetchPc("MoveSetDbr", 0), FetchPc("MoveSetAddrFromSrc", 0),
             ReadAddr("MoveSetAddrFromDst", 0),
             Slot("WriteRegByte", "MoveAdjust", Always,
                  PackWriteAddr("FetchData", "Low") + Flag(dec, 4)),
             Internal("MoveLoopCheck", 0), Idle>>)

MakeJumpSpecs ==
    {Opcode(76, "JMP", "absolute",
            Cycles(<<FetchAddrByte("Low", "Leave"), LoadAddrByteAndSetPc("High", FALSE)>>)),
     Opcode(92, "JMP", "absolute long",
            Cycles(<<FetchAddrByte("Low", "Leave"), FetchAddrByte("High", "Leave"),
                     LoadAddrByteAndSetPc("Bank", TRUE)>>)),
     Opcode(108, "JMP", "absolute indirect", FetchJumpAbsoluteIndirect),
     Opcode(220, "JMP", "absolute indirect long", FetchJumpAbsoluteIndirectLong),
     Opcode(124, "JMP", "absolute indexed indirect X", FetchJumpAbsoluteIndexedIndirectX),
     Opcode(32, "JSR", "absolute", Cycles(JsrAbsolute)),
     NewInstruction(Opcode(34, "JSL", "absolute long", Cycles(JsrAbsoluteLong))),
     NewInstruction(Opcode(252, "JSR", "absolute indexed indirect X",
                           Cycles(JsrAbsoluteIndexedIndirectX))),
     Implied(96, "RTS", <<Idle, Idle>> \o PullPc \o <<ModifyPc(TRUE)>>),
     NewInstruction(Implied(107, "RTL", <<Idle>> \o PullPc
                                \o <<ModifyPc(TRUE), PullPreInc("LoadPbrFromFetch", 0)>>)),
     Implied(64, "RTI", ReturnFromInterrupt),
     Opcode(0, "BRK", "immediate byte", SoftwareInterrupt("BRK")),
     Opcode(2, "COP", "immediate byte", SoftwareInterrupt("COP")),
     Implied(219, "STP", <<Idle, Internal("HaltCpu", 1)>>),
     Implied(203, "WAI", <<Idle, Internal("HaltCpu", 0)>>),
     Opcode(84, "MVN", "src,dest", BlockMove(FALSE)),
     Opcode(68, "MVP", "src,dest", BlockMove(TRUE))}

-----------------------------------------------------------------------------
MakeShiftSpecs ==
    {Implied(32 * RmwRow[op] + 10, op, <<Internal("ShiftRotateA", CodeOf(ShiftOps, op))>>) :
        op \in {"ASL", "ROL", "LSR", "ROR"}}

MakeRmwMemSpecs ==
    UNION {LET Rmw(column, mode, fetch) ==
                 Opcode(32 * RmwRow[op] + column, op, mode, fetch ++ ReadModifyWriteFromAddr(op))
           IN  {Rmw(6, "direct page", FetchDirectPage), Rmw(14, "absolute", FetchAbsolute),
                Rmw(22, "direct page indexed X", FetchDirectPageIndexed("X")),
                Rmw(30, "absolute indexed X", FetchAbsoluteIndexed("X"))} : op \in DOMAIN RmwRow}
    \union
    UNION {{Opcode(base + 4, op, "direct page", FetchDirectPage ++ ReadModifyWriteFromAddr(op)),
            Opcode(base + 12, op, "absolute", FetchAbsolute ++ ReadModifyWriteFromAddr(op))} :
               <<base, op>> \in {<<0, "TSB">>, <<16, "TRB">>}}

MakeAluSpecs ==
    {Opcode(32 * AluRow[op] + 9, op, "immediate", AluImmediate(op, Accumulator16)) :
        op \in DOMAIN AluRow}
    \union AluColumn(5, "direct page", FetchDirectPage)
    \union
    {Opcode(137, "BIT", "immediate", AluImmediate("BITI", Accumulator16)),
     Opcode(224, "CPX", "immediate index", AluImmediate("CPX", Index16)),
     Opcode(192, "CPY", "immediate index", AluImmediate("CPY", Index16)),
     Opcode(228, "CPX", "direct page", FetchDirectPage ++ AluFromAddr("CPX", Index16)),
     Opcode(196, "CPY", "direct page", FetchDirectPage ++ AluFromAddr("CPY", Index16))}

MakeAluAbsSpecs ==
    AluColumn(13, "absolute", FetchAbsolute)
    \union AluColumn(15, "absolute long", FetchAbsoluteLong)
    \union
    {BitMem(44, "absolute", FetchAbsolute),
     LoadA(13, "absolute", FetchAbsolute), LoadA(15, "absolute long", FetchAbsoluteLong),
     LoadX(174, "absolute", FetchAbsolute), LoadY(172, "absolute", FetchAbsolute),
     Opcode(236, "CPX", "absolute", FetchAbsolute ++ AluFromAddr("CPX", Index16)),
     Opcode(204, "CPY", "absolute", FetchAbsolute ++ AluFromAddr("CPY", Index16))}

MakeBitDpxSpec == {BitMem(52, "direct page indexed X", FetchDirectPageIndexed("X"))}
MakeAluDpxSpecs == AluColumn(21, "direct page indexed X", FetchDirectPageIndexed("X"))
MakeAluIndirectDpSpecs ==
    AluColumn(18, "direct indirect", FetchDirectPage ++ FetchDirectIndirect)
    \union AluColumn(7, "direct indirect long", FetchDirectPage ++ FetchDirectIndirectLong)
MakeAluSrSpecs == AluColumn(3, "stack relative", FetchStackRelative)

(* Columns that hold the six arithmetic operations, LDA and STA.             *)
FullColumn(column, mode, fetch) ==
    AluColumn(column, mode, fetch) \union {LoadA(column, mode, fetch), StoreA(column, mode, fetch)}

MakeAluSrIndyYSpecs ==
    FullColumn(19, "stack relative indirect indexed Y",
               FetchStackRelative ++ FetchStackRelativeIndirectIndexedY)
MakeAluIndexedIndirectXSpecs ==
    FullColumn(1, "direct indexed indirect X", FetchDirectPage ++ FetchDirectIndexedIndirectX)
MakeAluIndirectLongDpYSpecs ==
    FullColumn(23, "direct indirect long indexed Y",
               FetchDirectPage ++ FetchDirectIndirectLongIndexedY)
MakeAluIndirectDpYSpecs ==
    FullColumn(17, "direct indirect indexed Y", FetchDirectPage ++ FetchDirectIndirectIndexedY)
MakeLongXSpecs == FullColumn(31, "absolute long indexed X", FetchAbsoluteLongIndexedX)

MakeAluAbsXSpecs ==
    AluColumn(29, "absolute indexed X", FetchAbsoluteIndexedRead("X"))
    \union {LoadA(29, "absolute indexed X", FetchAbsoluteIndexedRead("X")),
            LoadY(188, "absolute indexed X", FetchAbsoluteIndexedRead("X"))}
MakeAluAbsYSpecs ==
    AluColumn(25, "absolute indexed Y", FetchAbsoluteIndexedRead("Y"))
    \union {LoadA(25, "absolute indexed Y", FetchAbsoluteIndexedRead("Y")),
            LoadX(190, "absolute indexed Y", FetchAbsoluteIndexedRead("Y"))}
MakeBitMiscSpecs ==
    {BitMem(36, "direct page", FetchDirectPage),
     BitMem(60, "absolute indexed X", FetchAbsoluteIndexedRead("X"))}

ExplicitOpcodeSpecs ==
    MakeMiscSpecs \union MakeLoadSpecs \union MakeStoreSpecs \union MakeBranchSpecs
    \union MakeStackSpecs \union MakeIncDecSpecs \union MakeFlagSpecs \union MakeTransferSpecs
    \union MakeJumpSpecs \union MakeAluSpecs \union MakeShiftSpecs \union MakeAluAbsSpecs
    \union MakeBitDpxSpec \union MakeAluDpxSpecs \union MakeAluSrSpecs \union MakeLongXSpecs
    \union MakeAluAbsXSpecs \union MakeAluIndirectDpSpecs \union MakeAluAbsYSpecs
    \union MakeBitMiscSpecs \union MakeAluIndirectDpYSpecs \union MakeAluIndirectLongDpYSpecs
    \union MakeAluIndexedIndirectXSpecs \union MakeAluSrIndyYSpecs \union MakeRmwMemSpecs

(* The table, opcode -> program.                                            *)
InstructionTable ==
    [code \in 0..255 |-> CHOOSE spec \in ExplicitOpcodeSpecs : spec.code = code]

-----------------------------------------------------------------------------
(* Metadata: the length the disassembler and the tracer assume, from the     *)
(* addressing mode and, for immediates, from the register widths.             *)
BaseLength(mode) ==
    CASE mode \in {"implied", "hw-interrupt"} -> 1
      [] mode \in {"immediate", "immediate index", "immediate byte", "relative", "direct page",
                   "direct page indexed X", "direct page indexed Y", "stack relative",
                   "direct indirect", "direct indirect long", "direct indirect indexed Y",
                   "direct indirect long indexed Y", "direct indexed indirect X",
                   "stack relative indirect indexed Y"} -> 2
      [] mode \in {"absolute", "relative long", "absolute indexed X", "absolute indexed Y",
                   "absolute indirect", "absolute indirect long",
                   "absolute indexed indirect X", "src,dest"} -> 3
      [] mode \in {"absolute long", "absolute long indexed X"} -> 4

ComputeInstructionLength(mode, e, m, x) ==
    BaseLength(mode) + (IF \/ mode = "immediate" /\ ~e /\ ~m
                           \/ mode = "immediate index" /\ ~e /\ ~x
                        THEN 1 ELSE 0)
=============================================================================
