------------------------------ MODULE MicroOps ------------------------------
(***************************************************************************)
(* The language instructions are written in: a program is the sequence of  *)
(* cycles that follow the opcode fetch, and each cycle is a slot with one   *)
(* bus action, one internal operation, a timing rule that decides at run    *)
(* time whether the cycle happens, and ONE byte of parameters that the bus  *)
(* action and the internal operation decode independently.                 *)
(*                                                                         *)
(* A timing rule is lowered by the source to a 32-entry truth table over    *)
(* five condition bits; here it is the set of condition sets for which the  *)
(* table holds a one.                                                      *)
(***************************************************************************)
EXTENDS Integers, Sequences

(* Enumerations, in the order that gives each name its code.               *)
RegNames     == <<"A", "X", "Y", "SP", "DP", "DBR", "P">>
ByteSels     == <<"Low", "High", "Bank">>
BankSrcs     == <<"Leave", "DBR", "PBR", "Zero">>
FlagNames    == <<"C", "D", "I", "V">>
BranchConds  == <<"Always", "Z", "NotZ", "C", "NotC", "N", "NotN", "V", "NotV">>
AluOps       == <<"ADC", "SBC", "AND", "ORA", "EOR", "CMP", "CPX", "CPY", "BITI", "BIT">>
ShiftOps     == <<"ASL", "LSR", "ROL", "ROR">>
RmwOps       == <<"ASL", "LSR", "ROL", "ROR", "INC", "DEC", "TSB", "TRB">>
WriteSrcs    == <<"FetchData", "A", "X", "Y", "Zero", "ScratchLow">>
PushSrcs     == <<"A8", "AHigh", "X8", "XHigh", "Y8", "YHigh", "Pcl", "Pch", "Pbr",
                  "Dbr", "P", "PHwIrq", "DpLow", "DpHigh", "AddrLow", "AddrHigh">>
InterruptKinds == <<"BRK", "COP", "NMI", "IRQ", "ABORT">>

CodeOf(names, name) == (CHOOSE i \in DOMAIN names : names[i] = name) - 1
Flag(b, k)          == IF b THEN 2^k ELSE 0
Field(v, k, width)  == (v \div 2^k) % 2^width
Bit(v, k)           == Field(v, k, 1) = 1

-----------------------------------------------------------------------------
(* Packing: what each slot constructor puts into the shared byte, and what  *)
(* the two consumers take out of it again.                                 *)
PackTransfer(src, dst)      == CodeOf(RegNames, src) + 16 * CodeOf(RegNames, dst)
PackIncDec(reg, dec)        == Flag(dec, 0) + 2 * CodeOf(RegNames, reg)
PackSetFlag(flag, value)    == Flag(value, 0) + 2 * CodeOf(FlagNames, flag)
PackLoadReg(reg, sel, nz, inc) ==
    CodeOf(RegNames, reg) + 16 * CodeOf(ByteSels, sel) + Flag(nz, 6) + Flag(inc, 7)
PackWriteAddr(src, sel)     == CodeOf(WriteSrcs, src) + 8 * CodeOf(ByteSels, sel)
PackAluOp(op, scratch)      == CodeOf(AluOps, op) + Flag(scratch, 4)
PackSetAddrByte(sel, bank)  == CodeOf(ByteSels, sel) + 4 * CodeOf(BankSrcs, bank)
PackModifyAddr(increment)   == Flag(~increment, 4)
PackModifySp(increment)     == Flag(increment, 5)
PackModifyPc(increment)     == Flag(~increment, 4)
PackSetPc(sel, withPbr)     == CodeOf(ByteSels, sel) + Flag(withPbr, 2)
PackAddIndex(reg, bankWrap, dpWrap) ==
    CodeOf(RegNames, reg) + Flag(bankWrap, 4) + Flag(dpWrap, 5)

RegOf(p)       == RegNames[Field(p, 0, 4) + 1]
IncDecRegOf(p) == RegNames[Field(p, 1, 4) + 1]
DstRegOf(p)    == RegNames[Field(p, 4, 4) + 1]
SetFlagOf(p)   == FlagNames[Field(p, 1, 4) + 1]
LoadSelOf(p)   == ByteSels[Field(p, 4, 2) + 1]
CondOf(p)      == BranchConds[Field(p, 0, 4) + 1]
PushSrcOf(p)   == PushSrcs[Field(p, 0, 4) + 1]
WriteSrcOf(p)  == WriteSrcs[Field(p, 0, 3) + 1]
WriteSelOf(p)  == ByteSels[Field(p, 3, 1) + 1]
AluOpOf(p)     == AluOps[Field(p, 0, 4) + 1]
AddrSelOf(p)   == ByteSels[Field(p, 0, 2) + 1]
BankSrcOf(p)   == BankSrcs[Field(p, 2, 2) + 1]
ShiftOpOf(p)   == ShiftOps[Field(p, 0, 2) + 1]
RmwOpOf(p)     == RmwOps[Field(p, 0, 3) + 1]
InterruptOf(p) == InterruptKinds[Field(p, 0, 3) + 1]

-----------------------------------------------------------------------------
(* Timing conditions.  Three of them share bit 4: a branch that crossed a   *)
(* page, an indexed read that crossed a page, and a direct page whose low   *)
(* byte is not zero.                                                       *)
BranchTaken == 0   Accumulator16 == 1   Index16 == 2   EmulationMode == 3
BranchPageCrossed    == 4
DirectPageLowNonzero == 4
IndexedPageCrossed   == 4

TruthTable   == SUBSET (0..4)
Always       == TruthTable
Condition(c) == {bits \in TruthTable : c \in bits}
Negation(rule)    == TruthTable \ rule
AllOf(a, b)  == a \cap b
AnyOf(a, b)  == a \cup b

-----------------------------------------------------------------------------
(* Slots and fragments.  A fragment carries whether its cycles ask for the  *)
(* direct-page penalty; composition keeps that property.                   *)
MaxRemainingOps      == 8
MaxInstructionRules  == 4

Slot(bus, op, rule, params) == [bus |-> bus, op |-> op, rule |-> rule, params |-> params]
Cycles(slots) == [dp |-> FALSE, slots |-> slots]
f ++ g        == [dp |-> f.dp \/ g.dp, slots |-> f.slots \o g.slots]

FetchPc(op, params)    == Slot("FetchPc", op, Always, params)
ReadAddr(op, params)   == Slot("ReadAddr", op, Always, params)
Internal(op, params)   == Slot("None", op, Always, params)
Idle                   == Internal("None", 0)
When(rule, slot)       == [slot EXCEPT !.rule = rule]
WriteRegByte(src, sel, op) == Slot("WriteRegByte", op, Always, PackWriteAddr(src, sel))
PushReg(src)           == Slot("PushStack", "ModifySp", Always, CodeOf(PushSrcs, src))
PullPreInc(op, params) == Slot("PreIncPullStack", op, Always, params)
TransferReg(src, dst)  == Internal("TransferReg", PackTransfer(src, dst))
IncDecReg(reg, dec)    == Internal("IncDecReg", PackIncDec(reg, dec))
SetFlag(flag, value)   == Internal("SetFlag", PackSetFlag(flag, value))
LoadRegFromFetch(reg, sel, nz)  == FetchPc("LoadReg", PackLoadReg(reg, sel, nz, FALSE))
PullPreIncLoadReg(reg, sel, nz) == PullPreInc("LoadReg", PackLoadReg(reg, sel, nz, FALSE))
AluImm8(op)            == FetchPc("Alu8Imm", PackAluOp(op, FALSE))
AluImm16(op)           == FetchPc("Alu16Imm", PackAluOp(op, FALSE))
ModifySp(increment)    == Internal("ModifySp", PackModifySp(increment))
ModifyPc(increment)    == Internal("ModifyPc", PackModifyPc(increment))
BranchRelative(wide)   == Internal("BranchRelative", Flag(wide, 0))
LoadAddrByteAndSetPc(sel, withPbr) == FetchPc("LoadAddrByteAndSetPc", PackSetPc(sel, withPbr))
MaskStatus(orBits)     == Internal("MaskStatus", Flag(orBits, 0))
FetchPcBranchTest(cond) == FetchPc("SetBranchTakenCond", CodeOf(BranchConds, cond))

(* Fragments shared by many opcodes: how an effective address is formed.    *)
FetchAddrByte(sel, bank) == FetchPc("SetAddrByteFromFetch", PackSetAddrByte(sel, bank))
AddIndex(reg, bankWrap, dpWrap) ==
    Internal("AddIndexToAddr", PackAddIndex(reg, bankWrap, dpWrap))

FetchAbsolute == Cycles(<<FetchAddrByte("Low", "Leave"), FetchAddrByte("High", "DBR")>>)
FetchAbsoluteLong ==
    Cycles(<<FetchAddrByte("Low", "Leave"), FetchAddrByte("High", "Leave"),
             FetchAddrByte("Bank", "Leave")>>)
FetchDirectPage ==
    [dp |-> TRUE, slots |-> <<FetchPc("SetAddrFromDp", 0),
                              When(Condition(DirectPageLowNonzero), Idle)>>]
FetchDirectPageIndexed(reg) == FetchDirectPage ++ Cycles(<<AddIndex(reg, TRUE, TRUE)>>)
FetchAbsoluteIndexed(reg) == FetchAbsolute ++ Cycles(<<AddIndex(reg, FALSE, FALSE)>>)
(* Mutant: the idle cycle only for a crossed page, also with a 16-bit index.  *)
FetchAbsoluteIndexedReadNarrow(reg) ==
    Cycles(<<FetchAddrByte("Low", "Leave"),
             FetchPc("SetAddrHighDbrAddIndex", PackAddIndex(reg, FALSE, FALSE)),
             When(Condition(IndexedPageCrossed), Idle)>>)
FetchAbsoluteIndexedRead(reg) ==
    Cycles(<<FetchAddrByte("Low", "Leave"),
             FetchPc("SetAddrHighDbrAddIndex", PackAddIndex(reg, FALSE, FALSE)),
             When(AnyOf(Condition(Index16), Condition(IndexedPageCrossed)), Idle)>>)
FetchAbsoluteLongIndexedX ==
    Cycles(<<FetchAddrByte("Low", "Leave"), FetchAddrByte("High", "Leave"),
             FetchPc("SetAddrBankFromFetchAddX", 0)>>)
FetchStackRelative == Cycles(<<FetchPc("SetAddrFromSp", 0), Idle>>)

FetchDirectIndirect ==
    Cycles(<<ReadAddr("StashDpIndirectLow", 0), ReadAddr("FormAddrFromScratchDbr", 0)>>)
FetchDirectIndexedIndirectX ==
    Cycles(<<AddIndex("X", TRUE, TRUE), ReadAddr("StashDpXIndirectLow", 0),
             ReadAddr("FormAddrFromScratchDbr", 0)>>)
FetchDirectIndirectIndexedY == FetchDirectIndirect ++ Cycles(<<AddIndex("Y", FALSE, FALSE)>>)
LongPointer(withY) ==
    Cycles(<<ReadAddr("StashIndirectLow", 0), ReadAddr("StashIndirectHigh", 0),
             ReadAddr("FormAddrFromScratchBank", Flag(withY, 0))>>)
FetchDirectIndirectLong         == LongPointer(FALSE)
FetchDirectIndirectLongIndexedY == LongPointer(TRUE)
FetchStackRelativeIndirectIndexedY ==
    Cycles(<<ReadAddr("StashIndirectLow", 0), ReadAddr("FormAddrFromScratchDbr", 0),
             AddIndex("Y", FALSE, FALSE)>>)

FetchJumpAbsoluteIndirect ==
    Cycles(<<FetchAddrByte("Low", "Leave"), FetchAddrByte("High", "Zero"),
             ReadAddr("StashIndirectLow", 0), ReadAddr("SetPcFromScratchAndFetch", 0)>>)
FetchJumpAbsoluteIndirectLong ==
    Cycles(<<FetchAddrByte("Low", "Leave"), FetchAddrByte("High", "Zero"),
             ReadAddr("StashIndirectLow", 0), ReadAddr("StashIndirectHigh", 0),
             ReadAddr("SetPcFromScratchAndFetch", 1)>>)
(* Mutant: the pointer is read from bank 0, as for the other indirect jumps.   *)
FetchJumpAbsoluteIndexedIndirectBank0 ==
    Cycles(<<FetchAddrByte("Low", "Leave"), FetchAddrByte("High", "Zero"),
             AddIndex("X", TRUE, FALSE), ReadAddr("StashIndirectLow", 0),
             ReadAddr("SetPcFromScratchAndFetch", 0)>>)
FetchJumpAbsoluteIndexedIndirectX ==
    Cycles(<<FetchAddrByte("Low", "Leave"), FetchAddrByte("High", "PBR"),
             AddIndex("X", TRUE, FALSE), ReadAddr("StashIndirectLow", 0),
             ReadAddr("SetPcFromScratchAndFetch", 0)>>)

(* ... and what is done with the operand once addr_ points at it.           *)
LoadRegFromAddr(reg, wide) ==
    Cycles(<<When(Negation(Condition(wide)), ReadAddr("LoadReg", PackLoadReg(reg, "Low", TRUE, FALSE))),
             When(Condition(wide), ReadAddr("LoadReg", PackLoadReg(reg, "Low", FALSE, TRUE))),
             When(Condition(wide), ReadAddr("LoadReg", PackLoadReg(reg, "High", TRUE, FALSE)))>>)
AluFromAddr(op, wide) ==
    Cycles(<<When(Negation(Condition(wide)), ReadAddr("Alu8Imm", PackAluOp(op, FALSE))),
             When(Condition(wide), ReadAddr("StashOperandLow", 0)),
             When(Condition(wide), ReadAddr("Alu16Imm", PackAluOp(op, TRUE)))>>)
StoreRegToAddr(src, wide) ==
    Cycles(<<WriteRegByte(src, "Low", "ModifyAddr"),
             When(Condition(wide), WriteRegByte(src, "High", "None"))>>)
ReadModifyWriteFromAddr(op) ==
    Cycles(<<ReadAddr("StashOperandLow", 0),
             When(Condition(Accumulator16), ReadAddr("None", 0)),
             Internal("RmwMem", CodeOf(RmwOps, op)),
             Slot("WriteRegByte", "ModifyAddr", Always,
                  PackWriteAddr("FetchData", "Low") + PackModifyAddr(FALSE)),
             When(Condition(Accumulator16), WriteRegByte("ScratchLow", "Low", "None"))>>)
=============================================================================
