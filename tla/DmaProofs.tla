----------------------------- MODULE DmaProofs ------------------------------
(***************************************************************************)
(* What the DMA unit does, proved for every size of a byte, number of      *)
(* channels, ring, ROM, set of register contents and bound.                *)
(***************************************************************************)
EXTENDS DmaController, NaturalFacts, FiniteSetTheorems, SequenceTheorems

BankSize == ByteSize * ByteSize

(***************************************************************************)
(* What the variables hold, the work in progress included.                 *)
(***************************************************************************)
Memory == [wram : [Cells -> Byte], wmadd : Cells, latch : Byte]
Snapshot == [dmap : Dmap, bbad : Byte, a1b : Banks, a1t : Offset, das : Offset,
             bytes : 1..BankSize]
Record == [start : Nat, end : Nat, mask : SUBSET Channels,
           regs : UNION {[mask -> Snapshot] : mask \in SUBSET Channels}]
Entry == [ch : Channels, bank : Banks, off : Offset, reg : Byte, t : Nat]
Burst == [kind : {"burst"}, todo : SUBSET Channels, i : Nat, t : Nat, record : Record,
          log : Seq(Entry), before : Memory]
Line == [kind : {"line"}, todo : SUBSET Channels, serviced : SUBSET Channels,
         step : {"header", "bytes"}, i : Nat, log : Seq(Entry), t : Nat]

Types ==
  /\ channels \in [Channels -> ChannelState]
  /\ phase \in {"init", "line"} /\ nextV \in 0..LastVisibleV
  /\ active \subseteq Channels /\ hdmaen \subseteq Channels
  /\ mem \in Memory
  /\ now \in Nat
  /\ work \in {Idle} \cup Burst \cup Line
  /\ work.kind = "burst" => work.record.regs \in [work.record.mask -> Snapshot]
  /\ frame \in [Channels -> [start : ChannelState, lines : Nat, kept : BOOLEAN]]

(***************************************************************************)
(* The ring's write position goes round; the slot of each of the last      *)
(* RingCapacity bursts is found from its number since the reset.           *)
(***************************************************************************)
Ring ==
  /\ ringCount \in Nat
  /\ triggers \in Seq(Record) /\ Len(triggers) = ringCount
  /\ ring = [slot \in 0..(RingCapacity - 1) |-> ring[slot]]
  /\ \A n \in 1..ringCount :
       n > ringCount - RingCapacity => ring[(n - 1) % RingCapacity] = triggers[n]

-----------------------------------------------------------------------------
(***************************************************************************)
(* The sizes: a bank, its offsets, the cells of WRAM.                      *)
(***************************************************************************)
LEMMA Sizes ==
  /\ ByteSize \in Nat /\ ByteSize >= 8 /\ ByteSize % 8 = 0
  /\ BankSize \in Nat \ {0} /\ BankSize >= ByteSize
  /\ Offset = 0..(BankSize - 1)
  /\ Cells = 0..(2 * BankSize - 1)
  /\ PortBase \in Byte /\ PortBase + 3 \in Byte /\ 2 * PortBase = ByteSize
<1>1. ByteSize \in Nat /\ ByteSize >= 8 /\ ByteSize % 8 = 0
  BY ByteAssumption
<1>2. ByteSize * ByteSize \in Nat /\ ByteSize * ByteSize >= ByteSize
  <2>1. ByteSize * (ByteSize - 1) >= 0
    BY <1>1
  <2> QED
    BY <1>1, <2>1
<1>3. 2 * ByteSize * ByteSize = 2 * (ByteSize * ByteSize)
  BY <1>1
<1>4. PortBase = 4 * (ByteSize \div 8) /\ ByteSize = 8 * (ByteSize \div 8)
  BY <1>1 DEF PortBase
<1> QED
  BY <1>1, <1>2, <1>3, <1>4 DEF BankSize, Offset, Cells, Byte

(***************************************************************************)
(* An address that steps stays in its bank.                                *)
(***************************************************************************)
LEMMA TurnInBank ==
  ASSUME NEW off \in Offset, NEW by \in Int
  PROVE  Turn(off, by) \in Offset
<1>1. off + by \in Int
  BY Sizes
<1>2. (off + by) % BankSize \in 0..(BankSize - 1)
  BY <1>1, Sizes
<1> QED
  BY <1>2, Sizes DEF Turn, BankSize

(***************************************************************************)
(* The cell an address of WRAM names, and the port's address after a byte. *)
(***************************************************************************)
LEMMA CellInWram ==
  ASSUME NEW bank \in Banks, NEW off \in Offset
  PROVE  Cell(bank, off) \in Cells
BY Sizes DEF Cell, BankSize

(***************************************************************************)
(* The WRAM port's address wraps at the end of the 128 KiB, as the 17-bit  *)
(* WMADD does.                                                             *)
(***************************************************************************)
LEMMA BumpedInWram ==
  ASSUME NEW address \in Cells
  PROVE  Bumped(address) \in Cells /\ Bumped(address) = (address + 1) % (2 * BankSize)
<1>1. 2 * ByteSize * ByteSize = 2 * BankSize
  BY Sizes DEF BankSize
<1>2. 2 * BankSize \in Nat \ {0} /\ address + 1 \in Int
  BY Sizes
<1>3. (address + 1) % (2 * BankSize) \in 0..(2 * BankSize - 1)
  BY <1>2
<1> QED
  BY <1>1, <1>3, Sizes DEF Bumped

(***************************************************************************)
(* An address of WRAM as the three bytes of WMADD.                         *)
(***************************************************************************)
LEMMA AddressBytes ==
  ASSUME NEW address \in Cells
  PROVE  \E high \in {0, 1}, middle \in Byte, low \in Byte :
           /\ address = BankSize * high + (ByteSize * middle + low)
           /\ address % ByteSize = low
           /\ (address \div ByteSize) % ByteSize = middle
           /\ address \div BankSize = high
<1>1. address \in 0..(BankSize * 2 - 1) /\ 2 \in Nat \ {0} /\ BankSize \in Nat \ {0}
  BY Sizes
<1>2. PICK high \in 0..1, rest \in 0..(BankSize - 1) :
        high = address \div BankSize /\ address = BankSize * high + rest
  BY <1>1, DigitsOf
<1>3. rest \in 0..(ByteSize * ByteSize - 1) /\ ByteSize \in Nat \ {0}
  BY Sizes DEF BankSize
<1>4. PICK middle \in 0..(ByteSize - 1), low \in 0..(ByteSize - 1) :
        rest = ByteSize * middle + low
  BY <1>3, DigitsOf
<1>5. address = ByteSize * (ByteSize * high + middle) + low
  <2>1. ByteSize * (ByteSize * high + middle) = BankSize * high + ByteSize * middle
    BY <1>3 DEF BankSize
  <2>2. BankSize * high \in Nat /\ ByteSize * middle \in Nat
    BY <1>1, <1>3
  <2> QED
    BY <1>2, <1>4, <2>1, <2>2
<1>6. ByteSize * high + middle \in Int
  BY <1>3
<1>7. address % ByteSize = low /\ address \div ByteSize = ByteSize * high + middle
  BY <1>3, <1>5, <1>6, RemainderOf
<1>8. (ByteSize * high + middle) % ByteSize = middle
  BY <1>3, RemainderOf
<1> QED
  BY <1>2, <1>4, <1>7, <1>8 DEF Byte

(***************************************************************************)
(* Writing one byte of WMADD leaves an address of WRAM.                    *)
(***************************************************************************)
LEMMA WmaddInWram ==
  ASSUME NEW address \in Cells, NEW reg \in WramPorts \ {PortBase}, NEW data \in Byte
  PROVE  Wmadd(address, reg, data) \in Cells
<1>1. PICK high \in {0, 1}, middle \in Byte, low \in Byte :
        /\ address = BankSize * high + (ByteSize * middle + low)
        /\ address % ByteSize = low
        /\ (address \div ByteSize) % ByteSize = middle
        /\ address \div (ByteSize * ByteSize) = high
  BY AddressBytes DEF BankSize
<1>2. ASSUME NEW h \in {0, 1}, NEW m \in Byte, NEW l \in Byte
      PROVE  BankSize * h + (ByteSize * m + l) \in Cells
  <2>1. ByteSize * m + l \in 0..(BankSize - 1)
    BY Sizes, TwoDigits DEF Byte, BankSize
  <2> QED
    BY <2>1, Sizes
<1>3. data \in Nat /\ data % 2 \in {0, 1} /\ middle \in Nat /\ low \in Nat /\ ByteSize \in Nat
      /\ address \in Nat /\ PortBase \in Nat /\ BankSize \in Nat
  BY Sizes DEF Byte
<1>4. CASE reg = PortBase + 1
  <2>0. Wmadd(address, reg, data) = address - (address % ByteSize) + data
    BY <1>3, <1>4 DEF Wmadd
  <2>1. Wmadd(address, reg, data) = address - low + data
    BY <1>1, <2>0
  <2>2. ByteSize * middle \in Nat /\ BankSize * high \in Nat
    BY <1>3
  <2>3. Wmadd(address, reg, data) = BankSize * high + (ByteSize * middle + data)
    BY <1>1, <1>3, <2>1, <2>2
  <2> QED
    BY <1>2, <2>3
<1>5. CASE reg = PortBase + 2
  <2>1. Wmadd(address, reg, data) = address + (data - middle) * ByteSize
    BY <1>1, <1>3, <1>5 DEF Wmadd
  <2>2. (data - middle) * ByteSize = ByteSize * data - ByteSize * middle
    BY <1>3
  <2>3. ByteSize * middle \in Nat /\ ByteSize * data \in Nat /\ BankSize * high \in Nat
    BY <1>3
  <2>4. Wmadd(address, reg, data) = BankSize * high + (ByteSize * data + low)
    BY <1>1, <1>3, <2>1, <2>2, <2>3
  <2> QED
    BY <1>2, <2>4
<1>6. CASE reg = PortBase + 3
  <2>1. Wmadd(address, reg, data) = address + ((data % 2) - high) * ByteSize * ByteSize
    BY <1>1, <1>3, <1>6 DEF Wmadd
  <2>2. ((data % 2) - high) * ByteSize * ByteSize = BankSize * (data % 2) - BankSize * high
    BY <1>3 DEF BankSize
  <2>3. ByteSize * middle \in Nat /\ BankSize * (data % 2) \in Nat /\ BankSize * high \in Nat
    BY <1>3
  <2>4. Wmadd(address, reg, data) = BankSize * (data % 2) + (ByteSize * middle + low)
    BY <1>1, <1>3, <2>1, <2>2, <2>3
  <2> QED
    BY <1>2, <1>3, <2>4
<1>7. reg \in {PortBase + 1, PortBase + 2, PortBase + 3}
  BY Sizes DEF WramPorts, Byte
<1> QED
  BY <1>4, <1>5, <1>6, <1>7

-----------------------------------------------------------------------------
(***************************************************************************)
(* The four accesses, and a byte's transfer between the buses, leave       *)
(* bytes in the cells and in the latch.                                    *)
(***************************************************************************)
LEMMA ReadTypes ==
  ASSUME NEW m \in Memory, NEW bank \in Banks, NEW off \in Offset, NEW reg \in Byte
  PROVE  ReadA(m, bank, off) \in Memory /\ ReadB(m, reg) \in Memory
<1>1. Rom[off] \in Byte /\ DeviceByte[reg] \in Byte
  BY ProgramAssumption
<1>2. Cell(bank, off) \in Cells /\ Bumped(m.wmadd) \in Cells
  BY CellInWram, BumpedInWram DEF Memory
<1>3. m.wram[Cell(bank, off)] \in Byte /\ m.wram[m.wmadd] \in Byte
  BY <1>2 DEF Memory
<1> QED
  BY <1>1, <1>2, <1>3 DEF Memory, ReadA, ReadB

(***************************************************************************)
(* A byte written on the A bus or to a B-bus register leaves the memory    *)
(* well formed: the cell, the port's address and the device registers stay *)
(* in their ranges.                                                        *)
(***************************************************************************)
LEMMA WriteTypes ==
  ASSUME NEW m \in Memory, NEW bank \in Banks, NEW off \in Offset, NEW reg \in Byte,
         NEW data \in Byte
  PROVE  WriteA(m, bank, off, data) \in Memory /\ WriteB(m, reg, data) \in Memory
<1>1. Cell(bank, off) \in Cells /\ Bumped(m.wmadd) \in Cells
  BY CellInWram, BumpedInWram DEF Memory
<1>2. reg \in WramPorts \ {PortBase} => Wmadd(m.wmadd, reg, data) \in Cells
  BY WmaddInWram DEF Memory
<1>3. WriteA(m, bank, off, data) \in Memory
  BY <1>1 DEF Memory, WriteA
<1>4. WriteB(m, reg, data) \in Memory
  BY <1>1, <1>2 DEF Memory, WriteB
<1> QED
  BY <1>3, <1>4

(***************************************************************************)
(* One transferred byte (TransferByte, either direction, the refused WRAM- *)
(* to-WRAM case included) leaves the memory well formed.                   *)
(***************************************************************************)
LEMMA TransferTypes ==
  ASSUME NEW m \in Memory, NEW bank \in Banks, NEW off \in Offset, NEW reg \in Byte,
         NEW bToA \in BOOLEAN
  PROVE  TransferByte(m, bank, off, reg, bToA) \in Memory
<1> DEFINE read == IF Conflict(bank, off, reg) THEN m
                   ELSE IF bToA THEN ReadB(m, reg) ELSE ReadA(m, bank, off)
<1>1. read \in Memory /\ read.latch \in Byte
  <2>1. read \in Memory
    BY ReadTypes
  <2> QED
    BY <2>1 DEF Memory
<1>2. TransferByte(m, bank, off, reg, bToA) =
        IF bToA THEN WriteA(read, bank, off, read.latch)
        ELSE IF Conflict(bank, off, reg) THEN m ELSE WriteB(read, reg, read.latch)
  BY DEF TransferByte
<1> HIDE DEF read
<1> QED
  BY <1>1, <1>2, WriteTypes

(***************************************************************************)
(* The patterns of the transfer modes, and the register of the n-th byte.  *)
(***************************************************************************)
LEMMA PatternTypes ==
  ASSUME NEW mode \in 0..7
  PROVE  /\ Len(Pattern(mode)) \in {1, 2, 4}
         /\ \A n \in 1..Len(Pattern(mode)) : Pattern(mode)[n] \in 0..3
BY DEF Pattern

(***************************************************************************)
(* The B-bus register of the i-th byte of a unit is a byte: BBAD plus the  *)
(* pattern's offset wraps at 8 bits.                                       *)
(***************************************************************************)
LEMMA BRegTypes ==
  ASSUME NEW c, c.dmap \in Dmap, c.bbad \in Byte, NEW i \in Nat
  PROVE  BReg(c, i) \in Byte
<1>1. c.dmap.mode \in 0..7
  BY DEF Dmap
<1> DEFINE pattern == Pattern(c.dmap.mode)
           len == Len(pattern)
<1>2. len \in {1, 2, 4} /\ \A n \in 1..len : pattern[n] \in 0..3
  BY <1>1, PatternTypes
<1>3. BReg(c, i) = (c.bbad + pattern[(i % len) + 1]) % ByteSize
  BY DEF BReg
<1> HIDE DEF pattern, len
<1>4. (i % len) + 1 \in 1..len
  BY <1>2
<1>5. c.bbad + pattern[(i % len) + 1] \in Int
  BY <1>2, <1>4, Sizes DEF Byte
<1> QED
  BY <1>3, <1>5, Sizes DEF Byte

(***************************************************************************)
(* A write to a register leaves a channel's registers in their ranges.     *)
(***************************************************************************)
LEMMA HalvesTypes ==
  ASSUME NEW value \in Offset, NEW data \in Byte
  PROVE  LowHalf(value, data) \in Offset /\ HighHalf(value, data) \in Offset
<1>1. /\ value \in 0..(ByteSize * ByteSize - 1) /\ data \in 0..(ByteSize - 1)
      /\ ByteSize \in Nat \ {0} /\ Offset = 0..(ByteSize * ByteSize - 1)
  BY Sizes DEF Byte, Offset
<1>2. PICK high \in 0..(ByteSize - 1), low \in 0..(ByteSize - 1) :
        value = ByteSize * high + low /\ value % ByteSize = low
  BY <1>1, DigitsOf
<1>3. LowHalf(value, data) = ByteSize * high + data
  <2>1. LowHalf(value, data) = value - low + data
    BY <1>2 DEF LowHalf
  <2>2. ByteSize * high \in Int
    BY <1>1
  <2> QED
    BY <1>1, <1>2, <2>1, <2>2
<1>4. HighHalf(value, data) = ByteSize * data + low
  BY <1>1, <1>2 DEF HighHalf
<1> QED
  BY <1>1, <1>3, <1>4, TwoDigits

(***************************************************************************)
(* A register write ($43x0-$43xA) leaves the channel well formed, the      *)
(* 16-bit registers written one half at a time included.                   *)
(***************************************************************************)
LEMMA WrittenTypes ==
  ASSUME NEW c \in ChannelState, NEW reg \in Registers, NEW data \in RegisterValues(reg)
  PROVE  Written(c, reg, data) \in ChannelState
<1>1. c.a1t \in Offset /\ c.das \in Offset /\ c.a2a \in Offset
  BY DEF ChannelState
<1>2. CASE reg \in {"a1tl", "a1th", "dasl", "dash", "a2al", "a2ah"}
  <2>1. data \in Byte
    BY <1>2 DEF RegisterValues
  <2> QED
    BY <1>1, <1>2, <2>1, HalvesTypes DEF ChannelState, Written
<1>3. CASE reg \in {"bbad", "ntrl"}
  BY <1>3 DEF RegisterValues, ChannelState, Written
<1>4. CASE reg \in {"a1b", "dasb"}
  BY <1>4 DEF RegisterValues, ChannelState, Written
<1>5. CASE reg = "dmap"
  BY <1>5 DEF RegisterValues, ChannelState, Written
<1> QED
  BY <1>2, <1>3, <1>4, <1>5 DEF Registers

-----------------------------------------------------------------------------
(***************************************************************************)
(* The lowest channel of a set, which the loops over the channels serve    *)
(* next, is in the set.                                                    *)
(***************************************************************************)
LEMMA FirstIsLeast ==
  ASSUME NEW chs \in SUBSET Channels, chs # {}
  PROVE  First(chs) \in chs /\ \A d \in chs : First(chs) <= d
<1>1. \E c \in chs : \A d \in chs : c <= d
  BY LeastNatural, ProgramAssumption
<1> QED
  BY <1>1 DEF First

(***************************************************************************)
(* The three kinds of work, told apart by their kind.                      *)
(***************************************************************************)
LEMMA Kinds ==
  ASSUME Types
  PROVE  /\ work.kind = "none" => work = Idle
         /\ work.kind = "burst" => work \in Burst
         /\ work.kind = "line" => work \in Line
BY DEF Types, Idle, Burst, Line

(***************************************************************************)
(* The machine starts with well-formed registers.                          *)
(***************************************************************************)
LEMMA ResetChannelType == ResetChannel \in ChannelState
<1>1. 0 \in Byte /\ 0 \in Offset
  BY Sizes DEF Byte
<1> QED
  BY <1>1 DEF ResetChannel, ChannelState, Dmap, Banks

(***************************************************************************)
(* The controller starts well formed.                                      *)
(***************************************************************************)
LEMMA InitTypes == Init => Types
<1> SUFFICES ASSUME Init
             PROVE  Types
  OBVIOUS
<1>1. channels \in [Channels -> ChannelState]
  BY ProgramAssumption DEF Init
<1>2. mem \in Memory
  <2>1. \A n \in Cells : n % ByteSize \in Byte
    BY Sizes DEF Byte
  <2>2. 0 \in Cells /\ ByteSize - 1 \in Byte
    BY Sizes DEF Byte
  <2> QED
    BY <2>1, <2>2 DEF Init, Memory
<1>3. frame \in [Channels -> [start : ChannelState, lines : Nat, kept : BOOLEAN]]
  BY ResetChannelType DEF Init, ResetState, NoFrame
<1>4. work = Idle /\ work.kind = "none"
  BY DEF Init, Idle
<1> QED
  BY <1>1, <1>2, <1>3, <1>4, ProgramAssumption DEF Init, ResetState, Types

(***************************************************************************)
(* What a program does between the unit's own steps.                       *)
(***************************************************************************)
LEMMA ProgramKeepsTypes ==
  ASSUME Types,
         \/ \E w \in Writes : WriteRegister(w[1], w[2], w[3])
         \/ \E mask \in Masks : WriteHdmaEn(mask)
         \/ Reset
  PROVE  Types'
<1>1. ASSUME NEW w \in Writes, WriteRegister(w[1], w[2], w[3])
      PROVE  Types'
  <2>1. w[1] \in Channels /\ w[2] \in Registers /\ w[3] \in RegisterValues(w[2])
    BY ProgramAssumption
  <2>2. Written(channels[w[1]], w[2], w[3]) \in ChannelState
    BY <2>1, WrittenTypes DEF Types
  <2>3. channels' \in [Channels -> ChannelState]
    BY <1>1, <2>1, <2>2 DEF WriteRegister, Types
  <2>4. frame' \in [Channels -> [start : ChannelState, lines : Nat, kept : BOOLEAN]]
    BY <1>1, <2>1, ZenonT(40) DEF WriteRegister, Types
  <2> QED
    BY <1>1, <2>3, <2>4 DEF WriteRegister, Types, hdmaVars
<1>2. ASSUME NEW mask \in Masks, WriteHdmaEn(mask)
      PROVE  Types'
  BY <1>2, ProgramAssumption DEF WriteHdmaEn, Types
<1>3. CASE Reset
  <2>1. mem' \in Memory
    <3>1. mem' = [mem EXCEPT !.wmadd = 0] /\ mem \in Memory /\ 0 \in Cells
      BY <1>3, Sizes DEF Reset, Types
    <3> QED
      BY <3>1 DEF Memory
  <2>2. frame' \in [Channels -> [start : ChannelState, lines : Nat, kept : BOOLEAN]]
    BY <1>3, ResetChannelType DEF Reset, NoFrame
  <2> QED
    BY <1>3, <2>1, <2>2, ProgramAssumption, ResetChannelType DEF Reset, Types
<1> QED
  BY <1>1, <1>2, <1>3

(***************************************************************************)
(* What Trigger notes of a channel.                                        *)
(***************************************************************************)
LEMMA RecordTypes ==
  ASSUME Types, NEW mask \in SUBSET Channels
  PROVE  /\ RecordOf(mask) \in Record
         /\ RecordOf(mask).mask = mask /\ RecordOf(mask).regs \in [mask -> Snapshot]
<1>1. ASSUME NEW c \in mask
      PROVE  [dmap |-> channels[c].dmap, bbad |-> channels[c].bbad, a1b |-> channels[c].a1b,
              a1t |-> channels[c].a1t, das |-> channels[c].das,
              bytes |-> BytesOf(channels[c])] \in Snapshot
  <2>1. channels[c] \in ChannelState
    BY DEF Types
  <2>2. BytesOf(channels[c]) \in 1..BankSize
    BY <2>1, Sizes DEF BytesOf, ChannelState, BankSize
  <2> QED
    BY <2>1, <2>2 DEF ChannelState, Snapshot
<1>2. RecordOf(mask).regs \in [mask -> Snapshot]
  BY <1>1 DEF RecordOf
<1> QED
  BY <1>2 DEF RecordOf, Record, Types

(***************************************************************************)
(* The steps of a burst.                                                   *)
(***************************************************************************)
LEMMA BurstKeepsTypes ==
  ASSUME Types,
         \/ \E mask \in Masks : TriggerBegin(mask)
         \/ BurstByte
         \/ TriggerEnd
  PROVE  Types'
<1>1. ASSUME NEW mask \in Masks, TriggerBegin(mask)
      PROVE  Types'
  <2>1. mask \in SUBSET Channels
    BY ProgramAssumption
  <2>2. << >> \in Seq(Entry) /\ now + 8 \in Nat /\ 0 \in Nat
    BY DEF Types
  <2>3. work' \in Burst /\ work'.record = RecordOf(mask)
    BY <1>1, <2>1, <2>2, RecordTypes DEF TriggerBegin, Burst, Types
  <2>4. work'.record.regs \in [work'.record.mask -> Snapshot]
    BY <2>1, <2>3, RecordTypes
  <2> QED
    BY <1>1, <2>3, <2>4 DEF TriggerBegin, Types, hdmaVars
<1>2. CASE BurstByte
  <2> DEFINE ch == First(work.todo)
             c == channels[ch]
             reg == BReg(c, work.i)
  <2>1. work \in Burst /\ work.todo # {}
    BY <1>2, Kinds DEF BurstByte
  <2>2. ch \in Channels /\ c \in ChannelState
    BY <2>1, FirstIsLeast DEF Burst, Types
  <2>3. reg \in Byte
    BY <2>1, <2>2, BRegTypes DEF Burst, ChannelState
  <2>4. mem' = TransferByte(mem, c.a1b, c.a1t, reg, c.dmap.bToA)
    BY <1>2 DEF BurstByte
  <2>5. c.a1b \in Banks /\ c.a1t \in Offset /\ c.das \in Offset /\ c.dmap.bToA \in BOOLEAN
    BY <2>2 DEF ChannelState, Dmap
  <2>6. mem' \in Memory
    BY <2>3, <2>4, <2>5, TransferTypes DEF Types
  <2>7. Turn(c.das, -1) \in Offset /\ Turn(c.a1t, Delta(c.dmap.step)) \in Offset
    <3>1. Delta(c.dmap.step) \in Int /\ -1 \in Int
      BY DEF Delta
    <3> QED
      BY <2>5, <3>1, TurnInBank
  <2>8. channels' \in [Channels -> ChannelState]
    <3>1. channels' = [channels EXCEPT ![ch].das = Turn(c.das, -1),
                                       ![ch].a1t = Turn(c.a1t, Delta(c.dmap.step))]
      BY <1>2, <2>2 DEF BurstByte, Types
    <3> HIDE DEF ch, reg
    <3> QED
      BY <2>2, <2>7, <3>1 DEF Types, ChannelState
  <2>9. Logged(ch, c.a1b, c.a1t, reg) \in Entry
    BY <2>1, <2>2, <2>3, <2>5 DEF Logged, Entry, Burst
  <2>10. work' \in Burst /\ work'.record = work.record
    <3>1. work' = [work EXCEPT !.i = NextIndex(work.i, Turn(c.das, -1)), !.t = work.t + 8,
                     !.todo = IF Turn(c.das, -1) = 0 THEN work.todo \ {ch} ELSE work.todo,
                     !.log = Append(work.log, Logged(ch, c.a1b, c.a1t, reg))]
      BY <1>2 DEF BurstByte
    <3>2. NextIndex(work.i, Turn(c.das, -1)) \in Nat
      BY <2>1 DEF NextIndex, Burst
    <3>3. Append(work.log, Logged(ch, c.a1b, c.a1t, reg)) \in Seq(Entry)
      BY <2>1, <2>9 DEF Burst
    <3>4. work.t + 8 \in Nat /\ work.todo \in SUBSET Channels /\ work.todo \ {ch} \in SUBSET Channels
      BY <2>1 DEF Burst
    <3>5. ASSUME NEW i \in Nat, NEW t \in Nat, NEW todo \in SUBSET Channels, NEW log \in Seq(Entry)
          PROVE  [work EXCEPT !.i = i, !.t = t, !.todo = todo, !.log = log] \in Burst
      BY <2>1 DEF Burst
    <3> DEFINE todo == IF Turn(c.das, -1) = 0 THEN work.todo \ {ch} ELSE work.todo
    <3>6. todo \in SUBSET Channels
      BY <3>4
    <3> HIDE DEF ch, c, reg, todo
    <3>7. work' \in Burst
      BY <3>1, <3>2, <3>3, <3>4, <3>5, <3>6 DEF todo
    <3> QED
      BY <2>1, <3>1, <3>7 DEF Burst
  <2>11. work'.record.regs \in [work'.record.mask -> Snapshot]
    BY <1>2, <2>10 DEF BurstByte, Types
  <2>12. frame' \in [Channels -> [start : ChannelState, lines : Nat, kept : BOOLEAN]]
    <3>1. frame' = [frame EXCEPT ![ch].kept = frame[ch].kept /\ ~c.dmap.indirect]
      BY <1>2, <2>2 DEF BurstByte, Types
    <3> HIDE DEF ch, c
    <3> QED
      BY <2>2, <3>1 DEF Types
  <2> QED
    BY <1>2, <2>6, <2>8, <2>10, <2>11, <2>12 DEF BurstByte, Types, hdmaVars
<1>3. CASE TriggerEnd
  <2>1. work.t \in Nat
    BY <1>3, Kinds DEF TriggerEnd, Burst
  <2> QED
    BY <1>3, <2>1 DEF TriggerEnd, Types, Idle, hdmaVars
<1> QED
  BY <1>1, <1>2, <1>3

(***************************************************************************)
(* The steps of one channel on one line of HDMA.                           *)
(***************************************************************************)
LEMMA LineStepTypes ==
  ASSUME Types, HeaderKept \/ HeaderEnds \/ HeaderLoaded \/ HdmaByte \/ HdmaCount
  PROVE  channels' \in [Channels -> ChannelState] /\ mem' \in Memory /\ work' \in Line
<1> DEFINE ch == First(work.todo)
           c == channels[ch]
<1>1. work \in Line /\ work.todo # {}
  BY Kinds DEF HeaderKept, HeaderEnds, HeaderLoaded, HdmaByte, HdmaCount, InLine
<1>2. ch \in Channels /\ c \in ChannelState
  BY <1>1, FirstIsLeast DEF Line, Types
<1>3. /\ c.a1b \in Banks /\ c.dasb \in Banks /\ c.a2a \in Offset /\ c.das \in Offset
      /\ c.ntrl \in Byte /\ mem \in Memory
  BY <1>2 DEF ChannelState, Types
<1>4. Turn(c.a2a, 1) \in Offset /\ Turn(c.a2a, 2) \in Offset /\ Turn(c.a2a, 3) \in Offset
      /\ Turn(c.das, 1) \in Offset
  BY <1>3, TurnInBank
<1>5. ASSUME NEW d \in ChannelState
      PROVE  [channels EXCEPT ![ch] = d] \in [Channels -> ChannelState]
  BY <1>2 DEF Types
<1>6. /\ work.t \in Nat /\ work.t + 8 \in Nat /\ work.t + 24 \in Nat
      /\ work.i \in Nat /\ work.i + 1 \in Nat
      /\ work.log \in Seq(Entry) /\ work.todo \ {ch} \in SUBSET Channels
  BY <1>1 DEF Line
<1>7. CASE HeaderKept
  BY <1>1, <1>7 DEF HeaderKept, Types, Line
<1>8. CASE HeaderEnds
  <2>1. ReadA(mem, c.a1b, c.a2a) \in Memory
    <3>1. 0 \in Byte
      BY Sizes DEF Byte
    <3> QED
      BY <1>3, <3>1, ReadTypes
  <2>2. mem' \in Memory
    BY <1>8, <2>1 DEF HeaderEnds
  <2>3. channels' = [channels EXCEPT ![ch] = [c EXCEPT !.a2a = Turn(c.a2a, 1), !.finished = TRUE]]
    BY <1>2, <1>8 DEF HeaderEnds, Types
  <2>4. [c EXCEPT !.a2a = Turn(c.a2a, 1), !.finished = TRUE] \in ChannelState
    BY <1>2, <1>4 DEF ChannelState
  <2>5. work' = [work EXCEPT !.todo = work.todo \ {ch}, !.t = work.t + 8]
    BY <1>8 DEF HeaderEnds
  <2> HIDE DEF ch, c
  <2>6. work' \in Line
    BY <1>1, <1>6, <2>5 DEF Line
  <2> QED
    BY <1>5, <2>2, <2>3, <2>4, <2>6
<1>9. CASE HeaderLoaded
  <2> DEFINE read == ReadA(mem, c.a1b, c.a2a)
             low == ReadA(read, c.a1b, Turn(c.a2a, 1))
             high == ReadA(low, c.a1b, Turn(c.a2a, 2))
             loaded == [c EXCEPT !.ntrl = read.latch, !.doTransfer = TRUE]
  <2>0. 0 \in Byte
    BY Sizes DEF Byte
  <2>1. read \in Memory
    BY <1>3, <2>0, ReadTypes
  <2>2. low \in Memory
    <3> HIDE DEF read
    <3> QED
      BY <1>3, <1>4, <2>0, <2>1, ReadTypes
  <2>3. high \in Memory
    <3> HIDE DEF low
    <3> QED
      BY <1>3, <1>4, <2>0, <2>2, ReadTypes
  <2>4. read.latch \in Byte /\ low.latch \in Byte /\ high.latch \in Byte
    BY <2>1, <2>2, <2>3 DEF Memory
  <2>5. low.latch + ByteSize * high.latch \in Offset
    <3> HIDE DEF low, high
    <3>0. ByteSize \in Nat \ {0} /\ high.latch \in 0..(ByteSize - 1) /\ low.latch \in 0..(ByteSize - 1)
      BY <2>4, Sizes DEF Byte
    <3>1. ByteSize * high.latch + low.latch \in 0..(ByteSize * ByteSize - 1)
      BY <3>0, TwoDigits
    <3>2. ByteSize * high.latch \in Int /\ low.latch \in Int
      BY <2>4, Sizes DEF Byte
    <3> QED
      BY <3>1, <3>2 DEF Offset
  <2>6. loaded \in ChannelState
    <3> HIDE DEF read
    <3> QED
      BY <1>2, <2>4 DEF ChannelState
  <2>7. CASE c.dmap.indirect
    <3>1. /\ mem' = high
          /\ channels' = [channels EXCEPT ![ch] =
               [loaded EXCEPT !.das = low.latch + ByteSize * high.latch,
                              !.a2a = Turn(c.a2a, 3)]]
          /\ work' = [work EXCEPT !.step = "bytes", !.t = work.t + 24]
      BY <1>2, <1>9, <2>7 DEF HeaderLoaded, Types, ChannelState
    <3>2. work' \in Line
      BY <1>1, <1>6, <3>1 DEF Line
    <3>3. [loaded EXCEPT !.das = low.latch + ByteSize * high.latch, !.a2a = Turn(c.a2a, 3)]
            \in ChannelState
      <4> HIDE DEF loaded, low, high, c
      <4> QED
        BY <1>4, <2>5, <2>6 DEF ChannelState
    <3> HIDE DEF loaded, low, high, c, ch
    <3> QED
      BY <1>5, <2>3, <3>1, <3>2, <3>3
  <2>8. CASE ~c.dmap.indirect
    <3>1. /\ mem' = read
          /\ channels' = [channels EXCEPT ![ch] = [loaded EXCEPT !.a2a = Turn(c.a2a, 1)]]
          /\ work' = [work EXCEPT !.step = "bytes", !.t = work.t + 8]
      BY <1>2, <1>9, <2>8 DEF HeaderLoaded, Types, ChannelState
    <3>2. work' \in Line
      BY <1>1, <1>6, <3>1 DEF Line
    <3>3. [loaded EXCEPT !.a2a = Turn(c.a2a, 1)] \in ChannelState
      <4> HIDE DEF loaded, c
      <4> QED
        BY <1>4, <2>6 DEF ChannelState
    <3> HIDE DEF loaded, read, c, ch
    <3> QED
      BY <1>5, <2>1, <3>1, <3>2, <3>3
  <2> QED
    BY <2>7, <2>8
<1>10. CASE HdmaByte
  <2> DEFINE bank == IF c.dmap.indirect THEN c.dasb ELSE c.a1b
             off == IF c.dmap.indirect THEN c.das ELSE c.a2a
             reg == BReg(c, work.i)
  <2>1. bank \in Banks /\ off \in Offset
    BY <1>3
  <2>2. reg \in Byte
    BY <1>2, <1>6, BRegTypes DEF ChannelState
  <2>3. mem' = TransferByte(mem, bank, off, reg, FALSE)
    BY <1>10 DEF HdmaByte
  <2>4. mem' \in Memory
    <3> HIDE DEF bank, off, reg
    <3> QED
      BY <1>3, <2>1, <2>2, <2>3, TransferTypes
  <2>5. channels' \in [Channels -> ChannelState]
    <3>1. channels' = IF c.dmap.indirect
                      THEN [channels EXCEPT ![ch] = [c EXCEPT !.das = Turn(c.das, 1)]]
                      ELSE [channels EXCEPT ![ch] = [c EXCEPT !.a2a = Turn(c.a2a, 1)]]
      BY <1>2, <1>10 DEF HdmaByte, Types
    <3>2. /\ [c EXCEPT !.das = Turn(c.das, 1)] \in ChannelState
          /\ [c EXCEPT !.a2a = Turn(c.a2a, 1)] \in ChannelState
      BY <1>2, <1>4 DEF ChannelState
    <3> HIDE DEF c, ch
    <3> QED
      BY <1>5, <3>1, <3>2
  <2>6. Logged(ch, bank, off, reg) \in Entry
    <3> HIDE DEF bank, off, reg, ch
    <3> QED
      BY <1>2, <1>6, <2>1, <2>2 DEF Logged, Entry
  <2>7. work' = [work EXCEPT !.i = work.i + 1, !.t = work.t + 8,
                             !.log = Append(work.log, Logged(ch, bank, off, reg))]
    BY <1>10 DEF HdmaByte
  <2> HIDE DEF bank, off, reg, ch
  <2>8. Append(work.log, Logged(ch, bank, off, reg)) \in Seq(Entry)
    BY <1>6, <2>6
  <2>9. work' \in Line
    BY <1>1, <1>6, <2>7, <2>8 DEF Line
  <2> QED
    BY <2>4, <2>5, <2>9
<1>11. CASE HdmaCount
  <2> DEFINE left == (LinesLeft(c.ntrl) - 1) % (ByteSize \div 2)
             ntrl == left + (IF Repeat(c.ntrl) THEN ByteSize \div 2 ELSE 0)
  <2>1. ntrl \in Byte
    <3>1. ByteSize \div 2 = PortBase /\ PortBase \in Nat \ {0} /\ 2 * PortBase = ByteSize
      BY Sizes DEF PortBase
    <3>2. c.ntrl \in Int /\ LinesLeft(c.ntrl) \in Int
      BY <1>3, <3>1 DEF LinesLeft, Byte
    <3>3. left \in 0..(PortBase - 1)
      BY <3>1, <3>2
    <3> HIDE DEF left
    <3> QED
      BY <3>1, <3>3, Sizes DEF Byte
  <2>2. channels' = [channels EXCEPT ![ch] = [c EXCEPT !.ntrl = ntrl,
                                                     !.doTransfer = Repeat(c.ntrl) \/ left = 0]]
    BY <1>2, <1>11 DEF HdmaCount, Types
  <2>3. [c EXCEPT !.ntrl = ntrl, !.doTransfer = Repeat(c.ntrl) \/ left = 0] \in ChannelState
    <3>1. (Repeat(c.ntrl) \/ left = 0) \in BOOLEAN
      BY DEF Repeat
    <3> HIDE DEF left, ntrl
    <3> QED
      BY <1>2, <2>1, <3>1 DEF ChannelState
  <2>4. mem' = mem /\ work' = [work EXCEPT !.todo = work.todo \ {ch}, !.step = "header", !.i = 0]
    BY <1>11 DEF HdmaCount
  <2> HIDE DEF c, ch, left, ntrl
  <2>5. work' \in Line
    BY <1>1, <1>6, <2>4 DEF Line
  <2> QED
    BY <1>3, <1>5, <2>2, <2>3, <2>4, <2>5
<1> QED
  BY <1>7, <1>8, <1>9, <1>10, <1>11

(***************************************************************************)
(* A frame's start, and its lines.                                         *)
(***************************************************************************)
LEMMA HdmaKeepsTypes ==
  ASSUME Types, FrameInit \/ LineBegin \/ LineStep \/ LineEnd
  PROVE  Types'
<1>1. CASE FrameInit
  <2>1. hdmaen \subseteq Channels /\ now \in Nat /\ channels \in [Channels -> ChannelState]
    BY DEF Types
  <2>2. Cardinality(hdmaen) \in Nat
    BY <2>1, ProgramAssumption, FS_Subset, FS_CardinalityType
  <2>3. channels' \in [Channels -> ChannelState]
    <3>1. ASSUME NEW ch \in Channels
          PROVE  channels'[ch] \in ChannelState
      <4>1. 0 \in Byte /\ channels[ch] \in ChannelState
        BY <2>1, Sizes DEF Byte
      <4> QED
        BY <1>1, <4>1 DEF FrameInit, ChannelState
    <3> QED
      BY <1>1, <3>1 DEF FrameInit
  <2>4. frame' \in [Channels -> [start : ChannelState, lines : Nat, kept : BOOLEAN]]
    <3>1. frame' = [ch \in Channels |->
                     [start |-> channels[ch], lines |-> 0, kept |-> ch \in hdmaen]]
      BY <1>1 DEF FrameInit
    <3>2. \A ch \in Channels : channels[ch] \in ChannelState /\ (ch \in hdmaen) \in BOOLEAN
      BY <2>1
    <3> QED
      BY <3>1, <3>2
  <2>5. now' \in Nat
    <3>1. now' = now + 18 + 8 * Cardinality(hdmaen)
      BY <1>1 DEF FrameInit
    <3> QED
      BY <2>1, <2>2, <3>1
  <2>6. /\ phase' = "line" /\ nextV' = 0 /\ active' = hdmaen
        /\ hdmaen' = hdmaen /\ mem' = mem /\ work' = work
    BY <1>1 DEF FrameInit
  <2>7. nextV' \in 0..LastVisibleV
    BY <2>6, ProgramAssumption
  <2> QED
    BY <2>3, <2>4, <2>5, <2>6, <2>7 DEF Types
<1>2. CASE LineBegin
  <2>1. << >> \in Seq(Entry) /\ 0 \in Nat /\ now + 8 \in Nat /\ now \in Nat /\ Serviced \subseteq Channels
    BY DEF Types, Serviced
  <2>2. work' \in Line
    BY <1>2, <2>1 DEF LineBegin, Line
  <2>3. work'.kind = "line"
    BY <2>2 DEF Line
  <2> QED
    BY <1>2, <2>2, <2>3 DEF LineBegin, Types, hdmaVars
<1>3. CASE LineStep
  <2>1. channels' \in [Channels -> ChannelState] /\ mem' \in Memory /\ work' \in Line
    BY <1>3, LineStepTypes DEF LineStep
  <2>2. work'.kind = "line"
    BY <2>1 DEF Line
  <2> QED
    BY <1>3, <2>1, <2>2 DEF LineStep, Types, hdmaVars
<1>4. CASE LineEnd
  <2>1. work.t \in Nat
    BY <1>4, Kinds DEF LineEnd, Line
  <2>2. frame' \in [Channels -> [start : ChannelState, lines : Nat, kept : BOOLEAN]]
    BY <1>4 DEF LineEnd, Types
  <2>3. nextV' \in 0..LastVisibleV /\ phase' \in {"init", "line"}
    BY <1>4, ProgramAssumption DEF LineEnd, Types
  <2>4. work' = Idle /\ work'.kind = "none"
    BY <1>4 DEF LineEnd, Idle
  <2> QED
    BY <1>4, <2>1, <2>2, <2>3, <2>4 DEF LineEnd, Types
<1> QED
  BY <1>1, <1>2, <1>3, <1>4

(***************************************************************************)
(* Every step keeps the registers, the memory and the work in progress     *)
(* well formed.                                                            *)
(***************************************************************************)
LEMMA StepKeepsTypes == Types /\ [Next]_vars => Types'
<1>1. Types /\ UNCHANGED vars => Types'
  BY DEF vars, hdmaVars, Types
<1>2. Types /\ Next => Types'
  BY ProgramKeepsTypes, BurstKeepsTypes, HdmaKeepsTypes DEF Next
<1> QED
  BY <1>1, <1>2

-----------------------------------------------------------------------------
(***************************************************************************)
(* The slots of the last RingCapacity bursts are different, so a new       *)
(* record replaces only one that is no longer shown.                       *)
(***************************************************************************)
LEMMA InitRing == Init => Ring
<1> SUFFICES ASSUME Init
             PROVE  Ring
  OBVIOUS
<1>1. triggers \in Seq(Record) /\ Len(triggers) = 0
  BY DEF Init, ResetState
<1> QED
  BY <1>1, RingAssumption DEF Init, ResetState, Ring

(***************************************************************************)
(* Every step keeps the last-triggers ring equal to the newest records of  *)
(* the history: only TriggerBegin and TriggerEnd touch either.             *)
(***************************************************************************)
LEMMA StepKeepsRing == Types /\ Ring /\ [Next]_vars => Ring'
<1> SUFFICES ASSUME Types, Ring, [Next]_vars
             PROVE  Ring'
  OBVIOUS
<1>1. CASE UNCHANGED <<ring, ringCount, triggers>>
  BY <1>1 DEF Ring
<1>2. CASE Reset
  <2>1. triggers' \in Seq(Record) /\ Len(triggers') = 0
    BY <1>2 DEF Reset
  <2> QED
    BY <1>2, <2>1, RingAssumption DEF Reset, Ring
<1>3. CASE TriggerEnd
  <2> DEFINE record == [work.record EXCEPT !.end = work.t]
             slot == ringCount % RingCapacity
  <2>1. record \in Record
    BY <1>3, Kinds DEF TriggerEnd, Burst, Record
  <2>2. /\ ring' = [ring EXCEPT ![slot] = record] /\ triggers' = Append(triggers, record)
        /\ ringCount' = ringCount + 1
    BY <1>3 DEF TriggerEnd
  <2>3. slot \in 0..(RingCapacity - 1) /\ RingCapacity \in Nat \ {0} /\ ringCount \in Nat
    BY RingAssumption DEF Ring
  <2> HIDE DEF record
  <2>4. /\ triggers' \in Seq(Record) /\ Len(triggers') = ringCount + 1
        /\ triggers'[ringCount + 1] = record
        /\ \A n \in 1..ringCount : triggers'[n] = triggers[n]
    BY <2>1, <2>2 DEF Ring
  <2>5. ring' = [s \in 0..(RingCapacity - 1) |-> IF s = slot THEN record ELSE ring[s]]
    <3> HIDE DEF slot
    <3> QED
      BY <2>2, <2>3 DEF Ring
  <2>6. ASSUME NEW n \in 1..(ringCount + 1), n > ringCount + 1 - RingCapacity
        PROVE  ring'[(n - 1) % RingCapacity] = triggers'[n]
    <3>1. CASE n = ringCount + 1
      <4>1. n - 1 = ringCount
        BY <2>3, <3>1
      <4> QED
        BY <2>3, <2>4, <2>5, <3>1, <4>1
    <3>2. CASE n # ringCount + 1
      <4>1. /\ n \in 1..ringCount /\ n - 1 \in Int /\ ringCount \in Int /\ n - 1 < ringCount
            /\ ringCount < (n - 1) + RingCapacity /\ n > ringCount - RingCapacity
        BY <2>3, <2>6, <3>2
      <4>2. (n - 1) % RingCapacity # ringCount % RingCapacity
        <5> HIDE DEF slot
        <5> QED
          BY <4>1, DifferentSlots, RingAssumption
      <4>3. (n - 1) % RingCapacity \in 0..(RingCapacity - 1)
        BY <2>3, <4>1
      <4>4. ring[(n - 1) % RingCapacity] = triggers[n]
        BY <4>1 DEF Ring
      <4> QED
        BY <2>4, <2>5, <4>1, <4>2, <4>3, <4>4
    <3> QED
      BY <3>1, <3>2
  <2>7. ring' = [s \in 0..(RingCapacity - 1) |-> ring'[s]]
    BY <2>5
  <2>8. ringCount' \in Nat /\ ringCount' = ringCount + 1
    BY <2>2, <2>3
  <2>9. ASSUME NEW n \in 1..ringCount', n > ringCount' - RingCapacity
        PROVE  ring'[(n - 1) % RingCapacity] = triggers'[n]
    <3>1. n \in 1..(ringCount + 1) /\ n > ringCount + 1 - RingCapacity
      BY <2>3, <2>8, <2>9
    <3> QED
      BY <2>6, <3>1
  <2>10. Len(triggers') = ringCount'
    BY <2>4, <2>8
  <2> HIDE DEF slot
  <2> QED
    BY <2>4, <2>7, <2>8, <2>9, <2>10 DEF Ring
<1> QED
  BY <1>1, <1>2, <1>3
     DEF Next, WriteRegister, WriteHdmaEn, TriggerBegin, BurstByte, FrameInit, LineBegin,
         LineStep, LineEnd, vars

(***************************************************************************)
(* Types and the ring's contents are invariant.                            *)
(***************************************************************************)
THEOREM RingInvariance == Spec => [](Types /\ Ring)
<1>1. Init => Types /\ Ring
  BY InitTypes, InitRing
<1>2. Types /\ Ring /\ [Next]_vars => Types' /\ Ring'
  BY StepKeepsTypes, StepKeepsRing
<1> QED
  BY <1>1, <1>2, PTL DEF Spec

(***************************************************************************)
(* Type correctness: no register leaves its range, the port's address      *)
(* stays inside WRAM, and only bytes are stored.                           *)
(***************************************************************************)
THEOREM TypeCorrect == Spec => []TypeOK
<1>1. Types /\ Ring => TypeOK
  BY DEF Types, Ring, TypeOK, Memory, Idle, Burst, Line
<1> QED
  BY <1>1, RingInvariance, PTL

(***************************************************************************)
(* The debugger's ring delivers the last bursts since the reset, oldest    *)
(* first, however often it has gone round (GetRecentTrigger).              *)
(***************************************************************************)
THEOREM RingDeliversHistory == Spec => []RingShowsHistory
<1>1. Types /\ Ring => RingShowsHistory
  <2> SUFFICES ASSUME Ring
               PROVE  RingShowsHistory
    OBVIOUS
  <2> DEFINE size == GetRecentTriggerCount
  <2>1. /\ ringCount \in Nat /\ Len(triggers) = ringCount /\ RingCapacity \in Nat \ {0}
        /\ size = IF ringCount < RingCapacity THEN ringCount ELSE RingCapacity
    BY RingAssumption DEF Ring, GetRecentTriggerCount
  <2>2. ASSUME NEW i \in 0..(size - 1)
        PROVE  GetRecentTrigger(i) = triggers[ringCount - size + i + 1]
    <3> DEFINE start == IF ringCount >= RingCapacity THEN ringCount % RingCapacity ELSE 0
               n == ringCount - size + i + 1
    <3>1. GetRecentTrigger(i) = ring[(start + i) % RingCapacity]
      BY <2>1 DEF GetRecentTrigger
    <3>2. n \in 1..ringCount /\ n > ringCount - RingCapacity /\ n - 1 = ringCount - size + i
      BY <2>1
    <3>3. (start + i) % RingCapacity = (n - 1) % RingCapacity
      <4>1. CASE ringCount < RingCapacity
        <5>1. start + i = n - 1
          BY <2>1, <3>2, <4>1
        <5> QED
          BY <5>1
      <4>2. CASE ringCount >= RingCapacity
        <5>1. start = ringCount % RingCapacity /\ (n - 1) + RingCapacity = ringCount + i
              /\ n - 1 \in Int /\ i \in Int /\ ringCount \in Int
          BY <2>1, <3>2, <4>2
        <5>2. ((ringCount % RingCapacity) + i) % RingCapacity = (ringCount + i) % RingCapacity
          <6> HIDE DEF start, n, size
          <6> QED
            BY <5>1, RingAssumption, RemainderOfSum
        <5>3. ((n - 1) + RingCapacity) % RingCapacity = (n - 1) % RingCapacity
          BY <2>1, <5>1, WholeTurn
        <5> HIDE DEF start, n
        <5> QED
          BY <5>1, <5>2, <5>3
      <4> QED
        BY <2>1, <4>1, <4>2
    <3>4. ring[(n - 1) % RingCapacity] = triggers[n]
      BY <3>2 DEF Ring
    <3> QED
      BY <3>1, <3>3, <3>4
  <2> QED
    BY <2>1, <2>2 DEF RingShowsHistory
<1> QED
  BY <1>1, RingInvariance, PTL

-----------------------------------------------------------------------------
(***************************************************************************)
(* The bytes before a channel, one channel at a time.                      *)
(***************************************************************************)
Bytes(record, c) == IF c \in record.mask THEN record.regs[c].bytes ELSE 0

(***************************************************************************)
(* The bytes a record counts before channel c + 1 are those before c and   *)
(* those of c itself (the fold that BytesBefore is, unrolled by one        *)
(* channel).                                                               *)
(***************************************************************************)
LEMMA BytesBeforeNext ==
  ASSUME NEW record, \A c \in record.mask : record.regs[c].bytes \in Nat
  PROVE  /\ BytesBefore(record, 0) = 0
         /\ \A c \in Nat : /\ BytesBefore(record, c) \in Nat
                           /\ BytesBefore(record, c + 1) = BytesBefore(record, c) + Bytes(record, c)
<1> DEFINE step == [p \in Nat \X Nat |-> p[1] + Bytes(record, p[2])]
<1>1. step \in [Nat \X Nat -> Nat]
  BY DEF Bytes
<1>2. PICK f \in [Nat -> Nat] : Unfolds(f, 0, step)
  <2> HIDE DEF step
  <2> QED
    BY <1>1, Recursion
<1>3. \A n \in Nat : f[n + 1] = f[n] + Bytes(record, n)
  BY <1>2 DEF Unfolds
<1>4. ASSUME NEW ch \in Nat
      PROVE  BytesBefore(record, ch) = f[ch]
  <2> DEFINE Sums(g) == g = [c \in 0..ch |-> IF c = 0 THEN 0
                               ELSE g[c - 1] + (IF c - 1 \in record.mask THEN record.regs[c - 1].bytes ELSE 0)]
             sum == CHOOSE g : Sums(g)
  <2>1. BytesBefore(record, ch) = sum[ch]
    BY DEF BytesBefore
  <2>2. Sums([c \in 0..ch |-> f[c]])
    <3> DEFINE g == [c \in 0..ch |-> f[c]]
    <3>1. ASSUME NEW c \in 0..ch, c # 0
          PROVE  f[c] = g[c - 1] + (IF c - 1 \in record.mask THEN record.regs[c - 1].bytes ELSE 0)
      <4>1. c - 1 \in Nat /\ c - 1 \in 0..ch /\ (c - 1) + 1 = c
        BY <3>1
      <4> QED
        BY <1>3, <4>1 DEF Bytes
    <3> QED
      BY <1>2, <3>1 DEF Unfolds
  <2>3. Sums(sum)
    <3> HIDE DEF Sums
    <3> QED
      BY <2>2
  <2> HIDE DEF sum
  <2>4. sum[0] = 0 /\ \A n \in 0..(ch - 1) : sum[n + 1] = sum[n] + Bytes(record, n)
    <3>1. ASSUME NEW c \in 0..ch
          PROVE  sum[c] = IF c = 0 THEN 0
                   ELSE sum[c - 1] + (IF c - 1 \in record.mask THEN record.regs[c - 1].bytes ELSE 0)
      BY <2>3
    <3>2. ASSUME NEW n \in 0..(ch - 1)
          PROVE  sum[n + 1] = sum[n] + Bytes(record, n)
      <4>1. n + 1 \in 0..ch /\ n + 1 # 0 /\ (n + 1) - 1 = n
        OBVIOUS
      <4> QED
        BY <3>1, <4>1 DEF Bytes
    <3> QED
      BY <3>1, <3>2
  <2> DEFINE Agree == {n \in Nat : n <= ch => sum[n] = f[n]}
  <2>5. 0 \in Agree
    BY <1>2, <2>4 DEF Unfolds
  <2>6. ASSUME NEW n \in Nat, n \in Agree
        PROVE  n + 1 \in Agree
    <3>1. n + 1 <= ch => n \in 0..(ch - 1) /\ sum[n] = f[n]
      BY <2>6
    <3> QED
      BY <1>3, <2>4, <3>1
  <2>7. Nat \subseteq Agree
    <3> HIDE DEF Agree
    <3> QED
      BY <2>5, <2>6, NaturalInduction
  <2> QED
    BY <2>1, <2>7
<1> QED
  BY <1>2, <1>3, <1>4 DEF Unfolds

(***************************************************************************)
(* Before the lowest channel there are none; before the next one there are *)
(* those of its predecessor more.                                          *)
(***************************************************************************)
LEMMA BytesBeforeOrder ==
  ASSUME NEW record, record.mask \subseteq Nat,
         \A c \in record.mask : record.regs[c].bytes \in Nat
  PROVE  /\ \A b \in Nat : (\A c \in record.mask : b <= c) => BytesBefore(record, b) = 0
         /\ \A a \in record.mask, b \in Nat :
              a < b /\ (\A c \in record.mask : ~(a < c /\ c < b)) =>
                BytesBefore(record, b) = BytesBefore(record, a) + record.regs[a].bytes
<1>0. /\ BytesBefore(record, 0) = 0
      /\ \A c \in Nat : /\ BytesBefore(record, c) \in Nat
                        /\ BytesBefore(record, c + 1) = BytesBefore(record, c) + Bytes(record, c)
  BY BytesBeforeNext
<1>1. \A b \in Nat : (\A c \in record.mask : b <= c) => BytesBefore(record, b) = 0
  <2> DEFINE None0 == {b \in Nat : (\A c \in record.mask : b <= c) => BytesBefore(record, b) = 0}
  <2>1. 0 \in None0
    BY <1>0
  <2>2. ASSUME NEW b \in Nat, b \in None0
        PROVE  b + 1 \in None0
    <3>1. ASSUME \A c \in record.mask : b + 1 <= c
          PROVE  BytesBefore(record, b + 1) = 0
      <4>1. b \notin record.mask /\ \A c \in record.mask : b <= c
        BY <3>1
      <4> QED
        BY <1>0, <2>2, <4>1 DEF Bytes
    <3> QED
      BY <3>1
  <2>3. Nat \subseteq None0
    <3> HIDE DEF None0
    <3> QED
      BY <2>1, <2>2, NaturalInduction
  <2> QED
    BY <2>3
<1>2. ASSUME NEW a \in record.mask
      PROVE  \A b \in Nat : a < b /\ (\A c \in record.mask : ~(a < c /\ c < b)) =>
               BytesBefore(record, b) = BytesBefore(record, a) + record.regs[a].bytes
  <2> DEFINE Here == {b \in Nat : a < b /\ (\A c \in record.mask : ~(a < c /\ c < b)) =>
               BytesBefore(record, b) = BytesBefore(record, a) + record.regs[a].bytes}
  <2>1. 0 \in Here
    OBVIOUS
  <2>2. ASSUME NEW b \in Nat, b \in Here
        PROVE  b + 1 \in Here
    <3>1. ASSUME a < b + 1, \A c \in record.mask : ~(a < c /\ c < b + 1)
          PROVE  BytesBefore(record, b + 1) = BytesBefore(record, a) + record.regs[a].bytes
      <4>1. CASE a = b
        BY <1>0, <4>1 DEF Bytes
      <4>2. CASE a # b
        <5>1. a < b /\ b \notin record.mask /\ \A c \in record.mask : ~(a < c /\ c < b)
          BY <3>1, <4>2
        <5> QED
          BY <1>0, <2>2, <5>1 DEF Bytes
      <4> QED
        BY <4>1, <4>2
    <3> QED
      BY <3>1
  <2>3. Nat \subseteq Here
    <3> HIDE DEF Here
    <3> QED
      BY <2>1, <2>2, NaturalInduction
  <2> QED
    BY <2>3
<1> QED
  BY <1>1, <1>2

-----------------------------------------------------------------------------
(***************************************************************************)
(* How far a burst is.  The channels it has finished come before the ones  *)
(* it has not begun, so the log's length tells where each one's bytes lie. *)
(***************************************************************************)
Progress(ch) ==
  IF ch \notin work.todo THEN work.record.regs[ch].bytes
  ELSE IF ch = First(work.todo) THEN work.i ELSE 0

Position(ch, n) == BytesBefore(work.record, ch) + n + 1

EntryDue(ch, n) ==
  LET r == work.record.regs[ch]
  IN  [ch |-> ch, bank |-> r.a1b, off |-> Turn(r.a1t, n * Delta(r.dmap.step)),
       reg |-> BReg(r, n), t |-> work.record.start + 8 + 8 * (Position(ch, n) - 1)]

ChannelKept(ch) ==
  LET r == work.record.regs[ch]
  IN  /\ channels[ch].dmap = r.dmap /\ channels[ch].bbad = r.bbad /\ channels[ch].a1b = r.a1b
      /\ r.bytes = IF r.das = 0 THEN BankSize ELSE r.das
      /\ channels[ch].das = (r.bytes - Progress(ch)) % BankSize
      /\ channels[ch].a1t = Turn(r.a1t, Progress(ch) * Delta(r.dmap.step))

BurstSoFar ==
  /\ work.todo \subseteq work.record.mask
  /\ \A a \in work.record.mask \ work.todo, b \in work.todo : a < b
  /\ work.t = work.record.start + 8 + 8 * Len(work.log)
  /\ \A ch \in work.record.mask :
       /\ ChannelKept(ch)
       /\ \A n \in 0..(Progress(ch) - 1) :
            Position(ch, n) \in 1..Len(work.log) /\ work.log[Position(ch, n)] = EntryDue(ch, n)
  /\ work.todo # {} =>
       /\ work.i < work.record.regs[First(work.todo)].bytes
       /\ Len(work.log) = BytesBefore(work.record, First(work.todo)) + work.i

(***************************************************************************)
(* The bytes of a log that went through the WRAM port, and what the port's *)
(* address and the cells are after them.                                   *)
(***************************************************************************)
Through(log, n) ==
  {i \in 1..n : log[i].reg = PortBase /\ ~Conflict(log[i].bank, log[i].off, log[i].reg)}
After(n) == (work.before.wmadd + Cardinality(Through(work.log, n))) % (2 * BankSize)
ToA(i) == work.record.regs[work.log[i].ch].dmap.bToA

KeepsAddress(i) ==
  work.log[i].reg \in WramPorts \ {PortBase} =>
    ToA(i) \/ Conflict(work.log[i].bank, work.log[i].off, work.log[i].reg)

PortSoFar ==
  (\A i \in 1..Len(work.log) : KeepsAddress(i)) =>
    /\ mem.wmadd = After(Len(work.log))
    /\ \A cell \in Cells : mem.wram[cell] # work.before.wram[cell] =>
         \E i \in 1..Len(work.log) :
           IF ToA(i) THEN /\ InWram(work.log[i].bank, work.log[i].off)
                          /\ cell = Cell(work.log[i].bank, work.log[i].off)
           ELSE i \in Through(work.log, i) /\ cell = After(i - 1)

BurstInv == work.kind = "burst" => BurstSoFar /\ PortSoFar

(***************************************************************************)
(* The wraps of DAS and A1T: a byte counted at every step is the same as   *)
(* the number of bytes taken at once.                                      *)
(***************************************************************************)
LEMMA Steps ==
  ASSUME NEW bytes \in 1..BankSize, NEW i \in 0..(bytes - 1), NEW off \in Offset,
         NEW step \in 0..3
  PROVE  /\ Turn((bytes - i) % BankSize, -1) = bytes - (i + 1)
         /\ bytes - (i + 1) = (bytes - (i + 1)) % BankSize
         /\ Turn(Turn(off, i * Delta(step)), Delta(step)) = Turn(off, (i + 1) * Delta(step))
<1>1. BankSize \in Nat \ {0} /\ bytes - i \in Int /\ -1 \in Int /\ i \in Nat /\ bytes \in Nat
  BY Sizes
<1>2. (((bytes - i) % BankSize) + (-1)) % BankSize = ((bytes - i) + (-1)) % BankSize
  BY <1>1, RemainderOfSum
<1>3. (bytes - i) + (-1) = bytes - (i + 1) /\ bytes - (i + 1) \in 0..(BankSize - 1)
  BY <1>1
<1>4. bytes - (i + 1) = (bytes - (i + 1)) % BankSize
  BY <1>1, <1>3, SmallRemainder
<1>5. PICK d \in Int : d = Delta(step)
  BY DEF Delta
<1>6. off + i * d \in Int /\ (off + i * d) + d = off + (i + 1) * d
  BY <1>1, Sizes
<1>7. (((off + i * d) % BankSize) + d) % BankSize = ((off + i * d) + d) % BankSize
  BY <1>1, <1>6, RemainderOfSum
<1>8. \A x, y : Turn(x, y) = (x + y) % BankSize
  BY DEF Turn, BankSize
<1> QED
  BY <1>2, <1>3, <1>4, <1>5, <1>6, <1>7, <1>8

(***************************************************************************)
(* What BurstByte does, with the byte's place in the burst.                *)
(***************************************************************************)
LEMMA ByteMoved ==
  ASSUME Types, work.kind = "burst", BurstSoFar, BurstByte,
         NEW ch, ch = First(work.todo)
  PROVE  /\ ch \in work.todo /\ ch \in work.record.mask /\ ch \in Channels
         /\ \A d \in work.todo : ch <= d
         /\ work'.record = work.record /\ work'.before = work.before
         /\ work'.kind = "burst" /\ work'.t = work.t + 8
         /\ work'.log = Append(work.log, EntryDue(ch, work.i))
         /\ Len(work.log) + 1 = Position(ch, work.i)
         /\ IF work.i + 1 = work.record.regs[ch].bytes
            THEN work'.todo = work.todo \ {ch} /\ work'.i = 0
            ELSE work'.todo = work.todo /\ work'.i = work.i + 1
         /\ channels' = [channels EXCEPT
              ![ch].das = work.record.regs[ch].bytes - (work.i + 1),
              ![ch].a1t = Turn(work.record.regs[ch].a1t,
                               (work.i + 1) * Delta(work.record.regs[ch].dmap.step))]
<1> DEFINE c == channels[ch]
           r == work.record.regs[ch]
           i == work.i
           das == Turn(c.das, -1)
<1>1. work \in Burst /\ work.todo # {}
  BY Kinds DEF BurstByte
<1>2. ch \in work.todo /\ \A d \in work.todo : ch <= d
  BY <1>1, FirstIsLeast DEF Burst
<1>3. ch \in work.record.mask /\ ch \in Channels
  BY <1>1, <1>2 DEF BurstSoFar, Burst
<1>4. r \in Snapshot /\ c \in ChannelState /\ i \in Nat /\ i < r.bytes
  BY <1>1, <1>3 DEF Types, Burst, BurstSoFar
<1>5. Progress(ch) = i
  BY <1>2 DEF Progress
<1>6. /\ c.dmap = r.dmap /\ c.bbad = r.bbad /\ c.a1b = r.a1b
      /\ c.das = (r.bytes - i) % BankSize /\ c.a1t = Turn(r.a1t, i * Delta(r.dmap.step))
  BY <1>3, <1>5 DEF BurstSoFar, ChannelKept
<1>7. r.bytes \in 1..BankSize /\ i \in 0..(r.bytes - 1) /\ r.a1t \in Offset /\ r.dmap.step \in 0..3
  <2>1. r.bytes \in 1..BankSize /\ r.a1t \in Offset /\ r.dmap \in Dmap
    BY <1>4 DEF Snapshot
  <2>2. r.dmap.step \in 0..3
    BY <2>1 DEF Dmap
  <2> HIDE DEF i, r
  <2>3. i \in 0..(r.bytes - 1)
    BY <1>4, <2>1, Sizes
  <2> QED
    BY <2>1, <2>2, <2>3
<1>8. /\ das = r.bytes - (i + 1)
      /\ Turn(c.a1t, Delta(c.dmap.step)) = Turn(r.a1t, (i + 1) * Delta(r.dmap.step))
  <2> HIDE DEF c, r, i
  <2> QED
    BY <1>6, <1>7, Steps DEF das
<1>9. Len(work.log) \in Nat /\ Len(work.log) = BytesBefore(work.record, ch) + i
  BY <1>1 DEF BurstSoFar, Burst
<1>10. BytesBefore(work.record, ch) \in Nat
  <2>1. \A d \in work.record.mask : work.record.regs[d].bytes \in Nat
    BY Sizes, SMTT(40) DEF Types, Snapshot
  <2>2. ch \in Nat
    BY <1>3, ProgramAssumption
  <2> QED
    BY <2>1, <2>2, BytesBeforeNext
<1>11. Len(work.log) + 1 = Position(ch, i) /\ Position(ch, i) - 1 = Len(work.log)
  BY <1>4, <1>9, <1>10 DEF Position
<1>12. BReg(c, i) = BReg(r, i)
  BY <1>6 DEF BReg
<1>13. Logged(ch, c.a1b, c.a1t, BReg(c, i)) = EntryDue(ch, i)
  <2>1. work.t = work.record.start + 8 + 8 * (Position(ch, i) - 1)
    BY <1>11 DEF BurstSoFar
  <2> HIDE DEF c, i
  <2> QED
    BY <1>6, <1>12, <2>1 DEF Logged, EntryDue
<1>14. work' = [work EXCEPT !.i = NextIndex(i, das), !.t = work.t + 8,
                  !.todo = IF das = 0 THEN work.todo \ {ch} ELSE work.todo,
                  !.log = Append(work.log, Logged(ch, c.a1b, c.a1t, BReg(c, i)))]
  BY DEF BurstByte
<1>15. channels' = [channels EXCEPT ![ch].das = das,
                                    ![ch].a1t = Turn(c.a1t, Delta(c.dmap.step))]
  BY <1>3 DEF BurstByte, Types
<1>16. das = 0 <=> i + 1 = r.bytes
  BY <1>7, <1>8
<1> HIDE DEF c, das, r, i
<1>17. /\ work'.record = work.record /\ work'.before = work.before /\ work'.kind = "burst"
       /\ work'.t = work.t + 8 /\ work'.i = NextIndex(i, das)
       /\ work'.todo = IF das = 0 THEN work.todo \ {ch} ELSE work.todo
       /\ work'.log = Append(work.log, EntryDue(ch, i))
  BY <1>1, <1>13, <1>14 DEF Burst
<1> QED
  BY <1>2, <1>3, <1>8, <1>11, <1>15, <1>16, <1>17 DEF NextIndex, i, r

(***************************************************************************)
(* A byte moved is one more byte of the lowest channel and nothing else.   *)
(***************************************************************************)
LEMMA ByteKeepsBurst ==
  ASSUME Types, work.kind = "burst", BurstSoFar, BurstByte, Types',
         NEW ch, ch = First(work.todo), NEW i, i = work.i,
         NEW mask, mask = work.record.mask, NEW r, r = work.record.regs[ch]
  PROVE  BurstSoFar'
<1>1. /\ ch \in work.todo /\ ch \in work.record.mask /\ ch \in Channels
      /\ \A d \in work.todo : ch <= d
      /\ work'.record = work.record /\ work'.before = work.before
      /\ work'.kind = "burst" /\ work'.t = work.t + 8
      /\ work'.log = Append(work.log, EntryDue(ch, i))
      /\ Len(work.log) + 1 = Position(ch, i)
      /\ IF i + 1 = r.bytes THEN work'.todo = work.todo \ {ch} /\ work'.i = 0
                            ELSE work'.todo = work.todo /\ work'.i = i + 1
      /\ channels' = [channels EXCEPT
           ![ch].das = r.bytes - (i + 1),
           ![ch].a1t = Turn(r.a1t, (i + 1) * Delta(r.dmap.step))]
  BY ByteMoved
<1>2. /\ work \in Burst /\ work' \in Burst /\ work.log \in Seq(Entry) /\ work'.log \in Seq(Entry)
      /\ i \in Nat /\ i < r.bytes /\ mask \in SUBSET Channels /\ mask \subseteq Nat
      /\ work.todo \subseteq mask
  <2>1. work \in Burst /\ work' \in Burst
    BY <1>1, Kinds, SMTT(40) DEF Types, Idle, Burst, Line
  <2> QED
    BY <1>1, <2>1, ProgramAssumption DEF BurstSoFar, Burst, Record
<1>3. \A d \in mask : /\ work.record.regs[d] \in Snapshot
                       /\ work.record.regs[d].bytes \in 1..BankSize
                       /\ work.record.regs[d].bytes \in Nat \ {0}
  <2>1. \A d \in mask : work.record.regs[d] \in Snapshot
    BY DEF Types
  <2> QED
    BY <2>1, Sizes DEF Snapshot
<1>4. /\ Len(work'.log) = Len(work.log) + 1 /\ Len(work.log) \in Nat
      /\ work'.log[Len(work.log) + 1] = EntryDue(ch, i)
      /\ \A k \in 1..Len(work.log) : work'.log[k] = work.log[k]
  <2>1. EntryDue(ch, i) \in Entry
    <3>1. work'.log \in Seq(Entry) /\ work'.log = Append(work.log, EntryDue(ch, i))
      BY <1>1, <1>2
    <3>2. Len(work'.log) = Len(work.log) + 1 /\ work'.log[Len(work.log) + 1] = EntryDue(ch, i)
      BY <1>2, <3>1
    <3> QED
      BY <1>2, <3>1, <3>2
  <2> QED
    BY <1>1, <1>2, <2>1
<1>5. \A d, n : Position(d, n)' = Position(d, n) /\ EntryDue(d, n)' = EntryDue(d, n)
  BY <1>1 DEF Position, EntryDue
<1>6. Progress(ch) = i
  BY <1>1 DEF Progress
<1>7. work'.todo # {} => First(work'.todo) \in work'.todo /\ \A d \in work'.todo : First(work'.todo) <= d
  BY <1>2, FirstIsLeast DEF Burst
<1>8. ASSUME NEW d \in mask
      PROVE  Progress(d)' = IF d = ch THEN i + 1 ELSE Progress(d)
  <2>1. CASE i + 1 = r.bytes
    <3>1. work'.todo = work.todo \ {ch} /\ work'.i = 0
      BY <1>1, <2>1
    <3>2. CASE d = ch
      BY <1>1, <2>1, <3>1, <3>2 DEF Progress
    <3>3. CASE d # ch
      BY <1>1, <3>1, <3>3 DEF Progress
    <3> QED
      BY <3>2, <3>3
  <2>2. CASE i + 1 # r.bytes
    <3>1. work'.todo = work.todo /\ work'.i = i + 1
      BY <1>1, <2>2
    <3> QED
      BY <1>1, <3>1 DEF Progress
  <2> QED
    BY <2>1, <2>2
<1>9. work'.todo \subseteq work'.record.mask
  BY <1>1, <1>2
<1>10. \A a \in work'.record.mask \ work'.todo, b \in work'.todo : a < b
  <2>1. ASSUME NEW a \in mask \ work'.todo, NEW b \in work'.todo
        PROVE  a < b
    <3>1. a \in Nat /\ b \in Nat /\ b \in work.todo
      BY <1>1, <1>2
    <3>2. CASE a \notin work.todo
      BY <3>1, <3>2 DEF BurstSoFar
    <3>3. CASE a \in work.todo
      BY <1>1, <3>1, <3>3
    <3> QED
      BY <3>2, <3>3
  <2> QED
    BY <1>1, <2>1
<1>11. work'.t = work'.record.start + 8 + 8 * Len(work'.log)
  <2>1. work.record.start \in Nat /\ work.t = work.record.start + 8 + 8 * Len(work.log)
    BY <1>2 DEF BurstSoFar, Burst, Record
  <2> QED
    BY <1>1, <1>4, <2>1
<1>12. ASSUME NEW d \in work'.record.mask
       PROVE  /\ ChannelKept(d)'
              /\ \A n \in 0..(Progress(d)' - 1) :
                   Position(d, n)' \in 1..Len(work'.log) /\ work'.log[Position(d, n)'] = EntryDue(d, n)'
  <2>0. d \in mask /\ d \in Channels /\ channels[d] \in ChannelState
    BY <1>1, <1>2 DEF Types
  <2>1. CASE d = ch
    <3>1. ChannelKept(ch)
      BY <1>1 DEF BurstSoFar
    <3>2. /\ channels'[ch].dmap = channels[ch].dmap /\ channels'[ch].bbad = channels[ch].bbad
          /\ channels'[ch].a1b = channels[ch].a1b
          /\ channels'[ch].das = r.bytes - (i + 1)
          /\ channels'[ch].a1t = Turn(r.a1t, (i + 1) * Delta(r.dmap.step))
      BY <1>1, <2>0, <2>1 DEF Types, ChannelState
    <3>3. r.bytes - (i + 1) = (r.bytes - (i + 1)) % BankSize
      <4>1. r.bytes \in 1..BankSize /\ r.a1t \in Offset
        BY <1>1, <1>3 DEF Snapshot
      <4>2. BankSize \in Nat \ {0} /\ r.bytes - (i + 1) \in 0..(BankSize - 1)
        <5>1. PICK b : b = r.bytes
          OBVIOUS
        <5>2. BankSize \in Nat \ {0} /\ b \in 1..BankSize /\ i \in Nat /\ i < b
          BY <1>2, <4>1, <5>1, Sizes
        <5>3. b - (i + 1) \in 0..(BankSize - 1)
          BY <5>2
        <5> QED
          BY <5>1, <5>2, <5>3
      <4> QED
        BY <4>2, SmallRemainder
    <3>4. ChannelKept(ch)'
      BY <1>1, <1>8, <2>0, <2>1, <3>1, <3>2, <3>3 DEF ChannelKept
    <3>5. ASSUME NEW n \in 0..(Progress(ch)' - 1)
          PROVE  Position(ch, n) \in 1..Len(work'.log) /\ work'.log[Position(ch, n)] = EntryDue(ch, n)
      <4>1. n \in 0..i
        BY <1>2, <1>8, <2>0, <2>1
      <4>2. CASE n = i
        BY <1>1, <1>4, <4>2
      <4>3. CASE n # i
        <5>1. n \in 0..(Progress(ch) - 1)
          BY <1>2, <1>6, <4>1, <4>3
        <5>2. Position(ch, n) \in 1..Len(work.log) /\ work.log[Position(ch, n)] = EntryDue(ch, n)
          BY <1>1, <5>1 DEF BurstSoFar
        <5> QED
          BY <1>4, <5>2
      <4> QED
        BY <4>2, <4>3
    <3> QED
      BY <1>5, <2>1, <3>4, <3>5
  <2>2. CASE d # ch
    <3>1. channels'[d] = channels[d] /\ Progress(d)' = Progress(d)
      BY <1>1, <1>8, <2>0, <2>2 DEF Types
    <3>2. ChannelKept(d)'
      <4>1. ChannelKept(d)
        BY <2>0 DEF BurstSoFar
      <4> QED
        BY <1>1, <3>1, <4>1 DEF ChannelKept
    <3>3. ASSUME NEW n \in 0..(Progress(d)' - 1)
          PROVE  Position(d, n) \in 1..Len(work'.log) /\ work'.log[Position(d, n)] = EntryDue(d, n)
      <4>1. Position(d, n) \in 1..Len(work.log) /\ work.log[Position(d, n)] = EntryDue(d, n)
        BY <2>0, <3>1 DEF BurstSoFar
      <4> QED
        BY <1>4, <4>1
    <3> QED
      BY <1>5, <3>2, <3>3
  <2> QED
    BY <2>1, <2>2
<1>13. ASSUME work'.todo # {}
       PROVE  /\ work'.i < work'.record.regs[First(work'.todo)].bytes
              /\ Len(work'.log) = BytesBefore(work'.record, First(work'.todo)) + work'.i
  <2>0. Len(work.log) = BytesBefore(work.record, ch) + i /\ BytesBefore(work.record, ch) \in Nat
    <3>1. ch \in Nat /\ \A d \in work.record.mask : work.record.regs[d].bytes \in Nat
      BY <1>1, <1>2, <1>3
    <3> QED
      BY <1>1, <3>1, BytesBeforeNext DEF BurstSoFar
  <2>1. CASE i + 1 = r.bytes
    <3> DEFINE b == First(work'.todo)
    <3>1. work'.todo = work.todo \ {ch} /\ work'.i = 0
      BY <1>1, <2>1
    <3>2. b \in work.todo /\ b # ch /\ b \in mask /\ ch \in mask /\ b \in Nat /\ ch \in Nat /\ ch < b
      BY <1>1, <1>2, <1>7, <1>13, <3>1
    <3>3. \A c \in mask : ~(ch < c /\ c < b)
      <4> SUFFICES ASSUME NEW c \in mask, ch < c, c < b
                   PROVE  FALSE
        OBVIOUS
      <4>1. c \in Nat /\ c # ch
        BY <1>2, <3>2
      <4>2. CASE c \in work.todo
        BY <1>7, <1>13, <3>1, <3>2, <4>1, <4>2
      <4>3. CASE c \notin work.todo
        BY <1>1, <3>2, <4>1, <4>3 DEF BurstSoFar
      <4> QED
        BY <4>2, <4>3
    <3>4. BytesBefore(work.record, b) = BytesBefore(work.record, ch) + r.bytes
      <4>1. work.record.mask \subseteq Nat /\ \A d \in work.record.mask : work.record.regs[d].bytes \in Nat
        BY <1>2, <1>3
      <4> HIDE DEF b
      <4> QED
        BY <3>2, <3>3, <4>1, BytesBeforeOrder
    <3>5. work.record.regs[b].bytes \in Nat \ {0}
      BY <1>3, <3>2
    <3> HIDE DEF b
    <3> QED
      BY <1>1, <1>2, <1>4, <2>0, <2>1, <3>1, <3>4, <3>5, SMTT(40) DEF b
  <2>2. CASE i + 1 # r.bytes
    <3>1. work'.todo = work.todo /\ work'.i = i + 1 /\ First(work'.todo) = ch
      BY <1>1, <2>2
    <3>2. r.bytes \in Nat
      BY <1>1, <1>3
    <3> QED
      BY <1>1, <1>2, <1>4, <2>0, <2>2, <3>1, <3>2, SMTT(40)
  <2> QED
    BY <2>1, <2>2
<1> QED
  BY <1>9, <1>10, <1>11, <1>12, <1>13 DEF BurstSoFar

(***************************************************************************)
(* A burst begins with nothing moved.                                      *)
(***************************************************************************)
LEMMA BurstBegins ==
  ASSUME Types, NEW mask \in Masks, TriggerBegin(mask), Types'
  PROVE  BurstSoFar' /\ PortSoFar'
<1>1. /\ work'.kind = "burst" /\ work'.todo = mask /\ work'.i = 0 /\ work'.t = now + 8
      /\ work'.record = RecordOf(mask) /\ work'.log = <<>> /\ work'.before = mem
      /\ channels' = channels /\ mem' = mem /\ mask # {}
  BY DEF TriggerBegin
<1>2. mask \subseteq Channels /\ mask \subseteq Nat /\ IsFiniteSet(mask)
  BY ProgramAssumption, FS_Subset
<1>3. work'.record.mask = mask /\ work'.record.start = now
  BY <1>1 DEF RecordOf
<1>4. \A d \in mask : /\ work'.record.regs[d].bytes \in 1..BankSize
                       /\ work'.record.regs[d].bytes \in Nat \ {0}
                       /\ work'.record.regs[d] \in Snapshot
  <2>1. work'.record.regs \in [mask -> Snapshot]
    BY <1>1, <1>3 DEF Types
  <2> QED
    BY <2>1, Sizes, SMTT(40) DEF Snapshot
<1>5. Len(work'.log) = 0 /\ 1..Len(work'.log) = {}
  BY <1>1
<1>6. \A d \in mask : Progress(d)' = 0
  BY <1>1 DEF Progress
<1>7. ASSUME NEW d \in mask
      PROVE  ChannelKept(d)'
  <2> DEFINE r == RecordOf(mask).regs[d]
  <2>1. /\ r.dmap = channels[d].dmap /\ r.bbad = channels[d].bbad /\ r.a1b = channels[d].a1b
        /\ r.a1t = channels[d].a1t /\ r.das = channels[d].das /\ r.bytes = BytesOf(channels[d])
    BY DEF RecordOf
  <2>2. channels[d].das \in Offset /\ channels[d].a1t \in Offset /\ channels[d].dmap.step \in 0..3
    BY <1>2 DEF Types, ChannelState, Dmap
  <2>3. PICK step \in Int : step = Delta(r.dmap.step)
    BY DEF Delta
  <2>4. 0 * step = 0
    OBVIOUS
  <2>5. Turn(channels[d].a1t, 0) = channels[d].a1t
    <3>1. PICK a : a = channels[d].a1t
      OBVIOUS
    <3>2. a \in 0..(BankSize - 1) /\ BankSize \in Nat \ {0} /\ a + 0 = a
      BY <2>2, <3>1, Sizes
    <3>3. a % BankSize = a
      BY <3>2, SmallRemainder
    <3> QED
      BY <3>1, <3>2, <3>3 DEF Turn, BankSize
  <2>6. channels[d].das = (BytesOf(channels[d]) - 0) % BankSize
    <3>1. PICK a : a = channels[d].das
      OBVIOUS
    <3>2. a \in 0..(BankSize - 1) /\ BankSize \in Nat \ {0}
      BY <2>2, <3>1, Sizes
    <3>3. a % BankSize = a /\ a - 0 = a
      BY <3>2, SmallRemainder
    <3>4. (BankSize - 0) % BankSize = 0
      <4>1. (0 + BankSize) % BankSize = 0 % BankSize /\ 0 % BankSize = 0
        BY <3>2, WholeTurn, SmallRemainder
      <4>2. BankSize - 0 = 0 + BankSize
        BY <3>2
      <4> QED
        BY <4>1, <4>2
    <3>5. BytesOf(channels[d]) = IF a = 0 THEN BankSize ELSE a
      BY <3>1 DEF BytesOf, BankSize
    <3> QED
      BY <3>1, <3>3, <3>4, <3>5
  <2>7. BytesOf(channels[d]) = IF channels[d].das = 0 THEN BankSize ELSE channels[d].das
    BY DEF BytesOf, BankSize
  <2> HIDE DEF r
  <2>8. r = work'.record.regs[d]
    BY <1>1 DEF r
  <2>9. ChannelKept(d)' <=>
          /\ channels[d].dmap = r.dmap /\ channels[d].bbad = r.bbad /\ channels[d].a1b = r.a1b
          /\ r.bytes = (IF r.das = 0 THEN BankSize ELSE r.das)
          /\ channels[d].das = (r.bytes - 0) % BankSize
          /\ channels[d].a1t = Turn(r.a1t, 0 * Delta(r.dmap.step))
    BY <1>1, <1>6, <2>8 DEF ChannelKept
  <2> QED
    BY <2>1, <2>3, <2>4, <2>5, <2>6, <2>7, <2>9
<1>8. First(mask) \in mask /\ BytesBefore(work'.record, First(mask)) = 0
  <2>1. First(mask) \in mask /\ \A c \in mask : First(mask) <= c
    BY <1>1, <1>2, FirstIsLeast
  <2>2. work'.record.mask \subseteq Nat /\ \A c \in work'.record.mask : work'.record.regs[c].bytes \in Nat
    BY <1>2, <1>3, <1>4
  <2>3. PICK b \in Nat : b = First(mask)
    BY <1>2, <2>1
  <2>4. PICK record : record = work'.record
    OBVIOUS
  <2>5. BytesBefore(record, b) = 0
    BY <1>3, <2>1, <2>2, <2>3, <2>4, BytesBeforeOrder
  <2> QED
    BY <2>1, <2>3, <2>4, <2>5
<1>9. BurstSoFar'
  <2>1. work'.t = work'.record.start + 8 + 8 * Len(work'.log)
    BY <1>1, <1>3, <1>5 DEF Types
  <2>2. work'.i < work'.record.regs[First(work'.todo)].bytes
    BY <1>1, <1>4, <1>8
  <2>3. Len(work'.log) = BytesBefore(work'.record, First(work'.todo)) + work'.i
    BY <1>1, <1>5, <1>8
  <2>4. \A d \in mask : 0..(Progress(d)' - 1) = {}
    BY <1>6
  <2> QED
    BY <1>1, <1>3, <1>7, <2>1, <2>2, <2>3, <2>4 DEF BurstSoFar
<1>10. PortSoFar'
  <2>1. Through(work'.log, 0) = {} /\ Cardinality(Through(work'.log, 0)) = 0
    BY FS_EmptySet DEF Through
  <2>2. mem.wmadd \in 0..(2 * BankSize - 1)
    BY Sizes DEF Types, Memory
  <2>3. (mem.wmadd + 0) % (2 * BankSize) = mem.wmadd
    <3>1. PICK a : a = mem.wmadd
      OBVIOUS
    <3>2. a \in 0..(2 * BankSize - 1) /\ 2 * BankSize \in Nat \ {0} /\ a + 0 = a
      BY <2>2, <3>1, Sizes
    <3> QED
      BY <3>1, <3>2, SmallRemainder
  <2>4. mem'.wmadd = After(Len(work.log))'
    <3>1. After(Len(work.log))' =
            (work'.before.wmadd + Cardinality(Through(work'.log, Len(work'.log)))) % (2 * BankSize)
      BY DEF After
    <3> QED
      BY <1>1, <1>5, <2>1, <2>3, <3>1
  <2>5. \A cell \in Cells : mem'.wram[cell] = work'.before.wram[cell]
    BY <1>1
  <2> QED
    BY <2>4, <2>5 DEF PortSoFar
<1> QED
  BY <1>9, <1>10

(***************************************************************************)
(* What one transfer does to the port's address and to the cells, unless   *)
(* it stores into the address itself.                                      *)
(***************************************************************************)
LEMMA TransferEffect ==
  ASSUME NEW m \in Memory, NEW bank \in Banks, NEW off \in Offset, NEW reg \in Byte,
         NEW bToA \in BOOLEAN,
         reg \in WramPorts \ {PortBase} => bToA \/ Conflict(bank, off, reg),
         NEW after, after = TransferByte(m, bank, off, reg, bToA),
         NEW through \in BOOLEAN, through <=> reg = PortBase /\ ~Conflict(bank, off, reg)
  PROVE  /\ after.wmadd = IF through THEN Bumped(m.wmadd) ELSE m.wmadd
         /\ \A cell \in Cells : after.wram[cell] # m.wram[cell] =>
              IF bToA THEN InWram(bank, off) /\ cell = Cell(bank, off)
              ELSE through /\ cell = m.wmadd
<1>1. \A n \in Memory : /\ ReadA(n, bank, off).wram = n.wram
                        /\ ReadA(n, bank, off).wmadd = n.wmadd
  BY DEF ReadA, Memory
<1>2. /\ ReadB(m, reg).wram = m.wram
      /\ ReadB(m, reg).wmadd = IF reg = PortBase THEN Bumped(m.wmadd) ELSE m.wmadd
  BY DEF ReadB, Memory
<1>3. ASSUME NEW n \in Memory, NEW data \in Byte
      PROVE  /\ WriteA(n, bank, off, data).wmadd = n.wmadd
             /\ \A cell \in Cells : WriteA(n, bank, off, data).wram[cell] # n.wram[cell] =>
                  InWram(bank, off) /\ cell = Cell(bank, off)
  BY DEF WriteA, Memory
<1>4. ASSUME NEW n \in Memory, NEW data \in Byte, reg \notin WramPorts \ {PortBase}
      PROVE  /\ WriteB(n, reg, data).wmadd = IF reg = PortBase THEN Bumped(n.wmadd) ELSE n.wmadd
             /\ \A cell \in Cells : WriteB(n, reg, data).wram[cell] # n.wram[cell] =>
                  reg = PortBase /\ cell = n.wmadd
  BY <1>4 DEF WriteB, Memory
<1>5. ReadA(m, bank, off) \in Memory /\ ReadB(m, reg) \in Memory
  BY ReadTypes
<1>6. m.latch \in Byte /\ ReadA(m, bank, off).latch \in Byte /\ ReadB(m, reg).latch \in Byte
  BY <1>5 DEF Memory
<1>7. PortBase \in WramPorts
  BY Sizes DEF WramPorts, Byte
<1>8. CASE Conflict(bank, off, reg)
  <2>1. CASE bToA
    BY <1>3, <1>6, <1>8, <2>1 DEF TransferByte
  <2>2. CASE ~bToA
    BY <1>8, <2>2 DEF TransferByte
  <2> QED
    BY <2>1, <2>2
<1>9. CASE ~Conflict(bank, off, reg)
  <2>1. CASE bToA
    <3>1. after = WriteA(ReadB(m, reg), bank, off, ReadB(m, reg).latch)
      BY <1>9, <2>1 DEF TransferByte
    <3> QED
      BY <1>2, <1>3, <1>5, <1>6, <1>9, <2>1, <3>1, ZenonT(40)
  <2>2. CASE ~bToA
    <3>1. after = WriteB(ReadA(m, bank, off), reg, ReadA(m, bank, off).latch)
      BY <1>9, <2>2 DEF TransferByte
    <3> QED
      BY <1>1, <1>4, <1>5, <1>6, <1>9, <2>2, <3>1
  <2> QED
    BY <2>1, <2>2
<1> QED
  BY <1>8, <1>9

(***************************************************************************)
(* A byte more in the log is at most one more through the port.            *)
(***************************************************************************)
LEMMA ThroughGrows ==
  ASSUME NEW log \in Seq(Entry), NEW entry \in Entry, NEW longer, longer = Append(log, entry),
         NEW through \in BOOLEAN,
         through <=> entry.reg = PortBase /\ ~Conflict(entry.bank, entry.off, entry.reg)
  PROVE  /\ \A n \in 0..Len(log) : /\ Through(longer, n) = Through(log, n)
                                   /\ Cardinality(Through(log, n)) \in Nat
         /\ Len(log) + 1 \in Through(longer, Len(log) + 1) <=> through
         /\ Cardinality(Through(longer, Len(log) + 1)) =
              Cardinality(Through(log, Len(log))) + (IF through THEN 1 ELSE 0)
<1> DEFINE length == Len(log)
<1>1. /\ length \in Nat /\ longer[length + 1] = entry
      /\ \A k \in 1..length : longer[k] = log[k]
  OBVIOUS
<1>2. \A n \in 0..length : Through(longer, n) = Through(log, n)
  BY <1>1 DEF Through
<1>3. \A n \in 0..length : IsFiniteSet(Through(log, n)) /\ Cardinality(Through(log, n)) \in Nat
  <2> SUFFICES ASSUME NEW n \in 0..length
               PROVE  IsFiniteSet(Through(log, n)) /\ Cardinality(Through(log, n)) \in Nat
    OBVIOUS
  <2>1. Through(log, n) \subseteq 1..n /\ n \in Int
    BY <1>1 DEF Through
  <2>2. IsFiniteSet(1..n)
    BY <2>1, FS_Interval
  <2> QED
    BY <2>1, <2>2, FS_Subset, FS_CardinalityType
<1> HIDE DEF length
<1>4. Through(longer, length + 1) =
        IF through THEN Through(log, length) \cup {length + 1} ELSE Through(log, length)
  <2>1. 1..(length + 1) = (1..length) \cup {length + 1} /\ length + 1 \notin 1..length
    BY <1>1
  <2>2. CASE through
    BY <1>1, <2>1, <2>2 DEF Through
  <2>3. CASE ~through
    BY <1>1, <2>1, <2>3 DEF Through
  <2> QED
    BY <2>2, <2>3
<1>5. length + 1 \notin Through(log, length) /\ length \in 0..length
  BY <1>1 DEF Through
<1>6. Cardinality(Through(longer, length + 1)) =
        Cardinality(Through(log, length)) + (IF through THEN 1 ELSE 0)
  <2>1. CASE through
    <3>1. Cardinality(Through(log, length) \cup {length + 1}) = Cardinality(Through(log, length)) + 1
      BY <1>3, <1>5, FS_AddElement
    <3> QED
      BY <1>4, <2>1, <3>1
  <2>2. CASE ~through
    <3>1. Cardinality(Through(log, length)) + 0 = Cardinality(Through(log, length))
      BY <1>3, <1>5
    <3> QED
      BY <1>4, <2>2, <3>1
  <2> QED
    BY <2>1, <2>2
<1>7. length + 1 \in Through(longer, length + 1) <=> through
  BY <1>4, <1>5
<1> QED
  BY <1>2, <1>3, <1>6, <1>7 DEF length

(***************************************************************************)
(* A byte moved keeps the port's address and the cells accounted for.      *)
(***************************************************************************)
LEMMA ByteKeepsPort ==
  ASSUME Types, work.kind = "burst", BurstSoFar, PortSoFar, BurstByte, Types',
         NEW ch, ch = First(work.todo), NEW log, log = work.log,
         NEW entry, entry = EntryDue(ch, work.i), NEW longer, longer = Append(log, entry),
         NEW length, length = Len(log)
  PROVE  PortSoFar'
<1>1. /\ ch \in work.record.mask /\ ch \in Channels
      /\ work'.record = work.record /\ work'.before = work.before
      /\ work'.log = longer /\ work'.kind = "burst"
  BY ByteMoved
<1>2. /\ work \in Burst /\ work' \in Burst /\ log \in Seq(Entry) /\ longer \in Seq(Entry)
      /\ length \in Nat /\ mem \in Memory /\ work.before \in Memory
  <2>1. work \in Burst /\ work' \in Burst
    BY <1>1, Kinds DEF Types, Idle, Burst, Line
  <2> QED
    BY <1>1, <2>1 DEF Types, Burst
<1>3. /\ Len(longer) = length + 1 /\ longer[length + 1] = entry /\ entry \in Entry
      /\ \A k \in 1..length : longer[k] = log[k]
      /\ 1..(length + 1) = (1..length) \cup {length + 1}
  <2>1. Len(longer) = length + 1 /\ longer[length + 1] = entry
        /\ \A k \in 1..length : longer[k] = log[k]
    BY <1>2
  <2>2. entry \in Entry
    BY <1>2, <2>1
  <2> QED
    BY <1>2, <2>1, <2>2
<1> DEFINE c == channels[ch]
           reg == BReg(c, work.i)
<1>4. /\ entry.ch = ch /\ entry.bank = c.a1b /\ entry.off = c.a1t /\ entry.reg = reg
      /\ work.record.regs[ch].dmap = c.dmap
  <2>1. Progress(ch) = work.i
    <3>1. ch \in work.todo
      BY ByteMoved
    <3> QED
      BY <3>1 DEF Progress
  <2>2. ChannelKept(ch)
    BY <1>1 DEF BurstSoFar
  <2>3. BReg(c, work.i) = BReg(work.record.regs[ch], work.i)
    BY <2>2 DEF ChannelKept, BReg
  <2> QED
    BY <2>1, <2>2, <2>3 DEF ChannelKept, EntryDue
<1>5. c.a1b \in Banks /\ c.a1t \in Offset /\ reg \in Byte /\ c.dmap.bToA \in BOOLEAN
  <2>1. c.a1b \in Banks /\ c.a1t \in Offset /\ c.dmap.bToA \in BOOLEAN
    BY <1>1 DEF Types, ChannelState, Dmap
  <2>2. reg \in Byte
    BY <1>3, <1>4 DEF Entry
  <2> QED
    BY <2>1, <2>2
<1>6. mem' = TransferByte(mem, c.a1b, c.a1t, reg, c.dmap.bToA)
  BY DEF BurstByte
<1> HIDE DEF c, reg
<1>7. PICK through \in BOOLEAN :
        through <=> entry.reg = PortBase /\ ~Conflict(entry.bank, entry.off, entry.reg)
  OBVIOUS
<1>8. /\ \A n \in 0..length : /\ Through(longer, n) = Through(log, n)
                              /\ Cardinality(Through(log, n)) \in Nat
      /\ length + 1 \in Through(longer, length + 1) <=> through
      /\ Cardinality(Through(longer, length + 1)) =
           Cardinality(Through(log, length)) + (IF through THEN 1 ELSE 0)
  <2>1. /\ \A n \in 0..Len(log) : /\ Through(longer, n) = Through(log, n)
                                  /\ Cardinality(Through(log, n)) \in Nat
        /\ Len(log) + 1 \in Through(longer, Len(log) + 1) <=> through
        /\ Cardinality(Through(longer, Len(log) + 1)) =
             Cardinality(Through(log, Len(log))) + (IF through THEN 1 ELSE 0)
    <3>1. log \in Seq(Entry) /\ entry \in Entry /\ longer = Append(log, entry)
      BY <1>2, <1>3
    <3> QED
      BY ONLY <1>7, <3>1, ThroughGrows, ZenonT(40)
  <2> QED
    BY <2>1
<1>9. \A n : /\ After(n) = (work.before.wmadd + Cardinality(Through(log, n))) % (2 * BankSize)
             /\ After(n)' = (work.before.wmadd + Cardinality(Through(longer, n))) % (2 * BankSize)
  BY <1>1 DEF After
<1>10. \A n \in 0..length : After(n)' = After(n)
  BY <1>8, <1>9
<1>11. (\A k \in 1..length : ToA(k)' = ToA(k)) /\ (ToA(length + 1)' <=> c.dmap.bToA)
  <2>1. \A k : /\ ToA(k)' = work.record.regs[longer[k].ch].dmap.bToA
               /\ ToA(k) = work.record.regs[log[k].ch].dmap.bToA
    BY <1>1 DEF ToA
  <2>2. \A k \in 1..length : ToA(k)' = ToA(k)
    BY <1>3, <2>1
  <2>3. ToA(length + 1)' = c.dmap.bToA
    BY <1>3, <1>4, <2>1, ZenonT(40)
  <2> QED
    BY <2>2, <2>3
<1>12. /\ \A k \in 1..length : KeepsAddress(k)' <=> KeepsAddress(k)
       /\ KeepsAddress(length + 1)' <=>
            (reg \in WramPorts \ {PortBase} => c.dmap.bToA \/ Conflict(c.a1b, c.a1t, reg))
  <2>1. \A k \in 1..length : KeepsAddress(k)' <=> KeepsAddress(k)
    BY <1>1, <1>3, <1>11 DEF KeepsAddress
  <2>2. KeepsAddress(length + 1)' <=>
            (longer[length + 1].reg \in WramPorts \ {PortBase} =>
               ToA(length + 1)' \/ Conflict(longer[length + 1].bank, longer[length + 1].off, longer[length + 1].reg))
    BY <1>1 DEF KeepsAddress
  <2>3. KeepsAddress(length + 1)' <=>
            (reg \in WramPorts \ {PortBase} => c.dmap.bToA \/ Conflict(c.a1b, c.a1t, reg))
    BY <1>3, <1>4, <1>11, <2>2
  <2> QED
    BY <2>1, <2>3
<1> SUFFICES ASSUME \A k \in 1..(length + 1) : KeepsAddress(k)'
             PROVE  /\ mem'.wmadd = After(length + 1)'
                    /\ \A cell \in Cells : mem'.wram[cell] # work.before.wram[cell] =>
                         \E k \in 1..(length + 1) :
                           IF ToA(k)' THEN /\ InWram(longer[k].bank, longer[k].off)
                                           /\ cell = Cell(longer[k].bank, longer[k].off)
                           ELSE k \in Through(longer, k) /\ cell = After(k - 1)'
  BY <1>1, <1>3 DEF PortSoFar
<1>13. /\ mem.wmadd = After(length)
       /\ \A cell \in Cells : mem.wram[cell] # work.before.wram[cell] =>
            \E k \in 1..length :
              IF ToA(k) THEN InWram(log[k].bank, log[k].off) /\ cell = Cell(log[k].bank, log[k].off)
              ELSE k \in Through(log, k) /\ cell = After(k - 1)
  BY <1>3, <1>12 DEF PortSoFar
<1>14. /\ mem'.wmadd = IF through THEN Bumped(mem.wmadd) ELSE mem.wmadd
       /\ \A cell \in Cells : mem'.wram[cell] # mem.wram[cell] =>
            IF c.dmap.bToA THEN InWram(c.a1b, c.a1t) /\ cell = Cell(c.a1b, c.a1t)
            ELSE through /\ cell = mem.wmadd
  <2>1. reg \in WramPorts \ {PortBase} => c.dmap.bToA \/ Conflict(c.a1b, c.a1t, reg)
    BY <1>2, <1>12
  <2>2. through <=> reg = PortBase /\ ~Conflict(c.a1b, c.a1t, reg)
    BY <1>4, <1>7
  <2> QED
    BY <1>2, <1>5, <1>6, <2>1, <2>2, TransferEffect
<1>15. mem'.wmadd = After(length + 1)'
  <2>1. PICK moved \in Nat : moved = Cardinality(Through(log, length))
    BY <1>2, <1>8
  <2>2. PICK start \in Nat : start = work.before.wmadd
    BY <1>2, Sizes DEF Memory
  <2>3. 2 * BankSize \in Nat \ {0} /\ start + moved \in Int /\ 1 \in Int
    BY <2>1, <2>2, Sizes
  <2>4. CASE through
    <3>1. After(length + 1)' = (start + (moved + 1)) % (2 * BankSize)
      BY <1>8, <1>9, <2>1, <2>2, <2>4
    <3>2. mem'.wmadd = (((start + moved) % (2 * BankSize)) + 1) % (2 * BankSize)
      <4>1. Bumped(mem.wmadd) = (mem.wmadd + 1) % (2 * BankSize)
        <5>1. 2 * ByteSize * ByteSize = 2 * BankSize
          BY Sizes DEF BankSize
        <5> QED
          BY <5>1 DEF Bumped
      <4> QED
        BY <1>9, <1>13, <1>14, <2>1, <2>2, <2>4, <4>1
    <3>3. mem'.wmadd = ((start + moved) + 1) % (2 * BankSize)
      BY <2>3, <3>2, RemainderOfSum
    <3>4. (start + moved) + 1 = start + (moved + 1)
      OBVIOUS
    <3> QED
      BY <3>1, <3>3, <3>4
  <2>5. CASE ~through
    <3>1. Cardinality(Through(longer, length + 1)) = moved
      BY <1>8, <2>1, <2>5
    <3> QED
      BY <1>9, <1>13, <1>14, <2>1, <2>5, <3>1
  <2> QED
    BY <2>4, <2>5
<1>16. ASSUME NEW cell \in Cells, mem'.wram[cell] # work.before.wram[cell]
       PROVE  \E k \in 1..(length + 1) :
                IF ToA(k)' THEN /\ InWram(longer[k].bank, longer[k].off)
                                /\ cell = Cell(longer[k].bank, longer[k].off)
                ELSE k \in Through(longer, k) /\ cell = After(k - 1)'
  <2>1. CASE mem'.wram[cell] = mem.wram[cell]
    <3>1. PICK k \in 1..length :
            IF ToA(k) THEN InWram(log[k].bank, log[k].off) /\ cell = Cell(log[k].bank, log[k].off)
            ELSE k \in Through(log, k) /\ cell = After(k - 1)
      BY <1>13, <1>16, <2>1
    <3>2. k \in 1..(length + 1) /\ k \in 0..length /\ k - 1 \in 0..length
      BY <1>2
    <3>3. /\ longer[k] = log[k] /\ ToA(k)' = ToA(k)
          /\ Through(longer, k) = Through(log, k) /\ After(k - 1)' = After(k - 1)
      BY <1>3, <1>8, <1>10, <1>11, <3>2
    <3> QED
      BY <3>1, <3>2, <3>3
  <2>2. CASE mem'.wram[cell] # mem.wram[cell]
    <3> DEFINE k == length + 1
    <3>1. k \in 1..(length + 1) /\ k - 1 = length /\ longer[k] = entry /\ length \in 0..length
      BY <1>2, <1>3
    <3>2. After(k - 1)' = mem.wmadd
      BY <1>10, <1>13, <3>1
    <3>3. IF ToA(k)' THEN /\ InWram(longer[k].bank, longer[k].off)
                          /\ cell = Cell(longer[k].bank, longer[k].off)
          ELSE k \in Through(longer, k) /\ cell = After(k - 1)'
      BY <1>4, <1>8, <1>11, <1>14, <2>2, <3>1, <3>2
    <3> QED
      BY <3>1, <3>3
  <2> QED
    BY <2>1, <2>2
<1> QED
  BY <1>15, <1>16

(***************************************************************************)
(* Every step keeps the account of the burst.                              *)
(***************************************************************************)
LEMMA StepKeepsBurst == Types /\ BurstInv /\ [Next]_vars => BurstInv'
<1> SUFFICES ASSUME Types, BurstInv, [Next]_vars
             PROVE  BurstInv'
  OBVIOUS
<1>1. Types'
  BY StepKeepsTypes
<1>2. CASE UNCHANGED vars
  <2>1. work' = work /\ mem' = mem /\ channels' = channels
    BY <1>2 DEF vars
  <2>2. BurstSoFar' <=> BurstSoFar
    BY <2>1 DEF BurstSoFar, ChannelKept, Progress, Position, EntryDue
  <2>3. PortSoFar' <=> PortSoFar
    BY <2>1 DEF PortSoFar, KeepsAddress, ToA, After
  <2> QED
    BY <2>1, <2>2, <2>3 DEF BurstInv
<1>3. ASSUME NEW mask \in Masks, TriggerBegin(mask)
      PROVE  BurstInv'
  BY <1>1, <1>3, BurstBegins DEF BurstInv
<1>4. CASE BurstByte
  <2>1. work.kind = "burst"
    BY <1>4 DEF BurstByte
  <2> QED
    BY <1>1, <1>4, <2>1, ByteKeepsBurst, ByteKeepsPort DEF BurstInv
<1>5. ASSUME \/ \E w \in Writes : WriteRegister(w[1], w[2], w[3])
             \/ \E mask \in Masks : WriteHdmaEn(mask)
             \/ TriggerEnd \/ FrameInit \/ LineBegin \/ LineEnd \/ Reset
      PROVE  BurstInv'
  <2>1. CASE \E w \in Writes : WriteRegister(w[1], w[2], w[3])
    BY <2>1 DEF WriteRegister, Free, BurstInv
  <2>2. CASE \E mask \in Masks : WriteHdmaEn(mask)
    BY <2>2 DEF WriteHdmaEn, Free, BurstInv
  <2>3. CASE FrameInit \/ Reset
    <3>1. Free /\ work' = work
      BY <2>3 DEF FrameInit, Reset
    <3> QED
      BY <3>1 DEF Free, BurstInv
  <2>4. CASE TriggerEnd \/ LineEnd
    <3>1. work' = Idle
      BY <2>4 DEF TriggerEnd, LineEnd
    <3> QED
      BY <3>1 DEF Idle, BurstInv
  <2>5. CASE LineBegin
    <3>1. work'.kind = "line"
      BY <2>5 DEF LineBegin
    <3> QED
      BY <3>1 DEF BurstInv
  <2> QED
    BY <1>5, <2>1, <2>2, <2>3, <2>4, <2>5
<1>6. CASE LineStep
  <2>1. work.kind = "line"
    BY <1>6 DEF LineStep, HeaderKept, HeaderEnds, HeaderLoaded, HdmaByte, HdmaCount, InLine
  <2>2. work'.kind = "line"
    <3>1. work \in Line
      BY <2>1 DEF Types, Idle, Burst, Line
    <3> QED
      BY <1>6, <3>1 DEF LineStep, HeaderKept, HeaderEnds, HeaderLoaded, HdmaByte, HdmaCount, Line
  <2> QED
    BY <2>2 DEF BurstInv
<1> QED
  BY <1>2, <1>3, <1>4, <1>5, <1>6 DEF Next

(***************************************************************************)
(* The account of a burst, byte by byte, is an invariant.                  *)
(***************************************************************************)
THEOREM BurstInvariance == Spec => [](Types /\ BurstInv)
<1>1. Init => BurstInv
  BY DEF Init, Idle, BurstInv
<1> QED
  BY <1>1, InitTypes, StepKeepsTypes, StepKeepsBurst, PTL DEF Spec

(***************************************************************************)
(* A burst moves exactly the bytes its registers ask for, in order, eight  *)
(* cycles apart, and leaves DAS at zero and A1T behind the last byte.      *)
(***************************************************************************)
THEOREM BurstCopiesAll == Spec => []BurstCopies
<1> SUFFICES ASSUME Types, BurstInv
             PROVE  BurstCopies
  BY BurstInvariance, PTL
<1> SUFFICES ASSUME Done("burst"), NEW ch \in work.record.mask
             PROVE  LET r == work.record.regs[ch]
                        first == BytesBefore(work.record, ch)
                    IN  /\ \A n \in 0..(r.bytes - 1) :
                             work.log[first + n + 1] =
                               [ch |-> ch, bank |-> r.a1b, off |-> Turn(r.a1t, n * Delta(r.dmap.step)),
                                reg |-> BReg(r, n), t |-> work.record.start + 8 + 8 * (first + n)]
                        /\ channels[ch].das = 0
                        /\ channels[ch].a1t = Turn(r.a1t, r.bytes * Delta(r.dmap.step))
  BY DEF BurstCopies
<1> DEFINE r == work.record.regs[ch]
           first == BytesBefore(work.record, ch)
<1>1. work \in Burst /\ work.kind = "burst" /\ work.todo = {} /\ BurstSoFar
  BY Kinds DEF Done, BurstInv
<1>2. Progress(ch) = r.bytes /\ ChannelKept(ch)
  BY <1>1 DEF Progress, BurstSoFar
<1>3. r.bytes \in 1..BankSize /\ BankSize \in Nat \ {0}
  BY <1>1, Sizes DEF Types, Snapshot
<1>4. first \in Int
  <2>1. work.record.mask \subseteq Nat
    BY <1>1, ProgramAssumption DEF Burst, Record
  <2>2. \A d \in work.record.mask : work.record.regs[d].bytes \in 1..BankSize
    BY <1>1 DEF Types, Snapshot
  <2>3. ch \in Nat /\ \A d \in work.record.mask : work.record.regs[d].bytes \in Nat
    BY <2>1, <2>2, Sizes
  <2> QED
    BY <2>3, BytesBeforeNext
<1>5. channels[ch].das = 0 /\ channels[ch].a1t = Turn(r.a1t, r.bytes * Delta(r.dmap.step))
  <2>1. PICK bytes \in 1..BankSize : bytes = r.bytes
    BY <1>3
  <2>2. bytes - bytes = 0 /\ 0 % BankSize = 0
    BY <1>3, SmallRemainder
  <2> QED
    BY <1>2, <2>1, <2>2 DEF ChannelKept
<1>6. ASSUME NEW n \in 0..(r.bytes - 1)
      PROVE  work.log[first + n + 1] =
               [ch |-> ch, bank |-> r.a1b, off |-> Turn(r.a1t, n * Delta(r.dmap.step)),
                reg |-> BReg(r, n), t |-> work.record.start + 8 + 8 * (first + n)]
  <2>1. work.log[Position(ch, n)] = EntryDue(ch, n)
    BY <1>1, <1>2 DEF BurstSoFar
  <2>2. n \in Int
    BY <1>3
  <2> HIDE DEF first
  <2>3. Position(ch, n) = first + n + 1 /\ Position(ch, n) - 1 = first + n
    BY <1>4, <2>2 DEF Position, first
  <2> QED
    BY <2>1, <2>3 DEF EntryDue
<1> QED
  BY <1>5, <1>6

(***************************************************************************)
(* The port's address moves once for every byte that went through it, and  *)
(* a cell changes only where a byte of the burst was stored.               *)
(***************************************************************************)
THEOREM WramOnlyThroughPort == Spec => []WramThroughPort
<1> SUFFICES ASSUME Types, BurstInv
             PROVE  WramThroughPort
  BY BurstInvariance, PTL
<1> SUFFICES ASSUME Done("burst")
             PROVE  WramThroughPort
  BY DEF WramThroughPort
<1>1. work \in Burst /\ PortSoFar
  BY Kinds DEF Done, BurstInv
<1> DEFINE log == work.log
           InConflict(i) == InWram(log[i].bank, log[i].off) /\ log[i].reg \in WramPorts
           Passed(n) == {i \in 1..n : log[i].reg = PortBase /\ ~InConflict(i)}
           Then(n) == (work.before.wmadd + Cardinality(Passed(n))) % Cardinality(Cells)
<1>2. DOMAIN log = 1..Len(log)
  BY <1>1 DEF Burst
<1>3. Cardinality(Cells) = 2 * BankSize
  <2>1. 0 \in Int /\ 2 * BankSize - 1 \in Int /\ 0 <= 2 * BankSize - 1 /\ 2 * BankSize - 1 - 0 + 1 = 2 * BankSize
    BY Sizes
  <2> QED
    BY <2>1, Sizes, FS_Interval
<1>4. \A i : InConflict(i) <=> Conflict(log[i].bank, log[i].off, log[i].reg)
  BY DEF Conflict
<1>5. \A n : Passed(n) = Through(log, n) /\ Then(n) = After(n)
  <2>1. \A n : Passed(n) = Through(log, n)
    BY <1>4 DEF Through
  <2> QED
    BY <1>3, <2>1 DEF After
<1>6. ASSUME \A i \in DOMAIN log : log[i].reg \in WramPorts \ {PortBase} => ToA(i) \/ InConflict(i)
      PROVE  /\ mem.wmadd = Then(Len(log))
             /\ \A cell \in Cells : mem.wram[cell] # work.before.wram[cell] =>
                  \E i \in DOMAIN log :
                    IF ToA(i) THEN InWram(log[i].bank, log[i].off) /\ cell = Cell(log[i].bank, log[i].off)
                    ELSE i \in Passed(i) /\ cell = Then(i - 1)
  <2>1. \A i \in 1..Len(log) : KeepsAddress(i)
    BY <1>2, <1>4, <1>6 DEF KeepsAddress
  <2> HIDE DEF Passed, Then, InConflict
  <2> QED
    BY <1>1, <1>2, <1>5, <2>1 DEF PortSoFar
<1> QED
  BY <1>6 DEF WramThroughPort, ToA
-----------------------------------------------------------------------------
(***************************************************************************)
(* HDMA.  Between two lines a channel keeps a cursor into its table, a     *)
(* counter of lines and a flag.  These are what the table's entry for the  *)
(* coming line says they are, with the lines the entry has had so far.     *)
(***************************************************************************)
UnitsBefore(header, line) == IF Repeat(header) THEN line ELSE IF line = 0 THEN 0 ELSE 1
Pointer(e) == Rom[Turn(e.at, 1)] + ByteSize * Rom[Turn(e.at, 2)]

SameSetup(c, s) ==
  /\ c.dmap = s.dmap /\ c.bbad = s.bbad /\ c.a1b = s.a1b
  /\ s.dmap.indirect => c.dasb = s.dasb

(* The channel c, set up as s, is i bytes into the k-th line of the frame. *)
InEntry(c, s, k, i) ==
  LET e == EntryOf(s, k)
      header == Rom[e.at]
      line == k - e.first
  IN  /\ header # 0 /\ line \in 0..(Count(header) - 1)
      /\ LinesLeft(c.ntrl) = (Count(header) - line) % PortBase
      /\ Repeat(c.ntrl) <=> Repeat(header)
      /\ c.doTransfer <=> line = 0 \/ Repeat(header)
      /\ IF s.dmap.indirect
         THEN /\ c.a2a = Turn(e.at, 3)
              /\ c.doTransfer => c.das = Turn(Pointer(e), line * Unit(s) + i)
         ELSE c.a2a = Turn(e.at, 1 + (UnitsBefore(header, line) * Unit(s) + i))

AtEntry(c, s, k) ==
  LinesLeft(c.ntrl) = 0 /\ EntryOf(s, k) = [at |-> c.a2a, first |-> k]

Between(c, s, k) ==
  c.finished \/ AtEntry(c, s, k) \/ (EntryOf(s, k).first < k /\ InEntry(c, s, k, 0))

(* In the line that is run, the channel has moved its first i bytes, last. *)
Moving(ch, line, i) ==
  /\ i \in 0..Len(work.log)
  /\ {n \in DOMAIN work.log : work.log[n].ch = ch} = (Len(work.log) - i + 1)..Len(work.log)
  /\ \A n \in 1..i :
       LET entry == work.log[Len(work.log) - i + n]
       IN  n \in DOMAIN line /\ [bank |-> entry.bank, off |-> entry.off, reg |-> entry.reg] = line[n]

Tracked(ch, c, s, k) ==
  /\ SameSetup(c, s)
  /\ IF work.kind # "line" \/ ch \notin work.serviced THEN Between(c, s, k)
     ELSE IF ch \notin work.todo THEN Between(c, s, k + 1) /\ Moved(ch, LineOf(s, k))
     ELSE IF ch = First(work.todo) /\ work.step = "bytes"
     THEN /\ ~c.finished /\ InEntry(c, s, k, work.i) /\ Moving(ch, LineOf(s, k), work.i)
          /\ work.i <= Unit(s) /\ (~c.doTransfer => work.i = 0)
     ELSE ~c.finished /\ Between(c, s, k) /\ Moving(ch, <<>>, 0)

TablesTracked ==
  \A ch \in Channels :
    frame[ch].kept /\ frame[ch].start.a1b = "rom" =>
      Tracked(ch, channels[ch], frame[ch].start, frame[ch].lines)

LineInv ==
  work.kind = "line" =>
    /\ work.todo \subseteq work.serviced
    /\ work.step = "header" => work.i = 0

(***************************************************************************)
(* Offsets add up within their bank.                                       *)
(***************************************************************************)
LEMMA TurnsAdd ==
  ASSUME NEW off \in Offset, NEW a \in Nat, NEW b \in Nat
  PROVE  Turn(Turn(off, a), b) = Turn(off, a + b)
<1>1. BankSize \in Nat \ {0} /\ off \in Int /\ a \in Int /\ b \in Int
  BY Sizes
<1>2. (((off + a) % BankSize) + b) % BankSize = ((off + a) + b) % BankSize
  <2>1. off + a \in Int
    BY <1>1
  <2> DEFINE sum == off + a
  <2> HIDE DEF sum
  <2>2. ((sum % BankSize) + b) % BankSize = (sum + b) % BankSize
    BY <1>1, <2>1, RemainderOfSum DEF sum
  <2> QED
    BY <2>2, Zenon DEF sum
<1>3. (off + a) + b = off + (a + b)
  BY <1>1
<1> QED
  BY <1>2, <1>3 DEF Turn, BankSize

(***************************************************************************)
(* An entry of a table: the offset of its header and its first line.       *)
(***************************************************************************)
TableEntry == [at : Offset, first : Nat]

(***************************************************************************)
(* A header is read at an entry of the table; it says how many lines the   *)
(* entry has, at most half the values of a byte, and at least one.         *)
(***************************************************************************)
LEMMA HeaderTypes ==
  ASSUME NEW header \in Byte
  PROVE  /\ PortBase \in Nat \ {0} /\ ByteSize \div 2 = PortBase
         /\ LinesLeft(header) \in 0..(PortBase - 1)
         /\ Count(header) \in 1..PortBase
         /\ Count(header) % PortBase = LinesLeft(header)
<1>1. PortBase \in Nat \ {0} /\ ByteSize \div 2 = PortBase /\ header \in Int
  BY Sizes DEF PortBase, Byte
<1>2. LinesLeft(header) \in 0..(PortBase - 1)
  BY <1>1 DEF LinesLeft
<1>3. PortBase % PortBase = 0
  <2>1. (0 + PortBase) % PortBase = 0 % PortBase
    BY <1>1, WholeTurn
  <2>2. 0 % PortBase = 0
    BY <1>1
  <2> QED
    BY <1>1, <2>1, <2>2
<1>4. Count(header) = IF LinesLeft(header) = 0 THEN PortBase ELSE LinesLeft(header)
  BY <1>1 DEF Count
<1>5. LinesLeft(header) # 0 => LinesLeft(header) % PortBase = LinesLeft(header)
  BY <1>1, <1>2, SmallRemainder
<1> QED
  BY <1>1, <1>2, <1>3, <1>4, <1>5

(***************************************************************************)
(* The transfer unit of every mode has one, two or four bytes.             *)
(***************************************************************************)
LEMMA UnitTypes ==
  ASSUME NEW c \in ChannelState
  PROVE  Unit(c) \in {1, 2, 4}
<1>1. c.dmap.mode \in 0..7
  BY DEF ChannelState, Dmap
<1> QED
  BY <1>1, PatternTypes DEF Unit

(***************************************************************************)
(* The next entry of a table lies inside the bank.                         *)
(***************************************************************************)
LEMMA NextEntryTypes ==
  ASSUME NEW c \in ChannelState, NEW e \in TableEntry, NEW n \in Nat
  PROVE  NextEntry(c, e, n) \in TableEntry
<1>1. Rom[e.at] \in Byte
  BY ProgramAssumption DEF TableEntry
<1>2. PICK header \in Byte : header = Rom[e.at]
  BY <1>1
<1>3. DataSize(c, header) \in Nat
  <2>1. Unit(c) \in Nat /\ Count(header) \in Nat
    BY HeaderTypes, UnitTypes
  <2> QED
    BY <2>1 DEF DataSize
<1>4. Turn(e.at, 1 + DataSize(c, header)) \in Offset
  BY <1>3, TurnInBank DEF TableEntry
<1> QED
  BY <1>2, <1>4 DEF NextEntry, TableEntry

(***************************************************************************)
(* The entry of each line follows from the entry of the line before.       *)
(***************************************************************************)
LEMMA EntryFollows ==
  ASSUME NEW c \in ChannelState
  PROVE  /\ EntryOf(c, 0) = [at |-> c.a1t, first |-> 0]
         /\ \A k \in Nat : /\ EntryOf(c, k) \in TableEntry
                           /\ EntryOf(c, k + 1) = NextEntry(c, EntryOf(c, k), k + 1)
<1> DEFINE start == [at |-> c.a1t, first |-> 0]
           step == [p \in TableEntry \X Nat |-> NextEntry(c, p[1], p[2] + 1)]
<1>0. start \in TableEntry
  BY DEF TableEntry, ChannelState
<1>1. step \in [TableEntry \X Nat -> TableEntry]
  <2>1. ASSUME NEW p \in TableEntry \X Nat
        PROVE  NextEntry(c, p[1], p[2] + 1) \in TableEntry
    BY NextEntryTypes
  <2> QED
    BY <2>1
<1>2. PICK f \in [Nat -> TableEntry] : Unfolds(f, start, step)
  <2> HIDE DEF step, start
  <2> QED
    BY <1>0, <1>1, Recursion
<1>3. \A n \in Nat : f[n + 1] = NextEntry(c, f[n], n + 1)
  <2>1. ASSUME NEW n \in Nat
        PROVE  f[n + 1] = NextEntry(c, f[n], n + 1)
    <3>1. f[n + 1] = step[<<f[n], n>>] /\ <<f[n], n>> \in TableEntry \X Nat
      BY <1>2 DEF Unfolds
    <3> QED
      BY <3>1
  <2> QED
    BY <2>1
<1>4. f[0] = start
  BY <1>2 DEF Unfolds
<1> HIDE DEF start, step
<1>5. ASSUME NEW k \in Nat
      PROVE  EntryOf(c, k) = f[k]
  <2> DEFINE Walks(g) == g = [n \in 0..k |-> IF n = 0 THEN [at |-> c.a1t, first |-> 0]
                                             ELSE NextEntry(c, g[n - 1], n)]
             entry == CHOOSE g : Walks(g)
  <2>1. EntryOf(c, k) = entry[k]
    BY DEF EntryOf
  <2>2. Walks([n \in 0..k |-> f[n]])
    <3> DEFINE g == [n \in 0..k |-> f[n]]
    <3>1. ASSUME NEW n \in 0..k, n # 0
          PROVE  f[n] = NextEntry(c, g[n - 1], n)
      <4>1. n - 1 \in Nat /\ n - 1 \in 0..k /\ (n - 1) + 1 = n
        BY <3>1
      <4>2. g[n - 1] = f[n - 1]
        BY <4>1
      <4> QED
        BY <1>3, <4>1, <4>2
    <3> QED
      BY <1>4, <3>1 DEF start
  <2>3. Walks(entry)
    <3> HIDE DEF Walks
    <3> QED
      BY <2>2
  <2> HIDE DEF entry
  <2>4. entry[0] = start /\ \A n \in 0..(k - 1) : entry[n + 1] = NextEntry(c, entry[n], n + 1)
    <3>1. ASSUME NEW n \in 0..k
          PROVE  entry[n] = IF n = 0 THEN [at |-> c.a1t, first |-> 0]
                            ELSE NextEntry(c, entry[n - 1], n)
      BY <2>3
    <3>2. ASSUME NEW n \in 0..(k - 1)
          PROVE  entry[n + 1] = NextEntry(c, entry[n], n + 1)
      <4>1. n + 1 \in 0..k /\ n + 1 # 0 /\ (n + 1) - 1 = n
        OBVIOUS
      <4> QED
        BY <3>1, <4>1
    <3> QED
      BY <3>1, <3>2 DEF start
  <2> DEFINE Agree == {n \in Nat : n <= k => entry[n] = f[n]}
  <2>5. 0 \in Agree
    BY <1>4, <2>4
  <2>6. ASSUME NEW n \in Nat, n \in Agree
        PROVE  n + 1 \in Agree
    <3>1. n + 1 <= k => n \in 0..(k - 1) /\ entry[n] = f[n]
      BY <2>6
    <3> QED
      BY <1>3, <2>4, <3>1
  <2>7. Nat \subseteq Agree
    <3> HIDE DEF Agree
    <3> QED
      BY <2>5, <2>6, NaturalInduction
  <2> QED
    BY <2>1, <2>7
<1> QED
  BY <1>3, <1>4, <1>5 DEF start

(***************************************************************************)
(* The entry of a line and its header, and the data pointer of an indirect *)
(* table.                                                                  *)
(***************************************************************************)
LEMMA EntryTypes ==
  ASSUME NEW s \in ChannelState, NEW k \in Nat, NEW e, e = EntryOf(s, k)
  PROVE  /\ e \in TableEntry /\ e.at \in Offset /\ e.first \in Nat
         /\ Rom[e.at] \in Byte /\ Pointer(e) \in Offset
<1>1. e \in TableEntry /\ e.at \in Offset /\ e.first \in Nat
  BY EntryFollows DEF TableEntry
<1>2. Turn(e.at, 1) \in Offset /\ Turn(e.at, 2) \in Offset
  BY <1>1, TurnInBank
<1>3. Rom[e.at] \in Byte /\ Rom[Turn(e.at, 1)] \in Byte /\ Rom[Turn(e.at, 2)] \in Byte
  BY <1>1, <1>2, ProgramAssumption
<1>4. PICK low \in Byte, high \in Byte : low = Rom[Turn(e.at, 1)] /\ high = Rom[Turn(e.at, 2)]
  BY <1>3
<1>5. low + ByteSize * high \in 0..(ByteSize * ByteSize - 1)
  <2>1. low \in 0..(ByteSize - 1) /\ high \in 0..(ByteSize - 1) /\ ByteSize \in Nat \ {0}
    BY Sizes DEF Byte
  <2>2. ByteSize * high + low \in 0..(ByteSize * ByteSize - 1)
    BY <2>1, TwoDigits
  <2>3. ByteSize * high \in Int /\ low \in Int
    BY <2>1
  <2> QED
    BY <2>2, <2>3
<1> QED
  BY <1>1, <1>3, <1>4, <1>5 DEF Pointer, Offset

(***************************************************************************)
(* A turn by nothing.                                                      *)
(***************************************************************************)
LEMMA NoTurn ==
  ASSUME NEW off \in Offset
  PROVE  Turn(off, 0) = off
<1>1. off \in 0..(BankSize - 1) /\ BankSize \in Nat \ {0} /\ off + 0 = off
  BY Sizes
<1>2. off % BankSize = off
  BY <1>1, SmallRemainder
<1> QED
  BY <1>1, <1>2 DEF Turn, BankSize

(***************************************************************************)
(* The header of a new entry puts the channel at the start of its data.    *)
(***************************************************************************)
LEMMA LoadedInEntry ==
  ASSUME NEW c \in ChannelState, NEW s \in ChannelState, NEW k \in Nat, AtEntry(c, s, k),
         NEW d \in ChannelState, Rom[c.a2a] # 0, d.ntrl = Rom[c.a2a], d.doTransfer = TRUE,
         d.a2a = Turn(c.a2a, IF s.dmap.indirect THEN 3 ELSE 1),
         s.dmap.indirect =>
           d.das = Rom[Turn(c.a2a, 1)] + ByteSize * Rom[Turn(c.a2a, 2)]
  PROVE  InEntry(d, s, k, 0)
<1> DEFINE e == EntryOf(s, k)
<1>1. e = [at |-> c.a2a, first |-> k]
  BY DEF AtEntry
<1>2. e.at = c.a2a /\ e.first = k /\ k - e.first = 0
  BY <1>1
<1>3. Rom[e.at] \in Byte /\ Pointer(e) \in Offset
  BY EntryTypes
<1>4. PICK header \in Byte : header = Rom[e.at]
  BY <1>3
<1>5. /\ PortBase \in Nat \ {0} /\ Count(header) \in 1..PortBase
      /\ Count(header) % PortBase = LinesLeft(header)
  BY HeaderTypes
<1>6. Unit(s) \in Nat
  BY UnitTypes
<1>7. UnitsBefore(header, 0) = 0 /\ 0 * Unit(s) + 0 = 0
  BY <1>6 DEF UnitsBefore
<1> HIDE DEF e
<1>8. /\ header # 0 /\ 0 \in 0..(Count(header) - 1)
      /\ LinesLeft(d.ntrl) = (Count(header) - 0) % PortBase
      /\ Repeat(d.ntrl) <=> Repeat(header)
  BY <1>2, <1>4, <1>5
<1>9. CASE s.dmap.indirect
  <2>1. d.a2a = Turn(e.at, 3)
    BY <1>2, <1>9
  <2>2. d.das = Turn(Pointer(e), 0 * Unit(s) + 0)
    BY <1>2, <1>3, <1>7, <1>9, NoTurn DEF Pointer
  <2> QED
    BY <1>2, <1>4, <1>8, <1>9, <2>1, <2>2 DEF InEntry, e
<1>10. CASE ~s.dmap.indirect
  <2>1. d.a2a = Turn(e.at, 1 + (UnitsBefore(header, 0) * Unit(s) + 0))
    BY <1>2, <1>7, <1>10
  <2> QED
    BY <1>2, <1>4, <1>8, <1>10, <2>1 DEF InEntry, e
<1> QED
  BY <1>9, <1>10

(***************************************************************************)
(* What the table says for a line that transfers: its unit, byte by byte.  *)
(***************************************************************************)
LEMMA LineOfEntry ==
  ASSUME NEW c \in ChannelState, NEW s \in ChannelState, NEW k \in Nat, NEW i \in Nat,
         InEntry(c, s, k, i)
  PROVE  /\ c.doTransfer => DOMAIN LineOf(s, k) = 1..Unit(s)
         /\ ~c.doTransfer => LineOf(s, k) = <<>>
         /\ c.doTransfer /\ i < Unit(s) =>
              LineOf(s, k)[i + 1] =
                [bank |-> IF s.dmap.indirect THEN s.dasb ELSE s.a1b,
                 off |-> IF s.dmap.indirect THEN c.das ELSE c.a2a, reg |-> BReg(s, i)]
<1> DEFINE e == EntryOf(s, k)
           line == k - e.first
           data == IF s.dmap.indirect THEN Pointer(e) ELSE Turn(e.at, 1)
           Byte0(n) == [bank |-> IF s.dmap.indirect THEN s.dasb ELSE s.a1b,
                        off |-> Turn(data, line * Unit(s) + n - 1), reg |-> BReg(s, n - 1)]
<1>1. e.at \in Offset /\ e.first \in Nat /\ Rom[e.at] \in Byte
  BY EntryTypes
<1>2. PICK header \in Byte : header = Rom[e.at]
  BY <1>1
<1>3. Count(header) \in 1..PortBase /\ PortBase \in Nat
  BY HeaderTypes
<1>4. /\ header # 0 /\ line \in 0..(Count(header) - 1)
      /\ c.doTransfer <=> line = 0 \/ Repeat(header)
  BY <1>2 DEF InEntry
<1>5. line \in Nat
  BY <1>3, <1>4
<1>6. LineOf(s, k) = IF header = 0 \/ (line > 0 /\ ~Repeat(header)) THEN <<>>
                     ELSE [n \in 1..Unit(s) |-> Byte0(n)]
  BY <1>2 DEF LineOf, Pointer
<1>7. Unit(s) \in Nat
  BY UnitTypes
<1> HIDE DEF Byte0, line
<1>8. c.doTransfer => LineOf(s, k) = [n \in 1..Unit(s) |-> Byte0(n)]
  BY <1>4, <1>5, <1>6
<1>9. ~c.doTransfer => LineOf(s, k) = <<>>
  BY <1>4, <1>5, <1>6
<1>10. ASSUME c.doTransfer, i < Unit(s)
       PROVE  LineOf(s, k)[i + 1] =
                [bank |-> IF s.dmap.indirect THEN s.dasb ELSE s.a1b,
                 off |-> IF s.dmap.indirect THEN c.das ELSE c.a2a, reg |-> BReg(s, i)]
  <2>1. i + 1 \in 1..Unit(s) /\ (i + 1) - 1 = i
    BY <1>7, <1>10
  <2>2. LineOf(s, k)[i + 1] = Byte0(i + 1)
    BY <1>8, <1>10, <2>1
  <2>3. line * Unit(s) \in Nat
    BY <1>5, <1>7
  <2>4. line * Unit(s) + (i + 1) - 1 = line * Unit(s) + i
    BY <2>3
  <2>5. CASE s.dmap.indirect
    <3>1. c.das = Turn(Pointer(e), line * Unit(s) + i)
      BY <1>10, <2>5 DEF InEntry, line
    <3> QED
      BY <2>1, <2>2, <2>4, <2>5, <3>1 DEF Byte0
  <2>6. CASE ~s.dmap.indirect
    <3>1. c.a2a = Turn(e.at, 1 + (UnitsBefore(header, line) * Unit(s) + i))
      BY <1>2, <2>6 DEF InEntry, line
    <3>2. UnitsBefore(header, line) = line
      BY <1>4, <1>5, <1>10 DEF UnitsBefore
    <3>3. Turn(Turn(e.at, 1), line * Unit(s) + i) = Turn(e.at, 1 + (line * Unit(s) + i))
      <4>1. line * Unit(s) + i \in Nat
        BY <2>3
      <4> QED
        BY <1>1, <4>1, TurnsAdd
    <3> QED
      BY <2>1, <2>2, <2>4, <2>6, <3>1, <3>2, <3>3 DEF Byte0
  <2> QED
    BY <2>5, <2>6
<1> QED
  BY <1>8, <1>9, <1>10

(***************************************************************************)
(* A byte of the unit moves the cursor to the next one.                    *)
(***************************************************************************)
LEMMA ByteInEntry ==
  ASSUME NEW c \in ChannelState, NEW s \in ChannelState, NEW k \in Nat, NEW i \in Nat,
         InEntry(c, s, k, i), c.doTransfer,
         NEW d \in ChannelState, d.ntrl = c.ntrl, d.doTransfer = c.doTransfer,
         IF s.dmap.indirect THEN d.das = Turn(c.das, 1) /\ d.a2a = c.a2a ELSE d.a2a = Turn(c.a2a, 1)
  PROVE  InEntry(d, s, k, i + 1)
<1> DEFINE e == EntryOf(s, k)
           line == k - e.first
           units == UnitsBefore(Rom[e.at], line)
<1>1. e.at \in Offset /\ e.first \in Nat /\ Pointer(e) \in Offset /\ Rom[e.at] \in Byte
  BY EntryTypes
<1>2. Count(Rom[e.at]) \in 1..PortBase /\ PortBase \in Nat
  BY <1>1, HeaderTypes
<1>3. line \in 0..(Count(Rom[e.at]) - 1)
  BY DEF InEntry
<1>4. line \in Nat /\ Unit(s) \in Nat
  BY <1>2, <1>3, UnitTypes
<1>5. units \in Nat
  BY <1>4 DEF UnitsBefore
<1> HIDE DEF e, line, units
<1>6. line * Unit(s) \in Nat /\ units * Unit(s) \in Nat
  BY <1>4, <1>5
<1>7. /\ (line * Unit(s) + i) + 1 = line * Unit(s) + (i + 1)
      /\ (1 + (units * Unit(s) + i)) + 1 = 1 + (units * Unit(s) + (i + 1))
      /\ line * Unit(s) + i \in Nat /\ 1 + (units * Unit(s) + i) \in Nat
  BY <1>6
<1>8. CASE s.dmap.indirect
  <2>1. c.das = Turn(Pointer(e), line * Unit(s) + i) /\ c.a2a = Turn(e.at, 3)
    BY <1>8 DEF InEntry, e, line
  <2>2. PICK done \in Nat : done = line * Unit(s) + i
    BY <1>7
  <2>3. Turn(Turn(Pointer(e), done), 1) = Turn(Pointer(e), done + 1)
    BY <1>1, TurnsAdd
  <2>4. d.das = Turn(Pointer(e), line * Unit(s) + (i + 1)) /\ d.a2a = Turn(e.at, 3)
    BY <1>7, <1>8, <2>1, <2>2, <2>3
  <2> QED
    BY <1>8, <2>4 DEF InEntry, e, line
<1>9. CASE ~s.dmap.indirect
  <2>1. c.a2a = Turn(e.at, 1 + (units * Unit(s) + i))
    BY <1>9 DEF InEntry, e, line, units
  <2>2. PICK done \in Nat : done = 1 + (units * Unit(s) + i)
    BY <1>7
  <2>3. Turn(Turn(e.at, done), 1) = Turn(e.at, done + 1)
    <3>1. PICK off \in Offset : off = e.at
      BY <1>1
    <3>2. Turn(Turn(off, done), 1) = Turn(off, done + 1)
      BY TurnsAdd
    <3> QED
      BY <3>1, <3>2
  <2>4. d.a2a = Turn(e.at, 1 + (units * Unit(s) + (i + 1)))
    BY <1>7, <1>9, <2>1, <2>2, <2>3
  <2> QED
    BY <1>9, <2>4 DEF InEntry, e, line, units
<1> QED
  BY <1>8, <1>9

(***************************************************************************)
(* The counter of lines lies below the repeat bit of NTRL.                 *)
(***************************************************************************)
LEMMA CounterBits ==
  ASSUME NEW left \in 0..(PortBase - 1), NEW repeats \in BOOLEAN,
         NEW ntrl, ntrl = left + (IF repeats THEN PortBase ELSE 0)
  PROVE  ntrl \in Byte /\ LinesLeft(ntrl) = left /\ (Repeat(ntrl) <=> repeats)
<1>1. /\ PortBase \in Nat \ {0} /\ ByteSize \div 2 = PortBase /\ 2 * PortBase = ByteSize
      /\ left \in Int
  BY Sizes DEF PortBase
<1>2. left % PortBase = left
  BY <1>1, SmallRemainder
<1>3. (left + PortBase) % PortBase = left % PortBase
  BY <1>1, WholeTurn
<1>4. ntrl % PortBase = left
  BY <1>1, <1>2, <1>3
<1> QED
  BY <1>1, <1>4 DEF LinesLeft, Repeat, Byte

(***************************************************************************)
(* A line's end leaves the cursor where the entry goes on on the next      *)
(* line, or at the next entry when the entry has had its lines.            *)
(***************************************************************************)
LEMMA CountedBetween ==
  ASSUME NEW c \in ChannelState, NEW s \in ChannelState, NEW k \in Nat, NEW i \in Nat,
         InEntry(c, s, k, i), i = (IF c.doTransfer THEN Unit(s) ELSE 0),
         NEW left, left = (LinesLeft(c.ntrl) - 1) % PortBase,
         NEW d \in ChannelState, d.ntrl = left + (IF Repeat(c.ntrl) THEN PortBase ELSE 0),
         d.doTransfer <=> Repeat(c.ntrl) \/ left = 0, d.a2a = c.a2a, d.das = c.das
  PROVE  Between(d, s, k + 1)
<1> DEFINE e == EntryOf(s, k)
<1>1. e \in TableEntry /\ e.at \in Offset /\ e.first \in Nat /\ Rom[e.at] \in Byte
  BY EntryTypes
<1>2. PICK header \in Byte : header = Rom[e.at]
  BY <1>1
<1>3. PICK lines \in 1..PortBase : lines = Count(header)
  BY HeaderTypes
<1>4. PICK unit \in {1, 2, 4} : unit = Unit(s)
  BY UnitTypes
<1>5. PortBase \in Nat \ {0}
  BY HeaderTypes
<1>6. /\ header # 0 /\ k - e.first \in 0..(lines - 1)
      /\ LinesLeft(c.ntrl) = (lines - (k - e.first)) % PortBase
      /\ Repeat(c.ntrl) <=> Repeat(header)
      /\ c.doTransfer <=> k - e.first = 0 \/ Repeat(header)
      /\ s.dmap.indirect => /\ c.a2a = Turn(e.at, 3)
                            /\ c.doTransfer => c.das = Turn(Pointer(e), (k - e.first) * unit + i)
      /\ ~s.dmap.indirect => c.a2a = Turn(e.at, 1 + (UnitsBefore(header, k - e.first) * unit + i))
  BY <1>2, <1>3, <1>4 DEF InEntry
<1>7. PICK line \in Nat : line = k - e.first /\ line < lines
  BY <1>3, <1>6
<1>8. EntryOf(s, k + 1) = IF k + 1 < e.first + lines THEN e
                          ELSE [at |-> Turn(e.at, 1 + DataSize(s, header)), first |-> k + 1]
  BY <1>2, <1>3, EntryFollows DEF NextEntry
<1> HIDE DEF e
<1>9. left = lines - line - 1 /\ left \in 0..(PortBase - 1)
  <2>1. lines - line \in Int /\ lines - line - 1 \in 0..(PortBase - 1)
    BY <1>3, <1>5, <1>7
  <2>2. PICK rest \in Int : rest = lines - line
    BY <2>1
  <2>3. ((rest % PortBase) - 1) % PortBase = (rest - 1) % PortBase
    <3>1. PICK y \in Int : y = 0 - 1
      OBVIOUS
    <3>2. ((rest % PortBase) + y) % PortBase = (rest + y) % PortBase
      BY <1>5, RemainderOfSum
    <3>3. rest % PortBase \in Int
      BY <1>5
    <3> QED
      BY <3>1, <3>2, <3>3
  <2>4. rest % PortBase \in Int /\ LinesLeft(c.ntrl) = rest % PortBase
    BY <1>5, <1>6, <1>7, <2>2
  <2>5. left = (rest - 1) % PortBase
    BY <2>3, <2>4
  <2>6. (rest - 1) % PortBase = rest - 1
    BY <1>5, <2>1, <2>2, SmallRemainder
  <2> QED
    BY <2>1, <2>2, <2>5, <2>6
<1>10. LinesLeft(d.ntrl) = left /\ (Repeat(d.ntrl) <=> Repeat(header))
  BY <1>6, <1>9, CounterBits DEF Repeat
<1>11. i = IF line = 0 \/ Repeat(header) THEN unit ELSE 0
  BY <1>4, <1>6, <1>7
<1>12. UnitsBefore(header, line) * unit + i = IF Repeat(header) THEN (line + 1) * unit ELSE unit
  BY <1>4, <1>7, <1>11 DEF UnitsBefore
<1>13. CASE left = 0
  <2>1. k + 1 = e.first + lines /\ line + 1 = lines
    BY <1>1, <1>3, <1>7, <1>9, <1>13
  <2>2. EntryOf(s, k + 1) = [at |-> Turn(e.at, 1 + DataSize(s, header)), first |-> k + 1]
    BY <1>1, <1>3, <1>8, <2>1
  <2>3. d.a2a = Turn(e.at, 1 + DataSize(s, header))
    <3>1. CASE s.dmap.indirect
      BY <1>6, <3>1 DEF DataSize
    <3>2. CASE ~s.dmap.indirect
      <4>1. DataSize(s, header) = IF Repeat(header) THEN unit * lines ELSE unit * 1
        BY <1>3, <1>4, <3>2 DEF DataSize
      <4>2. DataSize(s, header) = UnitsBefore(header, line) * unit + i
        BY <1>3, <1>4, <1>12, <2>1, <4>1
      <4> QED
        BY <1>6, <1>7, <3>2, <4>2
    <3> QED
      BY <3>1, <3>2
  <2> QED
    BY <1>10, <1>13, <2>2, <2>3 DEF Between, AtEntry
<1>14. CASE left # 0
  <2>1. /\ k + 1 < e.first + lines /\ (k + 1) - e.first = line + 1
        /\ line + 1 \in 0..(lines - 1) /\ e.first < k + 1 /\ left = lines - (line + 1)
    BY <1>1, <1>3, <1>7, <1>9, <1>14
  <2>2. EntryOf(s, k + 1) = e
    BY <1>8, <2>1
  <2>3. (lines - (line + 1)) % PortBase = left
    BY <1>5, <1>9, <2>1, SmallRemainder
  <2>4. d.doTransfer <=> line + 1 = 0 \/ Repeat(header)
    BY <1>6, <1>7, <1>14
  <2>5. CASE s.dmap.indirect
    <3>1. d.a2a = Turn(e.at, 3)
      BY <1>6, <2>5
    <3>2. ASSUME d.doTransfer
          PROVE  d.das = Turn(Pointer(e), (line + 1) * unit + 0)
      <4>1. Repeat(header) /\ c.doTransfer /\ i = unit
        BY <1>4, <1>6, <1>7, <2>4, <3>2
      <4>2. line * unit + i = (line + 1) * unit + 0
        BY <1>4, <4>1
      <4> QED
        BY <1>6, <1>7, <2>5, <4>1, <4>2
    <3> QED
      BY <1>2, <1>3, <1>4, <1>6, <1>10, <2>1, <2>2, <2>3, <2>4, <2>5, <3>1, <3>2 DEF Between, InEntry
  <2>6. CASE ~s.dmap.indirect
    <3>1. UnitsBefore(header, line + 1) * unit + 0 = IF Repeat(header) THEN (line + 1) * unit ELSE unit
      <4>1. UnitsBefore(header, line + 1) = IF Repeat(header) THEN line + 1 ELSE 1
        BY <1>7 DEF UnitsBefore
      <4> QED
        BY <1>4, <1>7, <4>1
    <3>2. d.a2a = Turn(e.at, 1 + (UnitsBefore(header, line + 1) * unit + 0))
      BY <1>6, <1>7, <1>12, <2>6, <3>1
    <3> QED
      BY <1>2, <1>3, <1>4, <1>6, <1>10, <2>1, <2>2, <2>3, <2>4, <2>6, <3>2 DEF Between, InEntry
  <2> QED
    BY <2>5, <2>6
<1> QED
  BY <1>13, <1>14

(***************************************************************************)
(* What HDMA keeps in a channel's registers between two lines.             *)
(***************************************************************************)
SameForHdma(c, d) ==
  /\ d.dmap = c.dmap /\ d.bbad = c.bbad /\ d.a1b = c.a1b /\ d.a2a = c.a2a /\ d.ntrl = c.ntrl
  /\ d.doTransfer = c.doTransfer /\ d.finished = c.finished
  /\ c.dmap.indirect => d.dasb = c.dasb /\ d.das = c.das

(***************************************************************************)
(* Where nothing of that changed, the cursor is where it was.              *)
(***************************************************************************)
LEMMA SameCursor ==
  ASSUME NEW c, NEW d, NEW s, NEW k, SameForHdma(c, d), SameSetup(c, s), Between(c, s, k)
  PROVE  SameSetup(d, s) /\ Between(d, s, k)
<1>1. SameSetup(d, s)
  BY DEF SameForHdma, SameSetup
<1>2. AtEntry(c, s, k) => AtEntry(d, s, k)
  BY DEF SameForHdma, AtEntry
<1>3. InEntry(c, s, k, 0) => InEntry(d, s, k, 0)
  BY DEF SameForHdma, SameSetup, InEntry
<1> QED
  BY <1>1, <1>2, <1>3 DEF Between, SameForHdma

(***************************************************************************)
(* The counter is not run out within an entry, so a header is read exactly *)
(* at an entry.                                                            *)
(***************************************************************************)
LEMMA HeaderAtEntry ==
  ASSUME NEW c \in ChannelState, NEW s \in ChannelState, NEW k \in Nat,
         Between(c, s, k), ~c.finished
  PROVE  IF LinesLeft(c.ntrl) = 0 THEN AtEntry(c, s, k) ELSE InEntry(c, s, k, 0)
<1>1. ASSUME EntryOf(s, k).first < k, InEntry(c, s, k, 0)
      PROVE  LinesLeft(c.ntrl) # 0
  <2>1. EntryOf(s, k).first \in Nat /\ Rom[EntryOf(s, k).at] \in Byte
    BY EntryTypes
  <2>2. PICK first \in Nat : first = EntryOf(s, k).first
    BY <2>1
  <2>3. PICK lines \in 1..PortBase : lines = Count(Rom[EntryOf(s, k).at])
    BY <2>1, HeaderTypes
  <2>4. PortBase \in Nat \ {0}
    BY <2>1, HeaderTypes
  <2>5. k - first \in 1..(lines - 1) /\ LinesLeft(c.ntrl) = (lines - (k - first)) % PortBase
    BY <1>1, <2>2, <2>3, <2>4 DEF InEntry
  <2>6. lines - (k - first) \in 1..(PortBase - 1)
    BY <2>3, <2>4, <2>5
  <2>7. (lines - (k - first)) % PortBase = lines - (k - first)
    BY <2>4, <2>6, SmallRemainder
  <2> QED
    BY <2>5, <2>6, <2>7
<1> QED
  BY <1>1 DEF Between, AtEntry

-----------------------------------------------------------------------------
(***************************************************************************)
(* What is kept of every channel: its place in its table.                  *)
(***************************************************************************)
HdmaInv == TablesTracked /\ LineInv

(***************************************************************************)
(* Outside of a line: a step that leaves a channel's cursor alone, or      *)
(* takes the channel out of the account, keeps every channel in its table. *)
(***************************************************************************)
LEMMA OutsideLine ==
  ASSUME HdmaInv, work.kind # "line", work'.kind # "line",
         \A ch \in Channels :
           frame'[ch].kept =>
             /\ frame[ch].kept /\ frame'[ch].start = frame[ch].start
             /\ frame'[ch].lines = frame[ch].lines
             /\ SameForHdma(channels[ch], channels'[ch])
  PROVE  HdmaInv'
<1>1. LineInv'
  BY DEF LineInv
<1>2. ASSUME NEW ch \in Channels, frame'[ch].kept, frame'[ch].start.a1b = "rom"
      PROVE  Tracked(ch, channels[ch], frame[ch].start, frame[ch].lines)'
  <2>1. Tracked(ch, channels[ch], frame[ch].start, frame[ch].lines)
    BY <1>2 DEF HdmaInv, TablesTracked
  <2>2. SameSetup(channels[ch], frame[ch].start) /\ Between(channels[ch], frame[ch].start, frame[ch].lines)
    BY <2>1 DEF Tracked
  <2>3. SameSetup(channels'[ch], frame'[ch].start)
        /\ Between(channels'[ch], frame'[ch].start, frame'[ch].lines)
    BY <1>2, <2>2, SameCursor
  <2> QED
    BY <2>3 DEF Tracked
<1> QED
  BY <1>1, <1>2 DEF HdmaInv, TablesTracked

(***************************************************************************)
(* The program's writes, the bursts and a reset are such steps             *)
(* (WriteRegister, WriteHdmaEn, TriggerBegin, BurstByte, TriggerEnd,       *)
(* Reset).                                                                 *)
(***************************************************************************)
LEMMA ProgramKeepsTables ==
  ASSUME Types, HdmaInv,
         \/ \E w \in Writes : WriteRegister(w[1], w[2], w[3])
         \/ \E mask \in Masks : WriteHdmaEn(mask) \/ TriggerBegin(mask)
         \/ BurstByte \/ TriggerEnd \/ Reset
  PROVE  HdmaInv'
<1>1. \A ch \in Channels : SameForHdma(channels[ch], channels[ch])
  BY DEF SameForHdma
<1>2. ASSUME NEW w \in Writes, WriteRegister(w[1], w[2], w[3])
      PROVE  HdmaInv'
  <2> DEFINE at == w[1]
             reg == w[2]
             data == w[3]
  <2>1. at \in Channels /\ reg \in Registers
    BY ProgramAssumption
  <2>2. /\ work.kind = "none" /\ work' = work
        /\ channels' = [channels EXCEPT ![at] = Written(channels[at], reg, data)]
        /\ frame' = [frame EXCEPT ![at] =
             [frame[at] EXCEPT !.kept = frame[at].kept /\ ~HdmaUses(channels[at], reg)]]
    BY <1>2 DEF WriteRegister, Free, Types
  <2>3. ~HdmaUses(channels[at], reg) => SameForHdma(channels[at], Written(channels[at], reg, data))
    <3>1. PICK c \in ChannelState : c = channels[at]
      BY <2>1 DEF Types
    <3> HIDE DEF at, reg, data
    <3>2. ~HdmaUses(c, reg) => SameForHdma(c, Written(c, reg, data))
      BY <2>1 DEF HdmaUses, SameForHdma, Written, Registers, ChannelState
    <3> QED
      BY <3>1, <3>2
  <2> HIDE DEF at, reg, data
  <2>4. ASSUME NEW ch \in Channels, frame'[ch].kept
        PROVE  /\ frame[ch].kept /\ frame'[ch].start = frame[ch].start
               /\ frame'[ch].lines = frame[ch].lines
               /\ SameForHdma(channels[ch], channels'[ch])
    <3>1. CASE ch = at
      BY <2>1, <2>2, <2>3, <2>4, <3>1 DEF Types
    <3>2. CASE ch # at
      BY <1>1, <2>2, <2>4, <3>2 DEF Types
    <3> QED
      BY <3>1, <3>2
  <2> QED
    BY <2>2, <2>4, OutsideLine
<1>3. ASSUME NEW mask \in Masks, WriteHdmaEn(mask) \/ TriggerBegin(mask)
      PROVE  HdmaInv'
  <2>1. work.kind # "line" /\ work'.kind # "line" /\ channels' = channels /\ frame' = frame
    BY <1>3 DEF WriteHdmaEn, TriggerBegin, Free
  <2> QED
    BY <1>1, <2>1, OutsideLine
<1>4. CASE BurstByte
  <2> DEFINE at == First(work.todo)
             c == channels[at]
             d == [c EXCEPT !.das = Turn(c.das, -1), !.a1t = Turn(c.a1t, Delta(c.dmap.step))]
  <2>1. work \in Burst /\ work.todo # {} /\ at \in Channels
    BY <1>4, Kinds, FirstIsLeast DEF BurstByte, Burst
  <2>2. /\ work.kind = "burst" /\ work'.kind = "burst"
        /\ channels' = [channels EXCEPT ![at] = d]
        /\ frame' = [frame EXCEPT ![at] = [frame[at] EXCEPT !.kept = frame[at].kept /\ ~c.dmap.indirect]]
    <3>1. work'.kind = work.kind
      BY <1>4, <2>1 DEF BurstByte, Burst
    <3> QED
      BY <1>4, <2>1, <3>1 DEF BurstByte, Types
  <2>3. ~c.dmap.indirect => SameForHdma(c, d)
    <3>1. PICK old \in ChannelState : old = c
      BY <2>1 DEF Types
    <3> QED
      BY <3>1 DEF SameForHdma, ChannelState
  <2> HIDE DEF at, d
  <2>4. ASSUME NEW ch \in Channels, frame'[ch].kept
        PROVE  /\ frame[ch].kept /\ frame'[ch].start = frame[ch].start
               /\ frame'[ch].lines = frame[ch].lines
               /\ SameForHdma(channels[ch], channels'[ch])
    <3>1. CASE ch = at
      BY <2>1, <2>2, <2>3, <2>4, <3>1 DEF Types
    <3>2. CASE ch # at
      BY <1>1, <2>2, <2>4, <3>2 DEF Types
    <3> QED
      BY <3>1, <3>2
  <2> QED
    BY <2>2, <2>4, OutsideLine
<1>5. CASE TriggerEnd
  <2>1. work.kind # "line" /\ work'.kind # "line" /\ channels' = channels /\ frame' = frame
    BY <1>5 DEF TriggerEnd, Idle
  <2> QED
    BY <1>1, <2>1, OutsideLine
<1>6. CASE Reset
  <2>1. /\ work.kind # "line" /\ work'.kind # "line"
        /\ \A ch \in Channels : frame'[ch].kept = FALSE
    BY <1>6 DEF Reset, Free, NoFrame
  <2> QED
    BY <2>1, OutsideLine
<1> QED
  BY <1>2, <1>3, <1>4, <1>5, <1>6

(***************************************************************************)
(* A frame's start puts every enabled channel at the start of its table.   *)
(***************************************************************************)
LEMMA FrameStartTracked ==
  ASSUME Types, FrameInit
  PROVE  HdmaInv'
<1>1. work.kind = "none" /\ work' = work
  BY DEF FrameInit, Free
<1>2. LineInv'
  BY <1>1 DEF LineInv
<1>3. ASSUME NEW ch \in Channels, frame'[ch].kept
      PROVE  Tracked(ch, channels[ch], frame[ch].start, frame[ch].lines)'
  <2>1. frame'[ch] = [start |-> channels[ch], lines |-> 0, kept |-> ch \in hdmaen]
    BY DEF FrameInit
  <2>2. PICK s \in ChannelState : s = channels[ch]
    BY DEF Types
  <2>3. channels'[ch] = [s EXCEPT !.a2a = s.a1t, !.ntrl = 0, !.doTransfer = FALSE, !.finished = FALSE]
    BY <1>3, <2>1, <2>2 DEF FrameInit
  <2>4. SameSetup(channels'[ch], s)
    BY <2>2, <2>3 DEF SameSetup, ChannelState
  <2>5. LinesLeft(0) = 0
    <3>1. PortBase \in Nat \ {0} /\ ByteSize \div 2 = PortBase
      BY Sizes DEF PortBase
    <3> QED
      BY <3>1 DEF LinesLeft
  <2>6. channels'[ch].a2a = s.a1t /\ channels'[ch].ntrl = 0
    BY <2>2, <2>3 DEF ChannelState
  <2>7. EntryOf(s, 0) = [at |-> s.a1t, first |-> 0]
    BY EntryFollows
  <2>8. Between(channels'[ch], s, 0)
    BY <2>5, <2>6, <2>7 DEF Between, AtEntry
  <2> QED
    BY <1>1, <2>1, <2>2, <2>4, <2>8 DEF Tracked
<1> QED
  BY <1>2, <1>3 DEF HdmaInv, TablesTracked


(***************************************************************************)
(* A byte in the log of the line leaves the accounts of the other channels *)
(* as they are.                                                            *)
(***************************************************************************)
LEMMA OthersMoved ==
  ASSUME NEW ch, NEW entry \in Entry, entry.ch # ch, NEW bytes,
         work.log \in Seq(Entry), work'.log = Append(work.log, entry)
  PROVE  /\ Moving(ch, <<>>, 0) => Moving(ch, <<>>, 0)'
         /\ Moved(ch, bytes) => Moved(ch, bytes)'
<1> DEFINE log == work.log
           length == Len(log)
           Own(l) == {n \in DOMAIN l : l[n].ch = ch}
<1>1. /\ length \in Nat /\ DOMAIN log = 1..length
      /\ Len(work'.log) = length + 1 /\ DOMAIN work'.log = 1..(length + 1)
      /\ work'.log[length + 1] = entry
      /\ \A n \in 1..length : work'.log[n] = log[n]
  OBVIOUS
<1>2. Own(work'.log) = Own(log)
  <2>1. 1..(length + 1) = (1..length) \cup {length + 1}
    BY <1>1
  <2> QED
    BY <1>1, <2>1
<1>3. Moving(ch, <<>>, 0) => Moving(ch, <<>>, 0)'
  <2>1. (length - 0 + 1)..length = {} /\ ((length + 1) - 0 + 1)..(length + 1) = {} /\ 1..0 = {}
    BY <1>1
  <2> QED
    BY <1>1, <1>2, <2>1 DEF Moving
<1>4. ASSUME Moved(ch, bytes)
      PROVE  Moved(ch, bytes)'
  <2>1. PICK before \in 0..length :
          /\ Own(log) = {before + i : i \in DOMAIN bytes}
          /\ \A i \in DOMAIN bytes :
               [bank |-> log[before + i].bank, off |-> log[before + i].off,
                reg |-> log[before + i].reg] = bytes[i]
    BY <1>4 DEF Moved
  <2>2. before \in 0..(length + 1)
    BY <1>1
  <2>3. ASSUME NEW i \in DOMAIN bytes
        PROVE  work'.log[before + i] = log[before + i]
    <3>1. before + i \in Own(log)
      BY <2>1
    <3> QED
      BY <1>1, <3>1
  <2>4. Own(work'.log) = {before + i : i \in DOMAIN bytes}
    BY <1>2, <2>1
  <2>5. \A i \in DOMAIN bytes :
          LET entered == work'.log[before + i]
          IN  [bank |-> entered.bank, off |-> entered.off, reg |-> entered.reg] = bytes[i]
    BY <2>1, <2>3
  <2> QED
    BY <1>1, <2>2, <2>4, <2>5 DEF Moved
<1> QED
  BY <1>3, <1>4

(***************************************************************************)
(* A step of a line is one of the channel whose turn it is.                *)
(***************************************************************************)
LineStepOf(ch) ==
  /\ ch = First(work.todo) /\ work \in Line /\ work.todo # {}
  /\ HeaderKept \/ HeaderEnds \/ HeaderLoaded \/ HdmaByte \/ HdmaCount

(***************************************************************************)
(* It changes nothing of the other channels, logs bytes of its own only,   *)
(* and ends the channel's turn or goes on to its unit.                     *)
(***************************************************************************)
LEMMA LineStepShape ==
  ASSUME Types, LineInv, NEW ch \in Channels, LineStepOf(ch)
  PROVE  /\ work' \in Line /\ work'.serviced = work.serviced
         /\ \A d \in Channels \ {ch} : channels'[d] = channels[d]
         /\ \/ work'.log = work.log
            \/ \E entry \in Entry : entry.ch = ch /\ work'.log = Append(work.log, entry)
         /\ \/ work'.todo = work.todo /\ work'.step = "bytes"
            \/ work'.todo = work.todo \ {ch} /\ work'.step = "header" /\ work'.i = 0
<1>1. work' \in Line
  BY LineStepTypes DEF LineStepOf
<1>2. work.todo \subseteq work.serviced /\ (work.step = "header" => work.i = 0) /\ work.kind = "line"
  BY DEF LineInv, LineStepOf, Line
<1>3. CASE HeaderKept
  BY <1>1, <1>3 DEF HeaderKept, LineStepOf, Line
<1>4. CASE HeaderEnds
  BY <1>1, <1>2, <1>4 DEF HeaderEnds, InLine, LineStepOf, Line, Types
<1>5. CASE HeaderLoaded
  BY <1>1, <1>5, ZenonT(40) DEF HeaderLoaded, LineStepOf, Line, Types
<1>6. CASE HdmaByte
  <2> DEFINE c == channels[ch]
             entry == Logged(ch, IF c.dmap.indirect THEN c.dasb ELSE c.a1b,
                             IF c.dmap.indirect THEN c.das ELSE c.a2a, BReg(c, work.i))
  <2>1. /\ work' = [work EXCEPT !.i = work.i + 1, !.t = work.t + 8, !.log = Append(work.log, entry)]
        /\ work.step = "bytes"
    BY <1>6 DEF HdmaByte, InLine, LineStepOf
  <2>2. entry \in Entry /\ entry.ch = ch
    <3>1. c \in ChannelState /\ work.i \in Nat /\ work.t \in Nat
      BY DEF Types, LineStepOf, Line
    <3>2. BReg(c, work.i) \in Byte
      BY <3>1, BRegTypes DEF ChannelState
    <3> QED
      BY <3>1, <3>2 DEF Logged, Entry, ChannelState
  <2> HIDE DEF entry
  <2>3. /\ work'.serviced = work.serviced /\ work'.log = Append(work.log, entry)
        /\ work'.todo = work.todo /\ work'.step = "bytes"
    BY <2>1 DEF LineStepOf, Line
  <2>4. \A d \in Channels \ {ch} : channels'[d] = channels[d]
    BY <1>6 DEF HdmaByte, LineStepOf, Types
  <2> QED
    BY <1>1, <2>2, <2>3, <2>4
<1>7. CASE HdmaCount
  BY <1>1, <1>7 DEF HdmaCount, LineStepOf, Line, Types
<1> QED
  BY <1>3, <1>4, <1>5, <1>6, <1>7 DEF LineStepOf

(***************************************************************************)
(* The other channels stay where they are in their tables.                 *)
(***************************************************************************)
LEMMA OthersTracked ==
  ASSUME Types, LineInv, NEW ch \in Channels, LineStepOf(ch),
         NEW d \in Channels \ {ch}, NEW s \in ChannelState, NEW k \in Nat,
         Tracked(d, channels[d], s, k)
  PROVE  Tracked(d, channels[d], s, k)'
<1>1. /\ work' \in Line /\ work'.serviced = work.serviced /\ channels'[d] = channels[d]
      /\ \/ work'.log = work.log
         \/ \E entry \in Entry : entry.ch = ch /\ work'.log = Append(work.log, entry)
      /\ \/ work'.todo = work.todo /\ work'.step = "bytes"
         \/ work'.todo = work.todo \ {ch} /\ work'.step = "header"
  BY LineStepShape
<1>2. work.kind = "line" /\ work'.kind = "line" /\ ch = First(work.todo) /\ work.log \in Seq(Entry)
  BY <1>1 DEF LineStepOf, Line
<1>3. d \in work'.todo <=> d \in work.todo
  BY <1>1
<1>4. ~(d = First(work'.todo) /\ work'.step = "bytes") /\ d # First(work.todo)
  BY <1>1, <1>2
<1>5. /\ Moving(d, <<>>, 0) => Moving(d, <<>>, 0)'
      /\ Moved(d, LineOf(s, k)) => Moved(d, LineOf(s, k))'
  <2>1. CASE work'.log = work.log
    BY <2>1 DEF Moving, Moved
  <2>2. ASSUME NEW entry \in Entry, entry.ch = ch, work'.log = Append(work.log, entry)
        PROVE  /\ Moving(d, <<>>, 0) => Moving(d, <<>>, 0)'
               /\ Moved(d, LineOf(s, k)) => Moved(d, LineOf(s, k))'
    BY <1>2, <2>2, OthersMoved
  <2> QED
    BY <1>1, <2>1, <2>2
<1> QED
  BY <1>1, <1>2, <1>3, <1>4, <1>5 DEF Tracked

(***************************************************************************)
(* A byte of the ROM arrives in the bus latch.                             *)
(***************************************************************************)
LEMMA RomRead ==
  ASSUME NEW m \in Memory, NEW off \in Offset
  PROVE  ReadA(m, "rom", off) \in Memory /\ ReadA(m, "rom", off).latch = Rom[off]
<1>1. Rom[off] \in Byte
  BY ProgramAssumption
<1>2. ReadA(m, "rom", off) = [m EXCEPT !.latch = Rom[off]]
  BY DEF ReadA, InWram
<1> QED
  BY <1>1, <1>2 DEF Memory

(***************************************************************************)
(* The turn of a channel whose table is in ROM and whose registers the     *)
(* program left alone.                                                     *)
(***************************************************************************)
Turns(ch, s, k) ==
  /\ frame[ch].kept /\ frame[ch].start = s /\ frame[ch].lines = k /\ s.a1b = "rom"
  /\ LineStepOf(ch)

(***************************************************************************)
(* The channel whose turn it is, at its header (HdmaRunChannelLine): the   *)
(* counter still runs, the table ends, or the next entry is loaded.        *)
(***************************************************************************)
LEMMA OwnHeader ==
  ASSUME Types, HdmaInv, NEW ch \in Channels, NEW s \in ChannelState, NEW k \in Nat,
         Turns(ch, s, k), HeaderKept \/ HeaderEnds \/ HeaderLoaded
  PROVE  Tracked(ch, channels[ch], s, k)'
<1> DEFINE c == channels[ch]
<1>1. /\ work \in Line /\ work.todo # {} /\ work.todo \subseteq Channels /\ ch = First(work.todo)
      /\ work.kind = "line" /\ work.step = "header" /\ work.i = 0
      /\ ch \in work.todo /\ ch \in work.serviced /\ work.log \in Seq(Entry)
  <2>1. work \in Line /\ work.todo # {} /\ work.todo \subseteq Channels /\ ch = First(work.todo)
    BY DEF Turns, LineStepOf, Line
  <2>2. work.kind = "line" /\ work.step = "header"
    BY DEF HeaderKept, HeaderEnds, HeaderLoaded, InLine
  <2>3. ch \in work.todo
    BY <2>1, FirstIsLeast
  <2> QED
    BY <2>1, <2>2, <2>3 DEF HdmaInv, LineInv, Line
<1>2. c \in ChannelState /\ mem \in Memory /\ channels \in [Channels -> ChannelState]
  BY DEF Types
<1>3. SameSetup(c, s) /\ ~c.finished /\ Between(c, s, k) /\ Moving(ch, <<>>, 0)
  <2>1. Tracked(ch, c, s, k)
    BY DEF HdmaInv, TablesTracked, Turns
  <2> QED
    BY <1>1, <2>1 DEF Tracked
<1>4. c.a1b = "rom" /\ (c.dmap.indirect <=> s.dmap.indirect) /\ Unit(s) \in {1, 2, 4}
  BY <1>3, UnitTypes DEF Turns, SameSetup
<1>5. {n \in DOMAIN work.log : work.log[n].ch = ch} = {}
  BY <1>1, <1>3 DEF Moving
<1>6. work' \in Line /\ work'.kind = "line" /\ work'.serviced = work.serviced
  BY LineStepShape DEF Turns, HdmaInv, Line
<1>7. ASSUME work'.log = work.log, work'.step = "bytes", work'.todo = work.todo, work'.i = 0,
             SameSetup(channels'[ch], s), ~channels'[ch].finished, InEntry(channels'[ch], s, k, 0)
      PROVE  Tracked(ch, channels[ch], s, k)'
  <2>1. Moving(ch, LineOf(s, k), 0)'
    BY <1>1, <1>5, <1>7 DEF Moving
  <2>2. 0 <= Unit(s)
    BY <1>4
  <2> QED
    BY <1>1, <1>6, <1>7, <2>1, <2>2 DEF Tracked
<1>8. CASE HeaderKept
  <2>1. /\ work'.log = work.log /\ work'.step = "bytes" /\ work'.todo = work.todo /\ work'.i = 0
        /\ channels' = channels
    BY <1>1, <1>8 DEF HeaderKept, Line
  <2>2. LinesLeft(c.ntrl) # 0
    BY <1>1, <1>8 DEF HeaderKept
  <2>3. InEntry(c, s, k, 0)
    BY <1>2, <1>3, <2>2, HeaderAtEntry
  <2> QED
    BY <1>3, <1>7, <2>1, <2>3
<1>9. ASSUME HeaderEnds \/ HeaderLoaded
      PROVE  /\ AtEntry(c, s, k) /\ c.a2a \in Offset /\ EntryOf(s, k) = [at |-> c.a2a, first |-> k]
             /\ ReadA(mem, c.a1b, c.a2a).latch = Rom[c.a2a]
  <2>1. LinesLeft(c.ntrl) = 0
    BY <1>1, <1>9 DEF HeaderEnds, HeaderLoaded
  <2>2. AtEntry(c, s, k)
    BY <1>2, <1>3, <2>1, HeaderAtEntry
  <2>3. c.a2a \in Offset
    BY <1>2 DEF ChannelState
  <2> QED
    BY <1>2, <1>4, <2>2, <2>3, RomRead DEF AtEntry
<1>10. CASE HeaderEnds
  <2>1. Rom[c.a2a] = 0 /\ EntryOf(s, k).at = c.a2a
    BY <1>1, <1>9, <1>10 DEF HeaderEnds
  <2>2. LineOf(s, k) = <<>>
    BY <2>1 DEF LineOf
  <2>3. channels'[ch] = [c EXCEPT !.a2a = Turn(c.a2a, 1), !.finished = TRUE]
    BY <1>1, <1>2, <1>10 DEF HeaderEnds
  <2>4. channels'[ch].finished /\ SameSetup(channels'[ch], s)
    BY <1>2, <1>3, <2>3 DEF SameSetup, ChannelState
  <2>5. work'.log = work.log /\ ch \notin work'.todo
    BY <1>1, <1>10 DEF HeaderEnds, Line
  <2>6. Moved(ch, LineOf(s, k))'
    <3>1. 0 \in 0..Len(work'.log) /\ DOMAIN <<>> = {}
      BY <1>1, <2>5
    <3> QED
      BY <1>5, <2>2, <2>5, <3>1 DEF Moved
  <2> QED
    BY <1>1, <1>6, <2>4, <2>5, <2>6 DEF Tracked, Between
<1>11. CASE HeaderLoaded
  <2> DEFINE read == ReadA(mem, c.a1b, c.a2a)
             low == ReadA(read, c.a1b, Turn(c.a2a, 1))
             high == ReadA(low, c.a1b, Turn(c.a2a, 2))
             loaded == [c EXCEPT !.ntrl = read.latch, !.doTransfer = TRUE]
             d == channels'[ch]
  <2>1. /\ AtEntry(c, s, k) /\ c.a2a \in Offset /\ read.latch = Rom[c.a2a] /\ read.latch # 0
    BY <1>1, <1>9, <1>11 DEF HeaderLoaded
  <2>2. low.latch = Rom[Turn(c.a2a, 1)] /\ high.latch = Rom[Turn(c.a2a, 2)]
    <3>1. Turn(c.a2a, 1) \in Offset /\ Turn(c.a2a, 2) \in Offset
      BY <2>1, TurnInBank
    <3>2. read \in Memory
      BY <1>2, <1>4, <2>1, RomRead
    <3>3. low \in Memory /\ low.latch = Rom[Turn(c.a2a, 1)]
      <4> HIDE DEF read
      <4> QED
        BY <1>4, <3>1, <3>2, RomRead
    <3>4. high.latch = Rom[Turn(c.a2a, 2)]
      <4> HIDE DEF low
      <4> QED
        BY <1>4, <3>1, <3>3, RomRead
    <3> QED
      BY <3>3, <3>4
  <2>3. /\ work'.log = work.log /\ work'.step = "bytes" /\ work'.todo = work.todo /\ work'.i = 0
    BY <1>1, <1>11 DEF HeaderLoaded, Line
  <2>4. d = IF c.dmap.indirect
            THEN [loaded EXCEPT !.das = low.latch + ByteSize * high.latch, !.a2a = Turn(loaded.a2a, 3)]
            ELSE [loaded EXCEPT !.a2a = Turn(loaded.a2a, 1)]
    BY <1>1, <1>2, <1>11 DEF HeaderLoaded
  <2>5. d \in ChannelState
    BY LineStepTypes DEF Turns, LineStepOf
  <2>6. loaded.a2a = c.a2a
    BY <1>2 DEF ChannelState
  <2> HIDE DEF low, high, read
  <2>7. /\ d.ntrl = Rom[c.a2a] /\ d.doTransfer = TRUE
        /\ d.a2a = Turn(c.a2a, IF s.dmap.indirect THEN 3 ELSE 1)
        /\ s.dmap.indirect => d.das = Rom[Turn(c.a2a, 1)] + ByteSize * Rom[Turn(c.a2a, 2)]
        /\ d.finished = c.finished /\ SameSetup(d, s)
    BY <1>2, <1>3, <1>4, <2>1, <2>2, <2>4, <2>6 DEF ChannelState, SameSetup
  <2>8. InEntry(d, s, k, 0)
    BY <1>2, <2>1, <2>5, <2>7, LoadedInEntry
  <2> QED
    BY <1>3, <1>7, <2>3, <2>7, <2>8
<1> QED
  BY <1>8, <1>10, <1>11

(***************************************************************************)
(* A byte logged for the channel makes its account one byte longer.        *)
(***************************************************************************)
LEMMA OneMoreMoved ==
  ASSUME NEW ch, NEW entry \in Entry, NEW line, NEW i \in Nat,
         work.log \in Seq(Entry), work'.log = Append(work.log, entry),
         Moving(ch, line, i), entry.ch = ch, i + 1 \in DOMAIN line,
         [bank |-> entry.bank, off |-> entry.off, reg |-> entry.reg] = line[i + 1]
  PROVE  Moving(ch, line, i + 1)'
<1> DEFINE log == work.log
           longer == work'.log
<1>1. PICK length \in Nat : length = Len(log)
  OBVIOUS
<1>2. /\ DOMAIN log = 1..length /\ Len(longer) = length + 1 /\ DOMAIN longer = 1..(length + 1)
      /\ longer[length + 1] = entry /\ \A n \in 1..length : longer[n] = log[n]
  BY <1>1
<1>3. /\ i \in 0..length
      /\ {n \in 1..length : log[n].ch = ch} = (length - i + 1)..length
      /\ \A n \in 1..i :
           /\ n \in DOMAIN line
           /\ [bank |-> log[length - i + n].bank, off |-> log[length - i + n].off,
               reg |-> log[length - i + n].reg] = line[n]
  BY <1>1, <1>2 DEF Moving
<1> HIDE DEF log, longer
<1>4. /\ i + 1 \in 0..(length + 1) /\ (length + 1) - (i + 1) = length - i
      /\ (length + 1) - (i + 1) + 1 = length - i + 1
  BY <1>3
<1>5. {n \in 1..(length + 1) : longer[n].ch = ch} = (length - i + 1)..(length + 1)
  <2>1. 1..(length + 1) = (1..length) \cup {length + 1}
    OBVIOUS
  <2>2. (length - i + 1)..(length + 1) = ((length - i + 1)..length) \cup {length + 1}
    <3>1. i \in 0..length
      BY <1>3
    <3> QED
      BY <3>1
  <2>3. {n \in 1..(length + 1) : longer[n].ch = ch} = {n \in 1..length : log[n].ch = ch} \cup {length + 1}
    BY <1>2, <2>1
  <2> QED
    BY <1>3, <2>2, <2>3
<1>6. ASSUME NEW n \in 1..(i + 1)
      PROVE  /\ n \in DOMAIN line
             /\ [bank |-> longer[length - i + n].bank, off |-> longer[length - i + n].off,
                 reg |-> longer[length - i + n].reg] = line[n]
  <2>1. CASE n \in 1..i
    <3>1. length - i + n \in 1..length
      BY <1>3, <2>1
    <3> QED
      BY <1>2, <1>3, <2>1, <3>1
  <2>2. CASE n = i + 1
    <3>1. length - i + n = length + 1
      BY <1>3, <2>2
    <3> QED
      BY <1>2, <2>2, <3>1
  <2> QED
    BY <2>1, <2>2
<1> QED
  BY <1>2, <1>4, <1>5, <1>6 DEF Moving, longer

(***************************************************************************)
(* When the account is as long as the line of the table, the channel has   *)
(* moved the line.                                                         *)
(***************************************************************************)
LEMMA AllMoved ==
  ASSUME NEW ch, NEW line, NEW i \in Nat, work.log \in Seq(Entry),
         Moving(ch, line, i), DOMAIN line = 1..i
  PROVE  Moved(ch, line)
<1>1. PICK length \in Nat : length = Len(work.log)
  OBVIOUS
<1>2. /\ i \in 0..length
      /\ {n \in DOMAIN work.log : work.log[n].ch = ch} = (length - i + 1)..length
      /\ \A n \in 1..i : [bank |-> work.log[length - i + n].bank, off |-> work.log[length - i + n].off,
                          reg |-> work.log[length - i + n].reg] = line[n]
  BY <1>1 DEF Moving
<1>3. length - i \in 0..length
  BY <1>2
<1>4. (length - i + 1)..length = {(length - i) + n : n \in 1..i}
  <2>1. ASSUME NEW m \in (length - i + 1)..length
        PROVE  m \in {(length - i) + n : n \in 1..i}
    <3>1. m - (length - i) \in 1..i /\ (length - i) + (m - (length - i)) = m
      BY <1>2
    <3> QED
      BY <3>1
  <2>2. ASSUME NEW n \in 1..i
        PROVE  (length - i) + n \in (length - i + 1)..length
    BY <1>2
  <2> QED
    BY <2>1, <2>2
<1> QED
  BY <1>1, <1>2, <1>3, <1>4 DEF Moved

(***************************************************************************)
(* The channel whose turn it is, in its transfer unit: one more byte, or   *)
(* the counter's step at the end of the line.                              *)
(***************************************************************************)
LEMMA OwnUnit ==
  ASSUME Types, HdmaInv, NEW ch \in Channels, NEW s \in ChannelState, NEW k \in Nat,
         Turns(ch, s, k), HdmaByte \/ HdmaCount
  PROVE  Tracked(ch, channels[ch], s, k)'
<1> DEFINE c == channels[ch]
           d == channels'[ch]
<1>1. PICK i \in Nat : i = work.i
  BY DEF Turns, LineStepOf, Line
<1>2. /\ work \in Line /\ work.todo # {} /\ work.todo \subseteq Channels /\ ch = First(work.todo)
      /\ work.kind = "line" /\ work.step = "bytes"
      /\ ch \in work.todo /\ ch \in work.serviced /\ work.log \in Seq(Entry)
  <2>1. work \in Line /\ work.todo # {} /\ work.todo \subseteq Channels /\ ch = First(work.todo)
    BY DEF Turns, LineStepOf, Line
  <2>2. work.kind = "line" /\ work.step = "bytes"
    BY DEF HdmaByte, HdmaCount, InLine
  <2>3. ch \in work.todo
    BY <2>1, FirstIsLeast
  <2> QED
    BY <2>1, <2>2, <2>3 DEF HdmaInv, LineInv, Line
<1>3. c \in ChannelState /\ d \in ChannelState
  BY LineStepTypes DEF Types, Turns, LineStepOf
<1>4. /\ SameSetup(c, s) /\ ~c.finished /\ InEntry(c, s, k, i) /\ Moving(ch, LineOf(s, k), i)
      /\ i <= Unit(s) /\ (~c.doTransfer => i = 0)
  <2>1. Tracked(ch, c, s, k)
    BY DEF HdmaInv, TablesTracked, Turns
  <2> QED
    BY <1>1, <1>2, <2>1 DEF Tracked
<1>5. /\ c.doTransfer => DOMAIN LineOf(s, k) = 1..Unit(s)
      /\ ~c.doTransfer => LineOf(s, k) = <<>>
  <2>1. InEntry(c, s, k, i)
    BY <1>4
  <2> HIDE DEF c
  <2> QED
    BY <1>3, <2>1, LineOfEntry, ZenonT(40)
<1>6. /\ c.dmap = s.dmap /\ c.bbad = s.bbad /\ c.a1b = s.a1b
      /\ (s.dmap.indirect => c.dasb = s.dasb) /\ Unit(s) \in {1, 2, 4}
      /\ Unit(s) = Len(Pattern(c.dmap.mode))
  BY <1>4, UnitTypes DEF SameSetup, Unit
<1>7. work' \in Line /\ work'.kind = "line" /\ work'.serviced = work.serviced
  BY LineStepShape DEF Turns, HdmaInv, Line
<1>8. CASE HdmaByte
  <2> DEFINE bank == IF c.dmap.indirect THEN c.dasb ELSE c.a1b
             off == IF c.dmap.indirect THEN c.das ELSE c.a2a
             entry == Logged(ch, bank, off, BReg(c, i))
             line == LineOf(s, k)
  <2>1. /\ c.doTransfer /\ i < Unit(s)
        /\ work' = [work EXCEPT !.i = i + 1, !.t = work.t + 8, !.log = Append(work.log, entry)]
        /\ d = IF c.dmap.indirect THEN [c EXCEPT !.das = Turn(c.das, 1)]
               ELSE [c EXCEPT !.a2a = Turn(c.a2a, 1)]
    BY <1>1, <1>2, <1>6, <1>8 DEF HdmaByte, Types
  <2>2. /\ d.ntrl = c.ntrl /\ d.doTransfer = c.doTransfer /\ d.finished = c.finished
        /\ IF s.dmap.indirect THEN d.das = Turn(c.das, 1) /\ d.a2a = c.a2a ELSE d.a2a = Turn(c.a2a, 1)
        /\ SameSetup(d, s)
    BY <1>3, <1>4, <1>6, <2>1 DEF ChannelState, SameSetup
  <2>3. InEntry(d, s, k, i + 1)
    BY <1>1, <1>2, <1>3, <1>4, <2>1, <2>2, ByteInEntry
  <2>4. /\ entry.ch = ch
        /\ [bank |-> entry.bank, off |-> entry.off, reg |-> entry.reg] = line[i + 1]
        /\ i + 1 \in DOMAIN line
    <3>1. BReg(c, i) = BReg(s, i)
      BY <1>6 DEF BReg
    <3>2. DOMAIN line = 1..Unit(s)
      BY <1>5, <2>1
    <3>3. line[i + 1] = [bank |-> IF s.dmap.indirect THEN s.dasb ELSE s.a1b,
                         off |-> IF s.dmap.indirect THEN c.das ELSE c.a2a, reg |-> BReg(s, i)]
      BY <1>1, <1>2, <1>3, <1>4, <2>1, LineOfEntry
    <3>4. i + 1 \in 1..Unit(s)
      BY <1>2, <1>6, <2>1
    <3> HIDE DEF line
    <3> QED
      BY <1>6, <3>1, <3>2, <3>3, <3>4 DEF Logged
  <2> HIDE DEF entry, line
  <2>5. /\ work'.i = i + 1 /\ work'.todo = work.todo /\ work'.step = "bytes"
        /\ work'.log = Append(work.log, entry)
    BY <1>2, <2>1 DEF Line
  <2>6. entry \in Entry
    <3>1. BReg(c, i) \in Byte
      BY <1>2, <1>3, BRegTypes DEF ChannelState
    <3> QED
      BY <1>1, <1>2, <1>3, <3>1 DEF entry, Logged, Entry, ChannelState, Line
  <2>7. Moving(ch, LineOf(s, k), i + 1)'
    BY <1>2, <1>4, <2>4, <2>5, <2>6, OneMoreMoved DEF line
  <2>8. i + 1 <= Unit(s)
    BY <1>2, <1>6, <2>1
  <2> QED
    BY <1>2, <1>4, <1>7, <2>1, <2>2, <2>3, <2>5, <2>7, <2>8 DEF Tracked
<1>9. CASE HdmaCount
  <2> DEFINE left == (LinesLeft(c.ntrl) - 1) % (ByteSize \div 2)
  <2>1. i = IF c.doTransfer THEN Unit(s) ELSE 0
    BY <1>1, <1>2, <1>4, <1>6, <1>9 DEF HdmaCount
  <2>2. /\ work'.log = work.log /\ work'.todo = work.todo \ {ch}
    BY <1>2, <1>9 DEF HdmaCount, Line
  <2>3. ByteSize \div 2 = PortBase
    BY <1>3, HeaderTypes DEF ChannelState
  <2>4. d = [c EXCEPT !.ntrl = left + (IF Repeat(c.ntrl) THEN ByteSize \div 2 ELSE 0),
                      !.doTransfer = Repeat(c.ntrl) \/ left = 0]
    BY <1>2, <1>9 DEF HdmaCount, Types
  <2>5. left = (LinesLeft(c.ntrl) - 1) % PortBase
    BY <2>3
  <2> HIDE DEF left
  <2>6. /\ d.ntrl = left + (IF Repeat(c.ntrl) THEN PortBase ELSE 0)
        /\ d.doTransfer <=> Repeat(c.ntrl) \/ left = 0
        /\ d.a2a = c.a2a /\ d.das = c.das
        /\ SameSetup(d, s)
    BY <1>3, <1>4, <2>3, <2>4 DEF ChannelState, SameSetup
  <2>7. Between(d, s, k + 1)
    BY <1>1, <1>2, <1>3, <1>4, <2>1, <2>5, <2>6, CountedBetween
  <2>8. Moved(ch, LineOf(s, k))
    <3>1. DOMAIN LineOf(s, k) = 1..i
      <4>1. DOMAIN <<>> = {} /\ 1..0 = {}
        OBVIOUS
      <4> QED
        BY <1>5, <2>1, <4>1
    <3> QED
      BY <1>2, <1>4, <3>1, AllMoved
  <2>9. Moved(ch, LineOf(s, k))'
    BY <2>2, <2>8 DEF Moved
  <2> QED
    BY <1>2, <1>7, <2>2, <2>6, <2>7, <2>9 DEF Tracked
<1> QED
  BY <1>8, <1>9

(***************************************************************************)
(* Every step of a line keeps every channel in its table.                  *)
(***************************************************************************)
LEMMA LineStepTracked ==
  ASSUME Types, HdmaInv, LineStep
  PROVE  HdmaInv'
<1>1. PICK ch \in Channels : LineStepOf(ch)
  <2>1. work \in Line /\ work.todo # {} /\ work.todo \subseteq Channels
    BY Kinds DEF LineStep, HeaderKept, HeaderEnds, HeaderLoaded, HdmaByte, HdmaCount, InLine, Line
  <2>2. First(work.todo) \in Channels
    BY <2>1, FirstIsLeast
  <2> QED
    BY <2>1, <2>2 DEF LineStep, LineStepOf
<1>2. frame' = frame
  BY DEF LineStep
<1>3. LineInv'
  <2>1. /\ work'.serviced = work.serviced
        /\ \/ work'.todo = work.todo /\ work'.step = "bytes"
           \/ work'.todo = work.todo \ {ch} /\ work'.step = "header" /\ work'.i = 0
    BY <1>1, LineStepShape DEF HdmaInv
  <2>2. work.todo \subseteq work.serviced
    BY <1>1 DEF HdmaInv, LineInv, LineStepOf, Line
  <2> QED
    BY <2>1, <2>2 DEF LineInv
<1>4. ASSUME NEW d \in Channels, frame'[d].kept, frame'[d].start.a1b = "rom"
      PROVE  Tracked(d, channels[d], frame[d].start, frame[d].lines)'
  <2>1. PICK s \in ChannelState, k \in Nat : s = frame[d].start /\ k = frame[d].lines
    BY DEF Types
  <2>2. Tracked(d, channels[d], s, k)
    BY <1>2, <1>4, <2>1 DEF HdmaInv, TablesTracked
  <2>3. Tracked(d, channels[d], s, k)'
    <3>1. CASE d = ch
      <4>1. Turns(d, s, k)
        BY <1>1, <1>2, <1>4, <2>1, <3>1 DEF Turns
      <4> QED
        BY <4>1, OwnHeader, OwnUnit DEF LineStep
    <3>2. CASE d # ch
      BY <1>1, <2>2, <3>2, OthersTracked DEF HdmaInv
    <3> QED
      BY <3>1, <3>2
  <2> QED
    BY <1>2, <2>1, <2>3
<1> QED
  BY <1>3, <1>4 DEF HdmaInv, TablesTracked

(***************************************************************************)
(* The start of a line: no channel has moved a byte, and none that reached *)
(* the end of its table is served.                                         *)
(***************************************************************************)
LEMMA LineBeginTracked ==
  ASSUME Types, HdmaInv, LineBegin
  PROVE  HdmaInv'
<1>1. /\ work.kind = "none" /\ channels' = channels /\ frame' = frame
      /\ work'.kind = "line" /\ work'.todo = Serviced /\ work'.serviced = Serviced
      /\ work'.step = "header" /\ work'.i = 0 /\ work'.log = <<>>
  BY DEF LineBegin, Free
<1>2. LineInv'
  BY <1>1 DEF LineInv
<1>3. ASSUME NEW ch \in Channels, frame'[ch].kept, frame'[ch].start.a1b = "rom"
      PROVE  Tracked(ch, channels[ch], frame[ch].start, frame[ch].lines)'
  <2>1. /\ SameSetup(channels[ch], frame[ch].start)
        /\ Between(channels[ch], frame[ch].start, frame[ch].lines)
    BY <1>1, <1>3 DEF HdmaInv, TablesTracked, Tracked
  <2>2. ch \in Serviced => ~channels[ch].finished
    BY DEF Serviced
  <2>3. Moving(ch, <<>>, 0)'
    <3>1. Len(<<>>) = 0 /\ DOMAIN <<>> = {} /\ 1..0 = {} /\ 0 - 0 + 1 = 1 /\ 0 \in 0..0
      OBVIOUS
    <3> QED
      BY <1>1, <3>1 DEF Moving
  <2> QED
    BY <1>1, <2>1, <2>2, <2>3 DEF Tracked
<1> QED
  BY <1>2, <1>3 DEF HdmaInv, TablesTracked

(***************************************************************************)
(* The end of a line: the channels it served are one line further in their *)
(* tables.                                                                 *)
(***************************************************************************)
LEMMA LineEndTracked ==
  ASSUME Types, HdmaInv, LineEnd
  PROVE  HdmaInv'
<1>1. /\ work.kind = "line" /\ work.todo = {} /\ channels' = channels /\ work'.kind = "none"
      /\ \A ch \in Channels :
           /\ frame'[ch].start = frame[ch].start /\ frame'[ch].kept = frame[ch].kept
           /\ frame'[ch].lines = IF ch \in work.serviced THEN frame[ch].lines + 1 ELSE frame[ch].lines
  BY DEF LineEnd, Idle, Types
<1>2. LineInv'
  BY <1>1 DEF LineInv
<1>3. ASSUME NEW ch \in Channels, frame'[ch].kept, frame'[ch].start.a1b = "rom"
      PROVE  Tracked(ch, channels[ch], frame[ch].start, frame[ch].lines)'
  <2>1. Tracked(ch, channels[ch], frame[ch].start, frame[ch].lines)
    BY <1>1, <1>3 DEF HdmaInv, TablesTracked
  <2>2. /\ SameSetup(channels[ch], frame[ch].start)
        /\ Between(channels[ch], frame[ch].start, frame'[ch].lines)
    BY <1>1, <2>1 DEF Tracked
  <2> QED
    BY <1>1, <2>2 DEF Tracked
<1> QED
  BY <1>2, <1>3 DEF HdmaInv, TablesTracked

(***************************************************************************)
(* Every step keeps each channel at its place in its table.                *)
(***************************************************************************)
LEMMA StepKeepsTables == Types /\ HdmaInv /\ [Next]_vars => HdmaInv'
<1>1. ASSUME Types, HdmaInv, UNCHANGED vars
      PROVE  HdmaInv'
  <2>1. work' = work /\ channels' = channels /\ frame' = frame
    BY <1>1 DEF vars
  <2>2. LineInv'
    BY <1>1, <2>1 DEF HdmaInv, LineInv
  <2>3. TablesTracked'
    <3>1. ASSUME NEW ch \in Channels, NEW line
          PROVE  (Moved(ch, line)' <=> Moved(ch, line)) /\ \A i : Moving(ch, line, i)' <=> Moving(ch, line, i)
      BY <2>1 DEF Moved, Moving
    <3>2. ASSUME NEW ch \in Channels, NEW s, NEW k, Tracked(ch, channels[ch], s, k)
          PROVE  Tracked(ch, channels[ch], s, k)'
      BY <2>1, <3>1, <3>2 DEF Tracked
    <3> QED
      BY <1>1, <2>1, <3>2 DEF HdmaInv, TablesTracked
  <2> QED
    BY <2>2, <2>3 DEF HdmaInv
<1>2. Types /\ HdmaInv /\ Next => HdmaInv'
  BY ProgramKeepsTables, FrameStartTracked, LineStepTracked, LineBeginTracked, LineEndTracked DEF Next
<1> QED
  BY <1>1, <1>2

(***************************************************************************)
(* A channel's place in its table is an invariant.                         *)
(***************************************************************************)
THEOREM HdmaInvariance == Spec => [](Types /\ HdmaInv)
<1>1. Init => HdmaInv
  <2>1. Init => work.kind = "none" /\ \A ch \in Channels : frame[ch].kept = FALSE
    BY DEF Init, ResetState, Idle, NoFrame
  <2> QED
    BY <2>1 DEF HdmaInv, LineInv, TablesTracked
<1> QED
  BY <1>1, InitTypes, StepKeepsTypes, StepKeepsTables, PTL DEF Spec

(***************************************************************************)
(* On every line a channel whose registers the program left alone moves    *)
(* exactly what its table says for that line (OnHdmaSignal,                *)
(* HdmaRunChannelLine).                                                    *)
(***************************************************************************)
THEOREM HdmaTableFollowed == Spec => []HdmaFollowsTable
<1>1. Types /\ HdmaInv => HdmaFollowsTable
  <2> SUFFICES ASSUME Types, HdmaInv, Done("line"), NEW ch \in work.serviced,
                      frame[ch].kept, frame[ch].start.a1b = "rom"
               PROVE  Moved(ch, LineOf(frame[ch].start, frame[ch].lines))
    BY DEF HdmaFollowsTable
  <2>1. work.kind = "line" /\ work.todo = {} /\ ch \in Channels
    BY Kinds DEF Done, Line
  <2>2. Tracked(ch, channels[ch], frame[ch].start, frame[ch].lines)
    BY <2>1 DEF HdmaInv, TablesTracked
  <2> QED
    BY <2>1, <2>2 DEF Tracked
<1> QED
  BY <1>1, HdmaInvariance, PTL
=============================================================================
