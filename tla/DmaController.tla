--------------------------- MODULE DmaController ---------------------------
(***************************************************************************)
(* The DMA unit of hw/5a22/dma_controller.cpp: eight channels of eleven    *)
(* registers, the burst a write to $420B starts, and the HDMA that the     *)
(* HdmaFire signal runs at the start of a frame and on every visible line. *)
(* The bus it drives (memory/systembus.cpp, memory/wram.cpp) is reduced to *)
(* ROM, work RAM, unmapped space, the WRAM port and one kind of device.    *)
(*                                                                         *)
(* A byte has ByteSize values instead of 256, so that the wraps of DAS,    *)
(* A1T, A2A, BBAD and WMADD are within TLC's reach; every mask of the code *)
(* becomes the same mask of the smaller byte.                              *)
(*                                                                         *)
(* A burst and the work of one line run to their end inside one call.      *)
(* They are modelled a bus transfer at a time, and nothing else is enabled *)
(* meanwhile.  When a line's event is handled late is Machine's subject;   *)
(* here now counts the bus time the unit itself spends.                    *)
(***************************************************************************)
EXTENDS Integers, FiniteSets, Sequences

CONSTANTS
  ByteSize,      \* values of a byte, 256 in the code
  Channels,      \* the channels, 0..7 in the code
  RingCapacity,  \* kTriggerRingCapacity, 32
  LastVisibleV,  \* kHdmaLastVisibleV, 224
  Rom,           \* the byte at every offset of the ROM's bank
  DeviceByte,    \* what a register of the B-bus drives when it is read
  Setups,        \* register contents a program may have prepared
  Writes,        \* <<channel, register, byte>>: writes it does afterwards
  Masks,         \* values it writes to $420B and to $420C
  Bounds         \* bounds: how many writes, bursts and frames a behaviour has

Byte == 0..(ByteSize - 1)
Offset == 0..(ByteSize * ByteSize - 1)
Cells == 0..(2 * ByteSize * ByteSize - 1)
Banks == {"low", "rom", "wram0", "wram1", "open"}
Dmap == [bToA : BOOLEAN, indirect : BOOLEAN, step : 0..3, mode : 0..7]
Registers == {"dmap", "bbad", "a1tl", "a1th", "a1b", "dasl", "dash", "dasb",
              "a2al", "a2ah", "ntrl"}

ChannelState ==
  [dmap : Dmap, bbad : Byte, a1t : Offset, a1b : Banks, das : Offset,
   dasb : Banks, a2a : Offset, ntrl : Byte,
   doTransfer : BOOLEAN, finished : BOOLEAN]

RegisterValues(reg) ==
  CASE reg = "dmap" -> Dmap
    [] reg \in {"a1b", "dasb"} -> Banks
    [] OTHER -> Byte

ASSUME ByteAssumption == ByteSize \in Nat /\ ByteSize >= 8 /\ ByteSize % 8 = 0
ASSUME RingAssumption == RingCapacity \in Nat \ {0}
ASSUME ProgramAssumption ==
  /\ Channels \subseteq Nat /\ IsFiniteSet(Channels)
  /\ LastVisibleV \in Nat
  /\ Masks \subseteq SUBSET Channels
  /\ Rom \in [Offset -> Byte]
  /\ DeviceByte \in [Byte -> Byte]
  /\ Setups \subseteq [Channels -> ChannelState]
  /\ \A w \in Writes : w[1] \in Channels /\ w[2] \in Registers /\ w[3] \in RegisterValues(w[2])
  /\ Bounds \subseteq [writes : Nat, bursts : Nat, frames : Nat]

VARIABLES
  channels,   \* channels_
  ring,       \* trigger_ring_
  ringCount,  \* trigger_write_count_
  phase,      \* hdma_phase_
  nextV,      \* hdma_next_v_
  active,     \* hdma_active_mask_
  hdmaen,     \* CpuMmio's $420C
  mem,        \* WRAM's cells and WMADD, the bus latch
  now,        \* bus time, in master cycles
  work,       \* the burst or line in progress and what it did so far
  budget,     \* what is left of the bounds
  frame,      \* history: per channel, the state at HdmaFire's frame start,
              \* the lines run since, and whether the program meddled
  triggers    \* history: every burst's record, oldest first

vars == <<channels, ring, ringCount, phase, nextV, active, hdmaen, mem, now,
          work, budget, frame, triggers>>
hdmaVars == <<phase, nextV, active, hdmaen>>

-----------------------------------------------------------------------------
(* The bus, as far as DMA reaches it. *)

PortBase == ByteSize \div 2
WramPorts == PortBase..(PortBase + 3)       \* $2180-$2183
LowRam == (ByteSize * ByteSize) \div 8      \* pages $00-$1F: 8 of 64 KiB

InWram(bank, off) == bank \in {"wram0", "wram1"} \/ (bank = "low" /\ off < LowRam)
Cell(bank, off) == IF bank = "wram1" THEN ByteSize * ByteSize + off ELSE off
Bumped(address) == (address + 1) % (2 * ByteSize * ByteSize)

(* Each read leaves what it delivers in the latch; unmapped space and the  *)
(* write-only ports deliver the latch as it was.                           *)
ReadA(m, bank, off) ==
  IF InWram(bank, off) THEN [m EXCEPT !.latch = m.wram[Cell(bank, off)]]
  ELSE IF bank = "rom" THEN [m EXCEPT !.latch = Rom[off]]
  ELSE m

WriteA(m, bank, off, data) ==
  IF InWram(bank, off) THEN [m EXCEPT !.wram[Cell(bank, off)] = data, !.latch = data]
  ELSE IF bank = "rom" THEN [m EXCEPT !.latch = data]
  ELSE m

ReadB(m, reg) ==
  IF reg = PortBase THEN [m EXCEPT !.latch = m.wram[m.wmadd], !.wmadd = Bumped(@)]
  ELSE IF reg \in WramPorts THEN m
  ELSE [m EXCEPT !.latch = DeviceByte[reg]]

(* WMADD's bytes; one bit of the third is kept. *)
Wmadd(address, reg, data) ==
  LET low == address % ByteSize
      middle == (address \div ByteSize) % ByteSize
      high == address \div (ByteSize * ByteSize)
  IN  CASE reg = PortBase + 1 -> address - low + data
        [] reg = PortBase + 2 -> address + (data - middle) * ByteSize
        [] reg = PortBase + 3 -> address + ((data % 2) - high) * ByteSize * ByteSize

WriteB(m, reg, data) ==
  IF reg = PortBase
  THEN [m EXCEPT !.wram[m.wmadd] = data, !.wmadd = Bumped(@), !.latch = data]
  ELSE IF reg \in WramPorts THEN [m EXCEPT !.wmadd = Wmadd(@, reg, data), !.latch = data]
  ELSE [m EXCEPT !.latch = data]

(* TransferByte.  Work RAM cannot serve both buses: towards the port the   *)
(* transfer does nothing, from the port it stores what the latch holds.    *)
Conflict(bank, off, reg) == InWram(bank, off) /\ reg \in WramPorts

(* Mutant: the conflict only stops the write. *)
TransferByteReadsPort(m, bank, off, reg, bToA) ==
  LET read == IF bToA THEN ReadB(m, reg) ELSE ReadA(m, bank, off)
  IN  IF bToA THEN WriteA(read, bank, off, read.latch)
      ELSE IF Conflict(bank, off, reg) THEN m ELSE WriteB(read, reg, read.latch)

TransferByte(m, bank, off, reg, bToA) ==
  LET blocked == Conflict(bank, off, reg)
      read == IF blocked THEN m
              ELSE IF bToA THEN ReadB(m, reg) ELSE ReadA(m, bank, off)
  IN  IF bToA THEN WriteA(read, bank, off, read.latch)
      ELSE IF blocked THEN m ELSE WriteB(read, reg, read.latch)

Pattern(mode) ==
  CASE mode = 0 -> <<0>>
    [] mode = 1 -> <<0, 1>>
    [] mode \in {2, 6} -> <<0, 0>>
    [] mode \in {3, 7} -> <<0, 0, 1, 1>>
    [] mode = 4 -> <<0, 1, 2, 3>>
    [] mode = 5 -> <<0, 1, 0, 1>>

BReg(c, i) ==
  LET pattern == Pattern(c.dmap.mode)
  IN  (c.bbad + pattern[(i % Len(pattern)) + 1]) % ByteSize

Turn(off, by) == (off + by) % (ByteSize * ByteSize)
-----------------------------------------------------------------------------
Idle == [kind |-> "none"]

ResetChannel ==
  [dmap |-> [bToA |-> FALSE, indirect |-> FALSE, step |-> 0, mode |-> 0],
   bbad |-> 0, a1t |-> 0, a1b |-> "low", das |-> 0, dasb |-> "low",
   a2a |-> 0, ntrl |-> 0, doTransfer |-> FALSE, finished |-> FALSE]

NoFrame == [start |-> ResetChannel, lines |-> 0, kept |-> FALSE]
NoRecord == [start |-> 0, end |-> 0, mask |-> {}, regs |-> <<>>]

ResetState ==
  /\ ring = [i \in 0..(RingCapacity - 1) |-> NoRecord] /\ ringCount = 0
  /\ phase = "init" /\ nextV = 0 /\ active = {}
  /\ frame = [c \in Channels |-> NoFrame] /\ triggers = <<>>

(* A program has written the channels' registers and HDMAEN. *)
Init ==
  /\ ResetState
  /\ channels \in Setups
  /\ hdmaen = Channels
  /\ mem = [wram |-> [i \in Cells |-> i % ByteSize], wmadd |-> 0,
            latch |-> ByteSize - 1]
  /\ now = 0 /\ work = Idle
  /\ budget \in Bounds

Free == work.kind = "none"

(* The half of a 16-bit register a write replaces. *)
LowHalf(value, data) == value - (value % ByteSize) + data
HighHalf(value, data) == (value % ByteSize) + data * ByteSize

Written(c, reg, data) ==
  CASE reg = "a1tl" -> [c EXCEPT !.a1t = LowHalf(@, data)]
    [] reg = "a1th" -> [c EXCEPT !.a1t = HighHalf(@, data)]
    [] reg = "dasl" -> [c EXCEPT !.das = LowHalf(@, data)]
    [] reg = "dash" -> [c EXCEPT !.das = HighHalf(@, data)]
    [] reg = "a2al" -> [c EXCEPT !.a2a = LowHalf(@, data)]
    [] reg = "a2ah" -> [c EXCEPT !.a2a = HighHalf(@, data)]
    [] OTHER -> [c EXCEPT ![reg] = data]

(* The registers a channel's HDMA uses between two frame starts. *)
HdmaUses(c, reg) ==
  \/ reg \in {"dmap", "bbad", "a1b", "a2al", "a2ah", "ntrl"}
  \/ c.dmap.indirect /\ reg \in {"dasl", "dash", "dasb"}

WriteRegister(ch, reg, data) ==
  /\ Free /\ budget.writes > 0
  /\ channels' = [channels EXCEPT ![ch] = Written(@, reg, data)]
  /\ frame' = [frame EXCEPT ![ch].kept = @ /\ ~HdmaUses(channels[ch], reg)]
  /\ budget' = [budget EXCEPT !.writes = @ - 1]
  /\ UNCHANGED <<ring, ringCount, hdmaVars, mem, now, work, triggers>>

(* $420C: the unit reads it when it needs it. *)
WriteHdmaEn(mask) ==
  /\ Free /\ budget.writes > 0
  /\ hdmaen' = mask
  /\ budget' = [budget EXCEPT !.writes = @ - 1]
  /\ UNCHANGED <<channels, ring, ringCount, phase, nextV, active, mem, now, work,
                 frame, triggers>>
-----------------------------------------------------------------------------
(* General-purpose DMA: Trigger, from CpuMmio's write to $420B. *)

First(chs) == CHOOSE c \in chs : \A d \in chs : c <= d
BytesOf(c) == IF c.das = 0 THEN ByteSize * ByteSize ELSE c.das

RecordOf(mask) ==
  [start |-> now, end |-> now, mask |-> mask,
   regs |-> [c \in mask |-> [dmap |-> channels[c].dmap, bbad |-> channels[c].bbad,
                             a1b |-> channels[c].a1b, a1t |-> channels[c].a1t,
                             das |-> channels[c].das, bytes |-> BytesOf(channels[c])]]]

TriggerBegin(mask) ==
  /\ Free /\ budget.bursts > 0 /\ mask # {}
  /\ work' = [kind |-> "burst", todo |-> mask, i |-> 0, t |-> now + 8,
              record |-> RecordOf(mask), log |-> <<>>, before |-> mem]
  /\ budget' = [budget EXCEPT !.bursts = @ - 1]
  /\ UNCHANGED <<channels, ring, ringCount, hdmaVars, mem, now, frame, triggers>>

Logged(c, bank, off, reg) == [ch |-> c, bank |-> bank, off |-> off, reg |-> reg, t |-> work.t]

Delta(step) == IF step = 0 THEN 1 ELSE IF step = 2 THEN -1 ELSE 0

(* Mutant: the pattern goes on from one channel to the next. *)
NextIndexRunsOn(i, das) == i + 1

(* pat_index, which every channel starts at zero. *)
NextIndex(i, das) == IF das = 0 THEN 0 ELSE i + 1

(* One pass of the do/while loop. *)
BurstByte ==
  /\ work.kind = "burst" /\ work.todo # {}
  /\ LET ch == First(work.todo)
         c == channels[ch]
         reg == BReg(c, work.i)
         das == Turn(c.das, -1)
     IN  /\ mem' = TransferByte(mem, c.a1b, c.a1t, reg, c.dmap.bToA)
         /\ channels' = [channels EXCEPT ![ch].das = das,
                                         ![ch].a1t = Turn(@, Delta(c.dmap.step))]
         /\ work' = [work EXCEPT !.i = NextIndex(@, das), !.t = @ + 8,
                                 !.todo = IF das = 0 THEN @ \ {ch} ELSE @,
                                 !.log = Append(@, Logged(ch, c.a1b, c.a1t, reg))]
         /\ frame' = [frame EXCEPT ![ch].kept = @ /\ ~c.dmap.indirect]
  /\ UNCHANGED <<ring, ringCount, hdmaVars, now, budget, triggers>>

TriggerEnd ==
  /\ work.kind = "burst" /\ work.todo = {}
  /\ LET record == [work.record EXCEPT !.end = work.t]
     IN  /\ ring' = [ring EXCEPT ![ringCount % RingCapacity] = record]
         /\ triggers' = Append(triggers, record)
  /\ ringCount' = ringCount + 1
  /\ now' = work.t
  /\ work' = Idle
  /\ UNCHANGED <<channels, hdmaVars, mem, budget, frame>>

GetRecentTriggerCount == IF ringCount < RingCapacity THEN ringCount ELSE RingCapacity

(* Mutant: the oldest record is always looked for in slot 0. *)
GetRecentTriggerFromZero(index) == ring[index % RingCapacity]

GetRecentTrigger(index) ==
  LET size == GetRecentTriggerCount
      start == IF ringCount >= RingCapacity THEN ringCount % RingCapacity ELSE 0
      clamped == IF index < size THEN index ELSE IF size > 0 THEN size - 1 ELSE 0
  IN  ring[(start + clamped) % RingCapacity]
-----------------------------------------------------------------------------
(* HDMA: OnHdmaSignal.  The start of a frame takes HDMAEN for the frame. *)

FrameInit ==
  /\ Free /\ phase = "init" /\ budget.frames > 0
  /\ active' = hdmaen
  /\ channels' = [ch \in Channels |->
       IF ch \in hdmaen
       THEN [channels[ch] EXCEPT !.a2a = channels[ch].a1t, !.ntrl = 0,
                                 !.doTransfer = FALSE, !.finished = FALSE]
       ELSE [channels[ch] EXCEPT !.doTransfer = FALSE, !.finished = FALSE]]
  /\ frame' = [ch \in Channels |->
       [start |-> channels[ch], lines |-> 0, kept |-> ch \in hdmaen]]
  /\ now' = now + 18 + 8 * Cardinality(hdmaen)
  /\ phase' = "line" /\ nextV' = 0
  /\ budget' = [budget EXCEPT !.frames = @ - 1]
  /\ UNCHANGED <<ring, ringCount, hdmaen, mem, work, triggers>>

(* Mutant: the end of the table is not remembered. *)
ServicedAgain == active \cap hdmaen

(* The channels of the frame that HDMAEN still names. *)
Serviced == {ch \in active \cap hdmaen : ~channels[ch].finished}

LineBegin ==
  /\ Free /\ phase = "line"
  /\ work' = [kind |-> "line", todo |-> Serviced, serviced |-> Serviced,
              step |-> "header", i |-> 0, log |-> <<>>,
              t |-> IF Serviced = {} THEN now ELSE now + 8]
  /\ UNCHANGED <<channels, ring, ringCount, hdmaVars, mem, now, budget, frame, triggers>>

Repeat(ntrl) == ntrl >= ByteSize \div 2
LinesLeft(ntrl) == ntrl % (ByteSize \div 2)

InLine(step) == work.kind = "line" /\ work.todo # {} /\ work.step = step

(* HdmaRunChannelLine: the header when the line counter has run out, and   *)
(* in indirect mode the two bytes of the pointer behind it.                *)
HeaderKept ==
  /\ InLine("header") /\ LinesLeft(channels[First(work.todo)].ntrl) # 0
  /\ work' = [work EXCEPT !.step = "bytes"]
  /\ UNCHANGED <<channels, mem>>

HeaderEnds ==
  /\ InLine("header") /\ LinesLeft(channels[First(work.todo)].ntrl) = 0
  /\ LET ch == First(work.todo)
         c == channels[ch]
         read == ReadA(mem, c.a1b, c.a2a)
     IN  /\ read.latch = 0
         /\ mem' = read
         /\ channels' = [channels EXCEPT ![ch].a2a = Turn(@, 1), ![ch].finished = TRUE]
         /\ work' = [work EXCEPT !.todo = @ \ {ch}, !.t = @ + 8]

HeaderLoaded ==
  /\ InLine("header") /\ LinesLeft(channels[First(work.todo)].ntrl) = 0
  /\ LET ch == First(work.todo)
         c == channels[ch]
         read == ReadA(mem, c.a1b, c.a2a)
         low == ReadA(read, c.a1b, Turn(c.a2a, 1))
         high == ReadA(low, c.a1b, Turn(c.a2a, 2))
         loaded == [c EXCEPT !.ntrl = read.latch, !.doTransfer = TRUE]
     IN  /\ read.latch # 0
         /\ IF c.dmap.indirect
            THEN /\ mem' = high
                 /\ channels' = [channels EXCEPT ![ch] =
                      [loaded EXCEPT !.das = low.latch + ByteSize * high.latch,
                                     !.a2a = Turn(@, 3)]]
                 /\ work' = [work EXCEPT !.step = "bytes", !.t = @ + 24]
            ELSE /\ mem' = read
                 /\ channels' = [channels EXCEPT ![ch] = [loaded EXCEPT !.a2a = Turn(@, 1)]]
                 /\ work' = [work EXCEPT !.step = "bytes", !.t = @ + 8]

(* One byte of the transfer unit, always towards the B-bus. *)
HdmaByte ==
  /\ InLine("bytes")
  /\ LET ch == First(work.todo)
         c == channels[ch]
         bank == IF c.dmap.indirect THEN c.dasb ELSE c.a1b
         off == IF c.dmap.indirect THEN c.das ELSE c.a2a
         reg == BReg(c, work.i)
     IN  /\ c.doTransfer /\ work.i < Len(Pattern(c.dmap.mode))
         /\ mem' = TransferByte(mem, bank, off, reg, FALSE)
         /\ channels' = IF c.dmap.indirect
                        THEN [channels EXCEPT ![ch].das = Turn(@, 1)]
                        ELSE [channels EXCEPT ![ch].a2a = Turn(@, 1)]
         /\ work' = [work EXCEPT !.i = @ + 1, !.t = @ + 8,
                                 !.log = Append(@, Logged(ch, bank, off, reg))]

(* The counter runs down below the repeat bit; without that bit the next   *)
(* transfer waits for the next entry.                                      *)
HdmaCount ==
  /\ InLine("bytes")
  /\ LET ch == First(work.todo)
         c == channels[ch]
         left == (LinesLeft(c.ntrl) - 1) % (ByteSize \div 2)
     IN  /\ ~c.doTransfer \/ work.i = Len(Pattern(c.dmap.mode))
         /\ channels' = [channels EXCEPT
              ![ch].ntrl = left + (IF Repeat(c.ntrl) THEN ByteSize \div 2 ELSE 0),
              ![ch].doTransfer = Repeat(c.ntrl) \/ left = 0]
         /\ work' = [work EXCEPT !.todo = @ \ {ch}, !.step = "header", !.i = 0]
  /\ UNCHANGED mem

LineStep ==
  /\ HeaderKept \/ HeaderEnds \/ HeaderLoaded \/ HdmaByte \/ HdmaCount
  /\ UNCHANGED <<ring, ringCount, hdmaVars, now, budget, frame, triggers>>

LineEnd ==
  /\ work.kind = "line" /\ work.todo = {}
  /\ now' = work.t
  /\ work' = Idle
  /\ frame' = [ch \in Channels |->
       [frame[ch] EXCEPT !.lines = IF ch \in work.serviced THEN @ + 1 ELSE @]]
  /\ IF nextV >= LastVisibleV
     THEN phase' = "init" /\ nextV' = nextV
     ELSE phase' = "line" /\ nextV' = nextV + 1
  /\ UNCHANGED <<channels, ring, ringCount, active, hdmaen, mem, budget, triggers>>

(* DmaController::Reset.  HDMAEN belongs to CpuMmio, whose Reset leaves it *)
(* as it is; WRAM keeps its cells, its port address is reset.              *)
Reset ==
  /\ Free /\ budget.writes > 0
  /\ ringCount' = 0 /\ triggers' = <<>>
  /\ phase' = "init" /\ nextV' = 0 /\ active' = {}
  /\ frame' = [c \in Channels |-> NoFrame]
  /\ channels' = [c \in Channels |-> ResetChannel]
  /\ mem' = [mem EXCEPT !.wmadd = 0]
  /\ now' = 0
  /\ budget' = [budget EXCEPT !.writes = @ - 1]
  /\ UNCHANGED <<ring, hdmaen, work>>

Next ==
  \/ \E w \in Writes : WriteRegister(w[1], w[2], w[3])
  \/ \E mask \in Masks : WriteHdmaEn(mask) \/ TriggerBegin(mask)
  \/ BurstByte \/ TriggerEnd
  \/ FrameInit \/ LineBegin \/ LineStep \/ LineEnd
  \/ Reset

Spec == Init /\ [][Next]_vars

-----------------------------------------------------------------------------
TypeOK ==
  /\ channels \in [Channels -> ChannelState]
  /\ DOMAIN ring = 0..(RingCapacity - 1) /\ ringCount \in Nat
  /\ phase \in {"init", "line"} /\ nextV \in 0..LastVisibleV
  /\ active \subseteq Channels /\ hdmaen \subseteq Channels
  /\ mem \in [wram : [Cells -> Byte], wmadd : Cells, latch : Byte]
  /\ now \in Nat /\ work.kind \in {"none", "burst", "line"}

Done(kind) == work.kind = kind /\ work.todo = {}

(* Bytes the channels before ch move in a burst. *)
BytesBefore(record, ch) ==
  LET sum[c \in 0..ch] ==
        IF c = 0 THEN 0
        ELSE sum[c - 1] + (IF c - 1 \in record.mask THEN record.regs[c - 1].bytes ELSE 0)
  IN  sum[ch]

(* A burst moves, channel after channel in ascending order, exactly DAS    *)
(* bytes (a whole bank for DAS = 0): the n-th byte of a channel at A1T     *)
(* plus n steps inside its bank, at the register its mode's pattern gives  *)
(* for n, eight cycles after the byte before.  Afterwards DAS is zero and  *)
(* A1T is where the next byte would have been.  Trigger does it with a     *)
(* counter that wraps and a loop that tests at its end.                    *)
BurstCopies ==
  Done("burst") =>
    \A ch \in work.record.mask :
      LET r == work.record.regs[ch]
          first == BytesBefore(work.record, ch)
      IN  /\ \A n \in 0..(r.bytes - 1) :
               work.log[first + n + 1] =
                 [ch |-> ch, bank |-> r.a1b, off |-> Turn(r.a1t, n * Delta(r.dmap.step)),
                  reg |-> BReg(r, n), t |-> work.record.start + 8 + 8 * (first + n)]
          /\ channels[ch].das = 0
          /\ channels[ch].a1t = Turn(r.a1t, r.bytes * Delta(r.dmap.step))

(* The WRAM port's address moves once for every byte of a burst that       *)
(* reaches the port, and for none that is blocked because its other end is *)
(* work RAM too; a cell changes only if a byte of the burst was stored     *)
(* there, through the port or on the A-bus.  (For bursts that leave the    *)
(* address registers alone.)  TransferByte's two conditions decide it.     *)
WramThroughPort ==
  Done("burst") =>
    LET log == work.log
        ToA(i) == work.record.regs[log[i].ch].dmap.bToA
        InConflict(i) == InWram(log[i].bank, log[i].off) /\ log[i].reg \in WramPorts
        Through(n) == {i \in 1..n : log[i].reg = PortBase /\ ~InConflict(i)}
        After(n) == (work.before.wmadd + Cardinality(Through(n))) % Cardinality(Cells)
    IN  (\A i \in DOMAIN log : log[i].reg \in WramPorts \ {PortBase} =>
           ToA(i) \/ InConflict(i)) =>
        /\ mem.wmadd = After(Len(log))
        /\ \A cell \in Cells : mem.wram[cell] # work.before.wram[cell] =>
             \E i \in DOMAIN log :
               IF ToA(i) THEN InWram(log[i].bank, log[i].off) /\ cell = Cell(log[i].bank, log[i].off)
               ELSE i \in Through(i) /\ cell = After(i - 1)

(* The table of a channel, read as the format says: where the entry that   *)
(* covers the k-th line since the frame's start lies, and its first line.  *)
Count(header) == IF LinesLeft(header) = 0 THEN ByteSize \div 2 ELSE LinesLeft(header)
Unit(c) == Len(Pattern(c.dmap.mode))

DataSize(c, header) ==
  IF c.dmap.indirect THEN 2 ELSE Unit(c) * (IF Repeat(header) THEN Count(header) ELSE 1)

(* The entry of line n, after that of the line before. *)
NextEntry(c, e, n) ==
  LET header == Rom[e.at]
  IN  IF n < e.first + Count(header) THEN e
      ELSE [at |-> Turn(e.at, 1 + DataSize(c, header)), first |-> n]

EntryOf(c, k) ==
  LET entry[n \in 0..k] ==
        IF n = 0 THEN [at |-> c.a1t, first |-> 0] ELSE NextEntry(c, entry[n - 1], n)
  IN  entry[k]

(* What the k-th line moves: nothing behind the end of the table, nothing  *)
(* on the later lines of an entry that does not repeat, else one unit.     *)
LineOf(c, k) ==
  LET e == EntryOf(c, k)
      header == Rom[e.at]
      j == k - e.first
      data == IF c.dmap.indirect
              THEN Rom[Turn(e.at, 1)] + ByteSize * Rom[Turn(e.at, 2)] ELSE Turn(e.at, 1)
  IN  IF header = 0 \/ (j > 0 /\ ~Repeat(header)) THEN <<>>
      ELSE [i \in 1..Unit(c) |->
             [bank |-> IF c.dmap.indirect THEN c.dasb ELSE c.a1b,
              off |-> Turn(data, j * Unit(c) + i - 1), reg |-> BReg(c, i - 1)]]

(* On the present line the channel moved these bytes, one after another,   *)
(* and no others.                                                          *)
Moved(ch, bytes) ==
  \E before \in 0..Len(work.log) :
    /\ {n \in DOMAIN work.log : work.log[n].ch = ch} = {before + i : i \in DOMAIN bytes}
    /\ \A i \in DOMAIN bytes :
         LET entry == work.log[before + i]
         IN  [bank |-> entry.bank, off |-> entry.off, reg |-> entry.reg] = bytes[i]

(* On every line an enabled channel moves what its table says for the      *)
(* number of lines it has run in this frame, whatever happened in between: *)
(* lines on which HDMAEN left it out, lines and bursts of other channels,  *)
(* writes to A1T and, for a direct table, bursts of the channel itself.    *)
(* The handler keeps only a cursor, a counter and a flag between lines.    *)
(* Tables lie in ROM; a program that writes the registers HDMA works on    *)
(* is on its own.                                                          *)
HdmaFollowsTable ==
  Done("line") =>
    \A ch \in work.serviced :
      frame[ch].kept /\ frame[ch].start.a1b = "rom" =>
        Moved(ch, LineOf(frame[ch].start, frame[ch].lines))

(* The debugger's ring delivers the last bursts since the reset, oldest    *)
(* first, however often the ring has gone round (GetRecentTrigger).        *)
RingShowsHistory ==
  /\ GetRecentTriggerCount = IF Len(triggers) < RingCapacity THEN Len(triggers) ELSE RingCapacity
  /\ \A i \in 0..(GetRecentTriggerCount - 1) :
       GetRecentTrigger(i) = triggers[Len(triggers) - GetRecentTriggerCount + i + 1]
=============================================================================
