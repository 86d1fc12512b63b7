------------------------------ MODULE PpuPorts ------------------------------
(***************************************************************************)
(* The registers of the PPU: the state they decode into (class Ppu in      *)
(* hw/sppu/ppu.h), what replaying one logged write does to it              *)
(* (Ppu::ReplayWrite in hw/sppu/ppu.cpp), and what the read ports answer   *)
(* and change.  The device around them, with its log and its dots, is in   *)
(* Ppu.                                                                    *)
(*                                                                         *)
(* A register is named by a string, a mask of layers is a set of layers    *)
(* (0..3 the backgrounds, 4 the objects, 5 the backdrop, which is also the *)
(* target of the colour window), and a memory is a function of the         *)
(* addresses written so far, zero elsewhere.  Events for the debugger and  *)
(* the shadow of last written bytes are left out.                          *)
(***************************************************************************)
EXTENDS Integers, Sequences, PpuTimeline

LOCAL INSTANCE TLC

CONSTANTS
  Objects,       \* objects in OAM, 128
  ScreenWidth,   \* kLogicalWidth, 256
  VisibleHStart, \* 22
  VisibleVStart, \* 1
  VisibleVEnd224, VisibleVEnd239, \* 225 and 240
  HblankStart,   \* 274
  FetchStart     \* kObjFetchStart, 270

ASSUME PortsAssumption ==
  /\ Objects \in Nat /\ Objects % 4 = 0 /\ Objects >= 4
  /\ ScreenWidth \in Nat /\ ScreenWidth % 8 = 0
  /\ VisibleHStart \in Nat /\ VisibleHStart + ScreenWidth <= DotsPerLine
  /\ VisibleVStart \in 1..LinesPerFrame /\ VisibleVEnd224 \in VisibleVStart..VisibleVEnd239
  /\ VisibleVEnd239 \in 1..(LinesPerFrame - 1)
  /\ FetchStart \in Nat /\ FetchStart % 2 = 0 /\ FetchStart > 2 * Objects

Bit(x, i) == (x \div 2^i) % 2
Bits(x, i, n) == (x \div 2^i) % 2^n
LayerSet(x, n) == {i \in 0..(n - 1) : Bit(x, i) = 1}
Signed(x, n) == IF x >= 2^(n - 1) THEN x - 2^n ELSE x

LowOam == 4 * Objects
Fetch(memory, a) == IF a \in DOMAIN memory THEN memory[a] ELSE 0
Store(memory, a, data) == (a :> data) @@ memory

VramByte(p, a) == Fetch(p.vram, a % 65536)
VramWord(p, w) == VramByte(p, 2 * (w % 32768)) + 256 * VramByte(p, 2 * (w % 32768) + 1)

(***************************************************************************)
(* OamByteSlot: the 32-byte high table repeats through the upper half of   *)
(* the addresses.                                                          *)
(***************************************************************************)
OamByteSlot(a) ==
  IF a % (2 * LowOam) < LowOam THEN a % (2 * LowOam) ELSE LowOam + (a % (Objects \div 4))

OamByte(p, a) == Fetch(p.oam, OamByteSlot(a))

VblankStartLine(p) == IF p.overscan THEN VisibleVEnd239 ELSE VisibleVEnd224

NoRow == [key |-> -1, pixels |-> [x \in 0..7 |-> 0], palette |-> 0, group |-> 0,
          priority |-> FALSE, hflip |-> FALSE]

Grid == (VisibleVStart..(VisibleVEnd239 - 1)) \X (0..(ScreenWidth - 1))

(***************************************************************************)
(* Ppu::Reset.                                                             *)
(***************************************************************************)
ResetPpu ==
  [local_time |-> 0, h |-> 0, v |-> 0, field |-> FALSE, partial |-> 0, log |-> <<>>, cursor |-> 0,
   forced_blank |-> TRUE, brightness |-> 0, overscan |-> FALSE,
   bg_mode |-> 0, bg3_priority |-> FALSE,
   bg |-> [b \in 0..3 |-> [tile16 |-> FALSE, base |-> 0, layout |-> 0, char |-> 0,
                           hofs |-> 0, vofs |-> 0]],
   scroll_prev |-> 0,
   mosaic |-> [size |-> 1, enabled |-> {}, vsize |-> 1, vindex |-> 0],
   main_layers |-> {}, sub_layers |-> {}, main_window |-> {}, sub_window |-> {},
   window_select |-> [i \in 0..2 |-> 0], window_bounds |-> [i \in 0..3 |-> 0],
   window_logic |-> [i \in 0..1 |-> 0], window_regions |-> [r \in 0..3 |-> {}],
   cgwsel |-> 0, cgadsub |-> 0, coldata |-> <<0, 0, 0>>,
   obj_size |-> 0, obj_region |-> <<0, 0>>,
   cgadd |-> 0, cg_latch |-> 0, cg_high |-> FALSE, cg_read_high |-> FALSE,
   vmadd |-> 0, vmain |-> 0, prefetch |-> 0,
   oam_addr |-> 0, oam_reload |-> 0, oam_rotate |-> FALSE, oam_latch |-> 0,
   m7 |-> [r \in {"a", "b", "c", "d", "x", "y"} |-> 65535] @@ [r \in {"hofs", "vofs", "sel"} |-> 0],
   m7_old |-> 255, m7_product |-> 1, m7_extbg |-> FALSE,
   nmi_flag |-> FALSE, opct |-> <<511, 511>>, opct_high |-> <<FALSE, FALSE>>,
   hv_latch |-> FALSE, read_latch |-> 0,
   vram |-> <<>>, oam |-> <<>>, cgram |-> <<>>,
   row |-> [b \in 0..3 |-> NoRow], row_dirty |-> [b \in 0..3 |-> TRUE],
   obj |-> [next |-> 0, sync |-> 0, first |-> 0, selected |-> <<>>, left |-> 0, column |-> 0,
            tiles |-> 0, at |-> [x |-> 0, y |-> 0, width |-> 0, height |-> 0], at_valid |-> FALSE,
            fetch |-> [valid |-> FALSE], range_over |-> FALSE, time_over |-> FALSE],
   fetched |-> [i \in 0..1 |-> <<>>], obj_line |-> <<>>, obj_ready |-> FALSE,
   back |-> [d \in Grid |-> 0], front |-> [d \in Grid |-> 0]]

-----------------------------------------------------------------------------
(***************************************************************************)
(* VRAM: address rotation, increments, and the read latch.                 *)
(***************************************************************************)
RotateWidth == <<8, 9, 10>>

TranslateVramAddress(p, raw) ==
  LET mode == Bits(p.vmain, 2, 2)
      shift == RotateWidth[mode] - 3
      high == (raw \div 2^(shift + 3)) * 2^(shift + 3)
  IN  IF mode = 0 THEN raw
      ELSE high + (raw % (2^shift)) * 8 + Bits(raw, shift, 3)

VmainIncrementStep(p) == <<1, 32, 128, 128>>[(p.vmain % 4) + 1]

PrefetchVram(p) == [p EXCEPT !.prefetch = VramWord(p, TranslateVramAddress(p, p.vmadd))]

IncrementsOn(p, high) == high = (Bit(p.vmain, 7) = 1)

Increment(p) == [p EXCEPT !.vmadd = (@ + VmainIncrementStep(p)) % 65536]

MaybeIncrementVmaddOnPort(p, high) == IF IncrementsOn(p, high) THEN Increment(p) ELSE p

(* The latch is reloaded from the address before it is incremented. *)
MaybeAdvanceVramReadOnPort(p, high) ==
  IF IncrementsOn(p, high) THEN Increment(PrefetchVram(p)) ELSE p

AllDirty(p) == [p EXCEPT !.row_dirty = [b \in 0..3 |-> TRUE]]

(***************************************************************************)
(* A write to one of the two data ports.  The row caches cannot tell       *)
(* whose tile it was, so all become stale.                                 *)
(***************************************************************************)
WriteVram(p, high, data) ==
  LET a == ((2 * TranslateVramAddress(p, p.vmadd)) % 65536) + (IF high THEN 1 ELSE 0)
  IN  AllDirty(MaybeIncrementVmaddOnPort([p EXCEPT !.vram = Store(@, a, data)], high))

ReplayVram(p, reg, data) ==
  CASE reg = "VMAIN"   -> [p EXCEPT !.vmain = data]
    [] reg = "VMADDL"  -> PrefetchVram([p EXCEPT !.vmadd = (@ \div 256) * 256 + data])
    [] reg = "VMADDH"  -> PrefetchVram([p EXCEPT !.vmadd = (@ % 256) + 256 * data])
    [] reg = "VMDATAL" -> WriteVram(p, FALSE, data)
    [] reg = "VMDATAH" -> WriteVram(p, TRUE, data)

-----------------------------------------------------------------------------
(***************************************************************************)
(* OAM: an even byte is kept, an odd byte of the low table commits the     *)
(* pair, a byte of the high table commits itself.                          *)
(***************************************************************************)
OamAddress(p, a) == [p EXCEPT !.oam_addr = a, !.oam_reload = a]

WriteOamData(p, data) ==
  LET a == p.oam_addr
      q == IF a % 2 = 0 THEN [p EXCEPT !.oam_latch = data] ELSE p
      oam == IF a >= LowOam THEN Store(q.oam, OamByteSlot(a), data)
             ELSE IF a % 2 = 1 THEN Store(Store(q.oam, a - 1, q.oam_latch), a, data)
             ELSE q.oam
  IN  [q EXCEPT !.oam = oam, !.oam_addr = (a + 1) % (2 * LowOam)]

ReplayOam(p, reg, data) ==
  CASE reg = "OAMADDL" -> OamAddress(p, (p.oam_reload \div LowOam) * LowOam + 2 * data)
    [] reg = "OAMADDH" -> OamAddress([p EXCEPT !.oam_rotate = Bit(data, 7) = 1],
                                     (data % 2) * LowOam + (p.oam_reload % LowOam))
    [] reg = "OAMDATA" -> WriteOamData(p, data)
    [] reg = "OBSEL"   ->
         LET region0 == (Bits(data, 0, 3) * 8192) % 32768
         IN  [p EXCEPT !.obj_size = Bits(data, 5, 3),
                       !.obj_region = <<region0, (region0 + 4096 + Bits(data, 3, 2) * 4096) % 32768>>]

-----------------------------------------------------------------------------
(***************************************************************************)
(* CGRAM: a word is written by its second byte, without its top bit.       *)
(***************************************************************************)
ReplayCgram(p, reg, data) ==
  CASE reg = "CGADD" -> [p EXCEPT !.cgadd = data, !.cg_high = FALSE, !.cg_read_high = FALSE]
    [] reg = "CGDATA" /\ ~p.cg_high -> [p EXCEPT !.cg_latch = data, !.cg_high = TRUE]
    [] reg = "CGDATA" /\ p.cg_high ->
         [p EXCEPT !.cgram = Store(@, p.cgadd, (data % 128) * 256 + p.cg_latch),
                   !.cgadd = (@ + 1) % 256, !.cg_high = FALSE]

(***************************************************************************)
(* Mode 7: every parameter takes the shared previous byte as its low half; *)
(* A and B also feed the multiplier.                                       *)
(***************************************************************************)
WriteM7Parameter(p, r, data) == [p EXCEPT !.m7[r] = 256 * data + p.m7_old, !.m7_old = data]

UpdateM7Product(p) ==
  [p EXCEPT !.m7_product = (Signed(p.m7.a, 16) * Signed(p.m7.b \div 256, 8)) % 16777216]

M7Register == [M7A |-> "a", M7B |-> "b", M7C |-> "c", M7D |-> "d", M7X |-> "x", M7Y |-> "y"]

ReplayMode7(p, reg, data) ==
  IF reg = "M7SEL" THEN [p EXCEPT !.m7.sel = data]
  ELSE LET q == WriteM7Parameter(p, M7Register[reg], data)
       IN  IF reg \in {"M7A", "M7B"} THEN UpdateM7Product(q) ELSE q

-----------------------------------------------------------------------------
(***************************************************************************)
(* The backgrounds.  BG3 supplies the offsets of BG1 and BG2 in modes 2    *)
(* and 4, so a change to it makes their rows stale too.                    *)
(***************************************************************************)
Dirty(p, bgs) == [p EXCEPT !.row_dirty = [b \in 0..3 |-> @[b] \/ b \in bgs]]

WithOffsets(p, b) == IF b = 2 /\ p.bg_mode \in {2, 4} THEN {0, 1} ELSE {}

WriteBgScroll(p, b, data, horizontal) ==
  LET prev == p.scroll_prev
      q == IF horizontal
           THEN [p EXCEPT !.bg[b].hofs = 256 * data + (prev \div 8) * 8 + Bits(@, 8, 3)]
           ELSE Dirty([p EXCEPT !.bg[b].vofs = (256 * data + prev) % 1024], {b})
  IN  [Dirty(q, WithOffsets(p, b)) EXCEPT !.scroll_prev = data]

WriteBgCharBase(p, b, data) ==
  Dirty([p EXCEPT !.bg[b].char = Bits(data, 0, 4) * 4096,
                  !.bg[b + 1].char = Bits(data, 4, 4) * 4096], {b, b + 1})

BgSc == [BG1SC |-> 0, BG2SC |-> 1, BG3SC |-> 2, BG4SC |-> 3]
BgHofs == [BG1HOFS |-> 0, BG2HOFS |-> 1, BG3HOFS |-> 2, BG4HOFS |-> 3]
BgVofs == [BG1VOFS |-> 0, BG2VOFS |-> 1, BG3VOFS |-> 2, BG4VOFS |-> 3]

ReplayBg(p, reg, data) ==
  CASE reg = "BGMODE" ->
         AllDirty([p EXCEPT !.bg_mode = data % 8, !.bg3_priority = Bit(data, 3) = 1,
                            !.bg = [b \in 0..3 |-> [@[b] EXCEPT !.tile16 = Bit(data, 4 + b) = 1]]])
    [] reg \in DOMAIN BgSc ->
         LET b == BgSc[reg]
         IN  Dirty([p EXCEPT !.bg[b].base = (data \div 4) * 1024, !.bg[b].layout = data % 4],
                   {b} \cup WithOffsets(p, b))
    [] reg = "BG12NBA" -> WriteBgCharBase(p, 0, data)
    [] reg = "BG34NBA" -> WriteBgCharBase(p, 2, data)
    [] reg \in DOMAIN BgHofs ->
         WriteBgScroll(IF reg = "BG1HOFS" THEN WriteM7Parameter(p, "hofs", data) ELSE p,
                       BgHofs[reg], data, TRUE)
    [] reg \in DOMAIN BgVofs ->
         WriteBgScroll(IF reg = "BG1VOFS" THEN WriteM7Parameter(p, "vofs", data) ELSE p,
                       BgVofs[reg], data, FALSE)
    [] reg = "MOSAIC" ->
         AllDirty([p EXCEPT !.mosaic.size = data \div 16 + 1, !.mosaic.enabled = LayerSet(data, 4)])

-----------------------------------------------------------------------------
(***************************************************************************)
(* Windows.  RebuildWindowLogic works out, for each of the four regions    *)
(* the two windows make (bit 0: inside window 1, bit 1: inside window 2),  *)
(* which targets are masked there.                                         *)
(***************************************************************************)
WindowSelect(p, t) == Bits(p.window_select[t \div 2], 4 * (t % 2), 4)
WindowLogic(p, t) == Bits(p.window_logic[t \div 4], 2 * (t % 4), 2)

Combine(logic, one, two) ==
  CASE logic = 0 -> one \/ two
    [] logic = 1 -> one /\ two
    [] logic = 2 -> one # two
    [] logic = 3 -> one = two

MaskedIn(p, t, region) ==
  LET select == WindowSelect(p, t)
      one == Bit(region, 0) # Bit(select, 0)
      two == Bit(region, 1) # Bit(select, 2)
  IN  CASE Bit(select, 1) = 1 /\ Bit(select, 3) = 1 -> Combine(WindowLogic(p, t), one, two)
        [] Bit(select, 1) = 1 /\ Bit(select, 3) = 0 -> one
        [] Bit(select, 1) = 0 /\ Bit(select, 3) = 1 -> two
        [] OTHER -> FALSE

RebuildWindowLogic(p) ==
  [p EXCEPT !.window_regions = [region \in 0..3 |-> {t \in 0..5 : MaskedIn(p, t, region)}]]

WinSel == [W12SEL |-> 0, W34SEL |-> 1, WOBJSEL |-> 2]
WinBound == [WH0 |-> 0, WH1 |-> 1, WH2 |-> 2, WH3 |-> 3]
WinLog == [WBGLOG |-> 0, WOBJLOG |-> 1]

ReplayMix(p, reg, data) ==
  CASE reg \in DOMAIN WinSel -> RebuildWindowLogic([p EXCEPT !.window_select[WinSel[reg]] = data])
    [] reg \in DOMAIN WinBound -> [p EXCEPT !.window_bounds[WinBound[reg]] = data]
    [] reg \in DOMAIN WinLog -> RebuildWindowLogic([p EXCEPT !.window_logic[WinLog[reg]] = data])
    [] reg = "TM" -> [p EXCEPT !.main_layers = LayerSet(data, 5)]
    [] reg = "TS" -> [p EXCEPT !.sub_layers = LayerSet(data, 5)]
    [] reg = "TMW" -> [p EXCEPT !.main_window = LayerSet(data, 5)]
    [] reg = "TSW" -> [p EXCEPT !.sub_window = LayerSet(data, 5)]
    [] reg = "CGWSEL" -> [p EXCEPT !.cgwsel = data]
    [] reg = "CGADSUB" -> [p EXCEPT !.cgadsub = data]
    [] reg = "COLDATA" ->
         [p EXCEPT !.coldata = [c \in 1..3 |-> IF Bit(data, 4 + c) = 1 THEN data % 32 ELSE @[c]]]
    [] reg = "INIDISP" -> [p EXCEPT !.forced_blank = Bit(data, 7) = 1, !.brightness = data % 16]
    [] reg = "SETINI" -> [p EXCEPT !.overscan = Bit(data, 2) = 1, !.m7_extbg = Bit(data, 6) = 1]

(***************************************************************************)
(* ReplayWrite, after the object pipeline has been brought up to the beam  *)
(* for the registers in ObjInputs (that is in Ppu).  Any other port is     *)
(* shadow only.                                                            *)
(***************************************************************************)
ObjInputs == {"INIDISP", "OBSEL", "OAMDATA", "VMDATAL", "VMDATAH"}

VramPorts == {"VMAIN", "VMADDL", "VMADDH", "VMDATAL", "VMDATAH"}
OamPorts == {"OAMADDL", "OAMADDH", "OAMDATA", "OBSEL"}
MixPorts == DOMAIN WinSel \cup DOMAIN WinBound \cup DOMAIN WinLog
              \cup {"TM", "TS", "TMW", "TSW", "CGWSEL", "CGADSUB", "COLDATA", "INIDISP", "SETINI"}
BgPorts == DOMAIN BgSc \cup DOMAIN BgHofs \cup DOMAIN BgVofs
             \cup {"BGMODE", "BG12NBA", "BG34NBA", "MOSAIC"}

Decode(p, reg, data) ==
  CASE reg \in VramPorts -> ReplayVram(p, reg, data)
    [] reg \in OamPorts -> ReplayOam(p, reg, data)
    [] reg \in {"CGADD", "CGDATA"} -> ReplayCgram(p, reg, data)
    [] reg \in DOMAIN M7Register \cup {"M7SEL"} -> ReplayMode7(p, reg, data)
    [] reg \in BgPorts -> ReplayBg(p, reg, data)
    [] reg \in MixPorts -> ReplayMix(p, reg, data)
    [] OTHER -> p

-----------------------------------------------------------------------------
(***************************************************************************)
(* The read ports (Ppu::ReadRegister, after the log has been drained):     *)
(* the state afterwards and the value on the lines the PPU drives, -1 when *)
(* it drives none.  SLHV and STAT77 need the device and are in Ppu.        *)
(***************************************************************************)
Answer(p, value) == [ppu |-> p, value |-> value]

ByPpu1(p, value) == Answer([p EXCEPT !.read_latch = value], value)

ReadOpct(p, i) ==
  IF p.opct_high[i] THEN Answer([p EXCEPT !.opct_high[i] = FALSE], p.opct[i] \div 256)
  ELSE Answer([p EXCEPT !.opct_high[i] = TRUE], p.opct[i] % 256)

ReadCgram(p) ==
  LET word == Fetch(p.cgram, p.cgadd)
  IN  IF p.cg_read_high
      THEN Answer([p EXCEPT !.cg_read_high = FALSE, !.cgadd = (@ + 1) % 256], (word \div 256) % 128)
      ELSE Answer([p EXCEPT !.cg_read_high = TRUE], word % 256)

ReadStat78(p) ==
  Answer([p EXCEPT !.opct_high = <<FALSE, FALSE>>, !.hv_latch = FALSE],
         3 + (IF p.field THEN 128 ELSE 0) + (IF p.hv_latch THEN 64 ELSE 0))

LatchHvCounters(p) == [p EXCEPT !.opct = <<p.h % 512, p.v % 512>>, !.hv_latch = TRUE]

MpyByte == [MPYL |-> 0, MPYM |-> 1, MPYH |-> 2]

ReadPort(p, reg) ==
  CASE reg \in DOMAIN MpyByte -> ByPpu1(p, Bits(p.m7_product, 8 * MpyByte[reg], 8))
    [] reg = "RDOAM" ->
         ByPpu1([p EXCEPT !.oam_addr = (@ + 1) % (2 * LowOam)], OamByte(p, p.oam_addr))
    [] reg = "RDVRAML" -> ByPpu1(MaybeAdvanceVramReadOnPort(p, FALSE), p.prefetch % 256)
    [] reg = "RDVRAMH" -> ByPpu1(MaybeAdvanceVramReadOnPort(p, TRUE), p.prefetch \div 256)
    [] reg = "RDCGRAM" -> ReadCgram(p)
    [] reg = "OPHCT" -> ReadOpct(p, 1)
    [] reg = "OPVCT" -> ReadOpct(p, 2)
    [] reg = "STAT78" -> ReadStat78(p)
    [] OTHER -> Answer(p, -1)
=============================================================================
