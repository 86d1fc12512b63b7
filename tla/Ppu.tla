-------------------------------- MODULE Ppu --------------------------------
(***************************************************************************)
(* The PPU as a device (hw/sppu/ppu.cpp).  It is lazy: a write is only     *)
(* appended to a log, and dots are drawn when somebody catches the PPU up  *)
(* to a master time, which replays the log dot by dot.  The pipeline that  *)
(* selects and fetches the objects of the next line is lazier still: it    *)
(* runs only when one of its inputs is about to change, when its flags are *)
(* read, and at both ends of a line.                                       *)
(***************************************************************************)
EXTENDS PpuPixel

LOCAL INSTANCE SequencesExt
LOCAL INSTANCE FiniteSetsExt

CONSTANTS
  ObjLineCap,  \* kObjLineCap, 32
  ObjTileCap,  \* kObjTileCap, 34
  LogSize      \* kPendingWriteLogSize, 16384

ASSUME PpuAssumption == {ObjLineCap, ObjTileCap, LogSize} \subseteq Nat \ {0}

-----------------------------------------------------------------------------
(***************************************************************************)
(* The object pipeline of one line.  Dots 0 to 2 * Objects - 1 select the  *)
(* objects on the line, one every two dots: the position is read on the    *)
(* even dot, the object counted on the odd one.  From FetchStart on, each  *)
(* two dots fetch one tile, the address of the next tile being prepared    *)
(* while the words of the previous one are read.                           *)
(***************************************************************************)
ObjSizes == <<<<8, 8, 16, 16>>, <<8, 8, 32, 32>>, <<8, 8, 64, 64>>, <<16, 16, 32, 32>>,
              <<16, 16, 64, 64>>, <<32, 32, 64, 64>>, <<16, 32, 32, 64>>, <<16, 32, 32, 32>>>>

LeftOfAll == -ScreenWidth

ReadObjPosition(p, i) ==
  LET high == Bits(OamByte(p, LowOam + i \div 4), 2 * (i % 4), 2)
      size == ObjSizes[p.obj_size + 1]
      large == high \div 2
  IN  [x |-> OamByte(p, 4 * i) - (high % 2) * ScreenWidth, y |-> OamByte(p, 4 * i + 1),
       width |-> size[2 * large + 1], height |-> size[2 * large + 2]]

Row(p, at) == (p.v - at.y) % 256

StartObjLine(p) ==
  [p EXCEPT !.obj = [@ EXCEPT !.selected = <<>>, !.left = 0, !.column = 0, !.tiles = 0,
                              !.at_valid = FALSE, !.fetch = [valid |-> FALSE],
                              !.first = IF p.oam_rotate THEN (p.oam_addr \div 4) % Objects ELSE 0],
            !.fetched[(p.v + 1) % 2] = <<>>, !.obj_ready = FALSE]

NextDot(p, dot) == [p EXCEPT !.obj.next = dot]

(* From here on the selection is over, FetchStart is the next operation. *)
AfterSelection(dot) == IF dot >= 2 * Objects THEN FetchStart ELSE dot

SelectAt(p, dot) ==
  LET i == (p.obj.first + dot \div 2) % Objects
      at == ReadObjPosition(p, i)
      onLine == /\ Row(p, at) < at.height
                /\ at.x # LeftOfAll => at.x + at.width > 0
  IN  CASE p.forced_blank /\ dot % 2 = 0  -> NextDot(p, AfterSelection(dot + 2))
        [] p.forced_blank /\ dot % 2 = 1  -> NextDot(p, AfterSelection(dot + 1))
        [] ~p.forced_blank /\ dot % 2 = 0 ->
             NextDot([p EXCEPT !.obj.at = at], IF onLine THEN dot + 1 ELSE AfterSelection(dot + 2))
        [] ~p.forced_blank /\ dot % 2 = 1 ->
             IF Len(p.obj.selected) = ObjLineCap
             THEN NextDot([p EXCEPT !.obj.range_over = TRUE], FetchStart)
             ELSE NextDot([p EXCEPT !.obj.selected = Append(@, i)], AfterSelection(dot + 1))

PlaneAt(p, addr) == [x \in 0..7 |-> Bit(VramByte(p, addr), 7 - x)]

LatchPlanes(p) ==
  LET low == PlaneAt(p, p.obj.fetch.addr)
      high == PlaneAt(p, p.obj.fetch.addr + 1)
  IN  IF ~p.obj.fetch.valid THEN p
      ELSE [p EXCEPT !.obj.fetch.pixels =
              IF p.forced_blank THEN [x \in 0..7 |-> 0] ELSE [x \in 0..7 |-> low[x] + 2 * high[x]]]

ColumnVisible(at, column) == at.x = LeftOfAll \/ at.x + 8 * column \in -7..(ScreenWidth - 1)

(***************************************************************************)
(* The loop of the even dot: the last selected object that still has a     *)
(* column on the screen.  Its position is read again here.                 *)
(***************************************************************************)
RECURSIVE SeekTile(_)
SeekTile(p) ==
  LET at == ReadObjPosition(p, p.obj.selected[p.obj.left])
      seen == {c \in p.obj.column..(at.width \div 8 - 1) : ColumnVisible(at, c)}
  IN  IF p.obj.left = 0 THEN p
      ELSE IF seen # {} THEN [p EXCEPT !.obj.at = at, !.obj.column = Min(seen), !.obj.at_valid = TRUE]
      ELSE SeekTile([p EXCEPT !.obj.at = at, !.obj.left = @ - 1, !.obj.column = 0])

FetchEven(p) ==
  LET q == [LatchPlanes(p) EXCEPT !.obj.at_valid = FALSE]
  IN  IF p.forced_blank THEN q ELSE SeekTile(q)

FinishObjTile(p) ==
  LET f == p.obj.fetch
      p2 == PlaneAt(p, f.addr + 16)
      p3 == PlaneAt(p, f.addr + 17)
      pixels == [x \in 0..7 |-> f.pixels[x] + 4 * p2[x] + 8 * p3[x]]
  IN  IF (\A x \in 0..7 : pixels[x] = 0) \/ f.x \notin -7..(ScreenWidth - 1) THEN p
      ELSE [p EXCEPT !.fetched[(p.v + 1) % 2] =
              Append(@, [pixels |-> pixels, x |-> f.x, palette |-> f.palette, hflip |-> f.hflip])]

(* Rectangular objects are flipped in each square half. *)
FlippedRow(row, width) == (row \div width) * width + (width - 1 - (row % width))

PrepareObjTile(p) ==
  LET at == p.obj.at
      base == 4 * p.obj.selected[p.obj.left]
      tile == OamByte(p, base + 2)
      attr == OamByte(p, base + 3)
      row == IF Bit(attr, 7) = 1 THEN FlippedRow(Row(p, at), at.width) ELSE Row(p, at)
      hflip == Bit(attr, 6) = 1
      column == IF hflip THEN at.width \div 8 - 1 - p.obj.column ELSE p.obj.column
      char == ((tile \div 16 + row \div 8) % 16) * 16 + ((tile + column) % 16)
      next == p.obj.column + 1
      over == next = at.width \div 8 \/ (at.x # LeftOfAll /\ at.x + 8 * next >= ScreenWidth)
      fetch == [valid |-> TRUE, addr |-> 2 * p.obj_region[(attr % 2) + 1] + char * 32 + (row % 8) * 2,
                pixels |-> [x \in 0..7 |-> 0], x |-> at.x + 8 * p.obj.column, hflip |-> hflip,
                palette |-> 128 + Bits(attr, 1, 3) * 16 + Bits(attr, 4, 2) * 256]
  IN  IF p.obj.tiles = ObjTileCap THEN [p EXCEPT !.obj.time_over = TRUE, !.obj.left = 0]
      ELSE [p EXCEPT !.obj = [@ EXCEPT !.tiles = @ + 1, !.fetch = fetch,
                                       !.column = IF over THEN 0 ELSE next,
                                       !.left = IF over THEN @ - 1 ELSE @]]

FetchOdd(p) ==
  LET q == IF p.obj.fetch.valid /\ ~p.forced_blank THEN FinishObjTile(p) ELSE p
      r == [q EXCEPT !.obj.fetch = [valid |-> FALSE]]
  IN  IF p.obj.at_valid /\ ~p.forced_blank THEN PrepareObjTile(r) ELSE r

EndWhenIdle(p) == IF ~p.obj.fetch.valid /\ p.obj.left = 0 THEN NextDot(p, DotsPerLine) ELSE p

FetchAt(p, dot) ==
  LET q == NextDot(IF dot = FetchStart THEN [p EXCEPT !.obj.left = Len(p.obj.selected)] ELSE p, dot + 1)
  IN  EndWhenIdle(IF dot % 2 = 0 THEN FetchEven(q) ELSE FetchOdd(q))

StepObjPipeline(p) ==
  LET dot == p.obj.next
      q == IF dot = 0 THEN StartObjLine(p) ELSE p
  IN  IF dot = 0 /\ p.v >= VblankStartLine(p) THEN NextDot(q, DotsPerLine)
      ELSE IF dot < 2 * Objects THEN SelectAt(q, dot) ELSE FetchAt(q, dot)

(***************************************************************************)
(* SyncObjPipeline: every operation before end_dot, skipping the selection *)
(* at once while the screen is blanked.                                    *)
(***************************************************************************)
RECURSIVE SyncObjPipeline(_, _)
SyncObjPipeline(p, end) ==
  LET skipped == ((end + 1) \div 2) * 2
  IN  IF p.obj.next >= end THEN p
      ELSE IF p.forced_blank /\ p.obj.next \in 1..(2 * Objects - 1)
      THEN SyncObjPipeline(NextDot(p, AfterSelection(skipped)), end)
      ELSE SyncObjPipeline(StepObjPipeline(p), end)

-----------------------------------------------------------------------------
(***************************************************************************)
(* The log of writes, an array filled from its start and replayed behind   *)
(* the cursor.  It starts over only when everything in it was replayed.    *)
(***************************************************************************)
(* Mutant: a write to OAM data does not bring the object pipeline up first. *)
ReplayWriteNoFence(p, w) ==
  Decode(IF w.reg \in ObjInputs \ {"OAMDATA"} THEN SyncObjPipeline(p, p.h) ELSE p, w.reg, w.data)

ReplayWrite(p, w) ==
  Decode(IF w.reg \in ObjInputs THEN SyncObjPipeline(p, p.h) ELSE p, w.reg, w.data)

(* The index of the last entry before the first one that is too late. *)
ReplayedUpTo(p, cutoff) ==
  Min({Len(p.log) + 1} \cup {i \in (p.cursor + 1)..Len(p.log) : p.log[i].cycle > cutoff}) - 1

MoveCursor(p, n) ==
  IF n = Len(p.log) THEN [p EXCEPT !.log = <<>>, !.cursor = 0] ELSE [p EXCEPT !.cursor = n]

DrainPendingWritesUpTo(p, cutoff) ==
  LET n == ReplayedUpTo(p, cutoff)
  IN  MoveCursor(FoldLeft(ReplayWrite, p, SubSeq(p.log, p.cursor + 1, n)), n)

(***************************************************************************)
(* EnqueueWrite: when the array is full, everything in it is replayed at   *)
(* once, before its time.                                                  *)
(***************************************************************************)
EnqueueWrite(p, w) ==
  [(IF Len(p.log) >= LogSize THEN DrainPendingWritesUpTo(p, w.cycle) ELSE p)
     EXCEPT !.log = Append(@, w)]

-----------------------------------------------------------------------------
(***************************************************************************)
(* The beam (CatchUpTo and AdvanceHv).                                     *)
(***************************************************************************)
AdvanceMosaic(p) ==
  LET m == p.mosaic
      restart == [m EXCEPT !.vindex = 0, !.vsize = m.size]
      advanced == IF m.vindex + 1 = m.vsize THEN restart ELSE [m EXCEPT !.vindex = @ + 1]
  IN  CASE p.v = VisibleVStart -> [p EXCEPT !.mosaic = restart]
        [] p.v \in (VisibleVStart + 1)..(VisibleVEnd239 - 1) -> [p EXCEPT !.mosaic = advanced]
        [] OTHER -> p

EnterLine(p) ==
  LET v == (p.v + 1) % LinesPerFrame
      q == [p EXCEPT !.h = 0, !.v = v, !.obj.next = 0, !.obj.sync = 0,
                     !.obj.range_over = @ /\ v # 0, !.obj.time_over = @ /\ v # 0,
                     !.row = [b \in 0..3 |-> [@[b] EXCEPT !.key = -1]]]
      r == AdvanceMosaic(q)
  IN  CASE v = VblankStartLine(p) ->
             [r EXCEPT !.nmi_flag = TRUE, !.oam_addr = IF p.forced_blank THEN @ ELSE p.oam_reload]
        [] v = 0 -> [r EXCEPT !.nmi_flag = FALSE]
        [] OTHER -> r

AdvanceHv(p) == IF p.h + 1 < DotsPerLine THEN [p EXCEPT !.h = @ + 1] ELSE EnterLine(p)

EndOfFrame(p) ==
  IF p.h = 0 /\ p.v = 0
  THEN [p EXCEPT !.front = p.back, !.back = p.front, !.field = ~@] ELSE p

SyncAtFence(p) ==
  IF p.h = p.obj.sync THEN [SyncObjPipeline(p, p.h + 1) EXCEPT !.obj.sync = DotsPerLine - 1] ELSE p

LeaveDot(p, rest) == EndOfFrame(AdvanceHv([p EXCEPT !.local_time = @ + rest, !.partial = 0]))

DrawDot(p, rest) == LeaveDot(EmitPixel(p, p.h, p.v), rest)

(* One whole dot: the writes made before it, the pipeline's fences, the pixel. *)
CompleteDot(p) ==
  DrawDot(SyncAtFence(DrainPendingWritesUpTo(p, p.local_time - p.partial)),
          DotCost(p.h, p.v, p.field) - p.partial)

RECURSIVE CatchUpTo(_, _)
CatchUpTo(p, target) ==
  LET available == target - p.local_time
  IN  IF available <= 0 THEN p
      ELSE IF available < DotCost(p.h, p.v, p.field) - p.partial
      THEN [p EXCEPT !.partial = @ + available, !.local_time = target]
      ELSE CatchUpTo(CompleteDot(p), target)

(***************************************************************************)
(* ProjectHvAt: where the beam will be at t, without drawing anything.     *)
(***************************************************************************)
RECURSIVE Project(_, _, _, _, _)
Project(v, h, field, start, t) ==
  LET nextV == (v + 1) % LinesPerFrame
      nextField == IF nextV = 0 THEN ~field ELSE field
      line == LineCycles(v, field)
      dot == DotCost(h, v, field)
  IN  IF h = 0 /\ t >= start + line THEN Project(nextV, 0, nextField, start + line, t)
      ELSE IF t < start + dot THEN <<v, h>>
      ELSE IF h + 1 < DotsPerLine THEN Project(v, h + 1, field, start + dot, t)
      ELSE Project(nextV, 0, nextField, start + dot, t)

ProjectHvAt(p, t) == Project(p.v, p.h, p.field, p.local_time - p.partial, t)

-----------------------------------------------------------------------------
(***************************************************************************)
(* What the other devices call.  A bus read catches the PPU up first       *)
(* (SystemBus::FollowInline) and then sees every earlier write; the        *)
(* queries of CpuMmio only catch up.                                       *)
(***************************************************************************)
Stat77(p) ==
  ByPpu1(p, 1 + (IF p.obj.range_over THEN 64 ELSE 0) + (IF p.obj.time_over THEN 128 ELSE 0)
              + Bit(p.read_latch, 4) * 16)

ReadStat77(p) == Stat77(SyncObjPipeline(p, p.h))

ReadDrained(p, reg, latchEnabled) ==
  CASE reg = "SLHV" -> Answer(IF latchEnabled THEN LatchHvCounters(p) ELSE p, -1)
    [] reg = "STAT77" -> ReadStat77(p)
    [] OTHER -> ReadPort(p, reg)

ReadRegister(p, reg, t, latchEnabled) ==
  ReadDrained(DrainPendingWritesUpTo(CatchUpTo(p, t), t), reg, latchEnabled)

WriteRegister(p, reg, data, t) == EnqueueWrite(p, [cycle |-> t, reg |-> reg, data |-> data])

ClearVblankNmiFlag(p) == Answer([p EXCEPT !.nmi_flag = FALSE], IF p.nmi_flag THEN 1 ELSE 0)

QueryAndClearVblankNmiFlag(p, t) == ClearVblankNmiFlag(CatchUpTo(p, t))

HvbStatus(p) ==
  Answer(p, (IF p.v >= VblankStartLine(p) THEN 2 ELSE 0) + (IF p.h >= HblankStart THEN 1 ELSE 0))

(* Mutant: the flags are those of the dot the PPU was left at. *)
QueryHvbStatusStale(p, t) == HvbStatus(p)

QueryHvbStatus(p, t) == HvbStatus(CatchUpTo(p, t))

OnVblankLine(p) == Answer(p, IF p.v = VblankStartLine(p) THEN 1 ELSE 0)

SampleNmiLine(p, t) == OnVblankLine(CatchUpTo(p, t))
=============================================================================
