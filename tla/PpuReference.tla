---------------------------- MODULE PpuReference ----------------------------
(***************************************************************************)
(* What the lazy PPU should look like from outside: a PPU that works at    *)
(* every master cycle.  Its beam is BeamAt of the time; a dot sees exactly *)
(* the writes made up to its start; the object pipeline runs dot by dot;   *)
(* nothing is cached, and the pixel in front is found by going down the    *)
(* priority ladder from the top, with every window worked out on the spot. *)
(* The state is the device's record, of which the row caches, the built    *)
(* object line, the compiled window regions and the array's cursor are not *)
(* used; the log is a plain queue without a limit.                         *)
(***************************************************************************)
EXTENDS Ppu

LOCAL INSTANCE SequencesExt
LOCAL INSTANCE FiniteSetsExt

-----------------------------------------------------------------------------
(***************************************************************************)
(* The pixel in front.                                                     *)
(***************************************************************************)
OrderMode7 == <<<<Obj, 3>>, <<Obj, 2>>, <<Obj, 1>>, <<0, 0>>, <<Obj, 0>>>>
OrderMode7ExtBg ==
  <<<<Obj, 3>>, <<Obj, 2>>, <<1, 1>>, <<Obj, 1>>, <<0, 0>>, <<Obj, 0>>, <<1, 0>>>>

Ladder(p) ==
  CASE p.bg_mode = 0 -> OrderMode0
    [] p.bg_mode = 1 -> IF p.bg3_priority THEN OrderMode1Bg3High ELSE OrderMode1Normal
    [] p.bg_mode \in 2..4 -> OrderMode234
    [] p.bg_mode = 7 -> IF p.m7_extbg THEN OrderMode7ExtBg ELSE OrderMode7
    [] OTHER -> <<>>

Candidate(layer, priority, color, index, rgb) ==
  [layer |-> layer, priority |-> priority, opaque |-> color # 0, index |-> index, color |-> rgb]

ObjectAt(p, x) ==
  LET obj == BuildObjPixels(p).obj_line[x]
  IN  Candidate(Obj, obj \div 256, obj, obj % 256, Fetch(p.cgram, obj % 256))

TiledPixelAt(p, b, pos) ==
  PixelIn(p, b, DecodeRow(p, b, Bpp(p, b), pos), pos)

TiledCandidate(p, b, px) ==
  Candidate(b, IF px.priority THEN 1 ELSE 0, px.color, PaletteIndex(p, b, px),
            ColorOf(p, b, px, PaletteIndex(p, b, px)))

TiledAt(p, b, x, y) == TiledCandidate(p, b, TiledPixelAt(p, b, EffectivePosition(p, b, x, y)))

RotatedCandidate(p, b, px) ==
  LET color == IF b = 0 THEN px ELSE px % 128
  IN  Candidate(b, IF b = 0 THEN 0 ELSE px \div 128, color, color,
                IF b = 0 /\ Bit(p.cgwsel, 0) = 1 THEN DirectColor(px, 0) ELSE Fetch(p.cgram, color))

RotatedAt(p, b, x, y) ==
  RotatedCandidate(p, b, FetchMode7Pixel(p, MosaicSourceX(p, b, x), MosaicSourceY(p, b, y)))

CandidateAt(p, layer, x, y) ==
  CASE layer = Obj -> ObjectAt(p, x)
    [] layer # Obj /\ p.bg_mode = 7 -> RotatedAt(p, layer, x, y)
    [] layer # Obj /\ p.bg_mode # 7 -> TiledAt(p, layer, x, y)

MaskedAt(p, t, x) ==
  MaskedIn(p, t, (IF Inside(p, 0, x) THEN 1 ELSE 0) + (IF Inside(p, 1, x) THEN 2 ELSE 0))

(* Down the ladder: the first rung whose candidate is opaque and of its priority. *)
FirstOpaque(p, ladder, shown, candidates) ==
  LET opaqueAt(c, priority) == c.opaque /\ c.priority = priority
      hits == {i \in DOMAIN ladder : /\ ladder[i][1] \in shown
                                     /\ opaqueAt(candidates[i], ladder[i][2])}
  IN  IF hits = {} THEN Candidate(Backdrop, 0, 1, 0, Fetch(p.cgram, 0)) ELSE candidates[Min(hits)]

FrontOf(p, x, y, layers, windowed) ==
  LET shown == {l \in layers : ~(l \in windowed /\ MaskedAt(p, l, x))}
      ladder == Ladder(p)
  IN  FirstOpaque(p, ladder, shown, [i \in DOMAIN ladder |-> CandidateAt(p, ladder[i][1], x, y)])

DrawReference(p) ==
  LET x == p.h - VisibleHStart
      y == p.v - VisibleVStart
      visible == x \in 0..(ScreenWidth - 1) /\ p.v \in VisibleVStart..(VisibleVEnd(p) - 1)
      color == ApplyColorMath(p, FrontOf(p, x, y, p.main_layers, p.main_window),
                                 FrontOf(p, x, y, p.sub_layers, p.sub_window), MaskedAt(p, Backdrop, x))
  IN  Draw(p, <<p.v, x>>,
           IF visible /\ ~p.forced_blank THEN BrightnessScale(color, p.brightness) ELSE 0)

-----------------------------------------------------------------------------
(***************************************************************************)
(* One master cycle, and the calls of the other devices.                   *)
(***************************************************************************)
MadeUpTo(p, t) == SelectSeq(p.log, LAMBDA w : w.cycle <= t)

ApplyUpTo(p, t) ==
  [FoldLeft(LAMBDA q, w : Decode(SyncObjPipeline(q, q.h), w.reg, w.data), p, MadeUpTo(p, t))
     EXCEPT !.log = SelectSeq(@, LAMBDA w : w.cycle > t)]

SyncedReference(p) == SyncObjPipeline(p, p.h + 1)

DotReference(p) ==
  EndOfFrame(AdvanceHv(DrawReference(SyncedReference(ApplyUpTo(p, p.local_time - p.partial)))))

RECURSIVE EveryCycleUpTo(_, _)
EveryCycleUpTo(p, t) ==
  LET next == BeamAt(p.local_time + 1)
      q == IF next.partial = 0 THEN DotReference(p) ELSE p
  IN  IF p.local_time >= t THEN p
      ELSE EveryCycleUpTo([q EXCEPT !.local_time = @ + 1, !.partial = next.partial], t)

ReadReference(p, reg, t, latchEnabled) ==
  ReadDrained(ApplyUpTo(EveryCycleUpTo(p, t), t), reg, latchEnabled)

WriteReference(p, reg, data, t) ==
  [p EXCEPT !.log = Append(@, [cycle |-> t, reg |-> reg, data |-> data])]
=============================================================================
