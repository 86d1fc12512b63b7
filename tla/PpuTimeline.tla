---------------------------- MODULE PpuTimeline ----------------------------
(***************************************************************************)
(* The timing of the raster (the static helpers of Ppu in hw/sppu/ppu.h):  *)
(* what one dot, one line and one frame cost in master cycles, and where   *)
(* the beam is at a master time.                                           *)
(*                                                                         *)
(* The code's numbers are 340 dots of 4 cycles, 6 for dots 323 and 327,    *)
(* 262 lines, and a line 240 without long dots in every frame whose field  *)
(* is set; the constants let a small raster keep that structure.           *)
(***************************************************************************)
EXTENDS Integers, FiniteSets

CONSTANTS
  DotsPerLine,    \* kDotsPerLine, 340
  LinesPerFrame,  \* kLinesPerFrameNtsc, 262
  DotCycles,      \* 4
  LongDots,       \* {323, 327}
  LongDotCycles,  \* 6
  ShortLine       \* 240

ASSUME RasterAssumption ==
  /\ DotsPerLine \in Nat \ {0} /\ LinesPerFrame \in Nat \ {0}
  /\ DotCycles \in Nat \ {0} /\ LongDotCycles \in Nat /\ LongDotCycles >= DotCycles
  /\ LongDots \subseteq 0..(DotsPerLine - 1)
  /\ ShortLine \in 0..(LinesPerFrame - 1)

IsShortLine(v, field) == v = ShortLine /\ field

DotCost(h, v, field) ==
  IF h \in LongDots /\ ~IsShortLine(v, field) THEN LongDotCycles ELSE DotCycles

(***************************************************************************)
(* kNormalLineCycles and kShortLineCycles: a line is the sum of its dots.  *)
(***************************************************************************)
NormalLineCycles ==
  DotsPerLine * DotCycles + Cardinality(LongDots) * (LongDotCycles - DotCycles)

LineCycles(v, field) ==
  IF IsShortLine(v, field) THEN DotsPerLine * DotCycles ELSE NormalLineCycles

(***************************************************************************)
(* MasterCycleAt(target_h, target_v, frame_origin, field): the lines and   *)
(* dots of the frame before that dot, as the code's two loops add them up. *)
(***************************************************************************)
SumBelow(cost) ==
  LET below[n \in Nat] == IF n = 0 THEN 0 ELSE below[n - 1] + cost[n - 1] IN below

LineStart(field) == SumBelow([v \in Nat |-> LineCycles(v, field)])

DotStart(v, field) == SumBelow([h \in Nat |-> DotCost(h, v, field)])

DotOffset ==
  [field \in BOOLEAN |-> [v \in 0..LinesPerFrame |-> [h \in 0..(DotsPerLine - 1) |->
     LineStart(field)[v] + DotStart(v, field)[h]]]]

MasterCycleAt(h, v, origin, field) == origin + DotOffset[field][v][h]

FrameCycles(field) == MasterCycleAt(0, LinesPerFrame, 0, field)

-----------------------------------------------------------------------------

(***************************************************************************)
(* The beam.  The PPU starts at (h, v) = (0, 0) of a frame with field      *)
(* FALSE at master time 0 and toggles field at each frame wrap             *)
(* (Ppu::Reset, Ppu::CatchUpTo), so the cursor h_, v_, field_ and          *)
(* partial_dot_cycles_ is a function of local_time_.                       *)
(***************************************************************************)
Beam == [h : 0..(DotsPerLine - 1), v : 0..(LinesPerFrame - 1),
         field : BOOLEAN, partial : 0..(LongDotCycles - 1)]

TwoFrames == FrameCycles(FALSE) + FrameCycles(TRUE)

(***************************************************************************)
(* The beam is in dot (h, v) of a frame, `partial' cycles into it, when    *)
(* that dot began `partial' cycles ago and is not over.                    *)
(***************************************************************************)
BeamPhase ==
  [r \in 0..(TwoFrames - 1) |->
     LET field == r >= FrameCycles(FALSE)
         at(h, v) == MasterCycleAt(h, v, IF field THEN FrameCycles(FALSE) ELSE 0, field)
     IN  CHOOSE b \in Beam :
           /\ b.field = field
           /\ at(b.h, b.v) + b.partial = r
           /\ b.partial < DotCost(b.h, b.v, field)]

BeamAt(t) == BeamPhase[t % TwoFrames]

(***************************************************************************)
(* Dot (h, v) begins exactly at master time t.                             *)
(***************************************************************************)
DotBegins(h, v, t) ==
  LET b == BeamAt(t) IN b.h = h /\ b.v = v /\ b.partial = 0

IsFrameStart(t) == DotBegins(0, 0, t)
=============================================================================
