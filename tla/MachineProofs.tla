--------------------------- MODULE MachineProofs ---------------------------
(***************************************************************************)
(* What the clockwork promises, proved for every raster, program, cost of  *)
(* an operation, length of a DMA burst, budget and place of the fences.    *)
(* The raster and the timer are those of CpuMmioProofs, whose theorems are *)
(* taken over for the machine's own copy of the definitions first; its     *)
(* arithmetic unit, of which the machine keeps no state, stays reset here. *)
(***************************************************************************)
EXTENDS Machine, NaturalFacts

Proved == INSTANCE CpuMmioProofs WITH ByteBits <- 8, math <- <<>>, sum <- <<>>

-----------------------------------------------------------------------------
(***************************************************************************)
(* The raster of the instance is the machine's raster.                     *)
(***************************************************************************)
LEMMA SameDots ==
  ASSUME NEW h, NEW v, NEW field
  PROVE  Proved!DotCost(h, v, field) = DotCost(h, v, field)
  BY Zenon DEF Proved!DotCost, DotCost, Proved!IsShortLine, IsShortLine

(***************************************************************************)
(* The same for a line ...                                                 *)
(***************************************************************************)
LEMMA SameLines ==
  /\ Proved!NormalLineCycles = NormalLineCycles
  /\ \A v, field : Proved!LineCycles(v, field) = LineCycles(v, field)
<1>1. Proved!Cardinality(LongDots) = Cardinality(LongDots)
  BY Zenon DEF Proved!Cardinality, Cardinality
<1>2. Proved!NormalLineCycles = NormalLineCycles
  BY <1>1, Zenon DEF Proved!NormalLineCycles, NormalLineCycles
<1>3. ASSUME NEW v, NEW field
      PROVE  Proved!LineCycles(v, field) = LineCycles(v, field)
  BY <1>2, Zenon DEF Proved!LineCycles, LineCycles, Proved!IsShortLine, IsShortLine
<1> QED
  BY <1>2, <1>3, Zenon

(***************************************************************************)
(* ... for the places of lines and dots in a frame ...                     *)
(***************************************************************************)
LEMMA SameOffsets ==
  /\ \A field : Proved!LineStart(field) = LineStart(field)
  /\ Proved!DotOffset = DotOffset
<1>1. ASSUME NEW cost
      PROVE  Proved!SumBelow(cost) = SumBelow(cost)
  BY Zenon DEF Proved!SumBelow, SumBelow
<1>2. ASSUME NEW field
      PROVE  Proved!LineStart(field) = LineStart(field)
  BY <1>1, SameLines DEF Proved!LineStart, LineStart
<1>3. ASSUME NEW v, NEW field
      PROVE  Proved!DotStart(v, field) = DotStart(v, field)
  BY <1>1, SameDots DEF Proved!DotStart, DotStart
<1>4. Proved!DotOffset = DotOffset
  BY <1>2, <1>3 DEF Proved!DotOffset, DotOffset
<1> QED
  BY <1>2, <1>4

(***************************************************************************)
(* ... for the length of a frame ...                                       *)
(***************************************************************************)
LEMMA SameFrames ==
  /\ \A h, v, origin, field :
       Proved!MasterCycleAt(h, v, origin, field) = MasterCycleAt(h, v, origin, field)
  /\ \A field : Proved!FrameCycles(field) = FrameCycles(field)
  /\ Proved!TwoFrames = TwoFrames
<1>1. ASSUME NEW h, NEW v, NEW origin, NEW field
      PROVE  Proved!MasterCycleAt(h, v, origin, field) = MasterCycleAt(h, v, origin, field)
  BY SameOffsets, Zenon DEF Proved!MasterCycleAt, MasterCycleAt
<1>2. ASSUME NEW field
      PROVE  Proved!FrameCycles(field) = FrameCycles(field)
  BY <1>1, Zenon DEF Proved!FrameCycles, FrameCycles
<1>3. Proved!TwoFrames = TwoFrames
  BY <1>2, Zenon DEF Proved!TwoFrames, TwoFrames
<1> QED
  BY <1>1, <1>2, <1>3, Zenon

(***************************************************************************)
(* ... and for the beam.                                                   *)
(***************************************************************************)
LEMMA SameBeam ==
  ASSUME NEW t
  PROVE  Proved!BeamAt(t) = BeamAt(t)
<1>1. Proved!Beam = Beam
  BY Zenon DEF Proved!Beam, Beam
<1>2. Proved!BeamPhase = BeamPhase
  <2> DEFINE ours(r, h, v) == MasterCycleAt(h, v, IF r >= FrameCycles(FALSE) THEN FrameCycles(FALSE) ELSE 0,
                                          r >= FrameCycles(FALSE))
             In(r, b) == /\ b.field = (r >= FrameCycles(FALSE))
                         /\ ours(r, b.h, b.v) + b.partial = r
                         /\ b.partial < DotCost(b.h, b.v, r >= FrameCycles(FALSE))
             its(r, h, v) == Proved!MasterCycleAt(h, v,
                               IF r >= Proved!FrameCycles(FALSE) THEN Proved!FrameCycles(FALSE) ELSE 0,
                               r >= Proved!FrameCycles(FALSE))
             ItsIn(r, b) == /\ b.field = (r >= Proved!FrameCycles(FALSE))
                            /\ its(r, b.h, b.v) + b.partial = r
                            /\ b.partial < Proved!DotCost(b.h, b.v, r >= Proved!FrameCycles(FALSE))
  <2>1. BeamPhase = [r \in 0..(TwoFrames - 1) |-> CHOOSE b \in Beam : In(r, b)]
    BY Zenon DEF BeamPhase
  <2>2. Proved!BeamPhase = [r \in 0..(Proved!TwoFrames - 1) |-> CHOOSE b \in Proved!Beam : ItsIn(r, b)]
    BY Zenon DEF Proved!BeamPhase
  <2>3. Proved!TwoFrames = TwoFrames /\ Proved!FrameCycles(FALSE) = FrameCycles(FALSE)
    BY SameFrames, Zenon
  <2>4. ASSUME NEW r, NEW b
        PROVE  ItsIn(r, b) = In(r, b)
    BY <2>3, SameFrames, SameDots, Zenon
  <2> HIDE DEF In, ItsIn
  <2>5. ASSUME NEW r
        PROVE  (CHOOSE b \in Beam : ItsIn(r, b)) = (CHOOSE b \in Beam : In(r, b))
    BY <2>4
  <2> QED
    BY <1>1, <2>1, <2>2, <2>3, <2>5
<1> QED
  BY <1>2, SameFrames, Zenon DEF Proved!BeamAt, BeamAt

(***************************************************************************)
(* So is the raster on which the machine's timer walks, ...                *)
(***************************************************************************)
LEMMA SameTimerRaster ==
  /\ \A t : Proved!BeamAt(t) = Timer!BeamAt(t)
  /\ \A h, v, origin, field :
       Proved!MasterCycleAt(h, v, origin, field) = Timer!MasterCycleAt(h, v, origin, field)
  /\ \A field : Proved!FrameCycles(field) = Timer!FrameCycles(field)
  /\ Proved!TwoFrames = Timer!TwoFrames
<1> USE DEF Proved!DotOffset, Timer!DotOffset, Proved!LineStart, Timer!LineStart,
            Proved!DotStart, Timer!DotStart, Proved!SumBelow, Timer!SumBelow,
            Proved!LineCycles, Timer!LineCycles, Proved!NormalLineCycles, Timer!NormalLineCycles,
            Proved!Cardinality, Timer!Cardinality, Proved!DotCost, Timer!DotCost,
            Proved!IsShortLine, Timer!IsShortLine, Proved!MasterCycleAt, Timer!MasterCycleAt,
            Proved!FrameCycles, Timer!FrameCycles, Proved!TwoFrames, Timer!TwoFrames
<1>1. ASSUME NEW t
      PROVE  Proved!BeamAt(t) = Timer!BeamAt(t)
  BY Zenon DEF Proved!BeamAt, Timer!BeamAt, Proved!BeamPhase, Timer!BeamPhase, Proved!Beam, Timer!Beam
<1>2. ASSUME NEW h, NEW v, NEW origin, NEW field
      PROVE  Proved!MasterCycleAt(h, v, origin, field) = Timer!MasterCycleAt(h, v, origin, field)
  BY Zenon
<1>3. ASSUME NEW field
      PROVE  Proved!FrameCycles(field) = Timer!FrameCycles(field)
  BY Zenon
<1>4. Proved!TwoFrames = Timer!TwoFrames
  BY Zenon
<1> QED
  BY ONLY <1>1, <1>2, <1>3, <1>4, Zenon

(***************************************************************************)
(* ... and the match it computes.                                          *)
(***************************************************************************)
LEMMA SameMatch ==
  ASSUME NEW m, NEW ht, NEW vt, NEW t, NEW p
  PROVE  /\ Proved!ReachableMatch(m, ht, vt) = Timer!ReachableMatch(m, ht, vt)
         /\ Proved!ComputeNextMatch(m, ht, vt, t, p) = Timer!ComputeNextMatch(m, ht, vt, t, p)
<1> DEFINE b == Proved!BeamAt(p)
           c == Timer!BeamAt(p)
           Frames == 0..(2 * (1 + t \div Proved!TwoFrames))
           Turns == 0..(2 * (1 + t \div Timer!TwoFrames))
           Lines(k) == IF Proved!VEnabled(m) THEN {vt}
                       ELSE (IF k = 0 THEN b.v ELSE 0)..(LinesPerFrame - 1)
           Rows(k) == IF Timer!VEnabled(m) THEN {vt}
                      ELSE (IF k = 0 THEN c.v ELSE 0)..(LinesPerFrame - 1)
           Match(k, v) == Proved!MasterCycleAt(IF Proved!HEnabled(m) THEN ht ELSE 0, v,
                            Proved!CursorOrigin(p) + (k \div 2) * Proved!TwoFrames
                              + (IF k % 2 = 0 THEN 0 ELSE Proved!FrameCycles(b.field)),
                            IF k % 2 = 0 THEN b.field ELSE ~b.field)
           Hit(k, v) == Timer!MasterCycleAt(IF Timer!HEnabled(m) THEN ht ELSE 0, v,
                          Timer!CursorOrigin(p) + (k \div 2) * Timer!TwoFrames
                            + (IF k % 2 = 0 THEN 0 ELSE Timer!FrameCycles(c.field)),
                          IF k % 2 = 0 THEN c.field ELSE ~c.field)
<1>1. Proved!Candidates(m, ht, vt, t, p) = UNION {{Match(k, v) : v \in Lines(k)} : k \in Frames}
  BY Zenon DEF Proved!Candidates
<1>2. Timer!Candidates(m, ht, vt, t, p) = UNION {{Hit(k, v) : v \in Rows(k)} : k \in Turns}
  BY Zenon DEF Timer!Candidates
<1>3. Frames = Turns
  BY SameTimerRaster, Zenon
<1>4. ASSUME NEW k
      PROVE  Lines(k) = Rows(k)
  BY SameTimerRaster, Zenon DEF Proved!VEnabled, Timer!VEnabled
<1>5. Proved!CursorOrigin(p) = Timer!CursorOrigin(p)
  BY SameTimerRaster, Zenon DEF Proved!CursorOrigin, Timer!CursorOrigin
<1>6. ASSUME NEW k, NEW v
      PROVE  Match(k, v) = Hit(k, v)
  BY <1>5, SameTimerRaster, Zenon DEF Proved!HEnabled, Timer!HEnabled
<1> HIDE DEF Frames, Turns, Lines, Rows, Match, Hit
<1>7. Proved!Candidates(m, ht, vt, t, p) = Timer!Candidates(m, ht, vt, t, p)
  BY <1>1, <1>2, <1>3, <1>4, <1>6
<1>8. Proved!ReachableMatch(m, ht, vt) = Timer!ReachableMatch(m, ht, vt)
  BY Zenon DEF Proved!ReachableMatch, Timer!ReachableMatch, Proved!HEnabled, Timer!HEnabled,
               Proved!VEnabled, Timer!VEnabled
<1>9. ASSUME NEW S
      PROVE  Proved!Min(S) = Timer!Min(S)
  BY Zenon DEF Proved!Min, Timer!Min
<1> QED
  BY <1>7, <1>8, <1>9, Zenon DEF Proved!ComputeNextMatch, Timer!ComputeNextMatch

-----------------------------------------------------------------------------
(***************************************************************************)
(* What CpuMmioProofs assumes of its constants, and what the program       *)
(* stores in the timer's registers.                                        *)
(***************************************************************************)
LEMMA TimerAssumptions ==
  /\ HTimes \subseteq Nat /\ VTimes \subseteq Nat /\ MaxWrites \in Nat
  /\ 8 \in Nat \ {0}
  BY MachineAssumption

(***************************************************************************)
(* The sizes of the raster.                                                *)
(***************************************************************************)
LEMMA RasterIs ==
  /\ LinesPerFrame \in Nat \ {0} /\ NormalLineCycles \in Nat \ {0} /\ TwoFrames \in Nat \ {0}
<1>1. Proved!NormalLineCycles \in Nat \ {0}
  BY Proved!CostsAreNatural, RasterAssumption, ForeverAssumption, TimerAssumptions
<1>2. Proved!TwoFrames \in Nat \ {0}
  BY Proved!TwoFramesAre, RasterAssumption, ForeverAssumption, TimerAssumptions
<1> QED
  BY <1>1, <1>2, SameLines, SameFrames, RasterAssumption

(***************************************************************************)
(* How long a frame is: longer than all its lines but one, the short line  *)
(* included, and what the places of its lines add up to.                   *)
(***************************************************************************)
LEMMA FramesAre ==
  ASSUME NEW field \in BOOLEAN
  PROVE  /\ FrameCycles(field) \in Nat
         /\ FrameCycles(field) > (LinesPerFrame - 1) * NormalLineCycles
         /\ \A base \in Nat :
              MasterCycleAt(0, LinesPerFrame, base, field) = base + FrameCycles(field)
<1> USE RasterAssumption, ForeverAssumption, TimerAssumptions
<1>1. /\ Proved!FrameCycles(field) = Proved!LineStart(field)[LinesPerFrame]
      /\ Proved!FrameCycles(field) \in Nat
  BY Proved!FrameLength
<1>2. /\ Proved!LineStart(field)[LinesPerFrame]
           = LinesPerFrame * Proved!NormalLineCycles - Proved!Missing(field, LinesPerFrame)
      /\ Proved!Missing(field, LinesPerFrame) \in Nat
      /\ Proved!Missing(field, LinesPerFrame) < Proved!NormalLineCycles
  BY RasterIs, Proved!LinesBefore
<1>3. Proved!FrameCycles(field) = FrameCycles(field) /\ Proved!NormalLineCycles = NormalLineCycles
  BY SameFrames, SameLines
<1>4. /\ FrameCycles(field) \in Nat
      /\ FrameCycles(field) > LinesPerFrame * NormalLineCycles - NormalLineCycles
  BY <1>1, <1>2, <1>3, RasterIs
<1>5. LinesPerFrame * NormalLineCycles - NormalLineCycles = (LinesPerFrame - 1) * NormalLineCycles
  BY RasterIs
<1>6. ASSUME NEW base \in Nat
      PROVE  MasterCycleAt(0, LinesPerFrame, base, field) = base + FrameCycles(field)
  <2>1. Proved!DotOffset[field][LinesPerFrame][0] \in Nat
    <3>1. LinesPerFrame \in 0..LinesPerFrame /\ 0 \in Proved!Dot
      BY RasterIs DEF Proved!Dot
    <3> QED
      BY <3>1, Proved!Offsets
  <2>2. DotOffset[field][LinesPerFrame][0] \in Nat
    BY <2>1, SameOffsets
  <2>3. MasterCycleAt(0, LinesPerFrame, base, field) = base + DotOffset[field][LinesPerFrame][0]
    BY DEF MasterCycleAt
  <2>4. FrameCycles(field) = 0 + DotOffset[field][LinesPerFrame][0]
    BY DEF FrameCycles, MasterCycleAt
  <2> QED
    BY <2>2, <2>3, <2>4
<1> QED
  BY <1>4, <1>5, <1>6

(***************************************************************************)
(* A frame lasts, whichever field the PPU is in when it is asked.          *)
(***************************************************************************)
LEMMA PeriodsAre ==
  ASSUME NEW p
  PROVE  NextFramePeriod(p) \in Nat \ {0}
<1> DEFINE long == LineCycles(ShortLine, FALSE)
           short == LineCycles(ShortLine, TRUE)
<1>1. /\ Proved!LineCycles(ShortLine, FALSE) \in Nat \ {0}
      /\ Proved!LineCycles(ShortLine, TRUE) \in Nat \ {0}
  <2>1. ShortLine \in Nat
    BY RasterAssumption
  <2> QED
    BY <2>1, Proved!CostsAreNatural, RasterAssumption, ForeverAssumption, TimerAssumptions
<1>2. long \in Nat \ {0} /\ short \in Nat \ {0}
  BY <1>1, SameLines
<1>3. long = NormalLineCycles
  BY Zenon DEF LineCycles, IsShortLine
<1>4. LinesPerFrame * NormalLineCycles >= NormalLineCycles
  <2>1. (LinesPerFrame - 1) * NormalLineCycles >= 0
    BY RasterIs
  <2> QED
    BY <2>1, RasterIs
<1>5. LinesPerFrame * NormalLineCycles \in Nat
  BY RasterIs
<1>6. CASE BeamAt(p).field
  <2>1. NextFramePeriod(p) = LinesPerFrame * NormalLineCycles - (long - short)
    BY <1>6, Zenon DEF NextFramePeriod
  <2> HIDE DEF long, short
  <2>2. ASSUME NEW all \in Nat, NEW l \in Nat \ {0}, NEW s \in Nat \ {0}, all >= l
        PROVE  all - (l - s) \in Nat \ {0}
    BY <2>2
  <2> QED
    BY <2>1, <2>2, <1>2, <1>3, <1>4, <1>5
<1>7. CASE ~BeamAt(p).field
  <2>1. NextFramePeriod(p) = LinesPerFrame * NormalLineCycles - 0
    BY <1>7, Zenon DEF NextFramePeriod
  <2> QED
    BY <2>1, <1>4, <1>5, RasterIs
<1> QED
  BY <1>6, <1>7

(***************************************************************************)
(* The match that the timer computes lies after the time given.            *)
(***************************************************************************)
LEMMA MatchIsLater ==
  ASSUME NEW m, NEW ht \in Nat, NEW vt \in Nat, NEW t \in Nat, NEW p \in Nat,
         Timer!ReachableMatch(m, ht, vt)
  PROVE  /\ Timer!ComputeNextMatch(m, ht, vt, t, p) \in Nat
         /\ t < Timer!ComputeNextMatch(m, ht, vt, t, p)
         /\ Timer!ComputeNextMatch(m, ht, vt, t, p) <= p + t + 2 * TwoFrames
<1>1. Proved!ReachableMatch(m, ht, vt)
  BY SameMatch
<1>2. Proved!FirstMatch(m, ht, vt, t, p, Proved!ComputeNextMatch(m, ht, vt, t, p))
  BY <1>1, Proved!NextMatchIsFirst, RasterAssumption, ForeverAssumption, TimerAssumptions
<1>3. /\ Proved!ComputeNextMatch(m, ht, vt, t, p) \in Nat
      /\ t < Proved!ComputeNextMatch(m, ht, vt, t, p)
      /\ Proved!ComputeNextMatch(m, ht, vt, t, p) <= p + t + 2 * Proved!TwoFrames
  BY <1>2 DEF Proved!FirstMatch
<1> QED
  BY <1>3, SameMatch, SameFrames

(***************************************************************************)
(* A beam that comes to a line enters it at its first dot.                 *)
(***************************************************************************)
LEMMA LineIsEntered ==
  ASSUME NEW a \in Nat, NEW b \in Nat, a < b, NEW v \in 0..(LinesPerFrame - 1),
         BeamAt(a).v # v, BeamAt(b).v = v
  PROVE  \E t \in (a + 1)..b : DotBegins(0, v, t)
<1>1. v \in Proved!Line
  BY DEF Proved!Line
<1>2. Proved!BeamAt(a).v # v /\ Proved!BeamAt(b).v = v
  BY SameBeam, Zenon
<1>3. PICK t \in (a + 1)..b : Proved!DotBegins(0, v, t)
  BY <1>1, <1>2, Proved!LineEntered, RasterAssumption, ForeverAssumption, TimerAssumptions
<1>4. DotBegins(0, v, t)
  BY <1>3, SameBeam, Zenon DEF Proved!DotBegins, DotBegins
<1> QED
  BY <1>4

(***************************************************************************)
(* The next event is the earliest of the queue.                            *)
(***************************************************************************)
LEMMA NextIsFirst ==
  ASSUME NEW q \in SUBSET SignalEvent, q # {}
  PROVE  /\ NextEventTime(q) \in Nat
         /\ \A d \in q : NextEventTime(q) <= d.time
         /\ \A e : IsTop(e, q) => e.time = NextEventTime(q)
<1>1. Proved!SignalEvent = SignalEvent
  BY Zenon DEF Proved!SignalEvent, SignalEvent, Proved!SignalKind, SignalKind,
     Proved!FrameEnd, FrameEnd, Proved!VblankNmiBoundary, VblankNmiBoundary,
     Proved!HIrqMatch, HIrqMatch, Proved!AutoJoypadStart, AutoJoypadStart,
     Proved!HdmaFire, HdmaFire
<1>2. Proved!NextEventTime(q) = NextEventTime(q)
  BY Zenon DEF Proved!NextEventTime, NextEventTime, Proved!IsTop, IsTop, Proved!Before, Before
<1>3. \A e : Proved!IsTop(e, q) <=> IsTop(e, q)
  BY Zenon DEF Proved!IsTop, IsTop, Proved!Before, Before
<1>4. /\ Proved!NextEventTime(q) \in Nat
      /\ \A d \in q : Proved!NextEventTime(q) <= d.time
      /\ \A e : Proved!IsTop(e, q) => e.time = Proved!NextEventTime(q)
  BY <1>1, Proved!NextEventIsFirst, RasterAssumption, ForeverAssumption, TimerAssumptions
<1> QED
  BY <1>2, <1>3, <1>4
-----------------------------------------------------------------------------
(***************************************************************************)
(* The type invariant in groups of variables that change together, and     *)
(* what it needs of the loop: a step begins before the target, and a drain *)
(* goes through a time already reached.                                    *)
(***************************************************************************)
ClockTyped ==
  /\ now \in Nat /\ refreshAt \in Nat /\ refreshLeft \in 0..RefreshCycles
  /\ \E i \in DOMAIN Cost : banked \in 0..(Cost[i] - 1)
  /\ halt \in {"none", "wai", "stp"}
  /\ wakeLeft \in 0..WakeCycles /\ wakePart \in 0..(InternalCycles - 1)

TimerTyped ==
  /\ mode \in Timer!IrqModes /\ htime \in HTimes \cup {0} /\ vtime \in VTimes \cup {0}
  /\ timeup \in BOOLEAN /\ match \in Nat

EventsTyped == queue \in SUBSET SignalEvent /\ nextSeq \in Nat

CpuTyped ==
  /\ instr \in Program \cup {"fetch", "nmi", "irq"} /\ iflag \in BOOLEAN
  /\ nmiPrev \in BOOLEAN /\ nmiPending \in BOOLEAN /\ irqLine \in BOOLEAN /\ due \in BOOLEAN

HdmaTyped ==
  hdma \in [phase : {"init", "line"}, v : 0..HdmaLastVisibleV, base : Nat,
            field : BOOLEAN, active : BOOLEAN]

DeviceTyped ==
  /\ ppu \in Nat /\ nmiEnable \in BOOLEAN /\ hdmaen \in BOOLEAN
  /\ joyStart \in Nat \cup {NoStart}
  /\ writes \in 0..MaxWrites /\ resets \in 0..MaxResets

LoopTyped ==
  /\ at \in {"host", "head", "enter", "loop", "step", "drain"}
  /\ cap \in Nat /\ target \in Nat
  /\ through \in Nat \cup {Sched!NoDrain} /\ fired \in Seq(SignalEvent)

Steady ==
  /\ at = "step" => now < target
  /\ at = "drain" <=> through # Sched!NoDrain
  /\ through <= now

Types ==
  /\ ClockTyped /\ TimerTyped /\ EventsTyped /\ CpuTyped
  /\ HdmaTyped /\ DeviceTyped /\ LoopTyped /\ Steady

(***************************************************************************)
(* The groups, and the type of the timer's history, are the type           *)
(* invariant.                                                              *)
(***************************************************************************)
LEMMA TypesAreTypeOK == Types /\ since \in Nat => TypeOK
  BY DEF Types, ClockTyped, TimerTyped, EventsTyped, CpuTyped, HdmaTyped, DeviceTyped,
         LoopTyped, TypeOK

(***************************************************************************)
(* The clock's operations keep its types.                                  *)
(***************************************************************************)
LEMMA IdleTyped ==
  ASSUME ClockTyped, target \in Nat, Clock!Idle(target)
  PROVE  ClockTyped' /\ now' = target
  BY DEF ClockTyped, Clock!Idle

(***************************************************************************)
(* Waking spends internal operations, up to the target at most.            *)
(***************************************************************************)
LEMMA WakeTyped ==
  ASSUME ClockTyped, target \in Nat, NEW left \in 1..WakeCycles, Clock!Wake(left, target)
  PROVE  ClockTyped' /\ now <= now' /\ (now' <= target \/ now' = now)
<1>1. /\ InternalCycles \in Nat \ {0} /\ WakeCycles \in Nat \ {0} /\ RefreshPeriod \in Nat \ {0}
      /\ now \in Nat /\ wakePart \in 0..(InternalCycles - 1) /\ refreshAt \in Nat
  BY MachineAssumption DEF ClockTyped
<1> DEFINE need == left * InternalCycles - wakePart
           have == IF now < target THEN target - now ELSE 0
           least == IF need < have THEN need ELSE have
           used == wakePart + least
<1>2. /\ halt = "wai" /\ now' = now + least
      /\ wakeLeft' = left - used \div InternalCycles
      /\ wakePart' = used % InternalCycles
      /\ IF wakeLeft' = 0 THEN halt' = "none" /\ refreshAt' = Clock!CaughtUpRefresh(now')
                          ELSE UNCHANGED <<halt, refreshAt>>
      /\ UNCHANGED <<refreshLeft, banked>>
  BY Zenon DEF Clock!Wake, Clock!Lesser
<1>3. left * InternalCycles >= InternalCycles /\ left * InternalCycles \in Nat
  <2>1. (left - 1) * InternalCycles >= 0
    BY <1>1
  <2> QED
    BY <2>1, <1>1
<1>4. need \in Nat /\ have \in Nat /\ least \in Nat /\ used \in Nat /\ used <= left * InternalCycles
  BY <1>1, <1>3
<1>5. now' \in Nat /\ now <= now' /\ (now' <= target \/ now' = now)
  BY <1>1, <1>2, <1>4
<1>6. wakeLeft' \in 0..WakeCycles
  <2>1. ASSUME NEW n \in Nat \ {0}, NEW k \in Nat, NEW u \in Nat, u <= k * n
        PROVE  u \div n \in Nat /\ u \div n <= k
    <3>1. u \div n \in Nat /\ u = n * (u \div n) + (u % n) /\ u % n \in 0..(n - 1)
      BY <2>1
    <3>2. SUFFICES ASSUME u \div n >= k + 1
                   PROVE  FALSE
      BY <3>1
    <3>3. n * (u \div n - k - 1) >= 0
      BY <3>1, <3>2
    <3> QED
      BY <3>1, <3>3, <2>1
  <2> HIDE DEF used
  <2>2. used \div InternalCycles \in Nat /\ used \div InternalCycles <= left
    BY <2>1, <1>1, <1>4
  <2> QED
    BY <2>2, <1>2, <1>1
<1>7. wakePart' \in 0..(InternalCycles - 1)
  <2> HIDE DEF used
  <2> QED
    BY <1>1, <1>2, <1>4
<1>8. refreshAt' \in Nat
  <2>1. Clock!CaughtUpRefresh(now') \in Nat
    <3>1. CASE refreshAt > now'
      BY <3>1, <1>1 DEF Clock!CaughtUpRefresh
    <3>2. CASE ~(refreshAt > now')
      <4>1. now' - refreshAt \in Nat
        <5>1. ASSUME NEW a \in Nat, NEW b \in Nat, ~(a > b)
              PROVE  b - a \in Nat
          BY <5>1
        <5>2. refreshAt \in Nat /\ now' \in Nat /\ ~(refreshAt > now')
          BY <3>2, <1>1, <1>5
        <5> QED
          BY <5>1, <5>2
      <4>2. ASSUME NEW x \in Nat, NEW n \in Nat \ {0}
            PROVE  (x \div n + 1) * n \in Nat
        BY <4>2
      <4>3. ((now' - refreshAt) \div RefreshPeriod + 1) * RefreshPeriod \in Nat
        BY <4>1, <4>2, <1>1
      <4> QED
        BY <3>2, <4>3, <1>1 DEF Clock!CaughtUpRefresh
    <3> QED
      BY <3>1, <3>2
  <2> QED
    BY <2>1, <1>1, <1>2
<1>9. halt' \in {"none", "wai", "stp"}
  BY <1>2
<1> QED
  BY <1>2, <1>5, <1>6, <1>7, <1>8, <1>9 DEF ClockTyped

(***************************************************************************)
(* A refresh takes time, and stops at the target.                          *)
(***************************************************************************)
LEMMA RefreshTyped ==
  ASSUME ClockTyped, target \in Nat, now < target, Clock!RefreshStall(target) \/ Clock!RefreshBegin
  PROVE  ClockTyped' /\ now <= now' /\ now' <= target
  BY MachineAssumption DEF ClockTyped, Clock!RefreshStall, Clock!RefreshBegin, Clock!Lesser

(***************************************************************************)
(* An operation that does not fit runs up to the target and banks what it  *)
(* got.                                                                    *)
(***************************************************************************)
LEMMA BankTyped ==
  ASSUME ClockTyped, target \in Nat, now < target, NEW i \in DOMAIN Cost,
         Clock!Bank(Cost[i], target)
  PROVE  ClockTyped' /\ now' = target
<1>1. Cost[i] \in Nat \ {0} /\ now \in Nat /\ banked \in Nat
  BY MachineAssumption DEF ClockTyped
<1>2. /\ banked' = banked + (target - now) /\ now' = target
      /\ UNCHANGED <<refreshAt, refreshLeft, halt, wakeLeft, wakePart>>
      /\ ~(now + Clock!Remaining(Cost[i]) <= target) /\ Clock!Remaining(Cost[i]) # 0
  BY DEF Clock!Bank, Clock!Fits
<1>3. banked' \in 0..(Cost[i] - 1)
  BY <1>1, <1>2 DEF Clock!Remaining
<1> QED
  BY <1>2, <1>3 DEF ClockTyped

(***************************************************************************)
(* An operation that fits ends by the target, plus the stall of its bus    *)
(* write.                                                                  *)
(***************************************************************************)
LEMMA RetireTyped ==
  ASSUME ClockTyped, target \in Nat, now < target, NEW i \in DOMAIN Cost, NEW stall \in Nat,
         Clock!Retire(Cost[i], stall, target)
  PROVE  /\ now' \in Nat /\ refreshAt' \in Nat /\ refreshLeft' \in 0..RefreshCycles
         /\ \E j \in DOMAIN Cost : banked' \in 0..(Cost[j] - 1)
         /\ now <= now' /\ (stall = 0 => now' <= target)
<1>1. Cost[i] \in Nat \ {0} /\ now \in Nat /\ banked \in Nat
  BY MachineAssumption DEF ClockTyped
<1>2. /\ now' = now + Clock!Remaining(Cost[i]) + stall /\ banked' = 0
      /\ UNCHANGED <<refreshAt, refreshLeft>>
      /\ now + Clock!Remaining(Cost[i]) <= target \/ Clock!Remaining(Cost[i]) = 0
  BY DEF Clock!Retire, Clock!Fits, Clock!OpEnd
<1>3. Clock!Remaining(Cost[i]) \in Nat
  BY <1>1 DEF Clock!Remaining
<1> QED
  BY <1>1, <1>2, <1>3 DEF ClockTyped
-----------------------------------------------------------------------------
(***************************************************************************)
(* What scheduling does to the queue q: the events of a few requests for   *)
(* signals of the given kinds, all for later than t, join it, numbered     *)
(* from nextSeq.                                                           *)
(***************************************************************************)
SignalRequest == [time : Nat, kind : SignalKind]

Schedules(q, t, kinds, reqs) ==
  /\ reqs \in Seq(SignalRequest) /\ Len(reqs) <= 2
  /\ \A i \in DOMAIN reqs : t < reqs[i].time /\ reqs[i].kind \in kinds
  /\ queue' = q \cup Scheduled(reqs, nextSeq)
  /\ nextSeq' = nextSeq + Len(reqs)

Pushes(q, t, kinds) == \E reqs : Schedules(q, t, kinds, reqs)

(***************************************************************************)
(* The kinds of signals are numbers, and the machine's own.                *)
(***************************************************************************)
LEMMA KindsAre ==
  /\ SignalKind = {0, 1, 2, 3, 33}
  /\ FrameEnd \in SignalKind /\ VblankNmiBoundary \in SignalKind /\ HIrqMatch \in SignalKind
  /\ AutoJoypadStart \in SignalKind /\ HdmaFire \in SignalKind
  /\ FrameEnd = 0 /\ VblankNmiBoundary = 1 /\ HIrqMatch = 2 /\ AutoJoypadStart = 3
  /\ HdmaFire = 33
  BY DEF SignalKind, FrameEnd, VblankNmiBoundary, HIrqMatch, AutoJoypadStart, HdmaFire

(***************************************************************************)
(* Scheduled events are events.                                            *)
(***************************************************************************)
LEMMA ScheduledTyped ==
  ASSUME NEW reqs \in Seq(SignalRequest), NEW n \in Nat
  PROVE  Scheduled(reqs, n) \in SUBSET SignalEvent
<1>1. ASSUME NEW i \in DOMAIN reqs
      PROVE  [time |-> reqs[i].time, kind |-> reqs[i].kind, seq |-> n + i - 1] \in SignalEvent
  <2>1. reqs[i] \in SignalRequest /\ i \in Nat \ {0}
    OBVIOUS
  <2> QED
    BY <2>1 DEF SignalRequest, SignalEvent
<1> QED
  BY <1>1 DEF Scheduled

(***************************************************************************)
(* Scheduling keeps the queue's types.                                     *)
(***************************************************************************)
LEMMA PushesTyped ==
  ASSUME EventsTyped, NEW q \in SUBSET SignalEvent, NEW t, NEW kinds, Pushes(q, t, kinds)
  PROVE  EventsTyped'
<1>1. PICK reqs : Schedules(q, t, kinds, reqs)
  BY DEF Pushes
<1>2. Scheduled(reqs, nextSeq) \in SUBSET SignalEvent
  BY <1>1, ScheduledTyped DEF Schedules, EventsTyped
<1>3. Len(reqs) \in Nat
  BY <1>1 DEF Schedules
<1> QED
  BY <1>1, <1>2, <1>3 DEF Schedules, EventsTyped

(***************************************************************************)
(* The timer's Push, for no event, one, and two, and no call of it.        *)
(***************************************************************************)
LEMMA PushIs ==
  ASSUME NEW q, NEW reqs
  PROVE  Timer!Push(q, reqs) =
           (queue' = q \cup Scheduled(reqs, nextSeq) /\ nextSeq' = nextSeq + Len(reqs))
  BY Zenon DEF Timer!Push, Timer!Scheduled, Scheduled

(***************************************************************************)
(* No request: the queue is what is left of it.                            *)
(***************************************************************************)
LEMMA PushNone ==
  ASSUME NEW q, NEW t, NEW kinds, Timer!Push(q, <<>>)
  PROVE  Pushes(q, t, kinds)
<1>1. queue' = q \cup Scheduled(<<>>, nextSeq) /\ nextSeq' = nextSeq + Len(<<>>)
  BY PushIs
<1>2. <<>> \in Seq(SignalRequest) /\ Len(<<>>) <= 2 /\ DOMAIN <<>> = {}
  OBVIOUS
<1>3. Schedules(q, t, kinds, <<>>)
  BY <1>1, <1>2 DEF Schedules
<1> QED
  BY <1>3 DEF Pushes

(***************************************************************************)
(* One request, for a later time.                                          *)
(***************************************************************************)
LEMMA PushOne ==
  ASSUME NEW q, NEW t \in Nat, NEW kinds \in SUBSET SignalKind,
         NEW s \in Nat, t < s, NEW kind \in kinds,
         Timer!Push(q, <<[time |-> s, kind |-> kind]>>)
  PROVE  Pushes(q, t, kinds)
<1> DEFINE reqs == <<[time |-> s, kind |-> kind]>>
<1>1. reqs \in Seq(SignalRequest) /\ Len(reqs) = 1 /\ reqs[1].time = s /\ reqs[1].kind = kind
      /\ DOMAIN reqs = {1}
  BY DEF SignalRequest
<1>2. queue' = q \cup Scheduled(reqs, nextSeq) /\ nextSeq' = nextSeq + Len(reqs)
  BY PushIs
<1> HIDE DEF reqs
<1>3. Schedules(q, t, kinds, reqs)
  BY <1>1, <1>2 DEF Schedules
<1> QED
  BY <1>3 DEF Pushes

(***************************************************************************)
(* Two requests, both for later times.                                     *)
(***************************************************************************)
LEMMA PushTwo ==
  ASSUME NEW q, NEW t \in Nat, NEW kinds \in SUBSET SignalKind,
         NEW s \in Nat, t < s, NEW kind \in kinds, NEW r \in Nat, t < r, NEW other \in kinds,
         Timer!Push(q, <<[time |-> s, kind |-> kind], [time |-> r, kind |-> other]>>)
  PROVE  Pushes(q, t, kinds)
<1> DEFINE reqs == <<[time |-> s, kind |-> kind], [time |-> r, kind |-> other]>>
<1>1. reqs \in Seq(SignalRequest) /\ Len(reqs) = 2 /\ DOMAIN reqs = {1, 2}
      /\ reqs[1].time = s /\ reqs[1].kind = kind /\ reqs[2].time = r /\ reqs[2].kind = other
  BY DEF SignalRequest
<1>2. queue' = q \cup Scheduled(reqs, nextSeq) /\ nextSeq' = nextSeq + Len(reqs)
  BY PushIs
<1> HIDE DEF reqs
<1>3. Schedules(q, t, kinds, reqs)
  BY <1>1, <1>2 DEF Schedules
<1> QED
  BY <1>3 DEF Pushes

(***************************************************************************)
(* A step that does not touch the scheduler schedules nothing.             *)
(***************************************************************************)
LEMMA PushNever ==
  ASSUME EventsTyped, UNCHANGED <<queue, nextSeq>>, NEW t, NEW kinds
  PROVE  Pushes(queue, t, kinds)
<1>1. Scheduled(<<>>, nextSeq) = {}
  BY DEF Scheduled
<1>2. Schedules(queue, t, kinds, <<>>)
  BY <1>1 DEF Schedules, EventsTyped
<1> QED
  BY <1>2 DEF Pushes

(***************************************************************************)
(* The timer's operations: rearming it, a write to its registers, a match. *)
(***************************************************************************)
LEMMA RescheduleTyped ==
  ASSUME NEW t \in Nat, NEW p \in Nat, NEW q, htime' \in Nat, vtime' \in Nat,
         Timer!RescheduleIrqMatchFrom(t, p, q)
  PROVE  match' \in Nat /\ Pushes(q, t, {HIrqMatch})
<1>1. /\ match' = IF mode' = "off" THEN Forever
                  ELSE Timer!ComputeNextMatch(mode', htime', vtime', t, p)
      /\ Timer!Push(q, IF match' = Forever THEN <<>> ELSE <<[time |-> match', kind |-> Timer!HIrqMatch]>>)
  BY Zenon DEF Timer!RescheduleIrqMatchFrom
<1>2. Timer!HIrqMatch = HIrqMatch
  BY DEF Timer!HIrqMatch, HIrqMatch
<1>3. CASE match' = Forever
  BY <1>1, <1>3, PushNone, ForeverAssumption
<1>4. CASE match' # Forever
  <2>1. mode' # "off" /\ match' = Timer!ComputeNextMatch(mode', htime', vtime', t, p)
    BY <1>1, <1>4
  <2>2. Timer!ReachableMatch(mode', htime', vtime')
    BY <2>1, <1>4, Zenon DEF Timer!ComputeNextMatch
  <2>3. match' \in Nat /\ t < match'
    BY <2>1, <2>2, MatchIsLater
  <2>4. Timer!Push(q, <<[time |-> match', kind |-> HIrqMatch]>>)
    BY <1>1, <1>2, <1>4
  <2>5. HIrqMatch \in {HIrqMatch} /\ {HIrqMatch} \in SUBSET SignalKind
    BY KindsAre
  <2> QED
    BY <2>3, <2>4, <2>5, PushOne
<1> QED
  BY <1>3, <1>4

(***************************************************************************)
(* So a write to the timer's registers schedules matches only, later than  *)
(* the write ...                                                           *)
(***************************************************************************)
LEMMA TimerWriteTyped ==
  ASSUME TimerTyped, EventsTyped, NEW t \in Nat, NEW p \in Nat,
         \/ \E m \in Timer!IrqModes : Timer!WriteNmiTimen(m, t, p)
         \/ \E ht \in HTimes : Timer!WriteTime(ht, vtime, t, p)
         \/ \E vt \in VTimes : Timer!WriteTime(htime, vt, t, p)
  PROVE  TimerTyped' /\ Pushes(queue, t, {HIrqMatch})
<1>1. HTimes \subseteq Nat /\ VTimes \subseteq Nat
  BY TimerAssumptions
<1>2. ASSUME NEW m \in Timer!IrqModes, Timer!WriteNmiTimen(m, t, p)
      PROVE  TimerTyped' /\ Pushes(queue, t, {HIrqMatch})
  <2>1. mode' = m /\ UNCHANGED <<htime, vtime>>
    BY <1>2 DEF Timer!WriteNmiTimen
  <2>2. htime' \in Nat /\ vtime' \in Nat
    BY <2>1, <1>1 DEF TimerTyped
  <2>3. CASE m = mode
    <3>1. UNCHANGED <<timeup, match, queue, nextSeq>>
      BY <1>2, <2>3 DEF Timer!WriteNmiTimen
    <3> QED
      BY <3>1, <2>1, PushNever DEF TimerTyped
  <2>4. CASE m # mode /\ m = "off"
    <3>1. timeup' = FALSE /\ match' = Forever /\ UNCHANGED <<queue, nextSeq>>
      BY <1>2, <2>4 DEF Timer!WriteNmiTimen
    <3> QED
      BY <3>1, <2>1, PushNever, ForeverAssumption DEF TimerTyped
  <2>5. CASE m # mode /\ m # "off"
    <3>1. UNCHANGED timeup /\ Timer!RescheduleIrqMatchFrom(t, p, queue)
      BY <1>2, <2>5 DEF Timer!WriteNmiTimen
    <3> QED
      BY <3>1, <2>1, <2>2, RescheduleTyped DEF TimerTyped
  <2> QED
    BY <2>3, <2>4, <2>5
<1>3. ASSUME NEW ht \in Nat, NEW vt \in Nat, Timer!WriteTime(ht, vt, t, p),
             ht \in HTimes \cup {0}, vt \in VTimes \cup {0}
      PROVE  TimerTyped' /\ Pushes(queue, t, {HIrqMatch})
  <2>1. htime' = ht /\ vtime' = vt /\ UNCHANGED <<mode, timeup>>
    BY <1>3 DEF Timer!WriteTime
  <2>2. CASE mode = "off"
    <3>1. UNCHANGED <<match, queue, nextSeq>>
      BY <1>3, <2>2 DEF Timer!WriteTime
    <3> QED
      BY <3>1, <2>1, <1>3, PushNever DEF TimerTyped
  <2>3. CASE mode # "off"
    <3>1. Timer!RescheduleIrqMatchFrom(t, p, queue)
      BY <1>3, <2>3 DEF Timer!WriteTime
    <3> QED
      BY <3>1, <2>1, <1>3, RescheduleTyped DEF TimerTyped
  <2> QED
    BY <2>2, <2>3
<1>4. htime \in Nat /\ vtime \in Nat /\ htime \in HTimes \cup {0} /\ vtime \in VTimes \cup {0}
  BY <1>1 DEF TimerTyped
<1> QED
  BY <1>1, <1>2, <1>3, <1>4

(***************************************************************************)
(* ... and so does a match, later than the match.                          *)
(***************************************************************************)
LEMMA MatchTyped ==
  ASSUME TimerTyped, NEW e \in SignalEvent, NEW p \in Nat, Timer!OnIrqMatch(e, p)
  PROVE  TimerTyped' /\ Pushes(queue \ {e}, e.time, {HIrqMatch})
<1>1. e.time \in Nat
  BY DEF SignalEvent
<1>2. UNCHANGED <<mode, htime, vtime>> /\ htime' \in Nat /\ vtime' \in Nat
  BY TimerAssumptions DEF Timer!OnIrqMatch, TimerTyped
<1>3. CASE match # e.time
  <2>1. UNCHANGED <<timeup, match>> /\ Timer!Push(queue \ {e}, <<>>)
    BY <1>3 DEF Timer!OnIrqMatch
  <2> QED
    BY <2>1, <1>2, PushNone DEF TimerTyped
<1>4. CASE match = e.time
  <2>1. timeup' = TRUE /\ Timer!RescheduleIrqMatchFrom(e.time, p, queue \ {e})
    BY <1>4 DEF Timer!OnIrqMatch
  <2> QED
    BY <2>1, <1>1, <1>2, RescheduleTyped DEF TimerTyped
<1> QED
  BY <1>3, <1>4
-----------------------------------------------------------------------------
(***************************************************************************)
(* The first state and a reset.                                            *)
(***************************************************************************)
LEMMA FirstSignalsAre ==
  /\ FirstSignals \in Seq(SignalRequest) /\ Len(FirstSignals) = 3
  /\ Scheduled(FirstSignals, 0) \in SUBSET SignalEvent
<1>1. HdmaInitAt \in Nat /\ NextFramePeriod(0) \in Nat /\ VblankLine * NormalLineCycles \in Nat
  BY MachineAssumption, RasterIs, PeriodsAre
<1>2. FirstSignals \in Seq(SignalRequest) /\ Len(FirstSignals) = 3
  BY <1>1, KindsAre DEF FirstSignals, SignalRequest
<1> QED
  BY <1>2, ScheduledTyped

(***************************************************************************)
(* What Init and Reset assign has the right types.                         *)
(***************************************************************************)
LEMMA ResetTyped ==
  /\ HdmaReset \in [phase : {"init", "line"}, v : 0..HdmaLastVisibleV, base : Nat,
                    field : BOOLEAN, active : BOOLEAN]
  /\ "fetch" \in DOMAIN Cost /\ Cost["fetch"] \in Nat \ {0}
  /\ "off" \in Timer!IrqModes
  /\ RefreshStart \in Nat /\ 0 \in 0..RefreshCycles /\ 0 \in 0..WakeCycles
  /\ 0 \in 0..(InternalCycles - 1)
  /\ MaxWrites \in Nat /\ MaxResets \in Nat
  BY MachineAssumption DEF HdmaReset, HdmaLastVisibleV, Timer!IrqModes

(***************************************************************************)
(* The first state has the types.                                          *)
(***************************************************************************)
LEMMA InitTypes == Init => Types
<1> SUFFICES ASSUME Init
             PROVE  Types
  OBVIOUS
<1> USE ResetTyped
<1>1. ClockTyped
  <2>1. 0 \in 0..(Cost["fetch"] - 1)
    OBVIOUS
  <2> QED
    BY <2>1 DEF Init, Clock!ClockInit, ClockTyped
<1>2. TimerTyped /\ CpuTyped /\ HdmaTyped
  BY ForeverAssumption DEF Init, TimerTyped, CpuTyped, HdmaTyped
<1>3. EventsTyped
  BY FirstSignalsAre DEF Init, EventsTyped
<1>4. DeviceTyped
  <2>1. nmiEnable \in BOOLEAN /\ hdmaen \in BOOLEAN
    BY Zenon DEF Init
  <2>2. /\ ppu \in Nat /\ joyStart \in Nat \cup {NoStart}
        /\ writes \in 0..MaxWrites /\ resets \in 0..MaxResets
    BY DEF Init
  <2> QED
    BY <2>1, <2>2 DEF DeviceTyped
<1>5. LoopTyped /\ Steady
  BY DEF Init, LoopTyped, Steady, Clock!ClockInit, Sched!NoDrain
<1> QED
  BY <1>1, <1>2, <1>3, <1>4, <1>5 DEF Types

(***************************************************************************)
(* A reset keeps them.                                                     *)
(***************************************************************************)
LEMMA ResetTypes == Types /\ Reset => Types'
<1> SUFFICES ASSUME Types, Reset
             PROVE  Types'
  OBVIOUS
<1> USE ResetTyped
<1>1. ClockTyped'
  <2>1. 0 \in 0..(Cost["fetch"] - 1)
    OBVIOUS
  <2> QED
    BY <2>1 DEF Reset, Clock!ClockReset, ClockTyped
<1>2. TimerTyped' /\ CpuTyped' /\ HdmaTyped'
  BY ForeverAssumption DEF Reset, TimerTyped, CpuTyped, HdmaTyped
<1>3. EventsTyped'
  BY FirstSignalsAre DEF Reset, EventsTyped
<1>4. DeviceTyped'
  <2>1. nmiEnable' \in BOOLEAN /\ hdmaen' \in BOOLEAN
    BY DEF Reset, DeviceTyped, Types
  <2>2. ppu' \in Nat /\ joyStart' \in Nat \cup {NoStart}
    BY DEF Reset
  <2>3. writes' \in 0..MaxWrites /\ resets' \in 0..MaxResets
    BY DEF Reset, DeviceTyped, Types
  <2> QED
    BY <2>1, <2>2, <2>3 DEF DeviceTyped
<1>5. LoopTyped' /\ Steady'
  BY DEF Reset, Types, LoopTyped, Steady, Clock!ClockReset, Sched!NoDrain, loop, drain
<1> QED
  BY <1>1, <1>2, <1>3, <1>4, <1>5 DEF Types

(***************************************************************************)
(* A step of the run loop leaves the console alone.                        *)
(***************************************************************************)
LEMMA ConsoleStands ==
  ASSUME Types, UNCHANGED <<now, ppu, programming, clock, irqs, events, device, bounds, cpu, due>>
  PROVE  ClockTyped' /\ TimerTyped' /\ EventsTyped' /\ CpuTyped' /\ HdmaTyped' /\ DeviceTyped'
<1> USE DEF Types, timer, programming, clock, irqs, events, device, bounds, cpu
<1>1. ClockTyped' /\ TimerTyped' /\ EventsTyped'
  BY DEF ClockTyped, TimerTyped, EventsTyped
<1>2. CpuTyped' /\ HdmaTyped' /\ DeviceTyped'
  BY DEF CpuTyped, HdmaTyped, DeviceTyped
<1> QED
  BY <1>1, <1>2

(***************************************************************************)
(* The next event's time is a time, also with an empty queue.              *)
(***************************************************************************)
LEMMA NextTimeTyped ==
  ASSUME EventsTyped
  PROVE  NextEventTime(queue) \in Nat
<1>1. CASE queue = {}
  BY <1>1, ForeverAssumption DEF NextEventTime
<1>2. CASE queue # {}
  BY <1>2, NextIsFirst DEF EventsTyped
<1> QED
  BY <1>1, <1>2

(***************************************************************************)
(* The run loop's own steps keep the types.                                *)
(***************************************************************************)
LEMMA LoopTypes == Types /\ ((\E budget \in Budgets : TickFrame(budget)) \/ Loop \/ EnterRunning) => Types'
<1> SUFFICES ASSUME Types, (\E budget \in Budgets : TickFrame(budget)) \/ Loop \/ EnterRunning
             PROVE  Types'
  OBVIOUS
<1>1. UNCHANGED <<now, ppu, programming, clock, irqs, events, device, bounds, cpu, due>>
  BY DEF TickFrame, Loop, LeaveTickFrame, ChooseTarget, EndDrain, EnterRunning, timer
<1>2. ClockTyped' /\ TimerTyped' /\ EventsTyped' /\ CpuTyped' /\ HdmaTyped' /\ DeviceTyped'
  BY <1>1, ConsoleStands
<1>3. LoopTyped' /\ Steady'
  <2> USE DEF Types, LoopTyped, Steady, drain, Sched!NoDrain
  <2>1. ASSUME NEW budget \in Budgets, TickFrame(budget)
        PROVE  LoopTyped' /\ Steady'
    BY <2>1, MachineAssumption, ForeverAssumption DEF TickFrame, ClockTyped
  <2>2. CASE LeaveTickFrame
    BY <2>2 DEF LeaveTickFrame
  <2>3. CASE ChooseTarget
    BY <2>3, NextTimeTyped DEF ChooseTarget
  <2>4. CASE EndDrain
    BY <2>4 DEF EndDrain, ClockTyped
  <2>5. CASE EnterRunning
    BY <2>5 DEF EnterRunning
  <2> QED
    BY <2>1, <2>2, <2>3, <2>4, <2>5 DEF Loop
<1> QED
  BY <1>2, <1>3 DEF Types
-----------------------------------------------------------------------------
(***************************************************************************)
(* The processor's steps.  What they have in common: the history of the    *)
(* NMI, the return from TickToTarget, a turn of its loop, and the end of   *)
(* an instruction.                                                         *)
(***************************************************************************)
LEMMA DueTyped ==
  ASSUME due \in BOOLEAN, NEW t
  PROVE  DueAfter(t) \in BOOLEAN
  BY Zenon DEF DueAfter

(***************************************************************************)
(* The later of two times is one of them and not before either.            *)
(***************************************************************************)
LEMMA LargerIs ==
  ASSUME NEW a \in Nat, NEW b \in Nat
  PROVE  Larger(a, b) \in Nat /\ a <= Larger(a, b) /\ b <= Larger(a, b)
         /\ (Larger(a, b) = a \/ Larger(a, b) = b)
  BY DEF Larger

(***************************************************************************)
(* TickToTarget returns to a drain through the time it reached.            *)
(***************************************************************************)
LEMMA ReturnTypes ==
  ASSUME Types, ClockTyped', NEW p \in Nat, ReturnAt(now', p), due' \in BOOLEAN,
         UNCHANGED <<timer, irqs, events, device, bounds, cpu>>
  PROVE  Types'
<1> USE DEF Types
<1>1. TimerTyped' /\ EventsTyped' /\ HdmaTyped'
  BY DEF TimerTyped, EventsTyped, HdmaTyped, timer, programming, events, device
<1>2. CpuTyped'
  BY DEF CpuTyped, irqs, cpu
<1>3. now' \in Nat /\ ppu \in Nat
  BY DEF ClockTyped, DeviceTyped
<1>4. ppu' \in Nat
  BY <1>3, LargerIs DEF ReturnAt
<1>5. DeviceTyped'
  BY <1>4 DEF DeviceTyped, device, bounds
<1>6. LoopTyped' /\ Steady'
  BY <1>3 DEF ReturnAt, LoopTyped, Steady, Sched!NoDrain
<1> QED
  BY <1>1, <1>2, <1>5, <1>6

(***************************************************************************)
(* A step that goes round in the loop keeps the loop's types.              *)
(***************************************************************************)
LEMMA LoopTurns ==
  ASSUME Types, ClockTyped', at \in {"enter", "loop", "step"}, at' = "loop",
         UNCHANGED <<cap, target, drain>>
  PROVE  LoopTyped' /\ Steady'
  BY DEF Types, ClockTyped, LoopTyped, Steady, drain, Sched!NoDrain

(***************************************************************************)
(* A micro-operation begins before the target, and has a cost.             *)
(***************************************************************************)
LEMMA StepTyped ==
  ASSUME Types, Stepping
  PROVE  /\ at \in {"loop", "step"} /\ now < target /\ target \in Nat
         /\ instr \in DOMAIN Cost /\ StepCost = Cost[instr]
  BY MachineAssumption DEF Types, Stepping, Steady, LoopTyped, CpuTyped, StepCost

(***************************************************************************)
(* The entries of a halted processor keep the types.                       *)
(***************************************************************************)
LEMMA EnterTypes == Types /\ (EnterStp \/ EnterWaiIdle \/ EnterWaiWake) => Types'
<1> SUFFICES ASSUME Types, EnterStp \/ EnterWaiIdle \/ EnterWaiWake
             PROVE  Types'
  OBVIOUS
<1>1. target \in Nat /\ now \in Nat /\ ppu \in Nat /\ due \in BOOLEAN /\ ClockTyped
  BY DEF Types, LoopTyped, ClockTyped, CpuTyped, DeviceTyped
<1>2. due' \in BOOLEAN
  BY <1>1, DueTyped DEF EnterStp, EnterWaiIdle, EnterWaiWake
<1>3. UNCHANGED <<timer, irqs, events, device, bounds, cpu>>
  BY DEF EnterStp, EnterWaiIdle, EnterWaiWake
<1>4. CASE EnterStp
  BY <1>1, <1>2, <1>3, <1>4, IdleTyped, ReturnTypes DEF EnterStp
<1>5. CASE EnterWaiIdle
  BY <1>1, <1>2, <1>3, <1>5, IdleTyped, ReturnTypes DEF EnterWaiIdle
<1>6. CASE EnterWaiWake
  <2>1. wakeLeft \in 0..WakeCycles /\ WakeCycles \in Nat \ {0}
    BY <1>1, MachineAssumption DEF ClockTyped
  <2>2. PICK left \in 1..WakeCycles : Clock!Wake(left, target)
    BY <2>1, <1>6 DEF EnterWaiWake
  <2>3. ClockTyped'
    BY <1>1, <2>2, WakeTyped
  <2>4. CASE wakeLeft' = 0
    <3>1. at = "enter" /\ at' = "loop" /\ ppu' = Larger(ppu, now) /\ UNCHANGED <<cap, target, drain>>
      BY <1>6, <2>4 DEF EnterWaiWake
    <3>2. LoopTyped' /\ Steady'
      BY <3>1, <2>3, LoopTurns
    <3>3. ppu' \in Nat
      BY <1>1, <3>1, LargerIs
    <3>4. TimerTyped' /\ EventsTyped' /\ HdmaTyped'
      BY <1>3 DEF Types, TimerTyped, EventsTyped, HdmaTyped, timer, programming, events, device
    <3>5. CpuTyped' /\ DeviceTyped'
      BY <1>2, <1>3, <3>3 DEF Types, CpuTyped, DeviceTyped, irqs, cpu, device, bounds
    <3> QED
      BY <2>3, <3>2, <3>4, <3>5 DEF Types
  <2>5. CASE wakeLeft' # 0
    <3>1. ReturnAt(now', now)
      BY <1>6, <2>5 DEF EnterWaiWake
    <3> QED
      BY <1>1, <1>2, <1>3, <2>3, <3>1, ReturnTypes
  <2> QED
    BY <2>4, <2>5
<1> QED
  BY <1>4, <1>5, <1>6

(***************************************************************************)
(* The loop's steps between two micro-operations keep them.                *)
(***************************************************************************)
LEMMA TurnTypes == Types /\ (LoopEnds \/ LoopHalted \/ SampleInterrupts \/ LoopRefresh \/ LoopBank) => Types'
<1> SUFFICES ASSUME Types, LoopEnds \/ LoopHalted \/ SampleInterrupts \/ LoopRefresh \/ LoopBank
             PROVE  Types'
  OBVIOUS
<1>1. target \in Nat /\ now \in Nat /\ ppu \in Nat /\ due \in BOOLEAN /\ ClockTyped
  BY DEF Types, LoopTyped, ClockTyped, CpuTyped, DeviceTyped
<1>2. CASE LoopEnds
  <2>1. ClockTyped'
    BY <1>1, <1>2 DEF LoopEnds, ClockTyped, clock
  <2> QED
    BY <1>1, <1>2, <2>1, ReturnTypes DEF LoopEnds
<1>3. CASE LoopHalted
  <2>1. due' \in BOOLEAN
    BY <1>1, <1>3, DueTyped DEF LoopHalted
  <2> QED
    BY <1>1, <1>3, <2>1, IdleTyped, ReturnTypes DEF LoopHalted
<1>4. CASE SampleInterrupts
  <2>1. ClockTyped' /\ TimerTyped' /\ EventsTyped' /\ HdmaTyped'
    BY <1>4 DEF SampleInterrupts, Types, ClockTyped, TimerTyped, EventsTyped, HdmaTyped, clock,
                timer, programming, events, device
  <2>2. LoopTyped' /\ Steady'
    BY <1>4 DEF SampleInterrupts, Types, LoopTyped, Steady, drain, Sched!NoDrain
  <2>3. instr' \in Program \cup {"fetch", "nmi", "irq"}
    BY <1>4 DEF SampleInterrupts
  <2>4. /\ nmiPrev' \in BOOLEAN /\ nmiPending' \in BOOLEAN /\ irqLine' \in BOOLEAN
        /\ due' \in BOOLEAN /\ iflag' \in BOOLEAN
    <3>1. nmiPrev' \in BOOLEAN /\ nmiPending' \in BOOLEAN /\ due' \in BOOLEAN
      BY <1>4, Zenon DEF SampleInterrupts, NmiLine
    <3>2. irqLine' \in BOOLEAN /\ iflag' \in BOOLEAN
      BY <1>4 DEF SampleInterrupts, Types, TimerTyped, CpuTyped
    <3> QED
      BY <3>1, <3>2
  <2>5. ppu' \in Nat
    BY <1>1, <1>4, LargerIs DEF SampleInterrupts
  <2>6. DeviceTyped'
    BY <1>4, <2>5 DEF SampleInterrupts, Types, DeviceTyped, device, bounds
  <2> QED
    BY <2>1, <2>2, <2>3, <2>4, <2>6 DEF Types, CpuTyped
<1>5. CASE LoopRefresh
  <2>1. ClockTyped'
    BY <1>1, <1>5, StepTyped, RefreshTyped DEF LoopRefresh
  <2>2. LoopTyped' /\ Steady'
    BY <1>5, <2>1, StepTyped, LoopTurns DEF LoopRefresh
  <2>3. due' \in BOOLEAN
    BY <1>1, <1>5, DueTyped DEF LoopRefresh
  <2>4. TimerTyped' /\ EventsTyped' /\ HdmaTyped'
    BY <1>5 DEF LoopRefresh, Types, TimerTyped, EventsTyped, HdmaTyped, timer, programming, events, device
  <2>5. CpuTyped' /\ DeviceTyped'
    BY <1>5, <2>3 DEF LoopRefresh, Types, CpuTyped, DeviceTyped, irqs, cpu, device, bounds
  <2> QED
    BY <2>1, <2>2, <2>4, <2>5 DEF Types
<1>6. CASE LoopBank
  <2>1. ClockTyped' /\ now' = target
    BY <1>1, <1>6, StepTyped, BankTyped DEF LoopBank
  <2>2. due' \in BOOLEAN
    BY <1>1, <1>6, DueTyped DEF LoopBank
  <2> QED
    BY <1>1, <1>6, <2>1, <2>2, ReturnTypes DEF LoopBank
<1> QED
  BY <1>2, <1>3, <1>4, <1>5, <1>6

(***************************************************************************)
(* The fetch of an opcode, and the end of an instruction.                  *)
(***************************************************************************)
LEMMA FetchTypes == Types /\ FetchOpcode => Types'
<1> SUFFICES ASSUME Types, FetchOpcode
             PROVE  Types'
  OBVIOUS
<1>1. due \in BOOLEAN /\ ClockTyped
  BY DEF Types, CpuTyped
<1>2. at \in {"loop", "step"} /\ now < target /\ target \in Nat
      /\ instr \in DOMAIN Cost /\ Clock!Retire(Cost[instr], 0, target)
  BY StepTyped DEF FetchOpcode
<1>3. ClockTyped'
  <2>1. UNCHANGED <<halt, wakeLeft, wakePart>>
    BY DEF FetchOpcode
  <2>2. /\ now' \in Nat /\ refreshAt' \in Nat /\ refreshLeft' \in 0..RefreshCycles
        /\ \E j \in DOMAIN Cost : banked' \in 0..(Cost[j] - 1)
    BY <1>1, <1>2, RetireTyped
  <2> QED
    BY <1>1, <2>1, <2>2 DEF ClockTyped
<1>4. LoopTyped' /\ Steady'
  BY <1>2, <1>3, LoopTurns DEF FetchOpcode
<1>5. due' \in BOOLEAN
  BY <1>1, DueTyped DEF FetchOpcode
<1>6. TimerTyped' /\ EventsTyped' /\ HdmaTyped'
  BY DEF FetchOpcode, Types, TimerTyped, EventsTyped, HdmaTyped, timer, programming, events, device
<1>7. CpuTyped' /\ DeviceTyped'
  BY <1>5 DEF FetchOpcode, Types, CpuTyped, DeviceTyped, irqs, device, bounds
<1> QED
  BY <1>3, <1>4, <1>6, <1>7 DEF Types

(***************************************************************************)
(* The end of an instruction leaves the clock and the loop with their      *)
(* types.                                                                  *)
(***************************************************************************)
LEMMA FinishTyped ==
  ASSUME Types, NEW stall \in Nat, Finish(stall),
         halt' \in {"none", "wai", "stp"}, wakeLeft' \in 0..WakeCycles,
         wakePart' \in 0..(InternalCycles - 1)
  PROVE  /\ ClockTyped' /\ LoopTyped' /\ Steady' /\ HdmaTyped'
         /\ instr' \in Program \cup {"fetch", "nmi", "irq"} /\ irqLine' \in BOOLEAN
         /\ joyStart' \in Nat \cup {NoStart} /\ resets' \in 0..MaxResets
         /\ at \in {"loop", "step"} /\ now <= now' /\ (stall = 0 => now' <= target)
<1>1. at \in {"loop", "step"} /\ now < target /\ target \in Nat
      /\ instr \in DOMAIN Cost /\ Clock!Retire(Cost[instr], stall, target)
  BY StepTyped DEF Finish
<1>2. /\ now' \in Nat /\ refreshAt' \in Nat /\ refreshLeft' \in 0..RefreshCycles
      /\ \E j \in DOMAIN Cost : banked' \in 0..(Cost[j] - 1)
      /\ now <= now' /\ (stall = 0 => now' <= target)
  BY <1>1, RetireTyped DEF Types
<1>3. ClockTyped'
  BY <1>2 DEF ClockTyped
<1>4. LoopTyped' /\ Steady'
  BY <1>1, <1>3, LoopTurns DEF Finish
<1>5. HdmaTyped' /\ joyStart' \in Nat \cup {NoStart} /\ resets' \in 0..MaxResets
  BY DEF Finish, Types, HdmaTyped, DeviceTyped
<1>6. instr' \in Program \cup {"fetch", "nmi", "irq"} /\ irqLine' \in BOOLEAN
  BY DEF Finish, Types, CpuTyped
<1> QED
  BY <1>1, <1>2, <1>3, <1>4, <1>5, <1>6

(***************************************************************************)
(* The effect of every instruction keeps the types.                        *)
(***************************************************************************)
LEMMA ExecuteTypes == Types /\ Execute => Types'
<1> SUFFICES ASSUME Types, Execute
             PROVE  Types'
  OBVIOUS
<1> USE DEF Types
<1>1. /\ halt \in {"none", "wai", "stp"} /\ wakeLeft \in 0..WakeCycles
      /\ wakePart \in 0..(InternalCycles - 1) /\ 0 \in 0..WakeCycles /\ 0 \in 0..(InternalCycles - 1)
  BY ResetTyped DEF ClockTyped
<1>2. /\ halt' \in {"none", "wai", "stp"} /\ wakeLeft' \in 0..WakeCycles
      /\ wakePart' \in 0..(InternalCycles - 1)
  <2>1. CASE HaltCpu
    BY <1>1, <2>1 DEF HaltCpu
  <2>2. CASE ~HaltCpu
    <3>1. NoHalt
      BY <2>2, Zenon DEF Execute, ExecutePlain, EnterInterruptHandler, WriteNmiEnable, WriteTimer,
         ReadTimeUp, WriteMdmaEn, WriteHdmaEn
    <3> QED
      BY <1>1, <3>1 DEF NoHalt
  <2> QED
    BY <2>1, <2>2
<1>3. PICK stall \in Nat : Finish(stall)
  <2>1. CASE WriteMdmaEn
    BY <2>1, MachineAssumption DEF WriteMdmaEn
  <2>2. CASE ~WriteMdmaEn
    <3>1. Finish(0)
      BY <2>2, Zenon DEF Execute, ExecutePlain, EnterInterruptHandler, HaltCpu, WriteNmiEnable,
         WriteTimer, ReadTimeUp, WriteHdmaEn
    <3> QED
      BY <3>1
  <2> QED
    BY <2>1, <2>2
<1>4. /\ ClockTyped' /\ LoopTyped' /\ Steady' /\ HdmaTyped'
      /\ instr' \in Program \cup {"fetch", "nmi", "irq"} /\ irqLine' \in BOOLEAN
      /\ joyStart' \in Nat \cup {NoStart} /\ resets' \in 0..MaxResets
  BY <1>2, <1>3, FinishTyped
<1>5. now' \in Nat /\ ppu \in Nat /\ due \in BOOLEAN
  BY <1>4 DEF ClockTyped, DeviceTyped, CpuTyped
<1>6. CASE WriteNmiEnable
  <2>1. TimerTyped' /\ EventsTyped'
    BY <1>6 DEF WriteNmiEnable, TimerTyped, EventsTyped, timer, programming, events
  <2>2. /\ nmiPrev' \in BOOLEAN /\ nmiPending' \in BOOLEAN /\ due' \in BOOLEAN
        /\ nmiEnable' \in BOOLEAN
    BY <1>6, Zenon DEF WriteNmiEnable, NmiLine
  <2>3. iflag' \in BOOLEAN /\ hdmaen' \in BOOLEAN /\ writes' \in 0..MaxWrites
    BY <1>6 DEF WriteNmiEnable, CpuTyped, DeviceTyped
  <2>4. ppu' \in Nat
    BY <1>5, <1>6, LargerIs DEF WriteNmiEnable
  <2> QED
    BY <1>4, <2>1, <2>2, <2>3, <2>4 DEF CpuTyped, DeviceTyped
<1>7. CASE ~WriteNmiEnable
  <2>1. NoNmi
    BY <1>7, Zenon DEF Execute, ExecutePlain, EnterInterruptHandler, HaltCpu, WriteTimer,
       ReadTimeUp, WriteMdmaEn, WriteHdmaEn
  <2>2. nmiPrev' \in BOOLEAN /\ nmiPending' \in BOOLEAN
    BY <2>1 DEF NoNmi, CpuTyped
  <2>3. due' \in BOOLEAN
    BY <1>5, <2>1, DueTyped DEF NoNmi
  <2>4. CASE NoBus
    <3>1. TimerTyped' /\ EventsTyped' /\ ppu' \in Nat /\ writes' \in 0..MaxWrites
      BY <1>5, <2>4 DEF NoBus, TimerTyped, EventsTyped, timer, programming, events, DeviceTyped
    <3>2. nmiEnable' \in BOOLEAN /\ hdmaen' \in BOOLEAN
      BY <2>4 DEF NoBus, DeviceTyped
    <3>3. iflag' \in BOOLEAN
      <4>1. CASE ExecutePlain
        BY <4>1 DEF ExecutePlain, CpuTyped
      <4>2. CASE EnterInterruptHandler
        BY <4>2 DEF EnterInterruptHandler
      <4>3. CASE ~ExecutePlain /\ ~EnterInterruptHandler
        <5>1. UNCHANGED iflag
          BY <1>7, <4>3 DEF Execute, HaltCpu, WriteTimer, ReadTimeUp, WriteMdmaEn, WriteHdmaEn
        <5> QED
          BY <5>1 DEF CpuTyped
      <4> QED
        BY <4>1, <4>2, <4>3
    <3> QED
      BY <1>4, <2>2, <2>3, <3>1, <3>2, <3>3 DEF CpuTyped, DeviceTyped
  <2>5. CASE WriteTimer
    <3>1. TimerTyped' /\ Pushes(queue, now', {HIrqMatch})
      BY <1>5, <2>5, TimerWriteTyped DEF WriteTimer
    <3>2. EventsTyped'
      BY <3>1, PushesTyped DEF EventsTyped
    <3>3. writes' \in 0..MaxWrites /\ ppu' \in Nat
      BY <1>5, <2>5, TimerAssumptions DEF WriteTimer, DeviceTyped
    <3>4. nmiEnable' \in BOOLEAN /\ hdmaen' \in BOOLEAN /\ iflag' \in BOOLEAN
      BY <2>5 DEF WriteTimer, DeviceTyped, CpuTyped
    <3> QED
      BY <1>4, <2>2, <2>3, <3>1, <3>2, <3>3, <3>4 DEF CpuTyped, DeviceTyped
  <2>6. CASE ReadTimeUp
    <3>1. TimerTyped' /\ EventsTyped'
      BY <2>6, Zenon DEF ReadTimeUp, Timer!ReadTimeUp, TimerTyped, EventsTyped
    <3>2. /\ ppu' \in Nat /\ nmiEnable' \in BOOLEAN /\ hdmaen' \in BOOLEAN /\ iflag' \in BOOLEAN
          /\ writes' \in 0..MaxWrites
      BY <1>5, <2>6 DEF ReadTimeUp, DeviceTyped, CpuTyped
    <3> QED
      BY <1>4, <2>2, <2>3, <3>1, <3>2 DEF CpuTyped, DeviceTyped
  <2>7. CASE WriteHdmaEn
    <3>1. TimerTyped' /\ EventsTyped'
      BY <2>7 DEF WriteHdmaEn, TimerTyped, EventsTyped, timer, programming, events
    <3>2. /\ ppu' \in Nat /\ nmiEnable' \in BOOLEAN /\ iflag' \in BOOLEAN
          /\ writes' \in 0..MaxWrites
      BY <1>5, <2>7 DEF WriteHdmaEn, DeviceTyped, CpuTyped
    <3>3. hdmaen' \in BOOLEAN
      BY <2>7, Zenon DEF WriteHdmaEn
    <3> QED
      BY <1>4, <2>2, <2>3, <3>1, <3>2, <3>3 DEF CpuTyped, DeviceTyped
  <2> QED
    BY <1>7, <2>4, <2>5, <2>6, <2>7, Zenon DEF Execute, ExecutePlain, EnterInterruptHandler, HaltCpu, WriteMdmaEn
<1> QED
  BY <1>6, <1>7
-----------------------------------------------------------------------------
(***************************************************************************)
(* The queue of the machine.  Events have numbers of their own, all below  *)
(* the next, and there is one HDMA event at most, at the time of the       *)
(* transfer that the controller's state says comes next.                   *)
(***************************************************************************)
HdmaTime ==
  IF hdma.phase = "init" THEN hdma.base + HdmaInitAt
  ELSE hdma.base + hdma.v * NormalLineCycles + HdmaLineAt

OneTransfer ==
  /\ \A e \in queue : e.kind = HdmaFire => e.time = HdmaTime
  /\ \A d, e \in queue : d.kind = HdmaFire /\ e.kind = HdmaFire => d = e

Numbered ==
  /\ \A e \in queue : e.seq < nextSeq
  /\ \A d, e \in queue : d.seq = e.seq => d = e

QueueInv == Types /\ Numbered /\ OneTransfer

(***************************************************************************)
(* The events that scheduling adds, one for each request.                  *)
(***************************************************************************)
LEMMA NewEvents ==
  ASSUME NEW reqs \in Seq(SignalRequest), NEW n \in Nat
  PROVE  /\ \A e \in Scheduled(reqs, n) :
              \E i \in 1..Len(reqs) :
                /\ e.time = reqs[i].time /\ e.kind = reqs[i].kind /\ e.seq = n + i - 1
                /\ e = [time |-> reqs[i].time, kind |-> reqs[i].kind, seq |-> n + i - 1]
         /\ \A i \in 1..Len(reqs) :
              [time |-> reqs[i].time, kind |-> reqs[i].kind, seq |-> n + i - 1]
                \in Scheduled(reqs, n)
  BY DEF Scheduled

(***************************************************************************)
(* Scheduling gives new events new numbers.                                *)
(***************************************************************************)
LEMMA PushesNumbered ==
  ASSUME EventsTyped, Numbered, NEW q \in SUBSET queue, NEW t, NEW kinds, Pushes(q, t, kinds)
  PROVE  Numbered'
<1>1. PICK reqs : Schedules(q, t, kinds, reqs)
  BY DEF Pushes
<1>2. reqs \in Seq(SignalRequest) /\ Len(reqs) \in Nat /\ nextSeq \in Nat
      /\ nextSeq' = nextSeq + Len(reqs)
  BY <1>1 DEF Schedules, EventsTyped
<1>3. ASSUME NEW e \in queue'
      PROVE  \/ e \in q /\ e.seq \in Nat /\ e.seq < nextSeq
             \/ \E i \in 1..Len(reqs) :
                  /\ e.seq = nextSeq + i - 1
                  /\ e = [time |-> reqs[i].time, kind |-> reqs[i].kind, seq |-> nextSeq + i - 1]
  <2>1. CASE e \in q
    BY <2>1 DEF Numbered, EventsTyped, SignalEvent
  <2>2. CASE e \in Scheduled(reqs, nextSeq)
    BY <2>2, <1>2, NewEvents
  <2> QED
    BY <2>1, <2>2, <1>1 DEF Schedules
<1>4. \A e \in queue' : e.seq < nextSeq'
  BY <1>2, <1>3
<1>5. \A d, e \in queue' : d.seq = e.seq => d = e
  <2> SUFFICES ASSUME NEW d \in queue', NEW e \in queue', d.seq = e.seq
               PROVE  d = e
    OBVIOUS
  <2>1. CASE d \in q /\ e \in q
    BY <2>1 DEF Numbered
  <2>2. CASE ~(d \in q /\ e \in q)
    <3>1. PICK i \in 1..Len(reqs) :
            /\ d.seq = nextSeq + i - 1
            /\ d = [time |-> reqs[i].time, kind |-> reqs[i].kind, seq |-> nextSeq + i - 1]
      BY <2>2, <1>2, <1>3
    <3>2. PICK j \in 1..Len(reqs) :
            /\ e.seq = nextSeq + j - 1
            /\ e = [time |-> reqs[j].time, kind |-> reqs[j].kind, seq |-> nextSeq + j - 1]
      BY <2>2, <1>2, <1>3
    <3>3. i = j
      <4>1. nextSeq + i - 1 = nextSeq + j - 1
        BY <3>1, <3>2, Zenon
      <4>2. i \in Int /\ j \in Int /\ nextSeq \in Nat
        BY <1>2
      <4> QED
        BY <4>1, <4>2
    <3> QED
      BY <3>1, <3>2, <3>3
  <2> QED
    BY <2>1, <2>2
<1> QED
  BY <1>4, <1>5 DEF Numbered

(***************************************************************************)
(* Scheduling other signals leaves the HDMA event alone ...                *)
(***************************************************************************)
LEMMA PushesNoTransfer ==
  ASSUME EventsTyped, OneTransfer, UNCHANGED hdma, NEW q \in SUBSET queue,
         NEW t, NEW kinds, HdmaFire \notin kinds, Pushes(q, t, kinds)
  PROVE  OneTransfer'
<1>1. PICK reqs : Schedules(q, t, kinds, reqs)
  BY DEF Pushes
<1>2. ASSUME NEW e \in queue', e.kind = HdmaFire
      PROVE  e \in queue
  <2>1. CASE e \in Scheduled(reqs, nextSeq)
    <3>0. reqs \in Seq(SignalRequest) /\ nextSeq \in Nat
      BY <1>1 DEF Schedules, EventsTyped
    <3>1. PICK i \in 1..Len(reqs) : e.kind = reqs[i].kind
      BY <2>1, <3>0, NewEvents
    <3>2. i \in DOMAIN reqs
      BY <1>1 DEF Schedules
    <3> QED
      BY <1>1, <1>2, <3>1, <3>2 DEF Schedules
  <2> QED
    BY <1>1, <2>1 DEF Schedules
<1>3. HdmaTime' = HdmaTime
  BY DEF HdmaTime
<1> QED
  BY <1>2, <1>3 DEF OneTransfer

(***************************************************************************)
(* ... and HDMA schedules its own successor.                               *)
(***************************************************************************)
LEMMA NextTransfer ==
  ASSUME EventsTyped, OneTransfer, NEW e \in queue, e.kind = HdmaFire,
         Timer!Push(queue \ {e}, <<[time |-> HdmaTime', kind |-> HdmaFire]>>)
  PROVE  OneTransfer'
<1> DEFINE reqs == <<[time |-> HdmaTime', kind |-> HdmaFire]>>
           next == [time |-> HdmaTime', kind |-> HdmaFire, seq |-> nextSeq + 1 - 1]
<1>1. queue' = (queue \ {e}) \cup Scheduled(reqs, nextSeq)
  BY PushIs
<1>2. Scheduled(reqs, nextSeq) = {next}
  <2>1. DOMAIN reqs = {1} /\ reqs[1].time = HdmaTime' /\ reqs[1].kind = HdmaFire
    OBVIOUS
  <2> HIDE DEF reqs
  <2> QED
    BY <2>1 DEF Scheduled
<1>3. next.time = HdmaTime'
  OBVIOUS
<1> HIDE DEF reqs, next
<1>4. \A d \in queue' : d.kind = HdmaFire => d = next
  BY <1>1, <1>2 DEF OneTransfer
<1> QED
  BY <1>3, <1>4 DEF OneTransfer

(***************************************************************************)
(* A handler runs during a drain, for an event that is due, and does       *)
(* nothing to the processor but move its time on.                          *)
(***************************************************************************)
LEMMA FiringTyped ==
  ASSUME Types, NEW e \in queue, Firing(e), now' \in Nat, now <= now', due' \in BOOLEAN
  PROVE  /\ ClockTyped' /\ CpuTyped' /\ LoopTyped' /\ Steady'
         /\ nmiEnable' \in BOOLEAN /\ hdmaen' \in BOOLEAN
         /\ writes' \in 0..MaxWrites /\ resets' \in 0..MaxResets
         /\ e \in SignalEvent /\ e.time \in Nat /\ queue \ {e} \in SUBSET SignalEvent
         /\ ppu \in Nat
<1> USE DEF Types
<1>1. e \in SignalEvent /\ e.time \in Nat /\ queue \ {e} \in SUBSET SignalEvent
  BY DEF EventsTyped, SignalEvent
<1>2. ClockTyped' /\ CpuTyped'
  BY DEF Firing, ClockTyped, CpuTyped, clock, irqs, cpu
<1>3. fired' \in Seq(SignalEvent)
  BY <1>1 DEF Firing, LoopTyped
<1>4. LoopTyped'
  BY <1>3 DEF Firing, LoopTyped, loop
<1>5. Steady'
  BY DEF Firing, ClockTyped, LoopTyped, Steady, loop, Sched!NoDrain
<1>6. /\ nmiEnable' \in BOOLEAN /\ hdmaen' \in BOOLEAN /\ ppu \in Nat
      /\ writes' \in 0..MaxWrites /\ resets' \in 0..MaxResets
  BY DEF Firing, DeviceTyped, bounds
<1> QED
  BY <1>1, <1>2, <1>4, <1>5, <1>6

(***************************************************************************)
(* The joypad's next automatic read starts late enough: JoyEarliest after  *)
(* the boundary at the soonest.                                            *)
(***************************************************************************)
LEMMA AutoReadIsLater ==
  ASSUME joyStart \in Nat \cup {NoStart}, NEW boundary \in Nat
  PROVE  AutoReadStart(boundary) \in Nat /\ boundary < AutoReadStart(boundary)
<1>1. JoyFirst \in Nat \ {0} /\ JoyEarliest \in Nat \ {0} /\ JoyClock \in Nat \ {0}
  BY MachineAssumption
<1>2. CASE joyStart = NoStart
  BY <1>1, <1>2 DEF AutoReadStart
<1>3. CASE joyStart # NoStart
  <2>1. joyStart \in Nat
    BY <1>3
  <2>2. AutoReadStart(boundary) = joyStart
          + ((boundary + JoyEarliest - joyStart + JoyClock - 1) \div JoyClock) * JoyClock
    BY <1>3 DEF AutoReadStart
  <2>3. ASSUME NEW x \in Int, NEW n \in Nat \ {0}
        PROVE  ((x + n - 1) \div n) * n \in Int /\ ((x + n - 1) \div n) * n >= x
    <3> DEFINE y == x + n - 1
               q == y \div n
    <3>1. y \in Int /\ q \in Int /\ y = n * q + (y % n) /\ y % n \in 0..(n - 1)
      BY <2>3
    <3>2. q * n = n * q /\ q * n \in Int
      BY <3>1, <2>3
    <3>3. n * q >= y - (n - 1)
      BY <3>1, <2>3
    <3> QED
      BY <3>1, <3>2, <3>3, <2>3
  <2>4. boundary + JoyEarliest - joyStart \in Int
    BY <1>1, <2>1
  <2> QED
    BY <2>1, <2>2, <2>3, <2>4, <1>1
<1> QED
  BY <1>2, <1>3

(***************************************************************************)
(* Every handler keeps the queue, and schedules later than its event.      *)
(***************************************************************************)
Handled(e) == Firing(e) /\ Pushes(queue \ {e}, e.time, SignalKind)

(***************************************************************************)
(* Signals of some kinds are signals.                                      *)
(***************************************************************************)
LEMMA WiderKinds ==
  ASSUME NEW q, NEW t, NEW kinds \in SUBSET SignalKind, Pushes(q, t, kinds)
  PROVE  Pushes(q, t, SignalKind)
  BY DEF Pushes, Schedules

(***************************************************************************)
(* A handler that moves neither time nor HDMA keeps the invariant when it  *)
(* schedules other signals than HDMA's, for later.                         *)
(***************************************************************************)
LEMMA OtherSignals ==
  ASSUME QueueInv, NEW e \in queue, Firing(e), UNCHANGED <<now, ppu, due>>, UNCHANGED hdma,
         TimerTyped', joyStart' \in Nat \cup {NoStart},
         NEW kinds \in SUBSET SignalKind, HdmaFire \notin kinds,
         Pushes(queue \ {e}, e.time, kinds)
  PROVE  QueueInv' /\ Handled(e)
<1> USE DEF QueueInv, Types
<1>1. now' \in Nat /\ now <= now' /\ due' \in BOOLEAN
  BY DEF ClockTyped, CpuTyped
<1>2. /\ ClockTyped' /\ CpuTyped' /\ LoopTyped' /\ Steady'
      /\ nmiEnable' \in BOOLEAN /\ hdmaen' \in BOOLEAN
      /\ writes' \in 0..MaxWrites /\ resets' \in 0..MaxResets
      /\ queue \ {e} \in SUBSET SignalEvent /\ ppu' \in Nat
  BY <1>1, FiringTyped
<1>3. queue \ {e} \in SUBSET queue
  OBVIOUS
<1>4. EventsTyped'
  BY <1>2, PushesTyped
<1>5. Numbered'
  BY <1>3, PushesNumbered
<1>6. OneTransfer'
  BY <1>3, PushesNoTransfer
<1>7. HdmaTyped' /\ DeviceTyped'
  BY <1>2 DEF HdmaTyped, DeviceTyped
<1>8. Handled(e)
  BY WiderKinds DEF Handled
<1> QED
  BY <1>2, <1>4, <1>5, <1>6, <1>7, <1>8

(***************************************************************************)
(* The frame-end handler, which schedules the next frame's end.            *)
(***************************************************************************)
LEMMA FrameEndKeeps ==
  ASSUME QueueInv, NEW e \in queue, FireFrameEnd(e)
  PROVE  QueueInv' /\ Handled(e)
<1>1. e.time \in Nat /\ joyStart \in Nat \cup {NoStart} /\ TimerTyped
  BY DEF QueueInv, Types, EventsTyped, SignalEvent, DeviceTyped
<1>2. /\ Firing(e) /\ UNCHANGED <<now, ppu, due>> /\ UNCHANGED hdma
      /\ joyStart' \in Nat \cup {NoStart} /\ TimerTyped'
  BY <1>1 DEF FireFrameEnd, TimerTyped, timer, programming
<1>3. Timer!Push(queue \ {e}, <<[time |-> e.time + NextFramePeriod(ppu), kind |-> FrameEnd]>>)
  BY DEF FireFrameEnd
<1>4. e.time + NextFramePeriod(ppu) \in Nat /\ e.time < e.time + NextFramePeriod(ppu)
  BY <1>1, PeriodsAre
<1>5. {FrameEnd} \in SUBSET SignalKind /\ FrameEnd \in {FrameEnd} /\ HdmaFire \notin {FrameEnd}
  BY KindsAre
<1>6. Pushes(queue \ {e}, e.time, {FrameEnd})
  BY <1>1, <1>3, <1>4, <1>5, PushOne
<1> QED
  BY <1>2, <1>5, <1>6, OtherSignals

(***************************************************************************)
(* The VBlank handler: the automatic read and the next VBlank.             *)
(***************************************************************************)
LEMMA VblankKeeps ==
  ASSUME QueueInv, NEW e \in queue, FireVblank(e)
  PROVE  QueueInv' /\ Handled(e)
<1> DEFINE kinds == {AutoJoypadStart, VblankNmiBoundary}
<1>1. e.time \in Nat /\ joyStart \in Nat \cup {NoStart} /\ TimerTyped
  BY DEF QueueInv, Types, EventsTyped, SignalEvent, DeviceTyped
<1>2. /\ Firing(e) /\ UNCHANGED <<now, ppu, due>> /\ UNCHANGED hdma /\ TimerTyped'
      /\ joyStart' = AutoReadStart(e.time)
  BY <1>1 DEF FireVblank, TimerTyped, timer, programming
<1>3. Timer!Push(queue \ {e},
         << [time |-> joyStart', kind |-> AutoJoypadStart],
            [time |-> e.time + NextFramePeriod(ppu), kind |-> VblankNmiBoundary] >>)
  BY DEF FireVblank
<1>4. e.time + NextFramePeriod(ppu) \in Nat /\ e.time < e.time + NextFramePeriod(ppu)
  BY <1>1, PeriodsAre
<1>5. joyStart' \in Nat /\ e.time < joyStart'
  BY <1>1, <1>2, AutoReadIsLater
<1>6. kinds \in SUBSET SignalKind /\ AutoJoypadStart \in kinds /\ VblankNmiBoundary \in kinds
      /\ HdmaFire \notin kinds
  BY KindsAre
<1> HIDE DEF kinds
<1>7. Pushes(queue \ {e}, e.time, kinds)
  BY <1>1, <1>3, <1>4, <1>5, <1>6, PushTwo
<1> QED
  BY <1>2, <1>5, <1>6, <1>7, OtherSignals

(***************************************************************************)
(* The automatic read schedules nothing.                                   *)
(***************************************************************************)
LEMMA JoypadKeeps ==
  ASSUME QueueInv, NEW e \in queue, FireJoypad(e)
  PROVE  QueueInv' /\ Handled(e)
<1>1. joyStart \in Nat \cup {NoStart} /\ TimerTyped
  BY DEF QueueInv, Types, DeviceTyped
<1>2. /\ Firing(e) /\ UNCHANGED <<now, ppu, due>> /\ UNCHANGED hdma
      /\ joyStart' \in Nat \cup {NoStart} /\ TimerTyped'
  BY <1>1 DEF FireJoypad, TimerTyped, timer, programming
<1>3. Pushes(queue \ {e}, e.time, {})
  BY PushNone DEF FireJoypad
<1>4. {} \in SUBSET SignalKind /\ HdmaFire \notin {}
  OBVIOUS
<1> QED
  BY <1>2, <1>3, <1>4, OtherSignals

(***************************************************************************)
(* An IRQ match schedules the next one, or nothing.                        *)
(***************************************************************************)
LEMMA IrqMatchKeeps ==
  ASSUME QueueInv, NEW e \in queue, FireIrqMatch(e)
  PROVE  QueueInv' /\ Handled(e)
<1>1. joyStart \in Nat \cup {NoStart} /\ TimerTyped /\ e \in SignalEvent /\ ppu \in Nat
  BY DEF QueueInv, Types, DeviceTyped, EventsTyped
<1>2. /\ Firing(e) /\ UNCHANGED <<now, ppu, due>> /\ UNCHANGED hdma
      /\ joyStart' \in Nat \cup {NoStart} /\ Timer!OnIrqMatch(e, ppu)
  BY <1>1 DEF FireIrqMatch
<1>3. TimerTyped' /\ Pushes(queue \ {e}, e.time, {HIrqMatch})
  BY <1>1, <1>2, MatchTyped
<1>4. {HIrqMatch} \in SUBSET SignalKind /\ HdmaFire \notin {HIrqMatch}
  BY KindsAre
<1> QED
  BY <1>2, <1>3, <1>4, OtherSignals

(***************************************************************************)
(* HDMA: the stall moves time on, and the next transfer comes later.       *)
(***************************************************************************)
LEMMA StallTyped ==
  ASSUME Types, NEW t \in Nat, StallUntil(t)
  PROVE  now' \in Nat /\ now <= now' /\ due' \in BOOLEAN
<1>1. now \in Nat /\ due \in BOOLEAN
  BY DEF Types, ClockTyped, CpuTyped
<1> QED
  BY <1>1, LargerIs, DueTyped DEF StallUntil

(***************************************************************************)
(* A handler of HDMA: it stalls, and its next event is the transfer that   *)
(* comes next, later than the event handled.                               *)
(***************************************************************************)
LEMMA TransferKeeps ==
  ASSUME QueueInv, NEW e \in queue, e.kind = HdmaFire, Firing(e),
         NEW t \in Nat, StallUntil(t), HdmaTyped', HdmaTime < HdmaTime',
         Timer!Push(queue \ {e}, <<[time |-> HdmaTime', kind |-> HdmaFire]>>),
         UNCHANGED <<ppu, timer, joyStart>>
  PROVE  QueueInv' /\ Handled(e)
<1> USE DEF QueueInv, Types
<1>1. now' \in Nat /\ now <= now' /\ due' \in BOOLEAN
  BY StallTyped
<1>2. /\ ClockTyped' /\ CpuTyped' /\ LoopTyped' /\ Steady'
      /\ nmiEnable' \in BOOLEAN /\ hdmaen' \in BOOLEAN
      /\ writes' \in 0..MaxWrites /\ resets' \in 0..MaxResets
      /\ queue \ {e} \in SUBSET SignalEvent /\ ppu' \in Nat /\ e.time \in Nat
  BY <1>1, FiringTyped
<1>3. HdmaTime' \in Nat /\ e.time < HdmaTime'
  <2>1. HdmaTime' \in Nat
    <3>1. hdma'.base \in Nat /\ hdma'.v \in Nat
      BY DEF HdmaTyped
    <3>2. HdmaInitAt \in Nat /\ HdmaLineAt \in Nat /\ hdma'.v * NormalLineCycles \in Nat
      BY <3>1, MachineAssumption, RasterIs
    <3> QED
      BY <3>1, <3>2 DEF HdmaTime
  <2> QED
    BY <2>1 DEF OneTransfer
<1>4. Pushes(queue \ {e}, e.time, {HdmaFire})
  <2>1. {HdmaFire} \in SUBSET SignalKind /\ HdmaFire \in {HdmaFire}
    BY KindsAre
  <2> QED
    BY <1>2, <1>3, <2>1, PushOne
<1>5. EventsTyped'
  BY <1>2, <1>4, PushesTyped
<1>6. Numbered'
  <2>1. queue \ {e} \in SUBSET queue
    OBVIOUS
  <2> QED
    BY <2>1, <1>4, PushesNumbered
<1>7. OneTransfer'
  BY NextTransfer
<1>8. TimerTyped' /\ DeviceTyped'
  BY <1>2 DEF TimerTyped, timer, programming, DeviceTyped
<1>9. Handled(e)
  <2>1. {HdmaFire} \in SUBSET SignalKind
    BY KindsAre
  <2> QED
    BY <1>4, <2>1, WiderKinds DEF Handled
<1> QED
  BY <1>2, <1>5, <1>6, <1>7, <1>8, <1>9

(***************************************************************************)
(* The start of a frame's transfers.                                       *)
(***************************************************************************)
LEMMA HdmaInitKeeps ==
  ASSUME QueueInv, NEW e \in queue, FireHdmaInit(e)
  PROVE  QueueInv' /\ Handled(e)
<1> DEFINE stall == e.time + HdmaInitCost + (IF hdmaen THEN HdmaChannelInitCost ELSE 0)
<1>1. /\ HdmaInitAt \in Nat /\ HdmaLineAt \in Nat /\ HdmaInitAt < HdmaLineAt
      /\ HdmaInitCost \in Nat /\ HdmaChannelInitCost \in Nat /\ VblankLine \in Nat \ {0}
      /\ NormalLineCycles \in Nat
  BY MachineAssumption, RasterIs
<1>2. e.time \in Nat /\ hdmaen \in BOOLEAN /\ HdmaTyped
  BY DEF QueueInv, Types, EventsTyped, SignalEvent, DeviceTyped
<1>3. /\ e.kind = HdmaFire /\ Firing(e) /\ UNCHANGED <<ppu, timer, joyStart>> /\ StallUntil(stall)
      /\ hdma.phase = "init"
      /\ hdma' = [hdma EXCEPT !.phase = "line", !.v = 0, !.active = hdmaen]
      /\ Timer!Push(queue \ {e}, <<[time |-> hdma.base + HdmaLineAt, kind |-> HdmaFire]>>)
  BY DEF FireHdmaInit
<1>4. stall \in Nat
  BY <1>1, <1>2
<1>5. HdmaTyped'
  <2>1. 0 \in 0..HdmaLastVisibleV
    BY <1>1 DEF HdmaLastVisibleV
  <2>2. hdma' = [hdma EXCEPT !.phase = "line", !.v = 0, !.active = hdmaen]
    BY <1>3
  <2> QED
    BY <1>2, <2>1, <2>2 DEF HdmaTyped
<1>6. hdma.base \in Nat /\ hdma'.base = hdma.base /\ hdma'.phase = "line" /\ hdma'.v = 0
  BY <1>2, <1>3 DEF HdmaTyped
<1>7. HdmaTime = hdma.base + HdmaInitAt /\ HdmaTime' = hdma.base + HdmaLineAt
  BY <1>1, <1>3, <1>6 DEF HdmaTime
<1> HIDE DEF stall
<1> QED
  BY <1>1, <1>3, <1>4, <1>5, <1>6, <1>7, TransferKeeps

(***************************************************************************)
(* The transfer after a line comes later: the next line's, or the start of *)
(* the next frame's, whatever the length of this one.                      *)
(***************************************************************************)
LEMMA AfterHdmaLineIs ==
  ASSUME HdmaTyped, hdma.phase = "line", NEW active \in BOOLEAN,
         hdma' = AfterHdmaLine(active)
  PROVE  /\ HdmaTyped' /\ HdmaTime < HdmaTime'
         /\ HdmaTime' = IF hdma'.phase = "init" THEN hdma'.base + HdmaInitAt
                        ELSE hdma'.base + hdma'.v * NormalLineCycles + HdmaLineAt
<1> DEFINE c == NormalLineCycles
<1>1. /\ HdmaInitAt \in Nat /\ HdmaLineAt \in Nat /\ HdmaLineAt <= c
      /\ VblankLine \in 1..(LinesPerFrame - 1)
      /\ c \in Nat \ {0} /\ LinesPerFrame \in Nat \ {0}
  BY MachineAssumption, RasterIs
<1>2. /\ hdma.base \in Nat /\ hdma.v \in 0..(VblankLine - 1) /\ hdma.field \in BOOLEAN
  BY DEF HdmaTyped, HdmaLastVisibleV
<1>3. hdma.v * c \in Nat
  BY <1>1, <1>2
<1>4. HdmaTime = hdma.base + hdma.v * c + HdmaLineAt
  BY DEF HdmaTime
<1>5. HdmaTime' = IF hdma'.phase = "init" THEN hdma'.base + HdmaInitAt
                  ELSE hdma'.base + hdma'.v * c + HdmaLineAt
  BY DEF HdmaTime
<1>6. CASE hdma.v >= HdmaLastVisibleV
  <2> DEFINE next == hdma.base + FrameCycles(hdma.field)
  <2>1. MasterCycleAt(0, LinesPerFrame, hdma.base, hdma.field) = next
        /\ FrameCycles(hdma.field) \in Nat /\ FrameCycles(hdma.field) > (LinesPerFrame - 1) * c
    BY <1>2, FramesAre
  <2>2. hdma' = [phase |-> "init", v |-> hdma.v, base |-> next, field |-> ~hdma.field,
                 active |-> active]
    BY <1>6, <2>1 DEF AfterHdmaLine
  <2>3. hdma'.phase = "init" /\ hdma'.base = next
    BY <2>2
  <2>4. (LinesPerFrame - 1) * c >= hdma.v * c + c
    <3>1. LinesPerFrame - 2 - hdma.v \in Nat
      BY <1>1, <1>2
    <3>2. (LinesPerFrame - 2 - hdma.v) * c >= 0
      BY <1>1, <3>1
    <3>3. (LinesPerFrame - 2 - hdma.v) * c = (LinesPerFrame - 1) * c - (hdma.v * c + c)
      BY <1>1, <1>2
    <3> QED
      BY <1>1, <1>2, <3>2, <3>3
  <2>5. next \in Nat
    BY <1>2, <2>1
  <2>6. HdmaTime < next + HdmaInitAt
    <3>1. (LinesPerFrame - 1) * c \in Nat
      BY <1>1
    <3> QED
      BY <1>1, <1>2, <1>3, <1>4, <2>1, <2>4, <3>1
  <2>7. HdmaTyped'
    <3>1. hdma.v \in 0..HdmaLastVisibleV
      BY DEF HdmaTyped
    <3>2. (~hdma.field) \in BOOLEAN
      <4>1. ASSUME NEW x \in BOOLEAN
            PROVE  (~x) \in BOOLEAN
        OBVIOUS
      <4> QED
        BY <1>2, <4>1
    <3> HIDE DEF next
    <3> QED
      BY <2>2, <2>5, <3>1, <3>2 DEF HdmaTyped
  <2> QED
    BY <1>5, <2>3, <2>6, <2>7
<1>7. CASE ~(hdma.v >= HdmaLastVisibleV)
  <2>1. hdma' = [hdma EXCEPT !.v = hdma.v + 1, !.active = active]
    BY <1>7 DEF AfterHdmaLine
  <2>2. hdma'.phase = "line" /\ hdma'.base = hdma.base /\ hdma'.v = hdma.v + 1
    BY <2>1 DEF HdmaTyped
  <2>3. hdma.v + 1 \in 0..HdmaLastVisibleV
    BY <1>1, <1>2, <1>7 DEF HdmaLastVisibleV
  <2>4. HdmaTyped'
    BY <2>1, <2>3 DEF HdmaTyped
  <2>5. (hdma.v + 1) * c = hdma.v * c + c
    BY <1>1, <1>2
  <2>6. HdmaTime' = hdma.base + (hdma.v * c + c) + HdmaLineAt
    BY <1>5, <2>2, <2>5
  <2>7. HdmaTime < HdmaTime'
    BY <1>1, <1>2, <1>3, <1>4, <2>6
  <2> QED
    BY <1>5, <2>4, <2>7
<1> QED
  BY <1>6, <1>7

(***************************************************************************)
(* The transfer of a line.                                                 *)
(***************************************************************************)
LEMMA HdmaLineKeeps ==
  ASSUME QueueInv, NEW e \in queue, FireHdmaLine(e)
  PROVE  QueueInv' /\ Handled(e)
<1>1. HdmaSetup \in Nat /\ HdmaLineCosts \subseteq Nat
  BY MachineAssumption
<1>2. e.time \in Nat /\ HdmaTyped /\ hdma.active \in BOOLEAN
  BY DEF QueueInv, Types, EventsTyped, SignalEvent, HdmaTyped
<1>3. /\ e.kind = HdmaFire /\ Firing(e) /\ UNCHANGED <<ppu, timer, joyStart>>
      /\ hdma.phase = "line"
      /\ Timer!Push(queue \ {e},
           << [kind |-> HdmaFire,
               time |-> IF hdma'.phase = "init" THEN hdma'.base + HdmaInitAt
                        ELSE hdma'.base + hdma'.v * NormalLineCycles + HdmaLineAt] >>)
  BY DEF FireHdmaLine
<1>4. PICK active \in BOOLEAN, t \in Nat : StallUntil(t) /\ hdma' = AfterHdmaLine(active)
  <2>1. CASE hdma.active /\ hdmaen
    <3>1. PICK cost \in HdmaLineCosts, goesOn \in BOOLEAN :
            StallUntil(e.time + HdmaSetup + cost) /\ hdma' = AfterHdmaLine(goesOn)
      BY <2>1, Zenon DEF FireHdmaLine
    <3>2. e.time + HdmaSetup + cost \in Nat
      BY <1>1, <1>2
    <3> QED
      BY <3>1, <3>2
  <2>2. CASE ~(hdma.active /\ hdmaen)
    <3>1. StallUntil(e.time) /\ hdma' = AfterHdmaLine(hdma.active)
      BY <2>2, Zenon DEF FireHdmaLine
    <3> QED
      BY <3>1, <1>2
  <2> QED
    BY <2>1, <2>2
<1>5. /\ HdmaTyped' /\ HdmaTime < HdmaTime'
      /\ HdmaTime' = IF hdma'.phase = "init" THEN hdma'.base + HdmaInitAt
                     ELSE hdma'.base + hdma'.v * NormalLineCycles + HdmaLineAt
  BY <1>2, <1>3, <1>4, AfterHdmaLineIs
<1>6. Timer!Push(queue \ {e}, <<[time |-> HdmaTime', kind |-> HdmaFire]>>)
  <2>1. [kind |-> HdmaFire, time |-> HdmaTime'] = [time |-> HdmaTime', kind |-> HdmaFire]
    OBVIOUS
  <2> QED
    BY <1>3, <1>5, <2>1
<1> QED
  BY <1>3, <1>4, <1>5, <1>6, TransferKeeps
-----------------------------------------------------------------------------
(***************************************************************************)
(* The steps, by what they do to the queue and the drain.                  *)
(***************************************************************************)
Quiet == UNCHANGED <<queue, nextSeq, through, fired, hdma>>

Returns ==
  /\ through = Sched!NoDrain
  /\ UNCHANGED <<queue, nextSeq, fired, hdma>>

Programs ==
  /\ through = Sched!NoDrain
  /\ Pushes(queue, now', {HIrqMatch})
  /\ UNCHANGED <<through, fired, hdma>>

(***************************************************************************)
(* A step is a reset, a handler, or one of these that keeps the types.     *)
(***************************************************************************)
LEMMA StepsAre ==
  ASSUME Types, Next
  PROVE  (Types' /\ (Quiet \/ Returns \/ Programs \/ EndDrain)) \/ Reset \/ Fire
<1> USE DEF events, drain, device
<1>1. CASE (\E budget \in Budgets : TickFrame(budget)) \/ Loop \/ EnterRunning
  <2>1. Types'
    BY <1>1, LoopTypes
  <2>2. Quiet \/ EndDrain
    BY <1>1 DEF TickFrame, Loop, LeaveTickFrame, ChooseTarget, EnterRunning, Quiet
  <2> QED
    BY <2>1, <2>2
<1>2. CASE EnterStp \/ EnterWaiIdle \/ EnterWaiWake
  <2>1. Types'
    BY <1>2, EnterTypes
  <2>2. at = "enter" /\ through = Sched!NoDrain
    BY <1>2 DEF EnterStp, EnterWaiIdle, EnterWaiWake, Types, Steady
  <2>3. UNCHANGED <<queue, nextSeq, fired, hdma>>
    BY <1>2 DEF EnterStp, EnterWaiIdle, EnterWaiWake, ReturnAt
  <2> QED
    BY <2>1, <2>2, <2>3 DEF Returns
<1>3. CASE LoopEnds \/ LoopHalted \/ SampleInterrupts \/ LoopRefresh \/ LoopBank
  <2>1. Types'
    BY <1>3, TurnTypes
  <2>2. at # "drain" /\ through = Sched!NoDrain
    BY <1>3 DEF LoopEnds, LoopHalted, SampleInterrupts, LoopRefresh, LoopBank, Stepping, Types, Steady
  <2>3. UNCHANGED <<queue, nextSeq, fired, hdma>>
    BY <1>3 DEF LoopEnds, LoopHalted, SampleInterrupts, LoopRefresh, LoopBank, ReturnAt
  <2> QED
    BY <2>1, <2>2, <2>3 DEF Returns
<1>4. CASE FetchOpcode
  <2>1. Types'
    BY <1>4, FetchTypes
  <2>2. Quiet
    BY <1>4 DEF FetchOpcode, Quiet
  <2> QED
    BY <2>1, <2>2
<1>5. CASE Execute
  <2>1. Types'
    BY <1>5, ExecuteTypes
  <2>2. UNCHANGED <<through, fired, hdma>>
    BY <1>5 DEF Execute, ExecutePlain, EnterInterruptHandler, HaltCpu, WriteNmiEnable, WriteTimer,
       ReadTimeUp, WriteMdmaEn, WriteHdmaEn, Finish
  <2>3. through = Sched!NoDrain
    <3>1. Stepping
      BY <1>5 DEF Execute, ExecutePlain, EnterInterruptHandler, HaltCpu, WriteNmiEnable, WriteTimer,
         ReadTimeUp, WriteMdmaEn, WriteHdmaEn, Finish
    <3> QED
      BY <3>1, StepTyped DEF Types, Steady
  <2>4. CASE WriteTimer
    <3>1. now' \in Nat /\ ppu \in Nat /\ TimerTyped /\ EventsTyped
      BY <2>1 DEF Types, ClockTyped, DeviceTyped
    <3>2. Pushes(queue, now', {HIrqMatch})
      BY <2>4, <3>1, TimerWriteTyped DEF WriteTimer
    <3> QED
      BY <2>1, <2>2, <2>3, <3>2 DEF Programs
  <2>5. CASE ~WriteTimer
    <3>1. UNCHANGED <<queue, nextSeq>>
      BY <1>5, <2>5 DEF Execute, ExecutePlain, EnterInterruptHandler, HaltCpu, WriteNmiEnable,
         ReadTimeUp, WriteMdmaEn, WriteHdmaEn, NoBus, Timer!ReadTimeUp
    <3> QED
      BY <2>1, <2>2, <3>1 DEF Quiet
  <2> QED
    BY <2>4, <2>5
<1>6. CASE End
  <2>1. UNCHANGED vars
    BY <1>6 DEF End
  <2>2. Quiet
    BY <2>1 DEF vars, Quiet
  <2>3. Types'
    <3>1. UNCHANGED <<now, ppu, programming, clock, irqs, events, device, bounds, cpu, due>>
      BY <2>1 DEF vars, timer
    <3>2. ClockTyped' /\ TimerTyped' /\ EventsTyped' /\ CpuTyped' /\ HdmaTyped' /\ DeviceTyped'
      BY <3>1, ConsoleStands
    <3>3. LoopTyped' /\ Steady'
      BY <2>1 DEF vars, loop, Types, LoopTyped, Steady
    <3> QED
      BY <3>2, <3>3 DEF Types
  <2> QED
    BY <2>2, <2>3
<1> QED
  BY <1>1, <1>2, <1>3, <1>4, <1>5, <1>6 DEF Next, Host, Enter, Tick

(***************************************************************************)
(* The invariant of the queue holds at the start and after every step.     *)
(***************************************************************************)
LEMMA FirstQueue ==
  ASSUME EventsTyped, queue = Scheduled(FirstSignals, 0), nextSeq = Len(FirstSignals),
         hdma = HdmaReset
  PROVE  Numbered /\ OneTransfer
<1> DEFINE ev(i) == [time |-> FirstSignals[i].time, kind |-> FirstSignals[i].kind, seq |-> 0 + i - 1]
<1>1. FirstSignals \in Seq(SignalRequest) /\ Len(FirstSignals) = 3
  BY FirstSignalsAre
<1>2. /\ FirstSignals[1].kind = HdmaFire /\ FirstSignals[1].time = HdmaInitAt
      /\ FirstSignals[2].kind = FrameEnd /\ FirstSignals[3].kind = VblankNmiBoundary
  BY DEF FirstSignals
<1>3. ASSUME NEW e \in queue
      PROVE  \E i \in 1..3 : e.time = FirstSignals[i].time /\ e.kind = FirstSignals[i].kind
                             /\ e.seq = 0 + i - 1 /\ e = ev(i)
  BY <1>1, NewEvents
<1> HIDE DEF ev
<1>4. Numbered
  <2>1. \A e \in queue : e.seq < nextSeq
    BY <1>1, <1>3
  <2>2. \A d, e \in queue : d.seq = e.seq => d = e
    BY <1>3
  <2> QED
    BY <2>1, <2>2 DEF Numbered
<1>5. \A e \in queue : e.kind = HdmaFire => e = ev(1) /\ e.time = HdmaInitAt
  BY <1>2, <1>3, KindsAre
<1>6. HdmaTime = HdmaInitAt
  BY MachineAssumption DEF HdmaTime, HdmaReset
<1> QED
  BY <1>4, <1>5, <1>6 DEF OneTransfer

(***************************************************************************)
(* The types, the numbers of the events and the single HDMA event hold in  *)
(* every reachable state.                                                  *)
(***************************************************************************)
LEMMA QueueInvHolds == Spec => []QueueInv
<1>1. Init => QueueInv
  <2> SUFFICES ASSUME Init
               PROVE  QueueInv
    OBVIOUS
  <2>1. Types
    BY InitTypes
  <2>2. Numbered /\ OneTransfer
    BY <2>1, FirstQueue DEF Init, Types
  <2> QED
    BY <2>1, <2>2 DEF QueueInv
<1>2. QueueInv /\ [Next]_vars => QueueInv'
  <2> SUFFICES ASSUME QueueInv, [Next]_vars
               PROVE  QueueInv'
    OBVIOUS
  <2> USE DEF QueueInv
  <2>1. CASE UNCHANGED vars
    BY <2>1 DEF vars, timer, programming, clock, irqs, events, loop, drain, device, bounds, cpu, Types,
       ClockTyped, TimerTyped, EventsTyped, CpuTyped, HdmaTyped, DeviceTyped, LoopTyped, Steady,
       Numbered, OneTransfer, HdmaTime
  <2>2. CASE Reset
    <3>1. Types'
      BY <2>2, ResetTypes
    <3>2. (EventsTyped /\ queue = Scheduled(FirstSignals, 0) /\ nextSeq = Len(FirstSignals)
             /\ hdma = HdmaReset => Numbered /\ OneTransfer)'
      BY FirstQueue, PTL
    <3>3. EventsTyped' /\ (queue = Scheduled(FirstSignals, 0))' /\ (nextSeq = Len(FirstSignals))'
            /\ (hdma = HdmaReset)'
      BY <2>2, <3>1 DEF Reset, Types
    <3> QED
      BY <3>1, <3>2, <3>3
  <2>3. CASE Fire
    BY <2>3, FrameEndKeeps, VblankKeeps, JoypadKeeps, IrqMatchKeeps, HdmaInitKeeps, HdmaLineKeeps
    DEF Fire
  <2>4. CASE Types' /\ (Quiet \/ Returns \/ EndDrain)
    BY <2>4 DEF Quiet, Returns, EndDrain, Numbered, OneTransfer, HdmaTime, events, device
  <2>5. CASE Types' /\ Programs
    <3>1. EventsTyped /\ queue \in SUBSET queue /\ HdmaFire \notin {HIrqMatch}
      BY KindsAre DEF Types
    <3> QED
      BY <2>5, <3>1, PushesNumbered, PushesNoTransfer DEF Programs
  <2> QED
    BY <2>1, <2>2, <2>3, <2>4, <2>5, StepsAre
<1> QED
  BY <1>1, <1>2, PTL DEF Spec

-----------------------------------------------------------------------------
(***************************************************************************)
(* From when on the programmed dots are owed a match: from a time the PPU  *)
(* was looked at or, after a write in the slice that runs, a time reached; *)
(* and a drain has looked at the PPU at the time it goes through.          *)
(***************************************************************************)
Owed ==
  /\ since \in Nat
  /\ since <= ppu \/ (at \in {"loop", "step"} /\ since <= now)
  /\ at = "drain" => through <= ppu

(***************************************************************************)
(* The return from TickToTarget looks at the PPU at the time reached.      *)
(***************************************************************************)
LEMMA ReturnOwes ==
  ASSUME Types, Owed, NEW t \in Nat, NEW p \in Nat, ReturnAt(t, p), UNCHANGED since,
         at \in {"loop", "step"} => now <= t
  PROVE  Owed'
<1>1. ppu \in Nat /\ now \in Nat /\ since \in Nat
  BY DEF Types, DeviceTyped, ClockTyped, Owed
<1>2. ppu' = Larger(Larger(ppu, p), t) /\ at' = "drain" /\ through' = t
  BY DEF ReturnAt
<1>3. ppu' \in Nat /\ ppu <= ppu' /\ t <= ppu'
  BY <1>1, <1>2 DEF Larger
<1> QED
  BY <1>1, <1>2, <1>3 DEF Owed

(***************************************************************************)
(* A step inside the slice does not move the PPU or time back.             *)
(***************************************************************************)
LEMMA SliceOwes ==
  ASSUME Types, Owed, at \in {"enter", "loop", "step"}, at' \in {"loop", "step"}, UNCHANGED since,
         now' \in Nat, now <= now', ppu' \in Nat, ppu <= ppu'
  PROVE  Owed'
  BY DEF Types, DeviceTyped, ClockTyped, Owed

(***************************************************************************)
(* Every step keeps it.                                                    *)
(***************************************************************************)
LEMMA OwedKept ==
  ASSUME QueueInv, QueueInv', Owed, Next
  PROVE  Owed'
<1>1. /\ Types /\ now \in Nat /\ ppu \in Nat /\ target \in Nat /\ ClockTyped
      /\ now' \in Nat /\ ppu' \in Nat /\ since \in Nat
  BY DEF QueueInv, Types, ClockTyped, DeviceTyped, LoopTyped, Owed
<1> USE DEF timer
<1>2. CASE (\E budget \in Budgets : TickFrame(budget)) \/ LeaveTickFrame \/ ChooseTarget \/ EnterRunning
  <2>1. UNCHANGED <<since, ppu>> /\ at \notin {"loop", "step"} /\ at' # "drain"
    BY <1>2 DEF TickFrame, LeaveTickFrame, ChooseTarget, EnterRunning
  <2> QED
    BY <2>1 DEF Owed
<1>3. CASE EndDrain
  BY <1>1, <1>3 DEF EndDrain, Owed
<1>4. CASE EnterStp \/ EnterWaiIdle
  <2>1. at = "enter" /\ UNCHANGED since /\ \E p \in {0, now} : ReturnAt(target, p)
    BY <1>4 DEF EnterStp, EnterWaiIdle
  <2> QED
    BY <1>1, <2>1, ReturnOwes
<1>5. CASE EnterWaiWake
  <2>1. wakeLeft \in 0..WakeCycles /\ WakeCycles \in Nat \ {0}
    BY <1>1, MachineAssumption DEF ClockTyped
  <2>2. PICK left \in 1..WakeCycles : Clock!Wake(left, target)
    BY <2>1, <1>5 DEF EnterWaiWake
  <2>3. now <= now'
    BY <1>1, <2>2, WakeTyped
  <2>4. at = "enter" /\ UNCHANGED since
    BY <1>5 DEF EnterWaiWake
  <2>5. CASE ReturnAt(now', now)
    BY <1>1, <2>4, <2>5, ReturnOwes
  <2>6. CASE at' = "loop" /\ ppu' = Larger(ppu, now)
    <3>1. ppu <= ppu'
      BY <1>1, <2>6, LargerIs
    <3> QED
      BY <1>1, <2>3, <2>4, <2>6, <3>1, SliceOwes
  <2> QED
    BY <1>5, <2>5, <2>6 DEF EnterWaiWake
<1>6. CASE LoopEnds
  <2>1. UNCHANGED since /\ ReturnAt(now, 0)
    BY <1>6 DEF LoopEnds
  <2> QED
    BY <1>1, <2>1, ReturnOwes
<1>7. CASE LoopHalted \/ LoopBank
  <2>1. UNCHANGED since /\ ReturnAt(target, 0)
    BY <1>7 DEF LoopHalted, LoopBank
  <2>2. now < target
    BY <1>1, <1>7, StepTyped DEF LoopHalted, LoopBank
  <2> QED
    BY <1>1, <2>1, <2>2, ReturnOwes
<1>8. CASE SampleInterrupts
  <2>1. at = "loop" /\ at' = "step" /\ UNCHANGED <<since, now>> /\ ppu' = Larger(ppu, now)
    BY <1>8 DEF SampleInterrupts
  <2>2. ppu <= ppu'
    BY <1>1, <2>1, LargerIs
  <2> QED
    BY <1>1, <2>1, <2>2, SliceOwes
<1>9. CASE LoopRefresh \/ FetchOpcode
  <2>1. UNCHANGED <<since, ppu>> /\ at' = "loop"
    BY <1>9 DEF LoopRefresh, FetchOpcode
  <2>2. Stepping
    BY <1>9 DEF LoopRefresh, FetchOpcode
  <2>3. /\ at \in {"loop", "step"} /\ now < target
        /\ instr \in DOMAIN Cost /\ StepCost = Cost[instr]
    BY <1>1, <2>2, StepTyped
  <2>4. now <= now'
    BY <1>1, <1>9, <2>3, RefreshTyped, RetireTyped DEF LoopRefresh, FetchOpcode
  <2> QED
    BY <1>1, <2>1, <2>3, <2>4, SliceOwes
<1>10. CASE Execute
  <2>1. at' = "loop" /\ Stepping
    BY <1>10, Zenon DEF Execute, ExecutePlain, EnterInterruptHandler, HaltCpu, WriteNmiEnable, WriteTimer,
       ReadTimeUp, WriteMdmaEn, WriteHdmaEn, Finish
  <2>2. at \in {"loop", "step"}
    BY <1>1, <2>1, StepTyped
  <2>3. CASE WriteTimer
    <3>1. since' = Larger(now', ppu) /\ UNCHANGED ppu
      BY <2>3, Zenon DEF WriteTimer
    <3>2. since' \in Nat /\ (since' = now' \/ since' = ppu')
      BY <1>1, <3>1, LargerIs
    <3> QED
      BY <1>1, <2>1, <3>2 DEF Owed
  <2>4. CASE ~WriteTimer
    <3>1. UNCHANGED since
      BY <1>10, <2>4 DEF Execute, ExecutePlain, EnterInterruptHandler, HaltCpu, WriteNmiEnable,
         ReadTimeUp, WriteMdmaEn, WriteHdmaEn, NoBus
    <3>2. ppu <= ppu'
      <4>1. ppu' = ppu \/ ppu' = Larger(ppu, now')
        BY <1>10, <2>4 DEF Execute, ExecutePlain, EnterInterruptHandler, HaltCpu, WriteNmiEnable,
           ReadTimeUp, WriteMdmaEn, WriteHdmaEn, NoBus
      <4> QED
        BY <1>1, <4>1, LargerIs
    <3>3. PICK stall \in Nat : Finish(stall)
      <4>1. CASE WriteMdmaEn
        BY <4>1, MachineAssumption DEF WriteMdmaEn
      <4>2. CASE ~WriteMdmaEn
        <5>1. Finish(0)
          BY <1>10, <2>4, <4>2, Zenon DEF Execute, ExecutePlain, EnterInterruptHandler, HaltCpu,
             WriteNmiEnable, ReadTimeUp, WriteHdmaEn
        <5> QED
          BY <5>1
      <4> QED
        BY <4>1, <4>2
    <3>4. /\ now < target /\ instr \in DOMAIN Cost /\ Clock!Retire(Cost[instr], stall, target)
      BY <1>1, <3>3, StepTyped DEF Finish
    <3>5. now <= now'
      BY <1>1, <3>4, RetireTyped
    <3> QED
      BY <1>1, <2>1, <2>2, <3>1, <3>2, <3>5, SliceOwes
  <2> QED
    BY <2>3, <2>4
<1>11. CASE Fire
  <2>1. /\ at = "drain" /\ UNCHANGED <<at, through, ppu, since>>
    BY <1>11 DEF Fire, FireFrameEnd, FireVblank, FireJoypad, FireIrqMatch, FireHdmaInit, FireHdmaLine,
       Firing, loop
  <2> QED
    BY <2>1 DEF Owed
<1>12. CASE Reset
  BY <1>12 DEF Reset, loop, Owed
<1>13. CASE End
  BY <1>13 DEF End, vars, loop, drain, Owed
<1> QED
  BY <1>2, <1>3, <1>4, <1>5, <1>6, <1>7, <1>8, <1>9, <1>10, <1>11, <1>12, <1>13
  DEF Next, Host, Loop, Enter, Tick

(***************************************************************************)
(* It holds in every reachable state.                                      *)
(***************************************************************************)
LEMMA OwedHolds == Spec => []Owed
<1>1. Init => Owed
  BY DEF Init, Owed
<1>2. QueueInv /\ QueueInv' /\ Owed /\ [Next]_vars => Owed'
  <2>1. ASSUME Owed, UNCHANGED vars
        PROVE  Owed'
    BY <2>1 DEF vars, timer, loop, drain, Owed
  <2> QED
    BY <2>1, OwedKept
<1> QED
  BY <1>1, <1>2, QueueInvHolds, PTL DEF Spec

(***************************************************************************)
(* Every reachable state has the types of TypeOK.                          *)
(***************************************************************************)
THEOREM TypeCorrect == Spec => []TypeOK
<1>1. QueueInv /\ Owed => TypeOK
  BY TypesAreTypeOK DEF QueueInv, Owed
<1> QED
  BY <1>1, QueueInvHolds, OwedHolds, PTL

(***************************************************************************)
(* What was scheduled can be read back from the queue by its numbers.      *)
(***************************************************************************)
LEMMA RequestsAre ==
  ASSUME EventsTyped, Numbered, NEW q \in SUBSET queue, NEW t, NEW kinds, NEW reqs,
         Schedules(q, t, kinds, reqs)
  PROVE  NewRequests = reqs
<1> DEFINE new(i) == CHOOSE e \in queue' : e.seq = nextSeq + i - 1
           ev(i) == [time |-> reqs[i].time, kind |-> reqs[i].kind, seq |-> nextSeq + i - 1]
           request(i) == [time |-> new(i).time, kind |-> new(i).kind]
<1>1. reqs \in Seq(SignalRequest) /\ Len(reqs) \in Nat /\ nextSeq \in Nat
      /\ nextSeq' - nextSeq = Len(reqs) /\ queue' = q \cup Scheduled(reqs, nextSeq)
  BY DEF Schedules, EventsTyped
<1>2. ASSUME NEW i \in 1..Len(reqs)
      PROVE  request(i) = reqs[i]
  <2>1. ev(i) \in queue' /\ ev(i).seq = nextSeq + i - 1
    BY <1>1, NewEvents
  <2>2. ASSUME NEW e \in queue', e.seq = nextSeq + i - 1
        PROVE  e.time = reqs[i].time /\ e.kind = reqs[i].kind
    <3>1. CASE e \in q
      <4>1. e.seq \in Nat /\ e.seq < nextSeq
        BY <3>1 DEF Numbered, EventsTyped, SignalEvent
      <4> QED
        BY <2>2, <4>1, <1>1
    <3>2. CASE e \in Scheduled(reqs, nextSeq)
      <4>1. PICK j \in 1..Len(reqs) :
              e.time = reqs[j].time /\ e.kind = reqs[j].kind /\ e.seq = nextSeq + j - 1
        BY <3>2, <1>1, NewEvents
      <4>2. i = j
        <5>1. nextSeq + i - 1 = nextSeq + j - 1
          BY <2>2, <4>1, Zenon
        <5>2. i \in Int /\ j \in Int
          BY <1>1
        <5> QED
          BY <5>1, <5>2, <1>1
      <4> QED
        BY <4>1, <4>2
    <3> QED
      BY <1>1, <3>1, <3>2
  <2> HIDE DEF ev
  <2>3. new(i) \in queue' /\ new(i).seq = nextSeq + i - 1
    BY <2>1
  <2> HIDE DEF new
  <2>4. new(i).time = reqs[i].time /\ new(i).kind = reqs[i].kind
    BY <2>2, <2>3
  <2>5. reqs[i] = [time |-> reqs[i].time, kind |-> reqs[i].kind]
    <3>1. reqs[i] \in SignalRequest
      BY <1>1
    <3> QED
      BY <3>1 DEF SignalRequest
  <2> QED
    BY <2>4, <2>5
<1>3. NewRequests = [i \in 1..(nextSeq' - nextSeq) |-> request(i)]
  BY Zenon DEF NewRequests
<1> HIDE DEF request
<1>4. reqs = [i \in 1..Len(reqs) |-> reqs[i]]
  BY <1>1
<1> QED
  BY <1>1, <1>2, <1>3, <1>4

(***************************************************************************)
(* The scheduler's own view of a queue and of requests.                    *)
(***************************************************************************)
LEMMA SameScheduler ==
  /\ \A reqs, n : Sched!Scheduled(reqs, n) = Scheduled(reqs, n)
  /\ \A e, q : Sched!IsTop(e, q) = IsTop(e, q)
<1>1. ASSUME NEW reqs, NEW n
      PROVE  Sched!Scheduled(reqs, n) = Scheduled(reqs, n)
  BY Zenon DEF Sched!Scheduled, Scheduled
<1>2. ASSUME NEW e, NEW q
      PROVE  Sched!IsTop(e, q) = IsTop(e, q)
  BY Zenon DEF Sched!IsTop, IsTop, Sched!Before, Before
<1> QED
  BY <1>1, <1>2

(***************************************************************************)
(* Every step of the machine, whatever the program, the devices and the    *)
(* host do, uses the scheduler as module Scheduler says: signals are       *)
(* scheduled outside a drain or by a handler, a drain fires the top event, *)
(* of those due, and a handler schedules strictly later than its event, so *)
(* that what SchedulerProofs shows of dispatching holds in the machine.    *)
(***************************************************************************)
THEOREM SchedulerImplemented == Spec => ImplementsScheduler
<1>1. QueueInv /\ [Next]_vars => [SchedulerStep]_<<queue, nextSeq, through, fired>>
  <2> SUFFICES ASSUME QueueInv, Next
               PROVE  SchedulerStep \/ UNCHANGED <<queue, nextSeq, through, fired>>
    BY DEF vars, events, drain
  <2> USE DEF QueueInv
  <2>1. EventsTyped /\ nextSeq \in Nat
    BY DEF Types, EventsTyped
  <2>2. CASE Reset
    <3>1. Sched!Reset(FirstSignals)
      <4>1. through = Sched!NoDrain
        BY <2>2 DEF Reset, Types, Steady
      <4> QED
        BY <2>2, <4>1, SameScheduler DEF Reset, drain, Sched!Reset
    <3> QED
      BY <3>1 DEF SchedulerStep
  <2>3. CASE Fire
    <3>1. PICK e \in queue : Handled(e)
      BY <2>3, FrameEndKeeps, VblankKeeps, JoypadKeeps, IrqMatchKeeps, HdmaInitKeeps, HdmaLineKeeps
      DEF Fire
    <3>2. PICK reqs : Schedules(queue \ {e}, e.time, SignalKind, reqs)
      BY <3>1 DEF Handled, Pushes
    <3>3. NewRequests = reqs
      <4>1. queue \ {e} \in SUBSET queue
        OBVIOUS
      <4> QED
        BY <4>1, <3>2, <2>1, RequestsAre
    <3>4. /\ through # Sched!NoDrain /\ IsTop(e, queue) /\ e.time <= through
          /\ fired' = Append(fired, e) /\ UNCHANGED through
      BY <3>1 DEF Handled, Firing, Types, Steady
    <3>5. \A i \in DOMAIN reqs : reqs[i].time > e.time
      <4>1. e.time \in Nat
        BY DEF Types, EventsTyped, SignalEvent
      <4>2. ASSUME NEW i \in DOMAIN reqs
            PROVE  reqs[i].time > e.time
        <5>1. reqs[i] \in SignalRequest
          BY <3>2 DEF Schedules
        <5>2. reqs[i].time \in Nat /\ e.time < reqs[i].time
          BY <3>2, <5>1 DEF Schedules, SignalRequest
        <5> QED
          BY <4>1, <5>2
      <4> QED
        BY <4>2
    <3>6. Sched!FireTop(e, reqs)
      BY <3>2, <3>4, <3>5, SameScheduler DEF Schedules, Sched!FireTop
    <3> QED
      BY <3>3, <3>6 DEF SchedulerStep
  <2>4. CASE Quiet
    BY <2>4 DEF Quiet
  <2>5. CASE Returns
    <3>1. Sched!BeginFire(through')
      BY <2>5 DEF Returns, Sched!BeginFire
    <3> QED
      BY <3>1 DEF SchedulerStep
  <2>6. CASE Programs
    <3>1. PICK reqs : Schedules(queue, now', {HIrqMatch}, reqs)
      BY <2>6 DEF Programs, Pushes
    <3>2. NewRequests = reqs
      <4>1. queue \in SUBSET queue
        OBVIOUS
      <4> QED
        BY <4>1, <3>1, <2>1, RequestsAre
    <3>3. Sched!ScheduleSignal(reqs)
      BY <2>6, <3>1, SameScheduler DEF Programs, Schedules, Sched!ScheduleSignal
    <3> QED
      BY <3>2, <3>3 DEF SchedulerStep
  <2>7. CASE EndDrain
    <3>1. Sched!EndFire
      BY <2>7 DEF EndDrain, Sched!EndFire, events, Types, Steady
    <3> QED
      BY <3>1 DEF SchedulerStep
  <2> QED
    BY <2>2, <2>3, <2>4, <2>5, <2>6, <2>7, StepsAre
<1> QED
  BY <1>1, QueueInvHolds, PTL DEF Spec, ImplementsScheduler
-----------------------------------------------------------------------------
(***************************************************************************)
(* While the processor runs, its target lies before every event of the     *)
(* fixed kinds: the loop chose it so, and until the processor returns only *)
(* IRQ matches are scheduled.                                              *)
(***************************************************************************)
Processing == at \in {"enter", "loop", "step"}

Aim == Processing => \A e \in queue : e.kind # HIrqMatch => target <= e.time

(***************************************************************************)
(* While the processor runs the target stands, and nothing joins the queue *)
(* but IRQ matches.                                                        *)
(***************************************************************************)
LEMMA ProcessingSteps ==
  ASSUME Types, Next
  PROVE  \/ ~Processing'
         \/ ChooseTarget
         \/ /\ Processing /\ target' = target
            /\ UNCHANGED queue \/ Pushes(queue, now', {HIrqMatch})
<1> USE DEF events, loop, drain
<1>1. CASE (\E budget \in Budgets : TickFrame(budget)) \/ Loop \/ EnterRunning
  BY <1>1 DEF TickFrame, Loop, LeaveTickFrame, ChooseTarget, EndDrain, EnterRunning, Processing
<1>2. CASE EnterStp \/ EnterWaiIdle \/ EnterWaiWake
  BY <1>2 DEF EnterStp, EnterWaiIdle, EnterWaiWake, ReturnAt, Processing
<1>3. CASE LoopEnds \/ LoopHalted \/ SampleInterrupts \/ LoopRefresh \/ LoopBank
  BY <1>3 DEF LoopEnds, LoopHalted, SampleInterrupts, LoopRefresh, LoopBank, Stepping, ReturnAt,
     Processing
<1>4. CASE FetchOpcode
  BY <1>4 DEF FetchOpcode, Stepping, Processing
<1>5. CASE Execute
  <2>1. Stepping /\ UNCHANGED target
    BY <1>5 DEF Execute, ExecutePlain, EnterInterruptHandler, HaltCpu, WriteNmiEnable, WriteTimer,
       ReadTimeUp, WriteMdmaEn, WriteHdmaEn, Finish
  <2>2. CASE WriteTimer
    <3>1. now' \in Nat /\ ppu \in Nat /\ TimerTyped /\ EventsTyped
      BY <1>5, ExecuteTypes DEF Types, ClockTyped, DeviceTyped
    <3>2. Pushes(queue, now', {HIrqMatch})
      BY <2>2, <3>1, TimerWriteTyped DEF WriteTimer
    <3> QED
      BY <2>1, <3>2 DEF Stepping, Processing
  <2>3. CASE ~WriteTimer
    <3>1. UNCHANGED queue
      BY <1>5, <2>3 DEF Execute, ExecutePlain, EnterInterruptHandler, HaltCpu, WriteNmiEnable,
         ReadTimeUp, WriteMdmaEn, WriteHdmaEn, NoBus, Timer!ReadTimeUp
    <3> QED
      BY <2>1, <3>1 DEF Stepping, Processing
  <2> QED
    BY <2>2, <2>3
<1>6. CASE Fire
  <2>1. PICK e : Firing(e)
    BY <1>6 DEF Fire, FireFrameEnd, FireVblank, FireJoypad, FireIrqMatch, FireHdmaInit, FireHdmaLine
  <2> QED
    BY <2>1 DEF Firing, Processing
<1>7. CASE Reset \/ End
  BY <1>7 DEF Reset, End, vars, Processing
<1> QED
  BY <1>1, <1>2, <1>3, <1>4, <1>5, <1>6, <1>7 DEF Next, Host, Enter, Tick

(***************************************************************************)
(* So the aim holds in every reachable state.                              *)
(***************************************************************************)
LEMMA AimHolds == Spec => []Aim
<1>1. Init => Aim
  BY DEF Init, Aim, Processing
<1>2. QueueInv /\ Aim /\ [Next]_vars => Aim'
  <2> SUFFICES ASSUME QueueInv, Aim, [Next]_vars, Processing'
               PROVE  \A e \in queue' : e.kind # HIrqMatch => target' <= e.time
    BY DEF Aim
  <2>1. CASE UNCHANGED vars
    BY <2>1 DEF vars, events, loop, Aim, Processing
  <2>2. CASE ChooseTarget
    <3>1. target' = LET next == NextEventTime(queue) IN IF cap < next THEN cap ELSE next
      BY <2>2, Zenon DEF ChooseTarget
    <3>2. UNCHANGED queue /\ cap \in Nat /\ queue \in SUBSET SignalEvent
      BY <2>2 DEF ChooseTarget, events, QueueInv, Types, LoopTyped, EventsTyped
    <3>3. ASSUME NEW e \in queue
          PROVE  target' <= e.time
      <4>1. NextEventTime(queue) \in Nat /\ NextEventTime(queue) <= e.time /\ e.time \in Nat
        BY <3>2, NextIsFirst DEF SignalEvent
      <4> QED
        BY <3>1, <3>2, <4>1
    <3> QED
      BY <3>2, <3>3
  <2>3. CASE Processing /\ target' = target /\ UNCHANGED queue
    BY <2>3 DEF Aim
  <2>4. CASE Processing /\ target' = target /\ Pushes(queue, now', {HIrqMatch})
    <3>1. PICK reqs : Schedules(queue, now', {HIrqMatch}, reqs)
      BY <2>4 DEF Pushes
    <3>2. reqs \in Seq(SignalRequest) /\ nextSeq \in Nat
      BY <3>1 DEF Schedules, QueueInv, Types, EventsTyped
    <3>3. ASSUME NEW e \in Scheduled(reqs, nextSeq)
          PROVE  e.kind = HIrqMatch
      <4>1. PICK i \in 1..Len(reqs) : e.kind = reqs[i].kind
        BY <3>2, NewEvents
      <4>2. i \in DOMAIN reqs
        BY <3>2
      <4> QED
        BY <3>1, <4>1, <4>2 DEF Schedules
    <3> QED
      BY <2>4, <3>1, <3>3 DEF Schedules, Aim
  <2> QED
    BY <2>1, <2>2, <2>3, <2>4, ProcessingSteps DEF QueueInv
<1> QED
  BY <1>1, <1>2, QueueInvHolds, PTL DEF Spec

(***************************************************************************)
(* Only a DMA burst inside a bus write carries the processor past its      *)
(* target.                                                                 *)
(***************************************************************************)
LEMMA WithinTarget ==
  ASSUME Types, Next, Processing, instr # "mdmaen", now' # now
  PROVE  now' <= target
<1>1. target \in Nat /\ now \in Nat /\ ClockTyped
  BY DEF Types, LoopTyped, ClockTyped
<1>2. CASE EnterRunning \/ LoopEnds \/ SampleInterrupts
  BY <1>2 DEF EnterRunning, LoopEnds, SampleInterrupts
<1>3. CASE EnterStp \/ EnterWaiIdle \/ LoopHalted
  BY <1>1, <1>3, IdleTyped DEF EnterStp, EnterWaiIdle, LoopHalted
<1>4. CASE EnterWaiWake
  <2>1. wakeLeft \in 0..WakeCycles /\ WakeCycles \in Nat \ {0}
    BY <1>1, MachineAssumption DEF ClockTyped
  <2>2. PICK left \in 1..WakeCycles : Clock!Wake(left, target)
    BY <2>1, <1>4 DEF EnterWaiWake
  <2> QED
    BY <1>1, <2>2, WakeTyped
<1>5. CASE LoopRefresh
  BY <1>1, <1>5, StepTyped, RefreshTyped DEF LoopRefresh
<1>6. CASE LoopBank
  BY <1>1, <1>6, StepTyped, BankTyped DEF LoopBank
<1>7. CASE FetchOpcode
  BY <1>1, <1>7, StepTyped, RetireTyped DEF FetchOpcode
<1>8. CASE Execute
  <2>1. Finish(0)
    BY <1>8 DEF Execute, ExecutePlain, EnterInterruptHandler, HaltCpu, WriteNmiEnable, WriteTimer,
       ReadTimeUp, WriteMdmaEn, WriteHdmaEn
  <2> QED
    BY <1>1, <2>1, StepTyped, RetireTyped DEF Finish
<1>9. CASE Host \/ Loop \/ Fire \/ End
  BY <1>9 DEF Host, Reset, TickFrame, Loop, LeaveTickFrame, ChooseTarget, EndDrain, Fire, FireFrameEnd,
     FireVblank, FireJoypad, FireIrqMatch, FireHdmaInit, FireHdmaLine, Firing, End, Processing
<1> QED
  BY <1>2, <1>3, <1>4, <1>5, <1>6, <1>7, <1>8, <1>9 DEF Next, Enter, Tick

(***************************************************************************)
(* For every program and every cost of its operations, the processor       *)
(* spends no time past a pending event of the fixed kinds, except inside a *)
(* DMA burst: not by an instruction that does not fit the slice, nor by    *)
(* waking, idling or refreshing.                                           *)
(***************************************************************************)
THEOREM NeverOvershoots == Spec => NoOvershoot
<1>1. QueueInv /\ Aim /\ [Next]_vars =>
        [instr # "mdmaen" /\ at \in {"enter", "loop", "step"} /\ now' > now =>
           \A e \in queue : e.kind # HIrqMatch => now' <= e.time]_vars
  <2> SUFFICES ASSUME QueueInv, Aim, Next, instr # "mdmaen", Processing, now' > now,
                      NEW e \in queue, e.kind # HIrqMatch
               PROVE  now' <= e.time
    BY DEF Processing
  <2>1. Types /\ now \in Nat /\ now' # now
    BY DEF QueueInv, Types, ClockTyped
  <2>2. now' <= target
    BY <2>1, WithinTarget
  <2>3. target <= e.time
    BY DEF Aim
  <2>4. now' \in Nat /\ target \in Nat /\ e.time \in Nat
    <3>1. Types' \/ Reset \/ Fire
      BY <2>1, StepsAre
    <3>2. ~Reset /\ ~Fire
      BY DEF Reset, Fire, FireFrameEnd, FireVblank, FireJoypad, FireIrqMatch, FireHdmaInit,
         FireHdmaLine, Firing, Processing
    <3> QED
      BY <2>1, <3>1, <3>2 DEF Types, ClockTyped, LoopTyped, EventsTyped, SignalEvent
  <2> QED
    BY <2>2, <2>3, <2>4
<1> QED
  BY <1>1, QueueInvHolds, AimHolds, PTL DEF Spec, NoOvershoot
-----------------------------------------------------------------------------
(***************************************************************************)
(* The NMI.  While the gate is open and neither the edge detector nor the  *)
(* history knows of a VBlank, the PPU has not been on its line since it    *)
(* was last looked at; and a latched request is one that is due.           *)
(***************************************************************************)
Looked == Larger(ppu, now)

NmiKnown ==
  nmiEnable /\ ~nmiPrev /\ ~due =>
    \A t \in ppu..Looked : BeamAt(t).v # VblankStartLine

NmiRequested == nmiPending => due /\ nmiEnable

TimePasses ==
  /\ UNCHANGED <<nmiEnable, nmiPrev, nmiPending>>
  /\ due' = DueAfter(now')
  /\ ppu <= ppu' /\ Looked' <= Larger(Looked, now')
  /\ instr' = "nmi" => instr = "nmi"

(***************************************************************************)
(* VBlank starts on a line of the raster.                                  *)
(***************************************************************************)
LEMMA VblankStartLineIs == VblankStartLine \in 0..(LinesPerFrame - 1)
<1>1. VblankLine \in 1..(LinesPerFrame - 1) /\ OverscanLine \in 1..(LinesPerFrame - 1)
  BY MachineAssumption
<1> QED
  BY <1>1, RasterIs DEF VblankStartLine

(***************************************************************************)
(* Time passes in every step but a sample, a write of the gate, a reset.   *)
(***************************************************************************)
LEMMA DueStays ==
  ASSUME now \in Nat, due \in BOOLEAN
  PROVE  DueAfter(now) = due
<1>1. (now + 1)..now = {}
  OBVIOUS
<1>2. ~VblankStarts(now, now)
  BY <1>1 DEF VblankStarts
<1>3. DueAfter(now) = (due \/ FALSE)
  BY <1>2, Zenon DEF DueAfter
<1> QED
  BY <1>3

(***************************************************************************)
(* The catch-up at the end of TickToTarget takes the PPU no further than   *)
(* the time reached.                                                       *)
(***************************************************************************)
LEMMA ReturnPasses ==
  ASSUME ppu \in Nat, now \in Nat, NEW t \in Nat, NEW p \in {0, now}, ReturnAt(t, p), now' = t
  PROVE  ppu <= ppu' /\ Looked' <= Larger(Looked, now')
<1>1. ppu' = Larger(Larger(ppu, p), t)
  BY DEF ReturnAt
<1> QED
  BY <1>1 DEF Looked, Larger

(***************************************************************************)
(* The steps, by what they do to the NMI.                                  *)
(***************************************************************************)
LEMMA NmiSteps ==
  ASSUME Types, Next
  PROVE  TimePasses \/ SampleInterrupts \/ WriteNmiEnable \/ Reset
<1> USE DEF irqs, device, cpu
<1>1. /\ now \in Nat /\ ppu \in Nat /\ target \in Nat /\ due \in BOOLEAN /\ ClockTyped
      /\ DueAfter(now) = due
  BY DueStays DEF Types, ClockTyped, LoopTyped, DeviceTyped, CpuTyped
<1>2. CASE (\E budget \in Budgets : TickFrame(budget)) \/ Loop \/ EnterRunning
  <2>1. UNCHANGED <<now, ppu, irqs, device, cpu, due>>
    BY <1>2 DEF TickFrame, Loop, LeaveTickFrame, ChooseTarget, EndDrain, EnterRunning
  <2> QED
    BY <1>1, <2>1 DEF TimePasses, Looked, Larger
<1>3. CASE EnterStp \/ EnterWaiIdle
  <2>1. now' = target /\ due' = DueAfter(target) /\ UNCHANGED <<irqs, device, cpu>>
    BY <1>1, <1>3, IdleTyped DEF EnterStp, EnterWaiIdle
  <2>2. PICK p \in {0, now} : ReturnAt(target, p)
    BY <1>3 DEF EnterStp, EnterWaiIdle
  <2>3. ppu <= ppu' /\ Looked' <= Larger(Looked, now')
    BY <1>1, <2>1, <2>2, ReturnPasses
  <2> QED
    BY <2>1, <2>3 DEF TimePasses
<1>4. CASE EnterWaiWake
  <2>1. wakeLeft \in 0..WakeCycles /\ WakeCycles \in Nat \ {0}
    BY <1>1, MachineAssumption DEF ClockTyped
  <2>2. PICK left \in 1..WakeCycles : Clock!Wake(left, target)
    BY <2>1, <1>4 DEF EnterWaiWake
  <2>3. now' \in Nat
    BY <1>1, <2>2, WakeTyped DEF ClockTyped
  <2>4. due' = DueAfter(now') /\ UNCHANGED <<irqs, device, cpu>>
    BY <1>4 DEF EnterWaiWake
  <2>5. ppu <= ppu' /\ Looked' <= Larger(Looked, now')
    <3>1. CASE ppu' = Larger(ppu, now)
      BY <1>1, <2>3, <3>1 DEF Looked, Larger
    <3>2. CASE ReturnAt(now', now)
      BY <1>1, <2>3, <3>2, ReturnPasses
    <3> QED
      BY <1>4, <3>1, <3>2 DEF EnterWaiWake
  <2> QED
    BY <2>4, <2>5 DEF TimePasses
<1>5. CASE LoopEnds
  <2>1. now' = now /\ ReturnAt(now, 0) /\ UNCHANGED <<irqs, device, cpu, due>>
    BY <1>5 DEF LoopEnds
  <2>2. ppu <= ppu' /\ Looked' <= Larger(Looked, now')
    BY <1>1, <2>1, ReturnPasses
  <2> QED
    BY <1>1, <2>1, <2>2 DEF TimePasses
<1>6. CASE LoopHalted \/ LoopBank
  <2>1. now' = target /\ due' = DueAfter(target) /\ UNCHANGED <<irqs, device, cpu>> /\ ReturnAt(target, 0)
    BY <1>1, <1>6, IdleTyped, BankTyped, StepTyped DEF LoopHalted, LoopBank
  <2>2. ppu <= ppu' /\ Looked' <= Larger(Looked, now')
    BY <1>1, <2>1, ReturnPasses
  <2> QED
    BY <2>1, <2>2 DEF TimePasses
<1>7. ASSUME now' \in Nat, ppu' = ppu
      PROVE  ppu <= ppu' /\ Looked' <= Larger(Looked, now')
  BY <1>1, <1>7 DEF Looked, Larger
<1>8. CASE LoopRefresh
  <2>1. now' \in Nat
    BY <1>1, <1>8, StepTyped, RefreshTyped DEF LoopRefresh, ClockTyped
  <2>2. due' = DueAfter(now') /\ UNCHANGED <<ppu, irqs, device, cpu>>
    BY <1>8 DEF LoopRefresh
  <2> QED
    BY <1>7, <2>1, <2>2 DEF TimePasses
<1>9. CASE FetchOpcode
  <2>1. now' \in Nat
    BY <1>1, <1>9, StepTyped, RetireTyped DEF FetchOpcode
  <2>2. due' = DueAfter(now') /\ UNCHANGED <<ppu, irqs, device>> /\ instr' # "nmi"
    BY <1>9, MachineAssumption DEF FetchOpcode
  <2> QED
    BY <1>7, <2>1, <2>2 DEF TimePasses
<1>10. CASE Execute /\ ~WriteNmiEnable
  <2>1. now' \in Nat
    BY <1>10, ExecuteTypes DEF Types, ClockTyped
  <2>2. /\ NoNmi /\ UNCHANGED <<ppu, nmiEnable>> /\ instr' = "fetch"
    BY <1>10 DEF Execute, ExecutePlain, EnterInterruptHandler, HaltCpu, WriteTimer, ReadTimeUp,
       WriteMdmaEn, WriteHdmaEn, NoBus, Finish
  <2> QED
    BY <1>7, <2>1, <2>2 DEF TimePasses, NoNmi
<1>11. CASE Fire
  <2>1. PICK e \in queue : Firing(e) /\ (UNCHANGED <<now, due>> \/ \E t \in Nat : StallUntil(t))
                           /\ UNCHANGED ppu
    <3>1. ASSUME NEW e \in queue, FireHdmaInit(e) \/ FireHdmaLine(e)
          PROVE  Firing(e) /\ UNCHANGED ppu /\ \E t \in Nat : StallUntil(t)
      <4>1. /\ HdmaSetup \in Nat /\ HdmaLineCosts \subseteq Nat /\ e.time \in Nat
            /\ HdmaInitCost \in Nat /\ HdmaChannelInitCost \in Nat
        BY MachineAssumption DEF Types, EventsTyped, SignalEvent
      <4>2. Firing(e) /\ UNCHANGED ppu
        BY <3>1 DEF FireHdmaInit, FireHdmaLine
      <4>3. CASE FireHdmaInit(e)
        <5>1. e.time + HdmaInitCost + (IF hdmaen THEN HdmaChannelInitCost ELSE 0) \in Nat
          BY <4>1
        <5> QED
          BY <4>2, <4>3, <5>1 DEF FireHdmaInit
      <4>4. CASE FireHdmaLine(e) /\ hdma.active /\ hdmaen
        <5>1. PICK cost \in HdmaLineCosts : StallUntil(e.time + HdmaSetup + cost)
          BY <4>4, Zenon DEF FireHdmaLine
        <5>2. e.time + HdmaSetup + cost \in Nat
          BY <4>1
        <5> QED
          BY <4>2, <5>1, <5>2
      <4>5. CASE FireHdmaLine(e) /\ ~(hdma.active /\ hdmaen)
        <5>1. StallUntil(e.time)
          BY <4>5, Zenon DEF FireHdmaLine
        <5> QED
          BY <4>1, <4>2, <5>1
      <4> QED
        BY <3>1, <4>3, <4>4, <4>5
    <3> QED
      BY <1>11, <3>1 DEF Fire, FireFrameEnd, FireVblank, FireJoypad, FireIrqMatch
  <2>2. now' \in Nat /\ due' = DueAfter(now')
    <3>1. CASE UNCHANGED <<now, due>>
      BY <1>1, <3>1
    <3>2. ASSUME NEW t \in Nat, StallUntil(t)
          PROVE  now' \in Nat /\ due' = DueAfter(now')
      BY <3>2, StallTyped DEF StallUntil
    <3> QED
      BY <2>1, <3>1, <3>2
  <2>3. UNCHANGED <<irqs, nmiEnable, cpu>>
    BY <2>1 DEF Firing
  <2> QED
    BY <1>7, <2>1, <2>2, <2>3 DEF TimePasses
<1>12. CASE End
  <2>1. UNCHANGED <<now, ppu, irqs, device, cpu, due>>
    BY <1>12 DEF End, vars
  <2> QED
    BY <1>1, <2>1 DEF TimePasses, Looked, Larger
<1> QED
  BY <1>2, <1>3, <1>4, <1>5, <1>6, <1>8, <1>9, <1>10, <1>11, <1>12 DEF Next, Host, Enter, Tick, Execute

(***************************************************************************)
(* Time cannot carry the PPU onto the VBlank line without an NMI falling   *)
(* due: the beam enters the line at its first dot.                         *)
(***************************************************************************)
LEMMA TimeKeepsNmi ==
  ASSUME Types, now' \in Nat, ppu' \in Nat, NmiKnown, NmiRequested, TimePasses
  PROVE  NmiKnown' /\ NmiRequested'
<1>1. now \in Nat /\ ppu \in Nat
  BY DEF Types, ClockTyped, DeviceTyped
<1>2. due => due'
  BY Zenon DEF TimePasses, DueAfter
<1>3. NmiRequested'
  BY <1>2 DEF NmiRequested, TimePasses
<1>4. ASSUME nmiEnable', ~nmiPrev', ~due', NEW t \in ppu'..Looked', BeamAt(t).v = VblankStartLine
      PROVE  FALSE
  <2>1. nmiEnable /\ ~nmiPrev /\ ~due
    BY <1>2, <1>4 DEF TimePasses
  <2>2. ~VblankStarts(now, now')
    BY <1>4, <2>1, Zenon DEF TimePasses, DueAfter
  <2>3. \A s \in ppu..Looked : BeamAt(s).v # VblankStartLine
    BY <2>1 DEF NmiKnown
  <2>4. /\ Looked \in Nat /\ ppu <= Looked /\ now <= Looked
        /\ Larger(Looked, now') = Looked \/ Larger(Looked, now') = now'
    BY <1>1, LargerIs DEF Looked
  <2>5. ppu <= ppu' /\ Looked' <= Larger(Looked, now') /\ t \in Nat /\ t <= Looked' /\ ppu' <= t
        /\ Looked' \in Nat
    <3>1. Looked' \in Nat
      BY LargerIs DEF Looked
    <3> QED
      BY <1>4, <3>1 DEF TimePasses
  <2>6. CASE t <= Looked
    <3>1. t \in ppu..Looked
      BY <1>1, <2>4, <2>5, <2>6
    <3> QED
      BY <1>4, <2>3, <3>1
  <2>7. CASE ~(t <= Looked)
    <3>1. Looked < t /\ t <= now'
      BY <1>1, <2>4, <2>5, <2>7
    <3>2. Looked \in ppu..Looked
      BY <1>1, <2>4
    <3>3. BeamAt(Looked).v # VblankStartLine
      BY <2>3, <3>2
    <3> HIDE DEF Looked
    <3>4. PICK s \in (Looked + 1)..t : DotBegins(0, VblankStartLine, s)
      BY <1>4, <2>4, <2>5, <3>1, <3>3, VblankStartLineIs, LineIsEntered
    <3>5. s \in (now + 1)..now'
      BY <1>1, <2>4, <2>5, <3>1
    <3> QED
      BY <2>2, <3>4, <3>5 DEF VblankStarts
  <2> QED
    BY <2>6, <2>7
<1>5. NmiKnown'
  <2> SUFFICES ASSUME nmiEnable', ~nmiPrev', ~due', NEW t \in ppu'..Looked'
               PROVE  BeamAt(t).v # VblankStartLine
    BY DEF NmiKnown
  <2> QED
    BY <1>4
<1> QED
  BY <1>3, <1>5

(***************************************************************************)
(* A sample looks at the line, and so does a write of the gate.            *)
(***************************************************************************)
LEMMA SampleKeepsNmi ==
  ASSUME Types, NmiKnown, NmiRequested, SampleInterrupts
  PROVE  NmiKnown' /\ NmiRequested' /\ (instr' = "nmi" => due)
<1> DEFINE gated == NmiLine(now) /\ nmiEnable
           request == nmiPending \/ (gated /\ ~nmiPrev)
<1>1. now \in Nat /\ ppu \in Nat
  BY DEF Types, ClockTyped, DeviceTyped
<1>2. /\ ppu' = Looked /\ nmiPrev' = gated /\ nmiPending' = FALSE /\ now' = now
      /\ instr' = (IF request THEN "nmi" ELSE IF timeup /\ ~iflag THEN "irq" ELSE "fetch")
      /\ due' = (due /\ ~gated /\ ~request) /\ nmiEnable' = nmiEnable
  BY DEF SampleInterrupts, Looked, device
<1>3. Looked \in Nat /\ ppu <= Looked /\ now <= Looked
  BY <1>1, LargerIs DEF Looked
<1>4. NmiRequested'
  BY <1>2 DEF NmiRequested
<1>5. Looked' = Looked
  <2>1. Looked' = Larger(ppu', now')
    BY DEF Looked
  <2>2. Looked' = Larger(Looked, now)
    BY <1>2, <2>1
  <2> HIDE DEF Looked
  <2> QED
    BY <1>1, <1>3, <2>2 DEF Larger
<1>6. NmiKnown'
  <2> SUFFICES ASSUME nmiEnable', ~nmiPrev', NEW t \in ppu'..Looked'
               PROVE  BeamAt(t).v # VblankStartLine
    BY DEF NmiKnown
  <2>1. t = Looked
    BY <1>2, <1>3, <1>5
  <2>2. ~NmiLine(now)
    BY <1>2
  <2>3. NmiLine(now) = (BeamAt(Looked).v = VblankStartLine)
    BY Zenon DEF NmiLine, Looked
  <2> QED
    BY <2>1, <2>2, <2>3, Zenon
<1>7. instr' = "nmi" => due
  <2> SUFFICES ASSUME request
               PROVE  due
    BY <1>2
  <2>1. CASE nmiPending
    BY <2>1 DEF NmiRequested
  <2>2. CASE gated /\ ~nmiPrev
    <3>1. BeamAt(Looked).v = VblankStartLine
      BY <2>2, Zenon DEF NmiLine, Looked
    <3>2. Looked \in ppu..Looked
      BY <1>1, <1>3
    <3> QED
      BY <2>2, <3>1, <3>2 DEF NmiKnown
  <2> QED
    BY <2>1, <2>2
<1> QED
  BY <1>4, <1>6, <1>7

(***************************************************************************)
(* A write of the gate looks at the line, and requests what it finds.      *)
(***************************************************************************)
LEMMA GateKeepsNmi ==
  ASSUME Types, Types', NmiKnown, NmiRequested, WriteNmiEnable
  PROVE  NmiKnown' /\ NmiRequested' /\ instr' # "nmi"
<1> DEFINE line == NmiLine(now') /\ nmiEnable'
           later == Larger(ppu, now')
<1>1. now' \in Nat /\ ppu \in Nat /\ nmiEnable \in BOOLEAN
  BY DEF Types, ClockTyped, DeviceTyped
<1>2. /\ nmiEnable' = ~nmiEnable /\ ppu' = later /\ nmiPrev' = line /\ due' = line
      /\ nmiPending' = (nmiEnable' /\ (nmiPending \/ line)) /\ instr' = "fetch"
  BY DEF WriteNmiEnable, Finish
<1>3. NmiRequested'
  <2> SUFFICES ASSUME nmiPending'
               PROVE  due' /\ nmiEnable'
    BY DEF NmiRequested
  <2>1. nmiEnable' /\ ~nmiEnable /\ (nmiPending \/ line)
    BY <1>2
  <2> QED
    BY <1>2, <2>1 DEF NmiRequested
<1>4. Looked' = later
  <2>1. Looked' = Larger(later, now')
    BY <1>2 DEF Looked
  <2>2. later \in Nat /\ now' <= later
    BY <1>1, LargerIs
  <2> HIDE DEF later
  <2> QED
    BY <1>1, <2>1, <2>2 DEF Larger
<1>5. NmiKnown'
  <2> SUFFICES ASSUME nmiEnable', ~nmiPrev', NEW t \in ppu'..Looked'
               PROVE  BeamAt(t).v # VblankStartLine
    BY DEF NmiKnown
  <2>1. later \in Nat
    BY <1>1, LargerIs
  <2>2. t = later
    <3> HIDE DEF later
    <3> QED
      BY <1>2, <1>4, <2>1
  <2>3. ~NmiLine(now')
    BY <1>2
  <2>4. NmiLine(now') = (BeamAt(later).v = VblankStartLine)
    BY Zenon DEF NmiLine
  <2> QED
    BY <2>2, <2>3, <2>4, Zenon
<1> QED
  BY <1>2, <1>3, <1>5

(***************************************************************************)
(* What is known of the NMI holds in every reachable state.                *)
(***************************************************************************)
LEMMA NmiInvHolds == Spec => [](NmiKnown /\ NmiRequested)
<1>1. Init => NmiKnown /\ NmiRequested
  BY DEF Init, NmiKnown, NmiRequested
<1>2. QueueInv /\ QueueInv' /\ NmiKnown /\ NmiRequested /\ [Next]_vars => (NmiKnown /\ NmiRequested)'
  <2> SUFFICES ASSUME QueueInv, QueueInv', NmiKnown, NmiRequested, [Next]_vars
               PROVE  NmiKnown' /\ NmiRequested'
    OBVIOUS
  <2>1. Types /\ Types' /\ now' \in Nat /\ ppu' \in Nat
    BY DEF QueueInv, Types, ClockTyped, DeviceTyped
  <2>2. CASE UNCHANGED vars
    BY <2>2 DEF vars, irqs, device, NmiKnown, NmiRequested, Looked
  <2>3. CASE TimePasses
    BY <2>1, <2>3, TimeKeepsNmi
  <2>4. CASE SampleInterrupts
    BY <2>1, <2>4, SampleKeepsNmi
  <2>5. CASE WriteNmiEnable
    BY <2>1, <2>5, GateKeepsNmi
  <2>6. CASE Reset
    BY <2>6 DEF Reset, NmiKnown, NmiRequested
  <2> QED
    BY <2>1, <2>2, <2>3, <2>4, <2>5, <2>6, NmiSteps
<1> QED
  BY <1>1, <1>2, QueueInvHolds, PTL DEF Spec

(***************************************************************************)
(* For every program and raster, the processor enters the NMI handler only *)
(* for a VBlank that began with the gate open, or that the opening of the  *)
(* gate requested, and that no handler was entered for before: never on    *)
(* the level of the line alone, however often it is sampled and however    *)
(* far the PPU runs ahead of the processor or behind it.                   *)
(***************************************************************************)
THEOREM NmiIsDue == Spec => NmiOnlyWhenDue
<1>1. QueueInv /\ NmiKnown /\ NmiRequested /\ [Next]_vars =>
        [instr' = "nmi" /\ instr # "nmi" => due]_vars
  <2> SUFFICES ASSUME QueueInv, NmiKnown, NmiRequested, Next, instr' = "nmi", instr # "nmi"
               PROVE  due
    OBVIOUS
  <2>1. Types
    BY DEF QueueInv
  <2>2. ~TimePasses /\ ~Reset
    BY DEF TimePasses, Reset
  <2>3. ~WriteNmiEnable
    BY DEF WriteNmiEnable, Finish
  <2> QED
    BY <2>1, <2>2, <2>3, NmiSteps, SampleKeepsNmi
<1> QED
  BY <1>1, QueueInvHolds, NmiInvHolds, PTL DEF Spec, NmiOnlyWhenDue
-----------------------------------------------------------------------------
(***************************************************************************)
(* Two frames take a time, and so does for ever.                           *)
(***************************************************************************)
LEMMA TwoFramesAre == TwoFrames \in Nat /\ Forever \in Nat
<1> DEFINE long == FrameCycles(FALSE)
           short == FrameCycles(TRUE)
<1>1. long \in Nat /\ short \in Nat
  BY FramesAre
<1>2. TwoFrames = long + short
  BY Zenon DEF TwoFrames
<1> HIDE DEF long, short
<1> QED
  BY <1>1, <1>2, ForeverAssumption

(***************************************************************************)
(* The timer.  Rearming it at a time up to bound queues an event for its   *)
(* match, which lies less than two frames behind the two times.            *)
(***************************************************************************)
LEMMA RearmingArms ==
  ASSUME NEW bound \in Nat, 2 * (bound + TwoFrames) < Forever,
         NEW t \in Nat, NEW p \in Nat, t <= bound, p <= bound, NEW q,
         htime' \in Nat, vtime' \in Nat, nextSeq \in Nat,
         Timer!RescheduleIrqMatchFrom(t, p, q)
  PROVE  TimerStaysArmed'
<1> SUFFICES ASSUME mode' # "off", Timer!ReachableMatch(mode', htime', vtime')
             PROVE  /\ match' # Forever
                    /\ \E e \in queue' : e.kind = Timer!HIrqMatch /\ e.time = match'
  BY Zenon DEF TimerStaysArmed, Timer!ArmedIsQueued
<1>1. match' = Timer!ComputeNextMatch(mode', htime', vtime', t, p)
  BY Zenon DEF Timer!RescheduleIrqMatchFrom
<1>2. Timer!Push(q, IF match' = Forever THEN <<>> ELSE <<[time |-> match', kind |-> Timer!HIrqMatch]>>)
  BY Zenon DEF Timer!RescheduleIrqMatchFrom
<1>3. match' \in Nat /\ match' <= p + t + 2 * TwoFrames
  BY <1>1, MatchIsLater
<1>4. match' # Forever
  BY <1>3, TwoFramesAre
<1> DEFINE reqs == <<[time |-> match', kind |-> Timer!HIrqMatch]>>
<1>5. Timer!HIrqMatch \in SignalKind
  BY KindsAre DEF Timer!HIrqMatch, HIrqMatch
<1>6. /\ reqs \in Seq(SignalRequest) /\ 1 \in 1..Len(reqs)
      /\ reqs[1].time = match' /\ reqs[1].kind = Timer!HIrqMatch
  BY <1>3, <1>5 DEF SignalRequest
<1>7. queue' = q \cup Scheduled(reqs, nextSeq)
  BY <1>2, <1>4, PushIs
<1> HIDE DEF reqs
<1>8. [time |-> reqs[1].time, kind |-> reqs[1].kind, seq |-> nextSeq + 1 - 1]
        \in Scheduled(reqs, nextSeq)
  BY <1>6, NewEvents
<1> QED
  BY <1>4, <1>6, <1>7, <1>8

(***************************************************************************)
(* Each step leaves the timer and the events for its match alone, rearms   *)
(* it at a time reached from a PPU not ahead of it, or switches it off.    *)
(***************************************************************************)
TimerRests ==
  /\ UNCHANGED <<mode, htime, vtime, match>>
  /\ \A e \in queue : e.kind = HIrqMatch /\ e.time = match => e \in queue'

TimerRearms ==
  \E t \in Nat : \E q :
    /\ t <= now \/ t = now'
    /\ Timer!RescheduleIrqMatchFrom(t, ppu, q)

(***************************************************************************)
(* A write to the timer's registers at the time it ends.                   *)
(***************************************************************************)
LEMMA WriteRearms ==
  ASSUME now' \in Nat, WriteTimer
  PROVE  TimerRests \/ TimerRearms \/ mode' = "off"
<1>1. ASSUME NEW m, Timer!WriteNmiTimen(m, now', ppu)
      PROVE  TimerRests \/ TimerRearms \/ mode' = "off"
  <2>1. CASE m = mode
    BY <1>1, <2>1 DEF Timer!WriteNmiTimen, TimerRests
  <2>2. CASE m # mode /\ m = "off"
    BY <1>1, <2>2 DEF Timer!WriteNmiTimen
  <2>3. CASE m # mode /\ m # "off"
    <3>1. Timer!RescheduleIrqMatchFrom(now', ppu, queue)
      BY <1>1, <2>3 DEF Timer!WriteNmiTimen
    <3> QED
      BY <3>1 DEF TimerRearms
  <2> QED
    BY <2>1, <2>2, <2>3
<1>2. ASSUME NEW ht, NEW vt, Timer!WriteTime(ht, vt, now', ppu)
      PROVE  TimerRearms \/ mode' = "off"
  <2>1. CASE mode = "off"
    BY <1>2, <2>1 DEF Timer!WriteTime
  <2>2. CASE mode # "off"
    <3>1. Timer!RescheduleIrqMatchFrom(now', ppu, queue)
      BY <1>2, <2>2 DEF Timer!WriteTime
    <3> QED
      BY <3>1 DEF TimerRearms
  <2> QED
    BY <2>1, <2>2
<1>3. \/ \E m \in Timer!IrqModes \ {mode} : Timer!WriteNmiTimen(m, now', ppu)
      \/ \E ht \in HTimes : Timer!WriteTime(ht, vtime, now', ppu)
      \/ \E vt \in VTimes : Timer!WriteTime(htime, vt, now', ppu)
  BY Zenon DEF WriteTimer
<1> QED
  BY <1>1, <1>2, <1>3

(***************************************************************************)
(* A match rearms at its own time; a stale one and every other event leave *)
(* the timer and the events of its match alone.                            *)
(***************************************************************************)
LEMMA FireRearms ==
  ASSUME QueueInv, Fire
  PROVE  TimerRests \/ TimerRearms
<1>1. PICK e \in queue : \/ FireFrameEnd(e) \/ FireVblank(e) \/ FireJoypad(e)
                         \/ FireIrqMatch(e) \/ FireHdmaInit(e) \/ FireHdmaLine(e)
  BY DEF Fire
<1>2. Firing(e) /\ e.time \in Nat /\ e.time <= now /\ Firing(e)
  <2>1. Firing(e)
    BY <1>1 DEF FireFrameEnd, FireVblank, FireJoypad, FireIrqMatch, FireHdmaInit, FireHdmaLine
  <2>2. e.time \in Nat /\ through \in Int /\ now \in Nat /\ through <= now
    BY DEF QueueInv, Types, EventsTyped, SignalEvent, LoopTyped, Steady, ClockTyped, Sched!NoDrain
  <2> QED
    BY <2>1, <2>2 DEF Firing
<1>3. ASSUME NEW reqs, Timer!Push(queue \ {e}, reqs), UNCHANGED <<mode, htime, vtime, match>>,
             e.kind # HIrqMatch \/ e.time # match
      PROVE  TimerRests
  <2>1. queue' = (queue \ {e}) \cup Scheduled(reqs, nextSeq)
    BY <1>3, PushIs
  <2> QED
    BY <1>3, <2>1 DEF TimerRests
<1>4. CASE FireIrqMatch(e)
  <2>1. Timer!OnIrqMatch(e, ppu)
    BY <1>4 DEF FireIrqMatch
  <2>2. CASE match # e.time
    <3>1. Timer!Push(queue \ {e}, <<>>) /\ UNCHANGED <<mode, htime, vtime, match>>
      BY <2>1, <2>2 DEF Timer!OnIrqMatch
    <3> QED
      BY <1>3, <2>2, <3>1
  <2>3. CASE match = e.time
    <3>1. Timer!RescheduleIrqMatchFrom(e.time, ppu, queue \ {e})
      BY <2>1, <2>3 DEF Timer!OnIrqMatch
    <3> QED
      BY <1>2, <3>1 DEF TimerRearms
  <2> QED
    BY <2>2, <2>3
<1>5. CASE ~FireIrqMatch(e)
  <2>1. UNCHANGED <<mode, htime, vtime, match>> /\ e.kind # HIrqMatch
    BY <1>1, <1>5, KindsAre DEF FireFrameEnd, FireVblank, FireJoypad, FireHdmaInit, FireHdmaLine, timer, programming
  <2>2. \E reqs : Timer!Push(queue \ {e}, reqs)
    BY <1>1, <1>5, Zenon DEF FireFrameEnd, FireVblank, FireJoypad, FireHdmaInit, FireHdmaLine
  <2> QED
    BY <1>3, <2>1, <2>2
<1> QED
  BY <1>4, <1>5

(***************************************************************************)
(* The steps, by what they do to the timer.                                *)
(***************************************************************************)
LEMMA TimerSteps ==
  ASSUME QueueInv, now' \in Nat, Next
  PROVE  TimerRests \/ TimerRearms \/ mode' = "off"
<1> USE DEF timer, programming, events
<1>1. CASE (\E budget \in Budgets : TickFrame(budget)) \/ Loop \/ EnterRunning
  BY <1>1 DEF TickFrame, Loop, LeaveTickFrame, ChooseTarget, EndDrain, EnterRunning, TimerRests
<1>2. CASE EnterStp \/ EnterWaiIdle \/ EnterWaiWake
  BY <1>2 DEF EnterStp, EnterWaiIdle, EnterWaiWake, TimerRests
<1>3. CASE LoopEnds \/ LoopHalted \/ SampleInterrupts \/ LoopRefresh \/ LoopBank \/ FetchOpcode
  BY <1>3 DEF LoopEnds, LoopHalted, SampleInterrupts, LoopRefresh, LoopBank, FetchOpcode, TimerRests
<1>4. CASE Execute /\ ~WriteTimer
  BY <1>4 DEF Execute, ExecutePlain, EnterInterruptHandler, HaltCpu, WriteNmiEnable, ReadTimeUp,
     WriteMdmaEn, WriteHdmaEn, NoBus, Timer!ReadTimeUp, TimerRests
<1>5. CASE End
  BY <1>5 DEF End, vars, TimerRests
<1>6. CASE Reset
  BY <1>6 DEF Reset
<1> QED
  BY <1>1, <1>2, <1>3, <1>4, <1>5, <1>6, WriteRearms, FireRearms DEF Next, Host, Enter, Tick, Execute

(***************************************************************************)
(* The PPU has never been ahead of all the times that were reached.        *)
(***************************************************************************)
LEMMA PpuWithin ==
  ASSUME NEW bound \in Nat, Types, Types', now' <= bound, Looked <= bound, [Next]_vars
  PROVE  Looked' <= bound
<1>1. now \in Nat /\ ppu \in Nat /\ now' \in Nat /\ ppu' \in Nat
  BY DEF Types, ClockTyped, DeviceTyped
<1>2. Looked \in Nat
  BY <1>1, LargerIs DEF Looked
<1>3. CASE TimePasses
  BY <1>1, <1>2, <1>3 DEF TimePasses, Looked, Larger
<1>4. CASE SampleInterrupts
  BY <1>1, <1>4 DEF SampleInterrupts, Looked, Larger
<1>5. CASE WriteNmiEnable
  BY <1>1, <1>5 DEF WriteNmiEnable, Looked, Larger
<1>6. CASE Reset
  BY <1>1, <1>6 DEF Reset, Clock!ClockReset, Looked, Larger
<1>7. CASE UNCHANGED vars
  BY <1>7 DEF vars, Looked
<1> QED
  BY <1>3, <1>4, <1>5, <1>6, <1>7, NmiSteps

(***************************************************************************)
(* For every program and raster, and for as long as master time stays so   *)
(* far below the largest 64-bit number that no match comes near it, an     *)
(* armed timer has a match scheduled and an event queued for it: resets,   *)
(* drains that run late, DMA bursts that carry time over a match, a PPU    *)
(* behind the processor and stale events never leave it dead.              *)
(***************************************************************************)
THEOREM TimerNeverDead ==
  ASSUME NEW bound \in Nat, 2 * (bound + TwoFrames) < Forever
  PROVE  Spec /\ [](now <= bound) => []TimerStaysArmed
<1> DEFINE Within == now <= bound
           Inv == TimerStaysArmed /\ Looked <= bound
<1>1. Init => Inv
  <2>1. Init => TimerStaysArmed
    BY DEF Init, TimerStaysArmed, Timer!ArmedIsQueued
  <2>2. Init => Looked <= bound
    BY DEF Init, Clock!ClockInit, Looked, Larger
  <2> QED
    BY <2>1, <2>2
<1>2. QueueInv /\ QueueInv' /\ Within /\ Within' /\ Inv /\ [Next]_vars => Inv'
  <2> SUFFICES ASSUME QueueInv, QueueInv', now <= bound, now' <= bound, TimerStaysArmed,
                      Looked <= bound, [Next]_vars
               PROVE  TimerStaysArmed' /\ Looked' <= bound
    OBVIOUS
  <2>1. /\ Types /\ Types' /\ now \in Nat /\ ppu \in Nat /\ now' \in Nat /\ nextSeq \in Nat
        /\ ppu <= Looked /\ Looked \in Nat
    BY LargerIs DEF QueueInv, Types, ClockTyped, DeviceTyped, EventsTyped, Looked
  <2>2. htime' \in Nat /\ vtime' \in Nat
    BY <2>1, TimerAssumptions DEF Types, TimerTyped
  <2>3. TimerStaysArmed'
    <3>1. CASE UNCHANGED vars
      BY <3>1, Zenon DEF vars, timer, programming, events, TimerStaysArmed, Timer!ArmedIsQueued, Timer!ReachableMatch
    <3>2. CASE TimerRests
      <4>1. HIrqMatch = Timer!HIrqMatch
        BY DEF HIrqMatch, Timer!HIrqMatch
      <4>2. UNCHANGED <<mode, htime, vtime, match>>
        BY <3>2 DEF TimerRests
      <4>3. Timer!ReachableMatch(mode, htime, vtime)' = Timer!ReachableMatch(mode, htime, vtime)
        BY <4>2, Zenon DEF Timer!ReachableMatch
      <4> QED
        BY <3>2, <4>1, <4>2, <4>3, Zenon DEF TimerRests, TimerStaysArmed, Timer!ArmedIsQueued
    <3>3. CASE TimerRearms
      <4>1. PICK t \in Nat : \E q :
              (t <= now \/ t = now') /\ Timer!RescheduleIrqMatchFrom(t, ppu, q)
        BY <3>3 DEF TimerRearms
      <4>2. t <= bound /\ ppu <= bound
        BY <2>1, <4>1
      <4> QED
        BY <2>1, <2>2, <4>1, <4>2, RearmingArms
    <3>4. CASE mode' = "off"
      BY <3>4 DEF TimerStaysArmed, Timer!ArmedIsQueued
    <3> QED
      BY <2>1, <3>1, <3>2, <3>3, <3>4, TimerSteps
  <2>4. Looked' <= bound
    BY <2>1, PpuWithin
  <2> QED
    BY <2>3, <2>4
<1>3. Inv => TimerStaysArmed
  OBVIOUS
<1> HIDE DEF Inv
<1> QED
  BY <1>1, <1>2, <1>3, QueueInvHolds, PTL DEF Spec

(***************************************************************************)
(* The dots of a programming are the same in the proofs about the walk and *)
(* in the machine's timer.                                                 *)
(***************************************************************************)
LEMMA ProgrammedIs ==
  ASSUME NEW m, NEW ht, NEW vt, NEW d
  PROVE  Proved!Programmed(m, ht, vt, d)
           <=> Timer!DotBegins(IF Timer!HEnabled(m) THEN ht ELSE 0,
                               IF Timer!VEnabled(m) THEN vt ELSE Timer!BeamAt(d).v, d)
<1>1. Proved!BeamAt(d) = Timer!BeamAt(d)
  BY SameTimerRaster, Zenon
<1> QED
  BY <1>1, Zenon DEF Proved!Programmed, Proved!DotBegins, Timer!DotBegins, Proved!HEnabled,
     Timer!HEnabled, Proved!VEnabled, Timer!VEnabled

(***************************************************************************)
(* A programming with a dot is one the beam can reach.                     *)
(***************************************************************************)
LEMMA ProgrammedIsReachable ==
  ASSUME NEW m, NEW ht \in Nat, NEW vt \in Nat, NEW d \in Nat, Proved!Programmed(m, ht, vt, d)
  PROVE  Timer!ReachableMatch(m, ht, vt)
<1> DEFINE b == Proved!BeamAt(d)
<1>1. b.h \in Proved!Dot /\ b.v \in Proved!Line
  BY Proved!TimeInDot, RasterAssumption, ForeverAssumption, TimerAssumptions
<1>2. b.h = (IF Proved!HEnabled(m) THEN ht ELSE 0) /\ b.v = (IF Proved!VEnabled(m) THEN vt ELSE b.v)
  BY Zenon DEF Proved!Programmed, Proved!DotBegins
<1> HIDE DEF b
<1>3. Proved!HEnabled(m) => ht < DotsPerLine
  BY <1>1, <1>2, RasterAssumption DEF Proved!Dot
<1>4. Proved!VEnabled(m) => vt < LinesPerFrame
  BY <1>1, <1>2, RasterAssumption DEF Proved!Line
<1>5. Proved!ReachableMatch(m, ht, vt)
  BY <1>3, <1>4 DEF Proved!ReachableMatch
<1> QED
  BY <1>5, SameMatch

(***************************************************************************)
(* What the walk finds stands for a programmed dot, and not for one after  *)
(* a dot that begins later than both the time and the cursor.              *)
(***************************************************************************)
LEMMA NextMatchStands ==
  ASSUME NEW m, NEW ht \in Nat, NEW vt \in Nat, NEW t \in Nat, NEW p \in Nat,
         Timer!ReachableMatch(m, ht, vt),
         NEW next, next = Timer!ComputeNextMatch(m, ht, vt, t, p)
  PROVE  /\ \E d \in Nat : Proved!Programmed(m, ht, vt, d) /\ StandsFor(d, next)
         /\ \A d \in Nat : Proved!Programmed(m, ht, vt, d) /\ d > p /\ d > t
                             => next < d + LongDotCycles
<1> DEFINE late == Proved!BeamAt(p).partial
<1>1. Proved!ReachableMatch(m, ht, vt) /\ next = Proved!ComputeNextMatch(m, ht, vt, t, p)
  BY SameMatch
<1>2. Proved!FirstMatch(m, ht, vt, t, p, next)
  BY <1>1, Proved!NextMatchIsFirst, RasterAssumption, ForeverAssumption, TimerAssumptions
<1>3. late \in 0..(LongDotCycles - 1) /\ LongDotCycles \in Nat
  BY Proved!TimeInDot, RasterAssumption, ForeverAssumption, TimerAssumptions
<1>4. /\ next \in Nat
      /\ \E d \in Nat : next = d + late /\ Proved!Programmed(m, ht, vt, d)
      /\ \A d \in Nat : Proved!Programmed(m, ht, vt, d) /\ d > p /\ d > t => next <= d + late
  BY <1>2, Zenon DEF Proved!FirstMatch
<1> HIDE DEF late
<1>5. ASSUME NEW d \in Nat, next = d + late
      PROVE  StandsFor(d, next)
  BY <1>3, <1>5 DEF StandsFor
<1>6. ASSUME NEW d \in Nat, next <= d + late
      PROVE  next < d + LongDotCycles
  BY <1>3, <1>4, <1>6
<1> QED
  BY <1>4, <1>5, <1>6

(***************************************************************************)
(* The invariant of the match.  It stands for a programmed dot, and no     *)
(* programmed dot that is owed one begins before it but its own: in the    *)
(* drain those that the PPU has yet to reach, and those since the last     *)
(* drain unless the interrupt is up.                                       *)
(***************************************************************************)
MatchStands ==
  match # Forever =>
    mode # "off" /\ \E d \in Nat : Timer!MatchesDot(d) /\ StandsFor(d, match)

Coming(t) ==
  mode # "off" => \A d \in Nat : d > t /\ Timer!MatchesDot(d) => match < d + LongDotCycles

MatchComing ==
  IF at = "drain" THEN Coming(ppu) /\ (timeup \/ Coming(since)) ELSE Coming(since)

(***************************************************************************)
(* Rearming establishes it from both its times on.                         *)
(***************************************************************************)
LEMMA RearmingStands ==
  ASSUME NEW bound \in Nat, 2 * (bound + TwoFrames) < Forever,
         NEW t \in Nat, NEW p \in Nat, t <= bound, p <= bound, NEW q,
         htime' \in Nat, vtime' \in Nat, Timer!RescheduleIrqMatchFrom(t, p, q)
  PROVE  /\ MatchStands'
         /\ mode' # "off" =>
              \A d \in Nat : d > t /\ d > p /\ Timer!MatchesDot(d)' => match' < d + LongDotCycles
<1>1. match' = IF mode' = "off" THEN Forever
               ELSE Timer!ComputeNextMatch(mode', htime', vtime', t, p)
  BY Zenon DEF Timer!RescheduleIrqMatchFrom
<1>2. ASSUME NEW d
      PROVE  Timer!MatchesDot(d)' <=> Proved!Programmed(mode', htime', vtime', d)
  BY ProgrammedIs, Zenon DEF Timer!MatchesDot
<1>3. CASE mode' = "off"
  BY <1>1, <1>3 DEF MatchStands
<1>4. CASE mode' # "off" /\ ~Timer!ReachableMatch(mode', htime', vtime')
  <2>1. match' = Forever
    BY <1>1, <1>4, Zenon DEF Timer!ComputeNextMatch
  <2>2. \A d \in Nat : ~Timer!MatchesDot(d)'
    BY <1>2, <1>4, ProgrammedIsReachable
  <2> QED
    BY <2>1, <2>2 DEF MatchStands
<1>5. CASE mode' # "off" /\ Timer!ReachableMatch(mode', htime', vtime')
  <2>1. match' = Timer!ComputeNextMatch(mode', htime', vtime', t, p)
    BY <1>1, <1>5
  <2>2. /\ \E d \in Nat : Proved!Programmed(mode', htime', vtime', d) /\ StandsFor(d, match')
        /\ \A d \in Nat : Proved!Programmed(mode', htime', vtime', d) /\ d > p /\ d > t
                            => match' < d + LongDotCycles
    BY <1>5, <2>1, NextMatchStands
  <2>3. \E d \in Nat : Timer!MatchesDot(d)' /\ StandsFor(d, match')
    BY <1>2, <2>2
  <2>4. MatchStands'
    BY <1>5, <2>3 DEF MatchStands, StandsFor
  <2> QED
    BY <1>2, <2>2, <2>4
<1> QED
  BY <1>3, <1>4, <1>5

(***************************************************************************)
(* Outside a drain the timer is left alone but by a reset and a write; a   *)
(* drain begins with the PPU where it was owed from, or later.             *)
(***************************************************************************)
LEMMA OtherStepsRest ==
  ASSUME Types, Next, ~Reset, ~Fire, ~WriteTimer, ~EndDrain
  PROVE  \/ at # "drain" /\ UNCHANGED <<mode, htime, vtime, match, since>>
         \/ UNCHANGED vars
<1> USE DEF timer, programming
<1>1. CASE (\E budget \in Budgets : TickFrame(budget)) \/ LeaveTickFrame \/ ChooseTarget \/ EnterRunning
  BY <1>1 DEF TickFrame, LeaveTickFrame, ChooseTarget, EnterRunning
<1>2. CASE EnterStp \/ EnterWaiIdle \/ EnterWaiWake
  BY <1>2 DEF EnterStp, EnterWaiIdle, EnterWaiWake
<1>3. CASE LoopEnds \/ LoopHalted \/ SampleInterrupts \/ LoopRefresh \/ LoopBank \/ FetchOpcode
  BY <1>3 DEF LoopEnds, LoopHalted, SampleInterrupts, LoopRefresh, LoopBank, FetchOpcode, Stepping
<1>4. CASE Execute
  <2>1. at # "drain"
    BY <1>4 DEF Execute, ExecutePlain, EnterInterruptHandler, HaltCpu, WriteNmiEnable, WriteTimer,
       ReadTimeUp, WriteMdmaEn, WriteHdmaEn, Finish, Stepping
  <2>2. UNCHANGED <<mode, htime, vtime, match, since>>
    BY <1>4 DEF Execute, ExecutePlain, EnterInterruptHandler, HaltCpu, WriteNmiEnable, ReadTimeUp,
       WriteMdmaEn, WriteHdmaEn, NoBus, Timer!ReadTimeUp
  <2> QED
    BY <2>1, <2>2
<1>5. CASE End
  BY <1>5 DEF End
<1> QED
  BY <1>1, <1>2, <1>3, <1>4, <1>5, Zenon DEF Next, Host, Loop, Enter, Tick

(***************************************************************************)
(* A programming that is left alone has the same dots.                     *)
(***************************************************************************)
LEMMA DotsRest ==
  ASSUME NEW d, UNCHANGED <<mode, htime, vtime>>
  PROVE  Timer!MatchesDot(d)' <=> Timer!MatchesDot(d)
  BY Zenon DEF Timer!MatchesDot

(***************************************************************************)
(* So a match that is left alone stands for the dot it stood for.         *)
(***************************************************************************)
LEMMA StandsRests ==
  ASSUME MatchStands, UNCHANGED <<mode, htime, vtime, match>>
  PROVE  MatchStands'
<1>1. \A d : Timer!MatchesDot(d)' <=> Timer!MatchesDot(d)
  BY DotsRest
<1> QED
  BY <1>1 DEF MatchStands, StandsFor

(***************************************************************************)
(* A write of the timer's registers.                                       *)
(***************************************************************************)
LEMMA WriteStands ==
  ASSUME NEW bound \in Nat, 2 * (bound + TwoFrames) < Forever,
         now' \in Nat, ppu \in Nat, now' <= bound, ppu <= bound, htime' \in Nat, vtime' \in Nat,
         MatchStands, WriteTimer
  PROVE  MatchStands' /\ MatchComing'
<1>1. at' = "loop" /\ since' = Larger(now', ppu)
  BY Zenon DEF WriteTimer, Finish
<1>2. since' \in Nat /\ now' <= since' /\ ppu <= since'
  BY <1>1, LargerIs
<1>3. ASSUME NEW q, Timer!RescheduleIrqMatchFrom(now', ppu, q)
      PROVE  MatchStands' /\ MatchComing'
  <2>1. /\ MatchStands'
        /\ mode' # "off" =>
             \A d \in Nat : d > now' /\ d > ppu /\ Timer!MatchesDot(d)' => match' < d + LongDotCycles
    BY <1>3, RearmingStands
  <2> QED
    BY <1>1, <1>2, <2>1 DEF MatchComing, Coming
<1>4. ASSUME mode' = "off", match' = Forever
      PROVE  MatchStands' /\ MatchComing'
  BY <1>1, <1>4 DEF MatchStands, MatchComing, Coming
<1>5. ASSUME NEW m \in Timer!IrqModes \ {mode}, Timer!WriteNmiTimen(m, now', ppu)
      PROVE  MatchStands' /\ MatchComing'
  <2>1. CASE m = "off"
    BY <1>4, <1>5, <2>1 DEF Timer!WriteNmiTimen
  <2>2. CASE m # "off"
    BY <1>3, <1>5, <2>2 DEF Timer!WriteNmiTimen
  <2> QED
    BY <2>1, <2>2
<1>6. ASSUME NEW ht, NEW vt, Timer!WriteTime(ht, vt, now', ppu)
      PROVE  MatchStands' /\ MatchComing'
  <2>1. CASE mode = "off"
    <3>1. match = Forever /\ UNCHANGED <<mode, match>>
      BY <1>6, <2>1 DEF Timer!WriteTime, MatchStands
    <3> QED
      BY <1>4, <2>1, <3>1
  <2>2. CASE mode # "off"
    BY <1>3, <1>6, <2>2 DEF Timer!WriteTime
  <2> QED
    BY <2>1, <2>2
<1>7. \/ \E m \in Timer!IrqModes \ {mode} : Timer!WriteNmiTimen(m, now', ppu)
      \/ \E ht \in HTimes : Timer!WriteTime(ht, vtime, now', ppu)
      \/ \E vt \in VTimes : Timer!WriteTime(htime, vt, now', ppu)
  BY Zenon DEF WriteTimer
<1> QED
  BY <1>5, <1>6, <1>7

(***************************************************************************)
(* A handler of the drain.  The match that raises the interrupt rearms     *)
(* from its own time, which the PPU has passed.                            *)
(***************************************************************************)
LEMMA FireStands ==
  ASSUME NEW bound \in Nat, 2 * (bound + TwoFrames) < Forever, QueueInv, Owed,
         ppu <= bound, MatchStands, MatchComing, Fire
  PROVE  MatchStands' /\ MatchComing'
<1>1. PICK e \in queue : \/ FireFrameEnd(e) \/ FireVblank(e) \/ FireJoypad(e)
                         \/ FireIrqMatch(e) \/ FireHdmaInit(e) \/ FireHdmaLine(e)
  BY DEF Fire
<1>2. Firing(e) /\ UNCHANGED <<ppu, since>>
  BY <1>1 DEF FireFrameEnd, FireVblank, FireJoypad, FireIrqMatch, FireHdmaInit, FireHdmaLine, timer
<1>3. /\ at = "drain" /\ at' = "drain" /\ e.time \in Nat /\ e.time <= through /\ through \in Nat
      /\ through <= ppu /\ ppu \in Nat /\ since \in Nat
  BY <1>2 DEF Firing, loop, QueueInv, Types, EventsTyped, SignalEvent, LoopTyped, Steady, DeviceTyped,
     Owed
<1>4. ASSUME UNCHANGED <<mode, htime, vtime, timeup, match>>
      PROVE  MatchStands' /\ MatchComing'
  <2>1. MatchStands'
    BY <1>4, StandsRests
  <2>2. \A d : Timer!MatchesDot(d)' <=> Timer!MatchesDot(d)
    BY <1>4, DotsRest
  <2>3. Coming(ppu)'
    BY <1>2, <1>3, <1>4, <2>2 DEF MatchComing, Coming
  <2>4. timeup' \/ Coming(since)'
    BY <1>2, <1>3, <1>4, <2>2 DEF MatchComing, Coming
  <2> QED
    BY <1>3, <2>1, <2>3, <2>4 DEF MatchComing
<1>5. CASE FireIrqMatch(e)
  <2>1. Timer!OnIrqMatch(e, ppu)
    BY <1>5 DEF FireIrqMatch
  <2>2. CASE match # e.time
    <3>1. UNCHANGED <<mode, htime, vtime, timeup, match>>
      BY <2>1, <2>2 DEF Timer!OnIrqMatch
    <3> QED
      BY <1>4, <3>1
  <2>3. CASE match = e.time
    <3>1. timeup' = TRUE /\ UNCHANGED <<mode, htime, vtime>>
          /\ Timer!RescheduleIrqMatchFrom(e.time, ppu, queue \ {e})
      BY <2>1, <2>3 DEF Timer!OnIrqMatch
    <3>2. htime' \in Nat /\ vtime' \in Nat
      BY <3>1, TimerAssumptions DEF QueueInv, Types, TimerTyped
    <3>3. e.time <= bound
      BY <1>3
    <3>4. /\ MatchStands'
          /\ mode' # "off" =>
               \A d \in Nat : d > e.time /\ d > ppu /\ Timer!MatchesDot(d)' => match' < d + LongDotCycles
      BY <1>3, <3>1, <3>2, <3>3, RearmingStands
    <3>5. Coming(ppu)'
      BY <1>2, <1>3, <3>4 DEF Coming
    <3> QED
      BY <1>3, <3>1, <3>4, <3>5 DEF MatchComing
  <2> QED
    BY <2>2, <2>3
<1>6. CASE ~FireIrqMatch(e)
  <2>1. UNCHANGED <<mode, htime, vtime, timeup, match>>
    BY <1>1, <1>6 DEF FireFrameEnd, FireVblank, FireJoypad, FireHdmaInit, FireHdmaLine, timer, programming
  <2> QED
    BY <1>4, <2>1
<1> QED
  BY <1>5, <1>6

(***************************************************************************)
(* The invariant, for as long as time stays far below the largest number.  *)
(***************************************************************************)
LEMMA MatchHolds ==
  ASSUME NEW bound \in Nat, 2 * (bound + TwoFrames) < Forever
  PROVE  Spec /\ [](now <= bound) => [](MatchStands /\ MatchComing)
<1> DEFINE Within == now <= bound
           Inv == MatchStands /\ MatchComing /\ Looked <= bound
<1>1. Init => Inv
  <2>1. Init => MatchStands /\ MatchComing
    BY DEF Init, MatchStands, MatchComing, Coming
  <2>2. Init => Looked <= bound
    BY DEF Init, Clock!ClockInit, Looked, Larger
  <2> QED
    BY <2>1, <2>2
<1>2. QueueInv /\ QueueInv' /\ Owed /\ Owed' /\ Within /\ Within' /\ Inv /\ [Next]_vars => Inv'
  <2> SUFFICES ASSUME QueueInv, QueueInv', Owed, Owed', now <= bound, now' <= bound,
                      MatchStands, MatchComing, Looked <= bound, [Next]_vars
               PROVE  MatchStands' /\ MatchComing' /\ Looked' <= bound
    OBVIOUS
  <2>1. /\ Types /\ Types' /\ now \in Nat /\ ppu \in Nat /\ ppu' \in Nat /\ now' \in Nat
        /\ ppu <= Looked /\ Looked \in Nat /\ since \in Nat /\ since' \in Nat
    BY LargerIs DEF QueueInv, Types, ClockTyped, DeviceTyped, Looked, Owed
  <2>2. ppu <= bound
    BY <2>1
  <2>3. htime' \in Nat /\ vtime' \in Nat
    BY <2>1, TimerAssumptions DEF Types, TimerTyped
  <2>4. Looked' <= bound
    BY <2>1, PpuWithin
  <2>5. CASE Reset
    BY <2>4, <2>5 DEF Reset, loop, MatchStands, MatchComing, Coming
  <2>6. CASE Fire
    BY <2>4, <2>2, <2>6, FireStands
  <2>7. CASE WriteTimer
    BY <2>4, <2>1, <2>2, <2>3, <2>7, WriteStands
  <2>8. CASE EndDrain
    <3>1. at = "drain" /\ at' # "drain" /\ since' = ppu /\ UNCHANGED <<mode, htime, vtime, match>>
      BY <2>8 DEF EndDrain, programming
    <3>2. \A d : Timer!MatchesDot(d)' <=> Timer!MatchesDot(d)
      BY <3>1, DotsRest
    <3> QED
      BY <2>4, <3>1, <3>2, StandsRests DEF MatchComing, Coming
  <2>9. CASE UNCHANGED vars
    <3>1. UNCHANGED <<mode, htime, vtime, match, at, ppu, since, timeup>>
      BY <2>9 DEF vars, timer, programming, loop
    <3>2. \A d : Timer!MatchesDot(d)' <=> Timer!MatchesDot(d)
      BY <3>1, DotsRest
    <3> QED
      BY <2>4, <3>1, <3>2, StandsRests DEF MatchComing, Coming
  <2>10. CASE at # "drain" /\ UNCHANGED <<mode, htime, vtime, match, since>>
    <3>1. MatchStands'
      BY <2>10, StandsRests
    <3>2. \A d : Timer!MatchesDot(d)' <=> Timer!MatchesDot(d)
      BY <2>10, DotsRest
    <3>3. Coming(since)'
      BY <2>10, <3>2 DEF MatchComing, Coming
    <3>4. CASE at' # "drain"
      BY <2>4, <3>1, <3>3, <3>4 DEF MatchComing
    <3>5. CASE at' = "drain"
      <4>1. since' <= ppu'
        BY <3>5 DEF Owed
      <4>2. Coming(ppu)'
        BY <2>1, <3>3, <4>1 DEF Coming
      <4> QED
        BY <2>4, <3>1, <3>3, <3>5, <4>2 DEF MatchComing
    <3> QED
      BY <3>4, <3>5
  <2> QED
    BY <2>1, <2>4, <2>5, <2>6, <2>7, <2>8, <2>9, <2>10, OtherStepsRest
<1>3. Inv => MatchStands /\ MatchComing
  OBVIOUS
<1> HIDE DEF Inv
<1> QED
  BY <1>1, <1>2, <1>3, QueueInvHolds, OwedHolds, PTL DEF Spec

(***************************************************************************)
(* For every program, raster, HTIME and VTIME, and for as long as master   *)
(* time stays far below the largest number, the scheduled match is the     *)
(* first programmed dot's since the programming was written or the last    *)
(* drain ended: a cursor inside a dot, a PPU behind the write, the short   *)
(* line and a match that fires late never make the walk pass one over.     *)
(***************************************************************************)
THEOREM MatchStaysNext ==
  ASSUME NEW bound \in Nat, 2 * (bound + TwoFrames) < Forever
  PROVE  Spec /\ [](now <= bound) => []MatchIsNext
<1>1. QueueInv /\ Owed /\ MatchStands /\ MatchComing => MatchIsNext
  <2> SUFFICES ASSUME QueueInv, Owed, MatchStands, MatchComing, at # "drain", match # Forever
               PROVE  /\ \E d \in ProgrammedDots(match - LongDotCycles, match) : StandsFor(d, match)
                      /\ \A d \in ProgrammedDots(since, match) : StandsFor(d, match)
    BY DEF MatchIsNext
  <2>1. match \in Nat /\ since \in Nat /\ LongDotCycles \in Nat /\ mode # "off"
    BY RasterAssumption DEF QueueInv, Types, TimerTyped, Owed, MatchStands
  <2>2. PICK d \in Nat : Timer!MatchesDot(d) /\ StandsFor(d, match)
    BY DEF MatchStands
  <2>3. d \in ProgrammedDots(match - LongDotCycles, match)
    BY <2>1, <2>2 DEF ProgrammedDots, StandsFor
  <2>4. ASSUME NEW x \in ProgrammedDots(since, match)
        PROVE  StandsFor(x, match)
    <3>1. x \in Nat /\ since < x /\ x <= match /\ Timer!MatchesDot(x)
      BY <2>1 DEF ProgrammedDots
    <3> QED
      BY <2>1, <3>1 DEF MatchComing, Coming, StandsFor
  <2> QED
    BY <2>2, <2>3, <2>4
<1>2. Spec /\ [](now <= bound) => [](MatchStands /\ MatchComing)
  BY MatchHolds
<1> QED
  BY <1>1, <1>2, QueueInvHolds, OwedHolds, PTL

(***************************************************************************)
(* Only a handler raises the interrupt.                                    *)
(***************************************************************************)
LEMMA LatchingFires ==
  ASSUME Next, timeup', ~timeup
  PROVE  Fire
<1> USE DEF timer, programming
<1>1. ~((\E budget \in Budgets : TickFrame(budget)) \/ Loop \/ Reset)
  BY DEF TickFrame, Loop, LeaveTickFrame, ChooseTarget, EndDrain, Reset
<1>2. ~Enter
  BY DEF Enter, EnterRunning, EnterStp, EnterWaiIdle, EnterWaiWake
<1>3. ~(LoopEnds \/ LoopHalted \/ SampleInterrupts \/ LoopRefresh \/ LoopBank \/ FetchOpcode)
  BY DEF LoopEnds, LoopHalted, SampleInterrupts, LoopRefresh, LoopBank, FetchOpcode
<1>4. ~WriteTimer
  BY DEF WriteTimer, Timer!WriteNmiTimen, Timer!WriteTime
<1>5. ~(Execute /\ ~WriteTimer)
  BY DEF Execute, ExecutePlain, EnterInterruptHandler, HaltCpu, WriteNmiEnable, ReadTimeUp,
     WriteMdmaEn, WriteHdmaEn, NoBus, Timer!ReadTimeUp
<1>6. ~End
  BY DEF End, vars
<1> QED
  BY <1>1, <1>2, <1>3, <1>4, <1>5, <1>6 DEF Next, Host, Tick

(***************************************************************************)
(* Only EndDrain leaves a drain.                                           *)
(***************************************************************************)
LEMMA DrainEndsOnly ==
  ASSUME Types, Next, at = "drain", at' # "drain"
  PROVE  EndDrain
<1>1. ~Fire
  BY DEF Fire, FireFrameEnd, FireVblank, FireJoypad, FireIrqMatch, FireHdmaInit, FireHdmaLine, Firing, loop
<1>2. ~Reset
  BY DEF Reset
<1>3. ~WriteTimer
  BY DEF WriteTimer, Finish, Stepping
<1>4. ~UNCHANGED vars
  BY DEF vars, loop
<1> QED
  BY <1>1, <1>2, <1>3, <1>4, OtherStepsRest

(***************************************************************************)
(* An interrupt is raised only for a dot that the present programming asks *)
(* for and the beam has reached, however late the drain and however many   *)
(* superseded events are in the queue.                                     *)
(***************************************************************************)
THEOREM LatchIsProgrammed ==
  ASSUME NEW bound \in Nat, 2 * (bound + TwoFrames) < Forever
  PROVE  Spec /\ [](now <= bound) => LatchOnlyAtMatch
<1> DEFINE Within == now <= bound
           Latches == timeup' /\ ~timeup =>
                        /\ mode # "off" /\ match <= through
                        /\ \E d \in ProgrammedDots(match - LongDotCycles, match) : StandsFor(d, match)
<1>1. QueueInv /\ Within /\ MatchStands /\ [Next]_vars => [Latches]_vars
  <2> SUFFICES ASSUME QueueInv, now <= bound, MatchStands, Next, timeup', ~timeup
               PROVE  /\ mode # "off" /\ match <= through
                      /\ \E d \in ProgrammedDots(match - LongDotCycles, match) : StandsFor(d, match)
    BY Zenon
  <2>1. /\ match \in Nat /\ LongDotCycles \in Nat /\ now \in Nat /\ through \in Int /\ through <= now
        /\ Types
    BY RasterAssumption DEF QueueInv, Types, TimerTyped, ClockTyped, LoopTyped, Steady, Sched!NoDrain
  <2>2. PICK e \in queue : FireIrqMatch(e) /\ match = e.time
    <3>1. Fire
      BY <2>1, LatchingFires
    <3>2. PICK e \in queue : \/ FireFrameEnd(e) \/ FireVblank(e) \/ FireJoypad(e)
                             \/ FireIrqMatch(e) \/ FireHdmaInit(e) \/ FireHdmaLine(e)
      BY <3>1 DEF Fire
    <3>3. FireIrqMatch(e)
      BY <3>2 DEF FireFrameEnd, FireVblank, FireJoypad, FireHdmaInit, FireHdmaLine, timer, programming
    <3>4. match = e.time
      BY <3>3 DEF FireIrqMatch, Timer!OnIrqMatch
    <3> QED
      BY <3>3, <3>4
  <2>3. match <= through
    BY <2>2 DEF FireIrqMatch, Firing
  <2>4. match # Forever
    BY <2>1, <2>3, TwoFramesAre
  <2>5. PICK d \in Nat : mode # "off" /\ Timer!MatchesDot(d) /\ StandsFor(d, match)
    BY <2>4 DEF MatchStands
  <2>6. d \in ProgrammedDots(match - LongDotCycles, match)
    BY <2>1, <2>5 DEF ProgrammedDots, StandsFor
  <2> QED
    BY <2>3, <2>5, <2>6
<1>2. Spec /\ [](now <= bound) => [](MatchStands /\ MatchComing)
  BY MatchHolds
<1> QED
  BY <1>1, <1>2, QueueInvHolds, PTL DEF Spec, LatchOnlyAtMatch

(***************************************************************************)
(* No programmed dot goes without its interrupt: when a drain ends, a dot  *)
(* that began after the programming was written or the last drain ended,   *)
(* and a dot's length ago, has raised TIMEUP, although the drain may be    *)
(* late and its matches may lie in the past.                               *)
(***************************************************************************)
THEOREM DotsLatch ==
  ASSUME NEW bound \in Nat, 2 * (bound + TwoFrames) < Forever
  PROVE  Spec /\ [](now <= bound) => EveryDotLatches
<1> DEFINE Within == now <= bound
           Latched == at = "drain" /\ at' # "drain" =>
                        \/ timeup \/ mode = "off"
                        \/ ProgrammedDots(since, through - LongDotCycles + 1) = {}
<1>1. QueueInv /\ Owed /\ Within /\ MatchComing /\ TimerStaysArmed /\ [Next]_vars => [Latched]_vars
  <2> SUFFICES ASSUME QueueInv, Owed, now <= bound, MatchComing, TimerStaysArmed, Next,
                      at = "drain", at' # "drain", ~timeup, mode # "off",
                      NEW d \in ProgrammedDots(since, through - LongDotCycles + 1)
               PROVE  FALSE
    BY Zenon
  <2>1. /\ match \in Nat /\ LongDotCycles \in Nat /\ now \in Nat /\ through \in Int /\ through <= now
        /\ Types /\ since \in Nat
    BY RasterAssumption DEF QueueInv, Types, TimerTyped, ClockTyped, LoopTyped, Steady, Sched!NoDrain, Owed
  <2>2. d \in Nat /\ since < d /\ d <= through - LongDotCycles + 1 /\ Timer!MatchesDot(d)
    BY <2>1 DEF ProgrammedDots
  <2>3. match < d + LongDotCycles
    BY <2>2 DEF MatchComing, Coming
  <2>4. match <= through
    BY <2>1, <2>2, <2>3
  <2>5. \A e \in queue : e.time > through
    <3>1. EndDrain
      BY <2>1, DrainEndsOnly
    <3> QED
      BY <3>1 DEF EndDrain
  <2>6. Timer!ReachableMatch(mode, htime, vtime)
    <3>1. htime \in Nat /\ vtime \in Nat
      BY <2>1, TimerAssumptions DEF Types, TimerTyped
    <3>2. Proved!Programmed(mode, htime, vtime, d)
      BY <2>2, ProgrammedIs, Zenon DEF Timer!MatchesDot
    <3> QED
      BY <2>2, <3>1, <3>2, ProgrammedIsReachable
  <2>7. \E e \in queue : e.time = match
    BY <2>6 DEF TimerStaysArmed, Timer!ArmedIsQueued
  <2> QED
    BY <2>1, <2>4, <2>5, <2>7
<1>2. Spec /\ [](now <= bound) => [](MatchStands /\ MatchComing)
  BY MatchHolds
<1>3. Spec /\ [](now <= bound) => []TimerStaysArmed
  BY TimerNeverDead
<1> QED
  BY <1>1, <1>2, <1>3, QueueInvHolds, OwedHolds, PTL DEF Spec, EveryDotLatches
-----------------------------------------------------------------------------
(***************************************************************************)
(* The fences.  A period computed in a frame is the length of that frame,  *)
(* and brings the beam to the same line of the next, whose field is the    *)
(* other one.                                                              *)
(***************************************************************************)
LEMMA LineReturns ==
  ASSUME NEW t \in Nat, NEW v \in 0..(LinesPerFrame - 1), v <= ShortLine, DotBegins(0, v, t),
         NEW next, next = t + FrameCycles(BeamAt(t).field)
  PROVE  DotBegins(0, v, next) /\ BeamAt(next).field = ~BeamAt(t).field
<1>1. v \in Proved!Line
  BY DEF Proved!Line
<1>2. Proved!DotBegins(0, v, t)
  BY SameBeam, Zenon DEF Proved!DotBegins, DotBegins
<1>3. next = t + Proved!FrameCycles(Proved!BeamAt(t).field)
  BY SameBeam, SameFrames, Zenon
<1>4. Proved!DotBegins(0, v, next) /\ Proved!BeamAt(next).field = ~Proved!BeamAt(t).field
  BY <1>1, <1>2, <1>3, Proved!LineComesAgain, RasterAssumption, ForeverAssumption, TimerAssumptions
<1> QED
  BY <1>4, SameBeam, Zenon DEF Proved!DotBegins, DotBegins

(***************************************************************************)
(* In the first frame the lines up to the short one begin at multiples of  *)
(* the line's length, where the first fences are set.                      *)
(***************************************************************************)
LEMMA LinesAtFirst ==
  ASSUME NEW v \in 0..(LinesPerFrame - 1), v <= ShortLine
  PROVE  /\ v * NormalLineCycles \in Nat /\ DotBegins(0, v, v * NormalLineCycles)
         /\ BeamAt(v * NormalLineCycles).field = FALSE
<1>1. v \in Proved!Line
  BY DEF Proved!Line
<1>2. PICK t : t = v * NormalLineCycles
  OBVIOUS
<1>3. t = v * Proved!NormalLineCycles
  BY <1>2, SameLines, Zenon
<1>4. t \in Nat /\ Proved!DotBegins(0, v, t) /\ Proved!BeamAt(t).field = FALSE
  BY <1>1, <1>3, Proved!FirstLines, RasterAssumption, ForeverAssumption, TimerAssumptions
<1>5. DotBegins(0, v, t) /\ BeamAt(t).field = FALSE
  BY <1>4, SameBeam, Zenon DEF Proved!DotBegins, DotBegins
<1> QED
  BY <1>2, <1>4, <1>5

(***************************************************************************)
(* The beam is always in a frame of one field.                             *)
(***************************************************************************)
LEMMA BeamHasField ==
  ASSUME NEW t \in Nat
  PROVE  BeamAt(t).field \in BOOLEAN
<1>1. Proved!BeamAt(t).field \in BOOLEAN
  BY Proved!TimeInDot, RasterAssumption, ForeverAssumption, TimerAssumptions
<1> QED
  BY <1>1, SameBeam

(***************************************************************************)
(* NextFramePeriod is the length of the frame the PPU is in.               *)
(***************************************************************************)
LEMMA PeriodIs ==
  ASSUME NEW p, NEW field \in BOOLEAN, BeamAt(p).field = field
  PROVE  NextFramePeriod(p) = FrameCycles(field)
<1> USE RasterAssumption, ForeverAssumption, TimerAssumptions
<1> DEFINE all == LinesPerFrame * NormalLineCycles
           long == LineCycles(ShortLine, FALSE)
           short == LineCycles(ShortLine, TRUE)
<1>1. NextFramePeriod(p) = all - (IF field THEN long - short ELSE 0)
  BY Zenon DEF NextFramePeriod
<1>2. long = NormalLineCycles /\ short = DotsPerLine * DotCycles
  BY Zenon DEF LineCycles, IsShortLine
<1>3. FrameCycles(field) = all - Proved!Missing(field, LinesPerFrame)
  <2>1. Proved!FrameCycles(field) = Proved!LineStart(field)[LinesPerFrame]
    BY Proved!FrameLength
  <2>2. Proved!LineStart(field)[LinesPerFrame]
          = LinesPerFrame * Proved!NormalLineCycles - Proved!Missing(field, LinesPerFrame)
    BY RasterIs, Proved!LinesBefore
  <2>3. Proved!FrameCycles(field) = FrameCycles(field) /\ Proved!NormalLineCycles = NormalLineCycles
    BY SameFrames, SameLines
  <2> QED
    BY <2>1, <2>2, <2>3, Zenon
<1>4. LinesPerFrame > ShortLine
  OBVIOUS
<1>5. Proved!Missing(field, LinesPerFrame)
        = IF field THEN NormalLineCycles - DotsPerLine * DotCycles ELSE 0
  BY <1>4, SameLines, Zenon DEF Proved!Missing
<1> QED
  BY <1>1, <1>2, <1>3, <1>5, Zenon

(***************************************************************************)
(* HDMA steps from frame to frame by itself: a base that is the start of a *)
(* frame moves to the start of the next, and the field with it.            *)
(***************************************************************************)
HdmaAligned == IsFrameStart(hdma.base) /\ BeamAt(hdma.base).field = hdma.field

(***************************************************************************)
(* HDMA starts with the first frame.                                       *)
(***************************************************************************)
LEMMA FirstFrame ==
  ASSUME hdma = HdmaReset
  PROVE  HdmaAligned
<1>1. 0 \in 0..(LinesPerFrame - 1) /\ 0 <= ShortLine /\ 0 * NormalLineCycles = 0
  BY RasterIs, RasterAssumption
<1>2. DotBegins(0, 0, 0) /\ BeamAt(0).field = FALSE
  BY <1>1, LinesAtFirst
<1> QED
  BY <1>2 DEF HdmaAligned, HdmaReset, IsFrameStart

(***************************************************************************)
(* After a line HDMA is in the same frame, or in the next.                 *)
(***************************************************************************)
LEMMA TransferStaysAligned ==
  ASSUME HdmaTyped, HdmaAligned, NEW active, hdma' = AfterHdmaLine(active)
  PROVE  HdmaAligned'
<1>1. hdma.base \in Nat /\ hdma.field \in BOOLEAN
  BY DEF HdmaTyped
<1>2. CASE hdma.v >= HdmaLastVisibleV
  <2>1. MasterCycleAt(0, LinesPerFrame, hdma.base, hdma.field) = hdma.base + FrameCycles(hdma.field)
    BY <1>1, FramesAre
  <2>2. hdma'.base = hdma.base + FrameCycles(hdma.field) /\ hdma'.field = ~hdma.field
    BY <1>2, <2>1 DEF AfterHdmaLine
  <2>3. 0 \in 0..(LinesPerFrame - 1) /\ 0 <= ShortLine
    BY RasterAssumption
  <2>4. DotBegins(0, 0, hdma.base) /\ BeamAt(hdma.base).field = hdma.field
    BY DEF HdmaAligned, IsFrameStart
  <2>5. DotBegins(0, 0, hdma'.base) /\ BeamAt(hdma'.base).field = ~hdma.field
    BY <1>1, <2>2, <2>3, <2>4, LineReturns
  <2> QED
    BY <2>2, <2>5, Zenon DEF HdmaAligned, IsFrameStart
<1>3. CASE ~(hdma.v >= HdmaLastVisibleV)
  <2>1. hdma'.base = hdma.base /\ hdma'.field = hdma.field
    BY <1>3 DEF AfterHdmaLine, HdmaTyped
  <2> QED
    BY <2>1 DEF HdmaAligned
<1> QED
  BY <1>2, <1>3

(***************************************************************************)
(* No handler takes HDMA off its frame.                                    *)
(***************************************************************************)
LEMMA FireStaysAligned ==
  ASSUME QueueInv, HdmaAligned, Fire
  PROVE  HdmaAligned'
<1>1. HdmaTyped
  BY DEF QueueInv, Types
<1>2. ASSUME NEW e \in queue, FireHdmaInit(e)
      PROVE  HdmaAligned'
  <2>1. hdma'.base = hdma.base /\ hdma'.field = hdma.field
    BY <1>1, <1>2 DEF FireHdmaInit, HdmaTyped
  <2> QED
    BY <2>1 DEF HdmaAligned
<1>3. ASSUME NEW e \in queue, FireHdmaLine(e)
      PROVE  HdmaAligned'
  <2>1. \E active : hdma' = AfterHdmaLine(active)
    BY <1>3, Zenon DEF FireHdmaLine
  <2> QED
    BY <1>1, <2>1, TransferStaysAligned
<1>4. ASSUME NEW e \in queue,
             FireFrameEnd(e) \/ FireVblank(e) \/ FireJoypad(e) \/ FireIrqMatch(e)
      PROVE  HdmaAligned'
  BY <1>4 DEF FireFrameEnd, FireVblank, FireJoypad, FireIrqMatch, HdmaAligned
<1> QED
  BY <1>2, <1>3, <1>4 DEF Fire

(***************************************************************************)
(* For every program, channel and length of a burst, the frame that HDMA   *)
(* works on starts with a frame of the beam and has its field: the         *)
(* controller counts frames on its own, and never asks the PPU.            *)
(***************************************************************************)
THEOREM HdmaKeepsItsFrame == Spec => []HdmaAligned
<1>1. Init => HdmaAligned
  BY FirstFrame DEF Init
<1>2. QueueInv /\ HdmaAligned /\ [Next]_vars => HdmaAligned'
  <2> SUFFICES ASSUME QueueInv, HdmaAligned, [Next]_vars
               PROVE  HdmaAligned'
    OBVIOUS
  <2>1. CASE UNCHANGED hdma
    BY <2>1 DEF HdmaAligned
  <2>2. CASE Reset
    <3>1. (hdma = HdmaReset => HdmaAligned)'
      BY FirstFrame, PTL
    <3>2. (hdma = HdmaReset)'
      BY <2>2 DEF Reset
    <3> QED
      BY <3>1, <3>2
  <2>3. CASE Fire
    BY <2>3, FireStaysAligned
  <2>4. CASE UNCHANGED vars \/ Quiet \/ Returns \/ Programs \/ EndDrain
    BY <2>1, <2>4 DEF vars, device, Quiet, Returns, Programs, EndDrain
  <2> QED
    BY <2>2, <2>3, <2>4, StepsAre DEF QueueInv
<1> QED
  BY <1>1, <1>2, QueueInvHolds, PTL DEF Spec

(***************************************************************************)
(* A queue keeps its fences when those that join it are on their lines.    *)
(***************************************************************************)
OnTheBeam(kind, t) ==
  /\ kind = FrameEnd => IsFrameStart(t)
  /\ kind = VblankNmiBoundary => DotBegins(0, VblankLine, t)

FencesHold == \A e \in queue : OnTheBeam(e.kind, e.time)

(***************************************************************************)
(* Requests on the beam join fences on the beam.                           *)
(***************************************************************************)
LEMMA FencesJoin ==
  ASSUME EventsTyped, FencesHold, NEW q \in SUBSET queue,
         NEW reqs \in Seq(SignalRequest),
         \A i \in 1..Len(reqs) : OnTheBeam(reqs[i].kind, reqs[i].time),
         queue' = q \cup Scheduled(reqs, nextSeq)
  PROVE  FencesHold'
<1>1. nextSeq \in Nat
  BY DEF EventsTyped
<1>2. ASSUME NEW e \in Scheduled(reqs, nextSeq)
      PROVE  OnTheBeam(e.kind, e.time)
  <2>1. PICK i \in 1..Len(reqs) : e.time = reqs[i].time /\ e.kind = reqs[i].kind
    BY <1>1, NewEvents
  <2> QED
    BY <2>1
<1> QED
  BY <1>2 DEF FencesHold

(***************************************************************************)
(* Signals of other kinds are no fences.                                   *)
(***************************************************************************)
LEMMA OthersJoin ==
  ASSUME EventsTyped, FencesHold, NEW q \in SUBSET queue, NEW t, NEW kinds, Pushes(q, t, kinds),
         FrameEnd \notin kinds, VblankNmiBoundary \notin kinds
  PROVE  FencesHold'
<1>1. PICK reqs : Schedules(q, t, kinds, reqs)
  BY DEF Pushes
<1>2. ASSUME NEW i \in 1..Len(reqs)
      PROVE  OnTheBeam(reqs[i].kind, reqs[i].time)
  <2>1. i \in DOMAIN reqs
    BY <1>1 DEF Schedules
  <2>2. reqs[i].kind \in kinds
    BY <1>1, <2>1 DEF Schedules
  <2>3. reqs[i].kind # FrameEnd /\ reqs[i].kind # VblankNmiBoundary
    BY <2>2
  <2> QED
    BY <2>3 DEF OnTheBeam
<1> QED
  BY <1>1, <1>2, FencesJoin DEF Schedules

(***************************************************************************)
(* The fences of a reset are on the beam of the first frame.               *)
(***************************************************************************)
LEMMA FirstFences ==
  ASSUME queue = Scheduled(FirstSignals, 0)
  PROVE  FencesHold
<1>1. VblankLine \in 0..(LinesPerFrame - 1) /\ 0 \in 0..(LinesPerFrame - 1)
      /\ 0 <= ShortLine /\ VblankLine <= ShortLine
  BY MachineAssumption, FenceAssumption, RasterAssumption
<1>2. DotBegins(0, VblankLine, VblankLine * NormalLineCycles)
  BY <1>1, LinesAtFirst
<1>3. DotBegins(0, 0, NextFramePeriod(0))
  <2>1. PICK field \in BOOLEAN : field = FALSE
    OBVIOUS
  <2>2. 0 * NormalLineCycles = 0
    BY RasterIs
  <2>3. DotBegins(0, 0, 0) /\ BeamAt(0).field = field
    BY <1>1, <2>1, <2>2, LinesAtFirst
  <2>4. NextFramePeriod(0) = FrameCycles(field) /\ FrameCycles(field) \in Nat
    BY <2>3, PeriodIs, FramesAre
  <2>5. NextFramePeriod(0) = 0 + FrameCycles(BeamAt(0).field)
    BY <2>3, <2>4
  <2> QED
    BY <1>1, <2>3, <2>5, LineReturns
<1>4. /\ FirstSignals \in Seq(SignalRequest) /\ Len(FirstSignals) = 3
      /\ FirstSignals[1].kind = HdmaFire
      /\ FirstSignals[2].kind = FrameEnd /\ FirstSignals[2].time = NextFramePeriod(0)
      /\ FirstSignals[3].kind = VblankNmiBoundary
      /\ FirstSignals[3].time = VblankLine * NormalLineCycles
  BY FirstSignalsAre DEF FirstSignals
<1>5. ASSUME NEW e \in queue
      PROVE  \E i \in 1..3 : e.time = FirstSignals[i].time /\ e.kind = FirstSignals[i].kind
  <2>1. FirstSignals \in Seq(SignalRequest) /\ Len(FirstSignals) = 3
    BY FirstSignalsAre
  <2> QED
    BY <2>1, NewEvents
<1>6. ASSUME NEW i \in 1..3
      PROVE  OnTheBeam(FirstSignals[i].kind, FirstSignals[i].time)
  <2>1. CASE i = 1
    BY <1>4, <2>1, KindsAre DEF OnTheBeam
  <2>2. CASE i = 2
    BY <1>3, <1>4, <2>2, KindsAre DEF OnTheBeam, IsFrameStart
  <2>3. CASE i = 3
    BY <1>2, <1>4, <2>3, KindsAre DEF OnTheBeam
  <2> QED
    BY <2>1, <2>2, <2>3
<1> QED
  BY <1>5, <1>6 DEF FencesHold

(***************************************************************************)
(* A drain is in time when the PPU is still in the frame of every fence    *)
(* that is due, or at least in one of the same field: no DMA burst has     *)
(* carried it into the next frame before the fence is handled.             *)
(***************************************************************************)
InTime ==
  at = "drain" =>
    \A e \in queue :
      e.kind \in {FrameEnd, VblankNmiBoundary} /\ e.time <= through =>
        BeamAt(ppu).field = BeamAt(e.time).field

(***************************************************************************)
(* A fence that is handled in time is set again for the same line of the   *)
(* next frame.                                                             *)
(***************************************************************************)
LEMMA FenceReturns ==
  ASSUME Types, FencesHold, InTime, NEW e \in queue, Firing(e),
         e.kind \in {FrameEnd, VblankNmiBoundary}
  PROVE  OnTheBeam(e.kind, e.time + NextFramePeriod(ppu))
<1>1. e.time \in Nat /\ ppu \in Nat
  BY DEF Types, EventsTyped, SignalEvent, DeviceTyped
<1>2. BeamAt(ppu).field = BeamAt(e.time).field
  BY DEF Firing, InTime
<1>3. PICK field \in BOOLEAN : field = BeamAt(e.time).field
  BY <1>1, BeamHasField
<1>4. NextFramePeriod(ppu) = FrameCycles(field)
  BY <1>2, <1>3, PeriodIs
<1> DEFINE next == e.time + NextFramePeriod(ppu)
<1>5. next = e.time + FrameCycles(BeamAt(e.time).field)
  BY <1>3, <1>4
<1> HIDE DEF next
<1>6. ASSUME NEW v \in 0..(LinesPerFrame - 1), v <= ShortLine, DotBegins(0, v, e.time)
      PROVE  DotBegins(0, v, next)
  BY <1>1, <1>5, <1>6, LineReturns
<1>7. VblankLine \in 0..(LinesPerFrame - 1) /\ 0 \in 0..(LinesPerFrame - 1)
      /\ 0 <= ShortLine /\ VblankLine <= ShortLine
  BY MachineAssumption, FenceAssumption, RasterAssumption
<1>8. OnTheBeam(e.kind, e.time)
  BY DEF FencesHold
<1>9. CASE e.kind = FrameEnd
  <2>1. DotBegins(0, 0, next)
    BY <1>6, <1>7, <1>8, <1>9 DEF OnTheBeam, IsFrameStart
  <2> QED
    BY <1>9, <2>1, KindsAre DEF OnTheBeam, IsFrameStart, next
<1>10. CASE e.kind = VblankNmiBoundary
  <2>1. DotBegins(0, VblankLine, next)
    BY <1>6, <1>7, <1>8, <1>10 DEF OnTheBeam
  <2> QED
    BY <1>10, <2>1, KindsAre DEF OnTheBeam, next
<1> QED
  BY <1>9, <1>10

(***************************************************************************)
(* So every handler keeps the fences on the beam.                          *)
(***************************************************************************)
LEMMA FireKeepsFences ==
  ASSUME QueueInv, FencesHold, InTime, Fire
  PROVE  FencesHold'
<1>1. Types /\ EventsTyped /\ DeviceTyped
  BY DEF QueueInv, Types
<1>2. ASSUME NEW e \in queue, NEW s, NEW kind \in SignalKind, s \in Nat, OnTheBeam(kind, s),
             Timer!Push(queue \ {e}, <<[time |-> s, kind |-> kind]>>)
      PROVE  FencesHold'
  <2> DEFINE reqs == <<[time |-> s, kind |-> kind]>>
  <2>1. /\ reqs \in Seq(SignalRequest) /\ Len(reqs) = 1
        /\ reqs[1].time = s /\ reqs[1].kind = kind
    BY <1>2 DEF SignalRequest
  <2>2. queue' = (queue \ {e}) \cup Scheduled(reqs, nextSeq)
    BY <1>2, PushIs
  <2> HIDE DEF reqs
  <2>3. \A i \in 1..Len(reqs) : OnTheBeam(reqs[i].kind, reqs[i].time)
    BY <1>2, <2>1
  <2>4. queue \ {e} \in SUBSET queue
    OBVIOUS
  <2> QED
    BY <1>1, <2>1, <2>2, <2>3, <2>4, FencesJoin
<1>3. ASSUME NEW e \in queue, FireFrameEnd(e)
      PROVE  FencesHold'
  <2>1. /\ Firing(e) /\ e.kind = FrameEnd
        /\ Timer!Push(queue \ {e}, <<[time |-> e.time + NextFramePeriod(ppu), kind |-> FrameEnd]>>)
    BY <1>3 DEF FireFrameEnd
  <2>2. OnTheBeam(FrameEnd, e.time + NextFramePeriod(ppu))
    BY <1>1, <2>1, FenceReturns
  <2>3. e.time + NextFramePeriod(ppu) \in Nat /\ FrameEnd \in SignalKind
    BY <1>1, PeriodsAre, KindsAre DEF EventsTyped, SignalEvent
  <2> QED
    BY <1>2, <2>1, <2>2, <2>3
<1>4. ASSUME NEW e \in queue, FireVblank(e)
      PROVE  FencesHold'
  <2> DEFINE next == e.time + NextFramePeriod(ppu)
             reqs == << [time |-> joyStart', kind |-> AutoJoypadStart],
                        [time |-> next, kind |-> VblankNmiBoundary] >>
  <2>1. /\ Firing(e) /\ e.kind = VblankNmiBoundary /\ joyStart' = AutoReadStart(e.time)
        /\ Timer!Push(queue \ {e}, reqs)
    BY <1>4 DEF FireVblank
  <2>2. OnTheBeam(VblankNmiBoundary, next)
    BY <1>1, <2>1, FenceReturns
  <2>3. next \in Nat /\ e.time \in Nat
    BY <1>1, PeriodsAre DEF EventsTyped, SignalEvent
  <2>4. joyStart' \in Nat
    BY <1>1, <2>1, <2>3, AutoReadIsLater DEF DeviceTyped
  <2> HIDE DEF next
  <2>5. /\ reqs \in Seq(SignalRequest) /\ Len(reqs) = 2
        /\ reqs[1].kind = AutoJoypadStart
        /\ reqs[2].time = next /\ reqs[2].kind = VblankNmiBoundary
    BY <2>3, <2>4, KindsAre DEF SignalRequest
  <2>6. queue' = (queue \ {e}) \cup Scheduled(reqs, nextSeq)
    BY <2>1, PushIs
  <2> HIDE DEF reqs
  <2>7. OnTheBeam(reqs[1].kind, reqs[1].time)
    BY <2>5, KindsAre DEF OnTheBeam
  <2>8. \A i \in 1..Len(reqs) : OnTheBeam(reqs[i].kind, reqs[i].time)
    <3>1. \A i \in 1..Len(reqs) : i = 1 \/ i = 2
      BY <2>5
    <3> QED
      BY <2>2, <2>5, <2>7, <3>1
  <2>9. queue \ {e} \in SUBSET queue
    OBVIOUS
  <2> QED
    BY <1>1, <2>5, <2>6, <2>8, <2>9, FencesJoin
<1>5. ASSUME NEW e \in queue, FireJoypad(e)
      PROVE  FencesHold'
  <2>1. queue' = (queue \ {e}) \cup Scheduled(<<>>, nextSeq)
    BY <1>5, PushIs DEF FireJoypad
  <2>2. Scheduled(<<>>, nextSeq) = {}
    BY DEF Scheduled
  <2> QED
    BY <2>1, <2>2 DEF FencesHold
<1>6. ASSUME NEW e \in queue, FireIrqMatch(e)
      PROVE  FencesHold'
  <2>1. TimerTyped /\ e \in SignalEvent /\ ppu \in Nat /\ Timer!OnIrqMatch(e, ppu)
    BY <1>1, <1>6 DEF FireIrqMatch, QueueInv, Types, EventsTyped, DeviceTyped
  <2>2. Pushes(queue \ {e}, e.time, {HIrqMatch})
    BY <2>1, MatchTyped
  <2>3. queue \ {e} \in SUBSET queue /\ FrameEnd \notin {HIrqMatch} /\ VblankNmiBoundary \notin {HIrqMatch}
    BY KindsAre
  <2> QED
    BY <1>1, <2>2, <2>3, OthersJoin
<1>7. ASSUME NEW e \in queue, FireHdmaInit(e) \/ FireHdmaLine(e)
      PROVE  FencesHold'
  <2>1. HdmaTyped /\ HdmaTyped' /\ HdmaInitAt \in Nat /\ HdmaLineAt \in Nat /\ NormalLineCycles \in Nat
    BY <1>1, <1>7, HdmaInitKeeps, HdmaLineKeeps, MachineAssumption, RasterIs DEF QueueInv, Types
  <2>2. hdma.base \in Nat /\ hdma'.base \in Nat /\ hdma'.v \in Nat
    BY <2>1 DEF HdmaTyped
  <2>3. hdma'.v * NormalLineCycles \in Nat
    BY <2>1, <2>2
  <2>4. PICK s \in Nat : Timer!Push(queue \ {e}, <<[time |-> s, kind |-> HdmaFire]>>)
    <3>1. CASE FireHdmaInit(e)
      <4>1. Timer!Push(queue \ {e}, <<[time |-> hdma.base + HdmaLineAt, kind |-> HdmaFire]>>)
        BY <3>1 DEF FireHdmaInit
      <4> QED
        BY <2>1, <2>2, <4>1
    <3>2. CASE FireHdmaLine(e)
      <4> DEFINE s == IF hdma'.phase = "init" THEN hdma'.base + HdmaInitAt
                      ELSE hdma'.base + hdma'.v * NormalLineCycles + HdmaLineAt
      <4>1. Timer!Push(queue \ {e}, <<[kind |-> HdmaFire, time |-> s]>>)
        BY <3>2 DEF FireHdmaLine
      <4>2. s \in Nat
        BY <2>1, <2>2, <2>3
      <4> HIDE DEF s
      <4>3. [kind |-> HdmaFire, time |-> s] = [time |-> s, kind |-> HdmaFire]
        OBVIOUS
      <4> QED
        BY <4>1, <4>2, <4>3
    <3> QED
      BY <1>7, <3>1, <3>2
  <2>5. HdmaFire \in SignalKind /\ OnTheBeam(HdmaFire, s)
    BY KindsAre DEF OnTheBeam
  <2> QED
    BY <1>2, <2>4, <2>5
<1> QED
  BY <1>3, <1>4, <1>5, <1>6, <1>7 DEF Fire

(***************************************************************************)
(* For every program and raster, and for as long as drains are in time,    *)
(* the fences stay on the beam: however often they reschedule themselves,  *)
(* and whatever resets, stalls, refreshes and writes come between, the     *)
(* frame-end event is at a frame's first dot and the VBlank event at the   *)
(* first dot of its line.                                                  *)
(***************************************************************************)
THEOREM FencesStayAligned == Spec /\ []InTime => []FencesAligned
<1>1. Init => FencesHold
  BY FirstFences DEF Init
<1>2. QueueInv /\ InTime /\ FencesHold /\ [Next]_vars => FencesHold'
  <2> SUFFICES ASSUME QueueInv, InTime, FencesHold, [Next]_vars
               PROVE  FencesHold'
    OBVIOUS
  <2>1. CASE UNCHANGED queue
    BY <2>1 DEF FencesHold
  <2>2. CASE Reset
    <3>1. (queue = Scheduled(FirstSignals, 0) => FencesHold)'
      BY FirstFences, PTL
    <3>2. (queue = Scheduled(FirstSignals, 0))'
      BY <2>2 DEF Reset
    <3> QED
      BY <3>1, <3>2
  <2>3. CASE Fire
    BY <2>3, FireKeepsFences
  <2>4. CASE UNCHANGED vars \/ Quiet \/ Returns \/ EndDrain
    BY <2>1, <2>4 DEF vars, events, Quiet, Returns, EndDrain
  <2>5. CASE Programs
    <3>1. EventsTyped /\ queue \in SUBSET queue
      BY DEF QueueInv, Types
    <3>2. FrameEnd \notin {HIrqMatch} /\ VblankNmiBoundary \notin {HIrqMatch}
      BY KindsAre
    <3> QED
      BY <2>5, <3>1, <3>2, OthersJoin DEF Programs
  <2> QED
    BY <2>2, <2>3, <2>4, <2>5, StepsAre DEF QueueInv
<1>3. FencesHold /\ HdmaAligned => FencesAligned
  BY DEF FencesHold, HdmaAligned, OnTheBeam, FencesAligned
<1> QED
  BY <1>1, <1>2, <1>3, QueueInvHolds, HdmaKeepsItsFrame, PTL DEF Spec
=============================================================================
