--------------------------- MODULE CpuMmioProofs ---------------------------
(***************************************************************************)
(* The two machines of CpuMmio.  What the H/V timer computes is proved for *)
(* every raster (any number of lines and dots, any long dots, any short    *)
(* line), every HTIME and VTIME and every cursor: first the raster alone,  *)
(* with the beam in exactly one dot at every time, then the walk of        *)
(* ComputeNextMatch.  The timer at work is in MachineProofs.  The          *)
(* multiplier and divider, last, are proved for every width of a byte, all *)
(* operands and triggers and writes between any two steps.                 *)
(***************************************************************************)
EXTENDS HvTimer, MathUnit, NaturalFacts, FiniteSetTheorems

-----------------------------------------------------------------------------
(***************************************************************************)
(* What the loops of MasterCycleAt add up.                                 *)
(***************************************************************************)
LEMMA SumUnfolds ==
  ASSUME NEW cost \in [Nat -> Nat]
  PROVE  /\ SumBelow(cost) \in [Nat -> Nat]
         /\ SumBelow(cost)[0] = 0
         /\ \A n \in Nat : SumBelow(cost)[n + 1] = SumBelow(cost)[n] + cost[n]
<1> DEFINE step == [pair \in Nat \X Nat |-> pair[1] + cost[pair[2]]]
           Sums(f) == f = [n \in Nat |-> IF n = 0 THEN 0 ELSE f[n - 1] + cost[n - 1]]
<1>1. \E f : Sums(f)
  <2>1. step \in [Nat \X Nat -> Nat] /\ \A a, n \in Nat : step[<<a, n>>] = a + cost[n]
    OBVIOUS
  <2> HIDE DEF step
  <2>2. PICK f \in [Nat -> Nat] : Unfolds(f, 0, step)
    BY <2>1, Recursion
  <2>3. ASSUME NEW n \in Nat
        PROVE  f[n] = IF n = 0 THEN 0 ELSE f[n - 1] + cost[n - 1]
    <3>1. CASE n = 0
      BY <2>2, <3>1 DEF Unfolds
    <3>2. CASE n # 0
      <4>1. PICK m \in Nat : n = m + 1 /\ n - 1 = m
        BY <3>2
      <4>2. f[m + 1] = step[<<f[m], m>>] /\ f[m] \in Nat
        BY <2>2 DEF Unfolds
      <4> QED
        BY <2>1, <3>2, <4>1, <4>2
    <3> QED
      BY <3>1, <3>2
  <2>4. Sums(f)
    BY <2>3
  <2> QED
    BY <2>4
<1>2. PICK s : s = SumBelow(cost) /\ Sums(s)
  BY <1>1 DEF SumBelow
<1>3. s[0] = 0
  BY <1>2
<1>4. ASSUME NEW n \in Nat
      PROVE  s[n + 1] = s[n] + cost[n]
  <2>1. n + 1 \in Nat /\ n + 1 # 0 /\ (n + 1) - 1 = n
    OBVIOUS
  <2> QED
    BY <1>2, <2>1
<1>5. \A n \in Nat : s[n] \in Nat
  <2> DEFINE Good == {n \in Nat : s[n] \in Nat}
  <2>1. 0 \in Good
    BY <1>3
  <2>2. \A n \in Nat : n \in Good => n + 1 \in Good
    BY <1>4
  <2>3. Nat \subseteq Good
    <3> HIDE DEF Good
    <3> QED
      BY <2>1, <2>2, NaturalInduction
  <2> QED
    BY <2>3
<1>6. s \in [Nat -> Nat]
  BY <1>2, <1>5
<1> HIDE DEF Sums
<1> QED
  BY <1>2, <1>3, <1>4, <1>6

(***************************************************************************)
(* The sums never decrease: a later line, or dot, never starts earlier.    *)
(***************************************************************************)
LEMMA SumGrows ==
  ASSUME NEW cost \in [Nat -> Nat], NEW m \in Nat, NEW n \in Nat, m <= n
  PROVE  SumBelow(cost)[m] <= SumBelow(cost)[n]
<1> DEFINE Above == {d \in Nat : SumBelow(cost)[m] <= SumBelow(cost)[m + d]}
<1>1. 0 \in Above
  BY SumUnfolds
<1>2. ASSUME NEW d \in Nat, d \in Above
      PROVE  d + 1 \in Above
  <2>1. SumBelow(cost)[m + (d + 1)] = SumBelow(cost)[m + d] + cost[m + d]
    BY SumUnfolds
  <2>2. SumBelow(cost)[m] \in Nat /\ SumBelow(cost)[m + d] \in Nat /\ cost[m + d] \in Nat
    BY SumUnfolds
  <2> QED
    BY <1>2, <2>1, <2>2
<1>3. Nat \subseteq Above
  <2> HIDE DEF Above
  <2> QED
    BY <1>1, <1>2, NaturalInduction
<1>4. n - m \in Nat /\ m + (n - m) = n
  OBVIOUS
<1> QED
  BY <1>3, <1>4

(***************************************************************************)
(* A number below the sum of the first n costs lies within one of them.    *)
(***************************************************************************)
LEMMA SumHasPlace ==
  ASSUME NEW cost \in [Nat -> Nat], NEW n \in Nat, NEW x \in Nat, x < SumBelow(cost)[n]
  PROVE  \E i \in 0..(n - 1) :
           SumBelow(cost)[i] <= x /\ x < SumBelow(cost)[i] + cost[i]
<1> DEFINE Past == {k \in Nat : x < SumBelow(cost)[k]}
<1>1. PICK m \in Past : \A k \in Past : m <= k
  <2>1. Past \in SUBSET Nat /\ Past # {}
    OBVIOUS
  <2> HIDE DEF Past
  <2> QED
    BY <2>1, LeastNatural
<1>2. m <= n /\ m # 0
  BY <1>1, SumUnfolds
<1>3. PICK i \in Nat : m = i + 1 /\ i \in 0..(n - 1)
  BY <1>2
<1>4. ~(x < SumBelow(cost)[i])
  BY <1>1, <1>3
<1>5. SumBelow(cost)[i + 1] = SumBelow(cost)[i] + cost[i] /\ SumBelow(cost)[i] \in Nat
  BY SumUnfolds
<1> QED
  BY <1>1, <1>3, <1>4, <1>5

(***************************************************************************)
(* Pieces of a sum do not overlap: a number belongs to at most one.        *)
(***************************************************************************)
LEMMA SumHasOnePlace ==
  ASSUME NEW cost \in [Nat -> Nat], NEW i \in Nat, NEW j \in Nat, NEW x \in Nat,
         SumBelow(cost)[i] <= x, x < SumBelow(cost)[i] + cost[i],
         SumBelow(cost)[j] <= x, x < SumBelow(cost)[j] + cost[j]
  PROVE  i = j
<1>1. ASSUME NEW a \in Nat, NEW b \in Nat, a < b,
             x < SumBelow(cost)[a] + cost[a], SumBelow(cost)[b] <= x
      PROVE  FALSE
  <2>1. SumBelow(cost)[a + 1] = SumBelow(cost)[a] + cost[a]
    BY SumUnfolds
  <2>2. a + 1 \in Nat /\ a + 1 <= b
    BY <1>1
  <2>3. SumBelow(cost)[a + 1] <= SumBelow(cost)[b]
    BY <2>2, SumGrows
  <2>4. SumBelow(cost)[a + 1] \in Nat /\ SumBelow(cost)[b] \in Nat
    BY <2>2, SumUnfolds
  <2> QED
    BY <1>1, <2>1, <2>3, <2>4
<1> QED
  BY <1>1
-----------------------------------------------------------------------------
(***************************************************************************)
(* There are finitely many long dots.                                      *)
(***************************************************************************)
LEMMA LongDotsCount == Cardinality(LongDots) \in Nat
<1>1. DotsPerLine \in Nat \ {0} /\ LongDots \subseteq 0..(DotsPerLine - 1)
  BY RasterAssumption
<1>2. IsFiniteSet(0..(DotsPerLine - 1))
  <2>1. 0 \in Int /\ DotsPerLine - 1 \in Int
    BY <1>1
  <2> QED
    BY <2>1, FS_Interval
<1>3. IsFiniteSet(LongDots)
  BY <1>1, <1>2, FS_Subset
<1> QED
  BY <1>3, FS_CardinalityType

(***************************************************************************)
(* Dots, lines and frames take time.                                       *)
(***************************************************************************)
LEMMA CostsAreNatural ==
  /\ NormalLineCycles \in Nat \ {0}
  /\ \A h, v \in Nat, field \in BOOLEAN :
       DotCost(h, v, field) \in Nat \ {0} /\ DotCost(h, v, field) <= LongDotCycles
  /\ \A v \in Nat, field \in BOOLEAN : LineCycles(v, field) \in Nat \ {0}
<1>1. /\ DotsPerLine \in Nat \ {0} /\ DotCycles \in Nat \ {0} /\ LongDotCycles \in Nat
      /\ LongDotCycles >= DotCycles /\ LongDots \subseteq 0..(DotsPerLine - 1)
  BY RasterAssumption
<1>2. Cardinality(LongDots) \in Nat
  BY LongDotsCount
<1>3. PICK extra \in Nat : extra = LongDotCycles - DotCycles
  BY <1>1
<1>4. DotsPerLine * DotCycles \in Nat \ {0}
  <2>1. ASSUME NEW a \in Nat, NEW b \in Nat, a # 0, b # 0
        PROVE  a * b \in Nat \ {0}
    BY <2>1
  <2> QED
    BY <1>1, <2>1
<1>5. Cardinality(LongDots) * extra \in Nat
  BY <1>2
<1>6. NormalLineCycles \in Nat \ {0}
  BY <1>3, <1>4, <1>5 DEF NormalLineCycles
<1> QED
  BY <1>1, <1>4, <1>6 DEF DotCost, LineCycles

(***************************************************************************)
(* Where a line starts in its frame, one line at a time (the loop over     *)
(* lines of MasterCycleAt).                                                *)
(***************************************************************************)
LEMMA LineStarts ==
  ASSUME NEW field \in BOOLEAN
  PROVE  /\ LineStart(field) \in [Nat -> Nat]
         /\ LineStart(field)[0] = 0
         /\ \A v \in Nat : LineStart(field)[v + 1] = LineStart(field)[v] + LineCycles(v, field)
<1> DEFINE cost == [v \in Nat |-> LineCycles(v, field)]
<1>1. cost \in [Nat -> Nat] /\ \A v \in Nat : cost[v] = LineCycles(v, field)
  BY CostsAreNatural
<1>2. LineStart(field) = SumBelow(cost)
  BY DEF LineStart
<1> HIDE DEF cost
<1> QED
  BY <1>1, <1>2, SumUnfolds

(***************************************************************************)
(* Where a dot starts in its line, one dot at a time (the loop over dots   *)
(* of MasterCycleAt).                                                      *)
(***************************************************************************)
LEMMA DotStarts ==
  ASSUME NEW v \in Nat, NEW field \in BOOLEAN
  PROVE  /\ DotStart(v, field) \in [Nat -> Nat]
         /\ DotStart(v, field)[0] = 0
         /\ \A h \in Nat :
              DotStart(v, field)[h + 1] = DotStart(v, field)[h] + DotCost(h, v, field)
<1> DEFINE cost == [h \in Nat |-> DotCost(h, v, field)]
<1>1. cost \in [Nat -> Nat] /\ \A h \in Nat : cost[h] = DotCost(h, v, field)
  BY CostsAreNatural
<1>2. DotStart(v, field) = SumBelow(cost)
  BY DEF DotStart
<1> HIDE DEF cost
<1> QED
  BY <1>1, <1>2, SumUnfolds

(***************************************************************************)
(* The published length of a line (kNormalLineCycles, kShortLineCycles) is *)
(* the sum of its dots.                                                    *)
(***************************************************************************)
LEMMA LineIsItsDots ==
  ASSUME NEW v \in Nat, NEW field \in BOOLEAN
  PROVE  DotStart(v, field)[DotsPerLine] = LineCycles(v, field)
<1> DEFINE start == DotStart(v, field)
<1>1. /\ DotsPerLine \in Nat \ {0} /\ DotCycles \in Nat \ {0} /\ LongDotCycles \in Nat
      /\ LongDotCycles >= DotCycles /\ LongDots \subseteq 0..(DotsPerLine - 1)
  BY RasterAssumption
<1>2. /\ start \in [Nat -> Nat] /\ start[0] = 0
      /\ \A h \in Nat : start[h + 1] = start[h] + DotCost(h, v, field)
  BY DotStarts
<1> HIDE DEF start
<1>3. CASE IsShortLine(v, field)
  <2> DEFINE Good == {h \in Nat : start[h] = h * DotCycles}
  <2>1. 0 \in Good
    BY <1>1, <1>2
  <2>2. ASSUME NEW h \in Nat, h \in Good
        PROVE  h + 1 \in Good
    <3>1. start[h + 1] = h * DotCycles + DotCycles
      BY <1>2, <1>3, <2>2 DEF DotCost
    <3>2. (h + 1) * DotCycles = h * DotCycles + DotCycles
      BY <1>1
    <3> QED
      BY <3>1, <3>2
  <2>3. Nat \subseteq Good
    <3> HIDE DEF Good
    <3> QED
      BY <2>1, <2>2, NaturalInduction
  <2>4. start[DotsPerLine] = DotsPerLine * DotCycles
    BY <1>1, <2>3
  <2> QED
    BY <1>3, <2>4 DEF LineCycles, start
<1>4. CASE ~IsShortLine(v, field)
  <2> DEFINE Longs(h) == LongDots \cap 0..(h - 1)
             extra == LongDotCycles - DotCycles
             Good == {h \in Nat : start[h] = h * DotCycles + Cardinality(Longs(h)) * extra}
  <2>1. extra \in Nat
    BY <1>1
  <2>2. ASSUME NEW h \in Nat
        PROVE  /\ IsFiniteSet(Longs(h)) /\ Cardinality(Longs(h)) \in Nat
               /\ h \notin Longs(h)
               /\ Longs(h + 1) = IF h \in LongDots THEN Longs(h) \cup {h} ELSE Longs(h)
    <3>1. IsFiniteSet(Longs(h))
      <4>1. Longs(h) \in SUBSET (0..(h - 1)) /\ h - 1 \in Int /\ 0 \in Int
        OBVIOUS
      <4> QED
        BY <4>1, FS_Interval, FS_Subset
    <3>2. Cardinality(Longs(h)) \in Nat
      BY <3>1, FS_CardinalityType
    <3> QED
      BY <3>1, <3>2
  <2>3. 0 \in Good
    <3>1. Longs(0) = {}
      OBVIOUS
    <3>2. Cardinality(Longs(0)) = 0
      BY <3>1, FS_EmptySet
    <3> QED
      BY <1>1, <1>2, <2>1, <3>2
  <2>4. ASSUME NEW h \in Nat, h \in Good
        PROVE  h + 1 \in Good
    <3> PICK long \in Nat : long = Cardinality(Longs(h))
      BY <2>2
    <3>1. start[h + 1] = h * DotCycles + long * extra + DotCost(h, v, field)
      BY <1>2, <2>4
    <3>2. (h + 1) * DotCycles = h * DotCycles + DotCycles
      BY <1>1
    <3>3. CASE h \in LongDots
      <4>1. Cardinality(Longs(h + 1)) = long + 1
        BY <2>2, <3>3, FS_AddElement, ZenonT(40)
      <4>2. DotCost(h, v, field) = DotCycles + extra
        BY <1>1, <1>4, <3>3 DEF DotCost
      <4>3. (long + 1) * extra = long * extra + extra
        BY <2>1
      <4>4. start[h + 1] = (h + 1) * DotCycles + (long + 1) * extra
        <5>1. h * DotCycles \in Nat /\ long * extra \in Nat
          BY <1>1, <2>1
        <5> HIDE DEF extra
        <5> QED
          BY <1>1, <2>1, <3>1, <3>2, <4>2, <4>3, <5>1
      <4> HIDE DEF extra
      <4> QED
        BY <4>1, <4>4
    <3>4. CASE h \notin LongDots
      <4>1. Longs(h + 1) = Longs(h)
        BY <2>2, <3>4
      <4>2. DotCost(h, v, field) = DotCycles
        BY <3>4 DEF DotCost
      <4>3. start[h + 1] = (h + 1) * DotCycles + long * extra
        <5>1. h * DotCycles \in Nat /\ long * extra \in Nat
          BY <1>1, <2>1
        <5> HIDE DEF extra
        <5> QED
          BY <1>1, <3>1, <3>2, <4>2, <5>1
      <4>4. Cardinality(Longs(h + 1)) = long
        BY <4>1
      <4> HIDE DEF extra
      <4> QED
        BY <4>3, <4>4
    <3> QED
      BY <3>3, <3>4
  <2>5. Nat \subseteq Good
    <3> HIDE DEF Good
    <3> QED
      BY <2>3, <2>4, NaturalInduction
  <2>6. Longs(DotsPerLine) = LongDots
    BY <1>1
  <2>7. start[DotsPerLine] = DotsPerLine * DotCycles + Cardinality(Longs(DotsPerLine)) * extra
    BY <1>1, <2>5
  <2>8. start[DotsPerLine] = DotsPerLine * DotCycles + Cardinality(LongDots) * extra
    BY <2>6, <2>7
  <2> QED
    BY <1>4, <2>8 DEF LineCycles, NormalLineCycles, start
<1> QED
  BY <1>3, <1>4
-----------------------------------------------------------------------------
(***************************************************************************)
(* MasterCycleAt for the dots of a frame, and the length of a frame.       *)
(***************************************************************************)
Line == 0..(LinesPerFrame - 1)
Dot == 0..(DotsPerLine - 1)

(***************************************************************************)
(* The sizes of the raster, as a leaf of a proof needs them.               *)
(***************************************************************************)
LEMMA RasterSizes ==
  /\ LinesPerFrame \in Nat \ {0} /\ DotsPerLine \in Nat \ {0}
  /\ Line \subseteq Nat /\ Dot \subseteq Nat /\ 0 \in Line /\ 0 \in Dot
  BY RasterAssumption DEF Line, Dot

(***************************************************************************)
(* The offset MasterCycleAt returns is the start of the line plus the      *)
(* start of the dot within it.                                             *)
(***************************************************************************)
LEMMA Offsets ==
  ASSUME NEW field \in BOOLEAN, NEW v \in 0..LinesPerFrame, NEW h \in Dot
  PROVE  /\ DotOffset[field][v][h] = LineStart(field)[v] + DotStart(v, field)[h]
         /\ DotOffset[field][v][h] \in Nat
         /\ LineStart(field)[v] <= DotOffset[field][v][h]
<1>1. v \in Nat /\ h \in Nat
  BY RasterSizes
<1>2. DotOffset[field][v][h] = LineStart(field)[v] + DotStart(v, field)[h]
  BY DEF DotOffset, Dot
<1>3. LineStart(field)[v] \in Nat /\ DotStart(v, field)[h] \in Nat
  BY <1>1, LineStarts, DotStarts
<1> QED
  BY <1>2, <1>3

(***************************************************************************)
(* A frame is the sum of its lines and is not empty.                       *)
(***************************************************************************)
LEMMA FrameLength ==
  ASSUME NEW field \in BOOLEAN
  PROVE  /\ FrameCycles(field) = LineStart(field)[LinesPerFrame]
         /\ FrameCycles(field) \in Nat \ {0}
<1>1. LinesPerFrame \in 0..LinesPerFrame /\ 0 \in Dot /\ LinesPerFrame \in Nat \ {0}
  BY RasterSizes
<1>2. DotOffset[field][LinesPerFrame][0]
        = LineStart(field)[LinesPerFrame] + DotStart(LinesPerFrame, field)[0]
  BY <1>1, Offsets
<1>3. DotStart(LinesPerFrame, field)[0] = 0 /\ LineStart(field)[LinesPerFrame] \in Nat
  BY <1>1, LineStarts, DotStarts
<1>4. FrameCycles(field) = LineStart(field)[LinesPerFrame]
  BY <1>2, <1>3 DEF FrameCycles, MasterCycleAt
<1>5. PICK last \in Nat : LinesPerFrame = last + 1
  BY <1>1
<1>6. /\ LineStart(field)[last + 1] = LineStart(field)[last] + LineCycles(last, field)
      /\ LineStart(field)[last] \in Nat
  BY LineStarts
<1>7. LineCycles(last, field) \in Nat \ {0}
  BY CostsAreNatural
<1> QED
  BY <1>4, <1>5, <1>6, <1>7

(***************************************************************************)
(* Every cycle of a frame lies in exactly one of its dots.                 *)
(***************************************************************************)
InDot(field, h, v, partial, r) ==
  /\ h \in Dot /\ v \in Line /\ partial \in 0..(DotCost(h, v, field) - 1)
  /\ r = DotOffset[field][v][h] + partial

(***************************************************************************)
(* A cycle within a dot lies within its line.                              *)
(***************************************************************************)
LEMMA DotInLine ==
  ASSUME NEW field \in BOOLEAN, NEW v \in Line, NEW h \in Dot,
         NEW partial \in 0..(DotCost(h, v, field) - 1)
  PROVE  /\ partial \in Nat /\ DotCost(h, v, field) \in Nat /\ LineCycles(v, field) \in Nat
         /\ LineStart(field)[v] \in Nat /\ DotStart(v, field)[h] \in Nat
         /\ DotOffset[field][v][h] = LineStart(field)[v] + DotStart(v, field)[h]
         /\ DotStart(v, field)[h] + DotCost(h, v, field) <= LineCycles(v, field)
<1>1. v \in Nat /\ h \in Nat /\ v \in 0..LinesPerFrame /\ h + 1 \in Nat /\ h + 1 <= DotsPerLine
      /\ DotsPerLine \in Nat
  BY RasterSizes DEF Line, Dot
<1>2. DotCost(h, v, field) \in Nat /\ LineCycles(v, field) \in Nat
  BY <1>1, CostsAreNatural
<1>3. LineStart(field)[v] \in Nat /\ DotStart(v, field)[h] \in Nat
  BY <1>1, LineStarts, DotStarts
<1>4. DotStart(v, field)[h + 1] = DotStart(v, field)[h] + DotCost(h, v, field)
  BY <1>1, DotStarts
<1>5. DotStart(v, field)[h + 1] <= DotStart(v, field)[DotsPerLine]
  <2> DEFINE cost == [d \in Nat |-> DotCost(d, v, field)]
  <2>1. cost \in [Nat -> Nat]
    BY <1>1, CostsAreNatural
  <2>2. DotStart(v, field) = SumBelow(cost)
    BY DEF DotStart
  <2> HIDE DEF cost
  <2> QED
    BY <1>1, <2>1, <2>2, SumGrows
<1>6. DotOffset[field][v][h] = LineStart(field)[v] + DotStart(v, field)[h]
  BY <1>1, Offsets
<1>7. DotStart(v, field)[DotsPerLine] = LineCycles(v, field)
  BY <1>1, LineIsItsDots
<1> QED
  BY <1>2, <1>3, <1>4, <1>5, <1>6, <1>7

(***************************************************************************)
(* A cycle within a dot of a line lies within the frame.                   *)
(***************************************************************************)
LEMMA DotInFrame ==
  ASSUME NEW field \in BOOLEAN, NEW h, NEW v, NEW partial, NEW r,
         InDot(field, h, v, partial, r)
  PROVE  r \in 0..(FrameCycles(field) - 1)
<1>1. h \in Dot /\ v \in Line /\ partial \in 0..(DotCost(h, v, field) - 1)
      /\ r = DotOffset[field][v][h] + partial
  BY DEF InDot
<1>2. v \in Nat /\ v + 1 \in Nat /\ v + 1 <= LinesPerFrame /\ LinesPerFrame \in Nat
  BY <1>1, RasterSizes DEF Line
<1>3. LineStart(field)[v + 1] = LineStart(field)[v] + LineCycles(v, field)
  BY <1>2, LineStarts
<1>4. LineStart(field)[v + 1] <= LineStart(field)[LinesPerFrame]
  <2> DEFINE cost == [l \in Nat |-> LineCycles(l, field)]
  <2>1. cost \in [Nat -> Nat]
    BY CostsAreNatural
  <2>2. LineStart(field) = SumBelow(cost)
    BY DEF LineStart
  <2> HIDE DEF cost
  <2> QED
    BY <1>2, <2>1, <2>2, SumGrows
<1> QED
  BY <1>1, <1>3, <1>4, DotInLine, FrameLength

(***************************************************************************)
(* Every cycle of a frame lies in some dot of some line ...                *)
(***************************************************************************)
LEMMA FrameHasDot ==
  ASSUME NEW field \in BOOLEAN, NEW r \in 0..(FrameCycles(field) - 1)
  PROVE  \E h, v, partial : InDot(field, h, v, partial, r)
<1>1. r \in Nat /\ r < LineStart(field)[LinesPerFrame] /\ LinesPerFrame \in Nat
  BY FrameLength, RasterSizes
<1>2. PICK v \in Line : /\ LineStart(field)[v] <= r
                        /\ r < LineStart(field)[v] + LineCycles(v, field)
  <2> DEFINE cost == [l \in Nat |-> LineCycles(l, field)]
  <2>1. cost \in [Nat -> Nat] /\ \A l \in Nat : cost[l] = LineCycles(l, field)
    BY CostsAreNatural
  <2>2. LineStart(field) = SumBelow(cost)
    BY DEF LineStart
  <2> HIDE DEF cost
  <2>3. PICK v \in Line : /\ LineStart(field)[v] <= r
                          /\ r < LineStart(field)[v] + cost[v]
    BY <1>1, <2>1, <2>2, SumHasPlace DEF Line
  <2>4. v \in Nat
    BY RasterSizes
  <2> QED
    BY <2>1, <2>3, <2>4
<1>3. v \in Nat /\ LineStart(field)[v] \in Nat
  BY RasterSizes, LineStarts
<1>4. PICK rest \in Nat : rest = r - LineStart(field)[v]
  BY <1>1, <1>2, <1>3
<1>5. rest < DotStart(v, field)[DotsPerLine] /\ DotsPerLine \in Nat
  <2>1. LineCycles(v, field) \in Nat
    BY <1>3, CostsAreNatural
  <2>2. DotStart(v, field)[DotsPerLine] = LineCycles(v, field)
    BY <1>3, LineIsItsDots
  <2> QED
    BY <1>1, <1>2, <1>3, <1>4, <2>1, <2>2, RasterSizes
<1>6. PICK h \in Dot : /\ DotStart(v, field)[h] <= rest
                       /\ rest < DotStart(v, field)[h] + DotCost(h, v, field)
  <2> DEFINE cost == [d \in Nat |-> DotCost(d, v, field)]
  <2>1. cost \in [Nat -> Nat] /\ \A d \in Nat : cost[d] = DotCost(d, v, field)
    BY <1>3, CostsAreNatural
  <2>2. DotStart(v, field) = SumBelow(cost)
    BY DEF DotStart
  <2> HIDE DEF cost
  <2>3. PICK h \in Dot : /\ DotStart(v, field)[h] <= rest
                         /\ rest < DotStart(v, field)[h] + cost[h]
    BY <1>5, <2>1, <2>2, SumHasPlace DEF Dot
  <2>4. h \in Nat
    BY RasterSizes
  <2> QED
    BY <2>1, <2>3, <2>4
<1>7. /\ h \in Nat /\ DotStart(v, field)[h] \in Nat /\ DotCost(h, v, field) \in Nat
      /\ v \in 0..LinesPerFrame
  <2>1. h \in Nat /\ v \in 0..LinesPerFrame
    BY <1>3, RasterSizes DEF Line
  <2> QED
    BY <1>3, <2>1, DotStarts, CostsAreNatural
<1>8. PICK partial \in Nat : partial = rest - DotStart(v, field)[h]
  BY <1>6, <1>7
<1>9. partial \in 0..(DotCost(h, v, field) - 1)
  BY <1>6, <1>7, <1>8
<1>10. r = DotOffset[field][v][h] + partial
  BY <1>1, <1>3, <1>4, <1>7, <1>8, Offsets
<1>11. InDot(field, h, v, partial, r)
  BY <1>9, <1>10 DEF InDot
<1> QED
  BY <1>11

(***************************************************************************)
(* ... and in no other: dots neither leave gaps nor overlap, whatever the  *)
(* long dots and the short line cost.                                      *)
(***************************************************************************)
LEMMA FrameHasOneDot ==
  ASSUME NEW field \in BOOLEAN, NEW r,
         NEW h, NEW v, NEW partial, InDot(field, h, v, partial, r),
         NEW g, NEW w, NEW rest, InDot(field, g, w, rest, r)
  PROVE  h = g /\ v = w /\ partial = rest
<1>1. /\ h \in Dot /\ v \in Line /\ partial \in 0..(DotCost(h, v, field) - 1)
      /\ g \in Dot /\ w \in Line /\ rest \in 0..(DotCost(g, w, field) - 1)
      /\ r = DotOffset[field][v][h] + partial /\ r = DotOffset[field][w][g] + rest
  BY DEF InDot
<1>2. /\ partial \in Nat /\ DotCost(h, v, field) \in Nat /\ LineCycles(v, field) \in Nat
      /\ LineStart(field)[v] \in Nat /\ DotStart(v, field)[h] \in Nat
      /\ DotOffset[field][v][h] = LineStart(field)[v] + DotStart(v, field)[h]
      /\ DotStart(v, field)[h] + DotCost(h, v, field) <= LineCycles(v, field)
  BY <1>1, DotInLine
<1>3. /\ rest \in Nat /\ DotCost(g, w, field) \in Nat /\ LineCycles(w, field) \in Nat
      /\ LineStart(field)[w] \in Nat /\ DotStart(w, field)[g] \in Nat
      /\ DotOffset[field][w][g] = LineStart(field)[w] + DotStart(w, field)[g]
      /\ DotStart(w, field)[g] + DotCost(g, w, field) <= LineCycles(w, field)
  BY <1>1, DotInLine
<1>4. r \in Nat /\ v \in Nat /\ w \in Nat /\ h \in Nat /\ g \in Nat
  BY <1>1, <1>2, RasterSizes
<1>5. v = w
  <2> DEFINE cost == [l \in Nat |-> LineCycles(l, field)]
  <2>1. cost \in [Nat -> Nat] /\ \A l \in Nat : cost[l] = LineCycles(l, field)
    BY CostsAreNatural
  <2>2. LineStart(field) = SumBelow(cost)
    BY DEF LineStart
  <2> HIDE DEF cost
  <2>3. /\ LineStart(field)[v] <= r /\ r < LineStart(field)[v] + cost[v]
        /\ LineStart(field)[w] <= r /\ r < LineStart(field)[w] + cost[w]
    BY <1>1, <1>2, <1>3, <1>4, <2>1
  <2> QED
    BY <1>4, <2>1, <2>2, <2>3, SumHasOnePlace
<1>6. h = g
  <2> DEFINE cost == [d \in Nat |-> DotCost(d, v, field)]
  <2>1. cost \in [Nat -> Nat] /\ \A d \in Nat : cost[d] = DotCost(d, v, field)
    BY <1>4, CostsAreNatural
  <2>2. DotStart(v, field) = SumBelow(cost)
    BY DEF DotStart
  <2>3. PICK x \in Nat : x = r - LineStart(field)[v]
    BY <1>1, <1>2, <1>4
  <2> HIDE DEF cost
  <2>4. /\ DotStart(v, field)[h] <= x /\ x < DotStart(v, field)[h] + cost[h]
        /\ DotStart(v, field)[g] <= x /\ x < DotStart(v, field)[g] + cost[g]
    BY <1>1, <1>2, <1>3, <1>4, <1>5, <2>1, <2>3
  <2> QED
    BY <1>4, <2>1, <2>2, <2>4, SumHasOnePlace
<1> QED
  BY <1>1, <1>2, <1>3, <1>5, <1>6
-----------------------------------------------------------------------------
(***************************************************************************)
(* The beam.  At every time it is in exactly one dot: the cursor           *)
(* (h_, v_, field_, partial_dot_cycles_) is a function of local_time_.     *)
(***************************************************************************)
(***************************************************************************)
(* The two frames of a pair, without and with the short line.              *)
(***************************************************************************)
EvenFrame == FrameCycles(FALSE)
OddFrame == FrameCycles(TRUE)

FieldStart(field) == IF field THEN EvenFrame ELSE 0

(***************************************************************************)
(* An even and an odd frame make the period of the beam.                   *)
(***************************************************************************)
LEMMA TwoFramesAre ==
  /\ EvenFrame \in Nat \ {0} /\ OddFrame \in Nat \ {0}
  /\ TwoFrames = EvenFrame + OddFrame /\ TwoFrames \in Nat \ {0}
<1>1. EvenFrame \in Nat \ {0}
  BY FrameLength DEF EvenFrame
<1>2. OddFrame \in Nat \ {0}
  BY FrameLength DEF OddFrame
<1>3. TwoFrames = EvenFrame + OddFrame
  BY Zenon DEF TwoFrames, EvenFrame, OddFrame
<1> QED
  BY <1>1, <1>2, <1>3

(***************************************************************************)
(* Where each of the two frames starts within the period.                  *)
(***************************************************************************)
LEMMA FieldStarts ==
  /\ FieldStart(FALSE) = 0 /\ FieldStart(TRUE) = EvenFrame
  /\ \A field \in BOOLEAN : FieldStart(field) \in Nat
<1>1. FieldStart(FALSE) = 0 /\ FieldStart(TRUE) = EvenFrame
  BY Zenon DEF FieldStart
<1>2. FieldStart(TRUE) \in Nat /\ FieldStart(FALSE) \in Nat
  <2>1. EvenFrame \in Nat /\ 0 \in Nat
    BY TwoFramesAre
  <2> QED
    BY <1>1, <2>1, Zenon
<1>3. \A field \in BOOLEAN : field = TRUE \/ field = FALSE
  OBVIOUS
<1> QED
  BY <1>1, <1>2, <1>3, Zenon

IsBeam(b, r) ==
  /\ b \in Beam
  /\ r >= EvenFrame => b.field = TRUE
  /\ ~(r >= EvenFrame) => b.field = FALSE
  /\ FieldStart(b.field) + DotOffset[b.field][b.v][b.h] + b.partial = r
  /\ b.partial < DotCost(b.h, b.v, b.field)

(***************************************************************************)
(* Within the first period the beam table holds the position chosen by its *)
(* definition.                                                             *)
(***************************************************************************)
LEMMA BeamPhaseIs ==
  ASSUME NEW r \in 0..(TwoFrames - 1)
  PROVE  BeamPhase[r] = CHOOSE b : IsBeam(b, r)
<1> DEFINE field == r >= FrameCycles(FALSE)
           At(h, v) == MasterCycleAt(h, v, IF field THEN FrameCycles(FALSE) ELSE 0, field)
           Chosen(b) == /\ b.field = field
                        /\ At(b.h, b.v) + b.partial = r
                        /\ b.partial < DotCost(b.h, b.v, field)
<1>1. BeamPhase[r] = CHOOSE b \in Beam : Chosen(b)
  BY DEF BeamPhase
<1>2. ASSUME NEW b \in Beam
      PROVE  IsBeam(b, r) <=> Chosen(b)
  <2>1. CASE field
    <3>1. field = TRUE /\ r >= EvenFrame
      BY <2>1, Zenon DEF EvenFrame
    <3>2. Chosen(b) <=> /\ b.field = TRUE
                        /\ EvenFrame + DotOffset[TRUE][b.v][b.h] + b.partial = r
                        /\ b.partial < DotCost(b.h, b.v, TRUE)
      BY <3>1, Zenon DEF MasterCycleAt, EvenFrame
    <3>3. IsBeam(b, r) <=> /\ b.field = TRUE
                           /\ EvenFrame + DotOffset[TRUE][b.v][b.h] + b.partial = r
                           /\ b.partial < DotCost(b.h, b.v, TRUE)
      BY <3>1, FieldStarts, Zenon DEF IsBeam
    <3> QED
      BY <3>2, <3>3, Zenon
  <2>2. CASE ~field
    <3>1. field = FALSE /\ ~(r >= EvenFrame)
      <4>1. ~(r >= EvenFrame)
        BY <2>2, Zenon DEF EvenFrame
      <4>2. (r >= EvenFrame) = FALSE
        BY <4>1, TwoFramesAre
      <4> QED
        BY <4>1, <4>2, Zenon DEF EvenFrame
    <3>2. Chosen(b) <=> /\ b.field = FALSE
                        /\ 0 + DotOffset[FALSE][b.v][b.h] + b.partial = r
                        /\ b.partial < DotCost(b.h, b.v, FALSE)
      BY <3>1, Zenon DEF MasterCycleAt
    <3>3. IsBeam(b, r) <=> /\ b.field = FALSE
                           /\ 0 + DotOffset[FALSE][b.v][b.h] + b.partial = r
                           /\ b.partial < DotCost(b.h, b.v, FALSE)
      BY <3>1, FieldStarts, Zenon DEF IsBeam
    <3> QED
      BY <3>2, <3>3, Zenon
  <2> QED
    BY <2>1, <2>2, Zenon
<1>3. \A b : IsBeam(b, r) => b \in Beam
  BY DEF IsBeam
<1> HIDE DEF Chosen
<1>4. \A b : IsBeam(b, r) <=> b \in Beam /\ Chosen(b)
  BY <1>2, <1>3
<1> QED
  BY <1>1, <1>4

(***************************************************************************)
(* A cycle within a dot of a frame is a beam position of the period ...    *)
(***************************************************************************)
LEMMA BeamOfDot ==
  ASSUME NEW field \in BOOLEAN, NEW h, NEW v, NEW partial, NEW r,
         InDot(field, h, v, partial, r)
  PROVE  IsBeam([h |-> h, v |-> v, field |-> field, partial |-> partial], FieldStart(field) + r)
<1> DEFINE b == [h |-> h, v |-> v, field |-> field, partial |-> partial]
<1>1. h \in Dot /\ v \in Line /\ partial \in 0..(DotCost(h, v, field) - 1)
      /\ r = DotOffset[field][v][h] + partial
  BY DEF InDot
<1>2. r \in Nat /\ r < FrameCycles(field) /\ FrameCycles(field) \in Nat
  BY DotInFrame, FrameLength
<1>3. v \in Nat /\ h \in Nat /\ v \in 0..LinesPerFrame
  BY <1>1, RasterSizes DEF Line
<1>4. DotCost(h, v, field) \in Nat /\ DotCost(h, v, field) <= LongDotCycles /\ LongDotCycles \in Nat
  BY <1>3, CostsAreNatural, RasterAssumption
<1>5. partial \in Nat /\ partial \in 0..(LongDotCycles - 1) /\ partial < DotCost(h, v, field)
  BY <1>1, <1>4
<1>6. b \in Beam
  BY <1>1, <1>5 DEF Beam, Line, Dot
<1>7. DotOffset[field][v][h] \in Nat
  BY <1>1, <1>3, Offsets
<1>8. /\ FieldStart(field) + r >= EvenFrame => b.field = TRUE
      /\ ~(FieldStart(field) + r >= EvenFrame) => b.field = FALSE
  <2>1. CASE field = TRUE
    <3>1. FieldStart(field) + r >= EvenFrame
      <4>1. FieldStart(field) = EvenFrame
        BY <2>1, FieldStarts, Zenon
      <4> QED
        BY <1>2, <4>1, TwoFramesAre
    <3> QED
      BY <2>1, <3>1
  <2>2. CASE field = FALSE
    <3>1. ~(FieldStart(field) + r >= EvenFrame)
      <4>1. FrameCycles(field) = EvenFrame
        BY <2>2, Zenon DEF EvenFrame
      <4> QED
        <5>1. FieldStart(field) = 0
          BY <2>2, FieldStarts, Zenon
        <5> QED
          BY <1>2, <4>1, <5>1, TwoFramesAre
    <3> QED
      BY <2>2, <3>1
  <2> QED
    BY <2>1, <2>2
<1>9. FieldStart(field) \in Nat
  BY FieldStarts
<1>10. FieldStart(field) + DotOffset[field][v][h] + partial = FieldStart(field) + r
  BY <1>1, <1>5, <1>7, <1>9
<1> QED
  BY <1>5, <1>6, <1>8, <1>10 DEF IsBeam

(***************************************************************************)
(* ... every beam position of the period is such a cycle ...               *)
(***************************************************************************)
LEMMA DotOfBeam ==
  ASSUME NEW r \in Nat, NEW b, IsBeam(b, r)
  PROVE  /\ b.field \in BOOLEAN /\ b = [h |-> b.h, v |-> b.v, field |-> b.field, partial |-> b.partial]
         /\ InDot(b.field, b.h, b.v, b.partial, r - FieldStart(b.field))
<1>1. /\ b.field \in BOOLEAN /\ b.h \in Dot /\ b.v \in Line /\ b.partial \in 0..(LongDotCycles - 1)
      /\ b = [h |-> b.h, v |-> b.v, field |-> b.field, partial |-> b.partial]
  BY DEF IsBeam, Beam, Dot, Line
<1>2. b.v \in Nat /\ b.h \in Nat /\ b.v \in 0..LinesPerFrame
  BY <1>1, RasterSizes DEF Line
<1>3. DotCost(b.h, b.v, b.field) \in Nat /\ DotOffset[b.field][b.v][b.h] \in Nat
  BY <1>1, <1>2, CostsAreNatural, Offsets
<1>4. FieldStart(b.field) \in Nat
  BY <1>1, FieldStarts
<1>5. /\ b.partial < DotCost(b.h, b.v, b.field)
      /\ FieldStart(b.field) + DotOffset[b.field][b.v][b.h] + b.partial = r
  BY DEF IsBeam
<1>6. b.partial \in Nat
  BY <1>1, RasterAssumption
<1>7. b.partial \in 0..(DotCost(b.h, b.v, b.field) - 1)
  BY <1>3, <1>5, <1>6
<1>8. r - FieldStart(b.field) = DotOffset[b.field][b.v][b.h] + b.partial
  BY <1>3, <1>4, <1>5, <1>6
<1> QED
  BY <1>1, <1>7, <1>8 DEF InDot

(***************************************************************************)
(* ... and there is only one for each cycle ...                            *)
(***************************************************************************)
LEMMA OneBeam ==
  ASSUME NEW r \in Nat, NEW b, IsBeam(b, r), NEW c, IsBeam(c, r)
  PROVE  b = c
<1>1. b.field = c.field
  <2>1. CASE r >= EvenFrame
    BY <2>1 DEF IsBeam
  <2>2. CASE ~(r >= EvenFrame)
    BY <2>2 DEF IsBeam
  <2> QED
    BY <2>1, <2>2
<1>2. /\ b.field \in BOOLEAN /\ b = [h |-> b.h, v |-> b.v, field |-> b.field, partial |-> b.partial]
      /\ InDot(b.field, b.h, b.v, b.partial, r - FieldStart(b.field))
      /\ c = [h |-> c.h, v |-> c.v, field |-> c.field, partial |-> c.partial]
      /\ InDot(b.field, c.h, c.v, c.partial, r - FieldStart(b.field))
  BY <1>1, DotOfBeam
<1>3. b.h = c.h /\ b.v = c.v /\ b.partial = c.partial
  BY <1>2, FrameHasOneDot
<1> QED
  BY <1>1, <1>2, <1>3

(***************************************************************************)
(* ... and one for every cycle of the period.                              *)
(***************************************************************************)
LEMMA SomeBeam ==
  ASSUME NEW r \in 0..(TwoFrames - 1)
  PROVE  \E b : IsBeam(b, r)
<1>1. ASSUME NEW field \in BOOLEAN, NEW rest \in 0..(FrameCycles(field) - 1),
             r = FieldStart(field) + rest
      PROVE  \E b : IsBeam(b, r)
  <2>1. PICK h, v, partial : InDot(field, h, v, partial, rest)
    BY FrameHasDot
  <2>2. IsBeam([h |-> h, v |-> v, field |-> field, partial |-> partial], r)
    BY <1>1, <2>1, BeamOfDot
  <2> QED
    BY <2>2
<1>2. CASE r >= EvenFrame
  <2>1. PICK rest \in 0..(OddFrame - 1) : r = EvenFrame + rest
    <3>1. r - EvenFrame \in 0..(OddFrame - 1) /\ r = EvenFrame + (r - EvenFrame)
      BY <1>2, TwoFramesAre
    <3> QED
      BY <3>1
  <2>2. rest \in 0..(FrameCycles(TRUE) - 1) /\ r = FieldStart(TRUE) + rest
    BY <2>1, FieldStarts DEF OddFrame
  <2> QED
    BY <1>1, <2>2
<1>3. CASE ~(r >= EvenFrame)
  <2>1. r \in 0..(EvenFrame - 1) /\ r = 0 + r
    BY <1>3, TwoFramesAre
  <2>2. r \in 0..(FrameCycles(FALSE) - 1) /\ r = FieldStart(FALSE) + r
    BY <2>1, FieldStarts DEF EvenFrame
  <2> QED
    BY <1>1, <2>2
<1> QED
  BY <1>2, <1>3

(***************************************************************************)
(* Where the beam is at time t, and at which times it is in a given dot of *)
(* a given frame.  Frames come in pairs, one of each field.                *)
(***************************************************************************)
FrameStart(pair, field) == TwoFrames * pair + FieldStart(field)

(***************************************************************************)
(* Ppu::BeamAt inverts Ppu::MasterCycleAt: at every master time the beam   *)
(* is at a dot of the raster, within that dot's own length, and            *)
(* MasterCycleAt of the position it reports, in that frame, plus the       *)
(* cycles into the dot, is the time asked about.                           *)
(***************************************************************************)
THEOREM BeamAtTime ==
  ASSUME NEW t \in Nat
  PROVE  LET b == BeamAt(t)
         IN  /\ b \in Beam /\ b.h \in Dot /\ b.v \in Line /\ b.field \in BOOLEAN
             /\ b.partial \in 0..(DotCost(b.h, b.v, b.field) - 1)
             /\ \E pair \in Nat :
                  t = FrameStart(pair, b.field) + DotOffset[b.field][b.v][b.h] + b.partial
<1> DEFINE b == BeamAt(t)
           r == t % TwoFrames
           pair == t \div TwoFrames
<1>1. TwoFrames \in Nat \ {0}
  BY TwoFramesAre
<1>2. r \in 0..(TwoFrames - 1) /\ r \in Nat /\ pair \in Int /\ t = TwoFrames * pair + r
  BY <1>1
<1>3. pair \in Nat
  <2>1. SUFFICES ASSUME pair <= -1
                 PROVE  FALSE
    BY <1>2
  <2> PICK p \in Int : p = pair
    BY <1>2
  <2>2. TwoFrames * (-1 - p) >= 0
    BY <1>1, <2>1
  <2>3. TwoFrames * (-1 - p) = -TwoFrames - TwoFrames * p
    BY <1>1
  <2> HIDE DEF pair, r
  <2> QED
    BY <1>1, <1>2, <2>2, <2>3
<1> HIDE DEF r, pair
<1>4. IsBeam(b, r)
  <2>1. b = CHOOSE c : IsBeam(c, r)
    BY <1>2, BeamPhaseIs DEF BeamAt, r
  <2> HIDE DEF b
  <2> QED
    BY <1>2, <2>1, SomeBeam
<1> HIDE DEF b
<1>5. /\ b.field \in BOOLEAN
      /\ InDot(b.field, b.h, b.v, b.partial, r - FieldStart(b.field))
  BY <1>2, <1>4, DotOfBeam
<1>6. b \in Beam
  BY <1>4 DEF IsBeam
<1>7. /\ b.h \in Dot /\ b.v \in Line
      /\ b.partial \in 0..(DotCost(b.h, b.v, b.field) - 1)
      /\ r - FieldStart(b.field) = DotOffset[b.field][b.v][b.h] + b.partial
  BY <1>5 DEF InDot
<1>8. FieldStart(b.field) \in Nat
  BY <1>5, FieldStarts
<1>9. DotOffset[b.field][b.v][b.h] + b.partial \in Nat
  <2>1. r - FieldStart(b.field) \in 0..(FrameCycles(b.field) - 1)
    BY <1>5, DotInFrame
  <2> QED
    BY <1>5, <1>7, <2>1, FrameLength
<1>10. t = FrameStart(pair, b.field) + (DotOffset[b.field][b.v][b.h] + b.partial)
  <2>1. PICK x \in Int : x = TwoFrames * pair
    BY <1>1, <1>2
  <2> QED
    BY <1>2, <1>7, <1>8, <1>9, <2>1 DEF FrameStart
<1>11. /\ DotOffset[b.field][b.v][b.h] \in Nat /\ b.partial \in Int
       /\ FrameStart(pair, b.field) \in Nat
  <2>1. b.v \in 0..LinesPerFrame /\ b.v \in Nat /\ b.h \in Nat
    <3>1. \A l \in Line : l \in 0..LinesPerFrame /\ l \in Nat
      BY RasterSizes DEF Line
    <3> QED
      BY <1>7, <3>1, RasterSizes
  <2>2. DotOffset[b.field][b.v][b.h] \in Nat
    BY <1>5, <1>7, <2>1, Offsets
  <2>3. DotCost(b.h, b.v, b.field) \in Nat
    BY <1>5, <2>1, CostsAreNatural
  <2>4. FrameStart(pair, b.field) \in Nat
    BY <1>1, <1>3, <1>8 DEF FrameStart
  <2> QED
    BY <1>7, <2>2, <2>3, <2>4
<1>12. t = FrameStart(pair, b.field) + DotOffset[b.field][b.v][b.h] + b.partial
  BY <1>10, <1>11
<1> QED
  BY <1>3, <1>5, <1>6, <1>7, <1>12 DEF b

(***************************************************************************)
(* The other direction: at the time MasterCycleAt gives for a dot, and     *)
(* until the dot ends, BeamAt reports that dot and the cycles into it.     *)
(* Together with BeamAtTime: the two functions, written as separate loops  *)
(* in ppu.h, agree for every raster.                                       *)
(***************************************************************************)
THEOREM BeamAtDot ==
  ASSUME NEW pair \in Nat, NEW field \in BOOLEAN, NEW h \in Dot, NEW v \in Line,
         NEW partial \in 0..(DotCost(h, v, field) - 1)
  PROVE  BeamAt(FrameStart(pair, field) + DotOffset[field][v][h] + partial)
           = [h |-> h, v |-> v, field |-> field, partial |-> partial]
<1> DEFINE b == [h |-> h, v |-> v, field |-> field, partial |-> partial]
<1>1. PICK r : r = DotOffset[field][v][h] + partial
  OBVIOUS
<1>2. InDot(field, h, v, partial, r)
  BY <1>1 DEF InDot
<1>3. r \in 0..(FrameCycles(field) - 1)
  BY <1>2, DotInFrame
<1>4. IsBeam(b, FieldStart(field) + r)
  BY <1>2, BeamOfDot
<1> HIDE DEF b
<1>5. PICK x : x = FieldStart(field) + r
  OBVIOUS
<1>6. x \in 0..(TwoFrames - 1) /\ TwoFrames \in Nat \ {0} /\ FieldStart(field) \in Nat
  <2>1. CASE field = TRUE
    <3>1. r \in 0..(OddFrame - 1)
      BY <1>3, <2>1 DEF OddFrame
    <3> QED
      <4>1. FieldStart(field) = EvenFrame
        BY <2>1, FieldStarts, Zenon
      <4> QED
        BY <1>5, <3>1, <4>1, TwoFramesAre
  <2>2. CASE field = FALSE
    <3>1. r \in 0..(EvenFrame - 1)
      BY <1>3, <2>2 DEF EvenFrame
    <3> QED
      <4>1. FieldStart(field) = 0
        BY <2>2, FieldStarts, Zenon
      <4> QED
        BY <1>5, <3>1, <4>1, TwoFramesAre
  <2> QED
    BY <2>1, <2>2
<1>7. (TwoFrames * pair + x) % TwoFrames = x
  BY <1>6, RemainderOf, SMTT(40)
<1>8. /\ DotOffset[field][v][h] \in Nat /\ partial \in Nat
  BY DotInLine
<1>9. FrameStart(pair, field) + DotOffset[field][v][h] + partial = TwoFrames * pair + x
  <2>1. PICK y \in Int : y = TwoFrames * pair
    BY <1>6
  <2> QED
    BY <1>1, <1>5, <1>6, <1>8, <2>1 DEF FrameStart
<1>10. BeamAt(TwoFrames * pair + x) = CHOOSE c : IsBeam(c, x)
  BY <1>6, <1>7, BeamPhaseIs DEF BeamAt
<1>11. \A c : IsBeam(c, x) => c = b
  BY <1>4, <1>5, <1>6, OneBeam
<1>12. IsBeam(CHOOSE c : IsBeam(c, x), x)
  BY <1>4, <1>5
<1> QED
  BY <1>9, <1>10, <1>11, <1>12 DEF b
-----------------------------------------------------------------------------
(***************************************************************************)
(* The walk of ComputeNextMatch from frame to frame.  Frames are numbered  *)
(* through, two to a pair.                                                 *)
(***************************************************************************)
FrameNumber(pair, field) == 2 * pair + (IF field THEN 1 ELSE 0)

FieldAfter(field, k) == IF k % 2 = 0 THEN field ELSE ~field

OriginAfter(origin, field, k) ==
  origin + (k \div 2) * TwoFrames + (IF k % 2 = 0 THEN 0 ELSE FrameCycles(field))

(***************************************************************************)
(* Frames are numbered from power-on, even fields first.                   *)
(***************************************************************************)
LEMMA FrameNumbers ==
  ASSUME NEW pair \in Nat
  PROVE  FrameNumber(pair, FALSE) = 2 * pair /\ FrameNumber(pair, TRUE) = 2 * pair + 1
<1>1. FrameNumber(pair, FALSE) = 2 * pair + 0 /\ FrameNumber(pair, TRUE) = 2 * pair + 1
  BY Zenon DEF FrameNumber
<1>2. 2 * pair + 0 = 2 * pair
  OBVIOUS
<1> QED
  BY <1>1, <1>2, Zenon

(***************************************************************************)
(* Where a frame starts, by the number of whole periods before it.         *)
(***************************************************************************)
LEMMA FrameStarts ==
  ASSUME NEW pair \in Nat
  PROVE  /\ FrameStart(pair, FALSE) = TwoFrames * pair
         /\ FrameStart(pair, TRUE) = TwoFrames * pair + EvenFrame
         /\ TwoFrames * pair \in Nat
<1>1. FrameStart(pair, FALSE) = TwoFrames * pair + 0
  BY FieldStarts, Zenon DEF FrameStart
<1>2. FrameStart(pair, TRUE) = TwoFrames * pair + EvenFrame
  BY FieldStarts, Zenon DEF FrameStart
<1>3. TwoFrames * pair \in Nat /\ TwoFrames * pair + 0 = TwoFrames * pair
  BY TwoFramesAre
<1> QED
  BY <1>1, <1>2, <1>3, Zenon

Walked(pair, field, shift, k, q, next) ==
  /\ next = FieldAfter(field, k)
  /\ OriginAfter(FrameStart(pair, field) + shift, field, k) = FrameStart(q, next) + shift
  /\ FrameNumber(q, next) = FrameNumber(pair, field) + k

WalkReaches(pair, field, shift, k) ==
  \E q \in Nat, next \in BOOLEAN : Walked(pair, field, shift, k, q, next)

(***************************************************************************)
(* The frame walk of ComputeNextMatch: k frames on from a frame, the       *)
(* cursor's origin is the start of the frame whose number is k greater,    *)
(* shifted by the cycles it was off at the beginning.                      *)
(***************************************************************************)
LEMMA Walk ==
  ASSUME NEW pair \in Nat, NEW field \in BOOLEAN, NEW k \in Nat, NEW shift \in Nat
  PROVE  WalkReaches(pair, field, shift, k)
<1>1. PICK a \in Nat : a = k \div 2 /\ \/ k = 2 * a /\ k % 2 = 0
                                       \/ k = 2 * a + 1 /\ k % 2 = 1
  <2>1. k \div 2 \in Nat /\ \/ k = 2 * (k \div 2) /\ k % 2 = 0
                            \/ k = 2 * (k \div 2) + 1 /\ k % 2 = 1
    OBVIOUS
  <2> QED
    BY <2>1
<1>2. PICK turn \in Nat : turn = TwoFrames * pair
  BY FrameStarts
<1>3. PICK turns \in Nat : turns = a * TwoFrames
  BY TwoFramesAre
<1>4. TwoFrames * (pair + a) = turn + turns /\ TwoFrames * (pair + a + 1) = turn + turns + TwoFrames
  BY <1>2, <1>3, TwoFramesAre
<1>5. CASE k = 2 * a /\ k % 2 = 0
  <2>1. FieldAfter(field, k) = field
    BY <1>5, Zenon DEF FieldAfter
  <2>2. OriginAfter(FrameStart(pair, field) + shift, field, k)
          = (FrameStart(pair, field) + shift) + turns + 0
    BY <1>1, <1>3, <1>5, Zenon DEF OriginAfter
  <2>3. CASE field = TRUE
    <3>1. FrameStart(pair, field) = turn + EvenFrame
      BY <1>2, <2>3, FrameStarts, Zenon
    <3>2. FrameStart(pair + a, field) = (turn + turns) + EvenFrame
      BY <1>4, <2>3, FieldStarts, Zenon DEF FrameStart
    <3>3. /\ FrameNumber(pair, field) = 2 * pair + 1
          /\ FrameNumber(pair + a, field) = 2 * (pair + a) + 1
      <4>1. pair + a \in Nat
        OBVIOUS
      <4> QED
        BY <2>3, <4>1, FrameNumbers, Zenon
    <3>4. /\ OriginAfter(FrameStart(pair, field) + shift, field, k)
               = FrameStart(pair + a, field) + shift
          /\ FrameNumber(pair + a, field) = FrameNumber(pair, field) + k
          /\ pair + a \in Nat
      BY <1>5, <2>2, <3>1, <3>2, <3>3, TwoFramesAre
    <3> QED
      BY <2>1, <3>4, Zenon DEF Walked, WalkReaches
  <2>4. CASE field = FALSE
    <3>1. FrameStart(pair, field) = turn
      BY <1>2, <2>4, FrameStarts, Zenon
    <3>2. FrameStart(pair + a, field) = (turn + turns) + 0
      BY <1>4, <2>4, FieldStarts, Zenon DEF FrameStart
    <3>3. /\ FrameNumber(pair, field) = 2 * pair
          /\ FrameNumber(pair + a, field) = 2 * (pair + a)
      <4>1. pair + a \in Nat
        OBVIOUS
      <4> QED
        BY <2>4, <4>1, FrameNumbers, Zenon
    <3>4. /\ OriginAfter(FrameStart(pair, field) + shift, field, k)
               = FrameStart(pair + a, field) + shift
          /\ FrameNumber(pair + a, field) = FrameNumber(pair, field) + k
          /\ pair + a \in Nat
      BY <1>5, <2>2, <3>1, <3>2, <3>3, TwoFramesAre
    <3> QED
      BY <2>1, <3>4, Zenon DEF Walked, WalkReaches
  <2> QED
    BY <2>3, <2>4
<1>6. CASE k = 2 * a + 1 /\ k % 2 = 1
  <2>1. k % 2 # 0
    BY <1>6
  <2>2. CASE field = FALSE
    <3>1. FieldAfter(field, k) = TRUE
      BY <2>1, <2>2, Zenon DEF FieldAfter
    <3>2. FrameStart(pair, field) = turn
      BY <1>2, <2>2, FrameStarts, Zenon
    <3>3. OriginAfter(FrameStart(pair, field) + shift, field, k) = (turn + shift) + turns + EvenFrame
      BY <1>1, <1>3, <2>1, <2>2, <3>2, Zenon DEF OriginAfter, EvenFrame
    <3>4. FrameStart(pair + a, TRUE) = (turn + turns) + EvenFrame
      BY <1>4, FieldStarts, Zenon DEF FrameStart
    <3>5. /\ FrameNumber(pair, field) = 2 * pair
          /\ FrameNumber(pair + a, TRUE) = 2 * (pair + a) + 1
      <4>1. pair + a \in Nat
        OBVIOUS
      <4> QED
        BY <2>2, <4>1, FrameNumbers, Zenon
    <3>6. /\ OriginAfter(FrameStart(pair, field) + shift, field, k)
               = FrameStart(pair + a, TRUE) + shift
          /\ FrameNumber(pair + a, TRUE) = FrameNumber(pair, field) + k
          /\ pair + a \in Nat
      <4>1. (turn + shift) + turns + EvenFrame = (turn + turns) + EvenFrame + shift
        BY TwoFramesAre
      <4>2. 2 * (pair + a) + 1 = 2 * pair + k /\ pair + a \in Nat
        BY <1>6
      <4> QED
        BY <3>3, <3>4, <3>5, <4>1, <4>2, Zenon
    <3> QED
      BY <3>1, <3>6, Zenon DEF Walked, WalkReaches
  <2>3. CASE field = TRUE
    <3>1. FieldAfter(field, k) = FALSE
      BY <2>1, <2>3, Zenon DEF FieldAfter
    <3>2. FrameStart(pair, field) = turn + EvenFrame
      BY <1>2, <2>3, FrameStarts, Zenon
    <3>3. OriginAfter(FrameStart(pair, field) + shift, field, k)
            = (turn + EvenFrame + shift) + turns + OddFrame
      BY <1>1, <1>3, <2>1, <2>3, <3>2, Zenon DEF OriginAfter, OddFrame
    <3>4. FrameStart(pair + a + 1, FALSE) = (turn + turns + TwoFrames) + 0
      BY <1>4, FieldStarts, Zenon DEF FrameStart
    <3>5. /\ FrameNumber(pair, field) = 2 * pair + 1
          /\ FrameNumber(pair + a + 1, FALSE) = 2 * (pair + a + 1)
      <4>1. pair + a + 1 \in Nat
        OBVIOUS
      <4> QED
        BY <2>3, <4>1, FrameNumbers, Zenon
    <3>6. /\ OriginAfter(FrameStart(pair, field) + shift, field, k)
               = FrameStart(pair + a + 1, FALSE) + shift
          /\ FrameNumber(pair + a + 1, FALSE) = FrameNumber(pair, field) + k
          /\ pair + a + 1 \in Nat
      <4>1. (turn + EvenFrame + shift) + turns + OddFrame = (turn + turns + TwoFrames) + 0 + shift
        BY TwoFramesAre
      <4>2. 2 * (pair + a + 1) = (2 * pair + 1) + k /\ pair + a + 1 \in Nat
        BY <1>6
      <4> QED
        BY <3>3, <3>4, <3>5, <4>1, <4>2, Zenon
    <3> QED
      BY <3>1, <3>6, Zenon DEF Walked, WalkReaches
  <2> QED
    BY <2>2, <2>3
<1> QED
  BY <1>1, <1>5, <1>6, Zenon DEF WalkReaches

(***************************************************************************)
(* Frames follow one another without overlap, and a number is one frame's. *)
(***************************************************************************)
LEMMA FrameOrder ==
  ASSUME NEW a \in Nat, NEW f \in BOOLEAN, NEW b \in Nat, NEW g \in BOOLEAN,
         FrameNumber(a, f) < FrameNumber(b, g)
  PROVE  FrameStart(a, f) + FrameCycles(f) <= FrameStart(b, g)
<1>1. ASSUME NEW d \in Int, d >= 1
      PROVE  TwoFrames * d >= TwoFrames
  <2>1. TwoFrames * (d - 1) >= 0
    BY <1>1, TwoFramesAre
  <2> QED
    BY <2>1, TwoFramesAre
<1>2. PICK x \in Nat : x = TwoFrames * a
  BY TwoFramesAre
<1>3. PICK y \in Nat : y = TwoFrames * b
  BY TwoFramesAre
<1>4. a < b => x + TwoFrames <= y
  <2> SUFFICES ASSUME a < b PROVE x + TwoFrames <= y
    OBVIOUS
  <2>1. TwoFrames * (b - a) >= TwoFrames
    BY <1>1
  <2>2. TwoFrames * (b - a) = y - x
    BY <1>2, <1>3, TwoFramesAre
  <2> QED
    BY <2>1, <2>2, TwoFramesAre
<1>5. a = b => x = y
  BY <1>2, <1>3
<1>6. CASE f = FALSE /\ g = FALSE
  <2>1. FrameStart(a, f) = x /\ FrameStart(b, g) = y /\ FrameCycles(f) = EvenFrame
    BY <1>2, <1>3, <1>6, FrameStarts, Zenon DEF EvenFrame
  <2>2. 2 * a < 2 * b
    BY <1>6, FrameNumbers, Zenon
  <2> QED
    BY <1>4, <2>1, <2>2, TwoFramesAre
<1>7. CASE f = FALSE /\ g = TRUE
  <2>1. FrameStart(a, f) = x /\ FrameStart(b, g) = y + EvenFrame /\ FrameCycles(f) = EvenFrame
    BY <1>2, <1>3, <1>7, FrameStarts, Zenon DEF EvenFrame
  <2>2. 2 * a < 2 * b + 1
    BY <1>7, FrameNumbers, Zenon
  <2> QED
    BY <1>4, <1>5, <2>1, <2>2, TwoFramesAre
<1>8. CASE f = TRUE /\ g = FALSE
  <2>1. FrameStart(a, f) = x + EvenFrame /\ FrameStart(b, g) = y /\ FrameCycles(f) = OddFrame
    BY <1>2, <1>3, <1>8, FrameStarts, Zenon DEF OddFrame
  <2>2. 2 * a + 1 < 2 * b
    BY <1>8, FrameNumbers, Zenon
  <2> QED
    BY <1>4, <2>1, <2>2, TwoFramesAre
<1>9. CASE f = TRUE /\ g = TRUE
  <2>1. FrameStart(a, f) = x + EvenFrame /\ FrameStart(b, g) = y + EvenFrame
        /\ FrameCycles(f) = OddFrame
    BY <1>2, <1>3, <1>9, FrameStarts, Zenon DEF OddFrame
  <2>2. 2 * a + 1 < 2 * b + 1
    BY <1>9, FrameNumbers, Zenon
  <2> QED
    BY <1>4, <2>1, <2>2, TwoFramesAre
<1> QED
  BY <1>6, <1>7, <1>8, <1>9

(***************************************************************************)
(* A frame's number determines the frame.                                  *)
(***************************************************************************)
LEMMA FrameNumberOfOne ==
  ASSUME NEW a \in Nat, NEW f \in BOOLEAN, NEW b \in Nat, NEW g \in BOOLEAN,
         FrameNumber(a, f) = FrameNumber(b, g)
  PROVE  a = b /\ f = g
<1>1. CASE f = g /\ f = FALSE
  <2>1. 2 * a = 2 * b
    BY <1>1, FrameNumbers, Zenon
  <2> QED
    BY <1>1, <2>1
<1>2. CASE f = g /\ f = TRUE
  <2>1. 2 * a + 1 = 2 * b + 1
    BY <1>2, FrameNumbers, Zenon
  <2> QED
    BY <1>2, <2>1
<1>3. CASE f = TRUE /\ g = FALSE
  <2>1. 2 * a + 1 = 2 * b
    BY <1>3, FrameNumbers, Zenon
  <2> QED
    BY <2>1
<1>4. CASE f = FALSE /\ g = TRUE
  <2>1. 2 * a = 2 * b + 1
    BY <1>4, FrameNumbers, Zenon
  <2> QED
    BY <2>1
<1> QED
  BY <1>1, <1>2, <1>3, <1>4

(***************************************************************************)
(* The master time at which a dot of a frame begins.                       *)
(***************************************************************************)
DotTime(pair, field, v, h) == FrameStart(pair, field) + DotOffset[field][v][h]

(***************************************************************************)
(* A dot begins within its frame, and the beam is there at that time.      *)
(***************************************************************************)
LEMMA DotTimes ==
  ASSUME NEW pair \in Nat, NEW field \in BOOLEAN, NEW v \in Line, NEW h \in Dot
  PROVE  /\ FrameStart(pair, field) \in Nat /\ DotTime(pair, field, v, h) \in Nat
         /\ FrameStart(pair, field) <= DotTime(pair, field, v, h)
         /\ DotTime(pair, field, v, h) < FrameStart(pair, field) + FrameCycles(field)
         /\ BeamAt(DotTime(pair, field, v, h)) = [h |-> h, v |-> v, field |-> field, partial |-> 0]
<1>1. FieldStart(field) \in Nat /\ TwoFrames \in Nat
  BY FieldStarts, TwoFramesAre
<1>2. FrameStart(pair, field) \in Nat
  BY <1>1 DEF FrameStart
<1>3. v \in Nat /\ h \in Nat
  BY RasterSizes
<1>4. DotCost(h, v, field) \in Nat \ {0}
  BY <1>3, CostsAreNatural
<1>5. 0 \in 0..(DotCost(h, v, field) - 1)
  BY <1>4
<1>6. PICK r : r = DotOffset[field][v][h] + 0
  OBVIOUS
<1>7. InDot(field, h, v, 0, r)
  BY <1>5, <1>6 DEF InDot
<1>8. r \in 0..(FrameCycles(field) - 1) /\ FrameCycles(field) \in Nat
  BY <1>7, DotInFrame, FrameLength
<1>9. DotOffset[field][v][h] \in Nat
  <2>1. v \in 0..LinesPerFrame
    BY RasterSizes DEF Line
  <2> QED
    BY <2>1, Offsets
<1>10. BeamAt(FrameStart(pair, field) + DotOffset[field][v][h] + 0)
         = [h |-> h, v |-> v, field |-> field, partial |-> 0]
  BY <1>5, BeamAtDot
<1>11. FrameStart(pair, field) + DotOffset[field][v][h] + 0 = DotTime(pair, field, v, h)
  BY <1>2, <1>9 DEF DotTime
<1> QED
  BY <1>2, <1>6, <1>8, <1>9, <1>10, <1>11 DEF DotTime

(***************************************************************************)
(* Every time is a dot's time plus less than one dot.                      *)
(***************************************************************************)
LEMMA TimeInDot ==
  ASSUME NEW t \in Nat
  PROVE  LET b == BeamAt(t)
         IN  /\ b.h \in Dot /\ b.v \in Line /\ b.field \in BOOLEAN
             /\ b.partial \in 0..(DotCost(b.h, b.v, b.field) - 1)
             /\ b.partial \in 0..(LongDotCycles - 1)
             /\ \E pair \in Nat :
                  /\ t = DotTime(pair, b.field, b.v, b.h) + b.partial
                  /\ t < FrameStart(pair, b.field) + FrameCycles(b.field)
<1> DEFINE b == BeamAt(t)
<1>1. PICK pair \in Nat : t = FrameStart(pair, b.field) + DotOffset[b.field][b.v][b.h] + b.partial
  BY BeamAtTime
<1>2. /\ b.h \in Dot /\ b.v \in Line /\ b.field \in BOOLEAN
      /\ b.partial \in 0..(DotCost(b.h, b.v, b.field) - 1)
  BY BeamAtTime
<1>3. b.partial \in 0..(LongDotCycles - 1)
  BY BeamAtTime DEF Beam
<1> HIDE DEF b
<1>4. PICK r : r = DotOffset[b.field][b.v][b.h] + b.partial
  OBVIOUS
<1>5. r \in 0..(FrameCycles(b.field) - 1) /\ FrameCycles(b.field) \in Nat
  BY <1>2, <1>4, DotInFrame, FrameLength DEF InDot
<1>6. FrameStart(pair, b.field) \in Nat /\ DotTime(pair, b.field, b.v, b.h) \in Nat
  BY <1>2, DotTimes
<1>7. DotOffset[b.field][b.v][b.h] \in Nat /\ b.partial \in Nat
  BY <1>2, DotInLine
<1>8. t = DotTime(pair, b.field, b.v, b.h) + b.partial
  BY <1>1 DEF DotTime
<1>9. t < FrameStart(pair, b.field) + FrameCycles(b.field)
  <2>1. PICK start \in Nat, offset \in Nat, part \in Nat, len \in Nat :
            start = FrameStart(pair, b.field) /\ offset = DotOffset[b.field][b.v][b.h]
            /\ part = b.partial /\ len = FrameCycles(b.field)
    BY <1>5, <1>6, <1>7, Zenon
  <2>2. offset + part \in 0..(len - 1)
    BY <1>4, <1>5, <2>1, Zenon
  <2>3. t = start + offset + part
    BY <1>1, <2>1, Zenon
  <2>4. t < start + len
    BY <2>2, <2>3
  <2> QED
    BY <2>1, <2>4, Zenon
<1> QED
  BY <1>2, <1>3, <1>8, <1>9 DEF b

(***************************************************************************)
(* Within a frame, all of a line comes before a later line.                *)
(***************************************************************************)
LEMMA LinesInOrder ==
  ASSUME NEW field \in BOOLEAN, NEW v \in Line, NEW h \in Dot, NEW w \in Line, NEW g \in Dot,
         NEW partial \in 0..(DotCost(h, v, field) - 1), v < w
  PROVE  DotOffset[field][v][h] + partial < DotOffset[field][w][g]
<1>1. /\ partial \in Nat /\ DotCost(h, v, field) \in Nat /\ LineCycles(v, field) \in Nat
      /\ LineStart(field)[v] \in Nat /\ DotStart(v, field)[h] \in Nat
      /\ DotOffset[field][v][h] = LineStart(field)[v] + DotStart(v, field)[h]
      /\ DotStart(v, field)[h] + DotCost(h, v, field) <= LineCycles(v, field)
  BY DotInLine
<1>2. v \in Nat /\ w \in Nat /\ w \in 0..LinesPerFrame
  BY RasterSizes DEF Line
<1>3. LineStart(field)[v + 1] = LineStart(field)[v] + LineCycles(v, field)
  BY <1>2, LineStarts
<1>4. LineStart(field)[v + 1] <= LineStart(field)[w]
  <2> DEFINE cost == [l \in Nat |-> LineCycles(l, field)]
  <2>1. cost \in [Nat -> Nat]
    BY CostsAreNatural
  <2>2. v + 1 \in Nat /\ v + 1 <= w
    BY <1>2
  <2>3. LineStart(field) = SumBelow(cost)
    BY DEF LineStart
  <2> HIDE DEF cost
  <2> QED
    BY <1>2, <2>1, <2>2, <2>3, SumGrows
<1>5. LineStart(field)[w] <= DotOffset[field][w][g] /\ DotOffset[field][w][g] \in Nat
      /\ LineStart(field)[w] \in Nat
  BY <1>2, Offsets, LineStarts
<1> QED
  BY <1>1, <1>3, <1>4, <1>5

(***************************************************************************)
(* Where the lines of a frame begin: after whole lines, and earlier by the *)
(* long dots that the short line does not have.                            *)
(***************************************************************************)
Missing(field, v) ==
  IF field /\ v > ShortLine THEN NormalLineCycles - DotsPerLine * DotCycles ELSE 0

(***************************************************************************)
(* How far into a frame line v begins.                                     *)
(***************************************************************************)
LEMMA LinesBefore ==
  ASSUME NEW field \in BOOLEAN, NEW v \in Nat
  PROVE  /\ LineStart(field)[v] = v * NormalLineCycles - Missing(field, v)
         /\ Missing(field, v) \in Nat /\ Missing(field, v) < NormalLineCycles
<1> DEFINE Good == {n \in Nat : LineStart(field)[n] = n * NormalLineCycles - Missing(field, n)}
           short == DotsPerLine * DotCycles
<1>1. NormalLineCycles \in Nat \ {0} /\ ShortLine \in Nat
  BY CostsAreNatural, RasterAssumption
<1>2. short \in Nat \ {0} /\ short <= NormalLineCycles
  <2>1. PICK extra \in Nat : NormalLineCycles = short + extra
    <3>1. Cardinality(LongDots) \in Nat
      BY LongDotsCount
    <3>2. LongDotCycles - DotCycles \in Nat
      BY RasterAssumption
    <3>3. Cardinality(LongDots) * (LongDotCycles - DotCycles) \in Nat
      BY <3>1, <3>2
    <3> QED
      BY <3>3 DEF NormalLineCycles
  <2>2. \A a, b \in Nat \ {0} : a * b \in Nat \ {0}
    OBVIOUS
  <2>3. short \in Nat \ {0}
    BY <2>2, RasterAssumption
  <2> QED
    BY <2>1, <2>3
<1> HIDE DEF short
<1>3. \A n \in Nat : Missing(field, n) \in Nat /\ Missing(field, n) < NormalLineCycles
  BY <1>1, <1>2 DEF Missing, short
<1>4. 0 \in Good
  <2>1. LineStart(field)[0] = 0
    BY LineStarts
  <2>2. Missing(field, 0) = 0
    BY <1>1 DEF Missing
  <2> QED
    BY <1>1, <2>1, <2>2
<1>5. ASSUME NEW n \in Nat, n \in Good
      PROVE  n + 1 \in Good
  <2>1. LineStart(field)[n + 1] = LineStart(field)[n] + LineCycles(n, field)
    BY LineStarts
  <2>2. LineStart(field)[n] = n * NormalLineCycles - Missing(field, n)
    BY <1>5
  <2>3. (n + 1) * NormalLineCycles = n * NormalLineCycles + NormalLineCycles
        /\ n * NormalLineCycles \in Nat
    BY <1>1
  <2>4. LineCycles(n, field) = NormalLineCycles + Missing(field, n) - Missing(field, n + 1)
    <3>1. CASE n = ShortLine /\ field
      BY <1>1, <1>2, <3>1 DEF LineCycles, IsShortLine, Missing, short
    <3>2. CASE ~(n = ShortLine /\ field)
      <4>1. LineCycles(n, field) = NormalLineCycles
        BY <3>2 DEF LineCycles, IsShortLine
      <4>2. Missing(field, n) = Missing(field, n + 1)
        BY <1>1, <3>2 DEF Missing
      <4> QED
        BY <1>1, <1>3, <4>1, <4>2
    <3> QED
      BY <3>1, <3>2
  <2>5. Missing(field, n) \in Nat /\ Missing(field, n + 1) \in Nat
    BY <1>3
  <2>6. LineStart(field)[n + 1] = (n + 1) * NormalLineCycles - Missing(field, n + 1)
    <3> HIDE DEF Good
    <3> QED
      BY <1>1, <2>1, <2>2, <2>3, <2>4, <2>5
  <2> QED
    BY <2>6
<1> HIDE DEF Good
<1>6. Nat \subseteq Good
  BY <1>4, <1>5, NaturalInduction
<1> QED
  BY <1>3, <1>6 DEF Good

(***************************************************************************)
(* From the first dot of a line for the length of the line the beam is on  *)
(* that line.                                                              *)
(***************************************************************************)
LEMMA LineHolds ==
  ASSUME NEW pair \in Nat, NEW field \in BOOLEAN, NEW v \in Line,
         NEW x \in 0..(LineCycles(v, field) - 1)
  PROVE  BeamAt(FrameStart(pair, field) + LineStart(field)[v] + x).v = v
<1>1. v \in Nat /\ LineStart(field)[v] \in Nat
  BY RasterSizes, LineStarts
<1>2. x \in Nat /\ x < DotStart(v, field)[DotsPerLine] /\ DotsPerLine \in Nat
  <2>1. LineCycles(v, field) \in Nat
    BY <1>1, CostsAreNatural
  <2>2. DotStart(v, field)[DotsPerLine] = LineCycles(v, field)
    BY <1>1, LineIsItsDots
  <2> QED
    BY <2>1, <2>2, RasterSizes
<1>3. PICK h \in Dot : /\ DotStart(v, field)[h] <= x
                       /\ x < DotStart(v, field)[h] + DotCost(h, v, field)
  <2> DEFINE cost == [d \in Nat |-> DotCost(d, v, field)]
  <2>1. cost \in [Nat -> Nat] /\ \A d \in Nat : cost[d] = DotCost(d, v, field)
    BY <1>1, CostsAreNatural
  <2>2. DotStart(v, field) = SumBelow(cost)
    BY DEF DotStart
  <2> HIDE DEF cost
  <2>3. PICK h \in Dot : /\ DotStart(v, field)[h] <= x
                         /\ x < DotStart(v, field)[h] + cost[h]
    BY <1>2, <2>1, <2>2, SumHasPlace DEF Dot
  <2>4. h \in Nat
    BY RasterSizes
  <2> QED
    BY <2>1, <2>3, <2>4
<1>4. /\ h \in Nat /\ DotStart(v, field)[h] \in Nat /\ DotCost(h, v, field) \in Nat
      /\ v \in 0..LinesPerFrame
  <2>1. h \in Nat /\ v \in 0..LinesPerFrame
    BY <1>1, RasterSizes DEF Line
  <2> QED
    BY <1>1, <2>1, DotStarts, CostsAreNatural
<1>5. PICK partial \in Nat : partial = x - DotStart(v, field)[h]
  BY <1>2, <1>3, <1>4
<1>6. partial \in 0..(DotCost(h, v, field) - 1)
  BY <1>2, <1>3, <1>4, <1>5
<1>7. FrameStart(pair, field) \in Nat
  BY DotTimes
<1>8. FrameStart(pair, field) + LineStart(field)[v] + x
        = FrameStart(pair, field) + DotOffset[field][v][h] + partial
  <2>1. DotOffset[field][v][h] = LineStart(field)[v] + DotStart(v, field)[h]
    BY <1>4, Offsets
  <2> QED
    BY <1>1, <1>2, <1>4, <1>5, <1>7, <2>1
<1>9. BeamAt(FrameStart(pair, field) + DotOffset[field][v][h] + partial)
        = [h |-> h, v |-> v, field |-> field, partial |-> partial]
  BY <1>6, BeamAtDot
<1> QED
  BY <1>8, <1>9

(***************************************************************************)
(* The beam comes to a line through the line's first dot: between a time   *)
(* at which it is elsewhere and a later one at which it is there, that dot *)
(* begins.                                                                 *)
(***************************************************************************)
THEOREM LineEntered ==
  ASSUME NEW a \in Nat, NEW b \in Nat, a < b, NEW v \in Line,
         BeamAt(a).v # v, BeamAt(b).v = v
  PROVE  \E t \in (a + 1)..b : DotBegins(0, v, t)
<1> DEFINE c == BeamAt(b)
<1>1. /\ c.h \in Dot /\ c.field \in BOOLEAN /\ c.v = v
      /\ c.partial \in 0..(DotCost(c.h, v, c.field) - 1)
  BY TimeInDot
<1>2. PICK pair \in Nat : b = DotTime(pair, c.field, v, c.h) + c.partial
  BY <1>1, TimeInDot
<1> HIDE DEF c
<1>3. 0 \in Dot /\ v \in 0..LinesPerFrame /\ v \in Nat
  BY RasterSizes DEF Line
<1>4. /\ LineStart(c.field)[v] \in Nat /\ DotStart(v, c.field)[c.h] \in Nat
      /\ DotStart(v, c.field)[c.h] + DotCost(c.h, v, c.field) <= LineCycles(v, c.field)
      /\ DotOffset[c.field][v][c.h] = LineStart(c.field)[v] + DotStart(v, c.field)[c.h]
      /\ DotCost(c.h, v, c.field) \in Nat /\ LineCycles(v, c.field) \in Nat
  BY <1>1, DotInLine
<1>5. DotOffset[c.field][v][0] = LineStart(c.field)[v]
  <2>1. /\ DotOffset[c.field][v][0] = LineStart(c.field)[v] + DotStart(v, c.field)[0]
        /\ DotStart(v, c.field)[0] = 0
    BY <1>1, <1>3, Offsets, DotStarts
  <2> QED
    BY <1>4, <2>1
<1>6. PICK s \in Nat : s = FrameStart(pair, c.field) + LineStart(c.field)[v]
  BY <1>1, <1>3, <1>4, DotTimes
<1>7. s = DotTime(pair, c.field, v, 0)
  BY <1>5, <1>6 DEF DotTime
<1>8. DotBegins(0, v, s)
  BY <1>1, <1>3, <1>7, DotTimes DEF DotBegins
<1>9. s <= b /\ b - s < LineCycles(v, c.field)
  <2>1. FrameStart(pair, c.field) \in Nat
    BY <1>1, <1>3, DotTimes
  <2> QED
    BY <1>1, <1>2, <1>4, <1>6, <2>1 DEF DotTime
<1>10. ~(s <= a)
  <2>1. SUFFICES ASSUME s <= a
                 PROVE  FALSE
    OBVIOUS
  <2>2. a - s \in 0..(LineCycles(v, c.field) - 1)
    BY <1>4, <1>9, <2>1
  <2>3. BeamAt(FrameStart(pair, c.field) + LineStart(c.field)[v] + (a - s)).v = v
    BY <1>1, <2>2, LineHolds
  <2>4. s + (a - s) = a
    OBVIOUS
  <2> QED
    BY <1>6, <2>3, <2>4
<1> QED
  BY <1>8, <1>9, <1>10

(***************************************************************************)
(* Up to the short line, lines begin at multiples of the normal length,    *)
(* in a frame of either field.                                             *)
(***************************************************************************)
LEMMA LineTime ==
  ASSUME NEW pair \in Nat, NEW field \in BOOLEAN, NEW v \in Line, v <= ShortLine
  PROVE  /\ DotTime(pair, field, v, 0) = FrameStart(pair, field) + v * NormalLineCycles
         /\ FrameStart(pair, field) \in Nat /\ v * NormalLineCycles \in Nat
<1>1. v \in Nat /\ v \in 0..LinesPerFrame /\ 0 \in Dot /\ ShortLine \in Nat
  BY RasterSizes, RasterAssumption DEF Line
<1>2. Missing(field, v) = 0
  BY <1>1 DEF Missing
<1>3. v * NormalLineCycles \in Nat
  <2>1. NormalLineCycles \in Nat
    BY CostsAreNatural
  <2> QED
    BY <1>1, <2>1
<1>4. LineStart(field)[v] = v * NormalLineCycles
  BY <1>1, <1>2, <1>3, LinesBefore
<1>5. /\ DotOffset[field][v][0] = LineStart(field)[v] + DotStart(v, field)[0]
      /\ DotStart(v, field)[0] = 0
  BY <1>1, Offsets, DotStarts
<1>6. DotOffset[field][v][0] = v * NormalLineCycles
  BY <1>3, <1>4, <1>5
<1>7. FrameStart(pair, field) \in Nat
  BY <1>1, DotTimes
<1> QED
  BY <1>3, <1>6, <1>7 DEF DotTime

(***************************************************************************)
(* A frame is followed by one of the other field.                          *)
(***************************************************************************)
LEMMA FrameFollows ==
  ASSUME NEW pair \in Nat, NEW field \in BOOLEAN
  PROVE  \E q \in Nat : FrameStart(pair, field) + FrameCycles(field) = FrameStart(q, ~field)
<1>1. CASE field = FALSE
  <2>1. FrameStart(pair, field) = TwoFrames * pair /\ FrameCycles(field) = EvenFrame
    BY <1>1, FrameStarts, Zenon DEF EvenFrame
  <2>2. FrameStart(pair, ~field) = TwoFrames * pair + EvenFrame
    BY <1>1, FrameStarts, Zenon
  <2> QED
    BY <2>1, <2>2, Zenon
<1>2. CASE field = TRUE
  <2>1. FrameStart(pair, field) = TwoFrames * pair + EvenFrame /\ FrameCycles(field) = OddFrame
    BY <1>2, FrameStarts, Zenon DEF OddFrame
  <2>2. pair + 1 \in Nat
    OBVIOUS
  <2>3. FrameStart(pair + 1, ~field) = TwoFrames * (pair + 1)
    BY <1>2, <2>2, FrameStarts, Zenon
  <2>4. TwoFrames * (pair + 1) = TwoFrames * pair + EvenFrame + OddFrame
    <3>1. ASSUME NEW a \in Nat, NEW b \in Nat
          PROVE  (a + b) * (pair + 1) = (a + b) * pair + a + b
      OBVIOUS
    <3> QED
      BY <3>1, TwoFramesAre
  <2>5. FrameStart(pair, field) + FrameCycles(field) = FrameStart(pair + 1, ~field)
    BY <2>1, <2>3, <2>4, Zenon
  <2> QED
    BY <2>2, <2>5
<1>3. field = TRUE \/ field = FALSE
  OBVIOUS
<1> QED
  BY <1>1, <1>2, <1>3

(***************************************************************************)
(* The frame at the start of which the beam is at a line, and when.        *)
(***************************************************************************)
LEMMA LineOfFrame ==
  ASSUME NEW t \in Nat, NEW v \in Line, DotBegins(0, v, t)
  PROVE  /\ BeamAt(t).field \in BOOLEAN
         /\ \E pair \in Nat : t = DotTime(pair, BeamAt(t).field, v, 0)
<1> DEFINE b == BeamAt(t)
<1>1. b.h = 0 /\ b.v = v /\ b.partial = 0
  BY DEF DotBegins
<1>2. b.field \in BOOLEAN
  BY TimeInDot
<1>3. PICK pair \in Nat : t = DotTime(pair, b.field, b.v, b.h) + b.partial
  BY TimeInDot
<1> HIDE DEF b
<1>4. t = DotTime(pair, b.field, v, 0) + 0
  BY <1>1, <1>3, Zenon
<1>5. DotTime(pair, b.field, v, 0) \in Nat
  BY <1>2, DotTimes, RasterSizes
<1> QED
  BY <1>2, <1>4, <1>5 DEF b

(***************************************************************************)
(* One frame, of the length of the present field, after a line up to the   *)
(* short one begins, the line begins again in a frame of the other field:  *)
(* what a fence that reschedules itself relies on.                         *)
(***************************************************************************)
THEOREM LineComesAgain ==
  ASSUME NEW t \in Nat, NEW v \in Line, v <= ShortLine, DotBegins(0, v, t)
  PROVE  LET next == t + FrameCycles(BeamAt(t).field)
         IN  DotBegins(0, v, next) /\ BeamAt(next).field = ~BeamAt(t).field
<1>1. PICK field \in BOOLEAN : field = BeamAt(t).field
  BY LineOfFrame
<1>2. PICK pair \in Nat : t = DotTime(pair, field, v, 0)
  BY <1>1, LineOfFrame
<1>3. PICK q \in Nat : FrameStart(pair, field) + FrameCycles(field) = FrameStart(q, ~field)
  BY FrameFollows
<1>4. PICK other \in BOOLEAN : other = ~field
  OBVIOUS
<1>5. /\ t = FrameStart(pair, field) + v * NormalLineCycles
      /\ FrameStart(pair, field) \in Nat /\ v * NormalLineCycles \in Nat
  BY <1>2, LineTime
<1>6. DotTime(q, other, v, 0) = FrameStart(q, other) + v * NormalLineCycles
  BY LineTime
<1>7. t + FrameCycles(field) = DotTime(q, other, v, 0)
  <2>1. FrameCycles(field) \in Nat
    BY FrameLength
  <2>2. FrameStart(pair, field) + FrameCycles(field) = FrameStart(q, other)
    BY <1>3, <1>4
  <2> QED
    BY <1>5, <1>6, <2>1, <2>2
<1>8. BeamAt(t + FrameCycles(field)) = [h |-> 0, v |-> v, field |-> other, partial |-> 0]
  BY <1>7, DotTimes, RasterSizes
<1> QED
  BY <1>1, <1>4, <1>8 DEF DotBegins

(***************************************************************************)
(* The lines of the first frame begin at multiples of the normal length.   *)
(***************************************************************************)
LEMMA FirstLines ==
  ASSUME NEW v \in Line, v <= ShortLine
  PROVE  /\ v * NormalLineCycles \in Nat /\ DotBegins(0, v, v * NormalLineCycles)
         /\ BeamAt(v * NormalLineCycles).field = FALSE
<1>1. PICK field \in BOOLEAN : field = FALSE
  OBVIOUS
<1>2. FrameStart(0, field) = 0
  <2>1. FrameStart(0, FALSE) = TwoFrames * 0
    BY FrameStarts, Zenon
  <2>2. TwoFrames * 0 = 0
    BY TwoFramesAre
  <2> QED
    BY <1>1, <2>1, <2>2, Zenon
<1>3. v * NormalLineCycles = DotTime(0, field, v, 0) /\ v * NormalLineCycles \in Nat
  BY <1>2, LineTime
<1>4. BeamAt(v * NormalLineCycles) = [h |-> 0, v |-> v, field |-> field, partial |-> 0]
  BY <1>3, DotTimes, RasterSizes
<1> QED
  BY <1>1, <1>3, <1>4 DEF DotBegins

(***************************************************************************)
(* The cursor ComputeNextMatch starts from: the start of the present       *)
(* frame, off by the cycles the beam is into its dot.                      *)
(***************************************************************************)
LEMMA CursorIs ==
  ASSUME NEW p \in Nat
  PROVE  LET b == BeamAt(p)
         IN  \E pair \in Nat :
               /\ CursorOrigin(p) = FrameStart(pair, b.field) + b.partial
               /\ CursorOrigin(p) \in Nat /\ CursorOrigin(p) <= p
               /\ p = DotTime(pair, b.field, b.v, b.h) + b.partial
<1> DEFINE b == BeamAt(p)
<1>1. PICK pair \in Nat : p = DotTime(pair, b.field, b.v, b.h) + b.partial
  BY TimeInDot
<1>2. b.h \in Dot /\ b.v \in Line /\ b.field \in BOOLEAN /\ b.partial \in 0..(LongDotCycles - 1)
  BY TimeInDot
<1>3. CursorOrigin(p) = p - (0 + DotOffset[b.field][b.v][b.h])
  BY DEF CursorOrigin, MasterCycleAt
<1> HIDE DEF b
<1>4. /\ FrameStart(pair, b.field) \in Nat /\ DotOffset[b.field][b.v][b.h] \in Nat
      /\ b.partial \in Nat
  <2>1. b.v \in 0..LinesPerFrame
    BY <1>2, RasterSizes DEF Line
  <2> QED
    BY <1>2, <2>1, DotTimes, Offsets, RasterAssumption
<1>5. /\ CursorOrigin(p) = FrameStart(pair, b.field) + b.partial
      /\ CursorOrigin(p) \in Nat /\ CursorOrigin(p) <= p
  BY <1>1, <1>3, <1>4 DEF DotTime
<1> QED
  BY <1>1, <1>5 DEF b

-----------------------------------------------------------------------------
(***************************************************************************)
(* The candidates of ComputeNextMatch, one for each frame of the walk and  *)
(* each line of it.                                                        *)
(***************************************************************************)
Programmed(m, ht, vt, d) ==
  DotBegins(IF HEnabled(m) THEN ht ELSE 0, IF VEnabled(m) THEN vt ELSE BeamAt(d).v, d)

LastFrame(t) == 2 * (1 + t \div TwoFrames)

MatchDot(m, ht) == IF HEnabled(m) THEN ht ELSE 0

MatchLines(m, vt, p, k) ==
  IF VEnabled(m) THEN {vt} ELSE (IF k = 0 THEN BeamAt(p).v ELSE 0)..(LinesPerFrame - 1)

CandidateIn(m, ht, p, k, v) ==
  MasterCycleAt(MatchDot(m, ht), v, OriginAfter(CursorOrigin(p), BeamAt(p).field, k),
                FieldAfter(BeamAt(p).field, k))

(***************************************************************************)
(* The candidates, frame by frame and line by line.                        *)
(***************************************************************************)
LEMMA CandidatesAre ==
  ASSUME NEW m, NEW ht, NEW vt, NEW t, NEW p, NEW c
  PROVE  c \in Candidates(m, ht, vt, t, p) <=>
           \E k \in 0..LastFrame(t) : \E v \in MatchLines(m, vt, p, k) :
             c = CandidateIn(m, ht, p, k, v)
<1>1. Candidates(m, ht, vt, t, p)
        = UNION {{CandidateIn(m, ht, p, k, v) : v \in MatchLines(m, vt, p, k)} : k \in 0..LastFrame(t)}
  BY DEF Candidates, LastFrame, MatchLines, CandidateIn, MatchDot, OriginAfter, FieldAfter
<1> QED
  BY <1>1

(***************************************************************************)
(* In every reachable mode the dot compared is a dot of the line, and each *)
(* later frame has a line to compare.                                      *)
(***************************************************************************)
LEMMA MatchRange ==
  ASSUME NEW m, NEW ht \in Nat, NEW vt \in Nat, ReachableMatch(m, ht, vt), NEW p \in Nat, NEW k \in Nat
  PROVE  /\ MatchDot(m, ht) \in Dot /\ MatchLines(m, vt, p, k) \subseteq Line
         /\ k # 0 => MatchLines(m, vt, p, k) # {}
<1>1. MatchDot(m, ht) \in Dot
  BY RasterSizes DEF ReachableMatch, MatchDot, Dot
<1>2. BeamAt(p).v \in Line
  BY TimeInDot
<1>3. BeamAt(p).v \in Nat /\ LinesPerFrame \in Nat \ {0}
  BY <1>2, RasterSizes
<1>4. CASE VEnabled(m)
  BY <1>1, <1>4, RasterSizes DEF ReachableMatch, MatchLines, Line
<1>5. CASE ~VEnabled(m)
  BY <1>1, <1>3, <1>5 DEF MatchLines, Line
<1> QED
  BY <1>4, <1>5

(***************************************************************************)
(* The candidate of frame k and line v is the programmed dot of that line, *)
(* late by the cycles the cursor was into its own dot.                     *)
(***************************************************************************)
CandidateDot(m, ht, vt, p, origin, k, v, pair, field) ==
  /\ field = FieldAfter(BeamAt(p).field, k)
  /\ FrameNumber(pair, field) = FrameNumber(origin, BeamAt(p).field) + k
  /\ OriginAfter(CursorOrigin(p), BeamAt(p).field, k) = FrameStart(pair, field) + BeamAt(p).partial
  /\ CandidateIn(m, ht, p, k, v) = DotTime(pair, field, v, MatchDot(m, ht)) + BeamAt(p).partial
  /\ Programmed(m, ht, vt, DotTime(pair, field, v, MatchDot(m, ht)))

(***************************************************************************)
(* Every candidate is a programmed dot, off by the cycles the cursor was   *)
(* into its dot when the walk began.                                       *)
(***************************************************************************)
LEMMA CandidateIsDot ==
  ASSUME NEW m, NEW ht \in Nat, NEW vt \in Nat, ReachableMatch(m, ht, vt), NEW p \in Nat,
         NEW origin \in Nat, CursorOrigin(p) = FrameStart(origin, BeamAt(p).field) + BeamAt(p).partial,
         NEW k \in Nat, NEW v \in MatchLines(m, vt, p, k)
  PROVE  \E pair \in Nat, field \in BOOLEAN :
           CandidateDot(m, ht, vt, p, origin, k, v, pair, field)
<1> DEFINE b == BeamAt(p)
           h == MatchDot(m, ht)
<1>1. b.field \in BOOLEAN /\ b.partial \in Nat
  BY TimeInDot, RasterAssumption
<1>2. h \in Dot /\ v \in Line
  BY MatchRange
<1> HIDE DEF b, h
<1>3. PICK pair \in Nat, field \in BOOLEAN :
        Walked(origin, b.field, b.partial, k, pair, field)
  <2>1. WalkReaches(origin, b.field, b.partial, k)
    BY <1>1, Walk
  <2> QED
    BY <2>1, Zenon DEF WalkReaches
<1>4. /\ field = FieldAfter(b.field, k)
      /\ OriginAfter(FrameStart(origin, b.field) + b.partial, b.field, k)
           = FrameStart(pair, field) + b.partial
      /\ FrameNumber(pair, field) = FrameNumber(origin, b.field) + k
  BY <1>3, Zenon DEF Walked
<1>5. /\ FrameStart(pair, field) \in Nat
      /\ BeamAt(DotTime(pair, field, v, h)) = [h |-> h, v |-> v, field |-> field, partial |-> 0]
  BY <1>2, DotTimes
<1>6. DotOffset[field][v][h] \in Nat
  <2>1. v \in 0..LinesPerFrame
    BY <1>2, RasterSizes DEF Line
  <2> QED
    BY <1>2, <2>1, Offsets
<1>7. CursorOrigin(p) = FrameStart(origin, b.field) + b.partial
  BY DEF b
<1>8. OriginAfter(CursorOrigin(p), b.field, k) = FrameStart(pair, field) + b.partial
  BY <1>4, <1>7, Zenon
<1>9. CandidateIn(m, ht, p, k, v)
        = (FrameStart(pair, field) + b.partial) + DotOffset[field][v][h]
  BY <1>4, <1>8, Zenon DEF CandidateIn, MasterCycleAt, b, h
<1>10. CandidateIn(m, ht, p, k, v) = DotTime(pair, field, v, h) + b.partial
  BY <1>1, <1>5, <1>6, <1>9 DEF DotTime
<1>11. Programmed(m, ht, vt, DotTime(pair, field, v, h))
  <2>1. h = IF HEnabled(m) THEN ht ELSE 0
    BY DEF h, MatchDot
  <2>2. VEnabled(m) => v = vt
    BY DEF MatchLines
  <2> QED
    BY <1>5, <2>1, <2>2 DEF Programmed, DotBegins
<1> QED
  BY <1>4, <1>8, <1>10, <1>11, Zenon DEF b, h, CandidateDot

(***************************************************************************)
(* A programmed dot after the cursor is a candidate, or so late that every *)
(* candidate comes before it: the walk skips none.                         *)
(***************************************************************************)
LEMMA DotIsCandidate ==
  ASSUME NEW m, NEW ht \in Nat, NEW vt \in Nat, ReachableMatch(m, ht, vt), NEW p \in Nat,
         NEW t \in Nat, NEW d \in Nat, Programmed(m, ht, vt, d), d > p
  PROVE  \/ d + BeamAt(p).partial \in Candidates(m, ht, vt, t, p)
         \/ \A c \in Candidates(m, ht, vt, t, p) : c < d + BeamAt(p).partial
<1> DEFINE b == BeamAt(p)
           e == BeamAt(d)
           h == MatchDot(m, ht)
<1>1. b.field \in BOOLEAN /\ b.partial \in Nat /\ b.h \in Dot /\ b.v \in Line
      /\ b.partial \in 0..(DotCost(b.h, b.v, b.field) - 1)
  BY TimeInDot, RasterAssumption
<1>2. PICK origin \in Nat : /\ CursorOrigin(p) = FrameStart(origin, b.field) + b.partial
                            /\ p = DotTime(origin, b.field, b.v, b.h) + b.partial
  BY CursorIs
<1>3. PICK pair \in Nat : /\ d = DotTime(pair, e.field, e.v, e.h) + e.partial
                          /\ d < FrameStart(pair, e.field) + FrameCycles(e.field)
  BY TimeInDot
<1>4. e.field \in BOOLEAN /\ e.h \in Dot /\ e.v \in Line
  BY TimeInDot
<1>5. e.h = h /\ e.partial = 0 /\ (VEnabled(m) => e.v = vt)
  BY DEF Programmed, DotBegins, MatchDot
<1> HIDE DEF b, e, h
<1>6. /\ DotTime(pair, e.field, e.v, e.h) \in Nat /\ FrameStart(pair, e.field) \in Nat
      /\ FrameCycles(e.field) \in Nat
      /\ FrameStart(pair, e.field) <= DotTime(pair, e.field, e.v, e.h)
  BY <1>4, DotTimes, FrameLength
<1>7. d = DotTime(pair, e.field, e.v, h)
  BY <1>3, <1>5, <1>6
<1>8. /\ DotTime(origin, b.field, b.v, b.h) \in Nat /\ FrameStart(origin, b.field) \in Nat
      /\ FrameStart(origin, b.field) <= DotTime(origin, b.field, b.v, b.h)
  BY <1>1, DotTimes
<1> DEFINE first == FrameNumber(origin, b.field)
           this == FrameNumber(pair, e.field)
<1>9. first \in Nat /\ this \in Nat
  BY <1>1, <1>4 DEF FrameNumber
<1>10. first <= this
  <2>1. SUFFICES ASSUME this < first PROVE FALSE
    BY <1>9
  <2>2. FrameStart(pair, e.field) + FrameCycles(e.field) <= FrameStart(origin, b.field)
    BY <1>1, <1>4, <2>1, FrameOrder
  <2> QED
    BY <1>1, <1>2, <1>3, <1>6, <1>8, <2>2
<1> HIDE DEF first, this
<1>11. PICK k \in Nat : this = first + k
  <2>1. this - first \in Nat /\ this = first + (this - first)
    BY <1>9, <1>10
  <2> QED
    BY <2>1
<1>12. LastFrame(t) \in Nat
  BY TwoFramesAre DEF LastFrame
<1>13. CASE k <= LastFrame(t)
  <2>1. e.v \in MatchLines(m, vt, p, k)
    <3>1. CASE VEnabled(m)
      BY <1>5, <3>1 DEF MatchLines
    <3>2. CASE ~VEnabled(m) /\ k # 0
      BY <1>4, <3>2, RasterSizes DEF MatchLines, Line
    <3>3. CASE ~VEnabled(m) /\ k = 0
      <4>1. origin = pair /\ b.field = e.field
        <5>1. FrameNumber(origin, b.field) = FrameNumber(pair, e.field)
          BY <1>9, <1>11, <3>3 DEF first, this
        <5> QED
          BY <1>1, <1>4, <5>1, FrameNumberOfOne
      <4>2. ~(e.v < b.v)
        <5>1. SUFFICES ASSUME e.v < b.v PROVE FALSE
          OBVIOUS
        <5>2. DotCost(h, e.v, b.field) \in Nat \ {0} /\ h \in Dot
          <6>1. h \in Nat /\ e.v \in Nat
            BY <1>4, <1>5, RasterSizes
          <6> QED
            BY <1>1, <1>4, <1>5, <6>1, CostsAreNatural
        <5>3. 0 \in 0..(DotCost(h, e.v, b.field) - 1)
          BY <5>2
        <5>4. DotOffset[b.field][e.v][h] + 0 < DotOffset[b.field][b.v][b.h]
          BY <1>1, <1>4, <5>1, <5>2, <5>3, LinesInOrder
        <5>5. /\ DotOffset[b.field][e.v][h] \in Nat /\ DotOffset[b.field][b.v][b.h] \in Nat
          <6>1. e.v \in 0..LinesPerFrame /\ b.v \in 0..LinesPerFrame
            BY <1>1, <1>4, RasterSizes DEF Line
          <6> QED
            BY <1>1, <5>2, <6>1, Offsets
        <5>6. d = FrameStart(origin, b.field) + DotOffset[b.field][e.v][h]
          BY <1>7, <4>1 DEF DotTime
        <5>7. p = FrameStart(origin, b.field) + DotOffset[b.field][b.v][b.h] + b.partial
          BY <1>2 DEF DotTime
        <5> QED
          <6>1. PICK start \in Nat, near \in Nat, far \in Nat, part \in Nat :
                   /\ start = FrameStart(origin, b.field) /\ near = DotOffset[b.field][e.v][h]
                   /\ far = DotOffset[b.field][b.v][b.h] /\ part = b.partial
            BY <1>1, <1>8, <5>5, Zenon
          <6>2. d = start + near /\ p = start + far + part
            BY <5>6, <5>7, <6>1, Zenon
          <6>3. near + 0 < far
            BY <5>4, <6>1, Zenon
          <6>4. d < p
            BY <6>2, <6>3
          <6> QED
            BY <6>4
      <4>3. MatchLines(m, vt, p, k) = (b.v)..(LinesPerFrame - 1)
        BY <3>3 DEF MatchLines, b
      <4>4. e.v \in Nat /\ b.v \in Nat /\ e.v <= LinesPerFrame - 1
        BY <1>1, <1>4, RasterSizes DEF Line
      <4> QED
        BY <4>2, <4>3, <4>4, RasterSizes
    <3> QED
      BY <3>1, <3>2, <3>3
  <2>2. PICK q \in Nat, f \in BOOLEAN : CandidateDot(m, ht, vt, p, origin, k, e.v, q, f)
    <3>1. CursorOrigin(p) = FrameStart(origin, BeamAt(p).field) + BeamAt(p).partial
      BY <1>2 DEF b
    <3> QED
      BY <2>1, <3>1, CandidateIsDot
  <2>3. /\ FrameNumber(q, f) = FrameNumber(origin, b.field) + k
        /\ CandidateIn(m, ht, p, k, e.v) = DotTime(q, f, e.v, h) + b.partial
    BY <2>2, Zenon DEF CandidateDot, b, h
  <2>4. CandidateIn(m, ht, p, k, e.v) = d + b.partial
    <3>1. FrameNumber(q, f) = FrameNumber(pair, e.field)
      BY <1>11, <2>3, Zenon DEF first, this
    <3>2. q = pair /\ f = e.field
      BY <1>4, <3>1, FrameNumberOfOne
    <3> QED
      BY <1>7, <2>3, <3>2, Zenon
  <2>5. k \in 0..LastFrame(t)
    BY <1>12, <1>13
  <2> QED
    BY <2>1, <2>4, <2>5, CandidatesAre DEF b
<1>14. CASE ~(k <= LastFrame(t))
  <2>1. ASSUME NEW c \in Candidates(m, ht, vt, t, p)
        PROVE  c < d + b.partial
    <3>1. PICK j \in 0..LastFrame(t) : \E v \in MatchLines(m, vt, p, j) :
                                          c = CandidateIn(m, ht, p, j, v)
      BY CandidatesAre
    <3>2. PICK v \in MatchLines(m, vt, p, j) : c = CandidateIn(m, ht, p, j, v)
      BY <3>1
    <3>3. j \in Nat /\ j < k
      BY <1>12, <1>14
    <3>4. PICK q \in Nat, g \in BOOLEAN : CandidateDot(m, ht, vt, p, origin, j, v, q, g)
      <4>1. CursorOrigin(p) = FrameStart(origin, BeamAt(p).field) + BeamAt(p).partial
        BY <1>2 DEF b
      <4> QED
        BY <3>3, <4>1, CandidateIsDot
    <3>5. /\ FrameNumber(q, g) = FrameNumber(origin, b.field) + j
          /\ c = DotTime(q, g, v, h) + b.partial
      BY <3>2, <3>4, Zenon DEF CandidateDot, b, h
    <3>6. h \in Dot /\ v \in Line
      BY <3>3, MatchRange DEF h
    <3>7. FrameNumber(q, g) < FrameNumber(pair, e.field)
      <4>1. FrameNumber(q, g) = first + j
        BY <3>5, Zenon DEF first
      <4> QED
        BY <1>9, <1>11, <3>3, <4>1 DEF this
    <3>8. FrameStart(q, g) + FrameCycles(g) <= FrameStart(pair, e.field)
      BY <1>4, <3>7, FrameOrder
    <3>9. /\ DotTime(q, g, v, h) \in Nat /\ FrameStart(q, g) \in Nat /\ FrameCycles(g) \in Nat
          /\ DotTime(q, g, v, h) < FrameStart(q, g) + FrameCycles(g)
      BY <3>6, DotTimes, FrameLength
    <3>10. FrameStart(pair, e.field) <= d
      BY <1>5, <1>6, <1>7
    <3> QED
      BY <1>1, <1>6, <3>5, <3>8, <3>9, <3>10
  <2> QED
    BY <2>1 DEF b
<1> QED
  BY <1>13, <1>14

(***************************************************************************)
(* The walk is long enough: its last frame lies past t, and not more than  *)
(* two frames past p + t.                                                  *)
(***************************************************************************)
LEMMA LateCandidate ==
  ASSUME NEW m, NEW ht \in Nat, NEW vt \in Nat, ReachableMatch(m, ht, vt),
         NEW t \in Nat, NEW p \in Nat
  PROVE  \E c \in Candidates(m, ht, vt, t, p) : t < c /\ c <= p + t + 2 * TwoFrames
<1> DEFINE b == BeamAt(p)
           h == MatchDot(m, ht)
           k == LastFrame(t)
<1>1. b.field \in BOOLEAN /\ b.partial \in Nat
  BY TimeInDot, RasterAssumption
<1>2. TwoFrames \in Nat \ {0} /\ EvenFrame \in Nat \ {0} /\ OddFrame \in Nat \ {0}
      /\ TwoFrames = EvenFrame + OddFrame
  BY TwoFramesAre
<1>3. PICK turns \in Nat : turns = t \div TwoFrames
  BY <1>2
<1>4. k = 2 * (1 + turns) /\ k \in Nat /\ k # 0 /\ k % 2 = 0 /\ k \div 2 = 1 + turns
  <2>1. k = 2 * (1 + turns)
    BY <1>3 DEF LastFrame
  <2> HIDE DEF k
  <2> QED
    BY <2>1
<1>5. k \in 0..LastFrame(t)
  BY <1>4
<1>6. PICK v \in MatchLines(m, vt, p, k) : TRUE
  <2>1. MatchLines(m, vt, p, k) # {}
    BY <1>4, MatchRange
  <2> QED
    BY <2>1
<1>7. h \in Dot /\ v \in Line
  BY <1>4, MatchRange
<1> HIDE DEF b, h, k
<1>8. PICK origin \in Nat : /\ CursorOrigin(p) = FrameStart(origin, b.field) + b.partial
                            /\ CursorOrigin(p) \in Nat /\ CursorOrigin(p) <= p
  BY CursorIs DEF b
<1>9. PICK pair \in Nat, field \in BOOLEAN : CandidateDot(m, ht, vt, p, origin, k, v, pair, field)
  <2>1. CursorOrigin(p) = FrameStart(origin, BeamAt(p).field) + BeamAt(p).partial
    BY <1>8 DEF b
  <2> QED
    BY <1>4, <2>1, CandidateIsDot
<1>10. /\ OriginAfter(CursorOrigin(p), b.field, k) = FrameStart(pair, field) + b.partial
       /\ CandidateIn(m, ht, p, k, v) = DotTime(pair, field, v, h) + b.partial
  BY <1>9, Zenon DEF CandidateDot, b, h
<1>11. /\ FrameStart(pair, field) \in Nat /\ DotTime(pair, field, v, h) \in Nat
       /\ FrameStart(pair, field) <= DotTime(pair, field, v, h)
       /\ DotTime(pair, field, v, h) < FrameStart(pair, field) + FrameCycles(field)
       /\ FrameCycles(field) \in Nat
  BY <1>7, DotTimes, FrameLength
<1>12. FrameCycles(field) <= TwoFrames
  <2>1. CASE field = TRUE
    <3>1. FrameCycles(field) = OddFrame
      BY <2>1, Zenon DEF OddFrame
    <3> QED
      BY <1>2, <3>1
  <2>2. CASE field = FALSE
    <3>1. FrameCycles(field) = EvenFrame
      BY <2>2, Zenon DEF EvenFrame
    <3> QED
      BY <1>2, <3>1
  <2> QED
    BY <2>1, <2>2
<1>13. PICK walked \in Nat : walked = (1 + turns) * TwoFrames
  BY <1>2
<1>14. OriginAfter(CursorOrigin(p), b.field, k) = CursorOrigin(p) + walked + 0
  BY <1>4, <1>13, Zenon DEF OriginAfter
<1>15. t < walked /\ walked <= t + TwoFrames
  <2>1. PICK rest \in 0..(TwoFrames - 1) : t = TwoFrames * (t \div TwoFrames) + rest
    <3>1. ASSUME NEW n \in Nat \ {0}
          PROVE  (t % n) \in 0..(n - 1) /\ t = n * (t \div n) + (t % n)
      OBVIOUS
    <3> QED
      BY <1>2, <3>1
  <2>2. PICK x \in Nat : x = TwoFrames * turns
    BY <1>2
  <2>3. walked = x + TwoFrames
    BY <1>2, <1>13, <2>2
  <2> QED
    BY <1>2, <1>3, <2>1, <2>2, <2>3
<1>16. /\ t < CandidateIn(m, ht, p, k, v)
       /\ CandidateIn(m, ht, p, k, v) <= p + t + 2 * TwoFrames
  BY <1>1, <1>2, <1>8, <1>10, <1>11, <1>12, <1>14, <1>15
<1>17. CandidateIn(m, ht, p, k, v) \in Candidates(m, ht, vt, t, p)
  BY <1>5, CandidatesAre
<1> QED
  BY <1>16, <1>17

(***************************************************************************)
(* What ComputeNextMatch returns for a programming the beam can reach: a   *)
(* time after t, late by the partial dot of the cursor on a programmed     *)
(* dot, and before no later one: it is at most that late on every          *)
(* programmed dot that follows both the cursor and t.                      *)
(***************************************************************************)
FirstMatch(m, ht, vt, t, p, next) ==
  LET late == BeamAt(p).partial
  IN  /\ next \in Nat /\ t < next /\ next <= p + t + 2 * TwoFrames
      /\ \E d \in Nat : next = d + late /\ Programmed(m, ht, vt, d)
      /\ \A d \in Nat : Programmed(m, ht, vt, d) /\ d > p /\ d > t => next <= d + late

(***************************************************************************)
(* For every raster, every comparison the beam can reach, every present    *)
(* time t and every time p the walk starts from, ComputeNextMatch returns  *)
(* a time after t and at most a dot late on a programmed dot, and it       *)
(* passes over none that begins after both (FirstMatch).                   *)
(***************************************************************************)
THEOREM NextMatchIsFirst ==
  ASSUME NEW m, NEW ht \in Nat, NEW vt \in Nat, ReachableMatch(m, ht, vt),
         NEW t \in Nat, NEW p \in Nat
  PROVE  FirstMatch(m, ht, vt, t, p, ComputeNextMatch(m, ht, vt, t, p))
<1> DEFINE Cs == Candidates(m, ht, vt, t, p)
           later == {c \in Cs : c > t}
           next == ComputeNextMatch(m, ht, vt, t, p)
           late == BeamAt(p).partial
<1>1. late \in Nat
  BY TimeInDot, RasterAssumption
<1>2. ASSUME NEW c \in Cs
      PROVE  c \in Nat /\ \E d \in Nat : c = d + late /\ Programmed(m, ht, vt, d)
  <2>1. PICK k \in 0..LastFrame(t) : \E v \in MatchLines(m, vt, p, k) : c = CandidateIn(m, ht, p, k, v)
    BY CandidatesAre
  <2>2. PICK v \in MatchLines(m, vt, p, k) : c = CandidateIn(m, ht, p, k, v)
    BY <2>1
  <2>3. k \in Nat
    BY TwoFramesAre DEF LastFrame
  <2>4. PICK origin \in Nat : CursorOrigin(p) = FrameStart(origin, BeamAt(p).field) + BeamAt(p).partial
    BY CursorIs
  <2>5. PICK pair \in Nat, field \in BOOLEAN : CandidateDot(m, ht, vt, p, origin, k, v, pair, field)
    BY <2>3, <2>4, CandidateIsDot
  <2>6. /\ c = DotTime(pair, field, v, MatchDot(m, ht)) + late
        /\ Programmed(m, ht, vt, DotTime(pair, field, v, MatchDot(m, ht)))
    BY <2>2, <2>5, Zenon DEF CandidateDot
  <2>7. v \in Line /\ MatchDot(m, ht) \in Dot
    BY <2>3, MatchRange
  <2>8. DotTime(pair, field, v, MatchDot(m, ht)) \in Nat
    BY <2>7, DotTimes
  <2> HIDE DEF late
  <2> QED
    BY <1>1, <2>6, <2>8
<1>3. later \in SUBSET Nat
  BY <1>2
<1>4. PICK c \in later : c <= p + t + 2 * TwoFrames
  BY LateCandidate
<1>5. next = CHOOSE x \in later : \A y \in later : x <= y
  BY DEF ComputeNextMatch, Min
<1>6. next \in later /\ \A y \in later : next <= y
  <2> HIDE DEF later, next
  <2>1. \E x \in later : \A y \in later : x <= y
    BY <1>3, <1>4, LeastNatural
  <2> QED
    BY <1>5, <2>1
<1>7. next \in Cs /\ next > t /\ next \in Nat
  BY <1>3, <1>6
<1>8. next <= p + t + 2 * TwoFrames
  <2>1. next <= c /\ c \in Nat
    BY <1>3, <1>4, <1>6
  <2> HIDE DEF next, later
  <2> QED
    BY <1>4, <1>7, <2>1, TwoFramesAre
<1>9. \E d \in Nat : next = d + late /\ Programmed(m, ht, vt, d)
  BY <1>2, <1>7
<1>10. ASSUME NEW d \in Nat, Programmed(m, ht, vt, d), d > p, d > t
       PROVE  next <= d + late
  <2>1. CASE d + late \in Cs
    <3>1. d + late \in later
      BY <1>1, <1>10, <2>1
    <3> QED
      BY <1>6, <3>1
  <2>2. CASE \A x \in Cs : x < d + late
    <3>1. next < d + late
      BY <1>7, <2>2
    <3> HIDE DEF next, late
    <3> QED
      BY <1>1, <1>7, <3>1
  <2> QED
    BY <1>10, <2>1, <2>2, DotIsCandidate
<1> HIDE DEF next, Cs, later
<1>11. t < next
  BY <1>7
<1> QED
  BY <1>7, <1>8, <1>9, <1>10, <1>11 DEF FirstMatch, next

-----------------------------------------------------------------------------
(***************************************************************************)
(* The queue's order, as the machine uses it.  The kinds are the numbers   *)
(* of the enumeration.                                                     *)
(***************************************************************************)
LEMMA KindsAreNumbers == SignalKind \subseteq Nat
  BY DEF SignalKind, FrameEnd, VblankNmiBoundary, HIrqMatch, AutoJoypadStart, HdmaFire

(***************************************************************************)
(* The top of the queue is the earliest event.                             *)
(***************************************************************************)
LEMMA TopIsFirst ==
  ASSUME NEW q \in SUBSET SignalEvent, NEW e, IsTop(e, q)
  PROVE  \A d \in q : e.time <= d.time
<1>1. e \in q /\ \A d \in q \ {e} : Before(e, d)
  BY DEF IsTop
<1>2. ASSUME NEW d \in q
      PROVE  e.time <= d.time
  <2>1. d.time \in Nat /\ e.time \in Nat
    BY <1>1 DEF SignalEvent
  <2>2. CASE d = e
    BY <2>1, <2>2
  <2>3. CASE d # e
    <3>1. Before(e, d)
      BY <1>1, <2>3
    <3> QED
      BY <2>1, <3>1 DEF Before
  <2> QED
    BY <2>2, <2>3
<1> QED
  BY <1>2

(***************************************************************************)
(* A non-empty queue has a top: comparing by time, kind and sequence       *)
(* number picks one event.                                                 *)
(***************************************************************************)
LEMMA TopExists ==
  ASSUME NEW q \in SUBSET SignalEvent, q # {}
  PROVE  \E e : IsTop(e, q)
<1> DEFINE times == {e.time : e \in q}
<1>1. PICK time \in times : \A x \in times : time <= x
  <2>1. times \in SUBSET Nat /\ times # {}
    BY DEF SignalEvent
  <2> HIDE DEF times
  <2> QED
    BY <2>1, LeastNatural
<1> DEFINE kinds == {e.kind : e \in {d \in q : d.time = time}}
<1>2. PICK kind \in kinds : \A x \in kinds : kind <= x
  <2>1. kinds \in SUBSET Nat /\ kinds # {}
    BY <1>1, KindsAreNumbers DEF SignalEvent
  <2> HIDE DEF kinds, times
  <2> QED
    BY <2>1, LeastNatural
<1> DEFINE seqs == {e.seq : e \in {d \in q : d.time = time /\ d.kind = kind}}
<1>3. PICK seq \in seqs : \A x \in seqs : seq <= x
  <2>1. seqs \in SUBSET Nat /\ seqs # {}
    BY <1>2 DEF SignalEvent
  <2> HIDE DEF seqs, kinds, times
  <2> QED
    BY <2>1, LeastNatural
<1>4. PICK e \in q : e.time = time /\ e.kind = kind /\ e.seq = seq
  BY <1>3
<1>5. ASSUME NEW d \in q \ {e}
      PROVE  Before(e, d)
  <2>1. /\ e.time \in Nat /\ e.kind \in Nat /\ e.seq \in Nat
        /\ d.time \in Nat /\ d.kind \in Nat /\ d.seq \in Nat
    BY KindsAreNumbers DEF SignalEvent
  <2>2. e.time <= d.time
    BY <1>1, <1>4
  <2>3. CASE d.time = e.time /\ d.kind = e.kind
    <3>1. d.seq \in seqs
      BY <1>4, <2>3
    <3>2. e.seq <= d.seq
      BY <1>3, <1>4, <3>1
    <3>3. e.seq # d.seq
      <4>1. /\ e = [time |-> e.time, kind |-> e.kind, seq |-> e.seq]
            /\ d = [time |-> d.time, kind |-> d.kind, seq |-> d.seq]
        BY DEF SignalEvent
      <4> QED
        BY <2>3, <4>1
    <3> QED
      BY <2>1, <2>3, <3>2, <3>3 DEF Before
  <2>4. CASE d.time = e.time /\ d.kind # e.kind
    <3>1. d.kind \in kinds
      BY <1>4, <2>4
    <3>2. e.kind <= d.kind
      BY <1>2, <1>4, <3>1
    <3> QED
      BY <2>1, <2>4, <3>2 DEF Before
  <2>5. CASE d.time # e.time
    BY <2>1, <2>2, <2>5 DEF Before
  <2> QED
    BY <2>3, <2>4, <2>5
<1> QED
  BY <1>5 DEF IsTop

(***************************************************************************)
(* The time of the next event is the time of every top event, and no       *)
(* event of the queue is earlier.                                          *)
(***************************************************************************)
LEMMA NextEventIsFirst ==
  ASSUME NEW q \in SUBSET SignalEvent, q # {}
  PROVE  /\ NextEventTime(q) \in Nat
         /\ \A d \in q : NextEventTime(q) <= d.time
         /\ \A e : IsTop(e, q) => e.time = NextEventTime(q)
<1> DEFINE top == CHOOSE e \in q : IsTop(e, q)
<1>1. \E e \in q : IsTop(e, q)
  BY TopExists DEF IsTop
<1>2. top \in q /\ IsTop(top, q)
  BY <1>1
<1>3. NextEventTime(q) = top.time
  BY DEF NextEventTime
<1> HIDE DEF top
<1>4. top.time \in Nat /\ \A d \in q : top.time <= d.time
  BY <1>2, TopIsFirst DEF SignalEvent
<1>5. ASSUME NEW e, IsTop(e, q)
      PROVE  e.time = top.time
  <2>1. e \in q /\ e.time <= top.time
    BY <1>2, <1>5, TopIsFirst DEF IsTop
  <2>2. top.time <= e.time /\ e.time \in Nat
    BY <1>4, <2>1 DEF SignalEvent
  <2> QED
    BY <1>4, <2>1, <2>2
<1> QED
  BY <1>3, <1>4, <1>5

-----------------------------------------------------------------------------
(***************************************************************************)
(* The powers of two obey the equations of their definition.               *)
(***************************************************************************)
LEMMA PowerUnfolds ==
  /\ Power[0] = 1
  /\ \A n \in Nat : Power[n] \in Nat \ {0} /\ Power[n + 1] = 2 * Power[n]
<1> DEFINE step == [pair \in Nat \X Nat |-> 2 * pair[1]]
           Powers(f) == f = [n \in Nat |-> IF n = 0 THEN 1 ELSE 2 * f[n - 1]]
<1>1. \E f : Powers(f)
  <2>1. step \in [Nat \X Nat -> Nat] /\ \A a, n \in Nat : step[<<a, n>>] = 2 * a
    OBVIOUS
  <2> HIDE DEF step
  <2>2. PICK f \in [Nat -> Nat] : Unfolds(f, 1, step)
    BY <2>1, Recursion
  <2>3. ASSUME NEW n \in Nat
        PROVE  f[n] = IF n = 0 THEN 1 ELSE 2 * f[n - 1]
    <3>1. CASE n = 0
      BY <2>2, <3>1 DEF Unfolds
    <3>2. CASE n # 0
      <4>1. PICK m \in Nat : n = m + 1 /\ n - 1 = m
        BY <3>2
      <4>2. f[m + 1] = step[<<f[m], m>>] /\ f[m] \in Nat
        BY <2>2 DEF Unfolds
      <4> QED
        BY <2>1, <3>2, <4>1, <4>2
    <3> QED
      BY <3>1, <3>2
  <2>4. Powers(f)
    BY <2>3
  <2> QED
    BY <2>4
<1>2. PICK s : s = Power /\ Powers(s)
  BY <1>1 DEF Power
<1>3. s[0] = 1
  BY <1>2
<1>4. ASSUME NEW n \in Nat
      PROVE  s[n + 1] = 2 * s[n]
  <2>1. n + 1 \in Nat /\ n + 1 # 0 /\ (n + 1) - 1 = n
    OBVIOUS
  <2> QED
    BY <1>2, <2>1
<1>5. \A n \in Nat : s[n] \in Nat \ {0}
  <2> DEFINE Good == {n \in Nat : s[n] \in Nat \ {0}}
  <2>1. 0 \in Good
    BY <1>3
  <2>2. \A n \in Nat : n \in Good => n + 1 \in Good
    BY <1>4
  <2>3. Nat \subseteq Good
    <3> HIDE DEF Good
    <3> QED
      BY <2>1, <2>2, NaturalInduction
  <2> QED
    BY <2>3
<1> QED
  BY <1>2, <1>3, <1>4, <1>5

(***************************************************************************)
(* The power of a sum is the product of the powers.                        *)
(***************************************************************************)
LEMMA PowerOfSum ==
  ASSUME NEW m \in Nat, NEW n \in Nat
  PROVE  Power[m + n] = Power[m] * Power[n]
<1> DEFINE Good == {k \in Nat : Power[m + k] = Power[m] * Power[k]}
<1>1. 0 \in Good
  <2>1. m + 0 = m /\ Power[m] \in Nat
    BY PowerUnfolds
  <2> QED
    BY <2>1, PowerUnfolds
<1>2. ASSUME NEW k \in Nat, k \in Good
      PROVE  k + 1 \in Good
  <2>1. Power[m + k] = Power[m] * Power[k]
    BY <1>2
  <2>2. Power[(m + k) + 1] = 2 * Power[m + k] /\ Power[k + 1] = 2 * Power[k]
    BY PowerUnfolds
  <2>3. m + (k + 1) = (m + k) + 1 /\ Power[m] \in Nat /\ Power[k] \in Nat
    BY PowerUnfolds
  <2>4. 2 * (Power[m] * Power[k]) = Power[m] * (2 * Power[k])
    BY <2>3
  <2> QED
    BY <2>1, <2>2, <2>3, <2>4
<1>3. Nat \subseteq Good
  <2> HIDE DEF Good
  <2> QED
    BY <1>1, <1>2, NaturalInduction
<1> QED
  BY <1>3

(***************************************************************************)
(* The sizes of a byte and a word.                                         *)
(***************************************************************************)
LEMMA BytesAndWords ==
  /\ ByteBits \in Nat \ {0} /\ 2 * ByteBits \in Nat \ {0}
  /\ Byte \in Nat \ {0} /\ Word \in Nat \ {0} /\ Word = Byte * Byte
  /\ \E half \in Nat \ {0} : Word = 2 * half
<1>1. ByteBits \in Nat \ {0} /\ ByteBits + ByteBits = 2 * ByteBits /\ 2 * ByteBits \in Nat \ {0}
  BY MathAssumption
<1>2. Power[ByteBits + ByteBits] = Power[ByteBits] * Power[ByteBits]
  BY <1>1, PowerOfSum
<1>3. PICK k \in Nat : 2 * ByteBits = k + 1
  BY <1>1
<1>4. Power[k] \in Nat \ {0} /\ Power[k + 1] = 2 * Power[k]
  BY PowerUnfolds
<1>5. Byte \in Nat \ {0} /\ Word \in Nat \ {0}
  BY <1>1, PowerUnfolds DEF Byte, Word
<1> QED
  BY <1>1, <1>2, <1>3, <1>4, <1>5 DEF Byte, Word

(***************************************************************************)
(* A number is its quotient times the divisor, and the remainder.          *)
(***************************************************************************)
LEMMA Divided ==
  ASSUME NEW n \in Nat \ {0}, NEW x \in Nat
  PROVE  x \div n \in Nat /\ x % n \in 0..(n - 1) /\ x = n * (x \div n) + (x % n)
OBVIOUS

(***************************************************************************)
(* A bit of a number: what is above it, and what it adds below.            *)
(***************************************************************************)
LEMMA BitOfNumber ==
  ASSUME NEW x \in Nat, NEW p \in Nat \ {0}
  PROVE  /\ (x \div p) \div 2 = x \div (2 * p)
         /\ x % (2 * p) = (x % p) + p * ((x \div p) % 2)
         /\ (x \div p) % 2 \in {0, 1} /\ x \div p \in Nat
<1>1. x \div p \in Nat /\ x % p \in 0..(p - 1) /\ x = p * (x \div p) + (x % p)
  OBVIOUS
<1> DEFINE q == x \div p
           r == x % p
           q2 == q \div 2
           bit == q % 2
<1>2. q2 \in Nat /\ bit \in 0..1 /\ q = 2 * q2 + bit
  BY <1>1
<1> HIDE DEF q2, bit
<1>3. q \in Nat /\ r \in 0..(p - 1) /\ x = p * q + r
  BY <1>1
<1> HIDE DEF q, r
<1>4. p * bit + r \in 0..((2 * p) - 1)
  <2>1. CASE bit = 0
    BY <2>1, <1>3
  <2>2. CASE bit = 1
    BY <2>2, <1>3
  <2> QED
    BY <1>2, <2>1, <2>2
<1>5. x = (2 * p) * q2 + (p * bit + r)
  <2>1. p * q = p * (2 * q2) + p * bit
    BY <1>2, <1>3
  <2>2. p * (2 * q2) = (2 * p) * q2 /\ p * bit \in Nat
    BY <1>2
  <2> QED
    BY <1>2, <1>3, <2>1, <2>2
<1>6. x % (2 * p) = p * bit + r /\ x \div (2 * p) = q2
  <2> DEFINE w == 2 * p
             s == p * bit + r
  <2>1. w \in Nat \ {0} /\ q2 \in Int /\ s \in 0..(w - 1) /\ x = w * q2 + s
    BY <1>2, <1>4, <1>5
  <2> HIDE DEF w, s
  <2>2. x % w = s /\ x \div w = q2
    BY <2>1, RemainderOf
  <2> QED
    BY <2>2 DEF w, s
<1>7. p * bit \in Nat
  BY <1>2
<1> QED
  BY <1>2, <1>3, <1>6, <1>7 DEF q, r, q2, bit

(***************************************************************************)
(* What lies above a bit does not change it.                               *)
(***************************************************************************)
LEMMA BitBelow ==
  ASSUME NEW a \in Nat, NEW p \in Nat \ {0}, NEW k \in Nat
  PROVE  (((2 * p) * k + a) \div p) % 2 = (a \div p) % 2
<1> DEFINE q == a \div p
           r == a % p
<1>1. q \in Nat /\ r \in 0..(p - 1) /\ a = p * q + r
  OBVIOUS
<1> HIDE DEF q, r
<1>2. (2 * p) * k + a = p * (2 * k + q) + r
  <2>1. p * (2 * k + q) = (2 * p) * k + p * q
    BY <1>1
  <2>2. (2 * p) * k \in Nat /\ p * q \in Nat
    BY <1>1
  <2> QED
    BY <1>1, <2>1, <2>2
<1>3. ((2 * p) * k + a) \div p = 2 * k + q
  BY <1>1, <1>2, RemainderOf
<1>4. (2 * k + q) % 2 = q % 2
  BY <1>1
<1> QED
  BY <1>3, <1>4 DEF q

(***************************************************************************)
(* One step of the schoolbook division: the next bit of the quotient is    *)
(* whether the halved divisor still fits.  `ones' is where the bits so far *)
(* end; a divisor of zero always fits.                                     *)
(***************************************************************************)
Bits(base, scale, ones) ==
  IF scale = 0 \/ base \div scale >= ones THEN ones ELSE base \div scale

LEMMA NextBit ==
  ASSUME NEW base \in Nat, NEW s \in Nat, NEW ones \in Nat
  PROVE  /\ Bits(base, 2 * s, ones) \in 0..ones
         /\ base - Bits(base, 2 * s, ones) * (2 * s) \in 0..base
         /\ Bits(base, s, 2 * ones + 1)
              = 2 * Bits(base, 2 * s, ones)
                  + (IF base - Bits(base, 2 * s, ones) * (2 * s) >= s THEN 1 ELSE 0)
<1>1. CASE s = 0
  BY <1>1 DEF Bits
<1>2. CASE s # 0
  <2> DEFINE d == base \div s
             r == base % s
             e == base \div (2 * s)
             bit == d % 2
  <2>1. d \in Nat /\ r \in 0..(s - 1) /\ base = s * d + r
    BY <1>2
  <2>2. e = d \div 2 /\ bit \in {0, 1}
    BY <1>2, BitOfNumber, s \in Nat \ {0}
  <2>3. e \in Nat /\ d = 2 * e + bit
    BY <2>1, <2>2
  <2> HIDE DEF d, r, e, bit
  <2>4. Bits(base, 2 * s, ones) = IF e >= ones THEN ones ELSE e
    BY <1>2 DEF Bits, e
  <2>5. Bits(base, s, 2 * ones + 1) = IF d >= 2 * ones + 1 THEN 2 * ones + 1 ELSE d
    BY <1>2 DEF Bits, d
  <2>6. base = s * (2 * e) + s * bit + r
    BY <2>1, <2>2, <2>3
  <2>7. CASE e >= ones
    <3>1. base - ones * (2 * s) = s * (d - 2 * ones) + r
      BY <2>1, <2>3
    <3>2. d - 2 * ones \in Nat
      BY <2>2, <2>3, <2>7
    <3>3. CASE d = 2 * ones
      <4>1. base - ones * (2 * s) = r
        BY <3>1, <3>3, <2>1
      <4>2. ones * (2 * s) \in Nat
        OBVIOUS
      <4> QED
        BY <2>1, <2>4, <2>5, <2>7, <3>3, <4>1, <4>2
    <3>4. CASE d >= 2 * ones + 1
      <4>1. s * (d - 2 * ones) = s * (d - 2 * ones - 1) + s /\ s * (d - 2 * ones - 1) \in Nat
        BY <2>1, <3>4
      <4>2. base - ones * (2 * s) >= s
        BY <2>1, <3>1, <4>1
      <4>3. ones * (2 * s) \in Nat
        OBVIOUS
      <4> QED
        BY <2>1, <2>4, <2>5, <2>7, <3>4, <4>2, <4>3
    <3> QED
      BY <2>1, <3>2, <3>3, <3>4
  <2>8. CASE e < ones
    <3>1. base - e * (2 * s) = s * bit + r
      BY <2>2, <2>3, <2>6, <2>1
    <3>2. e * (2 * s) \in Nat
      BY <2>3
    <3>3. d < 2 * ones + 1
      BY <2>2, <2>3, <2>8
    <3>4. CASE bit = 0
      BY <2>1, <2>3, <2>4, <2>5, <2>8, <3>1, <3>2, <3>3, <3>4
    <3>5. CASE bit = 1
      BY <2>1, <2>3, <2>4, <2>5, <2>8, <3>1, <3>2, <3>3, <3>5
    <3> QED
      BY <2>2, <3>4, <3>5
  <2> QED
    BY <2>3, <2>7, <2>8
<1> QED
  BY <1>1, <1>2

(***************************************************************************)
(* Shifting a bit into a register that wraps.                              *)
(***************************************************************************)
LEMMA ShiftedIn ==
  ASSUME NEW half \in Nat \ {0}, NEW w, w = 2 * half, NEW y \in Nat, NEW bit \in {0, 1}
  PROVE  /\ ((2 * (y % w)) % w) + bit = (2 * y + bit) % w
         /\ (2 * y + bit) % w \in 0..(w - 1)
<1> DEFINE k == y \div w
           r == y % w
           j == r \div half
           t == r % half
<1>1. w \in Nat \ {0}
  OBVIOUS
<1>2. k \in Nat /\ r \in 0..(w - 1) /\ y = w * k + r
  BY <1>1, Divided, Zenon
<1> HIDE DEF k, r
<1>3. j \in Nat /\ t \in 0..(half - 1) /\ r = half * j + t
  BY <1>2
<1> HIDE DEF j, t
<1>4. 2 * r = w * j + 2 * t /\ 2 * t \in 0..(w - 1) /\ 2 * t + bit \in 0..(w - 1)
  BY <1>3
<1> DEFINE u == 2 * t
           v == 2 * t + bit
           a == 2 * r
           b == 2 * y + bit
           c == 2 * k + j
<1>5. a % w = u
  <2>1. a = w * j + u /\ u \in 0..(w - 1) /\ j \in Int
    BY <1>3, <1>4
  <2> HIDE DEF a, u
  <2> QED
    BY <1>1, <2>1, RemainderOf, Zenon
<1>6. 2 * y + bit = w * (2 * k + j) + (2 * t + bit)
  <2>1. w * (2 * k + j) = 2 * (w * k) + w * j /\ w * k \in Nat /\ w * j \in Nat
    BY <1>1, <1>2, <1>3
  <2> QED
    BY <1>2, <1>3, <1>4, <2>1
<1>7. b % w = v
  <2>1. b = w * c + v /\ v \in 0..(w - 1) /\ c \in Int
    BY <1>2, <1>3, <1>4, <1>6
  <2> HIDE DEF b, c, v
  <2> QED
    BY <1>1, <2>1, RemainderOf, Zenon
<1> QED
  BY <1>4, <1>5, <1>7, Zenon DEF r, a, b, u, v

-----------------------------------------------------------------------------
(***************************************************************************)
(* The registers stay in their widths, the shift register excepted, which  *)
(* in the code has 32 bits.                                                *)
(***************************************************************************)
MathTypes ==
  /\ math \in [multiplicand : 0..(Byte - 1), dividend : 0..(Word - 1), quotient : 0..(Word - 1),
               product : 0..(Word - 1), shift : Nat, remaining : Nat, dividing : BOOLEAN]
  /\ sum \in [op : {"none", "multiply", "divide"}, a : 0..(Byte - 1), b : 0..(Byte - 1),
              base : 0..(Word - 1), quotient : 0..(Word - 1), from : Nat, step : Nat]

(***************************************************************************)
(* What the operation in progress has done: its steps and the steps that   *)
(* remain, and where the shift register has brought the operand.           *)
(***************************************************************************)
MathProgress ==
  /\ sum.from <= sum.step
  /\ sum.op = "none" => math.remaining = 0
  /\ sum.op = "multiply" =>
       /\ sum.step + math.remaining = ByteBits
       /\ math.shift = sum.b * Power[sum.step]
       /\ math.remaining # 0 => ~math.dividing
  /\ sum.op = "divide" =>
       /\ sum.step + math.remaining = 2 * ByteBits
       /\ math.shift = sum.b * Power[math.remaining]
       /\ math.remaining # 0 => math.dividing

(***************************************************************************)
(* What the registers hold, in the terms of the lemmas above: the bits of  *)
(* the quotient so far are those of the loaded value over the shifted      *)
(* divisor, as it is in the register.                                      *)
(***************************************************************************)
BitsSoFar == Bits(sum.base, math.shift, Power[sum.step - sum.from] - 1)

MathMeaning ==
  /\ sum.op = "multiply" =>
       /\ math.product = PartialProduct % Word
       /\ math.quotient = (sum.b * Byte + sum.a) \div Power[sum.step]
  /\ sum.op = "divide" =>
       /\ math.product = sum.base - BitsSoFar * math.shift
       /\ math.quotient = (sum.quotient * Power[sum.step - sum.from] + BitsSoFar) % Word

MathInv == MathTypes /\ MathProgress /\ MathMeaning

LEMMA ResultsAre == MathInv => MathResults
<1> SUFFICES ASSUME MathInv
             PROVE  MathResults
  OBVIOUS
<1> DEFINE n == sum.step - sum.from
           scale == sum.b * Power[2 * ByteBits - sum.step]
<1>1. CASE sum.op = "divide"
  <2>1. 2 * ByteBits - sum.step = math.remaining /\ math.shift = scale
    <3>1. 2 * ByteBits - sum.step = math.remaining
      BY <1>1, BytesAndWords DEF MathInv, MathTypes, MathProgress
    <3> QED
      BY <1>1, <3>1 DEF MathInv, MathProgress
  <2>2. sum.b = 0 <=> scale = 0
    <3>1. Power[math.remaining] \in Nat \ {0} /\ sum.b \in Nat
      BY PowerUnfolds DEF MathInv, MathTypes
    <3>2. ASSUME NEW x \in Nat, NEW y \in Nat \ {0}
          PROVE  x = 0 <=> x * y = 0
      <4>1. CASE x = 0
        BY <4>1
      <4>2. CASE x >= 1
        <5>1. (x - 1) * y >= 0
          BY <4>2
        <5>2. x * y = (x - 1) * y + y
          OBVIOUS
        <5> QED
          BY <4>2, <5>1, <5>2
      <4> QED
        BY <4>1, <4>2
    <3> QED
      BY <2>1, <3>1, <3>2
  <2>3. QuotientSoFar(n, scale) = BitsSoFar
    BY <2>1, <2>2 DEF QuotientSoFar, Bits, BitsSoFar
  <2>4. /\ math.product = sum.base - BitsSoFar * scale
        /\ math.quotient = (sum.quotient * Power[n] + BitsSoFar) % Word
    BY <1>1, <2>1 DEF MathInv, MathMeaning
  <2> QED
    BY <1>1, <2>3, <2>4 DEF MathResults
<1>2. CASE sum.op = "multiply"
  BY <1>2 DEF MathResults, MathInv, MathMeaning
<1>3. CASE sum.op = "none"
  BY <1>3 DEF MathResults, MathInv, MathProgress
<1> QED
  BY <1>1, <1>2, <1>3 DEF MathInv, MathTypes

(***************************************************************************)
(* After a reset nothing is in progress.                                   *)
(***************************************************************************)
LEMMA MathStarts == MathInit => MathInv
<1> SUFFICES ASSUME MathInit
             PROVE  MathInv
  OBVIOUS
<1>1. MathTypes
  BY BytesAndWords DEF MathTypes, MathInit, ResetMath, NoSum
<1>2. MathProgress
  BY DEF MathProgress, MathInit, ResetMath, NoSum
<1>3. sum.op = "none"
  BY DEF MathInit, NoSum
<1> QED
  BY <1>1, <1>2, <1>3 DEF MathInv, MathMeaning

(***************************************************************************)
(* A trigger while an operation runs only loads the product register.      *)
(***************************************************************************)
LEMMA ReloadKeeps ==
  ASSUME MathInv, NEW loaded \in 0..(Word - 1), math.remaining # 0,
         math' = [math EXCEPT !.product = loaded],
         sum' = [sum EXCEPT !.base = loaded, !.from = sum.step, !.quotient = math.quotient]
  PROVE  MathInv'
<1>1. MathTypes'
  BY DEF MathInv, MathTypes
<1>2. MathProgress'
  BY DEF MathInv, MathTypes, MathProgress
<1>3. /\ sum'.op = sum.op /\ sum'.a = sum.a /\ sum'.b = sum.b /\ sum'.step = sum.step
      /\ sum'.from = sum.step /\ sum'.base = loaded /\ sum'.quotient = math.quotient
      /\ math'.product = loaded /\ math'.quotient = math.quotient /\ math'.shift = math.shift
  BY DEF MathInv, MathTypes
<1>4. /\ sum.step \in Nat /\ sum.b \in Nat /\ sum.a \in Nat /\ math.shift \in Nat
      /\ math.quotient \in 0..(Word - 1) /\ Word \in Nat \ {0}
  BY BytesAndWords DEF MathInv, MathTypes
<1>5. CASE sum.op = "multiply"
  <2>1. PartialProduct' = loaded
    <3>1. Power[sum.step] \in Nat \ {0}
      BY <1>4, PowerUnfolds
    <3>2. sum.a % Power[sum.step] \in Int
      BY <1>4, <3>1
    <3>3. PartialProduct' = loaded + sum.b * ((sum.a % Power[sum.step]) - (sum.a % Power[sum.step]))
      BY <1>3 DEF PartialProduct
    <3> QED
      BY <1>4, <3>2, <3>3
  <2>2. loaded % Word = loaded
    BY <1>4, SmallRemainder
  <2>3. math.quotient = (sum.b * Byte + sum.a) \div Power[sum.step]
    BY <1>5 DEF MathInv, MathMeaning
  <2> QED
    BY <1>1, <1>2, <1>3, <1>5, <2>1, <2>2, <2>3 DEF MathInv, MathMeaning
<1>6. CASE sum.op = "divide"
  <2>1. sum'.step - sum'.from = 0 /\ Power[0] = 1
    BY <1>3, <1>4, PowerUnfolds
  <2>2. Bits(loaded, math.shift, 0) = 0
    <3>1. math.shift # 0 => loaded \div math.shift \in Nat
      BY <1>4
    <3> QED
      BY <3>1 DEF Bits
  <2>3. (math.quotient * 1 + 0) % Word = math.quotient /\ loaded - 0 * math.shift = loaded
    BY <1>4, SmallRemainder
  <2>4. BitsSoFar' = 0
    BY <1>3, <2>1, <2>2 DEF BitsSoFar
  <2>5. /\ math'.product = sum'.base - BitsSoFar' * math'.shift
        /\ math'.quotient = (sum'.quotient * Power[sum'.step - sum'.from] + BitsSoFar') % Word
    BY <1>3, <2>1, <2>3, <2>4
  <2> QED
    BY <1>1, <1>2, <1>3, <1>6, <2>5 DEF MathInv, MathMeaning
<1>7. CASE sum.op = "none"
  BY <1>7 DEF MathInv, MathProgress
<1> QED
  BY <1>5, <1>6, <1>7 DEF MathInv, MathTypes

(***************************************************************************)
(* $4203: the product is cleared, and a multiplication begins if nothing   *)
(* is in progress.                                                         *)
(***************************************************************************)
LEMMA MultiplyKeeps ==
  ASSUME MathInv, NEW data \in 0..(Byte - 1), TriggerMultiply(data)
  PROVE  MathInv'
<1>1. 0 \in 0..(Word - 1)
  BY BytesAndWords
<1>2. CASE math.remaining # 0
  BY <1>1, <1>2, ReloadKeeps DEF TriggerMultiply, Multiply, Begun
<1>3. CASE math.remaining = 0
  <2> DEFINE a == math.multiplicand
  <2>1. /\ sum' = [op |-> "multiply", a |-> a, b |-> data, base |-> 0,
                   quotient |-> math.quotient, from |-> 0, step |-> 0]
        /\ math'.product = 0 /\ math'.quotient = data * Byte + a /\ math'.shift = data
        /\ math'.remaining = ByteBits /\ math'.dividing = FALSE
        /\ math'.multiplicand = a /\ math'.dividend = math.dividend
        /\ math' = [multiplicand |-> a, dividend |-> math.dividend, quotient |-> math'.quotient,
                    product |-> 0, shift |-> data, remaining |-> ByteBits, dividing |-> FALSE]
    BY <1>3, BytesAndWords DEF TriggerMultiply, Multiply, Begun, MathInv, MathTypes
  <2>2. a \in 0..(Byte - 1) /\ math.dividend \in 0..(Word - 1) /\ math.quotient \in 0..(Word - 1)
    BY DEF MathInv, MathTypes
  <2>3. data * Byte + a \in 0..(Word - 1)
    <3>1. data * Byte \in Nat /\ (Byte - 1 - data) * Byte >= 0
      BY BytesAndWords
    <3>2. (Byte - 1 - data) * Byte = Word - Byte - data * Byte
      BY BytesAndWords
    <3> QED
      BY <2>2, <3>1, <3>2, BytesAndWords
  <2>4. MathTypes'
    <3>1. math'.quotient \in 0..(Word - 1) /\ data \in Nat /\ ByteBits \in Nat
      BY <2>1, <2>3, BytesAndWords
    <3> QED
      BY <2>1, <2>2, <3>1, <1>1 DEF MathTypes
  <2>5. Power[0] = 1 /\ data * 1 = data
    BY PowerUnfolds
  <2>6. MathProgress'
    BY <2>1, <2>5, BytesAndWords DEF MathProgress
  <2>7. PartialProduct' = 0
    <3>1. PartialProduct' = 0 + data * ((a % 1) - (a % 1))
      BY <2>1, <2>5 DEF PartialProduct
    <3> QED
      BY <2>2, <3>1
  <2>8. 0 % Word = 0 /\ (data * Byte + a) \div 1 = data * Byte + a
    BY <1>1, <2>3, BytesAndWords, SmallRemainder
  <2> QED
    BY <2>1, <2>4, <2>5, <2>6, <2>7, <2>8 DEF MathInv, MathMeaning
<1> QED
  BY <1>2, <1>3

(***************************************************************************)
(* $4206: the product register takes the dividend, and a division begins   *)
(* if nothing is in progress.                                              *)
(***************************************************************************)
LEMMA DivideKeeps ==
  ASSUME MathInv, NEW data \in 0..(Byte - 1), TriggerDivide(data)
  PROVE  MathInv'
<1>1. math.dividend \in 0..(Word - 1)
  BY DEF MathInv, MathTypes
<1>2. CASE math.remaining # 0
  BY <1>1, <1>2, ReloadKeeps DEF TriggerDivide, Divide, Begun
<1>3. CASE math.remaining = 0
  <2> DEFINE a == math.multiplicand
             base == math.dividend
             shift == data * Word
  <2>1. /\ sum' = [op |-> "divide", a |-> a, b |-> data, base |-> base,
                   quotient |-> math.quotient, from |-> 0, step |-> 0]
        /\ math' = [multiplicand |-> a, dividend |-> base, quotient |-> math.quotient,
                    product |-> base, shift |-> shift, remaining |-> 2 * ByteBits, dividing |-> TRUE]
    BY <1>3, BytesAndWords DEF TriggerDivide, Divide, Begun, MathInv, MathTypes
  <2>2. a \in 0..(Byte - 1) /\ math.quotient \in 0..(Word - 1) /\ shift \in Nat
    BY BytesAndWords DEF MathInv, MathTypes
  <2> HIDE DEF shift
  <2>4. MathTypes'
    BY <2>1, <2>2, <1>1, BytesAndWords DEF MathTypes
  <2>5. Power[0] = 1
    BY PowerUnfolds
  <2>6. MathProgress'
    BY <2>1, BytesAndWords DEF MathProgress, Word, shift
  <2>7. Bits(base, shift, 0) = 0
    <3>1. shift # 0 => base \div shift \in Nat
      BY <1>1, <2>2
    <3> QED
      BY <3>1 DEF Bits
  <2>8. (math.quotient * 1 + 0) % Word = math.quotient /\ base - 0 * shift = base
    <3>1. base \in Int /\ math.quotient * 1 + 0 = math.quotient /\ 0 * shift = 0
      BY <1>1, <2>2
    <3>2. math.quotient % Word = math.quotient
      BY <2>2, BytesAndWords, SmallRemainder
    <3> QED
      BY <3>1, <3>2
  <2>9. /\ sum'.op = "divide" /\ sum'.step - sum'.from = 0 /\ sum'.base = base /\ math'.shift = shift
        /\ sum'.quotient = math.quotient /\ math'.quotient = math.quotient /\ math'.product = base
    BY <2>1
  <2>10. BitsSoFar' = 0
    BY <2>5, <2>7, <2>9 DEF BitsSoFar
  <2>11. /\ math'.product = sum'.base - BitsSoFar' * math'.shift
         /\ math'.quotient = (sum'.quotient * Power[sum'.step - sum'.from] + BitsSoFar') % Word
    BY <2>5, <2>8, <2>9, <2>10
  <2> QED
    BY <2>4, <2>6, <2>9, <2>11 DEF MathInv, MathMeaning
<1> QED
  BY <1>2, <1>3

(***************************************************************************)
(* $4202, $4204 and $4205: operands for later.                             *)
(***************************************************************************)
LEMMA OperandsKeep ==
  ASSUME MathInv, NEW a \in 0..(Byte - 1), NEW dividend \in 0..(Word - 1), SetOperands(a, dividend)
  PROVE  MathInv'
<1>1. /\ sum' = sum
      /\ math' = [[math EXCEPT !.multiplicand = a] EXCEPT !.dividend = dividend]
  BY DEF SetOperands, WriteDividend, WriteMultiplicand
<1>2. /\ math'.product = math.product /\ math'.quotient = math.quotient
      /\ math'.shift = math.shift /\ math'.remaining = math.remaining
      /\ math'.dividing = math.dividing
  BY <1>1 DEF MathInv, MathTypes
<1>3. MathTypes'
  BY <1>1 DEF MathInv, MathTypes
<1>4. MathProgress'
  BY <1>1, <1>2 DEF MathInv, MathProgress
<1>5. MathMeaning'
  BY <1>1, <1>2 DEF MathInv, MathMeaning, PartialProduct, BitsSoFar
<1> QED
  BY <1>3, <1>4, <1>5 DEF MathInv

(***************************************************************************)
(* A step of a multiplication: the lowest bit of what is left of the       *)
(* multiplicand decides whether the shifted operand is added.              *)
(***************************************************************************)
LEMMA MultiplyStepKeeps ==
  ASSUME MathInv, StepOperation, sum.op = "multiply"
  PROVE  MathInv'
<1> DEFINE p == Power[sum.step]
           x == sum.b * Byte + sum.a
           bit == (x \div p) % 2
           r == math.remaining - 1
<1>1. /\ sum' = [sum EXCEPT !.step = sum.step + 1]
      /\ math' = [[math EXCEPT !.remaining = r]
                    EXCEPT !.shift = 2 * math.shift, !.quotient = math.quotient \div 2,
                           !.product = IF math.quotient % 2 = 1
                                       THEN (math.product + math.shift) % Word ELSE math.product]
  BY DEF MathInv, MathTypes, MathProgress, StepOperation, ClockMathCycle, StepMath, MultiplyStep
<1>2. /\ sum.step \in Nat /\ sum.from \in Nat /\ sum.from <= sum.step
      /\ sum.a \in Nat /\ sum.b \in Nat /\ sum.base \in Nat
      /\ math.remaining \in Nat \ {0} /\ sum.step + math.remaining = ByteBits
      /\ math.shift = sum.b * p /\ ~math.dividing
  BY DEF MathInv, MathTypes, MathProgress, StepOperation
<1>3. p \in Nat \ {0} /\ Power[sum.step + 1] = 2 * p /\ Power[sum.from] \in Nat \ {0}
  BY <1>2, PowerUnfolds
<1>4. math.product = PartialProduct % Word /\ math.quotient = x \div p
  BY DEF MathInv, MathMeaning
<1>5. x \in Nat /\ math.quotient \in 0..(Word - 1) /\ math.product \in 0..(Word - 1)
  BY <1>2, BytesAndWords DEF MathInv, MathTypes
<1>6. bit = (sum.a \div p) % 2
  <2>1. r \in Nat /\ ByteBits = (sum.step + 1) + r
    BY <1>2
  <2>2. Byte = (2 * p) * Power[r] /\ Power[r] \in Nat
    <3>1. Power[r] \in Nat
      BY <2>1, PowerUnfolds
    <3>2. Power[(sum.step + 1) + r] = Power[sum.step + 1] * Power[r]
      <4>1. sum.step + 1 \in Nat
        BY <1>2
      <4> HIDE DEF r
      <4> QED
        BY <2>1, <4>1, PowerOfSum, Zenon
    <3> HIDE DEF r, p
    <3> QED
      BY <1>3, <2>1, <3>1, <3>2 DEF Byte
  <2> DEFINE k == sum.b * Power[r]
  <2>3. k \in Nat /\ x = (2 * p) * k + sum.a
    BY <1>2, <1>3, <2>2
  <2> HIDE DEF k, x
  <2> QED
    BY <1>2, <1>3, <2>3, BitBelow
<1>7. /\ math.quotient \div 2 = x \div (2 * p)
      /\ bit \in {0, 1} /\ sum.a % (2 * p) = (sum.a % p) + p * bit
  <2>1. (x \div p) \div 2 = x \div (2 * p) /\ bit \in {0, 1}
    BY <1>3, <1>5, BitOfNumber, Zenon
  <2>2. sum.a % (2 * p) = (sum.a % p) + p * ((sum.a \div p) % 2)
    BY <1>2, <1>3, BitOfNumber, Zenon
  <2> QED
    BY <1>4, <1>6, <2>1, <2>2, Zenon
<1> HIDE DEF x, bit
<1>8. sum.a % p \in Int /\ sum.a % Power[sum.from] \in Int /\ PartialProduct \in Int
  <2>1. sum.a % p \in Int /\ sum.a % Power[sum.from] \in Int
    BY <1>2, <1>3
  <2> QED
    BY <1>2, <2>1 DEF PartialProduct
<1>9. PartialProduct' = PartialProduct + math.shift * bit
  <2>1. PartialProduct'
          = sum.base + sum.b * ((sum.a % (2 * p)) - (sum.a % Power[sum.from]))
    BY <1>1, <1>3 DEF PartialProduct, MathInv, MathTypes
  <2> DEFINE u == sum.a % p
             w == sum.a % Power[sum.from]
  <2>2. PartialProduct' = sum.base + sum.b * ((u + p * bit) - w)
    BY <1>7, <2>1
  <2>3. PartialProduct = sum.base + sum.b * (u - w)
    BY DEF PartialProduct
  <2>4. u \in Int /\ w \in Int /\ bit \in Int /\ p \in Int
    BY <1>3, <1>7, <1>8
  <2> HIDE DEF u, w, p
  <2>5. sum.b * ((u + p * bit) - w) = sum.b * (u - w) + (sum.b * p) * bit
    BY <1>2, <2>4
  <2>6. sum.b * (u - w) \in Int /\ (sum.b * p) * bit \in Int
    BY <1>2, <2>4
  <2> QED
    BY <1>2, <2>2, <2>3, <2>5, <2>6
<1>10. math'.product = PartialProduct' % Word
  <2>1. math.shift \in Nat /\ Word \in Nat \ {0}
    BY BytesAndWords DEF MathInv, MathTypes
  <2>2. CASE bit = 1
    <3>1. math'.product = (math.product + math.shift) % Word
      BY <1>1, <1>4, <2>2 DEF MathInv, MathTypes, bit
    <3>2. ((PartialProduct % Word) + math.shift) % Word = (PartialProduct + math.shift) % Word
      <4>1. math.shift \in Int
        BY <2>1
      <4> QED
        BY <1>8, <2>1, <4>1, RemainderOfSum, Zenon
    <3>3. PartialProduct' = PartialProduct + math.shift
      BY <1>9, <2>1, <2>2
    <3> QED
      BY <1>4, <3>1, <3>2, <3>3
  <2>3. CASE bit = 0
    <3>1. math'.product = math.product
      BY <1>1, <1>4, <2>3 DEF MathInv, MathTypes, bit
    <3>2. PartialProduct' = PartialProduct
      BY <1>8, <1>9, <2>1, <2>3
    <3> QED
      BY <1>4, <3>1, <3>2
  <2> QED
    BY <1>7, <2>2, <2>3
<1>11. math'.quotient = (sum'.b * Byte + sum'.a) \div Power[sum'.step]
  BY <1>1, <1>3, <1>7 DEF MathInv, MathTypes, x
<1>12. MathTypes'
  <2>1. math.quotient \div 2 \in 0..(Word - 1) /\ 2 * math.shift \in Nat /\ r \in Nat
    BY <1>2, <1>5, BytesAndWords DEF MathInv, MathTypes
  <2>2. (IF math.quotient % 2 = 1 THEN (math.product + math.shift) % Word ELSE math.product)
          \in 0..(Word - 1)
    BY <1>5, BytesAndWords DEF MathInv, MathTypes
  <2> DEFINE product == IF math.quotient % 2 = 1
                        THEN (math.product + math.shift) % Word ELSE math.product
             shift == 2 * math.shift
             quotient == math.quotient \div 2
  <2>3. product \in 0..(Word - 1) /\ shift \in Nat /\ quotient \in 0..(Word - 1)
    BY <2>1, <2>2
  <2>4. math' = [[math EXCEPT !.remaining = r]
                   EXCEPT !.shift = shift, !.quotient = quotient, !.product = product]
    BY <1>1
  <2> HIDE DEF product, shift, quotient, r, p
  <2>5. sum.step + 1 \in Nat
    BY <1>2
  <2> QED
    BY <1>1, <2>1, <2>3, <2>4, <2>5 DEF MathInv, MathTypes
<1>13. MathProgress'
  <2>1. 2 * (sum.b * p) = sum.b * (2 * p)
    BY <1>2, <1>3
  <2>2. /\ sum'.op = "multiply" /\ sum'.step = sum.step + 1 /\ sum'.from = sum.from /\ sum'.b = sum.b
        /\ math'.remaining = r /\ math'.shift = 2 * math.shift /\ math'.dividing = math.dividing
    BY <1>1 DEF MathInv, MathTypes
  <2> QED
    BY <1>2, <1>3, <2>1, <2>2 DEF MathProgress
<1>14. sum'.op = "multiply"
  BY <1>1 DEF MathInv, MathTypes
<1> QED
  BY <1>10, <1>11, <1>12, <1>13, <1>14, Zenon DEF MathInv, MathMeaning

(***************************************************************************)
(* A step of a division: the halved divisor is subtracted if it fits, and  *)
(* whether it did is the next bit of the quotient.                         *)
(***************************************************************************)
LEMMA DivideStepKeeps ==
  ASSUME MathInv, StepOperation, sum.op = "divide"
  PROVE  MathInv'
<1> DEFINE r == math.remaining - 1
           s == sum.b * Power[r]
           n == sum.step - sum.from
           ones == Power[n] - 1
           bits == Bits(sum.base, 2 * s, ones)
           bit == IF sum.base - bits * (2 * s) >= s THEN 1 ELSE 0
           y == sum.quotient * Power[n] + bits
<1>1. /\ sum.step \in Nat /\ sum.from \in Nat /\ sum.from <= sum.step
      /\ sum.b \in Nat /\ sum.base \in 0..(Word - 1) /\ sum.quotient \in Nat
      /\ math.remaining \in Nat \ {0} /\ sum.step + math.remaining = 2 * ByteBits
      /\ math.shift = sum.b * Power[math.remaining] /\ math.dividing
      /\ math.quotient \in Nat /\ math.product \in 0..(Word - 1)
  BY DEF MathInv, MathTypes, MathProgress, StepOperation
<1>2. r \in Nat /\ math.remaining = r + 1 /\ n \in Nat /\ (sum.step + 1) - sum.from = n + 1
  BY <1>1
<1>3. /\ Power[r] \in Nat \ {0} /\ Power[math.remaining] = 2 * Power[r]
      /\ Power[n] \in Nat \ {0} /\ Power[n + 1] = 2 * Power[n]
  BY <1>2, PowerUnfolds
<1>4. s \in Nat /\ math.shift = 2 * s /\ ones \in Nat /\ Power[n + 1] - 1 = 2 * ones + 1
  <2>1. sum.b * (2 * Power[r]) = 2 * (sum.b * Power[r]) /\ sum.b * Power[r] \in Nat
    BY <1>1, <1>3
  <2>2. math.shift = sum.b * (2 * Power[r])
    BY <1>1, <1>3
  <2>3. Power[n] - 1 \in Nat /\ Power[n + 1] - 1 = 2 * (Power[n] - 1) + 1
    BY <1>3
  <2> QED
    BY <2>1, <2>2, <2>3
<1>5. math.shift \div 2 = s
  BY <1>4
<1>6. math.product = sum.base - bits * (2 * s) /\ math.quotient = y % Word
  <2>1. BitsSoFar = bits
    BY <1>4 DEF BitsSoFar
  <2> QED
    BY <1>4, <2>1 DEF MathInv, MathMeaning
<1>7. /\ bits \in 0..ones /\ math.product \in 0..sum.base
      /\ Bits(sum.base, s, 2 * ones + 1) = 2 * bits + bit
  <2>1. sum.base \in Nat
    BY <1>1
  <2> HIDE DEF s, ones
  <2>2. /\ bits \in 0..ones /\ sum.base - bits * (2 * s) \in 0..sum.base
        /\ Bits(sum.base, s, 2 * ones + 1) = 2 * bits + bit
    BY <1>4, <2>1, NextBit, Zenon
  <2> QED
    BY <1>6, <2>2, Zenon
<1> HIDE DEF s, bits, ones, n
<1>8. /\ sum' = [sum EXCEPT !.step = sum.step + 1]
      /\ math' = [[math EXCEPT !.remaining = r]
                    EXCEPT !.shift = s, !.quotient = ((2 * math.quotient) % Word) + bit,
                           !.product = IF bit = 1 THEN math.product - s ELSE math.product]
  <2>1. bit = IF math.product >= s THEN 1 ELSE 0
    BY <1>6
  <2>2. math' = DivideStep([math EXCEPT !.remaining = r])
    BY <1>1 DEF StepOperation, ClockMathCycle, StepMath, MathInv, MathTypes
  <2>4. sum' = [sum EXCEPT !.step = sum.step + 1]
    BY DEF StepOperation
  <2> DEFINE m == [math EXCEPT !.remaining = r]
             next(b) == [m EXCEPT !.shift = s, !.quotient = ((2 * m.quotient) % Word) + b,
                                  !.product = IF b = 1 THEN m.product - s ELSE m.product]
  <2>3. m.shift \div 2 = s /\ m.product = math.product
    BY <1>5 DEF MathInv, MathTypes
  <2> HIDE DEF bit, r, m
  <2>5. CASE m.product >= s
    <3>1. DivideStep(m) = next(1)
      BY <2>3, <2>5 DEF DivideStep
    <3> QED
      BY <2>1, <2>2, <2>3, <2>4, <2>5, <3>1 DEF m
  <2>6. CASE ~(m.product >= s)
    <3>1. DivideStep(m) = next(0)
      <4>1. 0 # 1
        OBVIOUS
      <4> QED
        BY <2>3, <2>6, <4>1, Zenon DEF DivideStep
    <3> QED
      BY <2>1, <2>2, <2>3, <2>4, <2>6, <3>1 DEF m
  <2> QED
    BY <2>5, <2>6
<1>9. /\ sum'.op = "divide" /\ sum'.step = sum.step + 1 /\ sum'.from = sum.from
      /\ sum'.b = sum.b /\ sum'.base = sum.base /\ sum'.quotient = sum.quotient
      /\ math'.remaining = r /\ math'.shift = s /\ math'.dividing = math.dividing
      /\ math'.quotient = ((2 * math.quotient) % Word) + bit
      /\ math'.product = IF bit = 1 THEN math.product - s ELSE math.product
  BY <1>8 DEF MathInv, MathTypes
<1>10. bit \in {0, 1} /\ y \in Nat
  BY <1>1, <1>3, <1>4, <1>7
<1>11. math'.product = sum.base - (2 * bits + bit) * s /\ math'.product \in 0..(Word - 1)
  <2>1. (2 * bits + bit) * s = bits * (2 * s) + bit * s
    BY <1>4, <1>7, <1>10
  <2>2. bits * (2 * s) \in Nat /\ (bit = 1 => bit * s = s) /\ (bit = 0 => bit * s = 0)
    BY <1>4, <1>7, <1>10
  <2>3. bit = 1 => math.product >= s
    BY <1>6
  <2>4. math.product \in Nat /\ sum.base \in Nat /\ sum.base <= Word - 1 /\ Word \in Nat
    BY <1>1, BytesAndWords
  <2> DEFINE u == bits * (2 * s)
             v == (2 * bits + bit) * s
             z == bit * s
  <2>5. /\ v = u + z /\ u \in Nat /\ (bit = 1 => z = s) /\ (bit = 0 => z = 0)
        /\ math.product = sum.base - u /\ math.product <= sum.base
    BY <1>6, <1>7, <2>1, <2>2
  <2> HIDE DEF u, v, z
  <2>6. math'.product = sum.base - v /\ math'.product \in 0..(Word - 1)
    <3> HIDE DEF bit
    <3> QED
      BY <1>4, <1>9, <1>10, <2>3, <2>4, <2>5
  <2> QED
    BY <2>6 DEF v
<1>12. /\ math'.quotient = (sum.quotient * Power[n + 1] + (2 * bits + bit)) % Word
       /\ math'.quotient \in 0..(Word - 1)
  <2>1. PICK half \in Nat \ {0} : Word = 2 * half
    BY BytesAndWords
  <2>2. /\ ((2 * (y % Word)) % Word) + bit = (2 * y + bit) % Word
        /\ (2 * y + bit) % Word \in 0..(Word - 1)
    BY <1>10, <2>1, ShiftedIn, Zenon
  <2>3. 2 * y + bit = sum.quotient * Power[n + 1] + (2 * bits + bit)
    <3>1. 2 * (sum.quotient * Power[n]) = sum.quotient * (2 * Power[n]) /\ sum.quotient * Power[n] \in Nat
      BY <1>1, <1>3
    <3> QED
      BY <1>1, <1>3, <1>7, <1>10, <3>1
  <2> HIDE DEF y, bit
  <2> QED
    BY <1>6, <1>9, <2>2, <2>3
<1> HIDE DEF bit, y
<1>13. MathTypes'
  <2>1. r \in Nat /\ sum.step + 1 \in Nat
    BY <1>1, <1>2
  <2>2. /\ math'.product \in 0..(Word - 1) /\ math'.quotient \in 0..(Word - 1)
        /\ math' = [math EXCEPT !.remaining = r, !.shift = s, !.quotient = math'.quotient,
                                !.product = math'.product]
    BY <1>8, <1>9, <1>11, <1>12 DEF MathInv, MathTypes
  <2> QED
    BY <1>4, <1>8, <2>1, <2>2 DEF MathInv, MathTypes
<1>14. MathProgress'
  <2>1. (sum.step + 1) + r = 2 * ByteBits
    BY <1>1
  <2> QED
    BY <1>1, <1>9, <2>1 DEF MathProgress, s
<1>15. /\ sum'.step - sum'.from = n + 1
       /\ Bits(sum'.base, math'.shift, Power[sum'.step - sum'.from] - 1) = 2 * bits + bit
  BY <1>2, <1>4, <1>7, <1>9
<1> QED
  <2>1. BitsSoFar' = 2 * bits + bit
    BY <1>15 DEF BitsSoFar
  <2>2. /\ math'.product = sum'.base - BitsSoFar' * math'.shift
        /\ math'.quotient = (sum'.quotient * Power[sum'.step - sum'.from] + BitsSoFar') % Word
    BY <1>9, <1>11, <1>12, <1>15, <2>1
  <2> QED
    BY <1>9, <1>13, <1>14, <2>2, Zenon DEF MathInv, MathMeaning

(***************************************************************************)
(* The invariant of the arithmetic unit, for every width of a byte, all    *)
(* operands, and triggers and writes between any two steps.                *)
(***************************************************************************)
LEMMA MathInvariance == MathSpec => []MathInv
<1>1. MathInit => MathInv
  BY MathStarts
<1>2. MathInv /\ [MathNext]_<<math, sum>> => MathInv'
  <2> SUFFICES ASSUME MathInv, [MathNext]_<<math, sum>>
               PROVE  MathInv'
    OBVIOUS
  <2>1. CASE \E data \in 0..(Byte - 1) : TriggerMultiply(data) \/ TriggerDivide(data)
    BY <2>1, MultiplyKeeps, DivideKeeps
  <2>2. CASE \E a \in 0..(Byte - 1), dividend \in 0..(Word - 1) : SetOperands(a, dividend)
    BY <2>2, OperandsKeep
  <2>3. CASE StepOperation
    <3>1. sum.op # "none"
      BY <2>3 DEF StepOperation, MathInv, MathProgress
    <3> QED
      BY <2>3, <3>1, MultiplyStepKeeps, DivideStepKeeps DEF MathInv, MathTypes
  <2>4. CASE UNCHANGED <<math, sum>>
    BY <2>4 DEF MathInv, MathTypes, MathProgress, MathMeaning, PartialProduct, BitsSoFar
  <2> QED
    BY <2>1, <2>2, <2>3, <2>4 DEF MathNext
<1> QED
  BY <1>1, <1>2, PTL DEF MathSpec

(***************************************************************************)
(* StepMath multiplies and divides: partial results after every step,      *)
(* reloads by early triggers and division by zero included.                *)
(***************************************************************************)
THEOREM ArithmeticCorrect == MathSpec => []MathResults
BY ResultsAre, MathInvariance, PTL
=============================================================================
