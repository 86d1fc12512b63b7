------------------------------ MODULE PpuPixel ------------------------------
(***************************************************************************)
(* The colour of one dot (Ppu::EmitPixel and what it calls, in             *)
(* hw/sppu/ppu.cpp): which layers are enabled and not masked by a window,  *)
(* which of their pixels is in front on the main and on the sub screen,    *)
(* and the colour arithmetic between the two.  The background rows decoded *)
(* last are cached, so drawing a dot changes the state.                    *)
(***************************************************************************)
EXTENDS PpuPorts

LOCAL INSTANCE SequencesExt
LOCAL INSTANCE FiniteSetsExt

Obj == 4
Backdrop == 5

-----------------------------------------------------------------------------
(***************************************************************************)
(* The priority ladders: the layers and their priorities, front to back.   *)
(***************************************************************************)
OrderMode0 ==
  <<<<Obj, 3>>, <<0, 1>>, <<1, 1>>, <<Obj, 2>>, <<0, 0>>, <<1, 0>>,
    <<Obj, 1>>, <<2, 1>>, <<3, 1>>, <<Obj, 0>>, <<2, 0>>, <<3, 0>>>>

OrderMode1Normal ==
  <<<<Obj, 3>>, <<0, 1>>, <<1, 1>>, <<Obj, 2>>, <<0, 0>>, <<1, 0>>,
    <<Obj, 1>>, <<2, 1>>, <<Obj, 0>>, <<2, 0>>>>

OrderMode1Bg3High ==
  <<<<2, 1>>, <<Obj, 3>>, <<0, 1>>, <<1, 1>>, <<Obj, 2>>, <<0, 0>>,
    <<1, 0>>, <<Obj, 1>>, <<Obj, 0>>, <<2, 0>>>>

OrderMode234 ==
  <<<<Obj, 3>>, <<0, 1>>, <<Obj, 2>>, <<1, 1>>, <<Obj, 1>>, <<0, 0>>, <<Obj, 0>>, <<1, 0>>>>

(***************************************************************************)
(* BuildPriorityPlan turns a ladder into ranks, 0 for the backdrop, and    *)
(* one candidate per background, in the order of their best ranks.         *)
(***************************************************************************)
RankIn(order, layer, priority) ==
  Max({0} \cup {Len(order) + 1 - i : i \in {j \in DOMAIN order : order[j] = <<layer, priority>>}})

BuildPriorityPlan(order) ==
  LET ranked(b) == [bg |-> b, low |-> RankIn(order, b, 0), high |-> RankIn(order, b, 1),
                    max |-> Max({RankIn(order, b, 0), RankIn(order, b, 1)})]
      bgs == {slot[1] : slot \in Range(order)} \ {Obj}
  IN  [obj |-> [i \in 0..3 |-> RankIn(order, Obj, i)],
       bgs |-> SetToSortSeq({ranked(b) : b \in bgs}, LAMBDA x, y : x.max > y.max)]

PlanMode0 == BuildPriorityPlan(OrderMode0)
PlanMode1Normal == BuildPriorityPlan(OrderMode1Normal)
PlanMode1Bg3High == BuildPriorityPlan(OrderMode1Bg3High)
PlanMode234 == BuildPriorityPlan(OrderMode234)

PlanOf(p) ==
  CASE p.bg_mode = 0 -> PlanMode0
    [] p.bg_mode = 1 /\ p.bg3_priority -> PlanMode1Bg3High
    [] p.bg_mode = 1 /\ ~p.bg3_priority -> PlanMode1Normal
    [] p.bg_mode \in 2..4 -> PlanMode234

(* The depth of each background in modes 0 to 4; mode 0 staggers palettes. *)
Depths == <<<<2, 2, 2, 2>>, <<4, 4, 2, 0>>, <<4, 4, 0, 0>>, <<8, 4, 0, 0>>, <<8, 2, 0, 0>>>>
Bpp(p, b) == Depths[p.bg_mode + 1][b + 1]
CgramBase(p, b) == IF p.bg_mode = 0 THEN 32 * b ELSE 0

-----------------------------------------------------------------------------
(***************************************************************************)
(* Backgrounds (FetchBgPixel): mosaic, scroll, the per-column offsets of   *)
(* modes 2 and 4, and the row of eight pixels the effective position lies  *)
(* in, which is decoded only when the cached row is another or stale.      *)
(***************************************************************************)
MosaicSourceX(p, b, x) == IF b \in p.mosaic.enabled THEN x - (x % p.mosaic.size) ELSE x
MosaicSourceY(p, b, y) == IF b \in p.mosaic.enabled THEN y - p.mosaic.vindex ELSE y

ReadBgTilemapEntry(p, b, x, y) ==
  LET bg == p.bg[b]
      size == IF bg.tile16 THEN 16 ELSE 8
      col == (x \div size) % (IF bg.layout \in {1, 3} THEN 64 ELSE 32)
      line == (y \div size) % (IF bg.layout \in {2, 3} THEN 64 ELSE 32)
      screen == (col \div 32) * 1024 + (line \div 32) * (IF bg.layout = 3 THEN 2048 ELSE 1024)
  IN  VramWord(p, bg.base + screen + (line % 32) * 32 + (col % 32))

Eights(x) == (x \div 8) * 8

ColumnOffset(p, b, x0, x, y, pos) ==
  LET lookup == x0 - 8 + Eights(p.bg[2].hofs)
      horizontal == ReadBgTilemapEntry(p, 2, lookup, p.bg[2].vofs)
      vertical == ReadBgTilemapEntry(p, 2, lookup, p.bg[2].vofs + 8)
      applies(entry) == Bit(entry, 13 + b) = 1
      moved(entry) == x0 + Eights(entry)
  IN  CASE p.bg_mode = 4 /\ ~applies(horizontal) -> pos
        [] p.bg_mode = 4 /\ applies(horizontal) ->
             IF Bit(horizontal, 15) = 1 THEN <<pos[1], y + horizontal>> ELSE <<moved(horizontal), pos[2]>>
        [] p.bg_mode = 2 -> <<IF applies(horizontal) THEN moved(horizontal) ELSE pos[1],
                              IF applies(vertical) THEN y + vertical ELSE pos[2]>>

ScrolledPosition(p, b, x, y) ==
  LET plain == <<x + p.bg[b].hofs, y + p.bg[b].vofs>>
      x0 == x + (p.bg[b].hofs % 8)
      pos == IF b < 2 /\ p.bg_mode \in {2, 4} /\ x0 >= 8
             THEN ColumnOffset(p, b, x0, x, y, plain) ELSE plain
  IN  <<pos[1] % 1024, pos[2] % 1024>>

EffectivePosition(p, b, x, y) ==
  ScrolledPosition(p, b, MosaicSourceX(p, b, x), MosaicSourceY(p, b, y))

RowKey(pos) == pos[2] * 128 + pos[1] \div 8

DecodeRow(p, b, bpp, pos) ==
  LET entry == ReadBgTilemapEntry(p, b, pos[1], pos[2])
      size == IF p.bg[b].tile16 THEN 16 ELSE 8
      hflip == Bit(entry, 14) = 1
      y == IF Bit(entry, 15) = 1 THEN size - 1 - (pos[2] % size) ELSE pos[2] % size
      half == Bit(pos[1], 3)
      char == (entry % 1024)
                + (IF size = 8 THEN 0 ELSE (IF hflip THEN 1 - half ELSE half) + (y \div 8) * 16)
      addr == 2 * p.bg[b].char + char * 8 * bpp + (y % 8) * 2
      plane(i) == VramByte(p, addr + 16 * (i \div 2) + (i % 2))
      group == Bits(entry, 10, 3)
  IN  [key |-> RowKey(pos),
       pixels |-> [x \in 0..7 |-> MapThenSumSet(LAMBDA i : Bit(plane(i), 7 - x) * 2^i, 0..(bpp - 1))],
       palette |-> (group * 2^bpp) % 256, group |-> group,
       priority |-> Bit(entry, 13) = 1, hflip |-> hflip]

RowAt(p, b, pos) ==
  IF p.row[b].key = RowKey(pos) /\ ~p.row_dirty[b] THEN p.row[b] ELSE DecodeRow(p, b, Bpp(p, b), pos)

CacheRow(p, b, row) == [p EXCEPT !.row[b] = row, !.row_dirty[b] = FALSE]

(* One pixel of a row: colour 0 is transparent. *)
PixelIn(p, b, row, pos) ==
  LET color == row.pixels[IF row.hflip THEN 7 - (pos[1] % 8) ELSE pos[1] % 8]
  IN  [color |-> color, group |-> row.group, priority |-> row.priority,
       index |-> row.palette + color]

-----------------------------------------------------------------------------
(***************************************************************************)
(* Windows and enabled layers.                                             *)
(***************************************************************************)
Inside(p, w, x) == p.window_bounds[2 * w] <= x /\ x <= p.window_bounds[2 * w + 1]

WindowMaskAt(p, x) ==
  p.window_regions[(IF Inside(p, 0, x) THEN 1 ELSE 0) + (IF Inside(p, 1, x) THEN 2 ELSE 0)]

(* Only looked up when some register makes windows matter. *)
WindowMask(p, x) ==
  IF p.main_window \cup p.sub_window # {} \/ p.cgwsel \div 16 # 0 THEN WindowMaskAt(p, x) ELSE {}

SubScreenInMath(p) == Bit(p.cgwsel, 1) = 1

MainMask(p, x) == p.main_layers \ (WindowMask(p, x) \cap p.main_window)
SubMask(p, x) ==
  IF SubScreenInMath(p) /\ p.cgadsub % 64 # 0
  THEN p.sub_layers \ (WindowMask(p, x) \cap p.sub_window) ELSE {}

-----------------------------------------------------------------------------
(***************************************************************************)
(* The pixel in front, on each screen (ResolveScreenPixels).  The objects  *)
(* come first; a background is fetched only if its best rank could beat    *)
(* what one of the screens has.                                            *)
(***************************************************************************)
Back(p) == [rank |-> 0, index |-> 0, color |-> Fetch(p.cgram, 0), layer |-> Backdrop]

ObjOn(p, screen, mask, obj, ranks) ==
  IF obj = 0 \/ Obj \notin mask THEN screen
  ELSE [rank |-> ranks[obj \div 256], index |-> obj % 256, color |-> Fetch(p.cgram, obj % 256),
        layer |-> Obj]

DirectColor(index, group) ==
  Bits(index, 0, 3) * 4 + Bit(group, 0) * 2 + Bits(index, 3, 3) * 128 + Bit(group, 1) * 64
    + Bits(index, 6, 2) * 8192 + Bit(group, 2) * 4096

DirectColorFor(p, b) == b = 0 /\ p.bg_mode \in {3, 4} /\ Bit(p.cgwsel, 0) = 1

OnScreen(screen, mask, ranked, rank, index, color) ==
  IF ranked.bg \in mask /\ rank > screen.rank
  THEN [rank |-> rank, index |-> index, color |-> color, layer |-> ranked.bg] ELSE screen

ColorOf(p, b, px, index) ==
  IF DirectColorFor(p, b) THEN DirectColor(px.color, px.group) ELSE Fetch(p.cgram, index)

(* What a fetched pixel of a background does to both screens. *)
PutPixel(s, ranked, px, index, mainMask, subMask) ==
  LET rank == IF px.priority THEN ranked.high ELSE ranked.low
      color == ColorOf(s.ppu, ranked.bg, px, index)
  IN  IF px.color = 0 THEN s
      ELSE [s EXCEPT !.main = OnScreen(@, mainMask, ranked, rank, index, color),
                     !.sub = OnScreen(@, subMask, ranked, rank, index, color)]

PaletteIndex(p, b, px) == (px.index + CgramBase(p, b)) % 256

PutRow(s, ranked, row, pos, mainMask, subMask) ==
  LET px == PixelIn(s.ppu, ranked.bg, row, pos)
  IN  PutPixel([s EXCEPT !.ppu = CacheRow(@, ranked.bg, row)], ranked, px,
               PaletteIndex(s.ppu, ranked.bg, px), mainMask, subMask)

PutAt(s, ranked, pos, mainMask, subMask) ==
  PutRow(s, ranked, RowAt(s.ppu, ranked.bg, pos), pos, mainMask, subMask)

VisitBg(s, ranked, x, y, mainMask, subMask) ==
  LET b == ranked.bg
      needed == \/ b \in mainMask /\ ranked.max > s.main.rank
                \/ b \in subMask /\ ranked.max > s.sub.rank
  IN  IF needed THEN PutAt(s, ranked, EffectivePosition(s.ppu, b, x, y), mainMask, subMask) ELSE s

ResolveTiled(p, x, y, obj, mainMask, subMask) ==
  LET plan == PlanOf(p)
      start == [ppu |-> p, main |-> ObjOn(p, Back(p), mainMask, obj, plan.obj),
                sub |-> ObjOn(p, Back(p), subMask, obj, plan.obj)]
  IN  FoldLeft(LAMBDA s, ranked : VisitBg(s, ranked, x, y, mainMask, subMask), start, plan.bgs)

-----------------------------------------------------------------------------
(***************************************************************************)
(* Mode 7: one background transformed by a matrix, and with EXTBG the same *)
(* pixels again as BG2, with their top bit as priority.                    *)
(***************************************************************************)
ClipM7(d) == (d % 1024) - (IF Bit(d % 16384, 13) = 1 THEN 1024 ELSE 0)
Truncate(d) == d - (d % 64)

FetchMode7Pixel(p, screenX, screenY) ==
  LET x == IF Bit(p.m7.sel, 0) = 1 THEN 255 - screenX ELSE screenX
      line == screenY + VisibleVStart
      y == IF Bit(p.m7.sel, 1) = 1 THEN 255 - line ELSE line
      param(r) == Signed(p.m7[r], 16)
      place(r) == Signed(p.m7[r] % 8192, 13)
      hx == ClipM7(place("hofs") - place("x"))
      vy == ClipM7(place("vofs") - place("y"))
      coordinate(m, n, center) ==
        (Truncate(param(m) * hx) + Truncate(param(n) * vy) + Truncate(param(n) * y)
           + place(center) * 256 + param(m) * x) \div 256
      px == coordinate("a", "b", "x")
      py == coordinate("c", "d", "y")
      outside == px \notin 0..1023 \/ py \notin 0..1023
      repeat == p.m7.sel \div 64
      u == px % 1024
      v == py % 1024
      tile == IF outside /\ repeat = 3 THEN 0
              ELSE VramByte(p, 2 * ((v \div 8) * 128 + u \div 8))
  IN  IF outside /\ repeat = 2 THEN 0
      ELSE VramByte(p, 2 * (tile * 64 + (v % 8) * 8 + (u % 8)) + 1)

(* One screen in front of bg1 and bg2, the pixels of the background as BG1 and BG2. *)
ScreenMode7(p, obj, mask, bg1, bg2) ==
  LET ranks == IF p.m7_extbg THEN <<2, 4, 6, 7>> ELSE <<1, 3, 4, 5>>
      rank1 == IF p.m7_extbg THEN 3 ELSE 2
      rank2 == IF bg2 >= 128 THEN 5 ELSE 1
      color1 == IF Bit(p.cgwsel, 0) = 1 THEN DirectColor(bg1, 0) ELSE Fetch(p.cgram, bg1)
      behind == ObjOn(p, Back(p), mask, obj, [i \in 0..3 |-> ranks[i + 1]])
      with1 == IF bg1 = 0 THEN behind ELSE OnScreen(behind, mask, [bg |-> 0], rank1, bg1, color1)
  IN  IF bg2 % 128 = 0 THEN with1
      ELSE OnScreen(with1, mask, [bg |-> 1], rank2, bg2 % 128, Fetch(p.cgram, bg2 % 128))

ScreensMode7(p, obj, mainMask, subMask, bg1, bg2) ==
  [ppu |-> p, main |-> ScreenMode7(p, obj, mainMask, bg1, bg2),
   sub |-> ScreenMode7(p, obj, subMask, bg1, bg2)]

ResolveMode7(p, x, y, obj, mainMask, subMask) ==
  LET pixel(b) == FetchMode7Pixel(p, MosaicSourceX(p, b, x), MosaicSourceY(p, b, y))
  IN  ScreensMode7(p, obj, mainMask, subMask, pixel(0), IF p.m7_extbg THEN pixel(1) ELSE 0)

Resolve(p, x, y, obj, mainMask, subMask) ==
  CASE p.bg_mode \in 0..4 -> ResolveTiled(p, x, y, obj, mainMask, subMask)
    [] p.bg_mode = 7 -> ResolveMode7(p, x, y, obj, mainMask, subMask)
    [] OTHER -> [ppu |-> p, main |-> Back(p), sub |-> Back(p)]

-----------------------------------------------------------------------------
(***************************************************************************)
(* Colour arithmetic and brightness.                                       *)
(***************************************************************************)
Unpack(bgr) == <<bgr % 32, (bgr \div 32) % 32, (bgr \div 1024) % 32>>
Pack(c) == c[1] + 32 * c[2] + 1024 * c[3]

ColorWindowAllows(mode, inside) ==
  CASE mode = 0 -> TRUE [] mode = 1 -> inside [] mode = 2 -> ~inside [] mode = 3 -> FALSE

(* An object takes part with palettes 4 to 7 only. *)
MathEnabledFor(p, screen) ==
  /\ screen.layer \in LayerSet(p.cgadsub, 6)
  /\ screen.layer = Obj => Bit(screen.index, 6) = 1

Blend(subtract, halve, a, b) ==
  LET value == IF subtract THEN Max({a - b, 0}) ELSE a + b
  IN  Min({IF halve THEN value \div 2 ELSE value, 31})

ApplyColorMath(p, main, sub, inColorWindow) ==
  LET visible == ColorWindowAllows(Bits(p.cgwsel, 6, 2), inColorWindow)
      bgr == IF visible THEN main.color ELSE 0
      useSub == SubScreenInMath(p) /\ sub.layer # Backdrop
      halve == Bit(p.cgadsub, 6) = 1 /\ visible /\ (SubScreenInMath(p) => useSub)
      other == IF useSub THEN Unpack(sub.color) ELSE p.coldata
  IN  IF ColorWindowAllows(Bits(p.cgwsel, 4, 2), inColorWindow) /\ MathEnabledFor(p, main)
      THEN Pack([c \in 1..3 |-> Blend(Bit(p.cgadsub, 7) = 1, halve, Unpack(bgr)[c], other[c])])
      ELSE bgr

BrightnessScale(bgr, brightness) ==
  IF brightness = 15 THEN bgr % 32768
  ELSE Pack([c \in 1..3 |-> (Unpack(bgr)[c] * (brightness + 1)) \div 16])

-----------------------------------------------------------------------------
(***************************************************************************)
(* BuildObjPixels: the line of object pixels, from the tiles fetched for   *)
(* it, the later tile in front.  It is built when a dot first needs it.    *)
(***************************************************************************)
TilePixel(tile, x) == tile.pixels[IF tile.hflip THEN 7 - (x - tile.x) ELSE x - tile.x]

BuildObjPixels(p) ==
  LET tiles == p.fetched[p.v % 2]
      covering(x) == {i \in DOMAIN tiles : /\ x - tiles[i].x \in 0..7
                                           /\ TilePixel(tiles[i], x) # 0}
  IN  [p EXCEPT
         !.obj_ready = TRUE,
         !.obj_line = [x \in 0..(ScreenWidth - 1) |->
                         IF covering(x) = {} THEN 0
                         ELSE LET i == Max(covering(x))
                              IN  tiles[i].palette + TilePixel(tiles[i], x)]]

(***************************************************************************)
(* EmitPixel at dot (h, v).                                                *)
(***************************************************************************)
VisibleVEnd(p) == IF p.overscan THEN VisibleVEnd239 ELSE VisibleVEnd224

Draw(p, d, color) == IF d \in Grid THEN [p EXCEPT !.back[d] = color] ELSE p

Visible(p, h, v) ==
  /\ h - VisibleHStart \in 0..(ScreenWidth - 1)
  /\ v \in VisibleVStart..(VisibleVEnd(p) - 1)
  /\ ~p.forced_blank

(* The two screens s, put together. *)
Show(s, h, v) ==
  LET x == h - VisibleHStart
      color == ApplyColorMath(s.ppu, s.main, s.sub, Backdrop \in WindowMask(s.ppu, x))
  IN  Draw(s.ppu, <<v, x>>, BrightnessScale(color, s.ppu.brightness))

ScreensAt(p, x, y, main, sub) ==
  Resolve(p, x, y, IF Obj \in main \cup sub THEN p.obj_line[x] ELSE 0, main, sub)

WithObjects(p, main, sub) ==
  IF Obj \in main \cup sub /\ ~p.obj_ready THEN BuildObjPixels(p) ELSE p

EmitPixel(p, h, v) ==
  LET x == h - VisibleHStart
      main == MainMask(p, x)
      sub == SubMask(p, x)
  IN  IF Visible(p, h, v)
      THEN Show(ScreensAt(WithObjects(p, main, sub), x, v - VisibleVStart, main, sub), h, v)
      ELSE Draw(p, <<v, x>>, 0)
=============================================================================
