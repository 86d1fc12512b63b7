----------------------------- MODULE MCDevices -----------------------------
(***************************************************************************)
(* Devices on a raster of five lines of 24 dots, two of them visible with  *)
(* 16 pixels each, and four objects; a joypad of two buttons, whose        *)
(* automatic read takes five edges; an audio unit of 2 cycles in 7; and a  *)
(* log of four writes.                                                     *)
(***************************************************************************)
EXTENDS Devices

LOCAL INSTANCE SequencesExt

MCLongDots == {19, 21}
MCTimerPeriods == <<4, 4, 2>>

(* A line is 24 * 2 + 2 cycles. *)
Line == 50
Frame == 5 * Line

-----------------------------------------------------------------------------
W(reg, data) == <<reg, data>>
Bytes(reg, datas) == [i \in DOMAIN datas |-> W(reg, datas[i])]

(* Words of video memory from an address on. *)
Vram(address, words) ==
  <<W("VMAIN", 128), W("VMADDL", address % 256), W("VMADDH", address \div 256)>>
    \o FlattenSeq([i \in DOMAIN words |-> <<W("VMDATAL", words[i] % 256), W("VMDATAH", words[i] \div 256)>>])

(* Entry i of the palette is a colour of its own. *)
Palette(first, n) ==
  <<W("CGADD", first)>>
    \o FlattenSeq([i \in 1..n |-> <<W("CGDATA", (37 * (first + i)) % 256), W("CGDATA", (first + 5 * i) % 128)>>])

(***************************************************************************)
(* Four objects: two of low and high priority over the left half, one      *)
(* flipped and half outside on the right, one large.                       *)
(***************************************************************************)
OamTable ==
  <<W("OAMADDL", 0), W("OAMADDH", 0)>>
    \o Bytes("OAMDATA", <<1, 0, 2, 8,  4, 1, 2, 56,  12, 0, 3, 66,  2, 255, 2, 26>>)
    \o <<W("OAMADDH", 1), W("OAMDATA", 128), W("OAMADDL", 0), W("OAMADDH", 0)>>

(* Tiles 0 to 3 of any depth, and three tile maps. *)
Memory ==
  <<Vram(8, <<23130, 43605, 3855, 61680>>), Vram(16, <<52428, 21930, 255, 3084>>),
    Vram(24, <<61455, 4080, 255, 0>>), Vram(32, <<43690, 13107, 65280, 21845>>),
    Vram(40, <<3855, 61680, 13260, 0>>), Vram(48, <<23205, 50115, 0, 0>>),
    Vram(1024, <<1, 8194, 24577, 9217>>), Vram(2048, <<2, 1025, 8193, 2>>),
    Vram(3072, <<8193, 1, 8194, 3073>>), Vram(3104, <<8200, 24579, 1, 40961>>)>>

Scene(mode, layers) ==
  FlattenSeq(Memory \o
  <<Palette(0, 24), Palette(32, 16), Palette(64, 16), Palette(96, 16), Palette(144, 16), Palette(192, 16),
    Palette(208, 16), OamTable,
    <<W("BG1SC", 4), W("BG2SC", 8), W("BG3SC", 12), W("BG4SC", 8), W("BGMODE", mode),
      W("TM", layers), W("INIDISP", 15)>> >>)

(* Blending with what the sub screen shows, in and around two windows. *)
Blended ==
  <<W("W12SEL", 178), W("W34SEL", 11), W("WOBJSEL", 162), W("WH0", 3), W("WH1", 9), W("WH2", 6), W("WH3", 13),
    W("WBGLOG", 228), W("WOBJLOG", 9), W("TS", 22), W("TMW", 21), W("TSW", 18),
    W("CGWSEL", 98), W("CGADSUB", 127), W("COLDATA", 229)>>

Rotation ==
  Bytes("M7A", <<64, 1>>) \o Bytes("M7B", <<32, 0>>) \o Bytes("M7C", <<224, 255>>)
    \o Bytes("M7D", <<0, 1>>) \o Bytes("M7X", <<3, 0>>) \o Bytes("M7Y", <<1, 0>>) \o <<W("M7SEL", 128)>>

-----------------------------------------------------------------------------
Acc(op, reg, port, data) == [op |-> op, reg |-> reg, port |-> port, data |-> data]
Write(reg, data) == Acc("ppu_write", reg, 0, data)
Read(reg) == Acc("ppu_read", reg, 0, 0)
Other(op, data) == Acc(op, "", 0, data)

Quiet ==
  [setup |-> <<>>, buttons |-> [port \in Pads |-> 0], auto |-> FALSE, script |-> <<A!Idle>>,
   spc |-> <<>>, accesses |-> {}, deltas |-> {1}, left |-> 0, horizon |-> 0, presses |-> {},
   bytes |-> {}, words |-> {}]

With(setup, accesses, deltas, number) ==
  [Quiet EXCEPT !.setup = setup, !.accesses = accesses, !.deltas = deltas, !.left = number,
                !.horizon = Frame]

(* The next word written is a row of a tile on the screen. *)
AtTile == <<W("VMAIN", 0), W("VMADDL", 16), W("VMADDH", 0)>>

(* Pictures: what may change between two lines, two tiles or two dots. *)
Plain ==
  With(Scene(1, 23) \o AtTile,
       {Write("VMDATAL", 255), Write("OAMDATA", 9), Write("INIDISP", 128), Write("BG1HOFS", 3),
        Read("STAT77"), Read("RDVRAMH")},
       {3, 27, 61}, 2)

Windows ==
  With(Scene(0, 31) \o Blended,
       {Write("WH0", 8), Write("WBGLOG", 27), Write("TMW", 31), Write("CGWSEL", 50), Write("CGADSUB", 191)},
       {30, 57}, 2)

Offsets ==
  With(Scene(2, 19),
       {Write("BG3HOFS", 8), Write("BG3VOFS", 1), Write("BG3SC", 4), Write("BGMODE", 4), Write("BGMODE", 17)},
       {27, 54}, 2)

Mosaics ==
  With(Scene(3, 19) \o <<W("CGWSEL", 1)>>,
       {Write("MOSAIC", 19), Write("MOSAIC", 49), Write("BGMODE", 12), Write("CGDATA", 77), Write("OBSEL", 96)},
       {27, 54}, 2)

Rotated ==
  With(Scene(7, 19) \o Rotation \o Blended,
       {Write("SETINI", 64), Write("M7A", 2), Write("BG1HOFS", 2), Write("M7SEL", 195), Write("BGMODE", 5)},
       {27, 54}, 2)

Overscanned ==
  [With(Scene(1, 17), {Write("SETINI", 4), Write("OAMADDH", 128), Read("RDOAM"), Other("rdnmi", 0)},
        {110, 147}, 3)
     EXCEPT !.horizon = 2 * Frame]

(* Ports and the log: bursts of writes, more than the log holds. *)
Burst ==
  With(Scene(1, 1) \o AtTile, {Write("VMDATAL", 255), Write("VMDATAH", 85), Read("RDVRAML")}, {2}, 5)

MemoryPorts ==
  With(Scene(1, 1),
       {Write("VMAIN", 4), Write("VMADDH", 1), Read("RDVRAMH"), Write("OAMDATA", 7), Read("RDOAM"),
        Write("CGDATA", 7), Read("RDCGRAM")},
       {1}, 3)

Counters ==
  [With(<<>>,
        {Read("SLHV"), Read("OPHCT"), Read("OPVCT"), Read("STAT78"), Other("wrio", 0), Other("wrio", 1),
         Other("hvbjoy", 0), Other("rdnmi", 0), Other("nmi_line", 0)},
        {71}, 3)
     EXCEPT !.horizon = 2 * Frame]

(* Joypads: VBlank begins at 150, the automatic read at 159. *)
Pad(buttons0, buttons1) == [port \in Pads |-> IF port = 0 THEN buttons0 ELSE buttons1]

PadsUnderRead ==
  [With(<<>>,
        {Other("nmitimen", 0), Other("nmitimen", 1), Other("strobe", 1), Other("strobe", 0),
         Acc("serial", "", 0, 0), Acc("auto_result", "", 0, 0), Other("hvbjoy", 0)},
        {6, 159}, 4)
     EXCEPT !.auto = TRUE, !.buttons = Pad(2, 3), !.presses = {Pad(1, 0)}]

(* Audio: a core that answers port 0 on port 1 and counts timers. *)
Answering ==
  <<A!Load("PORT", 0), A!Put("PORT", 1, -1), A!Put("TARGET", 1, 2), A!Put("CONTROL", 0, 129), A!Load("OUTPUT", 1),
    A!Load("HIGH", 0), A!Put("PORT", 2, -1), A!Put("CONTROL", 0, 49), A!Put("HIGH", 0, 5)>>

Counting ==
  <<A!Put("TARGET", 3, 1), A!Put("TARGET", 2, 0), A!Put("CONTROL", 0, 6)>>
    \o [i \in 1..40 |-> IF i = 30 THEN A!Load("OUTPUT", 3) ELSE A!Idle] \o <<A!Put("CONTROL", 0, 0)>>

Failing == <<A!Put("DSPADDR", 0, 3), A!Put("DSPDATA", 0, 9), A!Load("DSPDATA", 0), A!Put("AUX", 1, 4),
             A!Put("PORT", 0, -1), A!Idle, A!Put("TEST", 0, 1)>>

ApuAccesses == {Acc("apu_read", "", port, 0) : port \in 0..2} \cup {Acc("apu_write", "", 0, 7)}

WithScript(script, accesses, deltas, number) ==
  [With(<<>>, accesses, deltas, number) EXCEPT !.script = script]

Snapshot ==
  [control |-> 131, dsp_address |-> 130, ports |-> [i \in A!Ports |-> i], aux |-> [i \in 0..1 |-> 0],
   targets |-> <<3, 1, 0>>, outputs |-> <<2, 3, 1>>]

Played == [WithScript(<<A!Load("AUX", 0), A!Load("OUTPUT", 2)>>, {Acc("apu_read", "", 3, 0)}, {1, 10, 31}, 4)
             EXCEPT !.spc = <<Snapshot>>]

(* Arithmetic, with bytes of three bits. *)
Sums == [Quiet EXCEPT !.left = 3, !.bytes = {0, 3, 7}, !.words = {0, 13, 63}]

MCSessions ==
  <<Plain, Windows, Offsets, Mosaics, Rotated, Overscanned, Burst, MemoryPorts, Counters, PadsUnderRead,
    WithScript(Answering, ApuAccesses, {4, 15, 37}, 3), WithScript(Counting, {Acc("apu_read", "", 1, 0)}, {9, 70}, 4),
    WithScript(Failing, ApuAccesses, {9, 20}, 3), Played, Sums>>
=============================================================================
