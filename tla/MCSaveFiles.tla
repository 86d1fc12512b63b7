----------------------------- MODULE MCSaveFiles ----------------------------
(* SaveFiles and CartridgeSlot for TLC: 46 pages, both ends of each; images *)
(* of every mapper, and one of every combination of header signals.        *)
EXTENDS SaveFiles

SomePages ==
  ({0, 128} \X {0, 33, 64, 66, 67, 128, 255}) \cup ({32, 160} \X {96, 104, 127, 128})
  \cup ({64, 192} \X {0, 96, 128, 255}) \cup ({112, 240} \X {0, 8, 127, 128})
  \cup ({125, 126, 127, 255} \X {0, 255})

BothEnds == {0, 255}

(* What those pages show of 2 KiB and of 8 KiB. *)
SomeCells == {0, 255, 1792, 2047, 2048, 2303, 7936, 8191}

Flags(set) == [k \in MapperKinds |-> k \in set]

Image(name, save, size, kinds, ram) ==
  [name |-> name, save |-> save, size |-> size, map |-> Flags(kinds), sum |-> Flags({}),
   coproc |-> Flags({}), ram |-> [k \in MapperKinds |-> ram]]

(* Three LoROM banks and a bit; with the same save, another version of it  *)
(* with four times the SRAM; a copier's dump without SRAM; and so on.      *)
Games ==
  {Image("lo", "lo", 98404, {"LoROM"}, 1), Image("lo8", "lo", 65536, {"LoROM"}, 3),
   Image("dump", "dump", 33280, {"LoROM"}, 0), Image("hi", "hi", 131072, {"HiROM"}, 3),
   Image("ex", "ex", 4325376, {"ExHiROM"}, 1), Image("tiny", "tiny", 20000, {}, 1),
   [Image("chip", "chip", 65536, {"LoROM"}, 1) EXCEPT !.coproc = Flags({"LoROM"})]}

(* Every header: which of them look right, on either side of each size at  *)
(* which the next byte or the next header comes into reach.                *)
Headers ==
  {[name |-> "header", save |-> "header", size |-> size, map |-> Flags(maps), sum |-> Flags(sums),
    coproc |-> Flags(chips), ram |-> [k \in MapperKinds |-> ram]] :
     size \in {0, 32725, 32726, 32728, 32729, 65493, 65503, 65504, 4259797, 4259840},
     maps \in SUBSET MapperKinds, sums \in SUBSET MapperKinds,
     chips \in {{}, {"HiROM"}}, ram \in {1, 10}}

AllImages == Games \cup Headers

(* SRAM through both windows of LoROM, and also of HiROM, WRAM through its *)
(* mirror, and ROM.                                                        *)
SramTargets == {<<112, 0, 0>>, <<240, 127, 255>>}
EveryTarget == SramTargets \cup {<<32, 96, 0>>, <<128, 0, 255>>, <<0, 128, 0>>}

Session(name, images, targets, loads, writes, retimes, faults, crashes, toggles) ==
  [app |-> name, images |-> images, targets |-> targets, spc |-> name = "emulator",
   loads |-> loads, writes |-> writes, retimes |-> retimes, faults |-> faults,
   crashes |-> crashes, toggles |-> toggles]

AllSessions ==
  {Session("emulator", {"lo", "hi", "ex", "dump", "chip", "tiny"}, EveryTarget, 3, 1, 2, 0, 0, 0),
   Session("debugger", {"header"}, {}, 1, 0, 0, 0, 0, 0),
   Session("emulator", {"lo", "lo8"}, SramTargets, 2, 2, 0, 2, 1, 0),
   Session("debugger", {"lo", "lo8"}, SramTargets, 3, 2, 0, 2, 1, 1)}

Cuts == {0, 256, 65536}
=============================================================================
