----------------------------- MODULE CartProfile ----------------------------
(***************************************************************************)
(* How a ROM image becomes a cartridge: hw/rom/rom_format.h,               *)
(* cart_profile.cpp, the loaders of cartridge.cpp and the registry that    *)
(* picks one.  Of an image is kept what the decisions look at: its size,   *)
(* and for each of the three places a header may be, whether the map-mode  *)
(* byte there names that mapper (map), whether the checksum pair there adds*)
(* up (sum), whether the chipset byte names a coprocessor (coproc) and the *)
(* RAM size byte (ram).                                                    *)
(***************************************************************************)
EXTENDS Integers

MapperKinds == {"LoROM", "HiROM", "ExHiROM"}

kMapModeOffset == [LoROM |-> 32725, HiROM |-> 65493, ExHiROM |-> 4259797]

kSmcCopierHeaderSize == 512
kMaxSramSizeByte == 9

HasSmcCopierHeader(size) == size % 32768 = kSmcCopierHeaderSize

(* StripSmcCopierHeader: the image's fields describe the payload. *)
StripSmcCopierHeader(rom) ==
  IF HasSmcCopierHeader(rom.size) THEN [rom EXCEPT !.size = @ - kSmcCopierHeaderSize] ELSE rom

(* The header's bytes are where its map-mode byte is: the RAM size three   *)
(* bytes, the checksum nine to ten bytes behind it, the chipset byte next. *)
MapMode(rom, kind) == rom.size > kMapModeOffset[kind] /\ rom.map[kind]
ChecksumPairValid(rom, kind) == rom.size > kMapModeOffset[kind] + 10 /\ rom.sum[kind]
HasCoprocessor(rom, kind) == rom.size > kMapModeOffset[kind] + 1 /\ rom.coproc[kind]

(* 1024 << byte. *)
RamBytes[byte \in Nat] == IF byte = 0 THEN 1024 ELSE 2 * RamBytes[byte - 1]

(* The profile reads the RAM size as a byte, $FF where there is none ...   *)
ProfileSramBytes(rom, kind) ==
  LET byte == IF rom.size > kMapModeOffset[kind] + 3 THEN rom.ram[kind] ELSE 255
  IN  IF byte = 0 \/ byte > kMaxSramSizeByte THEN 0 ELSE RamBytes[byte]

(* ... and LoRomSramSize, HiRomSramSize, ExHiRomSramSize for themselves.   *)
SramSize(rom, kind) ==
  IF rom.size > kMapModeOffset[kind] + 3 /\ rom.ram[kind] \in 1..kMaxSramSizeByte
  THEN RamBytes[rom.ram[kind]] ELSE 0

(* The only one of the checksums that is right. *)
OnlySum(rom, kind, others) ==
  ChecksumPairValid(rom, kind) /\ \A other \in others : ~ChecksumPairValid(rom, other)

PickByChecksum(rom) ==
  IF OnlySum(rom, "ExHiROM", {"LoROM", "HiROM"}) THEN "ExHiROM"
  ELSE IF OnlySum(rom, "HiROM", {"LoROM"}) THEN "HiROM" ELSE "LoROM"

PickAmong(rom, kinds) ==
  LET wins(kind, others) == kind \in kinds /\ OnlySum(rom, kind, others)
  IN  IF wins("ExHiROM", {"LoROM", "HiROM"}) THEN "ExHiROM"
      ELSE IF wins("HiROM", {"LoROM"}) \/ ("HiROM" \in kinds /\ ~wins("LoROM", {"HiROM"}))
           THEN "HiROM" ELSE "LoROM"

(* Mutant: without a map-mode byte, HiROM is tried only when the ExHiROM   *)
(* header does not add up either.                                          *)
PickMapperByLoSumOnly(rom) ==
  LET kinds == {k \in MapperKinds : MapMode(rom, k)}
  IN  IF kinds = {} THEN (IF OnlySum(rom, "HiROM", {"LoROM", "ExHiROM"}) THEN "HiROM" ELSE "LoROM")
      ELSE PickAmong(rom, kinds)

PickMapper(rom) ==
  LET kinds == {k \in MapperKinds : MapMode(rom, k)}
  IN  CASE kinds = {} -> PickByChecksum(rom)
        [] kinds \in {{k} : k \in MapperKinds} -> CHOOSE k \in kinds : TRUE
        [] OTHER -> PickAmong(rom, kinds)

(* DetectCartProfile. *)
DetectCartProfile(rom) ==
  IF rom.size = 0 \/ HasSmcCopierHeader(rom.size)
  THEN [mapper |-> "None", coproc |-> FALSE, sramBytes |-> 0]
  ELSE LET kind == PickMapper(rom)
       IN  [mapper |-> kind, coproc |-> HasCoprocessor(rom, kind), sramBytes |-> ProfileSramBytes(rom, kind)]

-----------------------------------------------------------------------------
(* The loaders do not take the detector's word for it. *)

CheckHardRomShape(rom, kind) ==
  IF rom.size = 0 THEN "empty"
  ELSE IF HasSmcCopierHeader(rom.size) THEN "copier"
  ELSE IF rom.size <= kMapModeOffset[kind] THEN "tooSmall" ELSE "ok"

OtherMapperWins(rom, requested) ==
  LET other == IF requested = "LoROM" THEN "HiROM" ELSE "LoROM"
  IN  /\ requested \in {"LoROM", "HiROM"}
      /\ ~MapMode(rom, requested)
      /\ MapMode(rom, other) \/ OnlySum(rom, other, {requested})

(* LoadLoRom, LoadHiRom, LoadExHiRom. *)
LoadAs(rom, kind) ==
  IF CheckHardRomShape(rom, kind) # "ok" THEN CheckHardRomShape(rom, kind)
  ELSE IF OtherMapperWins(rom, kind) THEN "wrongMapper" ELSE "ok"

(* SNES::LoadRom and CartridgeRegistry::Build, which knows no coprocessor. *)
Build(rom) ==
  LET profile == DetectCartProfile(rom)
  IN  [profile |-> profile,
       outcome |-> IF profile.mapper = "None" THEN "unrecognised"
                   ELSE IF profile.coproc THEN "noBuilder" ELSE LoadAs(rom, profile.mapper)]
=============================================================================
