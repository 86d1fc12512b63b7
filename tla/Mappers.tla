------------------------------ MODULE Mappers ------------------------------
(***************************************************************************)
(* The page-table layouts of hw/rom/mapper.cpp and of the console's own    *)
(* devices: which pages each of them claims, in which order, and what the  *)
(* entries say.  cart is [id, kind, size, sram]: the cartridge's device,   *)
(* its mapper, the bytes of ROM and of SRAM.                               *)
(***************************************************************************)
EXTENDS SystemBus

WramId == 2
CpuMmioId == 3
DmaId == 4
PpuId == 7

In(banks, pages) == {p \in Pages : p[1] \in banks /\ p[2] \in pages}

(* Where in the image, or in the SRAM window of its bank, a page begins.   *)
(* The lower half of an ExHiROM mirrors what the image has above 4 MiB.    *)
kExHiRomBase == 4194304
LoRomOffset(p) == (p[1] % 128) * 32768 + (p[2] - 128) * 256
HiRomOffset(p) == (p[1] % 64) * 65536 + p[2] * 256
ExHiRomOffset(p, window) == kExHiRomBase + (HiRomOffset(p) % window)
SramOffset(kind, p) == IF kind = "LoROM" THEN p[2] * 256 ELSE (p[2] - 96) * 256

(* A page-table entry of the cartridge's ROM: a pointer only if the whole  *)
(* window of 256 bytes lies inside the image.                              *)
RomEntry(cart, at, speed) ==
  [device |-> cart.id, base |-> at, sram |-> FALSE, kind |-> "memory", speed |-> speed,
   fastRead |-> at + 256 <= cart.size, fastWrite |-> FALSE]

(* Writes to SRAM take the slow path, which sets the dirty flag. *)
SramEntry(cart, at) ==
  [device |-> cart.id, base |-> at, sram |-> TRUE, kind |-> "memory", speed |-> 8,
   fastRead |-> TRUE, fastWrite |-> FALSE]

MapLoRomBankRange(table, cart, banks, speed) ==
  MapPages(table, [p \in In(banks, 128..255) |-> RomEntry(cart, LoRomOffset(p), speed)])

MapLoRomSramBank(table, cart, banks) ==
  MapPages(table, [p \in In(banks, 0..127) |-> SramEntry(cart, SramOffset("LoROM", p) % cart.sram)])

MapHiRomBankPages(table, cart, banks, pages, speed) ==
  MapPages(table, [p \in In(banks, pages) |-> RomEntry(cart, HiRomOffset(p), speed)])

MapExHiRomLowerBankPages(table, cart, banks, pages) ==
  LET window == cart.size - kExHiRomBase
  IN  IF window <= 0 THEN table
      ELSE MapPages(table, [p \in In(banks, pages) |-> RomEntry(cart, ExHiRomOffset(p, window), 8)])

MapHiRomSramBank(table, cart, banks) ==
  MapPages(table, [p \in In(banks, 96..127) |-> SramEntry(cart, SramOffset(cart.kind, p) % cart.sram)])

MapUpperHiRom(table, cart, speed) ==
  MapHiRomBankPages(
    MapHiRomBankPages(table, cart, 128..191, 128..255, speed), cart, 192..255, 0..255, speed)

LoRomMapInitial(table, cart) ==
  LET rom == MapLoRomBankRange(MapLoRomBankRange(table, cart, 0..125, 8), cart, 128..255, 8)
  IN  IF cart.sram = 0 THEN rom
      ELSE MapLoRomSramBank(MapLoRomSramBank(rom, cart, 112..125), cart, 240..255)

HiRomSram(table, cart) ==
  IF cart.sram = 0 THEN table
  ELSE MapHiRomSramBank(MapHiRomSramBank(table, cart, 32..63), cart, 160..191)

HiRomMapInitial(table, cart) ==
  LET half == MapHiRomBankPages(table, cart, 0..63, 128..255, 8)
      whole == MapHiRomBankPages(half, cart, 64..125, 0..255, 8)
  IN  HiRomSram(MapUpperHiRom(whole, cart, 8), cart)

ExHiRomMapInitial(table, cart) ==
  LET upper == MapUpperHiRom(table, cart, 8)
      half == MapExHiRomLowerBankPages(upper, cart, 0..63, 128..255)
      whole == MapExHiRomLowerBankPages(half, cart, 64..125, 0..255)
  IN  HiRomSram(whole, cart)

MapInitial(table, cart) ==
  CASE cart.kind = "LoROM" -> LoRomMapInitial(table, cart)
    [] cart.kind = "HiROM" -> HiRomMapInitial(table, cart)
    [] cart.kind = "ExHiROM" -> ExHiRomMapInitial(table, cart)

(* MEMSEL: the fast banks are mapped again, at six or eight cycles. *)
OnMemSelChanged(table, cart, fast) ==
  LET speed == IF fast THEN 6 ELSE 8
  IN  CASE cart.kind = "None" -> table
        [] cart.kind = "LoROM" -> MapLoRomBankRange(table, cart, 128..255, speed)
        [] OTHER -> MapUpperHiRom(table, cart, speed)

-----------------------------------------------------------------------------
(* What SNES::SNES maps once, before any cartridge. *)

LowBanks == (0..63) \cup (128..191)

WramEntry(at) ==
  [device |-> WramId, base |-> at, sram |-> FALSE, kind |-> "memory", speed |-> 8,
   fastRead |-> TRUE, fastWrite |-> TRUE]

MapWram(table) ==
  MapPages(
    MapPages(table, [p \in In({126, 127}, 0..255) |->
      WramEntry((p[1] - 126) * 65536 + p[2] * 256)]),
    [p \in In(LowBanks, 0..31) |-> WramEntry(p[2] * 256)])

MmioEntry(id, at, speed) ==
  [device |-> id, base |-> at, sram |-> FALSE, kind |-> "sameClockMmio", speed |-> speed,
   fastRead |-> FALSE, fastWrite |-> FALSE]

(* CpuMmio claims $40-$43 and DmaController takes $43 from it; $4000-$41FF *)
(* are the slowest addresses there are.                                    *)
MapMmio(table) ==
  LET cpu == MapPages(table, [p \in In(LowBanks, 64..67) |->
               MmioEntry(CpuMmioId, p[2] * 256, IF p[2] \in {64, 65} THEN 12 ELSE 6)])
      dma == MapPages(cpu, [p \in In(LowBanks, {67}) |-> MmioEntry(DmaId, p[2] * 256, 6)])
  IN  MapPages(dma, [p \in In(LowBanks, {33}) |-> MmioEntry(PpuId, p[2] * 256, 6)])

ConsoleMap == MapMmio(MapWram([p \in Pages |-> Unmapped]))
=============================================================================
