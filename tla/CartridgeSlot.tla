---------------------------- MODULE CartridgeSlot ---------------------------
(***************************************************************************)
(* The console's address space while cartridges come and go: SNES::LoadRom *)
(* builds and maps the new cartridge before the old one is destroyed, and  *)
(* MEMSEL retimes the mapped pages behind the mapper's back.               *)
(* Reads and writes of a few pages stand for the 65536 there are.          *)
(***************************************************************************)
EXTENDS Mappers, CartProfile, FiniteSets

CONSTANTS
  Images,     \* ROM images: the fields of CartProfile, a name and a save name
  SramCells   \* the bytes of SRAM looked at, at least those Pages can show

VARIABLES
  table,      \* SystemBus::page_table_, the entries of Pages
  live,       \* the ids SNES::devices_ has a device for
  nextId,     \* the size of SNES::devices_
  cart,       \* the installed Cartridge
  sram,       \* its sram_, the bytes of SramCells it has
  dirty,      \* its sram_dirty_
  fast,       \* bit 0 of CpuMmio::memsel_
  wram,       \* WRAM::bytes_, those in sight
  build       \* the last BuildResult

ASSUME ImageAssumption ==
  Images \subseteq
    [name : STRING \ {"none", "spc", "openBus"}, save : STRING \ {"none"}, size : Nat,
     map : [MapperKinds -> BOOLEAN], sum : [MapperKinds -> BOOLEAN],
     coproc : [MapperKinds -> BOOLEAN], ram : [MapperKinds -> 0..255]]

(* The pages through which a mapper shows SRAM. *)
SramPages(kind) ==
  IF kind = "LoROM" THEN In((112..125) \cup (240..255), 0..127)
  ELSE In((32..63) \cup (160..191), 96..127)

ASSUME CellsAssumption ==
  /\ SramCells \subseteq Nat
  /\ \A rom \in Images, kind \in MapperKinds :
       rom.ram[kind] \in 1..kMaxSramSizeByte =>
         \A p \in SramPages(kind), o \in Offsets :
           (SramOffset(kind, p) + o) % RamBytes[rom.ram[kind]] \in SramCells

slotVars == <<table, live, nextId, cart, sram, dirty, fast, wram, build>>

Fill == <<"fill", 255>>

NoPages == [p \in Pages |-> Unmapped]
NoCart == [id |-> 1, kind |-> "None", size |-> 0, sram |-> 0, image |-> "none"]
NoBuild == [profile |-> [mapper |-> "None", coproc |-> FALSE, sramBytes |-> 0],
            outcome |-> "none"]

WramCells == {e.base + o : e \in {MapWram(NoPages)[p] : p \in Pages}, o \in Offsets}

CartOf(rom, id) ==
  LET profile == DetectCartProfile(rom)
  IN  [id |-> id, kind |-> profile.mapper, size |-> rom.size, sram |-> SramSize(rom, profile.mapper),
       image |-> rom.name]

CellsOf(size) == {c \in SramCells : c < size}

-----------------------------------------------------------------------------
(* Accesses. *)

(* Cartridge::ReadRegister and the like, by which every device but a freed *)
(* one is read.                                                            *)
RegisterByte(device, inSram, at) ==
  CASE device = cart.id /\ inSram -> sram[at % cart.sram]
    [] device = cart.id /\ ~inSram -> <<cart.image, at % cart.size>>
    [] device = WramId -> wram[at]
    [] OTHER -> <<"register", at>>

(* A pointer into a cartridge that is gone dangles. *)
DirectByte(device, inSram, at) ==
  CASE device = cart.id /\ inSram -> sram[at]
    [] device = cart.id /\ ~inSram -> <<cart.image, at>>
    [] device = WramId -> wram[at]
    [] OTHER -> <<"dangling", device>>

BusRead(a) ==
  LET r == FollowRead(table, live, a)
  IN  CASE r.by = "pointer" -> DirectByte(r.device, r.sram, r.at)
        [] r.by = "device" -> RegisterByte(r.device, r.sram, r.at)
        [] OTHER -> <<"openBus", 0>>

DebuggerRead(a) ==
  LET r == DebugRead(table, live, a)
  IN  IF r.by = "device" THEN RegisterByte(r.device, r.sram, r.at) ELSE <<"refused", 0>>

(* A write of the CPU or of the debugger to storage.  ROM takes none.      *)
WriteStorage(a, byte) ==
  LET e == EntryAt(table, a)
      at == e.base + a[3]
  IN  /\ e.kind \in {"memory", "unmapped"}
      /\ wram' = IF e.kind = "memory" /\ e.device = WramId /\ WramId \in live
                 THEN [wram EXCEPT ![at] = byte] ELSE wram
      /\ LET stored == e.kind = "memory" /\ e.device = cart.id /\ e.sram /\ cart.sram > 0
         IN  /\ sram' = IF stored THEN [sram EXCEPT ![at % cart.sram] = byte] ELSE sram
             /\ dirty' = (dirty \/ stored)
      /\ UNCHANGED <<table, live, nextId, cart, fast, build>>

(* $420D: the page table changes only when the bit does. *)
WriteMemSel(on) ==
  /\ fast' = on
  /\ table' = IF on = fast THEN table ELSE OnMemSelChanged(table, cart, on)
  /\ UNCHANGED <<live, nextId, cart, sram, dirty, wram, build>>

(* SNES::Reset, of which only CpuMmio::Reset touches the address space.    *)
SlotReset ==
  /\ fast' = FALSE
  /\ table' = IF fast THEN OnMemSelChanged(table, cart, FALSE) ELSE table

-----------------------------------------------------------------------------
(* SNES::LoadRom.  The id of a cartridge whose loader refuses is used up.  *)

Refuse(rom, result) ==
  /\ result.outcome # "ok"
  /\ build' = result
  /\ nextId' = IF result.outcome \in {"unrecognised", "noBuilder"} THEN nextId ELSE nextId + 1
  /\ UNCHANGED <<table, live, cart, sram, dirty, fast, wram>>

(* Map the new cartridge, destroy the old one, which takes its pages out,  *)
(* and reset CpuMmio, which knows only the new one; then SNES::Reset.      *)
Install(rom, result, bytes) ==
  LET new == CartOf(rom, nextId)
      mapped == MapInitial(table, new)
      swept == UnmapByDeviceId(mapped, cart.id)
  IN  /\ result.outcome = "ok"
      /\ build' = result
      /\ nextId' = nextId + 1
      /\ live' = (live \ {cart.id}) \cup {nextId}
      /\ cart' = new
      /\ table' = IF fast THEN OnMemSelChanged(swept, new, FALSE) ELSE swept
      /\ fast' = FALSE
      /\ sram' = bytes
      /\ dirty' = FALSE
      /\ UNCHANGED wram

FreshSram(size) == [c \in CellsOf(size) |-> Fill]

(* LoadSram: a short file leaves the rest as in an empty cartridge. *)
LoadSram(size, bytes) ==
  [c \in CellsOf(size) |-> IF c \in DOMAIN bytes THEN bytes[c] ELSE Fill]

SlotInit ==
  /\ table = ConsoleMap
  /\ live = 0..7
  /\ nextId = 8
  /\ cart = NoCart
  /\ sram = FreshSram(0)
  /\ dirty = FALSE
  /\ fast = FALSE
  /\ wram = [c \in WramCells |-> <<"fill", 0>>]
  /\ build = NoBuild

(* Another process, in which nothing is loaded. *)
SlotReborn ==
  /\ table' = ConsoleMap
  /\ live' = 0..7
  /\ nextId' = 8
  /\ cart' = NoCart
  /\ sram' = FreshSram(0)
  /\ dirty' = FALSE
  /\ fast' = FALSE
  /\ wram' = [c \in WramCells |-> <<"fill", 0>>]
  /\ build' = NoBuild

-----------------------------------------------------------------------------
(* The memory map, from the address alone. *)

(* Where an address leads: the store, the byte in it, the cycles. *)
Leads(byte, cycles) == [byte |-> byte, cycles |-> cycles]
ToNothing == Leads(<<"openBus", 0>>, 8)
ToRom(offset, bank) ==
  Leads(<<cart.image, offset % cart.size>>, IF bank >= 128 /\ fast THEN 6 ELSE 8)
ToSram(offset) == IF cart.sram = 0 THEN ToNothing ELSE Leads(sram[offset % cart.sram], 8)

LoRomMap(bank, page, inBank) ==
  IF page >= 128 THEN ToRom((bank % 128) * 32768 + inBank - 32768, bank)
  ELSE IF bank \in (112..125) \cup (240..255) THEN ToSram(inBank) ELSE ToNothing

HiRomMap(bank, page, inBank) ==
  LET offset == (bank % 64) * 65536 + inBank
      upper == 4194304
  IN  IF bank % 128 \in 32..63 /\ page \in 96..127 THEN ToSram(inBank - 24576)
      ELSE IF page < 128 /\ bank % 128 < 64 THEN ToNothing
      ELSE IF cart.kind = "ExHiROM" /\ bank < 128
           THEN ToRom(upper + (offset % (cart.size - upper)), bank) ELSE ToRom(offset, bank)

CartMap(bank, page, inBank) ==
  IF cart.kind = "LoROM" THEN LoRomMap(bank, page, inBank)
  ELSE IF cart.kind \in {"HiROM", "ExHiROM"} THEN HiRomMap(bank, page, inBank) ELSE ToNothing

MemoryMap(a) ==
  LET bank == a[1]
      page == a[2]
      inBank == page * 256 + a[3]
  IN  IF bank \in {126, 127} THEN Leads(wram[(bank - 126) * 65536 + inBank], 8)
      ELSE IF bank \in LowBanks /\ page < 32 THEN Leads(wram[inBank], 8)
      ELSE IF bank \in LowBanks /\ page \in {64, 65} THEN Leads(<<"register", inBank>>, 12)
      ELSE IF bank \in LowBanks /\ page \in {33, 66, 67} THEN Leads(<<"register", inBank>>, 6)
      ELSE CartMap(bank, page, inBank)

(* Whatever cartridges were loaded, refused and thrown out, and however    *)
(* often MEMSEL was written and the machine reset, every address leads     *)
(* where the map of the present cartridge says, in the cycles of its bank; *)
(* the shortcut pointer, the slow path and the debugger agree, nothing of  *)
(* an earlier cartridge is left, and no device's page is taken over        *)
(* (SNES::LoadRomWithProfile, UnmapByDeviceId, the mappers).               *)
BusShowsMap ==
  \A a \in Addresses :
    LET there == MemoryMap(a)
    IN  /\ BusRead(a) = there.byte
        /\ Plan(table, a).cycles = there.cycles
        /\ DebuggerRead(a) = IF there.byte[1] = "openBus" THEN <<"refused", 0>> ELSE there.byte

(* The loaders judge an image a second time (OtherMapperWins) and read the *)
(* RAM size a second time: what the detector has picked is never refused   *)
(* as the wrong mapper, only for a missing coprocessor or an image too     *)
(* small to have a header, and has the SRAM the profile announces.         *)
DetectionLoads ==
  /\ build.outcome \notin {"wrongMapper", "copier", "empty"}
  /\ build.outcome = "tooSmall" => build.profile.mapper = "LoROM"
  /\ build.outcome = "ok" =>
       /\ cart.kind = build.profile.mapper
       /\ cart.sram = build.profile.sramBytes
=============================================================================
