----------------------------- MODULE SystemBus -----------------------------
(***************************************************************************)
(* The page table of memory/systembus.cpp and the three ways through it:   *)
(* Plan and Follow, the inline shortcut TryFastRead / TryFastWrite, and    *)
(* the debugger's accesses.  A byte is <<store, value>>: where it comes    *)
(* from, and which one it is there.  The bit masks of partly driven        *)
(* registers are left out, and what a device does with a register access   *)
(* is the caller's business: here are the decisions of the bus.            *)
(***************************************************************************)
EXTENDS Integers, Sequences

CONSTANTS
  Pages,      \* the <<bank, page>> pairs looked at, of 256 * 256
  Offsets     \* the offsets in a page looked at, of 256

ASSUME PagesAssumption ==
  Pages \subseteq (0..255) \X (0..255) /\ Offsets \subseteq 0..255

Addresses == {<<p[1], p[2], o>> : p \in Pages, o \in Offsets}

(* PageTableEntry.  A fast pointer, where there is one, points at the byte *)
(* base of the device's store; sram is Cartridge's tag bit in the base.    *)
Unmapped == [device |-> 0, base |-> 0, sram |-> FALSE, kind |-> "unmapped",
             speed |-> 0, fastRead |-> FALSE, fastWrite |-> FALSE]

(* MapPage for every page that a loop of a device visits: entries is a     *)
(* function on those pages.                                                *)
MapPages(table, entries) ==
  [p \in Pages |-> IF p \in DOMAIN entries THEN entries[p] ELSE table[p]]

(* Mutant: only the ROM's pages are scrubbed. *)
UnmapRomByDeviceId(table, id) ==
  [p \in Pages |-> IF table[p].device = id /\ table[p].kind # "unmapped" /\ ~table[p].sram
                   THEN Unmapped ELSE table[p]]

UnmapByDeviceId(table, id) ==
  [p \in Pages |-> IF table[p].device = id /\ table[p].kind # "unmapped"
                   THEN Unmapped ELSE table[p]]

EntryAt(table, a) == table[<<a[1], a[2]>>]

(* Plan: no device, a token for a device on another clock, or at once.  An *)
(* access to nothing takes a slow cycle.                                   *)
Plan(table, a) ==
  LET e == EntryAt(table, a)
  IN  IF e.kind = "unmapped" THEN [outcome |-> "rejected", cycles |-> 8]
      ELSE IF e.kind = "crossClockMmio" THEN [outcome |-> "scheduled", cycles |-> e.speed]
      ELSE [outcome |-> "inline", cycles |-> e.speed]

(* TryFastRead, and FollowInline's branch for storage. *)
HasFastRead(table, a) ==
  EntryAt(table, a).kind = "memory" /\ EntryAt(table, a).fastRead
HasFastWrite(table, a) ==
  EntryAt(table, a).kind = "memory" /\ EntryAt(table, a).fastWrite

(* Where a read is answered: by the byte a pointer leads to, by the device *)
(* that owns the page, or by nobody; device, sram and at say which byte.   *)
(* What floats on a bus that nothing drives is left out.                   *)
Answer(by, e, offset) == [by |-> by, device |-> e.device, sram |-> e.sram, at |-> e.base + offset]

FollowRead(table, live, a) ==
  LET e == EntryAt(table, a)
  IN  Answer(IF Plan(table, a).outcome = "rejected" THEN "nobody"
             ELSE IF HasFastRead(table, a) THEN "pointer"
             ELSE IF e.device \in live THEN "device" ELSE "nobody", e, a[3])

(* DebugRead never takes the shortcut, and moves nothing. *)
DebugRead(table, live, a) ==
  LET e == EntryAt(table, a)
  IN  Answer(IF Plan(table, a).outcome # "rejected" /\ e.device \in live
             THEN "device" ELSE "nobody", e, a[3])
=============================================================================
