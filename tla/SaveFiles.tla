------------------------------ MODULE SaveFiles -----------------------------
(***************************************************************************)
(* Battery saves: what the emulator (emulator/app.cpp) and the debugger    *)
(* (debugger/app.cpp, sram_persistence.cpp) do to keep the cartridge's     *)
(* SRAM in a .srm file, on a disk that may fail, in a process that may die *)
(* between any two of its steps.  Everything runs on one thread, so a      *)
(* flush is a sequence of steps only because of the disk and of the crash. *)
(***************************************************************************)
EXTENDS CartridgeSlot

CONSTANTS
  Sessions,   \* the sessions tried: the application, its images, and bounds
  kCuts       \* how many bytes of a file may have reached the disk

VARIABLES
  app,        \* the application's fields, and how far a flush has come
  disk,       \* the .srm and .srm.tmp of each save name
  written,    \* history: the present SRAM was written since it was loaded
  left        \* history: the session, and what is left of its bounds

ASSUME SessionAssumption == \A s \in Sessions : s.app \in {"emulator", "debugger"}

vars == <<slotVars, app, disk, written, left>>
diskAndHistory == <<disk, written>>

NoFile == [there |-> FALSE, bytes |-> << >>]
FileOf(bytes) == [there |-> TRUE, bytes |-> bytes]
Prefix(bytes, cut) == [c \in {x \in DOMAIN bytes : x < cut} |-> bytes[c]]
SaveNames == {rom.save : rom \in Images}

(* loaded is loaded_rom_path_ (or spc, or none), save loaded_rom_save_path_*)
(* or save_path_; next is what the caller of a flush does after it.        *)
(* lost and unread are history: the close of the save failed unseen, and   *)
(* there was a save that could not be read when the cartridge was loaded.  *)
FreshApp(name) ==
  [name |-> name, loaded |-> "none", save |-> "none", loadError |-> FALSE,
   persist |-> TRUE, step |-> "idle", failed |-> FALSE, next |-> "idle", rom |-> {},
   lost |-> FALSE, unread |-> FALSE]

Emulator == app.name = "emulator"
Debugger == app.name = "debugger"
Idle == app.step = "idle"
May(what) == left[what] > 0
Spend(what) == left' = [left EXCEPT ![what] = @ - 1]

Init ==
  /\ SlotInit
  /\ \E s \in Sessions : left = s /\ app = FreshApp(s.app)
  /\ disk = [srm |-> [n \in SaveNames |-> NoFile], tmp |-> [n \in SaveNames |-> NoFile]]
  /\ written = FALSE

-----------------------------------------------------------------------------
(* The machine runs, and the user turns its knobs. *)

Running == Idle /\ app.loaded \notin {"none", "spc"}

(* The game stores a byte, or the debugger's memory panel does. *)
Write(a) ==
  /\ Running /\ May("writes") /\ Spend("writes")
  /\ WriteStorage(a, <<"new", left.writes>>)
  /\ written' = (written \/ sram' # sram)
  /\ UNCHANGED <<app, disk>>

MemSel(on) ==
  /\ Running /\ May("retimes") /\ Spend("retimes")
  /\ WriteMemSel(on)
  /\ UNCHANGED <<app, diskAndHistory>>

ResetMachine ==
  /\ Running /\ May("retimes") /\ Spend("retimes")
  /\ SlotReset
  /\ UNCHANGED <<live, nextId, cart, sram, dirty, wram, build, app, diskAndHistory>>

SetPersistSram ==
  /\ Debugger /\ Idle /\ May("toggles") /\ Spend("toggles")
  /\ app' = [app EXCEPT !.persist = ~@]
  /\ UNCHANGED <<slotVars, diskAndHistory>>

-----------------------------------------------------------------------------
(* FlushSramToDisk, SramPersistence::Flush. *)

NeedsFlush == app.loaded # "none" /\ app.save # "none" /\ cart.sram > 0 /\ dirty
              /\ (Debugger => app.persist)

(* Mutant: the flush does not ask whether the load could read the save. *)
FlushingUnread(a, next, rom) ==
  [a EXCEPT !.next = next, !.rom = rom,
            !.step = IF ~NeedsFlush THEN "done" ELSE "open", !.failed = FALSE]

(* An unreadable save is not overwritten. *)
Flushing(a, next, rom) ==
  [a EXCEPT !.next = next, !.rom = rom,
            !.step = IF ~NeedsFlush \/ (Debugger /\ a.loadError) THEN "done" ELSE "open",
            !.failed = NeedsFlush /\ Debugger /\ a.loadError]

(* The two-second interval, a new file, the end of the program. *)
Flush(next, rom) ==
  /\ Idle
  /\ app' = Flushing(app, next, rom)
  /\ UNCHANGED <<slotVars, disk, written>>

IntervalFlush == app.loaded # "none" /\ NeedsFlush /\ Flush("idle", {}) /\ UNCHANGED left
OpenRom(rom) == May("loads") /\ rom.name \in left.images /\ Spend("loads") /\ Flush("load", {rom})
OpenSpc == Emulator /\ May("loads") /\ left.spc /\ Spend("loads") /\ Flush("spc", {})
Quit == May("crashes") /\ Spend("crashes") /\ Flush("exit", {})

(* ClearSram empties the SRAM and resets before it flushes. *)
ClearSram ==
  /\ Debugger /\ Running /\ cart.sram > 0 /\ May("writes") /\ Spend("writes")
  /\ sram' = FreshSram(cart.sram)
  /\ dirty' = TRUE
  /\ SlotReset
  /\ written' = TRUE
  /\ app' = [app EXCEPT !.next = "idle", !.rom = {},
                        !.step = IF ~app.persist \/ app.loadError THEN "done" ELSE "open",
                        !.failed = app.persist /\ app.loadError]
  /\ UNCHANGED <<live, nextId, cart, wram, build, disk>>

Step(from, to, failed) ==
  /\ app.step = from
  /\ app' = [app EXCEPT !.step = to, !.failed = failed]
  /\ UNCHANGED <<table, live, nextId, cart, sram, fast, wram, build, written>>

Fault == May("faults") /\ Spend("faults")

(* Mutant: the debugger writes into the save itself. *)
FileWrittenInPlace == "srm"

(* The file a flush writes to. *)
FileWritten == IF Emulator THEN "srm" ELSE "tmp"

PutFile(file) == disk' = [disk EXCEPT ![FileWritten][app.save] = file]

(* ofstream with trunc, fopen with wbx: the file is there and empty.  A    *)
(* pending file of an earlier process is in the way of the debugger's.     *)
OpenSave ==
  /\ app.step = "open"
  /\ UNCHANGED dirty
  /\ LET barred == Debugger /\ disk.tmp[app.save].there
     IN  \/ ~barred /\ Step("open", "created", FALSE) /\ PutFile(FileOf(<< >>)) /\ UNCHANGED left
         \/ barred /\ Step("open", "done", TRUE) /\ UNCHANGED <<disk, left>>
         \/ ~barred /\ Step("open", "done", TRUE) /\ Fault /\ UNCHANGED disk

(* What the buffers have passed on is anyone's guess.  The emulator clears *)
(* the dirty flag here.                                                    *)
WriteSave ==
  \E cut \in kCuts :
    /\ app.step = "created"
    /\ PutFile(FileOf(Prefix(sram, cut)))
    /\ \/ Step("created", "written", FALSE) /\ dirty' = (dirty /\ Debugger) /\ UNCHANGED left
       \/ Step("created", IF Emulator THEN "done" ELSE "failed", TRUE) /\ Fault /\ UNCHANGED dirty

(* The emulator closes the file without looking. *)
CloseSave ==
  /\ app.step = "written"
  /\ UNCHANGED dirty
  /\ \/ Step("written", IF Emulator THEN "done" ELSE "closed", FALSE)
        /\ PutFile(FileOf(sram)) /\ UNCHANGED left
     \/ /\ Fault /\ UNCHANGED <<disk, table, live, nextId, cart, sram, fast, wram, build, written>>
        /\ app' = [app EXCEPT !.step = IF Emulator THEN "done" ELSE "failed",
                              !.failed = Debugger, !.lost = Emulator]

(* Mutant: the flag is cleared whether or not the rename went through. *)
RenameSaveAlwaysClears ==
  \/ /\ Step("closed", "done", FALSE)
     /\ disk' = [disk EXCEPT !.srm[app.save] = disk.tmp[app.save], !.tmp[app.save] = NoFile]
     /\ dirty' = FALSE /\ UNCHANGED left
  \/ Step("closed", "failed", TRUE) /\ Fault /\ dirty' = FALSE /\ UNCHANGED disk

RenameSave ==
  \/ /\ Step("closed", "done", FALSE)
     /\ disk' = [disk EXCEPT !.srm[app.save] = disk.tmp[app.save], !.tmp[app.save] = NoFile]
     /\ dirty' = FALSE /\ UNCHANGED left
  \/ Step("closed", "failed", TRUE) /\ Fault /\ UNCHANGED <<dirty, disk>>

RemoveTemporary ==
  /\ app.step = "failed"
  /\ Step("failed", "done", TRUE)
  /\ disk' = [disk EXCEPT !.tmp[app.save] = NoFile]
  /\ UNCHANGED <<dirty, left>>

-----------------------------------------------------------------------------
(* After the flush. *)

Settled(a) == [a EXCEPT !.step = "idle", !.next = "idle", !.rom = {}, !.failed = FALSE]

(* Mutant: the debugger goes on as the emulator does. *)
GoesOnRegardless(next) == app.step = "done" /\ app.next = next

(* The debugger keeps the cartridge whose save it cannot write. *)
GoesOn(next) == app.step = "done" /\ app.next = next /\ ~(Debugger /\ app.failed)

Settle ==
  /\ \/ GoesOn("idle")
     \/ app.step = "done" /\ app.failed /\ Debugger /\ app.next \in {"idle", "load"}
  /\ app' = Settled(app)
  /\ UNCHANGED <<slotVars, diskAndHistory, left>>

LoadRefused ==
  /\ GoesOn("load")
  /\ \E rom \in app.rom : Refuse(rom, Build(StripSmcCopierHeader(rom)))
  /\ app' = Settled(app)
  /\ UNCHANGED <<diskAndHistory, left>>

(* LoadRom, Reset, and the save beside the image, if there is one and it   *)
(* can be read; only the debugger remembers that it could not.             *)
LoadInstalls ==
  /\ GoesOn("load")
  /\ \E rom \in {StripSmcCopierHeader(r) : r \in app.rom} :
       /\ Build(rom).outcome = "ok"
       /\ LET size == CartOf(rom, nextId).sram
              file == disk.srm[rom.save]
              looks == size > 0 /\ file.there /\ (Debugger => app.persist)
              took(bytes, unread) ==
                /\ Install(rom, Build(rom), bytes)
                /\ app' = [Settled(app) EXCEPT !.loaded = rom.name, !.save = rom.save,
                                               !.loadError = unread /\ Debugger,
                                               !.lost = FALSE, !.unread = unread]
          IN  \/ ~looks /\ took(FreshSram(size), FALSE) /\ UNCHANGED left
              \/ looks /\ took(LoadSram(size, file.bytes), FALSE) /\ UNCHANGED left
              \/ looks /\ took(FreshSram(size), TRUE) /\ Fault
  /\ written' = FALSE
  /\ UNCHANGED disk

(* The cartridge stays in the machine, without a save path. *)
LoadsSpc ==
  /\ GoesOn("spc")
  /\ app' = [Settled(app) EXCEPT !.loaded = "spc", !.save = "none"]
  /\ UNCHANGED <<slotVars, diskAndHistory, left>>

NewProcess ==
  /\ SlotReborn
  /\ app' = FreshApp(app.name)
  /\ written' = FALSE
  /\ UNCHANGED disk

(* The end of the program does not ask how the last flush went. *)
Exits == app.step = "done" /\ app.next = "exit" /\ NewProcess /\ UNCHANGED left

Crash == May("crashes") /\ Spend("crashes") /\ app.loaded # "none" /\ NewProcess

Next ==
  \/ \E a \in left.targets : Write(a)
  \/ \E on \in BOOLEAN : MemSel(on)
  \/ ResetMachine \/ SetPersistSram \/ ClearSram
  \/ IntervalFlush \/ OpenSpc \/ Quit
  \/ \E rom \in Images : OpenRom(rom)
  \/ OpenSave \/ WriteSave \/ CloseSave \/ RenameSave \/ RemoveTemporary
  \/ Settle \/ LoadRefused \/ LoadInstalls \/ LoadsSpc
  \/ Exits \/ Crash

Spec == Init /\ [][Next]_vars

-----------------------------------------------------------------------------
(* A save of the debugger changes only from one complete image of the SRAM *)
(* to the SRAM of now, whatever fails and whenever the process dies        *)
(* (SramPersistence::Flush).                                               *)
SaveReplacedWhole ==
  [][Debugger => \A n \in SaveNames :
       disk'.srm[n] # disk.srm[n] => n = app.save /\ disk'.srm[n] = FileOf(sram)]_vars

(* A cartridge that was written and is not dirty is on the disk: the flag  *)
(* is not cleared too early, nor a load taken for a write.  The emulator   *)
(* closes its file without looking, and is excused when that fails.        *)
CleanIsSaved ==
  Idle /\ written /\ ~dirty /\ app.save # "none" /\ ~app.lost =>
    disk.srm[app.save] = FileOf(sram)

(* The debugger parts with a cartridge, the user wanting saves kept, only  *)
(* when its save holds what the game last wrote (LoadRomFromPath: "Keep    *)
(* the current cartridge alive if its save cannot be written").            *)
SwapKeepsSave ==
  [][(Debugger /\ cart'.id # cart.id /\ nextId' > nextId /\ app.persist /\ written) =>
       disk.srm[app.save] = FileOf(sram)]_vars

(* SramPersistence::Load: "A failed read must not later overwrite an       *)
(* existing save with fresh SRAM."  As long as the debugger keeps a        *)
(* cartridge whose save it could not read, nothing touches a save file:    *)
(* not the game's stores, nor clearing the SRAM, switching saving off and  *)
(* on, the interval's flush, a refused image or the end of the program.    *)
UnreadSaveKept == [][Debugger /\ app.unread => disk'.srm = disk.srm]_vars

(* FlushSramToDisk of the emulator: "The dirty flag stays set so the next  *)
(* attempt retries".  No cartridge is thrown away with the flag set.       *)
FailedFlushIsRetried ==
  [][(Emulator /\ cart'.id # cart.id /\ nextId' > nextId) => ~dirty]_vars
=============================================================================
