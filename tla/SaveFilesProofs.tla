-------------------------- MODULE SaveFilesProofs --------------------------
(***************************************************************************)
(* What the two applications promise of a battery save, and what the bus   *)
(* shows of the cartridges they load, proved for every set of images,      *)
(* session, layout of pages and place where a file may be cut off.         *)
(***************************************************************************)
EXTENDS SaveFiles, NaturalFacts

Steps == {"idle", "open", "created", "written", "closed", "failed", "done"}
Names == {rom.name : rom \in Images} \cup {"none", "spc"}
App == [name : {"emulator", "debugger"}, loaded : Names, save : SaveNames \cup {"none"},
        loadError : BOOLEAN, persist : BOOLEAN, step : Steps, failed : BOOLEAN,
        next : {"idle", "load", "spc", "exit"}, rom : SUBSET Images, lost : BOOLEAN,
        unread : BOOLEAN]

(* A save and a temporary file for each name, whatever they hold. *)
Whole(d) == d = [kind \in {"srm", "tmp"} |-> [n \in SaveNames |-> d[kind][n]]]

Types ==
  /\ app \in App /\ Whole(disk)
  /\ dirty \in BOOLEAN /\ written \in BOOLEAN
  /\ nextId \in Nat /\ nextId >= 8
  /\ app.loaded \notin {"none", "spc"} => app.save # "none"

(***************************************************************************)
(* What is known while a flush is under way, and of the flags the two      *)
(* applications keep.  The emulator clears the dirty flag before it closes *)
(* the file, the debugger when the save is in place, and not at all when   *)
(* it could not read the save.                                             *)
(***************************************************************************)
Account ==
  /\ app.step \notin {"idle", "done"} => app.save # "none"
  /\ app.step \in {"open", "created", "closed", "failed"} => dirty
  /\ app.step = "written" /\ Debugger => dirty
  /\ app.step \in {"closed", "failed"} => Debugger
  /\ app.lost \/ app.next = "spc" \/ app.loaded = "spc" => Emulator
  /\ Debugger /\ written => app.loaded # "none" /\ cart.sram > 0
  /\ Debugger /\ app.step = "done" /\ ~app.failed /\ app.persist /\ written => ~dirty
  /\ Debugger /\ app.unread => app.loadError /\ app.step \in {"idle", "done"}

(***************************************************************************)
(* The file that is about to be renamed is complete, and so is the save of *)
(* a cartridge that was written and is clean.                              *)
(***************************************************************************)
Saved ==
  written /\ ~dirty /\ app.save # "none" /\ ~app.lost /\ ~(app.step = "written" /\ Emulator) =>
    disk.srm[app.save] = FileOf(sram)

Files ==
  /\ app.step = "closed" => disk.tmp[app.save] = FileOf(sram)
  /\ Saved

SaveInv == Types /\ Account /\ Files

-----------------------------------------------------------------------------
(***************************************************************************)
(* Writing a file changes that file.                                       *)
(***************************************************************************)
Put(d, kind, name, file) == [d EXCEPT ![kind] = [d[kind] EXCEPT ![name] = file]]

(***************************************************************************)
(* Writing one file of a directory leaves the directory whole, puts the    *)
(* file there and leaves the other kind of files alone.                    *)
(***************************************************************************)
LEMMA FilePut ==
  ASSUME NEW before, Whole(before), NEW name \in SaveNames, NEW file,
         NEW kind \in {"srm", "tmp"}
  PROVE  LET after == Put(before, kind, name, file)
         IN  /\ Whole(after) /\ after[kind][name] = file
             /\ \A k \in {"srm", "tmp"} : k # kind => after[k] = before[k]
<1> DEFINE after == Put(before, kind, name, file)
<1>1. \A k \in {"srm", "tmp"} : before[k] = [n \in SaveNames |-> before[k][n]]
  BY DEF Whole
<1>2. after = [k \in {"srm", "tmp"} |->
                 IF k = kind THEN [before[kind] EXCEPT ![name] = file] ELSE before[k]]
  BY DEF Whole, Put
<1> HIDE DEF after
<1>3. [before[kind] EXCEPT ![name] = file] =
        [n \in SaveNames |-> IF n = name THEN file ELSE before[kind][n]]
  BY <1>1
<1>4. \A k \in {"srm", "tmp"} : k # kind => after[k] = before[k]
  BY <1>2
<1>5. after[kind] = [n \in SaveNames |-> IF n = name THEN file ELSE before[kind][n]]
  BY <1>2, <1>3
<1>6. \A k \in {"srm", "tmp"} : after[k] = [n \in SaveNames |-> after[k][n]]
  BY <1>1, <1>4, <1>5
<1>7. after = [k \in {"srm", "tmp"} |-> after[k]]
  BY <1>2
<1>8. Whole(after)
  BY <1>6, <1>7 DEF Whole
<1> QED
  BY <1>4, <1>5, <1>8 DEF after

(***************************************************************************)
(* A new session has no cartridge and nothing to save.                     *)
(***************************************************************************)
LEMMA InitSave == Init => SaveInv
<1> SUFFICES ASSUME Init
             PROVE  SaveInv
  OBVIOUS
<1>1. PICK name \in {"emulator", "debugger"} : app = FreshApp(name)
  BY SessionAssumption DEF Init
<1>2. app \in App /\ app.loaded = "none" /\ app.save = "none" /\ app.step = "idle"
      /\ ~app.lost /\ app.next = "idle" /\ ~app.unread
  BY <1>1 DEF FreshApp, App, Steps, Names
<1>3. dirty = FALSE /\ written = FALSE /\ nextId = 8
  BY DEF Init, SlotInit
<1>4. Whole(disk)
  <2>1. disk = [srm |-> [n \in SaveNames |-> NoFile], tmp |-> [n \in SaveNames |-> NoFile]]
    BY DEF Init
  <2>2. disk = [kind \in {"srm", "tmp"} |-> disk[kind]]
    BY <2>1
  <2>3. \A kind \in {"srm", "tmp"} : disk[kind] = [n \in SaveNames |-> disk[kind][n]]
    BY <2>1
  <2> QED
    BY <2>2, <2>3 DEF Whole
<1>5. Types
  <2>1. dirty \in BOOLEAN /\ written \in BOOLEAN
    BY <1>3
  <2>2. nextId \in Nat /\ nextId >= 8
    BY <1>3
  <2> QED
    BY <1>2, <1>4, <2>1, <2>2 DEF Types
<1>6. Account
  BY <1>2, <1>3 DEF Account
<1>7. Files
  BY <1>2, <1>3 DEF Files, Saved
<1> QED
  BY <1>5, <1>6, <1>7 DEF SaveInv

(***************************************************************************)
(* A store makes the cartridge dirty before it differs from its save.      *)
(***************************************************************************)
LEMMA StoreMakesDirty ==
  ASSUME NEW a, NEW byte, WriteStorage(a, byte), dirty \in BOOLEAN
  PROVE  /\ sram' # sram => dirty' /\ cart.sram > 0
         /\ dirty' \in BOOLEAN /\ (dirty => dirty') /\ cart' = cart /\ nextId' = nextId
BY DEF WriteStorage

(***************************************************************************)
(* Writes of the running program, and the debugger's switch and clear,     *)
(* keep the account: SRAM never differs from its file without the          *)
(* cartridge being dirty.                                                  *)
(***************************************************************************)
LEMMA RunningKeepsSave ==
  ASSUME SaveInv,
         \/ \E a \in left.targets : Write(a)
         \/ \E on \in BOOLEAN : MemSel(on)
         \/ ResetMachine \/ SetPersistSram \/ ClearSram
  PROVE  SaveInv'
<1> USE DEF SaveInv, Types, Account, Files, Saved, Emulator, Debugger, Idle, Running
<1>1. ASSUME NEW a \in left.targets, Write(a)
      PROVE  SaveInv'
  <2>1. /\ WriteStorage(a, <<"new", left.writes>>) /\ written' = (written \/ sram' # sram)
        /\ app' = app /\ disk' = disk /\ app.step = "idle" /\ app.loaded \notin {"none", "spc"}
    BY <1>1 DEF Write
  <2>2. /\ sram' # sram => dirty' /\ cart.sram > 0
        /\ dirty' \in BOOLEAN /\ (dirty => dirty') /\ cart' = cart /\ nextId' = nextId
    BY <2>1, StoreMakesDirty
  <2>3. written' \in BOOLEAN
    BY <2>1
  <2> QED
    BY <2>1, <2>2, <2>3
<1>2. ASSUME \/ \E on \in BOOLEAN : MemSel(on)
             \/ ResetMachine
      PROVE  SaveInv'
  <2>1. UNCHANGED <<cart, sram, dirty, nextId, app, disk, written>>
    BY <1>2 DEF MemSel, ResetMachine, WriteMemSel, diskAndHistory
  <2> QED
    BY <2>1
<1>3. CASE SetPersistSram
  <2>1. UNCHANGED <<cart, sram, dirty, nextId, disk, written>>
    BY <1>3 DEF SetPersistSram, slotVars, diskAndHistory
  <2>2. app' \in App /\ app' = [app EXCEPT !.persist = ~app.persist] /\ app.step = "idle"
    BY <1>3 DEF SetPersistSram, App
  <2>3. /\ app'.name = app.name /\ app'.loaded = app.loaded /\ app'.save = app.save
        /\ app'.step = "idle" /\ app'.failed = app.failed /\ app'.next = app.next
        /\ app'.lost = app.lost /\ app'.loadError = app.loadError /\ app'.unread = app.unread
    BY <2>2 DEF App
  <2> QED
    BY <2>1, <2>2, <2>3
<1>4. CASE ClearSram
  <2>1. /\ UNCHANGED <<cart, nextId, disk>> /\ dirty' = TRUE /\ written' = TRUE
        /\ app.name = "debugger" /\ app.loaded \notin {"none", "spc"} /\ cart.sram > 0
    BY <1>4 DEF ClearSram
  <2>2. app' = [app EXCEPT !.next = "idle", !.rom = {},
                        !.step = IF ~app.persist \/ app.loadError THEN "done" ELSE "open",
                        !.failed = app.persist /\ app.loadError]
    BY <1>4 DEF ClearSram
  <2>3. /\ app'.name = app.name /\ app'.loaded = app.loaded /\ app'.save = app.save
        /\ app'.lost = app.lost /\ app'.next = "idle" /\ app'.persist = app.persist
        /\ app'.loadError = app.loadError /\ app'.unread = app.unread
        /\ app'.step = IF ~app.persist \/ app.loadError THEN "done" ELSE "open"
        /\ app'.failed = (app.persist /\ app.loadError)
    BY <2>2 DEF App
  <2>4. app' \in App
    BY <2>2, ZenonT(40) DEF App, Steps
  <2> QED
    BY <2>1, <2>3, <2>4
<1> QED
  BY <1>1, <1>2, <1>3, <1>4

(***************************************************************************)
(* A flush that is needed opens the file; one that is not is done, and     *)
(* then there is nothing unsaved, or the user does not want it kept.       *)
(***************************************************************************)
LEMMA FlushKeepsSave ==
  ASSUME SaveInv, NEW next \in {"idle", "load", "spc", "exit"}, NEW rom \in SUBSET Images,
         next = "spc" => Emulator, Flush(next, rom)
  PROVE  SaveInv'
<1> USE DEF SaveInv, Types, Account, Files, Saved, Emulator, Debugger, Idle
<1>1. /\ UNCHANGED <<cart, sram, dirty, nextId, disk, written>>
      /\ app' = Flushing(app, next, rom) /\ app.step = "idle"
  BY DEF Flush, slotVars
<1>2. /\ app'.name = app.name /\ app'.loaded = app.loaded /\ app'.save = app.save
      /\ app'.lost = app.lost /\ app'.next = next /\ app'.persist = app.persist
      /\ app'.loadError = app.loadError /\ app'.unread = app.unread
      /\ app'.step = IF ~NeedsFlush \/ (Debugger /\ app.loadError) THEN "done" ELSE "open"
      /\ app'.failed = (NeedsFlush /\ Debugger /\ app.loadError)
  BY <1>1 DEF Flushing, App
<1>3. app' \in App
  <2>1. NeedsFlush \in BOOLEAN
    BY DEF NeedsFlush
  <2> QED
    BY <1>1, <2>1, ZenonT(40) DEF Flushing, App, Steps
<1> QED
  BY <1>1, <1>2, <1>3 DEF NeedsFlush

(***************************************************************************)
(* The steps of a flush.                                                   *)
(***************************************************************************)
LEMMA FileKeepsSave ==
  ASSUME SaveInv, OpenSave \/ WriteSave \/ CloseSave \/ RenameSave \/ RemoveTemporary
  PROVE  SaveInv'
<1> USE DEF SaveInv, Types, Account, Files, Saved, Emulator, Debugger
<1>1. ASSUME NEW from \in Steps, NEW to \in Steps, NEW failed \in BOOLEAN, Step(from, to, failed)
      PROVE  /\ app.step = from /\ app'.step = to /\ app'.failed = failed /\ app' \in App
             /\ app'.name = app.name /\ app'.loaded = app.loaded /\ app'.save = app.save
             /\ app'.lost = app.lost /\ app'.next = app.next /\ app'.persist = app.persist
             /\ app'.loadError = app.loadError /\ app'.unread = app.unread
             /\ UNCHANGED <<cart, sram, nextId, written>>
  BY <1>1 DEF Step, App
<1>2. app.step \in {"open", "created", "written", "closed", "failed"} => app.save \in SaveNames
  BY DEF App
<1>3. ASSUME NEW file, PutFile(file), app.save \in SaveNames
      PROVE  /\ Whole(disk') /\ (Emulator => disk'.srm[app.save] = file)
             /\ Debugger => disk'.tmp[app.save] = file /\ disk'.srm = disk.srm
  <2>1. CASE Emulator
    <3>1. disk' = Put(disk, "srm", app.save, file)
      BY <1>3, <2>1 DEF PutFile, FileWritten, Put
    <3>2. Whole(disk') /\ disk'["srm"][app.save] = file
      BY <1>3, <3>1, FilePut
    <3> QED
      BY <2>1, <3>2
  <2>2. CASE Debugger
    <3>1. disk' = Put(disk, "tmp", app.save, file)
      BY <1>3, <2>2 DEF PutFile, FileWritten, Put
    <3>2. Whole(disk') /\ disk'["tmp"][app.save] = file /\ disk'["srm"] = disk["srm"]
      BY <1>3, <3>1, FilePut
    <3> QED
      BY <2>2, <3>2
  <2> QED
    BY <2>1, <2>2 DEF App
<1>4. CASE OpenSave
  <2>1. app.step = "open" /\ dirty' = dirty /\ dirty
    BY <1>4 DEF OpenSave
  <2>2. CASE Step("open", "created", FALSE) /\ PutFile(FileOf(<< >>))
    BY <1>1, <1>2, <1>3, <2>1, <2>2 DEF Steps
  <2>3. CASE Step("open", "done", TRUE) /\ disk' = disk
    BY <1>1, <2>1, <2>3 DEF Steps
  <2> QED
    BY <1>4, <2>2, <2>3 DEF OpenSave
<1>5. CASE WriteSave
  <2>1. PICK cut \in kCuts :
          /\ app.step = "created"
          /\ PutFile(FileOf(Prefix(sram, cut)))
          /\ \/ Step("created", "written", FALSE) /\ dirty' = (dirty /\ Debugger)
             \/ Step("created", IF Emulator THEN "done" ELSE "failed", TRUE) /\ dirty' = dirty
    BY <1>5 DEF WriteSave
  <2>0. Whole(disk')
    BY <1>2, <1>3, <2>1
  <2>2. CASE Step("created", "written", FALSE) /\ dirty' = (dirty /\ Debugger)
    <3>1. /\ app'.step = "written" /\ app' \in App /\ app'.name = app.name
          /\ app'.loaded = app.loaded /\ app'.save = app.save /\ app'.lost = app.lost
          /\ app'.loadError = app.loadError /\ app'.unread = app.unread
          /\ app'.next = app.next /\ UNCHANGED <<cart, sram, nextId, written>>
      BY <1>1, <2>2 DEF Steps
    <3>2. dirty' \in BOOLEAN /\ (Debugger => dirty')
      BY <2>1, <2>2
    <3>3. app.save # "none"
      BY <2>1
    <3>4. Types'
      BY <2>0, <3>1, <3>2
    <3>5. Account'
      BY <2>1, <3>1, <3>2, <3>3
    <3>6. Files'
      <4>1. CASE Emulator
        BY <3>1, <4>1
      <4>2. CASE Debugger
        BY <3>1, <3>2, <4>2
      <4> QED
        BY <4>1, <4>2 DEF App
    <3> QED
      BY <3>4, <3>5, <3>6
  <2>3. CASE Step("created", IF Emulator THEN "done" ELSE "failed", TRUE) /\ dirty' = dirty
    <3>1. CASE Emulator
      <4>1. Step("created", "done", TRUE) /\ dirty' = dirty
        BY <2>3, <3>1
      <4> QED
        BY <1>1, <2>0, <2>1, <3>1, <4>1 DEF Steps
    <3>2. CASE Debugger
      <4>1. Step("created", "failed", TRUE) /\ dirty' = dirty
        BY <2>3, <3>2
      <4> QED
        BY <1>1, <2>0, <2>1, <3>2, <4>1 DEF Steps
    <3> QED
      BY <3>1, <3>2 DEF App
  <2> QED
    BY <2>1, <2>2, <2>3
<1>6. CASE CloseSave
  <2>1. app.step = "written" /\ dirty' = dirty
    BY <1>6 DEF CloseSave
  <2>2. CASE Step("written", IF Emulator THEN "done" ELSE "closed", FALSE) /\ PutFile(FileOf(sram))
    <3>1. CASE Emulator
      <4>1. Step("written", "done", FALSE)
        BY <2>2, <3>1
      <4> QED
        BY <1>1, <1>2, <1>3, <2>1, <2>2, <3>1, <4>1 DEF Steps
    <3>2. CASE Debugger
      <4>1. Step("written", "closed", FALSE)
        BY <2>2, <3>2
      <4> QED
        BY <1>1, <1>2, <1>3, <2>1, <2>2, <3>2, <4>1 DEF Steps
    <3> QED
      BY <3>1, <3>2 DEF App
  <2>3. CASE /\ UNCHANGED <<disk, cart, sram, nextId, written>>
             /\ app' = [app EXCEPT !.step = IF Emulator THEN "done" ELSE "failed",
                                   !.failed = Debugger, !.lost = Emulator]
    <3>1. /\ app'.step = IF Emulator THEN "done" ELSE "failed"
          /\ app'.failed = Debugger /\ app'.lost = Emulator
          /\ app'.name = app.name /\ app'.loaded = app.loaded /\ app'.save = app.save
          /\ app'.next = app.next /\ app'.persist = app.persist
          /\ app'.loadError = app.loadError /\ app'.unread = app.unread
      BY <2>3 DEF App
    <3>2. app' \in App
      BY <2>3 DEF App, Steps
    <3> QED
      BY <2>1, <2>3, <3>1, <3>2 DEF App
  <2> QED
    BY <1>6, <2>2, <2>3 DEF CloseSave
<1>7. CASE RenameSave
  <2>1. CASE /\ Step("closed", "done", FALSE) /\ dirty' = FALSE
             /\ disk' = [disk EXCEPT !.srm[app.save] = disk.tmp[app.save], !.tmp[app.save] = NoFile]
    <3> DEFINE moved == Put(disk, "srm", app.save, disk["tmp"][app.save])
    <3>1. app.save \in SaveNames /\ disk["tmp"][app.save] = FileOf(sram)
      BY <1>1, <1>2, <2>1 DEF Steps
    <3>2. Whole(moved) /\ moved["srm"][app.save] = FileOf(sram)
      BY <3>1, FilePut
    <3>3. disk' = Put(moved, "tmp", app.save, NoFile)
      BY <2>1 DEF Put
    <3> HIDE DEF moved
    <3>4. Whole(disk') /\ disk'["srm"] = moved["srm"]
      BY <3>1, <3>2, <3>3, FilePut
    <3>5. disk'.srm[app.save] = FileOf(sram)
      BY <3>2, <3>4
    <3> QED
      BY <1>1, <2>1, <3>4, <3>5 DEF Steps
  <2>2. CASE Step("closed", "failed", TRUE) /\ dirty' = dirty /\ disk' = disk
    BY <1>1, <2>2 DEF Steps
  <2> QED
    BY <1>7, <2>1, <2>2 DEF RenameSave
<1>8. CASE RemoveTemporary
  <2>1. /\ Step("failed", "done", TRUE) /\ dirty' = dirty
        /\ disk' = [disk EXCEPT !.tmp[app.save] = NoFile]
    BY <1>8 DEF RemoveTemporary
  <2>2. disk'["srm"] = disk["srm"] /\ Whole(disk')
    <3>1. disk' = Put(disk, "tmp", app.save, NoFile)
      BY <2>1 DEF Put
    <3>2. app.save \in SaveNames
      BY <1>1, <1>2, <2>1 DEF Steps
    <3> QED
      BY <3>1, <3>2, FilePut
  <2> QED
    BY <1>1, <2>1, <2>2 DEF Steps
<1> QED
  BY <1>4, <1>5, <1>6, <1>7, <1>8

(***************************************************************************)
(* What is done after a flush, and the end of a process.                   *)
(***************************************************************************)
LEMMA StripKeepsNames ==
  ASSUME NEW rom \in Images
  PROVE  /\ StripSmcCopierHeader(rom).name \in Names \ {"none", "spc"}
         /\ StripSmcCopierHeader(rom).save \in SaveNames /\ StripSmcCopierHeader(rom).save # "none"
<1>1. /\ rom \in [name : STRING \ {"none", "spc", "openBus"}, save : STRING \ {"none"}, size : Nat,
                  map : [MapperKinds -> BOOLEAN], sum : [MapperKinds -> BOOLEAN],
                  coproc : [MapperKinds -> BOOLEAN], ram : [MapperKinds -> 0..255]]
  BY ImageAssumption
<1>2. StripSmcCopierHeader(rom).name = rom.name /\ StripSmcCopierHeader(rom).save = rom.save
  BY <1>1 DEF StripSmcCopierHeader
<1> QED
  BY <1>1, <1>2 DEF Names, SaveNames

(***************************************************************************)
(* What follows a flush keeps the account: settling, loading or refusing   *)
(* an image, leaving, and a crash, which keeps the files as they are.      *)
(***************************************************************************)
LEMMA AfterKeepsSave ==
  ASSUME SaveInv, Settle \/ LoadRefused \/ LoadInstalls \/ LoadsSpc \/ Exits \/ Crash
  PROVE  SaveInv'
<1> USE DEF SaveInv, Types, Account, Files, Saved, Emulator, Debugger
<1>1. /\ Settled(app) \in App /\ Settled(app).name = app.name /\ Settled(app).loaded = app.loaded
      /\ Settled(app).save = app.save /\ Settled(app).lost = app.lost
      /\ Settled(app).loadError = app.loadError /\ Settled(app).unread = app.unread
      /\ Settled(app).step = "idle" /\ Settled(app).next = "idle"
  BY DEF Settled, App, Steps
<1>2. CASE Settle
  <2>1. /\ UNCHANGED <<cart, sram, dirty, nextId, disk, written>> /\ app' = Settled(app)
        /\ app.step = "done"
    BY <1>2 DEF Settle, GoesOn, slotVars, diskAndHistory
  <2> QED
    BY <1>1, <2>1
<1>3. CASE LoadRefused
  <2>1. /\ UNCHANGED <<cart, sram, dirty, disk, written>> /\ app' = Settled(app)
        /\ app.step = "done" /\ nextId' \in {nextId, nextId + 1}
    BY <1>3 DEF LoadRefused, GoesOn, Refuse, diskAndHistory
  <2>2. nextId' \in Nat /\ nextId' >= 8
    BY <2>1
  <2> QED
    BY <1>1, <2>1, <2>2
<1>4. CASE LoadInstalls
  <2>1. PICK rom \in {StripSmcCopierHeader(r) : r \in app.rom}, unread \in BOOLEAN :
          /\ \E bytes : Install(rom, Build(rom), bytes)
          /\ app' = [Settled(app) EXCEPT !.loaded = rom.name, !.save = rom.save,
                                         !.loadError = unread /\ Debugger,
                                         !.lost = FALSE, !.unread = unread]
    <3> DEFINE Took(rom, bytes, unread) ==
                 /\ Install(rom, Build(rom), bytes)
                 /\ app' = [Settled(app) EXCEPT !.loaded = rom.name, !.save = rom.save,
                                                !.loadError = unread /\ Debugger,
                                                !.lost = FALSE, !.unread = unread]
    <3>1. PICK rom \in {StripSmcCopierHeader(r) : r \in app.rom} :
            \/ Took(rom, FreshSram(CartOf(rom, nextId).sram), FALSE)
            \/ Took(rom, LoadSram(CartOf(rom, nextId).sram, disk.srm[rom.save].bytes), FALSE)
            \/ Took(rom, FreshSram(CartOf(rom, nextId).sram), TRUE)
      BY <1>4, Zenon DEF LoadInstalls
    <3>2. \E bytes : \E unread \in BOOLEAN : Took(rom, bytes, unread)
      <4> HIDE DEF Took
      <4> QED
        BY <3>1
    <3> QED
      BY <3>2
  <2>2. /\ rom.name \in Names \ {"none", "spc"} /\ rom.save \in SaveNames
        /\ rom.save # "none"
    BY <2>1, StripKeepsNames DEF App
  <2>3. dirty' = FALSE /\ written' = FALSE /\ disk' = disk
    BY <1>4, <2>1 DEF LoadInstalls, Install
  <2>4. nextId' \in Nat /\ nextId' >= 8
    BY <2>1 DEF Install
  <2>5. /\ app' \in App /\ app'.name = app.name /\ app'.save = rom.save /\ ~app'.lost
        /\ app'.loaded = rom.name /\ app'.step = "idle" /\ app'.next = "idle"
        /\ Debugger /\ app'.unread => app'.loadError
    <3>1. (unread /\ Debugger) \in BOOLEAN
      OBVIOUS
    <3> QED
      BY <1>1, <2>1, <2>2, <3>1, ZenonT(40) DEF App
  <2>6. dirty' \in BOOLEAN /\ written' \in BOOLEAN /\ ~written'
    BY <2>3
  <2> QED
    BY <2>2, <2>3, <2>4, <2>5, <2>6
<1>5. CASE LoadsSpc
  <2>1. /\ UNCHANGED <<cart, sram, dirty, nextId, disk, written>> /\ app.next = "spc"
        /\ app' = [Settled(app) EXCEPT !.loaded = "spc", !.save = "none"]
    BY <1>5 DEF LoadsSpc, GoesOn, slotVars, diskAndHistory
  <2>2. /\ app' \in App /\ app'.name = app.name /\ app'.save = "none"
        /\ app'.loaded = "spc" /\ app'.step = "idle" /\ app'.next = "idle"
        /\ app'.loadError = app.loadError /\ app'.unread = app.unread
    BY <1>1, <2>1 DEF App, Names
  <2> QED
    BY <2>1, <2>2 DEF App
<1>6. CASE Exits \/ Crash
  <2>1. dirty' = FALSE /\ written' = FALSE /\ nextId' = 8 /\ disk' = disk /\ app' = FreshApp(app.name)
    BY <1>6 DEF Exits, Crash, NewProcess, SlotReborn
  <2>2. /\ app' \in App /\ app'.name = app.name /\ app'.save = "none" /\ ~app'.lost
        /\ ~app'.unread /\ app'.loaded = "none" /\ app'.step = "idle" /\ app'.next = "idle"
    BY <2>1 DEF FreshApp, App, Steps, Names
  <2>3. dirty' \in BOOLEAN /\ written' \in BOOLEAN /\ ~written'
    BY <2>1
  <2>4. nextId' \in Nat /\ nextId' >= 8
    BY <2>1
  <2> QED
    BY <2>1, <2>2, <2>3, <2>4
<1> QED
  BY <1>2, <1>3, <1>4, <1>5, <1>6

(***************************************************************************)
(* Every step of the session keeps the invariant.                          *)
(***************************************************************************)
LEMMA StepKeepsSave == SaveInv /\ [Next]_vars => SaveInv'
<1> SUFFICES ASSUME SaveInv, [Next]_vars
             PROVE  SaveInv'
  OBVIOUS
<1>1. CASE UNCHANGED vars
  BY <1>1 DEF vars, slotVars, SaveInv, Types, Account, Files, Saved, Emulator, Debugger
<1>2. CASE \/ IntervalFlush \/ OpenSpc \/ Quit
           \/ \E rom \in Images : OpenRom(rom)
  <2>1. PICK next \in {"idle", "load", "spc", "exit"}, rom \in SUBSET Images :
          Flush(next, rom) /\ (next = "spc" => Emulator)
    BY <1>2 DEF IntervalFlush, OpenSpc, Quit, OpenRom
  <2> QED
    BY <2>1, FlushKeepsSave
<1> QED
  BY <1>1, <1>2, RunningKeepsSave, FileKeepsSave, AfterKeepsSave DEF Next

-----------------------------------------------------------------------------
(***************************************************************************)
(* What is known of a flush under way is an invariant.                     *)
(***************************************************************************)
THEOREM SaveInvariance == Spec => []SaveInv
BY InitSave, StepKeepsSave, PTL DEF Spec

(***************************************************************************)
(* A cartridge that was written and is not dirty is on the disk.           *)
(***************************************************************************)
THEOREM CleanCartridgeSaved == Spec => []CleanIsSaved
<1>1. SaveInv => CleanIsSaved
  BY DEF SaveInv, Files, Saved, CleanIsSaved, Idle
<1> QED
  BY <1>1, SaveInvariance, PTL

(***************************************************************************)
(* Only the steps of a flush change a file, and of the debugger's only the *)
(* rename changes a save: a fault or the end of the process between any    *)
(* two of them leaves the old save or the new one, never a part.           *)
(***************************************************************************)
LEMMA StepReplacesWhole ==
  ASSUME SaveInv, [Next]_vars, Debugger, NEW n \in SaveNames, disk'.srm[n] # disk.srm[n]
  PROVE  n = app.save /\ disk'.srm[n] = FileOf(sram)
<1>1. CASE OpenSave \/ WriteSave \/ CloseSave \/ RemoveTemporary
  <2>1. disk' = disk \/ \E file : disk' = [disk EXCEPT !["tmp"][app.save] = file]
    BY <1>1 DEF OpenSave, WriteSave, CloseSave, RemoveTemporary, PutFile, FileWritten,
                Emulator, Debugger
  <2>2. disk'["srm"] = disk["srm"]
    BY <2>1 DEF SaveInv, Types, Whole
  <2> QED
    BY <2>2
<1>2. CASE RenameSave
  <2>1. CASE /\ app.step = "closed"
             /\ disk' = [disk EXCEPT !.srm[app.save] = disk.tmp[app.save], !.tmp[app.save] = NoFile]
    <3> DEFINE moved == Put(disk, "srm", app.save, disk["tmp"][app.save])
    <3>1. app.save \in SaveNames /\ disk["tmp"][app.save] = FileOf(sram) /\ Whole(disk)
      BY <2>1 DEF SaveInv, Types, App, Account, Files
    <3>2. disk' = Put(moved, "tmp", app.save, NoFile)
      BY <2>1 DEF Put
    <3>3. \A m : m # app.save => moved["srm"][m] = disk["srm"][m]
      BY <3>1 DEF Put, Whole
    <3>4. Whole(moved) /\ moved["srm"][app.save] = FileOf(sram)
      <4> HIDE DEF moved
      <4> QED
        BY <3>1, FilePut DEF moved
    <3> HIDE DEF moved
    <3>5. disk'["srm"] = moved["srm"]
      BY <3>1, <3>2, <3>4, FilePut
    <3> QED
      BY <3>3, <3>4, <3>5
  <2>2. CASE disk' = disk
    BY <2>2
  <2> QED
    BY <1>2, <2>1, <2>2 DEF RenameSave, Step
<1>3. ASSUME UNCHANGED disk
      PROVE  FALSE
  BY <1>3
<1>4. CASE \/ \E a \in left.targets : Write(a)
           \/ \E on \in BOOLEAN : MemSel(on)
           \/ ResetMachine \/ SetPersistSram \/ ClearSram
  BY <1>3, <1>4 DEF Write, MemSel, ResetMachine, SetPersistSram, ClearSram, diskAndHistory
<1>5. CASE \/ IntervalFlush \/ OpenSpc \/ Quit
           \/ \E rom \in Images : OpenRom(rom)
  BY <1>3, <1>5 DEF IntervalFlush, OpenSpc, Quit, OpenRom, Flush
<1>6. CASE Settle \/ LoadRefused \/ LoadInstalls \/ LoadsSpc \/ Exits \/ Crash
  BY <1>3, <1>6 DEF Settle, LoadRefused, LoadInstalls, LoadsSpc, Exits, Crash, NewProcess,
                    diskAndHistory
<1>7. CASE UNCHANGED vars
  BY <1>3, <1>7 DEF vars
<1> QED
  BY <1>1, <1>2, <1>4, <1>5, <1>6, <1>7 DEF Next

(***************************************************************************)
(* In the debugger a save file changes only by being replaced whole, by    *)
(* the rename of a temporary file that holds the SRAM in full              *)
(* (AtomicWriteFile): whatever fails or crashes in between, the previous   *)
(* save is intact.                                                         *)
(***************************************************************************)
THEOREM SaveNeverTorn == Spec => SaveReplacedWhole
<1>1. SaveInv /\ [Next]_vars =>
        [Debugger => \A n \in SaveNames :
           disk'.srm[n] # disk.srm[n] => n = app.save /\ disk'.srm[n] = FileOf(sram)]_vars
  BY StepReplacesWhole
<1> QED
  BY <1>1, SaveInvariance, PTL DEF Spec, SaveReplacedWhole

(***************************************************************************)
(* The debugger swaps a cartridge only when a flush has ended without a    *)
(* failure, and then what the game wrote is on the disk.                   *)
(***************************************************************************)
LEMMA StepSwapsSaved ==
  ASSUME SaveInv, [Next]_vars, Debugger, cart' # cart, nextId' > nextId, app.persist, written
  PROVE  disk.srm[app.save] = FileOf(sram)
<1>1. CASE LoadInstalls
  <2>1. app.step = "done" /\ ~app.failed
    BY <1>1 DEF LoadInstalls, GoesOn
  <2>2. app.save # "none"
    BY DEF SaveInv, Types, Account, App, Debugger, Emulator
  <2> QED
    BY <2>1, <2>2 DEF SaveInv, Account, Files, Saved, Debugger, Emulator
<1>2. ASSUME UNCHANGED cart
      PROVE  FALSE
  BY <1>2
<1>3. CASE OpenSave \/ WriteSave \/ CloseSave \/ RenameSave \/ RemoveTemporary
  BY <1>2, <1>3 DEF OpenSave, WriteSave, CloseSave, RenameSave, RemoveTemporary, Step
<1>4. CASE \/ \E a \in left.targets : Write(a)
           \/ \E on \in BOOLEAN : MemSel(on)
           \/ ResetMachine \/ SetPersistSram \/ ClearSram
  BY <1>2, <1>4 DEF Write, WriteStorage, MemSel, WriteMemSel, ResetMachine, SetPersistSram,
                    ClearSram, slotVars
<1>5. CASE \/ IntervalFlush \/ OpenSpc \/ Quit
           \/ \E rom \in Images : OpenRom(rom)
  BY <1>2, <1>5 DEF IntervalFlush, OpenSpc, Quit, OpenRom, Flush, slotVars
<1>6. CASE Settle \/ LoadRefused \/ LoadsSpc
  BY <1>2, <1>6 DEF Settle, LoadRefused, Refuse, LoadsSpc, slotVars
<1>7. CASE Exits \/ Crash
  <2>1. nextId' = 8
    BY <1>7 DEF Exits, Crash, NewProcess, SlotReborn
  <2> QED
    BY <2>1 DEF SaveInv, Types
<1>8. CASE UNCHANGED vars
  BY <1>2, <1>8 DEF vars, slotVars
<1> QED
  BY <1>1, <1>3, <1>4, <1>5, <1>6, <1>7, <1>8 DEF Next

(***************************************************************************)
(* When the debugger installs another image over a cartridge that was      *)
(* written, with saving on, the file already holds that cartridge's SRAM.  *)
(***************************************************************************)
THEOREM SwapOnlySaved == Spec => SwapKeepsSave
<1>1. SaveInv /\ [Next]_vars =>
        [(Debugger /\ cart'.id # cart.id /\ nextId' > nextId /\ app.persist /\ written) =>
           disk.srm[app.save] = FileOf(sram)]_vars
  BY StepSwapsSaved
<1> QED
  BY <1>1, SaveInvariance, PTL DEF Spec, SwapKeepsSave

(***************************************************************************)
(* While the debugger keeps a cartridge whose save it could not read, no   *)
(* file is open and none is renamed: every save stays as it is             *)
(* (SramPersistence::Flush gives up on load_error_).                       *)
(***************************************************************************)
THEOREM UnreadSaveStays == Spec => UnreadSaveKept
<1>1. ASSUME SaveInv, [Next]_vars, Debugger, app.unread
      PROVE  disk'.srm = disk.srm
  <2>1. app.step \in {"idle", "done"}
    BY <1>1 DEF SaveInv, Account
  <2>2. ~(OpenSave \/ WriteSave \/ CloseSave \/ RenameSave \/ RemoveTemporary)
    BY <2>1 DEF OpenSave, WriteSave, CloseSave, RenameSave, RemoveTemporary, Step
  <2>3. CASE \/ \E a \in left.targets : Write(a)
             \/ \E on \in BOOLEAN : MemSel(on)
             \/ ResetMachine \/ SetPersistSram \/ ClearSram
    BY <2>3 DEF Write, MemSel, ResetMachine, SetPersistSram, ClearSram, diskAndHistory
  <2>4. CASE \/ IntervalFlush \/ OpenSpc \/ Quit
             \/ \E rom \in Images : OpenRom(rom)
    BY <2>4 DEF IntervalFlush, OpenSpc, Quit, OpenRom, Flush
  <2>5. CASE Settle \/ LoadRefused \/ LoadInstalls \/ LoadsSpc \/ Exits \/ Crash
    BY <2>5 DEF Settle, LoadRefused, LoadInstalls, LoadsSpc, Exits, Crash, NewProcess,
                diskAndHistory
  <2>6. CASE UNCHANGED vars
    BY <2>6 DEF vars
  <2> QED
    BY <1>1, <2>2, <2>3, <2>4, <2>5, <2>6 DEF Next
<1> QED
  BY <1>1, SaveInvariance, PTL DEF Spec, UnreadSaveKept

-----------------------------------------------------------------------------
(***************************************************************************)
(* The detector and the loaders judge the same image with different code.  *)
(* An image as the detector sees it is one of these.                       *)
(***************************************************************************)
Payload == [name : STRING, save : STRING, size : Nat, map : [MapperKinds -> BOOLEAN],
            sum : [MapperKinds -> BOOLEAN], coproc : [MapperKinds -> BOOLEAN],
            ram : [MapperKinds -> 0..255]]

(***************************************************************************)
(* Stripping a copier header leaves an image the loaders can be given.     *)
(***************************************************************************)
LEMMA StripsToPayload ==
  ASSUME NEW rom \in Images
  PROVE  StripSmcCopierHeader(rom) \in Payload
<1>1. rom \in Payload
  BY ImageAssumption DEF Payload
<1>2. PICK size \in Nat : size = rom.size
  BY <1>1 DEF Payload
<1>3. size % 32768 = 512 => size - 512 \in Nat
  OBVIOUS
<1>4. HasSmcCopierHeader(rom.size) => size - 512 \in Nat
  BY <1>2, <1>3 DEF HasSmcCopierHeader, kSmcCopierHeaderSize
<1> QED
  BY <1>1, <1>2, <1>4 DEF StripSmcCopierHeader, kSmcCopierHeaderSize, Payload

(***************************************************************************)
(* The mapper that is picked has its header inside the image, except that  *)
(* LoROM is also what is left when nothing speaks for another one.         *)
(***************************************************************************)
LEMMA PickedHasHeader ==
  ASSUME NEW rom \in Payload
  PROVE  /\ PickMapper(rom) \in MapperKinds
         /\ PickMapper(rom) # "LoROM" => rom.size > kMapModeOffset[PickMapper(rom)]
         /\ ~OtherMapperWins(rom, PickMapper(rom))
<1> DEFINE kinds == {k \in MapperKinds : MapMode(rom, k)}
<1>1. rom.size \in Nat
  BY DEF Payload
<1>2. \A k \in MapperKinds : kMapModeOffset[k] \in Nat
  BY DEF MapperKinds, kMapModeOffset
<1>3. \A k \in MapperKinds : ChecksumPairValid(rom, k) => rom.size > kMapModeOffset[k]
  BY <1>1, <1>2 DEF ChecksumPairValid
<1>4. \A k \in MapperKinds : k \in kinds => rom.size > kMapModeOffset[k]
  BY DEF MapMode
<1>5. CASE kinds = {}
  <2>1. PickMapper(rom) = PickByChecksum(rom)
    BY <1>5 DEF PickMapper
  <2>2. ~MapMode(rom, "LoROM") /\ ~MapMode(rom, "HiROM")
    BY <1>5 DEF MapperKinds
  <2> QED
    BY <1>3, <2>1, <2>2 DEF PickByChecksum, OnlySum, OtherMapperWins, MapperKinds
<1>6. CASE kinds \in {{k} : k \in MapperKinds}
  <2>1. PickMapper(rom) = CHOOSE k \in kinds : TRUE
    BY <1>6 DEF PickMapper
  <2>2. PickMapper(rom) \in kinds
    BY <1>6, <2>1
  <2> QED
    BY <1>4, <2>2 DEF OtherMapperWins
<1>7. CASE kinds # {} /\ kinds \notin {{k} : k \in MapperKinds}
  <2>1. PickMapper(rom) = PickAmong(rom, kinds)
    BY <1>7 DEF PickMapper
  <2>2. \E k, l \in kinds : k # l
    <3>1. PICK k \in kinds : TRUE
      BY <1>7
    <3>2. kinds # {k}
      BY <1>7
    <3> QED
      BY <3>1, <3>2
  <2>3. "HiROM" \notin kinds => "LoROM" \in kinds
    BY <2>2 DEF MapperKinds
  <2>4. \A k \in MapperKinds : k \in kinds <=> MapMode(rom, k)
    OBVIOUS
  <2> HIDE DEF kinds
  <2> QED
    BY <1>3, <1>4, <2>1, <2>3, <2>4 DEF PickAmong, OnlySum, OtherMapperWins, MapperKinds
<1> QED
  BY <1>5, <1>6, <1>7

(***************************************************************************)
(* The detector and a loader compute the same SRAM size from the same      *)
(* header.                                                                 *)
(***************************************************************************)
LEMMA SameSram ==
  ASSUME NEW rom \in Payload, NEW kind \in MapperKinds
  PROVE  SramSize(rom, kind) = ProfileSramBytes(rom, kind)
<1>1. rom.size \in Nat /\ rom.ram[kind] \in 0..255
  BY DEF Payload
<1> DEFINE inImage == rom.size > kMapModeOffset[kind] + 3
           byte == IF inImage THEN rom.ram[kind] ELSE 255
           sized == inImage /\ rom.ram[kind] \in 1..kMaxSramSizeByte
<1>2. ProfileSramBytes(rom, kind) = IF byte = 0 \/ byte > kMaxSramSizeByte THEN 0 ELSE RamBytes[byte]
  BY Zenon DEF ProfileSramBytes
<1>3. SramSize(rom, kind) = IF sized THEN RamBytes[rom.ram[kind]] ELSE 0
  BY Zenon DEF SramSize
<1>4. sized <=> ~(byte = 0 \/ byte > kMaxSramSizeByte)
  BY <1>1 DEF kMaxSramSizeByte
<1>5. sized => byte = rom.ram[kind]
  OBVIOUS
<1> HIDE DEF byte, sized
<1> QED
  <2>1. CASE sized
    <3>1. ProfileSramBytes(rom, kind) = RamBytes[byte]
      BY <1>2, <1>4, <2>1, Zenon
    <3>2. SramSize(rom, kind) = RamBytes[rom.ram[kind]]
      BY <1>3, <2>1, Zenon
    <3>3. byte = rom.ram[kind]
      BY <1>5, <2>1
    <3> QED
      BY <3>1, <3>2, <3>3, ZenonT(40)
  <2>2. CASE ~sized
    BY <1>2, <1>3, <1>4, <2>2, ZenonT(40)
  <2> QED
    BY <2>1, <2>2

(***************************************************************************)
(* Once the detector has chosen a mapper, its loader never disagrees about *)
(* the mapper or the header and finds the image too small only as LoROM,   *)
(* and a loaded cartridge has the SRAM the profile says.                   *)
(***************************************************************************)
LEMMA BuildJudges ==
  ASSUME NEW rom \in Payload
  PROVE  /\ Build(rom).outcome \notin {"wrongMapper", "copier", "empty"}
         /\ Build(rom).outcome = "tooSmall" => Build(rom).profile.mapper = "LoROM"
         /\ Build(rom).outcome = "ok" =>
              SramSize(rom, DetectCartProfile(rom).mapper) = Build(rom).profile.sramBytes
         /\ Build(rom).profile = DetectCartProfile(rom)
<1> DEFINE kind == PickMapper(rom)
           profile == DetectCartProfile(rom)
<1>1. Build(rom).profile = profile
  BY DEF Build
<1>2. CASE rom.size = 0 \/ HasSmcCopierHeader(rom.size)
  <2>1. profile.mapper = "None"
    BY <1>2 DEF DetectCartProfile
  <2>2. Build(rom).outcome = "unrecognised"
    BY <2>1 DEF Build
  <2> QED
    BY <1>1, <2>2
<1>3. CASE ~(rom.size = 0 \/ HasSmcCopierHeader(rom.size))
  <2>1. profile.mapper = kind /\ profile.sramBytes = ProfileSramBytes(rom, kind)
    BY <1>3 DEF DetectCartProfile
  <2>2. kind \in MapperKinds /\ kind # "None"
    BY PickedHasHeader DEF MapperKinds
  <2>3. Build(rom).outcome = IF profile.coproc THEN "noBuilder" ELSE LoadAs(rom, kind)
    BY <2>1, <2>2 DEF Build
  <2>4. CheckHardRomShape(rom, kind) \in {"tooSmall", "ok"}
    BY <1>3 DEF CheckHardRomShape
  <2>5. CheckHardRomShape(rom, kind) = "tooSmall" => kind = "LoROM"
    <3>1. rom.size \in Nat /\ kMapModeOffset[kind] \in Nat
      BY <2>2 DEF Payload, MapperKinds, kMapModeOffset
    <3>2. CheckHardRomShape(rom, kind) = "tooSmall" => rom.size <= kMapModeOffset[kind]
      BY <1>3 DEF CheckHardRomShape
    <3>3. kind # "LoROM" => rom.size > kMapModeOffset[kind]
      BY PickedHasHeader
    <3> HIDE DEF kind
    <3> QED
      BY <3>1, <3>2, <3>3
  <2>6. LoadAs(rom, kind) \in {"tooSmall", "ok"} /\ (LoadAs(rom, kind) = "tooSmall" => kind = "LoROM")
    BY <2>4, <2>5, PickedHasHeader DEF LoadAs
  <2>7. SramSize(rom, kind) = ProfileSramBytes(rom, kind)
    BY <2>2, SameSram
  <2> HIDE DEF kind, profile
  <2> QED
    BY <1>1, <2>1, <2>3, <2>6, <2>7 DEF profile
<1> QED
  BY <1>2, <1>3

(***************************************************************************)
(* The last verdict is one the loaders and the detector agree on, and the  *)
(* cartridge in the slot is the one it was about.                          *)
(***************************************************************************)
LEMMA StepKeepsDetection == SaveInv /\ DetectionLoads /\ [Next]_vars => DetectionLoads'
<1> SUFFICES ASSUME SaveInv, DetectionLoads, [Next]_vars
             PROVE  DetectionLoads'
  OBVIOUS
<1>1. ASSUME UNCHANGED <<cart, build>>
      PROVE  DetectionLoads'
  BY <1>1 DEF DetectionLoads
<1>2. CASE LoadInstalls
  <2>1. PICK rom \in {StripSmcCopierHeader(r) : r \in app.rom} :
          build' = Build(rom) /\ cart' = CartOf(rom, nextId)
    BY <1>2 DEF LoadInstalls, Install
  <2>2. rom \in Payload
    BY <2>1, StripsToPayload DEF SaveInv, Types, App
  <2> QED
    BY <2>1, <2>2, BuildJudges DEF DetectionLoads, CartOf
<1>3. CASE LoadRefused
  <2>1. PICK rom \in app.rom : Refuse(rom, Build(StripSmcCopierHeader(rom)))
    BY <1>3 DEF LoadRefused
  <2>2. StripSmcCopierHeader(rom) \in Payload
    BY <2>1, StripsToPayload DEF SaveInv, Types, App
  <2> QED
    BY <2>1, <2>2, BuildJudges DEF DetectionLoads, Refuse
<1>4. CASE Exits \/ Crash
  <2>1. build'.outcome = "none"
    BY <1>4 DEF Exits, Crash, NewProcess, SlotReborn, NoBuild
  <2> QED
    BY <2>1 DEF DetectionLoads
<1>5. CASE OpenSave \/ WriteSave \/ CloseSave \/ RenameSave \/ RemoveTemporary
  BY <1>1, <1>5 DEF OpenSave, WriteSave, CloseSave, RenameSave, RemoveTemporary, Step
<1>6. CASE \/ \E a \in left.targets : Write(a)
           \/ \E on \in BOOLEAN : MemSel(on)
           \/ ResetMachine \/ SetPersistSram \/ ClearSram
  BY <1>1, <1>6 DEF Write, WriteStorage, MemSel, WriteMemSel, ResetMachine, SetPersistSram,
                    ClearSram, slotVars
<1>7. CASE \/ IntervalFlush \/ OpenSpc \/ Quit
           \/ \E rom \in Images : OpenRom(rom)
  BY <1>1, <1>7 DEF IntervalFlush, OpenSpc, Quit, OpenRom, Flush, slotVars
<1>8. CASE Settle \/ LoadsSpc
  BY <1>1, <1>8 DEF Settle, LoadsSpc, slotVars
<1>9. CASE UNCHANGED vars
  BY <1>1, <1>9 DEF vars, slotVars
<1> QED
  BY <1>2, <1>3, <1>4, <1>5, <1>6, <1>7, <1>8, <1>9 DEF Next

(***************************************************************************)
(* What the detector picks the loader takes, with the SRAM the profile     *)
(* announces, whatever the image's headers say.                            *)
(***************************************************************************)
THEOREM DetectedLoads == Spec => []DetectionLoads
<1>1. Init => DetectionLoads
  BY DEF Init, SlotInit, NoBuild, DetectionLoads
<1> QED
  BY <1>1, SaveInvariance, StepKeepsDetection, PTL DEF Spec

-----------------------------------------------------------------------------
(***************************************************************************)
(* The page of a mapper's table, from its number: in which pages a mapper  *)
(* shows ROM and SRAM, and from which byte on.                             *)
(***************************************************************************)
ShowsRom(c, p) ==
  \/ c.kind = "LoROM" /\ p[2] >= 128 /\ p[1] \notin {126, 127}
  \/ /\ c.kind \in {"HiROM", "ExHiROM"}
     /\ (p[1] \in LowBanks /\ p[2] >= 128) \/ p[1] \in (64..125) \cup (192..255)

ShowsSram(c, p) == c.kind \in MapperKinds /\ c.sram # 0 /\ p \in SramPages(c.kind)

RomBase(c, p) ==
  IF c.kind = "LoROM" THEN LoRomOffset(p)
  ELSE IF c.kind = "ExHiROM" /\ p[1] < 128 THEN ExHiRomOffset(p, c.size - kExHiRomBase)
       ELSE HiRomOffset(p)

SramBase(c, p) == SramOffset(c.kind, p) % c.sram

(* speed is that of the fast banks. *)
Cycles(on) == IF on THEN 6 ELSE 8
SpeedOf(p, speed) == IF p[1] >= 128 THEN speed ELSE 8

CartPage(c, speed, p) ==
  IF ShowsRom(c, p) THEN RomEntry(c, RomBase(c, p), SpeedOf(p, speed))
  ELSE IF ShowsSram(c, p) THEN SramEntry(c, SramBase(c, p)) ELSE Unmapped

(***************************************************************************)
(* The pages of the console's own devices, and the whole table.            *)
(***************************************************************************)
OfConsole(p) ==
  p[1] \in {126, 127} \/ (p[1] \in LowBanks /\ p[2] \in (0..31) \cup {33} \cup (64..67))

ConsolePage(p) ==
  IF p[1] \in {126, 127} THEN WramEntry((p[1] - 126) * 65536 + p[2] * 256)
  ELSE IF p[2] < 32 THEN WramEntry(p[2] * 256)
  ELSE IF p[2] = 33 THEN MmioEntry(PpuId, p[2] * 256, 6)
  ELSE IF p[2] = 67 THEN MmioEntry(DmaId, p[2] * 256, 6)
  ELSE MmioEntry(CpuMmioId, p[2] * 256, IF p[2] \in {64, 65} THEN 12 ELSE 6)

PageOf(c, speed, p) == IF OfConsole(p) THEN ConsolePage(p) ELSE CartPage(c, speed, p)

TableOf(c, speed) == [p \in Pages |-> PageOf(c, speed, p)]

(***************************************************************************)
(* Pages are numbered by two bytes.                                        *)
(***************************************************************************)
LEMMA PageIs ==
  ASSUME NEW p \in Pages
  PROVE  /\ p[1] \in 0..255 /\ p[2] \in 0..255 /\ p = <<p[1], p[2]>>
         /\ \A banks, pages : p \in In(banks, pages) <=> p[1] \in banks /\ p[2] \in pages
BY PagesAssumption DEF In

(***************************************************************************)
(* What each loop over pages leaves.                                       *)
(***************************************************************************)
LEMMA PagesMapped ==
  ASSUME NEW t, NEW e, NEW p \in Pages
  PROVE  MapPages(t, e)[p] = IF p \in DOMAIN e THEN e[p] ELSE t[p]
BY DEF MapPages

(***************************************************************************)
(* Half a bank after half a bank of the image.                             *)
(***************************************************************************)
LEMMA LoRomLoop ==
  ASSUME NEW t, NEW c, NEW banks, NEW speed, NEW p \in Pages
  PROVE  MapLoRomBankRange(t, c, banks, speed)[p] =
           IF p[1] \in banks /\ p[2] \in 128..255
           THEN RomEntry(c, LoRomOffset(p), speed) ELSE t[p]
BY PagesMapped DEF MapLoRomBankRange, In

(***************************************************************************)
(* The lower half of a LoROM bank shows SRAM, wrapped round its size.      *)
(***************************************************************************)
LEMMA LoRomSramLoop ==
  ASSUME NEW t, NEW c, NEW banks, NEW p \in Pages
  PROVE  MapLoRomSramBank(t, c, banks)[p] =
           IF p[1] \in banks /\ p[2] \in 0..127
           THEN SramEntry(c, SramOffset("LoROM", p) % c.sram) ELSE t[p]
BY PagesMapped DEF MapLoRomSramBank, In

(***************************************************************************)
(* Whole banks of the image, or their upper halves.                        *)
(***************************************************************************)
LEMMA HiRomLoop ==
  ASSUME NEW t, NEW c, NEW banks, NEW pages, NEW speed, NEW p \in Pages
  PROVE  MapHiRomBankPages(t, c, banks, pages, speed)[p] =
           IF p[1] \in banks /\ p[2] \in pages
           THEN RomEntry(c, HiRomOffset(p), speed) ELSE t[p]
BY PagesMapped DEF MapHiRomBankPages, In

(***************************************************************************)
(* The part of the image above 4 MiB, wrapped round its size.              *)
(***************************************************************************)
LEMMA ExHiRomLoop ==
  ASSUME NEW t, NEW c, NEW banks, NEW pages, NEW p \in Pages,
         c.size \in Nat, c.size > kExHiRomBase
  PROVE  MapExHiRomLowerBankPages(t, c, banks, pages)[p] =
           IF p[1] \in banks /\ p[2] \in pages
           THEN RomEntry(c, ExHiRomOffset(p, c.size - kExHiRomBase), 8) ELSE t[p]
<1> DEFINE window == c.size - kExHiRomBase
           e == [q \in In(banks, pages) |-> RomEntry(c, ExHiRomOffset(q, window), 8)]
<1>1. ~(window <= 0)
  BY DEF kExHiRomBase
<1>2. MapExHiRomLowerBankPages(t, c, banks, pages) = MapPages(t, e)
  BY <1>1 DEF MapExHiRomLowerBankPages
<1> QED
  BY <1>2, PagesMapped DEF In

(***************************************************************************)
(* The upper quarter of the lower half of a HiROM bank shows SRAM.         *)
(***************************************************************************)
LEMMA HiRomSramLoop ==
  ASSUME NEW t, NEW c, NEW banks, NEW p \in Pages
  PROVE  MapHiRomSramBank(t, c, banks)[p] =
           IF p[1] \in banks /\ p[2] \in 96..127
           THEN SramEntry(c, SramOffset(c.kind, p) % c.sram) ELSE t[p]
BY PagesMapped DEF MapHiRomSramBank, In

(***************************************************************************)
(* In which banks and pages that is.                                       *)
(***************************************************************************)
LEMMA SramPagesAre ==
  ASSUME NEW c, NEW p \in Pages
  PROVE  /\ p \in SramPages("LoROM") <=> p[1] \in (112..125) \cup (240..255) /\ p[2] \in 0..127
         /\ c.kind # "LoROM" =>
              (p \in SramPages(c.kind) <=> p[1] \in (32..63) \cup (160..191) /\ p[2] \in 96..127)
BY DEF SramPages, In

(***************************************************************************)
(* What a cartridge maps when it is inserted.  None of it is a page of the *)
(* console's devices.                                                      *)
(***************************************************************************)
LEMMA InitialMap ==
  ASSUME NEW t, NEW c, c.kind \in MapperKinds, c.kind = "ExHiROM" => c.size \in Nat /\ c.size > kExHiRomBase,
         NEW p \in Pages
  PROVE  MapInitial(t, c)[p] =
           IF ShowsRom(c, p) \/ ShowsSram(c, p) THEN CartPage(c, 8, p) ELSE t[p]
<1> DEFINE b == p[1]
           g == p[2]
           lo == RomEntry(c, LoRomOffset(p), 8)
           hi == RomEntry(c, HiRomOffset(p), 8)
           ex == RomEntry(c, ExHiRomOffset(p, c.size - kExHiRomBase), 8)
           loSram == SramEntry(c, SramOffset("LoROM", p) % c.sram)
           hiSram == SramEntry(c, SramOffset(c.kind, p) % c.sram)
<1>1. b \in 0..255 /\ g \in 0..255
  BY PageIs
<1>2. \A banks, pages : p \in In(banks, pages) <=> b \in banks /\ g \in pages
  BY PageIs
<1>3. SpeedOf(p, 8) = 8
  BY DEF SpeedOf
<1>4. CASE c.kind = "LoROM"
  <2> DEFINE low == MapLoRomBankRange(t, c, 0..125, 8)
             rom == MapLoRomBankRange(low, c, 128..255, 8)
             lowSram == MapLoRomSramBank(rom, c, 112..125)
             last == MapLoRomSramBank(lowSram, c, 240..255)
  <2>1. MapInitial(t, c) = IF c.sram = 0 THEN rom ELSE last
    BY <1>4, Zenon DEF MapInitial, LoRomMapInitial
  <2>2. /\ low[p] = IF b \in 0..125 /\ g \in 128..255 THEN lo ELSE t[p]
        /\ rom[p] = IF b \in 128..255 /\ g \in 128..255 THEN lo ELSE low[p]
        /\ lowSram[p] = IF b \in 112..125 /\ g \in 0..127 THEN loSram ELSE rom[p]
        /\ last[p] = IF b \in 240..255 /\ g \in 0..127 THEN loSram ELSE lowSram[p]
    BY LoRomLoop, LoRomSramLoop
  <2>3. /\ CartPage(c, 8, p) = IF ShowsRom(c, p) THEN lo
                                   ELSE IF ShowsSram(c, p) THEN loSram ELSE Unmapped
        /\ ShowsRom(c, p) <=> g >= 128 /\ b \notin {126, 127}
        /\ ShowsSram(c, p) <=> c.sram # 0 /\ b \in (112..125) \cup (240..255) /\ g \in 0..127
    <3>1. RomBase(c, p) = LoRomOffset(p)
      BY <1>4, Zenon DEF RomBase
    <3>2. SramBase(c, p) = SramOffset("LoROM", p) % c.sram
      BY <1>4, Zenon DEF SramBase
    <3>3. ShowsRom(c, p) <=> g >= 128 /\ b \notin {126, 127}
      BY <1>4 DEF ShowsRom
    <3>4. ShowsSram(c, p) <=> c.sram # 0 /\ b \in (112..125) \cup (240..255) /\ g \in 0..127
      BY <1>4, SramPagesAre DEF ShowsSram, MapperKinds
    <3> QED
      BY <1>3, <3>1, <3>2, <3>3, <3>4, Zenon DEF CartPage
  <2> HIDE DEF b, g, lo, loSram, low, rom, lowSram, last
  <2>7. MapInitial(t, c)[p] = IF c.sram = 0 THEN rom[p] ELSE last[p]
    BY <2>1
  <2>8. CASE ShowsRom(c, p)
    BY <1>1, <2>7, <2>8, <2>2, <2>3
  <2>9. CASE ~ShowsRom(c, p)
    BY <1>1, <2>7, <2>9, <2>2, <2>3
  <2> QED
    BY <2>8, <2>9
<1>5. CASE c.kind = "HiROM"
  <2> DEFINE half == MapHiRomBankPages(t, c, 0..63, 128..255, 8)
             whole == MapHiRomBankPages(half, c, 64..125, 0..255, 8)
             fastHalf == MapHiRomBankPages(whole, c, 128..191, 128..255, 8)
             upper == MapHiRomBankPages(fastHalf, c, 192..255, 0..255, 8)
             lowSram == MapHiRomSramBank(upper, c, 32..63)
             last == MapHiRomSramBank(lowSram, c, 160..191)
  <2>1. MapInitial(t, c) = IF c.sram = 0 THEN upper ELSE last
    BY <1>5, Zenon DEF MapInitial, HiRomMapInitial, MapUpperHiRom, HiRomSram
  <2>2. /\ half[p] = IF b \in 0..63 /\ g \in 128..255 THEN hi ELSE t[p]
        /\ whole[p] = IF b \in 64..125 /\ g \in 0..255 THEN hi ELSE half[p]
        /\ fastHalf[p] = IF b \in 128..191 /\ g \in 128..255 THEN hi ELSE whole[p]
        /\ upper[p] = IF b \in 192..255 /\ g \in 0..255 THEN hi ELSE fastHalf[p]
        /\ lowSram[p] = IF b \in 32..63 /\ g \in 96..127 THEN hiSram ELSE upper[p]
        /\ last[p] = IF b \in 160..191 /\ g \in 96..127 THEN hiSram ELSE lowSram[p]
    BY HiRomLoop, HiRomSramLoop
  <2>3. /\ CartPage(c, 8, p) = IF ShowsRom(c, p) THEN hi
                                   ELSE IF ShowsSram(c, p) THEN hiSram ELSE Unmapped
        /\ ShowsRom(c, p) <=> (b \in (0..63) \cup (128..191) /\ g >= 128) \/ b \in (64..125) \cup (192..255)
        /\ ShowsSram(c, p) <=> c.sram # 0 /\ b \in (32..63) \cup (160..191) /\ g \in 96..127
    <3>1. RomBase(c, p) = HiRomOffset(p)
      BY <1>5, Zenon DEF RomBase
    <3>2. SramBase(c, p) = SramOffset(c.kind, p) % c.sram
      BY <1>5, Zenon DEF SramBase
    <3>3. ShowsRom(c, p) <=> (b \in (0..63) \cup (128..191) /\ g >= 128) \/ b \in (64..125) \cup (192..255)
      BY <1>5 DEF ShowsRom, LowBanks
    <3>4. ShowsSram(c, p) <=> c.sram # 0 /\ b \in (32..63) \cup (160..191) /\ g \in 96..127
      BY <1>5, SramPagesAre DEF ShowsSram, MapperKinds
    <3> QED
      BY <1>3, <3>1, <3>2, <3>3, <3>4, Zenon DEF CartPage
  <2> HIDE DEF b, g, hi, hiSram, half, whole, fastHalf, upper, lowSram, last
  <2>7. MapInitial(t, c)[p] = IF c.sram = 0 THEN upper[p] ELSE last[p]
    BY <2>1
  <2>8. CASE ShowsRom(c, p)
    BY <1>1, <2>7, <2>8, <2>2, <2>3
  <2>9. CASE ~ShowsRom(c, p)
    BY <1>1, <2>7, <2>9, <2>2, <2>3
  <2> QED
    BY <2>8, <2>9
<1>6. CASE c.kind = "ExHiROM"
  <2> DEFINE fastHalf == MapHiRomBankPages(t, c, 128..191, 128..255, 8)
             upper == MapHiRomBankPages(fastHalf, c, 192..255, 0..255, 8)
             half == MapExHiRomLowerBankPages(upper, c, 0..63, 128..255)
             whole == MapExHiRomLowerBankPages(half, c, 64..125, 0..255)
             lowSram == MapHiRomSramBank(whole, c, 32..63)
             last == MapHiRomSramBank(lowSram, c, 160..191)
  <2>1. MapInitial(t, c) = IF c.sram = 0 THEN whole ELSE last
    BY <1>6, Zenon DEF MapInitial, ExHiRomMapInitial, MapUpperHiRom, HiRomSram
  <2>2. c.size \in Nat /\ c.size > kExHiRomBase
    BY <1>6
  <2>3. /\ fastHalf[p] = IF b \in 128..191 /\ g \in 128..255 THEN hi ELSE t[p]
        /\ upper[p] = IF b \in 192..255 /\ g \in 0..255 THEN hi ELSE fastHalf[p]
        /\ half[p] = IF b \in 0..63 /\ g \in 128..255 THEN ex ELSE upper[p]
        /\ whole[p] = IF b \in 64..125 /\ g \in 0..255 THEN ex ELSE half[p]
        /\ lowSram[p] = IF b \in 32..63 /\ g \in 96..127 THEN hiSram ELSE whole[p]
        /\ last[p] = IF b \in 160..191 /\ g \in 96..127 THEN hiSram ELSE lowSram[p]
    BY <2>2, HiRomLoop, ExHiRomLoop, HiRomSramLoop
  <2>4. /\ CartPage(c, 8, p) = IF ShowsRom(c, p) THEN IF b < 128 THEN ex ELSE hi
                                   ELSE IF ShowsSram(c, p) THEN hiSram ELSE Unmapped
        /\ ShowsRom(c, p) <=> (b \in (0..63) \cup (128..191) /\ g >= 128) \/ b \in (64..125) \cup (192..255)
        /\ ShowsSram(c, p) <=> c.sram # 0 /\ b \in (32..63) \cup (160..191) /\ g \in 96..127
    <3>1. RomEntry(c, RomBase(c, p), 8) = IF b < 128 THEN ex ELSE hi
      BY <1>6, Zenon DEF RomBase
    <3>2. SramBase(c, p) = SramOffset(c.kind, p) % c.sram
      BY <1>6, Zenon DEF SramBase
    <3>3. ShowsRom(c, p) <=> (b \in (0..63) \cup (128..191) /\ g >= 128) \/ b \in (64..125) \cup (192..255)
      BY <1>6 DEF ShowsRom, LowBanks
    <3>4. ShowsSram(c, p) <=> c.sram # 0 /\ b \in (32..63) \cup (160..191) /\ g \in 96..127
      BY <1>6, SramPagesAre DEF ShowsSram, MapperKinds
    <3> QED
      BY <1>3, <3>1, <3>2, <3>3, <3>4, Zenon DEF CartPage
  <2> HIDE DEF b, g, hi, ex, hiSram, half, whole, fastHalf, upper, lowSram, last
  <2>7. MapInitial(t, c)[p] = IF c.sram = 0 THEN whole[p] ELSE last[p]
    BY <2>1
  <2>8. CASE ShowsRom(c, p)
    BY <1>1, <2>7, <2>8, <2>3, <2>4
  <2>9. CASE ~ShowsRom(c, p)
    BY <1>1, <2>7, <2>9, <2>3, <2>4
  <2> QED
    BY <2>8, <2>9
<1> QED
  BY <1>4, <1>5, <1>6 DEF MapperKinds

(***************************************************************************)
(* The console's pages and the cartridge's are apart, and the console's    *)
(* belong to devices that are never destroyed.                             *)
(***************************************************************************)
LEMMA ConsoleApart ==
  ASSUME NEW p \in Pages, OfConsole(p)
  PROVE  /\ \A c : ~ShowsRom(c, p) /\ ~ShowsSram(c, p)
         /\ ConsolePage(p).device \in {WramId, CpuMmioId, DmaId, PpuId}
<1>1. p[1] \in 0..255 /\ p[2] \in 0..255
  BY PageIs
<1>2. \A banks, pages : p \in In(banks, pages) <=> p[1] \in banks /\ p[2] \in pages
  BY PageIs
<1>3. ASSUME NEW c
      PROVE  ~ShowsRom(c, p)
  BY <1>1 DEF ShowsRom, OfConsole, LowBanks
<1>4. ASSUME NEW c
      PROVE  ~ShowsSram(c, p)
  <2>1. p[1] \notin 112..125 /\ p[1] \notin 240..255
    BY <1>1 DEF OfConsole, LowBanks
  <2>2. ~(p[1] \in (32..63) \cup (160..191) /\ p[2] \in 96..127)
    BY <1>1 DEF OfConsole
  <2>3. c.kind = "LoROM" \/ c.kind # "LoROM"
    OBVIOUS
  <2> QED
    BY <2>1, <2>2, <2>3, SramPagesAre DEF ShowsSram
<1>5. ConsolePage(p).device \in {WramId, CpuMmioId, DmaId, PpuId}
  BY DEF ConsolePage, WramEntry, MmioEntry
<1> QED
  BY <1>3, <1>4, <1>5

(***************************************************************************)
(* MEMSEL changes the speed of the fast banks, and nothing else.           *)
(***************************************************************************)
LEMMA RetimedIsTable ==
  ASSUME NEW t, NEW c, c.kind \in MapperKinds, NEW on
  PROVE  OnMemSelChanged(t, c, on) = [p \in Pages |-> OnMemSelChanged(t, c, on)[p]]
BY DEF OnMemSelChanged, MapperKinds, MapUpperHiRom, MapHiRomBankPages, MapLoRomBankRange, MapPages

(***************************************************************************)
(* A page after a MEMSEL write: ROM of the upper banks, or as before.      *)
(***************************************************************************)
LEMMA Retimed ==
  ASSUME NEW t, NEW c, c.kind \in MapperKinds, NEW on \in BOOLEAN,
         NEW p \in Pages
  PROVE  OnMemSelChanged(t, c, on)[p] =
           IF ShowsRom(c, p) /\ p[1] >= 128 THEN CartPage(c, Cycles(on), p) ELSE t[p]
<1> DEFINE b == p[1]
           g == p[2]
           speed == Cycles(on)
           lo == RomEntry(c, LoRomOffset(p), speed)
           hi == RomEntry(c, HiRomOffset(p), speed)
<1>1. b \in 0..255 /\ g \in 0..255
  BY PageIs
<1>2. b >= 128 => SpeedOf(p, speed) = speed
  BY DEF SpeedOf
<1>3. CASE c.kind = "LoROM"
  <2>1. OnMemSelChanged(t, c, on) = MapLoRomBankRange(t, c, 128..255, speed)
    BY <1>3, Zenon DEF OnMemSelChanged, Cycles
  <2>3. OnMemSelChanged(t, c, on)[p] = IF b \in 128..255 /\ g \in 128..255 THEN lo ELSE t[p]
    BY <2>1, LoRomLoop
  <2>4. ShowsRom(c, p) <=> g >= 128 /\ b \notin {126, 127}
    BY <1>3 DEF ShowsRom
  <2>5. ShowsRom(c, p) /\ b >= 128 => CartPage(c, Cycles(on), p) = lo
    BY <1>2, <1>3, Zenon DEF CartPage, RomBase
  <2> HIDE DEF b, g, lo
  <2> QED
    BY <1>1, <2>3, <2>4, <2>5 DEF b
<1>4. CASE c.kind \in {"HiROM", "ExHiROM"}
  <2> DEFINE half == MapHiRomBankPages(t, c, 128..191, 128..255, speed)
  <2>1. OnMemSelChanged(t, c, on) = MapHiRomBankPages(half, c, 192..255, 0..255, speed)
    BY <1>4, Zenon DEF OnMemSelChanged, Cycles, MapUpperHiRom
  <2>3. /\ half[p] = IF b \in 128..191 /\ g \in 128..255 THEN hi ELSE t[p]
        /\ OnMemSelChanged(t, c, on)[p] = IF b \in 192..255 /\ g \in 0..255 THEN hi ELSE half[p]
    BY <2>1, HiRomLoop
  <2>4. ShowsRom(c, p) <=> (b \in (0..63) \cup (128..191) /\ g >= 128) \/ b \in (64..125) \cup (192..255)
    BY <1>4 DEF ShowsRom, LowBanks
  <2>5. ShowsRom(c, p) /\ b >= 128 => CartPage(c, Cycles(on), p) = hi
    <3>1. b >= 128 => ~(b < 128)
      BY <1>1
    <3> QED
      BY <1>2, <1>4, <3>1, Zenon DEF CartPage, RomBase
  <2> HIDE DEF b, g, hi, half
  <2> QED
    BY <1>1, <2>3, <2>4, <2>5 DEF b
<1> QED
  BY <1>3, <1>4 DEF MapperKinds

(***************************************************************************)
(* A cartridge that can be in the slot: the empty one, or one that a       *)
(* loader has taken, with the SRAM its image's header announces.           *)
(***************************************************************************)
HasSram(c) ==
  \/ c.sram = 0
  \/ \E rom \in Images : rom.ram[c.kind] \in 1..kMaxSramSizeByte /\ c.sram = RamBytes[rom.ram[c.kind]]

Loaded(c) ==
  /\ c.kind \in MapperKinds /\ c.size \in Nat \ {0}
  /\ c.kind = "ExHiROM" => c.size > kExHiRomBase /\ c.size % 256 = 0
  /\ c.id \in Nat /\ c.id >= 8 /\ c.image # "openBus" /\ HasSram(c)

InSlot(c) == c = NoCart \/ Loaded(c)

(***************************************************************************)
(* The table a MEMSEL write leaves is that of the new speed.               *)
(***************************************************************************)
LEMMA RetimedTable ==
  ASSUME NEW c, InSlot(c), NEW on \in BOOLEAN, NEW before
  PROVE  OnMemSelChanged(TableOf(c, before), c, on) = TableOf(c, Cycles(on))
<1>1. CASE c = NoCart
  <2>1. OnMemSelChanged(TableOf(c, before), c, on) = TableOf(c, before)
    BY <1>1 DEF OnMemSelChanged, NoCart
  <2>2. ASSUME NEW p \in Pages
        PROVE  PageOf(c, before, p) = PageOf(c, Cycles(on), p)
    BY <1>1 DEF PageOf, CartPage, ShowsRom, ShowsSram, NoCart, MapperKinds
  <2> QED
    BY <2>1, <2>2 DEF TableOf
<1>2. CASE Loaded(c)
  <2> DEFINE t == TableOf(c, before)
             u == OnMemSelChanged(t, c, on)
  <2>0. c.kind \in MapperKinds
    BY <1>2 DEF Loaded
  <2>1. ASSUME NEW p \in Pages
        PROVE  u[p] = PageOf(c, Cycles(on), p)
    <3>1. u[p] = IF ShowsRom(c, p) /\ p[1] >= 128 THEN CartPage(c, Cycles(on), p) ELSE t[p]
      BY <2>0, Retimed
    <3>2. t[p] = PageOf(c, before, p)
      BY DEF TableOf
    <3>3. CASE OfConsole(p)
      BY <3>1, <3>2, <3>3, ConsoleApart DEF PageOf
    <3>4. CASE ~OfConsole(p)
      <4>1. ~(ShowsRom(c, p) /\ p[1] >= 128) => CartPage(c, before, p) = CartPage(c, Cycles(on), p)
        BY DEF CartPage, SpeedOf
      <4> QED
        BY <3>1, <3>2, <3>4, <4>1 DEF PageOf
    <3> QED
      BY <3>1, <3>3, <3>4
  <2>2. u = [p \in Pages |-> u[p]]
    BY <2>0, RetimedIsTable
  <2> QED
    BY <2>1, <2>2 DEF TableOf
<1> QED
  BY <1>1, <1>2 DEF InSlot

(***************************************************************************)
(* LoadRom leaves the map of the new cartridge and nothing of the old one, *)
(* although it maps first and sweeps afterwards.                           *)
(***************************************************************************)
LEMMA InstalledTable ==
  ASSUME NEW old, InSlot(old), NEW new, Loaded(new), new.id # old.id, NEW speed
  PROVE  UnmapByDeviceId(MapInitial(TableOf(old, speed), new), old.id) = TableOf(new, 8)
<1> DEFINE t == TableOf(old, speed)
           mapped == MapInitial(t, new)
<1>1. ASSUME NEW p \in Pages
      PROVE  (IF mapped[p].device = old.id /\ mapped[p].kind # "unmapped"
              THEN Unmapped ELSE mapped[p]) = PageOf(new, 8, p)
  <2>1. mapped[p] = IF ShowsRom(new, p) \/ ShowsSram(new, p) THEN CartPage(new, 8, p) ELSE t[p]
    BY InitialMap DEF Loaded
  <2>2. t[p] = PageOf(old, speed, p)
    BY DEF TableOf
  <2>3. CASE OfConsole(p)
    <3>1. mapped[p] = ConsolePage(p)
      BY <2>1, <2>2, <2>3, ConsoleApart DEF PageOf
    <3>2. old.id \notin {WramId, CpuMmioId, DmaId, PpuId}
      BY DEF InSlot, Loaded, NoCart, WramId, CpuMmioId, DmaId, PpuId
    <3> QED
      BY <2>3, <3>1, <3>2, ConsoleApart DEF PageOf
  <2>4. CASE ~OfConsole(p) /\ (ShowsRom(new, p) \/ ShowsSram(new, p))
    <3>1. CartPage(new, 8, p).device = new.id
      BY <2>4 DEF CartPage, RomEntry, SramEntry
    <3> QED
      BY <2>1, <2>4, <3>1 DEF PageOf
  <2>5. CASE ~OfConsole(p) /\ ~(ShowsRom(new, p) \/ ShowsSram(new, p))
    <3>1. mapped[p] = CartPage(old, speed, p) /\ PageOf(new, 8, p) = Unmapped
      BY <2>1, <2>2, <2>5 DEF PageOf, CartPage
    <3>2. CartPage(old, speed, p) = Unmapped \/ CartPage(old, speed, p).device = old.id
      BY DEF CartPage, RomEntry, SramEntry
    <3>3. CartPage(old, speed, p) = Unmapped \/ CartPage(old, speed, p).kind # "unmapped"
      BY DEF CartPage, RomEntry, SramEntry
    <3> QED
      BY <3>1, <3>2, <3>3
  <2> QED
    BY <2>3, <2>4, <2>5
<1> QED
  BY <1>1 DEF UnmapByDeviceId, TableOf

(***************************************************************************)
(* What SNES::SNES maps before any cartridge.                              *)
(***************************************************************************)
LEMMA EmptySlotTable == ConsoleMap = TableOf(NoCart, 8)
<1> DEFINE none == [p \in Pages |-> Unmapped]
           big == [p \in In({126, 127}, 0..255) |-> WramEntry((p[1] - 126) * 65536 + p[2] * 256)]
           small == [p \in In(LowBanks, 0..31) |-> WramEntry(p[2] * 256)]
           cpu == [p \in In(LowBanks, 64..67) |->
                     MmioEntry(CpuMmioId, p[2] * 256, IF p[2] \in {64, 65} THEN 12 ELSE 6)]
           dma == [p \in In(LowBanks, {67}) |-> MmioEntry(DmaId, p[2] * 256, 6)]
           ppu == [p \in In(LowBanks, {33}) |-> MmioEntry(PpuId, p[2] * 256, 6)]
<1>1. ConsoleMap = MapPages(MapPages(MapPages(MapPages(MapPages(none, big), small), cpu), dma), ppu)
  BY DEF ConsoleMap, MapMmio, MapWram
<1>2. ASSUME NEW p \in Pages
      PROVE  ConsoleMap[p] = PageOf(NoCart, 8, p)
  <2> DEFINE b == p[1]
             g == p[2]
  <2>1. b \in 0..255 /\ g \in 0..255
    BY PageIs
  <2>2. \A banks, pages : p \in In(banks, pages) <=> b \in banks /\ g \in pages
    BY PageIs
  <2>3. \A t, e : MapPages(t, e)[p] = IF p \in DOMAIN e THEN e[p] ELSE t[p]
    BY DEF MapPages
  <2>4. /\ p \in DOMAIN big <=> b \in {126, 127} /\ g \in 0..255
        /\ p \in DOMAIN small <=> b \in LowBanks /\ g \in 0..31
        /\ p \in DOMAIN cpu <=> b \in LowBanks /\ g \in 64..67
        /\ p \in DOMAIN dma <=> b \in LowBanks /\ g \in {67}
        /\ p \in DOMAIN ppu <=> b \in LowBanks /\ g \in {33}
    BY <2>2
  <2>5. /\ p \in DOMAIN big => big[p] = WramEntry((p[1] - 126) * 65536 + p[2] * 256)
        /\ p \in DOMAIN small => small[p] = WramEntry(p[2] * 256)
        /\ p \in DOMAIN cpu =>
             cpu[p] = MmioEntry(CpuMmioId, p[2] * 256, IF p[2] \in {64, 65} THEN 12 ELSE 6)
        /\ p \in DOMAIN dma => dma[p] = MmioEntry(DmaId, p[2] * 256, 6)
        /\ p \in DOMAIN ppu => ppu[p] = MmioEntry(PpuId, p[2] * 256, 6)
    OBVIOUS
  <2>6. none[p] = Unmapped
    OBVIOUS
  <2> HIDE DEF none, big, small, cpu, dma, ppu
  <2>7. ConsoleMap[p] =
          IF p \in DOMAIN ppu THEN ppu[p]
          ELSE IF p \in DOMAIN dma THEN dma[p]
          ELSE IF p \in DOMAIN cpu THEN cpu[p]
          ELSE IF p \in DOMAIN small THEN small[p]
          ELSE IF p \in DOMAIN big THEN big[p] ELSE none[p]
    BY <1>1, PagesMapped
  <2>8. CartPage(NoCart, 8, p) = Unmapped
    BY DEF CartPage, ShowsRom, ShowsSram, NoCart, MapperKinds
  <2>9. PageOf(NoCart, 8, p) = IF OfConsole(p) THEN ConsolePage(p) ELSE Unmapped
    BY <2>8 DEF PageOf
  <2>10. CASE b \in {126, 127}
    <3>1. b \notin LowBanks
      BY <2>10 DEF LowBanks
    <3>2. OfConsole(p) /\ ConsolePage(p) = WramEntry((p[1] - 126) * 65536 + p[2] * 256)
      BY <2>10 DEF OfConsole, ConsolePage
    <3> QED
      BY <2>1, <2>4, <2>5, <2>7, <2>9, <2>10, <3>1, <3>2
  <2>11. CASE b \in LowBanks /\ b \notin {126, 127} /\ g \in (0..31) \cup {33} \cup (64..67)
    <3>1. OfConsole(p)
      BY <2>11 DEF OfConsole
    <3>2. p \notin DOMAIN big
      BY <2>4, <2>11
    <3>3. CASE g \in 0..31
      BY <2>4, <2>5, <2>7, <2>9, <2>11, <3>1, <3>3 DEF ConsolePage
    <3>4. CASE g = 33
      BY <2>4, <2>5, <2>7, <2>9, <2>11, <3>1, <3>4 DEF ConsolePage
    <3>5. CASE g \in 64..66
      BY <2>4, <2>5, <2>7, <2>9, <2>11, <3>1, <3>5 DEF ConsolePage
    <3>6. CASE g = 67
      BY <2>4, <2>5, <2>7, <2>9, <2>11, <3>1, <3>6 DEF ConsolePage
    <3> QED
      BY <2>11, <3>3, <3>4, <3>5, <3>6
  <2>12. CASE b \notin {126, 127} /\ ~(b \in LowBanks /\ g \in (0..31) \cup {33} \cup (64..67))
    <3>1. ~OfConsole(p)
      BY <2>12 DEF OfConsole
    <3> QED
      BY <2>1, <2>4, <2>6, <2>7, <2>9, <2>12, <3>1
  <2> QED
    BY <2>10, <2>11, <2>12
<1>3. ConsoleMap = [p \in Pages |-> ConsoleMap[p]]
  BY <1>1 DEF MapPages
<1> HIDE DEF none, big, small, cpu, dma, ppu
<1> QED
  BY <1>2, <1>3 DEF TableOf

-----------------------------------------------------------------------------
(***************************************************************************)
(* The RAM sizes are whole pages.                                          *)
(***************************************************************************)
LEMMA RamUnfolds ==
  /\ RamBytes[0] = 1024
  /\ \A n \in Nat : RamBytes[n] \in Nat /\ RamBytes[n + 1] = 2 * RamBytes[n]
<1> DEFINE step == [pair \in Nat \X Nat |-> 2 * pair[1]]
           Sizes(f) == f = [byte \in Nat |-> IF byte = 0 THEN 1024 ELSE 2 * f[byte - 1]]
<1>0. PICK first \in Nat : first = 1024
  OBVIOUS
<1>1. \E f : Sizes(f)
  <2>1. step \in [Nat \X Nat -> Nat] /\ \A a, n \in Nat : step[<<a, n>>] = 2 * a
    OBVIOUS
  <2> HIDE DEF step
  <2>2. PICK f \in [Nat -> Nat] : Unfolds(f, first, step)
    BY <2>1, Recursion
  <2>3. ASSUME NEW n \in Nat
        PROVE  f[n] = IF n = 0 THEN 1024 ELSE 2 * f[n - 1]
    <3>1. CASE n = 0
      BY <1>0, <2>2, <3>1 DEF Unfolds
    <3>2. CASE n # 0
      <4>1. PICK m \in Nat : n = m + 1 /\ n - 1 = m
        BY <3>2
      <4>2. f[m + 1] = step[<<f[m], m>>] /\ f[m] \in Nat
        BY <2>2 DEF Unfolds
      <4> QED
        BY <2>1, <3>2, <4>1, <4>2
    <3> QED
      BY <3>1, <3>2
  <2>4. Sizes(f)
    BY <2>3
  <2> QED
    BY <2>4
<1>2. PICK s : s = RamBytes /\ Sizes(s)
  BY <1>1 DEF RamBytes
<1>3. s[0] = 1024
  BY <1>2
<1>4. ASSUME NEW n \in Nat
      PROVE  s[n + 1] = 2 * s[n]
  <2>1. n + 1 \in Nat /\ n + 1 # 0 /\ (n + 1) - 1 = n
    OBVIOUS
  <2> QED
    BY <1>2, <2>1
<1>5. \A n \in Nat : s[n] \in Nat
  <2> DEFINE Good == {n \in Nat : s[n] \in Nat}
  <2>1. 0 \in Good
    BY <1>3
  <2>2. \A n \in Nat : n \in Good => n + 1 \in Good
    BY <1>4
  <2>3. Nat \subseteq Good
    <3> HIDE DEF Good
    <3> QED
      BY <2>1, <2>2, NaturalInduction
  <2> QED
    BY <2>3
<1> QED
  BY <1>2, <1>3, <1>4, <1>5

(***************************************************************************)
(* An SRAM that a header can announce is a number of whole pages.          *)
(***************************************************************************)
LEMMA SramIsPages ==
  ASSUME NEW c, HasSram(c), c.sram # 0
  PROVE  \E k \in Nat \ {0} : c.sram = 256 * k
<1>1. PICK n \in 1..9 : c.sram = RamBytes[n]
  BY DEF HasSram, kMaxSramSizeByte
<1>2. RamBytes[1] = 256 * 8
  BY RamUnfolds
<1>3. RamBytes[2] = 256 * 16
  BY <1>2, RamUnfolds
<1>4. RamBytes[3] = 256 * 32
  BY <1>3, RamUnfolds
<1>5. RamBytes[4] = 256 * 64
  BY <1>4, RamUnfolds
<1>6. RamBytes[5] = 256 * 128
  BY <1>5, RamUnfolds
<1>7. RamBytes[6] = 256 * 256
  BY <1>6, RamUnfolds
<1>8. RamBytes[7] = 256 * 512
  BY <1>7, RamUnfolds
<1>9. RamBytes[8] = 256 * 1024
  BY <1>8, RamUnfolds
<1>10. RamBytes[9] = 256 * 2048
  BY <1>9, RamUnfolds
<1>11. n = 1 \/ n = 2 \/ n = 3 \/ n = 4 \/ n = 5 \/ n = 6 \/ n = 7 \/ n = 8 \/ n = 9
  OBVIOUS
<1> QED
  BY <1>1, <1>2, <1>3, <1>4, <1>5, <1>6, <1>7, <1>8, <1>9, <1>10, <1>11

(***************************************************************************)
(* A remainder, from the quotient it goes with.                            *)
(***************************************************************************)
LEMMA RemainderIs ==
  ASSUME NEW n \in Nat \ {0}, NEW q \in Int, NEW r \in 0..(n - 1), NEW at, at = n * q + r
  PROVE  at % n = r
BY RemainderOf, Zenon

(***************************************************************************)
(* A store, or an offset, of whole pages.                                  *)
(***************************************************************************)
WholePages(n) == \E k \in Nat : n = 256 * k

(***************************************************************************)
(* A page in a store of whole pages, and a byte of it, after the wrap.     *)
(***************************************************************************)
Parts(s, at, end, o) ==
  \E q \in Int : \E u \in 0..(s - 1), v \in 0..(s - 1) :
    at = s * q + u /\ end = s * q + v /\ v = u + o /\ u + 256 <= s

(***************************************************************************)
(* A page that begins at a multiple of 256, and a byte of it, in the same  *)
(* turn round a store of whole pages.                                      *)
(***************************************************************************)
LEMMA PageInStore ==
  ASSUME NEW s \in Nat \ {0}, WholePages(s), NEW at \in Nat, WholePages(at), NEW o \in 0..255,
         NEW end \in Nat, end = at + o
  PROVE  Parts(s, at, end, o)
<1>1. PICK k \in Nat \ {0} : s = 256 * k
  <2>1. PICK k \in Nat : s = 256 * k
    BY DEF WholePages
  <2>2. k \in Nat \ {0}
    BY <2>1
  <2> QED
    BY <2>1, <2>2
<1>2. PICK x \in Nat : at = 256 * x
  BY DEF WholePages
<1>3. PICK q \in Int, r \in 0..(k - 1) : x = k * q + r
  <2>1. x \div k \in Int /\ x % k \in 0..(k - 1) /\ x = k * (x \div k) + (x % k)
    OBVIOUS
  <2> QED
    BY <2>1
<1>4. PICK u, v : u = 256 * r /\ v = u + o
  OBVIOUS
<1>5. u \in 0..(s - 1) /\ v \in 0..(s - 1) /\ u + 256 <= s
  BY <1>1, <1>4
<1>6. at = s * q + u /\ end = s * q + v
  <2>1. PICK kq \in Int : kq = k * q
    OBVIOUS
  <2>2. s * q = 256 * kq
    BY <1>1, <2>1
  <2>3. at = 256 * kq + 256 * r
    BY <1>2, <1>3, <2>1
  <2> QED
    BY <1>4, <2>2, <2>3
<1> QED
  BY <1>4, <1>5, <1>6 DEF Parts

(***************************************************************************)
(* A page that is wrapped round a store of whole pages stays in one piece: *)
(* its bytes wrap round with it.                                           *)
(***************************************************************************)
LEMMA PageWraps ==
  ASSUME NEW s \in Nat \ {0}, WholePages(s), NEW at \in Nat, WholePages(at), NEW o \in 0..255
  PROVE  (at % s) + o = (at + o) % s /\ (at % s) + 256 <= s /\ at % s \in Nat
<1>1. PICK end \in Nat : end = at + o
  OBVIOUS
<1>2. PICK q \in Int, u \in 0..(s - 1), v \in 0..(s - 1) :
        at = s * q + u /\ end = s * q + v /\ v = u + o /\ u + 256 <= s
  <2>1. Parts(s, at, end, o)
    BY <1>1, PageInStore, Zenon
  <2> QED
    BY <2>1 DEF Parts
<1>3. at % s = u /\ end % s = v
  <2>1. at % s = u
    BY <1>2, RemainderIs, Zenon
  <2>2. end % s = v
    BY <1>2, RemainderIs, Zenon
  <2> QED
    BY <2>1, <2>2
<1>4. u \in Nat /\ v = u + o /\ u + 256 <= s
  BY <1>2
<1> QED
  BY <1>1, <1>3, <1>4

(***************************************************************************)
(* The SRAM of a cartridge is a store a page can be wrapped round.         *)
(***************************************************************************)
LEMMA SramWhole ==
  ASSUME NEW c, HasSram(c), c.sram # 0
  PROVE  c.sram \in Nat \ {0} /\ WholePages(c.sram)
<1>1. PICK k \in Nat \ {0} : c.sram = 256 * k
  BY SramIsPages
<1>2. k \in Nat
  OBVIOUS
<1> QED
  BY <1>1, <1>2 DEF WholePages

-----------------------------------------------------------------------------
(***************************************************************************)
(* The address space between two steps: the table is the one of the        *)
(* cartridge in the slot and of MEMSEL's bit, whatever came before it; and *)
(* what is stored anywhere is not what an open bus shows.                  *)
(***************************************************************************)
Stored(bytes) == \A c \in DOMAIN bytes : bytes[c][1] # "openBus"

Placed ==
  /\ fast \in BOOLEAN
  /\ InSlot(cart) /\ nextId > cart.id
  /\ live = ((0..7) \ {1}) \cup {cart.id}
  /\ table = TableOf(cart, Cycles(fast))

StoredFiles == \A kind \in {"srm", "tmp"}, n \in SaveNames : Stored(disk[kind][n].bytes)

Contents ==
  /\ DOMAIN sram = CellsOf(cart.sram) /\ Stored(sram)
  /\ DOMAIN wram = WramCells /\ Stored(wram)

SlotInv == Placed /\ Contents /\ StoredFiles

(***************************************************************************)
(* How an entry of the table is read: a page of storage, a page of         *)
(* registers, and a page of nothing.                                       *)
(***************************************************************************)
LEMMA StorageReads ==
  ASSUME NEW a, NEW e, e = EntryAt(table, a), e.kind = "memory", e.device \in live
  PROVE  /\ e.fastRead => BusRead(a) = DirectByte(e.device, e.sram, e.base + a[3])
         /\ ~e.fastRead => BusRead(a) = RegisterByte(e.device, e.sram, e.base + a[3])
         /\ DebuggerRead(a) = RegisterByte(e.device, e.sram, e.base + a[3])
         /\ Plan(table, a).cycles = e.speed
<1>1. Plan(table, a) = [outcome |-> "inline", cycles |-> e.speed]
  BY DEF Plan
<1>2. HasFastRead(table, a) <=> e.fastRead
  BY DEF HasFastRead
<1>3. /\ e.fastRead => FollowRead(table, live, a) = Answer("pointer", e, a[3])
      /\ ~e.fastRead => FollowRead(table, live, a) = Answer("device", e, a[3])
  BY <1>1, <1>2 DEF FollowRead, Answer
<1>4. DebugRead(table, live, a) = Answer("device", e, a[3])
  BY <1>1 DEF DebugRead
<1>5. e.fastRead => BusRead(a) = DirectByte(e.device, e.sram, e.base + a[3])
  BY <1>3 DEF BusRead, Answer
<1>6. ~e.fastRead => BusRead(a) = RegisterByte(e.device, e.sram, e.base + a[3])
  BY <1>3 DEF BusRead, Answer
<1>7. DebuggerRead(a) = RegisterByte(e.device, e.sram, e.base + a[3])
  BY <1>4 DEF DebuggerRead, Answer
<1>8. Plan(table, a).cycles = e.speed
  BY <1>1
<1> QED
  BY <1>5, <1>6, <1>7, <1>8, Zenon

(***************************************************************************)
(* Registers have no pointer: the bus and the debugger ask the device.     *)
(***************************************************************************)
LEMMA RegisterReads ==
  ASSUME NEW a, NEW e, e = EntryAt(table, a), e.kind = "sameClockMmio", e.device \in live
  PROVE  /\ BusRead(a) = RegisterByte(e.device, e.sram, e.base + a[3])
         /\ DebuggerRead(a) = RegisterByte(e.device, e.sram, e.base + a[3])
         /\ Plan(table, a).cycles = e.speed
<1>1. Plan(table, a) = [outcome |-> "inline", cycles |-> e.speed]
  BY DEF Plan
<1>2. ~HasFastRead(table, a)
  BY DEF HasFastRead
<1>3. FollowRead(table, live, a) = Answer("device", e, a[3])
  BY <1>1, <1>2 DEF FollowRead, Answer
<1>4. DebugRead(table, live, a) = Answer("device", e, a[3])
  BY <1>1 DEF DebugRead
<1>5. BusRead(a) = RegisterByte(e.device, e.sram, e.base + a[3])
  BY <1>3 DEF BusRead, Answer
<1>6. DebuggerRead(a) = RegisterByte(e.device, e.sram, e.base + a[3])
  BY <1>4 DEF DebuggerRead, Answer
<1>7. Plan(table, a).cycles = e.speed
  BY <1>1
<1> QED
  BY <1>5, <1>6, <1>7, Zenon

(***************************************************************************)
(* Nobody answers, after a slow cycle, and the debugger is refused.        *)
(***************************************************************************)
LEMMA NothingReads ==
  ASSUME NEW a, EntryAt(table, a).kind = "unmapped"
  PROVE  /\ BusRead(a) = <<"openBus", 0>> /\ DebuggerRead(a) = <<"refused", 0>>
         /\ Plan(table, a).cycles = 8
<1> DEFINE e == EntryAt(table, a)
<1>1. Plan(table, a) = [outcome |-> "rejected", cycles |-> 8]
  BY DEF Plan
<1>2. FollowRead(table, live, a) = Answer("nobody", e, a[3])
  BY <1>1 DEF FollowRead, Answer
<1>3. DebugRead(table, live, a) = Answer("nobody", e, a[3])
  BY <1>1 DEF DebugRead
<1> QED
  BY <1>1, <1>2, <1>3 DEF BusRead, DebuggerRead, Answer

-----------------------------------------------------------------------------
(***************************************************************************)
(* Numbers of one byte, and the place of a byte in its bank, by name: they *)
(* are opaque to the proofs that only pass them on.                        *)
(***************************************************************************)
Byte == 0..255
InBank(page, offset) == page * 256 + offset

(***************************************************************************)
(* The memory map where the console's own devices are.                     *)
(***************************************************************************)
LEMMA ConsoleMapped ==
  ASSUME NEW b \in Byte, NEW g \in Byte, NEW o \in Byte, OfConsole(<<b, g>>), NEW e, e = ConsolePage(<<b, g>>)
  PROVE  MemoryMap(<<b, g, o>>) =
           Leads(IF e.device = WramId THEN wram[e.base + o] ELSE <<"register", e.base + o>>, e.speed)
<1> USE DEF Byte, InBank
<1> DEFINE a == <<b, g, o>>
           inBank == g * 256 + o
<1>0. a[1] = b /\ a[2] = g /\ a[3] = o /\ <<b, g>>[1] = b /\ <<b, g>>[2] = g
  OBVIOUS
<1>1. CASE b \in {126, 127}
  <2>1. MemoryMap(a) = Leads(wram[(b - 126) * 65536 + inBank], 8)
    BY <1>1 DEF MemoryMap, LowBanks
  <2>2. e = WramEntry((b - 126) * 65536 + g * 256)
    BY <1>1 DEF ConsolePage
  <2>3. ((b - 126) * 65536 + g * 256) + o = (b - 126) * 65536 + inBank
    BY <1>1
  <2> QED
    BY <2>1, <2>2, <2>3 DEF WramEntry
<1>2. CASE b \in LowBanks /\ b \notin {126, 127} /\ g < 32
  <2>1. MemoryMap(a) = Leads(wram[inBank], 8)
    BY <1>2 DEF MemoryMap
  <2>2. e = WramEntry(g * 256)
    BY <1>2 DEF ConsolePage
  <2> QED
    BY <2>1, <2>2 DEF WramEntry
<1>3. CASE b \in LowBanks /\ b \notin {126, 127} /\ g = 33
  <2>1. MemoryMap(a) = Leads(<<"register", inBank>>, 6)
    BY <1>3 DEF MemoryMap
  <2>2. e = MmioEntry(PpuId, g * 256, 6)
    BY <1>3 DEF ConsolePage
  <2> QED
    BY <2>1, <2>2 DEF MmioEntry, PpuId, WramId
<1>4. CASE b \in LowBanks /\ b \notin {126, 127} /\ g \in {64, 65}
  <2>1. MemoryMap(a) = Leads(<<"register", inBank>>, 12)
    BY <1>4 DEF MemoryMap
  <2>2. e = MmioEntry(CpuMmioId, g * 256, 12)
    BY <1>4 DEF ConsolePage
  <2> QED
    BY <2>1, <2>2 DEF MmioEntry, CpuMmioId, WramId
<1>5. CASE b \in LowBanks /\ b \notin {126, 127} /\ g \in {66, 67}
  <2>1. MemoryMap(a) = Leads(<<"register", inBank>>, 6)
    BY <1>5 DEF MemoryMap
  <2>2. e = MmioEntry(CpuMmioId, g * 256, 6) \/ e = MmioEntry(DmaId, g * 256, 6)
    BY <1>5 DEF ConsolePage
  <2> QED
    BY <2>1, <2>2 DEF MmioEntry, CpuMmioId, DmaId, WramId
<1> QED
  BY <1>0, <1>1, <1>2, <1>3, <1>4, <1>5 DEF OfConsole

(***************************************************************************)
(* Everywhere else it is the cartridge's.                                  *)
(***************************************************************************)
LEMMA CartMapped ==
  ASSUME NEW b \in Byte, NEW g \in Byte, NEW o \in Byte, NEW inBank, inBank = InBank(g, o),
         ~OfConsole(<<b, g>>)
  PROVE  MemoryMap(<<b, g, o>>) = CartMap(b, g, inBank)
<1> USE DEF Byte, InBank
<1>1. b \notin {126, 127} /\ (b \in LowBanks => ~(g < 32) /\ g \notin {64, 65} /\ g \notin {33, 66, 67})
  BY DEF OfConsole
<1>2. <<b, g, o>>[1] = b /\ <<b, g, o>>[2] = g /\ <<b, g, o>>[3] = o
  OBVIOUS
<1> QED
  BY <1>1, <1>2 DEF MemoryMap

(***************************************************************************)
(* The offsets of the mappers are those of whole pages.                    *)
(***************************************************************************)
LEMMA OffsetsWhole ==
  ASSUME NEW b \in 0..255, NEW g \in 0..255
  PROVE  /\ HiRomOffset(<<b, g>>) \in Nat /\ WholePages(HiRomOffset(<<b, g>>))
         /\ g >= 128 => LoRomOffset(<<b, g>>) \in Nat
<1>1. PICK r \in 0..63 : r = b % 64
  OBVIOUS
<1>2. HiRomOffset(<<b, g>>) = 256 * (r * 256 + g) /\ r * 256 + g \in Nat
  BY <1>1 DEF HiRomOffset
<1>3. PICK l \in 0..127 : l = b % 128
  OBVIOUS
<1>4. g >= 128 => LoRomOffset(<<b, g>>) \in Nat
  BY <1>3 DEF LoRomOffset
<1> QED
  BY <1>2, <1>4 DEF WholePages

(***************************************************************************)
(* What an image of whole pages has above 4 MiB is whole pages.            *)
(***************************************************************************)
LEMMA UpperWhole ==
  ASSUME NEW size \in Nat, size > kExHiRomBase, size % 256 = 0
  PROVE  size - kExHiRomBase \in Nat \ {0} /\ WholePages(size - kExHiRomBase)
<1>1. PICK k \in Int : size = 256 * k
  <2>1. size \div 256 \in Int /\ size = 256 * (size \div 256) + (size % 256)
    OBVIOUS
  <2> QED
    BY <2>1
<1>2. PICK m \in Nat \ {0} : m = k - 16384
  BY <1>1 DEF kExHiRomBase
<1>3. PICK window \in Nat \ {0} : window = size - kExHiRomBase /\ window = 256 * m
  BY <1>1, <1>2 DEF kExHiRomBase
<1>4. WholePages(window)
  BY <1>3 DEF WholePages
<1> QED
  BY <1>3, <1>4, Zenon

(***************************************************************************)
(* Where the mapper shows ROM, the map by address names the byte the page- *)
(* table entry leads to: the entry adds the offset in the page after the   *)
(* wrap, the map before it.                                                *)
(***************************************************************************)
LEMMA RomMapped ==
  ASSUME NEW b \in Byte, NEW g \in Byte, NEW o \in Byte, NEW inBank, inBank = InBank(g, o),
         Loaded(cart), ShowsRom(cart, <<b, g>>)
  PROVE  /\ CartMap(b, g, inBank) = ToRom(RomBase(cart, <<b, g>>) + o, b)
         /\ RomBase(cart, <<b, g>>) \in Nat
<1> USE DEF Byte, InBank
<1> DEFINE p == <<b, g>>
<1>0. p[1] = b /\ p[2] = g
  OBVIOUS
<1>1. CASE cart.kind = "LoROM"
  <2>1. g >= 128
    BY <1>0, <1>1 DEF ShowsRom
  <2>2. CartMap(b, g, inBank) = ToRom((b % 128) * 32768 + inBank - 32768, b)
    BY <1>1, <2>1 DEF CartMap, LoRomMap
  <2>3. RomBase(cart, p) = LoRomOffset(p)
    BY <1>1 DEF RomBase
  <2>4. LoRomOffset(p) + o = (b % 128) * 32768 + inBank - 32768
    BY <1>0 DEF LoRomOffset
  <2>5. LoRomOffset(p) \in Nat
    BY <2>1, OffsetsWhole
  <2> HIDE DEF p
  <2> QED
    BY <2>2, <2>3, <2>4, <2>5 DEF p
<1>2. CASE cart.kind \in {"HiROM", "ExHiROM"}
  <2> DEFINE offset == (b % 64) * 65536 + inBank
  <2>1. (b \in LowBanks /\ g >= 128) \/ b \in (64..125) \cup (192..255)
    BY <1>0, <1>2 DEF ShowsRom
  <2>2. ~(b % 128 \in 32..63 /\ g \in 96..127) /\ ~(g < 128 /\ b % 128 < 64)
    BY <2>1 DEF LowBanks
  <2>3. CartMap(b, g, inBank) = HiRomMap(b, g, inBank)
    BY <1>2 DEF CartMap
  <2>4. HiRomOffset(p) + o = offset /\ HiRomOffset(p) \in Nat /\ WholePages(HiRomOffset(p))
    <3>1. HiRomOffset(p) + o = offset
      BY <1>0 DEF HiRomOffset
    <3> HIDE DEF offset
    <3> QED
      BY <3>1, OffsetsWhole
  <2>5. CASE cart.kind = "ExHiROM" /\ b < 128
    <3> DEFINE window == cart.size - kExHiRomBase
    <3>1. window \in Nat \ {0} /\ WholePages(window)
      BY <2>5, UpperWhole DEF Loaded
    <3>2. RomBase(cart, p) = kExHiRomBase + (HiRomOffset(p) % window)
      BY <1>0, <2>5 DEF RomBase, ExHiRomOffset
    <3>3. CartMap(b, g, inBank) = ToRom(kExHiRomBase + (offset % window), b)
      BY <2>2, <2>3, <2>5 DEF HiRomMap, kExHiRomBase
    <3> HIDE DEF window, p, offset
    <3>4. (HiRomOffset(p) % window) + o = offset % window /\ HiRomOffset(p) % window \in Nat
      BY <2>4, <3>1, PageWraps
    <3>5. \A x \in Nat : (kExHiRomBase + x) + o = kExHiRomBase + (x + o) /\ kExHiRomBase + x \in Nat
      BY DEF kExHiRomBase
    <3> QED
      BY <3>2, <3>3, <3>4, <3>5 DEF p
  <2>6. CASE ~(cart.kind = "ExHiROM" /\ b < 128)
    <3>1. RomBase(cart, p) = HiRomOffset(p)
      BY <1>0, <1>2, <2>6 DEF RomBase
    <3>2. CartMap(b, g, inBank) = ToRom(offset, b)
      BY <2>2, <2>3, <2>6 DEF HiRomMap
    <3> QED
      BY <2>4, <3>1, <3>2
  <2> QED
    BY <2>5, <2>6
<1> QED
  BY <1>1, <1>2 DEF Loaded, MapperKinds

(***************************************************************************)
(* The same of SRAM, and the page is inside it.                            *)
(***************************************************************************)
LEMMA SramMapped ==
  ASSUME NEW b \in Byte, NEW g \in Byte, NEW o \in Byte, NEW inBank, inBank = InBank(g, o),
         <<b, g>> \in Pages, Loaded(cart),
         ShowsSram(cart, <<b, g>>), ~ShowsRom(cart, <<b, g>>)
  PROVE  /\ CartMap(b, g, inBank) = Leads(sram[SramBase(cart, <<b, g>>) + o], 8)
         /\ SramBase(cart, <<b, g>>) + o = (SramOffset(cart.kind, <<b, g>>) + o) % cart.sram
         /\ SramBase(cart, <<b, g>>) \in Nat /\ SramBase(cart, <<b, g>>) + o < cart.sram
<1> USE DEF Byte, InBank
<1> DEFINE p == <<b, g>>
           from == SramOffset(cart.kind, p)
<1>0. p[1] = b /\ p[2] = g
  OBVIOUS
<1>1. cart.sram # 0 /\ cart.sram \in Nat \ {0} /\ WholePages(cart.sram)
  BY SramWhole DEF Loaded, ShowsSram
<1>2. CartMap(b, g, inBank) = ToSram(from + o) /\ from \in Nat /\ WholePages(from)
  <2>1. CASE cart.kind = "LoROM"
    <3>1. b \in (112..125) \cup (240..255) /\ g \in 0..127
      BY <1>0, <2>1, SramPagesAre DEF ShowsSram
    <3>2. from = 256 * g
      BY <1>0, <2>1 DEF SramOffset
    <3>3. CartMap(b, g, inBank) = ToSram(inBank)
      BY <2>1, <3>1 DEF CartMap, LoRomMap
    <3> QED
      BY <3>2, <3>3 DEF WholePages
  <2>2. CASE cart.kind \in {"HiROM", "ExHiROM"}
    <3>1. b \in (32..63) \cup (160..191) /\ g \in 96..127
      BY <1>0, <2>2, SramPagesAre DEF ShowsSram
    <3>2. from = 256 * (g - 96) /\ g - 96 \in Nat
      BY <1>0, <2>2, <3>1 DEF SramOffset
    <3>3. b % 128 \in 32..63
      BY <3>1
    <3>4. CartMap(b, g, inBank) = ToSram(inBank - 24576)
      BY <2>2, <3>1, <3>3 DEF CartMap, HiRomMap
    <3>5. from + o = inBank - 24576
      BY <3>2
    <3>6. from \in Nat
      BY <3>2
    <3> HIDE DEF from
    <3> QED
      BY <3>2, <3>4, <3>5, <3>6 DEF WholePages
  <2> QED
    BY <2>1, <2>2 DEF Loaded, MapperKinds
<1>3. SramBase(cart, p) = from % cart.sram
  BY DEF SramBase
<1> HIDE DEF from, p
<1>4. /\ (from % cart.sram) + o = (from + o) % cart.sram /\ (from % cart.sram) + 256 <= cart.sram
      /\ from % cart.sram \in Nat
  BY <1>1, <1>2, PageWraps
<1>5. ToSram(from + o) = Leads(sram[(from + o) % cart.sram], 8)
  BY <1>1 DEF ToSram
<1>6. SramBase(cart, p) + o < cart.sram
  BY <1>1, <1>3, <1>4
<1> QED
  BY <1>2, <1>3, <1>4, <1>5, <1>6 DEF from, p

(***************************************************************************)
(* Where the mapper shows neither, the map by address has nothing.         *)
(***************************************************************************)
LEMMA NothingMapped ==
  ASSUME NEW b \in Byte, NEW g \in Byte, NEW o \in Byte, NEW inBank, inBank = InBank(g, o),
         <<b, g>> \in Pages, InSlot(cart),
         ~ShowsSram(cart, <<b, g>>), ~ShowsRom(cart, <<b, g>>), ~OfConsole(<<b, g>>)
  PROVE  CartMap(b, g, inBank) = ToNothing
<1> USE DEF Byte, InBank
<1> DEFINE p == <<b, g>>
<1>0. p[1] = b /\ p[2] = g /\ b \notin {126, 127}
  BY DEF OfConsole
<1>1. CASE cart = NoCart
  BY <1>1 DEF CartMap, NoCart
<1>2. CASE Loaded(cart) /\ cart.kind = "LoROM"
  <2>1. g < 128
    BY <1>0, <1>2 DEF ShowsRom
  <2>2. b \in (112..125) \cup (240..255) => cart.sram = 0
    BY <1>0, <1>2, <2>1, SramPagesAre DEF ShowsSram, Loaded
  <2> QED
    BY <1>2, <2>1, <2>2 DEF CartMap, LoRomMap, ToSram
<1>3. CASE Loaded(cart) /\ cart.kind \in {"HiROM", "ExHiROM"}
  <2>1. ~(b \in LowBanks /\ g >= 128) /\ b \notin (64..125) \cup (192..255)
    BY <1>0, <1>3 DEF ShowsRom
  <2>2. g < 128 /\ b % 128 < 64
    BY <1>0, <2>1 DEF LowBanks
  <2>3. b % 128 \in 32..63 => b \in (32..63) \cup (160..191)
    BY <2>2
  <2>4. b % 128 \in 32..63 /\ g \in 96..127 => cart.sram = 0
    BY <1>0, <1>3, <2>3, SramPagesAre DEF ShowsSram, Loaded
  <2>5. HiRomMap(b, g, inBank) = ToNothing
    BY <2>2, <2>4 DEF HiRomMap, ToSram
  <2> QED
    BY <1>3, <2>5 DEF CartMap
<1> QED
  BY <1>1, <1>2, <1>3 DEF InSlot, Loaded, MapperKinds

-----------------------------------------------------------------------------
(***************************************************************************)
(* The bytes of WRAM that its pages show are in sight.                     *)
(***************************************************************************)
LEMMA WramInSight ==
  ASSUME NEW p \in Pages, NEW o \in Offsets, OfConsole(p), ConsolePage(p).device = WramId
  PROVE  ConsolePage(p).base + o \in WramCells
<1> DEFINE b == p[1]
           g == p[2]
           big == [q \in In({126, 127}, 0..255) |-> WramEntry((q[1] - 126) * 65536 + q[2] * 256)]
           small == [q \in In(LowBanks, 0..31) |-> WramEntry(q[2] * 256)]
<1>1. b \in 0..255 /\ g \in 0..255
  BY PageIs
<1>2. MapWram(NoPages) = MapPages(MapPages(NoPages, big), small)
  BY DEF MapWram
<1>3. /\ p \in DOMAIN big <=> b \in {126, 127} /\ g \in 0..255
      /\ p \in DOMAIN small <=> b \in LowBanks /\ g \in 0..31
  BY PageIs
<1>4. /\ p \in DOMAIN big => big[p] = WramEntry((b - 126) * 65536 + g * 256)
      /\ p \in DOMAIN small => small[p] = WramEntry(g * 256)
  OBVIOUS
<1> HIDE DEF big, small
<1>5. MapWram(NoPages)[p] =
        IF p \in DOMAIN small THEN small[p] ELSE IF p \in DOMAIN big THEN big[p] ELSE NoPages[p]
  BY <1>2, PagesMapped
<1>6. MapWram(NoPages)[p] = ConsolePage(p)
  <2>1. CASE b \in {126, 127}
    <3>1. b \notin LowBanks /\ ConsolePage(p) = WramEntry((b - 126) * 65536 + g * 256)
      BY <2>1 DEF LowBanks, ConsolePage
    <3> QED
      BY <1>1, <1>3, <1>4, <1>5, <2>1, <3>1
  <2>2. CASE b \notin {126, 127} /\ g < 32
    <3>1. b \in LowBanks /\ ConsolePage(p) = WramEntry(g * 256)
      BY <2>2 DEF OfConsole, ConsolePage
    <3> QED
      BY <1>1, <1>3, <1>4, <1>5, <2>2, <3>1
  <2>3. ~(b \notin {126, 127} /\ ~(g < 32))
    BY <1>1 DEF ConsolePage, MmioEntry, WramId, PpuId, DmaId, CpuMmioId
  <2> QED
    BY <2>1, <2>2, <2>3
<1> QED
  BY <1>6 DEF WramCells

(***************************************************************************)
(* So are those of SRAM.                                                   *)
(***************************************************************************)
LEMMA SramInSight ==
  ASSUME NEW p \in Pages, NEW o \in Offsets, Loaded(cart), ShowsSram(cart, p)
  PROVE  (SramOffset(cart.kind, p) + o) % cart.sram \in SramCells
<1>1. PICK rom \in Images : rom.ram[cart.kind] \in 1..kMaxSramSizeByte /\ cart.sram = RamBytes[rom.ram[cart.kind]]
  BY DEF Loaded, HasSram, ShowsSram
<1>2. cart.kind \in MapperKinds /\ p \in SramPages(cart.kind)
  BY DEF ShowsSram
<1>3. (SramOffset(cart.kind, p) + o) % RamBytes[rom.ram[cart.kind]] \in SramCells
  BY <1>1, <1>2, CellsAssumption, Zenon
<1> QED
  BY <1>1, <1>3, Zenon

(***************************************************************************)
(* In a state of the invariant an address leads where the map says.        *)
(***************************************************************************)
Shown(a) ==
  /\ BusRead(a) = MemoryMap(a).byte
  /\ Plan(table, a).cycles = MemoryMap(a).cycles
  /\ DebuggerRead(a) = IF MemoryMap(a).byte[1] = "openBus" THEN <<"refused", 0>> ELSE MemoryMap(a).byte

(***************************************************************************)
(* An address leads where the map says if it is read like that.            *)
(***************************************************************************)
LEMMA ShownIs ==
  ASSUME NEW a, NEW byte, NEW cycles, MemoryMap(a) = Leads(byte, cycles),
         BusRead(a) = byte, Plan(table, a).cycles = cycles,
         DebuggerRead(a) = IF byte[1] = "openBus" THEN <<"refused", 0>> ELSE byte
  PROVE  Shown(a)
<1>1. MemoryMap(a).byte = byte /\ MemoryMap(a).cycles = cycles
  BY DEF Leads
<1> QED
  BY <1>1, Zenon DEF Shown

(***************************************************************************)
(* The console's pages: WRAM by pointer or by device, and registers.       *)
(***************************************************************************)
LEMMA ConsoleShown ==
  ASSUME SlotInv, NEW b \in Byte, NEW g \in Byte, NEW o \in Byte, o \in Offsets, <<b, g>> \in Pages,
         OfConsole(<<b, g>>)
  PROVE  Shown(<<b, g, o>>)
<1> DEFINE a == <<b, g, o>>
           p == <<b, g>>
           e == ConsolePage(p)
<1>0. a[3] = o
  OBVIOUS
<1>1. e = EntryAt(table, a)
  <2>1. table[p] = PageOf(cart, Cycles(fast), p)
    BY DEF SlotInv, Placed, Contents, TableOf
  <2> QED
    BY <2>1 DEF EntryAt, PageOf
<1>2. e.device \in live /\ e.device # cart.id
  <2>1. e.device \in {2, 3, 4, 7}
    BY ConsoleApart DEF WramId, CpuMmioId, DmaId, PpuId
  <2> QED
    BY <2>1 DEF SlotInv, Placed, Contents, InSlot, Loaded, NoCart
<1>3. MemoryMap(a) = Leads(IF e.device = WramId THEN wram[e.base + o] ELSE <<"register", e.base + o>>, e.speed)
  <2>1. e = ConsolePage(<<b, g>>)
    OBVIOUS
  <2> HIDE DEF e
  <2> QED
    BY <1>0, <2>1, ConsoleMapped
<1>4. CASE e.device = WramId
  <2>1. e.kind = "memory" /\ e.fastRead
    BY <1>4 DEF ConsolePage, WramEntry, MmioEntry, WramId, PpuId, DmaId, CpuMmioId
  <2>2. e.base + o \in WramCells
    BY <1>4, WramInSight
  <2>3. wram[e.base + o][1] # "openBus"
    BY <2>2 DEF SlotInv, Placed, Contents, Stored
  <2> HIDE DEF e, a, p
  <2>4. BusRead(a) = DirectByte(e.device, e.sram, e.base + o) /\ Plan(table, a).cycles = e.speed
        /\ DebuggerRead(a) = RegisterByte(e.device, e.sram, e.base + o)
    BY <1>0, <1>1, <1>2, <2>1, StorageReads
  <2>5. DirectByte(e.device, e.sram, e.base + o) = wram[e.base + o]
    BY <1>2, <1>4 DEF DirectByte
  <2>6. RegisterByte(e.device, e.sram, e.base + o) = wram[e.base + o]
    BY <1>2, <1>4 DEF RegisterByte
  <2>7. MemoryMap(a) = Leads(wram[e.base + o], e.speed)
    BY <1>3, <1>4
  <2>8. Shown(a)
    BY <2>3, <2>4, <2>5, <2>6, <2>7, ShownIs
  <2> QED
    BY <2>8 DEF a
<1>5. CASE e.device # WramId
  <2>1. e.kind = "sameClockMmio"
    BY <1>5 DEF ConsolePage, WramEntry, MmioEntry
  <2> HIDE DEF e, a, p
  <2>4. BusRead(a) = RegisterByte(e.device, e.sram, e.base + o) /\ Plan(table, a).cycles = e.speed
        /\ DebuggerRead(a) = RegisterByte(e.device, e.sram, e.base + o)
    BY <1>0, <1>1, <1>2, <2>1, RegisterReads
  <2>6. RegisterByte(e.device, e.sram, e.base + o) = <<"register", e.base + o>>
    BY <1>2, <1>5 DEF RegisterByte
  <2>7. MemoryMap(a) = Leads(<<"register", e.base + o>>, e.speed)
    BY <1>3, <1>5
  <2>3. <<"register", e.base + o>>[1] # "openBus"
    OBVIOUS
  <2>8. Shown(a)
    BY <2>3, <2>4, <2>6, <2>7, ShownIs
  <2> QED
    BY <2>8 DEF a
<1> QED
  BY <1>4, <1>5

(***************************************************************************)
(* A page of ROM, by the pointer when the image has all of it, and else by *)
(* the device, which wraps round the image.                                *)
(***************************************************************************)
LEMMA RomShown ==
  ASSUME SlotInv, NEW b \in Byte, NEW g \in Byte, NEW o \in Byte, o \in Offsets, <<b, g>> \in Pages,
         ~OfConsole(<<b, g>>), ShowsRom(cart, <<b, g>>)
  PROVE  Shown(<<b, g, o>>)
<1> DEFINE a == <<b, g, o>>
           p == <<b, g>>
           at == RomBase(cart, p)
           speed == SpeedOf(p, Cycles(fast))
           e == RomEntry(cart, at, speed)
<1>0. a[3] = o /\ p[1] = b
  OBVIOUS
<1>1. Loaded(cart)
  BY DEF SlotInv, Placed, Contents, InSlot, ShowsRom, NoCart
<1>2. e = EntryAt(table, a)
  <2>1. table[p] = PageOf(cart, Cycles(fast), p)
    BY DEF SlotInv, Placed, Contents, TableOf
  <2> QED
    BY <2>1 DEF EntryAt, PageOf, CartPage
<1>3. at \in Nat
  <2>1. PICK inBank : inBank = InBank(g, o)
    OBVIOUS
  <2> QED
    BY <1>0, <1>1, <2>1, RomMapped
<1>4. MemoryMap(a) = Leads(<<cart.image, (at + o) % cart.size>>, speed)
  <2>1. MemoryMap(a) = ToRom(at + o, b)
    <3>1. PICK inBank : inBank = InBank(g, o)
      OBVIOUS
    <3>2. MemoryMap(a) = CartMap(b, g, inBank)
      BY <3>1, CartMapped
    <3>3. CartMap(b, g, inBank) = ToRom(at + o, b)
      BY <1>0, <1>1, <3>1, RomMapped
    <3> QED
      BY <3>2, <3>3
  <2>2. speed = IF b >= 128 /\ fast THEN 6 ELSE 8
    BY <1>0 DEF SpeedOf, Cycles
  <2> HIDE DEF speed, at
  <2> QED
    BY <2>1, <2>2 DEF ToRom
<1>5. /\ e.kind = "memory" /\ e.device = cart.id /\ e.sram = FALSE /\ e.base = at /\ e.speed = speed
      /\ e.fastRead <=> at + 256 <= cart.size
  BY DEF RomEntry
<1>6. e.device \in live
  BY <1>5 DEF SlotInv, Placed, Contents
<1> HIDE DEF e, at, speed, p, a
<1>7. /\ e.fastRead => BusRead(a) = DirectByte(cart.id, FALSE, at + o)
      /\ ~e.fastRead => BusRead(a) = RegisterByte(cart.id, FALSE, at + o)
      /\ DebuggerRead(a) = RegisterByte(cart.id, FALSE, at + o) /\ Plan(table, a).cycles = speed
  BY <1>0, <1>2, <1>5, <1>6, StorageReads
<1>8. RegisterByte(cart.id, FALSE, at + o) = <<cart.image, (at + o) % cart.size>>
  BY <1>1 DEF RegisterByte, Loaded, WramId
<1>9. DirectByte(cart.id, FALSE, at + o) = <<cart.image, at + o>>
  BY <1>1 DEF DirectByte, Loaded, WramId
<1>10. e.fastRead => (at + o) % cart.size = at + o
  <2>1. cart.size \in Nat \ {0}
    BY <1>1 DEF Loaded
  <2>2. ASSUME e.fastRead
        PROVE  at + o \in 0..(cart.size - 1)
    BY <1>3, <1>5, <2>1, <2>2 DEF Byte
  <2> QED
    BY <2>1, <2>2, SmallRemainder
<1>11. <<cart.image, (at + o) % cart.size>>[1] # "openBus"
  BY <1>1 DEF Loaded
<1>12. BusRead(a) = <<cart.image, (at + o) % cart.size>>
  BY <1>7, <1>8, <1>9, <1>10
<1>13. Shown(a)
  BY <1>4, <1>7, <1>8, <1>11, <1>12, ShownIs
<1> QED
  BY <1>13 DEF a

(***************************************************************************)
(* A page of SRAM: the pointer and the device find the same byte.          *)
(***************************************************************************)
LEMMA SramShown ==
  ASSUME SlotInv, NEW b \in Byte, NEW g \in Byte, NEW o \in Byte, o \in Offsets, <<b, g>> \in Pages,
         ~OfConsole(<<b, g>>), ~ShowsRom(cart, <<b, g>>), ShowsSram(cart, <<b, g>>)
  PROVE  Shown(<<b, g, o>>)
<1> DEFINE a == <<b, g, o>>
           p == <<b, g>>
           at == SramBase(cart, p)
           e == SramEntry(cart, at)
<1>0. a[3] = o /\ p[1] = b
  OBVIOUS
<1>1. Loaded(cart)
  BY DEF SlotInv, Placed, Contents, InSlot, ShowsSram, NoCart, MapperKinds
<1>2. e = EntryAt(table, a)
  <2>1. table[p] = PageOf(cart, Cycles(fast), p)
    BY DEF SlotInv, Placed, Contents, TableOf
  <2> QED
    BY <2>1 DEF EntryAt, PageOf, CartPage
<1>3. /\ at \in Nat /\ at + o < cart.sram /\ at + o = (SramOffset(cart.kind, p) + o) % cart.sram
      /\ MemoryMap(a) = Leads(sram[at + o], 8)
  <2>1. PICK inBank : inBank = InBank(g, o)
    OBVIOUS
  <2>2. MemoryMap(a) = CartMap(b, g, inBank)
    BY <2>1, CartMapped
  <2>3. /\ at \in Nat /\ at + o < cart.sram /\ at + o = (SramOffset(cart.kind, p) + o) % cart.sram
        /\ CartMap(b, g, inBank) = Leads(sram[at + o], 8)
    BY <1>0, <1>1, <2>1, SramMapped
  <2> QED
    BY <2>2, <2>3
<1>5. /\ e.kind = "memory" /\ e.device = cart.id /\ e.sram = TRUE /\ e.base = at /\ e.speed = 8
      /\ e.fastRead
  BY DEF SramEntry
<1>6. e.device \in live
  BY <1>5 DEF SlotInv, Placed, Contents
<1>7. at + o \in DOMAIN sram
  <2>1. at + o \in SramCells
    BY <1>1, <1>3, SramInSight
  <2> QED
    BY <1>3, <2>1 DEF SlotInv, Placed, Contents, CellsOf
<1>8. (at + o) % cart.sram = at + o
  <2>1. cart.sram \in Nat \ {0}
    BY <1>1, SramWhole DEF Loaded, ShowsSram
  <2>2. at + o \in 0..(cart.sram - 1)
    BY <1>3, <2>1 DEF Byte
  <2> QED
    BY <2>1, <2>2, SmallRemainder
<1> HIDE DEF e, at, p, a
<1>9. BusRead(a) = DirectByte(cart.id, TRUE, at + o)
      /\ DebuggerRead(a) = RegisterByte(cart.id, TRUE, at + o) /\ Plan(table, a).cycles = 8
  BY <1>0, <1>2, <1>5, <1>6, StorageReads
<1>10. RegisterByte(cart.id, TRUE, at + o) = sram[at + o]
  BY <1>1, <1>8 DEF RegisterByte, Loaded, WramId
<1>11. DirectByte(cart.id, TRUE, at + o) = sram[at + o]
  BY <1>1 DEF DirectByte, Loaded, WramId
<1>12. sram[at + o][1] # "openBus"
  BY <1>7 DEF SlotInv, Placed, Contents, Stored
<1>13. Shown(a)
  BY <1>3, <1>9, <1>10, <1>11, <1>12, ShownIs
<1> QED
  BY <1>13 DEF a

(***************************************************************************)
(* A page of nothing.                                                      *)
(***************************************************************************)
LEMMA NothingShown ==
  ASSUME SlotInv, NEW b \in Byte, NEW g \in Byte, NEW o \in Byte, o \in Offsets, <<b, g>> \in Pages,
         ~OfConsole(<<b, g>>), ~ShowsRom(cart, <<b, g>>), ~ShowsSram(cart, <<b, g>>)
  PROVE  Shown(<<b, g, o>>)
<1> DEFINE a == <<b, g, o>>
           p == <<b, g>>
<1>1. EntryAt(table, a) = Unmapped
  <2>1. table[p] = PageOf(cart, Cycles(fast), p)
    BY DEF SlotInv, Placed, Contents, TableOf
  <2> QED
    BY <2>1 DEF EntryAt, PageOf, CartPage
<1>2. MemoryMap(a) = Leads(<<"openBus", 0>>, 8)
  <2>1. PICK inBank : inBank = InBank(g, o)
    OBVIOUS
  <2>2. MemoryMap(a) = CartMap(b, g, inBank)
    BY <2>1, CartMapped
  <2>3. CartMap(b, g, inBank) = ToNothing
    BY <2>1, NothingMapped DEF SlotInv, Placed, Contents
  <2> QED
    BY <2>2, <2>3 DEF ToNothing
<1> HIDE DEF a, p
<1>3. EntryAt(table, a).kind = "unmapped"
  BY <1>1 DEF Unmapped
<1>4. BusRead(a) = <<"openBus", 0>> /\ DebuggerRead(a) = <<"refused", 0>> /\ Plan(table, a).cycles = 8
  BY <1>3, NothingReads
<1>5. <<"openBus", 0>>[1] = "openBus"
  OBVIOUS
<1>6. Shown(a)
  BY <1>2, <1>4, <1>5, ShownIs
<1> QED
  BY <1>6 DEF a

(***************************************************************************)
(* In every state of the invariant the bus shows the map.                  *)
(***************************************************************************)
LEMMA SlotShown == SlotInv => BusShowsMap
<1> SUFFICES ASSUME SlotInv, NEW a \in Addresses
             PROVE  Shown(a)
  BY Zenon DEF BusShowsMap, Shown
<1>1. PICK p \in Pages, o \in Offsets : a = <<p[1], p[2], o>>
  BY DEF Addresses
<1>2. p[1] \in Byte /\ p[2] \in Byte /\ <<p[1], p[2]>> \in Pages /\ o \in Byte
  BY PageIs, PagesAssumption DEF Byte
<1> QED
  BY <1>1, <1>2, ConsoleShown, RomShown, SramShown, NothingShown

-----------------------------------------------------------------------------
(***************************************************************************)
(* An ExHiROM image is a number of whole pages. The code does not look: of *)
(* an image that ends inside a page, the last mirrored page of the lower   *)
(* banks would go on at the start of the image.                            *)
(***************************************************************************)
WholeMirror == \A rom \in Images : rom.size > kMapModeOffset["ExHiROM"] => rom.size % 256 = 0

(***************************************************************************)
(* What a loader takes can be in the slot: its mapper, its size, with      *)
(* ExHiROM beyond 4 MiB, and its SRAM are as the mapper needs them.        *)
(***************************************************************************)
LEMMA TakenIsLoaded ==
  ASSUME WholeMirror, NEW image \in Images, NEW rom, rom = StripSmcCopierHeader(image),
         Build(rom).outcome = "ok", NEW id \in Nat, id >= 8
  PROVE  Loaded(CartOf(rom, id))
<1> DEFINE kind == DetectCartProfile(rom).mapper
           c == CartOf(rom, id)
<1>1. rom \in Payload
  BY StripsToPayload
<1>2. kind # "None" /\ LoadAs(rom, kind) = "ok"
  BY DEF Build
<1>3. kind = PickMapper(rom) /\ kind \in MapperKinds
  BY <1>1, <1>2, PickedHasHeader DEF DetectCartProfile
<1>4. CheckHardRomShape(rom, kind) = "ok"
  BY <1>2 DEF LoadAs
<1>5. rom.size # 0 /\ ~(rom.size <= kMapModeOffset[kind])
  BY <1>4 DEF CheckHardRomShape
<1> HIDE DEF kind
<1>6. rom.size \in Nat \ {0}
  BY <1>1, <1>5 DEF Payload
<1>7. c.kind = kind /\ c.size = rom.size /\ c.id = id /\ c.image = rom.name /\ c.sram = SramSize(rom, kind)
  BY DEF CartOf, kind
<1>8. image \in Payload /\ rom.name = image.name /\ image.name # "openBus" /\ rom.ram = image.ram
  BY ImageAssumption DEF StripSmcCopierHeader, Payload
<1>9. kind = "ExHiROM" => rom.size > kExHiRomBase /\ rom.size % 256 = 0
  <2>1. SUFFICES ASSUME kind = "ExHiROM"
                 PROVE  rom.size > kExHiRomBase /\ rom.size % 256 = 0
    OBVIOUS
  <2>2. rom.size > kMapModeOffset["ExHiROM"] /\ rom.size > kExHiRomBase
    BY <1>5, <1>6, <2>1 DEF kMapModeOffset, kExHiRomBase
  <2>3. rom.size % 256 = 0
    <3>1. CASE ~HasSmcCopierHeader(image.size)
      <4>1. rom = image
        BY <3>1 DEF StripSmcCopierHeader
      <4> QED
        BY <2>2, <4>1 DEF WholeMirror
    <3>2. CASE HasSmcCopierHeader(image.size)
      <4>1. PICK size \in Nat : size = image.size
        BY <1>8 DEF Payload
      <4>2. rom.size = size - 512
        BY <1>8, <3>2, <4>1 DEF StripSmcCopierHeader, kSmcCopierHeaderSize, Payload
      <4>3. size > kMapModeOffset["ExHiROM"]
        BY <1>6, <2>2, <4>2 DEF kMapModeOffset
      <4>4. size % 256 = 0
        BY <4>1, <4>3 DEF WholeMirror
      <4> QED
        BY <4>2, <4>4
    <3> QED
      BY <3>1, <3>2
  <2> QED
    BY <2>2, <2>3
<1>10. HasSram(c)
  <2>1. SramSize(rom, kind) = 0 \/ (rom.ram[kind] \in 1..kMaxSramSizeByte /\ SramSize(rom, kind) = RamBytes[rom.ram[kind]])
    BY DEF SramSize
  <2> QED
    BY <1>7, <1>8, <2>1 DEF HasSram
<1> QED
  BY <1>3, <1>6, <1>7, <1>8, <1>9, <1>10 DEF Loaded

(***************************************************************************)
(* The SRAM of a new cartridge, filled.                                    *)
(***************************************************************************)
LEMMA FreshIsStored ==
  ASSUME NEW size
  PROVE  DOMAIN FreshSram(size) = CellsOf(size) /\ Stored(FreshSram(size))
BY DEF FreshSram, Stored, Fill

(***************************************************************************)
(* The SRAM that a file fills, as far as it goes.                          *)
(***************************************************************************)
LEMMA LoadIsStored ==
  ASSUME NEW size, NEW bytes, Stored(bytes)
  PROVE  DOMAIN LoadSram(size, bytes) = CellsOf(size) /\ Stored(LoadSram(size, bytes))
<1>1. ASSUME NEW c \in CellsOf(size)
      PROVE  LoadSram(size, bytes)[c][1] # "openBus"
  BY DEF LoadSram, Stored, Fill
<1> QED
  BY <1>1 DEF LoadSram, Stored

(***************************************************************************)
(* One byte stored.                                                        *)
(***************************************************************************)
LEMMA StoreIsStored ==
  ASSUME NEW bytes, Stored(bytes), NEW at, NEW value, value[1] # "openBus"
  PROVE  DOMAIN [bytes EXCEPT ![at] = value] = DOMAIN bytes /\ Stored([bytes EXCEPT ![at] = value])
BY DEF Stored

(***************************************************************************)
(* The address space of a process that has just begun.                     *)
(***************************************************************************)
SlotIsEmpty ==
  /\ fast = FALSE /\ cart = NoCart /\ nextId = 8 /\ live = 0..7 /\ table = ConsoleMap
  /\ sram = FreshSram(0) /\ wram = [c \in WramCells |-> <<"fill", 0>>]

(***************************************************************************)
(* A process begins with nothing in the slot.                              *)
(***************************************************************************)
LEMMA EmptySlot == SlotIsEmpty => Placed /\ Contents
<1> SUFFICES ASSUME SlotIsEmpty
             PROVE  Placed /\ Contents
  OBVIOUS
<1> USE DEF SlotIsEmpty
<1>1. Cycles(fast) = 8
  BY DEF Cycles
<1>2. table = TableOf(cart, Cycles(fast))
  BY <1>1, EmptySlotTable
<1>3. ((0..7) \ {1}) \cup {1} = 0..7
  OBVIOUS
<1>4. Placed
  <2>1. cart.id = 1 /\ InSlot(cart)
    BY DEF InSlot, NoCart
  <2>2. nextId > cart.id
    BY <2>1
  <2>3. live = ((0..7) \ {1}) \cup {cart.id}
    BY <1>3, <2>1
  <2> QED
    BY <1>2, <2>1, <2>2, <2>3 DEF Placed
<1>5. cart.sram = 0
  BY DEF NoCart
<1>6. Contents
  BY <1>5, FreshIsStored DEF Contents, Stored
<1> QED
  BY <1>4, <1>6

(***************************************************************************)
(* MEMSEL, and a reset, leave the table of the new speed.                  *)
(***************************************************************************)
LEMMA RetimedPlaced ==
  ASSUME Placed, UNCHANGED <<live, nextId, cart>>, fast' \in BOOLEAN,
         table' = IF fast' = fast THEN table ELSE OnMemSelChanged(table, cart, fast')
  PROVE  Placed'
<1>1. table' = TableOf(cart, Cycles(fast'))
  BY RetimedTable DEF Placed
<1> QED
  BY <1>1 DEF Placed

(***************************************************************************)
(* A file written.                                                         *)
(***************************************************************************)
LEMMA FilesStored ==
  ASSUME SaveInv, StoredFiles, NEW kind \in {"srm", "tmp"}, NEW file, Stored(file.bytes),
         disk' = [disk EXCEPT ![kind][app.save] = file]
  PROVE  StoredFiles'
<1>1. ASSUME NEW k \in {"srm", "tmp"}, NEW n \in SaveNames
      PROVE  disk'[k][n] = disk[k][n] \/ disk'[k][n] = file
  BY <1>1 DEF SaveInv, Types, Whole
<1> QED
  BY <1>1 DEF StoredFiles

(***************************************************************************)
(* Steps that only the files know of.                                      *)
(***************************************************************************)
LEMMA SlotUntouched ==
  ASSUME SlotInv, UNCHANGED <<table, live, nextId, cart, sram, fast, wram>>, StoredFiles'
  PROVE  SlotInv'
BY DEF SlotInv, Placed, Contents

(***************************************************************************)
(* The steps of a running machine keep the invariant.                      *)
(***************************************************************************)
LEMMA RunningKeepsSlot ==
  ASSUME SlotInv, \/ \E a \in left.targets : Write(a)
                  \/ \E on \in BOOLEAN : MemSel(on)
                  \/ ResetMachine \/ ClearSram
  PROVE  SlotInv'
<1>0. Placed /\ Contents /\ StoredFiles /\ fast \in BOOLEAN
  BY DEF SlotInv, Placed
<1>1. ASSUME NEW a \in left.targets, Write(a)
      PROVE  SlotInv'
  <2> DEFINE value == <<"new", left.writes>>
  <2>1. UNCHANGED <<table, live, nextId, cart, fast, disk>>
    BY <1>1 DEF Write, WriteStorage
  <2>2. \/ wram' = wram
        \/ \E at : wram' = [wram EXCEPT ![at] = value]
    BY <1>1 DEF Write, WriteStorage
  <2>3. \/ sram' = sram
        \/ \E at : sram' = [sram EXCEPT ![at] = value]
    BY <1>1 DEF Write, WriteStorage
  <2>4. value[1] # "openBus"
    OBVIOUS
  <2> HIDE DEF value
  <2>5. DOMAIN wram' = DOMAIN wram /\ Stored(wram')
    BY <1>0, <2>2, <2>4, StoreIsStored DEF Contents
  <2>6. DOMAIN sram' = DOMAIN sram /\ Stored(sram')
    BY <1>0, <2>3, <2>4, StoreIsStored DEF Contents
  <2> QED
    BY <1>0, <2>1, <2>5, <2>6 DEF SlotInv, Placed, Contents, StoredFiles
<1>2. ASSUME NEW on \in BOOLEAN, MemSel(on)
      PROVE  SlotInv'
  <2>1. /\ UNCHANGED <<live, nextId, cart, sram, wram, disk>> /\ fast' = on
        /\ table' = IF on = fast THEN table ELSE OnMemSelChanged(table, cart, on)
    BY <1>2 DEF MemSel, WriteMemSel, diskAndHistory
  <2>2. table' = IF fast' = fast THEN table ELSE OnMemSelChanged(table, cart, fast')
    BY <2>1
  <2>3. Placed'
    BY <1>0, <2>1, <2>2, RetimedPlaced
  <2> QED
    BY <1>0, <2>1, <2>3 DEF SlotInv, Contents, StoredFiles
<1>3. ASSUME SlotReset, UNCHANGED <<live, nextId, cart>>
      PROVE  Placed'
  <2>1. fast' = FALSE /\ table' = IF fast THEN OnMemSelChanged(table, cart, fast') ELSE table
    BY <1>3, Zenon DEF SlotReset
  <2>2. table' = IF fast' = fast THEN table ELSE OnMemSelChanged(table, cart, fast')
    BY <1>0, <2>1, Zenon
  <2>3. fast' \in BOOLEAN
    BY <2>1
  <2> QED
    BY <1>0, <1>3, <2>2, <2>3, RetimedPlaced
<1>4. CASE ResetMachine
  <2>1. SlotReset /\ UNCHANGED <<live, nextId, cart, sram, wram, disk>>
    BY <1>4 DEF ResetMachine, diskAndHistory
  <2> QED
    BY <1>0, <1>3, <2>1 DEF SlotInv, Contents, StoredFiles
<1>5. CASE ClearSram
  <2>1. SlotReset /\ UNCHANGED <<live, nextId, cart, wram, disk>> /\ sram' = FreshSram(cart.sram)
    BY <1>5 DEF ClearSram
  <2> QED
    BY <1>0, <1>3, <2>1, FreshIsStored DEF SlotInv, Contents, StoredFiles
<1> QED
  BY <1>1, <1>2, <1>4, <1>5

(***************************************************************************)
(* The steps of a flush write what is stored in the SRAM, or less of it.   *)
(***************************************************************************)
LEMMA FileKeepsSlot ==
  ASSUME SaveInv, SlotInv,
         OpenSave \/ WriteSave \/ CloseSave \/ RenameSave \/ RemoveTemporary
  PROVE  SlotInv'
<1>0. StoredFiles /\ Stored(sram)
  BY DEF SlotInv, Contents
<1>1. UNCHANGED <<table, live, nextId, cart, sram, fast, wram>>
  BY DEF OpenSave, WriteSave, CloseSave, RenameSave, RemoveTemporary, Step
<1>2. Stored(<< >>)
  BY DEF Stored
<1>3. FileWritten \in {"srm", "tmp"}
  BY DEF FileWritten
<1>4. ASSUME NEW bytes, Stored(bytes), PutFile(FileOf(bytes))
      PROVE  StoredFiles'
  <2>1. Stored(FileOf(bytes).bytes)
    BY <1>4 DEF FileOf
  <2>2. disk' = [disk EXCEPT ![FileWritten][app.save] = FileOf(bytes)]
    BY <1>4 DEF PutFile
  <2> QED
    BY <1>0, <1>3, <2>1, <2>2, FilesStored
<1>5. disk' = disk => StoredFiles'
  BY <1>0 DEF StoredFiles
<1>6. CASE OpenSave
  <2>1. disk' = disk \/ PutFile(FileOf(<< >>))
    BY <1>6 DEF OpenSave
  <2> QED
    BY <1>1, <1>2, <1>4, <1>5, <2>1, SlotUntouched
<1>7. CASE WriteSave
  <2>1. PICK cut : PutFile(FileOf(Prefix(sram, cut)))
    BY <1>7 DEF WriteSave
  <2>2. Stored(Prefix(sram, cut))
    BY <1>0 DEF Stored, Prefix
  <2> QED
    BY <1>1, <1>4, <2>1, <2>2, SlotUntouched
<1>8. CASE CloseSave
  <2>1. disk' = disk \/ PutFile(FileOf(sram))
    BY <1>8 DEF CloseSave
  <2> QED
    BY <1>0, <1>1, <1>4, <1>5, <2>1, SlotUntouched
<1>9. CASE RenameSave
  <2>1. disk' = disk \/ disk' = [disk EXCEPT !.srm[app.save] = disk.tmp[app.save], !.tmp[app.save] = NoFile]
    BY <1>9 DEF RenameSave
  <2>2. ASSUME disk' = [disk EXCEPT !.srm[app.save] = disk.tmp[app.save], !.tmp[app.save] = NoFile]
        PROVE  StoredFiles'
    <3>1. app.save \in SaveNames
      BY <1>9 DEF RenameSave, Step, SaveInv, Types, Account, App
    <3>2. ASSUME NEW k \in {"srm", "tmp"}, NEW n \in SaveNames
          PROVE  disk'[k][n] \in {disk[k][n], disk["tmp"][app.save], NoFile}
      BY <2>2, <3>2 DEF SaveInv, Types, Whole
    <3>3. Stored(NoFile.bytes)
      BY <1>2 DEF NoFile
    <3> QED
      BY <1>0, <3>1, <3>2, <3>3 DEF StoredFiles
  <2> QED
    BY <1>1, <1>5, <2>1, <2>2, SlotUntouched
<1>10. CASE RemoveTemporary
  <2>1. disk' = [disk EXCEPT !["tmp"][app.save] = NoFile]
    BY <1>10 DEF RemoveTemporary
  <2>2. Stored(NoFile.bytes)
    BY <1>2 DEF NoFile
  <2> QED
    BY <1>0, <1>1, <2>1, <2>2, FilesStored, SlotUntouched
<1> QED
  BY <1>6, <1>7, <1>8, <1>9, <1>10

(***************************************************************************)
(* A load puts the new cartridge's map in place of the old one's.          *)
(***************************************************************************)
LEMMA LoadKeepsSlot ==
  ASSUME WholeMirror, SaveInv, SlotInv, LoadInstalls
  PROVE  SlotInv'
<1>1. PICK image, rom, bytes :
        /\ image \in app.rom
        /\ rom = StripSmcCopierHeader(image) /\ Build(rom).outcome = "ok"
        /\ Install(rom, Build(rom), bytes)
        /\ \/ bytes = FreshSram(CartOf(rom, nextId).sram)
           \/ bytes = LoadSram(CartOf(rom, nextId).sram, disk.srm[rom.save].bytes)
  BY Zenon DEF LoadInstalls
<1> DEFINE new == CartOf(rom, nextId)
<1>2. image \in Images /\ nextId \in Nat /\ nextId >= 8
  <2>1. image \in app.rom
    BY <1>1
  <2> QED
    BY <2>1 DEF SaveInv, Types, App
<1>3. Loaded(new)
  BY <1>1, <1>2, TakenIsLoaded
<1>4. /\ nextId' = nextId + 1 /\ live' = (live \ {cart.id}) \cup {nextId} /\ cart' = new
      /\ fast' = FALSE /\ sram' = bytes /\ wram' = wram
  BY <1>1 DEF Install
<1>5. disk' = disk
  BY DEF LoadInstalls
<1>6. DOMAIN sram' = CellsOf(new.sram) /\ Stored(sram')
  <2>1. rom.save \in SaveNames
    BY <1>1, <1>2, StripKeepsNames
  <2>2. Stored(disk["srm"][rom.save].bytes)
    BY <2>1 DEF SlotInv, StoredFiles
  <2> QED
    BY <1>1, <1>4, <2>2, FreshIsStored, LoadIsStored
<1>7. new.id = nextId /\ cart.id # nextId
  BY <1>2 DEF CartOf, SlotInv, Placed, InSlot, NoCart, Loaded
<1>8. table' = TableOf(new, 8)
  <2> DEFINE swept == UnmapByDeviceId(MapInitial(table, new), cart.id)
  <2>1. table' = IF fast THEN OnMemSelChanged(swept, new, fast') ELSE swept
    BY <1>1, <1>4, Zenon DEF Install
  <2>2. swept = TableOf(new, 8)
    BY <1>3, <1>7, InstalledTable DEF SlotInv, Placed
  <2>3. InSlot(new) /\ fast' \in BOOLEAN
    BY <1>3, <1>4 DEF InSlot
  <2>4. Cycles(fast') = 8
    BY <1>4, Zenon DEF Cycles
  <2> HIDE DEF swept, new
  <2>5. OnMemSelChanged(swept, new, fast') = TableOf(new, 8)
    BY <2>2, <2>3, <2>4, RetimedTable
  <2> QED
    BY <2>1, <2>2, <2>5
<1>9. Cycles(fast') = 8
  BY <1>4, Zenon DEF Cycles
<1>10. live' = ((0..7) \ {1}) \cup {cart'.id}
  <2>1. live = ((0..7) \ {1}) \cup {cart.id} /\ cart.id \notin (0..7) \ {1}
    BY DEF SlotInv, Placed, InSlot, Loaded, NoCart
  <2>2. \A low, x, y : x \notin low => ((low \cup {x}) \ {x}) \cup {y} = low \cup {y}
    OBVIOUS
  <2> QED
    BY <1>4, <1>7, <2>1, <2>2, Zenon
<1> HIDE DEF new
<1>11. Placed'
  <2>1. fast' \in BOOLEAN
    BY <1>4
  <2>2. nextId' > cart'.id
    BY <1>2, <1>4, <1>7
  <2> QED
    BY <1>3, <1>4, <1>8, <1>9, <1>10, <2>1, <2>2 DEF Placed, InSlot
<1>12. Contents'
  BY <1>4, <1>6 DEF SlotInv, Contents
<1> QED
  BY <1>5, <1>11, <1>12 DEF SlotInv, StoredFiles

(***************************************************************************)
(* The invariant holds at first, and every step keeps it.                  *)
(***************************************************************************)
LEMMA InitSlotInv == Init => SlotInv
<1> SUFFICES ASSUME Init
             PROVE  SlotInv
  OBVIOUS
<1>1. Placed /\ Contents
  BY EmptySlot DEF Init, SlotInit, SlotIsEmpty
<1>2. StoredFiles
  BY DEF Init, StoredFiles, NoFile, Stored
<1> QED
  BY <1>1, <1>2 DEF SlotInv

(***************************************************************************)
(* Every step keeps the address space's invariant.                         *)
(***************************************************************************)
LEMMA StepKeepsSlot == WholeMirror /\ SaveInv /\ SlotInv /\ [Next]_vars => SlotInv'
<1> SUFFICES ASSUME WholeMirror, SaveInv, SlotInv, [Next]_vars
             PROVE  SlotInv'
  OBVIOUS
<1>1. ASSUME UNCHANGED <<table, live, nextId, cart, sram, fast, wram, disk>>
      PROVE  SlotInv'
  BY <1>1, SlotUntouched DEF SlotInv, StoredFiles
<1>2. CASE LoadRefused
  <2>1. PICK rom \in app.rom : Refuse(rom, Build(StripSmcCopierHeader(rom)))
    BY <1>2 DEF LoadRefused
  <2>2. UNCHANGED <<table, live, cart, sram, fast, wram, disk>> /\ nextId' \in {nextId, nextId + 1}
    BY <1>2, <2>1 DEF LoadRefused, Refuse, diskAndHistory
  <2>3. nextId' > cart'.id
    <3>1. nextId \in Nat /\ cart.id \in Nat /\ nextId > cart.id
      BY DEF SaveInv, Types, SlotInv, Placed, InSlot, Loaded, NoCart
    <3> QED
      BY <2>2, <3>1
  <2> QED
    BY <2>2, <2>3 DEF SlotInv, Placed, Contents, StoredFiles
<1>3. CASE Exits \/ Crash
  <2>1. SlotReborn /\ disk' = disk
    BY <1>3 DEF Exits, Crash, NewProcess
  <2>2. SlotIsEmpty'
    BY <2>1 DEF SlotReborn, SlotIsEmpty
  <2>3. Placed' /\ Contents'
    BY <2>2, EmptySlot, PTL
  <2> QED
    BY <2>1, <2>3 DEF SlotInv, StoredFiles
<1>4. CASE SetPersistSram \/ Settle \/ LoadsSpc
  BY <1>1, <1>4 DEF SetPersistSram, Settle, LoadsSpc, slotVars, diskAndHistory
<1>5. CASE \/ IntervalFlush \/ OpenSpc \/ Quit
           \/ \E rom \in Images : OpenRom(rom)
  BY <1>1, <1>5 DEF IntervalFlush, OpenSpc, Quit, OpenRom, Flush, slotVars
<1>6. CASE UNCHANGED vars
  BY <1>1, <1>6 DEF vars, slotVars
<1> QED
  BY <1>2, <1>3, <1>4, <1>5, <1>6, RunningKeepsSlot, FileKeepsSlot, LoadKeepsSlot DEF Next

(***************************************************************************)
(* Whatever cartridges were loaded, refused and thrown out, every address  *)
(* leads where the map of the present one says, in its cycles, for the     *)
(* shortcut, the slow path and the debugger.                               *)
(***************************************************************************)
THEOREM AddressSpaceIsMap ==
  ASSUME WholeMirror
  PROVE  Spec => []BusShowsMap
<1>1. Init => SlotInv
  BY InitSlotInv
<1>2. SaveInv /\ SlotInv /\ [Next]_vars => SlotInv'
  BY StepKeepsSlot
<1>3. SlotInv => BusShowsMap
  BY SlotShown
<1> QED
  BY <1>1, <1>2, <1>3, SaveInvariance, PTL DEF Spec
=============================================================================
