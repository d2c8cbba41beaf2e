---------------------------- MODULE DriveRestore ----------------------------
(***************************************************************************)
(* DriveBackupArchive.restore and recoverPending: how a snapshot replaces  *)
(* files and settings, with a rollback image and a journal, while the      *)
(* storage fails, the process dies and titles are played.  One step per    *)
(* file that is replaced, per group of settings and per journal write.     *)
(*   disk      the files that titles and the app use                       *)
(*   settings  the preferences in the memory of the process                *)
(*   stored    the preferences on disk: apply() leaves their writing to a  *)
(*             thread of the system, file by file, while AtomicFile syncs  *)
(*             the journal before a step goes on                           *)
(*   image     drive-restore/old and drive-restore/settings.json           *)
(*   journal   drive-restore/journal.json                                  *)
(*   block     what runs inside BackupSessionGate.whileStopped             *)
(*   game      "off", "booted", "session" from gameStarted() to stopped()  *)
(*   starter   the thread EmuCoreC-DriveRecovery waits for the gate        *)
(*   raced     files a title saved although the restore changes them       *)
(*   lost      settings that were not written when the process died        *)
(* AtomicFile and Files.move replace a file as a whole or not at all.      *)
(***************************************************************************)
EXTENDS Naturals, FiniteSets, RestoreData

CONSTANTS MaxCrashes, MaxFailures, MaxPlays   \* bounds of the instance

ASSUME RequestsAssumption == Backups # {} /\ Wishes # {}
ASSUME BoundsAssumption == MaxCrashes \in Nat /\ MaxFailures \in Nat /\ MaxPlays \in Nat

VARIABLES disk, settings, stored, image, journal, block, game, alive, starter,
          crashes, failures, plays, raced, lost

vars == <<disk, settings, stored, image, journal, block, game, alive, starter,
          crashes, failures, plays, raced, lost>>

history == <<raced, lost>>
data == <<disk, settings, stored, image, journal>>
counts == <<crashes, failures, plays, history>>
env == <<stored, game, alive, starter, counts>>

NoJournal == [exists |-> FALSE, changes |-> {}, existed |-> {}, committed |-> FALSE]
Journals == [exists : BOOLEAN, changes : SUBSET Files, existed : SUBSET Files, committed : BOOLEAN]

Steps == {"none", "recover", "roll", "rollCore", "unjournal", "scan", "save", "replace", "core",
          "commit", "finish"}

\* A block: which call, its next step, the files still to visit, whether the catch
\* of restore runs, and for restore the snapshot, the wishes and the `existed` files
Blocks == [op : {"none", "start", "create", "restore"}, pc : Steps, left : SUBSET Files,
           caught : BOOLEAN, backup : Backups, wish : Wishes, existed : SUBSET Files]
Requests == [backup : Backups, wish : Wishes]

\* Of the start thread and of create, only their call of recoverPending matters
Nothing == CHOOSE r \in Requests : TRUE
Begin(op, pc, r) == [op |-> op, pc |-> pc, left |-> {}, caught |-> FALSE,
                     backup |-> r.backup, wish |-> r.wish, existed |-> {}]
Free == Begin("none", "none", Nothing)

\* Files, settings, image and journal keep their types; a block only visits files there are.
TypeOK ==
  /\ disk \in Card
  /\ settings \in Settings /\ stored \in Settings
  /\ image \in [files : Card, settings : Exports]
  /\ journal \in Journals
  /\ block \in Blocks
  /\ game \in {"off", "booted", "session"}
  /\ alive \in BOOLEAN /\ starter \in BOOLEAN
  /\ crashes \in 0..MaxCrashes /\ failures \in 0..MaxFailures /\ plays \in 0..MaxPlays
  /\ raced \subseteq Files /\ lost \subseteq {"core", "look"}

Init ==
  /\ disk \in Card
  /\ settings \in Settings /\ stored = settings
  /\ image = [files |-> [f \in Files |-> None], settings |-> exportJson(settings)]
  /\ journal = NoJournal
  /\ block = Free
  /\ game = "off"
  /\ alive = TRUE /\ starter = FALSE
  /\ crashes = 0 /\ failures = 0 /\ plays = 0
  /\ raced = {} /\ lost = {}

-----------------------------------------------------------------------------
\* recoverPending has something to undo: an uncommitted journal is on disk
Pending == journal.exists /\ ~journal.committed

\* whileStopped: the mutex, then checkpoint(), which knows sessions only
Enter(op, r) ==
  /\ alive /\ block = Free /\ game # "session"
  /\ block' = Begin(op, "recover", r)
  /\ UNCHANGED <<data, game, alive, counts>>

StarterEnters == starter /\ starter' = FALSE /\ Enter("start", Nothing)
CreateEnters == UNCHANGED starter /\ Enter("create", Nothing)
RestoreEnters == UNCHANGED starter /\ \E r \in Requests : Enter("restore", r)

\* The recovery thread finds a session running; nobody tries again at once
StarterGivesUp ==
  /\ alive /\ starter /\ block = Free /\ game = "session"
  /\ starter' = FALSE
  /\ UNCHANGED <<data, block, game, alive, counts>>

-----------------------------------------------------------------------------
(* recoverPending *)

At(pc) == block.pc = pc

\* A block that ends normally, and the end of recoverPending in each caller
Leave == block' = Free
Recovered == IF block.op = "restore" /\ ~block.caught
             THEN block' = [block EXCEPT !.pc = "scan"] ELSE Leave

\* What is read in the journal decides
Recover ==
  /\ At("recover")
  /\ \/ ~journal.exists /\ Recovered
     \/ /\ journal.exists /\ journal.committed
        /\ block' = [block EXCEPT !.pc = "unjournal"]
     \/ /\ Pending
        /\ block' = [block EXCEPT !.pc = "roll", !.left = journal.changes]
  /\ UNCHANGED <<data, env>>

\* replaceFile from the image, or the deletion of a file that did not exist
RollFile(f) ==
  /\ At("roll") /\ f \in block.left
  /\ disk' = [disk EXCEPT ![f] = IF f \in journal.existed THEN image.files[f] ELSE None]
  /\ block' = [block EXCEPT !.left = @ \ {f}]
  /\ UNCHANGED <<settings, image, journal, env>>

\* restoreJson of the saved settings, customization before core settings.  They have
\* the key customFontPath, if only with the value NULL, and a font that is not CUSTOM:
\* whatever the font was, it is SYSTEM then
RollLook ==
  /\ At("roll") /\ block.left = {}
  /\ settings' = [settings EXCEPT !.look = image.settings.look, !.font = "SYSTEM"]
  /\ block' = [block EXCEPT !.pc = "rollCore"]
  /\ UNCHANGED <<disk, image, journal, env>>

RollCore ==
  /\ At("rollCore")
  /\ settings' = [settings EXCEPT !.core = image.settings.core]
  /\ block' = [block EXCEPT !.pc = "unjournal"]
  /\ UNCHANGED <<disk, image, journal, env>>

Unjournal_Keeps ==
  /\ At("unjournal")
  /\ Recovered
  /\ UNCHANGED <<data, env>>

Unjournal ==
  /\ At("unjournal")
  /\ journal' = NoJournal
  /\ Recovered
  /\ UNCHANGED <<disk, settings, image, env>>

-----------------------------------------------------------------------------
(* restore *)

Scan_Raw ==
  /\ At("scan")
  /\ LET existed == {f \in Changes(block.backup, block.wish) : disk[f] # None}
     IN  block' = [block EXCEPT !.pc = "save", !.left = existed, !.existed = existed]
  /\ image' = [files |-> [f \in Files |-> None], settings |-> settings]
  /\ raced' = {} /\ lost' = {}
  /\ UNCHANGED <<disk, settings, stored, journal, game, alive, starter, crashes, failures, plays>>

\* The old image is deleted; which targets exist; the settings are saved
Scan ==
  /\ At("scan")
  /\ LET existed == {f \in Changes(block.backup, block.wish) : disk[f] # None}
     IN  block' = [block EXCEPT !.pc = "save", !.left = existed, !.existed = existed]
  /\ image' = [files |-> [f \in Files |-> None], settings |-> exportJson(settings)]
  /\ raced' = {} /\ lost' = {}
  /\ UNCHANGED <<disk, settings, stored, journal, game, alive, starter, crashes, failures, plays>>

\* copy() looks for a session before every read
SaveFile(f) ==
  /\ At("save") /\ f \in block.left
  /\ game # "session"
  /\ image' = [image EXCEPT !.files[f] = disk[f]]
  /\ block' = [block EXCEPT !.left = @ \ {f}]
  /\ UNCHANGED <<disk, settings, journal, env>>

Busy ==
  /\ At("save") /\ block.left # {}
  /\ game = "session"
  /\ Leave
  /\ UNCHANGED <<data, env>>

Publish_Early ==
  /\ At("save")
  /\ journal' = [exists |-> TRUE, changes |-> Changes(block.backup, block.wish),
                 existed |-> block.existed, committed |-> FALSE]
  /\ block' = [block EXCEPT !.pc = "replace", !.left = Changes(block.backup, block.wish)]
  /\ UNCHANGED <<disk, settings, image, env>>

Publish ==
  /\ At("save") /\ block.left = {}
  /\ journal' = [exists |-> TRUE, changes |-> Changes(block.backup, block.wish),
                 existed |-> block.existed, committed |-> FALSE]
  /\ block' = [block EXCEPT !.pc = "replace", !.left = Changes(block.backup, block.wish)]
  /\ UNCHANGED <<disk, settings, image, env>>

ReplaceFile(f) ==
  /\ At("replace") /\ f \in block.left
  /\ disk' = [disk EXCEPT ![f] = block.backup.files[f]]
  /\ block' = [block EXCEPT !.left = @ \ {f}]
  /\ UNCHANGED <<settings, image, journal, env>>

\* rebaseCustomizationPaths drops customFontPath unless that file is there: the font is
\* the exported one without the key, and SYSTEM with it
ApplyLook ==
  /\ At("replace") /\ block.left = {}
  /\ \E font \in {"SYSTEM", block.backup.settings.font} :
       settings' = IF block.wish.customization
                   THEN [settings EXCEPT !.look = block.backup.settings.look, !.font = font]
                   ELSE settings
  /\ block' = [block EXCEPT !.pc = "core"]
  /\ UNCHANGED <<disk, image, journal, env>>

ApplyCore ==
  /\ At("core")
  /\ settings' = IF block.wish.settings
                 THEN [settings EXCEPT !.core = block.backup.settings.core] ELSE settings
  /\ block' = [block EXCEPT !.pc = "commit"]
  /\ UNCHANGED <<disk, image, journal, env>>

Commit ==
  /\ At("commit")
  /\ journal' = [journal EXCEPT !.committed = TRUE]
  /\ block' = [block EXCEPT !.pc = "finish"]
  /\ UNCHANGED <<disk, settings, image, env>>

Finish ==
  /\ At("finish")
  /\ journal' = NoJournal
  /\ Leave
  /\ UNCHANGED <<disk, settings, image, env>>

-----------------------------------------------------------------------------
(* What goes wrong, and what goes on beside it *)

\* A step throws: the storage fails, or the worker is cancelled.  Behind the journal
\* the catch of restore recovers; a recovery that fails leaves the journal as it is,
\* and an error of its last step cannot occur (AtomicFile.delete reports none).
Fail ==
  /\ block.pc \notin {"none", "unjournal", "finish"}
  /\ failures < MaxFailures
  /\ failures' = failures + 1
  /\ IF block.pc \in {"replace", "core", "commit"}
     THEN block' = [block EXCEPT !.pc = "recover", !.left = {}, !.caught = TRUE]
     ELSE Leave
  /\ UNCHANGED <<data, game, alive, starter, crashes, plays, history>>

\* A file of preferences that was set is written: the customization, the core settings
WriteLook ==
  /\ alive
  /\ stored' = [stored EXCEPT !.look = settings.look, !.font = settings.font]
  /\ UNCHANGED <<disk, settings, image, journal, block, game, alive, starter, counts>>

WriteCore ==
  /\ alive
  /\ stored' = [stored EXCEPT !.core = settings.core]
  /\ UNCHANGED <<disk, settings, image, journal, block, game, alive, starter, counts>>

\* Settings that differ from what is on disk
Unwritten == (IF settings.core = stored.core THEN {} ELSE {"core"})
        \cup (IF settings.look = stored.look THEN {} ELSE {"look"})

\* The process dies, and with it every thread, the title and what is not written yet.
\* An uncommitted journal brings the settings back; without one they are lost
Crash ==
  /\ alive /\ crashes < MaxCrashes
  /\ crashes' = crashes + 1
  /\ alive' = FALSE /\ block' = Free /\ game' = "off" /\ starter' = FALSE
  /\ settings' = stored
  /\ lost' = IF Pending THEN lost ELSE lost \cup Unwritten
  /\ UNCHANGED <<disk, stored, image, journal, failures, plays, raced>>

\* onCreate of the application: hasPendingRecovery starts the recovery thread
AppStart ==
  /\ ~alive
  /\ alive' = TRUE
  /\ starter' = journal.exists
  /\ UNCHANGED <<data, block, game, counts>>

\* The boot of a title asks neither the gate nor the journal
Boot ==
  /\ alive /\ game = "off"
  /\ game' = "booted"
  /\ UNCHANGED <<data, block, alive, starter, counts>>

SessionStart ==
  /\ game = "booted"
  /\ game' = "session"
  /\ UNCHANGED <<data, block, alive, starter, counts>>

\* The files that a restore, or its rollback, is about to change
Touched == IF Pending THEN journal.changes
           ELSE IF At("save") THEN Changes(block.backup, block.wish) ELSE {}

\* Nothing keeps a title from saving while a restore is under way
Play(f, c) ==
  /\ game # "off" /\ plays < MaxPlays
  /\ disk' = [disk EXCEPT ![f] = c]
  /\ plays' = plays + 1
  /\ raced' = raced \cup ({f} \cap Touched)
  /\ UNCHANGED <<settings, stored, image, journal, block, game, alive, starter, crashes,
                 failures, lost>>

\* onDestroy calls stopped(), and the VM may run on
SessionEnd ==
  /\ game = "session"
  /\ game' = "booted"
  /\ UNCHANGED <<data, block, alive, starter, counts>>

Exit ==
  /\ game = "booted"
  /\ game' = "off"
  /\ UNCHANGED <<data, block, alive, starter, counts>>

-----------------------------------------------------------------------------
BlockStep ==
  \/ Recover \/ RollLook \/ RollCore \/ Unjournal
  \/ Scan \/ Busy \/ Publish \/ ApplyLook \/ ApplyCore \/ Commit \/ Finish
  \/ \E f \in Files : RollFile(f) \/ SaveFile(f) \/ ReplaceFile(f)

Next ==
  \/ StarterEnters \/ StarterGivesUp \/ CreateEnters \/ RestoreEnters
  \/ BlockStep
  \/ Fail \/ Crash \/ AppStart \/ WriteLook \/ WriteCore
  \/ Boot \/ SessionStart \/ SessionEnd \/ Exit \/ \E f \in Files, c \in Contents : Play(f, c)

Spec == Init /\ [][Next]_vars

\* Threads go on: the one inside the gate, and the recovery thread once the gate is free
Fairness == WF_vars(BlockStep) /\ WF_vars(StarterEnters \/ StarterGivesUp)

FairSpec == Spec /\ Fairness

-----------------------------------------------------------------------------
\* The contents that count: behind a published journal, those of the rollback image
Visible == [f \in Files |->
              IF ~Pending \/ f \notin journal.changes THEN disk[f]
              ELSE IF f \in journal.existed THEN image.files[f] ELSE None]
VisibleSettings == Portable(IF Pending THEN image.settings ELSE settings)

A == INSTANCE AtomicRestore WITH card <- Visible, prefs <- VisibleSettings

\* A restore happens entirely or not at all, wherever restore and recoverPending fail or
\* the process dies.  Excepted are the font, which no rollback brings back, files that a
\* title saves while the restore changes them, and settings that apply() had not written
\* when the process died with no uncommitted journal on disk.
AllOrNothing == A!ASpec

\* An uncommitted journal that nobody is about to undo: that is left to the next backup
\* or restore, which the user may never ask for
Abandoned == alive /\ Pending /\ block = Free /\ ~starter

\* What recoverPending has to undo is undone, by the catch of restore or by the thread of
\* the next start: when the app is started again each time it died, that thread meets no
\* session and no further step fails, the journal goes.
Settles ==
  []<>alive /\ [](starter => game # "session") =>
    (Pending /\ ~Abandoned /\ failures = MaxFailures ~> ~Pending)

\* "so a process death cannot expose a half-restored card": a title that runs after the
\* process died, with no restore at work, finds the files all old or all new.
DeathExposesNothing == game # "off" /\ block = Free /\ crashes > 0 => disk = Visible
=============================================================================
