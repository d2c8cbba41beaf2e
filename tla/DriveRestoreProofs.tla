------------------------- MODULE DriveRestoreProofs -------------------------
(***************************************************************************)
(* A restore with its journal implements the atomic restore, for any       *)
(* files, contents, snapshots, failures, deaths of the process, late       *)
(* writes of the settings and saves of titles.                             *)
(***************************************************************************)
EXTENDS DriveRestore, TLAPS

\* What a file was before the restore that the journal records
Old(f) == IF f \in journal.existed THEN image.files[f] ELSE None

\* Before the journal: the image grows, and agrees with settings and files nobody saves
SaveInv ==
  At("save") =>
    /\ ~journal.exists
    /\ block.left \subseteq block.existed
    /\ block.existed \subseteq Changes(block.backup, block.wish)
    /\ \A f \in Changes(block.backup, block.wish) \ raced : f \in block.existed <=> disk[f] # None
    /\ \A f \in (block.existed \ block.left) \ raced : image.files[f] = disk[f]
    /\ image.settings = exportJson(settings)

\* Behind the journal: files that were visited are those of the snapshot
ReplaceInv ==
  At("replace") \/ At("core") \/ At("commit") =>
    /\ Pending
    /\ journal.changes = Changes(block.backup, block.wish)
    /\ block.left \subseteq journal.changes
    /\ \A f \in (journal.changes \ block.left) \ raced : disk[f] = block.backup.files[f]
    /\ ~At("replace") => block.left = {}
    /\ settings.look =
         IF ~At("replace") /\ block.wish.customization
         THEN block.backup.settings.look ELSE image.settings.look
    /\ settings.core = IF At("commit") /\ block.wish.settings
                       THEN block.backup.settings.core ELSE image.settings.core

\* Recovery: files that were visited are as before; a committed journal is only deleted
RollInv ==
  /\ At("scan") => ~journal.exists
  /\ At("finish") => journal.exists /\ journal.committed
  /\ At("roll") \/ At("rollCore") \/ (At("unjournal") /\ ~journal.committed) =>
       /\ Pending
       /\ block.left \subseteq journal.changes
       /\ \A f \in (journal.changes \ block.left) \ raced : disk[f] = Old(f)
       /\ ~At("roll") => block.left = {} /\ settings.look = image.settings.look
       /\ At("unjournal") => settings.core = image.settings.core
  /\ At("unjournal") => journal.exists

IInv == TypeOK /\ SaveInv /\ ReplaceInv /\ RollInv

-----------------------------------------------------------------------------
\* Exported settings are settings; an export changes nothing but the font.
LEMMA ExportFacts ==
  /\ \A s \in Settings : exportJson(s) \in Exports
  /\ \A s \in Exports : s \in Settings
  /\ \A s \in Settings : exportJson(s).core = s.core /\ exportJson(s).look = s.look
<1>1. \A s \in Settings : exportJson(s) \in Exports
  BY DEF Settings, Exports, exportJson, Fonts
<1>2. \A s \in Exports : s \in Settings
  BY DEF Settings, Exports
<1>3. \A s \in Settings : exportJson(s).core = s.core /\ exportJson(s).look = s.look
  BY DEF Settings, exportJson
<1> QED BY <1>1, <1>2, <1>3

\* A request that is made has a snapshot and wishes.
LEMMA NothingType == Nothing \in Requests /\ Free \in Blocks
<1>1. Nothing \in Requests
  <2>1. PICK b \in Backups, w \in Wishes : TRUE
    BY RequestsAssumption
  <2>2. [backup |-> b, wish |-> w] \in Requests
    BY <2>1 DEF Requests
  <2> QED BY <2>2, Zenon DEF Nothing
<1>2. Free \in Blocks
  BY <1>1 DEF Free, Begin, Requests, Blocks, Steps
<1> QED BY <1>1, <1>2

\* No step leaves the types (restore, recoverPending, their callers and the title).
LEMMA TypeStep == TypeOK /\ [Next]_vars => TypeOK'
<1> SUFFICES ASSUME TypeOK, [Next]_vars PROVE TypeOK'
  OBVIOUS
<1> USE DEF TypeOK, data, env, counts, history
<1>e. ASSUME NEW op \in {"start", "create", "restore"}, NEW r \in Requests, Enter(op, r),
             starter' \in BOOLEAN
      PROVE TypeOK'
  BY <1>e DEF Enter, Begin, Requests, Blocks, Steps
<1>1. CASE StarterEnters
  BY <1>1, <1>e, NothingType, Zenon DEF StarterEnters
<1>2. CASE CreateEnters
  BY <1>2, <1>e, NothingType DEF CreateEnters
<1>3. CASE RestoreEnters
  BY <1>3, <1>e DEF RestoreEnters
<1>r. ASSUME At("recover") \/ At("unjournal"), Recovered PROVE block' \in Blocks
  BY <1>r, NothingType DEF At, Recovered, Leave, Blocks, Steps
<1>4. CASE Recover
  BY <1>4, <1>r, Zenon DEF Recover, At, Pending, Blocks, Steps, Journals
<1>5. ASSUME NEW f \in Files, RollFile(f) PROVE TypeOK'
  BY <1>5 DEF RollFile, At, Blocks, Card
<1>6. CASE RollLook
  BY <1>6, ExportFacts, Zenon DEF RollLook, At, Blocks, Steps, Settings, Fonts
<1>7. CASE RollCore
  BY <1>7, ExportFacts DEF RollCore, At, Blocks, Steps, Settings
<1>8. CASE Unjournal
  BY <1>8, <1>r DEF Unjournal, NoJournal, Journals
<1>9. CASE Scan
  <2>1. Changes(block.backup, block.wish) \subseteq Files
    BY WishesAssumption DEF Blocks, Changes
  <2>2. block' \in Blocks
    BY <1>9, <2>1, Zenon DEF Scan, At, Blocks, Steps
  <2>3. image' \in [files : Card, settings : Exports]
    BY <1>9, ExportFacts DEF Scan, Card
  <2>4. raced' \subseteq Files /\ lost' \subseteq {"core", "look"}
    BY <1>9 DEF Scan
  <2> QED BY <1>9, <2>2, <2>3, <2>4, Zenon DEF Scan
<1>10. ASSUME NEW f \in Files, SaveFile(f) PROVE TypeOK'
  BY <1>10 DEF SaveFile, At, Blocks, Card
<1>11. CASE Busy
  BY <1>11, NothingType, SMTT(30) DEF Busy, Leave
<1>12. CASE Publish
  BY <1>12, WishesAssumption, Zenon DEF Publish, At, Blocks, Steps, Journals, Changes
<1>13. ASSUME NEW f \in Files, ReplaceFile(f) PROVE TypeOK'
  BY <1>13, BackupsAssumption DEF ReplaceFile, At, Blocks, Card
<1>14. CASE ApplyLook
  <2>1. block.backup.settings \in Settings
    BY BackupsAssumption, ExportFacts DEF Blocks
  <2>2. settings' \in Settings
    BY <1>14, <2>1, Zenon DEF ApplyLook, Settings, Fonts
  <2> QED BY <1>14, <2>2 DEF ApplyLook, At, Blocks, Steps
<1>15. CASE ApplyCore
  BY <1>15, BackupsAssumption, ExportFacts DEF ApplyCore, At, Blocks, Steps, Settings
<1>16. CASE Commit
  BY <1>16, Zenon DEF Commit, At, Blocks, Steps, Journals
<1>17. CASE Finish
  BY <1>17, NothingType DEF Finish, Leave, NoJournal, Journals
<1>18. CASE Fail
  <2>1. block' \in Blocks
    BY <1>18, NothingType, ZenonT(40) DEF Fail, Leave, Blocks, Steps
  <2>2. failures' \in 0..MaxFailures
    BY <1>18, BoundsAssumption DEF Fail
  <2> QED BY <1>18, <2>1, <2>2, ZenonT(30) DEF Fail
<1>19. CASE StarterGivesUp \/ Boot \/ SessionStart \/ SessionEnd \/ Exit
  BY <1>19, Zenon DEF StarterGivesUp, Boot, SessionStart, SessionEnd, Exit
<1>22. CASE Crash
  <2>1. crashes' \in 0..MaxCrashes
    BY <1>22, BoundsAssumption DEF Crash
  <2>2. lost' \subseteq {"core", "look"}
    BY <1>22 DEF Crash, Unwritten
  <2> QED BY <1>22, <2>1, <2>2, NothingType, Zenon DEF Crash
<1>23. CASE AppStart
  <2>1. journal.exists \in BOOLEAN
    BY DEF Journals
  <2> QED BY <1>23, <2>1, Zenon DEF AppStart
<1>20. ASSUME NEW f \in Files, NEW c \in Contents, Play(f, c) PROVE TypeOK'
  <2>1. raced' \subseteq Files /\ plays' \in 0..MaxPlays
    BY <1>20, BoundsAssumption DEF Play
  <2>2. disk' \in Card
    BY <1>20 DEF Play, Card
  <2> QED BY <1>20, <2>1, <2>2, Zenon DEF Play
<1>24. CASE WriteLook \/ WriteCore
  <2>1. stored' \in Settings
    BY <1>24, Zenon DEF WriteLook, WriteCore, Settings
  <2> QED BY <1>24, <2>1, Zenon DEF WriteLook, WriteCore
<1>21. CASE UNCHANGED vars
  BY <1>21 DEF vars
<1> QED
  BY <1>1, <1>2, <1>3, <1>4, <1>5, <1>6, <1>7, <1>8, <1>9, <1>10, <1>11, <1>12, <1>13, <1>14,
     <1>15, <1>16, <1>17, <1>18, <1>19, <1>20, <1>21, <1>22, <1>23, <1>24, Zenon DEF Next, BlockStep

\* A process that starts with no journal has everything typed, and no block runs.
LEMMA InitType == Init => TypeOK /\ block.pc = "none"
<1> SUFFICES ASSUME Init PROVE TypeOK /\ block.pc = "none"
  OBVIOUS
<1>1. journal \in Journals
  BY DEF Init, NoJournal, Journals
<1>2. image \in [files : Card, settings : Exports]
  BY ExportFacts DEF Init, Card
<1>3. crashes \in 0..MaxCrashes /\ failures \in 0..MaxFailures /\ plays \in 0..MaxPlays
  BY BoundsAssumption DEF Init
<1>6. raced \subseteq Files /\ lost \subseteq {"core", "look"}
  BY DEF Init
<1>4. TypeOK
  BY <1>1, <1>2, <1>3, <1>6, NothingType, Zenon DEF Init, TypeOK
<1>5. block.pc = "none"
  BY DEF Init, Free, Begin
<1> QED BY <1>4, <1>5

\* Restore, recoverPending, their callers and the titles beside them keep the types.
THEOREM RestoreTypeCorrect == Spec => []TypeOK
<1>1. Init => TypeOK
  BY InitType
<1> QED BY <1>1, TypeStep, PTL DEF Spec

-----------------------------------------------------------------------------
\* What the three invariants say of a block that has no step to be at.
LEMMA IdleInv == ASSUME block'.pc \in {"none", "recover"} PROVE (SaveInv /\ ReplaceInv /\ RollInv)'
  BY DEF SaveInv, ReplaceInv, RollInv, At

\* Every step of restore, recoverPending and what goes on beside them keeps the invariants.
LEMMA InvStep == ASSUME IInv, [Next]_vars PROVE (SaveInv /\ ReplaceInv /\ RollInv)'
<1> USE DEF IInv
<1>f. Free.pc = "none"
  BY DEF Free, Begin
<1>t. /\ block \in Blocks /\ disk \in Card /\ settings \in Settings /\ journal \in Journals
      /\ image \in [files : Card, settings : Exports]
  BY DEF TypeOK
<1>1. CASE StarterEnters \/ CreateEnters \/ RestoreEnters
  <2>1. block'.pc = "recover"
    BY <1>1 DEF StarterEnters, CreateEnters, RestoreEnters, Enter, Begin
  <2> QED BY <2>1, IdleInv
<1>r. ASSUME Recovered, ~journal'.exists, block.pc \in {"recover", "unjournal"}
      PROVE (SaveInv /\ ReplaceInv /\ RollInv)'
  <2>1. block'.pc \in {"none", "scan"}
    BY <1>r, <1>f, <1>t DEF Recovered, Leave, Blocks
  <2> QED BY <1>r, <2>1 DEF SaveInv, ReplaceInv, RollInv, At
<1>2. CASE Recover
  <2>1. CASE ~journal.exists /\ Recovered
    BY <1>2, <2>1, <1>r DEF Recover, At, data, env
  <2>2. CASE journal.exists /\ journal.committed /\ block' = [block EXCEPT !.pc = "unjournal"]
    <3>1. block'.pc = "unjournal" /\ journal' = journal
      BY <1>2, <2>2, <1>t DEF Recover, Blocks, data
    <3> QED BY <2>2, <3>1 DEF SaveInv, ReplaceInv, RollInv, At
  <2>3. CASE Pending /\ block' = [block EXCEPT !.pc = "roll", !.left = journal.changes]
    <3>1. block'.pc = "roll" /\ block'.left = journal.changes /\ journal' = journal
      BY <1>2, <2>3, <1>t DEF Recover, Blocks, data
    <3> QED BY <2>3, <3>1 DEF SaveInv, ReplaceInv, RollInv, At, Pending
  <2> QED BY <1>2, <2>1, <2>2, <2>3 DEF Recover
<1>3. ASSUME NEW f \in Files, RollFile(f) PROVE (SaveInv /\ ReplaceInv /\ RollInv)'
  <2>1. /\ block.pc = "roll" /\ block'.pc = "roll" /\ block'.left = block.left \ {f}
        /\ UNCHANGED <<journal, image, raced>>
    BY <1>3, <1>t DEF RollFile, At, Blocks, env, counts, history
  <2>2. \A g \in (journal.changes \ block'.left) \ raced : disk'[g] = Old(g)
    BY <1>3, <2>1, <1>t DEF RollFile, RollInv, At, Old, Card, Journals
  <2> QED BY <2>1, <2>2 DEF SaveInv, ReplaceInv, RollInv, At, Pending, Old
<1>4. CASE RollLook
  <2>1. /\ block.pc = "roll" /\ block'.pc = "rollCore" /\ block'.left = block.left /\ block.left = {}
        /\ UNCHANGED <<disk, journal, image, raced>>
        /\ settings'.look = image.settings.look
    BY <1>4, <1>t DEF RollLook, At, Blocks, Settings, env, counts, history
  <2> QED BY <2>1 DEF SaveInv, ReplaceInv, RollInv, At, Pending, Old
<1>5. CASE RollCore
  <2>1. /\ block.pc = "rollCore" /\ block'.pc = "unjournal" /\ block'.left = block.left
        /\ UNCHANGED <<disk, journal, image, raced>>
        /\ settings'.look = settings.look /\ settings'.core = image.settings.core
    BY <1>5, <1>t DEF RollCore, At, Blocks, Settings, env, counts, history
  <2> QED BY <2>1 DEF SaveInv, ReplaceInv, RollInv, At, Pending, Old
<1>6. CASE Unjournal
  BY <1>6, <1>r DEF Unjournal, At, NoJournal
<1>7. CASE Scan
  <2>1. /\ block.pc = "scan" /\ block'.pc = "save"
        /\ block'.existed = {f \in Changes(block.backup, block.wish) : disk[f] # None}
        /\ block'.left = block'.existed /\ block'.backup = block.backup /\ block'.wish = block.wish
        /\ UNCHANGED <<disk, journal, settings>>
        /\ image'.settings = exportJson(settings)
    BY <1>7, <1>t DEF Scan, At, Blocks
  <2> QED BY <2>1 DEF SaveInv, ReplaceInv, RollInv, At, Changes
<1>8. ASSUME NEW f \in Files, SaveFile(f) PROVE (SaveInv /\ ReplaceInv /\ RollInv)'
  <2>1. /\ block.pc = "save" /\ block'.pc = "save" /\ block'.left = block.left \ {f}
        /\ block'.existed = block.existed /\ block'.backup = block.backup /\ block'.wish = block.wish
        /\ UNCHANGED <<disk, journal, settings, raced>>
        /\ image'.settings = image.settings
        /\ image'.files = [image.files EXCEPT ![f] = disk[f]]
    BY <1>8, <1>t DEF SaveFile, At, Blocks, env, counts, history
  <2>2. block.existed \subseteq Files
    BY <1>t DEF Blocks
  <2>3. \A g \in (block.existed \ block'.left) \ raced : image'.files[g] = disk[g]
    BY <2>1, <2>2, <1>t DEF SaveInv, At, Card
  <2> QED BY <2>1, <2>3 DEF SaveInv, ReplaceInv, RollInv, At, Changes
<1>9. CASE Busy
  BY <1>9, <1>f, IdleInv DEF Busy, Leave
<1>10. CASE Publish
  <2>1. /\ block.pc = "save" /\ block'.pc = "replace" /\ block.left = {}
        /\ block'.left = Changes(block.backup, block.wish)
        /\ block'.backup = block.backup /\ block'.wish = block.wish
        /\ UNCHANGED <<disk, image, settings, raced>>
        /\ journal'.exists /\ ~journal'.committed
        /\ journal'.changes = Changes(block.backup, block.wish)
    BY <1>10, <1>t DEF Publish, At, Blocks, env, counts, history
  <2>2. image.settings.core = settings.core /\ image.settings.look = settings.look
    BY <2>1, <1>t, ExportFacts DEF SaveInv, At
  <2> QED BY <2>1, <2>2 DEF SaveInv, ReplaceInv, RollInv, At, Pending, Changes, exportJson
<1>11. ASSUME NEW f \in Files, ReplaceFile(f) PROVE (SaveInv /\ ReplaceInv /\ RollInv)'
  <2>1. /\ block.pc = "replace" /\ block'.pc = "replace" /\ block'.left = block.left \ {f}
        /\ block'.backup = block.backup /\ block'.wish = block.wish
        /\ UNCHANGED <<settings, image, journal, raced>>
    BY <1>11, <1>t DEF ReplaceFile, At, Blocks, env, counts, history
  <2>2. \A g \in (journal.changes \ block'.left) \ raced : disk'[g] = block.backup.files[g]
    BY <1>11, <2>1, <1>t DEF ReplaceFile, ReplaceInv, At, Card, Journals
  <2> QED BY <2>1, <2>2 DEF SaveInv, ReplaceInv, RollInv, At, Pending, Changes, exportJson
<1>12. CASE ApplyLook
  <2>1. /\ block.pc = "replace" /\ block'.pc = "core" /\ block.left = {} /\ block'.left = block.left
        /\ block'.backup = block.backup /\ block'.wish = block.wish
        /\ UNCHANGED <<disk, image, journal, raced>>
        /\ settings'.core = settings.core
        /\ settings'.look = IF block.wish.customization THEN block.backup.settings.look
                            ELSE settings.look
    BY <1>12, <1>t DEF ApplyLook, At, Blocks, Settings, env, counts, history
  <2> QED BY <2>1 DEF SaveInv, ReplaceInv, RollInv, At, Pending, Changes
<1>13. CASE ApplyCore
  <2>1. /\ block.pc = "core" /\ block'.pc = "commit" /\ block'.left = block.left
        /\ block'.backup = block.backup /\ block'.wish = block.wish
        /\ UNCHANGED <<disk, image, journal, raced>>
        /\ settings'.look = settings.look
        /\ settings'.core = IF block.wish.settings THEN block.backup.settings.core
                            ELSE settings.core
    BY <1>13, <1>t DEF ApplyCore, At, Blocks, Settings, env, counts, history
  <2> QED BY <2>1 DEF SaveInv, ReplaceInv, RollInv, At, Pending, Changes
<1>14. CASE Commit
  <2>1. block.pc = "commit" /\ block'.pc = "finish" /\ journal'.committed
        /\ journal'.exists = journal.exists
    BY <1>14, <1>t DEF Commit, At, Blocks, Journals
  <2> QED BY <2>1 DEF SaveInv, ReplaceInv, RollInv, At, Pending
<1>15. CASE Finish \/ Crash
  BY <1>15, <1>f, IdleInv DEF Finish, Crash, Leave
<1>16. CASE Fail
  <2>1. block'.pc \in {"none", "recover"}
    BY <1>16, <1>f, <1>t, Zenon DEF Fail, Leave, Blocks
  <2> QED BY <2>1, IdleInv
<1>17. ASSUME NEW f \in Files, NEW c \in Contents, Play(f, c)
       PROVE (SaveInv /\ ReplaceInv /\ RollInv)'
  <2>1. /\ UNCHANGED <<settings, image, journal, block>>
        /\ raced' = raced \cup ({f} \cap Touched)
        /\ \A g \in Files \ {f} : disk'[g] = disk[g]
    BY <1>17, <1>t DEF Play, Card
  <2>2. \A g \in Files : g \in Touched /\ g \notin raced' => disk'[g] = disk[g] /\ g \notin raced
    BY <2>1
  <2>3. SaveInv'
    <3> SUFFICES ASSUME block.pc = "save" PROVE SaveInv'
      BY <2>1 DEF SaveInv, At
    <3>1. ~journal.exists /\ Touched = Changes(block.backup, block.wish)
      BY DEF SaveInv, At, Touched, Pending
    <3>2. Changes(block.backup, block.wish) \subseteq Files
      BY <1>t, WishesAssumption DEF Blocks, Changes
    <3> QED BY <2>1, <2>2, <3>1, <3>2 DEF SaveInv, At, Changes
  <2>4. ReplaceInv'
    <3> SUFFICES ASSUME block.pc \in {"replace", "core", "commit"} PROVE ReplaceInv'
      BY <2>1 DEF ReplaceInv, At
    <3>1. Pending /\ Touched = journal.changes /\ journal.changes \subseteq Files
      BY <1>t DEF ReplaceInv, At, Touched, Journals
    <3> QED BY <2>1, <2>2, <3>1 DEF ReplaceInv, At, Pending, Changes
  <2>5. RollInv'
    <3>1. Pending => Touched = journal.changes /\ journal.changes \subseteq Files
      BY <1>t DEF Touched, Journals
    <3> QED BY <2>1, <2>2, <3>1 DEF RollInv, At, Pending, Old
  <2> QED BY <2>3, <2>4, <2>5
<1>18. CASE \/ StarterGivesUp \/ AppStart \/ Boot \/ SessionStart \/ SessionEnd \/ Exit
            \/ WriteLook \/ WriteCore \/ UNCHANGED vars
  <2>1. UNCHANGED <<disk, settings, image, journal, block, raced>>
    BY <1>18 DEF StarterGivesUp, AppStart, Boot, SessionStart, SessionEnd, Exit, WriteLook,
       WriteCore, vars, data, counts, history
  <2> QED BY <2>1 DEF SaveInv, ReplaceInv, RollInv, At, Pending, Old, Changes, exportJson
<1> QED
  BY <1>1, <1>2, <1>3, <1>4, <1>5, <1>6, <1>7, <1>8, <1>9, <1>10, <1>11, <1>12, <1>13, <1>14,
     <1>15, <1>16, <1>17, <1>18, Zenon DEF Next, BlockStep

-----------------------------------------------------------------------------
\* Steps that change none of files, settings, image and journal are not seen.
LEMMA Unseen ==
  ASSUME UNCHANGED <<disk, settings, image, journal>>
  PROVE  UNCHANGED <<Visible, VisibleSettings>>
  BY DEF Visible, VisibleSettings, Pending, Portable

\* A step of the restore with its journal is a step of the atomic restore, or is not seen.
LEMMA RefineStep ==
  ASSUME IInv, [Next]_vars
  PROVE  [A!ANext]_(A!avars)
<1> USE DEF IInv
<1> DEFINE Stutter == UNCHANGED <<Visible, VisibleSettings, raced, lost>>
<1>v. SUFFICES A!ANext \/ Stutter
  BY DEF A!avars
<1>t. /\ block \in Blocks /\ disk \in Card /\ settings \in Settings /\ journal \in Journals
      /\ image \in [files : Card, settings : Exports]
  BY DEF TypeOK
<1>1. CASE \/ StarterEnters \/ CreateEnters \/ RestoreEnters \/ StarterGivesUp
           \/ Recover \/ Busy \/ Fail \/ AppStart \/ Boot \/ SessionStart \/ SessionEnd \/ Exit
           \/ WriteLook \/ WriteCore \/ UNCHANGED vars
  <2>1. UNCHANGED <<disk, settings, image, journal, raced, lost>>
    BY <1>1 DEF StarterEnters, CreateEnters, RestoreEnters, Enter, StarterGivesUp, Recover, Busy,
       Fail, AppStart, Boot, SessionStart, SessionEnd, Exit, WriteLook, WriteCore, vars, data, env,
       counts, history
  <2> QED BY <2>1, Unseen
<1>2. ASSUME Pending, UNCHANGED <<image, journal, raced, lost>>,
             \A g \in Files \ journal.changes : disk'[g] = disk[g]
      PROVE  Stutter
  BY <1>2 DEF Visible, VisibleSettings, Pending
<1>3. ASSUME NEW f \in Files, RollFile(f) \/ ReplaceFile(f)
      PROVE  Stutter
  <2>1. Pending /\ f \in journal.changes
    BY <1>3 DEF RollFile, ReplaceFile, RollInv, ReplaceInv, At
  <2>2. UNCHANGED <<image, journal, raced, lost>> /\ \A g \in Files \ {f} : disk'[g] = disk[g]
    BY <1>3, <1>t DEF RollFile, ReplaceFile, Card, env, counts, history
  <2> QED BY <1>2, <2>1, <2>2
<1>4. CASE RollLook \/ RollCore \/ ApplyLook \/ ApplyCore
  <2>1. Pending
    BY <1>4 DEF RollLook, RollCore, ApplyLook, ApplyCore, RollInv, ReplaceInv, At
  <2>2. UNCHANGED <<disk, image, journal, raced, lost>>
    BY <1>4 DEF RollLook, RollCore, ApplyLook, ApplyCore, env, counts, history
  <2> QED BY <1>2, <2>1, <2>2
<1>5. CASE Unjournal
  <2>1. /\ block.pc = "unjournal" /\ ~Pending'
        /\ UNCHANGED <<disk, settings, image, raced, lost>>
    BY <1>5 DEF Unjournal, At, NoJournal, Pending, env, counts, history
  <2>2. Visible' = disk /\ VisibleSettings' = Portable(settings)
    BY <2>1, <1>t DEF Visible, VisibleSettings, Card, Portable
  <2>3. CASE journal.committed
    BY <2>1, <2>2, <2>3, <1>t DEF Visible, VisibleSettings, Pending, Card
  <2>4. CASE ~journal.committed
    <3>1. /\ Pending /\ \A g \in journal.changes \ raced : disk[g] = Old(g)
          /\ settings.look = image.settings.look /\ settings.core = image.settings.core
      BY <2>1, <2>4 DEF RollInv, At
    <3>2. \A g \in Files \ raced : Visible[g] = disk[g]
      BY <3>1, <1>t DEF Visible, Old, Card
    <3>3. VisibleSettings = Portable(settings)
      BY <3>1 DEF VisibleSettings, Portable
    <3>4. A!Races
      BY <2>1, <2>2, <3>2, <3>3 DEF A!Races
    <3> QED BY <3>4 DEF A!ANext
  <2> QED BY <2>3, <2>4
<1>6. ASSUME ~Pending, ~Pending', UNCHANGED <<disk, settings>>
      PROVE  UNCHANGED <<Visible, VisibleSettings>>
  BY <1>6 DEF Visible, VisibleSettings, Portable
<1>7. CASE Scan
  <2>1. ~journal.exists /\ UNCHANGED <<disk, settings, journal>> /\ raced' = {} /\ lost' = {}
    BY <1>7 DEF Scan, RollInv, At
  <2>2. A!Begins
    BY <1>6, <2>1 DEF Pending, A!Begins
  <2> QED BY <2>2 DEF A!ANext
<1>12. CASE \E f \in Files : SaveFile(f)
  <2>1. ~journal.exists /\ UNCHANGED <<disk, settings, journal, raced, lost>>
    BY <1>12 DEF SaveFile, SaveInv, At, env, counts, history
  <2> QED BY <1>6, <2>1 DEF Pending
<1>8. CASE Publish
  <2>1. /\ ~Pending /\ Pending' /\ UNCHANGED <<disk, settings, image, raced, lost>>
        /\ journal'.changes = Changes(block.backup, block.wish)
        /\ \A f \in journal'.changes \ raced : f \in journal'.existed <=> disk[f] # None
        /\ \A f \in journal'.existed \ raced : image.files[f] = disk[f]
        /\ image.settings = exportJson(settings)
    BY <1>8 DEF Publish, SaveInv, At, Pending, env, counts, history
  <2>2. Visible = disk /\ VisibleSettings = Portable(settings)
    BY <2>1, <1>t DEF Visible, VisibleSettings, Card
  <2>3. \A f \in Files \ raced : Visible'[f] = disk[f]
    BY <2>1, <1>t DEF Visible, Card
  <2>4. VisibleSettings' = Portable(settings)
    BY <2>1, <1>t, ExportFacts DEF VisibleSettings, Portable
  <2>5. A!Races
    BY <2>1, <2>2, <2>3, <2>4 DEF A!Races
  <2> QED BY <2>5 DEF A!ANext
<1>9. CASE Commit
  <2>1. /\ block.pc = "commit" /\ Pending /\ ~Pending'
        /\ UNCHANGED <<disk, settings, image, raced, lost>>
        /\ journal.changes = Changes(block.backup, block.wish)
        /\ \A f \in journal.changes \ raced : disk[f] = block.backup.files[f]
    BY <1>9, <1>t DEF Commit, ReplaceInv, At, Pending, env, counts, history, Journals
  <2>2. \A f \in Files \ raced : Visible'[f] = IF f \in Changes(block.backup, block.wish)
                                               THEN block.backup.files[f] ELSE Visible[f]
    BY <2>1, <1>t DEF Visible, Card
  <2>3. /\ settings.look = IF block.wish.customization
                                       THEN block.backup.settings.look ELSE image.settings.look
        /\ settings.core = IF block.wish.settings
                           THEN block.backup.settings.core ELSE image.settings.core
    BY <2>1 DEF ReplaceInv, At
  <2>4. VisibleSettings' = Portable(settings) /\ VisibleSettings = Portable(image.settings)
    BY <2>1 DEF VisibleSettings, Portable
  <2>5. A!Restored(block.backup, block.wish)
    BY <2>1, <2>2, <2>3, <2>4 DEF A!Restored, A!Changes, Changes, Portable
  <2> QED BY <2>5, <1>t DEF A!ANext, Blocks
<1>10. CASE Finish
  <2>1. journal.committed /\ ~Pending' /\ UNCHANGED <<disk, settings, raced, lost>>
    BY <1>10 DEF Finish, RollInv, At, NoJournal, Pending, env, counts, history
  <2> QED BY <1>6, <2>1 DEF Pending
<1>13. CASE Crash
  <2>1. CASE Pending
    <3>1. UNCHANGED <<disk, image, journal, raced, lost>>
      BY <1>13, <2>1 DEF Crash
    <3> QED BY <1>2, <2>1, <3>1
  <2>2. CASE ~Pending
    <3>1. /\ ~Pending' /\ UNCHANGED <<disk, raced>>
          /\ settings' = stored /\ lost' = lost \cup Unwritten
      BY <1>13, <2>2 DEF Crash, Pending
    <3>2. VisibleSettings = Portable(settings) /\ VisibleSettings' = Portable(stored)
      BY <2>2, <3>1 DEF VisibleSettings
    <3>3. Visible' = Visible
      BY <2>2, <3>1 DEF Visible
    <3>4. /\ "core" \notin lost' => stored.core = settings.core
          /\ "look" \notin lost' => stored.look = settings.look
      BY <3>1 DEF Unwritten
    <3>5. A!Dies
      BY <3>1, <3>2, <3>3, <3>4 DEF A!Dies, Portable
    <3> QED BY <3>5 DEF A!ANext
  <2> QED BY <2>1, <2>2
<1>11. ASSUME NEW f \in Files, NEW c \in Contents, Play(f, c) PROVE A!ANext
  <2>1. /\ disk' = [disk EXCEPT ![f] = c] /\ raced' = raced \cup ({f} \cap Touched)
        /\ UNCHANGED <<settings, image, journal, lost>>
    BY <1>11 DEF Play
  <2>2. VisibleSettings' = VisibleSettings
    BY <2>1 DEF VisibleSettings, Portable, Pending
  <2>3. \A g \in Files \ {f} : Visible'[g] = Visible[g]
    BY <2>1, <1>t DEF Visible, Card, Pending
  <2>4. CASE f \in Touched
    <3>1. A!Races
      BY <2>1, <2>2, <2>3, <2>4 DEF A!Races
    <3> QED BY <3>1 DEF A!ANext
  <2>5. CASE f \notin Touched
    <3>1. raced' = raced
      BY <2>1, <2>5
    <3>2. ~Pending \/ f \notin journal.changes
      BY <2>5 DEF Touched
    <3>3. Visible'[f] = c
      BY <2>1, <3>2, <1>t DEF Visible, Card, Pending
    <3>4. Visible' = [Visible EXCEPT ![f] = c]
      BY <2>3, <3>3, Zenon DEF Visible
    <3>5. A!Saved(f, c)
      BY <2>1, <2>2, <3>1, <3>4 DEF A!Saved
    <3> QED BY <3>5 DEF A!ANext
  <2> QED BY <2>4, <2>5
<1> QED
  BY <1>1, <1>3, <1>4, <1>5, <1>7, <1>8, <1>9, <1>10, <1>11, <1>12, <1>13, Zenon
  DEF Next, BlockStep

-----------------------------------------------------------------------------
\* Restore, recovery and their callers keep the types and what each step relies on: the
\* image is complete before the journal is published, and visited files are right unless a
\* title saves them meanwhile.
THEOREM RestoreInductive == Spec => []IInv
<1>1. Init => IInv
  <2> SUFFICES ASSUME Init PROVE IInv
    OBVIOUS
  <2>1. TypeOK /\ block.pc = "none"
    BY InitType
  <2> QED BY <2>1 DEF IInv, SaveInv, ReplaceInv, RollInv, At
<1>2. IInv /\ [Next]_vars => IInv'
  BY TypeStep, InvStep DEF IInv
<1> QED BY <1>1, <1>2, PTL DEF Spec

\* A restore happens entirely or not at all, wherever restore and recoverPending fail or
\* the process dies.  Excepted are the font, which no rollback brings back, files that a
\* title saves while the restore changes them, and settings that apply() had not written
\* when the process died with no uncommitted journal on disk.
THEOREM RestoreIsAtomic == Spec => AllOrNothing
<1>1. Init => A!AInit
  <2> SUFFICES ASSUME Init PROVE A!AInit
    OBVIOUS
  <2>1. ~Pending /\ disk \in Card /\ settings \in Settings /\ raced = {} /\ lost = {}
    BY DEF Init, NoJournal, Pending
  <2>2. Visible = disk /\ VisibleSettings = Portable(settings)
    BY <2>1 DEF Visible, VisibleSettings, Card
  <2> QED BY <2>1, <2>2 DEF A!AInit, A!Card, Card, Settings, Portable
<1>2. IInv /\ [Next]_vars => [A!ANext]_(A!avars)
  BY RefineStep
<1> QED BY <1>1, <1>2, RestoreInductive, PTL DEF Spec, AllOrNothing, A!ASpec

=============================================================================
