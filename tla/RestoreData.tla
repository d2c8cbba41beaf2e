---------------------------- MODULE RestoreData ----------------------------
(***************************************************************************)
(* The data of a restore from a Drive backup: files, settings, snapshots.  *)
(***************************************************************************)

CONSTANTS Files,      \* the restorable files: saves, trophies, settings of games
          Contents,   \* what a file may hold
          None,       \* a file that does not exist
          Cores,      \* core settings; those of the app go the same way
          Looks,      \* sizes and styles of the customization
          Backups,    \* the snapshots that can be restored
          Wishes      \* the categories a user may ask for

Card == [Files -> Contents \cup {None}]

\* Preferences: core settings, and the customization with its font (the background
\* picture, a path like that of the font, is left out)
Fonts == {"SYSTEM", "RUBIK", "CUSTOM"}
Settings == [core : Cores, look : Looks, font : Fonts]
Exports == [core : Cores, look : Looks, font : Fonts \ {"CUSTOM"}]

\* exportJson: the font of a user is exported as SYSTEM
exportJson(s) == [s EXCEPT !.font = IF s.font = "CUSTOM" THEN "SYSTEM" ELSE s.font]

\* What survives an export and a restore: all but the font
Portable(s) == [core |-> s.core, look |-> s.look]

\* A snapshot has files (None: not in it) and exported settings
ASSUME BackupsAssumption == Backups \subseteq [files : Card, settings : Exports]
ASSUME ContentsAssumption == None \notin Contents

\* A file belongs to one of four categories; settings and customization are two more
ASSUME WishesAssumption ==
  Wishes \subseteq [files : SUBSET Files, settings : BOOLEAN, customization : BOOLEAN]

\* The files of the snapshot that are in those categories
Changes(b, w) == {f \in w.files : b.files[f] # None}
=============================================================================
