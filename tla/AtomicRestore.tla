--------------------------- MODULE AtomicRestore ---------------------------
(***************************************************************************)
(* What a restore from a Drive backup promises: files and settings become  *)
(* those of the snapshot, as far as the user asked for them, in one step,  *)
(* or nothing happens.  Nothing is promised of a file that a title saves   *)
(* while a restore is about to change it (raced), nor of settings that     *)
(* were set but not yet written when the process died (lost).              *)
(***************************************************************************)
EXTENDS Naturals, RestoreData

VARIABLES card,    \* the contents of every file
          prefs,   \* the settings without the font
          raced,   \* files a title saved although the restore changes them
          lost     \* groups of settings that died before they were written

avars == <<card, prefs, raced, lost>>

AInit ==
  /\ card \in Card
  /\ prefs \in [core : Cores, look : Looks]
  /\ raced = {} /\ lost = {}

\* A new restore begins: what happened beside earlier ones is past
Begins ==
  /\ raced' = {} /\ lost' = {}
  /\ UNCHANGED <<card, prefs>>

Restored(b, w) ==
  /\ \A f \in Files \ raced : card'[f] = IF f \in Changes(b, w) THEN b.files[f] ELSE card[f]
  /\ prefs' = [core |-> IF w.settings THEN b.settings.core ELSE prefs.core,
               look |-> IF w.customization THEN b.settings.look ELSE prefs.look]
  /\ UNCHANGED <<raced, lost>>

Saved(f, c) ==
  /\ card' = [card EXCEPT ![f] = c]
  /\ UNCHANGED <<prefs, raced, lost>>

\* A save meets a restore: that file, and none else, may end up either way
Races ==
  /\ raced \subseteq raced'
  /\ \A f \in Files \ raced' : card'[f] = card[f]
  /\ UNCHANGED <<prefs, lost>>

\* The process dies between two restores: settings not yet written, and none else, are lost
Dies ==
  /\ lost \subseteq lost'
  /\ "core" \notin lost' => prefs'.core = prefs.core
  /\ "look" \notin lost' => prefs'.look = prefs.look
  /\ UNCHANGED <<card, raced>>

ANext ==
  \/ Begins \/ Races \/ Dies
  \/ \E b \in Backups, w \in Wishes : Restored(b, w)
  \/ \E f \in Files, c \in Contents : Saved(f, c)

ASpec == AInit /\ [][ANext]_avars
=============================================================================
