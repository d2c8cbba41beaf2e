------------------------------ MODULE SaveSlot ------------------------------
(***************************************************************************)
(* The files of one numbered save-state slot: how capture_slot of          *)
(* android/src/save_states.cpp publishes a new payload, how a slot is      *)
(* found and verified, and how SaveStateRepository.delete of the app       *)
(* removes it.  Every step is one change of the file system, so a crash,   *)
(* a failed write or a delete by the app may come between any two.         *)
(*   file[v]      the payload file of variant v (slotN.SAVESTAT.zst, .gz   *)
(*                or no extension), None when there is none                *)
(*   manifest[v]  the records of the .integrity file next to it, {} when   *)
(*                there is none or it cannot be read                       *)
(*   cap, del     the running capture and the running delete               *)
(* A record is the size and digest of a payload: the payload stands for it.*)
(* fs::pending_file writes a temporary file, syncs it and renames it, so a *)
(* file is replaced as a whole or not at all; temporary files are left out.*)
(***************************************************************************)
EXTENDS Naturals, Sequences, FiniteSets

CONSTANTS Payloads,  \* complete save states, as the core writes them
          Junk,      \* the contents of a damaged file
          None,
          Overlap    \* may a delete by the app run during a capture?

ASSUME PayloadsAssumption == Junk \notin Payloads /\ None \notin Payloads /\ Junk # None
ASSUME OverlapAssumption == Overlap \in BOOLEAN

Variants == {"zst", "gz", "raw"}

ASSUME NoneAssumption == None \notin Variants

VARIABLES file, manifest, cap, del,
          promised   \* history: the payload that a load of the slot has to give

vars == <<file, manifest, cap, del, promised>>

Contents == Payloads \cup {Junk}

\* The obsolete files in the order in which capture_slot removes them, the
\* files of a slot in the order in which delete does
Obsolete == <<<<"file", "gz">>, <<"manifest", "gz">>, <<"file", "raw">>, <<"manifest", "raw">>>>
Deleted == <<<<"file", "zst">>, <<"file", "gz">>, <<"file", "raw">>,
             <<"manifest", "zst">>, <<"manifest", "gz">>, <<"manifest", "raw">>>>

NoCapture == [pc |-> "idle", cand |-> None, accepted |-> {}, next |-> 1]
NoDelete == 0

\* The files of the slot, and the capture and the delete under way, keep their types.
TypeOK ==
  /\ file \in [Variants -> Contents \cup {None}]
  /\ manifest \in [Variants -> SUBSET Contents]
  /\ cap \in [pc : {"idle", "copied", "checked", "published", "committed", "cleaning"},
              cand : Payloads \cup {None}, accepted : SUBSET Contents, next : 1..4]
  /\ del \in 0..6
  /\ promised \in Payloads \cup {None}

-----------------------------------------------------------------------------
\* find_slot: the first variant that exists, None when there is none
find_slot == IF file["zst"] # None THEN "zst"
             ELSE IF file["gz"] # None THEN "gz"
             ELSE IF file["raw"] # None THEN "raw" ELSE None

\* verified_payload: the manifest has a record of the payload
verified_payload(v) == file[v] # None /\ file[v] \in manifest[v]

\* Loading the slot gives payload p: it is found and validate_slot_file accepts it
Loads(p) == /\ find_slot # None
            /\ file[find_slot] = p
            /\ verified_payload(find_slot)

\* No slot yet, or one that was saved as variant v with its manifest
Init ==
  /\ \E v \in Variants, p \in Payloads \cup {None} :
       /\ file = [w \in Variants |-> IF w = v THEN p ELSE None]
       /\ manifest = [w \in Variants |-> IF w = v /\ p # None THEN {p} ELSE {}]
       /\ promised = p
  /\ cap = NoCapture
  /\ del = NoDelete

-----------------------------------------------------------------------------
\* capture_slot up to hash_payload: the core's completed state p is copied to
\* the pending output
CaptureCopy(p) ==
  /\ cap.pc = "idle"
  /\ Overlap \/ del = NoDelete
  /\ cap' = [NoCapture EXCEPT !.pc = "copied", !.cand = p]
  /\ UNCHANGED <<file, manifest, del, promised>>

\* Mutant: records the file that is there without verifying it first
CaptureCheck_Blesses ==
  /\ cap.pc = "copied"
  /\ cap' = [cap EXCEPT !.pc = "checked",
                        !.accepted = {cap.cand} \cup ({file["zst"]} \ {None})]
  /\ UNCHANGED <<file, manifest, del, promised>>

\* Mutant: the new manifest only lists the new payload
CaptureCheck_DropsPrevious ==
  /\ cap.pc = "copied"
  /\ file["zst"] = None \/ verified_payload("zst")
  /\ cap' = [cap EXCEPT !.pc = "checked", !.accepted = {cap.cand}]
  /\ UNCHANGED <<file, manifest, del, promised>>

\* The records to accept: the candidate, and the previous payload, which its
\* own manifest must authenticate
CaptureCheck ==
  /\ cap.pc = "copied"
  /\ file["zst"] = None \/ verified_payload("zst")
  /\ cap' = [cap EXCEPT !.pc = "checked",
                        !.accepted = {cap.cand} \cup ({file["zst"]} \ {None})]
  /\ UNCHANGED <<file, manifest, del, promised>>

\* write_integrity(destination, accepted)
CapturePublish ==
  /\ cap.pc = "checked"
  /\ manifest' = [manifest EXCEPT !["zst"] = cap.accepted]
  /\ cap' = [cap EXCEPT !.pc = "published"]
  /\ UNCHANGED <<file, del, promised>>

\* output.commit().  A delete that runs meanwhile may take the new file too
CaptureCommit ==
  /\ cap.pc = "published"
  /\ file' = [file EXCEPT !["zst"] = cap.cand]
  /\ cap' = [cap EXCEPT !.pc = "committed"]
  /\ promised' = IF del = NoDelete THEN cap.cand ELSE None
  /\ UNCHANGED <<manifest, del>>

\* A capture that fails before the commit returns false
CaptureFail ==
  /\ cap.pc \in {"copied", "checked", "published"}
  /\ cap' = NoCapture
  /\ UNCHANGED <<file, manifest, del, promised>>

\* The second write_integrity, which may fail
CaptureCompact ==
  /\ cap.pc = "committed"
  /\ \/ manifest' = [manifest EXCEPT !["zst"] = IF Cardinality(cap.accepted) > 1
                                                THEN {cap.cand} ELSE @]
     \/ UNCHANGED manifest
  /\ cap' = [cap EXCEPT !.pc = "cleaning"]
  /\ UNCHANGED <<file, del, promised>>

\* Removes a file of the slot
Remove(f) ==
  \/ /\ f[1] = "file"
     /\ file' = [file EXCEPT ![f[2]] = None]
     /\ UNCHANGED manifest
  \/ /\ f[1] = "manifest"
     /\ manifest' = [manifest EXCEPT ![f[2]] = {}]
     /\ UNCHANGED file

\* Removing the obsolete variants.  A file that cannot be removed stays; the
\* capture returns true after the last one
CaptureClean ==
  /\ cap.pc = "cleaning"
  /\ Remove(Obsolete[cap.next]) \/ UNCHANGED <<file, manifest>>
  /\ cap' = IF cap.next = Len(Obsolete) THEN NoCapture ELSE [cap EXCEPT !.next = @ + 1]
  /\ UNCHANGED <<del, promised>>

-----------------------------------------------------------------------------
\* SaveStateRepository.delete: from its call nothing is promised of the slot
DeleteCall ==
  /\ del = NoDelete
  /\ Overlap \/ cap.pc = "idle"
  /\ del' = 1
  /\ promised' = None
  /\ UNCHANGED <<file, manifest, cap>>

\* Mutant: a payload that cannot be removed does not stop the delete
DeleteStep_GoesOn ==
  /\ del # NoDelete
  /\ Remove(Deleted[del]) \/ UNCHANGED <<file, manifest>>
  /\ del' = IF del = Len(Deleted) THEN NoDelete ELSE del + 1
  /\ UNCHANGED <<cap, promised>>

\* Mutant: tries one file too many
DeleteStep_OneMore ==
  /\ del # NoDelete
  /\ \/ /\ Remove(Deleted[del])
        /\ del' = IF del > Len(Deleted) THEN NoDelete ELSE del + 1
     \/ /\ UNCHANGED <<file, manifest>>
        /\ del' = IF Deleted[del][1] = "file" THEN NoDelete ELSE del + 1
  /\ UNCHANGED <<cap, promised>>

\* One file.  When a payload cannot be removed delete returns false at once; a
\* manifest that cannot be removed stays
DeleteStep ==
  /\ del # NoDelete
  /\ \/ /\ Remove(Deleted[del])
        /\ del' = IF del = Len(Deleted) THEN NoDelete ELSE del + 1
     \/ /\ UNCHANGED <<file, manifest>>
        /\ del' = IF Deleted[del][1] = "file" \/ del = Len(Deleted) THEN NoDelete ELSE del + 1
  /\ UNCHANGED <<cap, promised>>

\* The process dies: the files stay, the running calls are gone
Crash ==
  /\ cap.pc # "idle" \/ del # NoDelete
  /\ cap' = NoCapture
  /\ del' = NoDelete
  /\ UNCHANGED <<file, manifest, promised>>

\* A payload is damaged on the storage at any time, or a manifest at rest
Damage(v) ==
  /\ file[v] # None
  /\ \/ file' = [file EXCEPT ![v] = Junk] /\ UNCHANGED manifest
     \/ cap.pc = "idle" /\ manifest' = [manifest EXCEPT ![v] = {}] /\ UNCHANGED file
  /\ promised' = IF v = find_slot THEN None ELSE promised
  /\ UNCHANGED <<cap, del>>

Next ==
  \/ \E p \in Payloads : CaptureCopy(p)
  \/ CaptureCheck
  \/ CapturePublish
  \/ CaptureCommit
  \/ CaptureFail
  \/ CaptureCompact
  \/ CaptureClean
  \/ DeleteCall
  \/ DeleteStep
  \/ Crash
  \/ \E v \in Variants : Damage(v)

Spec == Init /\ [][Next]_vars

-----------------------------------------------------------------------------
\* What capture_slot promises ("A short write or failed rename must leave the
\* previous slot intact"): wherever a capture fails or the process dies, the
\* slot still loads, with the payload of the last commit.
SlotLoads == promised # None => Loads(promised)

\* A damaged payload is never authenticated by its manifest, however many
\* captures overwrite the slot ("Never bless an existing, potentially damaged
\* file by freshly hashing it").
DamageNeverLoads == \A v \in Variants : file[v] = Junk => ~verified_payload(v)

\* A delete that stops half way, because a payload cannot be removed or the
\* process dies, never leaves a payload behind without its manifest: it takes
\* the manifests only when every payload is gone.
DeleteNeverStrips ==
  [][DeleteStep => \A v \in Variants :
       verified_payload(v) => file'[v] = None \/ file'[v] \in manifest'[v]]_vars

-----------------------------------------------------------------------------
\* What a running capture knows of the files, step by step: a previous payload
\* stays in the slot until the commit, damaged or not, and the records that
\* are published cover it and the candidate.
CaptureInv ==
  /\ cap.pc # "idle" => cap.cand \in Payloads /\ del = NoDelete
  /\ cap.pc \in {"checked", "published"} =>
       cap.cand \in cap.accepted /\ file["zst"] \in cap.accepted \cup {None, Junk}
  /\ cap.pc = "published" => manifest["zst"] = cap.accepted
  /\ cap.pc \in {"committed", "cleaning"} =>
       cap.cand \in manifest["zst"] /\ file["zst"] \in {cap.cand, Junk}

\* No record of a damaged payload is written or about to be
RecordInv == Junk \notin cap.accepted /\ \A v \in Variants : Junk \notin manifest[v]

\* With a delete at any time as well, a capture still has a payload of the core's, and
\* records nothing else: why no damaged payload is ever authenticated.
BlessInv == TypeOK /\ RecordInv /\ (cap.pc # "idle" => cap.cand \in Payloads)

\* A running delete has removed the payloads before the one it is at
DeleteInv ==
  /\ del # NoDelete => promised = None
  /\ del > 1 => file["zst"] = None
  /\ del > 2 => file["gz"] = None
  /\ del > 3 => file["raw"] = None

\* The inductive invariant of a slot whose deletes do not overlap captures:
\* why the slot loads at every step of a capture, and after a crash at any.
IInv == TypeOK /\ SlotLoads /\ CaptureInv /\ RecordInv /\ DeleteInv

=============================================================================
