--------------------------- MODULE SaveSlotProofs ---------------------------
(***************************************************************************)
(* The invariants of a save-state slot, for any set of payloads.  That     *)
(* damage is not blessed holds even if a delete overlaps a capture; that   *)
(* the slot loads, when none does.                                         *)
(***************************************************************************)
EXTENDS SaveSlot, TLAPS

\* The obsolete files are the gz and raw variants: cleaning spares zst
LEMMA ObsoleteFiles ==
  ASSUME NEW i \in 1..4
  PROVE  /\ Len(Obsolete) = 4
         /\ Obsolete[i][1] \in {"file", "manifest"}
         /\ Obsolete[i][2] \in {"gz", "raw"}
<1>1. i = 1 \/ i = 2 \/ i = 3 \/ i = 4
  OBVIOUS
<1>2. QED
  BY <1>1 DEF Obsolete

\* A delete takes the three payloads first
LEMMA DeletedFiles ==
  /\ Len(Deleted) = 6
  /\ Deleted[1] = <<"file", "zst">>
  /\ Deleted[2] = <<"file", "gz">>
  /\ Deleted[3] = <<"file", "raw">>
  /\ \A i \in 4..6 : Deleted[i][1] = "manifest" /\ Deleted[i][2] \in Variants
<1>1. \A i \in 4..6 : i = 4 \/ i = 5 \/ i = 6
  OBVIOUS
<1>2. QED
  BY <1>1 DEF Deleted, Variants

\* Removing a file leaves the types and writes no record
LEMMA RemoveTypes ==
  ASSUME TypeOK, RecordInv, NEW f, f[2] \in Variants, Remove(f)
  PROVE  /\ file' \in [Variants -> Contents \cup {None}]
         /\ manifest' \in [Variants -> SUBSET Contents]
         /\ \A v \in Variants : Junk \notin manifest'[v]
         /\ \A v \in Variants : file'[v] \in {file[v], None}
         /\ \A v \in Variants : v # f[2] => file'[v] = file[v] /\ manifest'[v] = manifest[v]
BY DEF TypeOK, RecordInv, Remove

LEMMA InitIInv == Init => IInv
<1> SUFFICES ASSUME Init PROVE IInv
  OBVIOUS
<1>1. PICK v \in Variants, p \in Payloads \cup {None} :
        /\ file = [w \in Variants |-> IF w = v THEN p ELSE None]
        /\ manifest = [w \in Variants |-> IF w = v /\ p # None THEN {p} ELSE {}]
        /\ promised = p
  BY Zenon DEF Init
<1>2. cap = NoCapture /\ del = 0
  BY DEF Init, NoDelete
<1>3. TypeOK
  BY <1>1, <1>2 DEF TypeOK, NoCapture, Contents
<1>4. SlotLoads
  BY <1>1, PayloadsAssumption, NoneAssumption
  DEF SlotLoads, Loads, find_slot, verified_payload, Variants
<1>5. CaptureInv /\ DeleteInv
  BY <1>2 DEF CaptureInv, DeleteInv, NoCapture, NoDelete
<1>6. RecordInv
  BY <1>1, <1>2, PayloadsAssumption DEF RecordInv, NoCapture
<1>7. QED
  BY <1>3, <1>4, <1>5, <1>6 DEF IInv

\* The actions of a capture before the commit.  Nothing but the manifest of the
\* zst variant changes, and only to one that still covers the payload there.
LEMMA CopyStep ==
  ASSUME IInv, Overlap = FALSE, NEW p \in Payloads, CaptureCopy(p)
  PROVE  IInv'
<1>1. cap' = [pc |-> "copied", cand |-> p, accepted |-> {}, next |-> 1] /\ del = 0
  BY Zenon DEF CaptureCopy, NoCapture, NoDelete
<1>2. UNCHANGED <<file, manifest, del, promised>>
  BY DEF CaptureCopy
<1>3. TypeOK'
  BY <1>1, <1>2 DEF IInv, TypeOK
<1>4. SlotLoads' /\ DeleteInv'
  BY <1>2 DEF IInv, SlotLoads, Loads, find_slot, verified_payload, DeleteInv
<1>5. CaptureInv' /\ RecordInv'
  BY <1>1, <1>2 DEF IInv, CaptureInv, RecordInv, NoDelete
<1>6. QED
  BY <1>3, <1>4, <1>5 DEF IInv

LEMMA CheckStep ==
  ASSUME IInv, CaptureCheck
  PROVE  IInv'
<1> DEFINE acc == {cap.cand} \cup ({file["zst"]} \ {None})
<1>1. cap' = [cap EXCEPT !.pc = "checked", !.accepted = acc] /\ cap.pc = "copied"
  BY DEF CaptureCheck
<1>2. UNCHANGED <<file, manifest, del, promised>>
  BY DEF CaptureCheck
<1>3. cap.cand \in Payloads /\ del = NoDelete
  BY <1>1 DEF IInv, CaptureInv
<1>4. file["zst"] \in Contents \cup {None}
  BY DEF IInv, TypeOK, Variants
<1>5. Junk \notin acc
  BY <1>3, PayloadsAssumption DEF CaptureCheck, verified_payload, IInv, RecordInv, Variants
<1>6. acc \subseteq Contents
  BY <1>3, <1>4 DEF Contents
<1>7. TypeOK'
  BY <1>1, <1>2, <1>6, Zenon DEF IInv, TypeOK
<1>8. SlotLoads' /\ DeleteInv'
  BY <1>2 DEF IInv, SlotLoads, Loads, find_slot, verified_payload, DeleteInv
<1>9. cap'.pc = "checked" /\ cap'.cand = cap.cand /\ cap'.accepted = acc
  BY <1>1 DEF IInv, TypeOK
<1>10. CaptureInv' /\ RecordInv'
  BY <1>2, <1>3, <1>5, <1>9 DEF IInv, CaptureInv, RecordInv
<1>11. QED
  BY <1>7, <1>8, <1>10 DEF IInv

LEMMA PublishStep ==
  ASSUME IInv, CapturePublish
  PROVE  IInv'
<1>1. /\ cap.pc = "checked"
      /\ manifest' = [manifest EXCEPT !["zst"] = cap.accepted]
      /\ cap' = [cap EXCEPT !.pc = "published"]
      /\ UNCHANGED <<file, del, promised>>
  BY DEF CapturePublish
<1>2. /\ cap.cand \in cap.accepted /\ file["zst"] \in cap.accepted \cup {None, Junk}
      /\ cap.cand \in Payloads /\ del = NoDelete
  BY <1>1 DEF IInv, CaptureInv
<1>3. cap'.pc = "published" /\ cap'.cand = cap.cand /\ cap'.accepted = cap.accepted
  BY <1>1 DEF IInv, TypeOK
<1>4. /\ manifest'["zst"] = cap.accepted
      /\ \A v \in Variants : v # "zst" => manifest'[v] = manifest[v]
  BY <1>1 DEF IInv, TypeOK, Variants
<1>5. TypeOK'
  BY <1>1, Zenon DEF IInv, TypeOK
<1>6. SlotLoads'
  <2>1. promised # None => promised \in Payloads
    BY DEF IInv, TypeOK
  <2>2. QED
    BY <1>1, <1>2, <1>4, <2>1, PayloadsAssumption, NoneAssumption
    DEF IInv, SlotLoads, Loads, find_slot, verified_payload, Variants
<1>7. CaptureInv' /\ DeleteInv'
  BY <1>1, <1>2, <1>3, <1>4 DEF IInv, CaptureInv, DeleteInv
<1>8. RecordInv'
  BY <1>3, <1>4 DEF IInv, RecordInv
<1>9. QED
  BY <1>5, <1>6, <1>7, <1>8 DEF IInv

LEMMA CommitStep ==
  ASSUME IInv, CaptureCommit
  PROVE  IInv'
<1>1. /\ cap.pc = "published"
      /\ file' = [file EXCEPT !["zst"] = cap.cand]
      /\ cap' = [cap EXCEPT !.pc = "committed"]
      /\ promised' = IF del = NoDelete THEN cap.cand ELSE None
      /\ UNCHANGED <<manifest, del>>
  BY DEF CaptureCommit
<1>2. /\ cap.cand \in Payloads /\ del = NoDelete
      /\ cap.cand \in manifest["zst"]
  BY <1>1 DEF IInv, CaptureInv
<1>3. cap'.pc = "committed" /\ cap'.cand = cap.cand /\ cap'.accepted = cap.accepted
  BY <1>1 DEF IInv, TypeOK
<1>4. file'["zst"] = cap.cand
  BY <1>1 DEF IInv, TypeOK, Variants
<1>5. TypeOK'
  BY <1>1, <1>2, Zenon DEF IInv, TypeOK, Contents
<1>6. SlotLoads'
  BY <1>1, <1>2, <1>4, PayloadsAssumption, NoneAssumption
  DEF SlotLoads, Loads, find_slot, verified_payload, Variants
<1>7. CaptureInv' /\ RecordInv'
  BY <1>1, <1>2, <1>3, <1>4 DEF IInv, CaptureInv, RecordInv
<1>8. DeleteInv'
  BY <1>1, <1>2 DEF DeleteInv, NoDelete
<1>9. QED
  BY <1>5, <1>6, <1>7, <1>8 DEF IInv

\* A capture that fails and a crash leave the files
LEMMA StopStep ==
  ASSUME IInv, CaptureFail \/ Crash
  PROVE  IInv'
<1>1. /\ cap' = NoCapture /\ del' \in {del, NoDelete}
      /\ UNCHANGED <<file, manifest, promised>>
  BY DEF CaptureFail, Crash
<1>2. TypeOK'
  BY <1>1 DEF IInv, TypeOK, NoCapture, NoDelete
<1>3. SlotLoads'
  BY <1>1 DEF IInv, SlotLoads, Loads, find_slot, verified_payload
<1>4. CaptureInv' /\ RecordInv'
  BY <1>1 DEF IInv, CaptureInv, RecordInv, NoCapture
<1>5. DeleteInv'
  BY <1>1 DEF IInv, DeleteInv, NoDelete
<1>6. QED
  BY <1>2, <1>3, <1>4, <1>5 DEF IInv

LEMMA CompactStep ==
  ASSUME IInv, CaptureCompact
  PROVE  IInv'
<1>1. /\ cap.pc = "committed"
      /\ \/ manifest' = [manifest EXCEPT !["zst"] = {cap.cand}]
         \/ manifest' = manifest
      /\ cap' = [cap EXCEPT !.pc = "cleaning"]
      /\ UNCHANGED <<file, del, promised>>
  <2>1. manifest = [manifest EXCEPT !["zst"] = @]
    BY DEF IInv, TypeOK
  <2>2. QED
    BY <2>1 DEF CaptureCompact
<1>2. /\ cap.cand \in Payloads /\ del = NoDelete
      /\ cap.cand \in manifest["zst"] /\ file["zst"] \in {cap.cand, Junk}
  BY <1>1 DEF IInv, CaptureInv
<1>3. cap'.pc = "cleaning" /\ cap'.cand = cap.cand /\ cap'.accepted = cap.accepted
  BY <1>1 DEF IInv, TypeOK
<1>4. /\ manifest'["zst"] \in {manifest["zst"], {cap.cand}}
      /\ \A v \in Variants : v # "zst" => manifest'[v] = manifest[v]
  BY <1>1 DEF IInv, TypeOK, Variants
<1>5. TypeOK'
  BY <1>1, <1>2 DEF IInv, TypeOK, Contents
<1>6. SlotLoads'
  <2>1. promised # None => promised \in Payloads
    BY DEF IInv, TypeOK
  <2>2. QED
    BY <1>1, <1>2, <1>4, <2>1, PayloadsAssumption, NoneAssumption
    DEF IInv, SlotLoads, Loads, find_slot, verified_payload, Variants
<1>7. CaptureInv' /\ DeleteInv'
  BY <1>1, <1>2, <1>3, <1>4 DEF IInv, CaptureInv, DeleteInv
<1>8. RecordInv'
  BY <1>2, <1>3, <1>4, PayloadsAssumption DEF IInv, RecordInv
<1>9. QED
  BY <1>5, <1>6, <1>7, <1>8 DEF IInv

\* Cleaning spares the zst variant, which is the one a load finds
LEMMA CleanStep ==
  ASSUME IInv, CaptureClean
  PROVE  IInv'
<1>1. cap.pc = "cleaning" /\ UNCHANGED <<del, promised>>
  BY DEF CaptureClean
<1>2. /\ cap.cand \in Payloads /\ del = NoDelete
      /\ cap.cand \in manifest["zst"] /\ file["zst"] \in {cap.cand, Junk}
  BY <1>1 DEF IInv, CaptureInv
<1>3. cap.next \in 1..4
  BY DEF IInv, TypeOK
<1>4. /\ Len(Obsolete) = 4
      /\ Obsolete[cap.next][2] \in {"gz", "raw"}
  BY <1>3, ObsoleteFiles
<1>5. /\ file' \in [Variants -> Contents \cup {None}]
      /\ manifest' \in [Variants -> SUBSET Contents]
      /\ \A v \in Variants : Junk \notin manifest'[v]
      /\ file'["zst"] = file["zst"] /\ manifest'["zst"] = manifest["zst"]
  <2>1. CASE Remove(Obsolete[cap.next])
    BY <1>4, <2>1, RemoveTypes DEF IInv, Variants
  <2>2. CASE UNCHANGED <<file, manifest>>
    BY <2>2 DEF IInv, TypeOK, RecordInv
  <2>3. QED
    BY <2>1, <2>2 DEF CaptureClean
<1>6. cap' = NoCapture \/ (cap' = [cap EXCEPT !.next = cap.next + 1] /\ cap.next + 1 \in 1..4)
  BY <1>3, <1>4 DEF CaptureClean
<1>7. TypeOK'
  BY <1>1, <1>5, <1>6 DEF IInv, TypeOK, NoCapture
<1>8. SlotLoads'
  BY <1>1, <1>2, <1>5, PayloadsAssumption, NoneAssumption
  DEF IInv, SlotLoads, Loads, find_slot, verified_payload, Variants
<1>9. CaptureInv' /\ RecordInv'
  <2>1. CASE cap' = NoCapture
    BY <1>5, <2>1 DEF CaptureInv, RecordInv, NoCapture
  <2>2. CASE cap' = [cap EXCEPT !.next = cap.next + 1]
    <3>1. cap'.pc = cap.pc /\ cap'.cand = cap.cand /\ cap'.accepted = cap.accepted
      BY <2>2 DEF IInv, TypeOK
    <3>2. QED
      BY <1>1, <1>2, <1>5, <3>1 DEF IInv, CaptureInv, RecordInv
  <2>3. QED
    BY <1>6, <2>1, <2>2
<1>10. DeleteInv'
  BY <1>1, <1>2 DEF DeleteInv, NoDelete
<1>11. QED
  BY <1>7, <1>8, <1>9, <1>10 DEF IInv

LEMMA DeleteCallStep ==
  ASSUME IInv, Overlap = FALSE, DeleteCall
  PROVE  IInv'
<1>1. cap.pc = "idle" /\ del' = 1 /\ promised' = None /\ UNCHANGED <<file, manifest, cap>>
  BY DEF DeleteCall
<1>2. QED
  BY <1>1 DEF IInv, TypeOK, SlotLoads, CaptureInv, RecordInv, DeleteInv

\* A delete is at payload del, or every payload is gone
LEMMA DeleteStepStep ==
  ASSUME IInv, DeleteStep
  PROVE  IInv'
<1>1. del \in 1..6 /\ promised = None /\ promised' = None /\ cap' = cap
  BY DEF DeleteStep, IInv, TypeOK, DeleteInv, NoDelete
<1>2. cap.pc = "idle"
  BY <1>1 DEF IInv, CaptureInv, NoDelete
<1>3. Deleted[del][2] \in Variants
  <2>1. del = 1 \/ del = 2 \/ del = 3 \/ del \in 4..6
    BY <1>1
  <2>2. QED
    BY <2>1, DeletedFiles DEF Variants
<1>4. /\ file' \in [Variants -> Contents \cup {None}]
      /\ manifest' \in [Variants -> SUBSET Contents]
      /\ \A v \in Variants : Junk \notin manifest'[v]
      /\ \A v \in Variants : file'[v] \in {file[v], None}
  <2>1. CASE Remove(Deleted[del])
    BY <1>3, <2>1, RemoveTypes DEF IInv
  <2>2. CASE UNCHANGED <<file, manifest>>
    BY <2>2 DEF IInv, TypeOK, RecordInv
  <2>3. QED
    BY <2>1, <2>2 DEF DeleteStep
<1>5. del' = 0 \/ (del' = del + 1 /\ del < 6)
  BY <1>1, DeletedFiles DEF DeleteStep, NoDelete
<1>6. del' = del + 1 => /\ del = 1 => file'["zst"] = None
                        /\ del = 2 => file'["gz"] = None
                        /\ del = 3 => file'["raw"] = None
  BY <1>1, DeletedFiles DEF DeleteStep, NoDelete, Remove, IInv, TypeOK, Variants
<1>7. TypeOK'
  BY <1>1, <1>4, <1>5 DEF IInv, TypeOK
<1>8. SlotLoads' /\ CaptureInv' /\ RecordInv'
  BY <1>1, <1>2, <1>4 DEF IInv, SlotLoads, CaptureInv, RecordInv
<1>9. DeleteInv'
  BY <1>1, <1>4, <1>5, <1>6 DEF IInv, DeleteInv, NoDelete, Variants
<1>10. QED
  BY <1>7, <1>8, <1>9 DEF IInv

LEMMA DamageStep ==
  ASSUME IInv, NEW v \in Variants, Damage(v)
  PROVE  IInv'
<1>1. /\ file[v] # None /\ UNCHANGED <<cap, del>>
      /\ promised' = IF v = find_slot THEN None ELSE promised
      /\ \/ file' = [file EXCEPT ![v] = Junk] /\ manifest' = manifest
         \/ cap.pc = "idle" /\ manifest' = [manifest EXCEPT ![v] = {}] /\ file' = file
  BY DEF Damage
<1>2. TypeOK'
  BY <1>1 DEF IInv, TypeOK, Contents
<1>3. /\ \A w \in Variants : w # v => file'[w] = file[w] /\ manifest'[w] = manifest[w]
      /\ file'[v] \in {file[v], Junk}
      /\ manifest'[v] \in {manifest[v], {}}
      /\ cap.pc # "idle" => manifest' = manifest
  BY <1>1 DEF IInv, TypeOK
<1>4. SlotLoads'
  BY <1>1, <1>3, PayloadsAssumption, NoneAssumption
  DEF IInv, SlotLoads, Loads, find_slot, verified_payload, Variants
<1>5. CaptureInv'
  BY <1>1, <1>3 DEF IInv, CaptureInv, Variants
<1>6. RecordInv'
  BY <1>1, <1>3 DEF IInv, RecordInv
<1>7. DeleteInv'
  BY <1>1, <1>3 DEF IInv, DeleteInv, Variants
<1>8. QED
  BY <1>2, <1>4, <1>5, <1>6, <1>7 DEF IInv

LEMMA NextIInv ==
  ASSUME IInv, Overlap = FALSE, [Next]_vars
  PROVE  IInv'
<1>1. ASSUME NEW p \in Payloads, CaptureCopy(p) PROVE IInv'
  BY <1>1, CopyStep, Zenon
<1>2. CASE CaptureCheck
  BY <1>2, CheckStep
<1>3. CASE CapturePublish
  BY <1>3, PublishStep
<1>4. CASE CaptureCommit
  BY <1>4, CommitStep
<1>5. CASE CaptureFail \/ Crash
  BY <1>5, StopStep
<1>6. CASE CaptureCompact
  BY <1>6, CompactStep
<1>7. CASE CaptureClean
  BY <1>7, CleanStep
<1>8. CASE DeleteCall
  BY <1>8, DeleteCallStep
<1>9. CASE DeleteStep
  BY <1>9, DeleteStepStep
<1>10. ASSUME NEW v \in Variants, Damage(v) PROVE IInv'
  BY <1>10, DamageStep
<1>11. CASE UNCHANGED vars
  BY <1>11 DEF vars, IInv, TypeOK, SlotLoads, Loads, find_slot, verified_payload,
               CaptureInv, RecordInv, DeleteInv
<1>12. QED
  BY <1>1, <1>2, <1>3, <1>4, <1>5, <1>6, <1>7, <1>8, <1>9, <1>10, <1>11 DEF Next

\* IInv, the inductive invariant of capture_slot and delete, holds always when
\* no delete overlaps a capture.
THEOREM SlotInductive == Overlap = FALSE /\ Spec => []IInv
<1> SUFFICES ASSUME Overlap = FALSE PROVE Spec => []IInv
  OBVIOUS
<1>1. IInv /\ [Next]_vars => IInv'
  BY NextIInv
<1>2. QED
  BY <1>1, InitIInv, PTL DEF Spec

\* Wherever capture_slot fails or the process dies, the slot loads the payload
\* of its last commit.
THEOREM SlotAlwaysLoads == Overlap = FALSE /\ Spec => []SlotLoads
<1>1. IInv => SlotLoads
  BY DEF IInv
<1>2. QED
  BY <1>1, SlotInductive, PTL

\* No action writes a record of a damaged payload, also when a delete overlaps a capture.
LEMMA BlessStep ==
  ASSUME BlessInv, [Next]_vars
  PROVE  BlessInv'
<1>0. TypeOK /\ RecordInv /\ (cap.pc # "idle" => cap.cand \in Payloads)
  BY DEF BlessInv
<1>1. ASSUME NEW p \in Payloads, CaptureCopy(p) PROVE BlessInv'
  <2>1. /\ cap' = [pc |-> "copied", cand |-> p, accepted |-> {}, next |-> 1]
        /\ UNCHANGED <<file, manifest, del, promised>>
    BY <1>1, Zenon DEF CaptureCopy, NoCapture
  <2> QED BY <1>0, <2>1 DEF BlessInv, TypeOK, RecordInv
<1>2. CASE CaptureCheck
  <2> DEFINE acc == {cap.cand} \cup ({file["zst"]} \ {None})
  <2>1. /\ cap' = [cap EXCEPT !.pc = "checked", !.accepted = acc] /\ cap.pc = "copied"
        /\ UNCHANGED <<file, manifest, del, promised>>
    BY <1>2 DEF CaptureCheck
  <2>2. cap.cand \in Payloads /\ file["zst"] \in Contents \cup {None}
    BY <1>0, <2>1 DEF TypeOK, Variants
  <2>3. acc \subseteq Contents /\ Junk \notin acc
    BY <1>0, <1>2, <2>2, PayloadsAssumption
    DEF CaptureCheck, verified_payload, RecordInv, Variants, Contents
  <2> HIDE DEF acc
  <2>4. TypeOK'
    BY <1>0, <2>1, <2>3, Zenon DEF TypeOK
  <2>5. cap'.cand = cap.cand /\ cap'.accepted = acc
    BY <1>0, <2>1 DEF TypeOK
  <2> QED BY <1>0, <2>1, <2>2, <2>3, <2>4, <2>5 DEF BlessInv, RecordInv
<1>3. CASE CapturePublish
  <2>1. /\ cap.pc = "checked" /\ manifest' = [manifest EXCEPT !["zst"] = cap.accepted]
        /\ cap' = [cap EXCEPT !.pc = "published"] /\ UNCHANGED <<file, del, promised>>
    BY <1>3 DEF CapturePublish
  <2>2. TypeOK'
    BY <1>0, <2>1, Zenon DEF TypeOK
  <2>3. cap'.cand = cap.cand /\ cap'.accepted = cap.accepted
    BY <1>0, <2>1 DEF TypeOK
  <2>4. \A v \in Variants : manifest'[v] \in {manifest[v], cap.accepted}
    BY <1>0, <2>1 DEF TypeOK
  <2> QED BY <1>0, <2>1, <2>2, <2>3, <2>4 DEF BlessInv, RecordInv
<1>4. CASE CaptureCommit
  <2>1. /\ cap.pc = "published" /\ file' = [file EXCEPT !["zst"] = cap.cand]
        /\ cap' = [cap EXCEPT !.pc = "committed"]
        /\ promised' \in {cap.cand, None} /\ UNCHANGED <<manifest, del>>
    BY <1>4 DEF CaptureCommit
  <2>2. cap.cand \in Payloads
    BY <1>0, <2>1
  <2>3. TypeOK'
    BY <1>0, <2>1, <2>2, Zenon DEF TypeOK, Contents
  <2>4. cap'.cand = cap.cand /\ cap'.accepted = cap.accepted
    BY <1>0, <2>1 DEF TypeOK
  <2> QED BY <1>0, <2>1, <2>2, <2>3, <2>4 DEF BlessInv, RecordInv
<1>5. CASE CaptureFail \/ Crash
  <2>1. /\ cap' = NoCapture /\ del' \in {del, NoDelete}
        /\ UNCHANGED <<file, manifest, promised>>
    BY <1>5 DEF CaptureFail, Crash
  <2> QED BY <1>0, <2>1 DEF BlessInv, TypeOK, RecordInv, NoCapture, NoDelete
<1>6. CASE CaptureCompact
  <2>1. /\ cap.pc = "committed" /\ cap' = [cap EXCEPT !.pc = "cleaning"]
        /\ UNCHANGED <<file, del, promised>>
        /\ \/ manifest' = [manifest EXCEPT !["zst"] = {cap.cand}]
           \/ manifest' = manifest
    <3>1. manifest = [manifest EXCEPT !["zst"] = @]
      BY <1>0 DEF TypeOK
    <3> QED BY <1>6, <3>1 DEF CaptureCompact
  <2>2. cap.cand \in Payloads
    BY <1>0, <2>1
  <2>3. TypeOK'
    BY <1>0, <2>1, <2>2 DEF TypeOK, Contents
  <2>4. cap'.cand = cap.cand /\ cap'.accepted = cap.accepted
    BY <1>0, <2>1 DEF TypeOK
  <2>5. \A v \in Variants : manifest'[v] \in {manifest[v], {cap.cand}}
    BY <1>0, <2>1 DEF TypeOK
  <2> QED BY <1>0, <2>2, <2>3, <2>4, <2>5, PayloadsAssumption DEF BlessInv, RecordInv
<1>7. CASE CaptureClean
  <2>1. /\ file' \in [Variants -> Contents \cup {None}]
        /\ manifest' \in [Variants -> SUBSET Contents]
        /\ \A v \in Variants : Junk \notin manifest'[v]
    <3>1. Obsolete[cap.next][2] \in Variants
      BY <1>0, ObsoleteFiles DEF TypeOK, Variants
    <3>2. CASE Remove(Obsolete[cap.next])
      BY <1>0, <3>1, <3>2, RemoveTypes
    <3>3. CASE UNCHANGED <<file, manifest>>
      BY <1>0, <3>3 DEF TypeOK, RecordInv
    <3> QED BY <1>7, <3>2, <3>3 DEF CaptureClean
  <2>2. /\ cap.pc = "cleaning" /\ UNCHANGED <<del, promised>>
        /\ \/ cap' = NoCapture
           \/ cap' = [cap EXCEPT !.next = cap.next + 1] /\ cap.next + 1 \in 1..4
    BY <1>0, <1>7, ObsoleteFiles DEF CaptureClean, TypeOK
  <2>3. TypeOK'
    BY <1>0, <2>1, <2>2 DEF TypeOK, NoCapture
  <2>4. cap' = NoCapture \/ (cap'.cand = cap.cand /\ cap'.accepted = cap.accepted)
    BY <1>0, <2>2 DEF TypeOK
  <2> QED BY <1>0, <2>1, <2>2, <2>3, <2>4 DEF BlessInv, RecordInv, NoCapture
<1>8. CASE DeleteCall
  BY <1>0, <1>8 DEF DeleteCall, BlessInv, TypeOK, RecordInv
<1>9. CASE DeleteStep
  <2>1. del \in 1..6 /\ UNCHANGED <<cap, promised>>
    BY <1>0, <1>9 DEF DeleteStep, TypeOK, NoDelete
  <2>2. Deleted[del][2] \in Variants
    <3>1. del = 1 \/ del = 2 \/ del = 3 \/ del \in 4..6
      BY <2>1
    <3> QED BY <3>1, DeletedFiles DEF Variants
  <2>3. /\ file' \in [Variants -> Contents \cup {None}]
        /\ manifest' \in [Variants -> SUBSET Contents]
        /\ \A v \in Variants : Junk \notin manifest'[v]
    <3>1. CASE Remove(Deleted[del])
      BY <1>0, <2>2, <3>1, RemoveTypes
    <3>2. CASE UNCHANGED <<file, manifest>>
      BY <1>0, <3>2 DEF TypeOK, RecordInv
    <3> QED BY <1>9, <3>1, <3>2 DEF DeleteStep
  <2>4. del' \in 0..6
    BY <1>9, <2>1, DeletedFiles DEF DeleteStep, NoDelete
  <2> QED BY <1>0, <2>1, <2>3, <2>4 DEF BlessInv, TypeOK, RecordInv
<1>10. ASSUME NEW v \in Variants, Damage(v) PROVE BlessInv'
  <2>1. /\ UNCHANGED <<cap, del>> /\ promised' \in {promised, None}
        /\ \/ file' = [file EXCEPT ![v] = Junk] /\ manifest' = manifest
           \/ manifest' = [manifest EXCEPT ![v] = {}] /\ file' = file
    BY <1>10 DEF Damage
  <2>2. TypeOK'
    BY <1>0, <2>1 DEF TypeOK, Contents
  <2>3. \A w \in Variants : manifest'[w] \in {manifest[w], {}}
    BY <1>0, <2>1 DEF TypeOK
  <2> QED BY <1>0, <2>1, <2>2, <2>3 DEF BlessInv, RecordInv
<1>11. CASE UNCHANGED vars
  BY <1>0, <1>11 DEF vars, BlessInv, TypeOK, RecordInv
<1> QED
  BY <1>1, <1>2, <1>3, <1>4, <1>5, <1>6, <1>7, <1>8, <1>9, <1>10, <1>11 DEF Next

\* It holds always, whatever the app deletes meanwhile.
THEOREM BlessInductive == Spec => []BlessInv
<1>1. Init => BlessInv
  BY InitIInv DEF IInv, BlessInv, CaptureInv
<1>2. BlessInv /\ [Next]_vars => BlessInv'
  BY BlessStep
<1>3. QED
  BY <1>1, <1>2, PTL DEF Spec

\* The files, the capture and the delete keep their types, also when they overlap.
THEOREM SlotTypeCorrect == Spec => []TypeOK
<1>1. BlessInv => TypeOK
  BY DEF BlessInv
<1>2. QED
  BY <1>1, BlessInductive, PTL

\* No sequence of captures makes the manifest authenticate a damaged payload, also when
\* the app deletes the slot during a capture.
THEOREM DamageIsNotBlessed == Spec => []DamageNeverLoads
<1>1. BlessInv => DamageNeverLoads
  BY DEF BlessInv, RecordInv, DamageNeverLoads, verified_payload
<1>2. QED
  BY <1>1, BlessInductive, PTL

\* No step of SaveStateRepository.delete leaves a payload without its manifest.
THEOREM DeleteStripsNothing == Overlap = FALSE /\ Spec => DeleteNeverStrips
<1> DEFINE Keeps == DeleteStep => \A v \in Variants :
                      verified_payload(v) => file'[v] = None \/ file'[v] \in manifest'[v]
<1>1. IInv /\ [Next]_vars => [Keeps]_vars
  <2> SUFFICES ASSUME IInv, DeleteStep, NEW v \in Variants, verified_payload(v)
               PROVE  file'[v] = None \/ file'[v] \in manifest'[v]
    OBVIOUS
  <2>1. del \in 1..6
    BY DEF DeleteStep, IInv, TypeOK, NoDelete
  <2>2. CASE del \in 4..6
    BY <2>2 DEF IInv, DeleteInv, Variants, verified_payload
  <2>3. CASE del \in 1..3
    <3>1. Deleted[del][1] = "file" /\ Deleted[del][2] \in Variants
      BY <2>3, DeletedFiles DEF Variants
    <3>2. manifest' = manifest /\ file'[v] \in {file[v], None}
      BY <3>1 DEF DeleteStep, Remove, IInv, TypeOK
    <3>3. QED
      BY <3>2 DEF verified_payload
  <2>4. QED
    BY <2>1, <2>2, <2>3
<1>2. QED
  BY <1>1, SlotInductive, PTL DEF Spec, DeleteNeverStrips

=============================================================================
