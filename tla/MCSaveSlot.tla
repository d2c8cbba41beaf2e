----------------------------- MODULE MCSaveSlot -----------------------------
(***************************************************************************)
(* SaveSlot with three payloads, which are interchangeable.                *)
(***************************************************************************)
EXTENDS SaveSlot, TLC

Symmetry == Permutations(Payloads)

=============================================================================
