------------------------- MODULE MCEmulatorActivity -------------------------
(***************************************************************************)
(* EmulatorActivity for TLC: launches of one activity instance.            *)
(***************************************************************************)
EXTENDS EmulatorActivity

=============================================================================
