---------------------------- MODULE MCSaveStates ----------------------------
(* Instances of SaveStates, with the app's side, for TLC. *)
EXTENDS SaveStateApp
=============================================================================
