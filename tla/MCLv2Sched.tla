---------------------------- MODULE MCLv2Sched ----------------------------
(***************************************************************************)
(* Three PPU threads of two priorities, with lists of up to two threads to *)
(* awake.                                                                  *)
(***************************************************************************)
EXTENDS Lv2Sched, TLC

CONSTANTS t1, t2, t3

ThreadSet == {t1, t2, t3}
Symmetry == Permutations(ThreadSet)

=============================================================================
