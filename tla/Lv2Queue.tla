------------------------------ MODULE Lv2Queue ------------------------------
(***************************************************************************)
(* The linked lists of threads of the LV2 objects (next_cpu, next_ppu) as  *)
(* sequences: core/rpcs3/Emu/Cell/lv2/sys_sync.h.  The list of waiters of  *)
(* an object has its newest member first.                                  *)
(***************************************************************************)
EXTENDS Integers, Sequences, Functions

\* The place of a thread that is in the list
Pos(q, t) == CHOOSE i \in 1..Len(q) : q[i] = t

\* lv2_obj::unqueue of a thread that is in the list
unqueue(q, t) ==
  SubSeq(q, 1, Pos(q, t) - 1) \o SubSeq(q, Pos(q, t) + 1, Len(q))

\* Linking a thread into the list before place i
link(q, i, t) == SubSeq(q, 1, i - 1) \o <<t>> \o SubSeq(q, i, Len(q))

\* lv2_obj::emplace
emplace(q, t) == <<t>> \o q

\* lv2_obj::schedule: of the given places it serves the oldest one, with the
\* protocol SYS_SYNC_PRIORITY the oldest of the most urgent ones
Serves(i, q, places, prio, byprio) ==
  /\ i \in places
  /\ \A j \in places : IF ~byprio \/ prio[q[i]] = prio[q[j]] THEN j <= i
                       ELSE prio[q[i]] < prio[q[j]]

=============================================================================
