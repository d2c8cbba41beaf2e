-------------------------- MODULE MCLv2EventFlag --------------------------
(***************************************************************************)
(* Small event flags, and the set as one atomic operation for comparison.  *)
(***************************************************************************)
EXTENDS Lv2EventFlag, FiniteSets, TLC

CONSTANTS w1, w2, w3, s1, s2

Wait(b, a, c) == [bitptn |-> b, and |-> a, clear |-> c]

\* A wait that the bits of another thread help to satisfy, and one that takes them
FewWaits == {Wait({1, 2}, TRUE, "no"), Wait({2}, FALSE, "bits")}
FewBitSets == {{1}, {2}}

\* Four bits: three waits of which the first and the last can be served together,
\* or the second alone when bit 4 is cleared in between
FourBitWaits == {Wait({1, 4}, TRUE, "bits"), Wait({1, 2}, TRUE, "all"), Wait({2, 3}, TRUE, "no")}
FourBitSets == {{1, 2, 3}}

Symmetry == Permutations(Waiters)

SamePrio == [t \in Waiters |-> 0]

Before(i, j) == IF ~Priority \/ prio[sq[i]] = prio[sq[j]] THEN j < i
                ELSE prio[sq[i]] < prio[sq[j]]

\* The waiters at the given places served in their order, from the pattern p
RECURSIVE Serve(_, _)
Serve(p, places) ==
  IF places = {} THEN [pattern |-> p, woken |-> {}]
  ELSE LET i == CHOOSE i \in places : \A j \in places \ {i} : Before(i, j)
           ok == Satisfies(p, args[sq[i]])
           rest == Serve(IF ok THEN Cleared(p, args[sq[i]]) ELSE p, places \ {i})
       IN  [pattern |-> rest.pattern,
            woken |-> rest.woken \cup (IF ok THEN {sq[i]} ELSE {})]

\* sys_event_flag_set works in a "single atomic op": the threads it wakes, and the
\* pattern it leaves, are those of serving all waiters in order at the moment its
\* fetch_op succeeds, although it has visited them before that.
SetIsAtomic ==
  [][\A c \in Setters : SetCommit(c) /\ ~Stale =>
       LET r == Serve(pattern \cup set.bits, 1..Len(sq))
       IN  /\ r.woken = IF set.count THEN {sq[i] : i \in Woken} ELSE {}
           /\ r.pattern = pattern']_vars

\* But for results left over from a turn that was given up, that is so: the threads that
\* the last turn of a set chose, and the pattern it leaves, are those of serving all
\* waiters in order when its fetch_op succeeds, whatever was cleared and polled meanwhile.
TurnIsAtomic ==
  [][\A c \in Setters : SetCommit(c) /\ ~Stale =>
       LET r == Serve(pattern \cup set.bits, 1..Len(sq))
       IN  /\ r.woken = {t \in set.marked : gpr3[t] = "OK"}
           /\ r.pattern = pattern']_vars

=============================================================================
