------------------------- MODULE Lv2EventFlagProofs -------------------------
(***************************************************************************)
(* The invariants of the event flag, for any number of waiters, setters    *)
(* and bits.                                                               *)
(***************************************************************************)
EXTENDS Lv2EventFlag, Lv2QueueProofs

\* check_pattern: more bits satisfy a wait that fewer bits satisfy ...
LEMMA MoreBits ==
  ASSUME NEW p, NEW r, NEW w \in Waits, p \subseteq r, Satisfies(p, w)
  PROVE  Satisfies(r, w)
BY DEF Satisfies

\* ... and what it clears it takes from the pattern
LEMMA ClearedBits ==
  ASSUME NEW p \in SUBSET Bits, NEW w \in Waits
  PROVE  Cleared(p, w) \in SUBSET Bits /\ Cleared(p, w) \subseteq p
BY WaitsAssumption DEF Cleared

\* The empty queue
LEMMA EmptyQueue == Range(<<>>) = {} /\ IsInjective(<<>>)
BY DEF Range, IsInjective

\* The members of the queue
LEMMA QueueMembers ==
  ASSUME TypeOK
  PROVE  /\ Len(sq) \in Nat
         /\ Range(sq) \subseteq Waiters
         /\ \A i \in 1..Len(sq) : sq[i] \in Range(sq)
         /\ \A t \in Range(sq) : \E i \in 1..Len(sq) : sq[i] = t
         /\ sq = <<>> => Range(sq) = {}
<1>1. sq \in Seq(Waiters)
  BY DEF TypeOK
<1>2. DOMAIN sq = 1..Len(sq) /\ Len(sq) \in Nat /\ \A i \in 1..Len(sq) : sq[i] \in Waiters
  BY <1>1, LenProperties
<1>3. QED
  BY <1>2, EmptyQueue DEF Range

\* The holder of the mutex
LEMMA Holder ==
  ASSUME IInv
  PROVE  /\ mutex = None => phase = "free"
         /\ \A c \in Setters : pc[c] \in {"visit", "remove", "take", "mark"} =>
              mutex = c /\ phase = pc[c]
<1>1. \A c \in Setters : c # None
  BY ActorsAssumption
<1>2. QED
  BY <1>1 DEF IInv, LockInv, phase

LEMMA InitIInv == Init => IInv
<1> SUFFICES ASSUME Init PROVE IInv
  OBVIOUS
<1>1. TypeOK
  <2>1. (CHOOSE w \in Waits : TRUE) \in Waits
    BY WaitsAssumption
  <2>2. NoSet \in Sets
    BY DEF NoSet, Sets
  <2>3. <<>> \in Seq(Waiters)
    OBVIOUS
  <2>4. QED
    BY <2>1, <2>2, <2>3, ActorsAssumption DEF Init, TypeOK
<1>2. phase = "free" /\ Range(sq) = {} /\ IsInjective(sq)
  BY EmptyQueue DEF Init, phase
<1>3. LockInv
  BY ActorsAssumption DEF Init, LockInv, InWait
<1>4. QueueInv /\ ResultInv /\ SignalInv /\ TakenInv /\ ReachInv /\ VisitInv /\ WakeInv
  BY <1>2 DEF Init, QueueInv, ResultInv, SignalInv, TakenInv, ReachInv, VisitInv, WakeInv, InWait
<1>5. QED
  BY <1>1, <1>3, <1>4 DEF IInv

-----------------------------------------------------------------------------

\* The steps that leave the queue, the mutex and the locals of its holder alone: the
\* pattern may lose bits, and t, a waiter that is not queued, may move
LEMMA Disturb ==
  ASSUME IInv, NEW t \in Waiters, t \notin Range(sq), ~InWait(t),
         UNCHANGED <<sq, mutex, exists, signal, set, bitptn>>,
         pattern' \subseteq pattern, TypeOK',
         \A u \in (Waiters \cup Setters) \ {t} : pc'[u] = pc[u],
         pc'[t] \in {"idle", "locking"}, pc'[t] = "locking" => exists /\ gpr3'[t] = "unset",
         \A u \in Waiters \ {t} : args'[u] = args[u] /\ gpr3'[u] = gpr3[u] /\ gpr6'[u] = gpr6[u],
         gpr3'[t] = "OK" => args'[t] = args[t] /\ gpr3'[t] = gpr3[t] /\ gpr6'[t] = gpr6[t]
  PROVE  IInv'
<1> USE QueueMembers, ActorsAssumption
<1>1. phase' = phase
  BY DEF phase, TypeOK, IInv
<1>2. LockInv'
  BY DEF IInv, LockInv, InWait
<1>3. QueueInv'
  BY DEF IInv, QueueInv
<1>a. /\ \A u \in Waiters : u # t => (InWait(u)' <=> InWait(u)) /\ pc'[u] = pc[u]
      /\ ~InWait(t)' /\ pc'[t] \notin {"returned", "waiting"} /\ pc[t] # "waiting"
  BY DEF InWait
<1>4. ResultInv'
  <2>1. ASSUME NEW u \in Waiters PROVE gpr3'[u] = "OK" => Satisfies(gpr6'[u], args'[u])
    <3>1. gpr3'[u] = "OK" => gpr6'[u] = gpr6[u] /\ args'[u] = args[u] /\ gpr3[u] = "OK"
      OBVIOUS
    <3>2. QED
      BY <3>1 DEF IInv, ResultInv
  <2>2. ASSUME NEW u \in Waiters, u # t
        PROVE  /\ pc'[u] = "locking" => gpr3'[u] = "unset"
               /\ pc'[u] = "returned" => gpr3'[u] # "unset"
               /\ InWait(u)' /\ u \notin Range(sq') =>
                    gpr3'[u] # "unset" \/ (phase' = "mark" /\ u \in set'.marked)
    BY <1>1, <1>a, <2>2 DEF IInv, ResultInv
  <2>3. QED
    BY <1>a, <2>1, <2>2 DEF ResultInv
<1>5. SignalInv' /\ TakenInv' /\ ReachInv'
  <2>1. SignalInv'
    BY <1>a DEF IInv, SignalInv
  <2>2. t \notin set.marked \/ phase \notin {"remove", "take", "mark"}
    BY DEF IInv, TakenInv
  <2>3. set.marked \subseteq Waiters
    BY DEF IInv, TypeOK, Sets
  <2>4. TakenInv'
    BY <1>1, <1>a, <2>2, <2>3 DEF IInv, TakenInv
  <2>5. ReachInv'
    BY <1>1, <1>a DEF IInv, ReachInv
  <2>6. QED
    BY <2>1, <2>4, <2>5
<1>6. VisitInv'
  BY <1>1 DEF IInv, VisitInv
<1>7. WakeInv'
  BY <1>1, MoreBits DEF IInv, WakeInv, TypeOK
<1>8. QED
  BY <1>2, <1>3, <1>4, <1>5, <1>6, <1>7 DEF IInv

LEMMA WaitTryStep ==
  ASSUME IInv, NEW t \in Waiters, NEW w \in Waits, WaitTry(t, w)
  PROVE  IInv'
<1>1. ~InWait(t) /\ t \notin Range(sq) /\ exists
  BY DEF WaitTry, InWait, IInv, QueueInv
<1>2. Cleared(pattern, w) \in SUBSET Bits /\ Cleared(pattern, w) \subseteq pattern
  BY ClearedBits DEF IInv, TypeOK
<1>3. TypeOK' /\ pattern' \subseteq pattern
  <2>1. CASE Satisfies(pattern, w)
    BY <1>2, <2>1 DEF WaitTry, IInv, TypeOK, Goto
  <2>2. CASE ~Satisfies(pattern, w)
    BY <2>2 DEF WaitTry, IInv, TypeOK, Goto
  <2>3. QED
    BY <2>1, <2>2
<1>4. /\ UNCHANGED <<sq, mutex, exists, signal, set, bitptn>>
      /\ \A u \in (Waiters \cup Setters) \ {t} : pc'[u] = pc[u]
      /\ pc'[t] \in {"idle", "locking"} /\ (pc'[t] = "locking" => gpr3'[t] = "unset")
  BY DEF WaitTry, Goto, IInv, TypeOK
<1>5. /\ \A u \in Waiters \ {t} : args'[u] = args[u] /\ gpr3'[u] = gpr3[u] /\ gpr6'[u] = gpr6[u]
      /\ gpr3'[t] = "OK" => args'[t] = args[t] /\ gpr3'[t] = gpr3[t] /\ gpr6'[t] = gpr6[t]
  BY DEF WaitTry, IInv, TypeOK
<1>6. QED
  BY <1>1, <1>3, <1>4, <1>5, Disturb, Zenon

LEMMA ClearStep ==
  ASSUME IInv, pattern' \subseteq pattern, pattern' \in SUBSET Bits,
         UNCHANGED <<sq, mutex, exists, pc, args, gpr3, gpr6, signal, bitptn, set>>
  PROVE  IInv'
<1>1. phase' = phase
  BY DEF phase
<1>2. TypeOK' /\ LockInv' /\ QueueInv' /\ ResultInv' /\ SignalInv' /\ TakenInv' /\ ReachInv'
  BY <1>1 DEF IInv, TypeOK, LockInv, QueueInv, ResultInv, SignalInv, TakenInv, ReachInv, InWait
<1>3. VisitInv'
  BY <1>1 DEF IInv, VisitInv
<1>4. WakeInv'
  BY <1>1, MoreBits, QueueMembers DEF IInv, WakeInv, TypeOK
<1>5. QED
  BY <1>2, <1>3, <1>4 DEF IInv

LEMMA WaitQueueStep ==
  ASSUME IInv, NEW t \in Waiters, WaitQueue(t)
  PROVE  IInv'
<1>1. /\ pc[t] = "locking" /\ mutex = None /\ exists /\ t \notin Range(sq)
      /\ args[t] \in Waits /\ gpr3[t] = "unset" /\ ~InWait(t)
  BY DEF WaitQueue, IInv, QueueInv, TypeOK, ResultInv, InWait
<1>2. CASE Goto(t, "idle") /\ UNCHANGED sq
  <2>1. Cleared(pattern, args[t]) \in SUBSET Bits /\ Cleared(pattern, args[t]) \subseteq pattern
    BY <1>1, ClearedBits DEF IInv, TypeOK
  <2>2. TypeOK' /\ pattern' \subseteq pattern
    BY <1>2, <2>1 DEF WaitQueue, IInv, TypeOK, Goto
  <2>3. /\ UNCHANGED <<sq, mutex, exists, signal, set, bitptn>>
        /\ \A u \in (Waiters \cup Setters) \ {t} : pc'[u] = pc[u]
        /\ pc'[t] \in {"idle", "locking"} /\ gpr3'[t] = "unset"
    BY <1>1, <1>2 DEF WaitQueue, Goto, IInv, TypeOK, InWait
  <2>4. \A u \in Waiters \ {t} : args'[u] = args[u] /\ gpr3'[u] = gpr3[u] /\ gpr6'[u] = gpr6[u]
    BY DEF WaitQueue, IInv, TypeOK
  <2>5. gpr3'[t] # "OK"
    BY <2>3
  <2>6. QED
    BY <1>1, <2>2, <2>3, <2>4, <2>5, Disturb, Zenon
<1>3. CASE sq' = emplace(sq, t) /\ Goto(t, "waiting") /\ UNCHANGED pattern
  <2>0. ~Satisfies(pattern, args[t])
    BY <1>3 DEF WaitQueue, Goto, IInv, TypeOK
  <2>1. sq' \in Seq(Waiters) /\ Range(sq') = Range(sq) \cup {t} /\ IsInjective(sq')
    BY <1>1, <1>3, EmplaceRange DEF IInv, TypeOK, QueueInv
  <2>2. phase = "free" /\ phase' = "free"
    BY <1>1 DEF phase, WaitQueue
  <2>3. TypeOK'
    BY <1>3, <2>1 DEF WaitQueue, IInv, TypeOK, Goto
  <2>4. LockInv' /\ QueueInv'
    BY <1>1, <1>3, <2>1, ActorsAssumption, QueueMembers
       DEF WaitQueue, IInv, TypeOK, LockInv, QueueInv, InWait, Goto
  <2>5. ResultInv' /\ SignalInv'
    BY <1>1, <1>3, <2>1, <2>2 DEF WaitQueue, IInv, TypeOK, ResultInv, SignalInv, InWait, Goto
  <2>6. TakenInv' /\ VisitInv'
    BY <2>2 DEF TakenInv, VisitInv
  <2>7. ReachInv' /\ WakeInv'
    BY <1>1, <1>3, <2>0, <2>1, <2>2 DEF WaitQueue, IInv, TypeOK, ReachInv, WakeInv, Goto
  <2>8. QED
    BY <2>3, <2>4, <2>5, <2>6, <2>7 DEF IInv
<1>4. QED
  BY <1>2, <1>3 DEF WaitQueue

\* A waiter moves on in its wait, and gives up a signal it may have
LEMMA Move ==
  ASSUME IInv, NEW t \in Waiters, InWait(t),
         UNCHANGED <<pattern, sq, mutex, exists, args, gpr3, gpr6, bitptn, set>>,
         NEW l \in {"timeout", "relock", "lock_unlock", "returned"},
         pc' = [pc EXCEPT ![t] = l], signal' = [signal EXCEPT ![t] = FALSE],
         l \in {"returned", "lock_unlock"} => t \notin Range(sq),
         l = "returned" => /\ gpr3[t] # "unset"
                           /\ phase \in {"remove", "take", "mark"} => t \notin set.marked
  PROVE  IInv'
<1>1. phase' = phase
  BY ActorsAssumption DEF phase, TypeOK, IInv
<1>2. /\ \A u \in Waiters \cup Setters : u # t => pc'[u] = pc[u]
      /\ pc'[t] = l /\ pc'[t] \notin {"waiting", "locking"}
      /\ \A u \in Waiters : u # t => signal'[u] = signal[u] /\ (InWait(u)' <=> InWait(u))
      /\ signal'[t] = FALSE /\ (l = "returned" \/ InWait(t)')
  BY DEF IInv, TypeOK, InWait
<1>3. TypeOK'
  BY DEF IInv, TypeOK
<1>4. LockInv'
  BY <1>2, ActorsAssumption DEF IInv, LockInv
<1>5. QueueInv'
  BY <1>2, QueueMembers DEF IInv, QueueInv
<1>6. ResultInv'
  BY <1>1, <1>2 DEF IInv, ResultInv
<1>7. SignalInv'
  BY <1>2 DEF IInv, SignalInv
<1>8. TakenInv'
  <2>1. set.marked \subseteq Waiters
    BY DEF IInv, TypeOK, Sets
  <2>2. QED
    BY <1>1, <1>2, <2>1 DEF IInv, TakenInv
<1>9. ReachInv'
  BY <1>1, <1>2 DEF IInv, ReachInv
<1>10. VisitInv' /\ WakeInv'
  BY <1>1 DEF IInv, VisitInv, WakeInv
<1>11. QED
  BY <1>3, <1>4, <1>5, <1>6, <1>7, <1>8, <1>9, <1>10 DEF IInv

LEMMA LeaveStep ==
  ASSUME IInv, NEW t \in Waiters,
         WaitSignaled(t) \/ WaitTimeout(t) \/ TimeoutLook(t) \/ LockUnlock(t)
  PROVE  IInv'
<1>1. CASE WaitSignaled(t)
  <2>1. t \notin Range(sq) /\ InWait(t)
    BY <1>1 DEF WaitSignaled, IInv, SignalInv, InWait
  <2>2. phase \in {"remove", "take", "mark"} => t \notin set.marked
    BY <1>1 DEF WaitSignaled, IInv, TakenInv
  <2>3. gpr3[t] # "unset"
    BY <2>1, <2>2 DEF IInv, ResultInv
  <2>4. QED
    BY <1>1, <2>1, <2>2, <2>3, Move, Zenon DEF WaitSignaled, Goto
<1>2. CASE WaitTimeout(t)
  BY <1>2, Move, Zenon DEF WaitTimeout, Goto, InWait
<1>3. CASE TimeoutLook(t)
  <2>1. signal' = [signal EXCEPT ![t] = FALSE] /\ InWait(t)
    BY <1>3 DEF TimeoutLook, IInv, SignalInv, TypeOK, InWait
  <2>2. CASE sq = <<>>
    BY <1>3, <2>1, <2>2, Move, EmptyQueue, Zenon DEF TimeoutLook, Goto
  <2>3. CASE sq # <<>>
    BY <1>3, <2>1, <2>3, Move, Zenon DEF TimeoutLook, Goto
  <2>4. QED
    BY <2>2, <2>3
<1>4. CASE LockUnlock(t)
  <2>1. signal' = [signal EXCEPT ![t] = FALSE] /\ InWait(t)
    BY <1>4 DEF LockUnlock, IInv, SignalInv, TypeOK, InWait
  <2>2. t \notin Range(sq) /\ phase = "free"
    BY <1>4 DEF LockUnlock, IInv, QueueInv, phase
  <2>3. gpr3[t] # "unset"
    BY <2>1, <2>2 DEF IInv, ResultInv
  <2>4. QED
    BY <1>4, <2>1, <2>2, <2>3, Move, Zenon DEF LockUnlock, Goto
<1>5. QED
  BY <1>1, <1>2, <1>3, <1>4

LEMMA RelockStep ==
  ASSUME IInv, NEW t \in Waiters, Relock(t)
  PROVE  IInv'
<1>1. /\ pc[t] = "relock" /\ InWait(t) /\ mutex = None /\ mutex' = None
      /\ phase = "free" /\ phase' = "free" /\ pc' = [pc EXCEPT ![t] = "returned"]
      /\ UNCHANGED <<pattern, exists, args, signal, bitptn, set>>
  BY DEF Relock, Goto, InWait, phase
<1>2. CASE t \notin Range(sq)
  <2>1. signal' = [signal EXCEPT ![t] = FALSE]
    BY <1>1 DEF IInv, SignalInv, TypeOK
  <2>2. gpr3[t] # "unset"
    BY <1>1, <1>2 DEF IInv, ResultInv
  <2>3. QED
    BY <1>1, <1>2, <2>1, <2>2, Move, Zenon DEF Relock
<1>3. CASE t \in Range(sq)
  <2>1. /\ gpr3' = [gpr3 EXCEPT ![t] = "ETIMEDOUT"] /\ gpr6' = [gpr6 EXCEPT ![t] = pattern]
        /\ sq' = unqueue(sq, t)
    BY <1>3 DEF Relock
  <2>2. sq' \in Seq(Waiters) /\ Range(sq') = Range(sq) \ {t} /\ IsInjective(sq')
    BY <1>3, <2>1, UnqueueRange DEF IInv, TypeOK, QueueInv
  <2>3. /\ \A u \in Waiters \cup Setters : u # t => pc'[u] = pc[u]
        /\ pc'[t] = "returned" /\ gpr3'[t] = "ETIMEDOUT"
        /\ \A u \in Waiters : u # t => gpr3'[u] = gpr3[u] /\ gpr6'[u] = gpr6[u]
        /\ \A u \in Waiters : u # t => (InWait(u)' <=> InWait(u))
        /\ ~InWait(t)'
    BY <1>1, <2>1 DEF IInv, TypeOK, InWait
  <2>4. TypeOK'
    BY <1>1, <2>1, <2>2 DEF IInv, TypeOK
  <2>5. LockInv'
    BY <1>1, <2>3, ActorsAssumption DEF IInv, LockInv
  <2>6. QueueInv'
    BY <1>1, <1>3, <2>2, <2>3, QueueMembers DEF IInv, QueueInv
  <2>7. ResultInv'
    <3>1. ASSUME NEW u \in Waiters, u # t
          PROVE  /\ gpr3'[u] = "OK" => Satisfies(gpr6'[u], args'[u])
                 /\ pc'[u] = "locking" => gpr3'[u] = "unset"
                 /\ pc'[u] = "returned" => gpr3'[u] # "unset"
                 /\ InWait(u)' /\ u \notin Range(sq') => gpr3'[u] # "unset"
      <4>0. gpr3'[u] = gpr3[u] /\ gpr6'[u] = gpr6[u] /\ pc'[u] = pc[u]
        BY <2>3, <3>1
      <4>1. args'[u] = args[u] /\ (InWait(u)' <=> InWait(u))
        BY <1>1, <4>0 DEF InWait
      <4>2. u \notin Range(sq') => u \notin Range(sq)
        BY <2>2, <3>1
      <4>3. QED
        BY <1>1, <4>0, <4>1, <4>2 DEF IInv, ResultInv
    <3>2. QED
      BY <2>3, <3>1 DEF ResultInv
  <2>8. SignalInv' /\ TakenInv' /\ VisitInv'
    BY <1>1, <2>2, <2>3 DEF IInv, SignalInv, TakenInv, VisitInv
  <2>9. ReachInv' /\ WakeInv'
    BY <1>1, <2>2, <2>3 DEF IInv, ReachInv, WakeInv
  <2>10. QED
    BY <2>4, <2>5, <2>6, <2>7, <2>8, <2>9 DEF IInv
<1>4. QED
  BY <1>2, <1>3

-----------------------------------------------------------------------------

\* The calls of a thread that does not have the mutex and does not get it
LEMMA CallStep ==
  ASSUME IInv, NEW c \in Setters, pc[c] = "idle", NEW l \in {"idle", "set", "cancel"},
         pc' = [pc EXCEPT ![c] = l],
         exists' = exists \/ (exists' = FALSE /\ sq = <<>> /\ \A t \in Waiters : pc[t] # "locking"),
         bitptn' \in [Setters -> SUBSET Bits], exists' \in BOOLEAN,
         UNCHANGED <<pattern, sq, mutex, args, gpr3, gpr6, signal, set>>
  PROVE  IInv'
<1>1. mutex # c
  BY DEF IInv, LockInv
<1>2. /\ \A u \in Waiters \cup Setters : u # c => pc'[u] = pc[u]
      /\ pc'[c] = l /\ phase' = phase
  BY <1>1 DEF IInv, TypeOK, phase
<1>3. \A u \in Waiters : pc'[u] = pc[u] /\ (InWait(u)' <=> InWait(u))
  BY <1>2, ActorsAssumption DEF InWait
<1>4. TypeOK'
  BY DEF IInv, TypeOK
<1>5. LockInv'
  BY <1>1, <1>2, <1>3 DEF IInv, LockInv
<1>6. QueueInv'
  BY <1>3, QueueMembers DEF IInv, QueueInv
<1>7. ResultInv'
  BY <1>2, <1>3 DEF IInv, ResultInv
<1>8. SignalInv' /\ ReachInv'
  BY <1>2, <1>3 DEF IInv, SignalInv, ReachInv
<1>9. TakenInv'
  <2>1. set.marked \subseteq Waiters
    BY DEF IInv, TypeOK, Sets
  <2>2. QED
    BY <1>2, <1>3, <2>1 DEF IInv, TakenInv
<1>10. VisitInv' /\ WakeInv'
  BY <1>2 DEF IInv, VisitInv, WakeInv
<1>11. QED
  BY <1>4, <1>5, <1>6, <1>7, <1>8, <1>9, <1>10 DEF IInv

\* What a step of the holder of the mutex leaves alone
LEMMA HolderFacts ==
  ASSUME IInv, NEW c \in Setters, mutex = c \/ mutex = None, mutex' = c \/ mutex' = None,
         NEW l, pc' = [pc EXCEPT ![c] = l]
  PROVE  /\ c # None /\ pc'[c] = l /\ (mutex = c => phase = pc[c]) /\ (mutex = None => phase = "free")
         /\ phase' = IF mutex' = c THEN l ELSE "free"
         /\ \A u \in Waiters : pc'[u] = pc[u] /\ (InWait(u)' <=> InWait(u))
         /\ \A d \in Setters : d # c => pc'[d] = pc[d] /\ d # mutex /\ d # mutex'
         /\ \A d \in Setters : d # c => pc[d] \in {"idle", "set", "cancel"}
<1>1. c # None /\ c \notin Waiters
  BY ActorsAssumption
<1>2. pc'[c] = l /\ \A u \in Waiters \cup Setters : u # c => pc'[u] = pc[u]
  BY DEF IInv, TypeOK
<1>3. \A u \in Waiters : pc'[u] = pc[u] /\ (InWait(u)' <=> InWait(u))
  BY <1>1, <1>2 DEF InWait
<1>4. \A d \in Setters : d # c => d # None
  BY ActorsAssumption
<1>5. QED
  BY <1>1, <1>2, <1>3, <1>4 DEF IInv, LockInv, phase

LEMMA LockStep ==
  ASSUME IInv, NEW c \in Setters, SetLock(c) \/ CancelLock(c)
  PROVE  IInv'
<1>1. PICK l \in {"visit", "take"} :
        /\ mutex = None /\ mutex' = c /\ pc' = [pc EXCEPT ![c] = l]
        /\ UNCHANGED <<pattern, sq, exists, args, gpr3, gpr6, signal, bitptn>>
        /\ set' = IF l = "visit" THEN Turn(bitptn[c], pattern)
                  ELSE [NoSet EXCEPT !.pattern = pattern]
  BY DEF SetLock, CancelLock, Goto
<1>2. /\ set' \in Sets /\ set'.marked = {} /\ set'.pattern = pattern
      /\ l = "visit" => set'.to_write = pattern \cup set'.bits
  BY <1>1, Zenon DEF IInv, TypeOK, Turn, NoSet, Sets
<1>3. /\ phase = "free" /\ phase' = l /\ pc'[c] = l
      /\ \A u \in Waiters : pc'[u] = pc[u] /\ (InWait(u)' <=> InWait(u))
      /\ \A d \in Setters : d # c => pc'[d] = pc[d] /\ pc[d] \in {"idle", "set", "cancel"}
  BY <1>1, HolderFacts, Zenon
<1>4. TypeOK'
  BY <1>1, <1>2 DEF IInv, TypeOK
<1>5. LockInv'
  BY <1>1, <1>3 DEF IInv, LockInv
<1>6. QueueInv'
  BY <1>1, <1>3, QueueMembers DEF IInv, QueueInv
<1>7. ResultInv'
  BY <1>1, <1>3 DEF IInv, ResultInv
<1>8. SignalInv' /\ ReachInv'
  BY <1>1, <1>3 DEF IInv, SignalInv, ReachInv
<1>9. TakenInv' /\ VisitInv'
  BY <1>1, <1>2, <1>3 DEF TakenInv, VisitInv
<1>10. WakeInv'
  BY <1>1, <1>3 DEF IInv, WakeInv
<1>11. QED
  BY <1>4, <1>5, <1>6, <1>7, <1>8, <1>9, <1>10 DEF IInv

LEMMA SetVisitStep ==
  ASSUME IInv, NEW c \in Setters, SetVisit(c)
  PROVE  IInv'
<1>0. /\ UNCHANGED <<pattern, sq, mutex, exists, pc, args, signal, bitptn>>
      /\ phase = "visit" /\ phase' = "visit"
  BY Holder DEF SetVisit, phase
<1>1. PICK i \in Unmarked :
        LET t == sq[i]
            ok == Satisfies(set.to_write, args[t])
        IN  /\ gpr3' = [gpr3 EXCEPT ![t] = IF ok THEN "OK" ELSE "unset"]
            /\ gpr6' = [gpr6 EXCEPT ![t] = set.to_write]
            /\ set' = [set EXCEPT
                 !.marked = @ \cup {t}, !.count = @ \/ ok,
                 !.dependant = IF ok THEN @ \cup DependantMask(args[t]) ELSE @,
                 !.to_write = IF ok THEN Cleared(@, args[t]) ELSE @]
  BY Zenon DEF SetVisit
<1> DEFINE t == sq[i]
           ok == Satisfies(set.to_write, args[t])
<1>2. t \in Range(sq) /\ t \in Waiters /\ t \notin set.marked
  BY QueueMembers DEF Unmarked, IInv
<1> HIDE DEF t
<1>3. set \in Sets /\ set.to_write \in SUBSET Bits /\ args[t] \in Waits
      /\ set.marked \subseteq Waiters
  BY <1>2 DEF IInv, TypeOK, Sets
<1>4. /\ gpr3' = [gpr3 EXCEPT ![t] = IF ok THEN "OK" ELSE "unset"]
      /\ gpr6' = [gpr6 EXCEPT ![t] = set.to_write]
      /\ set' = [set EXCEPT
           !.marked = @ \cup {t}, !.count = @ \/ ok,
           !.dependant = IF ok THEN @ \cup DependantMask(args[t]) ELSE @,
           !.to_write = IF ok THEN Cleared(@, args[t]) ELSE @]
  BY <1>1 DEF t
<1>5. Cleared(set.to_write, args[t]) \in SUBSET Bits /\ Cleared(set.to_write, args[t]) \subseteq set.to_write
  BY <1>3, ClearedBits
<1>6. DependantMask(args[t]) \in SUBSET Bits /\ ok \in BOOLEAN
  BY <1>3, WaitsAssumption, Zenon DEF DependantMask, Satisfies
<1> HIDE DEF ok
<1>7. /\ set' \in Sets /\ set'.marked = set.marked \cup {t} /\ set'.count = (set.count \/ ok)
      /\ set'.to_write \subseteq set.to_write /\ set'.pattern = set.pattern /\ set'.bits = set.bits
      /\ ~ok => set'.to_write = set.to_write
  <2>1. CASE ok
    <3>1. set' = [set EXCEPT !.marked = @ \cup {t}, !.count = TRUE,
                             !.dependant = @ \cup DependantMask(args[t]),
                             !.to_write = Cleared(@, args[t])]
      BY <1>4, <2>1, Zenon
    <3>2. QED
      BY <1>2, <1>3, <1>5, <1>6, <2>1, <3>1, Zenon DEF Sets
  <2>2. CASE ~ok
    <3>1. set' = [set EXCEPT !.marked = @ \cup {t}]
      BY <1>3, <1>4, <2>2, Zenon DEF Sets
    <3>2. QED
      BY <1>2, <1>3, <2>2, <3>1 DEF Sets
  <2>3. QED
    BY <2>1, <2>2, Zenon
<1>8. /\ \A u \in Waiters : u # t => gpr3'[u] = gpr3[u] /\ gpr6'[u] = gpr6[u]
      /\ gpr3'[t] = (IF ok THEN "OK" ELSE "unset") /\ gpr6'[t] = set.to_write
  BY <1>2, <1>4 DEF IInv, TypeOK
<1>9. TypeOK'
  BY <1>0, <1>3, <1>4, <1>7, Zenon DEF IInv, TypeOK
<1>10. LockInv' /\ QueueInv' /\ SignalInv' /\ TakenInv'
  BY <1>0 DEF IInv, LockInv, QueueInv, SignalInv, TakenInv, InWait
<1>11. ReachInv'
  BY <1>0, <1>2, <1>7 DEF IInv, ReachInv
<1>12. ResultInv'
  <2>1. pc[t] \notin {"locking", "returned"}
    BY <1>2 DEF IInv, QueueInv
  <2>2. gpr3'[t] = "OK" => Satisfies(gpr6'[t], args'[t])
    BY <1>0, <1>8, SMTT(30) DEF ok
  <2>3. ASSUME NEW u \in Waiters, u # t
        PROVE  /\ gpr3'[u] = "OK" => Satisfies(gpr6'[u], args'[u])
               /\ pc'[u] = "locking" => gpr3'[u] = "unset"
               /\ pc'[u] = "returned" => gpr3'[u] # "unset"
               /\ InWait(u) /\ u \notin Range(sq) => gpr3'[u] # "unset"
    BY <1>0, <1>8, <2>3 DEF IInv, ResultInv
  <2>4. \A u \in Waiters : InWait(u)' <=> InWait(u)
    BY <1>0, SMTT(30) DEF InWait
  <2>5. QED
    BY <1>0, <1>2, <2>1, <2>2, <2>3, <2>4 DEF ResultInv
<1>13. VisitInv'
  <2>1. /\ pattern \subseteq set.pattern /\ set.to_write \subseteq set.pattern \cup set.bits
        /\ set.marked \subseteq Range(sq)
        /\ \A u \in set.marked : gpr3[u] = "OK" \/ ~Satisfies(set.to_write, args[u])
        /\ ~set.count => \A u \in set.marked : gpr3[u] # "OK"
    BY <1>0 DEF IInv, VisitInv
  <2>2. ASSUME NEW u \in set'.marked PROVE gpr3'[u] = "OK" \/ ~Satisfies(set'.to_write, args[u])
    <3>1. CASE u = t
      BY <3>1, <1>7, <1>8 DEF ok
    <3>2. CASE u # t
      <4>1. u \in set.marked /\ gpr3'[u] = gpr3[u] /\ args[u] \in Waits
        BY <3>2, <1>3, <1>7, <1>8 DEF IInv, TypeOK
      <4>2. Satisfies(set'.to_write, args[u]) => Satisfies(set.to_write, args[u])
        BY <4>1, <1>7, MoreBits
      <4>3. QED
        BY <2>1, <4>1, <4>2
    <3>3. QED
      BY <3>1, <3>2
  <2>3. ~set'.count => \A u \in set'.marked : gpr3'[u] # "OK"
    BY <2>1, <1>3, <1>7, <1>8, Zenon
  <2>4. QED
    BY <1>0, <1>2, <1>7, <2>1, <2>2, <2>3, Zenon DEF VisitInv
<1>14. WakeInv'
  BY <1>0 DEF IInv, WakeInv
<1>15. QED
  BY <1>9, <1>10, <1>11, <1>12, <1>13, <1>14 DEF IInv

LEMMA SetCommitStep ==
  ASSUME IInv, NEW c \in Setters, SetCommit(c)
  PROVE  IInv'
<1>0. /\ mutex = c /\ pc[c] = "visit" /\ phase = "visit" /\ Scanned
      /\ UNCHANGED <<sq, exists, args, gpr3, gpr6, signal, bitptn>>
  BY Holder DEF SetCommit
<1>1. /\ set \in Sets /\ set.bits \subseteq Bits /\ set.pattern \subseteq Bits
      /\ set.to_write \subseteq Bits /\ pattern \in SUBSET Bits
  BY DEF IInv, TypeOK, Sets
<1>2. /\ pattern \subseteq set.pattern /\ set.to_write \subseteq set.pattern \cup set.bits
      /\ set.marked \subseteq Range(sq)
      /\ \A t \in set.marked : gpr3[t] = "OK" \/ ~Satisfies(set.to_write, args[t])
      /\ ~set.count => \A t \in set.marked : gpr3[t] # "OK"
  BY <1>0 DEF IInv, VisitInv
<1>3. CASE Stale
  <2>1. UNCHANGED <<pattern, mutex, pc>> /\ set' = Turn(set.bits, pattern) /\ phase' = "visit"
    BY <1>0, <1>3 DEF SetCommit, phase
  <2>2. /\ set' \in Sets /\ set'.marked = {} /\ set'.pattern = pattern
        /\ set'.to_write = pattern \cup set'.bits
    BY <1>1, <2>1 DEF Turn, Sets
  <2>3. TypeOK' /\ LockInv' /\ QueueInv' /\ SignalInv'
    BY <1>0, <2>1, <2>2, SMTT(30) DEF IInv, TypeOK, LockInv, QueueInv, SignalInv, InWait
  <2>4. ResultInv'
    BY <1>0, <2>1 DEF IInv, ResultInv, InWait
  <2>5. TakenInv' /\ ReachInv' /\ VisitInv'
    BY <1>0, <2>1, <2>2 DEF IInv, TakenInv, ReachInv, VisitInv
  <2>6. WakeInv'
    BY <1>0, <2>1 DEF IInv, WakeInv
  <2>7. QED
    BY <2>3, <2>4, <2>5, <2>6 DEF IInv
<1>4. CASE ~Stale
  <2>1. /\ pattern' = (pattern \cup set.bits) \ ((set.pattern \cup set.bits) \ set.to_write)
        /\ set' = NoSet
    BY <1>4 DEF SetCommit
  <2>2. PICK l \in {"remove", "idle"} :
          /\ pc' = [pc EXCEPT ![c] = l]
          /\ l = "remove" => mutex' = c
          /\ l = "idle" => mutex' = None /\ ~set.count
    BY <1>0, <1>4 DEF SetCommit, Goto
  <2>3. mutex' = c \/ mutex' = None
    BY <2>2
  <2>4. /\ pc'[c] = l /\ c # None /\ phase' = IF mutex' = c THEN l ELSE "free"
        /\ \A u \in Waiters : pc'[u] = pc[u] /\ (InWait(u)' <=> InWait(u))
        /\ \A d \in Setters : d # c => /\ pc'[d] = pc[d] /\ d # mutex'
                                       /\ pc[d] \in {"idle", "set", "cancel"}
    BY <1>0, <2>2, <2>3, HolderFacts, Zenon
  <2>5. phase' = (IF l = "remove" THEN "remove" ELSE "free")
    BY <2>2, <2>4
  <2>6. NoSet \in Sets /\ NoSet.marked = {}
    BY DEF NoSet, Sets
  <2>7. pattern' \subseteq set.to_write /\ pattern' \in SUBSET Bits
    BY <1>1, <1>2, <2>1
  <2>8. TypeOK'
    BY <1>0, <2>1, <2>2, <2>3, <2>6, <2>7 DEF IInv, TypeOK
  <2>9. LockInv'
    BY <1>0, <2>2, <2>4 DEF IInv, LockInv
  <2>10. QueueInv' /\ SignalInv'
    BY <1>0, <2>4, QueueMembers DEF IInv, QueueInv, SignalInv
  <2>11. ResultInv'
    BY <1>0, <2>4, <2>5 DEF IInv, ResultInv
  <2>12. TakenInv' /\ ReachInv' /\ VisitInv'
    BY <1>0, <2>1, <2>4, <2>5, <2>6 DEF IInv, TakenInv, ReachInv, VisitInv
  <2>13. WakeInv'
    <3> SUFFICES ASSUME NEW t \in Range(sq), Satisfies(pattern', args[t])
                 PROVE  phase' = "remove" /\ gpr3[t] = "OK"
      BY <1>0 DEF WakeInv
    <3>1. t \in Waiters /\ args[t] \in Waits
      BY QueueMembers DEF IInv, TypeOK
    <3>2. t \in set.marked
      <4>1. ~Satisfies(pattern, args[t])
        BY <1>0 DEF IInv, WakeInv
      <4>2. set.to_write # {}
        BY <2>7, <3>1, <4>1, MoreBits
      <4>3. PICK i \in 1..Len(sq) : sq[i] = t
        BY QueueMembers DEF IInv
      <4>4. QED
        BY <1>0, <4>2, <4>3 DEF Scanned, Unmarked
    <3>3. Satisfies(set.to_write, args[t])
      BY <2>7, <3>1, MoreBits
    <3>4. QED
      BY <1>2, <2>2, <2>5, <3>2, <3>3
  <2>14. QED
    BY <2>8, <2>9, <2>10, <2>11, <2>12, <2>13 DEF IInv
<1>5. QED
  BY <1>3, <1>4

\* A holder of the mutex takes t from the queue
LEMMA Take ==
  ASSUME IInv, NEW c \in Setters, NEW t \in Range(sq), NEW l \in {"remove", "mark"},
         IF l = "mark" THEN pc[c] = "take" ELSE pc[c] = "remove" /\ gpr3[t] = "OK",
         pc' = [pc EXCEPT ![c] = l], sq' = unqueue(sq, t),
         set' = [set EXCEPT !.marked = @ \cup {t}],
         UNCHANGED <<pattern, mutex, exists, args, gpr3, gpr6, signal, bitptn>>
  PROVE  IInv'
<1>0. t \in Waiters /\ mutex = c /\ phase = pc[c]
  BY Holder, QueueMembers DEF IInv
<1>1. /\ pc'[c] = l /\ c # None /\ phase' = l
      /\ \A u \in Waiters : pc'[u] = pc[u] /\ (InWait(u)' <=> InWait(u))
      /\ \A d \in Setters : d # c => pc'[d] = pc[d]
  BY <1>0, HolderFacts, Zenon
<1>2. sq' \in Seq(Waiters) /\ Range(sq') = Range(sq) \ {t} /\ IsInjective(sq')
  BY UnqueueRange DEF IInv, TypeOK, QueueInv
<1>3. set' \in Sets /\ set'.marked = set.marked \cup {t} /\ set.marked \subseteq Waiters
  BY <1>0, Zenon DEF IInv, TypeOK, Sets
<1>4. InWait(t) /\ ~signal[t]
  BY <1>0 DEF IInv, QueueInv, SignalInv, InWait
<1>5. TypeOK'
  BY <1>2, <1>3 DEF IInv, TypeOK
<1>6. LockInv'
  BY <1>0, <1>1 DEF IInv, LockInv
<1>7. QueueInv'
  <2>1. exists
    BY EmptyQueue DEF IInv, QueueInv
  <2>2. QED
    BY <1>1, <1>2, <2>1, QueueMembers DEF IInv, QueueInv
<1>8. ResultInv'
  <2>1. ASSUME NEW u \in Waiters, u # t
        PROVE  InWait(u) /\ u \notin Range(sq') => gpr3[u] # "unset"
    BY <1>0, <1>2, <2>1 DEF IInv, ResultInv
  <2>2. gpr3[t] # "unset" \/ (phase' = "mark" /\ t \in set'.marked)
    BY <1>1, <1>3
  <2>3. \A u \in Waiters : /\ gpr3[u] = "OK" => Satisfies(gpr6[u], args[u])
                           /\ pc[u] = "locking" => gpr3[u] = "unset"
                           /\ pc[u] = "returned" => gpr3[u] # "unset"
    BY DEF IInv, ResultInv
  <2>4. QED
    BY <1>1, <2>1, <2>2, <2>3 DEF ResultInv
<1>9. SignalInv'
  BY <1>1, <1>2 DEF IInv, SignalInv
<1>10. TakenInv'
  BY <1>0, <1>1, <1>2, <1>3, <1>4 DEF IInv, TakenInv
<1>11. ReachInv'
  BY <1>0, <1>1, <1>2, <1>3 DEF IInv, ReachInv
<1>12. VisitInv'
  BY <1>1 DEF VisitInv
<1>13. WakeInv'
  BY <1>0, <1>1, <1>2 DEF IInv, WakeInv
<1>14. QED
  BY <1>5, <1>6, <1>7, <1>8, <1>9, <1>10, <1>11, <1>12, <1>13 DEF IInv

LEMMA TakeStep ==
  ASSUME IInv, NEW c \in Setters, SetRemove(c) \/ CancelTake(c)
  PROVE  IInv'
<1>1. CASE SetRemove(c)
  <2>1. PICK i \in Woken : /\ sq' = unqueue(sq, sq[i])
                           /\ set' = [set EXCEPT !.marked = @ \cup {sq[i]}]
    BY <1>1 DEF SetRemove
  <2>2. sq[i] \in Range(sq) /\ gpr3[sq[i]] = "OK"
    BY QueueMembers DEF IInv, Woken
  <2>3. pc[c] = "remove" /\ pc' = [pc EXCEPT ![c] = "remove"]
    BY <1>1 DEF SetRemove, IInv, TypeOK
  <2>4. QED
    BY <1>1, <2>1, <2>2, <2>3, Take, Zenon DEF SetRemove
<1>2. CASE CancelTake(c)
  <2>1. Len(sq) \in 1..Len(sq)
    BY <1>2, LenProperties, EmptySeq DEF CancelTake, IInv, TypeOK
  <2>2. sq[Len(sq)] \in Range(sq)
    BY <2>1, QueueMembers DEF IInv
  <2>3. QED
    BY <1>2, <2>2, Take, Zenon DEF CancelTake, Goto
<1>3. QED
  BY <1>1, <1>2

LEMMA CancelMarkStep ==
  ASSUME IInv, NEW c \in Setters, CancelMark(c)
  PROVE  IInv'
<1>0. /\ mutex = c /\ mutex' = c /\ phase = "mark" /\ pc' = [pc EXCEPT ![c] = "take"]
      /\ UNCHANGED <<pattern, sq, mutex, exists, args, signal, bitptn, set>>
  BY Holder DEF CancelMark, Goto
<1>1. /\ pc'[c] = "take" /\ phase' = "take" /\ c # None
      /\ \A u \in Waiters : pc'[u] = pc[u] /\ (InWait(u)' <=> InWait(u))
      /\ \A d \in Setters : d # c => pc'[d] = pc[d]
  BY <1>0, HolderFacts, Zenon
<1>2. /\ \A u \in Waiters : gpr3'[u] = IF u \in set.marked THEN "ECANCELED" ELSE gpr3[u]
      /\ \A u \in Waiters : u \notin set.marked => gpr6'[u] = gpr6[u]
  BY DEF CancelMark
<1>3. set.marked \subseteq Waiters
      /\ \A u \in set.marked : pc[u] # "locking" /\ u \notin Range(sq)
  BY <1>0 DEF IInv, TypeOK, Sets, TakenInv, InWait
<1>4. TypeOK'
  BY <1>0 DEF CancelMark, IInv, TypeOK, Sets
<1>5. LockInv'
  BY <1>0, <1>1 DEF IInv, LockInv
<1>6. QueueInv' /\ SignalInv'
  BY <1>0, <1>1, QueueMembers DEF IInv, QueueInv, SignalInv
<1>7. ResultInv'
  BY <1>0, <1>1, <1>2, <1>3 DEF IInv, ResultInv
<1>8. TakenInv'
  BY <1>0, <1>1, <1>3, SMTT(30) DEF IInv, TakenInv
<1>9. ReachInv' /\ VisitInv' /\ WakeInv'
  BY <1>0, <1>1, Zenon DEF IInv, ReachInv, VisitInv, WakeInv
<1>10. QED
  BY <1>4, <1>5, <1>6, <1>7, <1>8, <1>9 DEF IInv

\* The taken threads are awakened, and the mutex is released
LEMMA AwakeStep ==
  ASSUME IInv, NEW c \in Setters, SetAwake(c) \/ CancelEnd(c)
  PROVE  IInv'
<1>0. /\ mutex = c /\ mutex' = None /\ phase \in {"remove", "take"}
      /\ pc' = [pc EXCEPT ![c] = "idle"] /\ Awake(set.marked) /\ set' = NoSet
      /\ UNCHANGED <<pattern, sq, exists, args, gpr3, gpr6, bitptn>>
  BY Holder DEF SetAwake, CancelEnd, Goto
<1>1. /\ pc'[c] = "idle" /\ phase' = "free" /\ c # None
      /\ \A u \in Waiters : pc'[u] = pc[u] /\ (InWait(u)' <=> InWait(u))
      /\ \A d \in Setters : d # c => pc'[d] = pc[d] /\ d # mutex /\ d # None
  BY <1>0, HolderFacts, ActorsAssumption, Zenon
<1>2. /\ signal' \in [Waiters -> BOOLEAN]
      /\ \A u \in Waiters : signal'[u] <=> signal[u] \/ (u \in set.marked /\ pc[u] = "waiting")
  BY <1>0, Zenon DEF Awake, IInv, TypeOK
<1>3. \A u \in set.marked : u \notin Range(sq)
  BY <1>0 DEF IInv, TakenInv
<1>4. \A u \in Range(sq) : gpr3[u] # "OK"
  <2>1. CASE SetAwake(c)
    BY <2>1, QueueMembers DEF SetAwake, Woken, IInv
  <2>2. CASE CancelEnd(c)
    BY <2>2, QueueMembers DEF CancelEnd, IInv
  <2>3. QED
    BY <2>1, <2>2
<1>5. NoSet \in Sets /\ NoSet.marked = {}
  BY DEF NoSet, Sets
<1>6. TypeOK'
  BY <1>0, <1>2, <1>5 DEF IInv, TypeOK
<1>7. LockInv'
  BY <1>0, <1>1 DEF IInv, LockInv
<1>8. QueueInv'
  BY <1>0, <1>1, QueueMembers DEF IInv, QueueInv
<1>9. ResultInv'
  BY <1>0, <1>1 DEF IInv, ResultInv
<1>10. SignalInv'
  BY <1>0, <1>1, <1>2, <1>3 DEF IInv, SignalInv
<1>11. ReachInv'
  BY <1>0, <1>1, <1>2 DEF IInv, ReachInv
<1>12. TakenInv' /\ VisitInv'
  BY <1>1 DEF TakenInv, VisitInv
<1>13. WakeInv'
  BY <1>0, <1>1, <1>4 DEF IInv, WakeInv
<1>14. QED
  BY <1>6, <1>7, <1>8, <1>9, <1>10, <1>11, <1>12, <1>13 DEF IInv

-----------------------------------------------------------------------------

LEMMA SetterIInv ==
  ASSUME IInv, NEW c \in Setters, SetterStep(c)
  PROVE  IInv'
<1>1. ASSUME NEW b \in BitSets, Set(c, b) PROVE IInv'
  <2>1. bitptn' \in [Setters -> SUBSET Bits] /\ exists' \in BOOLEAN
    BY <1>1, OptionsAssumption DEF Set, IInv, TypeOK
  <2>2. QED
    BY <1>1, <2>1, CallStep, Zenon DEF Set, Goto
<1>2. ASSUME Cancel(c) PROVE IInv'
  <2>1. bitptn' \in [Setters -> SUBSET Bits] /\ exists' \in BOOLEAN
    BY <1>2 DEF Cancel, IInv, TypeOK
  <2>2. QED
    BY <1>2, <2>1, CallStep, Zenon DEF Cancel, Goto
<1>3. ASSUME Destroy(c) PROVE IInv'
  <2>1. /\ bitptn' \in [Setters -> SUBSET Bits] /\ exists' \in BOOLEAN
        /\ pc' = [pc EXCEPT ![c] = "idle"]
    BY <1>3, Zenon DEF Destroy, IInv, TypeOK
  <2>2. QED
    BY <1>3, <2>1, CallStep, Zenon DEF Destroy
<1>4. QED
  BY <1>1, <1>2, <1>3, LockStep, SetVisitStep, SetCommitStep, TakeStep, CancelMarkStep, AwakeStep, Zenon
     DEF SetterStep

LEMMA NextIInv == IInv /\ [Next]_vars => IInv'
<1> SUFFICES ASSUME IInv, [Next]_vars PROVE IInv'
  OBVIOUS
<1>1. ASSUME NEW t \in Waiters, WaiterStep(t) PROVE IInv'
  BY <1>1, WaitTryStep, WaitQueueStep, LeaveStep, RelockStep, Zenon DEF WaiterStep
<1>2. ASSUME NEW c \in Setters, SetterStep(c) PROVE IInv'
  BY <1>2, SetterIInv, Zenon
<1>3. ASSUME NEW b \in BitSets, Clear(b) PROVE IInv'
  <2>1. pattern' \subseteq pattern /\ pattern' \in SUBSET Bits
    BY <1>3 DEF Clear, IInv, TypeOK
  <2>2. QED
    BY <1>3, <2>1, ClearStep DEF Clear
<1>4. ASSUME NEW w \in Waits, TryWait(w) PROVE IInv'
  <2>1. pattern' \subseteq pattern /\ pattern' \in SUBSET Bits
    BY <1>4, ClearedBits DEF TryWait, IInv, TypeOK
  <2>2. QED
    BY <1>4, <2>1, ClearStep DEF TryWait
<1>5. CASE UNCHANGED vars
  <2>1. pattern' \subseteq pattern /\ pattern' \in SUBSET Bits
    BY <1>5 DEF vars, IInv, TypeOK
  <2>2. QED
    BY <1>5, <2>1, ClearStep DEF vars
<1>6. QED
  BY <1>1, <1>2, <1>3, <1>4, <1>5, Zenon DEF Next

\* The inductive invariant of the event flag holds in every reachable state, for any
\* set of waiters, setters and bits.
THEOREM FlagInductive == Spec => []IInv
<1>1. Init => IInv
  BY InitIInv
<1>2. IInv /\ [Next]_vars => IInv'
  BY NextIInv
<1>3. QED
  BY <1>1, <1>2, PTL DEF Spec

\* The event flag keeps its type.
THEOREM FlagTypeCorrect == Spec => []TypeOK
<1>1. IInv => TypeOK
  BY DEF IInv
<1>2. QED
  BY <1>1, FlagInductive, PTL

\* sys_event_flag_set wakes every waiter its bits satisfy: with the mutex free no queued
\* thread waits for bits that are there.
THEOREM WakeupsNotLost == Spec => []NoLostWakeup
<1>1. IInv => NoLostWakeup
  <2>1. ASSUME IInv, mutex = None PROVE phase # "remove"
    BY <2>1, Holder
  <2>2. QED
    BY <2>1 DEF IInv, WakeInv, NoLostWakeup
<1>2. QED
  BY <1>1, FlagInductive, PTL

\* sys_event_flag_wait returns with a result, and with CELL_OK only for a pattern that
\* fulfils the wait.
THEOREM ResultsAreSet == Spec => []ResultIsSet
<1>1. IInv => ResultIsSet
  BY DEF IInv, ResultInv, ResultIsSet
<1>2. QED
  BY <1>1, FlagInductive, PTL

\* A sleeping waiter is queued, signaled, or about to be awakened by the holder of the
\* mutex, and sys_event_flag_destroy leaves none behind.
THEOREM SleepersReachable == Spec => []Reachable
<1>1. IInv => Reachable
  <2> SUFFICES ASSUME IInv PROVE Reachable
    OBVIOUS
  <2>1. mutex = None => phase = "free"
    BY Holder
  <2>2. QED
    BY <2>1 DEF IInv, ReachInv, QueueInv, Reachable
<1>2. QED
  BY <1>1, FlagInductive, PTL

=============================================================================
