------------------------- MODULE Lv2SchedOpsProofs -------------------------
(***************************************************************************)
(* What the operators of Lv2SchedOps preserve and return, for every state  *)
(* of the scheduler.                                                       *)
(***************************************************************************)
EXTENDS Lv2SchedOps, Lv2QueueProofs, FiniteSetTheorems

-----------------------------------------------------------------------------
(***************************************************************************)
(* The run queue.                                                          *)
(***************************************************************************)

Elems(q) == {q[i] : i \in 1..Len(q)}
FirstN(q) == {q[i] : i \in {j \in 1..Len(q) : j <= ppu_threads}}
Sorted(q, prio) == \A i, j \in 1..Len(q) : i < j => prio[q[i]] <= prio[q[j]]

\* Taking a thread out keeps the order of the others and moves none of them
\* off the first ppu_threads places
LEMMA UnqueueProps ==
  ASSUME NEW q \in Seq(Threads), IsInjective(q), NEW t \in Elems(q)
  PROVE  /\ unqueue(q, t) \in Seq(Threads)
         /\ Elems(unqueue(q, t)) = Elems(q) \ {t}
         /\ IsInjective(unqueue(q, t))
         /\ FirstN(q) \ {t} \subseteq FirstN(unqueue(q, t))
         /\ \A prio \in [Threads -> Prios], p \in Prios :
              Sorted(q, prio) => /\ Sorted(unqueue(q, t), prio)
                                 /\ Sorted(unqueue(q, t), [prio EXCEPT ![t] = p])
<1> DEFINE i == Pos(q, t)
           r == unqueue(q, t)
<1>1. i \in 1..Len(q) /\ q[i] = t
  BY DEF Pos, Elems
<1>2. /\ r \in Seq(Threads) /\ Len(r) = Len(q) - 1
      /\ \A k \in 1..(Len(q) - 1) : r[k] = IF k < i THEN q[k] ELSE q[k + 1]
  BY <1>1, UnlinkProps, Zenon DEF unqueue
<1>3. /\ Len(q) \in Nat /\ DOMAIN q = 1..Len(q) /\ DOMAIN r = 1..Len(r)
      /\ \A k \in 1..Len(q) : q[k] \in Threads
  BY <1>2, LenProperties
<1> HIDE DEF i, r
<1>4. \A j, k \in 1..Len(q) : q[j] = q[k] => j = k
  BY <1>3 DEF IsInjective
<1>5. ASSUME NEW k \in 1..Len(r)
      PROVE  \E m \in 1..Len(q) : m # i /\ r[k] = q[m] /\ m >= k
  <2>1. CASE k < i
    BY <1>1, <1>2, <1>3, <2>1
  <2>2. CASE k >= i
    <3>1. k + 1 \in 1..Len(q) /\ r[k] = q[k + 1] /\ k + 1 # i /\ k + 1 >= k
      BY <1>1, <1>2, <1>3, <2>2
    <3>2. QED
      BY <3>1
  <2>3. QED
    BY <2>1, <2>2, <1>1, <1>2, <1>3
<1>6. ASSUME NEW m \in 1..Len(q), m # i
      PROVE  \E k \in 1..Len(r) : r[k] = q[m] /\ k <= m
  <2>1. CASE m < i
    <3>1. m \in 1..Len(r) /\ r[m] = q[m] /\ m <= m
      BY <1>1, <1>2, <1>3, <2>1
    <3>2. QED
      BY <3>1
  <2>2. CASE m > i
    <3>1. m - 1 \in 1..Len(r) /\ r[m - 1] = q[(m - 1) + 1] /\ m - 1 <= m /\ (m - 1) + 1 = m
      BY <1>1, <1>2, <1>3, <2>2
    <3>2. QED
      BY <3>1
  <2>3. QED
    BY <2>1, <2>2, <1>6, <1>1, <1>3
<1>7. Elems(r) = Elems(q) \ {t}
  <2>1. ASSUME NEW u \in Elems(r) PROVE u \in Elems(q) \ {t}
    BY <1>1, <1>3, <1>4, <1>5, <2>1 DEF Elems
  <2>2. ASSUME NEW u \in Elems(q) \ {t} PROVE u \in Elems(r)
    BY <1>1, <1>6 DEF Elems
  <2>3. QED
    BY <2>1, <2>2
<1>8. ASSUME NEW j \in 1..Len(r), NEW k \in 1..Len(r), j < k
      PROVE  \E m, n \in 1..Len(q) : /\ m < n /\ m # i /\ n # i
                                      /\ r[j] = q[m] /\ r[k] = q[n]
  <2>0. j \in Nat /\ k \in Nat /\ i \in Nat /\ j <= Len(q) - 1 /\ k <= Len(q) - 1
    BY <1>1, <1>2, <1>3
  <2>1. CASE k < i
    BY <1>2, <1>3, <2>0, <2>1, <1>8
  <2>2. CASE j < i /\ k >= i
    <3>1. j \in 1..Len(q) /\ k + 1 \in 1..Len(q) /\ j < k + 1 /\ j # i /\ k + 1 # i
      BY <1>3, <2>0, <2>2, <1>8
    <3>2. r[j] = q[j] /\ r[k] = q[k + 1]
      BY <1>2, <1>3, <2>0, <2>2, <1>8
    <3>3. QED
      BY <3>1, <3>2
  <2>3. CASE j >= i
    <3>1. j + 1 \in 1..Len(q) /\ k + 1 \in 1..Len(q) /\ j + 1 < k + 1 /\ j + 1 # i /\ k + 1 # i
      BY <1>3, <2>0, <2>3, <1>8
    <3>2. r[j] = q[j + 1] /\ r[k] = q[k + 1]
      BY <1>2, <1>3, <2>0, <2>3, <1>8
    <3>3. QED
      BY <3>1, <3>2
  <2>4. QED
    BY <2>0, <2>1, <2>2, <2>3, <1>8
<1>9. IsInjective(r)
  <2>1. SUFFICES ASSUME NEW j \in 1..Len(r), NEW k \in 1..Len(r), j < k
                 PROVE  r[j] # r[k]
    BY <1>2, <1>3 DEF IsInjective
  <2>2. PICK m, n \in 1..Len(q) : m < n /\ r[j] = q[m] /\ r[k] = q[n]
    BY <1>8, <2>1
  <2>3. QED
    BY <2>2, <1>3, <1>4
<1>10. FirstN(q) \ {t} \subseteq FirstN(r)
  <2>1. SUFFICES ASSUME NEW m \in 1..Len(q), m <= ppu_threads, m # i
                 PROVE  q[m] \in FirstN(r)
    BY <1>1 DEF FirstN
  <2>2. PICK k \in 1..Len(r) : r[k] = q[m] /\ k <= m
    BY <1>6, <2>1
  <2>3. k <= ppu_threads
    BY <2>1, <2>2, <1>2, <1>3, HwAssumption
  <2>4. QED
    BY <2>2, <2>3 DEF FirstN
<1>11. ASSUME NEW prio \in [Threads -> Prios], NEW p \in Prios, Sorted(q, prio)
       PROVE  Sorted(r, prio) /\ Sorted(r, [prio EXCEPT ![t] = p])
  <2>1. ASSUME NEW j \in 1..Len(r), NEW k \in 1..Len(r), j < k
        PROVE  /\ prio[r[j]] <= prio[r[k]]
               /\ [prio EXCEPT ![t] = p][r[j]] <= [prio EXCEPT ![t] = p][r[k]]
    <3>1. PICK m, n \in 1..Len(q) : m < n /\ m # i /\ n # i /\ r[j] = q[m] /\ r[k] = q[n]
      BY <1>8, <2>1
    <3>2. prio[q[m]] <= prio[q[n]] /\ q[m] # t /\ q[n] # t /\ q[m] \in Threads /\ q[n] \in Threads
      BY <3>1, <1>1, <1>3, <1>4, <1>11 DEF Sorted
    <3>3. QED
      BY <3>1, <3>2
  <2>2. QED
    BY <2>1 DEF Sorted
<1> QED
  BY <1>2, <1>7, <1>9, <1>10, <1>11 DEF r

\* Every non-empty set of natural numbers has a least element
LEMMA NatMin ==
  ASSUME NEW S \in SUBSET Nat, S # {}
  PROVE  \E i \in S : \A j \in S : i <= j
<1> DEFINE T == {1..i : i \in S}
<1>1. T \subseteq FiniteSubsetsOf(Nat) /\ T # {}
  <2>1. ASSUME NEW i \in S PROVE 1..i \in SUBSET Nat /\ IsFiniteSet(1..i)
    <3>1. i \in Int /\ 1 \in Int
      OBVIOUS
    <3>2. QED
      BY <3>1, FS_Interval
  <2>2. QED
    BY <2>1, Zenon DEF FiniteSubsetsOf
<1>2. IsWellFoundedOn(StrictSubsetOrdering(Nat), FiniteSubsetsOf(Nat))
  BY FS_StrictSubsetOrderingWellFounded
<1> HIDE DEF T
<1>3. PICK x \in T : \A y \in T : ~(<<y, x>> \in StrictSubsetOrdering(Nat))
  BY <1>1, <1>2, WFMin
<1>4. PICK i \in S : x = 1..i
  BY DEF T
<1>5. ASSUME NEW j \in S PROVE i <= j
  <2>1. SUFFICES ASSUME j < i PROVE FALSE
    OBVIOUS
  <2>2. 1..j \in SUBSET Nat /\ 1..i \in SUBSET Nat /\ 1..j \subseteq 1..i /\ 1..j # 1..i
    <3>1. i \in 1..i /\ i \notin 1..j /\ i \in Nat /\ j \in Nat
      BY <2>1
    <3>2. QED
      BY <3>1, <2>1
  <2>3. <<1..j, 1..i>> \in StrictSubsetOrdering(Nat)
    BY <2>2 DEF StrictSubsetOrdering
  <2>4. 1..j \in T
    BY DEF T
  <2>5. QED
    BY <2>3, <2>4, <1>3, <1>4
<1>6. QED
  BY <1>5

\* A place where emplace_thread stops is the first one
LEMMA FirstStopProps ==
  ASSUME NEW s \in SchedStates, NEW t \in Threads
  PROVE  /\ FirstStop(s, t) \in 1..(Len(s.g_ppu) + 1)
         /\ FirstStop(s, t) \in Stops(s, t) \/ FirstStop(s, t) = Len(s.g_ppu) + 1
         /\ \A k \in 1..Len(s.g_ppu) : k < FirstStop(s, t) => k \notin Stops(s, t)
<1> DEFINE S == Stops(s, t)
<1>0. s.g_ppu \in Seq(Threads) /\ Len(s.g_ppu) \in Nat
  BY LenProperties DEF SchedStates
<1>1. S \subseteq 1..Len(s.g_ppu)
  BY DEF Stops
<1> HIDE DEF S
<1>2. CASE S = {}
  BY <1>0, <1>2 DEF FirstStop, S
<1>3. CASE S # {}
  <2>1. S \in SUBSET Nat
    BY <1>0, <1>1
  <2>2. \E i \in S : \A j \in S : i <= j
    BY <2>1, <1>3, NatMin
  <2>3. FirstStop(s, t) \in S /\ \A j \in S : FirstStop(s, t) <= j
    BY <2>2, <1>3 DEF FirstStop, S
  <2>4. QED
    BY <2>3, <1>0, <1>1 DEF S
<1>4. QED
  BY <1>2, <1>3

\* In a sorted run queue the first stop finds the thread if it is queued
LEMMA AlreadyQueuedProps ==
  ASSUME NEW s \in SchedStates, NEW t \in Threads, Sorted(s.g_ppu, s.prio)
  PROVE  AlreadyQueued(s, t) <=> t \in Queued(s)
<1> DEFINE q == s.g_ppu
           f == FirstStop(s, t)
<1>0. /\ q \in Seq(Threads) /\ Len(q) \in Nat /\ s.prio \in [Threads -> Prios]
      /\ \A k \in 1..Len(q) : q[k] \in Threads
  BY LenProperties DEF SchedStates
<1>1. /\ f \in 1..(Len(q) + 1)
      /\ f \in Stops(s, t) \/ f = Len(q) + 1
      /\ \A k \in 1..Len(q) : k < f => k \notin Stops(s, t)
  BY FirstStopProps
<1>2. ASSUME AlreadyQueued(s, t) PROVE t \in Queued(s)
  BY <1>2 DEF AlreadyQueued, Queued, Stops
<1>3. ASSUME t \in Queued(s) PROVE AlreadyQueued(s, t)
  <2>1. PICK k \in 1..Len(q) : q[k] = t
    BY <1>3 DEF Queued
  <2>2. k \in Stops(s, t)
    BY <2>1 DEF Stops
  <2> HIDE DEF f, q
  <2>3. f <= k /\ f \in Stops(s, t) /\ f \in 1..Len(q)
    BY <1>0, <1>1, <2>1, <2>2
  <2>4. CASE f = k
    BY <2>1, <2>3, <2>4 DEF AlreadyQueued, f, q
  <2>5. CASE f < k
    <3>1. s.prio[q[f]] <= s.prio[q[k]]
      BY <1>0, <2>1, <2>3, <2>5 DEF Sorted, q
    <3>2. s.prio[q[f]] \in Int /\ s.prio[t] \in Int
      BY <1>0, <2>3, PriosAssumption
    <3>3. ~(s.prio[q[f]] > s.prio[t])
      BY <3>1, <3>2, <2>1
    <3>4. q[f] = t
      BY <2>3, <3>3 DEF Stops, q
    <3>5. QED
      BY <2>3, <3>4 DEF AlreadyQueued, f, q
  <2>6. QED
    BY <1>0, <1>1, <2>1, <2>3, <2>4, <2>5
<1>4. QED
  BY <1>2, <1>3

\* emplace_thread puts a thread into the run queue, once and in priority order,
\* and unregisters its timeout
LEMMA InsertProps ==
  ASSUME NEW s \in SchedStates, NEW t \in Threads,
         IsInjective(s.g_ppu), Sorted(s.g_ppu, s.prio), t \notin Queued(s)
  PROVE  LET r == link(s.g_ppu, FirstStop(s, t), t)
         IN  /\ r \in Seq(Threads)
             /\ Elems(r) = Queued(s) \cup {t}
             /\ IsInjective(r)
             /\ Sorted(r, s.prio)
<1> DEFINE q == s.g_ppu
           f == FirstStop(s, t)
           P == s.prio
           r == link(q, f, t)
<1>0. /\ q \in Seq(Threads) /\ Len(q) \in Nat /\ P \in [Threads -> Prios]
      /\ \A k \in 1..Len(q) : q[k] \in Threads
  BY LenProperties DEF SchedStates
<1>00. \A u \in Threads : P[u] \in Int
  BY <1>0, PriosAssumption
<1>1. /\ f \in 1..(Len(q) + 1)
      /\ f \in Stops(s, t) \/ f = Len(q) + 1
      /\ \A k \in 1..Len(q) : k < f => k \notin Stops(s, t)
  BY FirstStopProps
<1>2. /\ r \in Seq(Threads) /\ Len(r) = Len(q) + 1
      /\ \A k \in 1..(Len(q) + 1) :
           r[k] = IF k < f THEN q[k] ELSE IF k = f THEN t ELSE q[k - 1]
  <2> HIDE DEF q, f
  <2>1. q \in Seq(Threads) /\ f \in 1..(Len(q) + 1) /\ t \in Threads
    BY <1>0, <1>1
  <2>2. QED
    BY <2>1, LinkProps
<1>3. \A k \in 1..Len(q) : q[k] # t
  BY DEF Queued
<1>4. \A k \in 1..Len(q) : k < f => P[q[k]] <= P[t]
  BY <1>0, <1>00, <1>1 DEF Stops
<1>5. f \in 1..Len(q) => P[q[f]] > P[t]
  BY <1>0, <1>00, <1>1, <1>3 DEF Stops
<1>6. \A j, k \in 1..Len(q) : j < k => P[q[j]] <= P[q[k]]
  BY DEF Sorted
<1>7. \A j, k \in 1..Len(q) : q[j] = q[k] => j = k
  BY <1>0, LenProperties DEF IsInjective
<1>8. Queued(s) = Elems(q)
  BY DEF Queued, Elems
<1> HIDE DEF q, f, P, r
<1>9. \A k \in 1..Len(q) : k >= f => P[q[k]] > P[t]
  <2> SUFFICES ASSUME NEW k \in 1..Len(q), k >= f PROVE P[q[k]] > P[t]
    OBVIOUS
  <2>1. f \in 1..Len(q) /\ (k = f \/ f < k)
    BY <1>0, <1>1
  <2>2. P[q[f]] \in Int /\ P[q[k]] \in Int /\ P[t] \in Int
    BY <1>0, <1>00, <2>1
  <2>3. P[q[f]] <= P[q[k]]
    BY <1>6, <2>1, <2>2
  <2>4. QED
    BY <1>5, <2>1, <2>2, <2>3
<1>10. Elems(r) = Elems(q) \cup {t}
  <2>1. ASSUME NEW k \in 1..Len(r) PROVE r[k] \in Elems(q) \cup {t}
    <3>1. CASE k < f
      <4>1. k \in 1..Len(q) /\ r[k] = q[k]
        BY <1>0, <1>1, <1>2, <3>1
      <4>2. QED
        BY <4>1 DEF Elems
    <3>2. CASE k = f
      BY <1>0, <1>1, <1>2, <3>2
    <3>3. CASE k > f
      <4>1. k - 1 \in 1..Len(q) /\ r[k] = q[k - 1]
        BY <1>0, <1>1, <1>2, <3>3
      <4>2. QED
        BY <4>1 DEF Elems
    <3>4. QED
      BY <3>1, <3>2, <3>3, <1>0, <1>1, <1>2
  <2>2. f \in 1..Len(r) /\ r[f] = t
    BY <1>0, <1>1, <1>2
  <2>3. ASSUME NEW k \in 1..Len(q) PROVE q[k] \in Elems(r)
    <3>1. CASE k < f
      <4>1. k \in 1..Len(r) /\ r[k] = q[k]
        BY <1>0, <1>1, <1>2, <3>1
      <4>2. QED
        BY <4>1 DEF Elems
    <3>2. CASE k >= f
      <4>1. k + 1 \in 1..Len(r) /\ r[k + 1] = q[(k + 1) - 1] /\ (k + 1) - 1 = k
        BY <1>0, <1>1, <1>2, <3>2
      <4>2. QED
        BY <4>1 DEF Elems
    <3>3. QED
      BY <3>1, <3>2, <1>0, <1>1
  <2>4. QED
    BY <2>1, <2>2, <2>3 DEF Elems
<1>11. ASSUME NEW j \in 1..Len(r), NEW k \in 1..Len(r), j < k
       PROVE  r[j] # r[k] /\ P[r[j]] <= P[r[k]]
  <2>0. j \in Nat /\ k \in Nat /\ f \in Nat /\ P[t] \in Int
    BY <1>0, <1>00, <1>1, <1>2
  <2>1. CASE k < f
    <3>1. j \in 1..Len(q) /\ k \in 1..Len(q) /\ r[j] = q[j] /\ r[k] = q[k]
      BY <1>0, <1>1, <1>2, <1>11, <2>0, <2>1
    <3>2. QED
      BY <3>1, <1>6, <1>7, <1>11, <2>0
  <2>2. CASE k = f
    <3>1. j \in 1..Len(q) /\ r[j] = q[j] /\ r[k] = t /\ j < f
      BY <1>0, <1>1, <1>2, <1>11, <2>0, <2>2
    <3>2. QED
      BY <3>1, <1>3, <1>4
  <2>3. CASE j < f /\ f < k
    <3>1. /\ j \in 1..Len(q) /\ k - 1 \in 1..Len(q) /\ j < k - 1
          /\ r[j] = q[j] /\ r[k] = q[k - 1]
      BY <1>0, <1>1, <1>2, <1>11, <2>0, <2>3
    <3>2. QED
      BY <3>1, <1>6, <1>7, <2>0
  <2>4. CASE j = f
    <3>1. k - 1 \in 1..Len(q) /\ k - 1 >= f /\ r[j] = t /\ r[k] = q[k - 1]
      BY <1>0, <1>1, <1>2, <1>11, <2>0, <2>4
    <3>2. P[q[k - 1]] > P[t] /\ P[q[k - 1]] \in Int
      BY <3>1, <1>0, <1>00, <1>9
    <3>3. QED
      BY <3>1, <3>2, <1>3, <2>0
  <2>5. CASE f < j
    <3>1. /\ j - 1 \in 1..Len(q) /\ k - 1 \in 1..Len(q) /\ j - 1 < k - 1
          /\ r[j] = q[j - 1] /\ r[k] = q[k - 1]
      BY <1>0, <1>1, <1>2, <1>11, <2>0, <2>5
    <3>2. QED
      BY <3>1, <1>6, <1>7, <2>0
  <2>6. QED
    BY <2>0, <2>1, <2>2, <2>3, <2>4, <2>5, <1>11
<1>12. IsInjective(r)
  <2>1. DOMAIN r = 1..Len(r) /\ Len(r) \in Nat
    BY <1>2, LenProperties
  <2>2. QED
    BY <2>1, <1>11 DEF IsInjective
<1>13. Sorted(r, s.prio)
  BY <1>11 DEF Sorted, P
<1> QED
  BY <1>2, <1>8, <1>10, <1>12, <1>13 DEF r, q, f

\* At most ppu_threads threads are in the first ppu_threads places
LEMMA OnProcBound ==
  ASSUME NEW q \in Seq(Threads)
  PROVE  IsFiniteSet(FirstN(q)) /\ Cardinality(FirstN(q)) <= ppu_threads
<1> DEFINE n == IF Len(q) < ppu_threads THEN Len(q) ELSE ppu_threads
           f == [i \in 1..n |-> q[i]]
<1>1. Len(q) \in Nat /\ \A k \in 1..Len(q) : q[k] \in Threads
  BY LenProperties
<1>2. n \in Nat /\ n <= ppu_threads /\ n <= Len(q)
  BY <1>1, HwAssumption
<1>3. FirstN(q) = {q[i] : i \in 1..n}
  BY <1>1, HwAssumption DEF FirstN
<1> HIDE DEF n
<1>4. f \in Surjection(1..n, FirstN(q))
  BY <1>3 DEF Surjection
<1>5. Cardinality(FirstN(q)) <= n
  BY <1>2, <1>4, FS_SurjCardinalityBound DEF ExistsSurjection
<1>6. IsFiniteSet(FirstN(q))
  BY <1>2, <1>4, FS_NatSurjection DEF ExistsSurjection
<1>7. Cardinality(FirstN(q)) \in Nat
  BY <1>6, FS_CardinalityType
<1>8. QED
  BY <1>2, <1>5, <1>6, <1>7, HwAssumption

\* The end of a run of equal priorities exists
LEMMA SamePrioEndProps ==
  ASSUME NEW s \in SchedStates, NEW i \in 1..Len(s.g_ppu)
  PROVE  /\ SamePrioEnd(s, i) \in i..Len(s.g_ppu)
         /\ \A k \in i..SamePrioEnd(s, i) : s.prio[s.g_ppu[k]] = s.prio[s.g_ppu[i]]
<1> DEFINE q == s.g_ppu
           n == Len(q)
           B == {k \in i..n : s.prio[q[k]] # s.prio[q[i]]}
           ok(j) == /\ \A k \in i..j : s.prio[q[k]] = s.prio[q[i]]
                    /\ j < n => s.prio[q[j + 1]] # s.prio[q[i]]
<1>0. n \in Nat /\ i \in 1..n
  BY LenProperties DEF SchedStates
<1>1. SUFFICES \E j \in i..n : ok(j)
  BY DEF SamePrioEnd
<1> HIDE DEF n, q
<1>2. CASE B = {}
  <2>1. n \in i..n /\ ok(n)
    BY <1>0, <1>2
  <2>2. QED
    BY <2>1
<1>3. CASE B # {}
  <2>1. B \in SUBSET Nat
    BY <1>0
  <2>2. PICK m \in B : \A k \in B : m <= k
    BY <2>1, <1>3, NatMin, Zenon
  <2>3. m \in (i + 1)..n
    BY <2>2, <1>0
  <2>4. m - 1 \in i..n /\ (m - 1) + 1 = m /\ m - 1 < n
    BY <2>3, <1>0
  <2>5. \A k \in i..(m - 1) : k \notin B /\ k \in i..n
    BY <2>2, <2>3, <1>0
  <2>6. ok(m - 1)
    BY <2>2, <2>4, <2>5
  <2>7. QED
    BY <2>4, <2>6
<1>4. QED
  BY <1>2, <1>3

\* The rotation of a yield permutes threads of one priority; unless it moves the
\* thread off the hardware threads it permutes them among the hardware threads
LEMMA RotateProps ==
  ASSUME NEW s \in SchedStates, NEW t \in Queued(s),
         IsInjective(s.g_ppu), Sorted(s.g_ppu, s.prio)
  PROVE  LET r == rotate(s, t).g_ppu
         IN  /\ r \in Seq(Threads)
             /\ Elems(r) = Queued(s)
             /\ IsInjective(r)
             /\ Sorted(r, s.prio)
             /\ ~yield_switches(s, t) => FirstN(r) = OnProc(s)
<1> DEFINE q == s.g_ppu
           n == Len(q)
           i == Pos(q, t)
           j == SamePrioEnd(s, i)
           P == s.prio
           pi(k) == IF k < i \/ k > j THEN k ELSE IF k = j THEN i ELSE k + 1
           inv(k) == IF k < i \/ k > j THEN k ELSE IF k = i THEN j ELSE k - 1
           r == rotate(s, t).g_ppu
<1>0. /\ q \in Seq(Threads) /\ n \in Nat /\ P \in [Threads -> Prios]
      /\ \A k \in 1..n : q[k] \in Threads
      /\ DOMAIN q = 1..n
  BY LenProperties DEF SchedStates
<1>1. i \in 1..n /\ q[i] = t
  BY DEF Pos, Queued
<1>2. j \in i..n /\ \A k \in i..j : P[q[k]] = P[q[i]]
  BY <1>1, SamePrioEndProps
<1>3. r = [k \in 1..n |-> IF k < i \/ k > j THEN q[k] ELSE IF k = j THEN t ELSE q[k + 1]]
  BY DEF rotate, SchedStates
<1>4. \A k, m \in 1..n : q[k] = q[m] => k = m
  BY <1>0 DEF IsInjective
<1>5. \A k, m \in 1..n : k < m => P[q[k]] <= P[q[m]]
  BY DEF Sorted
<1>6. Queued(s) = Elems(q) /\ OnProc(s) = FirstN(q)
  BY DEF Queued, Elems, OnProc, FirstN
<1>60. yield_switches(s, t) <=> i < j /\ j > ppu_threads
  BY DEF yield_switches
<1> HIDE DEF q, n, i, j, P, r
<1>7. \A k \in 1..n : pi(k) \in 1..n /\ inv(k) \in 1..n /\ pi(inv(k)) = k /\ inv(pi(k)) = k
  BY <1>0, <1>1, <1>2
<1>8. \A k \in 1..n : r[k] = q[pi(k)]
  BY <1>0, <1>1, <1>2, <1>3
<1>9. r \in Seq(Threads) /\ Len(r) = n /\ DOMAIN r = 1..n
  <2>1. r \in [1..n -> Threads]
    BY <1>0, <1>3, <1>7, <1>8
  <2>2. r \in Seq(Threads)
    BY <2>1, <1>0, SeqDef
  <2>3. 1..Len(r) = 1..n /\ Len(r) \in Nat
    BY <2>1, <2>2, LenProperties
  <2>4. Len(r) = n
    BY <2>3, <1>0
  <2>5. QED
    BY <2>1, <2>2, <2>4
<1>10. \A k \in 1..n : P[r[k]] = P[q[k]]
  <2> SUFFICES ASSUME NEW k \in 1..n PROVE P[r[k]] = P[q[k]]
    OBVIOUS
  <2>1. CASE k < i \/ k > j
    BY <1>8, <2>1
  <2>2. CASE k \in i..j
    <3>1. pi(k) \in i..j
      BY <2>2, <1>0, <1>1, <1>2
    <3>2. P[q[pi(k)]] = P[q[i]] /\ P[q[k]] = P[q[i]]
      BY <3>1, <2>2, <1>2
    <3>3. QED
      BY <3>2, <1>8
  <2>3. QED
    BY <2>1, <2>2, <1>0, <1>1, <1>2
<1> HIDE DEF pi, inv
<1>11. Elems(r) = Elems(q)
  <2>1. ASSUME NEW k \in 1..n PROVE r[k] \in Elems(q)
    BY <1>7, <1>8, SMTT(30) DEF Elems, n
  <2>2. ASSUME NEW k \in 1..n PROVE q[k] \in Elems(r)
    <3>1. inv(k) \in 1..n /\ r[inv(k)] = q[k]
      BY <1>7, <1>8
    <3>2. QED
      BY <3>1, <1>9 DEF Elems
  <2>3. QED
    BY <2>1, <2>2, <1>9 DEF Elems, n
<1>12. IsInjective(r)
  <2>1. SUFFICES ASSUME NEW k \in 1..n, NEW m \in 1..n, r[k] = r[m] PROVE k = m
    BY <1>9 DEF IsInjective
  <2>2. pi(k) = pi(m)
    BY <2>1, <1>4, <1>7, <1>8
  <2>3. QED
    BY <2>2, <1>7
<1>13. Sorted(r, P)
  BY <1>5, <1>9, <1>10 DEF Sorted
<1>14. ASSUME ~(i < j /\ j > ppu_threads) PROVE FirstN(r) = FirstN(q)
  <2>1. \A k \in 1..n : /\ k <= ppu_threads => pi(k) <= ppu_threads
                        /\ k <= ppu_threads => inv(k) <= ppu_threads
    BY <1>0, <1>1, <1>2, <1>14, HwAssumption DEF pi, inv
  <2>2. ASSUME NEW k \in 1..n, k <= ppu_threads PROVE r[k] \in FirstN(q)
    BY <2>1, <2>2, <1>7, <1>8, Zenon DEF FirstN, n
  <2>3. ASSUME NEW k \in 1..n, k <= ppu_threads PROVE q[k] \in FirstN(r)
    <3>1. inv(k) \in 1..n /\ r[inv(k)] = q[k] /\ inv(k) <= ppu_threads
      BY <1>7, <1>8, <2>1, <2>3
    <3>2. QED
      BY <3>1, <1>9 DEF FirstN
  <2>4. QED
    BY <2>2, <2>3, <1>9 DEF FirstN, n
<1> QED
  BY <1>6, <1>60, <1>9, <1>11, <1>12, <1>13, <1>14 DEF r, P, q

-----------------------------------------------------------------------------
(***************************************************************************)
(* The operations of the scheduler.                                        *)
(***************************************************************************)

\* Two states that differ in nothing else than run queue, timeouts, cancel_sleep
SameFlags(s, d) == /\ d.state = s.state /\ d.ack_suspend = s.ack_suspend
                   /\ d.g_pending = s.g_pending
                   /\ d.g_scheduler_ready = s.g_scheduler_ready

GoodQueue(s) == IsInjective(s.g_ppu) /\ Sorted(s.g_ppu, s.prio)

LEMMA QueuedElems ==
  ASSUME NEW s
  PROVE  Queued(s) = Elems(s.g_ppu) /\ OnProc(s) = FirstN(s.g_ppu)
BY DEF Queued, OnProc, Elems, FirstN

\* emplace_thread changes the run queue, the timeout and cancel_sleep of t only
LEMMA EmplaceProps ==
  ASSUME NEW s \in SchedStates, NEW t \in Threads, GoodQueue(s)
  PROVE  LET d == emplace_thread(s, t)
         IN  /\ d \in SchedStates
             /\ GoodQueue(d)
             /\ SameFlags(s, d)
             /\ Queued(d) = Queued(s) \cup {t}
             /\ d.g_waiting = IF t \in Queued(s) THEN s.g_waiting ELSE s.g_waiting \ {t}
<1> DEFINE d == emplace_thread(s, t)
           c == [s EXCEPT !.cancel_sleep[t] = IF @ = 1 THEN 2 ELSE @]
           r == link(s.g_ppu, FirstStop(s, t), t)
           e == [s EXCEPT !.g_ppu = r, !.g_waiting = @ \ {t}]
<1>1. IsInjective(s.g_ppu) /\ Sorted(s.g_ppu, s.prio)
  BY DEF GoodQueue
<1>2. AlreadyQueued(s, t) <=> t \in Queued(s)
  BY <1>1, AlreadyQueuedProps
<1>3. d = IF t \in Queued(s) THEN c ELSE e
  BY <1>2 DEF emplace_thread, SchedStates
<1>4. CASE t \in Queued(s)
  <2>1. d = c
    BY <1>3, <1>4
  <2>2. c \in SchedStates /\ SameFlags(s, c) /\ c.g_ppu = s.g_ppu /\ c.prio = s.prio /\ c.g_waiting = s.g_waiting
    <3> DEFINE cs == [s.cancel_sleep EXCEPT ![t] = IF @ = 1 THEN 2 ELSE @]
    <3>1. cs \in [Threads -> 0..2]
      BY DEF SchedStates
    <3>2. c = [s EXCEPT !.cancel_sleep = cs]
      OBVIOUS
    <3> HIDE DEF cs, c
    <3>3. QED
      BY <3>1, <3>2, Zenon DEF SchedStates, SameFlags
  <2> HIDE DEF c, d
  <2>3. GoodQueue(c) /\ Queued(c) = Queued(s)
    BY <1>1, <2>2 DEF GoodQueue, Queued
  <2>4. QED
    BY <1>4, <2>1, <2>2, <2>3 DEF d
<1>5. CASE t \notin Queued(s)
  <2>1. d = e
    BY <1>3, <1>5
  <2>2. r \in Seq(Threads) /\ Elems(r) = Queued(s) \cup {t} /\ IsInjective(r) /\ Sorted(r, s.prio)
    BY <1>1, <1>5, InsertProps
  <2> HIDE DEF r
  <2>3. e \in SchedStates /\ SameFlags(s, e) /\ e.g_ppu = r /\ e.prio = s.prio /\ e.g_waiting = s.g_waiting \ {t}
    BY <2>2, Zenon DEF SchedStates, SameFlags
  <2> HIDE DEF e, d
  <2>4. GoodQueue(e) /\ Queued(e) = Queued(s) \cup {t}
    BY <2>2, <2>3, QueuedElems DEF GoodQueue
  <2>5. QED
    BY <1>5, <2>1, <2>3, <2>4 DEF d
<1>6. QED
  BY <1>4, <1>5

\* What a sleep of t turns s into
Slept(s, t, timed, d) ==
  /\ d \in SchedStates
  /\ GoodQueue(d)
  /\ Queued(d) = Queued(s) \ {t}
  /\ OnProc(s) \ {t} \subseteq OnProc(d)
  /\ d.g_waiting = IF timed /\ t \in Queued(s) THEN s.g_waiting \cup {t} ELSE s.g_waiting
  /\ d.state = [s.state EXCEPT ![t] = IF "signal" \in s.state[t] THEN @
                                      ELSE @ \cup {"suspend"}]
  /\ d.ack_suspend = [s.ack_suspend EXCEPT ![t] = FALSE]
  /\ d.g_pending = IF s.ack_suspend[t] THEN s.g_pending - 1 ELSE s.g_pending
  /\ d.g_scheduler_ready = s.g_scheduler_ready

\* sleep_unlocked takes the thread off the run queue, suspends it and takes its
\* outstanding acknowledgement back
LEMMA SleepProps ==
  ASSUME NEW s \in SchedStates, NEW t \in Threads, NEW timed \in BOOLEAN, GoodQueue(s),
         s.ack_suspend[t] => s.g_pending > 0,
         "signal" \in s.state[t] => t \notin Queued(s)
  PROVE  Slept(s, t, timed, sleep_unlocked(s, t, timed))
<1> DEFINE d == sleep_unlocked(s, t, timed)
           a == [s EXCEPT !.ack_suspend[t] = FALSE,
                          !.g_pending = IF s.ack_suspend[t] THEN @ - 1 ELSE @,
                          !.cancel_sleep[t] = 0]
           b == [a EXCEPT !.state[t] = @ \cup {"suspend"}]
           r == unqueue(s.g_ppu, t)
           e == [b EXCEPT !.g_ppu = unqueue(@, t),
                          !.g_waiting = IF timed THEN @ \cup {t} ELSE @]
           f == [b EXCEPT !.g_to_sleep = @ \ {t}]
<1>1. d = IF "signal" \in s.state[t] THEN a ELSE IF t \in Queued(s) THEN e ELSE f
  BY DEF sleep_unlocked
<1>2. /\ a \in SchedStates /\ a.g_ppu = s.g_ppu /\ a.prio = s.prio /\ a.g_waiting = s.g_waiting
      /\ a.state = s.state
      /\ a.ack_suspend = [s.ack_suspend EXCEPT ![t] = FALSE]
      /\ a.g_pending = IF s.ack_suspend[t] THEN s.g_pending - 1 ELSE s.g_pending
      /\ a.g_scheduler_ready = s.g_scheduler_ready
  <2> DEFINE ak == [s.ack_suspend EXCEPT ![t] = FALSE]
             pe == IF s.ack_suspend[t] THEN s.g_pending - 1 ELSE s.g_pending
             cs == [s.cancel_sleep EXCEPT ![t] = 0]
  <2>1. ak \in [Threads -> BOOLEAN] /\ cs \in [Threads -> 0..2]
    BY DEF SchedStates
  <2>2. pe \in Nat
    BY DEF SchedStates
  <2>3. a = [s EXCEPT !.ack_suspend = ak, !.g_pending = pe, !.cancel_sleep = cs]
    BY DEF SchedStates
  <2> HIDE DEF ak, pe, cs, a
  <2>4. QED
    BY <2>1, <2>2, <2>3, Zenon DEF SchedStates, ak, pe
<1> HIDE DEF a
<1>3. /\ b \in SchedStates /\ b.g_ppu = s.g_ppu /\ b.prio = s.prio /\ b.g_waiting = s.g_waiting
      /\ b.state = [s.state EXCEPT ![t] = @ \cup {"suspend"}]
      /\ b.ack_suspend = a.ack_suspend /\ b.g_pending = a.g_pending
      /\ b.g_scheduler_ready = s.g_scheduler_ready
  BY <1>2, Zenon DEF SchedStates, Flags
<1> HIDE DEF b
<1>4. ASSUME NEW x \in SchedStates, x.g_ppu = s.g_ppu, x.prio = s.prio, t \notin Queued(s)
      PROVE  GoodQueue(x) /\ Queued(x) = Queued(s) \ {t} /\ OnProc(s) \ {t} \subseteq OnProc(x)
  BY <1>4 DEF GoodQueue, Queued, OnProc
<1>5. CASE "signal" \in s.state[t]
  <2>1. d = a /\ t \notin Queued(s)
    BY <1>1, <1>5
  <2>2. a.state = [s.state EXCEPT ![t] = s.state[t]]
    BY <1>2 DEF SchedStates
  <2> HIDE DEF d, Slept
  <2>3. QED
    BY <1>2, <1>4, <1>5, <2>1, <2>2 DEF d, Slept
<1>6. CASE "signal" \notin s.state[t] /\ t \in Queued(s)
  <2>1. d = e
    BY <1>1, <1>6
  <2>2. /\ r \in Seq(Threads) /\ Elems(r) = Elems(s.g_ppu) \ {t} /\ IsInjective(r)
        /\ FirstN(s.g_ppu) \ {t} \subseteq FirstN(r)
        /\ Sorted(r, s.prio)
    <3>1. s.g_ppu \in Seq(Threads) /\ s.prio \in [Threads -> Prios] /\ s.prio[t] \in Prios
      BY DEF SchedStates
    <3>2. QED
      BY <1>6, <3>1, UnqueueProps, QueuedElems DEF GoodQueue
  <2> HIDE DEF r
  <2>3. /\ e \in SchedStates /\ e.g_ppu = r /\ e.prio = s.prio
        /\ e.g_waiting = IF timed THEN s.g_waiting \cup {t} ELSE s.g_waiting
        /\ e.state = b.state /\ e.ack_suspend = b.ack_suspend /\ e.g_pending = b.g_pending
        /\ e.g_scheduler_ready = b.g_scheduler_ready
    BY <1>3, <2>2, Zenon DEF SchedStates, r
  <2> HIDE DEF e, d
  <2>4. GoodQueue(e) /\ Queued(e) = Queued(s) \ {t} /\ OnProc(s) \ {t} \subseteq OnProc(e)
    BY <2>2, <2>3, QueuedElems DEF GoodQueue
  <2>5. QED
    BY <1>2, <1>3, <1>6, <2>1, <2>3, <2>4 DEF d, Slept
<1>7. CASE "signal" \notin s.state[t] /\ t \notin Queued(s)
  <2>1. d = f
    BY <1>1, <1>7
  <2>2. /\ f \in SchedStates /\ f.g_ppu = s.g_ppu /\ f.prio = s.prio
        /\ f.g_waiting = s.g_waiting
        /\ f.state = b.state /\ f.ack_suspend = b.ack_suspend /\ f.g_pending = b.g_pending
        /\ f.g_scheduler_ready = b.g_scheduler_ready
    BY <1>3, Zenon DEF SchedStates
  <2> HIDE DEF f, d
  <2>3. QED
    BY <1>2, <1>3, <1>4, <1>7, <2>1, <2>2 DEF d, Slept
<1>8. QED
  BY <1>5, <1>6, <1>7

\* A yield changes nothing but the order of the run queue
LEMMA YieldProps ==
  ASSUME NEW s \in SchedStates, NEW t \in Queued(s), GoodQueue(s)
  PROVE  LET d == rotate(s, t)
         IN  /\ d \in SchedStates
             /\ GoodQueue(d)
             /\ SameFlags(s, d)
             /\ Queued(d) = Queued(s)
             /\ d.g_waiting = s.g_waiting
             /\ ~yield_switches(s, t) => OnProc(d) = OnProc(s)
<1> DEFINE d == rotate(s, t)
           r == d.g_ppu
<1>1. /\ r \in Seq(Threads) /\ Elems(r) = Queued(s) /\ IsInjective(r)
      /\ Sorted(r, s.prio)
      /\ ~yield_switches(s, t) => FirstN(r) = OnProc(s)
  BY RotateProps DEF GoodQueue
<1>2. d = [s EXCEPT !.g_ppu = r]
  BY DEF rotate, SchedStates
<1> HIDE DEF d, r
<1>3. /\ d \in SchedStates /\ d.g_ppu = r /\ d.prio = s.prio /\ d.g_waiting = s.g_waiting
      /\ SameFlags(s, d)
  BY <1>1, <1>2 DEF SchedStates, SameFlags
<1>4. QED
  BY <1>1, <1>3, QueuedElems DEF GoodQueue, d

\* A change of priority takes the thread out of the run queue, to be put back
\* by emplace_thread, unless it is not there or has the priority already
LEMMA SetPrioProps ==
  ASSUME NEW s \in SchedStates, NEW c \in Threads, NEW u \in Threads, NEW p \in Prios,
         GoodQueue(s)
  PROVE  LET d == set_prio(s, c, u, p)
         IN  /\ d \in SchedStates
             /\ GoodQueue(d)
             /\ SameFlags(s, d)
             /\ d.g_waiting = s.g_waiting
             /\ IF set_prio_returns(s, c, u, p)
                THEN Queued(d) = Queued(s) /\ OnProc(d) = OnProc(s)
                ELSE Queued(d) = Queued(s) \ {u} /\ u \in Queued(s)
<1> DEFINE d == set_prio(s, c, u, p)
           P == [s.prio EXCEPT ![u] = p]
           r == unqueue(s.g_ppu, u)
<1>0. /\ s.g_ppu \in Seq(Threads) /\ s.prio \in [Threads -> Prios] /\ P \in [Threads -> Prios]
      /\ \A k \in 1..Len(s.g_ppu) : s.g_ppu[k] \in Threads
  BY LenProperties DEF SchedStates
<1>1. CASE set_prio_returns(s, c, u, p)
  <2>1. d = [s EXCEPT !.prio = P]
    BY <1>1 DEF set_prio
  <2>2. Sorted(s.g_ppu, P)
    <3>1. \A k \in 1..Len(s.g_ppu) : P[s.g_ppu[k]] = s.prio[s.g_ppu[k]]
      BY <1>0, <1>1 DEF set_prio_returns, Queued
    <3>2. QED
      BY <3>1 DEF GoodQueue, Sorted
  <2> HIDE DEF d, P
  <2>3. /\ d \in SchedStates /\ d.g_ppu = s.g_ppu /\ d.prio = P /\ d.g_waiting = s.g_waiting
        /\ SameFlags(s, d)
    BY <1>0, <2>1 DEF SchedStates, SameFlags
  <2>4. QED
    BY <1>1, <2>2, <2>3, QueuedElems DEF GoodQueue, d
<1>2. CASE ~set_prio_returns(s, c, u, p)
  <2>0. u \in Queued(s)
    BY <1>2 DEF set_prio_returns
  <2>1. d = [s EXCEPT !.g_ppu = r, !.prio = P]
    BY <1>2 DEF set_prio, SchedStates
  <2>2. /\ r \in Seq(Threads) /\ Elems(r) = Elems(s.g_ppu) \ {u} /\ IsInjective(r)
        /\ Sorted(r, P)
    BY <1>0, <2>0, UnqueueProps, QueuedElems DEF GoodQueue
  <2> HIDE DEF d, P, r
  <2>3. /\ d \in SchedStates /\ d.g_ppu = r /\ d.prio = P /\ d.g_waiting = s.g_waiting
        /\ SameFlags(s, d)
    BY <1>0, <2>1, <2>2, Zenon DEF SchedStates, SameFlags
  <2>4. QED
    BY <1>2, <2>0, <2>2, <2>3, QueuedElems DEF GoodQueue, d
<1>3. QED
  BY <1>1, <1>2

\* The threads that owe an acknowledgement
Owes(s) == {t \in Threads : s.ack_suspend[t]}

CountOK(s) == /\ s.g_pending = Cardinality(Owes(s))
              /\ \A t \in Threads : s.ack_suspend[t] => "suspend" \in s.state[t]

\* Suspending the excess threads counts each of them once
LEMMA SuspendProps ==
  ASSUME NEW s \in SchedStates, CountOK(s)
  PROVE  LET d == suspend_excess(s)
         IN  /\ d \in SchedStates
             /\ CountOK(d)
             /\ d.g_ppu = s.g_ppu /\ d.prio = s.prio /\ d.g_waiting = s.g_waiting
             /\ d.g_scheduler_ready = s.g_scheduler_ready
             /\ \A t \in Threads :
                  /\ d.ack_suspend[t] <=> t \in Excess(s) \/ s.ack_suspend[t]
                  /\ d.state[t] = IF t \in Excess(s) THEN s.state[t] \cup {"suspend"} ELSE s.state[t]
<1> DEFINE E == Excess(s)
           gp == s.g_pending + Cardinality(E)
           ak == [t \in Threads |-> t \in E \/ s.ack_suspend[t]]
           st == [t \in Threads |-> IF t \in E THEN s.state[t] \cup {"suspend"} ELSE s.state[t]]
           d == suspend_excess(s)
<1>1. /\ s.g_ppu \in Seq(Threads) /\ \A k \in 1..Len(s.g_ppu) : s.g_ppu[k] \in Threads
      /\ s.ack_suspend \in [Threads -> BOOLEAN] /\ s.state \in [Threads -> SUBSET Flags]
      /\ s.g_pending \in Nat
  BY LenProperties DEF SchedStates
<1>2. E \subseteq Threads /\ \A t \in E : "suspend" \notin s.state[t]
  BY <1>1 DEF Excess, Queued
<1>3. d = [s EXCEPT !.ack_suspend = ak, !.g_pending = gp, !.state = st]
  BY DEF suspend_excess, SchedStates
<1> HIDE DEF E, d
<1>4. /\ IsFiniteSet(E) /\ Cardinality(E) \in Nat
      /\ IsFiniteSet(Owes(s)) /\ Cardinality(Owes(s)) \in Nat
  <2>1. Owes(s) \subseteq Threads
    BY DEF Owes
  <2>2. IsFiniteSet(E) /\ IsFiniteSet(Owes(s))
    BY <1>2, <2>1, ThreadsAssumption, FS_Subset
  <2>3. QED
    BY <2>2, FS_CardinalityType
<1>5. ak \in [Threads -> BOOLEAN] /\ st \in [Threads -> SUBSET Flags]
  <2>1. \A t \in Threads : ak[t] \in BOOLEAN
    BY Zenon
  <2>2. \A t \in Threads : st[t] \in SUBSET Flags
    BY <1>1 DEF Flags
  <2>3. QED
    BY <2>1, <2>2
<1>6. \A t \in Threads : (ak[t] <=> t \in E \/ s.ack_suspend[t])
  BY Zenon
<1>7. \A t \in Threads : st[t] = IF t \in E THEN s.state[t] \cup {"suspend"} ELSE s.state[t]
  OBVIOUS
<1>70. gp \in Nat
  BY <1>1, <1>4
<1> HIDE DEF ak, st, gp
<1>8. /\ d \in SchedStates /\ d.g_ppu = s.g_ppu /\ d.prio = s.prio /\ d.g_waiting = s.g_waiting
      /\ d.g_scheduler_ready = s.g_scheduler_ready
      /\ d.ack_suspend = ak /\ d.state = st /\ d.g_pending = gp
  BY <1>1, <1>3, <1>5, <1>70, Zenon DEF SchedStates
<1>9. Owes(d) = Owes(s) \cup E /\ Owes(s) \cap E = {}
  BY <1>2, <1>6, <1>8 DEF Owes, CountOK
<1>10. Cardinality(Owes(d)) = Cardinality(Owes(s)) + Cardinality(E)
  <2>1. Cardinality(Owes(s) \cup E) = Cardinality(Owes(s)) + Cardinality(E) - Cardinality(Owes(s) \cap E)
    BY <1>4, FS_Union
  <2>2. Cardinality(Owes(s) \cap E) = 0
    BY <1>9, FS_EmptySet
  <2>3. QED
    BY <1>4, <1>9, <2>1, <2>2
<1>11. CountOK(d)
  <2>1. d.g_pending = Cardinality(Owes(d))
    BY <1>8, <1>10 DEF CountOK, gp
  <2>2. ASSUME NEW t \in Threads, d.ack_suspend[t] PROVE "suspend" \in d.state[t]
    BY <2>2, <1>6, <1>7, <1>8, Zenon DEF CountOK
  <2>3. QED
    BY <2>1, <2>2 DEF CountOK
<1>12. QED
  BY <1>6, <1>7, <1>8, <1>11 DEF d, E

\* The caller's own acknowledgement is taken out of the count
LEMMA AckProps ==
  ASSUME NEW s \in SchedStates, CountOK(s), NEW c
  PROVE  LET d == ack_current(s, c)
         IN  /\ d \in SchedStates
             /\ CountOK(d)
             /\ d.g_ppu = s.g_ppu /\ d.prio = s.prio /\ d.g_waiting = s.g_waiting
             /\ d.g_scheduler_ready = s.g_scheduler_ready
             /\ d.state = s.state
             /\ \A t \in Threads : d.ack_suspend[t] <=> s.ack_suspend[t] /\ t # c
<1> DEFINE d == ack_current(s, c)
           ak == [s.ack_suspend EXCEPT ![c] = FALSE]
           gp == s.g_pending - 1
<1>1. /\ s.ack_suspend \in [Threads -> BOOLEAN] /\ s.state \in [Threads -> SUBSET Flags]
      /\ s.g_pending \in Nat
  BY DEF SchedStates
<1>2. CASE ~(c \in Threads /\ s.ack_suspend[c])
  BY <1>1, <1>2 DEF ack_current
<1>3. CASE c \in Threads /\ s.ack_suspend[c]
  <2>1. d = [s EXCEPT !.ack_suspend = ak, !.g_pending = gp]
    BY <1>3 DEF ack_current, SchedStates
  <2>2. Owes(s) \subseteq Threads /\ c \in Owes(s)
    BY <1>3 DEF Owes
  <2>3. IsFiniteSet(Owes(s)) /\ Cardinality(Owes(s)) \in Nat
    BY <2>2, ThreadsAssumption, FS_Subset, FS_CardinalityType
  <2>4. Cardinality(Owes(s) \ {c}) = gp /\ gp \in Nat
    <3>1. Cardinality(Owes(s) \ {c}) = Cardinality(Owes(s)) - 1 /\ IsFiniteSet(Owes(s) \ {c})
      BY <2>2, <2>3, FS_RemoveElement
    <3>2. Cardinality(Owes(s) \ {c}) \in Nat
      BY <3>1, FS_CardinalityType
    <3>3. QED
      BY <3>1, <3>2 DEF CountOK
  <2>5. ak \in [Threads -> BOOLEAN] /\ \A t \in Threads : ak[t] <=> s.ack_suspend[t] /\ t # c
    BY <1>1, <1>3
  <2> HIDE DEF ak, gp, d
  <2>6. /\ d \in SchedStates /\ d.g_ppu = s.g_ppu /\ d.prio = s.prio /\ d.g_waiting = s.g_waiting
        /\ d.g_scheduler_ready = s.g_scheduler_ready /\ d.state = s.state
        /\ d.ack_suspend = ak /\ d.g_pending = gp
    BY <2>1, <2>4, <2>5, Zenon DEF SchedStates
  <2>7. Owes(d) = Owes(s) \ {c}
    BY <2>5, <2>6 DEF Owes
  <2>8. CountOK(d)
    BY <2>4, <2>5, <2>6, <2>7 DEF CountOK
  <2>9. QED
    BY <2>5, <2>6, <2>8 DEF d
<1>4. QED
  BY <1>2, <1>3

\* What schedule_all makes of s
Scheduled(d, s, expired) ==
  /\ d \in SchedStates /\ CountOK(d)
  /\ d.g_ppu = s.g_ppu /\ d.prio = s.prio /\ d.g_waiting = s.g_waiting \ expired
  /\ d.g_scheduler_ready = s.g_scheduler_ready
  /\ d.ack_suspend = s.ack_suspend /\ d.g_pending = s.g_pending
  /\ ToRun(s) # {} => \A t \in Threads : ~s.ack_suspend[t]
  /\ \A t \in Threads :
       /\ "suspend" \in d.state[t] <=> "suspend" \in s.state[t] /\ t \notin ToRun(s)
       /\ "notify" \in d.state[t] => "notify" \in s.state[t] \/ t \in expired
       /\ t \notin ToRun(s) \cup expired => d.state[t] = s.state[t]

\* schedule_all releases threads only when nobody owes an acknowledgement
LEMMA ScheduleProps ==
  ASSUME NEW s \in SchedStates, CountOK(s), NEW c, NEW expired \in SUBSET s.g_waiting
  PROVE  Scheduled(schedule_all(s, c, expired), s, expired)
<1> DEFINE d == schedule_all(s, c, expired)
           R == ToRun(s)
           new(t) == (IF t \in R THEN (s.state[t] \cup {"signal"}) \ {"suspend"} ELSE s.state[t])
                       \cup (IF t \in expired \ {c} THEN {"notify"} ELSE {})
           st == [t \in Threads |-> new(t)]
           gw == s.g_waiting \ expired
<1>1. /\ s.ack_suspend \in [Threads -> BOOLEAN] /\ s.state \in [Threads -> SUBSET Flags]
      /\ s.g_pending \in Nat /\ s.g_waiting \in SUBSET Threads
  BY DEF SchedStates
<1>2. d = [s EXCEPT !.g_waiting = gw, !.state = st]
  BY DEF schedule_all, SchedStates
<1>3. R # {} => \A t \in Threads : ~s.ack_suspend[t]
  <2>1. SUFFICES ASSUME s.g_pending = 0 PROVE Owes(s) = {}
    BY DEF ToRun, Owes
  <2>2. IsFiniteSet(Owes(s))
    BY ThreadsAssumption, FS_Subset DEF Owes
  <2>3. QED
    BY <2>1, <2>2, FS_EmptySet, Zenon DEF CountOK
<1> HIDE DEF R, d
<1>4. ASSUME NEW t \in Threads
      PROVE  /\ new(t) \in SUBSET Flags
             /\ "suspend" \in new(t) <=> "suspend" \in s.state[t] /\ t \notin R
             /\ "notify" \in new(t) => "notify" \in s.state[t] \/ t \in expired
             /\ t \notin R \cup expired => new(t) = s.state[t]
  BY <1>1 DEF Flags
<1>5. st \in [Threads -> SUBSET Flags] /\ \A t \in Threads : st[t] = new(t)
  BY <1>4
<1>6. gw \in SUBSET Threads
  BY <1>1
<1> HIDE DEF st, new, gw
<1>7. /\ d \in SchedStates /\ d.g_ppu = s.g_ppu /\ d.prio = s.prio /\ d.g_waiting = gw
      /\ d.g_scheduler_ready = s.g_scheduler_ready /\ d.state = st
      /\ d.ack_suspend = s.ack_suspend /\ d.g_pending = s.g_pending
  BY <1>2, <1>5, <1>6, Zenon DEF SchedStates
<1>8. Owes(d) = Owes(s)
  BY <1>7 DEF Owes
<1>9. CountOK(d)
  BY <1>3, <1>4, <1>5, <1>7, <1>8 DEF CountOK
<1>10. Scheduled(d, s, expired)
  BY <1>3, <1>4, <1>5, <1>7, <1>9 DEF R, gw, Scheduled
<1>11. QED
  BY <1>10 DEF d

=============================================================================
