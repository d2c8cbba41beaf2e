--------------------------- MODULE Lv2QueueProofs ---------------------------
(***************************************************************************)
(* What the operations on the lists of Lv2Queue do, for every list.        *)
(***************************************************************************)
EXTENDS Lv2Queue, SequenceTheorems, TLAPS

\* unqueue: the elements behind the removed one move up by one place
LEMMA UnlinkProps ==
  ASSUME NEW S, NEW q \in Seq(S), NEW i \in 1..Len(q)
  PROVE  LET d == SubSeq(q, 1, i - 1) \o SubSeq(q, i + 1, Len(q))
         IN  /\ d \in Seq(S)
             /\ Len(d) = Len(q) - 1
             /\ \A k \in 1..(Len(q) - 1) :
                  d[k] = IF k < i THEN q[k] ELSE q[k + 1]
<1> DEFINE a == SubSeq(q, 1, i - 1)
           b == SubSeq(q, i + 1, Len(q))
<1>0. Len(q) \in Nat /\ \A k \in 1..Len(q) : q[k] \in S
  BY LenProperties
<1>1. /\ a \in Seq(S) /\ Len(a) = i - 1
      /\ \A k \in 1..(i - 1) : a[k] = q[k]
  <2>1. \A k \in 1..(i - 1) : q[k] \in S
    BY <1>0
  <2>2. QED
    BY <2>1, <1>0, SubSeqProperties
<1>2. /\ b \in Seq(S) /\ Len(b) = Len(q) - i
      /\ \A k \in 1..(Len(q) - i) : b[k] = q[k + i]
  <2>1. \A k \in (i + 1)..Len(q) : q[k] \in S
    BY <1>0
  <2>2. QED
    BY <2>1, <1>0, SubSeqProperties
<1>3. /\ a \o b \in Seq(S) /\ Len(a \o b) = Len(a) + Len(b)
      /\ \A k \in 1..(Len(a) + Len(b)) :
           (a \o b)[k] = IF k <= Len(a) THEN a[k] ELSE b[k - Len(a)]
  BY <1>1, <1>2, ConcatProperties, Zenon
<1> DEFINE d == a \o b
<1> HIDE DEF a, b, d
<1>40. /\ d \in Seq(S) /\ Len(d) = Len(q) - 1
       /\ \A k \in 1..(Len(q) - 1) : d[k] = IF k <= i - 1 THEN a[k] ELSE b[k - (i - 1)]
  <2>1. d = a \o b
    BY DEF d
  <2>2. Len(a) + Len(b) = Len(q) - 1
    BY <1>0, <1>1, <1>2
  <2>3. QED
    BY <1>0, <1>1, <1>2, <1>3, <2>1, <2>2, Zenon
<1>5. ASSUME NEW k \in 1..(Len(q) - 1)
      PROVE  d[k] = IF k < i THEN q[k] ELSE q[k + 1]
  <2>1. d[k] = IF k <= i - 1 THEN a[k] ELSE b[k - (i - 1)]
    BY <1>40, Zenon
  <2>2. CASE k < i
    <3>1. a[k] = q[k]
      BY <1>0, <1>1, <2>2
    <3>2. QED
      BY <2>1, <2>2, <3>1, <1>0
  <2>3. CASE k >= i
    <3>1. b[k - (i - 1)] = q[(k - (i - 1)) + i]
      BY <1>0, <1>2, <2>3
    <3>2. (k - (i - 1)) + i = k + 1
      BY <1>0
    <3>3. QED
      BY <2>1, <2>3, <3>1, <3>2, <1>0
  <2>4. QED
    BY <2>2, <2>3, <1>0
<1> QED
  BY <1>40, <1>5, Zenon DEF d, a, b

\* emplace_thread: the elements from the place of the new one move down by one
LEMMA LinkProps ==
  ASSUME NEW S, NEW q \in Seq(S), NEW e \in S, NEW i \in 1..(Len(q) + 1)
  PROVE  /\ link(q, i, e) \in Seq(S)
         /\ Len(link(q, i, e)) = Len(q) + 1
         /\ \A k \in 1..(Len(q) + 1) :
              link(q, i, e)[k] = IF k < i THEN q[k] ELSE IF k = i THEN e ELSE q[k - 1]
<1> DEFINE a == SubSeq(q, 1, i - 1)
           b == SubSeq(q, i, Len(q))
           c == <<e>>
<1>0. Len(q) \in Nat /\ \A k \in 1..Len(q) : q[k] \in S
  BY LenProperties
<1>1. /\ a \in Seq(S) /\ Len(a) = i - 1
      /\ \A k \in 1..(i - 1) : a[k] = q[k]
  <2>1. \A k \in 1..(i - 1) : q[k] \in S
    BY <1>0
  <2>2. QED
    BY <2>1, <1>0, SubSeqProperties
<1>2. /\ b \in Seq(S) /\ Len(b) = Len(q) - i + 1
      /\ \A k \in 1..(Len(q) - i + 1) : b[k] = q[k + i - 1]
  <2>1. \A k \in i..Len(q) : q[k] \in S
    BY <1>0
  <2>2. QED
    BY <2>1, <1>0, SubSeqProperties
<1>3. c \in Seq(S) /\ Len(c) = 1 /\ c[1] = e
  OBVIOUS
<1> HIDE DEF a, b, c
<1>4. /\ a \o c \in Seq(S) /\ Len(a \o c) = i
      /\ \A k \in 1..i : (a \o c)[k] = IF k < i THEN q[k] ELSE e
  <2>1. /\ a \o c \in Seq(S) /\ Len(a \o c) = Len(a) + Len(c)
        /\ \A k \in 1..(Len(a) + Len(c)) :
             (a \o c)[k] = IF k <= Len(a) THEN a[k] ELSE c[k - Len(a)]
    BY <1>1, <1>3, ConcatProperties, Zenon
  <2>2. QED
    BY <1>0, <1>1, <1>3, <2>1
<1> DEFINE d == a \o c
<1>6. link(q, i, e) = d \o b
  BY DEF link, a, b, c
<1> HIDE DEF d
<1>40. /\ d \in Seq(S) /\ Len(d) = i
       /\ \A k \in 1..i : d[k] = IF k < i THEN q[k] ELSE e
  BY <1>4 DEF d
<1>5. /\ d \o b \in Seq(S) /\ Len(d \o b) = Len(d) + Len(b)
      /\ \A k \in 1..(Len(d) + Len(b)) :
           (d \o b)[k] = IF k <= Len(d) THEN d[k] ELSE b[k - Len(d)]
  BY <1>2, <1>40, ConcatProperties, Zenon
<1>7. ASSUME NEW k \in 1..(Len(q) + 1)
      PROVE  link(q, i, e)[k] = IF k < i THEN q[k] ELSE IF k = i THEN e ELSE q[k - 1]
  <2>1. link(q, i, e)[k] = IF k <= i THEN d[k] ELSE b[k - i]
    BY <1>0, <1>40, <1>2, <1>5, <1>6
  <2>2. CASE k <= i
    BY <2>1, <2>2, <1>40, <1>0
  <2>3. CASE k > i
    <3>1. b[k - i] = q[(k - i) + i - 1]
      BY <1>0, <1>2, <2>3
    <3>2. (k - i) + i - 1 = k - 1
      BY <1>0
    <3>3. QED
      BY <2>1, <2>3, <3>1, <3>2, <1>0
  <2>4. QED
    BY <2>2, <2>3, <1>0
<1> QED
  BY <1>0, <1>2, <1>40, <1>5, <1>6, <1>7

\* Of a list without repetitions, unqueue removes the thread and nothing else
LEMMA UnqueueRange ==
  ASSUME NEW S, NEW q \in Seq(S), IsInjective(q), NEW t \in Range(q)
  PROVE  /\ unqueue(q, t) \in Seq(S)
         /\ Range(unqueue(q, t)) = Range(q) \ {t}
         /\ IsInjective(unqueue(q, t))
<1> DEFINE i == Pos(q, t)
           r == unqueue(q, t)
<1>1. i \in 1..Len(q) /\ q[i] = t
  BY LenProperties DEF Pos, Range
<1>2. /\ r \in Seq(S) /\ Len(r) = Len(q) - 1
      /\ \A k \in 1..(Len(q) - 1) : r[k] = IF k < i THEN q[k] ELSE q[k + 1]
  BY <1>1, UnlinkProps, Zenon DEF unqueue
<1>3. Len(q) \in Nat /\ DOMAIN q = 1..Len(q) /\ DOMAIN r = 1..Len(r)
  BY <1>2, LenProperties
<1> HIDE DEF i, r
<1>4. \A j, k \in 1..Len(q) : q[j] = q[k] => j = k
  BY <1>3 DEF IsInjective
<1> DEFINE from(k) == IF k < i THEN k ELSE k + 1
<1>5. ASSUME NEW k \in 1..Len(r)
      PROVE  from(k) \in 1..Len(q) /\ from(k) # i /\ r[k] = q[from(k)]
  BY <1>1, <1>2, <1>3
<1>6. ASSUME NEW m \in 1..Len(q), m # i
      PROVE  \E k \in 1..Len(r) : r[k] = q[m]
  <2>1. CASE m < i
    BY <1>1, <1>2, <1>3, <2>1
  <2>2. CASE m > i
    <3>1. m - 1 \in 1..Len(r) /\ r[m - 1] = q[(m - 1) + 1] /\ (m - 1) + 1 = m
      BY <1>1, <1>2, <1>3, <2>2
    <3>2. QED
      BY <3>1
  <2>3. QED
    BY <1>6, <1>1, <2>1, <2>2
<1>7. Range(r) = Range(q) \ {t}
  <2>1. Range(q) = {q[k] : k \in 1..Len(q)} /\ Range(r) = {r[k] : k \in 1..Len(r)}
    BY <1>3 DEF Range
  <2>2. ASSUME NEW x \in Range(r) PROVE x \in Range(q) /\ x # t
    <3>1. PICK k \in 1..Len(r) : x = r[k]
      BY <2>1
    <3>2. QED
      BY <1>1, <1>4, <1>5, <2>1, <3>1
  <2>3. ASSUME NEW x \in Range(q), x # t PROVE x \in Range(r)
    <3>1. PICK m \in 1..Len(q) : x = q[m]
      BY <2>1
    <3>2. m # i
      BY <3>1, <2>3, <1>1
    <3>3. QED
      BY <1>6, <2>1, <3>1, <3>2
  <2>4. QED
    BY <2>2, <2>3
<1>8. IsInjective(r)
  <2>1. SUFFICES ASSUME NEW j \in 1..Len(r), NEW k \in 1..Len(r), r[j] = r[k] PROVE j = k
    BY <1>3 DEF IsInjective
  <2>2. from(j) = from(k)
    BY <1>4, <1>5, <2>1
  <2>3. QED
    BY <2>2, <1>1
<1>9. QED
  BY <1>2, <1>7, <1>8 DEF r

\* emplace adds the thread, at the front
LEMMA EmplaceRange ==
  ASSUME NEW S, NEW q \in Seq(S), NEW t \in S
  PROVE  /\ emplace(q, t) \in Seq(S)
         /\ Range(emplace(q, t)) = Range(q) \cup {t}
         /\ IsInjective(q) /\ t \notin Range(q) => IsInjective(emplace(q, t))
<1> DEFINE c == <<t>>
           r == c \o q
<1>1. c \in Seq(S) /\ Len(c) = 1 /\ c[1] = t
  OBVIOUS
<1> HIDE DEF c
<1>2. /\ r \in Seq(S) /\ Len(r) = 1 + Len(q)
      /\ \A k \in 1..(1 + Len(q)) : r[k] = IF k <= 1 THEN c[k] ELSE q[k - 1]
  <2>1. /\ r \in Seq(S) /\ Len(r) = Len(c) + Len(q)
        /\ \A k \in 1..(Len(c) + Len(q)) : r[k] = IF k <= Len(c) THEN c[k] ELSE q[k - Len(c)]
    BY <1>1, ConcatProperties, Zenon
  <2> HIDE DEF r
  <2>2. QED
    BY <1>1, <2>1
<1>3. Len(q) \in Nat /\ DOMAIN q = 1..Len(q) /\ DOMAIN r = 1..Len(r)
  BY <1>2, LenProperties
<1>4. emplace(q, t) = r
  BY DEF emplace, c
<1> HIDE DEF r
<1>5. r[1] = t /\ 1 \in 1..Len(r) /\ \A k \in 1..Len(q) : k + 1 \in 1..Len(r) /\ r[k + 1] = q[k]
  BY <1>1, <1>2, <1>3
<1>6. ASSUME NEW k \in 1..Len(r)
      PROVE  k = 1 \/ (k - 1 \in 1..Len(q) /\ r[k] = q[k - 1])
  BY <1>2, <1>3
<1>7. Range(r) = Range(q) \cup {t}
  <2>1. Range(q) = {q[k] : k \in 1..Len(q)} /\ Range(r) = {r[k] : k \in 1..Len(r)}
    BY <1>3 DEF Range
  <2>2. ASSUME NEW x \in Range(r) PROVE x \in Range(q) \/ x = t
    <3>1. PICK k \in 1..Len(r) : x = r[k]
      BY <2>1
    <3>2. CASE k = 1
      BY <1>5, <3>1, <3>2
    <3>3. CASE k - 1 \in 1..Len(q) /\ r[k] = q[k - 1]
      BY <2>1, <3>1, <3>3
    <3>4. QED
      BY <1>6, <3>2, <3>3, Zenon
  <2>3. ASSUME NEW x \in Range(q) PROVE x \in Range(r)
    BY <1>5, <2>1
  <2>4. t \in Range(r)
    BY <1>5, <2>1
  <2>5. QED
    BY <2>2, <2>3, <2>4
<1>8. ASSUME IsInjective(q), t \notin Range(q) PROVE IsInjective(r)
  <2>1. SUFFICES ASSUME NEW j \in 1..Len(r), NEW k \in 1..Len(r), r[j] = r[k] PROVE j = k
    BY <1>3 DEF IsInjective
  <2>2. /\ \A m \in 1..Len(q) : q[m] # t
        /\ \A m, n \in 1..Len(q) : q[m] = q[n] => m = n
    BY <1>8, <1>3 DEF Range, IsInjective
  <2>3. (j # 1 => r[j] # t) /\ (k # 1 => r[k] # t)
    BY <1>6, <2>2, Zenon
  <2>4. CASE j # 1 /\ k # 1
    <3>1. j - 1 = k - 1
      BY <1>6, <2>1, <2>2, <2>4
    <3>2. QED
      BY <3>1, <1>3
  <2>5. QED
    BY <1>5, <2>1, <2>3, <2>4
<1>9. QED
  BY <1>2, <1>4, <1>7, <1>8

=============================================================================
