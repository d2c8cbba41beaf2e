-------------------------- MODULE Lv2SchedProofs --------------------------
(***************************************************************************)
(* The safety properties of Lv2Sched, proved for every number of threads,  *)
(* hardware threads and priorities: IInv is inductive and implies them.    *)
(***************************************************************************)
EXTENDS Lv2Sched, Lv2SchedOpsProofs

LEMMA CallersFacts ==
  None \notin Callers /\ Host \in Callers /\ Threads \subseteq Callers /\ Host \notin Threads
BY ThreadsAssumption, HostAssumption DEF Callers

LEMMA AppendRange ==
  ASSUME NEW q \in Seq(Threads), NEW u \in Threads
  PROVE  Append(q, u) \in Seq(Threads) /\ Range(Append(q, u)) = Range(q) \cup {u}
<1> DEFINE r == Append(q, u)
<1>1. /\ r \in Seq(Threads) /\ Len(r) = Len(q) + 1
      /\ \A i \in 1..Len(q) : r[i] = q[i]
      /\ r[Len(q) + 1] = u
  BY AppendProperties
<1> HIDE DEF r
<1>2. DOMAIN q = 1..Len(q) /\ DOMAIN r = 1..(Len(q) + 1) /\ Len(q) \in Nat
  BY <1>1, LenProperties
<1>3. \A i \in 1..(Len(q) + 1) : i \in 1..Len(q) \/ i = Len(q) + 1
  BY <1>2
<1>4. \A i \in 1..Len(q) : i \in 1..(Len(q) + 1)
  BY <1>2
<1>5. Len(q) + 1 \in 1..(Len(q) + 1)
  BY <1>2
<1>6. Range(r) = Range(q) \cup {u}
  BY <1>1, <1>2, <1>3, <1>4, <1>5 DEF Range
<1> QED
  BY <1>1, <1>6 DEF r

LEMMA InitIInv == Init => IInv
<1> SUFFICES ASSUME Init PROVE IInv
  OBVIOUS
<1>1. sched \in SchedStates /\ sched.g_ppu = <<>> /\ sched.g_pending = 0 /\ sched.g_waiting = {}
  <2>1. <<>> \in Seq(Threads)
    BY EmptySeq
  <2> DEFINE st == [t \in Threads |-> {"suspend"}]
             ak == [t \in Threads |-> FALSE]
             cs == [t \in Threads |-> 0]
  <2>2. st \in [Threads -> SUBSET Flags] /\ ak \in [Threads -> BOOLEAN] /\ cs \in [Threads -> 0..2]
    BY DEF Flags
  <2>3. sched \in [g_ppu : {<<>>}, g_pending : {0}, g_waiting : {{}},
                   g_to_sleep : SUBSET Threads, g_scheduler_ready : {FALSE}, state : {st},
                   ack_suspend : {ak}, cancel_sleep : {cs}, prio : [Threads -> Prios]]
    BY Zenon DEF Init
  <2> HIDE DEF st, ak, cs
  <2>4. /\ sched.g_ppu = <<>> /\ sched.g_pending = 0 /\ sched.g_waiting = {}
        /\ sched.g_to_sleep \in SUBSET Threads /\ sched.g_scheduler_ready = FALSE
        /\ sched.state = st /\ sched.ack_suspend = ak /\ sched.cancel_sleep = cs
        /\ sched.prio \in [Threads -> Prios]
    BY <2>3, Zenon
  <2>5. sched = [g_ppu |-> sched.g_ppu, g_pending |-> sched.g_pending,
                 g_waiting |-> sched.g_waiting, g_to_sleep |-> sched.g_to_sleep,
                 g_scheduler_ready |-> sched.g_scheduler_ready, state |-> sched.state,
                 ack_suspend |-> sched.ack_suspend, cancel_sleep |-> sched.cancel_sleep,
                 prio |-> sched.prio]
    BY <2>3
  <2>6. /\ sched.g_ppu \in Seq(Threads) /\ sched.g_pending \in Nat
        /\ sched.g_waiting \in SUBSET Threads /\ sched.g_to_sleep \in SUBSET Threads
        /\ sched.g_scheduler_ready \in BOOLEAN /\ sched.state \in [Threads -> SUBSET Flags]
        /\ sched.ack_suspend \in [Threads -> BOOLEAN] /\ sched.cancel_sleep \in [Threads -> 0..2]
        /\ sched.prio \in [Threads -> Prios]
    <3>1. sched.g_ppu \in Seq(Threads)
      BY <2>1, <2>4, Zenon
    <3>2. sched.g_pending \in Nat
      BY <2>4
    <3>3. sched.g_waiting \in SUBSET Threads
      BY <2>4
    <3>4. sched.g_scheduler_ready \in BOOLEAN
      BY <2>4, Zenon
    <3>5. /\ sched.state \in [Threads -> SUBSET Flags]
          /\ sched.ack_suspend \in [Threads -> BOOLEAN] /\ sched.cancel_sleep \in [Threads -> 0..2]
      BY <2>2, <2>4, Zenon
    <3>6. QED
      BY <3>1, <3>2, <3>3, <3>4, <3>5, <2>4, Zenon
  <2>7. sched \in SchedStates
    BY <2>5, <2>6 DEF SchedStates
  <2>8. QED
    BY <2>4, <2>7
<1>2. \A t \in Threads : sched.state[t] = {"suspend"} /\ ~sched.ack_suspend[t]
  BY DEF Init
<1>3. /\ pc \in [Callers -> {"idle", "resume", "check", "stopped"}]
      /\ g_mutex = Free /\ g_to_awake = [c \in Callers |-> <<>>]
      /\ ~sched.g_scheduler_ready
  BY Zenon DEF Init
<1>4. TypeOK
  <2>1. g_mutex \in [who : Callers \cup {None}, next : PcStates, reschedule : BOOLEAN]
    BY <1>3 DEF Free, PcStates
  <2>2. g_to_awake \in [Callers -> Seq(Threads)]
    BY <1>3, EmptySeq
  <2>3. pc \in [Callers -> PcStates]
    BY <1>3 DEF PcStates
  <2>4. QED
    BY <1>1, <2>1, <2>2, <2>3 DEF TypeOK
<1>5. LockInv
  BY <1>3, HostAssumption, ThreadsAssumption DEF LockInv, Free, Callers
<1>6. Queued(sched) = {} /\ OnProc(sched) = {}
  BY <1>1 DEF Queued, OnProc
<1>7. QueueInv
  BY <1>1 DEF QueueInv, IsInjective
<1>8. PendingCount
  <2>1. {t \in Threads : sched.ack_suspend[t]} = {}
    BY <1>2
  <2>2. QED
    BY <1>1, <1>2, <2>1, FS_EmptySet DEF PendingCount
<1>9. Running = {}
  BY <1>2 DEF Running, Runs, Live
<1>10. GoneInv
  <2>1. \A c \in Callers : Range(g_to_awake[c]) = {}
    BY <1>3 DEF Range
  <2>2. QED
    BY <1>2, <1>6, <2>1 DEF GoneInv
<1>11. WaitingInv
  BY <1>1 DEF WaitingInv
<1>12. PlaceInv
  BY <1>2, <1>9 DEF PlaceInv, Live
<1>13. GuestInv
  BY <1>3 DEF GuestInv, Callers
<1>14. RunningInv
  BY <1>9, FS_EmptySet, HwAssumption DEF RunningInv
<1>15. WorkConserving
  BY <1>3 DEF WorkConserving
<1>16. QED
  BY <1>4, <1>5, <1>7, <1>8, <1>10, <1>11, <1>12, <1>13, <1>14, <1>15 DEF IInv

\* Fewer running threads are still few enough
LEMMA RunningShrinks ==
  ASSUME RunningInv, Running' \subseteq Running
  PROVE  RunningInv'
<1>1. IsFiniteSet(Running)
  BY ThreadsAssumption, FS_Subset DEF Running, Live
<1>2. /\ Cardinality(Running') <= Cardinality(Running)
      /\ IsFiniteSet(Running')
  BY <1>1, FS_Subset
<1>3. Cardinality(Running') \in Nat /\ Cardinality(Running) \in Nat
  BY <1>1, <1>2, FS_CardinalityType
<1>4. QED
  BY <1>2, <1>3, HwAssumption DEF RunningInv

\* A thread moves on by itself, with no change to the scheduler
LEMMA MoveStep ==
  ASSUME IInv, NEW t \in Threads, UNCHANGED <<sched, g_mutex, g_to_awake>>,
         NEW l \in {"syscall", "check"}, Goto(t, l),
         pc[t] \in {"guest", "syscall", "signaling", "twaiting"},
         l = "syscall" => pc[t] = "guest"
  PROVE  IInv'
<1> USE DEF IInv
<1>0. /\ pc' \in [Callers -> PcStates] /\ pc'[t] = l /\ t \in Callers
      /\ \A c \in Callers \ {t} : pc'[c] = pc[c]
  BY DEF TypeOK, Goto, Callers, PcStates
<1>1. TypeOK'
  BY <1>0 DEF TypeOK
<1>2. LockInv'
  BY <1>0 DEF LockInv
<1>3. QueueInv' /\ PendingCount'
  BY DEF QueueInv, PendingCount
<1>4. Running' = Running /\ Held' = Held
  BY <1>0 DEF Running, Live, Runs, Held, Callers
<1>5. GoneInv'
  BY <1>0 DEF GoneInv, Gone, Callers
<1>6. WaitingInv'
  BY <1>0, <1>4 DEF WaitingInv, Gone, Callers, TypeOK, SchedStates
<1>7. PlaceInv'
  BY <1>0, <1>4 DEF PlaceInv, Live, Callers
<1>8. GuestInv'
  BY <1>0, <1>4 DEF GuestInv, Callers
<1>9. RunningInv'
  BY <1>4, RunningShrinks
<1>10. WorkConserving'
  BY <1>0, HostAssumption DEF WorkConserving, Callers
<1>11. QED
  BY <1>1, <1>2, <1>3, <1>5, <1>6, <1>7, <1>8, <1>9, <1>10

\* append: the list of a caller gets another thread that is not gone
LEMMA AppendStep ==
  ASSUME IInv, NEW c \in Callers, NEW u \in Threads, append(c, u)
  PROVE  IInv'
<1> USE DEF IInv
<1> DEFINE q == g_to_awake[c]
<1>0. /\ UNCHANGED <<sched, pc, g_mutex>> /\ CanAwake(c) /\ Awakable(u)
      /\ g_to_awake' = [g_to_awake EXCEPT ![c] = Append(q, u)]
      /\ g_to_awake \in [Callers -> Seq(Threads)]
      /\ q \in Seq(Threads)
  BY DEF append, TypeOK
<1>1. Append(q, u) \in Seq(Threads) /\ Range(Append(q, u)) = Range(q) \cup {u}
  BY <1>0, AppendRange
<1>2. TypeOK'
  BY <1>0, <1>1 DEF TypeOK
<1>3. QueueInv' /\ PendingCount'
  BY <1>0 DEF QueueInv, PendingCount
<1>4. Running' = Running
  BY <1>0 DEF Running, Live, Runs
<1>5. g_mutex.who # c
  BY <1>0, HostAssumption DEF CanAwake, LockInv
<1>6. Held' = Held /\ LockInv'
  BY <1>0, <1>5 DEF Held, LockInv, TypeOK
<1>7. ~Gone(u)
  BY <1>0, ThreadsAssumption DEF Awakable, Gone, LockInv, Callers
<1>8. GoneInv'
  <2>1. \A d \in Callers : Range(g_to_awake'[d]) \subseteq Range(g_to_awake[d]) \cup {u}
    BY <1>0, <1>1
  <2>2. \A t \in Threads : Gone(t)' <=> Gone(t)
    BY <1>0 DEF Gone
  <2>3. QED
    BY <1>0, <1>7, <2>1, <2>2 DEF GoneInv
<1>9. WaitingInv' /\ PlaceInv' /\ GuestInv'
  BY <1>0, <1>4, <1>6 DEF WaitingInv, PlaceInv, GuestInv, Live, Gone
<1>10. RunningInv'
  BY <1>4, RunningShrinks
<1>11. WorkConserving'
  BY <1>0 DEF WorkConserving
<1>12. QED
  BY <1>2, <1>3, <1>6, <1>8, <1>9, <1>10, <1>11

\* awake, cpu_sleep and the end of make_scheduler_ready take the lock; they
\* change the list of the caller to one of threads that are not gone
LEMMA AcquireStep ==
  ASSUME IInv, NEW c \in Callers, UNCHANGED sched,
         NEW l \in {"idle", "signaling", "parked"}, Acquire(c, l, TRUE),
         pc[c] \in {"idle", "boot", "syscall", "signaling", "cpu_sleep"},
         NEW q \in Seq(Threads), g_to_awake' = [g_to_awake EXCEPT ![c] = q],
         \A t \in Range(q) : ~Gone(t)
  PROVE  IInv'
<1> USE DEF IInv
<1>0. /\ g_mutex = Free /\ g_mutex.who = None
      /\ g_mutex'.who = c /\ g_mutex'.next = l /\ g_mutex'.reschedule = TRUE /\ g_mutex' # Free
      /\ pc' \in [Callers -> PcStates] /\ pc'[c] = "locked"
      /\ \A d \in Callers \ {c} : pc'[d] = pc[d]
      /\ c # None
  BY HostAssumption, ThreadsAssumption DEF Acquire, Goto, TypeOK, Free, PcStates, Callers
<1>1. TypeOK'
  BY <1>0 DEF TypeOK, Acquire, PcStates, Callers
<1>2. LockInv'
  <2>1. \A d \in Callers : pc[d] # "locked"
    BY <1>0, CallersFacts DEF LockInv
  <2>2. QED
    BY <1>0, <2>1 DEF LockInv
<1>3. QueueInv' /\ PendingCount'
  BY DEF QueueInv, PendingCount
<1>4. Running' = Running
  BY <1>0 DEF Running, Live, Runs, Callers
<1>5. \A d \in Callers : g_to_awake'[d] = IF d = c THEN q ELSE g_to_awake[d]
  BY DEF TypeOK
<1>6. GoneInv'
  <2>1. \A t \in Threads : Gone(t)' => Gone(t)
    BY <1>0 DEF Gone, Callers
  <2>2. \A t \in Threads : pc'[t] # "exited" => pc[t] # "exited"
    BY <1>0 DEF Callers
  <2>3. QED
    BY <1>5, <2>1, <2>2 DEF GoneInv
<1>7. WaitingInv'
  BY <1>0, <1>4 DEF WaitingInv, Gone, Callers, TypeOK, SchedStates
<1>8. PlaceInv'
  BY <1>0, <1>4 DEF PlaceInv, Held
<1>9. GuestInv'
  BY <1>0, <1>4 DEF GuestInv, Callers
<1>10. RunningInv'
  BY <1>4, RunningShrinks
<1>11. WorkConserving'
  BY <1>0 DEF WorkConserving
<1>12. QED
  BY <1>1, <1>2, <1>3, <1>6, <1>7, <1>8, <1>9, <1>10, <1>11

\* sys_ppu_thread_start: the thread that is started is not gone any more
LEMMA StartStep ==
  ASSUME IInv, NEW t \in Threads, NEW u \in Threads, start(t, u)
  PROVE  IInv'
<1> USE DEF IInv
<1>0. /\ g_mutex = Free /\ g_mutex.who = None /\ sched' = sched
      /\ g_mutex'.who = t /\ g_mutex'.next = "signaling" /\ g_mutex'.reschedule = TRUE /\ g_mutex' # Free
      /\ pc' \in [Callers -> PcStates] /\ pc'[t] = "locked" /\ pc'[u] = "check" /\ t # u
      /\ pc[u] = "stopped" /\ pc[t] \in {"syscall", "signaling"}
      /\ \A d \in Callers \ {t, u} : pc'[d] = pc[d]
      /\ t # None /\ t \in Callers /\ u \in Callers
  BY HostAssumption, ThreadsAssumption, Zenon DEF start, TypeOK, Free, PcStates, Callers
<1>1. TypeOK'
  <2>1. <<u>> \in Seq(Threads)
    OBVIOUS
  <2>2. QED
    BY <1>0, <2>1, Zenon DEF TypeOK, start, PcStates, Callers
<1>2. LockInv'
  <2>1. \A d \in Callers : pc[d] # "locked"
    BY <1>0, CallersFacts DEF LockInv
  <2>2. QED
    BY <1>0, <2>1 DEF LockInv
<1>3. QueueInv' /\ PendingCount'
  BY <1>0 DEF QueueInv, PendingCount
<1>4. Running' = Running
  BY <1>0 DEF Running, Live, Runs, Callers
<1>5. \A d \in Callers : g_to_awake'[d] = IF d = t THEN <<u>> ELSE g_to_awake[d]
  BY DEF TypeOK, start
<1>6. GoneInv'
  <2>1. \A w \in Threads : Gone(w)' => Gone(w) /\ w # u
    BY <1>0 DEF Gone, Callers
  <2>2. \A w \in Threads : pc'[w] # "exited" => pc[w] # "exited"
    BY <1>0 DEF Callers
  <2>3. Range(<<u>>) = {u}
    BY DEF Range
  <2>4. QED
    BY <1>0, <1>5, <2>1, <2>2, <2>3 DEF GoneInv
<1>7. WaitingInv'
  BY <1>0, <1>4, Zenon DEF WaitingInv, Gone, Callers, TypeOK, SchedStates
<1>8. PlaceInv'
  BY <1>0, <1>4 DEF PlaceInv, Held
<1>9. GuestInv'
  BY <1>0, <1>4 DEF GuestInv, Callers
<1>10. RunningInv'
  BY <1>4, RunningShrinks
<1>11. WorkConserving'
  BY <1>0 DEF WorkConserving
<1>12. QED
  BY <1>1, <1>2, <1>3, <1>6, <1>7, <1>8, <1>9, <1>10, <1>11

\* cancel_sleep is set and taken back
LEMMA ArmStep ==
  ASSUME IInv, NEW t \in Threads, ArmCancel(t) \/ Disarm(t)
  PROVE  IInv'
<1> USE DEF IInv
<1>0. PICK v \in {0, 1}, l \in {"arming", "check"} :
         /\ sched' = [sched EXCEPT !.cancel_sleep[t] = v] /\ pc' = [pc EXCEPT ![t] = l]
         /\ pc[t] \in {"syscall", "arming"} /\ UNCHANGED <<g_mutex, g_to_awake>>
  BY DEF ArmCancel, Disarm, Goto
<1>1. /\ pc' \in [Callers -> PcStates] /\ pc'[t] = l /\ t \in Callers
      /\ \A c \in Callers \ {t} : pc'[c] = pc[c]
  BY <1>0 DEF TypeOK, Callers, PcStates
<1>2. /\ sched' \in SchedStates /\ sched'.g_ppu = sched.g_ppu /\ sched'.prio = sched.prio
      /\ sched'.g_waiting = sched.g_waiting /\ SameFlags(sched, sched')
  <2> DEFINE cs == [sched.cancel_sleep EXCEPT ![t] = v]
  <2>1. cs \in [Threads -> 0..2] /\ sched \in SchedStates
    BY DEF TypeOK, SchedStates
  <2>2. sched' = [sched EXCEPT !.cancel_sleep = cs]
    BY <1>0
  <2> HIDE DEF cs
  <2>3. QED
    BY <2>1, <2>2, Zenon DEF SchedStates, SameFlags
<1>3. Queued(sched') = Queued(sched) /\ OnProc(sched') = OnProc(sched)
  BY <1>2 DEF Queued, OnProc
<1>4. TypeOK'
  BY <1>0, <1>1, <1>2 DEF TypeOK
<1>5. LockInv'
  BY <1>0, <1>1 DEF LockInv
<1>6. QueueInv' /\ PendingCount'
  BY <1>2 DEF QueueInv, PendingCount, SameFlags
<1>7. Running' = Running /\ Held' = Held
  BY <1>0, <1>1, <1>2 DEF Running, Live, Runs, Held, Callers, SameFlags
<1>8. GoneInv'
  BY <1>0, <1>1, <1>2, <1>3 DEF GoneInv, Gone, Callers, SameFlags
<1>9. WaitingInv'
  BY <1>0, <1>1, <1>2, <1>3, <1>7 DEF WaitingInv, Gone, Callers, TypeOK, SchedStates, SameFlags
<1>10. PlaceInv'
  BY <1>0, <1>1, <1>2, <1>3, <1>7 DEF PlaceInv, Live, Callers, SameFlags
<1>11. GuestInv'
  BY <1>0, <1>1, <1>2, <1>7 DEF GuestInv, Callers, SameFlags
<1>12. RunningInv'
  BY <1>7, RunningShrinks
<1>13. WorkConserving'
  BY <1>0, <1>1, <1>2, <1>3, HostAssumption DEF WorkConserving, Callers, SameFlags
<1>14. QED
  BY <1>4, <1>5, <1>6, <1>8, <1>9, <1>10, <1>11, <1>12, <1>13

\* A thread resets flags of its own other than cpu_flag::suspend
LEMMA FlagStep ==
  ASSUME IInv, NEW t \in Threads, NEW F \in SUBSET {"signal", "notify"},
         sched' = [sched EXCEPT !.state[t] = @ \ F],
         NEW l \in {"check", "guest", "cpu_sleep", "parked"}, Goto(t, l),
         l = "guest" => "suspend" \notin sched.state[t] /\ F = {"signal", "notify"},
         pc[t] \in {"waiting", "twaiting", "check", "parked"},
         UNCHANGED <<g_mutex, g_to_awake>>
  PROVE  IInv'
<1> USE DEF IInv
<1> DEFINE st == [sched.state EXCEPT ![t] = @ \ F]
<1>1. /\ pc' \in [Callers -> PcStates] /\ pc'[t] = l /\ t \in Callers
      /\ \A c \in Callers \ {t} : pc'[c] = pc[c]
  BY DEF TypeOK, Goto, Callers, PcStates
<1>2. /\ st \in [Threads -> SUBSET Flags] /\ sched \in SchedStates
      /\ \A u \in Threads : /\ "suspend" \in st[u] <=> "suspend" \in sched.state[u]
                            /\ "notify" \in st[u] => "notify" \in sched.state[u]
                            /\ u # t => st[u] = sched.state[u]
      /\ l = "guest" => st[t] = {}
  <2>1. sched \in SchedStates /\ sched.state \in [Threads -> SUBSET Flags]
    BY DEF TypeOK, SchedStates
  <2>2. st \in [Threads -> SUBSET Flags] /\ st[t] = sched.state[t] \ F
        /\ \A u \in Threads : u # t => st[u] = sched.state[u]
    BY <2>1
  <2>3. /\ "suspend" \in sched.state[t] \ F <=> "suspend" \in sched.state[t]
        /\ "notify" \in sched.state[t] \ F => "notify" \in sched.state[t]
    OBVIOUS
  <2>4. l = "guest" => sched.state[t] \ F = {}
    BY <2>1 DEF Flags
  <2> HIDE DEF st
  <2>5. QED
    BY <2>1, <2>2, <2>3, <2>4
<1>3. sched' = [sched EXCEPT !.state = st]
  OBVIOUS
<1> HIDE DEF st
<1>4. /\ sched' \in SchedStates /\ sched'.g_ppu = sched.g_ppu /\ sched'.prio = sched.prio
      /\ sched'.g_waiting = sched.g_waiting /\ sched'.state = st
      /\ sched'.ack_suspend = sched.ack_suspend /\ sched'.g_pending = sched.g_pending
      /\ sched'.g_scheduler_ready = sched.g_scheduler_ready
  BY <1>2, <1>3 DEF SchedStates
<1>5. Queued(sched') = Queued(sched) /\ OnProc(sched') = OnProc(sched) /\ OnProc(sched) \subseteq Threads
  BY <1>2, <1>4, LenProperties DEF Queued, OnProc, SchedStates
<1>6. TypeOK'
  BY <1>1, <1>4 DEF TypeOK
<1>7. LockInv'
  BY <1>1 DEF LockInv
<1>8. QueueInv' /\ PendingCount'
  BY <1>2, <1>4 DEF QueueInv, PendingCount
<1>9. Running' = Running /\ Held' = Held
  BY <1>1, <1>2, <1>4 DEF Running, Live, Runs, Held, Callers
<1>10. GoneInv'
  BY <1>1, <1>2, <1>4, <1>5 DEF GoneInv, Gone, Callers
<1>11. WaitingInv'
  BY <1>1, <1>2, <1>4, <1>5, <1>9 DEF WaitingInv, Gone, Callers, TypeOK, SchedStates
<1>12. PlaceInv'
  <2>1. Running' \subseteq Queued(sched') \cup Held'
    BY <1>5, <1>9 DEF PlaceInv
  <2>2. Live' = Live
    BY <1>1 DEF Live, Callers
  <2>3. ASSUME ~g_mutex.reschedule, NEW u \in Live, "suspend" \notin sched'.state[u]
        PROVE  u \in OnProc(sched')
    <3>1. "suspend" \notin sched.state[u]
      BY <2>3, <1>2, <1>4 DEF Live
    <3>2. QED
      BY <2>3, <3>1, <1>5 DEF PlaceInv
  <2>4. QED
    BY <2>1, <2>2, <2>3, Zenon DEF PlaceInv
<1>13. GuestInv'
  <2>1. ASSUME NEW u \in Threads, pc'[u] \in {"guest", "syscall", "arming"}, u # t
        PROVE  u \in Running' /\ sched'.state[u] \subseteq {"suspend"}
    BY <2>1, <1>1, <1>2, <1>4, <1>9 DEF GuestInv, Callers
  <2>2. ASSUME pc'[t] \in {"guest", "syscall", "arming"}
        PROVE  t \in Running' /\ sched'.state[t] \subseteq {"suspend"}
    <3>1. l = "guest"
      BY <2>2, <1>1
    <3>2. t \in Running
      BY <3>1 DEF Running, Runs, Live
    <3>3. QED
      BY <3>1, <3>2, <1>2, <1>4, <1>9
  <2>3. QED
    BY <2>1, <2>2 DEF GuestInv
<1>14. RunningInv'
  BY <1>9, RunningShrinks
<1>15. WorkConserving'
  BY <1>1, <1>2, <1>4, <1>5, HostAssumption DEF WorkConserving, Callers
<1>16. QED
  BY <1>6, <1>7, <1>8, <1>10, <1>11, <1>12, <1>13, <1>14, <1>15

\* The invariants on the scheduler state, in the words of the lemmas on its operations
LEMMA SchedFacts ==
  ASSUME IInv
  PROVE  sched \in SchedStates /\ GoodQueue(sched) /\ CountOK(sched)
BY DEF IInv, TypeOK, QueueInv, GoodQueue, Sorted, PendingCount, CountOK, Owes

LEMMA QueueIntro ==
  ASSUME GoodQueue(sched')
  PROVE  QueueInv'
BY DEF QueueInv, GoodQueue, Sorted

LEMMA CountIntro ==
  ASSUME CountOK(sched')
  PROVE  PendingCount'
BY DEF PendingCount, CountOK, Owes

\* A thread that owes an acknowledgement is counted
LEMMA OwesCounted ==
  ASSUME NEW s \in SchedStates, CountOK(s), NEW t \in Threads, s.ack_suspend[t]
  PROVE  s.g_pending > 0
<1>1. t \in Owes(s) /\ IsFiniteSet(Owes(s))
  BY ThreadsAssumption, FS_Subset DEF Owes
<1>2. Cardinality(Owes(s)) \in Nat /\ Cardinality(Owes(s)) # 0
  BY <1>1, FS_EmptySet, FS_CardinalityType
<1>3. QED
  BY <1>2 DEF CountOK

\* The facts that taking the lock gives
LEMMA AcquireFacts ==
  ASSUME IInv, NEW c \in Callers, NEW l \in PcStates, NEW b \in BOOLEAN, Acquire(c, l, b)
  PROVE  /\ g_mutex = Free /\ g_mutex.who = None /\ g_mutex.reschedule = FALSE
         /\ g_mutex' \in [who : Callers \cup {None}, next : PcStates, reschedule : BOOLEAN]
         /\ g_mutex'.who = c /\ g_mutex'.next = l /\ g_mutex'.reschedule = b /\ g_mutex' # Free
         /\ pc' \in [Callers -> PcStates] /\ pc'[c] = "locked"
         /\ \A d \in Callers \ {c} : pc'[d] = pc[d]
         /\ \A d \in Callers : pc[d] # "locked"
         /\ c # None
         /\ Held = {}
<1>1. c # None
  BY CallersFacts
<1>2. /\ g_mutex = Free /\ g_mutex.who = None /\ g_mutex.reschedule = FALSE
      /\ g_mutex'.who = c /\ g_mutex'.next = l /\ g_mutex'.reschedule = b
      /\ g_mutex' \in [who : Callers \cup {None}, next : PcStates, reschedule : BOOLEAN]
  BY DEF Acquire, Free
<1>3. g_mutex' # Free
  BY <1>1, <1>2 DEF Free
<1>4. /\ pc' \in [Callers -> PcStates] /\ pc'[c] = "locked"
      /\ \A d \in Callers \ {c} : pc'[d] = pc[d]
  BY DEF Acquire, Goto, IInv, TypeOK, PcStates
<1>5. \A d \in Callers : pc[d] # "locked"
  BY <1>2, CallersFacts DEF IInv, LockInv
<1>6. QED
  BY <1>1, <1>2, <1>3, <1>4, <1>5 DEF Held

\* sleep and exit: the caller leaves the run queue and stops running
LEMMA SleepStep ==
  ASSUME IInv, NEW t \in Threads, NEW timed \in BOOLEAN,
         pc[t] \in {"syscall", "arming", "resume"},
         NEW l \in {"check", "waiting", "twaiting", "exiting"},
         Acquire(t, l, g_to_awake[t] # <<>>),
         l = "exiting" => /\ pc[t] = "syscall" /\ timed = FALSE
                          /\ \A c \in Callers : t \notin Range(g_to_awake[c]),
         sched' = sleep_unlocked(sched, t, timed), UNCHANGED g_to_awake
  PROVE  IInv'
<1> DEFINE b == g_to_awake[t] # <<>>
<1>0. t \in Callers /\ l \in PcStates /\ b \in BOOLEAN
  BY DEF Callers, PcStates
<1>1. /\ g_mutex = Free /\ g_mutex.who = None /\ g_mutex.reschedule = FALSE
      /\ g_mutex' \in [who : Callers \cup {None}, next : PcStates, reschedule : BOOLEAN]
      /\ g_mutex'.who = t /\ g_mutex'.next = l /\ g_mutex'.reschedule = b /\ g_mutex' # Free
      /\ pc' \in [Callers -> PcStates] /\ pc'[t] = "locked"
      /\ \A d \in Callers \ {t} : pc'[d] = pc[d]
      /\ \A d \in Callers : pc[d] # "locked"
      /\ t # None
      /\ Held = {}
  BY <1>0, AcquireFacts, Zenon
<1> HIDE DEF b
<1>2. sched \in SchedStates /\ GoodQueue(sched) /\ CountOK(sched)
  BY SchedFacts
<1>3. /\ sched.state \in [Threads -> SUBSET Flags] /\ sched.ack_suspend \in [Threads -> BOOLEAN]
      /\ sched.g_pending \in Nat
  BY <1>2 DEF SchedStates
<1>4. /\ pc[t] = "resume" => /\ t \notin Queued(sched) /\ ~sched.ack_suspend[t]
                             /\ "suspend" \in sched.state[t]
      /\ pc[t] # "resume" => sched.state[t] \subseteq {"suspend"}
  BY DEF IInv, GoneInv, Gone, GuestInv
<1>5. sched.ack_suspend[t] => sched.g_pending > 0
  BY <1>2, OwesCounted
<1>6. /\ sched' \in SchedStates /\ GoodQueue(sched')
      /\ Queued(sched') = Queued(sched) \ {t}
      /\ OnProc(sched) \ {t} \subseteq OnProc(sched')
      /\ sched'.g_waiting = IF timed /\ t \in Queued(sched) THEN sched.g_waiting \cup {t}
                            ELSE sched.g_waiting
      /\ sched'.state = [sched.state EXCEPT ![t] = IF "signal" \in sched.state[t] THEN @
                                                   ELSE @ \cup {"suspend"}]
      /\ sched'.ack_suspend = [sched.ack_suspend EXCEPT ![t] = FALSE]
      /\ sched'.g_pending = IF sched.ack_suspend[t] THEN sched.g_pending - 1 ELSE sched.g_pending
      /\ sched'.g_scheduler_ready = sched.g_scheduler_ready
  <2>1. "signal" \in sched.state[t] => t \notin Queued(sched)
    BY <1>4
  <2>2. Slept(sched, t, timed, sched')
    BY <1>2, <1>5, <2>1, SleepProps
  <2>3. QED
    BY <2>2 DEF Slept
<1>7. /\ "suspend" \in sched'.state[t] /\ ~sched'.ack_suspend[t]
      /\ t \in Queued(sched) => "notify" \notin sched'.state[t]
      /\ \A u \in Threads \ {t} : /\ sched'.state[u] = sched.state[u]
                                   /\ sched'.ack_suspend[u] = sched.ack_suspend[u]
  BY <1>3, <1>4, <1>6
<1>8. Running' = Running \ {t}
  BY <1>0, <1>1, <1>7 DEF Running, Live, Runs, Callers
<1>9. TypeOK'
  BY <1>1, <1>6 DEF TypeOK, IInv
<1>10. LockInv'
  BY <1>1 DEF LockInv, PcStates, b
<1>11. QueueInv'
  BY <1>6, QueueIntro
<1>12. PendingCount'
  <2>1. Owes(sched') = Owes(sched) \ {t} /\ IsFiniteSet(Owes(sched))
    BY <1>7, ThreadsAssumption, FS_Subset DEF Owes
  <2>2. /\ t \in Owes(sched) <=> sched.ack_suspend[t]
        /\ sched.g_pending = Cardinality(Owes(sched))
    BY <1>2 DEF Owes, CountOK
  <2>3. Cardinality(Owes(sched')) = sched'.g_pending
    <3>1. Cardinality(Owes(sched')) = IF t \in Owes(sched) THEN Cardinality(Owes(sched)) - 1
                                      ELSE Cardinality(Owes(sched))
      BY <2>1, FS_RemoveElement, Zenon
    <3>2. sched'.g_pending = IF t \in Owes(sched) THEN sched.g_pending - 1 ELSE sched.g_pending
      BY <2>2, <1>6
    <3>3. QED
      BY <2>2, <3>1, <3>2
  <2>4. CountOK(sched')
    BY <2>3, <1>2, <1>7 DEF CountOK
  <2>5. QED
    BY <2>4, CountIntro
<1>13. GoneInv'
  <2>1. ASSUME NEW u \in Threads \ {t}, Gone(u)'
        PROVE  /\ u \notin Queued(sched') /\ ~sched'.ack_suspend[u]
               /\ \A c \in Callers : u \notin Range(g_to_awake'[c])
               /\ pc'[u] # "exited" => "suspend" \in sched'.state[u]
    <3>1. Gone(u) /\ pc'[u] = pc[u]
      BY <2>1, <1>1 DEF Gone, Callers
    <3>2. QED
      BY <3>1, <1>6, <1>7 DEF IInv, GoneInv
  <2>2. ASSUME Gone(t)'
        PROVE  /\ t \notin Queued(sched') /\ ~sched'.ack_suspend[t]
               /\ \A c \in Callers : t \notin Range(g_to_awake'[c])
               /\ pc'[t] # "exited" => "suspend" \in sched'.state[t]
    <3>1. l = "exiting"
      BY <2>2, <1>1 DEF Gone
    <3>2. QED
      BY <3>1, <1>6, <1>7
  <2>3. QED
    BY <2>1, <2>2 DEF GoneInv
<1>14. WaitingInv'
  <2>1. ASSUME NEW u \in sched.g_waiting, u # t
        PROVE  /\ u \notin Queued(sched') /\ u \notin Running'
               /\ ~Gone(u)' /\ "notify" \notin sched'.state[u]
    <3>1. u \in Threads
      BY <1>2 DEF SchedStates
    <3>2. Gone(u)' => Gone(u)
      BY <2>1, <3>1, <1>1 DEF Gone, Callers
    <3>3. QED
      BY <2>1, <3>1, <3>2, <1>6, <1>7, <1>8, SMTT(30) DEF IInv, WaitingInv
  <2>2. ASSUME t \in sched'.g_waiting
        PROVE  /\ t \notin Queued(sched') /\ t \notin Running'
               /\ ~Gone(t)' /\ "notify" \notin sched'.state[t]
    <3>1. t \notin sched.g_waiting
      BY <1>4 DEF IInv, WaitingInv, GuestInv, Gone
    <3>2. timed /\ t \in Queued(sched)
      BY <2>2, <3>1, <1>6
    <3>3. ~Gone(t)'
      BY <3>2, <1>1 DEF Gone
    <3>4. QED
      BY <3>2, <3>3, <1>6, <1>7, <1>8, Zenon
  <2>3. QED
    BY <2>1, <2>2, <1>6 DEF WaitingInv
<1>15. PlaceInv'
  <2>1. Running' \subseteq Queued(sched')
    BY <1>1, <1>6, <1>8 DEF IInv, PlaceInv
  <2>2. ASSUME NEW u \in Live', "suspend" \notin sched'.state[u]
        PROVE  u \in OnProc(sched')
    <3>1. u \in Live /\ u # t /\ "suspend" \notin sched.state[u]
      BY <2>2, <1>1, <1>7 DEF Live, Callers
    <3>2. QED
      BY <3>1, <1>1, <1>6 DEF IInv, PlaceInv
  <2>3. QED
    BY <2>1, <2>2 DEF PlaceInv
<1>16. GuestInv'
  <2>1. ASSUME NEW u \in Threads, pc'[u] \in {"guest", "syscall", "arming"}
        PROVE  u \in Running' /\ sched'.state[u] \subseteq {"suspend"}
    <3>1. u # t /\ pc[u] = pc'[u]
      BY <2>1, <1>1 DEF Callers
    <3>2. QED
      BY <2>1, <3>1, <1>7, <1>8 DEF IInv, GuestInv
  <2>2. QED
    BY <2>1 DEF GuestInv
<1>17. RunningInv'
  BY <1>8, RunningShrinks DEF IInv
<1>18. WorkConserving'
  BY <1>1 DEF WorkConserving
<1>19. QED
  BY <1>9, <1>10, <1>11, <1>12, <1>13, <1>14, <1>15, <1>16, <1>17, <1>18 DEF IInv

\* The end of a thread: it stays out of everything
LEMMA ExitEndStep ==
  ASSUME IInv, NEW t \in Threads, exit_end(t)
  PROVE  IInv'
<1> DEFINE st == [sched.state EXCEPT ![t] = @ \ {"suspend"}]
<1>0. /\ pc[t] = "exiting" /\ UNCHANGED <<g_mutex, g_to_awake>>
      /\ pc' \in [Callers -> PcStates] /\ pc'[t] = "exited" /\ t \in Callers
      /\ \A c \in Callers \ {t} : pc'[c] = pc[c]
  BY DEF exit_end, Goto, IInv, TypeOK, Callers, PcStates
<1>1. sched \in SchedStates /\ st \in [Threads -> SUBSET Flags]
  BY DEF IInv, TypeOK, SchedStates
<1>2. sched' = [sched EXCEPT !.state = st]
  BY DEF exit_end
<1>3. \A u \in Threads \ {t} : st[u] = sched.state[u]
  BY <1>1 DEF SchedStates
<1> HIDE DEF st
<1>4. /\ sched' \in SchedStates /\ sched'.g_ppu = sched.g_ppu /\ sched'.prio = sched.prio
      /\ sched'.g_waiting = sched.g_waiting /\ sched'.state = st
      /\ sched'.ack_suspend = sched.ack_suspend /\ sched'.g_pending = sched.g_pending
      /\ sched'.g_scheduler_ready = sched.g_scheduler_ready
  BY <1>1, <1>2, Zenon DEF SchedStates
<1>5. Queued(sched') = Queued(sched) /\ OnProc(sched') = OnProc(sched) /\ OnProc(sched) \subseteq Queued(sched)
  BY <1>4 DEF Queued, OnProc
<1>50. Queued(sched) \subseteq Threads
  BY <1>1, LenProperties DEF Queued, SchedStates
<1>6. /\ Gone(t) /\ t \notin Queued(sched) /\ ~sched.ack_suspend[t] /\ "suspend" \in sched.state[t]
      /\ \A c \in Callers : t \notin Range(g_to_awake[c])
  BY <1>0 DEF IInv, GoneInv, Gone
<1>7. Running' = Running /\ Held' = Held /\ t \notin Running
  BY <1>0, <1>3, <1>4, <1>6 DEF Running, Live, Runs, Held, Callers
<1>8. TypeOK'
  BY <1>0, <1>4 DEF IInv, TypeOK
<1>9. LockInv'
  BY <1>0 DEF IInv, LockInv
<1>10. QueueInv'
  BY <1>4 DEF IInv, QueueInv
<1>11. PendingCount'
  BY <1>3, <1>4, <1>6 DEF IInv, PendingCount
<1>12. GoneInv'
  <2>1. ASSUME NEW u \in Threads \ {t}, Gone(u)'
        PROVE  /\ u \notin Queued(sched') /\ ~sched'.ack_suspend[u]
               /\ \A c \in Callers : u \notin Range(g_to_awake'[c])
               /\ pc'[u] # "exited" => "suspend" \in sched'.state[u]
    <3>1. Gone(u) /\ pc'[u] = pc[u]
      BY <2>1, <1>0 DEF Gone, Callers
    <3>2. QED
      BY <3>1, <1>0, <1>3, <1>4, <1>5 DEF IInv, GoneInv
  <2>2. QED
    BY <2>1, <1>0, <1>4, <1>5, <1>6 DEF GoneInv
<1>13. WaitingInv'
  <2>1. ASSUME NEW u \in sched.g_waiting
        PROVE  /\ u \notin Queued(sched') /\ u \notin Running'
               /\ ~Gone(u)' /\ "notify" \notin sched'.state[u]
    <3>1. u \in Threads /\ ~Gone(u) /\ u # t
      BY <1>1, <1>6 DEF SchedStates, IInv, WaitingInv
    <3>2. ~Gone(u)'
      BY <3>1, <1>0 DEF Gone, Callers
    <3>3. QED
      BY <3>1, <3>2, <1>3, <1>4, <1>5, <1>7 DEF IInv, WaitingInv
  <2>2. QED
    BY <2>1, <1>4 DEF WaitingInv
<1>14. PlaceInv'
  <2>1. Running' \subseteq Queued(sched') \cup Held'
    BY <1>5, <1>7 DEF IInv, PlaceInv
  <2>2. ASSUME ~g_mutex.reschedule, NEW u \in Live', "suspend" \notin sched'.state[u]
        PROVE  u \in OnProc(sched')
    <3>1. u \in Live /\ u # t /\ "suspend" \notin sched.state[u]
      BY <2>2, <1>0, <1>3, <1>4 DEF Live, Callers
    <3>2. QED
      BY <2>2, <3>1, <1>5 DEF IInv, PlaceInv
  <2>3. QED
    BY <2>1, <2>2, <1>0 DEF PlaceInv
<1>15. GuestInv'
  BY <1>0, <1>3, <1>4, <1>7 DEF IInv, GuestInv, Callers
<1>16. RunningInv'
  BY <1>7, RunningShrinks DEF IInv
<1>17. WorkConserving'
  BY <1>0, <1>3, <1>4, <1>5, <1>50, <1>6, CallersFacts DEF IInv, WorkConserving
<1>18. QED
  BY <1>8, <1>9, <1>10, <1>11, <1>12, <1>13, <1>14, <1>15, <1>16, <1>17 DEF IInv

\* The first thread of a list and the rest of it
LEMMA HeadRange ==
  ASSUME NEW q \in Seq(Threads), q # <<>>
  PROVE  /\ Head(q) \in Threads /\ Tail(q) \in Seq(Threads)
         /\ Range(q) = {Head(q)} \cup Range(Tail(q))
<1> DEFINE r == Tail(q)
<1>1. /\ Head(q) \in Threads /\ r \in Seq(Threads) /\ Len(r) = Len(q) - 1
      /\ \A i \in 1..Len(r) : r[i] = q[i + 1]
  BY HeadTailProperties
<1>2. Len(q) \in Nat \ {0} /\ DOMAIN q = 1..Len(q)
  BY EmptySeq, LenProperties
<1>20. Head(q) = q[1]
  OBVIOUS
<1>3. DOMAIN r = 1..Len(r) /\ Len(r) \in Nat
  BY <1>1, LenProperties
<1> HIDE DEF r
<1>4. ASSUME NEW i \in 1..Len(q) PROVE q[i] \in {Head(q)} \cup Range(r)
  <2>1. CASE i = 1
    BY <2>1, <1>20
  <2>2. CASE i # 1
    <3>1. i - 1 \in 1..Len(r) /\ (i - 1) + 1 = i
      BY <2>2, <1>1, <1>2
    <3>2. r[i - 1] = q[i]
      BY <3>1, <1>1
    <3>3. QED
      BY <3>1, <3>2, <1>3 DEF Range
  <2>3. QED
    BY <2>1, <2>2
<1>5. ASSUME NEW i \in 1..Len(r) PROVE r[i] \in Range(q)
  <2>1. i + 1 \in 1..Len(q)
    BY <1>1, <1>2, <1>3
  <2>2. QED
    BY <2>1, <1>1, <1>2 DEF Range
<1>6. Head(q) \in Range(q)
  <2>1. 1 \in 1..Len(q)
    BY <1>2
  <2>2. QED
    BY <2>1, <1>2, <1>20 DEF Range
<1>7. Range(q) = {Head(q)} \cup Range(r)
  BY <1>2, <1>3, <1>4, <1>5, <1>6 DEF Range
<1>8. QED
  BY <1>1, <1>7 DEF r

\* The holder of the lock puts the next thread of its list into the run queue
LEMMA EmplaceStep ==
  ASSUME IInv, NEW c \in Callers, EmplaceNext(c)
  PROVE  IInv'
<1> DEFINE q == g_to_awake[c]
           u == Head(q)
<1>0. /\ g_mutex.who = c /\ c # None /\ UNCHANGED <<pc, g_mutex>>
      /\ g_to_awake \in [Callers -> Seq(Threads)]
      /\ q \in Seq(Threads) /\ q # <<>>
      /\ g_to_awake' = [g_to_awake EXCEPT ![c] = Tail(q)]
      /\ sched' = emplace_thread(sched, u)
  BY CallersFacts DEF EmplaceNext, IInv, TypeOK
<1>1. u \in Threads /\ Tail(q) \in Seq(Threads) /\ Range(q) = {u} \cup Range(Tail(q))
  BY <1>0, HeadRange
<1> HIDE DEF u
<1>2. sched \in SchedStates /\ GoodQueue(sched) /\ CountOK(sched)
  BY SchedFacts
<1>3. /\ sched' \in SchedStates /\ GoodQueue(sched') /\ SameFlags(sched, sched')
      /\ Queued(sched') = Queued(sched) \cup {u}
      /\ sched'.g_waiting = IF u \in Queued(sched) THEN sched.g_waiting ELSE sched.g_waiting \ {u}
  BY <1>0, <1>1, <1>2, EmplaceProps, Zenon
<1>4. g_mutex.reschedule /\ g_mutex # Free
  BY <1>0 DEF IInv, LockInv, Free
<1>5. /\ g_to_awake' \in [Callers -> Seq(Threads)] /\ g_to_awake'[c] = Tail(q)
      /\ \A d \in Callers : Range(g_to_awake'[d]) \subseteq Range(g_to_awake[d])
  BY <1>0, <1>1
<1>6. Running' = Running
  BY <1>0, <1>3 DEF Running, Live, Runs, SameFlags
<1>7. Held = {u} \cup Held'
  BY <1>0, <1>1, <1>5 DEF Held
<1>8. ~Gone(u)
  BY <1>0, <1>1 DEF IInv, GoneInv
<1>9. TypeOK'
  BY <1>0, <1>3, <1>5 DEF IInv, TypeOK
<1>10. LockInv'
  BY <1>0, <1>4 DEF IInv, LockInv
<1>11. QueueInv'
  BY <1>3, QueueIntro
<1>12. PendingCount'
  BY <1>3 DEF IInv, PendingCount, SameFlags
<1>13. GoneInv'
  <2>1. \A t \in Threads : Gone(t)' => Gone(t) /\ t # u
    BY <1>0, <1>8 DEF Gone
  <2>2. QED
    BY <2>1, <1>0, <1>3, <1>5, SMTT(30) DEF IInv, GoneInv, SameFlags
<1>14. WaitingInv'
  <2>1. ASSUME NEW t \in sched'.g_waiting
        PROVE  /\ t \notin Queued(sched') /\ t \notin Running'
               /\ ~Gone(t)' /\ "notify" \notin sched'.state[t]
    <3>1. t \in sched.g_waiting /\ t # u
      BY <1>3 DEF IInv, WaitingInv
    <3>2. ~Gone(t)'
      BY <3>1, <1>0 DEF Gone, IInv, WaitingInv
    <3>3. QED
      BY <3>1, <3>2, <1>3, <1>6 DEF IInv, WaitingInv, SameFlags
  <2>2. QED
    BY <2>1 DEF WaitingInv
<1>15. PlaceInv'
  BY <1>0, <1>3, <1>4, <1>6, <1>7 DEF IInv, PlaceInv
<1>16. GuestInv'
  BY <1>0, <1>3, <1>6 DEF IInv, GuestInv, SameFlags
<1>17. RunningInv'
  BY <1>6, RunningShrinks DEF IInv
<1>18. WorkConserving'
  BY <1>0, <1>4 DEF WorkConserving
<1>19. QED
  BY <1>9, <1>10, <1>11, <1>12, <1>13, <1>14, <1>15, <1>16, <1>17, <1>18 DEF IInv

\* yield and set_priority: the run queue changes under the lock, no flag does
LEMMA ReorderStep ==
  ASSUME IInv, NEW t \in Threads, NEW b \in BOOLEAN, Acquire(t, "signaling", b),
         pc[t] \in {"syscall", "signaling"},
         sched' \in SchedStates, GoodQueue(sched'), SameFlags(sched, sched'),
         sched'.g_waiting = sched.g_waiting,
         NEW q \in Seq(Threads), g_to_awake' = [g_to_awake EXCEPT ![t] = q],
         Range(q) \subseteq Queued(sched), Queued(sched') \subseteq Queued(sched),
         Queued(sched) \subseteq Queued(sched') \cup Range(q),
         ~b => q = <<>> /\ OnProc(sched') = OnProc(sched)
  PROVE  IInv'
<1>0. t \in Callers /\ "signaling" \in PcStates
  BY DEF Callers, PcStates
<1>1. /\ g_mutex = Free /\ g_mutex.who = None /\ g_mutex.reschedule = FALSE
      /\ g_mutex' \in [who : Callers \cup {None}, next : PcStates, reschedule : BOOLEAN]
      /\ g_mutex'.who = t /\ g_mutex'.next = "signaling" /\ g_mutex'.reschedule = b /\ g_mutex' # Free
      /\ pc' \in [Callers -> PcStates] /\ pc'[t] = "locked"
      /\ \A d \in Callers \ {t} : pc'[d] = pc[d]
      /\ \A d \in Callers : pc[d] # "locked"
      /\ t # None
      /\ Held = {}
  BY <1>0, AcquireFacts, Zenon
<1>2. sched \in SchedStates
  BY SchedFacts
<1>3. /\ g_to_awake' \in [Callers -> Seq(Threads)]
      /\ \A d \in Callers : g_to_awake'[d] = IF d = t THEN q ELSE g_to_awake[d]
  BY Zenon DEF IInv, TypeOK
<1>4. Running' = Running /\ Live' = Live
  BY <1>0, <1>1, SMTT(30) DEF Running, Live, Runs, Callers, SameFlags
<1>5. Held' = Range(q)
  BY <1>0, <1>1, <1>3 DEF Held
<1>6. TypeOK'
  BY <1>1, <1>3 DEF TypeOK
<1>7. LockInv'
  BY <1>0, <1>1, <1>3 DEF LockInv
<1>8. QueueInv'
  BY QueueIntro
<1>9. PendingCount'
  BY DEF IInv, PendingCount, SameFlags
<1>10. \A u \in Threads : Gone(u)' => Gone(u) /\ pc'[u] = pc[u]
  BY <1>1 DEF Gone, Callers
<1>11. GoneInv'
  BY <1>3, <1>10, SMTT(30) DEF IInv, GoneInv, SameFlags
<1>12. WaitingInv'
  BY <1>2, <1>4, <1>10, SMTT(30) DEF IInv, WaitingInv, SameFlags, SchedStates
<1>13. PlaceInv'
  <2>1. Running' \subseteq Queued(sched') \cup Held'
    BY <1>1, <1>4, <1>5, SMTT(30) DEF IInv, PlaceInv
  <2>2. ASSUME ~b, NEW u \in Live, "suspend" \notin sched'.state[u]
        PROVE  u \in OnProc(sched')
    BY <2>2, <1>1, SMTT(30) DEF IInv, PlaceInv, SameFlags
  <2>3. QED
    BY <2>1, <2>2, <1>1, <1>4, SMTT(30) DEF PlaceInv
<1>14. GuestInv'
  BY <1>1, <1>4 DEF IInv, GuestInv, SameFlags, Callers
<1>15. RunningInv'
  BY <1>4, RunningShrinks, SMTT(30) DEF IInv
<1>16. WorkConserving'
  BY <1>1 DEF WorkConserving
<1>17. QED
  BY <1>6, <1>7, <1>8, <1>9, <1>11, <1>12, <1>13, <1>14, <1>15, <1>16 DEF IInv

LEMMA YieldStep ==
  ASSUME IInv, NEW t \in Threads, yield(t)
  PROVE  IInv'
<1> DEFINE b == yield_switches(sched, t)
<1>1. sched \in SchedStates /\ GoodQueue(sched)
  BY SchedFacts, SMTT(30)
<1>2. /\ pc[t] = "syscall" /\ t \in Queued(sched) /\ Acquire(t, "signaling", b)
      /\ sched' = rotate(sched, t) /\ b \in BOOLEAN
  BY DEF yield, yield_switches
<1>3. /\ sched' \in SchedStates /\ GoodQueue(sched') /\ SameFlags(sched, sched')
      /\ Queued(sched') = Queued(sched) /\ sched'.g_waiting = sched.g_waiting
      /\ ~b => OnProc(sched') = OnProc(sched)
  BY <1>1, <1>2, YieldProps
<1>4. /\ g_to_awake' = [g_to_awake EXCEPT ![t] = <<>>] /\ <<>> \in Seq(Threads)
      /\ Range(<<>>) = {}
  BY EmptySeq DEF yield, IInv, TypeOK, Range, Callers
<1> HIDE DEF b
<1>5. QED
  BY <1>2, <1>3, <1>4, ReorderStep, Zenon

LEMMA SetPriorityStep ==
  ASSUME IInv, NEW t \in Threads, NEW u \in Threads, NEW p \in Prios, set_priority(t, u, p)
  PROVE  IInv'
<1> DEFINE r == set_prio_returns(sched, t, u, p)
           b == ~r
           q == IF r THEN <<>> ELSE <<u>>
<1>1. sched \in SchedStates /\ GoodQueue(sched)
  BY SchedFacts
<1>2. /\ pc[t] \in {"syscall", "signaling"} /\ Acquire(t, "signaling", b)
      /\ sched' = set_prio(sched, t, u, p) /\ b \in BOOLEAN
      /\ g_to_awake' = [g_to_awake EXCEPT ![t] = q]
  BY DEF set_priority
<1>3. /\ sched' \in SchedStates /\ GoodQueue(sched') /\ SameFlags(sched, sched')
      /\ sched'.g_waiting = sched.g_waiting
      /\ IF r THEN Queued(sched') = Queued(sched) /\ OnProc(sched') = OnProc(sched)
              ELSE Queued(sched') = Queued(sched) \ {u} /\ u \in Queued(sched)
  BY <1>1, <1>2, SetPrioProps
<1>4. q \in Seq(Threads) /\ Range(q) = IF r THEN {} ELSE {u}
  <2>1. <<>> \in Seq(Threads) /\ <<u>> \in Seq(Threads) /\ Range(<<>>) = {} /\ Range(<<u>>) = {u}
    BY EmptySeq DEF Range
  <2>2. QED
    BY <2>1, Zenon
<1>5. ~b => q = <<>>
  OBVIOUS
<1> HIDE DEF r
<1>6. /\ Range(q) \subseteq Queued(sched) /\ Queued(sched') \subseteq Queued(sched)
      /\ Queued(sched) \subseteq Queued(sched') \cup Range(q)
      /\ ~b => q = <<>> /\ OnProc(sched') = OnProc(sched)
  BY <1>3, <1>4, <1>5, SMTT(30)
<1> HIDE DEF q, b
<1>7. QED
  BY <1>2, <1>3, <1>4, <1>6, ReorderStep, Zenon

\* What the rest of awake_unlocked, when it is not left early, makes of sched
Rescheduled(m, c) ==
  /\ m \in SchedStates /\ CountOK(m)
  /\ m.g_ppu = sched.g_ppu /\ m.prio = sched.prio /\ m.g_waiting = sched.g_waiting
  /\ m.g_scheduler_ready = sched.g_scheduler_ready
  /\ \A t \in Threads :
       /\ m.state[t] \in {sched.state[t], sched.state[t] \cup {"suspend"}}
       /\ t \notin Queued(sched) => m.state[t] = sched.state[t]
       /\ m.ack_suspend[t] => sched.ack_suspend[t] \/ "suspend" \notin sched.state[t]
       /\ m.ack_suspend[t] => sched.ack_suspend[t] \/ t \in Queued(sched)
       /\ t # c /\ Runs(t) => "suspend" \notin m.state[t] \/ m.ack_suspend[t]
  /\ \A t \in Live : "suspend" \notin m.state[t] => t \in OnProc(sched)

\* What the rest of awake_unlocked leaves for schedule_all: the threads that are
\* not suspended are on the hardware threads, and no more of them run
LEMMA RescheduleProps ==
  ASSUME IInv, NEW c \in Callers, g_mutex.who = c, g_to_awake[c] = <<>>,
         NEW m, m = IF g_mutex.reschedule THEN ack_current(suspend_excess(sched), Current(c)) ELSE sched
  PROVE  Rescheduled(m, c)
<1>1. sched \in SchedStates /\ CountOK(sched)
  BY SchedFacts
<1>2. Held = {} /\ Running \subseteq Queued(sched)
  <2>1. Held = {}
    BY CallersFacts DEF Held, Range
  <2>2. QED
    BY <2>1 DEF IInv, PlaceInv
<1>3. CASE ~g_mutex.reschedule
  <2>1. m = sched
    BY <1>3
  <2>2. \A t \in Live : "suspend" \notin sched.state[t] => t \in OnProc(sched)
    BY <1>3 DEF IInv, PlaceInv
  <2>3. QED
    BY <2>1, <2>2, <1>1 DEF Runs, Rescheduled
<1>4. CASE g_mutex.reschedule
  <2> DEFINE e == suspend_excess(sched)
             k == ack_current(e, Current(c))
  <2>1. /\ e \in SchedStates /\ CountOK(e)
        /\ e.g_ppu = sched.g_ppu /\ e.prio = sched.prio /\ e.g_waiting = sched.g_waiting
        /\ e.g_scheduler_ready = sched.g_scheduler_ready
        /\ \A t \in Threads :
             /\ e.ack_suspend[t] <=> t \in Excess(sched) \/ sched.ack_suspend[t]
             /\ e.state[t] = IF t \in Excess(sched) THEN sched.state[t] \cup {"suspend"}
                             ELSE sched.state[t]
    BY <1>1, SuspendProps, Zenon
  <2> HIDE DEF e
  <2>2. /\ k \in SchedStates /\ CountOK(k)
        /\ k.g_ppu = e.g_ppu /\ k.prio = e.prio /\ k.g_waiting = e.g_waiting
        /\ k.g_scheduler_ready = e.g_scheduler_ready /\ k.state = e.state
        /\ \A t \in Threads : k.ack_suspend[t] <=> e.ack_suspend[t] /\ t # Current(c)
    BY <2>1, AckProps
  <2>3. m = k
    BY <1>4 DEF e
  <2> HIDE DEF k
  <2>4. \A t \in Threads : t \in Excess(sched) <=>
           t \in Queued(sched) /\ t \notin OnProc(sched) /\ "suspend" \notin sched.state[t]
    BY DEF Excess
  <2>5. \A t \in Threads : t # c => t # Current(c)
    BY ThreadsAssumption DEF Current
  <2>6. ASSUME NEW t \in Threads
        PROVE  /\ m.state[t] \in {sched.state[t], sched.state[t] \cup {"suspend"}}
               /\ t \notin Queued(sched) => m.state[t] = sched.state[t]
               /\ m.ack_suspend[t] => sched.ack_suspend[t] \/ "suspend" \notin sched.state[t]
               /\ m.ack_suspend[t] => sched.ack_suspend[t] \/ t \in Queued(sched)
               /\ t # c /\ Runs(t) => "suspend" \notin m.state[t] \/ m.ack_suspend[t]
    BY <2>1, <2>2, <2>3, <2>4, <2>5, Zenon DEF Runs
  <2>7. ASSUME NEW t \in Live, "suspend" \notin m.state[t] PROVE t \in OnProc(sched)
    <3>1. t \in Threads /\ t \notin Excess(sched) /\ "suspend" \notin sched.state[t]
      BY <2>7, <2>1, <2>2, <2>3, Zenon DEF Live
    <3>2. t \in Queued(sched)
      BY <3>1, <1>2 DEF Running, Runs
    <3>3. QED
      BY <3>1, <3>2, <2>4
  <2>8. QED
    BY <2>1, <2>2, <2>3, <2>6, <2>7, Zenon DEF Rescheduled
<1>5. QED
  BY <1>3, <1>4

\* The end of a step under the lock.  Either schedule_all releases nobody, and no
\* thread starts to run, or nobody owes an acknowledgement, and then the running
\* threads are the ones on the hardware threads
LEMMA ReleaseStep ==
  ASSUME IInv, NEW c \in Callers, Release(c)
  PROVE  IInv'
<1> DEFINE m == IF g_mutex.reschedule THEN ack_current(suspend_excess(sched), Current(c)) ELSE sched
           l == g_mutex.next
<1>0. /\ g_mutex.who = c /\ g_to_awake[c] = <<>> /\ g_mutex' = Free /\ c # None
      /\ g_to_awake' = g_to_awake
      /\ l \in {"signaling", "check", "waiting", "twaiting", "parked", "exiting", "idle"}
      /\ pc[c] = "locked" /\ pc' \in [Callers -> PcStates] /\ pc'[c] = l
      /\ \A d \in Callers \ {c} : pc'[d] = pc[d] /\ pc[d] # "locked"
      /\ g_mutex'.who = None /\ g_mutex'.reschedule = FALSE
  BY CallersFacts, SMTT(30) DEF Release, Goto, IInv, LockInv, TypeOK, Free
<1>1. PICK expired \in SUBSET sched.g_waiting : sched' = schedule_all(m, Current(c), expired)
  BY DEF Release
<1>a. Rescheduled(m, c)
  BY <1>0, RescheduleProps, SMTT(30)
<1> HIDE DEF m
<1>2. /\ m \in SchedStates /\ CountOK(m)
      /\ m.g_ppu = sched.g_ppu /\ m.prio = sched.prio /\ m.g_waiting = sched.g_waiting
      /\ m.g_scheduler_ready = sched.g_scheduler_ready
      /\ \A t \in Threads :
           /\ m.state[t] \in {sched.state[t], sched.state[t] \cup {"suspend"}}
           /\ t \notin Queued(sched) => m.state[t] = sched.state[t]
           /\ m.ack_suspend[t] => sched.ack_suspend[t] \/ "suspend" \notin sched.state[t]
           /\ m.ack_suspend[t] => sched.ack_suspend[t] \/ t \in Queued(sched)
           /\ t # c /\ Runs(t) => "suspend" \notin m.state[t] \/ m.ack_suspend[t]
      /\ \A t \in Live : "suspend" \notin m.state[t] => t \in OnProc(sched)
  BY <1>a DEF Rescheduled
<1>b. Scheduled(sched', m, expired)
  BY <1>1, <1>2, ScheduleProps, SMTT(30)
<1>3. /\ sched' \in SchedStates /\ CountOK(sched')
      /\ sched'.g_ppu = m.g_ppu /\ sched'.prio = m.prio /\ sched'.g_waiting = m.g_waiting \ expired
      /\ sched'.g_scheduler_ready = m.g_scheduler_ready
      /\ sched'.ack_suspend = m.ack_suspend /\ sched'.g_pending = m.g_pending
      /\ ToRun(m) # {} => \A t \in Threads : ~m.ack_suspend[t]
      /\ \A t \in Threads :
           /\ "suspend" \in sched'.state[t] <=> "suspend" \in m.state[t] /\ t \notin ToRun(m)
           /\ "notify" \in sched'.state[t] => "notify" \in m.state[t] \/ t \in expired
           /\ t \notin ToRun(m) \cup expired => sched'.state[t] = m.state[t]
  BY <1>b, SMTT(30) DEF Scheduled
<1>4. /\ Queued(sched') = Queued(sched) /\ OnProc(sched') = OnProc(sched) /\ OnProc(m) = OnProc(sched)
      /\ OnProc(sched) \subseteq Queued(sched) /\ Queued(sched) \subseteq Threads
  <2>1. sched.g_ppu \in Seq(Threads) /\ \A i \in 1..Len(sched.g_ppu) : sched.g_ppu[i] \in Threads
    BY LenProperties DEF IInv, TypeOK, SchedStates
  <2>2. QED
    BY <1>2, <1>3, <2>1 DEF Queued, OnProc
<1>5. ToRun(m) \subseteq OnProc(sched) /\ \A t \in ToRun(m) : "suspend" \in m.state[t]
  BY <1>4 DEF ToRun
<1>6. Held = {} /\ Running \subseteq Queued(sched)
  <2>1. Held = {}
    BY <1>0 DEF Held, Range
  <2>2. QED
    BY <2>1 DEF IInv, PlaceInv
<1>7. Live' = Live
  BY <1>0, SMTT(30) DEF Live, Callers
<1>8. \A t \in Live : "suspend" \notin sched'.state[t] => t \in OnProc(sched)
  BY <1>2, <1>3, <1>5 DEF Live
<1>9. Running' \subseteq Queued(sched)
  <2>1. ASSUME NEW t \in Running' PROVE t \in Queued(sched)
    <3>1. t \in Live /\ ("suspend" \notin sched'.state[t] \/ m.ack_suspend[t])
      BY <1>3, <1>7 DEF Running, Runs
    <3>2. CASE "suspend" \notin sched'.state[t]
      BY <3>1, <3>2, <1>4, <1>8, SMTT(30)
    <3>3. CASE m.ack_suspend[t]
      BY <3>1, <3>3, <1>2, <1>6 DEF Running, Runs, Live
    <3>4. QED
      BY <3>1, <3>2, <3>3, SMTT(30)
  <2>2. QED
    BY <2>1
<1>10. RunningInv'
  <2>1. CASE ToRun(m) = {}
    <3>1. Running' \subseteq Running
      BY <2>1, <1>2, <1>3, <1>7, Zenon DEF Running, Runs, Live
    <3>2. QED
      BY <3>1, RunningShrinks DEF IInv
  <2>2. CASE ToRun(m) # {}
    <3>1. Running' \subseteq OnProc(sched)
      BY <2>2, <1>3, <1>7, <1>8 DEF Running, Runs, Live
    <3>2. IsFiniteSet(OnProc(sched)) /\ Cardinality(OnProc(sched)) <= ppu_threads
      BY OnProcBound, QueuedElems DEF IInv, TypeOK, SchedStates
    <3>3. Cardinality(Running') <= Cardinality(OnProc(sched)) /\ IsFiniteSet(Running')
      BY <3>1, <3>2, FS_Subset
    <3>4. Cardinality(Running') \in Nat /\ Cardinality(OnProc(sched)) \in Nat
      BY <3>2, <3>3, FS_CardinalityType, SMTT(30)
    <3>5. QED
      BY <3>2, <3>3, <3>4, HwAssumption DEF RunningInv
  <2>3. QED
    BY <2>1, <2>2
<1>11. TypeOK'
  <2>1. Free \in [who : Callers \cup {None}, next : PcStates, reschedule : BOOLEAN]
    BY DEF Free, PcStates
  <2>2. QED
    BY <2>1, <1>0, <1>3 DEF IInv, TypeOK
<1>12. LockInv'
  BY <1>0, CallersFacts DEF LockInv
<1>13. QueueInv'
  BY <1>2, <1>3, Zenon DEF IInv, QueueInv
<1>14. PendingCount'
  BY <1>3, CountIntro
<1>15. ASSUME NEW t \in Threads, Gone(t)'
       PROVE  Gone(t) /\ (pc'[t] # "exited" => pc[t] # "exited")
  BY <1>15, <1>0, ThreadsAssumption DEF Gone, Callers
<1>16. GoneInv'
  <2>1. ASSUME NEW t \in Threads, Gone(t)'
        PROVE  /\ t \notin Queued(sched') /\ ~sched'.ack_suspend[t]
               /\ \A d \in Callers : t \notin Range(g_to_awake'[d])
               /\ pc'[t] # "exited" => "suspend" \in sched'.state[t]
    <3>1. Gone(t) /\ (pc'[t] # "exited" => pc[t] # "exited")
      BY <2>1, <1>15
    <3>2. /\ t \notin Queued(sched) /\ ~sched.ack_suspend[t]
          /\ \A d \in Callers : t \notin Range(g_to_awake[d])
          /\ pc[t] # "exited" => "suspend" \in sched.state[t]
      BY <3>1 DEF IInv, GoneInv
    <3>3. ~m.ack_suspend[t] /\ m.state[t] = sched.state[t] /\ t \notin ToRun(m)
      BY <3>2, <1>2, <1>4, <1>5, Zenon
    <3>4. QED
      BY <3>1, <3>2, <3>3, <1>0, <1>3, <1>4, Zenon
  <2>2. QED
    BY <2>1 DEF GoneInv
<1>17. WaitingInv'
  <2>1. ASSUME NEW t \in sched'.g_waiting
        PROVE  /\ t \notin Queued(sched') /\ t \notin Running'
               /\ ~Gone(t)' /\ "notify" \notin sched'.state[t]
    <3>1. t \in sched.g_waiting /\ t \notin expired /\ t \in Threads
      BY <1>2, <1>3, Zenon DEF SchedStates
    <3>2. t \notin Queued(sched) /\ ~Gone(t) /\ "notify" \notin sched.state[t]
      BY <3>1 DEF IInv, WaitingInv
    <3>3. "notify" \notin sched'.state[t]
      BY <3>1, <3>2, <1>2, <1>3, Zenon
    <3>4. QED
      BY <3>1, <3>2, <3>3, <1>4, <1>9, <1>15
  <2>2. QED
    BY <2>1 DEF WaitingInv
<1>18. PlaceInv'
  BY <1>0, <1>4, <1>7, <1>8, <1>9 DEF PlaceInv
<1>19. GuestInv'
  <2>1. ASSUME NEW t \in Threads, pc'[t] \in {"guest", "syscall", "arming"}
        PROVE  t \in Running' /\ sched'.state[t] \subseteq {"suspend"}
    <3>1. t # c /\ pc[t] = pc'[t]
      BY <2>1, <1>0 DEF Callers
    <3>2. t \in Running /\ sched.state[t] \subseteq {"suspend"}
      BY <2>1, <3>1 DEF IInv, GuestInv
    <3>3. "suspend" \notin m.state[t] \/ m.ack_suspend[t]
      BY <3>1, <3>2, <1>2 DEF Running
    <3>4. t \notin ToRun(m)
      BY <3>3, <1>3, <1>5
    <3>5. t \notin expired
      BY <3>2 DEF IInv, WaitingInv
    <3>6. sched'.state[t] = m.state[t]
      BY <3>4, <3>5, <1>3
    <3>7. t \in Running'
      BY <3>2, <3>3, <3>6, <1>3, <1>7 DEF Running, Runs
    <3>8. QED
      BY <3>2, <3>6, <3>7, <1>2
  <2>2. QED
    BY <2>1 DEF GuestInv
<1>20. WorkConserving'
  <2>1. ASSUME sched'.g_scheduler_ready, sched'.g_pending = 0, NEW t \in OnProc(sched')
        PROVE  "suspend" \notin sched'.state[t]
    <3>1. t \in Threads /\ t \in OnProc(m)
      BY <1>4
    <3>2. "suspend" \in m.state[t] => t \in ToRun(m)
      BY <2>1, <3>1, <1>3 DEF ToRun
    <3>3. QED
      BY <3>1, <3>2, <1>3
  <2>2. QED
    BY <2>1 DEF WorkConserving
<1>21. QED
  BY <1>10, <1>11, <1>12, <1>13, <1>14, <1>16, <1>17, <1>18, <1>19, <1>20 DEF IInv

\* make_scheduler_ready: its awake_all() is still to come
LEMMA MakeReadyStep ==
  ASSUME IInv, MakeReady
  PROVE  IInv'
<1>0. /\ UNCHANGED <<g_mutex, g_to_awake>>
      /\ pc' \in [Callers -> PcStates] /\ pc'[Host] = "boot" /\ pc[Host] = "idle"
      /\ \A c \in Callers \ {Host} : pc'[c] = pc[c]
  BY CallersFacts DEF MakeReady, Goto, IInv, TypeOK, PcStates
<1>00. \A t \in Threads : pc'[t] = pc[t]
  BY <1>0, CallersFacts
<1>1. sched \in SchedStates /\ sched' = [sched EXCEPT !.g_scheduler_ready = TRUE]
  BY DEF MakeReady, IInv, TypeOK
<1>2. /\ sched' \in SchedStates /\ sched'.g_ppu = sched.g_ppu /\ sched'.prio = sched.prio
      /\ sched'.g_waiting = sched.g_waiting /\ sched'.state = sched.state
      /\ sched'.ack_suspend = sched.ack_suspend /\ sched'.g_pending = sched.g_pending
  BY <1>1, Zenon DEF SchedStates
<1>3. Queued(sched') = Queued(sched) /\ OnProc(sched') = OnProc(sched)
  BY <1>2 DEF Queued, OnProc
<1>4. Running' = Running /\ Held' = Held /\ Live' = Live
  BY <1>0, <1>00, <1>2 DEF Running, Live, Runs, Held
<1>5. \A t \in Threads : Gone(t)' <=> Gone(t)
  BY <1>0, <1>00 DEF Gone
<1>6. TypeOK'
  BY <1>0, <1>2 DEF IInv, TypeOK
<1>7. LockInv'
  BY <1>0 DEF IInv, LockInv
<1>8. QueueInv' /\ PendingCount'
  BY <1>2 DEF IInv, QueueInv, PendingCount
<1>9. GoneInv'
  BY <1>0, <1>00, <1>2, <1>3, <1>5 DEF IInv, GoneInv
<1>10. WaitingInv'
  BY <1>1, <1>2, <1>3, <1>4, <1>5, SMTT(30) DEF IInv, WaitingInv, SchedStates
<1>11. PlaceInv'
  BY <1>0, <1>2, <1>3, <1>4 DEF IInv, PlaceInv
<1>12. GuestInv'
  BY <1>00, <1>2, <1>4 DEF IInv, GuestInv
<1>13. RunningInv'
  BY <1>4, RunningShrinks DEF IInv
<1>14. WorkConserving'
  BY <1>0 DEF WorkConserving
<1>15. QED
  BY <1>6, <1>7, <1>8, <1>9, <1>10, <1>11, <1>12, <1>13, <1>14 DEF IInv

-----------------------------------------------------------------------------

LEMMA AwakeStep ==
  ASSUME IInv, NEW c \in Callers, awake(c) \/ (c = Host /\ BootAwake)
  PROVE  IInv'
<1>1. PICK l \in {"idle", "signaling", "parked"} : Acquire(c, l, TRUE)
  BY Zenon DEF awake, BootAwake
<1>2. UNCHANGED <<sched, g_to_awake>> /\ pc[c] \in {"idle", "boot", "syscall", "signaling"}
  BY Zenon DEF awake, BootAwake, CanAwake
<1>3. /\ g_to_awake[c] \in Seq(Threads)
      /\ g_to_awake' = [g_to_awake EXCEPT ![c] = g_to_awake[c]]
  BY <1>2 DEF IInv, TypeOK
<1>4. \A t \in Range(g_to_awake[c]) : t \in Threads
  BY <1>3, LenProperties DEF Range
<1>5. \A t \in Range(g_to_awake[c]) : ~Gone(t)
  BY <1>4 DEF IInv, GoneInv
<1>6. QED
  BY <1>1, <1>2, <1>3, <1>5, AcquireStep, Zenon

LEMMA CpuSleepStep ==
  ASSUME IInv, NEW t \in Threads, cpu_sleep(t)
  PROVE  IInv'
<1>0. <<t>> \in Seq(Threads) /\ t \in Callers
  BY DEF Callers
<1>1. /\ Acquire(t, "parked", TRUE) /\ UNCHANGED sched /\ pc[t] = "cpu_sleep"
      /\ g_to_awake' = [g_to_awake EXCEPT ![t] = <<t>>]
  BY Zenon DEF cpu_sleep
<1>2. Range(<<t>>) = {t}
  BY DEF Range
<1>3. ~Gone(t)
  BY <1>1, ThreadsAssumption DEF Gone, Acquire, Free
<1>4. QED
  BY <1>0, <1>1, <1>2, <1>3, AcquireStep, Zenon

LEMMA LeaveQueueStep ==
  ASSUME IInv, NEW t \in Threads, NEW timed \in BOOLEAN, sleep(t, timed) \/ exit(t)
  PROVE  IInv'
<1>1. CASE sleep(t, timed)
  <2>1. PICK l \in {"check", "waiting", "twaiting"} : Acquire(t, l, g_to_awake[t] # <<>>)
    BY <1>1 DEF sleep
  <2>2. /\ pc[t] \in {"syscall", "arming", "resume"} /\ sched' = sleep_unlocked(sched, t, timed)
        /\ UNCHANGED g_to_awake
    BY <1>1 DEF sleep
  <2>3. QED
    BY <2>1, <2>2, SleepStep, Zenon
<1>2. CASE exit(t)
  <2>1. /\ pc[t] = "syscall" /\ \A c \in Callers : t \notin Range(g_to_awake[c])
        /\ Acquire(t, "exiting", g_to_awake[t] # <<>>)
        /\ sched' = sleep_unlocked(sched, t, FALSE) /\ UNCHANGED g_to_awake
    BY <1>2 DEF exit
  <2>2. QED
    BY <2>1, SleepStep, Zenon
<1>3. QED
  BY <1>1, <1>2

\* Every step of the scheduler keeps the inductive invariant
LEMMA NextIInv ==
  ASSUME IInv, [Next]_vars
  PROVE  IInv'
<1>1. CASE UNCHANGED vars
  <2>1. sched' = sched /\ pc' = pc /\ g_mutex' = g_mutex /\ g_to_awake' = g_to_awake
    BY <1>1 DEF vars
  <2>2. TypeOK' /\ LockInv' /\ QueueInv'
    BY <2>1 DEF IInv, TypeOK, LockInv, QueueInv
  <2>3. PendingCount' /\ WorkConserving'
    BY <2>1 DEF IInv, PendingCount, WorkConserving
  <2>4. \A t : Gone(t)' <=> Gone(t)
    BY <2>1 DEF Gone
  <2>5. Running' = Running /\ Held' = Held /\ Live' = Live
    BY <2>1 DEF Running, Runs, Live, Held
  <2>6. GoneInv' /\ WaitingInv'
    BY <2>1, <2>4, <2>5 DEF IInv, GoneInv, WaitingInv
  <2>7. PlaceInv' /\ GuestInv' /\ RunningInv'
    BY <2>1, <2>5 DEF IInv, PlaceInv, GuestInv, RunningInv
  <2>8. QED
    BY <2>2, <2>3, <2>6, <2>7 DEF IInv
<1>2. CASE HostStep
  <2>0. Host \in Callers
    BY CallersFacts
  <2>1. ASSUME NEW u \in Threads, append(Host, u) PROVE IInv'
    BY <2>0, <2>1, AppendStep
  <2>2. CASE awake(Host) \/ BootAwake
    BY <2>0, <2>2, AwakeStep
  <2>3. CASE EmplaceNext(Host)
    BY <2>0, <2>3, EmplaceStep
  <2>4. CASE Release(Host)
    BY <2>0, <2>4, ReleaseStep
  <2>5. CASE MakeReady
    BY <2>5, MakeReadyStep
  <2>6. QED
    BY <1>2, <2>1, <2>2, <2>3, <2>4, <2>5 DEF HostStep
<1>3. ASSUME NEW t \in Threads, Progress(t) PROVE IInv'
  <2>0. t \in Callers
    BY CallersFacts
  <2>1. CASE LeaveSyscall(t) \/ Poll(t)
    BY <2>1, MoveStep DEF LeaveSyscall, Poll
  <2>2. CASE awake(t)
    BY <2>0, <2>2, AwakeStep
  <2>3. CASE Disarm(t)
    BY <2>3, ArmStep
  <2>4. CASE exit_end(t)
    BY <2>4, ExitEndStep
  <2>5. CASE WaitSignaled(t)
    <3>1. /\ {"signal"} \in SUBSET {"signal", "notify"} /\ "check" # "guest"
          /\ sched' = [sched EXCEPT !.state[t] = @ \ {"signal"}] /\ Goto(t, "check")
          /\ pc[t] \in {"waiting", "twaiting"} /\ UNCHANGED <<g_mutex, g_to_awake>>
      BY <2>5 DEF WaitSignaled
    <3>2. QED
      BY <3>1, FlagStep, Zenon
  <2>6. CASE CheckFlags(t)
    <3>1. PICK l \in {"check", "guest", "cpu_sleep", "parked"} :
             Goto(t, l) /\ (l = "guest" => "suspend" \notin sched.state[t])
      BY <2>6 DEF CheckFlags
    <3>2. /\ sched' = [sched EXCEPT !.state[t] = @ \ {"signal", "notify"}]
          /\ pc[t] \in {"check", "parked"} /\ UNCHANGED <<g_mutex, g_to_awake>>
      BY <2>6 DEF CheckFlags
    <3>3. QED
      BY <3>1, <3>2, FlagStep, Zenon
  <2>7. CASE cpu_sleep(t)
    BY <2>7, CpuSleepStep
  <2>8. CASE sleep(t, FALSE)
    BY <2>8, LeaveQueueStep, Zenon
  <2>9. CASE EmplaceNext(t)
    BY <2>0, <2>9, EmplaceStep
  <2>10. CASE Release(t)
    BY <2>0, <2>10, ReleaseStep
  <2>11. QED
    BY <1>3, <2>1, <2>2, <2>3, <2>4, <2>5, <2>6, <2>7, <2>8, <2>9, <2>10, Zenon DEF Progress
<1>4. ASSUME NEW t \in Threads, Choice(t) PROVE IInv'
  <2>0. t \in Callers
    BY CallersFacts
  <2>1. CASE EnterSyscall(t)
    BY <2>1, MoveStep DEF EnterSyscall
  <2>2. CASE WaitTimeout(t)
    BY <2>2, MoveStep DEF WaitTimeout
  <2>3. CASE ArmCancel(t)
    BY <2>3, ArmStep
  <2>4. CASE yield(t)
    BY <2>4, YieldStep
  <2>5. CASE exit(t)
    <3>1. FALSE \in BOOLEAN
      OBVIOUS
    <3>2. QED
      BY <2>5, <3>1, LeaveQueueStep, Zenon
  <2>6. ASSUME NEW timed \in TimedSleeps, sleep(t, timed) PROVE IInv'
    <3>1. timed \in BOOLEAN
      BY TimedSleepsAssumption
    <3>2. QED
      BY <2>6, <3>1, LeaveQueueStep
  <2>7. ASSUME NEW u \in Threads, append(t, u) PROVE IInv'
    BY <2>0, <2>7, AppendStep
  <2>8. ASSUME NEW u \in Threads, start(t, u) PROVE IInv'
    BY <2>8, StartStep
  <2>9. ASSUME NEW u \in Threads, NEW p \in Prios, set_priority(t, u, p) PROVE IInv'
    BY <2>9, SetPriorityStep
  <2>10. QED
    BY <1>4, <2>1, <2>2, <2>3, <2>4, <2>5, <2>6, <2>7, <2>8, <2>9 DEF Choice
<1>5. QED
  BY <1>1, <1>2, <1>3, <1>4 DEF Next

\* IInv is an invariant of the scheduler.
THEOREM Inductive == Spec => []IInv
<1>1. Init => IInv
  BY InitIInv
<1>2. IInv /\ [Next]_vars => IInv'
  BY NextIInv
<1>3. QED
  BY <1>1, <1>2, PTL DEF Spec

\* The scheduler state, the program counters, the lock and the lists keep their
\* types; in particular g_pending never becomes negative.
THEOREM TypeCorrect == Spec => []TypeOK
<1>1. IInv => TypeOK
  BY DEF IInv
<1>2. QED
  BY <1>1, Inductive, PTL

\* g_pending counts the outstanding acknowledgements exactly.
THEOREM PendingIsCounted == Spec => []PendingCount
<1>1. IInv => PendingCount
  BY DEF IInv
<1>2. QED
  BY <1>1, Inductive, PTL

-----------------------------------------------------------------------------
(***************************************************************************)
(* Before the scheduler starts.                                            *)
(***************************************************************************)

\* Nothing but make_scheduler_ready changes g_scheduler_ready
LEMMA ReadyStays ==
  ASSUME TypeOK, [Next]_vars
  PROVE  sched.g_scheduler_ready => sched'.g_scheduler_ready
<1>1. CASE sched' = sched
  BY <1>1
<1>2. CASE MakeReady
  BY <1>2 DEF MakeReady, TypeOK, SchedStates
<1>3. ASSUME NEW c \in Callers, EmplaceNext(c) \/ Release(c)
      PROVE  sched'.g_scheduler_ready = sched.g_scheduler_ready
  <2>1. CASE EmplaceNext(c)
    BY <2>1 DEF EmplaceNext, emplace_thread, TypeOK, SchedStates
  <2>2. CASE Release(c)
    <3> DEFINE m == IF g_mutex.reschedule
                    THEN ack_current(suspend_excess(sched), Current(c)) ELSE sched
    <3>1. m.g_scheduler_ready = sched.g_scheduler_ready
      BY DEF ack_current, suspend_excess, TypeOK, SchedStates
    <3>2. PICK x \in SUBSET sched.g_waiting : sched' = schedule_all(m, Current(c), x)
      BY <2>2 DEF Release
    <3> HIDE DEF m
    <3>3. QED
      BY <3>1, <3>2 DEF schedule_all
  <2>3. QED
    BY <1>3, <2>1, <2>2
<1>4. ASSUME NEW t \in Threads, NEW timed, sched' = sleep_unlocked(sched, t, timed)
      PROVE  sched'.g_scheduler_ready = sched.g_scheduler_ready
  BY <1>4 DEF sleep_unlocked, TypeOK, SchedStates
<1>5. ASSUME NEW t \in Threads, NEW u, NEW p, yield(t) \/ set_priority(t, u, p)
      PROVE  sched'.g_scheduler_ready = sched.g_scheduler_ready
  BY <1>5, Zenon DEF yield, set_priority, rotate, set_prio, TypeOK, SchedStates
<1>6. ASSUME NEW t \in Threads,
             ArmCancel(t) \/ Disarm(t) \/ exit_end(t) \/ WaitSignaled(t) \/ CheckFlags(t)
      PROVE  sched'.g_scheduler_ready = sched.g_scheduler_ready
  BY <1>6 DEF ArmCancel, Disarm, exit_end, WaitSignaled, CheckFlags, TypeOK, SchedStates
<1>7. CASE HostStep
  BY <1>1, <1>2, <1>3, <1>7, CallersFacts, Zenon DEF HostStep, append, awake, BootAwake
<1>8. ASSUME NEW t \in Threads, Progress(t) PROVE sched.g_scheduler_ready => sched'.g_scheduler_ready
  <2>1. t \in Callers
    BY CallersFacts
  <2>2. QED
    BY <1>1, <1>3, <1>4, <1>6, <1>8, <2>1, Zenon
    DEF Progress, LeaveSyscall, awake, Poll, cpu_sleep, sleep
<1>9. ASSUME NEW t \in Threads, Choice(t) PROVE sched.g_scheduler_ready => sched'.g_scheduler_ready
  BY <1>1, <1>4, <1>5, <1>6, <1>9, Zenon
  DEF Choice, EnterSyscall, exit, WaitTimeout, sleep, append, start
<1>10. QED
  BY <1>1, <1>7, <1>8, <1>9 DEF Next, vars

\* What holds of the state of t before the scheduler starts
Asleep(s, t) == "suspend" \in s.state[t] /\ ~s.ack_suspend[t]

\* While the scheduler has not started, a release of g_mutex releases nobody
LEMMA ReleaseAsleep ==
  ASSUME IInv, NEW c \in Callers, Release(c), ~sched.g_scheduler_ready,
         \A t \in Threads : Asleep(sched, t)
  PROVE  \A t \in Threads : Asleep(sched', t)
<1> DEFINE m == IF g_mutex.reschedule
                THEN ack_current(suspend_excess(sched), Current(c)) ELSE sched
<1>1. g_mutex.who = c /\ g_to_awake[c] = <<>> /\ sched \in SchedStates
  BY DEF Release, IInv, TypeOK
<1>2. Rescheduled(m, c)
  BY <1>1, RescheduleProps, SMTT(30)
<1>3. PICK x \in SUBSET sched.g_waiting : sched' = schedule_all(m, Current(c), x)
  BY DEF Release
<1> HIDE DEF m
<1>4. /\ m \in SchedStates /\ ~m.g_scheduler_ready
      /\ \A t \in Threads : Asleep(m, t)
  BY <1>2 DEF Rescheduled, Asleep
<1>5. /\ sched'.ack_suspend = m.ack_suspend
      /\ sched'.state = [t \in Threads |->
           (IF t \in ToRun(m) THEN (m.state[t] \cup {"signal"}) \ {"suspend"} ELSE m.state[t])
           \cup (IF t \in x \ {Current(c)} THEN {"notify"} ELSE {})]
  BY <1>3, <1>4 DEF schedule_all, SchedStates
<1>6. ToRun(m) = {}
  BY <1>4 DEF ToRun
<1>7. QED
  BY <1>4, <1>5, <1>6 DEF Asleep

\* Where t is before the scheduler starts
Early == {"stopped", "resume", "locked", "waiting", "twaiting", "check", "cpu_sleep", "parked"}
EarlyNext == {"waiting", "twaiting", "check", "parked"}
Idles(t) == /\ pc[t] \in Early
            /\ g_mutex.who = t => g_mutex.next \in EarlyNext

LEMMA NotStarted ==
  NotStartedInv <=> (~sched.g_scheduler_ready =>
                       \A t \in Threads : Asleep(sched, t) /\ Idles(t))
BY DEF NotStartedInv, Asleep, Idles, Early, EarlyNext

\* Until make_scheduler_ready nobody gets out of its suspension
LEMMA NotStartedStep ==
  ASSUME IInv, NotStartedInv, [Next]_vars
  PROVE  NotStartedInv'
<1> SUFFICES ASSUME ~sched.g_scheduler_ready, ~sched'.g_scheduler_ready, NEW u \in Threads
             PROVE  Asleep(sched', u) /\ Idles(u)'
  BY ReadyStays DEF IInv, NotStartedInv, Asleep, Idles, Early, EarlyNext
<1>0. /\ \A t \in Threads : Asleep(sched, t) /\ Idles(t)
      /\ TypeOK /\ LockInv /\ Host \in Callers /\ Threads \subseteq Callers /\ Host \notin Threads
  BY NotStarted, CallersFacts, HostAssumption DEF IInv
<1>1. CASE UNCHANGED vars
  BY <1>0, <1>1 DEF vars, Asleep, Idles
<1>2. ASSUME NEW c \in Callers, EmplaceNext(c) PROVE Asleep(sched', u) /\ Idles(u)'
  <2>1. sched'.state = sched.state /\ sched'.ack_suspend = sched.ack_suspend
    BY <1>0, <1>2 DEF EmplaceNext, emplace_thread, TypeOK, SchedStates
  <2>2. pc' = pc /\ g_mutex' = g_mutex
    BY <1>2 DEF EmplaceNext
  <2>3. QED
    BY <1>0, <2>1, <2>2 DEF Asleep, Idles
<1>3. ASSUME NEW c \in Callers, Release(c) PROVE Asleep(sched', u) /\ Idles(u)'
  <2>1. Asleep(sched', u)
    BY <1>0, <1>3, ReleaseAsleep
  <2>2. /\ g_mutex.who = c /\ g_mutex' = Free /\ pc' = [pc EXCEPT ![c] = g_mutex.next]
        /\ pc \in [Callers -> PcStates] /\ u # None
    BY <1>0, <1>3, ThreadsAssumption DEF Release, Goto, TypeOK
  <2>3. Idles(u)'
    BY <1>0, <2>2 DEF Idles, Free, Early, EarlyNext
  <2>4. QED
    BY <2>1, <2>3
<1>4. CASE HostStep
  <2>1. ASSUME NEW v \in Threads, append(Host, v) PROVE Asleep(sched', u) /\ Idles(u)'
    BY <1>0, <2>1 DEF append, Asleep, Idles
  <2>2. CASE awake(Host) \/ BootAwake
    <3>1. sched' = sched /\ g_mutex'.who = Host /\ pc' = [pc EXCEPT ![Host] = "locked"]
      BY <2>2 DEF awake, BootAwake, Acquire, Goto
    <3>2. pc'[u] = pc[u] /\ g_mutex'.who # u
      BY <1>0, <3>1 DEF TypeOK
    <3>3. QED
      BY <1>0, <3>1, <3>2 DEF Asleep, Idles
  <2>3. CASE MakeReady
    BY <1>0, <2>3 DEF MakeReady, TypeOK, SchedStates
  <2>4. QED
    BY <1>0, <1>2, <1>3, <1>4, <2>1, <2>2, <2>3 DEF HostStep
<1>5. ASSUME NEW t \in Threads, Progress(t) \/ Choice(t)
      PROVE  Asleep(sched', u) /\ Idles(u)'
  <2>0. pc \in [Callers -> PcStates] /\ t \in Callers /\ u \in Callers
    BY <1>0 DEF TypeOK
  <2>1. pc[t] \in Early
    BY <1>0 DEF Idles
  <2>2. CASE \E timed \in BOOLEAN : sleep(t, timed)
    <3>1. PICK timed \in BOOLEAN : sleep(t, timed)
      BY <2>2
    <3>2. /\ sched' = sleep_unlocked(sched, t, timed) /\ g_mutex'.who = t
          /\ g_mutex'.next \in EarlyNext /\ pc' = [pc EXCEPT ![t] = "locked"]
          /\ g_mutex = Free
      BY <3>1 DEF sleep, Acquire, Goto, EarlyNext
    <3>3. /\ sched'.state[u] \in {sched.state[u], sched.state[u] \cup {"suspend"}}
          /\ sched'.ack_suspend[u] => sched.ack_suspend[u]
      BY <1>0, <3>2 DEF sleep_unlocked, TypeOK, SchedStates
    <3>4. Asleep(sched', u)
      BY <1>0, <3>3 DEF Asleep
    <3>5. Idles(u)'
      BY <1>0, <2>0, <3>2 DEF Idles, Early
    <3>6. QED
      BY <3>4, <3>5
  <2>3. CASE WaitSignaled(t) \/ CheckFlags(t)
    <3>1. /\ sched'.ack_suspend = sched.ack_suspend
          /\ sched'.state[u] \in {sched.state[u], sched.state[u] \ {"signal"},
                                  sched.state[u] \ {"signal", "notify"}}
      BY <1>0, <2>3 DEF WaitSignaled, CheckFlags, TypeOK, SchedStates
    <3>2. Asleep(sched', u)
      BY <1>0, <3>1 DEF Asleep
    <3>3. "suspend" \in sched.state[t]
      BY <1>0 DEF Asleep
    <3>4. /\ pc' \in {[pc EXCEPT ![t] = l] : l \in {"check", "cpu_sleep", "parked"}}
          /\ g_mutex' = g_mutex
      BY <2>3, <3>3 DEF WaitSignaled, CheckFlags, Goto
    <3>5. Idles(u)'
      BY <1>0, <2>0, <3>4 DEF Idles, Early
    <3>6. QED
      BY <3>2, <3>5
  <2>4. CASE WaitTimeout(t)
    <3>1. sched' = sched /\ pc' = [pc EXCEPT ![t] = "check"] /\ g_mutex' = g_mutex
      BY <2>4 DEF WaitTimeout, Goto
    <3>2. QED
      BY <1>0, <2>0, <3>1 DEF Asleep, Idles, Early
  <2>5. CASE cpu_sleep(t)
    <3>1. /\ sched' = sched /\ pc' = [pc EXCEPT ![t] = "locked"]
          /\ g_mutex = Free /\ g_mutex'.who = t /\ g_mutex'.next = "parked"
      BY <2>5 DEF cpu_sleep, Acquire, Goto
    <3>2. QED
      BY <1>0, <2>0, <3>1 DEF Asleep, Idles, Early, EarlyNext
  <2>6. ~(LeaveSyscall(t) \/ awake(t) \/ Disarm(t) \/ exit_end(t) \/ Poll(t))
    BY <1>0, <2>1, Zenon DEF LeaveSyscall, awake, CanAwake, Disarm, exit_end, Poll, Early
  <2>7. ~(EnterSyscall(t) \/ ArmCancel(t) \/ yield(t) \/ exit(t))
    BY <2>1, Zenon DEF EnterSyscall, ArmCancel, yield, exit, Early
  <2>8. /\ \A v \in Threads : ~append(t, v) /\ ~start(t, v)
        /\ \A v \in Threads, p \in Prios : ~set_priority(t, v, p)
    BY <1>0, <2>1 DEF append, CanAwake, start, set_priority, Early
  <2>9. CASE Progress(t)
    BY <1>2, <1>3, <2>0, <2>2, <2>3, <2>5, <2>6, <2>9, Zenon DEF Progress
  <2>10. CASE Choice(t)
    BY <2>2, <2>4, <2>7, <2>8, <2>10, TimedSleepsAssumption DEF Choice
  <2>11. QED
    BY <1>5, <2>9, <2>10
<1>6. QED
  BY <1>1, <1>4, <1>5 DEF Next

\* Never more than ppu_threads PPU threads execute guest code, preempted threads
\* that have not noticed it yet included, and none before make_scheduler_ready.
THEOREM HwThreadsBounded == Spec => []HwThreadBound
<1>1. ASSUME IInv, NotStartedInv PROVE HwThreadBound
  <2> DEFINE G == {t \in Threads : pc[t] \in {"guest", "syscall", "arming"}}
  <2>1. G \subseteq Running
    BY <1>1 DEF IInv, GuestInv
  <2>2. IsFiniteSet(Running)
    BY ThreadsAssumption, FS_Subset DEF Running, Live
  <2>3. Cardinality(G) <= Cardinality(Running) /\ IsFiniteSet(G)
    BY <2>1, <2>2, FS_Subset
  <2>4. Cardinality(G) \in Nat /\ Cardinality(Running) \in Nat
    BY <2>2, <2>3, FS_CardinalityType
  <2>5. Cardinality(Running) <= ppu_threads
    BY <1>1 DEF IInv, RunningInv
  <2>6. Cardinality(G) <= ppu_threads
    BY <2>3, <2>4, <2>5, HwAssumption
  <2>7. ~sched.g_scheduler_ready => G = {}
    BY <1>1 DEF NotStartedInv
  <2>8. QED
    BY <2>6, <2>7 DEF HwThreadBound
<1>2. Init => NotStartedInv
  <2> SUFFICES ASSUME Init, NEW t \in Threads
               PROVE  Asleep(sched, t) /\ Idles(t)
    BY NotStarted
  <2>1. /\ sched.state = [x \in Threads |-> {"suspend"}]
        /\ sched.ack_suspend = [x \in Threads |-> FALSE]
        /\ pc[t] \in Early /\ g_mutex.who = None /\ t # None
    BY HostAssumption, ThreadsAssumption DEF Init, Callers, Early, Free
  <2>2. QED
    BY <2>1 DEF Asleep, Idles
<1>3. IInv /\ NotStartedInv /\ [Next]_vars => NotStartedInv'
  BY NotStartedStep
<1>4. QED
  BY <1>1, <1>2, <1>3, Inductive, PTL DEF Spec

\* No thread at the head of the run queue stays suspended when the lock is free
\* and every acknowledgement is in.
THEOREM NoIdleHwThread == Spec => []WorkConserving
<1>1. IInv => WorkConserving
  BY DEF IInv
<1>2. QED
  BY <1>1, Inductive, PTL

\* No runnable thread is held back in favour of one with a lower priority.
THEOREM PrioritiesRespected == Spec => []PriorityOrder
<1>1. ASSUME IInv PROVE PriorityOrder
  <2> DEFINE q == sched.g_ppu
  <2>1. SUFFICES ASSUME g_mutex = Free, NEW t \in Queued(sched), NEW u \in Queued(sched),
                        "suspend" \notin sched.state[t], u \notin OnProc(sched)
                 PROVE  sched.prio[t] <= sched.prio[u]
    BY DEF PriorityOrder
  <2>2. q \in Seq(Threads) /\ Len(q) \in Nat /\ \A i \in 1..Len(q) : q[i] \in Threads
    BY <1>1, LenProperties DEF IInv, TypeOK, SchedStates
  <2>3. t \in Live
    BY <1>1, <2>2 DEF IInv, GoneInv, Gone, Live, Queued
  <2>4. t \in OnProc(sched)
    BY <1>1, <2>1, <2>3 DEF IInv, PlaceInv, Free
  <2>5. PICK i \in 1..Len(q) : q[i] = t /\ i <= ppu_threads
    BY <2>4 DEF OnProc
  <2>6. PICK j \in 1..Len(q) : q[j] = u
    BY <2>1 DEF Queued
  <2>7. ~(j <= ppu_threads)
    BY <2>1, <2>6 DEF OnProc
  <2>8. i < j
    BY <2>2, <2>5, <2>6, <2>7, HwAssumption, SMTT(30)
  <2>9. QED
    BY <1>1, <2>5, <2>6, <2>8 DEF IInv, QueueInv
<1>2. QED
  BY <1>1, Inductive, PTL

\* No thread is queued twice, and none is queued that was not started or has left.
THEOREM QueuedAtMostOnce == Spec => []QueuedOnce
<1>1. ASSUME IInv PROVE QueuedOnce
  <2>1. Queued(sched) \subseteq Threads
    BY <1>1, LenProperties DEF IInv, TypeOK, SchedStates, Queued
  <2>2. QED
    BY <1>1, <2>1 DEF IInv, QueueInv, GoneInv, Gone, QueuedOnce
<1>2. QED
  BY <1>1, Inductive, PTL

\* No thread reaches sleep() with a signal or a notification left over.
THEOREM NoStaleFlag == Spec => []SleepFindsNoStaleFlag
<1>1. IInv => SleepFindsNoStaleFlag
  BY DEF IInv, GuestInv, SleepFindsNoStaleFlag
<1>2. QED
  BY <1>1, Inductive, PTL

\* Only threads that sleep and were not notified have a timeout registered.
THEOREM TimeoutsOfSleepers == Spec => []TimeoutRegistry
<1>1. IInv => TimeoutRegistry
  BY DEF IInv, WaitingInv, TimeoutRegistry
<1>2. QED
  BY <1>1, Inductive, PTL

=============================================================================
