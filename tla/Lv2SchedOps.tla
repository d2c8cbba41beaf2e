---------------------------- MODULE Lv2SchedOps ----------------------------
(***************************************************************************)
(* The LV2 thread scheduler of core/rpcs3/Emu/Cell/lv2/lv2.cpp as          *)
(* functions from a scheduler state to a scheduler state.  The state is    *)
(* one record s, the data that lv2_obj::g_mutex protects and the part of   *)
(* each ppu_thread that the scheduler reads and writes:                    *)
(*   g_ppu         the run queue, a linked list sorted by priority         *)
(*   g_pending     suspended threads that have not acknowledged it yet     *)
(*   g_waiting     threads with a registered timeout (deadlines are left   *)
(*                 out: any registered timeout may expire at any time)     *)
(*   g_to_sleep    threads of a savestate that must sleep before the start *)
(*   g_scheduler_ready                                                     *)
(*   state, ack_suspend, cancel_sleep, prio   fields of the ppu_threads    *)
(* Flags of cpu_flag that only tune performance (yield, preempt, pause,    *)
(* memory) and hw_sleep_time are left out.                                 *)
(***************************************************************************)
EXTENDS Lv2Queue, FiniteSets

CONSTANTS Threads,      \* the PPU threads
          ppu_threads,  \* g_cfg.core.ppu_threads, hardware threads emulated
          Prios,        \* thread priorities, smaller is more urgent
          None          \* no thread

ASSUME ThreadsAssumption == IsFiniteSet(Threads) /\ None \notin Threads
ASSUME HwAssumption == ppu_threads \in Nat \ {0}
ASSUME PriosAssumption == Prios \subseteq Int

\* cpu_flag, the members the scheduler and the LV2 waits use
Flags == {"suspend", "signal", "notify"}

SchedStates ==
  [g_ppu : Seq(Threads), g_pending : Nat, g_waiting : SUBSET Threads,
   g_to_sleep : SUBSET Threads, g_scheduler_ready : BOOLEAN,
   state : [Threads -> SUBSET Flags], ack_suspend : [Threads -> BOOLEAN],
   cancel_sleep : [Threads -> 0..2], prio : [Threads -> Prios]]

-----------------------------------------------------------------------------

Queued(s) == {s.g_ppu[i] : i \in 1..Len(s.g_ppu)}

\* The threads in the first ppu_threads places of the run queue
OnProc(s) == {s.g_ppu[i] : i \in {j \in 1..Len(s.g_ppu) : j <= ppu_threads}}

\* Mutant: sleeping does not take the acknowledgement out of g_pending
sleep_unlocked_KeepsPending(s, t, timed) ==
  LET slept == [s EXCEPT !.ack_suspend[t] = FALSE, !.cancel_sleep[t] = 0,
                         !.state[t] = @ \cup {"suspend"}]
  IN  IF t \in Queued(s)
      THEN [slept EXCEPT !.g_ppu = unqueue(@, t),
                         !.g_waiting = IF timed THEN @ \cup {t} ELSE @]
      ELSE [slept EXCEPT !.g_to_sleep = @ \ {t}]

\* lv2_obj::sleep_unlocked.  A thread that is not queued is either one the
\* scheduler waits for before it starts, or already asleep.
sleep_unlocked(s, t, timed) ==
  LET acked == [s EXCEPT !.ack_suspend[t] = FALSE,
                         !.g_pending = IF s.ack_suspend[t] THEN @ - 1 ELSE @,
                         !.cancel_sleep[t] = 0]
      slept == [acked EXCEPT !.state[t] = @ \cup {"suspend"}]
  IN  IF "signal" \in s.state[t] THEN acked
      ELSE IF t \in Queued(s)
           THEN [slept EXCEPT !.g_ppu = unqueue(@, t),
                              !.g_waiting = IF timed THEN @ \cup {t} ELSE @]
           ELSE [slept EXCEPT !.g_to_sleep = @ \ {t}]

\* The value sleep_unlocked returns: FALSE when the sleep did not happen or
\* when it was cancelled by an awake() that came before it
sleep_result(s, t) ==
  /\ "signal" \notin s.state[t]
  /\ IF t \in Queued(s) THEN s.cancel_sleep[t] # 2 ELSE t \in s.g_to_sleep

\* Mutant: inserts at the tail, whatever the priorities
Stops_Fifo(s, t) == {i \in 1..Len(s.g_ppu) : s.g_ppu[i] = t}

\* Mutant: stops before threads of the same priority too
Stops_BeforeEquals(s, t) ==
  {i \in 1..Len(s.g_ppu) : s.prio[s.g_ppu[i]] >= s.prio[t]}

\* The first place where emplace_thread stops: at the thread itself or at a
\* thread of a lower priority
Stops(s, t) == {i \in 1..Len(s.g_ppu) : \/ s.g_ppu[i] = t
                                        \/ s.prio[s.g_ppu[i]] > s.prio[t]}
FirstStop(s, t) == IF Stops(s, t) = {} THEN Len(s.g_ppu) + 1
                   ELSE CHOOSE i \in Stops(s, t) : \A j \in Stops(s, t) : i <= j

AlreadyQueued(s, t) == /\ FirstStop(s, t) \in Stops(s, t)
                       /\ s.g_ppu[FirstStop(s, t)] = t

\* Mutant: forgets to unregister the timeout of an awakened thread
emplace_thread_KeepsTimeout(s, t) ==
  IF AlreadyQueued(s, t)
  THEN [s EXCEPT !.cancel_sleep[t] = IF @ = 1 THEN 2 ELSE @]
  ELSE [s EXCEPT !.g_ppu = link(@, FirstStop(s, t), t)]

\* emplace_thread of awake_unlocked
emplace_thread(s, t) ==
  IF AlreadyQueued(s, t)
  THEN [s EXCEPT !.cancel_sleep[t] = IF @ = 1 THEN 2 ELSE @]
  ELSE [s EXCEPT !.g_ppu = link(@, FirstStop(s, t), t),
                 !.g_waiting = @ \ {t}]

\* The threads beyond the hardware threads that still run
Excess(s) == {t \in Queued(s) \ OnProc(s) : "suspend" \notin s.state[t]}

\* "Suspend threads if necessary" of awake_unlocked
suspend_excess(s) ==
  [s EXCEPT !.ack_suspend = [t \in Threads |-> t \in Excess(s) \/ @[t]],
            !.g_pending = @ + Cardinality(Excess(s)),
            !.state = [t \in Threads |-> IF t \in Excess(s)
                                         THEN @[t] \cup {"suspend"} ELSE @[t]]]

\* Mutant: decrements g_pending for a caller that owes no acknowledgement
ack_current_Always(s, c) ==
  IF c \in Threads
  THEN [s EXCEPT !.ack_suspend[c] = FALSE, !.g_pending = @ - 1]
  ELSE s

\* "Remove pending if necessary" of awake_unlocked; c is the calling thread,
\* None when it is not a PPU thread
ack_current(s, c) ==
  IF c \in Threads /\ s.ack_suspend[c]
  THEN [s EXCEPT !.ack_suspend[c] = FALSE, !.g_pending = @ - 1]
  ELSE s

\* Mutant: leaves the last hardware thread idle
ToRun_OneLess(s) ==
  IF s.g_pending = 0 /\ s.g_scheduler_ready
  THEN {t \in OnProc(s) : "suspend" \in s.state[t] /\ Pos(s.g_ppu, t) < ppu_threads}
  ELSE {}

\* The threads schedule_all wakes
ToRun(s) == IF s.g_pending = 0 /\ s.g_scheduler_ready
            THEN {t \in OnProc(s) : "suspend" \in s.state[t]} ELSE {}

\* schedule_all, when the timeouts of the threads in expired are over
schedule_all(s, c, expired) ==
  [s EXCEPT !.g_waiting = @ \ expired,
            !.state = [t \in Threads |->
              (IF t \in ToRun(s) THEN (@[t] \cup {"signal"}) \ {"suspend"} ELSE @[t])
              \cup (IF t \in expired \ {c} THEN {"notify"} ELSE {})]]

\* The last place of the threads with the priority of the one at place i
SamePrioEnd(s, i) ==
  CHOOSE j \in i..Len(s.g_ppu) :
    /\ \A k \in i..j : s.prio[s.g_ppu[k]] = s.prio[s.g_ppu[i]]
    /\ j < Len(s.g_ppu) => s.prio[s.g_ppu[j + 1]] # s.prio[s.g_ppu[i]]

\* The rotation of yield_cmd in awake_unlocked
rotate(s, t) ==
  LET i == Pos(s.g_ppu, t)
      j == SamePrioEnd(s, i)
  IN  [s EXCEPT !.g_ppu = [k \in 1..Len(@) |-> IF k < i \/ k > j THEN @[k]
                                               ELSE IF k = j THEN t ELSE @[k + 1]]]

\* Mutant: takes one hardware thread too many for running
yield_switches_OffByOne(s, t) ==
  LET i == Pos(s.g_ppu, t)
      j == SamePrioEnd(s, i)
  IN  i < j /\ j > ppu_threads + 1

\* A yield makes a context switch when it moves the thread off the hardware threads
yield_switches(s, t) ==
  LET i == Pos(s.g_ppu, t)
      j == SamePrioEnd(s, i)
  IN  i < j /\ j > ppu_threads

\* The "priority set" case of awake_unlocked leaves early, with no rescheduling
set_prio_returns(s, c, u, p) == (s.prio[u] = p /\ u = c) \/ u \notin Queued(s)

\* The same case up to emplace_thread
set_prio(s, c, u, p) ==
  IF set_prio_returns(s, c, u, p) THEN [s EXCEPT !.prio[u] = p]
  ELSE [s EXCEPT !.g_ppu = unqueue(@, u), !.prio[u] = p]

=============================================================================
