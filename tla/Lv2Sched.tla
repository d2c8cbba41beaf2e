------------------------------ MODULE Lv2Sched ------------------------------
(***************************************************************************)
(* The LV2 scheduler as PPU threads and host threads drive it: run queue,  *)
(* suspension with acknowledgement, timeouts, priorities, thread start and *)
(* exit, and the start of the scheduler after a boot or a savestate load.  *)
(* What a guest program does is arbitrary: any sequence of system calls,   *)
(* each of which wakes threads, or sleeps, in the ways the LV2 system      *)
(* calls do.  Steps under lv2_obj::g_mutex are taken one emplace_thread at *)
(* a time, because other threads change their own flags meanwhile without  *)
(* the lock.                                                               *)
(***************************************************************************)
EXTENDS Lv2SchedOps

CONSTANTS Host,       \* any host thread that is not a PPU thread (SPU, timer, main)
          MaxAwake,   \* bound on the length of a g_to_awake list
          TimedSleeps \* which sleeps a thread may ask for: with a timeout, without

ASSUME HostAssumption == Host \notin Threads \cup {None}
ASSUME MaxAwakeAssumption == MaxAwake \in Nat \ {0}
ASSUME TimedSleepsAssumption == TimedSleeps \subseteq BOOLEAN

VARIABLES sched,       \* the scheduler state, see Lv2SchedOps
          pc,          \* what each thread is doing
          g_mutex,     \* who holds lv2_obj::g_mutex and what it does next
          g_to_awake   \* the thread-local lists of threads to awake

vars == <<sched, pc, g_mutex, g_to_awake>>

Callers == Threads \cup {Host}

(***************************************************************************)
(* What a PPU thread is doing:                                             *)
(*   stopped    created, not started                                       *)
(*   resume     restored from a savestate, repeats the wait it was in      *)
(*   guest      executes guest code                                        *)
(*   syscall    in a system call that has not used the scheduler yet       *)
(*   arming     has set cancel_sleep, its next call is sleep()             *)
(*   signaling  in a system call that has awaken other threads             *)
(*   locked     holds g_mutex                                              *)
(*   waiting    in the wait loop of a system call, without timeout         *)
(*   twaiting   the same with a timeout                                    *)
(*   check      at the start of check_state                                *)
(*   cpu_sleep  in check_state, found itself suspended                     *)
(*   parked     in check_state, waits for the end of the suspension        *)
(*   exiting    left the run queue for good                                *)
(*   exited     the thread has ended                                       *)
(* and the host thread is idle, boot or locked.                            *)
(***************************************************************************)
PcStates == {"stopped", "resume", "guest", "syscall", "arming", "signaling",
             "locked", "waiting", "twaiting", "check", "cpu_sleep", "parked",
             "exiting", "exited", "idle", "boot"}

Free == [who |-> None, next |-> "idle", reschedule |-> FALSE]

Live == {t \in Threads : pc[t] # "exited"}

\* The threads that a system call can find in a sleep queue and awake: they have
\* announced a sleep or wait, or are on the way out of a wait that timed out
Awakable(t) ==
  \/ pc[t] \in {"arming", "waiting", "twaiting", "check", "cpu_sleep", "parked"}
  \/ g_mutex.who = t /\ g_mutex.next \in {"waiting", "twaiting", "parked"}

\* Which thread cpu_thread::get_current<ppu_thread>() returns
Current(c) == IF c \in Threads THEN c ELSE None

\* The scheduler and its threads keep their types; in particular g_pending is never
\* negative.
TypeOK ==
  /\ sched \in SchedStates
  /\ pc \in [Callers -> PcStates]
  /\ g_mutex \in [who : Callers \cup {None}, next : PcStates, reschedule : BOOLEAN]
  /\ g_to_awake \in [Callers -> Seq(Threads)]

\* ppu_thread is constructed suspended and stopped; the threads of a savestate
\* that were asleep are expected to sleep again before the scheduler starts.
Init ==
  /\ sched \in [g_ppu : {<<>>}, g_pending : {0}, g_waiting : {{}},
                g_to_sleep : SUBSET Threads, g_scheduler_ready : {FALSE},
                state : {[t \in Threads |-> {"suspend"}]},
                ack_suspend : {[t \in Threads |-> FALSE]},
                cancel_sleep : {[t \in Threads |-> 0]}, prio : [Threads -> Prios]]
  /\ \E run \in SUBSET (Threads \ sched.g_to_sleep) :
       pc = [c \in Callers |-> IF c = Host THEN "idle"
                               ELSE IF c \in sched.g_to_sleep THEN "resume"
                               ELSE IF c \in run THEN "check" ELSE "stopped"]
  /\ g_mutex = Free
  /\ g_to_awake = [c \in Callers |-> <<>>]

-----------------------------------------------------------------------------

Goto(c, l) == pc' = [pc EXCEPT ![c] = l]

\* Takes g_mutex; when it is released, c continues at next
Acquire(c, next, reschedule) ==
  /\ g_mutex = Free
  /\ g_mutex' = [who |-> c, next |-> next, reschedule |-> reschedule]
  /\ Goto(c, "locked")

EnterSyscall(t) ==
  /\ pc[t] = "guest"
  /\ Goto(t, "syscall")
  /\ UNCHANGED <<sched, g_mutex, g_to_awake>>

\* BIND_FUNC: test_stopped() after the call
LeaveSyscall(t) ==
  /\ pc[t] \in {"syscall", "signaling"} /\ g_to_awake[t] = <<>>
  /\ Goto(t, "check")
  /\ UNCHANGED <<sched, g_mutex, g_to_awake>>

CanAwake(c) == IF c = Host THEN pc[c] = "idle" ELSE pc[c] \in {"syscall", "signaling"}

\* lv2_obj::append
append(c, u) ==
  /\ CanAwake(c)
  /\ Awakable(u) /\ u # c /\ u \notin Range(g_to_awake[c])
  /\ Len(g_to_awake[c]) < MaxAwake
  /\ g_to_awake' = [g_to_awake EXCEPT ![c] = Append(@, u)]
  /\ UNCHANGED <<sched, pc, g_mutex>>

\* lv2_obj::awake of one thread, or awake_all of the list
awake(c) ==
  /\ CanAwake(c)
  /\ g_to_awake[c] # <<>>
  /\ Acquire(c, IF c = Host THEN "idle" ELSE "signaling", TRUE)
  /\ UNCHANGED <<sched, g_to_awake>>

\* A system call that queues itself without a lock announces its sleep first
ArmCancel(t) ==
  /\ pc[t] = "syscall" /\ g_to_awake[t] = <<>>
  /\ sched' = [sched EXCEPT !.cancel_sleep[t] = 1]
  /\ Goto(t, "arming")
  /\ UNCHANGED <<g_mutex, g_to_awake>>

\* ... and takes it back when it got what it wanted
Disarm(t) ==
  /\ pc[t] = "arming"
  /\ sched' = [sched EXCEPT !.cancel_sleep[t] = 0]
  /\ Goto(t, "check")
  /\ UNCHANGED <<g_mutex, g_to_awake>>

\* lv2_obj::sleep, first half
sleep(t, timed) ==
  /\ pc[t] \in {"syscall", "arming", "resume"}
  /\ Acquire(t, IF ~sleep_result(sched, t) THEN "check"
                ELSE IF timed THEN "twaiting" ELSE "waiting", g_to_awake[t] # <<>>)
  /\ sched' = sleep_unlocked(sched, t, timed)
  /\ UNCHANGED g_to_awake

\* One turn of the loop of awake_unlocked over the threads to awake
EmplaceNext(c) ==
  /\ g_mutex.who = c /\ g_to_awake[c] # <<>>
  /\ sched' = emplace_thread(sched, Head(g_to_awake[c]))
  /\ g_to_awake' = [g_to_awake EXCEPT ![c] = Tail(@)]
  /\ UNCHANGED <<pc, g_mutex>>

\* The rest of awake_unlocked, when it did not return early, and schedule_all
Release(c) ==
  /\ g_mutex.who = c /\ g_to_awake[c] = <<>>
  /\ \E expired \in SUBSET sched.g_waiting :
       sched' = schedule_all(IF g_mutex.reschedule
                             THEN ack_current(suspend_excess(sched), Current(c)) ELSE sched,
                             Current(c), expired)
  /\ Goto(c, g_mutex.next)
  /\ g_mutex' = Free
  /\ UNCHANGED g_to_awake

\* sys_ppu_thread_yield; there is nothing to do for the last of the run queue
yield(t) ==
  /\ pc[t] = "syscall" /\ g_to_awake[t] = <<>>
  /\ t \in Queued(sched) /\ Pos(sched.g_ppu, t) < Len(sched.g_ppu)
  /\ Acquire(t, "signaling", yield_switches(sched, t))
  /\ sched' = rotate(sched, t)
  /\ UNCHANGED g_to_awake

\* sys_ppu_thread_set_priority of any thread, itself included
set_priority(t, u, p) ==
  /\ pc[t] \in {"syscall", "signaling"} /\ g_to_awake[t] = <<>>
  /\ pc[u] # "exiting"
  /\ u = t => sched.prio[u] # p
  /\ Acquire(t, "signaling", ~set_prio_returns(sched, t, u, p))
  /\ sched' = set_prio(sched, t, u, p)
  /\ g_to_awake' = [g_to_awake EXCEPT ![t] = IF set_prio_returns(sched, t, u, p)
                                             THEN <<>> ELSE <<u>>]

\* sys_ppu_thread_start: the new thread gets its entry command after awake()
start(t, u) ==
  /\ pc[t] \in {"syscall", "signaling"} /\ g_to_awake[t] = <<>>
  /\ pc[u] = "stopped"
  /\ g_mutex = Free
  /\ g_mutex' = [who |-> t, next |-> "signaling", reschedule |-> TRUE]
  /\ pc' = [pc EXCEPT ![t] = "locked", ![u] = "check"]
  /\ g_to_awake' = [g_to_awake EXCEPT ![t] = <<u>>]
  /\ UNCHANGED sched

\* _sys_ppu_thread_exit: awakes the thread that joins it, then leaves the queue.
\* A thread that another one is about to awake is still in its system call.
exit(t) ==
  /\ pc[t] = "syscall" /\ \A c \in Callers : t \notin Range(g_to_awake[c])
  /\ Acquire(t, "exiting", g_to_awake[t] # <<>>)
  /\ sched' = sleep_unlocked(sched, t, FALSE)
  /\ UNCHANGED g_to_awake

\* "Remove suspend state" at the end of _sys_ppu_thread_exit
exit_end(t) ==
  /\ pc[t] = "exiting"
  /\ sched' = [sched EXCEPT !.state[t] = @ \ {"suspend"}]
  /\ Goto(t, "exited")
  /\ UNCHANGED <<g_mutex, g_to_awake>>

-----------------------------------------------------------------------------

\* The wait loop of a system call finds cpu_flag::signal and resets it
WaitSignaled(t) ==
  /\ pc[t] \in {"waiting", "twaiting"} /\ "signal" \in sched.state[t]
  /\ sched' = [sched EXCEPT !.state[t] = @ \ {"signal"}]
  /\ Goto(t, "check")
  /\ UNCHANGED <<g_mutex, g_to_awake>>

\* wait_timeout returns true, on cpu_flag::notify or by its own clock; the wait
\* loop then calls check_state to be scheduled again
WaitTimeout(t) ==
  /\ pc[t] = "twaiting"
  /\ Goto(t, "check")
  /\ UNCHANGED <<sched, g_mutex, g_to_awake>>

\* Guest code polls its flags
Poll(t) ==
  /\ pc[t] = "guest" /\ sched.state[t] # {}
  /\ Goto(t, "check")
  /\ UNCHANGED <<sched, g_mutex, g_to_awake>>

\* Mutant: check_state leaves cpu_flag::notify set
CheckFlags_KeepsNotify(t) ==
  /\ \/ pc[t] = "check"
     \/ pc[t] = "parked" /\ (sched.state[t] # {"suspend"})
  /\ sched' = [sched EXCEPT !.state[t] = @ \ {"signal"}]
  /\ Goto(t, IF "suspend" \notin sched.state[t] THEN "guest"
             ELSE IF pc[t] = "check" \/ "signal" \in sched.state[t] THEN "cpu_sleep"
             ELSE "parked")
  /\ UNCHANGED <<g_mutex, g_to_awake>>

\* Mutant: a suspended thread waits without calling cpu_sleep
CheckFlags_NoCpuSleep(t) ==
  /\ \/ pc[t] = "check"
     \/ pc[t] = "parked" /\ (sched.state[t] # {"suspend"})
  /\ sched' = [sched EXCEPT !.state[t] = @ \ {"signal", "notify"}]
  /\ Goto(t, IF "suspend" \notin sched.state[t] THEN "guest" ELSE "parked")
  /\ UNCHANGED <<g_mutex, g_to_awake>>

\* The atomic operation of check_state on the flags; a thread that called
\* cpu_sleep does it again only after a signal
CheckFlags(t) ==
  /\ \/ pc[t] = "check"
     \/ pc[t] = "parked" /\ (sched.state[t] # {"suspend"})
  /\ sched' = [sched EXCEPT !.state[t] = @ \ {"signal", "notify"}]
  /\ Goto(t, IF "suspend" \notin sched.state[t] THEN "guest"
             ELSE IF pc[t] = "check" \/ "signal" \in sched.state[t] THEN "cpu_sleep"
             ELSE "parked")
  /\ UNCHANGED <<g_mutex, g_to_awake>>

\* ppu_thread::cpu_sleep: awake(this)
cpu_sleep(t) ==
  /\ pc[t] = "cpu_sleep"
  /\ Acquire(t, "parked", TRUE)
  /\ g_to_awake' = [g_to_awake EXCEPT ![t] = <<t>>]
  /\ UNCHANGED sched

\* make_scheduler_ready, called once no thread is left to sleep ...
MakeReady ==
  /\ pc[Host] = "idle" /\ g_to_awake[Host] = <<>>
  /\ ~sched.g_scheduler_ready /\ sched.g_to_sleep = {}
  /\ sched' = [sched EXCEPT !.g_scheduler_ready = TRUE]
  /\ Goto(Host, "boot")
  /\ UNCHANGED <<g_mutex, g_to_awake>>

\* ... and its awake_all() of an empty list
BootAwake ==
  /\ pc[Host] = "boot"
  /\ Acquire(Host, "idle", TRUE)
  /\ UNCHANGED <<sched, g_to_awake>>

-----------------------------------------------------------------------------

\* The steps a PPU thread owes: it never stops in the middle of one of these
Progress(t) ==
  \/ LeaveSyscall(t) \/ awake(t) \/ Disarm(t)
  \/ exit_end(t) \/ WaitSignaled(t) \/ Poll(t) \/ CheckFlags(t) \/ cpu_sleep(t)
  \/ (pc[t] = "resume" /\ sleep(t, FALSE))
  \/ EmplaceNext(t) \/ Release(t)

\* The steps a guest program chooses
Choice(t) ==
  \/ EnterSyscall(t) \/ ArmCancel(t) \/ yield(t) \/ exit(t) \/ WaitTimeout(t)
  \/ \E timed \in TimedSleeps : sleep(t, timed)
  \/ \E u \in Threads : append(t, u) \/ start(t, u)
  \/ \E u \in Threads, p \in Prios : set_priority(t, u, p)

HostStep ==
  \/ \E u \in Threads : append(Host, u)
  \/ awake(Host) \/ EmplaceNext(Host) \/ Release(Host) \/ MakeReady \/ BootAwake

Next == HostStep \/ \E t \in Threads : Progress(t) \/ Choice(t)

Spec == Init /\ [][Next]_vars

\* A host thread that runs goes on running, compiled guest code polls its flags,
\* and no thread waits for the host mutex g_mutex for ever (strong fairness,
\* since others may take it in between).
Fairness ==
  /\ \A t \in Threads : SF_vars(Progress(t))
  /\ SF_vars(awake(Host) \/ EmplaceNext(Host) \/ Release(Host) \/ BootAwake)

FairSpec == Spec /\ Fairness

-----------------------------------------------------------------------------

\* Every suspension that awake_unlocked counts in g_pending is acknowledged once:
\* the counter is exactly the number of threads that still owe one, and those
\* are suspended.  (A counter that drifts stops schedule_all for ever.)
PendingCount ==
  /\ sched.g_pending = Cardinality({t \in Threads : sched.ack_suspend[t]})
  /\ \A t \in Threads : sched.ack_suspend[t] => "suspend" \in sched.state[t]

\* At most ppu_threads PPU threads execute guest code at any time, although a
\* preempted thread runs on until it looks at its flags; and none does before
\* make_scheduler_ready, when the threads of a savestate repeat their waits, time
\* out of them or are awakened.
HwThreadBound ==
  LET guest == {t \in Threads : pc[t] \in {"guest", "syscall", "arming"}}
  IN  /\ Cardinality(guest) <= ppu_threads
      /\ ~sched.g_scheduler_ready => guest = {}

\* When nobody holds the scheduler lock and no acknowledgement is outstanding,
\* every thread in the first ppu_threads places of the run queue is released.
WorkConserving ==
  /\ g_mutex = Free /\ sched.g_scheduler_ready /\ pc[Host] # "boot"
  /\ sched.g_pending = 0
  => \A t \in OnProc(sched) : "suspend" \notin sched.state[t]

\* A released thread never has a lower priority than a runnable one that is
\* held back: emplace_thread, set_prio and yield keep the run queue sorted.
PriorityOrder ==
  g_mutex = Free =>
    \A t, u \in Queued(sched) :
      "suspend" \notin sched.state[t] /\ "suspend" \in sched.state[u]
        /\ u \notin OnProc(sched) => sched.prio[t] <= sched.prio[u]

\* No thread is in the run queue twice, and none is when it is stopped or gone
\* (the ensure(awake()) of sys_ppu_thread_start).
QueuedOnce ==
  /\ IsInjective(sched.g_ppu)
  /\ \A t \in Queued(sched) : pc[t] \notin {"stopped", "resume", "exiting", "exited"}

\* sleep() never finds a stale cpu_flag::signal ("sleep() failed (signaled)") nor
\* a stale cpu_flag::notify (the ensure of sleep_unlocked).
SleepFindsNoStaleFlag ==
  \A t \in Threads : pc[t] \in {"guest", "syscall", "arming"}
                       => sched.state[t] \subseteq {"suspend"}

\* A registered timeout belongs to a sleeping thread that was not notified yet
\* (the ensure of schedule_all on cpu_flag::notify).
TimeoutRegistry ==
  \A t \in sched.g_waiting : t \notin Queued(sched) /\ "notify" \notin sched.state[t]

\* A thread that reaches the first ppu_threads places of the run queue is
\* released, unless it is overtaken: threads that are preempted look at their
\* flags and acknowledge, so that schedule_all is not held off for ever.
EventuallyReleased ==
  \A t \in Threads :
    (t \in OnProc(sched) /\ sched.g_scheduler_ready)
      ~> ("suspend" \notin sched.state[t] \/ t \notin OnProc(sched))

\* A preempted thread acknowledges its suspension.
EventuallyAcknowledged ==
  \A t \in Threads : sched.ack_suspend[t] ~> ~sched.ack_suspend[t]

-----------------------------------------------------------------------------
(***************************************************************************)
(* The inductive invariant behind the safety properties.                   *)
(***************************************************************************)

\* Threads that may be executing guest code: released, or suspended without
\* having acknowledged it
Runs(t) == "suspend" \notin sched.state[t] \/ sched.ack_suspend[t]
Running == {t \in Live : Runs(t)}

\* The threads that the holder of g_mutex has still to put into the run queue
Held == IF g_mutex.who = None THEN {} ELSE Range(g_to_awake[g_mutex.who])

\* Threads that are not in the run queue and that nobody will put there
Gone(t) == \/ pc[t] \in {"stopped", "resume", "exiting", "exited"}
           \/ g_mutex.who = t /\ g_mutex.next = "exiting"

\* The lock
LockInv ==
  /\ g_mutex.who = None => g_mutex = Free
  /\ \A c \in Callers : pc[c] = "locked" <=> g_mutex.who = c
  /\ g_mutex.who # None => g_mutex.next \in {"signaling", "check", "waiting", "twaiting",
                                             "parked", "exiting", "idle"}
  /\ g_mutex.who # None /\ ~g_mutex.reschedule => g_to_awake[g_mutex.who] = <<>>

\* The run queue
QueueInv ==
  /\ IsInjective(sched.g_ppu)
  /\ \A i, j \in 1..Len(sched.g_ppu) :
       i < j => sched.prio[sched.g_ppu[i]] <= sched.prio[sched.g_ppu[j]]

\* Threads that left are in no list and owe no acknowledgement
GoneInv ==
  \A t \in Threads : Gone(t) =>
    /\ t \notin Queued(sched) /\ ~sched.ack_suspend[t]
    /\ \A c \in Callers : t \notin Range(g_to_awake[c])
    /\ pc[t] # "exited" => "suspend" \in sched.state[t]

\* Registered timeouts
WaitingInv ==
  \A t \in sched.g_waiting : /\ t \notin Queued(sched) /\ t \notin Running
                             /\ ~Gone(t) /\ "notify" \notin sched.state[t]

\* Where the running threads are
PlaceInv ==
  /\ Running \subseteq Queued(sched) \cup Held
  /\ ~g_mutex.reschedule =>
       \A t \in Live : "suspend" \notin sched.state[t] => t \in OnProc(sched)

\* What guest code and the start of a system call can rely on
GuestInv ==
  \A t \in Threads : pc[t] \in {"guest", "syscall", "arming"} =>
    t \in Running /\ sched.state[t] \subseteq {"suspend"}

\* At most ppu_threads threads may be executing guest code
RunningInv == Cardinality(Running) <= ppu_threads

\* Until the scheduler starts, every thread is suspended, owes nothing and is where
\* a suspended thread gets without guest code; inductive together with IInv
NotStartedInv ==
  ~sched.g_scheduler_ready =>
    \A t \in Threads :
      /\ "suspend" \in sched.state[t] /\ ~sched.ack_suspend[t]
      /\ pc[t] \in {"stopped", "resume", "locked", "waiting", "twaiting", "check",
                    "cpu_sleep", "parked"}
      /\ g_mutex.who = t => g_mutex.next \in {"waiting", "twaiting", "check", "parked"}

IInv ==
  /\ TypeOK
  /\ LockInv
  /\ QueueInv
  /\ PendingCount
  /\ GoneInv
  /\ WaitingInv
  /\ PlaceInv
  /\ GuestInv
  /\ RunningInv
  /\ WorkConserving

=============================================================================
