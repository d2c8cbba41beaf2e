---------------------------- MODULE Lv2EventFlag ----------------------------
(***************************************************************************)
(* The LV2 event flag of core/rpcs3/Emu/Cell/lv2/sys_event_flag.cpp: a     *)
(* word of bits, pattern, changed by lock-free atomic operations (clear,   *)
(* trywait and the first try of a wait) while a set, which holds the mutex *)
(* of the flag, works out which of the queued threads its bits satisfy.    *)
(* The set reads pattern, visits the waiters one by one on a copy, and     *)
(* installs the result unless a bit it depended on has changed meanwhile.  *)
(* Sleeping and waking are those of Lv2Sched; here a sleeping thread is    *)
(* one that waits for its signal, and any wait may time out.  The aborts   *)
(* of an emulator that stops (cpu_flag::again) are left out.               *)
(***************************************************************************)
EXTENDS Lv2Queue

CONSTANTS Waiters,   \* PPU threads that wait on the flag
          Setters,   \* threads that set, cancel or destroy it (PPU or SPU)
          None,
          Bits,      \* the bits of the 64-bit pattern
          BitSets,   \* the arguments of set and clear
          Waits,     \* the arguments of a wait: bits, AND or OR, what to clear
          prio,      \* the priorities of the waiters
          Priority,  \* protocol = SYS_SYNC_PRIORITY
          Single     \* type = SYS_SYNC_WAITER_SINGLE

ASSUME ActorsAssumption == Waiters \cap Setters = {} /\ None \notin Waiters \cup Setters
ASSUME WaitsAssumption ==
  /\ Waits # {}
  /\ Waits \subseteq [bitptn : SUBSET Bits, and : BOOLEAN, clear : {"no", "bits", "all"}]
ASSUME OptionsAssumption ==
  /\ BitSets \subseteq SUBSET Bits
  /\ prio \in [Waiters -> Int] /\ Priority \in BOOLEAN /\ Single \in BOOLEAN

VARIABLES pattern,  \* atomic_t<u64> pattern, as the set of its bits
          sq,       \* the queue of waiters, newest first
          mutex,    \* the owner of the mutex of the flag
          exists,   \* the flag has its ID
          pc,       \* what each thread is doing
          args,     \* gpr[4] and gpr[5] of a waiter
          gpr3,     \* the result of a wait: "unset" is -1
          gpr6,     \* the pattern a wait reports
          signal,   \* cpu_flag::signal
          bitptn,   \* the argument of a set
          set       \* the locals of the set or cancel that holds the mutex

vars == <<pattern, sq, mutex, exists, pc, args, gpr3, gpr6, signal, bitptn, set>>

NoSet == [bits |-> {}, pattern |-> {}, to_write |-> {}, dependant |-> {},
          marked |-> {}, count |-> FALSE]

Sets == [bits : SUBSET Bits, pattern : SUBSET Bits, to_write : SUBSET Bits,
         dependant : SUBSET Bits, marked : SUBSET Waiters, count : BOOLEAN]

\* The pattern, the wait queue and what each thread is doing keep their types.
TypeOK ==
  /\ pattern \in SUBSET Bits /\ sq \in Seq(Waiters)
  /\ mutex \in Setters \cup {None} /\ exists \in BOOLEAN
  /\ pc \in [Waiters \cup Setters ->
              {"idle", "locking", "waiting", "timeout", "lock_unlock", "relock", "returned",
               "set", "visit", "remove", "cancel", "take", "mark"}]
  /\ args \in [Waiters -> Waits]
  /\ gpr3 \in [Waiters -> {"unset", "OK", "ETIMEDOUT", "ECANCELED"}]
  /\ gpr6 \in [Waiters -> SUBSET Bits] /\ signal \in [Waiters -> BOOLEAN]
  /\ bitptn \in [Setters -> SUBSET Bits] /\ set \in Sets

Init ==
  /\ pattern \in SUBSET Bits /\ sq = <<>> /\ mutex = None /\ exists = TRUE
  /\ pc = [t \in Waiters \cup Setters |-> "idle"]
  /\ args = [t \in Waiters |-> CHOOSE w \in Waits : TRUE]
  /\ gpr3 = [t \in Waiters |-> "unset"] /\ gpr6 = [t \in Waiters |-> {}]
  /\ signal = [t \in Waiters |-> FALSE] /\ bitptn = [c \in Setters |-> {}] /\ set = NoSet

-----------------------------------------------------------------------------

\* check_pattern: the test, and the pattern it leaves when the test succeeds
Satisfies(p, w) == IF w.and THEN w.bitptn \subseteq p ELSE w.bitptn \cap p # {}
Cleared(p, w) == CASE w.clear = "no" -> p
                   [] w.clear = "bits" -> p \ w.bitptn
                   [] w.clear = "all" -> {}

Goto(t, l) == pc' = [pc EXCEPT ![t] = l]

\* sys_event_flag_wait: the first, lock-free try, under the lock of the IDs.  (The
\* registers of a thread that is not queued are read by nobody.)
WaitTry(t, w) ==
  /\ pc[t] \in {"idle", "returned"} /\ exists
  /\ IF Satisfies(pattern, w)
     THEN /\ pattern' = Cleared(pattern, w)
          /\ Goto(t, "idle")
          /\ UNCHANGED <<args, gpr3, gpr6>>
     ELSE /\ args' = [args EXCEPT ![t] = w]
          /\ gpr3' = [gpr3 EXCEPT ![t] = "unset"]
          /\ gpr6' = [gpr6 EXCEPT ![t] = pattern]
          /\ Goto(t, "locking")
          /\ UNCHANGED pattern
  /\ UNCHANGED <<sq, mutex, exists, signal, bitptn, set>>

\* Mutant: queues itself without a second look at the pattern
WaitQueue_NoRecheck(t) ==
  /\ pc[t] = "locking" /\ mutex = None
  /\ IF Single /\ sq # <<>> THEN Goto(t, "idle") /\ UNCHANGED sq
     ELSE Goto(t, "waiting") /\ sq' = emplace(sq, t)
  /\ UNCHANGED <<pattern, mutex, exists, args, gpr3, gpr6, signal, bitptn, set>>

\* Mutant: stores the CELL_EBUSY of the lambda where the result of the wait goes
WaitQueue_StoresEbusy(t) ==
  /\ pc[t] = "locking" /\ mutex = None /\ ~Satisfies(pattern, args[t])
  /\ Goto(t, "waiting") /\ sq' = emplace(sq, t)
  /\ gpr3' = [gpr3 EXCEPT ![t] = "EBUSY"]
  /\ UNCHANGED <<pattern, mutex, exists, args, gpr6, signal, bitptn, set>>

\* The second try, under the mutex; the thread then sleeps and queues itself
WaitQueue(t) ==
  /\ pc[t] = "locking" /\ mutex = None
  /\ gpr6' = [gpr6 EXCEPT ![t] = pattern]
  /\ IF Satisfies(pattern, args[t])
     THEN pattern' = Cleared(pattern, args[t]) /\ Goto(t, "idle") /\ UNCHANGED sq
     ELSE /\ UNCHANGED pattern
          /\ IF Single /\ sq # <<>> THEN Goto(t, "idle") /\ UNCHANGED sq
             ELSE Goto(t, "waiting") /\ sq' = emplace(sq, t)
  /\ UNCHANGED <<mutex, exists, args, gpr3, signal, bitptn, set>>

\* The wait loop ends with the signal ...
WaitSignaled(t) ==
  /\ pc[t] = "waiting" /\ signal[t]
  /\ signal' = [signal EXCEPT ![t] = FALSE]
  /\ Goto(t, "returned")
  /\ UNCHANGED <<pattern, sq, mutex, exists, args, gpr3, gpr6, bitptn, set>>

\* ... or with the timeout: check_state takes a signal that came since
WaitTimeout(t) ==
  /\ pc[t] = "waiting"
  /\ signal' = [signal EXCEPT ![t] = FALSE]
  /\ Goto(t, "timeout")
  /\ UNCHANGED <<pattern, sq, mutex, exists, args, gpr3, gpr6, bitptn, set>>

\* Mutant: trusts an empty queue without waiting for the holder of the mutex
TimeoutLook_NoLock(t) ==
  /\ pc[t] = "timeout"
  /\ Goto(t, IF sq = <<>> THEN "returned" ELSE "relock")
  /\ UNCHANGED <<pattern, sq, mutex, exists, args, gpr3, gpr6, signal, bitptn, set>>

\* "Waiters queue is empty, so the thread must have been signaled"
TimeoutLook(t) ==
  /\ pc[t] = "timeout"
  /\ Goto(t, IF sq = <<>> THEN "lock_unlock" ELSE "relock")
  /\ UNCHANGED <<pattern, sq, mutex, exists, args, gpr3, gpr6, signal, bitptn, set>>

LockUnlock(t) ==
  /\ pc[t] = "lock_unlock" /\ mutex = None
  /\ Goto(t, "returned")
  /\ UNCHANGED <<pattern, sq, mutex, exists, args, gpr3, gpr6, signal, bitptn, set>>

Relock(t) ==
  /\ pc[t] = "relock" /\ mutex = None
  /\ IF t \in Range(sq)
     THEN /\ sq' = unqueue(sq, t)
          /\ gpr3' = [gpr3 EXCEPT ![t] = "ETIMEDOUT"]
          /\ gpr6' = [gpr6 EXCEPT ![t] = pattern]
     ELSE UNCHANGED <<sq, gpr3, gpr6>>
  /\ Goto(t, "returned")
  /\ UNCHANGED <<pattern, mutex, exists, args, signal, bitptn, set>>

-----------------------------------------------------------------------------

\* sys_event_flag_set: nothing to do when the bits are set already
Set(c, b) ==
  /\ pc[c] = "idle" /\ exists
  /\ ~(b \subseteq pattern)
  /\ bitptn' = [bitptn EXCEPT ![c] = b]
  /\ Goto(c, "set")
  /\ UNCHANGED <<pattern, sq, mutex, exists, args, gpr3, gpr6, signal, set>>

\* The beginning of a turn of "Process all waiters in single atomic op", for the
\* pattern p: no waiter is visited
Turn(b, p) == [bits |-> b, pattern |-> p, to_write |-> p \cup b, dependant |-> {},
               marked |-> {}, count |-> FALSE]

SetLock(c) ==
  /\ pc[c] = "set" /\ mutex = None
  /\ mutex' = c
  /\ set' = Turn(bitptn[c], pattern)
  /\ Goto(c, "visit")
  /\ UNCHANGED <<pattern, sq, exists, args, gpr3, gpr6, signal, bitptn>>

Unmarked == {i \in 1..Len(sq) : sq[i] \notin set.marked}

\* get_next: the oldest waiter, of the most urgent ones when the protocol says so
NextWaiter(i) == Serves(i, sq, Unmarked, prio, Priority)

\* The bits of the old pattern that the success of a waiter depends on
DependantMask(w) == IF ~w.and \/ set.bits \cap w.bitptn \cap set.to_write = w.bitptn
                    THEN {} ELSE w.bitptn

\* A turn ends when every waiter is visited, or no bit is left
Scanned == Unmarked = {} \/ set.to_write = {}

\* One turn of the inner loop; the bits that satisfy a waiter may be cleared for
\* the next ones
SetVisit(c) ==
  /\ pc[c] = "visit" /\ ~Scanned
  /\ \E i \in Unmarked :
       LET t == sq[i]
           ok == Satisfies(set.to_write, args[t])
       IN  /\ NextWaiter(i)
           /\ gpr3' = [gpr3 EXCEPT ![t] = IF ok THEN "OK" ELSE "unset"]
           /\ gpr6' = [gpr6 EXCEPT ![t] = set.to_write]
           /\ set' = [set EXCEPT
                !.marked = @ \cup {t}, !.count = @ \/ ok,
                !.dependant = IF ok THEN @ \cup DependantMask(args[t]) ELSE @,
                !.to_write = IF ok THEN Cleared(@, args[t]) ELSE @]
  /\ UNCHANGED <<pattern, sq, mutex, exists, pc, args, signal, bitptn>>

\* Mutant: takes no notice of concurrent changes
Stale_Never == FALSE

\* A bit the result depends on has changed since the turn began
Stale == (((pattern \ set.pattern) \cup (set.pattern \ pattern))
            \cap (set.dependant \ set.bits)) # {}

\* Mutant: a new turn starts from the pattern of the last one
SetCommit_KeepsPattern(c) ==
  /\ pc[c] = "visit" /\ Scanned
  /\ IF Stale
     THEN set' = Turn(set.bits, set.pattern) /\ UNCHANGED <<pattern, mutex, pc>>
     ELSE /\ pattern' = (pattern \cup set.bits) \ ((set.pattern \cup set.bits) \ set.to_write)
          /\ set' = NoSet
          /\ IF set.count THEN Goto(c, "remove") /\ UNCHANGED mutex
             ELSE Goto(c, "idle") /\ mutex' = None
  /\ UNCHANGED <<sq, exists, args, gpr3, gpr6, signal, bitptn>>

\* fetch_op on the pattern: a new turn, or the bits that are set and cleared
SetCommit(c) ==
  /\ pc[c] = "visit" /\ Scanned
  /\ IF Stale
     THEN set' = Turn(set.bits, pattern) /\ UNCHANGED <<pattern, mutex, pc>>
     ELSE /\ pattern' = (pattern \cup set.bits) \ ((set.pattern \cup set.bits) \ set.to_write)
          /\ set' = NoSet
          /\ IF set.count THEN Goto(c, "remove") /\ UNCHANGED mutex
             ELSE Goto(c, "idle") /\ mutex' = None
  /\ UNCHANGED <<sq, exists, args, gpr3, gpr6, signal, bitptn>>

\* awake_all of the threads S; one that timed out, and was scheduled again by
\* check_state, is in the run queue already and gets no signal
Awake(S) == signal' = [t \in Waiters |-> signal[t] \/ (t \in S /\ pc[t] = "waiting")]

\* "Remove waiters": the next one, from the newest, with the result CELL_OK
Woken == {i \in 1..Len(sq) : gpr3[sq[i]] = "OK"}
SetRemove(c) ==
  /\ pc[c] = "remove"
  /\ \E i \in Woken : /\ \A j \in Woken : i <= j
                      /\ sq' = unqueue(sq, sq[i])
                      /\ set' = [set EXCEPT !.marked = @ \cup {sq[i]}]
  /\ UNCHANGED <<pattern, mutex, exists, pc, args, gpr3, gpr6, signal, bitptn>>

\* Mutant: forgets awake_all()
SetAwake_Silent(c) ==
  /\ pc[c] = "remove" /\ Woken = {}
  /\ mutex' = None /\ set' = NoSet
  /\ Goto(c, "idle")
  /\ UNCHANGED <<pattern, sq, exists, args, gpr3, gpr6, signal, bitptn>>

\* awake_all() of the removed waiters, and the end of the call
SetAwake(c) ==
  /\ pc[c] = "remove" /\ Woken = {}
  /\ Awake(set.marked)
  /\ mutex' = None /\ set' = NoSet
  /\ Goto(c, "idle")
  /\ UNCHANGED <<pattern, sq, exists, args, gpr3, gpr6, bitptn>>

\* sys_event_flag_clear, by any thread, keeps the bits of its argument
Clear(b) ==
  /\ exists
  /\ pattern' = pattern \cap b
  /\ UNCHANGED <<sq, mutex, exists, pc, args, gpr3, gpr6, signal, bitptn, set>>

\* sys_event_flag_trywait, by any thread, that succeeds
TryWait(w) ==
  /\ exists
  /\ Satisfies(pattern, w)
  /\ pattern' = Cleared(pattern, w)
  /\ UNCHANGED <<sq, mutex, exists, pc, args, gpr3, gpr6, signal, bitptn, set>>

\* sys_event_flag_cancel takes the waiters one by one, oldest first
CancelLock(c) ==
  /\ pc[c] = "cancel" /\ mutex = None
  /\ mutex' = c
  /\ set' = [NoSet EXCEPT !.pattern = pattern]
  /\ Goto(c, "take")
  /\ UNCHANGED <<pattern, sq, exists, args, gpr3, gpr6, signal, bitptn>>

CancelTake(c) ==
  /\ pc[c] = "take" /\ sq # <<>>
  /\ set' = [set EXCEPT !.marked = @ \cup {sq[Len(sq)]}]
  /\ sq' = unqueue(sq, sq[Len(sq)])
  /\ Goto(c, "mark")
  /\ UNCHANGED <<pattern, mutex, exists, args, gpr3, gpr6, signal, bitptn>>

\* The waiter that was taken gets its result and is put on the list to awake
CancelMark(c) ==
  /\ pc[c] = "mark"
  /\ gpr3' = [t \in Waiters |-> IF t \in set.marked THEN "ECANCELED" ELSE gpr3[t]]
  /\ gpr6' = [t \in Waiters |-> IF t \in set.marked THEN set.pattern ELSE gpr6[t]]
  /\ Goto(c, "take")
  /\ UNCHANGED <<pattern, sq, mutex, exists, args, signal, bitptn, set>>

\* awake_all() and the end of the call
CancelEnd(c) ==
  /\ pc[c] = "take" /\ sq = <<>>
  /\ Awake(set.marked)
  /\ mutex' = None /\ set' = NoSet
  /\ Goto(c, "idle")
  /\ UNCHANGED <<pattern, sq, exists, args, gpr3, gpr6, bitptn>>

Cancel(c) ==
  /\ pc[c] = "idle" /\ exists
  /\ Goto(c, "cancel")
  /\ UNCHANGED <<pattern, sq, mutex, exists, args, gpr3, gpr6, signal, bitptn, set>>

\* Mutant: destroys a flag while a wait is between its two tries
Destroy_NoIdLock(c) ==
  /\ pc[c] = "idle" /\ exists /\ sq = <<>>
  /\ exists' = FALSE
  /\ UNCHANGED <<pattern, sq, mutex, pc, args, gpr3, gpr6, signal, bitptn, set>>

\* sys_event_flag_destroy; it excludes a wait that has not queued itself yet, which
\* holds the lock of the IDs
Destroy(c) ==
  /\ pc[c] = "idle" /\ exists /\ sq = <<>>
  /\ \A t \in Waiters : pc[t] # "locking"
  /\ exists' = FALSE
  /\ UNCHANGED <<pattern, sq, mutex, pc, args, gpr3, gpr6, signal, bitptn, set>>

-----------------------------------------------------------------------------

WaiterStep(t) ==
  \/ \E w \in Waits : WaitTry(t, w)
  \/ WaitQueue(t) \/ WaitSignaled(t) \/ WaitTimeout(t)
  \/ TimeoutLook(t) \/ LockUnlock(t) \/ Relock(t)

SetterStep(c) ==
  \/ \E b \in BitSets : Set(c, b)
  \/ SetLock(c) \/ SetVisit(c) \/ SetCommit(c) \/ SetRemove(c) \/ SetAwake(c)
  \/ Cancel(c) \/ CancelLock(c) \/ CancelTake(c) \/ CancelMark(c) \/ CancelEnd(c)
  \/ Destroy(c)

Next ==
  \/ \E t \in Waiters : WaiterStep(t)
  \/ \E c \in Setters : SetterStep(c)
  \/ \E b \in BitSets : Clear(b)
  \/ \E w \in Waits : TryWait(w)

Spec == Init /\ [][Next]_vars

\* A thread that has the mutex runs on, and so does a waiter whose wait is over; when
\* it needs the mutex for that and the mutex is free again and again, it gets it.  No
\* call has to be made, and no set has to get the mutex.
Holds(c) == SetVisit(c) \/ SetCommit(c) \/ SetRemove(c) \/ SetAwake(c)
            \/ CancelTake(c) \/ CancelMark(c) \/ CancelEnd(c)
Fairness == /\ \A c \in Setters : WF_vars(Holds(c))
            /\ \A t \in Waiters : WF_vars(WaitSignaled(t) \/ TimeoutLook(t))
            /\ \A t \in Waiters : SF_vars(LockUnlock(t) \/ Relock(t))

FairSpec == Init /\ [][Next]_vars /\ Fairness

-----------------------------------------------------------------------------

\* No lost wake-up: when nobody holds the mutex, no queued thread waits for bits
\* that are there, whatever clears and polls raced with the set.
NoLostWakeup ==
  mutex = None => \A t \in Range(sq) : ~Satisfies(pattern, args[t])

\* A thread that leaves the wait loop has its result, and it is CELL_OK only with a
\* reported pattern that fulfils the wait ("the thread must have been signaled").
ResultIsSet ==
  \A t \in Waiters : pc[t] = "returned" =>
    /\ gpr3[t] # "unset"
    /\ gpr3[t] = "OK" => Satisfies(gpr6[t], args[t])

\* A thread asleep can still be reached: it is in the queue, or was signaled, or
\* the holder of the mutex has it on its list.  Only such threads are queued, and none
\* in a flag that has lost its ID, which no set finds any more.
Reachable ==
  /\ \A t \in Waiters : pc[t] = "waiting" =>
       t \in Range(sq) \/ signal[t] \/ (mutex # None /\ t \in set.marked)
  /\ \A t \in Range(sq) : pc[t] \in {"waiting", "timeout", "relock"}
  /\ IsInjective(sq)
  /\ ~exists => sq = <<>>

\* A set ends, however many times a concurrent clear or poll sends it back: while it
\* holds the mutex bits can only go, so the fetch_op cannot fail forever.
SetTerminates == \A c \in Setters : pc[c] \in {"visit", "remove"} ~> pc[c] = "idle"

\* A waiter that was taken out of the queue returns from its wait, timed out or not.
RemovedReturns ==
  \A t \in Waiters : pc[t] = "waiting" /\ t \notin Range(sq) ~> pc[t] = "returned"

-----------------------------------------------------------------------------

(* The inductive invariant *)

\* What the holder of the mutex is doing
phase == IF mutex = None THEN "free" ELSE pc[mutex]

\* Still in its wait, in the queue or taken from it
InWait(t) == pc[t] \in {"waiting", "timeout", "relock", "lock_unlock"}

LockInv ==
  /\ \A t \in Waiters : InWait(t) \/ pc[t] \in {"idle", "locking", "returned"}
  /\ \A c \in Setters : IF mutex = c THEN pc[c] \in {"visit", "remove", "take", "mark"}
                        ELSE pc[c] \in {"idle", "set", "cancel"}

QueueInv ==
  /\ IsInjective(sq)
  /\ \A t \in Range(sq) : pc[t] \in {"waiting", "timeout", "relock"}
  /\ ~exists => sq = <<>> /\ \A t \in Waiters : pc[t] # "locking"

\* The result of a thread that was taken from the queue is there, except while a
\* cancel is between taking it and writing it
ResultInv ==
  \A t \in Waiters :
    /\ gpr3[t] = "OK" => Satisfies(gpr6[t], args[t])
    /\ pc[t] = "locking" => gpr3[t] = "unset"
    /\ pc[t] = "returned" => gpr3[t] # "unset"
    /\ InWait(t) /\ t \notin Range(sq) =>
         gpr3[t] # "unset" \/ (phase = "mark" /\ t \in set.marked)

\* A signal is for a thread that was taken from the queue and has not left its wait
SignalInv ==
  \A t \in Waiters : signal[t] => pc[t] = "waiting" /\ t \notin Range(sq)

\* The threads a cancel or the end of a set has taken and not yet awakened
TakenInv ==
  phase \in {"remove", "take", "mark"} =>
    \A t \in set.marked : InWait(t) /\ ~signal[t] /\ t \notin Range(sq)

ReachInv ==
  \A t \in Waiters : pc[t] = "waiting" =>
    t \in Range(sq) \/ signal[t] \/ (phase \in {"remove", "take", "mark"} /\ t \in set.marked)

\* While a set visits its waiters no bit is added to the pattern by anybody else, and
\* who was visited in vain cannot be satisfied by what is left to write
VisitInv ==
  phase = "visit" =>
    /\ pattern \subseteq set.pattern /\ set.to_write \subseteq set.pattern \cup set.bits
    /\ set.marked \subseteq Range(sq)
    /\ \A t \in set.marked : gpr3[t] = "OK" \/ ~Satisfies(set.to_write, args[t])
    /\ ~set.count => \A t \in set.marked : gpr3[t] # "OK"

WakeInv ==
  \A t \in Range(sq) : Satisfies(pattern, args[t]) => phase = "remove" /\ gpr3[t] = "OK"

IInv == /\ TypeOK /\ LockInv /\ QueueInv /\ ResultInv /\ SignalInv
        /\ TakenInv /\ ReachInv /\ VisitInv /\ WakeInv

=============================================================================
