----------------------------- MODULE SaveStates -----------------------------
(***************************************************************************)
(* The save-state operations of android/src/save_states.cpp against the    *)
(* life of the VM (Emulator::Kill and BootGame of System.cpp): a request   *)
(* is posted to the dispatcher thread "Main Callbacks", kills the VM,      *)
(* captures or validates a slot in after_kill_callback, boots again and    *)
(* finishes when that VM runs.  Meanwhile the app exits or boots, and the  *)
(* guest exits or replaces itself (exitspawn).                             *)
(*   emu      the VM: state, m_emu_state_close_pending, m_stop_ctr,        *)
(*            after_kill_callback (None, an operation or Spawn),           *)
(*            m_continuous_mode, and the Savestate Prepare and Emulation   *)
(*            Join threads of a Kill (history: who prepares)               *)
(*   queue    the callbacks of the dispatcher                              *)
(*   op[n]    the n-th accepted operation                                  *)
(*   booter, killer   a thread in emucorec_boot, one in emucorec_kill      *)
(*   locked   emucorec_boot holds g_emu_lifecycle_mutex while it waits;    *)
(*            everybody else holds it within one step                      *)
(* "starting" stands for loading, ready and starting, "running" also for   *)
(* paused.                                                                 *)
(***************************************************************************)
EXTENDS Naturals, Sequences

CONSTANTS MaxOps,      \* bound: requests
          MaxOthers    \* bound: boots by the app, and exits or exitspawns of the guest

ASSUME BoundsAssumption == MaxOps \in Nat /\ MaxOthers \in Nat

VARIABLES emu, queue, pending, stoppable, used, op, locked, booter, killer,
          others,
          spawn,      \* history: has the guest replaced itself, and displaced an operation?
          misled      \* history: has an operation met the prepare thread of an earlier one?

hist == <<spawn, misled>>
vars == <<emu, queue, pending, stoppable, used, op, locked, booter, killer,
          others, hist>>
handles == <<pending, stoppable, used>>
callers == <<locked, booter, killer, others, hist>>

Ops == 1..MaxOps
None == 0              \* a null pointer
Spawn == MaxOps + 1    \* the after_kill_callback of exitspawn

Callbacks ==
  [kind : {"op", "after", "fail", "saveFailed"}, arg : Ops]
    \cup [kind : {"prepared", "final", "running", "exit", "spawn"}, arg : Nat]
    \cup [kind : {"join", "spawned"}, arg : {0}]

Call(k, a) == [kind |-> k, arg |-> a]

Emus == [state : {"stopped", "starting", "running", "stopping"}, closing : BOOLEAN,
         ctr : Nat, akc : 0..Spawn, continuous : BOOLEAN,
         prep : {"none", "working", "failed", "guard"}, who : 0..MaxOps,
         join : {"none", "saving", "joining"}]
Operations == [save : BOOLEAN, stop : BOOLEAN, written : BOOLEAN, awaiting : BOOLEAN,
               captured : BOOLEAN, resume : Nat, reports : Nat, ok : BOOLEAN]

\* Every part of the state keeps its type; in particular the callbacks of operations
\* always name one.
TypeOK ==
  /\ emu \in Emus
  /\ queue \in Seq(Callbacks)
  /\ pending \in 0..MaxOps /\ stoppable \in 0..MaxOps
  /\ used \in 0..MaxOps
  /\ op \in [Ops -> Operations]
  /\ locked \in BOOLEAN
  /\ booter \in {"idle", "wait", "stopping"} /\ killer \in {"idle", "wait"}
  /\ others \in 0..MaxOthers
  /\ spawn \in {"never", "done", "displaced"} /\ misled \in BOOLEAN

NewOp == [save |-> FALSE, stop |-> FALSE, written |-> FALSE, awaiting |-> FALSE,
          captured |-> FALSE, resume |-> 0, reports |-> 0, ok |-> FALSE]

Init ==
  /\ emu = [state |-> "running", closing |-> FALSE, ctr |-> 0, akc |-> None,
            continuous |-> FALSE, prep |-> "none", who |-> None, join |-> "none"]
  /\ queue = <<>>
  /\ pending = None /\ stoppable = None /\ used = 0
  /\ op = [n \in Ops |-> NewOp]
  /\ locked = FALSE /\ booter = "idle" /\ killer = "idle"
  /\ others = 0 /\ spawn = "never" /\ misled = FALSE

-----------------------------------------------------------------------------
(* Emulator::Kill *)

\* Mutant: does not ask whether a Kill is under way
Killed_Again(e) ==
  IF e.state = "stopped" THEN [e EXCEPT !.akc = None]
  ELSE [e EXCEPT !.closing = TRUE, !.state = "stopping", !.join = "joining"]

\* Kill without a savestate: nothing while another one is under way; a stopped VM
\* only loses its after_kill_callback; otherwise the join thread starts
Killed(e) ==
  IF e.closing THEN e
  ELSE IF e.state = "stopped" THEN [e EXCEPT !.akc = None]
  ELSE [e EXCEPT !.closing = TRUE, !.state = "stopping", !.join = "joining"]

\* Kill with a savestate: a running VM is prepared first, on a thread of its own
KilledForSave(e) ==
  IF e.state \in {"stopped", "stopping"} THEN Killed(e)
  ELSE IF e.state = "starting" \/ e.closing THEN e
  ELSE [e EXCEPT !.closing = TRUE, !.prep = "working", !.who = e.akc]

Post(c) == queue' = Append(queue, c)

\* The dispatcher takes the callbacks in order; most take the lifecycle mutex
At(k) == queue # <<>> /\ Head(queue).kind = k
Arg == Head(queue).arg
Pop == queue' = Tail(queue)
Become(c) == queue' = <<c>> \o Tail(queue)

PrepareOk ==
  /\ emu.prep = "working"
  /\ emu' = [emu EXCEPT !.prep = "none", !.who = None]
  /\ Post(Call("prepared", emu.ctr))
  /\ UNCHANGED <<handles, op, callers>>

\* SPU threads cannot be locked, or a context forbids saving
PrepareFails ==
  /\ emu.prep = "working"
  /\ emu' = [emu EXCEPT !.prep = "failed", !.closing = FALSE]
  /\ UNCHANGED <<queue, handles, op, callers>>

PrepareTells ==
  /\ emu.prep = "failed"
  /\ emu' = [emu EXCEPT !.prep = "guard"]
  /\ Post(Call("saveFailed", emu.who))
  /\ UNCHANGED <<handles, op, callers>>

\* Mutant: the guard leaves the callback
PrepareGuard_Keeps ==
  /\ emu.prep = "guard"
  /\ emu' = [emu EXCEPT !.prep = "none", !.who = None, !.continuous = FALSE]
  /\ UNCHANGED <<queue, handles, op, callers>>

\* scoped_success_guard, when the prepare thread ends
PrepareGuard ==
  /\ emu.prep = "guard"
  /\ emu' = [emu EXCEPT !.prep = "none", !.who = None, !.continuous = FALSE, !.akc = None]
  /\ misled' = (misled \/ emu.akc \in Ops \ {emu.who})
  /\ UNCHANGED <<queue, handles, op, locked, booter, killer, others, spawn>>

\* The second stage of a Kill with a savestate
Prepared ==
  /\ At("prepared")
  /\ Pop
  /\ emu' = IF Arg = emu.ctr /\ emu.state \notin {"stopped", "stopping"}
            THEN [emu EXCEPT !.state = "stopping", !.join = "saving"] ELSE emu
  /\ UNCHANGED <<handles, op, callers>>

\* The join thread has written the savestate, or not, and tells completed()
JoinSaves ==
  /\ emu.join = "saving" /\ ~locked
  /\ emu' = [emu EXCEPT !.join = "joining"]
  /\ \E success \in BOOLEAN :
       op' = IF pending # None /\ op[pending].save
             THEN [op EXCEPT ![pending].written = success] ELSE op
  /\ UNCHANGED <<queue, handles, callers>>

JoinEnds ==
  /\ emu.join = "joining"
  /\ emu' = [emu EXCEPT !.join = "none"]
  /\ Post(Call("final", emu.ctr))
  /\ UNCHANGED <<handles, op, callers>>

-----------------------------------------------------------------------------
(* The operations *)

\* An operation that has reported; nothing reads the rest of it any more
Over(ops, n, ok) ==
  [ops EXCEPT ![n] = [NewOp EXCEPT !.reports = ops[n].reports + 1, !.ok = ok]]

\* Mutants of finish(): the operation stays pending; continuous mode stays on; a load
\* that is stopped succeeds; the stop is forgotten
Finish_Pending(n, success, e, ops) ==
  /\ stoppable' = None /\ UNCHANGED <<pending, used>>
  /\ op' = Over(ops, n, success /\ (ops[n].stop => ops[n].save))
  /\ emu' = IF ops[n].stop THEN Killed([e EXCEPT !.continuous = FALSE, !.akc = None])
            ELSE [e EXCEPT !.continuous = FALSE]

Finish_Continuous(n, success, e, ops) ==
  /\ pending' = None /\ stoppable' = None /\ UNCHANGED used
  /\ op' = Over(ops, n, success /\ (ops[n].stop => ops[n].save))
  /\ emu' = IF ops[n].stop THEN Killed([e EXCEPT !.akc = None]) ELSE e

Finish_LoadOk(n, success, e, ops) ==
  /\ pending' = None /\ stoppable' = None /\ UNCHANGED used
  /\ op' = Over(ops, n, success)
  /\ emu' = IF ops[n].stop THEN Killed([e EXCEPT !.continuous = FALSE, !.akc = None])
            ELSE [e EXCEPT !.continuous = FALSE]

Finish_NoKill(n, success, e, ops) ==
  /\ pending' = None /\ stoppable' = None /\ UNCHANGED used
  /\ op' = Over(ops, n, success /\ (ops[n].stop => ops[n].save))
  /\ emu' = [e EXCEPT !.continuous = FALSE]

\* finish(): the report, then the end of continuous mode and the stop that is due
Finish(n, success, e, ops) ==
  /\ pending' = None /\ stoppable' = None /\ UNCHANGED used
  /\ op' = Over(ops, n, success /\ (ops[n].stop => ops[n].save))
  /\ emu' = IF ops[n].stop THEN Killed([e EXCEPT !.continuous = FALSE, !.akc = None])
            ELSE [e EXCEPT !.continuous = FALSE]

\* The catch blocks of run_operation
Throw(n) == Finish(n, FALSE, emu, [op EXCEPT ![n].stop = TRUE])

Skip == UNCHANGED <<emu, handles, op>>

\* request(): refused unless the VM runs, nothing is pending and no stop is under way
Request(save) ==
  /\ stoppable = None /\ ~locked
  /\ pending = None /\ ~emu.closing /\ emu.state = "running"
  /\ used < MaxOps
  /\ used' = used + 1 /\ pending' = used' /\ stoppable' = used'
  /\ op' = [op EXCEPT ![used'].save = save]
  /\ Post(Call("op", used'))
  /\ UNCHANGED <<emu, callers>>

\* The posted operation: a load validates its slot before the game is stopped
Start ==
  /\ At("op") /\ ~locked
  /\ LET n == Arg IN
       \/ pending # n /\ Skip
       \/ /\ pending = n
          /\ emu.closing \/ emu.state # "running" \/ op[n].stop \/ ~op[n].save
          /\ Finish(n, FALSE, emu, op)
       \/ pending = n /\ ~op[n].save /\ ~emu.closing /\ emu.state = "running" /\ ~op[n].stop
            /\ Throw(n)
       \/ /\ pending = n /\ ~emu.closing /\ emu.state = "running" /\ ~op[n].stop
          /\ LET e == [emu EXCEPT !.continuous = TRUE, !.akc = n] IN
               emu' = IF op[n].save THEN KilledForSave(e) ELSE Killed(e)
          /\ UNCHANGED <<handles, op>>
  /\ Pop
  /\ misled' = (misled \/ emu.prep # "none")
  /\ UNCHANGED <<locked, booter, killer, others, spawn>>

\* after_kill_callback of an operation: capture, then boot what was saved or chosen
After ==
  /\ At("after") /\ ~locked
  /\ LET n == Arg IN
       \/ pending # n /\ Skip
       \/ pending = n /\ op[n].save /\ Throw(n)
       \/ /\ pending = n
          /\ \E saved \in BOOLEAN :
               /\ ~op[n].save => saved
               /\ op[n].save /\ ~op[n].written => ~saved
               /\ LET wait == [op EXCEPT ![n].awaiting = TRUE, ![n].captured = saved,
                                         ![n].resume = emu.ctr] IN
                    \/ op[n].stop /\ Finish(n, op[n].save /\ saved, emu, op)
                    \/ /\ ~op[n].stop /\ emu.state = "stopped"
                       /\ op[n].save => op[n].written
                       /\ emu' = [emu EXCEPT !.state = "starting"]
                       /\ op' = wait /\ UNCHANGED handles
                    \/ ~op[n].stop /\ Finish(n, FALSE, emu, [wait EXCEPT ![n].stop = TRUE])
  /\ Pop
  /\ UNCHANGED callers

\* running(): the restored VM, and no other, completes the operation
Running ==
  /\ At("running") /\ ~locked
  /\ Pop
  /\ IF pending # None /\ op[pending].awaiting /\ op[pending].resume = Arg
     THEN Finish(pending, op[pending].captured, emu, op) ELSE Skip
  /\ UNCHANGED callers

\* completed() for a savestate that could not be prepared; it has nothing that says
\* which operation that was
SaveFailed ==
  /\ At("saveFailed") /\ ~locked
  /\ IF pending # None /\ op[pending].save
     THEN /\ queue' = <<Call("join", 0)>> \o Append(Tail(queue), Call("fail", pending))
          /\ op' = [op EXCEPT ![pending].written = FALSE]
          /\ misled' = (misled \/ pending # Arg)
     ELSE Become(Call("join", 0)) /\ UNCHANGED <<op, misled>>
  /\ UNCHANGED <<emu, handles, locked, booter, killer, others, spawn>>

\* The callback owns the prepare thread and joins it as it is destroyed
JoinPrepare ==
  /\ At("join") /\ emu.prep = "none"
  /\ Pop
  /\ UNCHANGED <<emu, handles, op, callers>>

\* The callback completed() or stopped() posts
Fail ==
  /\ At("fail") /\ ~locked
  /\ Pop
  /\ IF pending = Arg THEN Finish(Arg, FALSE, emu, op) ELSE Skip
  /\ UNCHANGED callers

\* Mutant: stopped() is not told
Final_Untold ==
  /\ At("final")
  /\ emu' = [emu EXCEPT !.ctr = @ + 1, !.closing = FALSE, !.state = "stopped", !.akc = None]
  /\ queue' = CASE emu.akc = None -> Tail(queue)
                [] emu.akc = Spawn -> <<Call("spawned", 0)>> \o Tail(queue)
                [] OTHER -> <<Call("after", emu.akc)>> \o Tail(queue)
  /\ UNCHANGED <<handles, op, callers>>

\* The last stage of Kill: the VM is stopped, stopped() is told, the callback runs
Final ==
  /\ At("final")
  /\ emu' = [emu EXCEPT !.ctr = @ + 1, !.closing = FALSE, !.state = "stopped", !.akc = None]
  /\ LET rest == IF stoppable # None /\ op[stoppable].awaiting
                 THEN Append(Tail(queue), Call("fail", stoppable)) ELSE Tail(queue) IN
       queue' = CASE emu.akc = None -> rest
                  [] emu.akc = Spawn -> <<Call("spawned", 0)>> \o rest
                  [] OTHER -> <<Call("after", emu.akc)>> \o rest
  /\ UNCHANGED <<handles, op, callers>>

-----------------------------------------------------------------------------
(* The VM and the guest *)

\* FinalizeRunRequest: the threads of the VM run; on_run_completed
Runs ==
  /\ emu.state = "starting"
  /\ emu' = [emu EXCEPT !.state = "running"]
  /\ Post(Call("running", emu.ctr))
  /\ UNCHANGED <<handles, op, callers>>

\* The guest ends, or a thread of a starting VM fails: a Kill tracked by m_stop_ctr
GuestExit ==
  /\ emu.state \in {"starting", "running"} /\ others < MaxOthers
  /\ others' = others + 1
  /\ Post(Call("exit", emu.ctr))
  /\ UNCHANGED <<emu, handles, op, locked, booter, killer, hist>>

ExitCallback ==
  /\ At("exit")
  /\ Pop
  /\ emu' = IF Arg = emu.ctr THEN Killed(emu) ELSE emu
  /\ UNCHANGED <<handles, op, callers>>

\* sys_game_process_exitspawn, whose callback is posted the same way
GuestSpawns ==
  /\ emu.state = "running" /\ others < MaxOthers
  /\ others' = others + 1
  /\ Post(Call("spawn", emu.ctr))
  /\ UNCHANGED <<emu, handles, op, locked, booter, killer, hist>>

\* It sets after_kill_callback whatever is there
SpawnCallback ==
  /\ At("spawn")
  /\ Pop
  /\ IF Arg = emu.ctr
     THEN /\ emu' = Killed([emu EXCEPT !.akc = Spawn, !.continuous = TRUE])
          /\ spawn' = IF emu.akc \in Ops \/ spawn = "displaced" THEN "displaced" ELSE "done"
     ELSE UNCHANGED <<emu, spawn>>
  /\ UNCHANGED <<handles, op, locked, booter, killer, others, misled>>

\* The after_kill_callback of exitspawn boots the next executable, which may fail
Spawned ==
  /\ At("spawned")
  /\ Pop
  /\ \/ emu.state = "stopped" /\ emu' = [emu EXCEPT !.state = "starting"]
     \/ UNCHANGED emu
  /\ UNCHANGED <<handles, op, callers>>

-----------------------------------------------------------------------------
(* emucorec_kill (and emucorec_shutdown) and emucorec_boot *)

\* defer_stop(): the operation stops the VM when it ends
Defer == stoppable # None /\ op' = [op EXCEPT ![stoppable].stop = TRUE]

KillCalled ==
  /\ killer = "idle"
  /\ \/ Defer /\ UNCHANGED killer
     \/ stoppable = None /\ killer' = "wait" /\ UNCHANGED op
  /\ UNCHANGED <<emu, queue, handles, locked, booter, others, hist>>

KillLocked ==
  /\ killer = "wait" /\ ~locked
  /\ killer' = "idle"
  /\ \/ Defer /\ UNCHANGED emu
     \/ stoppable = None /\ emu' = Killed(emu) /\ UNCHANGED op
  /\ UNCHANGED <<queue, handles, locked, booter, others, hist>>

\* A boot is refused while an operation is pending
BootCalled ==
  /\ booter = "idle" /\ others < MaxOthers
  /\ others' = others + 1
  /\ booter' = IF stoppable = None THEN "wait" ELSE "idle"
  /\ UNCHANGED <<emu, queue, handles, op, locked, killer, hist>>

\* BootGame on a stopped VM, which may fail
BootGame ==
  /\ booter' = "idle" /\ locked' = FALSE
  /\ \/ emu' = [emu EXCEPT !.state = "starting"]
     \/ UNCHANGED emu

BootLocked ==
  /\ booter = "wait" /\ ~locked
  /\ \/ stoppable # None /\ booter' = "idle" /\ UNCHANGED <<emu, locked>>
     \/ stoppable = None /\ emu.state = "stopped" /\ BootGame
     \/ /\ stoppable = None /\ emu.state # "stopped"
        /\ emu' = Killed(emu) /\ booter' = "stopping" /\ locked' = TRUE
  /\ UNCHANGED <<queue, handles, op, killer, others, hist>>

\* After at most ten seconds it boots, or reports still_running
BootWaited ==
  /\ booter = "stopping"
  /\ \/ emu.state = "stopped" /\ BootGame
     \/ emu.state # "stopped" /\ booter' = "idle" /\ locked' = FALSE /\ UNCHANGED emu
  /\ UNCHANGED <<queue, handles, op, killer, others, hist>>

-----------------------------------------------------------------------------

Dispatch ==
  \/ Start \/ After \/ Running \/ SaveFailed \/ JoinPrepare \/ Fail \/ Prepared \/ Final
  \/ ExitCallback \/ SpawnCallback \/ Spawned

Prepare == PrepareOk \/ PrepareFails \/ PrepareTells \/ PrepareGuard
Join == JoinSaves \/ JoinEnds

\* Everything but the requests
Core ==
  \/ Dispatch \/ Prepare \/ Join \/ Runs \/ GuestExit \/ GuestSpawns
  \/ KillCalled \/ KillLocked \/ BootCalled \/ BootLocked \/ BootWaited

Next == Core \/ \E save \in BOOLEAN : Request(save)

Spec == Init /\ [][Next]_vars

\* The threads of the emulator and the callers go on; a VM that starts runs in the
\* end, unless it stops.  Nobody has to ask for anything.
Fairness ==
  /\ WF_vars(Dispatch) /\ WF_vars(Prepare) /\ WF_vars(Join) /\ WF_vars(Runs)
  /\ WF_vars(KillLocked) /\ WF_vars(BootLocked \/ BootWaited)

FairSpec == Spec /\ Fairness

-----------------------------------------------------------------------------
(* Properties *)

\* An accepted request is pending and unreported, or has reported exactly once: the
\* failure of a savestate, the stop of a restored VM and its run callback compete for
\* finish(), and only the first may report to the app's NativeInstallOperation.
ReportedOnce ==
  \A n \in 1..used : op[n].reports = IF pending = n THEN 0 ELSE 1

\* after_kill_callback belongs to the pending operation: no later Kill restores the
\* state of an operation that is over.  Not so once an operation met the prepare thread
\* of an earlier one, whose guard and whose completed() look at no operation.
CallbackOwned == ~misled /\ emu.akc \in Ops => pending = emu.akc

\* Continuous mode ends with the operation; otherwise "the disc overlay then outlives
\* the game" (finish, save_states.cpp).  exitspawn leaves it on, so this is about
\* guests that do not replace themselves.
ContinuousEnds == spawn = "never" /\ pending = None => ~emu.continuous

\* A reported success is true.  A save that ends in a stop has captured its file;
\* otherwise the VM is the restored one, which has run and is not gone.
SuccessIsTrue ==
  [][\A n \in Ops : op'[n].ok /\ ~op[n].ok =>
       IF op[n].stop THEN op[n].save /\ op[n].written
       ELSE emu.ctr = op[n].resume /\ emu.state \in {"running", "stopping"}
            /\ (op[n].save => op[n].written)]_vars

Has(q, k) == \E i \in 1..Len(q) : q[i].kind = k
Single(q, k) == \A i, j \in 1..Len(q) : q[i].kind = k /\ q[j].kind = k => i = j

\* The first stage of a Kill with a savestate
Preparing == emu.prep = "working" \/ Has(queue, "prepared")

\* m_emu_state_close_pending is set exactly while a Kill is under way, and a Kill is in
\* one place at a time: its prepare thread, its second stage in the queue, its join
\* thread, or its last stage in the queue.  So none gets stuck with the flag set, which
\* would make every later Kill return at once, and none stops a VM twice.
KillOnce ==
  /\ emu.closing <=> Preparing \/ emu.state = "stopping"
  /\ Preparing => emu.state = "running"
  /\ Single(queue, "prepared") /\ ~(emu.prep = "working" /\ Has(queue, "prepared"))
  /\ emu.state = "stopping" <=> emu.join # "none" \/ Has(queue, "final")
  /\ Single(queue, "final") /\ ~(emu.join # "none" /\ Has(queue, "final"))

\* exitspawn displaced no callback, and none met a late prepare thread
Undisturbed == [](spawn # "displaced" /\ ~misled)

\* Every accepted operation ends, so save_states::busy() clears, unless exitspawn
\* takes its callback away.
OperationEnds == Undisturbed => (pending # None ~> pending = None)

StopDue == pending # None /\ op[pending].stop
StopDone == pending = None /\ emu.state = "stopped"

\* A stop deferred to an operation stops the VM once the operation is over.
StopHonoured == Undisturbed => (StopDue ~> StopDone)

\* The same whatever the guest does: "a concurrent exit either sets this flag in
\* time or falls through to normal shutdown" (finish, save_states.cpp).
ExitStops == StopDue ~> StopDone

-----------------------------------------------------------------------------
(* The inductive invariant behind ReportedOnce, CallbackOwned and ContinuousEnds *)

In(q, c) == \E i \in 1..Len(q) : q[i] = c
Posted(k, n) == In(queue, Call(k, n))

\* What names an operation names one that was accepted
KnownInv ==
  /\ pending <= used /\ stoppable = pending
  /\ emu.akc \in Ops => emu.akc <= used
  /\ emu.prep # "none" => emu.who \in 1..used
  /\ \A n \in Ops, k \in {"op", "after", "fail", "saveFailed"} : Posted(k, n) => n <= used
  /\ \A n \in Ops : n > used => op[n].reports = 0 /\ ~op[n].awaiting

\* An operation is posted once
Once(q) == \A i, j \in 1..Len(q) : q[i].kind = "op" /\ q[i] = q[j] => i = j
OnceInv == Once(queue)

\* It has nothing else under way before it starts, and its callback nothing behind it
OrderInv ==
  /\ \A n \in Ops : Posted("op", n) =>
       /\ emu.akc # n /\ ~op[n].awaiting /\ ~Posted("after", n) /\ ~Posted("saveFailed", n)
       /\ emu.prep # "none" => emu.who # n
  /\ \A n \in Ops : emu.akc = n => ~op[n].awaiting /\ ~Posted("after", n)

\* A failed save ends after the guard of its prepare thread: before that, the callback
\* that joins this thread stands in front of the queue
FailInv ==
  ~misled => \A n \in Ops :
    /\ Posted("op", n) => ~Posted("fail", n)
    /\ Posted("saveFailed", n) /\ emu.akc = n => emu.prep = "guard" /\ emu.who = n
    /\ Posted("fail", n) /\ emu.akc = n =>
         emu.prep = "guard" /\ emu.who = n /\ At("join")

IInv ==
  /\ TypeOK /\ KnownInv /\ OnceInv /\ OrderInv /\ FailInv
  /\ ReportedOnce /\ CallbackOwned /\ ContinuousEnds

-----------------------------------------------------------------------------
(* What SuccessIsTrue and KillOnce need besides *)

Behind(q, k, l) == \E i, j \in 1..Len(q) : i < j /\ q[i].kind = k /\ q[j].kind = l

\* The second stage of a Kill and the run callback are about the VM there is
ThisVm(q, ctr) == \A i \in 1..Len(q) : q[i].kind \in {"prepared", "running"} => q[i].arg = ctr

\* A run callback runs before the VM is gone: the last stage of a Kill stands behind it
RunInv ==
  /\ ThisVm(queue, emu.ctr) /\ ~Behind(queue, "final", "running")
  /\ Has(queue, "running") => emu.state \in {"running", "stopping"}

\* A Kill with a savestate is on the way to its capture
Saving == Preparing \/ emu.join = "saving"

\* It belongs to an operation that has started and does not wait for its VM.  One that
\* waits has captured its save, and no failed preparation can take that back any more
SavedInv ==
  /\ Saving /\ pending # None => ~Posted("op", pending) /\ ~op[pending].awaiting
  /\ Has(queue, "prepared") \/ emu.join = "saving" => emu.prep = "none"
  /\ emu.join = "saving" => ~Has(queue, "saveFailed")
  /\ ~Behind(queue, "prepared", "saveFailed")
  /\ \A n \in Ops : op[n].awaiting => pending = n /\ (op[n].save => op[n].written)
  /\ \A n \in Ops : op[n].written =>
       pending = n /\ emu.prep = "none" /\ ~Has(queue, "saveFailed") /\ ~Posted("op", n)

VmInv == KillOnce /\ RunInv /\ SavedInv
=============================================================================
