---------------------------- MODULE SaveStateApp ----------------------------
(***************************************************************************)
(* The app's side of the save-state operations, on top of SaveStates:      *)
(* the overlay's request with its time limit, SaveStateController.operate, *)
(* awaitNativeOperationCompletion and NativeProgressBus.                   *)
(*   call[k]  the k-th call of operate: its coroutine, `settled', whether  *)
(*            the continuation is active, and what operate answered        *)
(*   tracked  the progress ids the bus knows                               *)
(*   by[n]    the call whose progress id operation n carries               *)
(*   results  the reports on their way to the app (g_mainThreadProcessor)  *)
(*   event    the report that onEvent has at work on that thread; told     *)
(*            once the listener has returned and cancel(id) is due         *)
(*   current  the call that holds operationMutex, which is also busy       *)
(***************************************************************************)
EXTENDS SaveStates

VARIABLES call, tracked, by, results, event, current, calls

app == <<call, tracked, by, results, event, current, calls>>
avars == <<vars, app>>

NoEvent == [id |-> None, ok |-> FALSE, told |-> FALSE]

\* The app's state keeps its type; in particular operate answers with one of its own
\* results, never with what the bus reported.
AppTypeOK ==
  /\ TypeOK
  /\ call \in [Ops -> [phase : {"none", "waiting", "stopping", "over"},
                       settled : BOOLEAN, active : BOOLEAN,
                       result : {"none", "ok", "failed"},
                       answer : {"none", "Success", "Failed", "TimedOut"}]]
  /\ tracked \subseteq Ops
  /\ by \in [Ops -> 0..MaxOps]
  /\ results \in Seq(Ops \X BOOLEAN)
  /\ event \in [id : 0..MaxOps, ok : BOOLEAN, told : BOOLEAN]
  /\ current \in 0..MaxOps /\ calls \in 0..MaxOps

AppInit ==
  /\ Init
  /\ call = [k \in Ops |-> [phase |-> "none", settled |-> FALSE, active |-> TRUE,
                            result |-> "none", answer |-> "none"]]
  /\ tracked = {} /\ by = [n \in Ops |-> None] /\ results = <<>>
  /\ event = NoEvent /\ current = None /\ calls = 0

\* report_native_operation_result, posted when an operation finishes
Reports(n) == op'[n].reports > op[n].reports
Reported ==
  results' = IF \E n \in Ops : Reports(n)
             THEN LET n == CHOOSE n \in Ops : Reports(n) IN
                    Append(results, <<by[n], op'[n].ok>>)
             ELSE results

CoreStep == Core /\ Reported /\ UNCHANGED <<call, tracked, by, event, current, calls>>

\* operate takes operationMutex, the bus an id, and start(progressId) reaches the core
Operate ==
  /\ current = None /\ calls < MaxOps
  /\ calls' = calls + 1

\* The core accepts the request
Accepted ==
  /\ Operate
  /\ \E save \in BOOLEAN : Request(save)
  /\ by' = [by EXCEPT ![used'] = calls']
  /\ current' = calls'
  /\ call' = [call EXCEPT ![calls'].phase = "waiting"]
  /\ tracked' = tracked \cup {calls'}
  /\ UNCHANGED <<results, event>>

\* It refuses the request, or the slot to load is empty: the call fails at once
Refused ==
  /\ Operate
  /\ stoppable # None \/ (~locked /\ (emu.closing \/ emu.state # "running"))
  /\ call' = [call EXCEPT ![calls'].phase = "over", ![calls'].settled = TRUE,
                          ![calls'].answer = "Failed"]
  /\ UNCHANGED <<vars, tracked, by, results, event, current>>

\* onEvent looks its id up under the lock; one that is not tracked is ignored
OnEvent(k, ok) ==
  event' = IF k \in tracked THEN [id |-> k, ok |-> ok, told |-> FALSE] ELSE event

Deliver ==
  /\ results # <<>> /\ event = NoEvent
  /\ results' = Tail(results)
  /\ OnEvent(Head(results)[1], Head(results)[2])
  /\ UNCHANGED <<vars, call, tracked, by, current, calls>>

\* Mutants: the listener answers the call that waits now; a failure answers nobody
Invoke_Current ==
  /\ event.id # None /\ ~event.told
  /\ event' = [event EXCEPT !.told = TRUE]
  /\ call' = IF current = None THEN call
             ELSE [call EXCEPT ![current].settled = TRUE,
                               ![current].result = IF event.ok THEN "ok" ELSE "failed"]
  /\ UNCHANGED <<vars, tracked, by, results, current, calls>>

Invoke_Success ==
  /\ event.id # None /\ ~event.told
  /\ event' = [event EXCEPT !.told = TRUE]
  /\ call' = IF event.ok THEN [call EXCEPT ![event.id].settled = TRUE, ![event.id].result = "ok"]
             ELSE call
  /\ UNCHANGED <<vars, tracked, by, results, current, calls>>

\* The listener, outside the lock: it settles the call once and resumes it while active
Invoke ==
  /\ event.id # None /\ ~event.told
  /\ event' = [event EXCEPT !.told = TRUE]
  /\ call' = IF call[event.id].settled \/ ~call[event.id].active
             THEN [call EXCEPT ![event.id].settled = TRUE]
             ELSE [call EXCEPT ![event.id].settled = TRUE,
                               ![event.id].result = IF event.ok THEN "ok" ELSE "failed"]
  /\ UNCHANGED <<vars, tracked, by, results, current, calls>>

\* cancel(id) after a terminal event; the call may have returned, and a new one begun
Forget ==
  /\ event.told
  /\ tracked' = tracked \ {event.id}
  /\ event' = NoEvent
  /\ UNCHANGED <<vars, call, by, results, current, calls>>

\* Mutant: the result is answered as it is
Return_Raw ==
  /\ current # None /\ call[current].phase = "waiting"
  /\ call[current].active /\ call[current].result # "none"
  /\ call' = [call EXCEPT ![current].phase = "over", ![current].answer = call[current].result]
  /\ current' = None
  /\ UNCHANGED <<vars, tracked, by, results, event, calls>>

\* The coroutine goes on with the result, and operate releases the mutex
Return ==
  /\ current # None /\ call[current].phase = "waiting"
  /\ call[current].active /\ call[current].result # "none"
  /\ call' = [call EXCEPT ![current].phase = "over",
                ![current].answer = IF call[current].result = "ok" THEN "Success" ELSE "Failed"]
  /\ current' = None
  /\ UNCHANGED <<vars, tracked, by, results, event, calls>>

\* withTimeout: the wait is cancelled, also one that has its result and is not
\* dispatched yet; the mutex is released before the overlay asks for the stop
TimeOut ==
  /\ current # None /\ call[current].phase = "waiting"
  /\ call' = [call EXCEPT ![current].phase = "stopping", ![current].active = FALSE,
                          ![current].settled = TRUE, ![current].answer = "TimedOut"]
  /\ tracked' = IF call[current].settled THEN tracked ELSE tracked \ {current}
  /\ current' = None
  /\ UNCHANGED <<vars, by, results, event, calls>>

\* Ps3Runtime.requestStop
TimeOutStop(k) ==
  /\ call[k].phase = "stopping"
  /\ KillCalled
  /\ call' = [call EXCEPT ![k].phase = "over"]
  /\ UNCHANGED <<tracked, by, results, event, current, calls>>

GiveUp == \E k \in Ops : TimeOutStop(k)

BusStep == Deliver \/ Invoke \/ Forget

AppNext == CoreStep \/ Accepted \/ Refused \/ Return \/ BusStep \/ TimeOut \/ GiveUp

AppSpec ==
  /\ AppInit /\ [][AppNext]_avars
  /\ Fairness
  /\ WF_avars(Return) /\ WF_avars(BusStep) /\ WF_avars(GiveUp)

-----------------------------------------------------------------------------

\* What operate answers is what the core reported for this very call: a late report
\* of a call that timed out never answers a later one, and a call that failed did not
\* succeed behind the user's back.
AnswerIsTrue ==
  \A k \in Ops :
    /\ call[k].answer = "Success" => \E n \in 1..used : by[n] = k /\ op[n].ok /\ pending # n
    /\ call[k].answer = "Failed" => \A n \in 1..used : by[n] = k => ~op[n].ok /\ pending # n

\* "An id exists only between create() and the terminal event (or cancel())": the bus
\* knows the id of the call that holds operationMutex as long as nothing settled it, and
\* else none but the one that onEvent, its listener done, is about to cancel.
IdsAreLive ==
  /\ \A k \in tracked : \/ k = current /\ ~call[k].settled
                        \/ k = event.id /\ event.told
  /\ current # None /\ ~call[current].settled => current \in tracked

\* Every call of operate returns without the help of the time limit, so the overlay
\* does not stay busy: an accepted request is answered, a refused one is rejected.
CallsReturn == Undisturbed => (current # None ~> current = None)

-----------------------------------------------------------------------------
(* The inductive invariants behind AnswerIsTrue and IdsAreLive, on top of that of
   SaveStates *)

\* An operation of this call has reported this
Told(k, ok) == \E n \in 1..used : by[n] = k /\ op[n].ok = ok /\ pending # n

\* An operation carries the id of one call, and a call has at most one operation
ByInv ==
  /\ \A n \in 1..used : by[n] \in 1..calls
  /\ \A m, n \in 1..used : by[m] = by[n] => m = n

\* What is on its way, what has arrived and what was answered is what was reported
ToldInv ==
  /\ \A i \in 1..Len(results) : Told(results[i][1], results[i][2])
  /\ event.id # None => Told(event.id, event.ok)
  /\ \A k \in Ops :
       /\ call[k].result = "ok" => Told(k, TRUE)
       /\ call[k].result = "failed" => Told(k, FALSE)
       /\ call[k].answer = "Success" => Told(k, TRUE)
       /\ call[k].answer = "Failed" => k <= calls /\ (Told(k, FALSE) \/ \A n \in 1..used : by[n] # k)

\* A new call is not settled; a result settles its call, and so does the listener
SettledInv ==
  /\ current <= calls
  /\ event.told => event.id # None /\ call[event.id].settled
  /\ \A k \in Ops : /\ k > calls => ~call[k].settled
                    /\ call[k].result # "none" => call[k].settled

IdInv == IdsAreLive /\ SettledInv

AppInv == AppTypeOK /\ ByInv /\ ToldInv
=============================================================================
