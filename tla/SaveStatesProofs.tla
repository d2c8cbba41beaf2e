------------------------- MODULE SaveStatesProofs -------------------------
(***************************************************************************)
(* What holds of the save-state operations for any number of requests,     *)
(* boots, exits and exitspawns: first the operation and its one report,    *)
(* then the Kills of the VM and what a success says, then the app's calls. *)
(***************************************************************************)
EXTENDS SaveStateApp, TLAPS

(* The queue of the dispatcher *)

\* Taking a callback leaves no second copy of a posted operation.
LEMMA TailFacts ==
  ASSUME NEW q \in Seq(Callbacks), q # <<>>
  PROVE  /\ Tail(q) \in Seq(Callbacks) /\ Head(q) \in Callbacks
         /\ In(q, Head(q))
         /\ \A c : In(Tail(q), c) => In(q, c)
         /\ Once(q) => Once(Tail(q)) /\ (Head(q).kind = "op" => ~In(Tail(q), Head(q)))
<1>1. /\ Tail(q) \in Seq(Callbacks) /\ Head(q) \in Callbacks /\ Len(q) \in Nat /\ Len(q) > 0
      /\ Len(Tail(q)) = Len(q) - 1 /\ Head(q) = q[1]
      /\ \A i \in 1..Len(Tail(q)) : Tail(q)[i] = q[i + 1] /\ i + 1 \in 1..Len(q)
  OBVIOUS
<1>2. In(q, Head(q))
  BY <1>1 DEF In
<1>3. \A c : In(Tail(q), c) => In(q, c)
  BY <1>1 DEF In
<1>4. ASSUME Once(q) PROVE Once(Tail(q))
  BY <1>1, <1>4 DEF Once
<1>5. ASSUME Once(q), Head(q).kind = "op", In(Tail(q), Head(q)) PROVE FALSE
  <2>1. PICK i \in 1..Len(Tail(q)) : Tail(q)[i] = Head(q)
    BY <1>5 DEF In
  <2>2. i + 1 \in 1..Len(q) /\ q[i + 1] = q[1] /\ 1 \in 1..Len(q)
    BY <1>1, <2>1
  <2>3. i + 1 = 1
    BY <1>1, <1>5, <2>2 DEF Once
  <2> QED  BY <2>3
<1> QED  BY <1>1, <1>2, <1>3, <1>4, <1>5

\* Posting a callback adds this one, behind the others.
LEMMA AppendFacts ==
  ASSUME NEW q \in Seq(Callbacks), NEW c \in Callbacks
  PROVE  /\ Append(q, c) \in Seq(Callbacks)
         /\ \A d : In(Append(q, c), d) => In(q, d) \/ d = c
         /\ q # <<>> => Append(q, c) # <<>> /\ Head(Append(q, c)) = Head(q)
         /\ Once(q) /\ (c.kind = "op" => ~In(q, c)) => Once(Append(q, c))
<1>1. /\ Append(q, c) \in Seq(Callbacks) /\ Len(q) \in Nat
      /\ Len(Append(q, c)) = Len(q) + 1 /\ Append(q, c)[Len(q) + 1] = c
      /\ \A i \in 1..Len(q) : Append(q, c)[i] = q[i]
  OBVIOUS
<1>2. \A d : In(Append(q, c), d) => In(q, d) \/ d = c
  BY <1>1 DEF In
<1>3. q # <<>> => Append(q, c) # <<>> /\ Head(Append(q, c)) = Head(q)
  OBVIOUS
<1>4. ASSUME Once(q), c.kind = "op" => ~In(q, c) PROVE Once(Append(q, c))
  BY <1>1, <1>4 DEF Once, In
<1> QED  BY <1>1, <1>2, <1>3, <1>4

\* A callback that runs at once is in front of the others.
LEMMA ConsFacts ==
  ASSUME NEW q \in Seq(Callbacks), NEW c \in Callbacks, c.kind # "op"
  PROVE  /\ <<c>> \o q \in Seq(Callbacks)
         /\ \A d : In(<<c>> \o q, d) => In(q, d) \/ d = c
         /\ <<c>> \o q # <<>> /\ Head(<<c>> \o q) = c
         /\ Once(q) => Once(<<c>> \o q)
<1> DEFINE r == <<c>> \o q
<1>1. /\ r \in Seq(Callbacks) /\ Len(q) \in Nat /\ Len(r) = Len(q) + 1 /\ r[1] = c
      /\ \A i \in 2..Len(r) : r[i] = q[i - 1] /\ i - 1 \in 1..Len(q)
  OBVIOUS
<1>2. r # <<>> /\ Head(r) = c
  BY <1>1
<1> HIDE DEF r
<1>3. \A d : In(r, d) => In(q, d) \/ d = c
  BY <1>1 DEF In
<1>4. ASSUME Once(q) PROVE Once(r)
  <2> SUFFICES ASSUME NEW i \in 1..Len(r), NEW j \in 1..Len(r), r[i].kind = "op", r[i] = r[j]
               PROVE  i = j
    BY DEF Once
  <2>1. i \in 2..Len(r) /\ j \in 2..Len(r)
    BY <1>1
  <2>2. q[i - 1] = q[j - 1] /\ q[i - 1].kind = "op" /\ i - 1 \in 1..Len(q) /\ j - 1 \in 1..Len(q)
    BY <1>1, <2>1
  <2>3. i - 1 = j - 1
    BY <1>4, <2>2 DEF Once
  <2> QED  BY <2>1, <2>3
<1> QED  BY <1>1, <1>2, <1>3, <1>4 DEF r

-----------------------------------------------------------------------------
(* What the helpers of the actions change *)

\* The values of after_kill_callback.
LEMMA Pointers ==
  /\ None \in 0..Spawn /\ Spawn \in 0..Spawn /\ None \notin Ops /\ Spawn \notin Ops
  /\ None \in 0..MaxOps /\ \A n \in Ops : n \in 0..Spawn /\ n \in 0..MaxOps
  /\ \A a \in 0..Spawn : a \in Ops \/ a = None \/ a = Spawn
BY BoundsAssumption DEF None, Spawn, Ops

\* Kill keeps continuous mode and the prepare thread, and at most drops the callback.
LEMMA KilledFacts ==
  ASSUME NEW e \in Emus
  PROVE  /\ Killed(e) \in Emus
         /\ Killed(e).prep = e.prep /\ Killed(e).who = e.who
         /\ Killed(e).continuous = e.continuous
         /\ Killed(e).akc \in {e.akc, None}
<1>1. CASE e.closing
  BY <1>1 DEF Killed
<1>2. CASE ~e.closing /\ e.state = "stopped"
  BY <1>2, Pointers DEF Killed, Emus
<1>3. CASE ~e.closing /\ e.state # "stopped"
  BY <1>3, Zenon DEF Killed, Emus
<1> QED  BY <1>1, <1>2, <1>3, Zenon

\* So does Kill with a savestate, which may start a prepare thread for the callback.
LEMMA KilledForSaveFacts ==
  ASSUME NEW e \in Emus, e.akc \in Ops
  PROVE  /\ KilledForSave(e) \in Emus
         /\ \/ KilledForSave(e).prep = e.prep /\ KilledForSave(e).who = e.who
            \/ KilledForSave(e).prep = "working" /\ KilledForSave(e).who = e.akc
         /\ KilledForSave(e).continuous = e.continuous
         /\ KilledForSave(e).akc \in {e.akc, None}
<1>1. CASE e.state \in {"stopped", "stopping"}
  BY <1>1, KilledFacts, Zenon DEF KilledForSave
<1>2. CASE e.state \notin {"stopped", "stopping"} /\ (e.state = "starting" \/ e.closing)
  BY <1>2, Zenon DEF KilledForSave
<1>3. CASE e.state \notin {"stopped", "stopping"} /\ ~(e.state = "starting" \/ e.closing)
  <2>1. KilledForSave(e) = [e EXCEPT !.closing = TRUE, !.prep = "working", !.who = e.akc]
    BY <1>3, Zenon DEF KilledForSave
  <2> DEFINE f == [e EXCEPT !.closing = TRUE, !.prep = "working"]
  <2>2. /\ f \in Emus /\ f.prep = "working" /\ f.continuous = e.continuous
        /\ f.akc = e.akc
    BY Zenon DEF Emus
  <2>3. KilledForSave(e) = [f EXCEPT !.who = e.akc]
    BY <2>1
  <2> HIDE DEF f
  <2> QED  BY <2>2, <2>3, Pointers DEF Emus
<1> QED  BY <1>1, <1>2, <1>3, Zenon

\* finish() reports once for this operation and for no other.
LEMMA FinishFacts ==
  ASSUME TypeOK, NEW n \in Ops, NEW success \in BOOLEAN, NEW ops \in [Ops -> Operations],
         Finish(n, success, emu, ops)
  PROVE  /\ pending' = None /\ stoppable' = None /\ used' = used
         /\ op' \in [Ops -> Operations]
         /\ op'[n].reports = ops[n].reports + 1 /\ ~op'[n].awaiting
         /\ \A k \in Ops : k # n => op'[k] = ops[k]
         /\ emu' \in Emus /\ ~emu'.continuous
         /\ emu'.prep = emu.prep /\ emu'.who = emu.who
         /\ emu'.akc \in {emu.akc, None}
<1> DEFINE ok == success /\ (ops[n].stop => ops[n].save)
<1>0. ok \in BOOLEAN /\ NewOp \in Operations /\ ~NewOp.awaiting
  BY DEF NewOp, Operations
<1>1. /\ pending' = None /\ stoppable' = None /\ used' = used
      /\ op' = [ops EXCEPT ![n] = [NewOp EXCEPT !.reports = ops[n].reports + 1, !.ok = ok]]
  BY Zenon DEF Finish, Over
<1> HIDE DEF ok
<1> DEFINE o == [NewOp EXCEPT !.reports = ops[n].reports + 1, !.ok = ok]
<1>2. o \in Operations /\ o.reports = ops[n].reports + 1 /\ ~o.awaiting
  <2> DEFINE p == [NewOp EXCEPT !.reports = ops[n].reports + 1]
  <2>1. p \in Operations /\ p.reports = ops[n].reports + 1 /\ ~p.awaiting
    BY <1>0 DEF Operations
  <2>2. o = [p EXCEPT !.ok = ok]
    OBVIOUS
  <2> HIDE DEF p, o
  <2> QED  BY <1>0, <2>1, <2>2 DEF Operations
<1>3. op' = [ops EXCEPT ![n] = o]
  BY <1>1
<1> HIDE DEF o
<1>4. /\ op' \in [Ops -> Operations]
      /\ op'[n].reports = ops[n].reports + 1 /\ ~op'[n].awaiting
      /\ \A k \in Ops : k # n => op'[k] = ops[k]
  BY <1>2, <1>3
<1>5. /\ emu' \in Emus /\ ~emu'.continuous
      /\ emu'.prep = emu.prep /\ emu'.who = emu.who
      /\ emu'.akc \in {emu.akc, None}
  <2> DEFINE e == [emu EXCEPT !.continuous = FALSE, !.akc = None]
  <2>1. /\ e \in Emus /\ ~e.continuous /\ e.prep = emu.prep /\ e.who = emu.who
        /\ e.akc = None
    <3> DEFINE f == [emu EXCEPT !.continuous = FALSE]
    <3>1. f \in Emus /\ ~f.continuous /\ f.prep = emu.prep /\ f.who = emu.who
      BY Zenon DEF TypeOK, Emus
    <3>2. e = [f EXCEPT !.akc = None]
      OBVIOUS
    <3> HIDE DEF e, f
    <3> QED  BY <3>1, <3>2, Pointers DEF Emus
  <2>2. emu' = Killed(e) \/ emu' = [emu EXCEPT !.continuous = FALSE]
    BY Zenon DEF Finish
  <2> HIDE DEF e
  <2>3. CASE emu' = Killed(e)
    BY <2>1, <2>3, KilledFacts
  <2>4. CASE emu' = [emu EXCEPT !.continuous = FALSE]
    BY <2>4, Zenon DEF TypeOK, Emus
  <2> QED  BY <2>2, <2>3, <2>4, Zenon
<1> QED  BY <1>1, <1>4, <1>5, Zenon

\* The callbacks that are posted, and what they are about.
LEMMA CallFacts ==
  /\ \A n \in Ops, k \in {"op", "after", "fail", "saveFailed"} : Call(k, n) \in Callbacks
  /\ \A a \in Nat, k \in {"prepared", "final", "running", "exit", "spawn"} :
       Call(k, a) \in Callbacks
  /\ Call("join", 0) \in Callbacks /\ Call("spawned", 0) \in Callbacks
  /\ \A k, a : Call(k, a).kind = k /\ Call(k, a).arg = a
  /\ \A c \in Callbacks :
       /\ c = Call(c.kind, c.arg)
       /\ c.kind \in {"op", "after", "fail", "saveFailed"} => c.arg \in Ops
BY DEF Call, Callbacks

\* Callbacks of different kinds, or about different things, are different.
LEMMA CallInjective ==
  ASSUME NEW k, NEW a, NEW l, NEW b, Call(k, a) = Call(l, b)
  PROVE  k = l /\ a = b
<1>1. /\ Call(k, a).kind = k /\ Call(k, a).arg = a
      /\ Call(l, b).kind = l /\ Call(l, b).arg = b
  BY CallFacts
<1> QED  BY <1>1

\* The initial state satisfies the invariant.
LEMMA InitInv == Init => IInv
<1> SUFFICES ASSUME Init PROVE IInv
  OBVIOUS
<1>1. TypeOK
  <2>1. emu \in Emus
    BY Pointers DEF Init, Emus
  <2>2. NewOp \in Operations
    BY DEF NewOp, Operations
  <2>3. queue \in Seq(Callbacks)
    BY DEF Init
  <2>4. used \in 0..MaxOps /\ others \in 0..MaxOthers
    BY BoundsAssumption DEF Init
  <2> QED  BY <2>1, <2>2, <2>3, <2>4, Pointers, Zenon DEF Init, TypeOK
<1>2. \A k, n : ~Posted(k, n)
  BY DEF Init, Posted, In
<1>3. Once(queue)
  BY DEF Init, Once
<1>4. \A n \in Ops : op[n].reports = 0 /\ ~op[n].awaiting
  BY DEF Init, NewOp
<1> QED
  BY <1>1, <1>2, <1>3, <1>4, Pointers
     DEF Init, IInv, KnownInv, OnceInv, OrderInv, FailInv, ReportedOnce, CallbackOwned,
         ContinuousEnds, None

-----------------------------------------------------------------------------
\* Steps that touch no operation: they post no callback of one, and the VM keeps its
\* callback or loses it.
QuietEmu ==
  /\ emu' \in Emus /\ emu'.akc \in {emu.akc, None} /\ emu'.continuous = emu.continuous
  /\ \/ emu'.prep = emu.prep /\ emu'.who = emu.who
     \/ emu.prep = "working" /\ emu'.prep = "none"
     \/ emu.prep = "working" /\ emu'.prep = "failed" /\ emu'.who = emu.who

QuietOps ==
  /\ op' \in [Ops -> Operations]
  /\ \A n \in Ops : op'[n].reports = op[n].reports /\ op'[n].awaiting = op[n].awaiting

QuietQueue ==
  /\ queue' \in Seq(Callbacks) /\ OnceInv'
  /\ \A n \in Ops, k \in {"op", "after", "fail", "saveFailed"} : Posted(k, n)' => Posted(k, n)
  /\ emu.prep # "none" /\ At("join") => At("join")'

CallersOK ==
  /\ locked' \in BOOLEAN /\ booter' \in {"idle", "wait", "stopping"}
  /\ killer' \in {"idle", "wait"} /\ others' \in 0..MaxOthers

\* A step that is none of an operation's keeps the invariant.
LEMMA QuietStep ==
  ASSUME IInv, UNCHANGED <<handles, spawn>>, misled' \in BOOLEAN, misled => misled',
         QuietEmu, QuietOps, QuietQueue, CallersOK
  PROVE  IInv'
<1> USE DEF QuietEmu, QuietOps, QuietQueue
<1>t. TypeOK'
  BY DEF IInv, TypeOK, CallersOK, handles
<1>0. UNCHANGED <<pending, stoppable, used, spawn>>
  BY DEF handles
<1>1. KnownInv'
  BY <1>0, Pointers DEF IInv, KnownInv
<1>2. OrderInv'
  BY <1>0, Pointers DEF IInv, OrderInv
<1>3. FailInv'
  BY <1>0, Pointers DEF IInv, FailInv
<1>4. ReportedOnce' /\ CallbackOwned' /\ ContinuousEnds'
  <2>1. \A n \in 1..used : n \in Ops
    BY BoundsAssumption DEF IInv, TypeOK, Ops
  <2> QED  BY <1>0, <2>1, Pointers DEF IInv, ReportedOnce, CallbackOwned, ContinuousEnds
<1> QED  BY <1>t, <1>1, <1>2, <1>3, <1>4 DEF IInv

\* The callback in front finishes the pending operation, which no longer waits for the
\* end of a Kill.
LEMMA FinishedStep ==
  ASSUME IInv, CallersOK, NEW n \in Ops, pending = n, NEW success \in BOOLEAN,
         NEW ops \in [Ops -> Operations], Finish(n, success, emu, ops),
         ops[n].reports = op[n].reports, \A k \in Ops : k # n => ops[k] = op[k],
         queue # <<>>, queue' = Tail(queue), ~At("join"), spawn' = spawn,
         misled' \in BOOLEAN, ~misled' => ~misled /\ emu.akc # n
  PROVE  IInv'
<1>0. TypeOK /\ KnownInv /\ OnceInv /\ OrderInv /\ FailInv /\ ReportedOnce
      /\ CallbackOwned /\ ContinuousEnds
  BY Zenon DEF IInv
<1>1. /\ pending' = None /\ stoppable' = None /\ used' = used
      /\ op'[n].reports = op[n].reports + 1 /\ ~op'[n].awaiting
      /\ \A k \in Ops : k # n => op'[k] = op[k]
      /\ ~emu'.continuous /\ emu'.prep = emu.prep /\ emu'.who = emu.who
      /\ emu'.akc \in {emu.akc, None}
  BY <1>0, FinishFacts
<1>2. OnceInv' /\ \A k, m : Posted(k, m)' => Posted(k, m)
  BY <1>0, TailFacts DEF TypeOK, OnceInv, Posted
<1>t. TypeOK'
  <2>1. queue' \in Seq(Callbacks) /\ op' \in [Ops -> Operations] /\ emu' \in Emus
    BY <1>0, TailFacts, FinishFacts DEF TypeOK
  <2> QED  BY <1>0, <1>1, <2>1, Pointers DEF TypeOK, CallersOK
<1>3. n <= used /\ used \in Nat /\ \A k \in 1..used : k \in Ops
  BY <1>0, BoundsAssumption DEF KnownInv, TypeOK, Ops
<1>4. KnownInv'
  BY <1>0, <1>1, <1>2, <1>3, Pointers, SMTT(60) DEF KnownInv, None, Ops
<1>5. OrderInv'
  BY <1>0, <1>1, <1>2, Pointers, SMTT(30) DEF OrderInv
<1>6. ~misled' => emu'.akc \notin Ops
  BY <1>0, <1>1, Pointers DEF CallbackOwned
<1>7. FailInv'
  BY <1>0, <1>2, <1>6 DEF FailInv
<1>8. ReportedOnce'
  BY <1>0, <1>1, <1>3, Pointers DEF ReportedOnce, None
<1>9. CallbackOwned' /\ ContinuousEnds'
  BY <1>1, <1>6 DEF CallbackOwned, ContinuousEnds
<1> QED  BY <1>t, <1>2, <1>4, <1>5, <1>7, <1>8, <1>9, Zenon DEF IInv

\* A callback is taken from the queue.
LEMMA PopFacts ==
  ASSUME IInv, queue # <<>>, Pop
  PROVE  /\ queue' \in Seq(Callbacks) /\ OnceInv' /\ \A k, n : Posted(k, n)' => Posted(k, n)
         /\ Head(queue) \in Callbacks /\ Head(queue) = Call(Head(queue).kind, Arg)
         /\ Posted(Head(queue).kind, Arg)
         /\ Head(queue).kind \in {"op", "after", "fail", "saveFailed"} => Arg \in Ops
         /\ \A n : Head(queue) = Call("op", n) => ~Posted("op", n)'
<1>1. queue \in Seq(Callbacks) /\ Once(queue) /\ queue' = Tail(queue)
  BY DEF IInv, TypeOK, OnceInv, Pop
<1>2. Head(queue) \in Callbacks /\ Head(queue) = Call(Head(queue).kind, Arg)
      /\ (Head(queue).kind \in {"op", "after", "fail", "saveFailed"} => Arg \in Ops)
  BY <1>1, TailFacts, CallFacts DEF Arg
<1>3. Posted(Head(queue).kind, Arg)
  BY <1>1, <1>2, TailFacts DEF Posted
<1>4. \A n : Head(queue) = Call("op", n) => ~Posted("op", n)'
  BY <1>1, TailFacts, CallFacts DEF Posted
<1>5. queue' \in Seq(Callbacks) /\ OnceInv' /\ \A k, n : Posted(k, n)' => Posted(k, n)
  BY <1>1, TailFacts DEF Posted, OnceInv
<1> QED  BY <1>2, <1>3, <1>4, <1>5, Zenon

\* A callback that belongs to no operation is posted, taken, or none of both.
LEMMA QueueIsQuiet ==
  ASSUME IInv,
         \/ \E c \in Callbacks : c.kind \notin {"op", "after", "fail", "saveFailed"} /\ Post(c)
         \/ queue # <<>> /\ Pop /\ (At("join") => emu.prep = "none")
         \/ queue' = queue
  PROVE  QuietQueue
<1>0. queue \in Seq(Callbacks) /\ Once(queue)
  BY DEF IInv, TypeOK, OnceInv
<1>1. ASSUME NEW c \in Callbacks, c.kind \notin {"op", "after", "fail", "saveFailed"}, Post(c)
      PROVE  QuietQueue
  <2>1. queue' = Append(queue, c)
    BY <1>1 DEF Post
  <2>2. /\ queue' \in Seq(Callbacks) /\ Once(queue')
        /\ \A d : In(queue', d) => In(queue, d) \/ d = c
        /\ queue # <<>> => queue' # <<>> /\ Head(queue') = Head(queue)
    BY <1>0, <1>1, <2>1, AppendFacts
  <2>3. At("join") => At("join")'
    BY <2>2 DEF At
  <2>4. \A n \in Ops, k \in {"op", "after", "fail", "saveFailed"} :
          Posted(k, n)' => Posted(k, n)
    BY <1>1, <2>2, CallFacts DEF Posted
  <2> QED  BY <2>2, <2>3, <2>4 DEF QuietQueue, OnceInv
<1>2. CASE queue # <<>> /\ Pop /\ (At("join") => emu.prep = "none")
  BY <1>2, PopFacts DEF QuietQueue
<1>3. CASE queue' = queue
  BY <1>0, <1>3 DEF QuietQueue, Posted, OnceInv, At
<1> QED  BY <1>1, <1>2, <1>3

\* The steps of the VM, the guest and the callers.
LEMMA QuietActions ==
  ASSUME IInv,
         \/ PrepareOk \/ PrepareFails \/ Prepared \/ JoinSaves \/ JoinEnds \/ JoinPrepare
         \/ Runs \/ GuestExit \/ ExitCallback \/ GuestSpawns \/ Spawned
         \/ KillCalled \/ KillLocked \/ BootCalled \/ BootLocked \/ BootWaited
  PROVE  IInv'
<1>0. /\ TypeOK /\ emu \in Emus /\ op \in [Ops -> Operations] /\ emu.ctr \in Nat
      /\ pending \in 0..MaxOps /\ stoppable \in 0..MaxOps /\ others \in 0..MaxOthers
      /\ \A n \in 0..MaxOps : n # None => n \in Ops
  BY BoundsAssumption DEF IInv, TypeOK, Emus, None, Ops
<1>1. UNCHANGED <<handles, hist>>
  BY DEF PrepareOk, PrepareFails, Prepared, JoinSaves, JoinEnds, JoinPrepare, Runs, GuestExit,
         ExitCallback, GuestSpawns, Spawned, KillCalled, KillLocked, BootCalled, BootLocked,
         BootWaited, callers, hist
<1>2. CallersOK
  <2>1. others' \in 0..MaxOthers
    BY <1>0, BoundsAssumption
       DEF PrepareOk, PrepareFails, Prepared, JoinSaves, JoinEnds, JoinPrepare, Runs, GuestExit,
           ExitCallback, GuestSpawns, Spawned, KillCalled, KillLocked, BootCalled, BootLocked,
           BootWaited, callers
  <2> QED  BY <1>0, <2>1, Zenon
     DEF TypeOK, CallersOK, PrepareOk, PrepareFails, Prepared, JoinSaves, JoinEnds, JoinPrepare,
         Runs, GuestExit, ExitCallback, GuestSpawns, Spawned, KillCalled, KillLocked, BootCalled,
         BootLocked, BootWaited, BootGame, callers
<1>3. QuietOps
  <2>1. ASSUME NEW n \in Ops, NEW b \in BOOLEAN,
               op' \in {op, [op EXCEPT ![n].written = b], [op EXCEPT ![n].stop = b]}
        PROVE  QuietOps
    BY <1>0, <2>1 DEF QuietOps, Operations
  <2>2. ASSUME op' = op PROVE QuietOps
    BY <1>0, <2>2, Zenon DEF QuietOps
  <2>3. CASE JoinSaves
    BY <1>0, <2>1, <2>2, <2>3, Zenon DEF JoinSaves
  <2>4. CASE KillCalled \/ KillLocked
    BY <1>0, <2>1, <2>2, <2>4, Zenon DEF KillCalled, KillLocked, Defer
  <2> QED
    BY <2>2, <2>3, <2>4
       DEF PrepareOk, PrepareFails, Prepared, JoinEnds, JoinPrepare, Runs, GuestExit,
           ExitCallback, GuestSpawns, Spawned, BootCalled, BootLocked, BootWaited
<1>4. QuietEmu
  <2>1. ASSUME emu' = emu PROVE QuietEmu
    BY <1>0, <2>1, Zenon DEF QuietEmu
  <2>2. ASSUME emu' = Killed(emu) PROVE QuietEmu
    BY <1>0, <2>2, KilledFacts DEF QuietEmu
  <2>3. ASSUME NEW s \in {"starting", "running", "stopping"}, emu' = [emu EXCEPT !.state = s]
        PROVE  QuietEmu
    BY <1>0, <2>3 DEF QuietEmu, Emus
  <2>4. CASE PrepareOk
    BY <1>0, <2>4, Pointers, Zenon DEF PrepareOk, QuietEmu, Emus
  <2>5. CASE PrepareFails
    BY <1>0, <2>5, Zenon DEF PrepareFails, QuietEmu, Emus
  <2>6. CASE Prepared
    <3>1. CASE emu' = [emu EXCEPT !.state = "stopping", !.join = "saving"]
      BY <1>0, <3>1, Zenon DEF QuietEmu, Emus
    <3> QED  BY <2>1, <2>6, <3>1, Zenon DEF Prepared
  <2>7. CASE JoinSaves \/ JoinEnds
    BY <1>0, <2>7 DEF JoinSaves, JoinEnds, QuietEmu, Emus
  <2> QED
    BY <2>1, <2>2, <2>3, <2>4, <2>5, <2>6, <2>7
       DEF JoinPrepare, Runs, GuestExit, ExitCallback, GuestSpawns, Spawned, KillCalled,
           KillLocked, BootCalled, BootLocked, BootWaited, BootGame
<1>5. QuietQueue
  <2>1. CASE PrepareOk \/ JoinEnds \/ Runs \/ GuestExit \/ GuestSpawns
    <3>1. \E k \in {"prepared", "final", "running", "exit", "spawn"} : Post(Call(k, emu.ctr))
      BY <2>1 DEF PrepareOk, JoinEnds, Runs, GuestExit, GuestSpawns
    <3> QED  BY <1>0, <3>1, CallFacts, QueueIsQuiet
  <2>2. CASE Prepared \/ JoinPrepare \/ ExitCallback \/ Spawned
    BY <2>2, QueueIsQuiet DEF Prepared, JoinPrepare, ExitCallback, Spawned, At
  <2>3. CASE PrepareFails \/ JoinSaves \/ KillCalled \/ KillLocked \/ BootCalled \/ BootLocked
             \/ BootWaited
    BY <2>3, QueueIsQuiet
       DEF PrepareFails, JoinSaves, KillCalled, KillLocked, BootCalled, BootLocked, BootWaited
  <2> QED  BY <2>1, <2>2, <2>3
<1> QED  BY <1>0, <1>1, <1>2, <1>3, <1>4, <1>5, QuietStep DEF TypeOK, hist

-----------------------------------------------------------------------------
(* The steps of an operation *)

\* The parts of the invariant.
LEMMA Parts ==
  ASSUME IInv
  PROVE  /\ TypeOK /\ KnownInv /\ OnceInv /\ OrderInv /\ FailInv
         /\ ReportedOnce /\ CallbackOwned /\ ContinuousEnds
         /\ emu \in Emus /\ op \in [Ops -> Operations] /\ queue \in Seq(Callbacks)
         /\ misled \in BOOLEAN /\ used \in Nat /\ used <= MaxOps /\ stoppable = pending
         /\ \A n \in 1..used : n \in Ops
         /\ \A n \in 0..MaxOps : n # None => n \in Ops
BY BoundsAssumption DEF IInv, TypeOK, KnownInv, Ops, None

\* A request is new to everything that names operations.
LEMMA RequestStep ==
  ASSUME IInv, NEW save \in BOOLEAN, Request(save)
  PROVE  IInv'
<1> DEFINE n == used + 1
<1>1. /\ n \in Ops /\ used' = n /\ pending' = n /\ stoppable' = n /\ n > used
      /\ pending = None /\ op' = [op EXCEPT ![n].save = save]
      /\ queue' = Append(queue, Call("op", n))
      /\ UNCHANGED <<emu, callers>>
  BY Parts, BoundsAssumption DEF Request, Post, Ops
<1>u. UNCHANGED <<locked, booter, killer, others, spawn, misled>>
  BY <1>1 DEF callers, hist
<1>n. n = used + 1 /\ n \in Nat
  BY Parts
<1> HIDE DEF n
<1>2. /\ op' \in [Ops -> Operations]
      /\ \A k \in Ops : op'[k].reports = op[k].reports /\ op'[k].awaiting = op[k].awaiting
  BY <1>1, Parts, ZenonT(60) DEF Operations
<1>3. ~Posted("op", n) /\ ~Posted("after", n) /\ ~Posted("fail", n) /\ ~Posted("saveFailed", n)
  BY <1>1, <1>n, Parts DEF KnownInv
<1>4. /\ queue' \in Seq(Callbacks) /\ OnceInv'
      /\ \A d : In(queue', d) => In(queue, d) \/ d = Call("op", n)
      /\ queue # <<>> => queue' # <<>> /\ Head(queue') = Head(queue)
  BY <1>1, <1>3, Parts, CallFacts, AppendFacts DEF OnceInv, Posted
<1>5. /\ \A k \in Ops, d \in {"after", "fail", "saveFailed"} : Posted(d, k)' => Posted(d, k)
      /\ \A k \in Ops : Posted("op", k)' => Posted("op", k) \/ k = n
      /\ At("join") => At("join")'
  BY <1>4, CallFacts DEF Posted, At
<1>6. TypeOK'
  BY <1>1, <1>u, <1>2, <1>4, Parts, Pointers, BoundsAssumption DEF TypeOK, Ops
<1>7. KnownInv'
  BY <1>1, <1>n, <1>2, <1>5, Parts DEF KnownInv, Ops
<1>8. OrderInv'
  BY <1>1, <1>n, <1>2, <1>3, <1>5, Parts DEF OrderInv, KnownInv
<1>9. FailInv'
  BY <1>1, <1>u, <1>3, <1>5, Parts DEF FailInv
<1>10. ReportedOnce'
  BY <1>1, <1>n, <1>2, Parts DEF ReportedOnce, KnownInv, None, Ops
<1>11. CallbackOwned' /\ ContinuousEnds'
  BY <1>1, <1>u, Parts, Pointers DEF CallbackOwned, ContinuousEnds
<1> QED  BY <1>4, <1>6, <1>7, <1>8, <1>9, <1>10, <1>11 DEF IInv

\* The prepare thread of a save tells completed() that it failed.
LEMMA PrepareTellsStep ==
  ASSUME IInv, PrepareTells
  PROVE  IInv'
<1>0. PICK n \in Ops : n = emu.who /\ n <= used
  BY Parts DEF PrepareTells, KnownInv
<1>1. /\ emu' \in Emus /\ emu'.akc = emu.akc /\ emu'.continuous = emu.continuous
      /\ emu'.prep = "guard" /\ emu'.who = n /\ emu.prep = "failed"
  BY <1>0, Parts DEF PrepareTells, Emus
<1>2. /\ queue' \in Seq(Callbacks) /\ OnceInv'
      /\ \A d : In(queue', d) => In(queue, d) \/ d = Call("saveFailed", n)
  BY <1>0, Parts, CallFacts, AppendFacts DEF PrepareTells, Post, OnceInv
<1>3. /\ \A k \in Ops, d \in {"op", "after", "fail"} : Posted(d, k)' => Posted(d, k)
      /\ \A k \in Ops : Posted("saveFailed", k)' => Posted("saveFailed", k) \/ k = n
  BY <1>2, CallFacts DEF Posted
<1>u. UNCHANGED <<pending, stoppable, used, op, locked, booter, killer, others, spawn, misled>>
  BY DEF PrepareTells, handles, callers, hist
<1>4. TypeOK'
  BY <1>u, <1>1, <1>2, Parts DEF TypeOK
<1>5. KnownInv'
  BY <1>u, <1>0, <1>1, <1>3, Parts DEF KnownInv, Ops
<1>6. OrderInv'
  BY <1>u, <1>0, <1>1, <1>3, Parts DEF OrderInv
<1>7. FailInv'
  BY <1>u, <1>0, <1>1, <1>3, Parts DEF FailInv
<1>8. ReportedOnce' /\ CallbackOwned' /\ ContinuousEnds'
  BY <1>u, <1>1, Parts DEF ReportedOnce, CallbackOwned, ContinuousEnds
<1> QED  BY <1>2, <1>4, <1>5, <1>6, <1>7, <1>8 DEF IInv

\* Its guard drops whatever callback there is.
LEMMA PrepareGuardStep ==
  ASSUME IInv, PrepareGuard
  PROVE  IInv'
<1>1. /\ emu' \in Emus /\ emu'.akc = None /\ ~emu'.continuous /\ emu'.prep = "none"
  <2> DEFINE f == [emu EXCEPT !.prep = "none", !.who = None]
  <2> DEFINE g == [f EXCEPT !.continuous = FALSE]
  <2>1. f \in Emus /\ f.prep = "none"
    BY Parts, Pointers, Zenon DEF Emus
  <2> HIDE DEF f
  <2>2. g \in Emus /\ ~g.continuous /\ g.prep = "none"
    BY <2>1, Zenon DEF Emus
  <2>3. emu' = [g EXCEPT !.akc = None]
    BY DEF PrepareGuard, f
  <2> HIDE DEF g
  <2> QED  BY <2>2, <2>3, Pointers DEF Emus
<1>u. UNCHANGED <<queue, pending, stoppable, used, op, locked, booter, killer, others, spawn>>
  BY DEF PrepareGuard, handles
<1>m. misled' \in BOOLEAN /\ (misled => misled')
  BY Zenon DEF PrepareGuard
<1>2. \A k, n : Posted(k, n)' <=> Posted(k, n)
  BY <1>u DEF Posted
<1>3. TypeOK'
  BY <1>u, <1>m, <1>1, Parts DEF TypeOK
<1>4. KnownInv' /\ OnceInv' /\ OrderInv'
  BY <1>u, <1>1, <1>2, Parts, Pointers DEF KnownInv, OnceInv, OrderInv
<1>5. FailInv' /\ ReportedOnce' /\ CallbackOwned' /\ ContinuousEnds'
  BY <1>u, <1>m, <1>1, <1>2, Parts, Pointers
     DEF FailInv, ReportedOnce, CallbackOwned, ContinuousEnds
<1> QED  BY <1>3, <1>4, <1>5 DEF IInv

\* What the callers do not touch keeps its type.
LEMMA CallersKept ==
  ASSUME IInv, UNCHANGED <<locked, booter, killer, others>>
  PROVE  CallersOK
BY Parts DEF TypeOK, CallersOK

\* The callback in front is about another operation than the pending one.
LEMMA SkippedStep ==
  ASSUME IInv, queue # <<>>, Pop, ~At("join"), Skip, CallersOK, spawn' = spawn,
         misled' \in BOOLEAN, misled => misled'
  PROVE  IInv'
<1>1. QuietQueue
  BY QueueIsQuiet
<1>2. QuietEmu /\ QuietOps
  BY Parts, Zenon DEF Skip, QuietEmu, QuietOps
<1> QED  BY <1>1, <1>2, QuietStep DEF Skip

\* An operation starts, or ends before it has started.
LEMMA StartStep ==
  ASSUME IInv, Start
  PROVE  IInv'
<1>0. PICK n \in Ops : n = Arg
  BY PopFacts DEF Start, At
<1>1. /\ queue # <<>> /\ Pop /\ ~At("join") /\ Posted("op", n) /\ Head(queue) = Call("op", n)
  BY <1>0, PopFacts DEF Start, At
<1>u. /\ UNCHANGED <<locked, booter, killer, others, spawn>>
      /\ misled' = (misled \/ emu.prep # "none") /\ misled' \in BOOLEAN
  BY Parts DEF Start
<1>c. CallersOK
  BY <1>u, CallersKept
<1>2. emu.akc # n /\ ~op[n].awaiting /\ ~Posted("after", n) /\ ~Posted("saveFailed", n)
  BY <1>1, Parts DEF OrderInv
<1>3. CASE Skip
  BY <1>1, <1>u, <1>c, <1>3, SkippedStep, Zenon
<1>4. CASE pending = n /\ Finish(n, FALSE, emu, op)
  BY <1>1, <1>u, <1>c, <1>2, <1>4, Parts, FinishedStep, Zenon DEF Pop
<1>5. CASE pending = n /\ Throw(n)
  <2> DEFINE ops == [op EXCEPT ![n].stop = TRUE]
  <2>1. /\ ops \in [Ops -> Operations] /\ ops[n].reports = op[n].reports
        /\ \A k \in Ops : k # n => ops[k] = op[k]
    BY Parts, Zenon DEF Operations
  <2>2. Finish(n, FALSE, emu, ops)
    BY <1>5, Zenon DEF Throw
  <2> HIDE DEF ops
  <2> QED  BY <1>1, <1>u, <1>c, <1>2, <1>5, <2>1, <2>2, FinishedStep, Zenon DEF Pop
<1>6. ASSUME pending = n, UNCHANGED <<handles, op>>,
             LET e == [emu EXCEPT !.continuous = TRUE, !.akc = n] IN
               emu' = IF op[n].save THEN KilledForSave(e) ELSE Killed(e)
      PROVE  IInv'
  <2> DEFINE e == [emu EXCEPT !.continuous = TRUE, !.akc = n]
  <2>1. e \in Emus /\ e.akc = n /\ e.prep = emu.prep /\ e.who = emu.who
    <3> DEFINE f == [emu EXCEPT !.continuous = TRUE]
    <3>1. f \in Emus /\ f.prep = emu.prep /\ f.who = emu.who
      BY Parts, Zenon DEF Emus
    <3>2. e = [f EXCEPT !.akc = n]
      OBVIOUS
    <3> HIDE DEF e, f
    <3> QED  BY <3>1, <3>2, Pointers DEF Emus
  <2>2. emu' = KilledForSave(e) \/ emu' = Killed(e)
    BY <1>6, Zenon
  <2> HIDE DEF e
  <2>3. /\ emu' \in Emus /\ emu'.akc \in {n, None}
        /\ \/ emu'.prep = emu.prep /\ emu'.who = emu.who
           \/ emu'.prep = "working" /\ emu'.who = n
    BY <2>1, <2>2, KilledFacts, KilledForSaveFacts
  <2>4. /\ queue' \in Seq(Callbacks) /\ OnceInv' /\ ~Posted("op", n)'
        /\ \A k, d : Posted(d, k)' => Posted(d, k)
    BY <1>1, PopFacts
  <2>u. UNCHANGED <<pending, stoppable, used, op>> /\ n <= used /\ n # None
    BY <1>6, Parts, Pointers DEF handles, KnownInv
  <2>5. TypeOK'
    BY <1>u, <2>u, <2>3, <2>4, Parts DEF TypeOK
  <2>6. KnownInv'
    BY <2>u, <2>3, <2>4, Parts, Pointers DEF KnownInv, Ops
  <2>7. OrderInv'
    BY <1>2, <2>u, <2>3, <2>4, Parts, Pointers DEF OrderInv
  <2>8. FailInv'
    BY <1>1, <1>2, <1>u, <2>3, <2>4, Parts, Pointers DEF FailInv
  <2>9. ReportedOnce' /\ CallbackOwned' /\ ContinuousEnds'
    BY <1>6, <1>u, <2>u, <2>3, Parts, Pointers DEF ReportedOnce, CallbackOwned, ContinuousEnds
  <2> QED  BY <2>4, <2>5, <2>6, <2>7, <2>8, <2>9 DEF IInv
<1> QED
  <2>1. \/ Skip
        \/ pending = n /\ Finish(n, FALSE, emu, op)
        \/ pending = n /\ Throw(n)
        \/ /\ pending = n /\ UNCHANGED <<handles, op>>
           /\ LET e == [emu EXCEPT !.continuous = TRUE, !.akc = n] IN
                emu' = IF op[n].save THEN KilledForSave(e) ELSE Killed(e)
    BY <1>0, Zenon DEF Start
  <2> QED  BY <1>3, <1>4, <1>5, <1>6, <2>1, Zenon

\* The after_kill_callback of an operation runs.
LEMMA AfterStep ==
  ASSUME IInv, After
  PROVE  IInv'
<1>0. PICK n \in Ops : n = Arg
  BY PopFacts, Zenon DEF After, At
<1>1. queue # <<>> /\ Pop /\ ~At("join") /\ Posted("after", n)
  BY <1>0, PopFacts, Zenon DEF After, At
<1>u. UNCHANGED <<locked, booter, killer, others, spawn, misled>> /\ misled' \in BOOLEAN
  BY Parts, Zenon DEF After, callers, hist
<1>c. CallersOK
  BY <1>u, CallersKept
<1>2. emu.akc # n /\ ~Posted("op", n) /\ n <= used
  BY <1>1, Parts DEF OrderInv, KnownInv
<1>3. CASE Skip
  BY <1>1, <1>u, <1>c, <1>3, SkippedStep
<1>4. ASSUME pending = n, NEW success \in BOOLEAN, NEW ops \in [Ops -> Operations],
             ops[n].reports = op[n].reports, \A k \in Ops : k # n => ops[k] = op[k],
             Finish(n, success, emu, ops)
      PROVE  IInv'
  BY <1>1, <1>u, <1>c, <1>2, <1>4, FinishedStep DEF Pop
<1>5. ASSUME NEW ops \in [Ops -> Operations],
             ops[n].reports = op[n].reports, \A k \in Ops : k # n => ops[k] = op[k]
      PROVE  /\ [ops EXCEPT ![n].stop = TRUE] \in [Ops -> Operations]
             /\ [ops EXCEPT ![n].stop = TRUE][n].reports = op[n].reports
             /\ \A k \in Ops : k # n => [ops EXCEPT ![n].stop = TRUE][k] = op[k]
  BY <1>5, Zenon DEF Operations
<1>6. CASE pending = n /\ Throw(n)
  BY <1>4, <1>5, <1>6, Parts, Zenon DEF Throw
<1>7. ASSUME pending = n, NEW saved \in BOOLEAN,
             LET wait == [op EXCEPT ![n].awaiting = TRUE, ![n].captured = saved,
                                    ![n].resume = emu.ctr] IN
               \/ Finish(n, op[n].save /\ saved, emu, op)
               \/ emu' = [emu EXCEPT !.state = "starting"] /\ op' = wait /\ UNCHANGED handles
               \/ Finish(n, FALSE, emu, [wait EXCEPT ![n].stop = TRUE])
      PROVE  IInv'
  <2> DEFINE wait == [op EXCEPT ![n].awaiting = TRUE, ![n].captured = saved,
                                ![n].resume = emu.ctr]
  <2>1. /\ wait \in [Ops -> Operations] /\ wait[n].reports = op[n].reports
        /\ \A k \in Ops : k # n => wait[k] = op[k]
    <3> DEFINE v == [op EXCEPT ![n].awaiting = TRUE]
               w == [v EXCEPT ![n].captured = saved]
    <3>1. /\ v \in [Ops -> Operations] /\ v[n].reports = op[n].reports
          /\ \A k \in Ops : k # n => v[k] = op[k]
      BY Parts, Zenon DEF Operations
    <3>2. wait = [w EXCEPT ![n].resume = emu.ctr]
      OBVIOUS
    <3> HIDE DEF v, wait
    <3>3. /\ w \in [Ops -> Operations] /\ w[n].reports = op[n].reports
          /\ \A k \in Ops : k # n => w[k] = op[k]
      BY <3>1 DEF Operations
    <3> HIDE DEF w
    <3>4. emu.ctr \in Nat
      BY Parts DEF Emus
    <3> QED  BY <3>2, <3>3, <3>4 DEF Operations
  <2> HIDE DEF wait
  <2>2. CASE Finish(n, op[n].save /\ saved, emu, op)
    <3>1. (op[n].save /\ saved) \in BOOLEAN
      OBVIOUS
    <3> QED  BY <1>4, <1>7, <2>2, <3>1, Parts, Zenon
  <2>3. CASE Finish(n, FALSE, emu, [wait EXCEPT ![n].stop = TRUE])
    BY <1>4, <1>5, <1>7, <2>1, <2>3, ZenonT(60)
  <2>4. CASE emu' = [emu EXCEPT !.state = "starting"] /\ op' = wait /\ UNCHANGED handles
    <3>1. /\ emu' \in Emus /\ emu'.akc = emu.akc /\ emu'.prep = emu.prep /\ emu'.who = emu.who
          /\ emu'.continuous = emu.continuous
      BY <2>4, Parts DEF Emus
    <3>2. /\ queue' \in Seq(Callbacks) /\ OnceInv' /\ \A k, d : Posted(d, k)' => Posted(d, k)
      BY <1>1, PopFacts
    <3>3. /\ op' \in [Ops -> Operations] /\ op'[n].reports = op[n].reports
          /\ \A k \in Ops : k # n => op'[k] = op[k]
      BY <2>1, <2>4
    <3>u. UNCHANGED <<pending, stoppable, used>>
      BY <2>4 DEF handles
    <3>4. TypeOK'
      BY <1>u, <3>u, <3>1, <3>2, <3>3, Parts DEF TypeOK
    <3>5. KnownInv'
      BY <1>2, <3>u, <3>1, <3>2, <3>3, Parts DEF KnownInv, Ops
    <3>6. OrderInv'
      BY <1>2, <3>1, <3>2, <3>3, Parts DEF OrderInv
    <3>7. FailInv'
      <4>1. ~misled => \A k \in Ops : ~(Posted("fail", k) /\ emu.akc = k)
        BY <1>1, Parts DEF FailInv
      <4> QED  BY <1>u, <3>1, <3>2, <4>1, Parts DEF FailInv
    <3>8. ReportedOnce' /\ CallbackOwned' /\ ContinuousEnds'
      BY <1>u, <3>u, <3>1, <3>3, Parts DEF ReportedOnce, CallbackOwned, ContinuousEnds
    <3> QED  BY <3>2, <3>4, <3>5, <3>6, <3>7, <3>8 DEF IInv
  <2> QED  BY <1>7, <2>2, <2>3, <2>4, Zenon DEF wait
<1> QED
  <2>1. \/ Skip
        \/ pending = n /\ Throw(n)
        \/ pending = n /\ \E saved \in BOOLEAN :
             LET wait == [op EXCEPT ![n].awaiting = TRUE, ![n].captured = saved,
                                    ![n].resume = emu.ctr] IN
               \/ Finish(n, op[n].save /\ saved, emu, op)
               \/ emu' = [emu EXCEPT !.state = "starting"] /\ op' = wait /\ UNCHANGED handles
               \/ Finish(n, FALSE, emu, [wait EXCEPT ![n].stop = TRUE])
    BY <1>0, Zenon DEF After
  <2> QED  BY <1>3, <1>6, <1>7, <2>1, Zenon

\* The run callback, and the failures that completed() and stopped() post, finish the
\* pending operation or nothing.
LEMMA EndStep ==
  ASSUME IInv, Running \/ Fail
  PROVE  IInv'
<1>1. queue # <<>> /\ Pop /\ ~At("join")
  BY Zenon DEF Running, Fail, At
<1>u. UNCHANGED <<locked, booter, killer, others, spawn, misled>> /\ misled' \in BOOLEAN
  BY Parts, Zenon DEF Running, Fail, callers, hist
<1>c. CallersOK
  BY <1>u, CallersKept
<1>2. CASE Skip
  BY <1>1, <1>u, <1>c, <1>2, SkippedStep
<1>3. ASSUME NEW n \in Ops, pending = n, NEW success \in BOOLEAN,
             Finish(n, success, emu, op), ~misled => emu.akc # n
      PROVE  IInv'
  BY <1>1, <1>u, <1>c, <1>3, Parts, FinishedStep DEF Pop
<1>4. CASE Running /\ ~Skip
  <2>1. PICK n \in Ops : n = pending
    BY <1>4, Parts DEF Running, TypeOK
  <2>2. op[n].awaiting /\ Finish(n, op[n].captured, emu, op)
    BY <1>4, <2>1, Zenon DEF Running
  <2>3. emu.akc # n /\ op[n].captured \in BOOLEAN
    BY <2>2, Parts DEF OrderInv, Operations
  <2> QED  BY <1>3, <2>1, <2>2, <2>3
<1>5. CASE Fail /\ ~Skip
  <2>1. PICK n \in Ops : n = Arg
    BY <1>5, PopFacts DEF Fail, At
  <2>2. pending = n /\ Finish(n, FALSE, emu, op)
    BY <1>5, <2>1, Zenon DEF Fail
  <2>3. Posted("fail", n)
    BY <1>1, <1>5, <2>1, PopFacts DEF Fail, At
  <2>4. ~misled => emu.akc # n
    BY <1>1, <2>3, Parts DEF FailInv
  <2> QED  BY <1>3, <2>2, <2>4, Zenon
<1> QED  BY <1>2, <1>4, <1>5

\* completed() hears of a failed preparation; the join of its thread is now in front.
LEMMA SaveFailedStep ==
  ASSUME IInv, SaveFailed
  PROVE  IInv'
<1> DEFINE rest == Tail(queue)
<1>0. PICK n \in Ops : n = Arg /\ Head(queue) = Call("saveFailed", n)
                        /\ In(queue, Call("saveFailed", n))
  BY Parts, TailFacts, CallFacts DEF SaveFailed, At, Arg
<1>1. /\ rest \in Seq(Callbacks) /\ Once(rest) /\ \A d : In(rest, d) => In(queue, d)
      /\ queue # <<>> /\ ~At("join") /\ Posted("saveFailed", n)
  BY <1>0, Parts, TailFacts DEF SaveFailed, At, OnceInv, Posted
<1> HIDE DEF rest
<1>u. UNCHANGED <<emu, pending, stoppable, used, locked, booter, killer, others, spawn>>
  BY DEF SaveFailed, handles
<1>c. CallersOK
  BY <1>u, CallersKept
<1>e. QuietEmu
  BY <1>u, Parts, Zenon DEF QuietEmu
<1>2. CASE Become(Call("join", 0)) /\ UNCHANGED <<op, misled>>
  <2>1. queue' = <<Call("join", 0)>> \o rest
    BY <1>2 DEF Become, rest
  <2>2. /\ queue' \in Seq(Callbacks) /\ Once(queue')
        /\ \A d : In(queue', d) => In(rest, d) \/ d = Call("join", 0)
        /\ queue' # <<>> /\ Head(queue') = Call("join", 0)
    BY <1>1, <2>1, CallFacts, ConsFacts
  <2>3. QuietQueue
    BY <1>1, <2>2, CallFacts DEF QuietQueue, OnceInv, Posted, At
  <2>4. QuietOps
    BY <1>2, Parts, Zenon DEF QuietOps
  <2> QED  BY <1>u, <1>c, <1>e, <1>2, <2>3, <2>4, Parts, QuietStep DEF handles
<1>3. ASSUME pending # None,
             queue' = <<Call("join", 0)>> \o Append(rest, Call("fail", pending)),
             op' = [op EXCEPT ![pending].written = FALSE],
             misled' = (misled \/ pending # Arg)
      PROVE  IInv'
  <2>0. PICK p \in Ops : p = pending
    BY <1>3, Parts DEF TypeOK
  <2> DEFINE r == Append(rest, Call("fail", p))
  <2>1. r \in Seq(Callbacks) /\ Once(r) /\ \A d : In(r, d) => In(rest, d) \/ d = Call("fail", p)
    BY <1>1, CallFacts, AppendFacts
  <2>2. queue' = <<Call("join", 0)>> \o r
    BY <1>3, <2>0
  <2> HIDE DEF r
  <2>3. /\ queue' \in Seq(Callbacks) /\ Once(queue')
        /\ \A d : In(queue', d) => In(r, d) \/ d = Call("join", 0)
        /\ queue' # <<>> /\ Head(queue') = Call("join", 0)
    BY <2>1, <2>2, CallFacts, ConsFacts
  <2>4. /\ \A k \in Ops, d \in {"op", "after", "saveFailed"} : Posted(d, k)' => Posted(d, k)
        /\ \A k \in Ops : Posted("fail", k)' => Posted("fail", k) \/ k = p
        /\ At("join")'
    <3>1. \A d : In(queue', d) => \/ In(queue, d) \/ d = Call("fail", p) \/ d = Call("join", 0)
      BY <1>1, <2>1, <2>3
    <3>2. At("join")'
      BY <2>3, CallFacts DEF At
    <3> QED  BY <3>1, <3>2, CallInjective DEF Posted
  <2>5. QuietOps
    BY <1>3, <2>0, Parts, ZenonT(60) DEF QuietOps, Operations
  <2>6. misled' \in BOOLEAN /\ (~misled' => ~misled /\ p = n)
    BY <1>0, <1>3, <2>0, Zenon
  <2>7. TypeOK'
    BY <1>u, <2>3, <2>5, <2>6, Parts DEF TypeOK, QuietOps
  <2>8. KnownInv'
    BY <1>u, <2>0, <2>4, <2>5, Parts DEF KnownInv, QuietOps
  <2>9. OrderInv'
    BY <1>u, <2>4, <2>5, Parts DEF OrderInv, QuietOps
  <2>10. FailInv'
    <3> SUFFICES ASSUME ~misled', NEW k \in Ops
                 PROVE  /\ Posted("op", k)' => ~Posted("fail", k)'
                        /\ Posted("saveFailed", k)' /\ emu'.akc = k =>
                             emu'.prep = "guard" /\ emu'.who = k
                        /\ Posted("fail", k)' /\ emu'.akc = k =>
                             emu'.prep = "guard" /\ emu'.who = k /\ At("join")'
      BY DEF FailInv
    <3>1. ~Posted("op", n)
      BY <1>1, Parts DEF OrderInv
    <3> QED  BY <1>1, <1>u, <2>4, <2>6, <3>1, Parts DEF FailInv
  <2>11. ReportedOnce' /\ CallbackOwned' /\ ContinuousEnds'
    BY <1>u, <2>5, <2>6, Parts DEF ReportedOnce, CallbackOwned, ContinuousEnds, QuietOps
  <2> QED  BY <2>3, <2>7, <2>8, <2>9, <2>10, <2>11 DEF IInv, OnceInv
<1> QED  BY <1>2, <1>3, Zenon DEF SaveFailed, rest

\* The last stage of Kill tells the operation whose restored VM this was, and runs the
\* callback.
LEMMA FinalStep ==
  ASSUME IInv, Final
  PROVE  IInv'
<1>u. UNCHANGED <<pending, stoppable, used, op, locked, booter, killer, others, spawn, misled>>
  BY DEF Final, handles, callers, hist
<1>1. /\ emu' \in Emus /\ emu'.akc = None /\ emu'.prep = emu.prep /\ emu'.who = emu.who
      /\ emu'.continuous = emu.continuous
  <2> DEFINE n == emu.ctr + 1
             f == [emu EXCEPT !.ctr = n]
             g == [f EXCEPT !.closing = FALSE, !.state = "stopped"]
  <2>0. n \in Nat
    BY Parts DEF Emus
  <2>2. emu' = [g EXCEPT !.akc = None]
    BY DEF Final
  <2> HIDE DEF n
  <2>1. f \in Emus /\ f.prep = emu.prep /\ f.who = emu.who /\ f.continuous = emu.continuous
    BY <2>0, Parts DEF Emus
  <2> HIDE DEF f
  <2>3. g \in Emus /\ g.prep = emu.prep /\ g.who = emu.who /\ g.continuous = emu.continuous
    BY <2>1, Zenon DEF Emus
  <2> HIDE DEF g
  <2> QED  BY <2>2, <2>3, Pointers DEF Emus
<1> DEFINE t == Tail(queue)
           r == IF stoppable # None /\ op[stoppable].awaiting
                THEN Append(t, Call("fail", stoppable)) ELSE t
<1>2. t \in Seq(Callbacks) /\ Once(t) /\ \A d : In(t, d) => In(queue, d)
  BY Parts, TailFacts DEF Final, At, OnceInv
<1>3. /\ r \in Seq(Callbacks) /\ Once(r)
      /\ \A d : In(r, d) => \/ In(queue, d)
                            \/ \E p \in Ops : p = pending /\ op[p].awaiting /\ d = Call("fail", p)
  <2> HIDE DEF t
  <2>1. CASE ~(stoppable # None /\ op[stoppable].awaiting)
    BY <1>2, <2>1
  <2>2. CASE stoppable # None /\ op[stoppable].awaiting
    <3>1. PICK p \in Ops : p = pending /\ p = stoppable
      BY <2>2, Parts DEF TypeOK
    <3>2. r = Append(t, Call("fail", p)) /\ op[p].awaiting
      BY <2>2, <3>1
    <3> QED  BY <1>2, <3>1, <3>2, CallFacts, AppendFacts
  <2> QED  BY <2>1, <2>2
<1>4. queue' = CASE emu.akc = None -> r
                 [] emu.akc = Spawn -> <<Call("spawned", 0)>> \o r
                 [] OTHER -> <<Call("after", emu.akc)>> \o r
  BY DEF Final
<1> HIDE DEF r
<1>5. /\ queue' \in Seq(Callbacks) /\ Once(queue')
      /\ \A d : In(queue', d) => \/ In(r, d) \/ d = Call("spawned", 0)
                                 \/ \E a \in Ops : a = emu.akc /\ d = Call("after", a)
  <2>1. emu.akc \in Ops \/ emu.akc = None \/ emu.akc = Spawn
    BY Parts, Pointers DEF Emus
  <2>2. CASE emu.akc = None
    <3>1. queue' = r
      BY <1>4, <2>2, BoundsAssumption DEF None, Spawn
    <3> QED  BY <1>3, <3>1
  <2>3. CASE emu.akc = Spawn
    <3>1. queue' = <<Call("spawned", 0)>> \o r
      BY <1>4, <2>3, BoundsAssumption DEF None, Spawn
    <3> QED  BY <1>3, <3>1, CallFacts, ConsFacts
  <2>4. CASE emu.akc \in Ops
    <3>1. queue' = <<Call("after", emu.akc)>> \o r
      BY <1>4, <2>4, Pointers
    <3> QED  BY <1>3, <2>4, <3>1, CallFacts, ConsFacts
  <2> QED  BY <2>1, <2>2, <2>3, <2>4
<1>6. /\ \A k \in Ops, d \in {"op", "saveFailed"} : Posted(d, k)' => Posted(d, k)
      /\ \A k \in Ops : Posted("after", k)' => Posted("after", k) \/ emu.akc = k
      /\ \A k \in Ops : Posted("fail", k)' =>
                          Posted("fail", k) \/ (pending = k /\ op[k].awaiting)
  <2>1. \A d : In(queue', d) =>
          \/ In(queue, d) \/ d = Call("spawned", 0)
          \/ \E p \in Ops : p = pending /\ op[p].awaiting /\ d = Call("fail", p)
          \/ \E a \in Ops : a = emu.akc /\ d = Call("after", a)
    BY <1>3, <1>5
  <2> QED  BY <2>1, CallInjective DEF Posted
<1>7. TypeOK'
  BY <1>u, <1>1, <1>5, Parts DEF TypeOK
<1>8. KnownInv'
  BY <1>u, <1>1, <1>6, Parts, Pointers DEF KnownInv
<1>9. OrderInv'
  BY <1>u, <1>1, <1>6, Parts, Pointers DEF OrderInv
<1>10. FailInv'
  BY <1>u, <1>1, <1>6, Parts, Pointers DEF FailInv, OrderInv
<1>11. ReportedOnce' /\ CallbackOwned' /\ ContinuousEnds'
  BY <1>u, <1>1, Parts, Pointers DEF ReportedOnce, CallbackOwned, ContinuousEnds
<1> QED  BY <1>5, <1>7, <1>8, <1>9, <1>10, <1>11 DEF IInv, OnceInv

\* exitspawn sets its callback whatever is there.
LEMMA SpawnStep ==
  ASSUME IInv, SpawnCallback
  PROVE  IInv'
<1>1. queue # <<>> /\ Pop /\ ~At("join")
  BY DEF SpawnCallback, At
<1>u. UNCHANGED <<pending, stoppable, used, op, locked, booter, killer, others, misled>>
  BY DEF SpawnCallback, handles
<1>2. CASE UNCHANGED <<emu, spawn>>
  <2>1. CallersOK /\ Skip
    BY <1>u, <1>2, CallersKept DEF Skip, handles
  <2> QED  BY <1>1, <1>u, <1>2, <2>1, Parts, SkippedStep
<1>3. ASSUME emu' = Killed([emu EXCEPT !.akc = Spawn, !.continuous = TRUE]),
             spawn' \in {"done", "displaced"}
      PROVE  IInv'
  <2> DEFINE e == [emu EXCEPT !.akc = Spawn, !.continuous = TRUE]
             f == [emu EXCEPT !.akc = Spawn]
  <2>1. f \in Emus /\ f.akc = Spawn /\ f.prep = emu.prep /\ f.who = emu.who
    BY Parts, Pointers, SMTT(30) DEF Emus
  <2>2. e = [f EXCEPT !.continuous = TRUE]
    OBVIOUS
  <2> HIDE DEF e, f
  <2>3. e \in Emus /\ e.akc = Spawn /\ e.prep = emu.prep /\ e.who = emu.who
    BY <2>1, <2>2, Zenon DEF Emus
  <2>4. emu' = Killed(e)
    BY <1>3 DEF e
  <2>5. emu' \in Emus /\ emu'.akc \in {Spawn, None} /\ emu'.prep = emu.prep /\ emu'.who = emu.who
    BY <2>3, <2>4, KilledFacts
  <2>6. /\ queue' \in Seq(Callbacks) /\ OnceInv' /\ \A k, d : Posted(d, k)' => Posted(d, k)
    BY <1>1, PopFacts
  <2>7. TypeOK'
    BY <1>u, <1>3, <2>5, <2>6, Parts DEF TypeOK
  <2>8. KnownInv' /\ OrderInv'
    BY <1>u, <2>5, <2>6, Parts, Pointers DEF KnownInv, OrderInv
  <2>9. FailInv' /\ ReportedOnce' /\ CallbackOwned' /\ ContinuousEnds'
    BY <1>u, <1>3, <2>5, <2>6, Parts, Pointers, SMTT(30)
       DEF FailInv, ReportedOnce, CallbackOwned, ContinuousEnds
  <2> QED  BY <2>6, <2>7, <2>8, <2>9 DEF IInv
<1> QED  BY <1>2, <1>3, Zenon DEF SpawnCallback

-----------------------------------------------------------------------------
(* The results *)

\* A step that changes nothing.
LEMMA Stutter == IInv /\ UNCHANGED vars => IInv'
BY DEF vars, hist, IInv, TypeOK, KnownInv, OnceInv, OrderInv, FailInv, ReportedOnce,
       CallbackOwned, ContinuousEnds, Posted, At

\* The invariant holds in every reachable state, whatever the guest and the app do.
THEOREM SaveStatesInductive == Spec => []IInv
<1>1. IInv /\ [Next]_vars => IInv'
  <2> SUFFICES ASSUME IInv, [Next]_vars PROVE IInv'
    OBVIOUS
  <2> QED
    BY QuietActions, RequestStep, PrepareTellsStep, PrepareGuardStep, StartStep, AfterStep,
       EndStep, SaveFailedStep, FinalStep, SpawnStep, Stutter, Zenon
       DEF Next, Core, Dispatch, Prepare, Join
<1> QED  BY InitInv, <1>1, PTL DEF Spec

\* The operations, the VM and the queue keep their types: no callback is posted for an
\* operation that does not exist.
THEOREM SaveStatesTypeCorrect == Spec => []TypeOK
<1>1. IInv => TypeOK
  BY DEF IInv
<1> QED  BY <1>1, SaveStatesInductive, PTL

\* Every accepted request reports at most once, and has reported as soon as it is no
\* longer pending (finish, save_states.cpp).
THEOREM OperationsReportOnce == Spec => []ReportedOnce
<1>1. IInv => ReportedOnce
  BY DEF IInv
<1> QED  BY <1>1, SaveStatesInductive, PTL

\* after_kill_callback never outlives its operation, unless operations met the prepare
\* thread of an earlier one.
THEOREM CallbackBelongsToPending == Spec => []CallbackOwned
<1>1. IInv => CallbackOwned
  BY DEF IInv
<1> QED  BY <1>1, SaveStatesInductive, PTL

\* Continuous mode is off between operations, as long as the guest does not replace
\* itself.
THEOREM ContinuousModeEnds == Spec => []ContinuousEnds
<1>1. IInv => ContinuousEnds
  BY DEF IInv
<1> QED  BY <1>1, SaveStatesInductive, PTL

-----------------------------------------------------------------------------
(* Kinds of callbacks in the queue *)

\* What kinds of callbacks are left when one is taken.
LEMMA TailKinds ==
  ASSUME NEW q \in Seq(Callbacks), q # <<>>
  PROVE  /\ \A k : Has(q, k) <=> Head(q).kind = k \/ Has(Tail(q), k)
         /\ \A k : Single(q, k) =>
              Single(Tail(q), k) /\ (Head(q).kind = k => ~Has(Tail(q), k))
         /\ \A k, l : ~Behind(q, k, l) =>
              ~Behind(Tail(q), k, l) /\ (Head(q).kind = k => ~Has(Tail(q), l))
         /\ \A a : ThisVm(q, a) => ThisVm(Tail(q), a)
<1> DEFINE t == Tail(q)
<1>1. /\ Len(q) \in Nat /\ Len(t) \in Nat /\ Len(q) = Len(t) + 1 /\ Head(q) = q[1]
      /\ \A i \in 1..Len(t) : t[i] = q[i + 1] /\ i + 1 \in 1..Len(q)
      /\ \A i \in 2..Len(q) : q[i] = t[i - 1] /\ i - 1 \in 1..Len(t)
  OBVIOUS
<1> HIDE DEF t
<1>2. \A k : Has(q, k) <=> Head(q).kind = k \/ Has(t, k)
  <2> SUFFICES ASSUME NEW k PROVE Has(q, k) <=> Head(q).kind = k \/ Has(t, k)
    OBVIOUS
  <2>1. ASSUME Has(q, k), Head(q).kind # k PROVE Has(t, k)
    <3>1. PICK i \in 1..Len(q) : q[i].kind = k
      BY <2>1 DEF Has
    <3>2. i \in 2..Len(q)
      BY <1>1, <2>1, <3>1
    <3> QED BY <1>1, <3>1, <3>2 DEF Has
  <2>2. Head(q).kind = k => Has(q, k)
    BY <1>1 DEF Has
  <2>3. Has(t, k) => Has(q, k)
    BY <1>1 DEF Has
  <2> QED BY <2>1, <2>2, <2>3
<1>3. ASSUME NEW k, Single(q, k) PROVE Single(t, k) /\ (Head(q).kind = k => ~Has(t, k))
  <2>1. Single(t, k)
    BY <1>1, <1>3, SMTT(30) DEF Single
  <2>2. ASSUME Head(q).kind = k, NEW i \in 1..Len(t), t[i].kind = k PROVE FALSE
    <3>1. i + 1 = 1
      BY <1>1, <1>3, <2>2 DEF Single
    <3> QED BY <3>1
  <2> QED BY <2>1, <2>2 DEF Has
<1>4. ASSUME NEW k, NEW l, ~Behind(q, k, l)
      PROVE  ~Behind(t, k, l) /\ (Head(q).kind = k => ~Has(t, l))
  <2>1. ~Behind(t, k, l)
    <3> SUFFICES ASSUME NEW i \in 1..Len(t), NEW j \in 1..Len(t), i < j,
                        t[i].kind = k, t[j].kind = l
                 PROVE  FALSE
      BY DEF Behind
    <3>1. /\ i + 1 \in 1..Len(q) /\ j + 1 \in 1..Len(q) /\ i + 1 < j + 1
          /\ q[i + 1].kind = k /\ q[j + 1].kind = l
      BY <1>1
    <3> QED BY <1>4, <3>1 DEF Behind
  <2>2. ASSUME Head(q).kind = k, NEW i \in 1..Len(t), t[i].kind = l PROVE FALSE
    <3>1. 1 \in 1..Len(q) /\ 1 < i + 1
      BY <1>1
    <3> QED BY <1>1, <1>4, <2>2, <3>1 DEF Behind
  <2> QED BY <2>1, <2>2 DEF Has
<1>5. \A a : ThisVm(q, a) => ThisVm(t, a)
  BY <1>1 DEF ThisVm
<1> QED BY <1>2, <1>3, <1>4, <1>5, Zenon DEF t

\* What kinds there are when one is posted.
LEMMA AppendKinds ==
  ASSUME NEW q \in Seq(Callbacks), NEW c \in Callbacks
  PROVE  /\ \A k : Has(Append(q, c), k) <=> Has(q, k) \/ c.kind = k
         /\ \A k : Single(q, k) /\ (c.kind = k => ~Has(q, k)) => Single(Append(q, c), k)
         /\ \A k, l : ~Behind(q, k, l) /\ (c.kind = l => ~Has(q, k)) =>
              ~Behind(Append(q, c), k, l)
         /\ \A a : ThisVm(q, a) /\ (c.kind \in {"prepared", "running"} => c.arg = a) =>
              ThisVm(Append(q, c), a)
<1> DEFINE r == Append(q, c)
<1>1. /\ Len(q) \in Nat /\ Len(r) = Len(q) + 1 /\ r[Len(r)] = c
      /\ \A i \in 1..Len(q) : r[i] = q[i] /\ i \in 1..Len(r)
      /\ \A i \in 1..Len(r) : i = Len(r) \/ (i \in 1..Len(q) /\ i < Len(r))
  OBVIOUS
<1> HIDE DEF r
<1>2. \A k : Has(r, k) <=> Has(q, k) \/ c.kind = k
  BY <1>1 DEF Has
<1>3. ASSUME NEW k, Single(q, k), c.kind = k => ~Has(q, k) PROVE Single(r, k)
  BY <1>1, <1>3 DEF Has, Single
<1>4. ASSUME NEW k, NEW l, ~Behind(q, k, l), c.kind = l => ~Has(q, k) PROVE ~Behind(r, k, l)
  <2> SUFFICES ASSUME NEW i \in 1..Len(r), NEW j \in 1..Len(r), i < j,
                      r[i].kind = k, r[j].kind = l
               PROVE  FALSE
    BY DEF Behind
  <2>1. i \in 1..Len(q) /\ q[i].kind = k
    BY <1>1
  <2>2. CASE j = Len(r)
    BY <1>1, <1>4, <2>1, <2>2 DEF Has
  <2>3. CASE j \in 1..Len(q)
    BY <1>1, <1>4, <2>1, <2>3 DEF Behind
  <2> QED BY <1>1, <2>2, <2>3
<1>5. ASSUME NEW a, ThisVm(q, a), c.kind \in {"prepared", "running"} => c.arg = a
      PROVE  ThisVm(r, a)
  BY <1>1, <1>5 DEF ThisVm
<1> QED BY <1>2, <1>3, <1>4, <1>5 DEF r

\* What kinds there are when one runs at once.
LEMMA ConsKinds ==
  ASSUME NEW q \in Seq(Callbacks), NEW c \in Callbacks, c.kind \notin {"prepared", "running"}
  PROVE  /\ \A k : Has(<<c>> \o q, k) <=> Has(q, k) \/ c.kind = k
         /\ \A k : Single(q, k) /\ c.kind # k => Single(<<c>> \o q, k)
         /\ \A k, l : ~Behind(q, k, l) /\ c.kind # k => ~Behind(<<c>> \o q, k, l)
         /\ \A a : ThisVm(q, a) => ThisVm(<<c>> \o q, a)
<1> DEFINE r == <<c>> \o q
<1>1. /\ Len(q) \in Nat /\ Len(r) = Len(q) + 1 /\ r[1] = c /\ 1 \in 1..Len(r)
      /\ \A i \in 1..Len(q) : r[i + 1] = q[i] /\ i + 1 \in 1..Len(r)
      /\ \A i \in 1..Len(r) : i = 1 \/ (i - 1 \in 1..Len(q) /\ r[i] = q[i - 1])
  OBVIOUS
<1> HIDE DEF r
<1>2. \A k : Has(r, k) <=> Has(q, k) \/ c.kind = k
  <2> SUFFICES ASSUME NEW k PROVE Has(r, k) <=> Has(q, k) \/ c.kind = k
    OBVIOUS
  <2>1. Has(r, k) => Has(q, k) \/ c.kind = k
    BY <1>1 DEF Has
  <2>2. Has(q, k) \/ c.kind = k => Has(r, k)
    BY <1>1 DEF Has
  <2> QED BY <2>1, <2>2
<1>3. ASSUME NEW k, Single(q, k), c.kind # k PROVE Single(r, k)
  <2> SUFFICES ASSUME NEW i \in 1..Len(r), NEW j \in 1..Len(r), r[i].kind = k, r[j].kind = k
               PROVE  i = j
    BY DEF Single
  <2>1. /\ i - 1 \in 1..Len(q) /\ q[i - 1].kind = k /\ j - 1 \in 1..Len(q) /\ q[j - 1].kind = k
    BY <1>1, <1>3
  <2>2. i - 1 = j - 1
    BY <1>3, <2>1 DEF Single
  <2> QED BY <2>2
<1>4. ASSUME NEW k, NEW l, ~Behind(q, k, l), c.kind # k PROVE ~Behind(r, k, l)
  <2> SUFFICES ASSUME NEW i \in 1..Len(r), NEW j \in 1..Len(r), i < j,
                      r[i].kind = k, r[j].kind = l
               PROVE  FALSE
    BY DEF Behind
  <2>1. i - 1 \in 1..Len(q) /\ q[i - 1].kind = k
    BY <1>1, <1>4
  <2>2. j - 1 \in 1..Len(q) /\ q[j - 1].kind = l /\ i - 1 < j - 1
    BY <1>1, <2>1
  <2> QED BY <1>4, <2>1, <2>2 DEF Behind
<1>5. ASSUME NEW a, ThisVm(q, a) PROVE ThisVm(r, a)
  <2> SUFFICES ASSUME NEW i \in 1..Len(r), r[i].kind \in {"prepared", "running"}
               PROVE  r[i].arg = a
    BY DEF ThisVm
  <2> QED BY <1>1, <1>5 DEF ThisVm
<1> QED BY <1>2, <1>3, <1>4, <1>5 DEF r

-----------------------------------------------------------------------------
(* Steps that leave the Kills alone: the VM goes on as it was, or a Kill begins, or a
   stopped VM boots *)

\* The VM goes on as it was
SameVm ==
  /\ emu'.state = emu.state /\ emu'.closing = emu.closing /\ emu'.ctr = emu.ctr
  /\ emu'.join = emu.join
  /\ \/ emu'.prep = emu.prep
     \/ emu.prep \in {"failed", "guard"} /\ emu'.prep \in {"guard", "none"}

\* Kill without a savestate begins
StopsVm ==
  /\ ~emu.closing /\ emu.state # "stopped"
  /\ emu'.state = "stopping" /\ emu'.closing /\ emu'.ctr = emu.ctr
  /\ emu'.join = "joining" /\ emu'.prep = emu.prep

\* A stopped VM boots
StartsVm ==
  /\ emu.state = "stopped"
  /\ emu'.state = "starting" /\ emu'.closing = emu.closing /\ emu'.ctr = emu.ctr
  /\ emu'.join = emu.join /\ emu'.prep = emu.prep

CalmVm == emu' \in Emus /\ (SameVm \/ StopsVm \/ StartsVm)

\* The stages of Kills that are posted stay so, and no run callback is new
CalmQueue ==
  /\ Has(queue', "final") <=> Has(queue, "final")
  /\ Has(queue', "prepared") <=> Has(queue, "prepared")
  /\ Has(queue', "running") => Has(queue, "running")
  /\ Single(queue', "final") /\ Single(queue', "prepared")
  /\ ~Behind(queue', "final", "running") /\ ThisVm(queue', emu.ctr)

\* No failed preparation and no operation is new in the queue
CalmSaves ==
  /\ Has(queue', "saveFailed") => Has(queue, "saveFailed")
  /\ ~Behind(queue', "prepared", "saveFailed")
  /\ \A n \in Ops : Posted("op", n)' => Posted("op", n)

\* No operation begins, none begins to wait, and none has captured more
CalmOps ==
  /\ pending' \in {pending, None}
  /\ \A n \in Ops :
       /\ op'[n].awaiting => /\ op[n].awaiting /\ pending' = pending
                             /\ op'[n].save = op[n].save /\ op'[n].written = op[n].written
       /\ op'[n].written => op[n].written /\ pending' = pending

\* A step that leaves the VM and the queue calm keeps Kills and run callbacks in order.
LEMMA CalmKill ==
  ASSUME emu \in Emus, KillOnce, RunInv, CalmVm, CalmQueue
  PROVE  KillOnce' /\ RunInv'
<1> USE DEF CalmQueue, KillOnce, RunInv, Preparing
<1>1. CASE SameVm
  BY <1>1 DEF SameVm
<1>2. CASE StopsVm
  BY <1>2, SMTT(30) DEF StopsVm, Emus
<1>3. CASE StartsVm
  BY <1>3, SMTT(30) DEF StartsVm
<1> QED BY <1>1, <1>2, <1>3, SMTT(30) DEF CalmVm

\* It keeps what is known of captures, if the operations stay calm as well.
LEMMA CalmSaved ==
  ASSUME IInv, KillOnce, SavedInv, CalmVm, CalmQueue, CalmSaves, CalmOps
  PROVE  SavedInv'
<1> USE DEF CalmQueue, CalmSaves, CalmOps
<1>1. /\ emu'.join = "saving" => emu.join = "saving"
      /\ emu'.prep = "working" => emu.prep = "working"
      /\ emu.prep = "none" => emu'.prep = "none"
  BY ZenonT(30) DEF CalmVm, SameVm, StopsVm, StartsVm
<1>2. Saving' => Saving
  BY <1>1, Zenon DEF Saving, Preparing
<1>3. ASSUME Saving', pending' # None PROVE ~Posted("op", pending)' /\ ~op'[pending'].awaiting
  <2>1. PICK p \in Ops : p = pending /\ p = pending'
    BY <1>3, Parts DEF TypeOK
  <2>2. ~Posted("op", p) /\ ~op[p].awaiting
    BY <1>2, <1>3, <2>1, Pointers DEF SavedInv
  <2> QED BY <2>1, <2>2, Zenon DEF Posted
<1> QED BY <1>1, <1>2, <1>3, Zenon DEF SavedInv

\* So such a step keeps the whole invariant.
LEMMA CalmStep ==
  ASSUME IInv, VmInv, CalmVm, CalmQueue, CalmSaves, CalmOps
  PROVE  VmInv'
BY CalmKill, CalmSaved, Parts DEF VmInv

\* Callbacks that are none of a Kill, of a save or of the start of anything.
LEMMA QueueIsCalm ==
  ASSUME IInv, VmInv,
         \/ \E c \in Callbacks :
              c.kind \notin {"op", "final", "prepared", "running", "saveFailed"} /\ Post(c)
         \/ queue # <<>> /\ Pop /\ Head(queue).kind \notin {"final", "prepared"}
         \/ queue' = queue
  PROVE  CalmQueue /\ CalmSaves
<1>0. queue \in Seq(Callbacks)
  BY Parts, SMTT(30)
<1>1. ASSUME NEW c \in Callbacks, Post(c),
             c.kind \notin {"op", "final", "prepared", "running", "saveFailed"}
      PROVE  CalmQueue /\ CalmSaves
  <2>1. queue' = Append(queue, c)
    BY <1>1 DEF Post
  <2>2. \A n \in Ops : Posted("op", n)' => Posted("op", n)
    BY <1>0, <1>1, <2>1, AppendFacts, CallFacts DEF Posted
  <2> QED BY <1>0, <1>1, <2>1, <2>2, AppendKinds, Zenon
             DEF CalmQueue, CalmSaves, VmInv, KillOnce, RunInv, SavedInv
<1>2. CASE queue # <<>> /\ Pop /\ Head(queue).kind \notin {"final", "prepared"}
  <2>1. queue' = Tail(queue)
    BY <1>2 DEF Pop
  <2>2. \A n \in Ops : Posted("op", n)' => Posted("op", n)
    BY <1>0, <1>2, <2>1, TailFacts DEF Posted
  <2> QED BY <1>0, <1>2, <2>1, <2>2, TailKinds
             DEF CalmQueue, CalmSaves, VmInv, KillOnce, RunInv, SavedInv
<1>3. CASE queue' = queue
  BY <1>3 DEF CalmQueue, CalmSaves, VmInv, KillOnce, RunInv, SavedInv, Posted
<1> QED BY <1>1, <1>2, <1>3

\* Kill without a savestate begins one if none is under way and there is a VM to stop.
LEMMA KillIsCalm ==
  ASSUME emu \in Emus, NEW e \in Emus, emu' = Killed(e), e.state = emu.state,
         e.closing = emu.closing, e.ctr = emu.ctr, e.join = emu.join, e.prep = emu.prep
  PROVE  CalmVm /\ (SameVm \/ StopsVm)
<1>0. emu' \in Emus
  BY KilledFacts
<1>1. CASE e.closing
  BY <1>0, <1>1, Zenon DEF Killed, SameVm, CalmVm
<1>2. CASE ~e.closing /\ e.state = "stopped"
  BY <1>0, <1>2, SMTT(30) DEF Killed, SameVm, CalmVm, Emus
<1>3. CASE ~e.closing /\ e.state # "stopped"
  <2>1. emu' = [e EXCEPT !.closing = TRUE, !.state = "stopping", !.join = "joining"]
    BY <1>3, Zenon DEF Killed
  <2>2. /\ emu'.closing /\ emu'.state = "stopping" /\ emu'.join = "joining"
        /\ emu'.prep = e.prep /\ emu'.ctr = e.ctr
    BY <2>1, Zenon DEF Emus
  <2> QED BY <1>0, <1>3, <2>2 DEF StopsVm, CalmVm
<1> QED BY <1>1, <1>2, <1>3

\* finish() may stop the VM and forgets the operation.
LEMMA FinishIsCalm ==
  ASSUME IInv, NEW n \in Ops, pending = n, NEW success \in BOOLEAN,
         NEW ops \in [Ops -> Operations], Finish(n, success, emu, ops),
         \A k \in Ops : k # n => ops[k] = op[k], SavedInv
  PROVE  /\ CalmVm /\ CalmOps
         /\ op'[n].ok = (success /\ (ops[n].stop => ops[n].save))
<1>0. TypeOK /\ emu \in Emus
  BY Parts
<1>1. /\ pending' = None /\ \A k \in Ops : k # n => op'[k] = op[k]
  BY <1>0, FinishFacts
<1>2. CalmVm
  <2> DEFINE e == [emu EXCEPT !.continuous = FALSE, !.akc = None]
             f == [emu EXCEPT !.continuous = FALSE]
  <2>1. /\ f \in Emus /\ f.state = emu.state /\ f.closing = emu.closing /\ f.ctr = emu.ctr
        /\ f.join = emu.join /\ f.prep = emu.prep
    BY <1>0, Zenon DEF Emus
  <2>2. e = [f EXCEPT !.akc = None]
    OBVIOUS
  <2>3. emu' = Killed(e) \/ emu' = f
    BY Zenon DEF Finish
  <2> HIDE DEF e, f
  <2>4. /\ e \in Emus /\ e.state = emu.state /\ e.closing = emu.closing /\ e.ctr = emu.ctr
        /\ e.join = emu.join /\ e.prep = emu.prep
    BY <2>1, <2>2, Pointers, SMTT(30) DEF Emus
  <2>5. CASE emu' = Killed(e)
    BY <1>0, <2>4, <2>5, KillIsCalm
  <2>6. CASE emu' = f
    BY <2>1, <2>6 DEF CalmVm, SameVm
  <2> QED BY <2>3, <2>5, <2>6
<1> DEFINE ok == success /\ (ops[n].stop => ops[n].save)
<1>3. op' = [ops EXCEPT ![n] = [NewOp EXCEPT !.reports = ops[n].reports + 1, !.ok = ok]]
  BY Zenon DEF Finish, Over
<1> HIDE DEF ok
<1>4. op'[n] = [NewOp EXCEPT !.reports = ops[n].reports + 1, !.ok = ok]
  BY <1>3
<1>5. ~op'[n].awaiting /\ ~op'[n].written /\ op'[n].ok = ok
  BY <1>4 DEF NewOp
<1>6. CalmOps
  BY <1>1, <1>5, Pointers DEF CalmOps, SavedInv
<1> QED BY <1>2, <1>5, <1>6 DEF ok

\* Operations that keep what a save has, or are only asked to stop.
LEMMA OpsAreCalm ==
  ASSUME IInv, pending' = pending,
         \/ op' = op
         \/ \E n \in Ops : op' = [op EXCEPT ![n].stop = TRUE]
  PROVE  CalmOps
<1>0. op \in [Ops -> Operations]
  BY Parts
<1>1. CASE op' = op
  BY <1>1 DEF CalmOps
<1>2. ASSUME NEW n \in Ops, op' = [op EXCEPT ![n].stop = TRUE] PROVE CalmOps
  <2>1. \A k \in Ops : /\ op'[k].awaiting = op[k].awaiting /\ op'[k].save = op[k].save
                       /\ op'[k].written = op[k].written
    <3>1. op'[n] = [op[n] EXCEPT !.stop = TRUE] /\ \A k \in Ops : k # n => op'[k] = op[k]
      BY <1>0, <1>2
    <3>2. /\ op'[n].awaiting = op[n].awaiting /\ op'[n].save = op[n].save
          /\ op'[n].written = op[n].written
      BY <1>0, <3>1 DEF Operations
    <3> QED BY <3>1, <3>2, Zenon
  <2> QED BY <2>1 DEF CalmOps
<1> QED BY <1>1, <1>2

\* The steps of the guest and the callers, and the end of a prepare thread.
LEMMA CalmActions ==
  ASSUME IInv, VmInv,
         \/ PrepareGuard \/ JoinPrepare \/ GuestExit \/ ExitCallback \/ GuestSpawns
         \/ SpawnCallback \/ Spawned \/ KillCalled \/ KillLocked \/ BootCalled \/ BootLocked
         \/ BootWaited
  PROVE  VmInv'
<1>0. /\ emu \in Emus /\ op \in [Ops -> Operations] /\ emu.ctr \in Nat /\ stoppable = pending
      /\ stoppable \in 0..MaxOps /\ \A n \in 0..MaxOps : n # None => n \in Ops
  BY Parts DEF TypeOK, Emus
<1>1. UNCHANGED handles /\ pending' = pending
  BY Zenon DEF PrepareGuard, JoinPrepare, GuestExit, ExitCallback, GuestSpawns, SpawnCallback,
               Spawned, KillCalled, KillLocked, BootCalled, BootLocked, BootWaited, handles
<1>2. CalmOps
  <2>1. CASE KillCalled \/ KillLocked
    BY <1>0, <1>1, <2>1, OpsAreCalm, Zenon DEF KillCalled, KillLocked, Defer
  <2>2. CASE ~(KillCalled \/ KillLocked)
    <3>1. op' = op
      BY <2>2, Zenon DEF PrepareGuard, JoinPrepare, GuestExit, ExitCallback, GuestSpawns,
                         SpawnCallback, Spawned, BootCalled, BootLocked, BootWaited
    <3> QED BY <1>1, <3>1, OpsAreCalm
  <2> QED BY <2>1, <2>2
<1>3. CalmQueue /\ CalmSaves
  <2>1. CASE GuestExit \/ GuestSpawns
    <3>1. \E k \in {"exit", "spawn"} : Post(Call(k, emu.ctr))
      BY <2>1 DEF GuestExit, GuestSpawns
    <3> QED BY <1>0, <3>1, CallFacts, QueueIsCalm
  <2>2. CASE JoinPrepare \/ ExitCallback \/ SpawnCallback \/ Spawned
    <3>1. queue # <<>> /\ Pop /\ Head(queue).kind \in {"join", "exit", "spawn", "spawned"}
      BY <2>2 DEF JoinPrepare, ExitCallback, SpawnCallback, Spawned, At
    <3> QED BY <3>1, QueueIsCalm
  <2>3. CASE PrepareGuard \/ KillCalled \/ KillLocked \/ BootCalled \/ BootLocked \/ BootWaited
    <3>1. queue' = queue
      BY <2>3 DEF PrepareGuard, KillCalled, KillLocked, BootCalled, BootLocked, BootWaited
    <3> QED BY <3>1, QueueIsCalm
  <2> QED BY <2>1, <2>2, <2>3
<1>4. CalmVm
  <2>1. ASSUME emu' = emu PROVE CalmVm
    BY <1>0, <2>1 DEF CalmVm, SameVm
  <2>2. ASSUME emu' = Killed(emu) PROVE CalmVm
    BY <1>0, <2>2, KillIsCalm
  <2>3. ASSUME emu.state = "stopped", emu' = [emu EXCEPT !.state = "starting"] PROVE CalmVm
    BY <1>0, <2>3 DEF CalmVm, StartsVm, Emus
  <2>4. CASE PrepareGuard
    <3> DEFINE f == [emu EXCEPT !.prep = "none", !.who = None]
               g == [f EXCEPT !.continuous = FALSE]
    <3>1. /\ f \in Emus /\ f.prep = "none" /\ f.state = emu.state /\ f.closing = emu.closing
          /\ f.ctr = emu.ctr /\ f.join = emu.join
      BY <1>0, Pointers, Zenon DEF Emus
    <3> HIDE DEF f
    <3>2. /\ g \in Emus /\ g.prep = "none" /\ g.state = emu.state /\ g.closing = emu.closing
          /\ g.ctr = emu.ctr /\ g.join = emu.join
      BY <3>1, Zenon DEF Emus
    <3>3. emu' = [g EXCEPT !.akc = None] /\ emu.prep = "guard"
      BY <2>4 DEF PrepareGuard, f
    <3> HIDE DEF g
    <3>4. /\ emu' \in Emus /\ emu'.prep = "none" /\ emu'.state = emu.state
          /\ emu'.closing = emu.closing /\ emu'.ctr = emu.ctr /\ emu'.join = emu.join
      BY <3>2, <3>3, Pointers DEF Emus
    <3> QED BY <3>3, <3>4 DEF CalmVm, SameVm
  <2>5. CASE SpawnCallback
    <3> DEFINE e == [emu EXCEPT !.akc = Spawn, !.continuous = TRUE]
               f == [emu EXCEPT !.akc = Spawn]
    <3>1. /\ f \in Emus /\ f.prep = emu.prep /\ f.state = emu.state /\ f.closing = emu.closing
          /\ f.ctr = emu.ctr /\ f.join = emu.join
      BY <1>0, Pointers, SMTT(30) DEF Emus
    <3>2. e = [f EXCEPT !.continuous = TRUE]
      OBVIOUS
    <3>3. emu' = Killed(e) \/ emu' = emu
      BY <2>5, Zenon DEF SpawnCallback
    <3> HIDE DEF e, f
    <3>4. /\ e \in Emus /\ e.prep = emu.prep /\ e.state = emu.state /\ e.closing = emu.closing
          /\ e.ctr = emu.ctr /\ e.join = emu.join
      BY <3>1, <3>2, Zenon DEF Emus
    <3> QED BY <1>0, <2>1, <3>3, <3>4, KillIsCalm
  <2> QED
    BY <2>1, <2>2, <2>3, <2>4, <2>5
       DEF JoinPrepare, GuestExit, ExitCallback, GuestSpawns, Spawned, KillCalled, KillLocked,
           BootCalled, BootLocked, BootWaited, BootGame
<1> QED BY <1>2, <1>3, <1>4, CalmStep

\* Callbacks that finish the pending operation, or nothing.
LEMMA FinishStep ==
  ASSUME IInv, VmInv, queue # <<>>, Pop, Head(queue).kind \notin {"final", "prepared"},
         \/ Skip
         \/ \E n \in Ops, success \in BOOLEAN, ops \in [Ops -> Operations] :
              /\ pending = n /\ Finish(n, success, emu, ops)
              /\ \A k \in Ops : k # n => ops[k] = op[k]
  PROVE  VmInv'
<1>1. CalmQueue /\ CalmSaves
  BY QueueIsCalm
<1>2. CASE Skip
  <2>1. emu' = emu /\ op' = op /\ pending' = pending
    BY <1>2 DEF Skip, handles
  <2>2. CalmVm
    BY <2>1, Parts DEF CalmVm, SameVm
  <2> QED BY <1>1, <2>1, <2>2, OpsAreCalm, CalmStep
<1>3. ASSUME NEW n \in Ops, NEW success \in BOOLEAN, NEW ops \in [Ops -> Operations],
             pending = n, Finish(n, success, emu, ops), \A k \in Ops : k # n => ops[k] = op[k]
      PROVE  VmInv'
  BY <1>1, <1>3, FinishIsCalm, CalmStep DEF VmInv
<1> QED BY <1>2, <1>3

\* The run callback and the failures posted by completed() and stopped().
LEMMA EndVm ==
  ASSUME IInv, VmInv, Running \/ Fail
  PROVE  VmInv'
<1>1. queue # <<>> /\ Pop /\ Head(queue).kind \in {"running", "fail"}
  BY Zenon DEF Running, Fail, At
<1>2. CASE Skip
  BY <1>1, <1>2, FinishStep
<1>3. CASE ~Skip
  <2>1. PICK n \in Ops, success \in BOOLEAN : pending = n /\ Finish(n, success, emu, op)
    <3>1. CASE Running
      <4>1. PICK n \in Ops : n = pending
        BY <1>3, <3>1, Parts DEF Running, TypeOK
      <4>2. op[n].captured \in BOOLEAN
        BY Parts DEF Operations
      <4> QED BY <1>3, <3>1, <4>1, <4>2, Zenon DEF Running
    <3>2. CASE Fail
      <4>1. PICK n \in Ops : n = Arg
        BY <1>1, <3>2, PopFacts DEF Fail, At
      <4> QED BY <1>3, <3>2, <4>1, Zenon DEF Fail
    <3> QED BY <3>1, <3>2
  <2> QED BY <1>1, <2>1, Parts, FinishStep
<1> QED BY <1>2, <1>3

\* completed() takes back a capture that was never made.
LEMMA SaveFailedVm ==
  ASSUME IInv, VmInv, SaveFailed
  PROVE  VmInv'
<1> DEFINE t == Tail(queue)
<1>0. queue \in Seq(Callbacks) /\ queue # <<>> /\ Head(queue).kind = "saveFailed"
      /\ UNCHANGED <<emu, pending>>
  BY Parts DEF SaveFailed, At, handles
<1>1. /\ t \in Seq(Callbacks) /\ \A d : In(t, d) => In(queue, d)
  BY <1>0, TailFacts
<1>2. /\ Has(t, "final") <=> Has(queue, "final")
      /\ Has(t, "prepared") <=> Has(queue, "prepared")
      /\ Has(t, "running") <=> Has(queue, "running")
      /\ Single(t, "final") /\ Single(t, "prepared")
      /\ ~Behind(t, "final", "running") /\ ThisVm(t, emu.ctr)
      /\ Has(queue, "saveFailed") /\ ~Behind(t, "prepared", "saveFailed")
  BY <1>0, TailKinds DEF VmInv, KillOnce, RunInv, SavedInv
<1>3. CalmVm
  BY <1>0, Parts DEF CalmVm, SameVm
<1> HIDE DEF t
<1>j. Call("join", 0) \in Callbacks /\ Call("join", 0).kind = "join"
  BY CallFacts
<1>4. CASE Become(Call("join", 0)) /\ UNCHANGED <<op, misled>>
  <2>1. queue' = <<Call("join", 0)>> \o t
    BY <1>4 DEF Become, t
  <2>2. CalmQueue /\ CalmSaves
    <3>1. \A n \in Ops : Posted("op", n)' => Posted("op", n)
      BY <1>1, <1>j, <2>1, ConsFacts, CallInjective DEF Posted
    <3> QED BY <1>1, <1>2, <1>j, <2>1, <3>1, ConsKinds DEF CalmQueue, CalmSaves
  <2>3. CalmOps
    BY <1>0, <1>4, OpsAreCalm
  <2> QED BY <1>3, <2>2, <2>3, CalmStep
<1>5. ASSUME pending # None, op[pending].save,
             queue' = <<Call("join", 0)>> \o Append(t, Call("fail", pending)),
             op' = [op EXCEPT ![pending].written = FALSE]
      PROVE  VmInv'
  <2>0. PICK p \in Ops : p = pending
    BY <1>5, Parts DEF TypeOK
  <2> DEFINE c == Call("fail", p)
             r == Append(t, c)
  <2>c. c \in Callbacks /\ c.kind = "fail"
    BY CallFacts
  <2>1. queue' = <<Call("join", 0)>> \o r
    BY <1>5, <2>0
  <2>2. /\ r \in Seq(Callbacks) /\ \A d : In(r, d) => In(t, d) \/ d = c
    BY <1>1, <2>c, AppendFacts
  <2>3. /\ Has(r, "final") <=> Has(queue, "final")
        /\ Has(r, "prepared") <=> Has(queue, "prepared")
        /\ Has(r, "running") <=> Has(queue, "running")
        /\ Single(r, "final") /\ Single(r, "prepared")
        /\ ~Behind(r, "final", "running") /\ ThisVm(r, emu.ctr)
        /\ ~Behind(r, "prepared", "saveFailed")
    BY <1>1, <1>2, <2>c, AppendKinds, Zenon
  <2> HIDE DEF r
  <2>4. \A n \in Ops : Posted("op", n)' => Posted("op", n)
    BY <1>1, <1>j, <2>1, <2>2, ConsFacts, CallInjective DEF Posted
  <2>5. CalmQueue /\ CalmSaves
    BY <1>2, <1>j, <2>1, <2>2, <2>3, <2>4, ConsKinds DEF CalmQueue, CalmSaves
  <2>6. \A n \in Ops : /\ op'[n].awaiting = op[n].awaiting /\ op'[n].save = op[n].save
                       /\ n # p => op'[n].written = op[n].written
                       /\ ~op'[p].written
    BY <1>5, <2>0, Parts, ZenonT(60) DEF Operations
  <2>7. ~op[p].written
    BY <1>2 DEF VmInv, SavedInv
  <2>8. CalmOps
    <3>1. ~op[p].awaiting
      BY <1>5, <2>0, <2>7 DEF VmInv, SavedInv
    <3> QED BY <1>0, <2>0, <2>6, <3>1 DEF CalmOps
  <2> QED BY <1>3, <2>5, <2>8, CalmStep
<1> QED BY <1>4, <1>5, Zenon DEF SaveFailed, t

-----------------------------------------------------------------------------
(* The stages of a Kill, and the steps of operations that meet them *)

\* What an absent kind of callback is not in the way of.
LEMMA NoKind ==
  ASSUME NEW q, NEW k, ~Has(q, k)
  PROVE  Single(q, k) /\ \A l : ~Behind(q, k, l) /\ ~Behind(q, l, k)
BY DEF Has, Single, Behind

\* A request meets no Kill.
LEMMA RequestVm ==
  ASSUME IInv, VmInv, NEW save \in BOOLEAN, Request(save)
  PROVE  VmInv'
<1> DEFINE n == used + 1
<1>1. /\ n \in Ops /\ pending' = n /\ n > used /\ pending = None /\ ~emu.closing
      /\ op' = [op EXCEPT ![n].save = save] /\ queue' = Append(queue, Call("op", n))
      /\ emu' = emu
  BY Parts, BoundsAssumption DEF Request, Post, Ops
<1> HIDE DEF n
<1>2. CalmVm
  BY <1>1, Parts DEF CalmVm, SameVm
<1>3. CalmQueue /\ ~Behind(queue', "prepared", "saveFailed")
      /\ (Has(queue', "saveFailed") => Has(queue, "saveFailed"))
  <2>1. Call("op", n) \in Callbacks /\ Call("op", n).kind = "op"
    BY <1>1, CallFacts
  <2> QED BY <1>1, <2>1, Parts, AppendKinds DEF CalmQueue, VmInv, KillOnce, RunInv, SavedInv
<1>4. \A k \in Ops : op'[k].awaiting = op[k].awaiting /\ op'[k].written = op[k].written
  BY <1>1, Parts, ZenonT(60) DEF Operations
<1>5. \A k \in Ops : ~op[k].awaiting /\ ~op[k].written
  BY <1>1, Pointers DEF VmInv, SavedInv
<1>6. ~Saving /\ ~Saving'
  BY <1>1, <1>3 DEF VmInv, KillOnce, Saving, Preparing, CalmQueue
<1>7. SavedInv'
  BY <1>1, <1>3, <1>4, <1>5, <1>6 DEF SavedInv, Saving, Preparing
<1> QED BY <1>2, <1>3, <1>7, CalmKill, Parts DEF VmInv

\* The prepare thread hands the Kill to the dispatcher.
LEMMA PrepareOkVm ==
  ASSUME IInv, VmInv, PrepareOk
  PROVE  VmInv'
<1> DEFINE c == Call("prepared", emu.ctr)
<1>1. /\ emu.prep = "working" /\ emu'.prep = "none" /\ emu'.state = emu.state
      /\ emu'.closing = emu.closing /\ emu'.ctr = emu.ctr /\ emu'.join = emu.join
  BY Parts, Zenon DEF PrepareOk, Emus
<1>2. UNCHANGED <<pending, op>> /\ queue' = Append(queue, c)
  BY DEF PrepareOk, Post, handles
<1>3. c \in Callbacks /\ c.kind = "prepared" /\ c.arg = emu.ctr
  BY Parts, CallFacts DEF Emus
<1>4. \A n : Posted("op", n)' => Posted("op", n)
  BY <1>2, <1>3, Parts, AppendFacts, CallFacts DEF Posted
<1> HIDE DEF c
<1>5. ~Has(queue, "prepared") /\ emu.state = "running" /\ emu.join = "none"
      /\ ~Has(queue, "final")
  BY <1>1, Parts DEF VmInv, KillOnce, Preparing, Emus
<1>6. /\ Has(queue', "prepared") /\ \A k : k # "prepared" => (Has(queue', k) <=> Has(queue, k))
      /\ Single(queue', "prepared") /\ Single(queue', "final")
      /\ ~Behind(queue', "prepared", "saveFailed") /\ ~Behind(queue', "final", "running")
      /\ ThisVm(queue', emu.ctr)
  BY <1>2, <1>3, <1>5, Parts, AppendKinds, Zenon DEF VmInv, KillOnce, RunInv, SavedInv
<1>7. KillOnce' /\ RunInv'
  BY <1>1, <1>5, <1>6, Zenon DEF VmInv, KillOnce, RunInv, Preparing
<1>8. SavedInv'
  <2>1. Saving
    BY <1>1 DEF Saving, Preparing
  <2>2. \A n \in Ops : ~op[n].written
    BY <1>1 DEF VmInv, SavedInv
  <2> QED BY <1>1, <1>2, <1>4, <1>5, <1>6, <2>1, <2>2, Zenon DEF VmInv, SavedInv, Posted
<1> QED BY <1>7, <1>8 DEF VmInv

\* Or it gives the Kill up.
LEMMA PrepareFailsVm ==
  ASSUME IInv, VmInv, PrepareFails
  PROVE  VmInv'
<1>1. /\ emu.prep = "working" /\ emu'.prep = "failed" /\ emu'.state = emu.state
      /\ ~emu'.closing /\ emu'.ctr = emu.ctr /\ emu'.join = emu.join
  BY Parts, Zenon DEF PrepareFails, Emus
<1>2. UNCHANGED <<pending, op, queue>>
  BY SMTT(30) DEF PrepareFails, handles
<1>3. KillOnce' /\ RunInv'
  BY <1>1, <1>2 DEF VmInv, KillOnce, RunInv, Preparing
<1>4. SavedInv'
  BY <1>1, <1>2, Zenon DEF VmInv, KillOnce, SavedInv, Saving, Preparing, Posted
<1> QED BY <1>3, <1>4 DEF VmInv

\* A failed prepare thread tells completed() when no save is under way.
LEMMA PrepareTellsVm ==
  ASSUME IInv, VmInv, PrepareTells
  PROVE  VmInv'
<1>0. PICK n \in Ops : n = emu.who
  BY Parts DEF PrepareTells, KnownInv
<1> DEFINE c == Call("saveFailed", n)
<1>1. /\ emu.prep = "failed" /\ emu'.prep = "guard" /\ emu'.state = emu.state
      /\ emu'.closing = emu.closing /\ emu'.ctr = emu.ctr /\ emu'.join = emu.join
      /\ emu' \in Emus
  BY Parts DEF PrepareTells, Emus
<1>2. UNCHANGED <<pending, op>> /\ queue' = Append(queue, c)
  BY <1>0 DEF PrepareTells, Post, handles
<1>3. c \in Callbacks /\ c.kind = "saveFailed"
  BY CallFacts
<1>4. \A k : Posted("op", k)' => Posted("op", k)
  BY <1>2, <1>3, Parts, AppendFacts, CallFacts DEF Posted
<1> HIDE DEF c
<1>5. ~Has(queue, "prepared") /\ emu.join # "saving"
  BY <1>1 DEF VmInv, SavedInv
<1>6. CalmQueue /\ ~Behind(queue', "prepared", "saveFailed")
  BY <1>2, <1>3, <1>5, Parts, AppendKinds, Zenon DEF VmInv, KillOnce, RunInv, SavedInv, CalmQueue
<1>7. CalmVm
  BY <1>1 DEF CalmVm, SameVm
<1>8. SavedInv'
  <2>1. \A k \in Ops : ~op[k].written
    BY <1>1, Zenon DEF VmInv, SavedInv
  <2> QED BY <1>1, <1>2, <1>4, <1>5, <1>6, <2>1, Zenon
             DEF VmInv, SavedInv, Saving, Preparing, CalmQueue, Posted
<1> QED BY <1>6, <1>7, <1>8, CalmKill, Parts DEF VmInv

\* The second stage of a Kill with a savestate meets the VM it was posted for.
LEMMA PreparedVm ==
  ASSUME IInv, VmInv, Prepared
  PROVE  VmInv'
<1>0. queue \in Seq(Callbacks) /\ queue # <<>> /\ Head(queue).kind = "prepared"
      /\ queue' = Tail(queue) /\ UNCHANGED <<pending, op>>
  BY Parts, SMTT(30) DEF Prepared, At, Pop, handles
<1>1. Arg = emu.ctr
  <2>1. 1 \in 1..Len(queue) /\ Head(queue) = queue[1]
    BY <1>0
  <2> QED BY <1>0, <2>1 DEF VmInv, RunInv, ThisVm, Arg
<1>2. /\ Has(queue, "prepared") /\ ~Has(queue', "prepared") /\ ~Has(queue', "saveFailed")
      /\ Has(queue', "final") <=> Has(queue, "final")
      /\ Has(queue', "running") => Has(queue, "running")
      /\ Single(queue', "final") /\ ~Behind(queue', "final", "running")
      /\ ThisVm(queue', emu.ctr)
  BY <1>0, TailKinds DEF VmInv, KillOnce, RunInv, SavedInv
<1>3. Single(queue', "prepared") /\ ~Behind(queue', "prepared", "saveFailed")
  BY <1>2, NoKind
<1>4. /\ emu.state = "running" /\ emu.closing /\ emu.prep = "none" /\ emu.join = "none"
      /\ ~Has(queue, "final")
  BY <1>2 DEF VmInv, KillOnce, SavedInv, Preparing
<1>5. emu' = [emu EXCEPT !.state = "stopping", !.join = "saving"]
  BY <1>1, <1>4 DEF Prepared
<1>6. /\ emu'.state = "stopping" /\ emu'.join = "saving" /\ emu'.closing = emu.closing
      /\ emu'.prep = emu.prep /\ emu'.ctr = emu.ctr
  BY <1>5, Parts, Zenon DEF Emus
<1>7. KillOnce' /\ RunInv'
  BY <1>2, <1>3, <1>4, <1>6, SMTT(30) DEF KillOnce, RunInv, Preparing
<1>8. SavedInv'
  <2>1. Saving
    BY <1>2 DEF Saving, Preparing
  <2>2. \A n : Posted("op", n)' => Posted("op", n)
    BY <1>0, TailFacts DEF Posted
  <2> QED BY <1>0, <1>2, <1>3, <1>4, <1>6, <2>1, <2>2, Zenon DEF VmInv, SavedInv, Posted
<1> QED BY <1>7, <1>8 DEF VmInv

\* The join thread writes the savestate of an operation that has started.
LEMMA JoinSavesVm ==
  ASSUME IInv, VmInv, JoinSaves
  PROVE  VmInv'
<1>1. /\ emu.join = "saving" /\ emu'.join = "joining" /\ emu'.state = emu.state
      /\ emu'.closing = emu.closing /\ emu'.ctr = emu.ctr /\ emu'.prep = emu.prep
  BY Parts DEF JoinSaves, Emus
<1>2. UNCHANGED <<pending, queue>>
  BY DEF JoinSaves, handles
<1>3. KillOnce' /\ RunInv'
  BY <1>1, <1>2, Zenon DEF VmInv, KillOnce, RunInv, Preparing
<1>4. Saving /\ emu.prep = "none" /\ ~Has(queue, "saveFailed") /\ ~Has(queue, "prepared")
      /\ emu.state = "stopping"
  BY <1>1, Zenon DEF VmInv, KillOnce, SavedInv, Saving, Preparing
<1>5. ~Saving'
  BY <1>1, <1>2, <1>4 DEF Saving, Preparing
<1>6. ASSUME op' = op PROVE SavedInv'
  BY <1>1, <1>2, <1>5, <1>6, Zenon DEF VmInv, SavedInv, Posted
<1>7. ASSUME NEW success \in BOOLEAN, pending # None,
             op' = [op EXCEPT ![pending].written = success]
      PROVE  SavedInv'
  <2>0. PICK p \in Ops : p = pending
    BY <1>7, Parts DEF TypeOK
  <2>1. /\ \A n \in Ops : op'[n].awaiting = op[n].awaiting /\ op'[n].save = op[n].save
        /\ \A n \in Ops : n # p => op'[n].written = op[n].written
    BY <1>7, <2>0, Parts, ZenonT(60) DEF Operations
  <2>2. ~op[p].awaiting /\ ~Posted("op", p)
    BY <1>4, <1>7, <2>0 DEF VmInv, SavedInv
  <2> QED BY <1>1, <1>2, <1>4, <1>5, <2>0, <2>1, <2>2, Zenon DEF VmInv, SavedInv, Posted
<1> QED BY <1>3, <1>6, <1>7, Zenon DEF JoinSaves, VmInv

\* The join thread hands the Kill back to the dispatcher.
LEMMA JoinEndsVm ==
  ASSUME IInv, VmInv, JoinEnds
  PROVE  VmInv'
<1> DEFINE c == Call("final", emu.ctr)
<1>1. /\ emu.join = "joining" /\ emu'.join = "none" /\ emu'.state = emu.state
      /\ emu'.closing = emu.closing /\ emu'.ctr = emu.ctr /\ emu'.prep = emu.prep
  BY Parts DEF JoinEnds, Emus
<1>2. UNCHANGED <<pending, op>> /\ queue' = Append(queue, c)
  BY DEF JoinEnds, Post, handles
<1>3. c \in Callbacks /\ c.kind = "final"
  BY Parts, CallFacts DEF Emus
<1>4. \A n : Posted("op", n)' => Posted("op", n)
  BY <1>2, <1>3, Parts, AppendFacts, CallFacts DEF Posted
<1> HIDE DEF c
<1>5. ~Has(queue, "final") /\ emu.state = "stopping"
  BY <1>1 DEF VmInv, KillOnce
<1>6. /\ Has(queue', "final") /\ \A k : k # "final" => (Has(queue', k) <=> Has(queue, k))
      /\ Single(queue', "prepared") /\ Single(queue', "final")
      /\ ~Behind(queue', "prepared", "saveFailed") /\ ~Behind(queue', "final", "running")
      /\ ThisVm(queue', emu.ctr)
  BY <1>2, <1>3, <1>5, Parts, AppendKinds, Zenon DEF VmInv, KillOnce, RunInv, SavedInv
<1>7. KillOnce' /\ RunInv'
  BY <1>1, <1>5, <1>6, Zenon DEF VmInv, KillOnce, RunInv, Preparing
<1>8. SavedInv'
  BY <1>1, <1>2, <1>4, <1>6, Zenon DEF VmInv, SavedInv, Saving, Preparing, Posted
<1> QED BY <1>7, <1>8 DEF VmInv

\* The VM runs.
LEMMA RunsVm ==
  ASSUME IInv, VmInv, Runs
  PROVE  VmInv'
<1> DEFINE c == Call("running", emu.ctr)
<1>1. /\ emu.state = "starting" /\ emu'.state = "running" /\ emu'.join = emu.join
      /\ emu'.closing = emu.closing /\ emu'.ctr = emu.ctr /\ emu'.prep = emu.prep
  BY Parts DEF Runs, Emus
<1>2. UNCHANGED <<pending, op>> /\ queue' = Append(queue, c)
  BY DEF Runs, Post, handles
<1>3. c \in Callbacks /\ c.kind = "running" /\ c.arg = emu.ctr
  BY Parts, CallFacts DEF Emus
<1>4. \A n : Posted("op", n)' => Posted("op", n)
  BY <1>2, <1>3, Parts, AppendFacts, CallFacts DEF Posted
<1> HIDE DEF c
<1>5. ~Has(queue, "final") /\ emu.join = "none" /\ ~Preparing
  BY <1>1 DEF VmInv, KillOnce
<1>6. /\ \A k : k # "running" => (Has(queue', k) <=> Has(queue, k))
      /\ Single(queue', "prepared") /\ Single(queue', "final")
      /\ ~Behind(queue', "prepared", "saveFailed") /\ ~Behind(queue', "final", "running")
      /\ ThisVm(queue', emu.ctr)
  BY <1>2, <1>3, <1>5, Parts, AppendKinds, Zenon DEF VmInv, KillOnce, RunInv, SavedInv
<1>7. KillOnce' /\ RunInv'
  BY <1>1, <1>5, <1>6, Zenon DEF VmInv, KillOnce, RunInv, Preparing
<1>8. SavedInv'
  BY <1>1, <1>2, <1>4, <1>6, Zenon DEF VmInv, SavedInv, Saving, Preparing, Posted
<1> QED BY <1>7, <1>8 DEF VmInv

\* The last stage of a Kill leaves no other stage and no run callback behind.
LEMMA FinalVm ==
  ASSUME IInv, VmInv, Final
  PROVE  VmInv'
<1> DEFINE t == Tail(queue)
           r == IF stoppable # None /\ op[stoppable].awaiting
                THEN Append(t, Call("fail", stoppable)) ELSE t
<1>0. queue \in Seq(Callbacks) /\ queue # <<>> /\ Head(queue).kind = "final"
      /\ UNCHANGED <<pending, op>>
  BY Parts DEF Final, At, handles
<1>1. /\ emu'.ctr = emu.ctr + 1 /\ ~emu'.closing /\ emu'.state = "stopped"
      /\ emu'.join = emu.join /\ emu'.prep = emu.prep
  <2> DEFINE n == emu.ctr + 1
             f == [emu EXCEPT !.ctr = n]
             g == [f EXCEPT !.closing = FALSE, !.state = "stopped"]
  <2>0. n \in Nat
    BY Parts DEF Emus
  <2>2. emu' = [g EXCEPT !.akc = None]
    BY DEF Final
  <2> HIDE DEF n
  <2>1. f \in Emus /\ f.ctr = n /\ f.join = emu.join /\ f.prep = emu.prep
    BY <2>0, Parts DEF Emus
  <2> HIDE DEF f
  <2>3. /\ g \in Emus /\ g.ctr = n /\ ~g.closing /\ g.state = "stopped"
        /\ g.join = emu.join /\ g.prep = emu.prep
    BY <2>1, Zenon DEF Emus
  <2> HIDE DEF g
  <2> QED BY <2>2, <2>3 DEF Emus, n
<1>2. emu.state = "stopping" /\ emu.join = "none" /\ ~Preparing
  BY <1>0, TailKinds DEF VmInv, KillOnce
<1>3. /\ t \in Seq(Callbacks) /\ \A d : In(t, d) => In(queue, d)
      /\ ~Has(t, "final") /\ ~Has(t, "prepared") /\ ~Has(t, "running")
      /\ Has(t, "saveFailed") => Has(queue, "saveFailed")
  <2>1. t \in Seq(Callbacks) /\ \A d : In(t, d) => In(queue, d)
    BY <1>0, TailFacts
  <2>2. /\ Has(t, "prepared") => Has(queue, "prepared")
        /\ Has(t, "saveFailed") => Has(queue, "saveFailed")
        /\ ~Has(t, "final") /\ ~Has(t, "running")
    BY <1>0, TailKinds, SMTT(30) DEF VmInv, KillOnce, RunInv
  <2> QED BY <1>2, <2>1, <2>2 DEF Preparing
<1>4. /\ r \in Seq(Callbacks)
      /\ \A d : In(r, d) => In(queue, d) \/ \E p \in Ops : d = Call("fail", p)
      /\ ~Has(r, "final") /\ ~Has(r, "prepared") /\ ~Has(r, "running")
      /\ Has(r, "saveFailed") => Has(queue, "saveFailed")
  <2> HIDE DEF t
  <2>1. CASE ~(stoppable # None /\ op[stoppable].awaiting)
    BY <1>3, <2>1
  <2>2. CASE stoppable # None /\ op[stoppable].awaiting
    <3>1. PICK p \in Ops : p = stoppable
      BY <2>2, Parts DEF TypeOK
    <3>2. r = Append(t, Call("fail", p))
      BY <2>2, <3>1
    <3>3. Call("fail", p) \in Callbacks /\ Call("fail", p).kind = "fail"
      BY CallFacts
    <3> HIDE DEF r
    <3>4. r \in Seq(Callbacks) /\ \A d : In(r, d) => In(t, d) \/ d = Call("fail", p)
      BY <1>3, <3>2, <3>3, AppendFacts
    <3>5. \A k : Has(r, k) <=> Has(t, k) \/ k = "fail"
      BY <1>3, <3>2, <3>3, AppendKinds
    <3> QED BY <1>3, <3>4, <3>5
  <2> QED BY <2>1, <2>2
<1>5. queue' = CASE emu.akc = None -> r
                 [] emu.akc = Spawn -> <<Call("spawned", 0)>> \o r
                 [] OTHER -> <<Call("after", emu.akc)>> \o r
  BY DEF Final
<1> HIDE DEF r
<1>6. /\ \A d : In(queue', d) => \/ In(r, d) \/ d = Call("spawned", 0)
                                 \/ \E a \in Ops : d = Call("after", a)
      /\ \A k \in {"final", "prepared", "running", "saveFailed"} : Has(queue', k) => Has(r, k)
  <2>1. emu.akc \in Ops \/ emu.akc = None \/ emu.akc = Spawn
    BY Parts, Pointers DEF Emus
  <2>2. CASE emu.akc = None
    <3>1. queue' = r
      BY <1>5, <2>2, BoundsAssumption DEF None, Spawn
    <3> QED BY <3>1
  <2>3. ASSUME NEW c \in Callbacks, queue' = <<c>> \o r, c.kind \in {"spawned", "after"}
        PROVE  /\ \A d : In(queue', d) => In(r, d) \/ d = c
               /\ \A k \in {"final", "prepared", "running", "saveFailed"} :
                    Has(queue', k) => Has(r, k)
    BY <1>4, <2>3, ConsFacts, ConsKinds
  <2>4. CASE emu.akc = Spawn
    <3>1. queue' = <<Call("spawned", 0)>> \o r
      BY <1>5, <2>4, BoundsAssumption DEF None, Spawn
    <3> QED BY <2>3, <3>1, CallFacts
  <2>5. CASE emu.akc \in Ops
    <3>1. queue' = <<Call("after", emu.akc)>> \o r
      BY <1>5, <2>5, Pointers
    <3>2. Call("after", emu.akc) \in Callbacks /\ Call("after", emu.akc).kind = "after"
      BY <2>5, CallFacts
    <3> QED BY <2>3, <2>5, <3>1, <3>2
  <2> QED BY <2>1, <2>2, <2>4, <2>5
<1>7. /\ ~Has(queue', "final") /\ ~Has(queue', "prepared") /\ ~Has(queue', "running")
      /\ Has(queue', "saveFailed") => Has(queue, "saveFailed")
  BY <1>4, <1>6
<1>8. \A n \in Ops : Posted("op", n)' => Posted("op", n)
  BY <1>4, <1>6, CallInjective DEF Posted
<1>9. KillOnce'
  BY <1>1, <1>2, <1>7, NoKind DEF KillOnce, Preparing
<1>10. RunInv'
  <2>1. ThisVm(queue', emu'.ctr)
    BY <1>7 DEF ThisVm, Has
  <2> QED BY <1>7, <2>1, NoKind DEF RunInv
<1>11. SavedInv'
  <2>1. ~Behind(queue', "prepared", "saveFailed")
    BY <1>7, NoKind
  <2> QED BY <1>0, <1>1, <1>2, <1>7, <1>8, <2>1 DEF VmInv, SavedInv, Saving, Preparing, Posted
<1> QED BY <1>9, <1>10, <1>11 DEF VmInv

\* A started operation begins a Kill, with a savestate or without.
LEMMA StartVm ==
  ASSUME IInv, VmInv, Start
  PROVE  VmInv'
<1>0. PICK n \in Ops : n = Arg
  BY PopFacts DEF Start, At
<1>1. /\ queue # <<>> /\ Pop /\ Head(queue).kind = "op" /\ Posted("op", n)
      /\ Head(queue) = Call("op", n)
  BY <1>0, PopFacts DEF Start, At
<1>2. CASE Skip
  BY <1>1, <1>2, FinishStep
<1>3. CASE pending = n /\ Finish(n, FALSE, emu, op)
  BY <1>1, <1>3, Parts, FinishStep, Zenon
<1>4. CASE pending = n /\ Throw(n)
  <2> DEFINE ops == [op EXCEPT ![n].stop = TRUE]
  <2>1. ops \in [Ops -> Operations] /\ \A k \in Ops : k # n => ops[k] = op[k]
    BY Parts, Zenon DEF Operations
  <2>2. Finish(n, FALSE, emu, ops)
    BY <1>4, Zenon DEF Throw
  <2> HIDE DEF ops
  <2> QED BY <1>1, <1>4, <2>1, <2>2, FinishStep, Zenon
<1>5. ASSUME pending = n, UNCHANGED <<handles, op>>, ~emu.closing, emu.state = "running",
             LET e == [emu EXCEPT !.continuous = TRUE, !.akc = n] IN
               emu' = IF op[n].save THEN KilledForSave(e) ELSE Killed(e)
      PROVE  VmInv'
  <2> DEFINE e == [emu EXCEPT !.continuous = TRUE, !.akc = n]
  <2>1. /\ e \in Emus /\ e.state = emu.state /\ e.closing = emu.closing /\ e.ctr = emu.ctr
        /\ e.join = emu.join /\ e.prep = emu.prep
    <3> DEFINE f == [emu EXCEPT !.continuous = TRUE]
    <3>1. /\ f \in Emus /\ f.state = emu.state /\ f.closing = emu.closing /\ f.ctr = emu.ctr
          /\ f.join = emu.join /\ f.prep = emu.prep
      BY Parts, Zenon DEF Emus
    <3>2. e = [f EXCEPT !.akc = n]
      OBVIOUS
    <3> HIDE DEF e, f
    <3> QED BY <3>1, <3>2, Pointers, SMTT(30) DEF Emus
  <2>2. emu' = IF op[n].save THEN KilledForSave(e) ELSE Killed(e)
    BY <1>5
  <2> HIDE DEF e
  <2>3. CalmQueue /\ CalmSaves /\ ~Posted("op", n)'
    BY <1>1, QueueIsCalm, PopFacts
  <2>u. op' = op /\ pending' = n /\ pending = n
    BY <1>5 DEF handles
  <2>4. CASE ~op[n].save
    <3>1. CalmVm
      BY <2>1, <2>2, <2>4, Parts, KillIsCalm
    <3> QED BY <2>3, <2>u, <3>1, OpsAreCalm, CalmStep
  <2>5. CASE op[n].save
    <3>1. emu' = [e EXCEPT !.closing = TRUE, !.prep = "working", !.who = e.akc]
      BY <1>5, <2>1, <2>2, <2>5, Zenon DEF KilledForSave
    <3>2. /\ emu'.closing /\ emu'.prep = "working" /\ emu'.state = "running"
          /\ emu'.ctr = emu.ctr /\ emu'.join = emu.join
      BY <1>5, <2>1, <3>1, ZenonT(40) DEF Emus
    <3>3. ~Has(queue, "prepared") /\ emu.join = "none" /\ ~Has(queue, "final")
      BY <1>5 DEF VmInv, KillOnce, Preparing
    <3>4. KillOnce' /\ RunInv'
      BY <1>5, <2>3, <3>2, <3>3 DEF VmInv, KillOnce, RunInv, Preparing, CalmQueue
    <3>5. \A k \in Ops : ~op[k].written
      BY <1>1, <2>u DEF VmInv, SavedInv
    <3>6. ~op[n].awaiting
      BY <1>1, Parts DEF OrderInv
    <3>7. SavedInv'
      BY <2>3, <2>u, <3>2, <3>3, <3>5, <3>6, Zenon
         DEF VmInv, SavedInv, CalmQueue, CalmSaves, Posted
    <3> QED BY <3>4, <3>7 DEF VmInv
  <2> QED BY <2>4, <2>5
<1> QED
  <2>1. \/ Skip
        \/ pending = n /\ Finish(n, FALSE, emu, op)
        \/ pending = n /\ Throw(n)
        \/ /\ pending = n /\ UNCHANGED <<handles, op>> /\ ~emu.closing /\ emu.state = "running"
           /\ LET e == [emu EXCEPT !.continuous = TRUE, !.akc = n] IN
                emu' = IF op[n].save THEN KilledForSave(e) ELSE Killed(e)
    BY <1>0, Zenon DEF Start
  <2> QED BY <1>2, <1>3, <1>4, <1>5, <2>1, Zenon

\* What the after_kill_callback of operation n does to the operations and the VM.
AfterCases(n) ==
  \/ Skip
  \/ /\ pending = n
     /\ \E success \in BOOLEAN, ops \in [Ops -> Operations] :
          /\ Finish(n, success, emu, ops)
          /\ \A k \in Ops : k # n => ops[k] = op[k]
          /\ success => ops[n] = op[n] /\ op[n].stop /\ op[n].save /\ op[n].written
  \/ /\ pending = n /\ UNCHANGED handles
     /\ emu.state = "stopped" /\ emu' = [emu EXCEPT !.state = "starting"]
     /\ op[n].save => op[n].written
     /\ op' \in [Ops -> Operations] /\ \A k \in Ops : k # n => op'[k] = op[k]
     /\ op'[n].save = op[n].save /\ op'[n].written = op[n].written
     /\ op'[n].ok = op[n].ok /\ op'[n].reports = op[n].reports

\* An after_kill_callback reports a success only of a save that was written, and otherwise
\* boots the savestate, fails or was overtaken.
LEMMA AfterFacts ==
  ASSUME IInv, After
  PROVE  \E n \in Ops : n = Arg /\ AfterCases(n)
<1>0. PICK n \in Ops : n = Arg
  BY PopFacts, Zenon DEF After, At
<1>f. op \in [Ops -> Operations] /\ emu.ctr \in Nat
  BY Parts DEF Emus
<1>s. ASSUME NEW ops \in [Ops -> Operations], \A k \in Ops : k # n => ops[k] = op[k]
      PROVE  /\ [ops EXCEPT ![n].stop = TRUE] \in [Ops -> Operations]
             /\ \A k \in Ops : k # n => [ops EXCEPT ![n].stop = TRUE][k] = op[k]
  BY <1>s, Zenon DEF Operations
<1>1. CASE pending # n /\ Skip
  BY <1>0, <1>1 DEF AfterCases
<1>2. CASE pending = n /\ Throw(n)
  BY <1>0, <1>2, <1>f, <1>s, Zenon DEF Throw, AfterCases
<1>3. ASSUME pending = n, NEW saved \in BOOLEAN, op[n].save /\ ~op[n].written => ~saved,
             LET wait == [op EXCEPT ![n].awaiting = TRUE, ![n].captured = saved,
                                    ![n].resume = emu.ctr] IN
               \/ op[n].stop /\ Finish(n, op[n].save /\ saved, emu, op)
               \/ /\ ~op[n].stop /\ emu.state = "stopped"
                  /\ op[n].save => op[n].written
                  /\ emu' = [emu EXCEPT !.state = "starting"]
                  /\ op' = wait /\ UNCHANGED handles
               \/ ~op[n].stop /\ Finish(n, FALSE, emu, [wait EXCEPT ![n].stop = TRUE])
      PROVE  AfterCases(n)
  <2> DEFINE wait == [op EXCEPT ![n].awaiting = TRUE, ![n].captured = saved,
                                ![n].resume = emu.ctr]
  <2>1. /\ wait \in [Ops -> Operations] /\ \A k \in Ops : k # n => wait[k] = op[k]
        /\ wait[n].save = op[n].save /\ wait[n].written = op[n].written
        /\ wait[n].ok = op[n].ok /\ wait[n].reports = op[n].reports
    <3> DEFINE v == [op EXCEPT ![n].awaiting = TRUE]
               w == [v EXCEPT ![n].captured = saved]
    <3>1. /\ v \in [Ops -> Operations] /\ \A k \in Ops : k # n => v[k] = op[k]
          /\ v[n].save = op[n].save /\ v[n].written = op[n].written
          /\ v[n].ok = op[n].ok /\ v[n].reports = op[n].reports
      BY <1>f, Zenon DEF Operations
    <3>2. wait = [w EXCEPT ![n].resume = emu.ctr]
      OBVIOUS
    <3> HIDE DEF v, wait
    <3>3. /\ w \in [Ops -> Operations] /\ \A k \in Ops : k # n => w[k] = op[k]
          /\ w[n].save = op[n].save /\ w[n].written = op[n].written
          /\ w[n].ok = op[n].ok /\ w[n].reports = op[n].reports
      BY <3>1, SMTT(30) DEF Operations
    <3> HIDE DEF w
    <3> QED BY <1>f, <3>2, <3>3, SMTT(30) DEF Operations
  <2> HIDE DEF wait
  <2>2. CASE op[n].stop /\ Finish(n, op[n].save /\ saved, emu, op)
    <3>1. /\ (op[n].save /\ saved) \in BOOLEAN
          /\ (op[n].save /\ saved) => op[n].save /\ op[n].written
      BY <1>3
    <3> DEFINE s == op[n].save /\ saved
    <3>2. /\ Finish(n, s, emu, op) /\ s \in BOOLEAN
          /\ s => op[n] = op[n] /\ op[n].stop /\ op[n].save /\ op[n].written
      BY <2>2, <3>1
    <3> HIDE DEF s
    <3> QED BY <1>3, <1>f, <3>2, Zenon DEF AfterCases
  <2>3. CASE Finish(n, FALSE, emu, [wait EXCEPT ![n].stop = TRUE])
    BY <1>3, <1>s, <2>1, <2>3, ZenonT(60) DEF AfterCases
  <2>4. CASE /\ emu.state = "stopped" /\ (op[n].save => op[n].written)
             /\ emu' = [emu EXCEPT !.state = "starting"] /\ op' = wait /\ UNCHANGED handles
    BY <1>3, <2>1, <2>4, ZenonT(60) DEF AfterCases
  <2> QED BY <1>3, <2>2, <2>3, <2>4, Zenon DEF wait
<1> QED
  <2>1. \/ pending # n /\ Skip
        \/ pending = n /\ Throw(n)
        \/ pending = n /\ \E saved \in BOOLEAN :
             /\ op[n].save /\ ~op[n].written => ~saved
             /\ LET wait == [op EXCEPT ![n].awaiting = TRUE, ![n].captured = saved,
                                       ![n].resume = emu.ctr] IN
                  \/ op[n].stop /\ Finish(n, op[n].save /\ saved, emu, op)
                  \/ /\ ~op[n].stop /\ emu.state = "stopped"
                     /\ op[n].save => op[n].written
                     /\ emu' = [emu EXCEPT !.state = "starting"]
                     /\ op' = wait /\ UNCHANGED handles
                  \/ ~op[n].stop /\ Finish(n, FALSE, emu, [wait EXCEPT ![n].stop = TRUE])
    BY <1>0, Zenon DEF After
  <2> QED BY <1>0, <1>1, <1>2, <1>3, <2>1, Zenon

\* An operation that waits for its VM has captured its save.
LEMMA AfterVm ==
  ASSUME IInv, VmInv, After
  PROVE  VmInv'
<1>0. PICK n \in Ops : n = Arg /\ AfterCases(n)
  BY AfterFacts
<1>1. queue # <<>> /\ Pop /\ Head(queue).kind = "after"
  BY Zenon DEF After, At
<1>2. CASE Skip
  BY <1>1, <1>2, FinishStep
<1>3. ASSUME pending = n, NEW success \in BOOLEAN, NEW ops \in [Ops -> Operations],
             Finish(n, success, emu, ops), \A k \in Ops : k # n => ops[k] = op[k]
      PROVE  VmInv'
  BY <1>1, <1>3, FinishStep
<1>4. ASSUME pending = n, UNCHANGED handles, emu.state = "stopped",
             emu' = [emu EXCEPT !.state = "starting"], op[n].save => op[n].written,
             \A k \in Ops : k # n => op'[k] = op[k],
             op'[n].save = op[n].save, op'[n].written = op[n].written
      PROVE  VmInv'
  <2>1. CalmVm /\ emu'.prep = emu.prep /\ emu'.join = emu.join
    BY <1>4, Parts, Zenon DEF CalmVm, StartsVm, Emus
  <2>2. CalmQueue /\ CalmSaves
    BY <1>1, QueueIsCalm
  <2>3. ~Saving
    BY <1>4 DEF VmInv, KillOnce, Saving
  <2>4. ~Saving'
    BY <2>1, <2>2, <2>3 DEF Saving, Preparing, CalmQueue
  <2>5. pending' = pending
    BY <1>4 DEF handles
  <2>6. SavedInv'
    BY <1>4, <2>1, <2>2, <2>3, <2>4, <2>5
       DEF VmInv, SavedInv, Saving, Preparing, CalmQueue, CalmSaves
  <2> QED BY <2>1, <2>2, <2>6, CalmKill, Parts DEF VmInv
<1> QED BY <1>0, <1>2, <1>3, <1>4, Zenon DEF AfterCases

-----------------------------------------------------------------------------
(* What a step reports *)

Silent(n) == op'[n].ok = op[n].ok /\ op'[n].reports = op[n].reports

\* The pending operation ends, and what it reports is true
TrueReport(n) ==
  /\ pending = n /\ pending' = None
  /\ op'[n].ok =>
       IF op[n].stop THEN op[n].save /\ op[n].written
       ELSE emu.ctr = op[n].resume /\ emu.state \in {"running", "stopping"}
            /\ (op[n].save => op[n].written)

\* finish() reports for the pending operation only, and no success that its caller did
\* not have.
LEMMA FinishReports ==
  ASSUME IInv, VmInv, NEW n \in Ops, pending = n, NEW success \in BOOLEAN,
         NEW ops \in [Ops -> Operations], Finish(n, success, emu, ops),
         \A k \in Ops : k # n => ops[k] = op[k],
         success => /\ ops[n] = op[n] /\ (op[n].save => op[n].written)
                    /\ ~op[n].stop => emu.ctr = op[n].resume
                                      /\ emu.state \in {"running", "stopping"}
  PROVE  /\ used' = used /\ pending' = None
         /\ \A k \in Ops : Silent(k) \/ TrueReport(k)
<1>1. /\ used' = used /\ pending' = None
      /\ \A k \in Ops : k # n => op'[k] = op[k]
  BY Parts, FinishFacts, SMTT(30)
<1>2. op'[n].ok = (success /\ (ops[n].stop => ops[n].save))
  BY FinishIsCalm DEF VmInv
<1>3. TrueReport(n)
  BY <1>1, <1>2, Zenon DEF TrueReport
<1> QED BY <1>1, <1>3, SMTT(30) DEF Silent

\* Steps of the others report nothing.
LEMMA OthersReport ==
  ASSUME IInv,
         \/ Prepare \/ Join \/ Runs \/ GuestExit \/ GuestSpawns \/ KillCalled \/ KillLocked
         \/ BootCalled \/ BootLocked \/ BootWaited
         \/ SaveFailed \/ JoinPrepare \/ Prepared \/ Final \/ ExitCallback \/ SpawnCallback
         \/ Spawned
  PROVE  /\ used' = used /\ pending' = pending
         /\ \A k \in Ops : Silent(k)
<1>0. /\ op \in [Ops -> Operations] /\ stoppable = pending /\ pending \in 0..MaxOps
      /\ \A n \in 0..MaxOps : n # None => n \in Ops
  BY Parts DEF TypeOK
<1>1. used' = used /\ pending' = pending
  BY Zenon DEF Prepare, PrepareOk, PrepareFails, PrepareTells, PrepareGuard, Join, JoinSaves,
     JoinEnds, Runs, GuestExit, GuestSpawns, KillCalled, KillLocked, BootCalled, BootLocked,
     BootWaited, SaveFailed, JoinPrepare, Prepared, Final, ExitCallback, SpawnCallback, Spawned,
     handles
<1>2. ASSUME op' = op PROVE \A k \in Ops : Silent(k)
  BY <1>2 DEF Silent
<1>3. ASSUME NEW n \in Ops, NEW b \in BOOLEAN,
             op' = [op EXCEPT ![n].written = b] \/ op' = [op EXCEPT ![n].stop = b]
      PROVE  \A k \in Ops : Silent(k)
  <2>1. /\ op'[n] = [op[n] EXCEPT !.written = b] \/ op'[n] = [op[n] EXCEPT !.stop = b]
        /\ \A k \in Ops : k # n => op'[k] = op[k]
    BY <1>0, <1>3
  <2>2. op'[n].ok = op[n].ok /\ op'[n].reports = op[n].reports
    BY <1>0, <2>1 DEF Operations
  <2> QED BY <2>1, <2>2 DEF Silent
<1>4. CASE JoinSaves \/ SaveFailed \/ KillCalled \/ KillLocked
  <2>1. \/ op' = op
        \/ \E n \in Ops, b \in BOOLEAN :
             op' = [op EXCEPT ![n].written = b] \/ op' = [op EXCEPT ![n].stop = b]
    <3>1. CASE JoinSaves
      BY <1>0, <3>1, Zenon DEF JoinSaves
    <3>2. CASE SaveFailed
      BY <1>0, <3>2, Zenon DEF SaveFailed
    <3>3. CASE KillCalled \/ KillLocked
      BY <1>0, <3>3, Zenon DEF KillCalled, KillLocked, Defer
    <3> QED BY <1>4, <3>1, <3>2, <3>3
  <2> QED BY <1>1, <1>2, <1>3, <2>1
<1>5. CASE ~(JoinSaves \/ SaveFailed \/ KillCalled \/ KillLocked)
  <2>1. op' = op
    BY <1>5, Zenon DEF Prepare, PrepareOk, PrepareFails, PrepareTells, PrepareGuard, Join,
       JoinEnds, Runs, GuestExit, GuestSpawns, BootCalled, BootLocked,
       BootWaited, JoinPrepare, Prepared, Final, ExitCallback, SpawnCallback, Spawned
  <2> QED BY <1>1, <1>2, <2>1
<1> QED BY <1>4, <1>5

\* Whatever the core does, a report is about the pending operation and is true.
LEMMA CoreReports ==
  ASSUME IInv, VmInv, Core
  PROVE  /\ used' = used /\ pending' \in {pending, None}
         /\ \A k \in Ops : Silent(k) \/ TrueReport(k)
<1> DEFINE Goal == /\ used' = used /\ pending' \in {pending, None}
                   /\ \A k \in Ops : Silent(k) \/ TrueReport(k)
<1> SUFFICES Goal
  OBVIOUS
<1>f. op \in [Ops -> Operations]
  BY Parts
<1>s. ASSUME Skip PROVE Goal
  BY <1>s DEF Skip, handles, Silent
<1>n. ASSUME NEW n \in Ops, pending = n, NEW ops \in [Ops -> Operations],
             Finish(n, FALSE, emu, ops), \A k \in Ops : k # n => ops[k] = op[k]
      PROVE  Goal
  BY <1>n, FinishReports, Zenon
<1>1. CASE Start
  <2>0. PICK n \in Ops : n = Arg
    BY <1>1, PopFacts DEF Start, At
  <2>1. CASE pending = n /\ Throw(n)
    <3> DEFINE ops == [op EXCEPT ![n].stop = TRUE]
    <3>1. ops \in [Ops -> Operations] /\ \A k \in Ops : k # n => ops[k] = op[k]
      BY <1>f, Zenon DEF Operations
    <3>2. Finish(n, FALSE, emu, ops)
      BY <2>1, Zenon DEF Throw
    <3> HIDE DEF ops, Goal
    <3> QED BY <1>n, <2>1, <3>1, <3>2, Zenon
  <2>2. CASE UNCHANGED <<handles, op>>
    BY <2>2 DEF handles, Silent
  <2>3. \/ Skip
        \/ pending = n /\ Finish(n, FALSE, emu, op)
        \/ pending = n /\ Throw(n)
        \/ UNCHANGED <<handles, op>>
    BY <1>1, <2>0, Zenon DEF Start
  <2> HIDE DEF Goal
  <2> QED BY <1>f, <1>s, <1>n, <2>1, <2>2, <2>3, Zenon
<1>2. CASE After
  <2>0. PICK n \in Ops : n = Arg /\ AfterCases(n)
    BY <1>2, AfterFacts, SMTT(30)
  <2>1. ASSUME pending = n, NEW success \in BOOLEAN, NEW ops \in [Ops -> Operations],
               Finish(n, success, emu, ops), \A k \in Ops : k # n => ops[k] = op[k],
               success => ops[n] = op[n] /\ op[n].stop /\ op[n].save /\ op[n].written
        PROVE  Goal
    BY <2>1, FinishReports, ZenonT(30)
  <2>2. ASSUME pending = n, UNCHANGED handles, \A k \in Ops : k # n => op'[k] = op[k],
               op'[n].ok = op[n].ok /\ op'[n].reports = op[n].reports
        PROVE  Goal
    BY <2>2, SMTT(30) DEF handles, Silent
  <2> HIDE DEF Goal
  <2> QED BY <1>s, <2>0, <2>1, <2>2, Zenon DEF AfterCases
<1>3. CASE Running /\ ~Skip
  <2>1. PICK n \in Ops : n = pending
    BY <1>3, Parts DEF Running, TypeOK
  <2>2. op[n].awaiting /\ op[n].resume = Arg /\ Finish(n, op[n].captured, emu, op)
    BY <1>3, <2>1, Zenon DEF Running
  <2>3. op[n].captured \in BOOLEAN
    BY <1>f DEF Operations
  <2>4. op[n].save => op[n].written
    BY <2>2 DEF VmInv, SavedInv
  <2>5. Arg = emu.ctr /\ emu.state \in {"running", "stopping"}
    <3>1. queue \in Seq(Callbacks) /\ queue # <<>> /\ Head(queue).kind = "running"
      BY <1>3, Parts DEF Running, At
    <3>2. 1 \in 1..Len(queue) /\ queue[1] = Head(queue)
      BY <3>1
    <3>3. Has(queue, "running")
      BY <3>1, <3>2 DEF Has
    <3> QED BY <3>1, <3>2, <3>3 DEF VmInv, RunInv, ThisVm, Arg
  <2> QED BY <1>f, <2>1, <2>2, <2>3, <2>4, <2>5, FinishReports, Zenon
<1>4. CASE Fail /\ ~Skip
  <2>1. PICK n \in Ops : n = Arg
    BY <1>4, PopFacts DEF Fail, At
  <2>2. pending = n /\ Finish(n, FALSE, emu, op)
    BY <1>4, <2>1, Zenon DEF Fail
  <2> HIDE DEF Goal
  <2> QED BY <1>f, <1>n, <2>2, Zenon
<1>5. CASE (Running \/ Fail) /\ Skip
  BY <1>s, <1>5
<1>6. CASE ~(Start \/ After \/ Running \/ Fail)
  BY <1>6, OthersReport DEF Core, Dispatch
<1> QED BY <1>1, <1>2, <1>3, <1>4, <1>5, <1>6

\* A request reports nothing.
LEMMA RequestReports ==
  ASSUME IInv, NEW save \in BOOLEAN, Request(save)
  PROVE  \A k \in Ops : Silent(k)
<1> DEFINE n == used + 1
<1>1. n \in Ops /\ op' = [op EXCEPT ![n].save = save]
  BY Parts, BoundsAssumption DEF Request, Ops
<1> HIDE DEF n
<1>2. /\ op'[n] = [op[n] EXCEPT !.save = save] /\ \A k \in Ops : k # n => op'[k] = op[k]
  BY <1>1, Parts
<1>3. op'[n].ok = op[n].ok /\ op'[n].reports = op[n].reports
  BY <1>1, <1>2, Parts DEF Operations
<1> QED BY <1>2, <1>3, Zenon DEF Silent

-----------------------------------------------------------------------------
(* The theorems about Kills and successes *)

\* At first there is one VM, and nobody has asked for anything.
LEMMA InitVm == Init => VmInv
<1> SUFFICES ASSUME Init PROVE VmInv
  OBVIOUS
<1>1. \A k : ~Has(queue, k)
  BY DEF Init, Has
<1>2. ThisVm(queue, emu.ctr) /\ \A n : ~Posted("op", n)
  BY DEF Init, ThisVm, Posted, In
<1>3. \A n \in Ops : ~op[n].awaiting /\ ~op[n].written
  BY DEF Init, NewOp
<1>4. /\ emu.state = "running" /\ ~emu.closing /\ emu.prep = "none" /\ emu.join = "none"
  BY DEF Init
<1> QED BY <1>1, <1>2, <1>3, <1>4, NoKind DEF VmInv, KillOnce, RunInv, SavedInv, Preparing, Saving

\* A step that changes nothing.
LEMMA StutterVm == VmInv /\ UNCHANGED vars => VmInv'
BY DEF vars, VmInv, KillOnce, RunInv, SavedInv, Preparing, Saving, Posted

\* The stages of Kills, the run callbacks and the captures stay in order, whatever the
\* guest and the app do.
THEOREM KillsInductive == Spec => []VmInv
<1>1. IInv /\ VmInv /\ [Next]_vars => VmInv'
  <2> SUFFICES ASSUME IInv, VmInv, [Next]_vars PROVE VmInv'
    OBVIOUS
  <2> QED
    BY CalmActions, EndVm, SaveFailedVm, RequestVm, PrepareOkVm, PrepareFailsVm, PrepareTellsVm,
       PreparedVm, JoinSavesVm, JoinEndsVm, RunsVm, FinalVm, StartVm, AfterVm, StutterVm, Zenon
       DEF Next, Core, Dispatch, Prepare, Join
<1> QED BY InitVm, <1>1, SaveStatesInductive, PTL DEF Spec

\* A Kill is in one place at a time, and m_emu_state_close_pending is set exactly as long
\* (Emulator::Kill, System.cpp).
THEOREM KillsAreSingle == Spec => []KillOnce
<1>1. VmInv => KillOnce
  BY DEF VmInv
<1> QED BY <1>1, KillsInductive, PTL

\* No operation reports a success that is none (finish, save_states.cpp).
THEOREM SuccessesAreTrue == Spec => SuccessIsTrue
<1> DEFINE Step == \A n \in Ops : op'[n].ok /\ ~op[n].ok =>
                     IF op[n].stop THEN op[n].save /\ op[n].written
                     ELSE emu.ctr = op[n].resume /\ emu.state \in {"running", "stopping"}
                          /\ (op[n].save => op[n].written)
<1>1. IInv /\ VmInv /\ [Next]_vars => [Step]_vars
  <2> SUFFICES ASSUME IInv, VmInv, Next PROVE Step
    BY Zenon
  <2>1. CASE Core
    BY <2>1, CoreReports, Zenon DEF Silent, TrueReport
  <2>2. CASE \E save \in BOOLEAN : Request(save)
    BY <2>2, RequestReports DEF Silent
  <2> QED BY <2>1, <2>2, ZenonT(30) DEF Next
<1> HIDE DEF Step
<1>2. Spec => [][Step]_vars
  BY <1>1, SaveStatesInductive, KillsInductive, PTL DEF Spec
<1> QED BY <1>2 DEF Step, SuccessIsTrue

-----------------------------------------------------------------------------
(* The app *)

Calls == [phase : {"none", "waiting", "stopping", "over"}, settled : BOOLEAN, active : BOOLEAN,
          result : {"none", "ok", "failed"}, answer : {"none", "Success", "Failed", "TimedOut"}]
Events == [id : 0..MaxOps, ok : BOOLEAN, told : BOOLEAN]

\* What a step of the core does to the operations, as the app sees it
Reporting ==
  /\ used' = used /\ pending' \in {pending, None}
  /\ \A k \in Ops : Silent(k) \/ TrueReport(k)

\* Told, after the step
Tells(k, ok) == \E n \in 1..used' : by'[n] = k /\ op'[n].ok = ok /\ pending' # n

\* ToldInv in these terms.
LEMMA TellsInv ==
  ASSUME \A i \in 1..Len(results') : Tells(results'[i][1], results'[i][2]),
         event'.id # None => Tells(event'.id, event'.ok),
         \A k \in Ops :
           /\ call'[k].result = "ok" => Tells(k, TRUE)
           /\ call'[k].result = "failed" => Tells(k, FALSE)
           /\ call'[k].answer = "Success" => Tells(k, TRUE)
           /\ call'[k].answer = "Failed" =>
                k <= calls' /\ (Tells(k, FALSE) \/ \A n \in 1..used' : by'[n] # k)
  PROVE  ToldInv'
BY Zenon DEF ToldInv, Told, Tells

\* A report on its way was there before, or is the new one.
LEMMA AppendedReport ==
  ASSUME NEW R, NEW q \in Seq(R), NEW e, NEW i \in 1..Len(Append(q, e))
  PROVE  \/ Append(q, e)[i] = q[i] /\ i \in 1..Len(q)
         \/ Append(q, e)[i] = e
OBVIOUS

\* The bookkeeping of the app lies in the core's.
LEMMA AppParts ==
  ASSUME IInv, AppInv
  PROVE  /\ call \in [Ops -> Calls] /\ tracked \subseteq Ops /\ by \in [Ops -> 0..MaxOps]
         /\ results \in Seq(Ops \X BOOLEAN) /\ event \in Events
         /\ current \in 0..MaxOps /\ calls \in 0..MaxOps
         /\ used \in 0..MaxOps /\ pending \in 0..MaxOps /\ MaxOps \in Nat
         /\ op \in [Ops -> Operations] /\ None = 0 /\ Ops = 1..MaxOps
         /\ \A n \in 1..used : n \in Ops
<1>1. /\ call \in [Ops -> Calls] /\ tracked \subseteq Ops /\ by \in [Ops -> 0..MaxOps]
      /\ results \in Seq(Ops \X BOOLEAN) /\ event \in Events
      /\ current \in 0..MaxOps /\ calls \in 0..MaxOps
  BY DEF AppInv, AppTypeOK, Calls, Events
<1>2. /\ used \in 0..MaxOps /\ pending \in 0..MaxOps /\ op \in [Ops -> Operations]
  BY Parts DEF TypeOK
<1> QED BY <1>1, <1>2, BoundsAssumption DEF Ops, None

\* A step of the core takes back nothing that was reported.
LEMMA ToldStays ==
  ASSUME IInv, AppInv, Reporting, by' = by, NEW k, NEW ok, Told(k, ok)
  PROVE  Tells(k, ok)
<1>1. PICK n \in 1..used : by[n] = k /\ op[n].ok = ok /\ pending # n
  BY DEF Told
<1>2. n \in Ops /\ n # None
  BY AppParts
<1>3. op'[n].ok = op[n].ok /\ pending' # n /\ n \in 1..used'
  BY <1>1, <1>2 DEF Reporting, Silent, TrueReport
<1> QED BY <1>1, <1>3 DEF Tells

\* A step of the core alone leaves the calls consistent.
LEMMA CoreStepApp ==
  ASSUME IInv, VmInv, IInv', AppInv, CoreStep
  PROVE  AppInv'
<1>0. Reporting /\ UNCHANGED <<call, tracked, by, event, current, calls>>
  BY CoreReports DEF CoreStep, Reporting
<1>1. ByInv'
  BY <1>0 DEF AppInv, ByInv, Reporting
<1>2. \/ results' = results
      \/ \E n \in Ops : Reports(n) /\ results' = Append(results, <<by[n], op'[n].ok>>)
  BY Zenon DEF CoreStep, Reported
<1>3. ASSUME NEW n \in Ops, Reports(n)
      PROVE  n \in 1..used /\ pending = n /\ pending' = None /\ n # None
  <2>1. ~Silent(n)
    BY <1>3, AppParts DEF Reports, Silent, Operations
  <2>2. pending = n /\ pending' = None
    BY <1>0, <2>1 DEF Reporting, TrueReport
  <2>3. pending \in 1..used
    BY <2>2, AppParts, Parts DEF KnownInv
  <2> QED BY <2>2, <2>3, AppParts
<1>4. results' \in Seq(Ops \X BOOLEAN)
  <2>1. ASSUME NEW n \in Ops, Reports(n) PROVE <<by[n], op'[n].ok>> \in Ops \X BOOLEAN
    <3>1. by[n] \in 1..calls
      BY <1>3, <2>1 DEF AppInv, ByInv
    <3>2. op'[n].ok \in BOOLEAN
      BY <2>1 DEF IInv, TypeOK, Operations
    <3>3. by[n] \in Ops
      BY <3>1, AppParts
    <3> QED BY <3>2, <3>3
  <2> DEFINE R == Ops \X BOOLEAN
  <2>2. results \in Seq(R)
    BY AppParts
  <2>4. \A n \in Ops : Reports(n) => <<by[n], op'[n].ok>> \in R
    BY <2>1, Zenon
  <2> HIDE DEF R
  <2>5. \A r \in R : Append(results, r) \in Seq(R)
    BY <2>2
  <2>3. results' \in Seq(R)
    BY <1>2, <2>2, <2>4, <2>5, Zenon
  <2> QED BY <2>3 DEF R
<1>5. AppTypeOK'
  <2>1. TypeOK'
    BY SMTT(30) DEF IInv
  <2> QED BY <1>0, <1>4, <2>1, Zenon DEF AppInv, AppTypeOK
<1>6. ToldInv'
  <2>1. \A i \in 1..Len(results) : Tells(results[i][1], results[i][2])
    BY <1>0, ToldStays, Zenon DEF AppInv, ToldInv
  <2>2. ASSUME NEW i \in 1..Len(results') PROVE Tells(results'[i][1], results'[i][2])
    <3>1. CASE results' = results
      BY <2>1, <3>1
    <3>2. ASSUME NEW n \in Ops, Reports(n), results' = Append(results, <<by[n], op'[n].ok>>)
          PROVE  Tells(results'[i][1], results'[i][2])
      <4>1. \/ results'[i] = results[i] /\ i \in 1..Len(results)
            \/ results'[i] = <<by[n], op'[n].ok>>
        BY <3>2, AppParts, AppendedReport, Zenon
      <4>2. Tells(by[n], op'[n].ok)
        BY <1>0, <1>3, <3>2 DEF Tells, Reporting
      <4> QED BY <2>1, <4>1, <4>2
    <3> QED BY <1>2, <3>1, <3>2
  <2>3. \A k \in Ops :
          /\ call'[k].result = "ok" => Tells(k, TRUE)
          /\ call'[k].result = "failed" => Tells(k, FALSE)
          /\ call'[k].answer = "Success" => Tells(k, TRUE)
          /\ call'[k].answer = "Failed" =>
               k <= calls' /\ (Tells(k, FALSE) \/ \A n \in 1..used' : by'[n] # k)
    BY <1>0, ToldStays, Zenon DEF AppInv, ToldInv, Reporting
  <2>4. event'.id # None => Tells(event'.id, event'.ok)
    BY <1>0, ToldStays, Zenon DEF AppInv, ToldInv
  <2> QED BY <2>2, <2>3, <2>4, TellsInv, Zenon
<1> QED BY <1>1, <1>5, <1>6 DEF AppInv

\* Steps of the app that leave the core alone: what the calls hold must have been reported.
LEMMA AppAlone ==
  ASSUME IInv, AppInv, UNCHANGED vars, UNCHANGED by,
         call' \in [Ops -> Calls], tracked' \subseteq Ops, current' \in 0..MaxOps,
         calls' \in 0..MaxOps, calls <= calls',
         results' = results \/ (results # <<>> /\ results' = Tail(results)),
         event' = event \/ (event' \in Events /\ (event'.id # None => Told(event'.id, event'.ok))),
         \A k \in Ops :
           /\ call'[k].result = "ok" => Told(k, TRUE)
           /\ call'[k].result = "failed" => Told(k, FALSE)
           /\ call'[k].answer = "Success" => Told(k, TRUE)
           /\ call'[k].answer = "Failed" =>
                k <= calls' /\ (Told(k, FALSE) \/ \A n \in 1..used : by[n] # k)
  PROVE  AppInv'
<1>0. UNCHANGED <<used, op, pending, by>>
  BY DEF vars, handles
<1>1. TypeOK'
  BY Stutter DEF IInv
<1>2. /\ results' \in Seq(Ops \X BOOLEAN)
      /\ \A i \in 1..Len(results') : Told(results'[i][1], results'[i][2])
  <2> DEFINE R == Ops \X BOOLEAN
  <2>0. results \in Seq(R) /\ \A i \in 1..Len(results) : Told(results[i][1], results[i][2])
    BY AppParts, Zenon DEF AppInv, ToldInv
  <2> HIDE DEF R
  <2>1. CASE results' = results
    BY <2>0, <2>1, Zenon DEF R
  <2>2. CASE results # <<>> /\ results' = Tail(results)
    <3>1. /\ results' \in Seq(R) /\ Len(results') = Len(results) - 1 /\ Len(results) \in Nat
          /\ \A i \in 1..Len(results') : results'[i] = results[i + 1] /\ i + 1 \in 1..Len(results)
      BY <2>0, <2>2
    <3> QED BY <2>0, <3>1, Zenon DEF R
  <2> QED BY <2>1, <2>2
<1>3. AppTypeOK'
  <2>1. by' \in [Ops -> 0..MaxOps]
    BY <1>0, AppParts
  <2>2. event' \in Events
    BY AppParts
  <2> QED BY <1>1, <1>2, <2>1, <2>2 DEF AppTypeOK, Calls, Events
<1>4. ByInv'
  <2>1. calls \in Nat /\ calls' \in Nat
    BY AppParts, SMTT(30)
  <2> QED BY <1>0, <2>1 DEF AppInv, ByInv
<1>5. ToldInv'
  <2>1. \A k, ok : Told(k, ok) => Tells(k, ok)
    BY <1>0 DEF Told, Tells
  <2>2. \A i \in 1..Len(results') : Tells(results'[i][1], results'[i][2])
    BY <1>2, <2>1, Zenon
  <2>3. \A k \in Ops :
          /\ call'[k].result = "ok" => Tells(k, TRUE)
          /\ call'[k].result = "failed" => Tells(k, FALSE)
          /\ call'[k].answer = "Success" => Tells(k, TRUE)
          /\ call'[k].answer = "Failed" =>
               k <= calls' /\ (Tells(k, FALSE) \/ \A n \in 1..used' : by'[n] # k)
    BY <1>0, <2>1, Zenon
  <2>4. event'.id # None => Tells(event'.id, event'.ok)
    BY <2>1, Zenon DEF AppInv, ToldInv
  <2> QED BY <2>2, <2>3, <2>4, TellsInv, Zenon
<1> QED BY <1>3, <1>4, <1>5 DEF AppInv

\* One call changes.
LEMMA CallEdit ==
  ASSUME call \in [Ops -> Calls], NEW k \in Ops, NEW c \in Calls, call' = [call EXCEPT ![k] = c]
  PROVE  /\ call' \in [Ops -> Calls] /\ call'[k] = c
         /\ \A j \in Ops : j # k => call'[j] = call[j]
OBVIOUS

\* A refused call fails; no operation carries its id.
LEMMA RefusedApp ==
  ASSUME IInv, AppInv, Refused
  PROVE  AppInv'
<1> DEFINE k == calls + 1
           c == [call[k] EXCEPT !.phase = "over", !.settled = TRUE, !.answer = "Failed"]
<1>1. /\ k \in Ops /\ calls' = k /\ UNCHANGED <<vars, tracked, by, results, event, current>>
      /\ call' = [call EXCEPT ![k].phase = "over", ![k].settled = TRUE, ![k].answer = "Failed"]
  BY AppParts DEF Refused, Operate
<1>2. /\ \A n \in 1..used : by[n] # k
      /\ calls <= k /\ k <= k /\ k \in 0..MaxOps
      /\ \A j \in Ops : j <= calls => j <= k
  BY <1>1, AppParts DEF AppInv, ByInv
<1> HIDE DEF k
<1>3. call \in [Ops -> Calls] /\ call[k] \in Calls
  BY <1>1, AppParts
<1>4. c.result = call[k].result /\ c.answer = "Failed"
  BY <1>3 DEF Calls
<1>5. c \in Calls
  BY <1>3, Zenon DEF Calls
<1>6. call' = [call EXCEPT ![k] = c]
  BY <1>1, <1>3, Zenon
<1> HIDE DEF c
<1>7. /\ call' \in [Ops -> Calls] /\ call'[k] = c
      /\ \A j \in Ops : j # k => call'[j] = call[j]
  BY <1>1, <1>3, <1>5, <1>6, CallEdit
<1>8. \A j \in Ops :
        /\ call'[j].result = "ok" => Told(j, TRUE)
        /\ call'[j].result = "failed" => Told(j, FALSE)
        /\ call'[j].answer = "Success" => Told(j, TRUE)
        /\ call'[j].answer = "Failed" =>
             j <= calls' /\ (Told(j, FALSE) \/ \A n \in 1..used : by[n] # j)
  BY <1>1, <1>2, <1>4, <1>7, Zenon DEF AppInv, ToldInv
<1>9. tracked' \subseteq Ops /\ current' \in 0..MaxOps /\ calls' \in 0..MaxOps /\ calls <= calls'
  BY <1>1, <1>2, AppParts
<1> QED BY <1>1, <1>7, <1>8, <1>9, AppAlone, Zenon

\* A report that onEvent takes up was on its way.
LEMMA DeliverApp ==
  ASSUME IInv, AppInv, Deliver
  PROVE  AppInv'
<1> DEFINE k == Head(results)[1]
           ok == Head(results)[2]
           e == [id |-> k, ok |-> ok, told |-> FALSE]
<1>1. /\ results # <<>> /\ results' = Tail(results) /\ event' \in {event, e}
      /\ UNCHANGED <<vars, call, tracked, by, current, calls>>
  BY DEF Deliver, OnEvent
<1>2. k \in Ops /\ ok \in BOOLEAN /\ Told(k, ok)
  <2> DEFINE R == Ops \X BOOLEAN
  <2>1. results \in Seq(R)
    BY AppParts
  <2> HIDE DEF R
  <2>2. Head(results) \in R /\ Head(results) = results[1] /\ 1 \in 1..Len(results)
    BY <1>1, <2>1
  <2> QED BY <2>2 DEF R, AppInv, ToldInv
<1> HIDE DEF k, ok
<1>3. e \in Events /\ e.id = k /\ e.ok = ok
  BY <1>2, AppParts DEF Events
<1> HIDE DEF e
<1>4. event' = event \/ (event' \in Events /\ (event'.id # None => Told(event'.id, event'.ok)))
  BY <1>1, <1>2, <1>3, Zenon
<1>5. /\ call' \in [Ops -> Calls] /\ tracked' \subseteq Ops /\ current' \in 0..MaxOps
      /\ calls' \in 0..MaxOps /\ calls <= calls'
  BY <1>1, AppParts
<1>6. \A j \in Ops :
        /\ call'[j].result = "ok" => Told(j, TRUE)
        /\ call'[j].result = "failed" => Told(j, FALSE)
        /\ call'[j].answer = "Success" => Told(j, TRUE)
        /\ call'[j].answer = "Failed" =>
             j <= calls' /\ (Told(j, FALSE) \/ \A n \in 1..used : by[n] # j)
  BY <1>1, Zenon DEF AppInv, ToldInv
<1> QED BY <1>1, <1>4, <1>5, <1>6, AppAlone, Zenon

\* The listener of an event: the call whose id the event carries is settled, and holds
\* its result or what it held.
LEMMA Invoked ==
  ASSUME IInv, AppInv, Invoke
  PROVE  LET k == event.id
         IN  /\ k \in Ops /\ ~event.told /\ call' \in [Ops -> Calls] /\ call'[k].settled
             /\ call'[k].answer = call[k].answer
             /\ \/ call'[k].result = call[k].result
                \/ call'[k].result = IF event.ok THEN "ok" ELSE "failed"
             /\ \A j \in Ops : j # k => call'[j] = call[j]
             /\ event' \in Events /\ event'.id = k /\ event'.ok = event.ok /\ event'.told
<1> DEFINE k == event.id
           c == [call[k] EXCEPT !.settled = TRUE]
           d == [call[k] EXCEPT !.settled = TRUE, !.result = IF event.ok THEN "ok" ELSE "failed"]
<1>1. k \in Ops /\ event.ok \in BOOLEAN /\ ~event.told
  BY AppParts DEF Invoke, Events
<1>2. event' \in Events /\ event'.id = k /\ event'.ok = event.ok /\ event'.told
  BY AppParts, Zenon DEF Invoke, Events
<1>3. call \in [Ops -> Calls] /\ call[k] \in Calls
  BY <1>1, AppParts
<1>4. /\ c.settled /\ c.answer = call[k].answer /\ c.result = call[k].result
      /\ d.settled /\ d.answer = call[k].answer /\ d.result = IF event.ok THEN "ok" ELSE "failed"
  BY <1>3 DEF Calls
<1>5. c \in Calls /\ d \in Calls
  BY <1>3, Zenon DEF Calls
<1>6. call' = [call EXCEPT ![k] = c] \/ call' = [call EXCEPT ![k] = d]
  BY <1>3, Zenon DEF Invoke
<1> HIDE DEF c, d
<1>7. CASE call' = [call EXCEPT ![k] = c]
  BY <1>1, <1>2, <1>3, <1>4, <1>5, <1>7, CallEdit
<1>8. CASE call' = [call EXCEPT ![k] = d]
  BY <1>1, <1>2, <1>3, <1>4, <1>5, <1>8, CallEdit
<1> QED BY <1>6, <1>7, <1>8

\* A call is told what its own operation reported.
LEMMA InvokeApp ==
  ASSUME IInv, AppInv, Invoke
  PROVE  AppInv'
<1> DEFINE k == event.id
<1>1. /\ k \in Ops /\ call' \in [Ops -> Calls] /\ call'[k].answer = call[k].answer
      /\ \/ call'[k].result = call[k].result
         \/ call'[k].result = IF event.ok THEN "ok" ELSE "failed"
      /\ \A j \in Ops : j # k => call'[j] = call[j]
      /\ event' \in Events /\ event'.id = k /\ event'.ok = event.ok
  BY Invoked
<1>2. UNCHANGED <<vars, tracked, by, results, current, calls>> /\ event.id # None
  BY DEF Invoke
<1>3. Told(k, event.ok) /\ event.ok \in BOOLEAN
  BY <1>2, AppParts, Zenon DEF AppInv, ToldInv, Events
<1> HIDE DEF k
<1>4. \A j \in Ops :
        /\ call'[j].result = "ok" => Told(j, TRUE)
        /\ call'[j].result = "failed" => Told(j, FALSE)
        /\ call'[j].answer = "Success" => Told(j, TRUE)
        /\ call'[j].answer = "Failed" =>
             j <= calls' /\ (Told(j, FALSE) \/ \A n \in 1..used : by[n] # j)
  BY <1>1, <1>2, <1>3, Zenon DEF AppInv, ToldInv
<1>5. tracked' \subseteq Ops /\ current' \in 0..MaxOps /\ calls' \in 0..MaxOps /\ calls <= calls'
  BY <1>2, AppParts
<1>6. event' \in Events /\ (event'.id # None => Told(event'.id, event'.ok))
  BY <1>1, <1>3, Zenon
<1> QED BY <1>1, <1>2, <1>4, <1>5, <1>6, AppAlone, Zenon

\* The id of an event that was told goes.
LEMMA ForgetApp ==
  ASSUME IInv, AppInv, Forget
  PROVE  AppInv'
<1>1. /\ UNCHANGED <<vars, call, by, results, current, calls>> /\ event' = NoEvent
      /\ tracked' \subseteq tracked
  BY DEF Forget
<1>2. event' \in Events /\ event'.id = None
  BY <1>1, AppParts DEF NoEvent, Events
<1>3. /\ call' \in [Ops -> Calls] /\ tracked' \subseteq Ops /\ current' \in 0..MaxOps
      /\ calls' \in 0..MaxOps /\ calls <= calls'
  BY <1>1, AppParts
<1>4. \A j \in Ops :
        /\ call'[j].result = "ok" => Told(j, TRUE)
        /\ call'[j].result = "failed" => Told(j, FALSE)
        /\ call'[j].answer = "Success" => Told(j, TRUE)
        /\ call'[j].answer = "Failed" =>
             j <= calls' /\ (Told(j, FALSE) \/ \A n \in 1..used : by[n] # j)
  BY <1>1, Zenon DEF AppInv, ToldInv
<1> QED BY <1>1, <1>2, <1>3, <1>4, AppAlone, Zenon

\* operate answers what it was told.
LEMMA ReturnApp ==
  ASSUME IInv, AppInv, Return
  PROVE  AppInv'
<1> DEFINE k == current
           c == [call[k] EXCEPT !.phase = "over",
                                !.answer = IF call[k].result = "ok" THEN "Success" ELSE "Failed"]
<1>1. k \in Ops
  BY AppParts DEF Return
<1>2. /\ call[k].result # "none" /\ current' = None
      /\ UNCHANGED <<vars, tracked, by, results, event, calls>>
  BY DEF Return
<1>3. call \in [Ops -> Calls] /\ call[k] \in Calls /\ call[k].result \in {"ok", "failed"}
  BY <1>1, <1>2, AppParts DEF Calls
<1>4. c.result = call[k].result
      /\ c.answer = IF call[k].result = "ok" THEN "Success" ELSE "Failed"
  BY <1>3 DEF Calls
<1>5. c \in Calls
  BY <1>3, Zenon DEF Calls
<1>6. call' = [call EXCEPT ![k] = c]
  BY <1>1, <1>3, Zenon DEF Return
<1>0. k <= calls
  <2>1. \E n \in 1..used : by[n] = k
    BY <1>1, <1>3, Zenon DEF AppInv, ToldInv, Told
  <2> QED BY <2>1, AppParts DEF AppInv, ByInv
<1> HIDE DEF c, k
<1>7. /\ call' \in [Ops -> Calls] /\ call'[k] = c
      /\ \A j \in Ops : j # k => call'[j] = call[j]
  BY <1>1, <1>3, <1>5, <1>6, CallEdit
<1>8. \A j \in Ops :
        /\ call'[j].result = "ok" => Told(j, TRUE)
        /\ call'[j].result = "failed" => Told(j, FALSE)
        /\ call'[j].answer = "Success" => Told(j, TRUE)
        /\ call'[j].answer = "Failed" =>
             j <= calls' /\ (Told(j, FALSE) \/ \A n \in 1..used : by[n] # j)
  BY <1>0, <1>2, <1>3, <1>4, <1>7, Zenon DEF AppInv, ToldInv
<1>9. tracked' \subseteq Ops /\ current' \in 0..MaxOps /\ calls' \in 0..MaxOps /\ calls <= calls'
  BY <1>2, AppParts
<1> QED BY <1>2, <1>7, <1>8, <1>9, AppAlone, Zenon

\* The time limit answers for itself.
LEMMA TimeOutApp ==
  ASSUME IInv, AppInv, TimeOut
  PROVE  AppInv'
<1> DEFINE k == current
           c == [call[k] EXCEPT !.phase = "stopping", !.active = FALSE,
                                !.settled = TRUE, !.answer = "TimedOut"]
<1>1. k \in Ops
  BY AppParts DEF TimeOut
<1>2. /\ current' = None /\ tracked' \subseteq tracked
      /\ UNCHANGED <<vars, by, results, event, calls>>
  BY DEF TimeOut
<1>3. call \in [Ops -> Calls] /\ call[k] \in Calls
  BY <1>1, AppParts
<1>4. c.result = call[k].result /\ c.answer = "TimedOut"
  BY <1>3 DEF Calls
<1>5. c \in Calls
  BY <1>3, Zenon DEF Calls
<1>6. call' = [call EXCEPT ![k] = c]
  BY <1>1, <1>3, Zenon DEF TimeOut
<1> HIDE DEF c, k
<1>7. /\ call' \in [Ops -> Calls] /\ call'[k] = c
      /\ \A j \in Ops : j # k => call'[j] = call[j]
  BY <1>1, <1>3, <1>5, <1>6, CallEdit
<1>8. \A j \in Ops :
        /\ call'[j].result = "ok" => Told(j, TRUE)
        /\ call'[j].result = "failed" => Told(j, FALSE)
        /\ call'[j].answer = "Success" => Told(j, TRUE)
        /\ call'[j].answer = "Failed" =>
             j <= calls' /\ (Told(j, FALSE) \/ \A n \in 1..used : by[n] # j)
  BY <1>2, <1>4, <1>7, Zenon DEF AppInv, ToldInv
<1>9. tracked' \subseteq Ops /\ current' \in 0..MaxOps /\ calls' \in 0..MaxOps /\ calls <= calls'
  BY <1>2, AppParts
<1> QED BY <1>2, <1>7, <1>8, <1>9, AppAlone, Zenon

\* A call that gives up changes its phase only; the Kill it asks for reports nothing.
LEMMA GiveUpApp ==
  ASSUME IInv, VmInv, IInv', AppInv, GiveUp
  PROVE  AppInv'
<1>1. PICK k \in Ops : TimeOutStop(k)
  BY DEF GiveUp
<1> DEFINE c == [call[k] EXCEPT !.phase = "over"]
<1>2. KillCalled /\ UNCHANGED <<tracked, by, results, event, current, calls>>
      /\ call' = [call EXCEPT ![k].phase = "over"]
  BY <1>1 DEF TimeOutStop
<1>3. Reporting
  BY <1>2, CoreReports DEF Core, Reporting
<1>4. call \in [Ops -> Calls] /\ call[k] \in Calls
  BY AppParts
<1>5. c.result = call[k].result /\ c.answer = call[k].answer
  BY <1>4 DEF Calls
<1>6. c \in Calls
  BY <1>4, Zenon DEF Calls
<1>7. call' = [call EXCEPT ![k] = c]
  BY <1>2, <1>4, Zenon
<1> HIDE DEF c
<1>8. /\ call' \in [Ops -> Calls]
      /\ \A j \in Ops : call'[j].result = call[j].result /\ call'[j].answer = call[j].answer
  BY <1>4, <1>5, <1>6, <1>7, CallEdit
<1>9. AppTypeOK'
  <2>1. TypeOK'
    BY DEF IInv
  <2> QED BY <1>2, <1>8, <2>1, Zenon DEF AppInv, AppTypeOK, Calls
<1>10. ByInv'
  BY <1>2, <1>3, SMTT(30) DEF AppInv, ByInv, Reporting
<1>11. ToldInv'
  <2>1. \A j, ok : Told(j, ok) => Tells(j, ok)
    BY <1>2, <1>3, ToldStays
  <2>2. \A i \in 1..Len(results') : Tells(results'[i][1], results'[i][2])
    BY <1>2, <2>1 DEF AppInv, ToldInv
  <2>3. \A j \in Ops :
          /\ call'[j].result = "ok" => Tells(j, TRUE)
          /\ call'[j].result = "failed" => Tells(j, FALSE)
          /\ call'[j].answer = "Success" => Tells(j, TRUE)
          /\ call'[j].answer = "Failed" =>
               j <= calls' /\ (Tells(j, FALSE) \/ \A n \in 1..used' : by'[n] # j)
    BY <1>2, <1>3, <1>8, <2>1, Zenon DEF AppInv, ToldInv, Reporting
  <2>4. event'.id # None => Tells(event'.id, event'.ok)
    BY <1>2, <2>1, Zenon DEF AppInv, ToldInv
  <2> QED BY <2>2, <2>3, <2>4, TellsInv, Zenon
<1> QED BY <1>9, <1>10, <1>11 DEF AppInv

\* A new operation carries the id of a new call.
LEMMA AcceptedApp ==
  ASSUME IInv, IInv', AppInv, Accepted
  PROVE  AppInv'
<1> DEFINE k == calls + 1
           n == used + 1
           c == [call[k] EXCEPT !.phase = "waiting"]
<1>1. PICK save \in BOOLEAN : Request(save)
  BY DEF Accepted
<1>2. /\ k \in Ops /\ n \in Ops /\ calls' = k /\ used' = n /\ pending' = n
      /\ by' = [by EXCEPT ![n] = k] /\ current' = k /\ tracked' = tracked \cup {k}
      /\ call' = [call EXCEPT ![k].phase = "waiting"] /\ results' = results
      /\ event' = event
  BY <1>1, AppParts DEF Accepted, Operate, Request
<1>3. \A m \in Ops : Silent(m)
  BY <1>1, RequestReports
<1>4. /\ \A m \in 1..used : m \in Ops /\ m # n /\ m \in 1..n
      /\ \A m \in 1..n : m = n \/ m \in 1..used
      /\ \A j \in 1..calls : j # k /\ j \in 1..k
      /\ \A j \in Ops : j <= calls => j <= k /\ j # k
      /\ k \in 1..k /\ k \in 0..MaxOps
  <2>1. calls \in Nat /\ used \in Nat /\ MaxOps \in Nat /\ Ops = 1..MaxOps
    BY AppParts
  <2> QED BY <1>2, <2>1
<1> HIDE DEF k, n
<1>5. /\ by' \in [Ops -> 0..MaxOps] /\ by'[n] = k
      /\ \A m \in Ops : m # n => by'[m] = by[m]
  BY <1>2, <1>4, AppParts
<1>6. call \in [Ops -> Calls] /\ call[k] \in Calls
  BY <1>2, AppParts
<1>7. c.result = call[k].result /\ c.answer = call[k].answer
  BY <1>6 DEF Calls
<1>8. c \in Calls
  BY <1>6, Zenon DEF Calls
<1>9. call' = [call EXCEPT ![k] = c]
  BY <1>2, <1>6, Zenon
<1> HIDE DEF c
<1>10. /\ call' \in [Ops -> Calls]
       /\ \A j \in Ops : call'[j].result = call[j].result /\ call'[j].answer = call[j].answer
  BY <1>2, <1>6, <1>7, <1>8, <1>9, CallEdit
<1>11. AppTypeOK'
  <2>1. TypeOK'
    BY DEF IInv
  <2>2. tracked' \subseteq Ops /\ results' \in Seq(Ops \X BOOLEAN) /\ current' \in 0..MaxOps
        /\ calls' \in 0..MaxOps /\ event' \in Events
    BY <1>2, <1>4, AppParts
  <2> QED BY <1>5, <1>10, <2>1, <2>2, Zenon DEF AppTypeOK, Calls, Events
<1>12. ByInv'
  BY <1>2, <1>4, <1>5, SMTT(30) DEF AppInv, ByInv
<1>13. ToldInv'
  <2>1. \A j, ok : Told(j, ok) => Tells(j, ok)
    BY <1>2, <1>3, <1>4, <1>5 DEF Told, Tells, Silent
  <2>2. \A i \in 1..Len(results') : Tells(results'[i][1], results'[i][2])
    BY <1>2, <2>1 DEF AppInv, ToldInv
  <2>3. \A j \in Ops : j <= calls /\ (\A m \in 1..used : by[m] # j)
                         => \A m \in 1..used' : by'[m] # j
    BY <1>2, <1>4, <1>5
  <2>4. \A j \in Ops :
          /\ call'[j].result = "ok" => Tells(j, TRUE)
          /\ call'[j].result = "failed" => Tells(j, FALSE)
          /\ call'[j].answer = "Success" => Tells(j, TRUE)
          /\ call'[j].answer = "Failed" =>
               j <= calls' /\ (Tells(j, FALSE) \/ \A m \in 1..used' : by'[m] # j)
    BY <1>2, <1>4, <1>10, <2>1, <2>3, Zenon DEF AppInv, ToldInv
  <2>5. event'.id # None => Tells(event'.id, event'.ok)
    BY <1>2, <2>1, Zenon DEF AppInv, ToldInv
  <2> QED BY <2>2, <2>4, <2>5, TellsInv, Zenon
<1> QED BY <1>11, <1>12, <1>13 DEF AppInv

-----------------------------------------------------------------------------
(* The theorems about the app *)

\* The app asks the core for nothing but requests and Kills, so whatever holds of the
\* core holds of the core under the app (SaveStateController and Ps3Runtime.requestStop).
THEOREM AppKeepsCore == AppSpec => Spec
<1>1. AppInit => Init
  BY DEF AppInit
<1>2. [AppNext]_avars => [Next]_vars
  <2> SUFFICES ASSUME [AppNext]_avars PROVE [Next]_vars
    OBVIOUS
  <2>1. CASE CoreStep
    BY <2>1 DEF CoreStep, Next
  <2>2. CASE Accepted
    BY <2>2, Zenon DEF Accepted, Next
  <2>3. CASE Refused \/ Return \/ BusStep \/ TimeOut
    BY <2>3, Zenon DEF Refused, Return, BusStep, Deliver, Invoke, Forget, TimeOut
  <2>4. CASE GiveUp
    BY <2>4, Zenon DEF GiveUp, TimeOutStop, Next, Core
  <2>5. CASE UNCHANGED avars
    BY <2>5 DEF avars
  <2> QED BY <2>1, <2>2, <2>3, <2>4, <2>5 DEF AppNext
<1> QED BY <1>1, <1>2, PTL DEF AppSpec, Spec

\* What is on its way to the app, what a call holds and what it answered was reported.
THEOREM AppInductive == AppSpec => []AppInv
<1>1. AppInit /\ IInv => AppInv
  <2> SUFFICES ASSUME AppInit, IInv PROVE AppInv
    OBVIOUS
  <2>0. /\ call \in [Ops -> Calls] /\ tracked \subseteq Ops /\ by \in [Ops -> 0..MaxOps]
        /\ current \in 0..MaxOps /\ calls \in 0..MaxOps /\ event \in Events
    BY BoundsAssumption DEF AppInit, None, Calls, Events, NoEvent
  <2>1. AppTypeOK
    <3>1. results \in Seq(Ops \X BOOLEAN)
      BY DEF AppInit
    <3>2. TypeOK
      BY DEF IInv
    <3> QED BY <2>0, <3>1, <3>2, Zenon DEF AppTypeOK, Calls, Events
  <2>2. used = 0 /\ Len(results) = 0
    BY DEF AppInit, Init
  <2>3. ByInv
    BY <2>2 DEF ByInv
  <2>4. ToldInv
    <3>1. \A k \in Ops : call[k].result = "none" /\ call[k].answer = "none"
      BY DEF AppInit
    <3>2. \A i \in 1..Len(results) : FALSE
      BY <2>2
    <3>3. event.id = None
      BY DEF AppInit, NoEvent
    <3> QED BY <3>1, <3>2, <3>3, Zenon DEF ToldInv
  <2> QED BY <2>1, <2>3, <2>4 DEF AppInv
<1>2. AppInv /\ IInv /\ IInv' /\ VmInv /\ [AppNext]_avars => AppInv'
  <2> SUFFICES ASSUME AppInv, IInv, IInv', VmInv, [AppNext]_avars PROVE AppInv'
    OBVIOUS
  <2>1. CASE UNCHANGED avars
    <3>1. UNCHANGED vars /\ UNCHANGED <<call, tracked, by, results, event, current, calls>>
      BY <2>1 DEF avars, app
    <3>2. calls <= calls
      BY AppParts
    <3> QED BY <3>1, <3>2, AppParts, AppAlone, Zenon DEF AppInv, ToldInv
  <2> QED BY <2>1, CoreStepApp, AcceptedApp, RefusedApp, ReturnApp, DeliverApp, InvokeApp,
             ForgetApp, TimeOutApp, GiveUpApp DEF AppNext, BusStep
<1> QED BY <1>1, <1>2, AppKeepsCore, SaveStatesInductive, KillsInductive, PTL DEF AppSpec

\* operate and the bus keep their types.
THEOREM AppTypeCorrect == AppSpec => []AppTypeOK
<1>1. AppInv => AppTypeOK
  BY DEF AppInv
<1> QED BY <1>1, AppInductive, PTL

\* An answer of operate is the report of this call's own operation.
THEOREM AnswersAreTrue == AppSpec => []AnswerIsTrue
<1>1. IInv /\ AppInv => AnswerIsTrue
  <2> SUFFICES ASSUME IInv, AppInv, NEW k \in Ops
               PROVE  /\ call[k].answer = "Success" =>
                           \E n \in 1..used : by[n] = k /\ op[n].ok /\ pending # n
                      /\ call[k].answer = "Failed" =>
                           \A n \in 1..used : by[n] = k => ~op[n].ok /\ pending # n
    BY DEF AnswerIsTrue
  <2>1. Told(k, TRUE) => \E n \in 1..used : by[n] = k /\ op[n].ok /\ pending # n
    BY DEF Told
  <2>2. Told(k, FALSE) => \A n \in 1..used : by[n] = k => ~op[n].ok /\ pending # n
    BY DEF Told, AppInv, ByInv
  <2> QED BY <2>1, <2>2, ZenonT(30) DEF AppInv, ToldInv
<1> QED BY <1>1, AppInductive, AppKeepsCore, SaveStatesInductive, PTL

\* The bus knows the id of the unsettled call and of the event that was told.
LEMMA IdStep ==
  ASSUME IInv, AppInv, IdInv, [AppNext]_avars
  PROVE  IdInv'
<1>0. /\ call \in [Ops -> Calls] /\ \A k \in Ops : call[k] \in Calls
      /\ calls \in Nat /\ current \in 0..MaxOps
      /\ \A k \in 0..MaxOps : k # None => k \in Ops
      /\ None \notin Ops /\ tracked \subseteq Ops
      /\ event \in Events /\ event.id \in 0..MaxOps
  BY AppParts DEF Events
<1>01. event.told => event.id \in Ops /\ call[event.id].settled
  BY <1>0 DEF IdInv, SettledInv
<1>1. CASE UNCHANGED <<call, tracked, event, current, calls>>
  BY <1>1 DEF IdInv, IdsAreLive, SettledInv
<1>2. CASE Accepted
  <2> DEFINE k == calls + 1
             c == [call[k] EXCEPT !.phase = "waiting"]
  <2>1. /\ k \in Ops /\ calls' = k /\ current = None /\ current' = k
        /\ tracked' = tracked \cup {k} /\ call' = [call EXCEPT ![k].phase = "waiting"]
        /\ k > calls /\ k # None /\ event' = event
    BY <1>2, AppParts DEF Accepted, Operate
  <2>2. k <= k /\ \A j \in Ops : j > k => j > calls
    BY <1>0, <2>1, AppParts
  <2> HIDE DEF k
  <2>3. c.settled = call[k].settled /\ c.result = call[k].result
    BY <1>0, <2>1 DEF Calls
  <2>4. c \in Calls
    BY <1>0, <2>1, Zenon DEF Calls
  <2>5. call' = [call EXCEPT ![k] = c]
    BY <1>0, <2>1, Zenon
  <2> HIDE DEF c
  <2>6. \A j \in Ops : call'[j].settled = call[j].settled /\ call'[j].result = call[j].result
    BY <1>0, <2>1, <2>3, <2>4, <2>5, CallEdit
  <2>7. SettledInv'
    BY <1>01, <2>1, <2>2, <2>6 DEF IdInv, SettledInv
  <2>8. \A j \in tracked : j = event.id /\ event.told
    BY <1>0, <2>1 DEF IdInv, IdsAreLive
  <2>9. ~call'[k].settled
    BY <2>1, <2>6 DEF IdInv, SettledInv
  <2>10. IdsAreLive'
    BY <2>1, <2>8, <2>9 DEF IdsAreLive
  <2> QED BY <2>7, <2>10 DEF IdInv
<1>3. CASE Refused
  <2> DEFINE k == calls + 1
             c == [call[k] EXCEPT !.phase = "over", !.settled = TRUE, !.answer = "Failed"]
  <2>1. /\ k \in Ops /\ calls' = k /\ current = None /\ current' = None /\ tracked' = tracked
        /\ event' = event
        /\ call' = [call EXCEPT ![k].phase = "over", ![k].settled = TRUE, ![k].answer = "Failed"]
    BY <1>3, AppParts DEF Refused, Operate
  <2>2. None <= k /\ \A j \in Ops : j > k => j > calls /\ j # k
    BY <1>0, <2>1, AppParts
  <2> HIDE DEF k
  <2>3. c.settled
    BY <1>0, <2>1 DEF Calls
  <2>4. c \in Calls
    BY <1>0, <2>1, Zenon DEF Calls
  <2>5. call' = [call EXCEPT ![k] = c]
    BY <1>0, <2>1, Zenon
  <2> HIDE DEF c
  <2>6. call'[k].settled /\ \A j \in Ops : j # k => call'[j] = call[j]
    BY <1>0, <2>1, <2>3, <2>4, <2>5, CallEdit
  <2>7. \A j \in tracked : j = event.id /\ event.told
    BY <1>0, <2>1 DEF IdInv, IdsAreLive
  <2>8. IdsAreLive'
    BY <2>1, <2>7 DEF IdsAreLive
  <2>9. event'.told => event'.id # None /\ call'[event'.id].settled
    BY <1>0, <1>01, <2>1, <2>6
  <2>10. \A j \in Ops : /\ j > calls' => ~call'[j].settled
                        /\ call'[j].result # "none" => call'[j].settled
    <3> SUFFICES ASSUME NEW j \in Ops
                 PROVE  /\ j > calls' => ~call'[j].settled
                        /\ call'[j].result # "none" => call'[j].settled
      OBVIOUS
    <3>1. CASE j = k
      BY <2>1, <2>2, <2>6, <3>1
    <3>2. CASE j # k
      BY <2>1, <2>2, <2>6, <3>2, Zenon DEF IdInv, SettledInv
    <3> QED BY <3>1, <3>2
  <2>11. SettledInv'
    BY <2>1, <2>2, <2>9, <2>10, Zenon DEF SettledInv
  <2> QED BY <2>8, <2>11 DEF IdInv
<1>4. CASE Return
  <2> DEFINE k == current
             c == [call[k] EXCEPT !.phase = "over",
                                  !.answer = IF call[k].result = "ok" THEN "Success" ELSE "Failed"]
  <2>1. k \in Ops /\ k # None
    BY <1>0, <1>4 DEF Return
  <2>2. call[k].result # "none" /\ current' = None /\ UNCHANGED <<tracked, event, calls>>
    BY <1>4 DEF Return
  <2>3. c.settled = call[k].settled /\ c.result = call[k].result
    BY <1>0, <2>1 DEF Calls
  <2>4. c \in Calls
    BY <1>0, <2>1, Zenon DEF Calls
  <2>5. call' = [call EXCEPT ![k] = c]
    BY <1>0, <1>4, Zenon DEF Return
  <2> HIDE DEF c
  <2>6. \A j \in Ops : call'[j].settled = call[j].settled /\ call'[j].result = call[j].result
    BY <1>0, <2>1, <2>3, <2>4, <2>5, CallEdit
  <2>7. None <= calls /\ \A j \in tracked : j = event.id /\ event.told
    BY <2>1, <2>2, AppParts DEF IdInv, IdsAreLive, SettledInv
  <2> QED BY <1>01, <2>2, <2>6, <2>7 DEF IdInv, IdsAreLive, SettledInv
<1>5. CASE BusStep
  <2>1. CASE Deliver
    <3>1. ~event.told /\ ~event'.told /\ UNCHANGED <<call, tracked, current, calls>>
      BY <2>1 DEF Deliver, OnEvent, NoEvent
    <3> QED BY <3>1 DEF IdInv, IdsAreLive, SettledInv
  <2>2. CASE Invoke
    <3> DEFINE k == event.id
    <3>1. /\ k \in Ops /\ ~event.told /\ call'[k].settled
          /\ \A j \in Ops : j # k => call'[j] = call[j]
          /\ event'.id = k /\ event'.told
      BY <2>2, Invoked
    <3>2. UNCHANGED <<tracked, current, calls>> /\ event.id # None
      BY <2>2 DEF Invoke
    <3>3. ~(k > calls)
      <4>1. Told(k, event.ok)
        BY <3>2 DEF AppInv, ToldInv
      <4>2. k \in 1..calls
        BY <4>1 DEF Told, AppInv, ByInv
      <4> QED BY <1>0, <4>2
    <3> HIDE DEF k
    <3>4. IdsAreLive'
      BY <1>0, <3>1, <3>2 DEF IdInv, IdsAreLive
    <3>5. SettledInv'
      BY <1>0, <3>1, <3>2, <3>3 DEF IdInv, SettledInv
    <3> QED BY <3>4, <3>5 DEF IdInv
  <2>3. CASE Forget
    <3>1. /\ event.told /\ ~event'.told /\ tracked' = tracked \ {event.id}
          /\ UNCHANGED <<call, current, calls>>
      BY <2>3 DEF Forget, NoEvent
    <3> QED BY <1>01, <3>1 DEF IdInv, IdsAreLive, SettledInv
  <2> QED BY <1>5, <2>1, <2>2, <2>3 DEF BusStep
<1>6. CASE TimeOut
  <2> DEFINE k == current
             c == [call[k] EXCEPT !.phase = "stopping", !.active = FALSE,
                                  !.settled = TRUE, !.answer = "TimedOut"]
  <2>1. k \in Ops /\ k # None
    BY <1>0, <1>6 DEF TimeOut
  <2>2. /\ current' = None /\ calls' = calls /\ event' = event
        /\ tracked' = IF call[k].settled THEN tracked ELSE tracked \ {k}
    BY <1>6 DEF TimeOut
  <2>3. c.settled
    BY <1>0, <2>1 DEF Calls
  <2>4. c \in Calls
    BY <1>0, <2>1, Zenon DEF Calls
  <2>5. call' = [call EXCEPT ![k] = c]
    BY <1>0, <1>6, Zenon DEF TimeOut
  <2> HIDE DEF c
  <2>6. call'[k].settled /\ \A j \in Ops : j # k => call'[j] = call[j]
    BY <1>0, <2>1, <2>3, <2>4, <2>5, CallEdit
  <2>7. /\ None <= calls /\ ~(k > calls)
        /\ \A j \in tracked' : j = event.id /\ event.told
    BY <1>0, <2>1, <2>2, AppParts DEF IdInv, IdsAreLive, SettledInv
  <2>8. event.told => event.id # None /\ call'[event.id].settled
    BY <1>0, <1>01, <2>6
  <2> QED BY <2>2, <2>6, <2>7, <2>8 DEF IdInv, IdsAreLive, SettledInv
<1>7. CASE GiveUp
  <2>1. PICK k \in Ops : TimeOutStop(k)
    BY <1>7 DEF GiveUp
  <2> DEFINE c == [call[k] EXCEPT !.phase = "over"]
  <2>2. UNCHANGED <<tracked, event, current, calls>> /\ call' = [call EXCEPT ![k].phase = "over"]
    BY <2>1 DEF TimeOutStop
  <2>3. c.settled = call[k].settled /\ c.result = call[k].result
    BY <1>0 DEF Calls
  <2>4. c \in Calls
    BY <1>0, Zenon DEF Calls
  <2>5. call' = [call EXCEPT ![k] = c]
    BY <1>0, <2>2, Zenon
  <2> HIDE DEF c
  <2>6. \A j \in Ops : call'[j].settled = call[j].settled /\ call'[j].result = call[j].result
    BY <1>0, <2>3, <2>4, <2>5, CallEdit
  <2> QED BY <1>0, <1>01, <2>2, <2>6 DEF IdInv, IdsAreLive, SettledInv
<1>8. CASE CoreStep \/ UNCHANGED avars
  BY <1>1, <1>8, Zenon DEF CoreStep, avars, app
<1> QED BY <1>2, <1>3, <1>4, <1>5, <1>6, <1>7, <1>8, Zenon DEF AppNext

\* The bus knows the id of the call that waits as long as nothing settled it, and else
\* none but the one of the event whose listener is done (NativeProgressBus.onEvent,
\* awaitNativeOperationCompletion): a call that returned or timed out leaves no id behind.
THEOREM BusKeepsNoId == AppSpec => []IdsAreLive
<1>1. AppInit => IdInv
  <2> SUFFICES ASSUME AppInit PROVE IdInv
    OBVIOUS
  <2>1. \A k \in Ops : call[k].result = "none" /\ ~call[k].settled
    BY DEF AppInit
  <2>2. tracked = {} /\ current = None /\ current <= calls /\ ~event.told
    BY DEF AppInit, None, NoEvent
  <2> QED BY <2>1, <2>2, Zenon DEF IdInv, IdsAreLive, SettledInv
<1>2. IdInv => IdsAreLive
  BY DEF IdInv
<1> QED
  BY <1>1, <1>2, IdStep, AppInductive, AppKeepsCore, SaveStatesInductive, PTL DEF AppSpec
=============================================================================
