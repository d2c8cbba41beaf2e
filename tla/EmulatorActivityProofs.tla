---------------------- MODULE EmulatorActivityProofs ----------------------
(***************************************************************************)
(* The safety properties of EmulatorActivity, for any number of launches   *)
(* and of lost surfaces.                                                   *)
(***************************************************************************)
EXTENDS EmulatorActivity, TLAPS

\* Whatever onEmulationSurfaceReady finds, it starts no boot while a game thread is
\* inside bootGate, and at most one boot, with the next generation.
LEMMA SurfaceReadyStep ==
  ASSUME TypeOK, NEW valid \in BOOLEAN,
         NEW b \in Boots,
         SurfaceReady(valid, b)
  PROVE  \/ boot' = b /\ job' = job
         \/ /\ gate = 0 /\ ~b.started
            /\ boot'.started /\ boot'.generation = b.generation + 1
            /\ boot' \in [started : BOOLEAN, generation : {b.generation + 1}]
            /\ job' = [job EXCEPT ![intent] =
                         [pc |-> "init", gen |-> b.generation + 1, title |-> NoTitle]]
<1>1. CASE finish.pending \/ finish.isFinishing \/ ~valid \/ b.started
  BY <1>1, Zenon DEF SurfaceReady
<1>2. CASE ~(finish.pending \/ finish.isFinishing \/ ~valid \/ b.started)
  <2>1. boot' = [b EXCEPT !.started = TRUE, !.generation = @ + 1]
    BY <1>2, Zenon DEF SurfaceReady
  <2>2. /\ boot'.started /\ boot'.generation = b.generation + 1
        /\ boot' \in [started : BOOLEAN, generation : {b.generation + 1}]
    BY <2>1, Zenon DEF Boots, Generations
  <2> QED  BY <1>2, <2>2, Zenon DEF SurfaceReady
<1> QED  BY <1>1, <1>2, Zenon

\* The VM that Ps3Runtime.requestStop leaves: not running once the core is initialized.
LEMMA KilledVm ==
  ASSUME TypeOK
  PROVE  /\ Killed \in Vms
         /\ Killed.title = vm.title
         /\ Killed.status = "running" => vm.status = "running" /\ ~initialized
BY DEF Killed, TypeOK, Vms

\* What a call of finish() does: nothing, or it raises the generation of the exits.
LEMMA FinishStep ==
  ASSUME TypeOK, NEW a \in BOOLEAN, Finish(a)
  PROVE  /\ asked' \in BOOLEAN
         /\ \/ finish' = finish /\ exit' = exit
            \/ /\ ~finish.pending /\ finish'.pending
               /\ finish'.generation = finish.generation + 1
               /\ finish' \in [pending : BOOLEAN, generation : {finish.generation + 1},
                               isFinishing : BOOLEAN, destroyed : BOOLEAN]
               /\ \/ exit' = exit
                  \/ exit' = [exit EXCEPT ![intent] =
                                [pc |-> "stop", token |-> finish.generation + 1]]
<1>1. CASE finish.isFinishing \/ finish.pending
  BY <1>1, Zenon DEF Finish, TypeOK
<1>2. CASE ~(finish.isFinishing \/ finish.pending)
  <2>1. finish' = [finish EXCEPT !.pending = TRUE, !.generation = @ + 1,
                                 !.isFinishing = ~initialized]
    BY <1>2, Zenon DEF Finish
  <2>2. /\ ~finish.pending /\ finish'.pending
        /\ finish'.generation = finish.generation + 1
        /\ finish' \in [pending : BOOLEAN, generation : {finish.generation + 1},
                        isFinishing : BOOLEAN, destroyed : BOOLEAN]
    BY <1>2, <2>1, Zenon DEF TypeOK, Finishes, Generations
  <2>3. \/ exit' = exit
        \/ exit' = [exit EXCEPT ![intent] =
                      [pc |-> "stop", token |-> finish.generation + 1]]
    BY <1>2, Zenon DEF Finish
  <2>4. asked' \in BOOLEAN
    BY Zenon DEF Finish, TypeOK
  <2> QED  BY <2>2, <2>3, <2>4, Zenon
<1> QED  BY <1>1, <1>2, Zenon

\* The initial states satisfy the invariant.
LEMMA InitInv == Init => IInv
<1> SUFFICES ASSUME Init PROVE IInv
  OBVIOUS
<1>1. 1 \in Titles /\ 0 \notin Titles /\ 0 \in Generations
  BY LaunchesAssumption DEF Titles, Generations
<1>2. \A l \in Titles : job[l] = NoJob /\ exit[l] = NoExit
  BY Zenon DEF Init
<1>3. TypeOK
  <2>1. /\ boot \in Boots /\ finish \in Finishes /\ vm \in Vms
        /\ surface \in [valid : BOOLEAN, losses : 0..SurfaceLosses]
        /\ gate \in 0..Launches
    BY <1>1, LaunchesAssumption DEF Init, Boots, Finishes, Vms
  <2>2. job \in [Titles -> Jobs]
    BY <1>1 DEF Init, NoJob, Jobs
  <2>3. exit \in [Titles -> Exits]
    BY <1>1 DEF Init, NoExit, Exits
  <2> QED  BY <1>1, <2>1, <2>2, <2>3, Zenon DEF Init, TypeOK
<1>4. CountInv
  BY DEF Init, CountInv, Past
<1>5. GateInv /\ CoreInv /\ ExitInv /\ NeverStaleTitle
  BY <1>1, <1>2 DEF Init, GateInv, CoreInv, ExitInv, NeverStaleTitle, NoJob, NoExit
<1> QED  BY <1>3, <1>4, <1>5, Zenon DEF IInv

\* No step raises a generation more often than launches, boots and exits allow.
LEMMA CountStep == ASSUME IInv, [Next]_vars PROVE CountInv'
<1> USE DEF IInv, TypeOK, Boots, Finishes, Generations
<1>0. intent \in Nat /\ Past \in Int
  BY LaunchesAssumption DEF Titles, Past
<1>1. CASE SurfaceCreated \/ OnResume
  <2>1. /\ ui = "idle" /\ UNCHANGED <<ui, intent, finish>>
        /\ \E v \in BOOLEAN : SurfaceReady(v, boot)
    BY <1>1, Zenon DEF SurfaceCreated, OnResume
  <2>2. \/ boot' = boot
        \/ ~boot.started /\ boot'.started /\ boot'.generation = boot.generation + 1
    BY <2>1, SurfaceReadyStep, Zenon
  <2> QED  BY <1>0, <2>1, <2>2 DEF CountInv, Past
<1>2. CASE NewIntent
  BY <1>0, <1>2 DEF NewIntent, CountInv, Past
<1>3. CASE NewIntentGate
  BY <1>0, <1>3 DEF NewIntentGate, CountInv, Past
<1>4. CASE NewIntentReset
  <2> DEFINE b == [boot EXCEPT !.started = FALSE]
  <2>1. /\ ui = "reset" /\ ui' = "idle" /\ UNCHANGED <<intent, finish>>
        /\ SurfaceReady(surface.valid, b)
    BY <1>4, Zenon DEF NewIntentReset
  <2>2. b \in Boots /\ ~b.started /\ b.generation = boot.generation
    BY Zenon
  <2>3. \/ boot' = b
        \/ boot'.started /\ boot'.generation = b.generation + 1
    BY <2>1, <2>2, SurfaceReadyStep, Zenon
  <2> HIDE DEF b
  <2> QED  BY <1>0, <2>1, <2>2, <2>3 DEF CountInv, Past
<1>5. ASSUME NEW l \in Titles, ExitEmulation \/ BootFailure(l) PROVE CountInv'
  <2>1. /\ ui = "idle" /\ UNCHANGED <<ui, intent, boot>>
        /\ \E a \in BOOLEAN : Finish(a)
    BY <1>5, Zenon DEF ExitEmulation, BootFailure
  <2> QED  BY <1>0, <2>1, FinishStep DEF CountInv, Past
<1>6. ASSUME NEW l \in Titles, ExitCheck(l) \/ OnDestroy PROVE CountInv'
  BY <1>0, <1>6, Zenon DEF ExitCheck, OnDestroy, CountInv, Past
<1>7. CASE UNCHANGED <<ui, intent, boot, finish>>
  BY <1>7 DEF CountInv, Past
<1> QED
  BY <1>1, <1>2, <1>3, <1>4, <1>5, <1>6, <1>7, Zenon
     DEF Next, Job, Exit, vars, SurfaceDestroyed, OnPause, BootInit, BootPost, GameEnter,
         BootKill, BootRun, ExitStop, ExitWait, VmStopped

\* No step leaves the types.
LEMMA TypeStep == ASSUME IInv, [Next]_vars PROVE TypeOK'
<1>0. TypeOK /\ CountInv /\ CoreInv
  BY Zenon DEF IInv
<1>a. /\ ~boot.started \/ ui = "reset" => boot.generation + 1 \in Generations
      /\ ui = "gate" => boot.generation + 1 \in Generations /\ finish.generation + 1 \in Generations
      /\ ~finish.pending => finish.generation + 1 \in Generations
  BY <1>0, LaunchesAssumption DEF TypeOK, CountInv, Past, Boots, Finishes, Generations, Titles
<1>b. ASSUME NEW v \in BOOLEAN, NEW b \in Boots, SurfaceReady(v, b),
             ~b.started => b.generation + 1 \in Generations
      PROVE  boot' \in Boots /\ job' \in [Titles -> Jobs]
  <2>1. \/ boot' = b /\ job' = job
        \/ /\ b.generation + 1 \in Generations
           /\ boot' \in [started : BOOLEAN, generation : {b.generation + 1}]
           /\ job' = [job EXCEPT ![intent] =
                        [pc |-> "init", gen |-> b.generation + 1, title |-> NoTitle]]
    BY <1>0, <1>b, SurfaceReadyStep, Zenon
  <2> QED  BY <1>0, <2>1 DEF TypeOK, Boots, Jobs
<1>c. ASSUME NEW a \in BOOLEAN, Finish(a)
      PROVE  finish' \in Finishes /\ exit' \in [Titles -> Exits] /\ asked' \in BOOLEAN
  <2>1. CASE finish' = finish /\ exit' = exit
    BY <1>0, <1>c, <2>1, FinishStep, Zenon DEF TypeOK
  <2>2. CASE ~(finish' = finish /\ exit' = exit)
    <3>1. finish.generation + 1 \in Generations
      BY <1>0, <1>a, <1>c, <2>2, FinishStep, Zenon
    <3> QED  BY <1>0, <1>c, <2>2, <3>1, FinishStep DEF TypeOK, Finishes, Exits
  <2> QED  BY <2>1, <2>2, Zenon
<1>1. CASE SurfaceCreated
  <2>1. boot' \in Boots /\ job' \in [Titles -> Jobs]
    BY <1>0, <1>1, <1>a, <1>b, Zenon DEF SurfaceCreated, TypeOK
  <2>2. surface' \in [valid : BOOLEAN, losses : 0..SurfaceLosses]
    BY <1>0, <1>1, Zenon DEF SurfaceCreated, TypeOK
  <2> QED  BY <1>0, <1>1, <2>1, <2>2, Zenon DEF SurfaceCreated, TypeOK
<1>2. CASE SurfaceDestroyed
  <2>0. surface.losses \in 0..SurfaceLosses
    BY <1>0 DEF TypeOK
  <2> DEFINE n == IF finish.isFinishing THEN surface.losses ELSE surface.losses + 1
  <2>a. n \in 0..SurfaceLosses
    <3>1. CASE finish.isFinishing
      BY <2>0, <3>1
    <3>2. CASE ~finish.isFinishing
      <4>1. surface.losses < SurfaceLosses /\ n = surface.losses + 1
        BY <1>2, <3>2, Zenon DEF SurfaceDestroyed
      <4> QED  BY <2>0, <4>1, LaunchesAssumption
    <3> QED  BY <3>1, <3>2, Zenon
  <2>b. surface' = [surface EXCEPT !.valid = FALSE, !.losses = n]
    BY <1>2, Zenon DEF SurfaceDestroyed
  <2> HIDE DEF n
  <2>1. surface' \in [valid : BOOLEAN, losses : 0..SurfaceLosses]
    BY <1>0, <2>a, <2>b, Zenon DEF TypeOK
  <2> QED  BY <1>0, <1>2, <2>1, Zenon DEF SurfaceDestroyed, TypeOK
<1>3. CASE OnResume
  <2>0. surface.valid \in BOOLEAN
    BY <1>0 DEF TypeOK
  <2>1. boot' \in Boots /\ job' \in [Titles -> Jobs]
    BY <1>0, <1>3, <1>a, <1>b, <2>0, Zenon DEF OnResume, TypeOK
  <2> QED  BY <1>0, <1>3, <2>1, Zenon DEF OnResume, TypeOK
<1>4. CASE OnPause
  BY <1>0, <1>4, Zenon DEF OnPause, TypeOK
<1>5. CASE NewIntent
  <2>1. intent + 1 \in Titles
    BY <1>0, <1>5, LaunchesAssumption DEF NewIntent, TypeOK, Titles
  <2> QED  BY <1>0, <1>5, <2>1, Zenon DEF NewIntent, TypeOK
<1>6. CASE NewIntentGate
  <2>1. boot' \in Boots /\ finish' \in Finishes
    BY <1>0, <1>6, <1>a, Zenon DEF NewIntentGate, TypeOK, Boots, Finishes
  <2> QED  BY <1>0, <1>6, <2>1, Zenon DEF NewIntentGate, TypeOK
<1>7. CASE NewIntentReset
  <2> DEFINE b == [boot EXCEPT !.started = FALSE]
  <2>0. surface.valid \in BOOLEAN
    BY <1>0 DEF TypeOK
  <2>1. b \in Boots /\ b.generation = boot.generation /\ ui = "reset"
    BY <1>0, <1>7, Zenon DEF TypeOK, Boots, NewIntentReset
  <2>2. SurfaceReady(surface.valid, b)
    BY <1>7, Zenon DEF NewIntentReset
  <2> HIDE DEF b
  <2>3. boot' \in Boots /\ job' \in [Titles -> Jobs]
    BY <1>a, <1>b, <2>0, <2>1, <2>2, Zenon
  <2> QED  BY <1>0, <1>7, <2>3, KilledVm, Zenon DEF NewIntentReset, TypeOK
<1>8. ASSUME NEW l \in Titles,
             \/ BootInit(l) \/ BootPost(l) \/ GameEnter(l) \/ BootKill(l) \/ BootRun(l)
             \/ BootFailure(l)
      PROVE  TypeOK'
  <2>1. job' \in [Titles -> Jobs]
    BY <1>0, <1>8 DEF TypeOK, Jobs, BootInit, BootPost, GameEnter, BootKill, BootRun,
       BootFailure
  <2>2. CASE BootInit(l) \/ BootPost(l)
    BY <1>0, <2>1, <2>2, Zenon DEF TypeOK, BootInit, BootPost
  <2>3. CASE GameEnter(l)
    <3>1. gate' \in 0..Launches
      BY <1>0, <2>3 DEF TypeOK, GameEnter, Titles
    <3> QED  BY <1>0, <2>1, <2>3, <3>1, Zenon DEF TypeOK, GameEnter
  <2>4. CASE BootKill(l)
    BY <1>0, <2>1, <2>4, KilledVm, Zenon DEF TypeOK, BootKill
  <2>5. CASE BootRun(l)
    <3>1. vm' \in Vms /\ gate' \in 0..Launches
      BY <1>0, <2>5, LaunchesAssumption DEF TypeOK, BootRun, Vms, Jobs
    <3> QED  BY <1>0, <2>1, <2>5, <3>1, Zenon DEF TypeOK, BootRun
  <2>6. CASE BootFailure(l)
    <3>1. finish' \in Finishes /\ exit' \in [Titles -> Exits] /\ asked' \in BOOLEAN
      BY <1>c, <2>6, Zenon DEF BootFailure
    <3> QED  BY <1>0, <2>1, <2>6, <3>1, Zenon DEF TypeOK, BootFailure
  <2> QED  BY <1>8, <2>2, <2>3, <2>4, <2>5, <2>6, Zenon
<1>9. CASE ExitEmulation
  <2>1. finish' \in Finishes /\ exit' \in [Titles -> Exits] /\ asked' \in BOOLEAN
    BY <1>c, <1>9, Zenon DEF ExitEmulation
  <2> QED  BY <1>0, <1>9, <2>1, Zenon DEF TypeOK, ExitEmulation
<1>10. ASSUME NEW l \in Titles, ExitStop(l) \/ ExitWait(l) \/ ExitCheck(l) PROVE TypeOK'
  <2>1. exit' \in [Titles -> Exits]
    BY <1>0, <1>10 DEF TypeOK, Exits, ExitStop, ExitWait, ExitCheck
  <2>2. CASE ExitStop(l) \/ ExitWait(l)
    BY <1>0, <2>1, <2>2, KilledVm, Zenon DEF TypeOK, ExitStop, ExitWait
  <2>3. CASE ExitCheck(l)
    <3>1. finish' \in Finishes
      BY <1>0, <2>3 DEF TypeOK, ExitCheck, Finishes
    <3> QED  BY <1>0, <2>1, <2>3, <3>1, Zenon DEF TypeOK, ExitCheck
  <2> QED  BY <1>10, <2>2, <2>3, Zenon
<1>11. CASE OnDestroy
  <2>1. finish' \in Finishes /\ exit' \in [Titles -> Exits]
    BY <1>0, <1>11, Zenon DEF TypeOK, OnDestroy, Finishes, Exits
  <2> QED  BY <1>0, <1>11, <2>1, KilledVm, Zenon DEF TypeOK, OnDestroy
<1>12. CASE VmStopped
  <2>1. vm' \in Vms
    BY <1>0, <1>12 DEF TypeOK, VmStopped, Vms
  <2> QED  BY <1>0, <1>12, <2>1, Zenon DEF TypeOK, VmStopped
<1>13. CASE UNCHANGED vars
  BY <1>0, <1>13, Zenon DEF TypeOK, vars
<1> QED
  BY <1>1, <1>2, <1>3, <1>4, <1>5, <1>6, <1>7, <1>8, <1>9, <1>10, <1>11, <1>12, <1>13,
     Zenon DEF Next, Job, Exit

\* No step lets a second thread, or an old one, into bootGate.
LEMMA GateStep == ASSUME IInv, [Next]_vars PROVE GateInv'
<1>0. TypeOK /\ GateInv
  BY Zenon DEF IInv
<1>z. 0 \notin Titles
  BY LaunchesAssumption DEF Titles
<1>a. ASSUME NEW v \in BOOLEAN, NEW b \in Boots, SurfaceReady(v, b),
             b.generation = boot.generation, UNCHANGED <<intent, gate>>,
             ui' # "gate", ui # "gate"
      PROVE  GateInv'
  <2>1. CASE boot' = b /\ job' = job
    BY <1>0, <1>a, <2>1 DEF GateInv
  <2>2. CASE ~(boot' = b /\ job' = job)
    <3>1. /\ gate = 0
          /\ job' = [job EXCEPT ![intent] =
                        [pc |-> "init", gen |-> b.generation + 1, title |-> NoTitle]]
      BY <1>0, <1>a, <2>2, SurfaceReadyStep, Zenon
    <3> QED  BY <1>0, <1>a, <1>z, <3>1 DEF GateInv, TypeOK
  <2> QED  BY <2>1, <2>2, Zenon
<1>1. CASE SurfaceCreated
  BY <1>0, <1>1, <1>a, Zenon DEF SurfaceCreated, TypeOK
<1>2. CASE OnResume
  <2>0. surface.valid \in BOOLEAN
    BY <1>0 DEF TypeOK
  <2> QED  BY <1>0, <1>2, <1>a, <2>0 DEF OnResume, TypeOK
<1>3. CASE NewIntent
  BY <1>0, <1>3 DEF NewIntent, GateInv
<1>4. CASE NewIntentGate
  BY <1>0, <1>4 DEF NewIntentGate, GateInv
<1>5. CASE NewIntentReset
  <2> DEFINE b == [boot EXCEPT !.started = FALSE]
  <2>0. surface.valid \in BOOLEAN
    BY <1>0 DEF TypeOK
  <2>1. b \in Boots /\ b.generation = boot.generation
    BY <1>0, Zenon DEF TypeOK, Boots
  <2>2. SurfaceReady(surface.valid, b) /\ UNCHANGED <<intent, gate>>
        /\ ui = "reset" /\ ui' = "idle"
    BY <1>5, Zenon DEF NewIntentReset
  <2> HIDE DEF b
  <2> QED  BY <1>a, <2>0, <2>1, <2>2
<1>6. ASSUME NEW l \in Titles, GameEnter(l) PROVE GateInv'
  <2>1. CASE finish.pending \/ finish.isFinishing \/ job[l].gen # boot.generation
    <3>1. /\ job' = [job EXCEPT ![l].pc = "dropped"] /\ gate = 0 /\ gate' = 0
          /\ job[l].pc = "game"
      BY <1>6, <2>1, Zenon DEF GameEnter
    <3> QED  BY <1>0, <1>z, <3>1 DEF GateInv, TypeOK
  <2>2. CASE ~(finish.pending \/ finish.isFinishing \/ job[l].gen # boot.generation)
    <3>1. /\ job' = [job EXCEPT ![l].pc = "kill", ![l].title = intent]
          /\ gate = 0 /\ gate' = l /\ job[l].gen = boot.generation
          /\ UNCHANGED <<intent, boot>>
      BY <1>6, <2>2, Zenon DEF GameEnter
    <3>2. /\ job'[l].pc = "kill" /\ job'[l].gen = boot.generation /\ job'[l].title = intent
          /\ \A k \in Titles : k # l => job'[k] = job[k]
      BY <1>0, <3>1 DEF TypeOK, Jobs
    <3> QED  BY <1>0, <1>z, <3>1, <3>2, Zenon DEF GateInv
  <2> QED  BY <2>1, <2>2, Zenon
<1>7. ASSUME NEW l \in Titles, BootKill(l) PROVE GateInv'
  BY <1>0, <1>7 DEF BootKill, GateInv, TypeOK, Jobs
<1>8. ASSUME NEW l \in Titles, BootRun(l) PROVE GateInv'
  BY <1>0, <1>8, <1>z DEF BootRun, GateInv, TypeOK, Jobs
<1>9. ASSUME NEW l \in Titles,
             \/ BootInit(l) \/ BootPost(l) \/ BootFailure(l)
      PROVE  GateInv'
  <2>1. /\ job[l].pc \notin {"kill", "run"}
        /\ \E pc \in {"post", "failed", "dropped", "game"} :
             job' = [job EXCEPT ![l].pc = pc]
        /\ UNCHANGED <<gate, intent, ui>>
    BY <1>9 DEF BootInit, BootPost, BootFailure
  <2>2. boot'.generation = boot.generation
    BY <1>0, <1>9 DEF TypeOK, Boots, BootInit, BootPost, BootFailure
  <2> QED  BY <1>0, <2>1, <2>2 DEF GateInv, TypeOK, Jobs
<1>10. CASE UNCHANGED <<gate, job, intent, ui, boot>>
  BY <1>0, <1>10 DEF GateInv
<1> QED
  BY <1>1, <1>2, <1>3, <1>4, <1>5, <1>6, <1>7, <1>8, <1>9, <1>10, Zenon
     DEF Next, Job, Exit, vars, SurfaceDestroyed, OnPause, ExitEmulation, ExitStop, ExitWait,
         ExitCheck, OnDestroy, VmStopped

\* No step has a title in a core that is not initialized.
LEMMA CoreStep == ASSUME IInv, [Next]_vars PROVE CoreInv'
<1>0. TypeOK /\ GateInv /\ CoreInv
  BY Zenon DEF IInv
<1>a. ASSUME NEW v \in BOOLEAN, NEW b \in Boots, SurfaceReady(v, b), UNCHANGED initialized,
             vm' = vm \/ vm' = Killed
      PROVE  CoreInv'
  <2>1. \/ job' = job
        \/ job' = [job EXCEPT ![intent] =
                     [pc |-> "init", gen |-> b.generation + 1, title |-> NoTitle]]
    BY <1>0, <1>a, SurfaceReadyStep, Zenon
  <2>2. vm'.title = vm.title /\ (vm'.status = "running" => vm.status = "running")
    BY <1>0, <1>a, KilledVm, Zenon
  <2> QED  BY <1>0, <1>a, <2>1, <2>2 DEF CoreInv, TypeOK
<1>1. CASE SurfaceCreated
  BY <1>0, <1>1, <1>a, Zenon DEF SurfaceCreated, TypeOK
<1>2. CASE OnResume
  <2>0. surface.valid \in BOOLEAN
    BY <1>0 DEF TypeOK
  <2> QED  BY <1>0, <1>2, <1>a, <2>0 DEF OnResume, TypeOK
<1>3. CASE NewIntentReset
  <2> DEFINE b == [boot EXCEPT !.started = FALSE]
  <2>0. surface.valid \in BOOLEAN
    BY <1>0 DEF TypeOK
  <2>1. b \in Boots
    BY <1>0, Zenon DEF TypeOK, Boots
  <2>2. SurfaceReady(surface.valid, b) /\ UNCHANGED initialized /\ vm' = Killed
    BY <1>3, Zenon DEF NewIntentReset
  <2> HIDE DEF b
  <2> QED  BY <1>a, <2>0, <2>1, <2>2, Zenon
<1>4. ASSUME NEW l \in Titles, BootInit(l) PROVE CoreInv'
  <2>1. /\ vm' = vm /\ (initialized => initialized')
        /\ \/ initialized' /\ job' = [job EXCEPT ![l].pc = "post"]
           \/ job' = [job EXCEPT ![l].pc = "failed"]
    BY <1>4, Zenon DEF BootInit
  <2> QED  BY <1>0, <2>1 DEF CoreInv, TypeOK, Jobs
<1>5. ASSUME NEW l \in Titles, GameEnter(l) PROVE CoreInv'
  <2>1. /\ UNCHANGED <<vm, initialized>> /\ job[l].pc = "game"
        /\ \/ job' = [job EXCEPT ![l].pc = "dropped"]
           \/ job' = [job EXCEPT ![l].pc = "kill", ![l].title = intent]
    BY <1>5, Zenon DEF GameEnter
  <2>2. CASE job' = [job EXCEPT ![l].pc = "dropped"]
    BY <1>0, <2>1, <2>2 DEF CoreInv, TypeOK, Jobs
  <2>3. CASE job' = [job EXCEPT ![l].pc = "kill", ![l].title = intent]
    <3>1. /\ job'[l].pc = "kill" /\ job'[l].title \in Titles
          /\ \A k \in Titles : k # l => job'[k] = job[k]
      BY <1>0, <2>3 DEF TypeOK, Jobs
    <3> QED  BY <1>0, <2>1, <3>1 DEF CoreInv
  <2> QED  BY <2>1, <2>2, <2>3, Zenon
<1>6. ASSUME NEW l \in Titles, BootRun(l) PROVE CoreInv'
  <2>1. CASE vm' = vm /\ job' = [job EXCEPT ![l].pc = "failed"]
    BY <1>0, <1>6, <2>1 DEF CoreInv, TypeOK, Jobs, BootRun
  <2>2. CASE /\ vm' = [status |-> "running", title |-> job[l].title]
             /\ job' = [job EXCEPT ![l].pc = "done"]
    BY <1>0, <1>6, <2>2 DEF CoreInv, TypeOK, Jobs, BootRun
  <2> QED  BY <1>6, <2>1, <2>2, Zenon DEF BootRun
<1>7. ASSUME NEW l \in Titles,
             \/ BootPost(l) \/ BootKill(l) \/ BootFailure(l)
      PROVE  CoreInv'
  <2>1. /\ UNCHANGED initialized
        /\ vm' = vm \/ vm' = Killed
        /\ \/ job[l].pc = "post" /\ job' = [job EXCEPT ![l].pc = "game"]
           \/ job[l].pc = "kill" /\ job' = [job EXCEPT ![l].pc = "run"]
           \/ job' = [job EXCEPT ![l].pc = "dropped"]
    BY <1>7 DEF BootPost, BootKill, BootFailure
  <2>2. vm'.title = vm.title /\ (vm'.status = "running" => vm.status = "running")
    BY <1>0, <2>1, KilledVm, Zenon
  <2> QED  BY <1>0, <2>1, <2>2 DEF CoreInv, TypeOK, Jobs
<1>8. ASSUME UNCHANGED <<job, initialized>>, vm' = vm \/ vm' = Killed PROVE CoreInv'
  BY <1>0, <1>8, KilledVm DEF CoreInv
<1>9. CASE VmStopped
  BY <1>0, <1>9 DEF VmStopped, CoreInv, TypeOK, Vms
<1> QED
  BY <1>1, <1>2, <1>3, <1>4, <1>5, <1>6, <1>7, <1>8, <1>9, Zenon
     DEF Next, Job, Exit, vars, SurfaceDestroyed, OnPause, NewIntent, NewIntentGate,
         ExitEmulation, ExitStop, ExitWait, ExitCheck, OnDestroy

\* No step gives an old exit the newest token.
LEMMA ExitTokens == ASSUME IInv, [Next]_vars PROVE ExitInv'
<1>0. TypeOK /\ ExitInv /\ finish.generation \in Int
      /\ \A l \in Titles : exit[l].token \in Int
  BY DEF IInv, TypeOK, Finishes, Exits, Generations
<1>1. ASSUME NEW l \in Titles, ExitEmulation \/ BootFailure(l) PROVE ExitInv'
  <2>1. /\ ui = "idle" /\ UNCHANGED <<ui, intent>> /\ \E a \in BOOLEAN : Finish(a)
    BY <1>1, Zenon DEF ExitEmulation, BootFailure
  <2>2. CASE finish' = finish /\ exit' = exit
    BY <1>0, <2>1, <2>2 DEF ExitInv
  <2>3. CASE ~(finish' = finish /\ exit' = exit)
    <3>1. /\ finish'.generation = finish.generation + 1
          /\ \/ exit' = exit
             \/ exit' = [exit EXCEPT ![intent] =
                           [pc |-> "stop", token |-> finish.generation + 1]]
      BY <1>0, <2>1, <2>3, FinishStep, Zenon
    <3> QED  BY <1>0, <2>1, <3>1 DEF ExitInv, TypeOK, Exits
  <2> QED  BY <2>2, <2>3, Zenon
<1>2. CASE NewIntent
  BY <1>0, <1>2 DEF NewIntent, ExitInv
<1>3. CASE NewIntentGate
  <2>1. finish'.generation = finish.generation + 1 /\ exit' = exit
    BY <1>0, <1>3 DEF NewIntentGate, TypeOK, Finishes
  <2> QED  BY <1>0, <2>1 DEF ExitInv
<1>4. CASE NewIntentReset
  BY <1>0, <1>4 DEF NewIntentReset, ExitInv
<1>5. ASSUME NEW l \in Titles, ExitStop(l) \/ ExitWait(l) \/ ExitCheck(l) PROVE ExitInv'
  <2>1. /\ UNCHANGED <<ui, intent>> /\ exit[l].pc # "none"
        /\ \E pc \in {"wait", "check", "done"} : exit' = [exit EXCEPT ![l].pc = pc]
    BY <1>5 DEF ExitStop, ExitWait, ExitCheck
  <2>2. finish'.generation = finish.generation /\ finish'.pending = finish.pending
    BY <1>0, <1>5 DEF ExitStop, ExitWait, ExitCheck, TypeOK, Finishes
  <2> QED  BY <1>0, <2>1, <2>2 DEF ExitInv, TypeOK, Exits
<1>6. CASE OnDestroy
  <2>1. finish'.generation = finish.generation /\ finish'.pending = finish.pending
    BY <1>0, <1>6 DEF OnDestroy, TypeOK, Finishes
  <2>2. \A l \in Titles : /\ exit'[l].token = exit[l].token
                          /\ exit[l].pc = "none" => exit'[l].pc = "none"
    BY <1>0, <1>6 DEF OnDestroy, TypeOK, Exits
  <2> QED  BY <1>0, <1>6, <2>1, <2>2 DEF OnDestroy, ExitInv
<1>7. CASE UNCHANGED <<ui, intent, finish, exit>>
  BY <1>0, <1>7, SMTT(30) DEF ExitInv
<1> QED
  BY <1>0, <1>1, <1>2, <1>3, <1>4, <1>5, <1>6, <1>7, Zenon
     DEF TypeOK, Next, Job, Exit, vars, SurfaceCreated, SurfaceDestroyed, OnResume, OnPause, BootInit,
         BootPost, GameEnter, BootKill, BootRun, VmStopped

\* No step has a stale title running.
LEMMA TitleStep == ASSUME IInv, [Next]_vars PROVE NeverStaleTitle'
<1>0. TypeOK /\ GateInv /\ CoreInv /\ NeverStaleTitle
  BY Zenon DEF IInv
<1>1. CASE NewIntent \/ NewIntentGate
  BY <1>1 DEF NewIntent, NewIntentGate, NeverStaleTitle
<1>2. CASE NewIntentReset
  <2>1. vm' = Killed
    BY <1>2, Zenon DEF NewIntentReset
  <2>2. vm'.status # "running"
    BY <1>0, <2>1, KilledVm, Zenon DEF CoreInv
  <2> QED  BY <2>2, Zenon DEF NeverStaleTitle
<1>3. ASSUME NEW l \in Titles, BootRun(l) PROVE NeverStaleTitle'
  <2>1. gate = l /\ gate # 0 /\ UNCHANGED <<ui, intent>>
    BY <1>0, <1>3, LaunchesAssumption DEF BootRun, GateInv, Titles
  <2>2. job[l].title = intent \/ ui = "gate"
    BY <1>0, <2>1, Zenon DEF GateInv
  <2>3. vm' = vm \/ vm' = [status |-> "running", title |-> job[l].title]
    BY <1>3, Zenon DEF BootRun
  <2> QED  BY <1>0, <2>1, <2>2, <2>3 DEF NeverStaleTitle
<1>4. ASSUME UNCHANGED <<ui, intent>>, vm' = vm \/ vm' = Killed PROVE NeverStaleTitle'
  BY <1>0, <1>4, KilledVm DEF NeverStaleTitle
<1>5. CASE VmStopped
  BY <1>0, <1>5 DEF VmStopped, NeverStaleTitle, TypeOK, Vms
<1> QED
  BY <1>1, <1>2, <1>3, <1>4, <1>5, Zenon
     DEF Next, Job, Exit, vars, SurfaceCreated, SurfaceDestroyed, OnResume, OnPause, BootInit,
         BootPost, GameEnter, BootKill, BootFailure,
         ExitEmulation, ExitStop, ExitWait, ExitCheck, OnDestroy

-----------------------------------------------------------------------------
\* IInv is an invariant of the activity, its boot threads and its exits (Emulator.kt).
THEOREM ActivityInductive == Spec => []IInv
<1>1. IInv /\ [Next]_vars => IInv'
  <2> SUFFICES ASSUME IInv, [Next]_vars PROVE IInv'
    OBVIOUS
  <2> QED  BY TypeStep, CountStep, GateStep, CoreStep, ExitTokens, TitleStep, Zenon DEF IInv
<1> QED  BY InitInv, <1>1, PTL DEF Spec

\* The activity keeps its type: two generations per launch are enough for any schedule.
THEOREM ActivityTypeCorrect == Spec => []TypeOK
<1>1. IInv => TypeOK
  BY Zenon DEF IInv
<1> QED  BY ActivityInductive, <1>1, PTL

\* "never boot a stale title": a VM that runs outside onNewIntent has the title of the
\* newest launch, whatever boot threads of older launches are still under way.
THEOREM NoStaleTitle == Spec => []NeverStaleTitle
<1>1. IInv => NeverStaleTitle
  BY Zenon DEF IInv
<1> QED  BY ActivityInductive, <1>1, PTL

\* Only the newest launch boots: bootGate and the generation keep every other game
\* thread out.
THEOREM NewestLaunchBoots == Spec => []OnlyNewestBoots
<1>1. IInv => OnlyNewestBoots
  BY Zenon DEF IInv, GateInv, OnlyNewestBoots
<1> QED  BY ActivityInductive, <1>1, PTL

\* The coroutine of finish() finishes the activity only for an exit that no launch
\* superseded.
THEOREM ExitsAreSuperseded == Spec => SupersededExit
<1>1. IInv /\ [Next]_vars =>
        [\A l \in Titles :
           ExitCheck(l) /\ finish'.isFinishing /\ ~finish.isFinishing => l = intent]_vars
  <2> SUFFICES ASSUME IInv, NEW l \in Titles, ExitCheck(l), finish'.isFinishing,
                      ~finish.isFinishing
               PROVE  l = intent
    BY Zenon
  <2>1. finish.pending /\ finish.generation = exit[l].token
    BY DEF ExitCheck, IInv, TypeOK, Finishes
  <2>2. exit[l].pc # "none" /\ ui = "idle"
    BY DEF ExitCheck
  <2> QED  BY <2>1, <2>2 DEF IInv, ExitInv
<1> QED  BY ActivityInductive, <1>1, PTL DEF Spec, SupersededExit
=============================================================================
