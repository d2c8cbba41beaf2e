-------------------------- MODULE EmulatorActivity --------------------------
(***************************************************************************)
(* The life of one Emulator activity (app/.../core/ps3/Emulator.kt) and of *)
(* the VM it drives through Ps3Runtime: launches (the first intent and     *)
(* every onNewIntent), the two boot threads each launch may start, exits   *)
(* and their coroutine, and the surface.  The UI thread runs one           *)
(* handler or posted runnable at a time; boot threads, exit                *)
(* coroutines and the core interleave with it.  Launches are numbered, and *)
(* launch l asks for title l.  A launch starts at most one boot and one    *)
(* exit, since only onNewIntent resets bootStarted and finishPending:      *)
(* job[l] and exit[l].                                                     *)
(* Pausing the VM, input, the overlay, the native window and play-time     *)
(* sessions are left out.                                                  *)
(***************************************************************************)
EXTENDS Integers

CONSTANTS Launches,        \* bound: launches of the activity, 1..n
          SurfaceLosses,   \* bound: how often the surface is destroyed
          NoTitle

ASSUME LaunchesAssumption == Launches \in Nat \ {0} /\ SurfaceLosses \in Nat
                             /\ NoTitle \notin 1..Launches

VARIABLES
  ui,         \* the UI thread: "idle", or inside onNewIntent
  intent,     \* the activity's intent, as the number of the launch
  boot,       \* bootStarted, bootGeneration
  finish,     \* finishPending, finishGeneration, isFinishing, destroyed
  exiting, lifecyclePaused,
  surface,    \* is the surface valid, and how often it was lost
  gate,       \* the launch whose game thread boots inside bootGate, 0: free
  job,        \* job[l]: the boot threads of launch l
  exit,       \* exit[l]: the coroutine of finish() called during launch l
  initialized,\* Ps3Core.initialized
  vm,         \* the core: status and title
  asked       \* history: an exit was asked for since the last launch

vars == <<ui, intent, boot, finish, lifecyclePaused, surface, gate, job,
          exit, initialized, vm, asked, exiting>>

Titles == 1..Launches
NoJob == [pc |-> "none", gen |-> 0, title |-> NoTitle]
NoExit == [pc |-> "none", token |-> 0]

Generations == 0..2 * Launches
Boots == [started : BOOLEAN, generation : Generations]
Finishes == [pending : BOOLEAN, generation : Generations, isFinishing : BOOLEAN,
             destroyed : BOOLEAN]
Jobs == [pc : {"none", "init", "post", "game", "kill", "run", "failed", "done",
               "dropped"},
         gen : Generations, title : Titles \cup {NoTitle}]
Exits == [pc : {"none", "stop", "wait", "check", "done"}, token : Generations]
Vms == [status : {"stopped", "running", "stopping"}, title : Titles \cup {NoTitle}]

\* Each variable of the activity keeps its type; each launch raises the generations of
\* boots and of exits at most twice.
TypeOK ==
  /\ ui \in {"idle", "gate", "reset"}
  /\ intent \in Titles
  /\ boot \in Boots
  /\ finish \in Finishes
  /\ lifecyclePaused \in BOOLEAN
  /\ exiting \in BOOLEAN
  /\ surface \in [valid : BOOLEAN, losses : 0..SurfaceLosses]
  /\ gate \in 0..Launches
  /\ job \in [Titles -> Jobs]
  /\ exit \in [Titles -> Exits]
  /\ initialized \in BOOLEAN
  /\ vm \in Vms
  /\ asked \in BOOLEAN

-----------------------------------------------------------------------------
\* After onCreate, which stops the VM of an earlier activity
Init ==
  /\ ui = "idle"
  /\ intent = 1
  /\ boot = [started |-> FALSE, generation |-> 0]
  /\ finish = [pending |-> FALSE, generation |-> 0, isFinishing |-> FALSE, destroyed |-> FALSE]
  /\ lifecyclePaused = FALSE
  /\ exiting = FALSE
  /\ surface = [valid |-> FALSE, losses |-> 0]
  /\ gate = 0
  /\ job = [l \in Titles |-> NoJob]
  /\ exit = [l \in Titles |-> NoExit]
  /\ initialized \in BOOLEAN
  /\ vm \in [status : {"stopped", "stopping"}, title : {NoTitle}]
  /\ vm.status = "stopping" => initialized
  /\ asked = FALSE

\* Ps3Runtime.requestStop, when the core's lifecycle mutex is free
Killed == [vm EXCEPT !.status = IF initialized /\ @ = "running" THEN "stopping" ELSE @]

-----------------------------------------------------------------------------
\* Mutant: starts a boot although this launch has started one
SurfaceReady_Again(valid, b) ==
  IF finish.pending \/ finish.isFinishing \/ ~valid
  THEN boot' = b /\ UNCHANGED job
  ELSE /\ gate = 0
       /\ boot' = [b EXCEPT !.started = TRUE, !.generation = @ + 1]
       /\ job' = [job EXCEPT ![intent] = [pc |-> "init", gen |-> b.generation + 1,
                                              title |-> NoTitle]]

\* onEmulationSurfaceReady, up to the start of the boot thread
SurfaceReady(valid, b) ==
  IF finish.pending \/ finish.isFinishing \/ ~valid \/ b.started
  THEN boot' = b /\ UNCHANGED job
  ELSE /\ gate = 0
       /\ boot' = [b EXCEPT !.started = TRUE, !.generation = @ + 1]
       /\ job' = [job EXCEPT ![intent] = [pc |-> "init", gen |-> b.generation + 1,
                                              title |-> NoTitle]]

\* EmuSurface.surfaceCreated and surfaceChanged
SurfaceCreated ==
  /\ ui = "idle" /\ ~surface.valid /\ ~finish.destroyed
  /\ surface' = [surface EXCEPT !.valid = TRUE]
  /\ SurfaceReady(TRUE, boot)
  /\ UNCHANGED <<ui, intent, finish, lifecyclePaused, gate, exit,
                 initialized, vm, asked, exiting>>

\* EmuSurface.surfaceDestroyed
SurfaceDestroyed ==
  /\ ui = "idle" /\ surface.valid
  /\ surface.losses < SurfaceLosses \/ finish.isFinishing
  /\ surface' = [surface EXCEPT !.valid = FALSE,
                                !.losses = IF finish.isFinishing THEN @ ELSE @ + 1]
  /\ UNCHANGED <<ui, intent, boot, finish, lifecyclePaused, gate, job, exit,
                 initialized, vm, asked, exiting>>

OnResume ==
  /\ ui = "idle" /\ lifecyclePaused /\ ~finish.destroyed /\ ~finish.isFinishing
  /\ lifecyclePaused' = FALSE
  /\ SurfaceReady(surface.valid, boot)
  /\ UNCHANGED <<ui, intent, finish, surface, gate, exit, initialized, vm,
                 asked, exiting>>

OnPause ==
  /\ ui = "idle" /\ ~lifecyclePaused /\ ~finish.destroyed
  /\ lifecyclePaused' = TRUE
  /\ UNCHANGED <<ui, intent, boot, finish, surface, gate, job, exit,
                 initialized, vm, asked, exiting>>

\* onNewIntent up to synchronized(bootGate)
NewIntent ==
  /\ ui = "idle" /\ intent < Launches /\ ~finish.isFinishing /\ ~finish.destroyed
  /\ ui' = "gate"
  /\ intent' = intent + 1
  /\ UNCHANGED <<boot, finish, lifecyclePaused, surface, gate, job, exit,
                 initialized, vm, asked, exiting>>

\* Mutant: a launch does not supersede a pending exit
NewIntentGate_KeepsExit ==
  /\ ui = "gate" /\ gate = 0
  /\ ui' = "reset"
  /\ boot' = [boot EXCEPT !.generation = @ + 1]
  /\ asked' = FALSE
  /\ UNCHANGED <<intent, finish, lifecyclePaused, surface, gate, job, exit,
                 initialized, vm, exiting>>

\* Its synchronized block
NewIntentGate ==
  /\ ui = "gate" /\ gate = 0
  /\ ui' = "reset"
  /\ finish' = [finish EXCEPT !.generation = @ + 1, !.pending = FALSE]
  /\ boot' = [boot EXCEPT !.generation = @ + 1]
  /\ asked' = FALSE
  /\ UNCHANGED <<intent, lifecyclePaused, surface, gate, job, exit,
                 initialized, vm, exiting>>

\* Mutant: forgets to reset bootStarted
NewIntentReset_KeepsStarted ==
  /\ ui = "reset"
  /\ ui' = "idle"
  /\ exiting' = FALSE
  /\ vm' = Killed
  /\ SurfaceReady(surface.valid, boot)
  /\ UNCHANGED <<intent, finish, lifecyclePaused, surface, gate, exit, initialized,
                 asked>>

\* Mutant: does not stop the VM of the launch before
NewIntentReset_NoStop ==
  /\ ui = "reset"
  /\ ui' = "idle"
  /\ exiting' = FALSE
  /\ SurfaceReady(surface.valid, [boot EXCEPT !.started = FALSE])
  /\ UNCHANGED <<intent, finish, lifecyclePaused, surface, gate, exit, initialized,
                 vm, asked>>

\* The rest of it
NewIntentReset ==
  /\ ui = "reset"
  /\ ui' = "idle"
  /\ exiting' = FALSE
  /\ vm' = Killed
  /\ SurfaceReady(surface.valid, [boot EXCEPT !.started = FALSE])
  /\ UNCHANGED <<intent, finish, lifecyclePaused, surface, gate, exit, initialized,
                 asked>>

-----------------------------------------------------------------------------
\* The boot thread: ensureInitialized
BootInit(l) ==
  /\ job[l].pc = "init"
  /\ \/ /\ initialized' = TRUE
        /\ job' = [job EXCEPT ![l].pc = "post"]
     \/ /\ ~initialized
        /\ job' = [job EXCEPT ![l].pc = "failed"]
        /\ UNCHANGED initialized
  /\ UNCHANGED <<ui, intent, boot, finish, lifecyclePaused, surface, gate,
                 exit, vm, asked, exiting>>

\* The runnable it posts to the UI thread
BootPost(l) ==
  /\ ui = "idle" /\ job[l].pc = "post"
  /\ job' = [job EXCEPT ![l].pc = IF ~surface.valid \/ finish.isFinishing
                                  THEN "dropped" ELSE "game"]
  /\ UNCHANGED <<ui, intent, boot, finish, lifecyclePaused, surface, gate,
                 exit, initialized, vm, asked, exiting>>

\* Mutant: the game thread does not check its generation
GameEnter_AnyGeneration(l) ==
  /\ gate = 0 /\ job[l].pc = "game"
  /\ IF finish.pending \/ finish.isFinishing
     THEN /\ job' = [job EXCEPT ![l].pc = "dropped"]
          /\ UNCHANGED gate
     ELSE /\ gate' = l
          /\ job' = [job EXCEPT ![l].pc = "kill", ![l].title = intent]
  /\ UNCHANGED <<ui, intent, boot, finish, lifecyclePaused, surface, exit,
                 initialized, vm, asked, exiting>>

\* Mutant: the game thread boots although the activity exits
GameEnter_Exiting(l) ==
  /\ gate = 0 /\ job[l].pc = "game"
  /\ IF job[l].gen # boot.generation
     THEN /\ job' = [job EXCEPT ![l].pc = "dropped"]
          /\ UNCHANGED gate
     ELSE /\ gate' = l
          /\ job' = [job EXCEPT ![l].pc = "kill", ![l].title = intent]
  /\ UNCHANGED <<ui, intent, boot, finish, lifecyclePaused, surface, exit,
                 initialized, vm, asked, exiting>>

\* The game thread enters bootGate, checks its generation and reads the title
\* to boot from the intent
GameEnter(l) ==
  /\ gate = 0 /\ job[l].pc = "game"
  /\ IF finish.pending \/ finish.isFinishing \/ job[l].gen # boot.generation
     THEN /\ job' = [job EXCEPT ![l].pc = "dropped"]
          /\ UNCHANGED gate
     ELSE /\ gate' = l
          /\ job' = [job EXCEPT ![l].pc = "kill", ![l].title = intent]
  /\ UNCHANGED <<ui, intent, boot, finish, lifecyclePaused, surface, exit,
                 initialized, vm, asked, exiting>>

\* emucorec_boot stops a VM that still runs
BootKill(l) ==
  /\ job[l].pc = "kill"
  /\ vm' = Killed
  /\ job' = [job EXCEPT ![l].pc = "run"]
  /\ UNCHANGED <<ui, intent, boot, finish, lifecyclePaused, surface, gate,
                 exit, initialized, asked, exiting>>

\* It boots the title, fails to, or gives up waiting for the old VM; the game
\* thread leaves bootGate with the result
BootRun(l) ==
  /\ job[l].pc = "run"
  /\ \/ /\ vm.status = "stopped"
        /\ vm' = [status |-> "running", title |-> job[l].title]
        /\ job' = [job EXCEPT ![l].pc = "done"]
     \/ /\ job' = [job EXCEPT ![l].pc = "failed"]
        /\ UNCHANGED vm
  /\ gate' = 0
  /\ UNCHANGED <<ui, intent, boot, finish, lifecyclePaused, surface, exit,
                 initialized, asked, exiting>>

-----------------------------------------------------------------------------
\* finish(), on the UI thread; the exit is asked for when a holds
Finish(a) ==
  /\ asked' = (asked \/ a)
  /\ IF finish.isFinishing \/ finish.pending THEN UNCHANGED <<finish, exit>>
     ELSE
       /\ gate = 0
       /\ finish' = [finish EXCEPT !.pending = TRUE, !.generation = @ + 1,
                                   !.isFinishing = ~initialized]
       /\ exit' = IF initialized /\ ~finish.destroyed
                  THEN [exit EXCEPT ![intent] = [pc |-> "stop", token |-> finish.generation + 1]]
                  ELSE exit

\* exitEmulation, from the overlay
ExitEmulation ==
  /\ ui = "idle" /\ ~finish.destroyed /\ ~exiting
  /\ exiting' = TRUE
  /\ Finish(TRUE)
  /\ UNCHANGED <<ui, intent, boot, lifecyclePaused, surface, gate, job,
                 initialized, vm>>

\* The runnable of showBootFailure
BootFailure(l) ==
  /\ ui = "idle" /\ job[l].pc = "failed"
  /\ job' = [job EXCEPT ![l].pc = "dropped"]
  /\ Finish(l = intent)
  /\ UNCHANGED <<ui, intent, boot, lifecyclePaused, surface, gate,
                 initialized, vm, exiting>>

\* The coroutine of finish(): requestStop inside bootGate
ExitStop(l) ==
  /\ gate = 0 /\ exit[l].pc = "stop"
  /\ vm' = Killed
  /\ exit' = [exit EXCEPT ![l].pc = "wait"]
  /\ UNCHANGED <<ui, intent, boot, finish, lifecyclePaused, surface, gate,
                 job, initialized, asked, exiting>>

\* It polls until the VM has stopped, or gives up after STOP_WAIT_LIMIT_MS
ExitWait(l) ==
  /\ exit[l].pc = "wait"
  /\ exit' = [exit EXCEPT ![l].pc = "check"]
  /\ UNCHANGED <<ui, intent, boot, finish, lifecyclePaused, surface, gate,
                 job, initialized, vm, asked, exiting>>

\* Back on the UI thread it finishes the activity, unless a launch came
ExitCheck(l) ==
  /\ ui = "idle" /\ gate = 0 /\ exit[l].pc = "check"
  /\ exit' = [exit EXCEPT ![l].pc = "done"]
  /\ finish' = [finish EXCEPT !.isFinishing =
                  @ \/ (finish.pending /\ finish.generation = exit[l].token)]
  /\ UNCHANGED <<ui, intent, boot, lifecyclePaused, surface, gate, job,
                 initialized, vm, asked, exiting>>

\* onDestroy, of a finished activity or of one the system reclaims; it also
\* cancels the coroutines of the activity
OnDestroy ==
  /\ ui = "idle" /\ lifecyclePaused /\ ~finish.destroyed
  /\ finish.isFinishing => gate = 0
  /\ finish' = [finish EXCEPT !.destroyed = TRUE]
  /\ vm' = IF finish.isFinishing THEN Killed ELSE vm
  /\ exit' = [l \in Titles |-> [exit[l] EXCEPT !.pc = IF @ = "none" THEN @ ELSE "done"]]
  /\ UNCHANGED <<ui, intent, boot, lifecyclePaused, surface, gate, job,
                 initialized, asked, exiting>>

-----------------------------------------------------------------------------
\* The VM has stopped: the last step of Emulator::Kill
VmStopped ==
  /\ vm.status = "stopping"
  /\ vm' = [vm EXCEPT !.status = "stopped"]
  /\ UNCHANGED <<ui, intent, boot, finish, lifecyclePaused, surface, gate,
                 job, exit, initialized, asked, exiting>>

Job(l) == \/ BootInit(l) \/ BootPost(l) \/ GameEnter(l) \/ BootKill(l) \/ BootRun(l)
          \/ BootFailure(l)
Exit(l) == ExitStop(l) \/ ExitWait(l) \/ ExitCheck(l)

Next ==
  \/ SurfaceCreated
  \/ SurfaceDestroyed
  \/ OnResume
  \/ OnPause
  \/ NewIntent
  \/ NewIntentGate
  \/ NewIntentReset
  \/ \E l \in Titles : Job(l)
  \/ ExitEmulation
  \/ \E l \in Titles : Exit(l)
  \/ OnDestroy
  \/ VmStopped

Spec == Init /\ [][Next]_vars

\* Threads, posted runnables and coroutines run, the system delivers the
\* callbacks of a surface and of a finishing activity, and the VM stops when
\* it is told to.  Nothing forces the user to act.
Fairness ==
  /\ \A l \in Titles : WF_vars(Job(l)) /\ WF_vars(Exit(l))
  /\ WF_vars(NewIntentGate) /\ WF_vars(NewIntentReset)
  /\ WF_vars(VmStopped)
  /\ WF_vars(SurfaceCreated)
  /\ WF_vars(finish.isFinishing /\ OnPause)
  /\ WF_vars(finish.isFinishing /\ OnDestroy)

FairSpec == Spec /\ Fairness

-----------------------------------------------------------------------------
\* Never boot a stale title: whatever boot threads of earlier launches are
\* still under way, a VM that runs has the title of the newest launch, except
\* while onNewIntent is about to stop it.
NeverStaleTitle == vm.status = "running" /\ ui = "idle" => vm.title = intent

\* "The generation makes sure only the newest one actually starts a title":
\* while a game thread boots inside bootGate, no newer launch has passed the
\* gate, so no title is booted or stopped on behalf of an older launch.
OnlyNewestBoots == gate # 0 => job[gate].gen = boot.generation

\* "A launch supersedes any pending exit": the coroutine of an exit only
\* finishes the activity when no launch came after that exit.
SupersededExit ==
  [][\A l \in Titles :
       ExitCheck(l) /\ finish'.isFinishing /\ ~finish.isFinishing => l = intent]_vars

\* "A launch supersedes any pending exit": it "must not tear the activity down
\* under the game the user just asked for" (onNewIntent).  The activity only finishes when an
\* exit was asked for, or the newest launch failed, after the newest launch; and
\* the coroutine of an exit from before it does not stop the VM that runs it.
StaleExitIsInert ==
  [][/\ finish'.isFinishing => asked'
     /\ \A l \in Titles :
          ExitStop(l) /\ exit[l].token # finish.generation /\ vm.title = intent => vm' = vm]_vars

\* The game thread of launch l got its title to run
Booted(l) == job[l].pc = "done"

\* "the last requested launch always wins": when the surface stays, a launch
\* gets its title to run, unless a newer launch or an exit comes.
LastLaunchWins ==
  \A l \in Titles :
    <>[](surface.valid /\ ~lifecyclePaused /\ ~finish.destroyed) =>
      ((intent = l /\ ui = "idle") ~> (Booted(l) \/ intent # l \/ finish.pending))

\* The same as long as no surface is lost.
LaunchWins == [](surface.losses = 0) => LastLaunchWins

\* An exit that no launch supersedes finishes the activity, and in the end the
\* VM is stopped for good: no boot thread starts it again.
ExitStopsVm ==
  /\ finish.pending ~> (finish.isFinishing \/ finish.destroyed \/ ~finish.pending)
  /\ finish.isFinishing ~> [](vm.status = "stopped")

-----------------------------------------------------------------------------
(* The inductive invariant behind the safety properties *)

\* Each launch raises both generations once, its boot and its exit once more
Past == IF ui = "gate" THEN 2 * intent - 4 ELSE 2 * intent - 2
CountInv ==
  /\ ui = "gate" => intent > 1
  /\ boot.generation <= Past + (IF boot.started /\ ui # "reset" THEN 1 ELSE 0)
  /\ finish.generation <= Past + (IF finish.pending THEN 1 ELSE 0)

\* One game thread at a time is inside bootGate, for the newest launch; onNewIntent
\* changes the intent under it, and then waits
GateInv ==
  /\ \A l \in Titles : job[l].pc \in {"kill", "run"} <=> gate = l
  /\ gate # 0 => /\ job[gate].gen = boot.generation
                 /\ job[gate].title = intent \/ ui = "gate"

\* A title is running, or about to be, only in an initialized core
CoreInv ==
  /\ vm.status = "running" => initialized
  /\ \A l \in Titles :
       /\ job[l].pc \in {"post", "game", "kill", "run"} => initialized
       /\ job[l].pc \in {"kill", "run"} => job[l].title \in Titles

\* An exit from before the newest launch has an old token, once onNewIntent is through
ExitInv ==
  \A l \in Titles : exit[l].pc # "none" =>
    /\ exit[l].token <= finish.generation
    /\ finish.pending /\ exit[l].token = finish.generation => l = intent \/ ui = "gate"

IInv == TypeOK /\ CountInv /\ GateInv /\ CoreInv /\ ExitInv /\ NeverStaleTitle

=============================================================================
