# TLA+ models of EmuCoreC

EmuCoreC is a PlayStation 3 emulator for Android: the RPCS3 core
(`src/core`), a JNI layer (`src/android`) and a Kotlin app (`src/app`). The
modules here model six parts of it in which several threads, callbacks or
file-system steps interleave. TLC checks them on small instances, and TLAPS
proves safety properties of all six for all values of the constants.

The program has about 900,000 lines, most of them instruction semantics,
graphics, HLE libraries, parsers and user interface. The models cover the 3,500
lines that `PROJECT.json` maps, well under one percent of that. What follows is
about those parts only and says nothing of the rest.

## Inventory

| Part | State and operations | What is hard | Module |
|---|---|---|---|
| LV2 scheduler (`lv2.cpp`) | run queue `g_ppu`, `g_pending`, `g_waiting`, thread flags; sleep, awake, yield, priorities, start, exit | threads change their flags without the lock; a preempted thread runs on until it acknowledges | `Lv2Sched` |
| LV2 event flag (`sys_event_flag.cpp`) | pattern, wait queue; wait, set, clear, cancel, destroy | lock-free changes of the pattern while a set decides whom to wake | `Lv2EventFlag` |
| Save-state slots (`save_states.cpp`, `SaveStateRepository.kt`) | payloads and integrity manifests; capture, load, delete | crashes and failed writes between steps | `SaveSlot` |
| Save-state operations (`save_states.cpp`, `System.cpp`) | one pending operation and the VM; request, kill, capture, boot, finish | threads and callbacks of a `Kill` that outlive it, deferred stops, a guest that replaces itself | `SaveStates` |
| Native operations (`SaveStateController.kt`, `NativeInstallOperation.kt`) | a call and its completion | a time limit against the report, late reports | `SaveStateApp` |
| Activity, boot and exit (`Emulator.kt`, `Ps3Runtime.kt`) | launches, boot threads, exits, VM; lifecycle callbacks | boot threads, exit coroutines and posted runnables of older launches | `EmulatorActivity` |
| Drive restore (`DriveBackupArchive.kt`, `BackupSessionGate.kt`) | files, settings, a rollback image and a journal; restore, recover | death in the middle, and in the recovery; titles beside it | `DriveRestore` |
| Other LV2 objects | wait queues and owners | as for the event flag | planned |
| CPU suspension (`CPUThread.cpp`) | list of workloads | pushes while the list runs | planned |

`PROJECT.json` lists every other part with the reason it is not modelled, and
each hazard at its line.

## Modules

`Lv2Queue` has the linked lists of `sys_sync.h` as sequences. `Lv2SchedOps` has
the scheduler functions as operators from one state record to the next;
`Lv2Sched` adds the threads, which take `g_mutex` and put one thread at a time
into the run queue, since other threads change their own flags meanwhile. What
a guest program does is arbitrary.

`Lv2EventFlag` visits the waiters of a set one by one, so that clears, polls and
the first try of a wait fall between any two visits. Sleeping is reduced to
waiting for a signal.

`SaveSlot` takes one change of the file system per step. A payload stands for
its size and digest. `Overlap` says whether a delete may run during a capture.

`SaveStates` has the dispatcher thread with its queue, the VM with its
`after_kill_callback`, and the two threads of a `Kill`: one prepares the
savestate, one joins the guest's threads and writes it. An operation is a
number, and so is the callback that belongs to it. `locked` is
`g_emu_lifecycle_mutex` where somebody holds it for more than a step. Two history
variables record what the properties have to except: `spawn`, that the guest
replaced itself, and `misled`, that an operation met the prepare thread of an
earlier one. `SaveStateApp` composes it with the app: the call of `operate`, the
coroutine that waits, the progress bus and the reports on their way. `onEvent` is
three steps, the look-up of the id, the listener outside the lock and `cancel(id)`,
between which the call may return and the next one begin.

`EmulatorActivity` numbers the launches; `job[l]` are the boot threads of launch
l and `exit[l]` the coroutine of a `finish()` during it. The UI thread runs one
handler at a time; `onNewIntent` is three steps because it waits for `bootGate`.

`AtomicRestore` says what a restore promises: files and settings change in one
step or not at all, and what a title saves is kept. `DriveRestore` is what the
code does, one step per file, group of settings and journal write, with failing
steps, deaths of the process, the recovery after a start, and titles that save at
any time. `settings` are the preferences in memory, `stored` those on disk:
`apply()` changes the first and a thread of the system writes them at some later
time, while the journal is synced at once. The refinement takes for each file what
counts: the rollback image while an uncommitted journal is there, the disk
otherwise. `RestoreData` has the types both share.

The `MC` modules give the instances; `MCLv2EventFlag` also has the atomic set
that `TurnIsAtomic` and `SetIsAtomic` compare with. Definitions with an underscore
and a suffix are mutants: variants with a plausible bug, each of which violates the
property it is listed for.

## Runs

| Run | Instance | Result |
|---|---|---|
| `sched_timeouts` | 3 threads, 2 hardware threads, timed sleeps | `g_pending` is exact, at most `ppu_threads` threads run and none before the scheduler starts, none idles, no stale flag or timeout |
| `sched_live` | 2 threads, 1 hardware thread, 2 priorities, fairness | preempted threads acknowledge, the first in the queue is released, priorities are respected |
| `evflag` | 2 waiters, 1 setter, 2 bits, fairness | no lost wake-up, results fit, each turn of a set is atomic, a set ends, a removed waiter returns |
| `evflag_retry` | 3 waiters, 4 bits | **violated**: a set that starts over wakes a waiter with an old result |
| `slot` | 3 payloads, no overlap | the slot loads its last commit, damage never loads |
| `launch` | 2 launches, 2 surface losses, fairness | no stale title runs, only the newest launch boots, superseded exits do not finish the activity, the last launch runs unless a surface is lost, an exit stops the VM |
| `launch_stale` | 2 launches | **violated**: an old failure finishes the activity |
| `launch_lost` | 1 launch, 1 surface loss, fairness | **violated**: the launch never boots |
| `restore` | 2 files, 1 failure, 2 deaths, 1 save, fairness | a restore is all or nothing (refinement), a journal that somebody is about to undo goes |
| `restore_boot` | the same, without fairness | **violated**: a title is booted on a half-restored card |
| `savestates` | 2 requests, 1 boot, exit or exitspawn of others, fairness | each operation reports once and truthfully, it ends, a deferred stop is honoured; a `Kill` runs once and its flag is cleared; `operate` answers with its own report |
| `savestate_spawn` | 1 request, 1 exitspawn, fairness | **violated**: the operation never ends and the exit is lost |

Three passes need their exceptions read with them.

- A set that finds its pattern changed starts over. `TurnIsAtomic` is about the turn
  that writes: whom it wakes, apart from waiters an earlier turn has given their
  result, and what it writes are what one atomic set would do. That the whole
  set is atomic is `SetIsAtomic`, which `evflag_retry` refutes: the result of an
  earlier turn is handed out although the pattern has changed. `evflag` is too small for
  that schedule (three waiters, four bits), so `TurnIsAtomic` was also
  checked on the instance of `evflag_retry` (24,733,989 states, 22 minutes).
- `AllOrNothing` excepts three things, for which the code has no protection. `raced`:
  a file that a title saves while the restore is about to change it may end either
  way. Titles do save meanwhile: `BackupSessionGate` learns of a title when
  its play-time session starts, after the boot (`Emulator.kt:601`), and nothing calls
  the gate's `start`. `lost`: settings set by `apply()` that were not written when
  the process died with no uncommitted journal left, after a commit or a
  rollback. And the user's font, which no rollback brings back. What it shows is
  that no other file and no other group of settings is affected: a save of one file
  does not tear the others, and settings that are written late do no harm before the
  commit. `Settles` supposes that the app is started again after it died and that no
  session runs when the recovery thread comes to the gate; when one does, the
  thread gives up and the journal waits for the next backup or restore, which nobody
  has to make (`Abandoned`).
- `OperationEnds` and `StopHonoured` are about behaviours in which exitspawn takes no
  callback away (`savestate_spawn` shows what happens otherwise) and no operation
  meets the prepare thread of an earlier one, which needs a thread held up
  for a whole teardown and boot; so is `CallbackOwned`, for the second.

The violations are schedules the code allows. They were found in the models and
have not been reproduced on a device; some need unlikely timing.

Some hazards have no property, because the state they need is not in a module or
because the code is known to be exposed: `PROJECT.json` lists them with a note.
Among them: a game thread stores the title it booted after it has left `bootGate`
(`Emulator.kt:329`), so that the next boot may take the settings of the old title; a
delete that the overlay allows 120 seconds into a capture leaves a payload without manifest (`SaveSlot` has it as
`Overlap`; the run and the theorems about loading exclude it).

**Bounds.** Two hardware threads and three threads give preemption with one
thread left over. Two launches give an older and a newer one, which every
property speaks of (52,966 states); three launches with one surface loss
(1,291,269 states) were checked once for the safety properties and pass too, but
are not among the runs. Three payloads are one in the slot, one captured and one more; payloads, and threads of equal
standing, are symmetric. No run with a liveness property uses symmetry. Two files
are one replaced and one not yet; one failure and two deaths let a restore fail,
its recovery die and the next one too, and one save meets each of their steps
(1,047,980 states). Two requests are an operation and what an earlier one left behind
(204,553 states); with two boots or exits instead of one the safety properties and
the invariants of the proofs were checked once (1,193,439 states).

**Deadlock** is not checked for the LV2 models, where threads may exit, sleep
without a timeout or destroy the flag; in `EmulatorActivity` because a destroyed
activity does nothing more; in `SaveStates` and `DriveRestore` because the numbers of
requests, calls and deaths are bounded, and nobody has to ask for anything.

**Fairness.** Scheduler: a host thread that runs goes on, guest code polls its
flags, and nobody waits for `g_mutex` for ever (strong fairness). Event flag:
the holder of the mutex and a waiter whose wait is over go on. Activity:
threads, runnables and coroutines run, Android delivers surface and destroy
callbacks, and *the VM stops when told to*. Save states: the dispatcher, the
threads of a `Kill` and the callers go on, and a VM that starts runs in the end or
stops. Both are assumptions: comments in `emucorec-android.cpp` report teardowns
that never ended, and the code bounds its waits because of them. Restore: the block
inside the gate goes on, and the recovery thread comes to the gate once it is free.
No restart of the app, no end of a session and no backup is forced; what `Settles`
needs of them are its own hypotheses. No other user or guest action is forced.

## Proofs

- `Lv2SchedProofs` (on `Lv2QueueProofs`, `Lv2SchedOpsProofs`): for any finite
  set of threads, any number of hardware threads and any priorities. `IInv` adds
  to the properties where running threads are (`PlaceInv`), that the queue is
  sorted without duplicates, what threads that left may not do (`GoneInv`), what
  the lock holder owes, and that suspended threads which have not acknowledged
  still count as running: without it the bound on hardware threads is not
  inductive, because a thread is released when the last one acknowledges. That
  nobody runs before `make_scheduler_ready` has an invariant of its own,
  `NotStartedInv`: until then all threads are suspended, owe no acknowledgement and
  are where a suspended thread gets without guest code.
- `Lv2EventFlagProofs`: for any waiters, setters and bits. The core is
  `VisitInv`: during a set nobody else adds bits, so a waiter visited in vain
  stays unsatisfied by what is left to write.
- `SaveSlotProofs`: for any payloads. That a slot loads and that a delete strips
  nothing is proved **under the hypothesis `Overlap = FALSE`**: `CaptureInv` says at
  each step which payload is in the slot and that the published records cover it;
  `DeleteInv` that manifests go only after all payloads. Types, and that damage is
  never authenticated, need no hypothesis: `BlessInv` says that a capture has a
  payload of the core's and that nothing else is recorded.
- `EmulatorActivityProofs`: for any number of launches and surface losses.
  `CountInv` bounds both generations by the launches so far, `GateInv` says that
  the thread inside `bootGate` is the newest one, and that its title is the
  intent's unless `onNewIntent` is waiting for it, and `ExitInv` that an exit from
  before the newest launch holds an old token.
- `SaveStatesProofs`: for any number of requests, boots, exits and exitspawns. That
  an operation reports once rests on `pending` alone; that its callback goes with
  it does not. `OrderInv` says that an operation has nothing else under way before it
  starts, and that a callback which is still set has not been posted; `FailInv` that
  while a failed save still owns the callback, the dispatcher stands at the join of
  the thread whose guard will clear it, in front of the report.

  `VmInv` is about the VM. `KillOnce` says that `m_emu_state_close_pending` is set
  exactly while a `Kill` is in one of its places: the prepare thread, the join thread
  or a posted callback. `RunInv` says that a posted run callback is about the VM there
  is, and runs before it is gone; `SavedInv` that a save which waits for its new VM has
  its file, and that no failed preparation can take it back. With them a step that
  reports success (`SuccessIsTrue`) has the file or its own VM, by cases on the step.

  A step of the app is one of the core or leaves it alone (`AppKeepsCore`), so these
  hold under it.
  `ByInv` says that an operation carries the id of one call; `ToldInv` that what is on
  its way, has arrived or was answered was reported for that id, which gives
  `AnswerIsTrue` however late a report is. `IdsAreLive` says that the bus knows the id
  of the waiting call until something settles it, and otherwise none but that of the
  event whose listener is done and which is about to be cancelled: so a `cancel(id)`
  that comes after the call has returned, or after the next one has begun, takes
  nobody else's id. It is proved with `SettledInv` (calls to come are not settled, a
  result or a listener settles its call) and was model-checked, but is not among the
  properties of the runs.
- `DriveRestoreProofs`: the refinement, for any files, contents, snapshots, wishes,
  failures, deaths, late writes and saves of titles, with no hypothesis beside the
  exceptions that `AtomicRestore` states. `SaveInv`, `ReplaceInv` and `RollInv` say at
  each step of a restore and of a recovery which files agree with the disk, the
  snapshot and the rollback image, for all files that are not `raced`; what concerns
  the settings needs no such exception, since an uncommitted journal brings both
  groups back whatever was written.

The assumptions are the named `ASSUME`s of the modules. Every other invariant and
action property of a passing run has a theorem. Only model-checked are:

- liveness, which the prover does not reach: `EventuallyReleased`,
  `EventuallyAcknowledged`, `SetTerminates`, `RemovedReturns`, `LaunchWins`,
  `ExitStopsVm`, `Settles`, `OperationEnds`, `StopHonoured` and `CallsReturn`;
- `TurnIsAtomic`.

## Not modelled

Scheduler: SPU threads in `g_to_sleep`, `g_to_notify`, deadlines, performance
flags, a thread that signals and then sleeps in one call, `cleanup()`. Event
flag: `cpu_flag::again` aborts and savestates. Slots: thumbnails; a manifest
damaged during a capture (files at rest only). Activity: a second instance,
pausing, the native window, the game id, play-time sessions and the settings a boot
applies, and a stop that is deferred to a save-state operation; `SaveStates` and
`DriveRestore` have their own, coarser idea of boots and exits and are not composed
with it.

Save states: the last stage of a `Kill` is one step, and a VM that runs tells so in
the same step; one prepare thread at a time; the savestates of the home menu and
`Emu.Restart`, which set `after_kill_callback` too; a pause and resume held back
during a save. Restore: making and unpacking a snapshot, the background picture,
the worker's schedule and the network; edits of the settings by the user. The
edits of one file of preferences are one step; the controls that the core settings
repository commits at once, and so cannot lose, are left out. Native operations: the listener's
compare-and-set and its resume are one step, and so are those of a time limit with its
`cancel(id)`.

Instruction semantics, code generation, graphics and audio are out of TLC's reach;
parsers, loaders and the screens of the app are sequential code or I/O. The
reservation protocol of guest memory depends on host memory ordering.

## Plan

1. `Lv2Mutex` with `Lv2Cond`, then `Lv2Semaphore`, `Lv2RwLock`, `Lv2LwMutex`: the
   assertions at their `ensure`s, and an abstract wait queue they implement, with
   proofs on the lemmas of `Lv2QueueProofs`.
2. `SuspendAll` (`suspend_work`), and the host notifications of `g_to_notify`.
3. `EmulatorActivity` with the native window, the settings of a boot and a second
   instance, composed with `SaveStates`.
4. `SaveStates` with `SaveSlot`: a stopped save against a delete.
