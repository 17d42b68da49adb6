# A verification of systemless

systemless runs classic Macintosh applications (68K and PowerPC) on a modern
host: an instruction interpreter per architecture, a high-level implementation
of the Toolbox, and a desktop frontend.  Most of its 835 000 lines are Toolbox
behaviour: drawing, text, resources, import adapters, tests.  What is hard to
get right by testing is small and sits in the middle: who owns which CPU
registers while guest code of two architectures calls back and forth under a
cooperative thread scheduler; what interrupt-time callbacks do to the code they
interrupt; which events an application sees, and when; how a window thread and a
guest thread hand each other input, frames and their own ends; and how saved
files survive errors and crashes.  This directory models those parts in TLA+,
checks them with TLC and proves what matters most about them with TLAPS.

All source paths below are under `src/src/`; `systems/macintosh/` is
abbreviated to `mac/`.

## Inventory

| component | state it keeps | operations | status |
|---|---|---|---|
| Execution kernel (`mac/execution_kernel.rs`) | selected task, task states, ready queue, critical depth, one stack of calls per task, id counters, retired ids; two banks of parked engines | create, bind, switch, change state, retire, critical sections; submit, activate, complete, retire, cancel; park, take, retire with a context | modelled, proved |
| Mixed-mode execution (`mac/guest_call.rs`, `mac/execution_m68k.rs`, the loops of `mac/runner/mod.rs`) | two engines, a snapshot per task and architecture, parked callers, the owner of the native engine, a pending handoff | calls and returns in four directions, activation, parking, resumption, yields, thread state changes, creation, disposal | modelled without interrupts, proved |
| Thread Manager (`mac/thread_manager.rs`) | none of its own: the stack pool and thread storage in `guest_call.rs` | NewThread, CreateThreadPool, DisposeThread, ready, critical sections | modelled, proved |
| Interrupt-time callbacks (`mac/runner/mod.rs`, `mac/runner/interrupt.rs`, `mac/time_manager.rs`, `mac/trap/toolbox.rs`) | timer, VBL and deferred queues, host work, the saved context, a suspended dialog callback and those it was called from, the masked level, tick and sub-tick counters | install, remove, re-arm, prime; fire, return, drain, delay | classic loop modelled, proved |
| Event queue and input (`mac/trap/event.rs`, `mac/adb.rs`, `mac/runner/mod.rs`) | event queue, key map, repeat state, button and `MBState`, latched menu click, sleep, ownership of a release | press, release, type, choose from the host's menu; get, peek, wait, flush, post; ModalDialog's tracking of buttons and pop-ups, the clicks a left dialog keeps, disposal | modelled, proved |
| Window events and dialogs (`mac/trap/window.rs`, `dialog.rs`, `event.rs`) | window list, visibility, update regions, active window, markers, flushed markers, the two low-memory slots, what each dialog remembers | create, close, select, reorder, show, hide, invalidate, begin update, poll, flush, ModalDialog | modelled, proved |
| Desktop runtime (`bin/systemless.rs`, `bin/desktop/runtime_*.rs`, `native_termination.rs`) | mailbox: commands, shutdown, presentation request, newest frame and snapshot, status, wake flag; owner: latch, put-off acknowledgements, pending warp, unsaved files; window: closing, error, bundle, quit | send, poll, publish, drain, frame with safe points, flush, stop, join, respawn | modelled, proved |
| Saves (`bin/desktop/desktop_save_store.rs`) | the guest's files, the host's directories, fingerprints, persisted paths; manifests, staging, the migration lock | scan, write, remove, load; prepare, migrate, import, roll back | modelled, proved |
| Notification Manager, OS queues | linked queues in guest memory | install, remove, service | planned |
| Renderer selection and GPU recovery (`bin/desktop/renderer_recovery.rs`) | attempts, fallback | lose, retry, fall back | planned |
| Drawing and layout (QuickDraw, menus, controls, text), sound, memory, resources, loaders, import dispatch, CPU engines, presenters, catalogue, web site, tools | | | not modelled: see the end |

**How they interact.**  The runner of one emulation thread interprets guest
instructions in slices.  A trap or import reaches the shared guest-call service,
which changes the kernel (one `RefCell` borrow, no interleaving inside it) and
leaves the register transfers to the runner: the next slice activates a
submitted call, resumes a completed one or installs a handed-off task.  So
every kernel operation is atomic, and the interleavings that matter are
between those steps and whatever guest code does next.  Between two instructions
the same loop offers the CPU to interrupt-time callbacks.  The host injects
input between slices; the guest finds it in the event queue.  The window thread and the
owner thread share only the mailbox (a mutex per operation, a condition
variable towards the owner, a user event towards the window's event loop), the
join handle and, on macOS, AppKit's termination timer.  The owner thread scans
the guest's files into the save store between frames, and prepares the store
under a file lock that other processes take too.

**What is hard.**  Nested callbacks of both directions interrupted by yields; a
snapshot, parked caller or engine that is stale when it is used; tokens kept
across guest execution; identifiers that run out; callbacks that install, remove
and re-arm each other while their batch is being delivered, or cut off by an
audio-only slice; one click with four consumers; a wake armed under a lock
and sent after it; commands arriving at every safe point of a frame; panics,
failed initialisation and shutdown racing with each other and with the bundle
fallback; death between any two writes.  `PROJECT.json` lists these hazards at
their lines, with the properties that would catch each going wrong.

## Modules

| module | role |
|---|---|
| `Subsequences` | what is left of a queue: the entries at some positions, in their order |
| `ExecutionKernel` | the kernel: `Schedule` (tasks) and `Call` (frames, banks) |
| `GuestCalls` | extends the kernel with engines, snapshots, handoffs and the runner's loops |
| `ThreadStorage`, `MCThreadStorage` | who owns each thread stack: a live thread, the pool, or the allocator |
| `InterruptCallbacks`, `MCInterruptCallbacks` | the classic runner's loop and everything that interrupts it |
| `EventQueue` | the selections the Event Manager makes on its queue |
| `InputEvents`, `MCInputEvents` | devices, event queue, polls, sleep, dialogs: from the user's finger to the guest |
| `WindowEvents`, `MCWindowEvents` | the Window Manager's list, activation and updates, and dialogs |
| `RuntimeMailbox` | the operations on the shared mailbox |
| `DesktopRuntime`, `MCDesktopRuntime` | the owner thread and the window thread over the mailbox |
| `InputChannel` | what input delivery promises; implemented by `DesktopRuntime` |
| `SaveStore`, `MCSaveStore` | the mirror of the guest's files, with errors and crashes |
| `SaveMigration` | preparing, migrating and importing stores in several processes |
| `...Proofs` | lemmas and theorems about the module named, see Proofs |

A definition whose comment begins with `Slip:` is not part of the model: it is the
form a neighbouring definition would take with a plausible programming mistake,
kept to show that the checked properties tell the two apart.

Three models start with a choice of *session*: a record that says what this user,
guest and host do at all (whether there is a mouse, which tasks are
installed, whether the window is ever closed).  One run then covers several kinds of
session whose state spaces add up instead of multiplying; the MC modules list them.
A theorem quantifies over every set of sessions.

### ExecutionKernel

Each variable is a field of `StoreState` or a bank; a `HashMap` is a total
function with a value for "no entry".  Each operation is an action and its
refusals are its guard, because the code validates before it changes anything.
The id counters are bounded by constants that play the role of `u32::MAX` and
`u64::MAX`, and exhausted ids are refused, as in the code.  `Submit` and
`CreateTask` stop at those bounds, which is also where the bound of the state
space comes from.

### GuestCalls

A register set is abstracted to the interval of guest code it belongs to:
`<<t, 0>>` for the code task `t` was entered with, `<<t, c>>` for the code that
cross-architecture call `c` entered, `Stale` once the engine ran past the copy.
That is precisely the information a wrong restore destroys.  `Owner(t)`, computed
from the call stack alone, says which interval must run next; all properties
compare the places registers are kept with it.

The runner's loops are `RunNative` and `RunClassic`: a slice may end after
any instruction, so each is enabled whenever the code's routing says so.
`execution_route` and `has_m68k_execution` look at the newest frame only;
two nestings hide an older frame from them.  Two constants, `NativeReentry`
and `ClassicReentry`, allow those nestings.  The passing run and the theorems are about
processes without them; what follows from the first is the run `guest_native_reentry`,
from the second the configuration `GuestCallsClassicReentry` (see Findings).

### ThreadStorage

`heap` is what the two allocators hold, `threads` the stack of every live worker
with the architecture it was created for, `pool` the vector of pooled stacks in
its order; `reply` only records the last operation for the action properties and
is hidden from TLC's state identity by the `VIEW`.  `NewThread` is `create_thread` with
every way out it has (`stack_size` and `preflight`, `-617` for a pool that does not
serve, a full heap, a refused frame, output pointer or publication, each with its
rollback), `CreateThreadPool` its all-or-none rule with the adapter's rollback,
`Retire` the disposal of a thread and the return of its entry, with or without
recycling.  Threads and bases are interchangeable, so the run uses symmetry.

### InterruptCallbacks

`at` is the position in one iteration of `run_steps_with_trap_boundary`, and each
action is one of its steps: the retrace tasks of a tick, host work (a finished file
call, an ADB packet), a sound callback, a due timer, a tick of Delay, the return of a
callback, the deferred tasks, and at last one guest instruction.  `advance_guest_tick` is
called from two places; `back` is where it returns to.  A saved register set is the
interrupt level it holds, since a wrong level is how a wrong restore would show:
a level left high silences every later retrace.  D0 is kept for Delay's answer.
A dialog procedure that opens a dialog of its own is set aside in `nested`, under the
procedure of that one.  The refill of the tick's budget when a callback returns is there,
and proved idle (`ResumeKeepsBudget`): only the cost of traps, which is left out, empties the
budget between two instructions.
Guest code may call any of the managers at every instruction, from the foreground
and from a callback.  `sinceForeground`, `ran`, `asked` and `foregroundLevel` are history.

Assumed: the external interpreter's `run_batch` stops at a watched address before
executing it; a tick is more than one instruction long; task addresses are not zero.
Not modelled: idle skipping, `WaitNextEvent`'s sleep (which is in `InputEvents`), service
of sound disposal, the cost of traps in instructions, a dialog's own filter that masks
interrupts, draw procedures that follow one another within an update pass, and the native
(PowerPC) callbacks.

### EventQueue and InputEvents

`em` is the Event Manager's state.  The handlers of the host (`PushMouseDown`,
`PushKeyUp`, `SelectMenuItem`, ...) and the guest's traps (`GetNextEvent`,
`WaitNextEvent`, `GetOSEvent`, `EventAvail`, `FlushEvents`, ...) run to their end on one thread, so
each is an action.  `held` is the user's finger, and not part of the program: the
properties relate what the guest can see to it.  Time is a tick counter modulo
`TickSpan`, so the wrap of the 32-bit counter happens in every long behaviour.
A press has four consumers, which is where it gets hard: a poll, a flush,
a modal dialog that tracks the button, and a dialog that is disposed of with the release
still to come.  A dialog that `ModalDialog` left stays on the screen until the application
disposes of it, and the Event Manager takes the clicks that hit its buttons away
(`Retained`, `took`): those presses the application never polls, so `NoEventSleptThrough`
leaves them out.  `TrackPopup` is the loop of a pop-up menu within `ModalDialog`.  Not modelled: a
left dialog behind another window, null events to a filter, buttons that a user item only draws.

### WindowEvents

`wm` is the manager; each operator on it is a method of the code, and each trap is an
action made of them.  A region is abstracted to whether it is empty, and
which windows a change exposes is the environment's choice among those it can
expose.  `told` remembers that an update event was returned and neither `BeginUpdate` was
called nor the window marked again since: until then the application owes the redraw; `missed` that it was another
window's and `ModalDialog` took it for its dialog's.  `PairedDialogs` says the
application closes no window that an open dialog remembers; a configuration without it
shows what follows.  Not modelled: hiliting and drawing, picture windows, `GhostWindow`, the
exception of floating windows in `apply_behind`, the click retained by nested dialogs,
`ModalDialog` with a filter, `FlushEvents`' stop mask, `MoveWindow`, `SizeWindow`,
`ZoomWindow`, and native windows.

### DesktopRuntime

Two sequential processes with program counters, `pc` for the owner and `host`
for the window thread.  Every access to the mailbox is a step; what a thread
does between two accesses is part of the nearer one.  Waking the host is a
step of its own (`OwnerWake`), after the step that armed it.  The environment
decides when a frame is due, when a slice fits before the deadline, whether the
guest draws, warps the pointer, changes a file, exits, faults or panics, and what
the user does.  The session says how many inputs and warps there are, whether the
window may be closed, whether AppKit's Quit and the search for a native bundle
exist, and whether a debugger is attached.

A frame's safe points may deliver input at any of their places, after the last slice
too.  The guest's files are `Clean`, `Changed` since the save store's last pass, or
`Unsaved`: a pass over changed files may leave them unsaved (`AfterPass`), because the
store's errors are printed and dropped.

### SaveStore and SaveMigration

A version stands for the bytes of a file with its dates, and a saved file is three host files
(two forks and metadata), each absent, torn, or of some version.  The code compares lengths,
type, creator, flags and dates; every write of the guest takes a new modification
date, so two versions differ in what is compared (a guest that sets a date back and keeps the
lengths is left out).  A scan examines path
after path, writes fork after fork and removes what is stale, one host operation
per action; an error or a death (`damage`) may come at each.  A launch loads what it can read:
a directory it cannot read, or cannot parse, is skipped, and one that could not be read and holds a
save is `unread` until the guest's own file replaces it.  `Inside` says which path's
directory contains another's; it is empty in the passing run and in the proofs,
and not in `saves_folder`.  Encodings of names are injective and left out.

`SaveMigration` is `prepare_store` in several processes: a new store is staged aside
and renamed into place, an explicit import publishes into a live store under a lock and
rolls back what it published when it fails; the rollback's own removals may fail too, and
a process may die at every step.  `left` remembers the names that such a rollback or death
leaves in a store.  A running game saves without the lock: `GameSaves` may write or
delete any of `GameNames` at any moment.

## Runs

| run | what it asks | bounds |
|---|---|---|
| `kernel` | cursor, states, queue and critical sections agree; calls keep identity and order; engines are in custody; a suspended task's calls stay as they are | application and 2 workers, 2 calls, 1 critical level |
| `guest` | both engines run the selected task's own registers, every suspended task can be resumed, every call keeps its caller, nothing wedges, submitted calls start | application of either architecture, 1 worker of either kind, 3 calls, no re-entry of the same engine |
| `guest_native_reentry` | violation: see Findings | the same, with `NativeReentry` |
| `thread_storage` | no stack is lost, shared, freed twice or freed by the wrong allocator; errors change nothing | 3 threads, 4 stacks, 3 sizes, pools of 3, up to 2 asked for at a time |
| `interrupts` | the foreground and its dialog callbacks get their level back; a retrace's batch comes first and once; timers keep their deadlines; the foreground is not starved | 2 VBL tasks, 2 timers (one extended), 1 deferred task, 1 dialog opened by a dialog's procedure, 3 ticks of 2 instructions, 4 sessions; 3.4 million states |
| `input` | repeats are paced and belong to a key that is down; clicks are consumed in pairs; no press outlives the finger; no event is slept through; a sleep ends | 2 keys and Caps Lock, mouse, menu bar and dialogs, modal and left, in 8 sessions, queue of 2 or 3, 5 tick values; 369 thousand states |
| `windows` | what needs drawing is asked to draw; what is pending is about open windows, one switch in its order, one redraw each | 2 documents and a dialog, 2 open at a time; 74 thousand states |
| `desktop` | ordered delivery, button transitions two at a time at most, nothing accepted is lost at shutdown, the save store looks at every change before an end is reported, redraws and warps survive, no lost wake; an accepted click reaches a running guest; closing and quitting end the process | 3 inputs, or 2 warps, or files and every way to end, queue of 2, batches of 2; 599 thousand states |
| `desktop_late_input` | violation: see Findings | a press and a release |
| `saves` | a clean scan mirrors the guest; a first save is whole or absent; the store catches up | 2 paths, 3 versions, 2 errors or crashes; 214 thousand states |
| `saves_folder` | violation: see Findings | a file replaced by a folder, no error |
| `save_migration` | the old folder is taken over once; imports are whole and recorded, and never replace a game's file | 2 processes, 2 games, 2 names, 3 preparations, failures and deaths at every step; 104 thousand states |

Why these bounds are enough to be interesting: two tasks are needed for one to
be suspended while another uses the engines, and three for a queue with an
order; three calls give every nesting of directions that two callbacks and a
sibling can form; three inputs are the shortest sequence in which a movement
could be merged across a transition; two warps make an acknowledgement late; a queue of
one or two is full, empty and refilled many times; two retrace tasks are what
one needs to remove or re-arm the other in the middle of a batch, and two timers what
can starve each other; one dialog under another's procedure is set aside and resumed;
a second key is pressed and released while the first repeats; two windows and a dialog switch activation twice between two polls
(`WindowEventsThree.cfg` checks the same with three documents open);
two failures let one hit the repair of the other; the third preparation follows two that
raced.  `CHECK_DEADLOCK FALSE` is used where the system or its bounded clock really stops: the
desktop's process exits, the guest's clock ends at `MaxTick`, input sessions end when
the user and guest are done, preparations are bounded by `MaxStarts`, and a pool
can be used up.

`WindowEventsThree.cfg` and the configurations Findings names beside the listed runs
are run by hand: `tlc -config X.cfg M`.

**Fairness.**  `GuestCalls` assumes weak fairness of the runner's own steps:
the runner prepares, activates and resumes at the start of every slice before
guest code runs.  `DesktopRuntime` assumes that both threads are scheduled
(weak fairness of each), that a frame deadline passes while the owner waits
(`FrameMoves`), that among infinitely many frames some have time for a
slice (`OwnerSlice`: a host permanently too slow for any guest instruction makes
no progress, and the pacer resets its target when it falls behind), and that
the bounded budgets of slices and audio chunks in a frame run out (with the frame's start,
the steps of `FrameMoves`).  `InputEvents` assumes that ticks pass, that a sleep is served and that a
callback that cut a sleep short returns; `SleepTick` needs strong fairness because
callbacks disable it again and again.  `SaveStore` assumes that scans begin and
go on and that a dead process is launched again.  Nothing is assumed of the user, of
the guest, of errors or of crashes.

## Findings

Three disagreements of the code with its own words are runs:

* `saves_folder`: when the guest replaces a saved file by a folder of its name, the
  scan saves the folder's files and then removes the old file's directory with
  `remove_dir_all`, files of the folder included (`desktop_save_store.rs:214`).
  They are recorded as saved, so no later scan writes them again.
* `guest_native_reentry` (`CoordinatorAdvancesOwner`): native code that a classic task
  called makes a native callback, and `execution_route` (`mac/guest_call.rs:1843`), which looks at
  the newest frame only, selects the classic loop, while `mac/execution_kernel.rs:58` says a route
  names the coordinator that can advance the task.
* `desktop_late_input` (`ObservedTransitions`): a press delivered by a frame's last safe point
  (`runtime_driver.rs:641`, `:702`) is credited at the frame's end (`:734`) with a slice that ran
  before it, and its release follows without the guest having run with the button down, which
  `systemless.rs:895` says the latch prevents.  What the latch does ensure is `TransitionsInPairs`.

These configurations show further ones.  Each runs by hand and violates the property named:

| configuration | property | what it shows |
|---|---|---|
| `GuestCallsClassicReentry` | `NativeWaitsForCallback` | classic code called from native code with a manager callback open when a slice ends is overtaken by its native caller |
| `InputLateRelease` | `TakingReleaseIsHarmless` | taking a release late clears the button of the next press, which `trap/event.rs:862` calls harmless |
| `InputSelective` | `PressIsHeld` | a guest that takes a release ahead of its press sees a press that is over |
| `InputFilterTracks` | `OwnedReleasePending` | a dialog's filter that tracks the mouse itself leaves the dialog the owner of a release that came already |
| `InputMenuRelease` | `TransitionsAlternate` | a release consumed by the host menu's own click leaves two presses in a row in the queue |
| `InterruptCompletion` | `CompletionBeforeForeground` | a file call made by a retrace task is completed after foreground instructions, not before (`runner/mod.rs:7521`) |
| `InterruptDelayBlocks`, `InterruptDelayAnswers` | `DelayBlocks`, `DelayAnswers` | when a callback interrupts a Delay, the foreground runs on with ticks of it left; when it starts on the last tick, the answer is written to the callback's D0 and lost |
| `SaveMigrationCrash` | `NothingUnrecorded` | a death inside a publication, or a rollback that fails (`desktop_save_store.rs:588`), leaves files that no manifest records, though `:430` says an interrupted copy cannot become a partially migrated store |
| `SaveMigrationRollback` | `RollbackKeepsGameFiles` | a rollback removes what a game wrote meanwhile under a name it had published |
| `WindowEventsModalUpdate` | `EveryRedrawDue` | `ModalDialog` takes the first update event of the queue, whichever window it names, for its dialog's own (`mac/trap/dialog.rs:12859`); the other window stays dirty and is not asked to draw |
| `WindowEventsStaleDialog` | `NoStaleWindow` | a window closed while a dialog remembers it becomes active again when the dialog closes |

## Proofs

Every theorem below holds for all values of the constants: any number of tasks,
calls, queue entries, processes, paths, versions, errors and crashes.  Where a theorem
counts (the two on the pace of the callbacks), the sets of tasks are finite, which
`CallbackAssumption` says.  Every invariant and every action property of the passing runs
has its theorem, and none assumes away a failure of the code that its property is about.

**`ExecutionProofs`**, the kernel, from `BoundsAssumption`: `TypeCorrect`; `OneRunner`,
`QueueIsReadySet`, `RetirementIsFinal`, `CriticalSectionsPin`; `CallsKeepIdentity`,
`NoEngineStranded`, `SuspendedCallsWait`, `IdsNeverReturn`.  The argument has two
layers.  `Scheduling` is the conjunction of type correctness, the single runner, the
exact queue and final retirement.  None is inductive alone: that a retirement
installs a live successor needs the queue to hold exactly the Ready tasks; that the
queue keeps doing so when the running task is requeued needs to know that no other
task is Running; that a new task is not in the queue needs its id to be fresh.
`Custody` adds the identity of calls and the custody of engines: the count of a
call equals the engines parked for it, which needs a call to be on one stack only
(so that a bank slot of another task cannot belong to it), which needs new ids to be
larger than all live ones.  Scheduling steps leave calls alone except for the stacks of
created and retired tasks, which are empty (`ScheduleLeavesCalls`); call steps leave
scheduling alone (`CallsLeaveScheduling`).  The queue's lemmas are in
`SubsequenceProofs`, which the later proofs about queues share: `Keeping` is defined by
recursion over prefixes, so its central lemma says where each kept position went, by
induction on the prefix, carried by a set of naturals.

**`ExecutionProofs`**, mixed mode, from `BoundsAssumption` and `GuestAssumption`, and if `NativeReentry` and
`ClassicReentry` are FALSE (the code admits both nestings, and Findings shows what each breaks): `GuestTypes`,
`EnginesRunTheirOwner`, `ReadyTasksResumable`, `BanksKeepCallers`.
The inductive invariant `GuestInv` is `Scheduling` and the identity of calls from the kernel's
proof, the types, and two conjunctions of its own.  `FramesOK` says of every frame that its
phase fits its place (only the newest call of a stack can be crossing between engines),
that its caller's architecture is that of the code below it, and that the bank entry under its
id is that code, `CallerOf`.  `Engines` says where the registers of each owner are: a suspended
task's snapshot is its `Owner` (`Saved`); the running task's are in its engine, in the
pending handoff, or still in the bank when its classic callee has ended and its caller is
not restored (`Installed`); and what the native engine holds for a task that does not run is
that task's (`Displaced`).  None is inductive alone: a resumption installs the right registers
because the bank entry is `CallerOf`, the entry is right because what was parked was in the
engine, and what the engine held was right because the last handoff installed a snapshot.
The argument follows the layers of the module.  Each guest step drives one kernel operation,
whose lemmas carry over (`KernelKept`); a step that pushes, rephases or pops the newest
frame leaves other stacks alone (`StackStep`) and moves `Owner` and `CallerOf` by one place;
a step that switches tasks leaves every stack alone (`StacksStay`) and moves registers only
(`Handover`).

`NothingWedges` proves `NeverWedged`: while a task is Ready or Running, guest code can
run or one of the runner's actions can be taken.  `RunnerMayStep` is the disjunction of the guards of
those actions, written out beside them, and not ENABLED.  `GuestInv` is not enough: a
guard may fail because a bank slot is occupied, because a caller was never parked, or
because a critical section pins a task that does not run.  `Free` excludes these: `Books` says
which bank slots each frame fills and that its call's count is their number (and that ids not
yet given fill none), `NativeKept` that native code which waits for classic code is in
the native engine or in its task's snapshot, and `Unpinned` that nothing is pinned when no task runs.

**`ThreadStorageProofs`**, from `SizesAssumption`, `NamesAssumption` and
`BoundsAssumption`: `StackOwnership` and `ErrorsChangeNothing`.  `OneOwner` alone is
not inductive: that a new block is nobody's needs every owned stack to be a live block
(`StackIsItsBlock`), and that a release reaches the block needs its allocator to be the
one the owner believes.  Each operation is a sequence of transfers: a stack is taken in
hand from the pool, a thread or an allocator (`TakenFrom...`) and put down with another
(`GivenTo...`); `InHand` is the invariant in between.  A pool request moves several
stacks at once and has lemmas of its own.

**`InterruptCallbacksProofs`**, from `CallbackAssumption`: `ContextIsRestored`,
`BatchesComeFirst`, `TasksRunOncePerRetrace`, `ForegroundIsNotStarved`, and if
`TimersWithoutHost`, `TimersAreOnTime`.  The inductive invariant of the first three has three parts.
`Custody` says what each saved context holds: under an interrupt is the foreground
or one dialog callback, under a dialog callback the foreground or those it was called from
(`Parents`), and each of them saved the foreground's level.  `Batch` says that
wherever the loop is on its way to the foreground no retrace task is ready, and that an
audio-only slice gets there only in a callback.  `Once` says that the tasks that ran on
this retrace are not the ones still pending.

`TimersAreOnTime` bounds how far the guest's clock runs past a primed deadline: a tick for
each timer of the session, and one instruction.  The bound alone is not inductive, and `Paced` replaces
it: a primed timer is allowed a lateness that shrinks with its rank among the deadlines,
one (`Within`) where the loop is about to look at the timers and a smaller one (`Cleared`) where it
has looked, since each earlier deadline costs at most one foreground instruction and one tick
boundary.  Firing the earliest timer lowers the rank of all the others, which pays for its
callback; a timer that is primed gets a deadline in the future.  `Calm` says that nothing else
gets in between.  `TimersWithoutHost` is needed: the loop delivers host work, ADB packets and
sound callbacks before it looks at the timers, so a host that always has some may take every turn
(TLC refutes `TimersOnTime` in a session with one timer and a stream of ADB packets).  The
session with timers in the run meets it.

`ForegroundIsNotStarved` needs no hypothesis.  `Fed` adds to the callbacks that have run since the last
foreground instruction those that may still start before the next, `CallbacksLeft`, and
says that the sum never exceeds the bound.  It is counted in rounds, a callback followed by
every deferred task: the rounds of the tasks due in the batch (`DueRounds`), of a whole tick
(`TickRounds`), of an iteration that looks at the timers first (`FullRounds`), and the deferred tasks
that still run before the next round (`Owed`).  Each position in the loop has its sum, every
step from one to the next starts no more callbacks than the sum drops by, and guest
code in a callback cannot raise it: what it installs for a retrace is not due in this
one, and a deferred task is queued once.  It and the timers' proof need that a return leaves the
budget alone (`Stocked`).

**`DesktopRuntimeProofs`**, from the constants' assumptions: `NoLostWake`,
`PendingWarpKept`, `StopsAreOrderly`, `RedrawsKept`, `TransitionsPaired`.  For warps the invariant also needs that the acknowledgements in the
mailbox are no newer than the last warp applied (`Acked`), for transitions that a latch
asks for progress once it handed two over (`LatchInv`).  `StopsAreOrderly` is about panics, errors,
exits and shutdown alike: whatever ended the owner, the save store made a pass over what the
guest changed.  That the pass saved it is not promised and not true: errors of writes and
removals are printed (`desktop_save_store.rs:184-221`).  `NoLostWake` splits a pending wake
into armed, sent and being polled (`WakeInv`).

The second half of `DesktopRuntimeProofs` proves `RuntimeIsChannel`: `DesktopRuntime` implements
`InputChannel` under the mapping that leaves acknowledgements out of the queue.  Lemmas on
`InputsOf` say what appending, taking the head and replacing the last entry do to
the filtered queue, by induction on the length, carried by a set of naturals.  A merged
movement replaces the last *input* of the queue, which needs the last entry to be an
input.  A respawned owner reopens the channel, which needs that only an owner that
applied nothing ends with a native bundle (`OrderInv`).

**`SaveProofs`**, the store, from `SaveAssumption` and if no path's directory lies in
another's (`Inside = {}`; `saves_folder` shows why): `StoreInvariant`,
`CleanScansMirror`, `FirstSavesWhole`, of `Spec` (which `LiveSpec` implies).  `StoreInv` says, per path,
what each phase of a scan has achieved: settled paths whose fingerprint is true of the
disk, the one being saved with its forks written so far, the one being removed, and
what a scan without an error still owes.

**`SaveProofs`**, preparation, from `MigrationAssumption` alone: `LegacyMovesOnce`,
`ImportsAreWhole`, `GamesKeepTheirFiles` and `PublishedAreRecorded`.
`MigInv` says what the lock's holder knows at each point of its job (`JobOK`), in
particular that nobody took the legacy folder since it looked.  `Traced` says an imported file is
recorded in a manifest, in the hands of its publisher, or was left by a rollback that failed
or a process that died (`left`); `HandOK` and `AllWhole` that the files a publisher has put in
place are its source's, so that what a manifest records is there.

**`InputEventsProofs`**, from `InputAssumption`: `InputTypes`, `RepeatsArePaced`,
`ClicksArePaired`, `NoPressOutlives`, `SleepMissesNothing`.  The invariant `InputInv` has four
parts.  `Good` speaks of the Event Manager's state: the repeating key is down, its next
repeat is due a wait after its last event (modulo `TickSpan`, so the lemmas on the wrapping
clock, `NotReached`, `AheadBy` and `TickNears`, come first), and in sessions that leave
clicks alone the presses and releases are `Paired`: they alternate from the one last
taken to the last one queued, which says whether the finger is down; the presses a left dialog keeps are taken in pairs too
(`Tracking`, `RetainedKeeps`).  `Paired`
is what makes a filtered selection safe: taking or flushing either takes the first
of the two or both (`PairedKeeping`, `NextIsRelease`).  That a press in the queue
without its release is still held is a counting argument in the code and becomes an injection
from presses to releases here (`UnmatchedIsHeld`).  `Owners` says who consumes the
release of a press a dialog took, and `Waits` that nothing a sleeping guest waits for is
queued while ticks are charged to its sleep.  The assumption on sessions that
`InputAssumption` makes beyond their types is on masks: a guest that polls for
some of the mouse's events only is a session of its own (`InputSelective` shows why).

**`WindowEventsProofs`**, from `WindowsAssumption`: `WindowsTypes` and `OneOfEachPending` without
any hypothesis on the application, `VisibleWindowsAreRedrawn` (`RedrawsDue`, all but the windows
whose update event `ModalDialog` took), `PendingIsSound` (`PendingEventsSound`) if `PairedDialogs`.  `Sound(m, X)` is what
holds of the manager between any two of the operations a trap is made of; X are the
windows the trap has exposed and is about to invalidate, and is empty between traps.  It is
`Coherent` (the list holds a window once, what is visible is listed, the queue holds an
event once, a switch in the queue is the one in its low-memory slot, no flushed
window has a marker, who must draw has a marker or was flushed or told)
and `Ordered` (a deactivation precedes an activation).  `Ordered` is broken and repaired
within a trap, so the operations' lemmas preserve `Coherent` and those of a whole switch
restore `Ordered`.

Only model-checked: the liveness properties (`CallsStart`, `InputConsumed`, `QuitCompletes`, `SleepEnds`,
`StoreCatchesUp`), which are out of the prover's reach.  The modules also state each
type invariant and a few weaker properties (`TimerKept`, `CallbacksNest`,
`MenuClickWaits`, `RepeatNeedsKey`, `PoolServesBestFit`) that no listed run checks because a
stronger one does.

## Plan

Done: the kernel, mixed-mode execution, thread storage, interrupt callbacks, input,
window events, the desktop runtime, saves, and the proofs above.  Next, in this order:

1. Native interrupt callbacks (`mac/loader/ppc/loaded_app_callbacks.rs`): the native
   loop iterates a copy of the retrace queue, so a task that another one removed in the same
   batch still runs, unlike the classic loop; then the two loops over `GuestCalls`,
   where a callback may itself make calls.
2. Native windows beside `WindowEvents`, and dialogs opened by a dialog's procedure there and in
   `InputEvents`.
3. The composition of `InputEvents` with the desktop runtime: from `send` to a poll.
4. Notification queue, OS queues; GPU recovery with bounded retries.

## Not modelled

Drawing, fonts, controls, text, sound mixing, memory and resource formats,
loaders and the import dispatch are sequential code on bytes, checked in the
repository against reference images and unit tests; a state machine of them would restate the
code.  They are most of the repository's lines, which is why the models cover a small
share of it.  Generated dispatch tables, presenters, the web site and the tools contain no
protocol.  The CPU interpreters are external.  The serial frontend does in one
thread what the owner does in two and shares its latch.  Key remapping and the
debugger's suspension of input change which events are sent, not what becomes of them.
