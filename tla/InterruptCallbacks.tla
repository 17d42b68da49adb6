------------------------ MODULE InterruptCallbacks ------------------------
(***************************************************************************)
(* Interrupt-time work of a classic (68K) application: the runner's loop   *)
(* (runner/mod.rs run_steps_with_trap_boundary) is one thread that, once   *)
(* per iteration, offers the CPU to a retrace task, a finished file call,  *)
(* an ADB packet, a sound callback or a timer, notices that a callback has *)
(* returned, and otherwise runs one guest instruction.  A callback is a    *)
(* saved register set and a jump; it has returned when the guest is back   *)
(* at the saved PC and stack.  `at` is the loop's position; each action is *)
(* one of the loop's steps.                                                *)
(*                                                                         *)
(* Time is counted in instructions: InstructionsPerTick of them make one   *)
(* guest tick, and a timer deadline is exact to one instruction.           *)
(***************************************************************************)
EXTENDS Integers, Sequences, FiniteSets, FiniteSetsExt, SequencesExt, Subsequences

CONSTANTS
    VblTasks, Timers, DeferredTasks,   \* guest task records
    Extended,                          \* timers installed with InsXTime
    Sessions,                          \* the kinds of session looked at: the task records and
                                       \* manager calls the guest uses, the host's work, and
                                       \* whether the application patched JCrsrTask
    Counts, Delays,                    \* vblCount values, PrimeTime and Delay arguments
    InstructionsPerTick,
    MaxTick,                           \* bound: the guest clock stops here, and no
                                       \* deadline lies more than a tick beyond it
    MaxNested,                         \* bound on dialogs opened by dialog callbacks
    None

Sources == {"File", "Adb", "Sound"}     \* host work

ASSUME CallbackAssumption ==
    /\ InstructionsPerTick \in Nat /\ InstructionsPerTick > 1
    /\ MaxTick \in Nat /\ MaxNested \in Nat
    /\ Extended \subseteq Timers
    /\ IsFiniteSet(VblTasks) /\ IsFiniteSet(Timers) /\ IsFiniteSet(DeferredTasks)
    /\ Counts \subseteq Nat /\ Delays \subseteq Nat
    /\ Sessions \subseteq [vbls : SUBSET VblTasks, timers : SUBSET Timers,
                           deferred : SUBSET DeferredTasks, calls : SUBSET STRING,
                           sources : SUBSET Sources, cursor : BOOLEAN]

VARIABLES
    session,                           \* which of the sessions this is
    tick, budget, clock,               \* Ticks, tick_budget, callback_scheduling.current_subtick
    vblTasks, vblCount, pending,       \* the retrace queue, vblCount in each record, `pending` flags
    timers, fireAt, wakeup,            \* the Time Manager queue, deadline when primed, extended_wakeups
    deferred,                          \* deferred_tasks: records and the tick each is ready at
    work,                              \* host work waiting to be delivered
    active, suspended,                 \* active_interrupt_callback, suspended_dialog_callback
    nested,                            \* nested_dialog_calls
    level, d0, returned,               \* SR level, D0, and "the guest is back at the saved PC and SP"
    delay,                             \* pending_delay_ticks
    at, back, precharged,              \* loop position, caller of advance_guest_tick, boundary charge
    soundOnly, dispatched,             \* kind of slice; a sound callback already ran in it
    foregroundLevel, asked, sinceForeground, ran   \* history

time     == <<tick, budget, clock>>
vbl      == <<vblTasks, vblCount, pending>>
tm       == <<timers, fireAt, wakeup>>
cpu      == <<active, suspended, nested, level, d0, returned>>
slice    == <<soundOnly, dispatched>>
history  == <<foregroundLevel, asked, ran>>
vars == <<session, time, vbl, tm, deferred, work, cpu, delay, at, back, precharged, slice, history,
          sinceForeground>>

Dialog == "Dialog"
NoCall == [source |-> "None", task |-> None, level |-> 0, d0 |-> "caller", returned |-> FALSE]
Interrupts == {"Vbl", "Cursor", "Timer", "Deferred"} \cup Sources

\* A callback in progress, with the registers of the code it interrupted.
Call(source, task) ==
    [source |-> source, task |-> task, level |-> level, d0 |-> d0, returned |-> returned]

\* callback_suspends_guest_clock: an interrupt holds the CPU and the clock, a
\* Dialog Manager callback runs in the foreground.
Suspends == active.source \notin {"None", Dialog}
Foreground == active.source = "None"

Now == tick * InstructionsPerTick + (InstructionsPerTick - budget)

TypeOK ==
    /\ session \in Sessions
    /\ tick \in 0..MaxTick /\ budget \in 0..InstructionsPerTick /\ clock \in Nat
    /\ vblTasks \in Seq(VblTasks) /\ vblCount \in [VblTasks -> Nat] /\ pending \subseteq VblTasks
    /\ timers \in Seq(Timers) /\ fireAt \in [Timers -> Nat \cup {None}]
    /\ wakeup \in [Extended -> Nat \cup {None}]
    /\ deferred \in Seq([task : DeferredTasks, ready : Nat])
    /\ work \subseteq Sources
    /\ level \in 0..1 /\ returned \in BOOLEAN /\ delay \in Nat
    /\ d0 \in {"caller", "finalTicks"}
    /\ \A call \in {active, suspended} :
          /\ call.source \in Interrupts \cup {Dialog, "None"}
          /\ call.level \in 0..1 /\ call.returned \in BOOLEAN
    /\ Len(nested) <= MaxNested
    /\ \A i \in DOMAIN nested : nested[i].source = Dialog /\ nested[i].level \in 0..1
    /\ at \in {"top", "host", "sound", "timer", "delay", "delayed", "resume", "drain",
               "drainDeferred", "run", "exec", "retrace", "task", "due", "deferred"}
    /\ back \in {"exec", "delayed"}
    /\ precharged \in BOOLEAN /\ soundOnly \in BOOLEAN /\ dispatched \in BOOLEAN

Init ==
    /\ session \in Sessions
    /\ tick = 0 /\ budget = InstructionsPerTick /\ clock = 0
    /\ vblTasks = <<>> /\ vblCount = [v \in VblTasks |-> 0] /\ pending = {}
    /\ timers = <<>> /\ fireAt = [t \in Timers |-> None] /\ wakeup = [t \in Extended |-> None]
    /\ deferred = <<>> /\ work = {}
    /\ active = NoCall /\ suspended = NoCall /\ nested = <<>>
    /\ level = 0 /\ d0 = "caller" /\ returned = FALSE
    /\ delay = 0 /\ at = "top" /\ back = "exec" /\ precharged = FALSE
    /\ soundOnly = FALSE /\ dispatched = FALSE
    /\ foregroundLevel = 0 /\ asked = FALSE /\ sinceForeground = 0 /\ ran = {}
-----------------------------------------------------------------------------
(* Entering a callback *)

\* inject_interrupt_callback with suspend_dialog_callback_for_interrupt: a
\* dialog callback that is running is set aside, never another interrupt.
Inject(source, task) ==
    /\ suspended' = IF Foreground THEN suspended ELSE active
    /\ active' = Call(source, task)
    /\ level' = IF source \in {"Vbl", "Cursor"} THEN 1 ELSE level
    /\ returned' = FALSE
    /\ sinceForeground' = IF source \in Sources THEN 0 ELSE sinceForeground + 1
    /\ UNCHANGED <<nested, d0>>

NoCallback == UNCHANGED <<cpu, sinceForeground>>

\* fire_pending_vbl_task delivers the first pending task of the live queue.
Pending == {i \in DOMAIN vblTasks : vblTasks[i] \in pending}
VblReady == ~Suspends /\ level = 0 /\ Pending # {}

\* Slip: delivering a task counts the others down again.
FirePendingVblCounting ==
    LET v == vblTasks[Min(Pending)]
        counted == {w \in Entries(vblTasks) : vblCount[w] > 0}
    IN  /\ Inject("Vbl", v)
        /\ vblCount' = [w \in VblTasks |-> IF w \in counted THEN vblCount[w] - 1 ELSE vblCount[w]]
        /\ pending' = (pending \ {v}) \cup {w \in counted : vblCount[w] = 1}
        /\ ran' = ran \cup {v}
        /\ UNCHANGED <<vblTasks, foregroundLevel, asked>>

FirePendingVbl ==
    LET v == vblTasks[Min(Pending)]
    IN  /\ Inject("Vbl", v)
        /\ pending' = pending \ {v}
        /\ ran' = ran \cup {v}
        /\ UNCHANGED <<vblTasks, vblCount, foregroundLevel, asked>>

\* pop_ready_deferred_task looks only at the front of the queue.
DeferredReady(now) == ~Suspends /\ deferred # <<>> /\ Head(deferred).ready <= now

FireDeferred ==
    /\ Inject("Deferred", Head(deferred).task)
    /\ deferred' = Tail(deferred)

\* fire_timer_tasks_at: of the primed tasks that are due, the one with the
\* earliest deadline, the first in the queue among equals.  Only that task
\* stops being primed.
Due(now) == {i \in DOMAIN timers : fireAt[timers[i]] # None /\ fireAt[timers[i]] <= now}
\* Slip: the first due task of the queue goes first.
FirstInQueue(now) == CHOOSE i \in Due(now) : \A j \in Due(now) : i <= j

Earliest(now) ==
    CHOOSE i \in Due(now) : \A j \in Due(now) :
        \/ fireAt[timers[i]] < fireAt[timers[j]]
        \/ fireAt[timers[i]] = fireAt[timers[j]] /\ i <= j

FireTimerAt(now) ==
    IF Suspends THEN NoCallback /\ UNCHANGED <<tm, clock>>
    ELSE /\ clock' = now
         /\ IF Due(now) = {} THEN NoCallback /\ UNCHANGED tm
            ELSE LET t == timers[Earliest(now)]
                 IN  /\ Inject("Timer", t)
                     /\ fireAt' = [fireAt EXCEPT ![t] = None]
                     /\ UNCHANGED <<timers, wakeup>>
-----------------------------------------------------------------------------
(* advance_guest_tick: one tick of the clock, then the work it makes due.   *)

Tick(caller) ==
    /\ tick < MaxTick
    /\ tick' = tick + 1
    /\ at' = "retrace" /\ back' = caller

\* fire_vbl_tasks counts every installed task down once, unless a callback
\* holds the CPU or the application masks the interrupt; then JCrsrTask runs.
CountDown ==
    LET counted == {v \in VblTasks : v \in Entries(vblTasks) /\ vblCount[v] > 0}
    IN  /\ vblCount' = [v \in VblTasks |-> IF v \in counted THEN vblCount[v] - 1 ELSE vblCount[v]]
        /\ pending' = pending \cup {v \in counted : vblCount[v] = 1}

Retrace ==
    /\ at = "retrace"
    /\ at' = "task"
    /\ ran' = {}
    /\ IF Suspends \/ level > 0
       THEN NoCallback /\ UNCHANGED <<vblCount, pending>>
       ELSE /\ CountDown
            /\ IF session.cursor THEN Inject("Cursor", None) ELSE NoCallback
    /\ UNCHANGED <<time, vblTasks, tm, deferred, work, delay, back, precharged, slice,
                   foregroundLevel, asked>>

RetraceTask ==
    /\ at = "task"
    /\ at' = "due"
    /\ IF VblReady THEN FirePendingVbl ELSE NoCallback /\ UNCHANGED <<vbl, history>>
    /\ UNCHANGED <<time, tm, deferred, work, delay, back, precharged, slice>>

RetraceTimer ==
    /\ at = "due"
    /\ at' = "deferred"
    /\ FireTimerAt(tick * InstructionsPerTick)
    /\ UNCHANGED <<tick, budget, vbl, deferred, work, delay, back, precharged, slice, history>>

RetraceDeferred ==
    /\ at = "deferred"
    /\ at' = back
    /\ budget' = InstructionsPerTick
    /\ IF DeferredReady(tick) THEN FireDeferred ELSE NoCallback /\ UNCHANGED deferred
    /\ UNCHANGED <<tick, clock, vbl, tm, work, delay, back, precharged, slice, history>>
-----------------------------------------------------------------------------
(* One iteration of the loop *)

\* The slice ends: finish_audio_frame may start one sound callback, and the
\* host gives an ordinary slice next, or while there is sound work an
\* audio-only one.
EndSlice ==
    /\ at = "top"
    /\ \E fire \in BOOLEAN, next \in BOOLEAN :
          /\ fire => "Sound" \in work /\ ~Suspends /\ ~dispatched
          /\ IF fire THEN Inject("Sound", None) /\ work' = work \ {"Sound"}
             ELSE /\ sinceForeground' = IF next THEN 0 ELSE sinceForeground
                  /\ UNCHANGED <<cpu, work>>
          /\ dispatched' = (active'.source = "Sound")
          /\ soundOnly' = next
          /\ next => dispatched' \/ "Sound" \in work'
    /\ UNCHANGED <<time, vbl, tm, deferred, delay, at, back, precharged, history>>

\* An audio-only slice is over once a sound callback ran or nothing waits.
SoundSliceOver == soundOnly /\ ~Suspends /\ (dispatched \/ "Sound" \notin work)

\* The rest of a retrace batch that an audio-only slice left behind runs
\* before anything else.
Top ==
    /\ at = "top" /\ ~SoundSliceOver
    /\ IF ~soundOnly /\ VblReady THEN FirePendingVbl /\ UNCHANGED at
       ELSE NoCallback /\ at' = "host" /\ UNCHANGED <<vbl, history>>
    /\ UNCHANGED <<time, tm, deferred, work, delay, back, precharged, slice>>

\* fire_file_completion_callback, then fire_adb_callback: the second finds the
\* CPU taken if the first started a callback.
HostWork ==
    /\ at = "host"
    /\ at' = "sound"
    /\ LET waiting == work \ {"Sound"}
           next    == IF "File" \in waiting THEN "File" ELSE "Adb"
       IN  IF ~soundOnly /\ ~Suspends /\ waiting # {}
           THEN Inject(next, None) /\ work' = work \ {next}
           ELSE NoCallback /\ UNCHANGED work
    /\ UNCHANGED <<time, vbl, tm, deferred, delay, back, precharged, slice, history>>

\* At most one sound callback per slice.
Sound ==
    /\ at = "sound"
    /\ IF ~Suspends /\ ~dispatched /\ "Sound" \in work
       THEN Inject("Sound", None) /\ work' = work \ {"Sound"} /\ dispatched' = TRUE
       ELSE NoCallback /\ UNCHANGED <<work, dispatched>>
    /\ at' = IF soundOnly /\ ~Suspends' THEN "top" ELSE "timer"
    /\ UNCHANGED <<time, vbl, tm, deferred, delay, back, precharged, soundOnly, history>>

TimerDue ==
    /\ at = "timer"
    /\ IF soundOnly THEN NoCallback /\ UNCHANGED <<tm, clock>> ELSE FireTimerAt(Now)
    /\ at' = IF ~Suspends /\ Suspends' THEN "top" ELSE "delay"
    /\ UNCHANGED <<tick, budget, vbl, deferred, work, delay, back, precharged, slice, history>>

\* service_delay_ticks advances the clock through a Delay, tick by tick, until
\* a callback takes the CPU, and leaves finalTicks in D0 when none remain.
DelayTick ==
    /\ at = "delay"
    /\ IF soundOnly \/ delay = 0 \/ Suspends
       THEN at' = "resume" /\ UNCHANGED <<tick, back, delay>>
       ELSE Tick("delayed") /\ delay' = delay - 1
    /\ UNCHANGED <<budget, clock, vbl, tm, deferred, work, cpu, precharged, slice, history,
                   sinceForeground>>

Delayed ==
    /\ at = "delayed"
    /\ at' = IF delay > 0 /\ ~Suspends THEN "delay" ELSE "resume"
    /\ d0' = IF delay = 0 THEN "finalTicks" ELSE d0
    /\ UNCHANGED <<time, vbl, tm, deferred, work, active, suspended, nested, level, returned, delay,
                   back, precharged, slice, history, sinceForeground>>

\* What the callback that returned had covered goes on: an interrupt the dialog callback
\* it set aside, a dialog callback the one it was called from (resume_parent_dialog_call).
Uncovered ==
    /\ suspended' = NoCall
    /\ IF active.source = Dialog /\ nested # <<>>
       THEN active' = Last(nested) /\ nested' = Front(nested)
       ELSE active' = suspended /\ UNCHANGED nested

\* Slip: the status register is not restored.
RestoreRegisters ==
    /\ d0' = active.d0 /\ returned' = active.returned
    /\ Uncovered
    /\ UNCHANGED level

\* A callback that is back at the saved PC and stack has returned: every
\* register of the code it interrupted comes back.
Restore ==
    /\ level' = active.level /\ d0' = active.d0 /\ returned' = active.returned
    /\ Uncovered

\* The foreground is given a tick's instructions if it has none left
\* (refill_foreground_budget_after_async_return).  Draw procedures of one update pass,
\* which are called directly after one another, are left out.
Resume ==
    /\ at = "resume"
    /\ IF ~Foreground /\ returned
       THEN /\ Restore
            /\ budget' = IF budget = 0 THEN InstructionsPerTick ELSE budget
            /\ at' = IF ~soundOnly /\ active.source # Dialog THEN "drain" ELSE "drainDeferred"
       ELSE UNCHANGED <<cpu, budget>> /\ at' = "run"
    /\ UNCHANGED <<tick, clock, vbl, tm, deferred, work, delay, back, precharged, slice, history,
                   sinceForeground>>

\* Slip: the rest of the batch waits for the next iteration.
DrainLater ==
    /\ at \in {"drain", "drainDeferred"}
    /\ IF DeferredReady(tick) THEN FireDeferred /\ at' = "top"
       ELSE NoCallback /\ UNCHANGED deferred /\ at' = IF soundOnly THEN "top" ELSE "run"
    /\ UNCHANGED <<vbl, history>>
    /\ UNCHANGED <<time, tm, work, delay, back, precharged, slice>>

\* The next task of the batch, or a deferred task now that the interrupt is
\* over, before the foreground; otherwise the foreground runs.
Drain ==
    /\ at \in {"drain", "drainDeferred"}
    /\ IF at = "drain" /\ VblReady
       THEN FirePendingVbl /\ at' = "top" /\ UNCHANGED deferred
       ELSE /\ IF DeferredReady(tick) THEN FireDeferred /\ at' = "top"
               ELSE NoCallback /\ UNCHANGED deferred /\ at' = IF soundOnly THEN "top" ELSE "run"
            /\ UNCHANGED <<vbl, history>>
    /\ UNCHANGED <<time, tm, work, delay, back, precharged, slice>>

\* The instruction that crosses a tick is charged before it runs.
Run ==
    /\ at = "run"
    /\ IF ~soundOnly /\ ~Suspends /\ budget <= 1
       THEN Tick("exec") /\ precharged' = TRUE /\ budget' = 0
       ELSE at' = "exec" /\ precharged' = FALSE /\ UNCHANGED <<tick, budget, back>>
    /\ UNCHANGED <<clock, vbl, tm, deferred, work, cpu, delay, slice, history, sinceForeground>>
-----------------------------------------------------------------------------
(* The guest runs one instruction, perhaps a manager call: its own code, a  *)
(* dialog callback or an interrupt callback.  The batch stops at once when  *)
(* the guest is already at the watched PC.                                  *)

Executes ==
    /\ at = "exec" /\ at' = "top"
    /\ budget' = IF soundOnly \/ Suspends \/ precharged \/ returned THEN budget ELSE budget - 1
    /\ sinceForeground' = IF Suspends THEN sinceForeground ELSE 0
    /\ UNCHANGED <<tick, suspended, back, precharged, slice, ran>>

Continue == UNCHANGED <<active, nested, level, returned, d0>>
NoDelay == UNCHANGED delay /\ asked' = (asked /\ ~Foreground) /\ UNCHANGED foregroundLevel

Instruction ==
    /\ Executes /\ Continue /\ NoDelay
    /\ UNCHANGED <<work, clock, vbl, tm, deferred>>

\* VInstall moves an installed record to the end of the queue, and VRemove
\* cancels a delivery that was due.  The count in the record, phase included,
\* is the guest's to choose, and SetCount is a callback re-arming its record.
VInstall(v, count) ==
    /\ "VInstall" \in session.calls /\ ~returned
    /\ Executes /\ Continue /\ NoDelay
    /\ vblTasks' = Append(Without(vblTasks, v), v)
    /\ vblCount' = [vblCount EXCEPT ![v] = count]
    /\ pending' = pending \ {v}
    /\ UNCHANGED <<work, clock, tm, deferred>>

VRemove(v) ==
    /\ "VRemove" \in session.calls /\ ~returned /\ v \in Entries(vblTasks)
    /\ Executes /\ Continue /\ NoDelay
    /\ vblTasks' = Without(vblTasks, v)
    /\ pending' = pending \ {v}
    /\ UNCHANGED <<work, clock, vblCount, tm, deferred>>

SetCount(v, count) ==
    /\ "SetCount" \in session.calls /\ ~returned
    /\ Executes /\ Continue /\ NoDelay
    /\ vblCount' = [vblCount EXCEPT ![v] = count]
    /\ UNCHANGED <<work, clock, vblTasks, pending, tm, deferred>>

\* InsTime, InsXTime: an extended record whose tmWakeUp the guest has zeroed
\* forgets its last intended wake-up.
InsTime(t, zeroed) ==
    /\ "InsTime" \in session.calls /\ ~returned
    /\ Executes /\ Continue /\ NoDelay
    /\ timers' = Append(Without(timers, t), t)
    /\ fireAt' = [fireAt EXCEPT ![t] = None]
    /\ wakeup' = [x \in Extended |-> IF x = t /\ zeroed THEN None ELSE wakeup[x]]
    /\ UNCHANGED <<work, clock, vbl, deferred>>

\* evaluate_prime_time: an extended task counts from its last intended
\* wake-up, late or not; any other from the manager's work, clock, and never less
\* than a tick for a zero delay.
Clock == IF clock > tick * InstructionsPerTick THEN clock ELSE tick * InstructionsPerTick
Intended(t, wait) == (IF wakeup[t] = None THEN Clock ELSE wakeup[t]) + wait
Deadline(t, wait) ==
    IF t \in Extended
    THEN IF Intended(t, wait) > Clock THEN Intended(t, wait) ELSE Clock
    ELSE Clock + (IF wait = 0 THEN InstructionsPerTick ELSE wait)

PrimeTime(t, wait) ==
    /\ "PrimeTime" \in session.calls /\ ~returned /\ t \in Entries(timers)
    /\ Deadline(t, wait) <= (MaxTick + 1) * InstructionsPerTick
    /\ Executes /\ Continue /\ NoDelay
    /\ fireAt' = [fireAt EXCEPT ![t] = Deadline(t, wait)]
    /\ wakeup' = [x \in Extended |-> IF x = t THEN Intended(t, wait) ELSE wakeup[x]]
    /\ UNCHANGED <<work, clock, timers, vbl, deferred>>

RmvTime(t) ==
    /\ "RmvTime" \in session.calls /\ ~returned /\ t \in Entries(timers)
    /\ Executes /\ Continue /\ NoDelay
    /\ timers' = Without(timers, t)
    /\ fireAt' = [fireAt EXCEPT ![t] = None]
    /\ UNCHANGED <<work, clock, wakeup, vbl, deferred>>

\* Slip: deferred tasks count as interrupts.
InstalledInCallback == Suspends

\* A task installed by an interrupt is ready when that interrupt is over; one
\* installed by the foreground or by another deferred task waits for a tick.
InstalledInInterrupt == Suspends /\ active.source # "Deferred"

DTInstall(d) ==
    /\ "DTInstall" \in session.calls /\ ~returned
    /\ \A i \in DOMAIN deferred : deferred[i].task # d
    /\ Executes /\ Continue /\ NoDelay
    /\ deferred' = Append(deferred,
                          [task |-> d, ready |-> IF InstalledInInterrupt THEN tick ELSE tick + 1])
    /\ UNCHANGED <<work, clock, vbl, tm>>

\* MOVE to SR, by the application or an interrupt handler: a dialog procedure
\* that masks interrupts and returns is not considered.
SetLevel(new) ==
    /\ "SetLevel" \in session.calls /\ ~returned /\ new # level
    /\ Foreground \/ Suspends
    /\ Executes /\ asked' = (asked /\ ~Foreground)
    /\ level' = new
    /\ foregroundLevel' = IF Foreground THEN new ELSE foregroundLevel
    /\ UNCHANGED <<active, nested, returned, d0, delay, work, clock, vbl, tm, deferred>>

\* Delay: the caller waits in service_delay_ticks.
Delay(ticks) ==
    /\ "Delay" \in session.calls /\ Foreground /\ delay = 0
    /\ Executes /\ asked' = TRUE
    /\ delay' = ticks
    /\ d0' = IF ticks = 0 THEN "finalTicks" ELSE "caller"
    /\ UNCHANGED <<active, nested, returned, level, foregroundLevel, work, clock, vbl, tm, deferred>>

\* A dialog procedure that opens a dialog of its own is set aside under that one's.
SuspendParent ==
    \/ Foreground /\ UNCHANGED nested
    \/ ~Foreground /\ Len(nested) < MaxNested /\ nested' = Append(nested, active)

\* ModalDialog calls the dialog's filter procedure.
CallFilter ==
    /\ "Dialog" \in session.calls /\ ~Suspends /\ ~returned /\ delay = 0
    /\ Executes /\ SuspendParent
    /\ active' = Call(Dialog, None)
    /\ returned' = FALSE
    /\ asked' = FALSE
    /\ UNCHANGED <<level, d0, delay, foregroundLevel, work, clock, vbl, tm, deferred>>

\* An asynchronous File Manager call is done at once; its ioResult and its
\* completion routine wait for the loop.
ReadAsync ==
    /\ "ReadAsync" \in session.calls /\ ~returned
    /\ Executes /\ Continue /\ NoDelay
    /\ work' = work \cup {"File"}
    /\ UNCHANGED <<clock, vbl, tm, deferred>>

\* RTS: the callback is back where it was called.
Return ==
    /\ ~Foreground /\ ~returned
    /\ Executes /\ NoDelay
    /\ returned' = TRUE
    /\ UNCHANGED <<active, nested, level, d0, work, clock, vbl, tm, deferred>>

\* The host has an ADB packet or drains a sound command.
HostEvent ==
    /\ at = "top"
    /\ \E source \in session.sources \ (work \cup {"File"}) : work' = work \cup {source}
    /\ UNCHANGED <<time, vbl, tm, deferred, cpu, delay, at, back, precharged, slice, history,
                   sinceForeground>>

Guest ==
    \/ Instruction \/ Return \/ CallFilter \/ ReadAsync
    \/ \E v \in session.vbls : VRemove(v) \/ \E c \in Counts : VInstall(v, c) \/ SetCount(v, c)
    \/ \E t \in session.timers :
          \/ RmvTime(t)
          \/ \E zeroed \in BOOLEAN : InsTime(t, zeroed)
          \/ \E wait \in Delays : PrimeTime(t, wait)
    \/ \E d \in session.deferred : DTInstall(d)
    \/ \E new \in 0..1 : SetLevel(new)
    \/ \E ticks \in Delays : Delay(ticks)

Loop ==
    \/ EndSlice \/ Top \/ HostWork \/ Sound \/ TimerDue \/ DelayTick \/ Delayed
    \/ Resume \/ Drain \/ Run
    \/ Retrace \/ RetraceTask \/ RetraceTimer \/ RetraceDeferred

Next == (Loop \/ Guest \/ HostEvent) /\ UNCHANGED session

Spec == Init /\ [][Next]_vars
-----------------------------------------------------------------------------
(* Correctness *)

\* Interrupt callbacks never nest: the runner has one slot for a callback that
\* was set aside, so what an interrupt interrupts is the foreground or the one
\* dialog callback, and a dialog callback is set aside only under an interrupt or under
\* the callback of a dialog it opened.
CallbacksNest ==
    /\ suspended # NoCall => Suspends /\ suspended.source = Dialog
    /\ nested # <<>> => Dialog \in {active.source, suspended.source}
    /\ returned => ~Foreground

\* Whatever chain of callbacks a retrace, a timer and the host start, the foreground and
\* the dialog callbacks it is in, nested ones included, get their interrupt level back: a
\* level left at 1 by a retrace task would silence every later retrace.
ContextRestored == ~Suspends => level = foregroundLevel

\* A foreground instruction runs.
ForegroundRuns == at = "exec" /\ at' = "top" /\ ~Suspends /\ ~returned

\* Processes 1994, 4-7: every task due on a retrace runs before the foreground
\* resumes, also when an audio-only slice cut the batch in two.
BatchBeforeForeground == [][ForegroundRuns => level > 0 \/ Pending = {}]_vars

\* runner/mod.rs:7521: "Deliver a completed request before the foreground
\* application can inspect or reuse its parameter block."
CompletionBeforeForeground == [][ForegroundRuns => "File" \notin work]_vars

\* A task runs at most once per retrace, also when its callback re-arms it and
\* when the rest of the batch is delivered in later slices.
OncePerRetrace ==
    [][at # "exec" => ran \cap pending \subseteq pending']_vars

\* A primed timer is never forgotten: it stops being primed when its own
\* callback starts, or by its own InsTime or RmvTime.
TimerKept ==
    [][\A t \in Timers : fireAt[t] # None /\ fireAt'[t] = None =>
          \/ active'.source = "Timer" /\ active'.task = t /\ ~Suspends
          \/ at = "exec"]_vars

\* trap/toolbox.rs:6965: Delay blocks its caller, and the tick count is in D0
\* when the caller goes on.
DelayBlocks == [][ForegroundRuns /\ Foreground => delay = 0]_vars
DelayAnswers == [][ForegroundRuns /\ Foreground /\ asked => d0 = "finalTicks"]_vars

\* No timer starves: the earliest deadline goes first, so an extended task
\* that primes itself again with no delay cannot keep the others waiting, and
\* the guest's clock runs only a bounded time past a primed deadline.
Lateness == Cardinality(session.timers) * InstructionsPerTick + 1
TimersOnTime == \A t \in Timers : fireAt[t] # None => Now <= fireAt[t] + Lateness

\* No callback source starves the foreground: a retrace task that re-arms
\* itself waits for the next retrace, a deferred task that re-installs itself
\* for the next tick, and the tick a callback ran on is not charged again.
\* Between two foreground instructions, or host interrupts and audio-only
\* slices, which the host paces, run at most each retrace task, the cursor task and a
\* timer before and after the tick, each followed by the deferred tasks it installed.
Most == (Cardinality(session.vbls) + 3) * (Cardinality(session.deferred) + 1)
ForegroundNotStarved == sinceForeground <= Most
=============================================================================
