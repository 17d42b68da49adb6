------------------------------ MODULE GuestCalls ------------------------------
(***************************************************************************)
(* Mixed-mode execution of one Macintosh process (guest_call.rs, driven by *)
(* runner/mod.rs and execution_m68k.rs).  Two CPU engines, one classic     *)
(* (68K) and one native (PowerPC), are shared by all cooperative tasks.    *)
(* Guest code on one engine calls code for either one, yields, and creates *)
(* or disposes of threads; between its instructions the runner moves       *)
(* register sets between the engines, the per-task snapshots, the two call *)
(* banks and a pending handoff.                                            *)
(*                                                                         *)
(* A register set is abstracted to the interval of guest code it belongs   *)
(* to: <<t, 0>> for task t's own entry code, <<t, c>> for the code that    *)
(* the cross-architecture call c entered.  A copy that the engine has run  *)
(* past is Stale.  Interrupt-time callbacks, thread switchers and          *)
(* terminators and the Menu Manager's retained operations are left out.    *)
(***************************************************************************)
EXTENDS ExecutionKernel

CONSTANTS AppIsas,          \* the architectures an application is launched in
          NativeReentry,    \* native code entered from classic code in a classic
                            \* task makes native callbacks of its own
          ClassicReentry,   \* classic code entered from native code in a native
                            \* task makes classic manager callbacks
          Stale,            \* a register set that no longer describes any interval
          NoContext         \* no snapshot

Intervals == Tasks \X (CallIds \cup {0})
Contexts  == Intervals \cup {Stale}

ASSUME GuestAssumption ==
  /\ AppIsas \subseteq {"M68k", "PowerPc"}
  /\ NativeReentry \in BOOLEAN /\ ClassicReentry \in BOOLEAN
  /\ Stale \notin Intervals /\ NoContext \notin Contexts

VARIABLES kinds,            \* frames: the origin and the target of each call
          native, classic,  \* the registers in the two engines
          nativeThreads, cooperativeContexts,  \* the snapshots kept per task
          powerpcParked, m68kParked,           \* what the banks hold per call
          nativeCpuTask,    \* the task the native engine's registers belong to
          handoff           \* a selected successor whose engine is not installed

guestVars == <<kinds, native, classic, nativeThreads, cooperativeContexts,
               powerpcParked, m68kParked, nativeCpuTask, handoff>>
allVars   == <<vars, guestVars>>

Kinds     == {"ClassicToClassic", "ClassicToNative", "NativeToClassic",
              "NativeToNative"}
NoHandoff == [task |-> NoTask, isa |-> "M68k", context |-> Stale]

---------------------------------------------------------------------------
(* What the frames on a task's stack say *)

TopKind(t)  == IF stacks[t] = << >> THEN "None" ELSE kinds[Top(t).id]
TopPhase(t) == IF stacks[t] = << >> THEN "None" ELSE Top(t).phase

\* The started cross-architecture calls on t's stack, as positions.
Started(t) == {i \in DOMAIN stacks[t] : /\ stacks[t][i].phase = "Active"
                                        /\ kinds[stacks[t][i].id]
                                             \in {"ClassicToNative", "NativeToClassic"}}

Newest(S) == CHOOSE i \in S : \A j \in S : j <= i

\* The interval whose instructions come next on task t, and its architecture.
Owner(t) == IF Started(t) = {} THEN <<t, 0>>
            ELSE <<t, stacks[t][Newest(Started(t))].id>>

IsaOf(interval) ==
  IF interval[2] = 0 THEN taskEntryIsas[interval[1]]
  ELSE IF kinds[interval[2]] = "ClassicToNative" THEN "PowerPc" ELSE "M68k"

\* Slip: the architecture is the one the task was entered with.
SavedIsaByEntry(t) == taskEntryIsas[t]

\* saved_context: which architecture's snapshot resumes task t.
SavedIsa(t) ==
  IF stacks[t] # << >>
  THEN IF TopPhase(t) = "Active"
       THEN IF TopKind(t) \in {"ClassicToNative", "NativeToNative"} THEN "PowerPc" ELSE "M68k"
       ELSE IF TopKind(t) \in {"ClassicToNative", "ClassicToClassic"} THEN "M68k" ELSE "PowerPc"
  ELSE IF \/ taskEntryIsas[t] = "PowerPc"
          \/ nativeThreads[t] # NoContext /\ cooperativeContexts[t] = NoContext
       THEN "PowerPc" ELSE "M68k"

SavedContext(t) == IF SavedIsa(t) = "M68k" THEN cooperativeContexts[t] ELSE nativeThreads[t]

\* suspended_m68k_context_owner: the newest call that classic code waits for.
SuspendedM68kOwner(t) ==
  LET waiting == {i \in Started(t) : kinds[stacks[t][i].id] = "ClassicToNative"}
  IN  IF waiting = {} THEN 0 ELSE stacks[t][Newest(waiting)].id

---------------------------------------------------------------------------
(* Who runs *)

\* execution_route, with a native engine available.
Route ==
  IF taskStates[currentTask] # "Running" THEN "Blocked"
  ELSE IF \/ taskEntryIsas[currentTask] = "PowerPc"
          \/ TopKind(currentTask) \in {"ClassicToNative", "NativeToClassic"}
       THEN "Native" ELSE "Classic"

Prepared == Route = "Native" /\ handoff = NoHandoff /\ nativeCpuTask = currentTask

\* run_ppc_steps reaches the native engine: no call waits to enter native code, none
\* has just left it, and the newest call is not classic code.
NativeRuns == Prepared /\ TopKind(currentTask) # "NativeToClassic"
              /\ ~ (TopKind(currentTask) = "ClassicToNative" /\ TopPhase(currentTask) # "Active")

\* The classic loop of a slice, or run_pending_m68k_guest_call in a native session.
ClassicRuns ==
  \/ Route = "Classic" /\ ~ (handoff # NoHandoff /\ handoff.isa = "M68k")
  \/ Prepared /\ TopKind(currentTask) = "NativeToClassic" /\ TopPhase(currentTask) = "Active"

GuestRuns == NativeRuns \/ ClassicRuns

---------------------------------------------------------------------------
\* A launch (runner/mod.rs init_app, init_ppc_app): the kernel's Init with the entry
\* architecture of the application bound; a native launch starts its engine.
LaunchedIn(isa) ==
  /\ currentTask = Application
  /\ nextCallId = 1
  /\ nextTaskId = IF LastTaskId = Application THEN NoTask ELSE Application + 1
  /\ stacks = [t \in Tasks |-> << >>]
  /\ attachedContexts = [c \in CallIds |-> 0]
  /\ retiredTasks = {}
  /\ taskStates = [t \in Tasks |-> IF t = Application THEN "Running" ELSE "Absent"]
  /\ taskEntryIsas = [t \in Tasks |-> IF t = Application THEN isa ELSE "Unbound"]
  /\ ready = << >>
  /\ criticalDepth = 0
  /\ powerpcContexts = {} /\ m68kContexts = {}
  /\ kinds = [c \in CallIds |-> "None"]
  /\ native = IF isa = "PowerPc" THEN <<Application, 0>> ELSE Stale
  /\ classic = IF isa = "M68k" THEN <<Application, 0>> ELSE Stale
  /\ nativeThreads = [t \in Tasks |-> NoContext]
  /\ cooperativeContexts = [t \in Tasks |-> NoContext]
  /\ powerpcParked = [c \in CallIds |-> NoContext]
  /\ m68kParked = [c \in CallIds |-> NoContext]
  /\ nativeCpuTask = IF isa = "PowerPc" THEN Application ELSE NoTask
  /\ handoff = NoHandoff

GuestInit == \E isa \in AppIsas : LaunchedIn(isa)

---------------------------------------------------------------------------
(* The guest executes *)

\* Instructions of interval k overtake every other copy of its registers.
Overtaken(copies, k) == [x \in DOMAIN copies |-> IF copies[x] = k THEN Stale ELSE copies[x]]

Overtake(k) ==
  /\ nativeThreads' = Overtaken(nativeThreads, k)
  /\ cooperativeContexts' = Overtaken(cooperativeContexts, k)
  /\ powerpcParked' = Overtaken(powerpcParked, k)
  /\ m68kParked' = Overtaken(m68kParked, k)
  /\ UNCHANGED <<vars, kinds, native, classic, nativeCpuTask, handoff>>

RunNative  == NativeRuns /\ native # Stale /\ Overtake(native)
RunClassic == ClassicRuns /\ classic # Stale /\ Overtake(classic)

\* submit_effect for the selected task, with the frame into_frame builds.
SubmitEffect(kind) ==
  /\ Submit(currentTask)
  /\ kinds' = [kinds EXCEPT ![nextCallId] = kind]

\* fire_menu_hook_proc and the picture procedures (begin_m68k_with_operation): the
\* frame stays Pending while the classic engine runs the procedure.
BeginClassicToClassic ==
  /\ ClassicRuns
  /\ taskEntryIsas[currentTask] = "M68k" \/ ClassicReentry
  /\ SubmitEffect("ClassicToClassic")
  /\ UNCHANGED <<native, classic, nativeThreads, cooperativeContexts, powerpcParked,
                 m68kParked, nativeCpuTask, handoff>>

\* begin_m68k_to_powerpc_inner.
BeginClassicToNative ==
  /\ ClassicRuns
  /\ TopKind(currentTask) # "ClassicToNative"
  /\ SubmitEffect("ClassicToNative")
  /\ UNCHANGED <<native, classic, nativeThreads, cooperativeContexts, powerpcParked,
                 m68kParked, nativeCpuTask, handoff>>

\* begin_powerpc_to_m68k_inner, begin_m68k_operation.
BeginNativeToClassic ==
  /\ NativeRuns
  /\ SubmitEffect("NativeToClassic")
  /\ UNCHANGED <<native, classic, nativeThreads, cooperativeContexts, powerpcParked,
                 m68kParked, nativeCpuTask, handoff>>

\* externalize_powerpc_action and activate_powerpc_effect_with_operation: submitted
\* and active at once, on the engine that is running.
CallNativeToNative ==
  /\ NativeRuns
  /\ taskEntryIsas[currentTask] = "PowerPc" \/ NativeReentry
  /\ nextCallId < MaxCallId
  /\ stacks' = [stacks EXCEPT ![currentTask] =
                  Append(@, [id |-> nextCallId, phase |-> "Active"])]
  /\ nextCallId' = nextCallId + 1
  /\ kinds' = [kinds EXCEPT ![nextCallId] = "NativeToNative"]
  /\ UNCHANGED <<currentTask, nextTaskId, attachedContexts, retiredTasks, taskStates,
                 taskEntryIsas, ready, criticalDepth, bankVars, native, classic,
                 nativeThreads, cooperativeContexts, powerpcParked, m68kParked,
                 nativeCpuTask, handoff>>

\* complete_powerpc_inner and complete_m68k_with_operation: a call that changed no
\* engine completes and is retired in one step.
ReturnSameEngine ==
  LET t == currentTask IN
  /\ \/ NativeRuns /\ TopKind(t) = "NativeToNative" /\ ValidTransition(t, Top(t).id, "Active")
     \/ ClassicRuns /\ TopKind(t) = "ClassicToClassic"
          /\ ValidTransition(t, Top(t).id, "Pending")
  /\ attachedContexts[Top(t).id] = 0
  /\ stacks' = WithoutTop(t)
  /\ UNCHANGED <<currentTask, nextCallId, nextTaskId, attachedContexts, retiredTasks,
                 taskStates, taskEntryIsas, ready, criticalDepth, bankVars, guestVars>>

\* complete_powerpc_for_m68k: the native engine gets back what the call displaced.
CompletePowerPcForM68k ==
  LET c == Top(currentTask).id IN
  /\ NativeRuns /\ TopKind(currentTask) = "ClassicToNative"
  /\ TakeWhileCompleting(currentTask, c)
  /\ native' = powerpcParked[c]
  /\ powerpcParked' = [powerpcParked EXCEPT ![c] = NoContext]
  /\ UNCHANGED <<kinds, classic, nativeThreads, cooperativeContexts, m68kParked,
                 nativeCpuTask, handoff>>

\* complete_m68k_for_powerpc_inner: the parked native caller is taken from the bank,
\* the call retired and the caller installed.
CompleteM68kForPowerPc ==
  LET t == currentTask
      c == Top(t).id IN
  /\ ClassicRuns /\ TopKind(t) = "NativeToClassic"
  /\ ValidTransition(t, c, "Active")
  /\ <<t, c>> \in powerpcContexts /\ attachedContexts[c] = 1
  /\ stacks' = WithoutTop(t)
  /\ attachedContexts' = [attachedContexts EXCEPT ![c] = 0]
  /\ powerpcContexts' = powerpcContexts \ {<<t, c>>}
  /\ native' = powerpcParked[c]
  /\ powerpcParked' = [powerpcParked EXCEPT ![c] = NoContext]
  /\ UNCHANGED <<currentTask, nextCallId, nextTaskId, retiredTasks, taskStates,
                 taskEntryIsas, ready, criticalDepth, m68kContexts, kinds, classic,
                 nativeThreads, cooperativeContexts, m68kParked, nativeCpuTask, handoff>>

---------------------------------------------------------------------------
(* The runner moves register sets *)

MayActivatePowerPc ==
  /\ Prepared /\ TopKind(currentTask) = "ClassicToNative"
  /\ MayParkPair(currentTask, Top(currentTask).id)

\* activate_powerpc_transition with a classic caller: both engines are parked under
\* the call; the native one starts the callee.
ActivatePowerPcTransition ==
  LET c == Top(currentTask).id IN
  /\ MayActivatePowerPc
  /\ ParkPairWhileActivating(currentTask, c)
  /\ powerpcParked' = [powerpcParked EXCEPT ![c] = native]
  /\ m68kParked' = [m68kParked EXCEPT ![c] = classic]
  /\ native' = <<currentTask, c>>
  /\ classic' = Stale
  /\ UNCHANGED <<kinds, nativeThreads, cooperativeContexts, nativeCpuTask, handoff>>

MayActivateM68k ==
  /\ Prepared /\ TopKind(currentTask) = "NativeToClassic"
  /\ MayParkCaller(currentTask, Top(currentTask).id, SuspendedM68kOwner(currentTask))

\* Slip: the classic engine is parked for every callback, not for the first.
ActivateM68kParkingAgain ==
  LET t      == currentTask
      c      == Top(t).id
      caller == SuspendedM68kOwner(t) IN
  /\ MayActivateM68k
  /\ ActivateParkingCaller(t, c, caller)
  /\ powerpcParked' = [powerpcParked EXCEPT ![c] = native]
  /\ m68kParked' = [d \in CallIds |-> IF d = caller THEN classic ELSE m68kParked[d]]
  /\ classic' = <<t, c>>
  /\ UNCHANGED <<kinds, native, nativeThreads, cooperativeContexts, nativeCpuTask, handoff>>

\* activate_m68k_in_bank, with the native caller to park.
ActivateM68kParking ==
  LET t      == currentTask
      c      == Top(t).id
      caller == SuspendedM68kOwner(t)
      parks  == caller # 0 /\ <<t, caller>> \notin m68kContexts IN
  /\ MayActivateM68k
  /\ ActivateParkingCaller(t, c, caller)
  /\ powerpcParked' = [powerpcParked EXCEPT ![c] = native]
  /\ m68kParked' = IF parks THEN [m68kParked EXCEPT ![caller] = classic] ELSE m68kParked
  /\ classic' = <<t, c>>
  /\ UNCHANGED <<kinds, native, nativeThreads, cooperativeContexts, nativeCpuTask, handoff>>

MayResumeM68k ==
  /\ Route = "Native" /\ TopKind(currentTask) = "ClassicToNative"
  /\ MayRetire(currentTask, Top(currentTask).id)

\* Slip: the call is retired and its classic caller stays in the bank.
ResumeM68kAfterPowerPcUninstalled ==
  LET c == Top(currentTask).id IN
  /\ MayResumeM68k
  /\ RetireWithContext(currentTask, c)
  /\ m68kParked' = [m68kParked EXCEPT ![c] = NoContext]
  /\ UNCHANGED <<kinds, native, classic, nativeThreads, cooperativeContexts, powerpcParked,
                 nativeCpuTask, handoff>>

\* resume_after_powerpc, commit_m68k_resume_inner: the classic caller is installed.
ResumeM68kAfterPowerPc ==
  LET c == Top(currentTask).id IN
  /\ MayResumeM68k
  /\ RetireWithContext(currentTask, c)
  /\ classic' = IF <<currentTask, c>> \in m68kContexts THEN m68kParked[c] ELSE classic
  /\ m68kParked' = [m68kParked EXCEPT ![c] = NoContext]
  /\ UNCHANGED <<kinds, native, nativeThreads, cooperativeContexts, powerpcParked,
                 nativeCpuTask, handoff>>

MayApplyHandoff == handoff # NoHandoff /\ handoff.isa = "M68k" /\ handoff.task = currentTask

\* apply_task_handoff, take_classic_task_handoff.
ApplyTaskHandoff ==
  /\ MayApplyHandoff
  /\ classic' = handoff.context
  /\ handoff' = NoHandoff
  /\ UNCHANGED <<vars, kinds, native, nativeThreads, cooperativeContexts, powerpcParked,
                 m68kParked, nativeCpuTask>>

\* save_native_context: only a registered task keeps a snapshot.
SavedNative(t) == IF t \in Registered THEN [nativeThreads EXCEPT ![t] = native]
                  ELSE nativeThreads

Replacing == nativeCpuTask # currentTask

\* Slip: a first native call of a classic task is not prepared.
MayPrepareWithSnapshotOnly ==
  /\ Route = "Native" /\ ~ Prepared
  /\ handoff # NoHandoff => handoff.task = currentTask /\ handoff.isa = "PowerPc"
  /\ ~ Replacing \/ handoff # NoHandoff \/ nativeThreads[currentTask] # NoContext

\* prepare_native_task gives up when the handoff is another engine's, and when the
\* engine has to be replaced and there is nothing to replace it with.
MayPrepareNative ==
  /\ Route = "Native" /\ ~ Prepared
  /\ handoff # NoHandoff => handoff.task = currentTask /\ handoff.isa = "PowerPc"
  /\ \/ ~ Replacing
     \/ nativeCpuTask = NoTask /\ currentTask = Application
     \/ handoff # NoHandoff
     \/ TopKind(currentTask) = "ClassicToNative" /\ TopPhase(currentTask) = "Pending"
     \/ nativeThreads[currentTask] # NoContext

\* prepare_native_task.
PrepareNativeTask ==
  /\ MayPrepareNative
  /\ native' = IF handoff # NoHandoff THEN handoff.context
               ELSE IF Replacing /\ nativeThreads[currentTask] # NoContext
               THEN nativeThreads[currentTask] ELSE native
  /\ nativeThreads' = IF Replacing /\ nativeCpuTask # NoTask
                      THEN SavedNative(nativeCpuTask) ELSE nativeThreads
  /\ nativeCpuTask' = currentTask
  /\ handoff' = NoHandoff
  /\ UNCHANGED <<vars, kinds, classic, cooperativeContexts, powerpcParked, m68kParked>>

\* resume_ready_task: only when nothing runs and no critical section is open.
ReadySuccessor == IF taskStates[currentTask] = "Ready" THEN currentTask
                  ELSE NextReadyTask(NoTask, FALSE)

MayResumeReady ==
  /\ handoff = NoHandoff /\ criticalDepth = 0
  /\ taskStates[currentTask] # "Running"
  /\ ReadySuccessor # NoTask /\ SavedContext(ReadySuccessor) # NoContext
  /\ MaySwitchTo(ReadySuccessor)

ResumeReadyTask ==
  LET next == ReadySuccessor IN
  /\ MayResumeReady
  /\ SwitchToTask(next)
  /\ handoff' = [task |-> next, isa |-> SavedIsa(next), context |-> SavedContext(next)]
  /\ UNCHANGED <<kinds, native, classic, nativeThreads, cooperativeContexts, powerpcParked,
                 m68kParked, nativeCpuTask>>

---------------------------------------------------------------------------
(* Thread Manager calls made by the running guest *)

Installable(t) == t # NoTask => SavedContext(t) # NoContext

\* What a switch made by native code does with the successor's snapshot
\* (install_native_successor); `t` is the task whose registers the engine holds now.
InstallFromNative(t, next) ==
  /\ native' = IF next # NoTask /\ SavedIsa(next) = "PowerPc" THEN SavedContext(next) ELSE native
  /\ nativeCpuTask' = IF next # NoTask /\ SavedIsa(next) = "PowerPc" THEN next ELSE t
  /\ handoff' = IF next # NoTask /\ SavedIsa(next) = "M68k"
                THEN [task |-> next, isa |-> "M68k", context |-> SavedContext(next)]
                ELSE handoff
  /\ UNCHANGED classic

\* A switch made by classic code: a classic successor is installed in the trap, a
\* native one waits for prepare_native_task.
InstallFromClassic(next) ==
  /\ classic' = IF next # NoTask /\ SavedIsa(next) = "M68k" THEN SavedContext(next) ELSE classic
  /\ handoff' = IF next # NoTask /\ SavedIsa(next) = "PowerPc"
                THEN [task |-> next, isa |-> "PowerPc", context |-> SavedContext(next)]
                ELSE handoff
  /\ UNCHANGED native

\* The registers of the calling task, which the switch leaves behind.
SaveOutgoing(fromNative, saves) ==
  /\ nativeThreads' = IF fromNative /\ saves
                      THEN [nativeThreads EXCEPT ![currentTask] = native] ELSE nativeThreads
  /\ cooperativeContexts' = IF ~ fromNative /\ saves
                            THEN [cooperativeContexts EXCEPT ![currentTask] = classic]
                            ELSE cooperativeContexts

\* yield_task and its native and classic edges.
YieldTask(fromNative, suggested) ==
  LET next == NextReadyTask(suggested, FALSE) IN
  /\ IF fromNative THEN NativeRuns ELSE ClassicRuns
  /\ handoff = NoHandoff
  /\ next # NoTask /\ Installable(next)
  /\ SwitchToTask(next)
  /\ SaveOutgoing(fromNative, TRUE)
  /\ IF fromNative THEN InstallFromNative(currentTask, next)
     ELSE InstallFromClassic(next) /\ UNCHANGED nativeCpuTask
  /\ UNCHANGED <<kinds, powerpcParked, m68kParked>>

\* set_native_thread_state, set_classic_thread_state (change_thread_state): the
\* caller's registers are kept when it is switched out or stops.
SetThreadState(fromNative, t, requested, suggested, endCritical) ==
  LET next  == IF t = currentTask /\ requested # "Running"
               THEN Candidate(suggested, t) ELSE NoTask
      saves == next # NoTask \/ (t = currentTask /\ requested = "Stopped") IN
  /\ IF fromNative THEN NativeRuns ELSE ClassicRuns
  /\ handoff = NoHandoff
  /\ ChangeThreadState(t, requested, suggested, endCritical)
  /\ next # NoTask => next = NextReadyTask(suggested, endCritical) /\ Installable(next)
  /\ SaveOutgoing(fromNative, saves)
  /\ IF fromNative /\ saves THEN InstallFromNative(currentTask, next)
     ELSE InstallFromClassic(next) /\ UNCHANGED nativeCpuTask
  /\ UNCHANGED <<kinds, powerpcParked, m68kParked>>

\* create_thread: the new task is entered in the architecture of the code that made it.
CreateThread(fromNative, suspended) ==
  LET t == nextTaskId IN
  /\ IF fromNative THEN NativeRuns ELSE ClassicRuns
  /\ t # NoTask /\ t \notin Registered \cup retiredTasks
  /\ stacks' = [stacks EXCEPT ![t] = << >>]
  /\ nextTaskId' = IF t = LastTaskId THEN NoTask ELSE t + 1
  /\ taskEntryIsas' = [taskEntryIsas EXCEPT ![t] = IF fromNative THEN "PowerPc" ELSE "M68k"]
  /\ taskStates' = [taskStates EXCEPT ![t] = IF suspended THEN "Stopped" ELSE "Ready"]
  /\ ready' = IF suspended THEN ready ELSE Append(ready, t)
  /\ nativeThreads' = IF fromNative THEN [nativeThreads EXCEPT ![t] = <<t, 0>>]
                      ELSE nativeThreads
  /\ cooperativeContexts' = IF fromNative THEN cooperativeContexts
                            ELSE [cooperativeContexts EXCEPT ![t] = <<t, 0>>]
  /\ UNCHANGED <<currentTask, nextCallId, attachedContexts, retiredTasks, criticalDepth,
                 bankVars, kinds, native, classic, powerpcParked, m68kParked,
                 nativeCpuTask, handoff>>

\* retire_thread and its native and classic edges.
RetireThread(fromNative, t) ==
  LET next == IF t = currentTask THEN NextReadyTask(NoTask, FALSE) ELSE NoTask
      heir == IF nativeCpuTask = t THEN NoTask ELSE nativeCpuTask IN
  /\ IF fromNative THEN NativeRuns ELSE ClassicRuns
  /\ t # Application /\ handoff = NoHandoff
  /\ nativeThreads[t] # NoContext \/ cooperativeContexts[t] # NoContext
  /\ t = currentTask => next # NoTask
  /\ Installable(next)
  /\ RetireTask(t, next)
  /\ nativeThreads' = [nativeThreads EXCEPT ![t] = NoContext]
  /\ cooperativeContexts' = [cooperativeContexts EXCEPT ![t] = NoContext]
  /\ IF fromNative THEN InstallFromNative(heir, next)
     ELSE InstallFromClassic(next) /\ nativeCpuTask' = heir
  /\ UNCHANGED <<kinds, powerpcParked, m68kParked>>

\* SetThreadReadyGivenTaskRef, also called at interrupt time: a stopped task is
\* readied without a switch.
ReadyGivenTask(t) ==
  /\ taskStates[t] = "Stopped"
  /\ SetSchedulingState(t, "Ready")
  /\ UNCHANGED guestVars

CriticalSection ==
  /\ GuestRuns
  /\ BeginCritical \/ EndCritical
  /\ UNCHANGED guestVars

---------------------------------------------------------------------------
Guest ==
  \/ RunNative \/ RunClassic
  \/ BeginClassicToClassic \/ BeginClassicToNative \/ BeginNativeToClassic
  \/ CallNativeToNative
  \/ ReturnSameEngine \/ CompletePowerPcForM68k \/ CompleteM68kForPowerPc
  \/ CriticalSection
  \/ \E n \in BOOLEAN :
       \/ \E suggested \in Tasks \cup {NoTask} : YieldTask(n, suggested)
       \/ \E t \in Tasks, s \in States, suggested \in Tasks \cup {NoTask}, e \in BOOLEAN :
            SetThreadState(n, t, s, suggested, e)
       \/ \E suspended \in BOOLEAN : CreateThread(n, suspended)
       \/ \E t \in Tasks : RetireThread(n, t)

Runner == \/ ActivatePowerPcTransition \/ ActivateM68kParking \/ ResumeM68kAfterPowerPc
          \/ ApplyTaskHandoff \/ PrepareNativeTask \/ ResumeReadyTask

GuestNext == Guest \/ Runner \/ \E t \in Tasks : ReadyGivenTask(t)

\* The frontend calls the runner every frame, and a slice takes each of its steps
\* that is possible before any guest instruction: the runner is weakly fair.
GuestSpec == GuestInit /\ [][GuestNext]_allVars /\ WF_allVars(Runner)

---------------------------------------------------------------------------
(* What mixed-mode execution promises *)

GuestTypeOK ==
  /\ TypeOK
  /\ kinds \in [CallIds -> Kinds \cup {"None"}]
  /\ native \in Contexts /\ classic \in Contexts
  /\ nativeThreads \in [Tasks -> Contexts \cup {NoContext}]
  /\ cooperativeContexts \in [Tasks -> Contexts \cup {NoContext}]
  /\ powerpcParked \in [CallIds -> Contexts \cup {NoContext}]
  /\ m68kParked \in [CallIds -> Contexts \cup {NoContext}]
  /\ nativeCpuTask \in Tasks \cup {NoTask}
  /\ handoff \in [task : Tasks \cup {NoTask}, isa : {"M68k", "PowerPc"}, context : Contexts]

\* Whichever engine the runner lets run holds the registers of the interval that comes
\* next on the selected task, and not a stale copy or another task's.
RunsOwnRegisters ==
  /\ NativeRuns => native = Owner(currentTask)
  /\ ClassicRuns => classic = Owner(currentTask)

\* The classic engine is not given a task whose newest interval is native code
\* (execution_route looks at the newest frame only).
ClassicLoopRunsClassic == ClassicRuns => IsaOf(Owner(currentTask)) = "M68k"

\* Native code does not go on while classic code that it called is unfinished
\* (has_m68k_execution looks at the newest frame only).
NativeWaitsForCallback == NativeRuns => IsaOf(Owner(currentTask)) = "PowerPc"

\* "Which execution coordinator can advance the selected task": the one execution_route
\* selects does, whatever calls lie above the interval that comes next.
CoordinatorAdvancesOwner == ClassicLoopRunsClassic /\ NativeWaitsForCallback

\* Every task that may be selected can be resumed: it has the snapshot of exactly the
\* interval it was suspended in.  A pending handoff holds the selected task's.
ResumableTasks ==
  /\ \A t \in Tasks : taskStates[t] = "Ready" =>
       SavedContext(t) = Owner(t) /\ SavedIsa(t) = IsaOf(Owner(t))
  /\ handoff # NoHandoff => /\ handoff.task = currentTask
                            /\ taskStates[currentTask] = "Running"
                            /\ handoff.context = Owner(currentTask)

\* The interval below position i of t's stack.
CallerOf(t, i) ==
  LET below == {j \in Started(t) : j < i} IN
  IF below = {} THEN <<t, 0>> ELSE <<t, stacks[t][Newest(below)].id>>

\* Each started cross-architecture call keeps its own caller's registers, however the
\* calls of several tasks nest and whatever the callee did to the engines.
CallersKept ==
  \A t \in Tasks : \A i \in Started(t) :
    LET c == stacks[t][i].id IN
    IF kinds[c] = "ClassicToNative" THEN m68kParked[c] = CallerOf(t, i)
    ELSE powerpcParked[c] = CallerOf(t, i)

\* As long as some task is Running or Ready, guest code or the runner can go on: no
\* guard of the banks and of the handoff machinery leaves the process waiting for itself.
RunnerMayStep == \/ MayActivatePowerPc \/ MayActivateM68k \/ MayResumeM68k
                 \/ MayApplyHandoff \/ MayPrepareNative \/ MayResumeReady

NeverWedged ==
  (\E t \in Tasks : taskStates[t] \in {"Ready", "Running"}) => GuestRuns \/ RunnerMayStep

\* The newest call of the selected task is a cross-architecture one in phase p.
Crossing(p) == /\ TopPhase(currentTask) = p
               /\ TopKind(currentTask) \in {"ClassicToNative", "NativeToClassic"}

\* A submitted cross-architecture call of the selected task is started: no guest code
\* can submit another before, so the next one that is active is the one submitted.
CallsStart == Crossing("Pending") ~> Crossing("Active")
===============================================================================
