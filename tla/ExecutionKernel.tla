---------------------------- MODULE ExecutionKernel ----------------------------
(***************************************************************************)
(* The CPU-free execution owner of one Macintosh process                   *)
(* (systems/macintosh/execution_kernel.rs): the task registry and its      *)
(* cooperative scheduling state (ContinuationStore), one LIFO stack of     *)
(* suspended guest calls per task, and the two ExecutionContextBanks that  *)
(* park a CPU engine against an exact call.                                *)
(*                                                                         *)
(* Every operation runs to completion on the single emulation thread and   *)
(* validates everything before it changes anything, so an operation is one *)
(* action and a refused operation is a step that is not taken.  The        *)
(* request, continuation and result a call carries, and the registers a    *)
(* parked engine holds, are opaque to this module; a HashMap is a total    *)
(* function with a value that stands for "no entry".                       *)
(***************************************************************************)
EXTENDS Subsequences

CONSTANTS LastTaskId,     \* the role of u32::MAX in the task id namespace
          MaxCallId,      \* the role of u64::MAX in the call id namespace
          MaxDepth,       \* the role of u32::MAX for the critical depth
          Isas            \* the architectures a task's entry point is bound to

Application == 2          \* kApplicationThreadID

ASSUME BoundsAssumption ==
  /\ LastTaskId \in Nat /\ LastTaskId >= Application
  /\ MaxCallId \in Nat /\ MaxCallId >= 1
  /\ MaxDepth \in Nat
  /\ Isas \subseteq {"M68k", "PowerPc"}

VARIABLES currentTask, nextCallId, nextTaskId, stacks, attachedContexts,
          retiredTasks, taskStates, taskEntryIsas, ready, criticalDepth,
          powerpcContexts, m68kContexts

storeVars == <<currentTask, nextCallId, nextTaskId, stacks, attachedContexts,
               retiredTasks, taskStates, taskEntryIsas, ready, criticalDepth>>
bankVars  == <<powerpcContexts, m68kContexts>>
vars      == <<storeVars, bankVars>>

Tasks   == Application..LastTaskId
CallIds == 1..MaxCallId
NoTask  == 0              \* Option::<ExecutionTaskId>::None
Phases  == {"Pending", "Active", "Completed"}
States  == {"Ready", "Stopped", "Running"}
Frames  == [id : CallIds, phase : Phases]
Slots   == Tasks \X CallIds

---------------------------------------------------------------------------
\* `stacks` and `task_states` have an entry for exactly the registered tasks.
Registered == {t \in Tasks : taskStates[t] # "Absent"}

Top(t) == stacks[t][Len(stacks[t])]

CallsOf(t) == {stacks[t][i].id : i \in DOMAIN stacks[t]}

\* validate_context_owner: the call is on t's stack, and t is selected.
OwnedByCurrent(t, c) == c \in CallsOf(t) /\ t = currentTask

\* Slip: the selected task is not compared with the task of the token.
ValidTransitionAnyTask(t, c, phase) ==
  stacks[t] # << >> /\ Top(t).id = c /\ Top(t).phase = phase

\* validate_transition: no other task owns the call, its task is selected, it is
\* that task's newest call and its phase is the expected one.
ValidTransition(t, c, phase) ==
  /\ \A other \in Tasks : c \in CallsOf(other) => other = t
  /\ t = currentTask
  /\ stacks[t] # << >>
  /\ Top(t).id = c
  /\ Top(t).phase = phase

WithTopPhase(t, phase) == [stacks EXCEPT ![t][Len(stacks[t])].phase = phase]

WithoutTop(t) == [stacks EXCEPT ![t] = SubSeq(@, 1, Len(@) - 1)]

---------------------------------------------------------------------------
Init ==
  /\ currentTask = Application
  /\ nextCallId = 1
  /\ nextTaskId = IF LastTaskId = Application THEN NoTask ELSE Application + 1
  /\ stacks = [t \in Tasks |-> << >>]
  /\ attachedContexts = [c \in CallIds |-> 0]
  /\ retiredTasks = {}
  /\ taskStates = [t \in Tasks |-> IF t = Application THEN "Running" ELSE "Absent"]
  /\ taskEntryIsas = [t \in Tasks |-> "Unbound"]
  /\ ready = << >>
  /\ criticalDepth = 0
  /\ powerpcContexts = {}
  /\ m68kContexts = {}

---------------------------------------------------------------------------
(* Tasks and scheduling *)

\* Slip: the id namespace is not advanced.
CreateTaskKeepingId ==
  /\ nextTaskId # NoTask
  /\ nextTaskId \notin Registered \cup retiredTasks
  /\ taskStates' = [taskStates EXCEPT ![nextTaskId] = "Stopped"]
  /\ UNCHANGED <<currentTask, nextCallId, nextTaskId, stacks, attachedContexts, retiredTasks,
                 taskEntryIsas, ready, criticalDepth, bankVars>>

\* create_task_with, whose commit callback accepted, and register_task.
CreateTask ==
  /\ nextTaskId # NoTask
  /\ nextTaskId \notin Registered \cup retiredTasks
  /\ stacks' = [stacks EXCEPT ![nextTaskId] = << >>]
  /\ taskStates' = [taskStates EXCEPT ![nextTaskId] = "Stopped"]
  /\ taskEntryIsas' = [taskEntryIsas EXCEPT ![nextTaskId] = "M68k"]
  /\ nextTaskId' = IF nextTaskId = LastTaskId THEN NoTask ELSE nextTaskId + 1
  /\ UNCHANGED <<currentTask, nextCallId, attachedContexts, retiredTasks, ready,
                 criticalDepth, bankVars>>

\* bind_task_entry_isa: a bound architecture changes only under an empty stack.
BindTaskEntryIsa(t, isa) ==
  /\ t \in Registered
  /\ taskEntryIsas[t] \in {"Unbound", isa} \/ stacks[t] = << >>
  /\ taskEntryIsas' = [taskEntryIsas EXCEPT ![t] = isa]
  /\ UNCHANGED <<currentTask, nextCallId, nextTaskId, stacks, attachedContexts,
                 retiredTasks, taskStates, ready, criticalDepth, bankVars>>

\* What switch_to_task asks of the task it is given.
MaySwitchTo(t) ==
  t \in Registered /\ (t # currentTask => taskStates[t] = "Ready" /\ criticalDepth = 0)

\* switch_to_task: the outgoing task, if it was running, queues up at the back.
SwitchToTask(t) ==
  LET requeue == t # currentTask /\ taskStates[currentTask] = "Running"
      queue   == IF requeue /\ currentTask \notin Entries(ready)
                 THEN Append(ready, currentTask) ELSE ready
  IN  /\ MaySwitchTo(t)
      /\ ready' = Without(queue, t)
      /\ taskStates' = [taskStates EXCEPT
           ![currentTask] = IF requeue THEN "Ready" ELSE @, ![t] = "Running"]
      /\ currentTask' = t
      /\ UNCHANGED <<nextCallId, nextTaskId, stacks, attachedContexts, retiredTasks,
                     taskEntryIsas, criticalDepth, bankVars>>

\* Slip: the task is pushed without being withdrawn from the queue first.
SetSchedulingStateQueuedTwice(t, requested) ==
  /\ t \in Registered
  /\ requested = "Running" => t = currentTask
  /\ t = currentTask /\ requested # "Running" => criticalDepth = 0
  /\ taskStates' = [taskStates EXCEPT ![t] = requested]
  /\ ready' = IF requested = "Ready" THEN Append(ready, t) ELSE Without(ready, t)
  /\ UNCHANGED <<currentTask, nextCallId, nextTaskId, stacks, attachedContexts,
                 retiredTasks, taskEntryIsas, criticalDepth, bankVars>>

\* change_scheduling_state, reached in the program with end_critical = false.
SetSchedulingState(t, requested) ==
  /\ t \in Registered
  /\ requested = "Running" => t = currentTask
  /\ t = currentTask /\ requested # "Running" => criticalDepth = 0
  /\ taskStates' = [taskStates EXCEPT ![t] = requested]
  /\ ready' = IF requested = "Ready" THEN Append(Without(ready, t), t)
              ELSE Without(ready, t)
  /\ UNCHANGED <<currentTask, nextCallId, nextTaskId, stacks, attachedContexts,
                 retiredTasks, taskEntryIsas, criticalDepth, bankVars>>

\* A task that may be selected in place of `leaving`.
Eligible(t, leaving) == t \in Tasks \ {leaving} /\ taskStates[t] = "Ready"

\* The successor the kernel names: the suggestion when it may run, or else the
\* first task of the ready queue that may.
Candidate(suggested, leaving) ==
  LET waiting == {i \in DOMAIN ready : Eligible(ready[i], leaving)}
  IN  IF Eligible(suggested, leaving) THEN suggested
      ELSE IF waiting = {} THEN NoTask
      ELSE ready[CHOOSE i \in waiting : \A j \in waiting : i <= j]

\* next_ready_task and next_ready_task_after_critical.
NextReadyTask(suggested, endCritical) ==
  IF (endCritical /\ criticalDepth = 0) \/ criticalDepth - (IF endCritical THEN 1 ELSE 0) # 0
  THEN NoTask
  ELSE Candidate(suggested, currentTask)

\* change_thread_state_with, whose commit callback accepted the successor.
ChangeThreadState(t, requested, suggested, endCritical) ==
  LET depth     == criticalDepth - (IF endCritical THEN 1 ELSE 0)
      switching == t = currentTask /\ requested # "Running"
      next      == IF switching THEN Candidate(suggested, t) ELSE NoTask
      final     == IF switching /\ next = NoTask /\ requested = "Ready"
                   THEN "Running" ELSE requested
      queue     == IF final = "Ready" THEN Append(Without(ready, t), t)
                   ELSE Without(ready, t)
  IN  /\ endCritical => criticalDepth > 0
      /\ t \in Registered
      /\ requested = "Running" => t = currentTask
      /\ switching => depth = 0
      /\ criticalDepth' = depth
      /\ IF next = NoTask
         THEN /\ ready' = queue
              /\ taskStates' = [taskStates EXCEPT ![t] = final]
              /\ currentTask' = currentTask
         ELSE /\ ready' = Without(queue, next)
              /\ taskStates' = [taskStates EXCEPT ![t] = final, ![next] = "Running"]
              /\ currentTask' = next
      /\ UNCHANGED <<nextCallId, nextTaskId, stacks, attachedContexts, retiredTasks,
                     taskEntryIsas, bankVars>>

BeginCritical ==      \* saturating_add
  /\ criticalDepth' = IF criticalDepth = MaxDepth THEN MaxDepth ELSE criticalDepth + 1
  /\ UNCHANGED <<currentTask, nextCallId, nextTaskId, stacks, attachedContexts,
                 retiredTasks, taskStates, taskEntryIsas, ready, bankVars>>

EndCritical ==
  /\ criticalDepth > 0
  /\ criticalDepth' = criticalDepth - 1
  /\ UNCHANGED <<currentTask, nextCallId, nextTaskId, stacks, attachedContexts,
                 retiredTasks, taskStates, taskEntryIsas, ready, bankVars>>

\* Slip: the critical depth is not checked before the successor is selected.
RetireTaskInsideCritical(t, successor) ==
  /\ t \in Registered
  /\ stacks[t] = << >>
  /\ IF t = currentTask
     THEN successor # t /\ successor \in Registered /\ taskStates[successor] = "Ready"
     ELSE successor = NoTask
  /\ currentTask' = IF t = currentTask THEN successor ELSE currentTask
  /\ taskStates' = [u \in Tasks |-> IF u = t THEN "Absent"
                                    ELSE IF u = successor THEN "Running"
                                    ELSE taskStates[u]]
  /\ ready' = Without(Without(ready, successor), t)
  /\ retiredTasks' = retiredTasks \cup {t}
  /\ UNCHANGED <<nextCallId, nextTaskId, stacks, attachedContexts, taskEntryIsas,
                 criticalDepth, bankVars>>

\* retire_task_with, whose commit callback accepted: only an empty stack goes, and
\* the selected task goes only in favour of a ready successor.
RetireTask(t, successor) ==
  /\ t \in Registered
  /\ stacks[t] = << >>
  /\ IF t = currentTask
     THEN successor # t /\ successor \in Registered
          /\ taskStates[successor] = "Ready" /\ criticalDepth = 0
     ELSE successor = NoTask
  /\ currentTask' = IF t = currentTask THEN successor ELSE currentTask
  /\ taskStates' = [u \in Tasks |-> IF u = t THEN "Absent"
                                    ELSE IF u = successor THEN "Running"
                                    ELSE taskStates[u]]
  /\ ready' = Without(Without(ready, successor), t)
  /\ retiredTasks' = retiredTasks \cup {t}
  /\ taskEntryIsas' = [taskEntryIsas EXCEPT ![t] = "Unbound"]
  /\ stacks' = [stacks EXCEPT ![t] = << >>]
  /\ UNCHANGED <<nextCallId, nextTaskId, attachedContexts, criticalDepth, bankVars>>

---------------------------------------------------------------------------
(* The life of one call *)

\* Slip: the call id is derived from the depth of the task's own stack.
SubmitNumberedByDepth(t) ==
  /\ t \in Registered
  /\ nextCallId < MaxCallId
  /\ stacks' = [stacks EXCEPT ![t] = Append(@, [id |-> Len(@) + 1, phase |-> "Pending"])]
  /\ nextCallId' = nextCallId + 1
  /\ UNCHANGED <<currentTask, nextTaskId, attachedContexts, retiredTasks, taskStates,
                 taskEntryIsas, ready, criticalDepth, bankVars>>

\* submit: the request names its own task t.
Submit(t) ==
  /\ t \in Registered
  /\ nextCallId < MaxCallId
  /\ stacks' = [stacks EXCEPT ![t] = Append(@, [id |-> nextCallId, phase |-> "Pending"])]
  /\ nextCallId' = nextCallId + 1
  /\ UNCHANGED <<currentTask, nextTaskId, attachedContexts, retiredTasks, taskStates,
                 taskEntryIsas, ready, criticalDepth, bankVars>>

Activate(t, c) ==
  /\ ValidTransition(t, c, "Pending")
  /\ stacks' = WithTopPhase(t, "Active")
  /\ UNCHANGED <<currentTask, nextCallId, nextTaskId, attachedContexts, retiredTasks,
                 taskStates, taskEntryIsas, ready, criticalDepth, bankVars>>

Complete(t, c) ==
  /\ ValidTransition(t, c, "Active")
  /\ stacks' = WithTopPhase(t, "Completed")
  /\ UNCHANGED <<currentTask, nextCallId, nextTaskId, attachedContexts, retiredTasks,
                 taskStates, taskEntryIsas, ready, criticalDepth, bankVars>>

\* retire (of a completed call) and cancel_pending (of one never started).
RemoveCall(t, c, phase) ==
  /\ phase \in {"Completed", "Pending"}
  /\ ValidTransition(t, c, phase)
  /\ attachedContexts[c] = 0
  /\ stacks' = WithoutTop(t)
  /\ UNCHANGED <<currentTask, nextCallId, nextTaskId, attachedContexts, retiredTasks,
                 taskStates, taskEntryIsas, ready, criticalDepth, bankVars>>

---------------------------------------------------------------------------
(* Calls whose caller's engine is parked in a bank *)

\* What park_pair_while_activating asks: neither bank holds an engine under the call.
MayParkPair(t, c) ==
  ValidTransition(t, c, "Pending") /\ <<t, c>> \notin powerpcContexts \cup m68kContexts

\* park_pair_while_activating: a classic caller enters native code; both engines
\* are parked under the call.
ParkPairWhileActivating(t, c) ==
  /\ MayParkPair(t, c)
  /\ stacks' = WithTopPhase(t, "Active")
  /\ attachedContexts' = [attachedContexts EXCEPT ![c] = @ + 2]
  /\ powerpcContexts' = powerpcContexts \cup {<<t, c>>}
  /\ m68kContexts' = m68kContexts \cup {<<t, c>>}
  /\ UNCHANGED <<currentTask, nextCallId, nextTaskId, retiredTasks, taskStates,
                 taskEntryIsas, ready, criticalDepth>>

\* Slip: a sibling callback counts its caller's engine a second time.
ActivateParkingCallerTwice(t, c, caller) ==
  /\ ValidTransition(t, c, "Pending")
  /\ <<t, c>> \notin powerpcContexts
  /\ caller # 0 => OwnedByCurrent(t, caller) /\ caller # c
  /\ stacks' = WithTopPhase(t, "Active")
  /\ m68kContexts' = IF caller # 0 THEN m68kContexts \cup {<<t, caller>>} ELSE m68kContexts
  /\ powerpcContexts' = powerpcContexts \cup {<<t, c>>}
  /\ attachedContexts' = [d \in CallIds |->
       attachedContexts[d] + (IF d \in {c, caller} THEN 1 ELSE 0)]
  /\ UNCHANGED <<currentTask, nextCallId, nextTaskId, retiredTasks, taskStates,
                 taskEntryIsas, ready, criticalDepth>>

\* What activate_parking_caller_with_context asks of the call and of its caller.
MayParkCaller(t, c, caller) ==
  /\ ValidTransition(t, c, "Pending")
  /\ <<t, c>> \notin powerpcContexts
  /\ caller # 0 => OwnedByCurrent(t, caller) /\ caller # c

\* activate_parking_caller_with_context: a native caller enters classic code.  The
\* native engine is parked under the call; the installed classic engine is parked
\* under the enclosing call `caller` (0: there is none), unless a sibling callback
\* already parked it.
ActivateParkingCaller(t, c, caller) ==
  LET parks == caller # 0 /\ <<t, caller>> \notin m68kContexts
  IN  /\ MayParkCaller(t, c, caller)
      /\ stacks' = WithTopPhase(t, "Active")
      /\ m68kContexts' = IF parks THEN m68kContexts \cup {<<t, caller>>} ELSE m68kContexts
      /\ powerpcContexts' = powerpcContexts \cup {<<t, c>>}
      /\ attachedContexts' = [d \in CallIds |->
           attachedContexts[d] + (IF parks /\ d = caller THEN 1 ELSE 0)
                               + (IF d = c THEN 1 ELSE 0)]
      /\ UNCHANGED <<currentTask, nextCallId, nextTaskId, retiredTasks, taskStates,
                     taskEntryIsas, ready, criticalDepth>>

\* take_while_completing on the native bank (complete_detaching_context).
TakeWhileCompleting(t, c) ==
  /\ <<t, c>> \in powerpcContexts
  /\ ValidTransition(t, c, "Active")
  /\ attachedContexts[c] # 0
  /\ stacks' = WithTopPhase(t, "Completed")
  /\ attachedContexts' = [attachedContexts EXCEPT ![c] = @ - 1]
  /\ powerpcContexts' = powerpcContexts \ {<<t, c>>}
  /\ UNCHANGED <<currentTask, nextCallId, nextTaskId, retiredTasks, taskStates,
                 taskEntryIsas, ready, criticalDepth, m68kContexts>>

\* What retire_with_context asks: nothing but the parked caller is left of the call.
MayRetire(t, c) ==
  /\ ValidTransition(t, c, "Completed")
  /\ attachedContexts[c] = IF <<t, c>> \in m68kContexts THEN 1 ELSE 0

\* retire_with_context on the classic bank, whose apply callback accepted.
RetireWithContext(t, c) ==
  /\ MayRetire(t, c)
  /\ stacks' = WithoutTop(t)
  /\ attachedContexts' = [attachedContexts EXCEPT ![c] = 0]
  /\ m68kContexts' = m68kContexts \ {<<t, c>>}
  /\ UNCHANGED <<currentTask, nextCallId, nextTaskId, retiredTasks, taskStates,
                 taskEntryIsas, ready, criticalDepth, powerpcContexts>>

---------------------------------------------------------------------------
Schedule ==
  \/ CreateTask
  \/ \E t \in Tasks, isa \in Isas : BindTaskEntryIsa(t, isa)
  \/ \E t \in Tasks : SwitchToTask(t)
  \/ \E t \in Tasks, s \in States : SetSchedulingState(t, s)
  \/ \E t \in Tasks, s \in States, suggested \in Tasks \cup {NoTask}, e \in BOOLEAN :
       ChangeThreadState(t, s, suggested, e)
  \/ BeginCritical
  \/ EndCritical
  \/ \E t \in Tasks, successor \in Tasks \cup {NoTask} : RetireTask(t, successor)

Call ==
  \/ \E t \in Tasks : Submit(t)
  \/ \E t \in Tasks, c \in CallIds : \/ Activate(t, c)
                                     \/ Complete(t, c)
                                     \/ \E phase \in Phases : RemoveCall(t, c, phase)
                                     \/ ParkPairWhileActivating(t, c)
                                     \/ TakeWhileCompleting(t, c)
                                     \/ RetireWithContext(t, c)
  \/ \E t \in Tasks, c \in CallIds, caller \in CallIds \cup {0} :
       ActivateParkingCaller(t, c, caller)

Next == Schedule \/ Call

Spec == Init /\ [][Next]_vars

---------------------------------------------------------------------------
(* What the kernel promises *)

TypeOK ==
  /\ currentTask \in Tasks
  /\ nextCallId \in CallIds
  /\ nextTaskId \in Tasks \cup {NoTask}
  /\ stacks \in [Tasks -> Seq(Frames)]
  /\ attachedContexts \in [CallIds -> Nat]
  /\ retiredTasks \subseteq Tasks
  /\ taskStates \in [Tasks -> States \cup {"Absent"}]
  /\ taskEntryIsas \in [Tasks -> {"M68k", "PowerPc", "Unbound"}]
  /\ ready \in Seq(Tasks)
  /\ criticalDepth \in 0..MaxDepth
  /\ powerpcContexts \subseteq Slots
  /\ m68kContexts \subseteq Slots

\* The cursor always names a registered task, and no other task is Running: two
\* tasks can never both believe they own the CPU (switch_to_task,
\* change_thread_state_with and retire_task_with each move the cursor).
SingleRunner ==
  /\ currentTask \in Registered
  /\ \A t \in Tasks : taskStates[t] = "Running" => t = currentTask

\* The ready queue and the per-task states never drift apart: the queue holds
\* exactly the Ready tasks, each once, so no Ready task is unreachable for a yield
\* and no retired or stopped task can be selected from the queue.
ReadyQueueExact ==
  /\ Distinct(ready)
  /\ Entries(ready) = {t \in Tasks : taskStates[t] = "Ready"}

\* A call is on one stack only, a stack is in submission order, and no live call
\* has an id that submit could hand out again.
CallIdentity ==
  /\ \A t \in Tasks : \A i, j \in DOMAIN stacks[t] :
       i < j => stacks[t][i].id < stacks[t][j].id
  /\ \A t \in Tasks : \A c \in CallsOf(t) : c < nextCallId
  /\ \A t, u \in Tasks : t # u => CallsOf(t) \cap CallsOf(u) = {}

\* How many engines the banks hold for call c.
Parked(c) == (IF \E t \in Tasks : <<t, c>> \in powerpcContexts THEN 1 ELSE 0)
           + (IF \E t \in Tasks : <<t, c>> \in m68kContexts THEN 1 ELSE 0)

\* Custody of parked engines: the store's count for a call is the number of engines
\* the banks hold for it, and an engine is parked only under a call that is still on
\* its own task's stack, so no retirement can strand a caller's registers.
ContextCustody ==
  /\ \A c \in CallIds : attachedContexts[c] = Parked(c)
  /\ \A slot \in powerpcContexts \cup m68kContexts : slot[2] \in CallsOf(slot[1])

\* Retired tasks leave nothing behind, and their ids are never handed out again.
RetiredForever ==
  /\ retiredTasks \cap Registered = {}
  /\ \A t \in Tasks \ Registered : stacks[t] = << >>
  /\ nextTaskId # NoTask =>
       \A t \in Registered \cup retiredTasks : t < nextTaskId

---------------------------------------------------------------------------
\* A critical section pins the CPU: the cursor moves only when no critical section
\* remains open, and only to a task that was waiting in the ready queue.
SwitchOutsideCritical ==
  [][currentTask' # currentTask => criticalDepth' = 0 /\ currentTask' \in Entries(ready)]_vars

\* A suspended task's calls are frozen: while a task is not selected its existing
\* calls keep their order and phase (a new call may only be pushed on top).
SuspendedCallsFrozen ==
  [][\A t \in Tasks \ {currentTask} :
       /\ Len(stacks'[t]) >= Len(stacks[t])
       /\ \A i \in DOMAIN stacks[t] : stacks'[t][i] = stacks[t][i]]_vars

\* Identities are used once: a task that was retired is never registered again and a
\* call that left its stack never comes back, so a stale task or call id can only be
\* refused.
IdsUsedOnce ==
  [][/\ retiredTasks \cap Registered' = {}
     /\ \A c \in 1..(nextCallId - 1) :
          (\A t \in Tasks : c \notin CallsOf(t))
            => \A t \in Tasks : c \notin CallsOf(t)']_vars
===============================================================================
