----------------------------- MODULE ExecutionProofs -----------------------------
(***************************************************************************)
(* Theorems about ExecutionKernel and about GuestCalls, which extends it,   *)
(* for every number of tasks, calls and nested critical sections.  Those    *)
(* about GuestCalls are about processes whose guest code re-enters neither  *)
(* engine on a task of the other architecture (NativeReentry and            *)
(* ClassicReentry are FALSE: the two configurations that set them show      *)
(* what breaks).                                                            *)
(***************************************************************************)
EXTENDS GuestCalls, SubsequenceProofs, SequenceTheorems

---------------------------------------------------------------------------
(* The kernel *)

\* The task the kernel names as successor is one that may be selected.
LEMMA CandidateEligible ==
  ASSUME TypeOK, NEW suggested, NEW leaving
  PROVE  \/ Candidate(suggested, leaving) = NoTask
         \/ Eligible(Candidate(suggested, leaving), leaving)
<1> DEFINE waiting == {i \in DOMAIN ready : Eligible(ready[i], leaving)}
           first   == CHOOSE i \in waiting : \A j \in waiting : i <= j
<1>1. CASE Eligible(suggested, leaving)
  BY <1>1 DEF Candidate
<1>2. CASE ~Eligible(suggested, leaving) /\ waiting = {}
  BY <1>2 DEF Candidate
<1>3. CASE ~Eligible(suggested, leaving) /\ waiting # {}
  <2>1. waiting \subseteq Nat
    BY DEF TypeOK
  <2>2. \E i \in waiting : \A j \in waiting : i <= j
    <3> HIDE DEF waiting
    <3> QED BY <1>3, <2>1, LeastNatural
  <2>3. first \in waiting
    <3> HIDE DEF waiting
    <3> QED BY <2>2
  <2>4. Candidate(suggested, leaving) = ready[first]
    BY <1>3 DEF Candidate
  <2> QED BY <2>3, <2>4
<1> QED BY <1>1, <1>2, <1>3

\* Task ids are naturals, and the value for "no task" is none of them.
LEMMA TasksAreNat ==
  Tasks \subseteq Nat /\ NoTask \notin Tasks /\ Application \in Tasks
BY BoundsAssumption DEF Tasks, NoTask, Application

\* The two rewrites of a stack keep it a stack of frames.
LEMMA StackRewrites ==
  ASSUME TypeOK, NEW t \in Tasks, stacks[t] # << >>
  PROVE  /\ \A phase \in Phases : WithTopPhase(t, phase) \in [Tasks -> Seq(Frames)]
         /\ WithoutTop(t) \in [Tasks -> Seq(Frames)]
<1>1. stacks[t] \in Seq(Frames) /\ Len(stacks[t]) \in 1..Len(stacks[t])
  BY DEF TypeOK
<1>2. ASSUME NEW phase \in Phases
      PROVE  [stacks[t] EXCEPT ![Len(stacks[t])].phase = phase] \in Seq(Frames)
  <2> DEFINE n == Len(stacks[t])
             top == [stacks[t][n] EXCEPT !.phase = phase]
  <2>1. stacks[t][n] \in Frames
    BY <1>1
  <2>2. top \in Frames
    BY <2>1, <1>2 DEF Frames
  <2>3. [stacks[t] EXCEPT ![n] = top] \in Seq(Frames)
    <3> HIDE DEF top
    <3> QED BY <1>1, <2>2, ExceptSeq
  <2> QED BY <2>3
<1>3. SubSeq(stacks[t], 1, Len(stacks[t]) - 1) \in Seq(Frames)
  BY <1>1
<1> QED BY <1>2, <1>3 DEF WithTopPhase, WithoutTop, TypeOK

\* The initial state is well typed.
LEMMA InitTypeOK == Init => TypeOK
<1> SUFFICES ASSUME Init PROVE TypeOK
  OBVIOUS
<1>1. << >> \in Seq(Frames) /\ << >> \in Seq(Tasks)
  OBVIOUS
<1>2. nextTaskId \in Tasks \cup {NoTask}
  BY BoundsAssumption DEF Init, Tasks, Application
<1> QED BY <1>1, <1>2, TasksAreNat, BoundsAssumption
       DEF Init, TypeOK, CallIds, States

\* Every operation preserves the types.
LEMMA StepTypeOK == TypeOK /\ [Next]_vars => TypeOK'
<1> SUFFICES ASSUME TypeOK, [Next]_vars PROVE TypeOK'
  OBVIOUS
<1> USE DEF TypeOK
<1>1. CASE CreateTask
  <2>1. nextTaskId' \in Tasks \cup {NoTask}
    BY <1>1, BoundsAssumption DEF CreateTask, Tasks, Application, NoTask
  <2> QED BY <1>1, <2>1 DEF CreateTask, bankVars, States
<1>2. ASSUME NEW t \in Tasks, NEW isa \in Isas, BindTaskEntryIsa(t, isa) PROVE TypeOK'
  BY <1>2, BoundsAssumption DEF BindTaskEntryIsa, bankVars
<1>3. ASSUME NEW t \in Tasks, SwitchToTask(t) PROVE TypeOK'
  <2>1. ready' \in Seq(Tasks)
    BY <1>3, WithoutProperties, PushProperties DEF SwitchToTask, MaySwitchTo
  <2> QED BY <1>3, <2>1 DEF SwitchToTask, MaySwitchTo, bankVars, States
<1>4. ASSUME NEW t \in Tasks, NEW s \in States, SetSchedulingState(t, s) PROVE TypeOK'
  <2>1. ready' \in Seq(Tasks)
    BY <1>4, WithoutProperties, PushProperties DEF SetSchedulingState
  <2> QED BY <1>4, <2>1 DEF SetSchedulingState, bankVars, States
<1>5. ASSUME NEW t \in Tasks, NEW s \in States, NEW suggested \in Tasks \cup {NoTask},
             NEW e \in BOOLEAN, ChangeThreadState(t, s, suggested, e)
      PROVE  TypeOK'
  <2>1. ready' \in Seq(Tasks)
    <3>1. Without(ready, t) \in Seq(Tasks)
      BY WithoutProperties
    <3>2. Append(Without(ready, t), t) \in Seq(Tasks)
      BY <3>1, PushProperties
    <3>3. \A q \in Seq(Tasks) : \A u : Without(q, u) \in Seq(Tasks)
      BY WithoutProperties
    <3> DEFINE next == IF t = currentTask /\ s # "Running"
                       THEN Candidate(suggested, t) ELSE NoTask
    <3>4. PICK queue \in {Without(ready, t), Append(Without(ready, t), t)} :
            ready' = queue \/ ready' = Without(queue, next)
      BY <1>5 DEF ChangeThreadState
    <3> HIDE DEF next
    <3> QED BY <3>1, <3>2, <3>3, <3>4
  <2>2. currentTask' \in Tasks
    BY <1>5, CandidateEligible DEF ChangeThreadState, Eligible
  <2>3. taskStates' \in [Tasks -> States \cup {"Absent"}]
    BY <1>5 DEF ChangeThreadState, States
  <2>4. criticalDepth' \in 0..MaxDepth
    BY <1>5, BoundsAssumption DEF ChangeThreadState
  <2> QED BY <1>5, <2>1, <2>2, <2>3, <2>4 DEF ChangeThreadState, bankVars
<1>6. CASE BeginCritical
  BY <1>6, BoundsAssumption DEF BeginCritical, bankVars
<1>7. CASE EndCritical
  BY <1>7, BoundsAssumption DEF EndCritical, bankVars
<1>8. ASSUME NEW t \in Tasks, NEW successor \in Tasks \cup {NoTask}, RetireTask(t, successor)
      PROVE  TypeOK'
  <2>1. ready' \in Seq(Tasks)
    BY <1>8, WithoutProperties DEF RetireTask
  <2>2. currentTask' \in Tasks
    BY <1>8, TasksAreNat DEF RetireTask, Registered
  <2> QED BY <1>8, <2>1, <2>2 DEF RetireTask, bankVars, States
<1>9. ASSUME NEW t \in Tasks, Submit(t) PROVE TypeOK'
  <2>1. [id |-> nextCallId, phase |-> "Pending"] \in Frames
    BY DEF Frames, Phases
  <2>2. Append(stacks[t], [id |-> nextCallId, phase |-> "Pending"]) \in Seq(Frames)
    BY <2>1
  <2>3. nextCallId' \in CallIds
    BY <1>9, BoundsAssumption DEF Submit, CallIds
  <2> QED BY <1>9, <2>2, <2>3 DEF Submit, bankVars
<1>10. ASSUME NEW t \in Tasks, NEW c \in CallIds, Activate(t, c) PROVE TypeOK'
  BY <1>10, StackRewrites DEF Activate, ValidTransition, Phases, bankVars
<1>11. ASSUME NEW t \in Tasks, NEW c \in CallIds, Complete(t, c) PROVE TypeOK'
  BY <1>11, StackRewrites DEF Complete, ValidTransition, Phases, bankVars
<1>12. ASSUME NEW t \in Tasks, NEW c \in CallIds, NEW phase \in Phases,
              RemoveCall(t, c, phase)
       PROVE  TypeOK'
  BY <1>12, StackRewrites DEF RemoveCall, ValidTransition, bankVars
<1>13. ASSUME NEW t \in Tasks, NEW c \in CallIds, ParkPairWhileActivating(t, c)
       PROVE  TypeOK'
  <2>1. stacks' \in [Tasks -> Seq(Frames)]
    BY <1>13, StackRewrites, SMTT(30) DEF ParkPairWhileActivating, MayParkPair,
                    ValidTransition, Phases
  <2>2. powerpcContexts' \subseteq Slots /\ m68kContexts' \subseteq Slots
    BY <1>13 DEF ParkPairWhileActivating, MayParkPair, Slots
  <2> QED BY <1>13, <2>1, <2>2, SMTT(30) DEF ParkPairWhileActivating, MayParkPair
<1>14. ASSUME NEW t \in Tasks, NEW c \in CallIds, TakeWhileCompleting(t, c)
       PROVE  TypeOK'
  <2>1. stacks' \in [Tasks -> Seq(Frames)]
    BY <1>14, StackRewrites, SMTT(30) DEF TakeWhileCompleting, ValidTransition, Phases
  <2>2. UNCHANGED <<currentTask, taskStates, taskEntryIsas, ready, retiredTasks, nextTaskId,
                    criticalDepth, nextCallId>>
    BY <1>14 DEF TakeWhileCompleting
  <2>3. powerpcContexts' \subseteq Slots /\ m68kContexts' \subseteq Slots
        /\ attachedContexts' \in [CallIds -> Nat]
    BY <1>14 DEF TakeWhileCompleting
  <2> QED BY <2>1, <2>2, <2>3, SMTT(30)
<1>15. ASSUME NEW t \in Tasks, NEW c \in CallIds, RetireWithContext(t, c)
       PROVE  TypeOK'
  <2>1. stacks' \in [Tasks -> Seq(Frames)]
    BY <1>15, StackRewrites DEF RetireWithContext, MayRetire, ValidTransition
  <2> QED BY <1>15, <2>1 DEF RetireWithContext, MayRetire
<1>16. ASSUME NEW t \in Tasks, NEW c \in CallIds, NEW caller \in CallIds \cup {0},
              ActivateParkingCaller(t, c, caller)
       PROVE  TypeOK'
  <2>1. stacks' \in [Tasks -> Seq(Frames)]
    BY <1>16, StackRewrites DEF ActivateParkingCaller, MayParkCaller, ValidTransition,
                    Phases
  <2>2. powerpcContexts' \subseteq Slots
    BY <1>16 DEF ActivateParkingCaller, MayParkCaller, Slots
  <2>3. m68kContexts' \subseteq Slots
    <3>1. caller # 0 => <<t, caller>> \in Slots
      BY DEF Slots
    <3> QED BY <1>16, <3>1 DEF ActivateParkingCaller, MayParkCaller
  <2>4. attachedContexts' \in [CallIds -> Nat]
    BY <1>16 DEF ActivateParkingCaller, MayParkCaller
  <2> QED BY <1>16, <2>1, <2>2, <2>3, <2>4 DEF ActivateParkingCaller, MayParkCaller
<1>17. CASE UNCHANGED vars
  BY <1>17 DEF vars, storeVars, bankVars
<1> HIDE DEF TypeOK
<1>18. CASE Schedule
  BY <1>1, <1>2, <1>3, <1>4, <1>5, <1>6, <1>7, <1>8, <1>18 DEF Schedule
<1>19. CASE Call
  BY <1>9, <1>10, <1>11, <1>12, <1>13, <1>14, <1>15, <1>16, <1>19 DEF Call
<1> QED BY <1>17, <1>18, <1>19 DEF Next

\* Type correctness: every variable keeps its type through every operation of the
\* kernel (ContinuationStore and ExecutionContextBank, execution_kernel.rs).
THEOREM TypeCorrect == Spec => []TypeOK
BY InitTypeOK, StepTypeOK, PTL DEF Spec
---------------------------------------------------------------------------
(* Scheduling: the registry, the cursor and the ready queue *)

\* Operations on calls leave the scheduler's state alone.
LEMMA CallsLeaveScheduling ==
  ASSUME Call
  PROVE  UNCHANGED <<currentTask, taskStates, ready, retiredTasks, nextTaskId, criticalDepth>>
<1> DEFINE Same == UNCHANGED <<currentTask, taskStates, ready, retiredTasks, nextTaskId,
                               criticalDepth>>
<1>1. ASSUME NEW t \in Tasks, Submit(t) PROVE Same
  BY <1>1 DEF Submit
<1>2. ASSUME NEW t \in Tasks, NEW c \in CallIds, Activate(t, c) \/ Complete(t, c) PROVE Same
  BY <1>2 DEF Activate, Complete
<1>3. ASSUME NEW t \in Tasks, NEW c \in CallIds, NEW phase \in Phases, RemoveCall(t, c, phase)
      PROVE  Same
  BY <1>3 DEF RemoveCall
<1>4. ASSUME NEW t \in Tasks, NEW c \in CallIds,
             ParkPairWhileActivating(t, c) \/ TakeWhileCompleting(t, c) \/ RetireWithContext(t, c)
      PROVE  Same
  BY <1>4 DEF ParkPairWhileActivating, MayParkPair, TakeWhileCompleting, RetireWithContext,
              MayRetire
<1>5. ASSUME NEW t \in Tasks, NEW c \in CallIds, NEW caller \in CallIds \cup {0},
             ActivateParkingCaller(t, c, caller)
      PROVE  Same
  BY <1>5 DEF ActivateParkingCaller, MayParkCaller
<1> HIDE DEF Same
<1>6. Same
  BY <1>1, <1>2, <1>3, <1>4, <1>5 DEF Call
<1> QED BY <1>6 DEF Same

\* Only the stack of a registered task is ever written by an operation on calls.
LEMMA CallsOfRegisteredOnly ==
  ASSUME TypeOK, SingleRunner, Call, NEW u \in Tasks, u \notin Registered
  PROVE  stacks'[u] = stacks[u]
<1>1. ASSUME NEW t \in Tasks, Submit(t) PROVE stacks'[u] = stacks[u]
  BY <1>1 DEF Submit, TypeOK
<1>2. u # currentTask
  BY DEF SingleRunner
<1>3. ASSUME NEW t \in Tasks, NEW c, NEW phase, ValidTransition(t, c, phase)
      PROVE  /\ \A new : WithTopPhase(t, new)[u] = stacks[u]
             /\ WithoutTop(t)[u] = stacks[u]
  BY <1>2, <1>3 DEF ValidTransition, WithTopPhase, WithoutTop, TypeOK
<1>4. ASSUME NEW t \in Tasks, NEW c \in CallIds,
             \/ Activate(t, c)
             \/ Complete(t, c)
             \/ \E phase \in Phases : RemoveCall(t, c, phase)
             \/ ParkPairWhileActivating(t, c)
             \/ TakeWhileCompleting(t, c)
             \/ RetireWithContext(t, c)
      PROVE  stacks'[u] = stacks[u]
  BY <1>3, <1>4 DEF Activate, Complete, RemoveCall, ParkPairWhileActivating, MayParkPair,
                    TakeWhileCompleting, RetireWithContext, MayRetire
<1>5. ASSUME NEW t \in Tasks, NEW c \in CallIds, NEW caller \in CallIds \cup {0},
             ActivateParkingCaller(t, c, caller)
      PROVE  stacks'[u] = stacks[u]
  BY <1>3, <1>5 DEF ActivateParkingCaller, MayParkCaller
<1>6. CASE \E t \in Tasks : Submit(t)
  BY <1>1, <1>6
<1>7. CASE \E t \in Tasks, c \in CallIds, caller \in CallIds \cup {0} :
             ActivateParkingCaller(t, c, caller)
  BY <1>5, <1>7
<1> QED BY <1>4, <1>6, <1>7 DEF Call

\* What a yield does to the queue: the task leaves it and may queue up at the back.
LEMMA Requeued ==
  ASSUME TypeOK, Distinct(ready), NEW t \in Tasks
  PROVE  LET q == Append(Without(ready, t), t)
         IN  q \in Seq(Tasks) /\ Distinct(q) /\ Entries(q) = Entries(ready) \cup {t}
<1>1. /\ Without(ready, t) \in Seq(Tasks)
      /\ Entries(Without(ready, t)) = Entries(ready) \ {t}
      /\ Distinct(Without(ready, t))
  BY WithoutProperties DEF TypeOK
<1> QED BY <1>1, PushProperties

\* The scheduler's inductive invariant.  Neither part is inductive alone: the queue
\* names a running task at most when two tasks run, and a task id is reused at most
\* when the id namespace does not lie above every task that ever was registered.
Scheduling == TypeOK /\ SingleRunner /\ ReadyQueueExact /\ RetiredForever

\* A new store has one task, Running, and an empty queue.
LEMMA InitScheduling == Init => Scheduling
<1> SUFFICES ASSUME Init PROVE Scheduling
  OBVIOUS
<1>1. TypeOK
  BY InitTypeOK
<1>2. SingleRunner
  BY TasksAreNat DEF Init, SingleRunner, Registered
<1>3. ReadyQueueExact
  BY DEF Init, ReadyQueueExact, Entries, Distinct
<1>4. RetiredForever
  BY TasksAreNat DEF Init, RetiredForever, Registered, Application
<1> QED BY <1>1, <1>2, <1>3, <1>4 DEF Scheduling

\* The cursor and the Running task agree after every operation.
LEMMA StepSingleRunner == Scheduling /\ [Next]_vars => SingleRunner'
<1> SUFFICES ASSUME Scheduling, [Next]_vars PROVE SingleRunner'
  OBVIOUS
<1> USE DEF Scheduling, TypeOK, SingleRunner, Registered, States
<1>1. CASE CreateTask
  BY <1>1 DEF CreateTask
<1>2. ASSUME NEW t \in Tasks, NEW isa \in Isas, BindTaskEntryIsa(t, isa) PROVE SingleRunner'
  BY <1>2 DEF BindTaskEntryIsa
<1>3. ASSUME NEW t \in Tasks, SwitchToTask(t) PROVE SingleRunner'
  BY <1>3 DEF SwitchToTask, MaySwitchTo
<1>4. ASSUME NEW t \in Tasks, NEW s \in States, SetSchedulingState(t, s) PROVE SingleRunner'
  BY <1>4 DEF SetSchedulingState
<1>5. ASSUME NEW t \in Tasks, NEW s \in States, NEW suggested \in Tasks \cup {NoTask},
             NEW e \in BOOLEAN, ChangeThreadState(t, s, suggested, e)
      PROVE  SingleRunner'
  <2> DEFINE next == IF t = currentTask /\ s # "Running"
                     THEN Candidate(suggested, t) ELSE NoTask
  <2>1. next # NoTask => t = currentTask /\ next \in Tasks \ {t}
    BY CandidateEligible DEF Eligible
  <2>2. CASE next = NoTask
    BY <1>5, <2>2 DEF ChangeThreadState
  <2>3. CASE next # NoTask
    <3>1. t = currentTask /\ next \in Tasks /\ next # t /\ s # "Running"
      BY <2>1, <2>3
    <3>2. PICK final \in States : /\ currentTask' = next
                                 /\ taskStates' = [taskStates EXCEPT ![t] = final,
                                                                    ![next] = "Running"]
                                 /\ final = s
      BY <1>5, <2>3 DEF ChangeThreadState
    <3> HIDE DEF next
    <3>3. currentTask' \in Tasks /\ taskStates'[currentTask'] = "Running"
      BY <3>1, <3>2
    <3>4. \A u \in Tasks : taskStates'[u] = "Running" => u = currentTask'
      BY <3>1, <3>2
    <3> QED BY <3>3, <3>4
  <2> QED BY <2>2, <2>3
<1>6. CASE BeginCritical \/ EndCritical
  BY <1>6 DEF BeginCritical, EndCritical
<1>7. ASSUME NEW t \in Tasks, NEW successor \in Tasks \cup {NoTask}, RetireTask(t, successor)
      PROVE  SingleRunner'
  BY <1>7, TasksAreNat DEF RetireTask
<1>8. CASE Call
  BY <1>8, CallsLeaveScheduling
<1>9. CASE UNCHANGED vars
  BY <1>9 DEF vars, storeVars
<1> HIDE DEF Scheduling, TypeOK, SingleRunner, Registered, States
<1> QED BY <1>1, <1>2, <1>3, <1>4, <1>5, <1>6, <1>7, <1>8, <1>9 DEF Next, Schedule

\* The queue keeps naming exactly the Ready tasks, each once.
LEMMA StepReadyQueueExact == Scheduling /\ [Next]_vars => ReadyQueueExact'
<1> SUFFICES ASSUME Scheduling, [Next]_vars PROVE ReadyQueueExact'
  OBVIOUS
<1> USE DEF Scheduling, TypeOK, States
<1>a. Distinct(ready) /\ Entries(ready) = {t \in Tasks : taskStates[t] = "Ready"}
  BY DEF ReadyQueueExact
<1>b. \A q \in Seq(Tasks) : \A t :
        /\ Without(q, t) \in Seq(Tasks)
        /\ Entries(Without(q, t)) = Entries(q) \ {t}
        /\ Distinct(q) => Distinct(Without(q, t))
  BY WithoutProperties
<1>c. \A t \in Tasks : LET q == Append(Without(ready, t), t)
                       IN  q \in Seq(Tasks) /\ Distinct(q) /\ Entries(q) = Entries(ready) \cup {t}
  BY <1>a, Requeued
<1>1. CASE CreateTask
  BY <1>1, <1>a DEF CreateTask, ReadyQueueExact, Registered
<1>2. ASSUME NEW t \in Tasks, NEW isa \in Isas, BindTaskEntryIsa(t, isa)
      PROVE  ReadyQueueExact'
  BY <1>2, <1>a DEF BindTaskEntryIsa, ReadyQueueExact
<1>3. ASSUME NEW t \in Tasks, SwitchToTask(t) PROVE ReadyQueueExact'
  <2> DEFINE requeue == t # currentTask /\ taskStates[currentTask] = "Running"
             queue   == IF requeue /\ currentTask \notin Entries(ready)
                        THEN Append(ready, currentTask) ELSE ready
  <2>1. /\ queue \in Seq(Tasks)
        /\ Distinct(queue)
        /\ Entries(queue) = IF requeue THEN Entries(ready) \cup {currentTask} ELSE Entries(ready)
    <3>1. CASE queue = ready /\ (requeue => currentTask \in Entries(ready))
      BY <1>a, <3>1
    <3>2. CASE queue = Append(ready, currentTask) /\ requeue /\ currentTask \notin Entries(ready)
      BY <1>a, <3>2, PushProperties
    <3> QED BY <3>1, <3>2
  <2>2. ready' = Without(queue, t)
    BY <1>3 DEF SwitchToTask, MaySwitchTo
  <2> HIDE DEF queue
  <2>3. Distinct(ready') /\ Entries(ready') = Entries(queue) \ {t}
    BY <1>b, <2>1, <2>2
  <2>4. Entries(queue) \ {t} = {u \in Tasks : taskStates'[u] = "Ready"}
    BY <1>3, <1>a, <2>1 DEF SwitchToTask, MaySwitchTo
  <2> QED BY <2>3, <2>4 DEF ReadyQueueExact
<1>4. ASSUME NEW t \in Tasks, NEW s \in States, SetSchedulingState(t, s)
      PROVE  ReadyQueueExact'
  <2>1. CASE s = "Ready"
    BY <1>4, <1>a, <1>c, <2>1 DEF SetSchedulingState, ReadyQueueExact
  <2>2. CASE s # "Ready"
    <3>1. Distinct(ready') /\ Entries(ready') = Entries(ready) \ {t}
      BY <1>4, <1>a, <1>b, <2>2 DEF SetSchedulingState
    <3>2. Entries(ready) \ {t} = {u \in Tasks : taskStates'[u] = "Ready"}
      BY <1>4, <1>a, <2>2 DEF SetSchedulingState
    <3> QED BY <3>1, <3>2 DEF ReadyQueueExact
  <2> QED BY <2>1, <2>2
<1>5. ASSUME NEW t \in Tasks, NEW s \in States, NEW suggested \in Tasks \cup {NoTask},
             NEW e \in BOOLEAN, ChangeThreadState(t, s, suggested, e)
      PROVE  ReadyQueueExact'
  <2> DEFINE switching == t = currentTask /\ s # "Running"
             next      == IF switching THEN Candidate(suggested, t) ELSE NoTask
             final     == IF switching /\ next = NoTask /\ s = "Ready" THEN "Running" ELSE s
             queue     == IF final = "Ready" THEN Append(Without(ready, t), t)
                          ELSE Without(ready, t)
  <2>1. next # NoTask => t = currentTask /\ next \in Tasks \ {t} /\ taskStates[next] = "Ready"
    BY CandidateEligible DEF Eligible
  <2>2. /\ queue \in Seq(Tasks)
        /\ Distinct(queue)
        /\ Entries(queue) = IF final = "Ready" THEN Entries(ready) \cup {t} ELSE Entries(ready) \ {t}
    BY <1>a, <1>b, <1>c
  <2>3. IF next = NoTask
        THEN ready' = queue /\ taskStates' = [taskStates EXCEPT ![t] = final]
        ELSE /\ ready' = Without(queue, next)
             /\ taskStates' = [taskStates EXCEPT ![t] = final, ![next] = "Running"]
    BY <1>5 DEF ChangeThreadState
  <2> HIDE DEF queue, next
  <2>4. CASE next = NoTask
    BY <1>a, <2>2, <2>3, <2>4 DEF ReadyQueueExact
  <2>5. CASE next # NoTask
    <3>1. Distinct(ready') /\ Entries(ready') = Entries(queue) \ {next}
      BY <1>b, <2>2, <2>3, <2>5
    <3>2. taskStates' = [taskStates EXCEPT ![t] = final, ![next] = "Running"]
      BY <2>3, <2>5
    <3> HIDE DEF final
    <3>3. Entries(queue) \ {next} = {u \in Tasks : taskStates'[u] = "Ready"}
      BY <1>a, <2>1, <2>2, <2>5, <3>2
    <3> QED BY <3>1, <3>3 DEF ReadyQueueExact
  <2> QED BY <2>4, <2>5
<1>6. CASE BeginCritical \/ EndCritical
  BY <1>6, <1>a DEF BeginCritical, EndCritical, ReadyQueueExact
<1>7. ASSUME NEW t \in Tasks, NEW successor \in Tasks \cup {NoTask}, RetireTask(t, successor)
      PROVE  ReadyQueueExact'
  <2>1. Distinct(ready') /\ Entries(ready') = (Entries(ready) \ {successor}) \ {t}
    BY <1>7, <1>a, <1>b DEF RetireTask
  <2>2. (Entries(ready) \ {successor}) \ {t} = {u \in Tasks : taskStates'[u] = "Ready"}
    BY <1>7, <1>a DEF RetireTask
  <2> QED BY <2>1, <2>2 DEF ReadyQueueExact
<1>8. CASE Call
  BY <1>8, <1>a, CallsLeaveScheduling DEF ReadyQueueExact
<1>9. CASE UNCHANGED vars
  BY <1>9, <1>a DEF vars, storeVars, ReadyQueueExact
<1> HIDE DEF Scheduling, TypeOK, States
<1> QED BY <1>1, <1>2, <1>3, <1>4, <1>5, <1>6, <1>7, <1>8, <1>9 DEF Next, Schedule

\* Retired tasks stay retired: their stacks are empty and their ids below the
\* next id.
LEMMA StepRetiredForever == Scheduling /\ [Next]_vars => RetiredForever'
<1> SUFFICES ASSUME Scheduling, [Next]_vars PROVE RetiredForever'
  OBVIOUS
<1>0. Tasks \subseteq Nat /\ NoTask \notin Tasks
  BY TasksAreNat
<1> USE DEF Scheduling, TypeOK, RetiredForever, Registered, States
<1>1. CASE CreateTask
  BY <1>0, <1>1 DEF CreateTask
<1>2. ASSUME NEW t \in Tasks, NEW isa \in Isas, BindTaskEntryIsa(t, isa)
      PROVE  RetiredForever'
  BY <1>2 DEF BindTaskEntryIsa
<1>3. ASSUME NEW t \in Tasks, SwitchToTask(t) PROVE RetiredForever'
  BY <1>3 DEF SwitchToTask, MaySwitchTo, SingleRunner
<1>4. ASSUME NEW t \in Tasks, NEW s \in States, SetSchedulingState(t, s)
      PROVE  RetiredForever'
  BY <1>4 DEF SetSchedulingState
<1>5. ASSUME NEW t \in Tasks, NEW s \in States, NEW suggested \in Tasks \cup {NoTask},
             NEW e \in BOOLEAN, ChangeThreadState(t, s, suggested, e)
      PROVE  RetiredForever'
  <2> DEFINE next == IF t = currentTask /\ s # "Running"
                     THEN Candidate(suggested, t) ELSE NoTask
  <2>1. next # NoTask => next \in Tasks /\ taskStates[next] = "Ready"
    BY CandidateEligible DEF Eligible
  <2>2. \A u \in Tasks : taskStates'[u] = "Absent" <=> taskStates[u] = "Absent"
    <3>1. CASE next = NoTask
      BY <1>5, <3>1 DEF ChangeThreadState
    <3>2. CASE next # NoTask
      BY <1>5, <2>1, <3>2 DEF ChangeThreadState
    <3> QED BY <3>1, <3>2
  <2>3. UNCHANGED <<stacks, retiredTasks, nextTaskId>>
    BY <1>5 DEF ChangeThreadState
  <2> QED BY <2>2, <2>3
<1>6. CASE BeginCritical \/ EndCritical
  BY <1>6 DEF BeginCritical, EndCritical
<1>7. ASSUME NEW t \in Tasks, NEW successor \in Tasks \cup {NoTask}, RetireTask(t, successor)
      PROVE  RetiredForever'
  BY <1>0, <1>7 DEF RetireTask
<1>8. CASE Call
  <2>1. UNCHANGED <<taskStates, retiredTasks, nextTaskId>>
    BY <1>8, CallsLeaveScheduling
  <2>2. \A u \in Tasks \ Registered : stacks'[u] = stacks[u]
    BY <1>8, CallsOfRegisteredOnly
  <2> QED BY <2>1, <2>2
<1>9. CASE UNCHANGED vars
  BY <1>9 DEF vars, storeVars
<1> HIDE DEF Scheduling, TypeOK, RetiredForever, Registered, States
<1> QED BY <1>1, <1>2, <1>3, <1>4, <1>5, <1>6, <1>7, <1>8, <1>9 DEF Next, Schedule

\* Every operation preserves the scheduler's invariant.
LEMMA StepScheduling == Scheduling /\ [Next]_vars => Scheduling'
BY StepTypeOK, StepSingleRunner, StepReadyQueueExact, StepRetiredForever DEF Scheduling

\* The scheduler's invariant holds in every reachable state.
LEMMA SchedulingHolds == Spec => []Scheduling
BY StepScheduling, InitScheduling, PTL DEF Spec

\* One CPU owner: the cursor names a registered task and no other task is Running,
\* whatever sequence of yields, state changes and retirements the guest makes.
THEOREM OneRunner == Spec => []SingleRunner
<1>1. Scheduling => SingleRunner
  BY DEF Scheduling
<1> QED BY <1>1, SchedulingHolds, PTL

\* The ready queue is exactly the set of Ready tasks (StoreState::ready against
\* StoreState::task_states).
THEOREM QueueIsReadySet == Spec => []ReadyQueueExact
<1>1. Scheduling => ReadyQueueExact
  BY DEF Scheduling
<1> QED BY <1>1, SchedulingHolds, PTL

\* A retired task leaves no call behind and its id is not reused (retire_task_with
\* against create_task_with).
THEOREM RetirementIsFinal == Spec => []RetiredForever
<1>1. Scheduling => RetiredForever
  BY DEF Scheduling
<1> QED BY <1>1, SchedulingHolds, PTL

\* The cursor moves only outside critical sections, and only to a task that waited
\* in the queue (switch_to_task, change_thread_state_with, retire_task_with).
THEOREM CriticalSectionsPin == Spec => SwitchOutsideCritical
<1>1. ASSUME Scheduling, [Next]_vars, currentTask' # currentTask
      PROVE  criticalDepth' = 0 /\ currentTask' \in Entries(ready)
  <2> USE DEF Scheduling, TypeOK
  <2>0. \A t \in Tasks : taskStates[t] = "Ready" => t \in Entries(ready)
    BY <1>1 DEF ReadyQueueExact
  <2>1. ASSUME NEW t \in Tasks, SwitchToTask(t) PROVE criticalDepth' = 0 /\ currentTask' \in Entries(ready)
    BY <1>1, <2>0, <2>1 DEF SwitchToTask, MaySwitchTo
  <2>2. ASSUME NEW t \in Tasks, NEW s \in States, NEW suggested \in Tasks \cup {NoTask},
               NEW e \in BOOLEAN, ChangeThreadState(t, s, suggested, e)
        PROVE  criticalDepth' = 0 /\ currentTask' \in Entries(ready)
    <3> DEFINE next == IF t = currentTask /\ s # "Running"
                       THEN Candidate(suggested, t) ELSE NoTask
    <3>1. next # NoTask => next \in Tasks /\ taskStates[next] = "Ready"
      BY <1>1, CandidateEligible DEF Eligible
    <3>2. /\ next # NoTask
          /\ currentTask' = next
          /\ criticalDepth' = 0
      BY <1>1, <2>2 DEF ChangeThreadState
    <3> HIDE DEF next
    <3> QED BY <2>0, <3>1, <3>2
  <2>3. ASSUME NEW t \in Tasks, NEW successor \in Tasks \cup {NoTask}, RetireTask(t, successor)
        PROVE  criticalDepth' = 0 /\ currentTask' \in Entries(ready)
    BY <1>1, <2>0, <2>3, TasksAreNat DEF RetireTask, Registered
  <2>4. ASSUME NEW t \in Tasks, NEW s \in States, SetSchedulingState(t, s) PROVE FALSE
    BY <1>1, <2>4 DEF SetSchedulingState
  <2>5. ASSUME NEW t \in Tasks, NEW isa \in Isas, BindTaskEntryIsa(t, isa) PROVE FALSE
    BY <1>1, <2>5 DEF BindTaskEntryIsa
  <2>6. ~(CreateTask \/ BeginCritical \/ EndCritical \/ Call \/ UNCHANGED vars)
    BY <1>1, CallsLeaveScheduling DEF CreateTask, BeginCritical, EndCritical, vars, storeVars
  <2> HIDE DEF Scheduling, TypeOK
  <2> QED BY <1>1, <2>1, <2>2, <2>3, <2>4, <2>5, <2>6 DEF Next, Schedule
<1>2. Scheduling /\ [Next]_vars
        => [currentTask' # currentTask
              => criticalDepth' = 0 /\ currentTask' \in Entries(ready)]_vars
  BY <1>1
<1> QED BY <1>2, SchedulingHolds, PTL DEF Spec, SwitchOutsideCritical

---------------------------------------------------------------------------
(* Calls: identity, and custody of the engines parked under them *)

\* What the two rewrites of a stack do to the ids on it: changing the newest call's
\* phase keeps every id; removing it keeps the ids below.
LEMMA StackIds ==
  ASSUME TypeOK, CallIdentity, NEW t \in Tasks, stacks[t] # << >>
  PROVE  LET n == Len(stacks[t]) IN
         /\ n \in Nat \ {0} /\ DOMAIN stacks[t] = 1..n
         /\ \A phase \in Phases :
              /\ DOMAIN WithTopPhase(t, phase)[t] = 1..n
              /\ \A i \in 1..n : WithTopPhase(t, phase)[t][i].id = stacks[t][i].id
         /\ DOMAIN WithoutTop(t)[t] = 1..(n - 1)
         /\ \A i \in 1..(n - 1) : WithoutTop(t)[t][i] = stacks[t][i]
         /\ \A i \in 1..(n - 1) : stacks[t][i].id # Top(t).id
<1> DEFINE n == Len(stacks[t])
<1>1. /\ stacks[t] \in Seq(Frames)
      /\ n \in Nat \ {0}
      /\ DOMAIN stacks[t] = 1..n
      /\ n \in 1..n
  BY DEF TypeOK
<1>2. ASSUME NEW phase \in Phases
      PROVE  /\ DOMAIN WithTopPhase(t, phase)[t] = 1..n
             /\ \A i \in 1..n : WithTopPhase(t, phase)[t][i].id = stacks[t][i].id
  <2>1. WithTopPhase(t, phase)[t]
          = [stacks[t] EXCEPT ![n] = [stacks[t][n] EXCEPT !.phase = phase]]
    BY DEF WithTopPhase, TypeOK
  <2>2. stacks[t][n] \in Frames
    BY <1>1
  <2>3. [stacks[t][n] EXCEPT !.phase = phase].id = stacks[t][n].id
    BY <2>2 DEF Frames
  <2> QED BY <1>1, <2>1, <2>3
<1>3. WithoutTop(t)[t] = SubSeq(stacks[t], 1, n - 1)
  BY DEF WithoutTop, TypeOK
<1>4. /\ DOMAIN WithoutTop(t)[t] = 1..(n - 1)
      /\ \A i \in 1..(n - 1) : WithoutTop(t)[t][i] = stacks[t][i]
  BY <1>1, <1>3
<1>5. ASSUME NEW i \in 1..(n - 1) PROVE stacks[t][i].id # Top(t).id
  <2>1. stacks[t][i].id < stacks[t][n].id
    BY <1>1 DEF CallIdentity
  <2>2. stacks[t][i] \in Frames
    BY <1>1
  <2> QED BY <2>1, <2>2 DEF Top, Frames, CallIds
<1> QED BY <1>1, <1>2, <1>4, <1>5

\* Ids grow from the oldest call of a stack to the newest.
Ordered(s) == \A i, j \in DOMAIN s : i < j => s[i].id < s[j].id

\* Writing the newest call's phase changes no identity.
LEMMA PhaseChange ==
  ASSUME TypeOK, CallIdentity, NEW t \in Tasks, stacks[t] # << >>, NEW phase \in Phases,
         stacks' = WithTopPhase(t, phase)
  PROVE  \A u \in Tasks : CallsOf(u)' = CallsOf(u) /\ Ordered(stacks'[u])
<1>1. /\ DOMAIN stacks'[t] = DOMAIN stacks[t]
      /\ \A i \in DOMAIN stacks[t] : stacks'[t][i].id = stacks[t][i].id
  BY StackIds
<1>2. \A u \in Tasks \ {t} : stacks'[u] = stacks[u]
  BY DEF WithTopPhase, TypeOK
<1>3. \A u \in Tasks : Ordered(stacks[u])
  BY DEF CallIdentity, Ordered
<1>4. CallsOf(t)' = CallsOf(t) /\ Ordered(stacks'[t])
  BY <1>1, <1>3 DEF CallsOf, Ordered
<1>5. \A u \in Tasks \ {t} : CallsOf(u)' = CallsOf(u) /\ Ordered(stacks'[u])
  BY <1>2, <1>3 DEF CallsOf
<1> QED BY <1>4, <1>5

\* Removing the newest call removes exactly its id.
LEMMA Removal ==
  ASSUME TypeOK, CallIdentity, NEW t \in Tasks, stacks[t] # << >>, stacks' = WithoutTop(t)
  PROVE  /\ CallsOf(t)' = CallsOf(t) \ {Top(t).id}
         /\ \A u \in Tasks \ {t} : CallsOf(u)' = CallsOf(u)
         /\ \A u \in Tasks : Ordered(stacks'[u])
<1> DEFINE n == Len(stacks[t])
<1>1. /\ n \in Nat \ {0}
      /\ DOMAIN stacks[t] = 1..n
      /\ DOMAIN stacks'[t] = 1..(n - 1)
      /\ \A i \in 1..(n - 1) : stacks'[t][i] = stacks[t][i]
      /\ \A i \in 1..(n - 1) : stacks[t][i].id # Top(t).id
  BY StackIds
<1>2. \A u \in Tasks \ {t} : stacks'[u] = stacks[u]
  BY DEF WithoutTop, TypeOK
<1>3. \A u \in Tasks : Ordered(stacks[u])
  BY DEF CallIdentity, Ordered
<1>4. Top(t) = stacks[t][n]
  BY DEF Top
<1> HIDE DEF n
<1>5. CallsOf(t) = {stacks[t][i].id : i \in 1..(n - 1)} \cup {Top(t).id}
  <2>1. 1..n = 1..(n - 1) \cup {n}
    BY <1>1
  <2> QED BY <1>1, <1>4, <2>1 DEF CallsOf
<1>6. CallsOf(t)' = {stacks[t][i].id : i \in 1..(n - 1)}
  BY <1>1 DEF CallsOf
<1>7. CallsOf(t)' = CallsOf(t) \ {Top(t).id}
  BY <1>1, <1>5, <1>6
<1>8. Ordered(stacks'[t])
  <2>1. 1..(n - 1) \subseteq 1..n
    BY <1>1
  <2> QED BY <1>1, <1>3, <2>1 DEF Ordered
<1>9. \A u \in Tasks \ {t} : CallsOf(u)' = CallsOf(u) /\ Ordered(stacks'[u])
  BY <1>2, <1>3 DEF CallsOf
<1> QED BY <1>7, <1>8, <1>9

\* A new call gets the next id, above every id on its stack.
LEMMA Pushed ==
  ASSUME TypeOK, CallIdentity, NEW t \in Tasks, NEW phase \in Phases,
         stacks' = [stacks EXCEPT ![t] = Append(@, [id |-> nextCallId, phase |-> phase])]
  PROVE  /\ CallsOf(t)' = CallsOf(t) \cup {nextCallId}
         /\ \A u \in Tasks \ {t} : CallsOf(u)' = CallsOf(u)
         /\ \A u \in Tasks : Ordered(stacks'[u])
<1> DEFINE n   == Len(stacks[t])
           new == [id |-> nextCallId, phase |-> phase]
<1>1. stacks'[t] = Append(stacks[t], new) /\ \A u \in Tasks \ {t} : stacks'[u] = stacks[u]
  BY DEF TypeOK
<1>2. new \in Frames /\ stacks[t] \in Seq(Frames)
  BY DEF TypeOK, Frames
<1>3. /\ n \in Nat
      /\ DOMAIN stacks[t] = 1..n
      /\ DOMAIN stacks'[t] = 1..(n + 1)
      /\ \A i \in 1..n : stacks'[t][i] = stacks[t][i]
      /\ stacks'[t][n + 1] = new
  BY <1>1, <1>2
<1>4. \A u \in Tasks : Ordered(stacks[u])
  BY DEF CallIdentity, Ordered
<1>5. \A i \in 1..n : stacks[t][i].id < nextCallId
  BY <1>3 DEF CallIdentity, CallsOf
<1>6. new.id = nextCallId
  OBVIOUS
<1> HIDE DEF n, new
<1>7. CallsOf(t)' = CallsOf(t) \cup {nextCallId}
  <2>1. 1..(n + 1) = 1..n \cup {n + 1}
    BY <1>3
  <2>2. CallsOf(t)' = {stacks'[t][i].id : i \in 1..n} \cup {stacks'[t][n + 1].id}
    BY <1>3, <2>1 DEF CallsOf
  <2>3. {stacks'[t][i].id : i \in 1..n} = CallsOf(t)
    BY <1>3 DEF CallsOf
  <2> QED BY <1>3, <1>6, <2>2, <2>3
<1>8. Ordered(stacks'[t])
  <2> SUFFICES ASSUME NEW i \in 1..(n + 1), NEW j \in 1..(n + 1), i < j
               PROVE  stacks'[t][i].id < stacks'[t][j].id
    BY <1>3 DEF Ordered
  <2>1. i \in 1..n
    BY <1>3
  <2>2. CASE j = n + 1
    BY <1>3, <1>5, <1>6, <2>1, <2>2
  <2>3. CASE j \in 1..n
    BY <1>3, <1>4, <2>1, <2>3 DEF Ordered
  <2> QED BY <1>3, <2>2, <2>3
<1>9. \A u \in Tasks \ {t} : CallsOf(u)' = CallsOf(u) /\ Ordered(stacks'[u])
  BY <1>1, <1>4 DEF CallsOf
<1> QED BY <1>7, <1>8, <1>9

\* What a submission adds.
LEMMA Submission ==
  ASSUME TypeOK, CallIdentity, NEW t \in Tasks, Submit(t)
  PROVE  /\ CallsOf(t)' = CallsOf(t) \cup {nextCallId}
         /\ \A u \in Tasks \ {t} : CallsOf(u)' = CallsOf(u)
         /\ \A u \in Tasks : Ordered(stacks'[u])
BY Pushed DEF Submit, Phases

\* The kernel's whole inductive invariant.
Custody == Scheduling /\ CallIdentity /\ ContextCustody

\* Scheduling operations neither add nor remove a call or a parked engine.
LEMMA ScheduleLeavesCalls ==
  ASSUME Scheduling, Schedule \/ UNCHANGED vars
  PROVE  UNCHANGED <<stacks, nextCallId, attachedContexts, powerpcContexts, m68kContexts>>
<1>1. ASSUME CreateTask PROVE stacks' = stacks
  BY <1>1 DEF CreateTask, Scheduling, TypeOK, RetiredForever
<1>2. ASSUME NEW t \in Tasks, NEW successor, RetireTask(t, successor) PROVE stacks' = stacks
  BY <1>2 DEF RetireTask, Scheduling, TypeOK
<1>3. stacks' = stacks
  BY <1>1, <1>2 DEF Schedule, BindTaskEntryIsa, SwitchToTask, MaySwitchTo,
                    SetSchedulingState, ChangeThreadState, BeginCritical, EndCritical,
                    vars, storeVars
<1>4. UNCHANGED <<nextCallId, attachedContexts, powerpcContexts, m68kContexts>>
  BY DEF Schedule, CreateTask, RetireTask, BindTaskEntryIsa, SwitchToTask, MaySwitchTo,
         SetSchedulingState, ChangeThreadState, BeginCritical, EndCritical, vars,
         storeVars, bankVars
<1> QED BY <1>3, <1>4

\* The calls' identities survive a step that keeps every id in place.
LEMMA IdentityKept ==
  ASSUME CallIdentity, nextCallId' = nextCallId,
         \A u \in Tasks : CallsOf(u)' \subseteq CallsOf(u) /\ Ordered(stacks'[u])
  PROVE  CallIdentity'
<1>1. \A u \in Tasks : \A c \in CallsOf(u)' : c < nextCallId'
  BY DEF CallIdentity
<1>2. \A u, v \in Tasks : u # v => CallsOf(u)' \cap CallsOf(v)' = {}
  BY DEF CallIdentity
<1> QED BY <1>1, <1>2 DEF CallIdentity, Ordered

\* A new call leaves every call ordered, owned by one task and below the next id.
LEMMA PushKeepsIdentity ==
  ASSUME TypeOK, CallIdentity, NEW t \in Tasks, NEW phase \in Phases,
         stacks' = [stacks EXCEPT ![t] = Append(@, [id |-> nextCallId, phase |-> phase])],
         nextCallId' = nextCallId + 1
  PROVE  CallIdentity'
<1>1. nextCallId \in Nat
  BY DEF TypeOK, CallIds
<1>2. \A u \in Tasks : \A c \in CallsOf(u) : c \in Nat /\ c < nextCallId
  <2>1. \A u \in Tasks : CallsOf(u) \subseteq Nat
    <3> SUFFICES ASSUME NEW u \in Tasks, NEW i \in DOMAIN stacks[u]
                 PROVE  stacks[u][i].id \in Nat
      BY DEF CallsOf
    <3>1. stacks[u][i] \in Frames
      BY DEF TypeOK
    <3> QED BY <3>1 DEF Frames, CallIds
  <2> QED BY <2>1 DEF CallIdentity
<1>3. /\ CallsOf(t)' = CallsOf(t) \cup {nextCallId}
      /\ \A u \in Tasks \ {t} : CallsOf(u)' = CallsOf(u)
      /\ \A u \in Tasks : Ordered(stacks'[u])
  BY Pushed
<1>4. \A u \in Tasks : \A c \in CallsOf(u)' : c < nextCallId'
  BY <1>1, <1>2, <1>3
<1>5. \A u, v \in Tasks : u # v => CallsOf(u)' \cap CallsOf(v)' = {}
  BY <1>1, <1>2, <1>3 DEF CallIdentity
<1>6. \A u \in Tasks : \A i, j \in DOMAIN stacks'[u] :
        i < j => stacks'[u][i].id < stacks'[u][j].id
  BY <1>3 DEF Ordered
<1> QED BY <1>4, <1>5, <1>6 DEF CallIdentity

\* Every operation keeps calls ordered, owned by one task and below the next id.
LEMMA StepCallIdentity == Scheduling /\ CallIdentity /\ [Next]_vars => CallIdentity'
<1> SUFFICES ASSUME Scheduling, CallIdentity, [Next]_vars PROVE CallIdentity'
  OBVIOUS
<1> USE DEF Scheduling
<1>1. CASE Schedule \/ UNCHANGED vars
  <2>1. stacks' = stacks /\ nextCallId' = nextCallId
    BY <1>1, ScheduleLeavesCalls
  <2>2. \A u \in Tasks : CallsOf(u)' = CallsOf(u) /\ Ordered(stacks'[u])
    <3>1. \A u \in Tasks : CallsOf(u)' = CallsOf(u)
      BY <2>1 DEF CallsOf
    <3>2. \A u \in Tasks : Ordered(stacks[u])
      BY DEF CallIdentity, Ordered
    <3> QED BY <2>1, <3>1, <3>2
  <2> QED BY <2>1, <2>2, IdentityKept
<1>2. ASSUME NEW t \in Tasks, Submit(t) PROVE CallIdentity'
  BY <1>2, PushKeepsIdentity DEF Submit, Phases
<1>3. ASSUME NEW t \in Tasks, NEW c, NEW p, NEW phase \in Phases, ValidTransition(t, c, p),
             stacks' = WithTopPhase(t, phase), nextCallId' = nextCallId
      PROVE  CallIdentity'
  BY <1>3, PhaseChange, IdentityKept DEF ValidTransition
<1>4. ASSUME NEW t \in Tasks, NEW c, NEW p, ValidTransition(t, c, p),
             stacks' = WithoutTop(t), nextCallId' = nextCallId
      PROVE  CallIdentity'
  BY <1>4, Removal, IdentityKept DEF ValidTransition
<1>5. ASSUME NEW t \in Tasks, NEW c \in CallIds, Activate(t, c) PROVE CallIdentity'
  BY <1>3, <1>5 DEF Activate, Phases
<1>6. ASSUME NEW t \in Tasks, NEW c \in CallIds, Complete(t, c) PROVE CallIdentity'
  BY <1>3, <1>6 DEF Complete, Phases
<1>7. ASSUME NEW t \in Tasks, NEW c \in CallIds, NEW p \in Phases, RemoveCall(t, c, p)
      PROVE  CallIdentity'
  BY <1>4, <1>7 DEF RemoveCall
<1>8. ASSUME NEW t \in Tasks, NEW c \in CallIds, ParkPairWhileActivating(t, c)
      PROVE  CallIdentity'
  BY <1>3, <1>8 DEF ParkPairWhileActivating, MayParkPair, Phases
<1>9. ASSUME NEW t \in Tasks, NEW c \in CallIds, TakeWhileCompleting(t, c)
      PROVE  CallIdentity'
  BY <1>3, <1>9 DEF TakeWhileCompleting, Phases
<1>10. ASSUME NEW t \in Tasks, NEW c \in CallIds, RetireWithContext(t, c)
       PROVE  CallIdentity'
  BY <1>4, <1>10 DEF RetireWithContext, MayRetire
<1>11. ASSUME NEW t \in Tasks, NEW c \in CallIds, NEW caller \in CallIds \cup {0},
              ActivateParkingCaller(t, c, caller)
       PROVE  CallIdentity'
  BY <1>3, <1>11 DEF ActivateParkingCaller, MayParkCaller, Phases
<1> HIDE DEF Scheduling
<1>12. CASE Call
  BY <1>2, <1>5, <1>6, <1>7, <1>8, <1>9, <1>10, <1>11, <1>12 DEF Call
<1> QED BY <1>1, <1>12 DEF Next

\* A bank holds an engine for a live call only in the slot of the call's own task.
LEMMA OwnSlotOnly ==
  ASSUME CallIdentity, ContextCustody, NEW t \in Tasks, NEW c \in CallsOf(t)
  PROVE  \A u \in Tasks : <<u, c>> \in powerpcContexts \cup m68kContexts => u = t
BY DEF CallIdentity, ContextCustody

\* The count of a call in the banks, with the banks as they stand after a step.
LEMMA ParkedByOwner ==
  ASSUME CallIdentity, ContextCustody, NEW t \in Tasks, NEW c \in CallsOf(t)
  PROVE  Parked(c) = (IF <<t, c>> \in powerpcContexts THEN 1 ELSE 0)
                   + (IF <<t, c>> \in m68kContexts THEN 1 ELSE 0)
BY OwnSlotOnly DEF Parked

\* The newest call of a stack is one of its calls.
LEMMA TopIsCall ==
  ASSUME TypeOK, NEW t \in Tasks, NEW c, NEW p, ValidTransition(t, c, p)
  PROVE  c \in CallsOf(t) /\ c \in CallIds /\ c = Top(t).id /\ stacks[t] # << >>
<1>1. stacks[t] \in Seq(Frames) /\ stacks[t] # << >>
  BY DEF ValidTransition, TypeOK
<1>2. Len(stacks[t]) \in DOMAIN stacks[t]
  BY <1>1
<1>3. stacks[t][Len(stacks[t])].id = c /\ c = Top(t).id
  BY DEF ValidTransition, Top
<1>4. stacks[t][Len(stacks[t])] \in Frames
  BY <1>1, <1>2
<1>5. c \in CallsOf(t)
  BY <1>2, <1>3 DEF CallsOf
<1> QED BY <1>1, <1>3, <1>4, <1>5 DEF Frames

\* What a change of the banks owes to custody: the ids on the stacks stand, and the
\* counts move with the slots of one task.
LEMMA CustodyMoved ==
  ASSUME TypeOK, CallIdentity, ContextCustody, NEW t \in Tasks,
         \A u \in Tasks : CallsOf(u)' = CallsOf(u),
         NEW C, C \subseteq CallsOf(t) \cap CallIds,
         \A c \in CallIds \ C : attachedContexts'[c] = attachedContexts[c],
         \A u \in Tasks : \A c : ~(u = t /\ c \in C) =>
           /\ <<u, c>> \in powerpcContexts' <=> <<u, c>> \in powerpcContexts
           /\ <<u, c>> \in m68kContexts' <=> <<u, c>> \in m68kContexts,
         \A c \in C : attachedContexts'[c] =
             (IF <<t, c>> \in powerpcContexts' THEN 1 ELSE 0)
           + (IF <<t, c>> \in m68kContexts' THEN 1 ELSE 0),
         powerpcContexts' \subseteq Slots, m68kContexts' \subseteq Slots
  PROVE  ContextCustody'
<1>1. ASSUME NEW c \in C
      PROVE  Parked(c)' = (IF <<t, c>> \in powerpcContexts' THEN 1 ELSE 0)
                        + (IF <<t, c>> \in m68kContexts' THEN 1 ELSE 0)
  <2>1. \A u \in Tasks : u # t => <<u, c>> \notin powerpcContexts \cup m68kContexts
    BY OwnSlotOnly
  <2> QED BY <2>1 DEF Parked
<1>2. ASSUME NEW c \in CallIds \ C PROVE Parked(c)' = Parked(c)
  BY DEF Parked
<1>3. \A c \in CallIds : attachedContexts'[c] = Parked(c)'
  BY <1>1, <1>2 DEF ContextCustody
<1>4. ASSUME NEW slot \in powerpcContexts' \cup m68kContexts'
      PROVE  slot[2] \in CallsOf(slot[1])'
  <2>1. slot = <<slot[1], slot[2]>> /\ slot[1] \in Tasks
    BY DEF Slots
  <2>2. CASE slot[1] = t /\ slot[2] \in C
    BY <2>2
  <2>3. CASE ~(slot[1] = t /\ slot[2] \in C)
    <3>1. slot \in powerpcContexts \cup m68kContexts
      BY <1>4, <2>1, <2>3
    <3> QED BY <2>1, <3>1 DEF ContextCustody
  <2> QED BY <2>2, <2>3
<1> QED BY <1>3, <1>4 DEF ContextCustody

\* Removing a call that holds no engine any more strands none.
LEMMA CustodyOfRemoval ==
  ASSUME TypeOK, CallIdentity, ContextCustody, NEW t \in Tasks, NEW c, NEW p,
         ValidTransition(t, c, p), stacks' = WithoutTop(t),
         attachedContexts' = [attachedContexts EXCEPT ![c] = 0],
         <<t, c>> \notin powerpcContexts,
         powerpcContexts' = powerpcContexts, m68kContexts' = m68kContexts \ {<<t, c>>}
  PROVE  ContextCustody'
<1>1. c \in CallsOf(t) /\ c \in CallIds /\ c = Top(t).id /\ stacks[t] # << >>
  BY TopIsCall
<1>2. /\ CallsOf(t)' = CallsOf(t) \ {c}
      /\ \A u \in Tasks \ {t} : CallsOf(u)' = CallsOf(u)
  BY <1>1, Removal
<1>3. \A u \in Tasks : <<u, c>> \notin powerpcContexts' \cup m68kContexts'
  <2>1. \A u \in Tasks : <<u, c>> \in powerpcContexts \cup m68kContexts => u = t
    BY <1>1, OwnSlotOnly
  <2> QED BY <2>1
<1>4. Parked(c)' = 0
  <2>1. ~\E u \in Tasks : <<u, c>> \in powerpcContexts'
    BY <1>3
  <2>2. ~\E u \in Tasks : <<u, c>> \in m68kContexts'
    BY <1>3
  <2> QED BY <2>1, <2>2 DEF Parked
<1>5. \A d \in CallIds \ {c} : Parked(d)' = Parked(d)
  BY DEF Parked
<1>6. \A d \in CallIds : attachedContexts'[d] = Parked(d)'
  <2> SUFFICES ASSUME NEW d \in CallIds PROVE attachedContexts'[d] = Parked(d)'
    OBVIOUS
  <2>1. attachedContexts'[d] = IF d = c THEN 0 ELSE attachedContexts[d]
    BY DEF TypeOK
  <2>2. attachedContexts[d] = Parked(d)
    BY DEF ContextCustody
  <2> HIDE DEF TypeOK
  <2> QED BY <1>4, <1>5, <2>1, <2>2
<1>7. ASSUME NEW slot \in powerpcContexts' \cup m68kContexts'
      PROVE  slot[2] \in CallsOf(slot[1])'
  <2>1. slot = <<slot[1], slot[2]>> /\ slot[1] \in Tasks
    BY DEF Slots, TypeOK
  <2>2. slot[2] # c /\ slot[2] \in CallsOf(slot[1])
    BY <1>3, <2>1 DEF ContextCustody
  <2> QED BY <1>2, <2>1, <2>2
<1> QED BY <1>6, <1>7 DEF ContextCustody

\* Every operation keeps the books on parked engines.
LEMMA StepContextCustody == Custody /\ [Next]_vars => ContextCustody'
<1> SUFFICES ASSUME Custody, [Next]_vars PROVE ContextCustody'
  OBVIOUS
<1>0. TypeOK /\ Scheduling /\ CallIdentity /\ ContextCustody /\ TypeOK'
  BY StepTypeOK DEF Custody, Scheduling
<1>a. powerpcContexts' \subseteq Slots /\ m68kContexts' \subseteq Slots
  BY <1>0 DEF TypeOK
<1>1. CASE Schedule \/ UNCHANGED vars
  <2>1. UNCHANGED <<stacks, attachedContexts, powerpcContexts, m68kContexts>>
    BY <1>0, <1>1, ScheduleLeavesCalls
  <2>2. \A u : CallsOf(u)' = CallsOf(u)
    BY <2>1 DEF CallsOf
  <2>3. \A c : Parked(c)' = Parked(c)
    BY <2>1 DEF Parked
  <2> QED BY <1>0, <2>1, <2>2, <2>3 DEF ContextCustody
<1>2. ASSUME NEW t \in Tasks, Submit(t) PROVE ContextCustody'
  <2>1. \A u \in Tasks : CallsOf(u) \subseteq CallsOf(u)'
    BY <1>0, <1>2, Submission
  <2>2. UNCHANGED <<attachedContexts, powerpcContexts, m68kContexts>>
    BY <1>2 DEF Submit, bankVars
  <2>3. \A c : Parked(c)' = Parked(c)
    BY <2>2 DEF Parked
  <2>4. \A slot \in powerpcContexts \cup m68kContexts : slot[1] \in Tasks
    BY <1>0 DEF TypeOK, Slots
  <2> QED BY <1>0, <2>1, <2>2, <2>3, <2>4 DEF ContextCustody
<1>3. ASSUME NEW t \in Tasks, NEW c, NEW p, NEW phase \in Phases, ValidTransition(t, c, p),
             stacks' = WithTopPhase(t, phase)
      PROVE  /\ c \in CallsOf(t) /\ c \in CallIds
             /\ \A u \in Tasks : CallsOf(u)' = CallsOf(u)
  BY <1>0, <1>3, TopIsCall, PhaseChange
<1>4. ASSUME NEW t \in Tasks, NEW c \in CallIds, Activate(t, c) \/ Complete(t, c)
      PROVE  ContextCustody'
  <2>1. PICK p, phase \in Phases : ValidTransition(t, c, p) /\ stacks' = WithTopPhase(t, phase)
    BY <1>4 DEF Activate, Complete, Phases
  <2>2. \A u \in Tasks : CallsOf(u)' = CallsOf(u)
    BY <1>3, <2>1
  <2>3. UNCHANGED <<attachedContexts, powerpcContexts, m68kContexts>>
    BY <1>4 DEF Activate, Complete, bankVars
  <2>4. \A d : Parked(d)' = Parked(d)
    BY <2>3 DEF Parked
  <2>5. \A slot \in powerpcContexts \cup m68kContexts : slot[1] \in Tasks
    BY <1>0 DEF TypeOK, Slots
  <2> QED BY <1>0, <2>2, <2>3, <2>4, <2>5 DEF ContextCustody
<1>5. ASSUME NEW t \in Tasks, NEW c \in CallIds, NEW p \in Phases, RemoveCall(t, c, p)
      PROVE  ContextCustody'
  <2>1. ValidTransition(t, c, p) /\ stacks' = WithoutTop(t)
    BY <1>5 DEF RemoveCall
  <2>2. <<t, c>> \notin powerpcContexts \cup m68kContexts
    <3>1. attachedContexts[c] = 0 /\ Parked(c) = 0
      BY <1>0, <1>5 DEF RemoveCall, ContextCustody
    <3>2. ~\E u \in Tasks : <<u, c>> \in powerpcContexts
      BY <3>1 DEF Parked
    <3>3. ~\E u \in Tasks : <<u, c>> \in m68kContexts
      BY <3>1 DEF Parked
    <3> QED BY <3>2, <3>3
  <2>3. UNCHANGED <<attachedContexts, powerpcContexts, m68kContexts>> /\ attachedContexts[c] = 0
    BY <1>5 DEF RemoveCall, bankVars
  <2>4. attachedContexts' = [attachedContexts EXCEPT ![c] = 0]
    BY <1>0, <2>3 DEF TypeOK
  <2>5. m68kContexts' = m68kContexts \ {<<t, c>>}
    BY <2>2, <2>3
  <2> QED BY <1>0, <2>1, <2>2, <2>3, <2>4, <2>5, CustodyOfRemoval
<1>6. ASSUME NEW t \in Tasks, NEW c \in CallIds, RetireWithContext(t, c)
      PROVE  ContextCustody'
  <2>1. ValidTransition(t, c, "Completed") /\ stacks' = WithoutTop(t)
    BY <1>6 DEF RetireWithContext, MayRetire
  <2>2. c \in CallsOf(t)
    BY <1>0, <2>1, TopIsCall
  <2>3. <<t, c>> \notin powerpcContexts
    <3>1. attachedContexts[c] = IF <<t, c>> \in m68kContexts THEN 1 ELSE 0
      BY <1>6 DEF RetireWithContext, MayRetire
    <3>2. attachedContexts[c] = Parked(c)
      BY <1>0 DEF ContextCustody
    <3>3. Parked(c) = (IF <<t, c>> \in powerpcContexts THEN 1 ELSE 0)
                    + (IF <<t, c>> \in m68kContexts THEN 1 ELSE 0)
      BY <1>0, <2>2, ParkedByOwner
    <3> QED BY <3>1, <3>2, <3>3
  <2>4. /\ attachedContexts' = [attachedContexts EXCEPT ![c] = 0]
        /\ powerpcContexts' = powerpcContexts
        /\ m68kContexts' = m68kContexts \ {<<t, c>>}
    BY <1>6 DEF RetireWithContext, MayRetire
  <2> QED BY <1>0, <2>1, <2>3, <2>4, CustodyOfRemoval
<1>7. ASSUME NEW t \in Tasks, NEW c \in CallIds, ParkPairWhileActivating(t, c)
      PROVE  ContextCustody'
  <2>1. /\ ValidTransition(t, c, "Pending")
        /\ stacks' = WithTopPhase(t, "Active")
        /\ <<t, c>> \notin powerpcContexts \cup m68kContexts
        /\ attachedContexts' = [attachedContexts EXCEPT ![c] = @ + 2]
        /\ powerpcContexts' = powerpcContexts \cup {<<t, c>>}
        /\ m68kContexts' = m68kContexts \cup {<<t, c>>}
    BY <1>7 DEF ParkPairWhileActivating, MayParkPair
  <2>2. c \in CallsOf(t) /\ \A u \in Tasks : CallsOf(u)' = CallsOf(u)
    BY <1>3, <2>1 DEF Phases
  <2>3. attachedContexts[c] = 0
    BY <1>0, <2>1, <2>2, ParkedByOwner DEF ContextCustody
  <2>4. /\ \A d \in CallIds \ {c} : attachedContexts'[d] = attachedContexts[d]
        /\ attachedContexts'[c] = 2
    BY <1>0, <2>1, <2>3 DEF TypeOK
  <2> DEFINE C == {c}
  <2>5. \A d \in C : attachedContexts'[d] = (IF <<t, d>> \in powerpcContexts' THEN 1 ELSE 0)
                                          + (IF <<t, d>> \in m68kContexts' THEN 1 ELSE 0)
    BY <2>1, <2>4
  <2>6. \A u \in Tasks : \A d : ~(u = t /\ d \in C) =>
          /\ <<u, d>> \in powerpcContexts' <=> <<u, d>> \in powerpcContexts
          /\ <<u, d>> \in m68kContexts' <=> <<u, d>> \in m68kContexts
    BY <2>1
  <2>7. C \subseteq CallsOf(t) \cap CallIds
    BY <2>2
  <2>8. \A d \in CallIds \ C : attachedContexts'[d] = attachedContexts[d]
    BY <2>4
  <2> HIDE DEF C
  <2> QED BY <1>0, <1>a, <2>2, <2>5, <2>6, <2>7, <2>8, CustodyMoved
<1>8. ASSUME NEW t \in Tasks, NEW c \in CallIds, TakeWhileCompleting(t, c)
      PROVE  ContextCustody'
  <2>1. /\ ValidTransition(t, c, "Active")
        /\ stacks' = WithTopPhase(t, "Completed")
        /\ <<t, c>> \in powerpcContexts
        /\ attachedContexts' = [attachedContexts EXCEPT ![c] = @ - 1]
        /\ powerpcContexts' = powerpcContexts \ {<<t, c>>}
        /\ m68kContexts' = m68kContexts
    BY <1>8 DEF TakeWhileCompleting
  <2>2. c \in CallsOf(t) /\ \A u \in Tasks : CallsOf(u)' = CallsOf(u)
    BY <1>3, <2>1 DEF Phases
  <2>3. attachedContexts[c] = 1 + (IF <<t, c>> \in m68kContexts THEN 1 ELSE 0)
    BY <1>0, <2>1, <2>2, ParkedByOwner DEF ContextCustody
  <2>4. /\ \A d \in CallIds \ {c} : attachedContexts'[d] = attachedContexts[d]
        /\ attachedContexts'[c] = attachedContexts[c] - 1
    BY <1>0, <2>1 DEF TypeOK
  <2> DEFINE C == {c}
  <2>5. \A d \in C : attachedContexts'[d] = (IF <<t, d>> \in powerpcContexts' THEN 1 ELSE 0)
                                          + (IF <<t, d>> \in m68kContexts' THEN 1 ELSE 0)
    BY <2>1, <2>3, <2>4
  <2>6. \A u \in Tasks : \A d : ~(u = t /\ d \in C) =>
          /\ <<u, d>> \in powerpcContexts' <=> <<u, d>> \in powerpcContexts
          /\ <<u, d>> \in m68kContexts' <=> <<u, d>> \in m68kContexts
    BY <2>1
  <2>7. C \subseteq CallsOf(t) \cap CallIds
    BY <2>2
  <2>8. \A d \in CallIds \ C : attachedContexts'[d] = attachedContexts[d]
    BY <2>4
  <2> HIDE DEF C
  <2> QED BY <1>0, <1>a, <2>2, <2>5, <2>6, <2>7, <2>8, CustodyMoved
<1>9. ASSUME NEW t \in Tasks, NEW c \in CallIds, NEW caller \in CallIds \cup {0},
             ActivateParkingCaller(t, c, caller)
      PROVE  ContextCustody'
  <2> DEFINE parks == caller # 0 /\ <<t, caller>> \notin m68kContexts
             C     == IF parks THEN {c, caller} ELSE {c}
  <2>1. /\ ValidTransition(t, c, "Pending")
        /\ stacks' = WithTopPhase(t, "Active")
        /\ <<t, c>> \notin powerpcContexts
        /\ caller # 0 => caller \in CallsOf(t) /\ caller # c
        /\ powerpcContexts' = powerpcContexts \cup {<<t, c>>}
        /\ m68kContexts' = IF parks THEN m68kContexts \cup {<<t, caller>>} ELSE m68kContexts
        /\ attachedContexts' = [d \in CallIds |->
             attachedContexts[d] + (IF parks /\ d = caller THEN 1 ELSE 0)
                                 + (IF d = c THEN 1 ELSE 0)]
    BY <1>9 DEF ActivateParkingCaller, MayParkCaller, OwnedByCurrent
  <2>2. c \in CallsOf(t) /\ \A u \in Tasks : CallsOf(u)' = CallsOf(u)
    BY <1>3, <2>1 DEF Phases
  <2>3. \A d \in CallIds \cap CallsOf(t) :
          attachedContexts[d] = (IF <<t, d>> \in powerpcContexts THEN 1 ELSE 0)
                              + (IF <<t, d>> \in m68kContexts THEN 1 ELSE 0)
    BY <1>0, ParkedByOwner DEF ContextCustody
  <2>4. attachedContexts'[c] = attachedContexts[c] + 1
    <3>1. attachedContexts[c] \in Nat /\ ~(parks /\ c = caller)
      BY <1>0, <2>1 DEF TypeOK
    <3> HIDE DEF C, parks
    <3> QED BY <2>1, <3>1
  <2>5. parks => attachedContexts'[caller] = attachedContexts[caller] + 1
    <3> SUFFICES ASSUME parks PROVE attachedContexts'[caller] = attachedContexts[caller] + 1
      OBVIOUS
    <3>1. caller \in CallIds /\ caller # c /\ attachedContexts[caller] \in Nat
      BY <1>0, <2>1 DEF TypeOK
    <3> HIDE DEF C, parks
    <3> QED BY <2>1, <3>1
  <2>6. \A d \in CallIds \ C : attachedContexts'[d] = attachedContexts[d]
    <3> SUFFICES ASSUME NEW d \in CallIds \ C PROVE attachedContexts'[d] = attachedContexts[d]
      OBVIOUS
    <3>1. attachedContexts[d] \in Nat /\ d # c /\ ~(parks /\ d = caller)
      BY <1>0 DEF TypeOK
    <3> HIDE DEF C, parks
    <3> QED BY <2>1, <3>1
  <2>7. attachedContexts'[c] = (IF <<t, c>> \in powerpcContexts' THEN 1 ELSE 0)
                             + (IF <<t, c>> \in m68kContexts' THEN 1 ELSE 0)
    BY <2>1, <2>2, <2>3, <2>4
  <2>8. parks => attachedContexts'[caller]
                   = (IF <<t, caller>> \in powerpcContexts' THEN 1 ELSE 0)
                   + (IF <<t, caller>> \in m68kContexts' THEN 1 ELSE 0)
    BY <2>1, <2>3, <2>5
  <2>9. \A d \in C : attachedContexts'[d] = (IF <<t, d>> \in powerpcContexts' THEN 1 ELSE 0)
                                          + (IF <<t, d>> \in m68kContexts' THEN 1 ELSE 0)
    BY <2>7, <2>8
  <2>10. \A u \in Tasks : \A d : ~(u = t /\ d \in C) =>
           /\ <<u, d>> \in powerpcContexts' <=> <<u, d>> \in powerpcContexts
           /\ <<u, d>> \in m68kContexts' <=> <<u, d>> \in m68kContexts
    BY <2>1
  <2>11. C \subseteq CallsOf(t) \cap CallIds
    BY <2>1, <2>2
  <2> HIDE DEF C, parks
  <2> QED BY <1>0, <1>a, <2>2, <2>6, <2>9, <2>10, <2>11, CustodyMoved
<1>10. CASE Call
  BY <1>2, <1>4, <1>5, <1>6, <1>7, <1>8, <1>9, <1>10 DEF Call
<1> QED BY <1>1, <1>10 DEF Next

\* The kernel's whole invariant holds in every reachable state.
LEMMA CustodyHolds == Spec => []Custody
<1>1. Init => Custody
  <2>1. Init => CallIdentity
    BY DEF Init, CallIdentity, CallsOf
  <2>2. ASSUME Init PROVE ContextCustody
    <3>1. \A c \in CallIds : attachedContexts[c] = 0 /\ Parked(c) = 0
      BY <2>2 DEF Init, Parked
    <3>2. powerpcContexts \cup m68kContexts = {}
      BY <2>2 DEF Init
    <3> QED BY <3>1, <3>2 DEF ContextCustody
  <2> QED BY <2>1, <2>2, InitScheduling DEF Custody
<1>2. Custody /\ [Next]_vars => Custody'
  BY StepScheduling, StepCallIdentity, StepContextCustody DEF Custody
<1> QED BY <1>1, <1>2, PTL DEF Spec

\* Calls keep their identity: one owner each, in submission order, below the next id
\* (ContinuationStore::submit, retire and cancel_pending).
THEOREM CallsKeepIdentity == Spec => []CallIdentity
<1>1. Custody => CallIdentity
  BY DEF Custody
<1> QED BY <1>1, CustodyHolds, PTL

\* No parked engine is lost or counted twice: each bank slot is held under a live call
\* of its own task, and the count attached to a call is the number of its slots.
THEOREM NoEngineStranded == Spec => []ContextCustody
<1>1. Custody => ContextCustody
  BY DEF Custody
<1> QED BY <1>1, CustodyHolds, PTL

\* An operation on calls writes the selected task's stack, or pushes a call on top of
\* another's.
LEMMA CallsOfSuspended ==
  ASSUME TypeOK, Call, NEW u \in Tasks \ {currentTask}
  PROVE  /\ Len(stacks'[u]) >= Len(stacks[u])
         /\ \A i \in DOMAIN stacks[u] : stacks'[u][i] = stacks[u][i]
<1>0. stacks[u] \in Seq(Frames) /\ Len(stacks[u]) \in Nat
  BY DEF TypeOK
<1>1. ASSUME NEW t \in Tasks, Submit(t)
      PROVE  \/ stacks'[u] = stacks[u]
             \/ \E f \in Frames : stacks'[u] = Append(stacks[u], f)
  <2>1. [id |-> nextCallId, phase |-> "Pending"] \in Frames
    BY DEF TypeOK, Frames, Phases
  <2> QED BY <1>1, <2>1 DEF Submit, TypeOK
<1>2. ASSUME NEW t \in Tasks, NEW c, NEW phase, ValidTransition(t, c, phase)
      PROVE  /\ \A new : WithTopPhase(t, new)[u] = stacks[u]
             /\ WithoutTop(t)[u] = stacks[u]
  BY <1>2 DEF ValidTransition, WithTopPhase, WithoutTop, TypeOK
<1>3. ASSUME NEW t \in Tasks, NEW c \in CallIds,
             \/ Activate(t, c)
             \/ Complete(t, c)
             \/ \E phase \in Phases : RemoveCall(t, c, phase)
             \/ ParkPairWhileActivating(t, c)
             \/ TakeWhileCompleting(t, c)
             \/ RetireWithContext(t, c)
      PROVE  stacks'[u] = stacks[u]
  BY <1>2, <1>3 DEF Activate, Complete, RemoveCall, ParkPairWhileActivating, MayParkPair,
                    TakeWhileCompleting, RetireWithContext, MayRetire
<1>4. ASSUME NEW t \in Tasks, NEW c \in CallIds, NEW caller \in CallIds \cup {0},
             ActivateParkingCaller(t, c, caller)
      PROVE  stacks'[u] = stacks[u]
  BY <1>2, <1>4 DEF ActivateParkingCaller, MayParkCaller
<1>5. \/ stacks'[u] = stacks[u]
      \/ \E f \in Frames : stacks'[u] = Append(stacks[u], f)
  BY <1>1, <1>3, <1>4 DEF Call
<1>6. CASE stacks'[u] = stacks[u]
  BY <1>0, <1>6
<1>7. ASSUME NEW f \in Frames, stacks'[u] = Append(stacks[u], f)
      PROVE  /\ Len(stacks'[u]) >= Len(stacks[u])
             /\ \A i \in DOMAIN stacks[u] : stacks'[u][i] = stacks[u][i]
  BY <1>0, <1>7
<1> QED BY <1>5, <1>6, <1>7

\* While a task is not selected, its calls keep their order and phase, and none leaves:
\* whatever the selected task does, it finds its calls as it left them
\* (validate_transition in every operation of ContinuationStore).
THEOREM SuspendedCallsWait == Spec => SuspendedCallsFrozen
<1> DEFINE Frozen == \A t \in Tasks \ {currentTask} :
                       /\ Len(stacks'[t]) >= Len(stacks[t])
                       /\ \A i \in DOMAIN stacks[t] : stacks'[t][i] = stacks[t][i]
<1>1. ASSUME Scheduling, Next PROVE Frozen
  <2>1. CASE Schedule
    <3>1. stacks' = stacks
      BY <2>1, <1>1, ScheduleLeavesCalls
    <3>2. \A t \in Tasks : Len(stacks[t]) \in Nat
      BY <1>1 DEF Scheduling, TypeOK
    <3> QED BY <3>1, <3>2
  <2>2. CASE Call
    BY <1>1, <2>2, CallsOfSuspended DEF Scheduling
  <2> QED BY <1>1, <2>1, <2>2 DEF Next
<1>2. Scheduling /\ [Next]_vars => [Frozen]_vars
  BY <1>1
<1> QED BY <1>2, SchedulingHolds, PTL DEF Spec, SuspendedCallsFrozen

\* A step adds no call but the next id's.
LEMMA OnlyNextIdArrives ==
  ASSUME Custody, [Next]_vars, NEW u \in Tasks
  PROVE  CallsOf(u)' \subseteq CallsOf(u) \cup {nextCallId}
<1> USE DEF Custody, Scheduling
<1>1. CASE Schedule \/ UNCHANGED vars
  <2>1. stacks' = stacks
    BY <1>1, ScheduleLeavesCalls
  <2> QED BY <2>1 DEF CallsOf
<1>2. ASSUME NEW t \in Tasks, Submit(t) PROVE CallsOf(u)' \subseteq CallsOf(u) \cup {nextCallId}
  BY <1>2, Submission
<1>3. ASSUME NEW t \in Tasks, NEW c, NEW p, NEW phase \in Phases, ValidTransition(t, c, p),
             stacks' = WithTopPhase(t, phase)
      PROVE  CallsOf(u)' \subseteq CallsOf(u)
  BY <1>3, PhaseChange DEF ValidTransition
<1>4. ASSUME NEW t \in Tasks, NEW c, NEW p, ValidTransition(t, c, p), stacks' = WithoutTop(t)
      PROVE  CallsOf(u)' \subseteq CallsOf(u)
  BY <1>4, Removal DEF ValidTransition
<1> HIDE DEF Custody, Scheduling
<1>5. ASSUME NEW t \in Tasks, NEW c \in CallIds,
             \/ Activate(t, c) \/ Complete(t, c)
             \/ ParkPairWhileActivating(t, c) \/ TakeWhileCompleting(t, c)
      PROVE  CallsOf(u)' \subseteq CallsOf(u)
  BY <1>3, <1>5 DEF Activate, Complete, ParkPairWhileActivating, MayParkPair,
                    TakeWhileCompleting, Phases
<1>6. ASSUME NEW t \in Tasks, NEW c \in CallIds,
             (\E phase \in Phases : RemoveCall(t, c, phase)) \/ RetireWithContext(t, c)
      PROVE  CallsOf(u)' \subseteq CallsOf(u)
  BY <1>4, <1>6 DEF RemoveCall, RetireWithContext, MayRetire
<1>7. ASSUME NEW t \in Tasks, NEW c \in CallIds, NEW caller \in CallIds \cup {0},
             ActivateParkingCaller(t, c, caller)
      PROVE  CallsOf(u)' \subseteq CallsOf(u)
  BY <1>3, <1>7 DEF ActivateParkingCaller, MayParkCaller, Phases
<1>8. CASE Call
  BY <1>2, <1>5, <1>6, <1>7, <1>8 DEF Call
<1> QED BY <1>1, <1>8 DEF Next

\* Ids are used once: a token of a task that was retired, or of a call that returned, can
\* never name a later one (create_task_with, register_task, ContinuationStore::submit).
THEOREM IdsNeverReturn == Spec => IdsUsedOnce
<1> DEFINE Fresh ==
      /\ retiredTasks \cap Registered' = {}
      /\ \A c \in 1..(nextCallId - 1) :
           (\A t \in Tasks : c \notin CallsOf(t)) => \A t \in Tasks : c \notin CallsOf(t)'
<1>1. ASSUME Custody, Custody', Next PROVE Fresh
  <2>1. retiredTasks \subseteq retiredTasks'
    BY <1>1, CallsLeaveScheduling DEF Next, Schedule, CreateTask, BindTaskEntryIsa,
                    SwitchToTask, MaySwitchTo, SetSchedulingState, ChangeThreadState,
                    BeginCritical, EndCritical, RetireTask
  <2>2. retiredTasks' \cap Registered' = {}
    BY <1>1 DEF Custody, Scheduling, RetiredForever
  <2>3. \A u \in Tasks : CallsOf(u)' \subseteq CallsOf(u) \cup {nextCallId}
    BY <1>1, OnlyNextIdArrives
  <2>4. nextCallId \notin 1..(nextCallId - 1)
    BY <1>1 DEF Custody, Scheduling, TypeOK, CallIds
  <2> QED BY <2>1, <2>2, <2>3, <2>4
<1>2. Custody /\ Custody' /\ [Next]_vars => [Fresh]_vars
  BY <1>1
<1> QED BY <1>2, CustodyHolds, PTL DEF Spec, IdsUsedOnce

---------------------------------------------------------------------------
(* The intervals of one task, read off its stack *)

Cross == {"ClassicToNative", "NativeToClassic"}

\* A finite set of positions has a newest one.
LEMMA NewestExists ==
  ASSUME NEW n \in Nat, NEW S, S \subseteq 1..n, S # {}
  PROVE  Newest(S) \in S /\ \A j \in S : j <= Newest(S)
<1> DEFINE T == {n - i : i \in S}
<1>1. T \subseteq Nat /\ T # {}
  <2>1. \A i \in S : n - i \in Nat
    OBVIOUS
  <2> QED BY <2>1
<1>2. PICK m \in T : \A k \in T : m <= k
  <2> HIDE DEF T
  <2> QED BY <1>1, LeastNatural
<1>3. PICK i \in S : m = n - i
  BY <1>2
<1>4. \A j \in S : j <= i
  <2> SUFFICES ASSUME NEW j \in S PROVE j <= i
    OBVIOUS
  <2>1. m <= n - j
    BY <1>2
  <2> QED BY <1>3, <2>1
<1> QED BY <1>3, <1>4 DEF Newest

\* The started calls below a position.
Below(t, i) == {j \in Started(t) : j < i}

\* What a stack is made of.
LEMMA StackFacts ==
  ASSUME TypeOK, NEW t \in Tasks
  PROVE  /\ stacks[t] \in Seq(Frames) /\ Len(stacks[t]) \in Nat
         /\ DOMAIN stacks[t] = 1..Len(stacks[t])
         /\ \A i \in DOMAIN stacks[t] :
              /\ stacks[t][i] \in Frames /\ stacks[t][i].id \in CallIds
              /\ stacks[t][i].phase \in Phases /\ stacks[t][i].id \in CallsOf(t)
         /\ stacks[t] # << >> <=> Len(stacks[t]) \in DOMAIN stacks[t]
         /\ stacks[t] # << >> <=> Len(stacks[t]) # 0
<1>1. stacks[t] \in Seq(Frames)
  BY DEF TypeOK
<1>2. ASSUME NEW i \in DOMAIN stacks[t]
      PROVE  /\ stacks[t][i] \in Frames /\ stacks[t][i].id \in CallIds
             /\ stacks[t][i].phase \in Phases /\ stacks[t][i].id \in CallsOf(t)
  <2>1. stacks[t][i] \in Frames
    BY <1>1
  <2> QED BY <2>1 DEF Frames, CallsOf
<1> QED BY <1>1, <1>2

\* The caller of a position is the task's own code or a started call below it.
LEMMA CallerIs ==
  ASSUME TypeOK, NEW t \in Tasks, NEW i
  PROVE  \/ Below(t, i) = {} /\ CallerOf(t, i) = <<t, 0>>
         \/ /\ Newest(Below(t, i)) \in Below(t, i)
            /\ \A j \in Below(t, i) : j <= Newest(Below(t, i))
            /\ CallerOf(t, i) = <<t, stacks[t][Newest(Below(t, i))].id>>
<1>1. Below(t, i) \subseteq 1..Len(stacks[t]) /\ Len(stacks[t]) \in Nat
  BY StackFacts DEF Below, Started
<1>2. CallerOf(t, i) = IF Below(t, i) = {} THEN <<t, 0>>
                       ELSE <<t, stacks[t][Newest(Below(t, i))].id>>
  BY DEF CallerOf, Below
<1>3. CASE Below(t, i) = {}
  BY <1>2, <1>3
<1>4. CASE Below(t, i) # {}
  <2>1. /\ Newest(Below(t, i)) \in Below(t, i)
        /\ \A j \in Below(t, i) : j <= Newest(Below(t, i))
    BY <1>1, <1>4, NewestExists
  <2> QED BY <1>2, <1>4, <2>1
<1> QED BY <1>3, <1>4

\* The next instructions of a task belong to the caller of a call it might submit.
LEMMA OwnerIsCaller ==
  ASSUME TypeOK, NEW t \in Tasks
  PROVE  Owner(t) = CallerOf(t, Len(stacks[t]) + 1)
<1>1. \A j \in Started(t) : j < Len(stacks[t]) + 1
  BY StackFacts DEF Started
<1>2. {j \in Started(t) : j < Len(stacks[t]) + 1} = Started(t)
  BY <1>1
<1> QED BY <1>2 DEF Owner, CallerOf

\* The caller changes only over a started call.
LEMMA CallerNext ==
  ASSUME TypeOK, NEW t \in Tasks, NEW i \in DOMAIN stacks[t]
  PROVE  CallerOf(t, i + 1) = IF i \in Started(t) THEN <<t, stacks[t][i].id>>
                              ELSE CallerOf(t, i)
<1>0. /\ Len(stacks[t]) \in Nat /\ i \in 1..Len(stacks[t])
      /\ Started(t) \subseteq 1..Len(stacks[t])
  BY StackFacts DEF Started
<1>1. CASE i \in Started(t)
  <2>1. i \in Below(t, i + 1) /\ \A j \in Below(t, i + 1) : j <= i
    BY <1>0, <1>1 DEF Below
  <2>2. /\ Newest(Below(t, i + 1)) \in Below(t, i + 1)
        /\ \A j \in Below(t, i + 1) : j <= Newest(Below(t, i + 1))
        /\ CallerOf(t, i + 1) = <<t, stacks[t][Newest(Below(t, i + 1))].id>>
    BY <2>1, CallerIs
  <2>3. Newest(Below(t, i + 1)) = i
    <3> DEFINE k == Newest(Below(t, i + 1))
    <3>1. k <= i /\ i <= k /\ k \in Started(t)
      BY <2>1, <2>2 DEF Below
    <3> HIDE DEF k
    <3>2. k = i
      BY <1>0, <3>1
    <3> QED BY <3>2 DEF k
  <2> QED BY <1>1, <2>2, <2>3
<1>2. CASE i \notin Started(t)
  <2>1. {j \in Started(t) : j < i + 1} = {j \in Started(t) : j < i}
    BY <1>0, <1>2
  <2> QED BY <1>2, <2>1 DEF CallerOf
<1> QED BY <1>1, <1>2

\* A step that rewrites only what lies above position n of a stack keeps the callers
\* of the positions up to n + 1.
Agree(t, n) ==
  /\ n \in Nat /\ n <= Len(stacks[t]) /\ n <= Len(stacks'[t])
  /\ \A j \in 1..n : /\ stacks'[t][j] = stacks[t][j]
                     /\ kinds'[stacks[t][j].id] = kinds[stacks[t][j].id]

\* Positions up to n + 1 keep their caller.
LEMMA CallerKept ==
  ASSUME TypeOK, TypeOK', NEW t \in Tasks, NEW n, Agree(t, n), NEW i \in 1..(n + 1)
  PROVE  CallerOf(t, i)' = CallerOf(t, i)
<1>0. /\ n \in Nat /\ 1..n \subseteq DOMAIN stacks[t] /\ 1..n \subseteq DOMAIN stacks'[t]
      /\ DOMAIN stacks[t] \subseteq Nat \ {0} /\ DOMAIN stacks'[t] \subseteq Nat \ {0}
  <2>1. stacks[t] \in Seq(Frames) /\ stacks'[t] \in Seq(Frames)
    BY DEF TypeOK
  <2> QED BY <2>1 DEF Agree
<1>1. \A j \in Nat : j < i => (j \in Started(t)' <=> j \in Started(t))
  <2> SUFFICES ASSUME NEW j \in Nat, j < i PROVE j \in Started(t)' <=> j \in Started(t)
    OBVIOUS
  <2>1. CASE j = 0
    BY <1>0, <2>1 DEF Started
  <2>2. CASE j \in 1..n
    <3>1. stacks'[t][j] = stacks[t][j] /\ kinds'[stacks[t][j].id] = kinds[stacks[t][j].id]
      BY <2>2 DEF Agree
    <3>2. j \in DOMAIN stacks[t] /\ j \in DOMAIN stacks'[t]
      BY <1>0, <2>2
    <3> QED BY <3>1, <3>2 DEF Started
  <2> QED BY <1>0, <2>1, <2>2
<1>2. Below(t, i)' = Below(t, i)
  <2>1. Started(t) \subseteq Nat /\ Started(t)' \subseteq Nat
    BY <1>0 DEF Started
  <2> QED BY <1>1, <2>1 DEF Below
<1>3. CASE Below(t, i) = {}
  BY <1>2, <1>3 DEF CallerOf, Below
<1>4. CASE Below(t, i) # {}
  <2>1. Newest(Below(t, i)) \in Below(t, i)
    BY <1>4, CallerIs
  <2> DEFINE k == Newest(Below(t, i))
  <2>2. k \in Nat \ {0} /\ k < i
    BY <1>0, <2>1 DEF Below, Started
  <2> HIDE DEF k
  <2>3. stacks'[t][k] = stacks[t][k]
    BY <1>0, <2>2 DEF Agree
  <2>4. CallerOf(t, i) = <<t, stacks[t][k].id>>
    BY <1>4 DEF CallerOf, Below, k
  <2>5. CallerOf(t, i)' = <<t, stacks'[t][k].id>>
    BY <1>2, <1>4 DEF CallerOf, Below, k
  <2> QED BY <2>3, <2>4, <2>5
<1> QED BY <1>3, <1>4

---------------------------------------------------------------------------
(* What the frames of a stack promise *)

OwnerIsa(t) == IsaOf(Owner(t))

\* The native code that the newest call entered has returned, and its classic caller
\* is still in the bank.
Finished(t) == TopKind(t) = "ClassicToNative" /\ TopPhase(t) = "Completed"

\* A call's phases, the architecture of the code that made it, and the place of a
\* call that crosses engines and is not under way: on top.
FrameShape(t, i) ==
  LET c == stacks[t][i].id
      p == stacks[t][i].phase IN
  /\ kinds[c] \in Kinds
  /\ kinds[c] = "ClassicToClassic" => p = "Pending" /\ taskEntryIsas[t] = "M68k"
  /\ kinds[c] = "NativeToNative" => p = "Active" /\ taskEntryIsas[t] = "PowerPc"
  /\ kinds[c] = "NativeToClassic" => p # "Completed"
  /\ kinds[c] \in Cross /\ p # "Active" => i = Len(stacks[t])
  /\ IsaOf(CallerOf(t, i)) =
       IF kinds[c] \in {"ClassicToClassic", "ClassicToNative"} THEN "M68k" ELSE "PowerPc"

ParksClassic(t, i) == /\ kinds[stacks[t][i].id] = "ClassicToNative"
                      /\ stacks[t][i].phase # "Pending"
ParksNative(t, i)  == /\ kinds[stacks[t][i].id] = "NativeToClassic"
                      /\ stacks[t][i].phase = "Active"

\* What the banks hold for a call is what its caller left.
FrameKept(t, i) ==
  LET c == stacks[t][i].id IN
  /\ ParksClassic(t, i) => <<t, c>> \in m68kContexts /\ m68kParked[c] = CallerOf(t, i)
  /\ ParksNative(t, i) => powerpcParked[c] = CallerOf(t, i)
  /\ ParksClassic(t, i) /\ stacks[t][i].phase = "Active" => powerpcParked[c] \in Contexts

FrameOK(t, i) == FrameShape(t, i) /\ FrameKept(t, i)

FramesOK == \A t \in Tasks : \A i \in DOMAIN stacks[t] : FrameOK(t, i)

\* The architecture of a caller that a step leaves alone.
LEMMA CallerIsaKept ==
  ASSUME TypeOK, TypeOK', NEW t \in Tasks, NEW n, Agree(t, n), NEW i \in 1..(n + 1),
         taskEntryIsas'[t] = taskEntryIsas[t]
  PROVE  IsaOf(CallerOf(t, i))' = IsaOf(CallerOf(t, i))
<1>1. CallerOf(t, i)' = CallerOf(t, i)
  BY CallerKept
<1>2. CASE CallerOf(t, i) = <<t, 0>>
  BY <1>1, <1>2 DEF IsaOf
<1>3. CASE CallerOf(t, i) # <<t, 0>>
  <2> DEFINE k == Newest(Below(t, i))
  <2>1. k \in Below(t, i) /\ CallerOf(t, i) = <<t, stacks[t][k].id>>
    BY <1>3, CallerIs
  <2>2. k \in 1..n
    <3>1. k \in DOMAIN stacks[t] /\ k < i
      BY <2>1 DEF Below, Started
    <3> HIDE DEF k
    <3> QED BY <3>1, StackFacts DEF Agree
  <2> HIDE DEF k
  <2>3. kinds'[stacks[t][k].id] = kinds[stacks[t][k].id]
    BY <2>2 DEF Agree
  <2>4. stacks[t][k].id # 0
    BY <2>1, StackFacts DEF Below, Started, CallIds
  <2> QED BY <1>1, <2>1, <2>3, <2>4 DEF IsaOf
<1> QED BY <1>2, <1>3

\* What the banks keep for frame i of t is not touched by the step.
Untouched(t, i) ==
  LET c == stacks[t][i].id IN
  /\ ParksClassic(t, i) =>
       (<<t, c>> \in m68kContexts => <<t, c>> \in m68kContexts') /\ m68kParked'[c] = m68kParked[c]
  /\ ParksNative(t, i) => powerpcParked'[c] = powerpcParked[c]
  /\ ParksClassic(t, i) /\ powerpcParked[c] \in Contexts => powerpcParked'[c] \in Contexts

\* A frame below everything a step rewrites stays what it was.
LEMMA FrameStays ==
  ASSUME TypeOK, TypeOK', NEW t \in Tasks, NEW n, Agree(t, n), NEW i \in 1..n,
         taskEntryIsas'[t] = taskEntryIsas[t], FrameOK(t, i), Untouched(t, i),
         kinds[stacks[t][i].id] \in Cross /\ stacks[t][i].phase # "Active"
           => (i = Len(stacks[t]) => i = Len(stacks'[t]))
  PROVE  FrameOK(t, i)'
<1>1. stacks'[t][i] = stacks[t][i] /\ kinds'[stacks[t][i].id] = kinds[stacks[t][i].id]
  BY DEF Agree
<1>2. i \in 1..(n + 1)
  BY DEF Agree
<1>3. CallerOf(t, i)' = CallerOf(t, i) /\ IsaOf(CallerOf(t, i))' = IsaOf(CallerOf(t, i))
  BY <1>2, CallerKept, CallerIsaKept
<1>4. FrameShape(t, i)'
  BY <1>1, <1>3 DEF FrameOK, FrameShape
<1>5. FrameKept(t, i)'
  BY <1>1, <1>3 DEF FrameOK, FrameKept, Untouched, ParksClassic, ParksNative
<1> QED BY <1>4, <1>5 DEF FrameOK

\* A task whose stack, calls and entry architecture a step leaves alone.
LEMMA TaskStays ==
  ASSUME TypeOK, TypeOK', FramesOK, NEW t \in Tasks, stacks'[t] = stacks[t],
         \A c \in CallsOf(t) : kinds'[c] = kinds[c], taskEntryIsas'[t] = taskEntryIsas[t],
         \A i \in DOMAIN stacks[t] : Untouched(t, i)
  PROVE  /\ Owner(t)' = Owner(t) /\ OwnerIsa(t)' = OwnerIsa(t) /\ Finished(t)' = Finished(t)
         /\ \A i \in DOMAIN stacks'[t] : FrameOK(t, i)'
<1> DEFINE n == Len(stacks[t])
<1>1. n \in Nat /\ DOMAIN stacks[t] = 1..n /\ Agree(t, n)
  BY StackFacts DEF Agree
<1>2. \A i \in DOMAIN stacks'[t] : FrameOK(t, i)'
  BY <1>1, FrameStays DEF FramesOK
<1>3. Owner(t) = CallerOf(t, n + 1)
  BY OwnerIsCaller
<1>4. Owner(t)' = CallerOf(t, n + 1)'
  <2>1. \A j \in DOMAIN stacks[t] : j < n + 1
    BY <1>1
  <2>2. Started(t)' \subseteq DOMAIN stacks[t]
    BY DEF Started
  <2>3. {j \in Started(t)' : j < n + 1} = Started(t)'
    BY <2>1, <2>2
  <2> QED BY <2>3 DEF Owner, CallerOf
<1>5. n + 1 \in 1..(n + 1)
  BY <1>1
<1>6. CallerOf(t, n + 1)' = CallerOf(t, n + 1) /\ IsaOf(CallerOf(t, n + 1))' = IsaOf(CallerOf(t, n + 1))
  BY <1>1, <1>5, CallerKept, CallerIsaKept
<1>7. Finished(t)' = Finished(t)
  <2>1. stacks[t] # << >> => Top(t).id \in CallsOf(t)
    BY StackFacts DEF Top
  <2> QED BY <2>1 DEF Finished, TopKind, TopPhase, Top
<1> QED BY <1>2, <1>3, <1>4, <1>6, <1>7 DEF OwnerIsa

\* A task without calls is in its own code.
LEMMA NoCalls ==
  ASSUME NEW t \in Tasks
  PROVE  /\ stacks[t] = << >> => /\ Owner(t) = <<t, 0>> /\ OwnerIsa(t) = taskEntryIsas[t]
                                 /\ ~ Finished(t)
         /\ stacks'[t] = << >> => /\ Owner(t)' = <<t, 0>> /\ OwnerIsa(t)' = taskEntryIsas'[t]
                                  /\ ~ Finished(t)'
<1>1. ASSUME stacks[t] = << >>
      PROVE  Owner(t) = <<t, 0>> /\ ~ Finished(t)
  <2>1. Started(t) = {}
    BY <1>1 DEF Started
  <2> QED BY <1>1, <2>1 DEF Owner, Finished, TopKind
<1>2. ASSUME stacks'[t] = << >>
      PROVE  Owner(t)' = <<t, 0>> /\ ~ Finished(t)'
  <2>1. Started(t)' = {}
    BY <1>2 DEF Started
  <2> QED BY <1>2, <2>1 DEF Owner, Finished, TopKind
<1>3. IsaOf(<<t, 0>>) = taskEntryIsas[t] /\ IsaOf(<<t, 0>>)' = taskEntryIsas'[t]
  BY DEF IsaOf
<1> QED BY <1>1, <1>2, <1>3 DEF OwnerIsa

---------------------------------------------------------------------------
(* Steps that rewrite the top of one stack *)

\* The step writes no stack but t's and no bank entry but call c's (0: none).
StackStep(t, c) ==
  /\ \A u \in Tasks \ {t} : stacks'[u] = stacks[u]
  /\ \A d \in CallIds : d < nextCallId => kinds'[d] = kinds[d]
  /\ taskEntryIsas' = taskEntryIsas
  /\ \A d \in CallIds \ {c} : m68kParked'[d] = m68kParked[d] /\ powerpcParked'[d] = powerpcParked[d]
  /\ \A u \in Tasks, d \in CallIds \ {c} : <<u, d>> \in m68kContexts => <<u, d>> \in m68kContexts'

Same(u) == Owner(u)' = Owner(u) /\ OwnerIsa(u)' = OwnerIsa(u) /\ Finished(u)' = Finished(u)

\* The other tasks notice nothing.
LEMMA OthersStay ==
  ASSUME TypeOK, TypeOK', FramesOK, CallIdentity, NEW t \in Tasks, NEW c, StackStep(t, c),
         c = 0 \/ c \in CallsOf(t), NEW u \in Tasks \ {t}
  PROVE  Same(u) /\ \A i \in DOMAIN stacks'[u] : FrameOK(u, i)'
<1>1. \A d \in CallsOf(u) : d \in CallIds /\ d < nextCallId /\ d # c
  <2>1. \A d \in CallsOf(u) : d \in CallIds
    BY StackFacts DEF CallsOf
  <2>2. \A d \in CallsOf(u) : d < nextCallId /\ d \notin CallsOf(t)
    BY DEF CallIdentity
  <2> QED BY <2>1, <2>2 DEF CallIds
<1>2. \A i \in DOMAIN stacks[u] : stacks[u][i].id \in CallsOf(u)
  BY DEF CallsOf
<1>3. \A i \in DOMAIN stacks[u] : Untouched(u, i)
  BY <1>1, <1>2 DEF StackStep, Untouched
<1>4. stacks'[u] = stacks[u] /\ taskEntryIsas'[u] = taskEntryIsas[u]
      /\ \A d \in CallsOf(u) : kinds'[d] = kinds[d]
  BY <1>1 DEF StackStep
<1> QED BY <1>3, <1>4, TaskStays DEF Same

\* Below the top, the frames of the rewritten stack stay too.
LEMMA LowerFramesStay ==
  ASSUME TypeOK, TypeOK', FramesOK, CallIdentity, NEW t \in Tasks, NEW c, StackStep(t, c),
         stacks[t] # << >>, c = 0 \/ c = Top(t).id,
         NEW m \in Nat, m < Len(stacks[t]), m <= Len(stacks'[t]),
         \A i \in 1..m : stacks'[t][i] = stacks[t][i]
  PROVE  Agree(t, m) /\ \A i \in 1..m : FrameOK(t, i)'
<1>1. /\ Len(stacks[t]) \in Nat /\ DOMAIN stacks[t] = 1..Len(stacks[t])
      /\ \A i \in DOMAIN stacks[t] : stacks[t][i].id \in CallIds /\ stacks[t][i].id < nextCallId
      /\ \A i \in 1..m : stacks[t][i].id # Top(t).id
  <2>1. \A i \in DOMAIN stacks[t] : stacks[t][i].id < nextCallId
    BY DEF CallIdentity, CallsOf
  <2>2. \A i \in 1..(Len(stacks[t]) - 1) : stacks[t][i].id # Top(t).id
    BY StackIds
  <2>3. Len(stacks[t]) \in Nat /\ 1..m \subseteq 1..(Len(stacks[t]) - 1)
    BY StackFacts
  <2> QED BY <2>1, <2>2, <2>3, StackFacts
<1>2. 1..m \subseteq DOMAIN stacks[t] /\ \A i \in 1..m : i < Len(stacks[t])
  BY <1>1
<1>3. Agree(t, m)
  BY <1>1, <1>2 DEF Agree, StackStep
<1>4. ASSUME NEW i \in 1..m PROVE FrameOK(t, i)'
  <2>1. FrameOK(t, i) /\ i # Len(stacks[t])
    BY <1>1, <1>2 DEF FramesOK
  <2>2. stacks[t][i].id \in CallIds \ {c}
    BY <1>1, <1>2 DEF CallIds
  <2>3. Untouched(t, i)
    BY <2>2 DEF StackStep, Untouched
  <2>4. taskEntryIsas'[t] = taskEntryIsas[t]
    BY DEF StackStep
  <2> QED BY <1>3, <2>1, <2>3, <2>4, FrameStays
<1> QED BY <1>3, <1>4

\* A call under way below the top of a stack crosses no engine or is started.
LEMMA OnlyTopWaits ==
  ASSUME TypeOK, FramesOK, NEW t \in Tasks, NEW i \in DOMAIN stacks[t], i # Len(stacks[t])
  PROVE  kinds[stacks[t][i].id] \in Cross => stacks[t][i].phase = "Active"
BY DEF FramesOK, FrameOK, FrameShape

\* The interval of a stack whose top is known.
LEMMA OwnerOverTop ==
  ASSUME TypeOK, NEW t \in Tasks, stacks[t] # << >>
  PROVE  Owner(t) = IF Top(t).phase = "Active" /\ kinds[Top(t).id] \in Cross
                    THEN <<t, Top(t).id>> ELSE CallerOf(t, Len(stacks[t]))
<1>1. Len(stacks[t]) \in DOMAIN stacks[t]
  BY StackFacts
<1>2. Len(stacks[t]) \in Started(t) <=> Top(t).phase = "Active" /\ kinds[Top(t).id] \in Cross
  BY <1>1 DEF Started, Top, Cross
<1> QED BY <1>1, <1>2, OwnerIsCaller, CallerNext DEF Top

\* Removing the newest call gives the task back to its caller.
LEMMA Popped ==
  ASSUME TypeOK, TypeOK', FramesOK, CallIdentity, NEW t \in Tasks, stacks[t] # << >>,
         StackStep(t, Top(t).id), stacks' = WithoutTop(t)
  PROVE  /\ FramesOK' /\ \A u \in Tasks \ {t} : Same(u)
         /\ Owner(t)' = CallerOf(t, Len(stacks[t]))
         /\ OwnerIsa(t)' = IsaOf(CallerOf(t, Len(stacks[t])))
         /\ ~ Finished(t)'
<1>0. PICK n : n = Len(stacks[t])
  OBVIOUS
<1> DEFINE m == n - 1
<1>1. /\ n \in Nat /\ m \in Nat /\ m < n /\ n \in 1..(m + 1) /\ DOMAIN stacks[t] = 1..n
      /\ DOMAIN stacks'[t] = 1..m /\ Len(stacks'[t]) = m
      /\ \A i \in 1..m : stacks'[t][i] = stacks[t][i]
  <2>1. n \in Nat \ {0} /\ DOMAIN stacks[t] = 1..n
    BY <1>0, StackIds
  <2>2. stacks'[t] = SubSeq(stacks[t], 1, n - 1)
    BY <1>0 DEF WithoutTop, TypeOK
  <2>3. stacks[t] \in Seq(Frames)
    BY DEF TypeOK
  <2> QED BY <1>0, <2>1, <2>2, <2>3
<1> HIDE DEF m
<1>2. Agree(t, m) /\ \A i \in 1..m : FrameOK(t, i)'
  BY <1>0, <1>1, LowerFramesStay
<1>3. Top(t).id \in CallsOf(t) /\ taskEntryIsas'[t] = taskEntryIsas[t]
  BY StackFacts DEF Top, StackStep
<1>4. \A u \in Tasks \ {t} : Same(u) /\ \A i \in DOMAIN stacks'[u] : FrameOK(u, i)'
  BY <1>3, OthersStay
<1>5. FramesOK'
  BY <1>1, <1>2, <1>4 DEF FramesOK
<1>6. Owner(t)' = CallerOf(t, n)'
  <2>1. Started(t)' \subseteq 1..m
    BY <1>1 DEF Started
  <2>2. {j \in Started(t)' : j < n} = Started(t)'
    BY <1>1, <2>1
  <2> QED BY <2>2 DEF Owner, CallerOf
<1>7. CallerOf(t, n)' = CallerOf(t, n) /\ IsaOf(CallerOf(t, n))' = IsaOf(CallerOf(t, n))
  BY <1>1, <1>2, <1>3, CallerKept, CallerIsaKept
<1>8. ~ Finished(t)'
  <2>1. CASE m = 0
    BY <1>1, <2>1 DEF Finished, TopKind
  <2>2. CASE m # 0
    <3>1. m \in DOMAIN stacks[t] /\ m \in DOMAIN stacks'[t] /\ m # Len(stacks[t])
      BY <1>0, <1>1, <2>2
    <3>2. kinds[stacks[t][m].id] \in Cross => stacks[t][m].phase = "Active"
      BY <3>1, OnlyTopWaits
    <3>3. stacks[t][m].id \in CallIds /\ stacks[t][m].id < nextCallId
      BY <3>1, StackFacts DEF CallIdentity
    <3>4. stacks'[t][m] = stacks[t][m] /\ kinds'[stacks[t][m].id] = kinds[stacks[t][m].id]
      BY <1>1, <2>2, <3>3 DEF StackStep
    <3>5. Finished(t)' => kinds'[stacks'[t][m].id] = "ClassicToNative" /\ stacks'[t][m].phase = "Completed"
      BY <1>1 DEF Finished, TopKind, TopPhase, Top
    <3> QED BY <3>2, <3>4, <3>5 DEF Cross
  <2> QED BY <2>1, <2>2
<1> QED BY <1>0, <1>4, <1>5, <1>6, <1>7, <1>8 DEF OwnerIsa

\* Changing the newest call's phase: what stands, and whose instructions come next.
LEMMA Rephased ==
  ASSUME TypeOK, TypeOK', FramesOK, CallIdentity, NEW t \in Tasks, stacks[t] # << >>,
         StackStep(t, Top(t).id), NEW p \in Phases, stacks' = WithTopPhase(t, p),
         kinds[Top(t).id] \in Cross, NEW n, n = Len(stacks[t])
  PROVE  /\ \A u \in Tasks \ {t} : Same(u) /\ \A i \in DOMAIN stacks'[u] : FrameOK(u, i)'
         /\ n \in Nat \ {0} /\ DOMAIN stacks'[t] = 1..n /\ Len(stacks'[t]) = n
         /\ \A i \in 1..(n - 1) : FrameOK(t, i)'
         /\ stacks'[t][n].id = Top(t).id /\ stacks'[t][n].phase = p
         /\ kinds'[Top(t).id] = kinds[Top(t).id] /\ taskEntryIsas'[t] = taskEntryIsas[t]
         /\ CallerOf(t, n)' = CallerOf(t, n) /\ IsaOf(CallerOf(t, n))' = IsaOf(CallerOf(t, n))
         /\ Owner(t)' = IF p = "Active" THEN <<t, Top(t).id>> ELSE CallerOf(t, n)
         /\ OwnerIsa(t)' = IF p = "Active"
                           THEN IF kinds[Top(t).id] = "ClassicToNative" THEN "PowerPc" ELSE "M68k"
                           ELSE IsaOf(CallerOf(t, n))
         /\ Finished(t)' = (kinds[Top(t).id] = "ClassicToNative" /\ p = "Completed")
<1>1. /\ n \in Nat \ {0} /\ DOMAIN stacks[t] = 1..n /\ n \in 1..n
      /\ stacks[t] \in Seq(Frames) /\ stacks[t][n] \in Frames /\ Top(t) = stacks[t][n]
  <2>1. n \in Nat \ {0} /\ DOMAIN stacks[t] = 1..n
    BY StackIds
  <2> QED BY <2>1, StackFacts DEF Top
<1>2. stacks'[t] = [stacks[t] EXCEPT ![n] = [stacks[t][n] EXCEPT !.phase = p]]
  BY DEF WithTopPhase, TypeOK
<1>3. /\ DOMAIN stacks'[t] = 1..n /\ Len(stacks'[t]) = n
      /\ \A i \in 1..(n - 1) : stacks'[t][i] = stacks[t][i]
      /\ stacks'[t][n].id = Top(t).id /\ stacks'[t][n].phase = p
  <2>1. stacks'[t] \in Seq(Frames)
    BY DEF TypeOK
  <2>2. DOMAIN stacks'[t] = 1..n
    BY <1>1, <1>2
  <2>3. Len(stacks'[t]) = n
    BY <1>1, <2>1, <2>2
  <2>4. \A i \in 1..(n - 1) : stacks'[t][i] = stacks[t][i]
    BY <1>1, <1>2
  <2>5. stacks'[t][n] = [stacks[t][n] EXCEPT !.phase = p]
    BY <1>1, <1>2
  <2> QED BY <1>1, <2>2, <2>3, <2>4, <2>5 DEF Frames
<1>4. Agree(t, n - 1) /\ \A i \in 1..(n - 1) : FrameOK(t, i)'
  <2>1. n - 1 \in Nat /\ n - 1 < Len(stacks[t]) /\ n - 1 <= Len(stacks'[t])
    BY <1>1, <1>3
  <2> QED BY <1>3, <2>1, LowerFramesStay
<1>5. Top(t).id \in CallsOf(t) /\ Top(t).id \in CallIds /\ Top(t).id < nextCallId
  <2>1. Top(t).id \in CallsOf(t) /\ Top(t).id \in CallIds
    BY <1>1, StackFacts
  <2> QED BY <2>1 DEF CallIdentity
<1>6. kinds'[Top(t).id] = kinds[Top(t).id] /\ taskEntryIsas'[t] = taskEntryIsas[t]
  BY <1>5 DEF StackStep
<1>7. \A u \in Tasks \ {t} : Same(u) /\ \A i \in DOMAIN stacks'[u] : FrameOK(u, i)'
  BY <1>5, OthersStay
<1>8. CallerOf(t, n)' = CallerOf(t, n) /\ IsaOf(CallerOf(t, n))' = IsaOf(CallerOf(t, n))
  <2>1. n \in 1..((n - 1) + 1)
    BY <1>1
  <2> QED BY <1>4, <1>6, <2>1, CallerKept, CallerIsaKept
<1>9. n \in Started(t)' <=> p = "Active"
  BY <1>1, <1>3, <1>6 DEF Started, Cross
<1>10. Owner(t)' = IF p = "Active" THEN <<t, Top(t).id>> ELSE CallerOf(t, n)
  <2>1. Started(t)' \subseteq 1..n
    BY <1>3 DEF Started
  <2>2. CASE p = "Active"
    <3>1. Newest(Started(t)') \in Started(t)' /\ \A j \in Started(t)' : j <= Newest(Started(t)')
      BY <1>1, <1>9, <2>1, <2>2, NewestExists
    <3>2. Newest(Started(t)') = n
      <4> DEFINE k == Newest(Started(t)')
      <4>1. k \in 1..n /\ n <= k
        BY <1>9, <2>1, <2>2, <3>1
      <4> HIDE DEF k
      <4>2. k = n
        BY <1>1, <4>1
      <4> QED BY <4>2 DEF k
    <3> QED BY <1>3, <1>9, <2>2, <3>2 DEF Owner
  <2>3. CASE p # "Active"
    <3>1. n \notin Started(t)'
      BY <1>9, <2>3
    <3>2. {j \in Started(t)' : j < n} = Started(t)'
      BY <1>1, <2>1, <3>1
    <3>3. Owner(t)' = CallerOf(t, n)'
      BY <3>2 DEF Owner, CallerOf
    <3> QED BY <1>8, <2>3, <3>3
  <2> QED BY <2>2, <2>3
<1>11. OwnerIsa(t)' = IF p = "Active"
                      THEN IF kinds[Top(t).id] = "ClassicToNative" THEN "PowerPc" ELSE "M68k"
                      ELSE IsaOf(CallerOf(t, n))
  <2>1. CASE p = "Active"
    BY <1>5, <1>6, <1>10, <2>1 DEF OwnerIsa, IsaOf, CallIds
  <2>2. CASE p # "Active"
    BY <1>8, <1>10, <2>2 DEF OwnerIsa
  <2> QED BY <2>1, <2>2
<1>12. Finished(t)' = (kinds[Top(t).id] = "ClassicToNative" /\ p = "Completed")
  <2>1. stacks'[t] # << >>
    BY <1>1, <1>3
  <2> QED BY <1>3, <1>6, <2>1 DEF Finished, TopKind, TopPhase, Top
<1> QED BY <1>1, <1>3, <1>4, <1>6, <1>7, <1>8, <1>10, <1>11, <1>12

\* A submitted call leaves every task in the interval it is in.
LEMMA PushedCall ==
  ASSUME TypeOK, TypeOK', FramesOK, CallIdentity, NEW t \in Tasks, StackStep(t, 0),
         NEW kind \in Kinds, NEW p \in Phases,
         stacks' = [stacks EXCEPT ![t] = Append(@, [id |-> nextCallId, phase |-> p])],
         kinds' = [kinds EXCEPT ![nextCallId] = kind], kinds \in [CallIds -> Kinds \cup {"None"}],
         stacks[t] # << >> /\ kinds[Top(t).id] \in Cross => Top(t).phase = "Active",
         p = IF kind = "NativeToNative" THEN "Active" ELSE "Pending",
         kind = "ClassicToClassic" => taskEntryIsas[t] = "M68k",
         kind = "NativeToNative" => taskEntryIsas[t] = "PowerPc",
         OwnerIsa(t) = IF kind \in {"ClassicToClassic", "ClassicToNative"} THEN "M68k" ELSE "PowerPc"
  PROVE  /\ FramesOK' /\ \A u \in Tasks \ {t} : Same(u)
         /\ Owner(t)' = Owner(t) /\ OwnerIsa(t)' = OwnerIsa(t)
         /\ ~ Finished(t) /\ ~ Finished(t)'
<1>0. PICK n : n = Len(stacks[t])
  OBVIOUS
<1>1. /\ n \in Nat /\ DOMAIN stacks[t] = 1..n /\ stacks[t] \in Seq(Frames)
      /\ DOMAIN stacks'[t] = 1..(n + 1) /\ Len(stacks'[t]) = n + 1
      /\ \A i \in 1..n : stacks'[t][i] = stacks[t][i]
      /\ stacks'[t][n + 1].id = nextCallId /\ stacks'[t][n + 1].phase = p
  <2>1. stacks'[t] = Append(stacks[t], [id |-> nextCallId, phase |-> p])
    BY DEF TypeOK
  <2>2. stacks[t] \in Seq(Frames) /\ [id |-> nextCallId, phase |-> p] \in Frames
    BY DEF TypeOK, Frames
  <2> QED BY <1>0, <2>1, <2>2
<1>2. /\ \A i \in 1..n : stacks[t][i].id \in CallIds /\ stacks[t][i].id < nextCallId
      /\ nextCallId \in CallIds /\ taskEntryIsas'[t] = taskEntryIsas[t]
      /\ kinds'[nextCallId] = kind
  <2>1. nextCallId \in CallIds
    BY DEF TypeOK
  <2>2. ASSUME NEW i \in 1..n PROVE stacks[t][i].id \in CallIds /\ stacks[t][i].id < nextCallId
    <3>1. i \in DOMAIN stacks[t]
      BY <1>1
    <3>2. stacks[t][i].id \in CallIds /\ stacks[t][i].id \in CallsOf(t)
      BY <3>1, StackFacts
    <3> QED BY <3>2 DEF CallIdentity
  <2>3. kinds'[nextCallId] = kind
    BY <2>1
  <2> QED BY <2>1, <2>2, <2>3 DEF StackStep
<1>3. Agree(t, n)
  BY <1>0, <1>1, <1>2 DEF Agree, StackStep
<1>4. ASSUME NEW i \in 1..n PROVE FrameOK(t, i)'
  <2>1. FrameOK(t, i)
    BY <1>1 DEF FramesOK
  <2>2. Untouched(t, i)
    BY <1>2 DEF StackStep, Untouched, CallIds
  <2>3. kinds[stacks[t][i].id] \in Cross => stacks[t][i].phase = "Active"
    <3>1. CASE i = n
      <4>1. stacks[t] # << >> /\ Top(t) = stacks[t][i]
        BY <1>0, <1>1, <3>1 DEF Top
      <4> QED BY <4>1
    <3>2. CASE i # n
      BY <1>0, <1>1, <3>2, OnlyTopWaits
    <3> QED BY <3>1, <3>2
  <2> QED BY <1>2, <1>3, <2>1, <2>2, <2>3, FrameStays
<1>5. Owner(t) = CallerOf(t, n + 1)
  BY <1>0, OwnerIsCaller
<1>6. n + 1 \in 1..(n + 1)
  BY <1>1
<1>7. CallerOf(t, n + 1)' = CallerOf(t, n + 1) /\ IsaOf(CallerOf(t, n + 1))' = IsaOf(CallerOf(t, n + 1))
  BY <1>2, <1>3, <1>6, CallerKept, CallerIsaKept
<1>8. n + 1 \notin Started(t)'
  BY <1>1, <1>2 DEF Started, Kinds
<1>9. Owner(t)' = CallerOf(t, n + 1)'
  <2>1. Started(t)' \subseteq 1..(n + 1)
    BY <1>1 DEF Started
  <2>2. \A j \in Started(t)' : j < n + 1
    BY <1>1, <1>8, <2>1
  <2> DEFINE below == {j \in Started(t)' : j < n + 1}
  <2>3. below = Started(t)'
    BY <2>2
  <2>4. CallerOf(t, n + 1)' = IF below = {} THEN <<t, 0>> ELSE <<t, stacks'[t][Newest(below)].id>>
    BY DEF CallerOf
  <2> HIDE DEF below
  <2> QED BY <2>3, <2>4 DEF Owner
<1>10. FrameOK(t, n + 1)'
  <2>1. FrameShape(t, n + 1)'
    BY <1>1, <1>2, <1>5, <1>7 DEF FrameShape, OwnerIsa, Kinds, Cross
  <2>2. FrameKept(t, n + 1)'
    BY <1>1, <1>2 DEF FrameKept, ParksClassic, ParksNative
  <2> QED BY <2>1, <2>2 DEF FrameOK
<1>11. \A i \in DOMAIN stacks'[t] : FrameOK(t, i)'
  BY <1>1, <1>4, <1>10
<1>12. \A u \in Tasks \ {t} : Same(u) /\ \A i \in DOMAIN stacks'[u] : FrameOK(u, i)'
  BY OthersStay
<1>13. ~ Finished(t) /\ ~ Finished(t)'
  <2>1. ~ Finished(t)
    BY DEF Finished, TopKind, TopPhase, Cross
  <2>2. TopPhase(t)' = p
    BY <1>1 DEF TopPhase, Top
  <2> QED BY <2>1, <2>2 DEF Finished
<1> QED BY <1>5, <1>7, <1>9, <1>11, <1>12, <1>13 DEF OwnerIsa, FramesOK

---------------------------------------------------------------------------
(* Where the registers of every task are *)

Bound == \A t \in Registered : taskEntryIsas[t] \in {"M68k", "PowerPc"}

\* A task that does not run has the snapshot of its interval.
Saved ==
  \A t \in Registered : taskStates[t] # "Running" =>
    /\ ~ Finished(t)
    /\ IF OwnerIsa(t) = "M68k" THEN cooperativeContexts[t] = Owner(t)
       ELSE nativeThreads[t] = Owner(t)

\* The running task's registers are in its engine or in the handoff, or its classic
\* caller is about to be taken from the bank.
Installed ==
  taskStates[currentTask] = "Running" =>
    IF handoff # NoHandoff
    THEN /\ handoff.task = currentTask /\ handoff.isa = OwnerIsa(currentTask)
         /\ handoff.context = Owner(currentTask) /\ ~ Finished(currentTask)
    ELSE IF OwnerIsa(currentTask) = "PowerPc"
    THEN native = Owner(currentTask) /\ nativeCpuTask = currentTask
    ELSE ~ Finished(currentTask) => classic = Owner(currentTask)

\* A task whose registers the native engine still holds while another one runs.
Displaced ==
  /\ handoff # NoHandoff => taskStates[currentTask] = "Running"
  /\ nativeCpuTask \in Registered \cup {NoTask}
  /\ nativeCpuTask # NoTask /\ taskStates[nativeCpuTask] # "Running"
       /\ OwnerIsa(nativeCpuTask) = "PowerPc" => native = Owner(nativeCpuTask)

Engines == Bound /\ Saved /\ Installed /\ Displaced

\* The inductive invariant of mixed-mode execution.
GuestInv == Scheduling /\ CallIdentity /\ GuestTypeOK /\ FramesOK /\ Engines

\* An interval names its task.
LEMMA OwnerNames ==
  ASSUME TypeOK, NEW t \in Tasks
  PROVE  Owner(t) \in Intervals /\ Owner(t)[1] = t /\ Owner(t) # Stale /\ Owner(t) # NoContext
<1>1. \/ Owner(t) = <<t, 0>>
      \/ \E i \in DOMAIN stacks[t] : Owner(t) = <<t, stacks[t][i].id>>
  <2>1. PICK i : Owner(t) = CallerOf(t, i)
    BY OwnerIsCaller
  <2>2. Below(t, i) \subseteq DOMAIN stacks[t]
    BY DEF Below, Started
  <2> QED BY <2>1, <2>2, CallerIs
<1>2. Owner(t) \in Intervals /\ Owner(t)[1] = t
  BY <1>1, StackFacts DEF Intervals
<1> QED BY <1>2, GuestAssumption DEF Contexts

\* Its architecture is one of two.
LEMMA OwnerIsaIs ==
  ASSUME TypeOK, Bound, NEW t \in Registered
  PROVE  OwnerIsa(t) \in {"M68k", "PowerPc"}
<1>1. t \in Tasks
  BY DEF Registered
<1>2. CASE Owner(t)[2] = 0
  BY <1>1, <1>2, OwnerNames DEF OwnerIsa, IsaOf, Bound
<1>3. CASE Owner(t)[2] # 0
  BY <1>3 DEF OwnerIsa, IsaOf
<1> QED BY <1>2, <1>3

\* The architecture of a task, by its newest call.
LEMMA IsaByTop ==
  ASSUME TypeOK, FramesOK, NEW t \in Tasks
  PROVE  /\ TopKind(t) \in Kinds \cup {"None"}
         /\ TopKind(t) = "None" <=> stacks[t] = << >>
         /\ stacks[t] = << >> => OwnerIsa(t) = taskEntryIsas[t]
         /\ TopKind(t) = "ClassicToClassic" =>
              TopPhase(t) = "Pending" /\ taskEntryIsas[t] = "M68k" /\ OwnerIsa(t) = "M68k"
         /\ TopKind(t) = "NativeToNative" =>
              TopPhase(t) = "Active" /\ taskEntryIsas[t] = "PowerPc" /\ OwnerIsa(t) = "PowerPc"
         /\ TopKind(t) = "ClassicToNative" =>
              /\ TopPhase(t) \in Phases
              /\ OwnerIsa(t) = IF TopPhase(t) = "Active" THEN "PowerPc" ELSE "M68k"
         /\ TopKind(t) = "NativeToClassic" =>
              /\ TopPhase(t) \in {"Pending", "Active"}
              /\ OwnerIsa(t) = IF TopPhase(t) = "Active" THEN "M68k" ELSE "PowerPc"
<1>1. CASE stacks[t] = << >>
  BY <1>1, NoCalls DEF TopKind, TopPhase, Kinds
<1>2. CASE stacks[t] # << >>
  <2> DEFINE n == Len(stacks[t])
  <2>1. n \in DOMAIN stacks[t] /\ Top(t) = stacks[t][n]
    BY <1>2, StackFacts DEF Top
  <2>2. FrameShape(t, n) /\ Top(t).phase \in Phases /\ Top(t).id # 0
    BY <2>1, StackFacts DEF FramesOK, FrameOK, CallIds
  <2>3. TopKind(t) = kinds[Top(t).id] /\ TopPhase(t) = Top(t).phase
    BY <1>2 DEF TopKind, TopPhase
  <2>4. OwnerIsa(t) = IF TopPhase(t) = "Active" /\ TopKind(t) \in Cross
                      THEN IsaOf(<<t, Top(t).id>>) ELSE IsaOf(CallerOf(t, n))
    BY <1>2, <2>3, OwnerOverTop DEF OwnerIsa
  <2>5. IsaOf(<<t, Top(t).id>>) = IF TopKind(t) = "ClassicToNative" THEN "PowerPc" ELSE "M68k"
    BY <2>2, <2>3 DEF IsaOf
  <2>6. /\ TopKind(t) \in Kinds
        /\ TopKind(t) = "ClassicToClassic" => TopPhase(t) = "Pending" /\ taskEntryIsas[t] = "M68k"
        /\ TopKind(t) = "NativeToNative" => TopPhase(t) = "Active" /\ taskEntryIsas[t] = "PowerPc"
        /\ TopKind(t) = "NativeToClassic" => TopPhase(t) # "Completed"
        /\ IsaOf(CallerOf(t, n)) =
             IF TopKind(t) \in {"ClassicToClassic", "ClassicToNative"} THEN "M68k" ELSE "PowerPc"
        /\ TopPhase(t) \in Phases
    BY <2>1, <2>2, <2>3 DEF FrameShape
  <2> HIDE DEF n
  <2> QED BY <1>2, <2>4, <2>5, <2>6 DEF Kinds, Phases, Cross
<1> QED BY <1>1, <1>2

\* What holds whenever guest code runs.
Runs(context, isa) ==
  /\ context = Owner(currentTask) /\ OwnerIsa(currentTask) = isa
  /\ taskStates[currentTask] = "Running" /\ handoff = NoHandoff /\ ~ Finished(currentTask)
  /\ TopKind(currentTask) \in Cross => TopPhase(currentTask) = "Active"

\* Native code runs as the selected task's interval.
LEMMA NativeIsOwner ==
  ASSUME GuestInv, NativeRuns
  PROVE  Runs(native, "PowerPc") /\ nativeCpuTask = currentTask /\ TopKind(currentTask) # "NativeToClassic"
<1> DEFINE t == currentTask
<1>1. /\ taskStates[t] = "Running" /\ handoff = NoHandoff /\ nativeCpuTask = t
      /\ taskEntryIsas[t] = "PowerPc" \/ TopKind(t) \in Cross
      /\ TopKind(t) # "NativeToClassic"
      /\ TopKind(t) = "ClassicToNative" => TopPhase(t) = "Active"
  BY DEF NativeRuns, Prepared, Route, Cross
<1>2. t \in Tasks /\ TypeOK /\ FramesOK /\ Installed
  BY DEF GuestInv, Engines, Scheduling, TypeOK
<1>3. OwnerIsa(t) = "PowerPc"
  BY <1>1, <1>2, IsaByTop DEF Kinds, Cross
<1>4. native = Owner(t)
  BY <1>1, <1>2, <1>3 DEF Installed
<1>5. ~ Finished(t)
  BY <1>1 DEF Finished
<1> QED BY <1>1, <1>3, <1>4, <1>5 DEF Runs, Cross

\* Classic code runs as the selected task's interval.
LEMMA ClassicIsOwner ==
  ASSUME GuestInv, ClassicRuns
  PROVE  Runs(classic, "M68k") /\ TopKind(currentTask) \notin {"ClassicToNative", "NativeToNative"}
<1> DEFINE t == currentTask
<1>1. /\ t \in Tasks /\ t \in Registered /\ TypeOK /\ FramesOK /\ Installed /\ Bound
      /\ handoff # NoHandoff => handoff.isa = "M68k" \/ handoff.isa = "PowerPc"
  BY DEF GuestInv, Engines, Scheduling, TypeOK, SingleRunner, GuestTypeOK
<1>2. CASE Route = "Classic" /\ ~ (handoff # NoHandoff /\ handoff.isa = "M68k")
  <2>1. taskStates[t] = "Running" /\ taskEntryIsas[t] = "M68k" /\ TopKind(t) \notin Cross
    BY <1>1, <1>2 DEF Route, Bound, Cross
  <2>2. TopKind(t) \in {"None", "ClassicToClassic"} /\ OwnerIsa(t) = "M68k"
    BY <1>1, <2>1, IsaByTop DEF Kinds, Cross
  <2>3. ~ Finished(t)
    BY <2>2 DEF Finished
  <2>4. handoff = NoHandoff /\ classic = Owner(t)
    BY <1>1, <1>2, <2>1, <2>2, <2>3 DEF Installed
  <2> QED BY <2>1, <2>2, <2>3, <2>4 DEF Runs
<1>3. CASE Prepared /\ TopKind(t) = "NativeToClassic" /\ TopPhase(t) = "Active"
  <2>1. taskStates[t] = "Running" /\ handoff = NoHandoff /\ ~ Finished(t)
    BY <1>3 DEF Prepared, Route, Finished
  <2>2. OwnerIsa(t) = "M68k"
    BY <1>1, <1>3, IsaByTop
  <2>3. classic = Owner(t)
    BY <1>1, <2>1, <2>2 DEF Installed
  <2> QED BY <1>3, <2>1, <2>2, <2>3 DEF Runs
<1> QED BY <1>2, <1>3 DEF ClassicRuns

\* The snapshot that saved_context picks for a task that does not run is its own.
LEMMA SnapshotIsOwner ==
  ASSUME GuestInv, NEW t \in Registered, taskStates[t] # "Running"
  PROVE  /\ SavedIsa(t) = OwnerIsa(t) /\ SavedContext(t) = Owner(t) /\ ~ Finished(t)
         /\ OwnerIsa(t) \in {"M68k", "PowerPc"}
<1>1. t \in Tasks /\ TypeOK /\ FramesOK /\ Bound /\ Saved
  BY DEF GuestInv, Engines, Scheduling, Registered
<1>2. /\ ~ Finished(t)
      /\ IF OwnerIsa(t) = "M68k" THEN cooperativeContexts[t] = Owner(t) ELSE nativeThreads[t] = Owner(t)
  BY <1>1 DEF Saved
<1>3. Owner(t) # NoContext /\ OwnerIsa(t) \in {"M68k", "PowerPc"}
  BY <1>1, OwnerNames, OwnerIsaIs
<1>4. SavedIsa(t) = OwnerIsa(t)
  <2>1. CASE stacks[t] = << >>
    <3>1. OwnerIsa(t) = taskEntryIsas[t]
      BY <1>1, <2>1, NoCalls
    <3> QED BY <1>2, <1>3, <2>1, <3>1 DEF SavedIsa
  <2>2. CASE stacks[t] # << >>
    BY <1>1, <1>2, <2>2, IsaByTop DEF SavedIsa, Finished, Kinds, Phases
  <2> QED BY <2>1, <2>2
<1> QED BY <1>2, <1>3, <1>4 DEF SavedContext

---------------------------------------------------------------------------
(* Every step of the guest and of the runner keeps the kernel's books *)

\* Taking the newest call off the selected task's stack keeps the scheduler's
\* invariant and the calls' identities.
LEMMA PopKeepsKernel ==
  ASSUME Scheduling, CallIdentity, stacks[currentTask] # << >>, stacks' = WithoutTop(currentTask),
         UNCHANGED <<currentTask, nextCallId, nextTaskId, retiredTasks, taskStates,
                     taskEntryIsas, ready, criticalDepth>>,
         attachedContexts' \in [CallIds -> Nat],
         powerpcContexts' \subseteq Slots, m68kContexts' \subseteq Slots
  PROVE  Scheduling' /\ CallIdentity'
<1>1. TypeOK /\ SingleRunner /\ ReadyQueueExact /\ RetiredForever /\ currentTask \in Tasks
  BY DEF Scheduling, TypeOK
<1>2. stacks' \in [Tasks -> Seq(Frames)]
  BY <1>1, StackRewrites
<1>3. TypeOK'
  BY <1>1, <1>2 DEF TypeOK
<1>4. SingleRunner' /\ ReadyQueueExact'
  BY <1>1 DEF SingleRunner, Registered, ReadyQueueExact
<1>5. RetiredForever'
  <2>1. \A u \in Tasks \ Registered : stacks'[u] = stacks[u]
    BY <1>1 DEF WithoutTop, TypeOK, SingleRunner
  <2> QED BY <1>1, <2>1 DEF RetiredForever, Registered
<1>6. CallIdentity'
  BY <1>1, Removal, IdentityKept
<1> QED BY <1>3, <1>4, <1>5, <1>6 DEF Scheduling

\* A call that is active at once keeps them too (Submit and Activate in one step).
LEMMA PushKeepsKernel ==
  ASSUME Scheduling, CallIdentity, nextCallId < MaxCallId,
         stacks' = [stacks EXCEPT ![currentTask] =
                      Append(@, [id |-> nextCallId, phase |-> "Active"])],
         nextCallId' = nextCallId + 1,
         UNCHANGED <<currentTask, nextTaskId, attachedContexts, retiredTasks, taskStates,
                     taskEntryIsas, ready, criticalDepth, bankVars>>
  PROVE  Scheduling' /\ CallIdentity'
<1>1. TypeOK /\ SingleRunner /\ ReadyQueueExact /\ RetiredForever /\ currentTask \in Tasks
  BY DEF Scheduling, TypeOK
<1>2. stacks' \in [Tasks -> Seq(Frames)]
  <2>1. [id |-> nextCallId, phase |-> "Active"] \in Frames
    BY <1>1 DEF Frames, Phases, TypeOK
  <2>2. Append(stacks[currentTask], [id |-> nextCallId, phase |-> "Active"]) \in Seq(Frames)
    BY <1>1, <2>1 DEF TypeOK
  <2> QED BY <1>1, <2>2 DEF TypeOK
<1>3. nextCallId' \in CallIds
  BY <1>1, BoundsAssumption DEF TypeOK, CallIds
<1>4. TypeOK'
  BY <1>1, <1>2, <1>3 DEF TypeOK, bankVars
<1>5. SingleRunner' /\ ReadyQueueExact'
  BY <1>1 DEF SingleRunner, Registered, ReadyQueueExact
<1>6. RetiredForever'
  <2>1. \A u \in Tasks \ Registered : stacks'[u] = stacks[u]
    BY <1>1 DEF TypeOK, SingleRunner
  <2> QED BY <1>1, <2>1 DEF RetiredForever, Registered
<1>7. CallIdentity'
  BY <1>1, PushKeepsIdentity DEF Phases
<1> QED BY <1>4, <1>5, <1>6, <1>7 DEF Scheduling

\* A new thread (CreateTask, BindTaskEntryIsa and SetSchedulingState in one step).
LEMMA CreateKeepsKernel ==
  ASSUME Scheduling, CallIdentity, NEW n \in BOOLEAN, NEW suspended \in BOOLEAN,
         CreateThread(n, suspended)
  PROVE  Scheduling' /\ CallIdentity' /\ stacks' = stacks
<1> DEFINE t == nextTaskId
<1>1. /\ TypeOK /\ SingleRunner /\ ReadyQueueExact /\ RetiredForever
      /\ t \in Tasks /\ t \notin Registered /\ stacks[t] = << >> /\ taskStates[t] = "Absent"
      /\ t \notin retiredTasks
  BY DEF Scheduling, CreateThread, TypeOK, RetiredForever, Registered
<1>2. stacks' = stacks
  BY <1>1 DEF CreateThread, TypeOK
<1>3. /\ taskStates' = [taskStates EXCEPT ![t] = IF suspended THEN "Stopped" ELSE "Ready"]
      /\ ready' = IF suspended THEN ready ELSE Append(ready, t)
      /\ nextTaskId' = IF t = LastTaskId THEN NoTask ELSE t + 1
      /\ taskEntryIsas' = [taskEntryIsas EXCEPT ![t] = IF n THEN "PowerPc" ELSE "M68k"]
      /\ UNCHANGED <<currentTask, nextCallId, attachedContexts, retiredTasks, criticalDepth, bankVars>>
  BY DEF CreateThread
<1>4. /\ ready' \in Seq(Tasks) /\ Distinct(ready')
      /\ Entries(ready') = IF suspended THEN Entries(ready) ELSE Entries(ready) \cup {t}
  <2>1. ready \in Seq(Tasks) /\ Distinct(ready) /\ t \notin Entries(ready)
    BY <1>1 DEF TypeOK, ReadyQueueExact
  <2>2. /\ Append(ready, t) \in Seq(Tasks) /\ Distinct(Append(ready, t))
        /\ Entries(Append(ready, t)) = Entries(ready) \cup {t}
    BY <1>1, <2>1, PushProperties
  <2> QED BY <1>3, <2>1, <2>2
<1>5. TypeOK'
  <2>1. nextTaskId' \in Tasks \cup {NoTask}
    BY <1>1, <1>3, BoundsAssumption DEF Tasks, Application, NoTask
  <2>2. taskStates' \in [Tasks -> States \cup {"Absent"}]
    BY <1>1, <1>3 DEF TypeOK, States
  <2>3. taskEntryIsas' \in [Tasks -> {"M68k", "PowerPc", "Unbound"}]
    BY <1>1, <1>3 DEF TypeOK
  <2> HIDE DEF t
  <2> QED BY <1>1, <1>2, <1>3, <1>4, <2>1, <2>2, <2>3 DEF TypeOK, bankVars
<1>6. SingleRunner'
  BY <1>1, <1>3 DEF SingleRunner, Registered, TypeOK
<1>7. ReadyQueueExact'
  <2>1. {u \in Tasks : taskStates'[u] = "Ready"} =
          IF suspended THEN {u \in Tasks : taskStates[u] = "Ready"}
          ELSE {u \in Tasks : taskStates[u] = "Ready"} \cup {t}
    BY <1>1, <1>3 DEF TypeOK
  <2> HIDE DEF t
  <2> QED BY <1>1, <1>4, <2>1 DEF ReadyQueueExact
<1>8. RetiredForever'
  <2>1. Registered' = Registered \cup {t}
    BY <1>1, <1>3 DEF Registered, TypeOK
  <2>2. nextTaskId' # NoTask => t < nextTaskId' /\ \A u \in Registered \cup retiredTasks : u < nextTaskId'
    <3>1. \A u \in Registered \cup retiredTasks : u \in Nat /\ u < t
      BY <1>1, TasksAreNat DEF RetiredForever, Registered, TypeOK
    <3> QED BY <1>1, <1>3, <3>1, TasksAreNat
  <2> QED BY <1>1, <1>2, <1>3, <2>1, <2>2 DEF RetiredForever
<1>9. CallIdentity'
  <2>1. nextCallId' = nextCallId
    BY <1>3
  <2> QED BY <1>2, <2>1 DEF CallIdentity, CallsOf
<1> QED BY <1>2, <1>5, <1>6, <1>7, <1>8, <1>9 DEF Scheduling

\* Guest and runner drive the kernel through its own operations.
LEMMA KernelKept ==
  ASSUME Scheduling, CallIdentity, [GuestNext]_allVars
  PROVE  Scheduling' /\ CallIdentity'
<1>0. /\ TypeOK /\ SingleRunner /\ currentTask \in Tasks
      /\ \A c, p : ValidTransition(currentTask, c, p) => c \in CallIds
  BY TopIsCall DEF Scheduling, TypeOK
<1>1. ASSUME [Next]_vars PROVE Scheduling' /\ CallIdentity'
  BY <1>1, StepScheduling, StepCallIdentity
<1>2. ASSUME \/ RunNative \/ RunClassic \/ ApplyTaskHandoff \/ PrepareNativeTask
             \/ UNCHANGED allVars
      PROVE  UNCHANGED vars
  BY <1>2 DEF RunNative, RunClassic, Overtake, ApplyTaskHandoff, MayApplyHandoff,
              PrepareNativeTask, MayPrepareNative, Replacing, allVars
<1>3. ASSUME BeginClassicToClassic \/ BeginClassicToNative \/ BeginNativeToClassic PROVE Next
  BY <1>0, <1>3 DEF BeginClassicToClassic, BeginClassicToNative, BeginNativeToClassic, SubmitEffect,
                    Next, Call
<1>4. ASSUME CallNativeToNative PROVE Scheduling' /\ CallIdentity'
  BY <1>4, PushKeepsKernel DEF CallNativeToNative
<1>5. ASSUME ReturnSameEngine PROVE Scheduling' /\ CallIdentity'
  <2>1. /\ stacks[currentTask] # << >> /\ stacks' = WithoutTop(currentTask)
        /\ UNCHANGED <<currentTask, nextCallId, nextTaskId, retiredTasks, taskStates,
                       taskEntryIsas, ready, criticalDepth, attachedContexts, bankVars>>
    BY <1>5 DEF ReturnSameEngine, ValidTransition
  <2> QED BY <1>0, <2>1, PopKeepsKernel DEF bankVars, TypeOK
<1>6. ASSUME CompletePowerPcForM68k PROVE Next
  BY <1>0, <1>6 DEF CompletePowerPcForM68k, TakeWhileCompleting, Next, Call
<1>7. ASSUME CompleteM68kForPowerPc PROVE Scheduling' /\ CallIdentity'
  <2>1. /\ stacks[currentTask] # << >> /\ stacks' = WithoutTop(currentTask)
        /\ UNCHANGED <<currentTask, nextCallId, nextTaskId, retiredTasks, taskStates,
                       taskEntryIsas, ready, criticalDepth>>
        /\ attachedContexts' \in [CallIds -> Nat]
        /\ powerpcContexts' \subseteq Slots /\ m68kContexts' \subseteq Slots
    BY <1>0, <1>7 DEF CompleteM68kForPowerPc, ValidTransition, TypeOK
  <2> QED BY <2>1, PopKeepsKernel
<1>8. ASSUME CriticalSection PROVE Next
  BY <1>8 DEF CriticalSection, Next, Schedule
<1>9. ASSUME NEW n \in BOOLEAN, NEW suggested \in Tasks \cup {NoTask}, YieldTask(n, suggested)
      PROVE  Next
  <2>1. PICK next : SwitchToTask(next)
    BY <1>9 DEF YieldTask
  <2> QED BY <2>1 DEF SwitchToTask, MaySwitchTo, Registered, Next, Schedule
<1>10. ASSUME NEW n \in BOOLEAN, NEW t \in Tasks, NEW s \in States,
              NEW suggested \in Tasks \cup {NoTask}, NEW e \in BOOLEAN,
              SetThreadState(n, t, s, suggested, e)
       PROVE  Next
  BY <1>10 DEF SetThreadState, Next, Schedule
<1>11. ASSUME NEW n \in BOOLEAN, NEW suspended \in BOOLEAN, CreateThread(n, suspended)
       PROVE  Scheduling' /\ CallIdentity'
  BY <1>11, CreateKeepsKernel
<1>12. ASSUME NEW n \in BOOLEAN, NEW t \in Tasks, RetireThread(n, t) PROVE Next
  <2>1. PICK next : RetireTask(t, next)
    BY <1>12 DEF RetireThread
  <2>2. next \in Tasks \cup {NoTask}
    BY <2>1 DEF RetireTask, Registered
  <2> QED BY <2>1, <2>2 DEF Next, Schedule
<1>13. ASSUME ActivatePowerPcTransition \/ ResumeM68kAfterPowerPc PROVE Next
  BY <1>0, <1>13 DEF ActivatePowerPcTransition, MayActivatePowerPc,
                    ParkPairWhileActivating, MayParkPair, ResumeM68kAfterPowerPc,
                    MayResumeM68k, RetireWithContext, MayRetire, Next, Call
<1>14. ASSUME ActivateM68kParking PROVE Next
  <2>1. PICK c, caller : ActivateParkingCaller(currentTask, c, caller)
    BY <1>14 DEF ActivateM68kParking, MayActivateM68k
  <2>2. c \in CallIds /\ caller \in CallIds \cup {0}
    BY <1>0, <2>1, StackFacts DEF ActivateParkingCaller, MayParkCaller, OwnedByCurrent,
                    CallsOf
  <2> QED BY <1>0, <2>1, <2>2 DEF Next, Call
<1>15. ASSUME ResumeReadyTask PROVE Next
  <2>1. PICK next : SwitchToTask(next)
    BY <1>15 DEF ResumeReadyTask, MayResumeReady, ReadySuccessor
  <2> QED BY <2>1 DEF SwitchToTask, MaySwitchTo, Registered, Next, Schedule
<1>16. ASSUME NEW t \in Tasks, ReadyGivenTask(t) PROVE Next
  BY <1>16 DEF ReadyGivenTask, States, Next, Schedule
<1> QED BY <1>1, <1>2, <1>3, <1>4, <1>5, <1>6, <1>7, <1>8, <1>9, <1>10, <1>11, <1>12, <1>13, <1>14,
           <1>15, <1>16 DEF GuestNext, Guest, Runner

---------------------------------------------------------------------------
(* Every variable keeps its type *)

\* A snapshot that may be installed is a register set.
LEMMA SnapshotIsContext ==
  ASSUME GuestTypeOK, NEW t \in Tasks, SavedContext(t) # NoContext
  PROVE  SavedContext(t) \in Contexts
BY DEF GuestTypeOK, SavedContext

\* Registers that the code ran past are stale registers.
LEMMA OvertakenTypes ==
  ASSUME NEW S, NEW copies \in [S -> Contexts \cup {NoContext}], NEW k
  PROVE  /\ Overtaken(copies, k) \in [S -> Contexts \cup {NoContext}]
         /\ \A x \in S : copies[x] \in Contexts => Overtaken(copies, k)[x] \in Contexts
         /\ \A x \in S : copies[x] # k => Overtaken(copies, k)[x] = copies[x]
BY DEF Overtaken, Contexts

\* The successor that a switch names and its architecture.
LEMMA InstallTypes ==
  ASSUME GuestTypeOK, NEW next \in Tasks \cup {NoTask}, Installable(next)
  PROVE  /\ \A h \in Tasks \cup {NoTask} : InstallFromNative(h, next) =>
              /\ native' \in Contexts /\ classic' \in Contexts /\ nativeCpuTask' \in Tasks \cup {NoTask}
              /\ handoff' \in [task : Tasks \cup {NoTask}, isa : {"M68k", "PowerPc"}, context : Contexts]
         /\ InstallFromClassic(next) =>
              /\ native' \in Contexts /\ classic' \in Contexts
              /\ handoff' \in [task : Tasks \cup {NoTask}, isa : {"M68k", "PowerPc"}, context : Contexts]
<1>1. next # NoTask => next \in Tasks /\ SavedContext(next) \in Contexts
  BY SnapshotIsContext DEF Installable
<1> QED BY <1>1 DEF InstallFromNative, InstallFromClassic, GuestTypeOK

\* No step writes a value of another type.
LEMMA TypesKept ==
  ASSUME GuestInv, TypeOK', [GuestNext]_allVars
  PROVE  GuestTypeOK'
<1>0. /\ TypeOK /\ GuestTypeOK /\ currentTask \in Tasks
      /\ \A c, p : ValidTransition(currentTask, c, p) => c \in CallIds
  BY TopIsCall DEF GuestInv, Scheduling, TypeOK, GuestTypeOK
<1> DEFINE Calls   == /\ kinds' \in [CallIds -> Kinds \cup {"None"}]
                      /\ powerpcParked' \in [CallIds -> Contexts \cup {NoContext}]
                      /\ m68kParked' \in [CallIds -> Contexts \cup {NoContext}]
           Engine  == /\ native' \in Contexts /\ classic' \in Contexts
                      /\ nativeCpuTask' \in Tasks \cup {NoTask}
                      /\ handoff' \in [task : Tasks \cup {NoTask}, isa : {"M68k", "PowerPc"},
                                       context : Contexts]
           Threads == /\ nativeThreads' \in [Tasks -> Contexts \cup {NoContext}]
                      /\ cooperativeContexts' \in [Tasks -> Contexts \cup {NoContext}]
<1>a. Calls /\ Engine /\ Threads => GuestTypeOK'
  BY DEF GuestTypeOK
<1>b. /\ UNCHANGED <<kinds, powerpcParked, m68kParked>> => Calls
      /\ UNCHANGED <<native, classic, nativeCpuTask, handoff>> => Engine
      /\ UNCHANGED <<nativeThreads, cooperativeContexts>> => Threads
  BY <1>0 DEF GuestTypeOK
<1>1. CASE UNCHANGED guestVars
  BY <1>1, <1>a, <1>b DEF guestVars
<1>2. ASSUME NEW k, Overtake(k) PROVE GuestTypeOK'
  <2>1. Threads /\ powerpcParked' \in [CallIds -> Contexts \cup {NoContext}]
        /\ m68kParked' \in [CallIds -> Contexts \cup {NoContext}]
    BY <1>0, <1>2, OvertakenTypes DEF Overtake, GuestTypeOK
  <2>2. kinds' \in [CallIds -> Kinds \cup {"None"}] /\ Engine
    BY <1>0, <1>b, <1>2 DEF Overtake, GuestTypeOK
  <2> QED BY <1>a, <2>1, <2>2
<1>3. CASE BeginClassicToClassic \/ BeginClassicToNative \/ BeginNativeToClassic \/ CallNativeToNative
  <2>1. /\ UNCHANGED <<powerpcParked, m68kParked>> /\ Engine /\ Threads
        /\ \E kind \in Kinds : kinds' = [kinds EXCEPT ![nextCallId] = kind]
    BY <1>b, <1>3 DEF BeginClassicToClassic, BeginClassicToNative, BeginNativeToClassic,
       CallNativeToNative, SubmitEffect, Kinds
  <2>2. kinds \in [CallIds -> Kinds \cup {"None"}]
    BY <1>0 DEF GuestTypeOK
  <2>3. kinds' \in [CallIds -> Kinds \cup {"None"}]
    BY <2>1, <2>2
  <2>4. Calls
    BY <1>0, <2>1, <2>3 DEF GuestTypeOK
  <2> QED BY <1>a, <2>1, <2>4
<1>4. CASE CompletePowerPcForM68k \/ CompleteM68kForPowerPc
  <2> DEFINE t == currentTask
             n == Len(stacks[t])
             c == Top(t).id
  <2>1. /\ stacks[t] # << >> /\ Top(t).phase = "Active" /\ kinds[c] \in Cross
        /\ native' = powerpcParked[c] /\ powerpcParked' = [powerpcParked EXCEPT ![c] = NoContext]
        /\ UNCHANGED <<kinds, classic, nativeThreads, cooperativeContexts, m68kParked,
                       nativeCpuTask, handoff>>
    BY <1>4 DEF CompletePowerPcForM68k, CompleteM68kForPowerPc, TakeWhileCompleting,
       ValidTransition, TopKind, Cross
  <2>2. powerpcParked[c] \in Contexts
    <3>1. n \in DOMAIN stacks[t] /\ stacks[t][n] = Top(t)
      BY <1>0, <2>1, StackFacts DEF Top
    <3>2. FrameKept(t, n)
      BY <1>0, <3>1 DEF GuestInv, FramesOK, FrameOK
    <3>3. CallerOf(t, n) \in Contexts
      <4>1. Below(t, n) \subseteq DOMAIN stacks[t]
        BY DEF Below, Started
      <4>2. \/ CallerOf(t, n) = <<t, 0>>
            \/ \E i \in DOMAIN stacks[t] : CallerOf(t, n) = <<t, stacks[t][i].id>>
        BY <1>0, <4>1, CallerIs
      <4> QED BY <1>0, <4>2, StackFacts DEF Contexts, Intervals
    <3> HIDE DEF n
    <3> QED BY <2>1, <3>1, <3>2, <3>3 DEF FrameKept, ParksClassic, ParksNative, Cross
  <2> HIDE DEF c, t
  <2>3. Calls
    BY <1>0, <2>1 DEF GuestTypeOK
  <2>4. Engine /\ Threads
    BY <1>0, <2>1, <2>2 DEF GuestTypeOK
  <2> QED BY <1>a, <2>3, <2>4
<1>5. CASE ActivatePowerPcTransition \/ ActivateM68kParking
  <2> DEFINE c == Top(currentTask).id
  <2>1. /\ c \in CallIds /\ powerpcParked' = [powerpcParked EXCEPT ![c] = native]
        /\ \/ m68kParked' = m68kParked
           \/ \E d : m68kParked' = [m68kParked EXCEPT ![d] = classic]
        /\ native' \in {native, <<currentTask, c>>} /\ classic' \in {Stale, <<currentTask, c>>}
        /\ UNCHANGED <<kinds, nativeThreads, cooperativeContexts, nativeCpuTask, handoff>>
    BY <1>0, <1>5 DEF ActivatePowerPcTransition, MayActivatePowerPc,
                    ParkPairWhileActivating, MayParkPair, ActivateM68kParking,
                    MayActivateM68k, ActivateParkingCaller, MayParkCaller
  <2>2. <<currentTask, c>> \in Contexts
    BY <1>0, <2>1 DEF Contexts, Intervals
  <2> HIDE DEF c
  <2>3. Engine
    BY <1>0, <2>1, <2>2 DEF GuestTypeOK, Contexts
  <2>4. Calls
    BY <1>0, <2>1 DEF GuestTypeOK
  <2>5. Threads
    BY <1>0, <2>1 DEF GuestTypeOK
  <2> QED BY <1>a, <2>3, <2>4, <2>5
<1>6. CASE ResumeM68kAfterPowerPc
  <2> DEFINE t == currentTask
             n == Len(stacks[t])
             c == Top(t).id
  <2>1. /\ stacks[t] # << >> /\ Top(t).phase = "Completed" /\ kinds[c] = "ClassicToNative"
        /\ c \in CallIds
        /\ classic' = IF <<t, c>> \in m68kContexts THEN m68kParked[c] ELSE classic
        /\ m68kParked' = [m68kParked EXCEPT ![c] = NoContext]
        /\ UNCHANGED <<kinds, native, nativeThreads, cooperativeContexts, powerpcParked,
                       nativeCpuTask, handoff>>
    BY <1>0, <1>6 DEF ResumeM68kAfterPowerPc, MayResumeM68k, RetireWithContext, MayRetire,
                    ValidTransition, TopKind
  <2>2. m68kParked[c] \in Contexts
    <3>1. n \in DOMAIN stacks[t] /\ stacks[t][n] = Top(t)
      BY <1>0, <2>1, StackFacts DEF Top
    <3>2. FrameKept(t, n)
      BY <1>0, <3>1 DEF GuestInv, FramesOK, FrameOK
    <3>3. CallerOf(t, n) \in Contexts
      <4>1. Below(t, n) \subseteq DOMAIN stacks[t]
        BY DEF Below, Started
      <4>2. \/ CallerOf(t, n) = <<t, 0>>
            \/ \E i \in DOMAIN stacks[t] : CallerOf(t, n) = <<t, stacks[t][i].id>>
        BY <1>0, <4>1, CallerIs
      <4> QED BY <1>0, <4>2, StackFacts DEF Contexts, Intervals
    <3> HIDE DEF n
    <3> QED BY <2>1, <3>1, <3>2, <3>3 DEF FrameKept, ParksClassic
  <2> HIDE DEF c, t
  <2>3. Calls
    BY <1>0, <2>1 DEF GuestTypeOK
  <2>4. Engine /\ Threads
    BY <1>0, <2>1, <2>2 DEF GuestTypeOK
  <2> QED BY <1>a, <2>3, <2>4
<1>7. CASE ApplyTaskHandoff
  BY <1>0, <1>7, <1>a DEF ApplyTaskHandoff, MayApplyHandoff, GuestTypeOK, NoHandoff,
                    Contexts, NoTask
<1>8. CASE PrepareNativeTask
  <2>1. native' \in Contexts
    BY <1>0, <1>8 DEF PrepareNativeTask, MayPrepareNative, Replacing, GuestTypeOK
  <2>2. Threads
    BY <1>0, <1>8 DEF PrepareNativeTask, MayPrepareNative, Replacing, GuestTypeOK,
                    SavedNative
  <2>3. Calls /\ classic' \in Contexts /\ nativeCpuTask' \in Tasks \cup {NoTask}
        /\ handoff' = NoHandoff
    BY <1>0, <1>8 DEF PrepareNativeTask, MayPrepareNative, Replacing, GuestTypeOK
  <2>4. Engine
    BY <2>1, <2>3 DEF NoHandoff, Contexts
  <2> QED BY <1>a, <2>2, <2>3, <2>4
<1>9. CASE ResumeReadyTask
  <2>1. PICK next : /\ SwitchToTask(next) /\ SavedContext(next) # NoContext
                    /\ handoff' = [task |-> next, isa |-> SavedIsa(next),
                                   context |-> SavedContext(next)]
    BY <1>9 DEF ResumeReadyTask, MayResumeReady, ReadySuccessor
  <2>2. next \in Tasks /\ SavedIsa(next) \in {"M68k", "PowerPc"}
    BY <2>1 DEF SwitchToTask, MaySwitchTo, Registered, SavedIsa
  <2>3. SavedContext(next) \in Contexts
    BY <1>0, <2>1, <2>2, SnapshotIsContext
  <2>4. Calls /\ Threads /\ UNCHANGED <<native, classic, nativeCpuTask>>
    BY <1>b, <1>9 DEF ResumeReadyTask, MayResumeReady, ReadySuccessor
  <2>5. Engine
    BY <1>0, <2>1, <2>2, <2>3, <2>4 DEF GuestTypeOK
  <2> QED BY <1>a, <2>4, <2>5
<1>10. ASSUME NEW n \in BOOLEAN, NEW saves \in BOOLEAN, SaveOutgoing(n, saves) PROVE Threads
  BY <1>0, <1>10 DEF SaveOutgoing, GuestTypeOK
<1>11. ASSUME NEW n \in BOOLEAN, NEW suggested \in Tasks \cup {NoTask}, YieldTask(n, suggested)
       PROVE  GuestTypeOK'
  <2>1. PICK next : /\ SwitchToTask(next) /\ Installable(next) /\ SaveOutgoing(n, TRUE)
                    /\ IF n THEN InstallFromNative(currentTask, next)
                       ELSE InstallFromClassic(next) /\ UNCHANGED nativeCpuTask
    BY <1>11 DEF YieldTask
  <2>2. next \in Tasks
    BY <2>1 DEF SwitchToTask, MaySwitchTo, Registered
  <2>3. Engine
    BY <1>0, <2>1, <2>2, InstallTypes DEF GuestTypeOK
  <2>4. Threads /\ Calls
    BY <1>b, <1>10, <1>11, <2>1 DEF YieldTask
  <2> QED BY <1>a, <2>3, <2>4
<1>12. ASSUME NEW n \in BOOLEAN, NEW t \in Tasks, NEW s \in States,
              NEW suggested \in Tasks \cup {NoTask}, NEW e \in BOOLEAN,
              SetThreadState(n, t, s, suggested, e)
       PROVE  GuestTypeOK'
  <2> DEFINE next  == IF t = currentTask /\ s # "Running" THEN Candidate(suggested, t) ELSE NoTask
             saves == next # NoTask \/ (t = currentTask /\ s = "Stopped")
  <2>1. /\ next # NoTask => Installable(next)
        /\ SaveOutgoing(n, saves)
        /\ IF n /\ saves THEN InstallFromNative(currentTask, next)
           ELSE InstallFromClassic(next) /\ UNCHANGED nativeCpuTask
        /\ UNCHANGED <<kinds, powerpcParked, m68kParked>>
    BY <1>12 DEF SetThreadState
  <2>2. next \in Tasks \cup {NoTask} /\ Installable(next) /\ saves \in BOOLEAN
    <3>1. next # NoTask => next \in Tasks
      BY <1>0, CandidateEligible DEF Eligible
    <3>2. Installable(NoTask)
      BY DEF Installable
    <3> HIDE DEF next
    <3> QED BY <2>1, <3>1, <3>2
  <2> HIDE DEF next, saves
  <2>3. Engine
    BY <1>0, <2>1, <2>2, InstallTypes DEF GuestTypeOK
  <2>4. Threads /\ Calls
    BY <1>b, <1>10, <2>1, <2>2
  <2> QED BY <1>a, <2>3, <2>4
<1>13. ASSUME NEW n \in BOOLEAN, NEW suspended \in BOOLEAN, CreateThread(n, suspended)
       PROVE  GuestTypeOK'
  <2>1. nextTaskId \in Tasks /\ <<nextTaskId, 0>> \in Contexts
    BY <1>0, <1>13 DEF CreateThread, TypeOK, Contexts, Intervals
  <2>2. Threads
    BY <1>0, <1>13, <2>1 DEF CreateThread, GuestTypeOK
  <2>3. Engine /\ Calls
    BY <1>b, <1>13 DEF CreateThread
  <2> QED BY <1>a, <2>2, <2>3
<1>14. ASSUME NEW n \in BOOLEAN, NEW t \in Tasks, RetireThread(n, t) PROVE GuestTypeOK'
  <2> DEFINE heir == IF nativeCpuTask = t THEN NoTask ELSE nativeCpuTask
  <2>1. PICK next : /\ RetireTask(t, next) /\ Installable(next)
                    /\ IF n THEN InstallFromNative(heir, next)
                       ELSE InstallFromClassic(next) /\ nativeCpuTask' = heir
    BY <1>14 DEF RetireThread
  <2>2. next \in Tasks \cup {NoTask} /\ heir \in Tasks \cup {NoTask}
    BY <1>0, <2>1 DEF RetireTask, Registered, GuestTypeOK
  <2> HIDE DEF heir
  <2>3. Engine
    BY <1>0, <2>1, <2>2, InstallTypes DEF GuestTypeOK
  <2>4. Calls
    BY <1>b, <1>14 DEF RetireThread
  <2>5. Threads
    BY <1>0, <1>14 DEF RetireThread, GuestTypeOK
  <2> QED BY <1>a, <2>3, <2>4, <2>5
<1>15. CASE RunNative \/ RunClassic
  BY <1>2, <1>15 DEF RunNative, RunClassic
<1>16. CASE ReturnSameEngine \/ CriticalSection \/ (\E t \in Tasks : ReadyGivenTask(t)) \/ UNCHANGED allVars
  BY <1>1, <1>16 DEF ReturnSameEngine, CriticalSection, ReadyGivenTask, allVars
<1> HIDE DEF Calls, Engine, Threads
<1> QED BY <1>3, <1>4, <1>5, <1>6, <1>7, <1>8, <1>9, <1>11, <1>12, <1>13, <1>14, <1>15, <1>16
       DEF GuestNext, Guest, Runner

---------------------------------------------------------------------------
(* A launched application *)

\* The launch establishes the invariant, in either architecture.
LEMMA InitGuest == GuestInit => GuestInv
<1> SUFFICES ASSUME NEW isa \in {"M68k", "PowerPc"}, LaunchedIn(isa) PROVE GuestInv
  BY GuestAssumption DEF GuestInit
<1> USE DEF LaunchedIn
<1>1. TypeOK
  <2>1. << >> \in Seq(Frames) /\ << >> \in Seq(Tasks)
    OBVIOUS
  <2>2. nextTaskId \in Tasks \cup {NoTask}
    BY BoundsAssumption DEF Tasks, Application
  <2> QED BY <2>1, <2>2, TasksAreNat, BoundsAssumption DEF TypeOK, CallIds, States
<1>2. SingleRunner /\ Registered = {Application}
  BY TasksAreNat DEF SingleRunner, Registered
<1>3. ReadyQueueExact
  BY DEF ReadyQueueExact, Entries, Distinct
<1>4. RetiredForever
  BY TasksAreNat DEF RetiredForever, Registered, Application
<1>5. CallIdentity
  BY DEF CallIdentity, CallsOf
<1>6. GuestTypeOK
  <2>1. <<Application, 0>> \in Contexts /\ Stale \in Contexts
    BY TasksAreNat DEF Contexts, Intervals
  <2>2. NoHandoff \in [task : Tasks \cup {NoTask}, isa : {"M68k", "PowerPc"}, context : Contexts]
    BY <2>1 DEF NoHandoff
  <2> QED BY <1>1, <2>1, <2>2, TasksAreNat DEF GuestTypeOK
<1>7. FramesOK
  BY DEF FramesOK
<1>8. /\ Owner(Application) = <<Application, 0>> /\ OwnerIsa(Application) = isa
      /\ ~ Finished(Application)
  BY NoCalls, TasksAreNat
<1>9. Bound /\ Saved
  BY <1>2, TasksAreNat DEF Bound, Saved
<1>10. Installed
  BY <1>8, TasksAreNat DEF Installed
<1>11. Displaced
  BY <1>2, TasksAreNat DEF Displaced
<1> QED BY <1>1, <1>2, <1>3, <1>4, <1>5, <1>6, <1>7, <1>9, <1>10, <1>11
        DEF GuestInv, Scheduling, Engines

---------------------------------------------------------------------------
(* Calls and returns of the running task *)

\* After a step of the running task t alone: its engine holds its registers, and the
\* step touched nobody else's.
LEMMA CallEngines ==
  ASSUME Engines, TypeOK, NEW t \in Tasks, t = currentTask, taskStates[t] = "Running",
         handoff = NoHandoff,
         UNCHANGED <<currentTask, taskStates, taskEntryIsas, nativeCpuTask, handoff>>,
         \A u \in Tasks \ {t} :
           /\ Same(u)
           /\ nativeThreads[u] = Owner(u) => nativeThreads'[u] = nativeThreads[u]
           /\ cooperativeContexts[u] = Owner(u) => cooperativeContexts'[u] = cooperativeContexts[u],
         IF OwnerIsa(t)' = "PowerPc" THEN native' = Owner(t)' /\ nativeCpuTask = t
         ELSE ~ Finished(t)' => classic' = Owner(t)',
         nativeCpuTask = t \/ native' = native
  PROVE  Engines'
<1>1. Registered' = Registered /\ Registered \subseteq Tasks /\ NoHandoff' = NoHandoff
  BY DEF Registered, NoHandoff
<1>2. Bound'
  BY <1>1 DEF Engines, Bound
<1>3. Saved'
  BY <1>1 DEF Engines, Saved, Same
<1>4. Installed'
  BY <1>1 DEF Installed
<1>5. Displaced'
  <2>1. nativeCpuTask' \in Registered' \cup {NoTask}
    BY <1>1 DEF Engines, Displaced
  <2> QED BY <1>1, <2>1 DEF Engines, Displaced, Same
<1> QED BY <1>2, <1>3, <1>4, <1>5 DEF Engines

\* The caller of a started call is an older interval than the one that runs.
LEMMA CallerIsOlder ==
  ASSUME TypeOK, CallIdentity, NEW t \in Tasks, NEW i \in Started(t)
  PROVE  CallerOf(t, i) # Owner(t)
<1>1. /\ Len(stacks[t]) \in Nat /\ DOMAIN stacks[t] = 1..Len(stacks[t])
      /\ Started(t) \subseteq DOMAIN stacks[t]
  BY StackFacts DEF Started
<1>2. PICK k : k = Newest(Started(t))
  OBVIOUS
<1>3. k \in Started(t) /\ i <= k /\ Owner(t) = <<t, stacks[t][k].id>>
  BY <1>1, <1>2, NewestExists DEF Owner
<1>4. stacks[t][k].id \in CallIds /\ stacks[t][k].id # 0
  BY <1>1, <1>3, StackFacts DEF CallIds
<1>5. CASE CallerOf(t, i) = <<t, 0>>
  BY <1>3, <1>4, <1>5
<1>6. CASE CallerOf(t, i) # <<t, 0>>
  <2>1. PICK j : j \in Below(t, i) /\ CallerOf(t, i) = <<t, stacks[t][j].id>>
    BY <1>6, CallerIs
  <2>2. j \in DOMAIN stacks[t] /\ k \in DOMAIN stacks[t] /\ j < k
    BY <1>1, <1>3, <2>1 DEF Below
  <2>3. stacks[t][j].id < stacks[t][k].id
    BY <2>2 DEF CallIdentity
  <2>4. stacks[t][j].id # stacks[t][k].id
    BY <1>1, <2>2, <2>3, StackFacts DEF CallIds
  <2> QED BY <1>3, <2>1, <2>4
<1> QED BY <1>5, <1>6

\* An interval of one task's stack is not an interval of another's.
LEMMA CallerNames ==
  ASSUME TypeOK, NEW t \in Tasks, NEW i
  PROVE  CallerOf(t, i)[1] = t
BY CallerIs

\* Instructions make no copy stale but copies of the running interval.
LEMMA OvertakeStep ==
  ASSUME GuestInv, TypeOK', NEW k, NEW isa \in {"M68k", "PowerPc"}, Runs(k, isa), Overtake(k)
  PROVE  FramesOK' /\ Engines'
<1>0. PICK t \in Tasks : t = currentTask
  BY DEF GuestInv, Scheduling, TypeOK
<1>1. /\ TypeOK /\ FramesOK /\ CallIdentity /\ GuestTypeOK /\ Engines
      /\ k = Owner(t) /\ taskStates[t] = "Running" /\ handoff = NoHandoff /\ ~ Finished(t)
      /\ k # Stale
  BY <1>0, OwnerNames DEF GuestInv, Scheduling, Runs
<1>2. /\ UNCHANGED <<currentTask, stacks, taskStates, taskEntryIsas, m68kContexts, kinds, native,
                     classic, nativeCpuTask, handoff>>
      /\ nativeThreads' = Overtaken(nativeThreads, k)
      /\ cooperativeContexts' = Overtaken(cooperativeContexts, k)
      /\ powerpcParked' = Overtaken(powerpcParked, k)
      /\ m68kParked' = Overtaken(m68kParked, k)
  BY DEF Overtake, vars, storeVars, bankVars
<1>3. /\ \A c \in CallIds : m68kParked[c] # k => m68kParked'[c] = m68kParked[c]
      /\ \A c \in CallIds : powerpcParked[c] # k => powerpcParked'[c] = powerpcParked[c]
      /\ \A c \in CallIds : powerpcParked[c] \in Contexts => powerpcParked'[c] \in Contexts
      /\ \A u \in Tasks : nativeThreads[u] # k => nativeThreads'[u] = nativeThreads[u]
      /\ \A u \in Tasks : cooperativeContexts[u] # k => cooperativeContexts'[u] = cooperativeContexts[u]
  BY <1>1, <1>2, OvertakenTypes DEF GuestTypeOK
<1>4. ASSUME NEW u \in Tasks, NEW i \in DOMAIN stacks[u] PROVE Untouched(u, i)
  <2>1. FrameOK(u, i) /\ stacks[u][i].id \in CallIds /\ stacks[u][i].phase \in Phases
    BY <1>1, StackFacts DEF FramesOK
  <2>2. ParksClassic(u, i) \/ ParksNative(u, i) => CallerOf(u, i) # k
    <3>1. CASE u # t
      <4>1. CallerOf(u, i)[1] # k[1]
        BY <1>1, <3>1, CallerNames, OwnerNames
      <4> QED BY <4>1
    <3>2. CASE u = t /\ i \in Started(t)
      BY <1>1, <3>2, CallerIsOlder
    <3>3. CASE u = t /\ i \notin Started(t)
      <4> SUFFICES ASSUME ParksClassic(u, i) \/ ParksNative(u, i) PROVE FALSE
        OBVIOUS
      <4>1. kinds[stacks[t][i].id] = "ClassicToNative" /\ stacks[t][i].phase = "Completed"
        BY <2>1, <3>3 DEF ParksClassic, ParksNative, Started, Phases
      <4>2. i = Len(stacks[t])
        BY <2>1, <3>3, <4>1 DEF FrameOK, FrameShape, Cross
      <4>3. stacks[t] # << >> /\ Top(t) = stacks[t][i]
        BY <3>3, <4>2 DEF Top
      <4> QED BY <1>1, <4>1, <4>3 DEF Finished, TopKind, TopPhase
    <3> QED BY <3>1, <3>2, <3>3
  <2>3. /\ ParksClassic(u, i) => m68kParked[stacks[u][i].id] # k
        /\ ParksNative(u, i) => powerpcParked[stacks[u][i].id] # k
    BY <2>1, <2>2 DEF FrameOK, FrameKept
  <2> QED BY <1>2, <1>3, <2>1, <2>3 DEF Untouched
<1>5. ASSUME NEW u \in Tasks
      PROVE  Same(u) /\ \A i \in DOMAIN stacks'[u] : FrameOK(u, i)'
  BY <1>1, <1>2, <1>4, TaskStays DEF Same
<1>6. FramesOK'
  BY <1>5 DEF FramesOK
<1>7. \A u \in Tasks \ {t} : Owner(u) # k
  <2>1. \A u \in Tasks \ {t} : Owner(u)[1] # k[1]
    BY <1>1, OwnerNames
  <2> QED BY <2>1
<1>8. IF OwnerIsa(t) = "PowerPc" THEN native = Owner(t) /\ nativeCpuTask = t
      ELSE ~ Finished(t) => classic = Owner(t)
  BY <1>0, <1>1 DEF Engines, Installed
<1>9. Engines'
  <2>1. \A u \in Tasks \ {t} :
          /\ Same(u)
          /\ nativeThreads[u] = Owner(u) => nativeThreads'[u] = nativeThreads[u]
          /\ cooperativeContexts[u] = Owner(u) => cooperativeContexts'[u] = cooperativeContexts[u]
    BY <1>3, <1>5, <1>7
  <2>2. IF OwnerIsa(t)' = "PowerPc" THEN native' = Owner(t)' /\ nativeCpuTask = t
        ELSE ~ Finished(t)' => classic' = Owner(t)'
    BY <1>2, <1>5, <1>8 DEF Same
  <2> QED BY <1>0, <1>1, <1>2, <2>1, <2>2, CallEngines
<1> QED BY <1>6, <1>9

\* A submitted call changes nobody's registers: the running task stays in its interval
\* until the runner starts the call.
LEMMA Called ==
  ASSUME GuestInv, TypeOK', NEW t \in Tasks, t = currentTask, NEW kind \in Kinds,
         \/ Runs(native, "PowerPc") /\ nativeCpuTask = t /\ kind \in {"NativeToClassic", "NativeToNative"}
         \/ Runs(classic, "M68k") /\ kind \in {"ClassicToClassic", "ClassicToNative"},
         kind = "ClassicToClassic" => taskEntryIsas[t] = "M68k",
         kind = "NativeToNative" => taskEntryIsas[t] = "PowerPc",
         NEW p, p = IF kind = "NativeToNative" THEN "Active" ELSE "Pending",
         stacks' = [stacks EXCEPT ![t] = Append(@, [id |-> nextCallId, phase |-> p])],
         kinds' = [kinds EXCEPT ![nextCallId] = kind],
         UNCHANGED <<currentTask, taskStates, taskEntryIsas, m68kContexts, native, classic,
                     nativeThreads, cooperativeContexts, powerpcParked, m68kParked,
                     nativeCpuTask, handoff>>
  PROVE  FramesOK' /\ Engines'
<1>1. /\ TypeOK /\ FramesOK /\ CallIdentity /\ Engines /\ kinds \in [CallIds -> Kinds \cup {"None"}]
      /\ taskStates[t] = "Running" /\ handoff = NoHandoff
      /\ stacks[t] # << >> /\ kinds[Top(t).id] \in Cross => Top(t).phase = "Active"
      /\ OwnerIsa(t) = IF kind \in {"ClassicToClassic", "ClassicToNative"} THEN "M68k" ELSE "PowerPc"
  BY DEF GuestInv, Scheduling, GuestTypeOK, Runs, TopKind, TopPhase, Kinds
<1>2. p \in Phases
  BY DEF Phases
<1>3. StackStep(t, 0)
  <2>1. \A d \in CallIds : d < nextCallId => kinds'[d] = kinds[d]
    BY <1>1 DEF CallIds, TypeOK
  <2>2. \A u \in Tasks \ {t} : stacks'[u] = stacks[u]
    BY <1>1 DEF TypeOK
  <2> QED BY <2>1, <2>2 DEF StackStep
<1>4. /\ FramesOK' /\ \A u \in Tasks \ {t} : Same(u)
      /\ Owner(t)' = Owner(t) /\ OwnerIsa(t)' = OwnerIsa(t)
      /\ ~ Finished(t) /\ ~ Finished(t)'
  BY <1>1, <1>2, <1>3, PushedCall
<1>5. IF OwnerIsa(t) = "PowerPc" THEN native = Owner(t) /\ nativeCpuTask = t
      ELSE classic = Owner(t)
  BY <1>1, <1>4 DEF Engines, Installed
<1>6. Engines'
  BY <1>1, <1>4, <1>5, CallEngines
<1> QED BY <1>4, <1>6

\* The four kinds of call.
LEMMA CallSteps ==
  ASSUME ~ NativeReentry, ~ ClassicReentry, GuestInv, TypeOK',
         \/ BeginClassicToClassic \/ BeginClassicToNative \/ BeginNativeToClassic
         \/ CallNativeToNative
  PROVE  FramesOK' /\ Engines'
<1>0. PICK t \in Tasks : t = currentTask
  BY DEF GuestInv, Scheduling, TypeOK
<1>1. CASE BeginClassicToClassic
  <2>1. Runs(classic, "M68k") /\ taskEntryIsas[t] = "M68k"
    BY <1>0, <1>1, ClassicIsOwner DEF BeginClassicToClassic
  <2> QED BY <1>0, <1>1, <2>1, Called DEF BeginClassicToClassic, SubmitEffect, Submit, Kinds,
             bankVars
<1>2. CASE BeginClassicToNative
  <2>1. Runs(classic, "M68k")
    BY <1>2, ClassicIsOwner DEF BeginClassicToNative
  <2> QED BY <1>0, <1>2, <2>1, Called DEF BeginClassicToNative, SubmitEffect, Submit, Kinds,
             bankVars
<1>3. CASE BeginNativeToClassic
  <2>1. Runs(native, "PowerPc") /\ nativeCpuTask = t
    BY <1>0, <1>3, NativeIsOwner DEF BeginNativeToClassic
  <2> QED BY <1>0, <1>3, <2>1, Called DEF BeginNativeToClassic, SubmitEffect, Submit, Kinds,
             bankVars
<1>4. CASE CallNativeToNative
  <2>1. Runs(native, "PowerPc") /\ nativeCpuTask = t /\ taskEntryIsas[t] = "PowerPc"
    BY <1>0, <1>4, NativeIsOwner DEF CallNativeToNative
  <2> QED BY <1>0, <1>4, <2>1, Called DEF CallNativeToNative, Kinds, bankVars
<1> QED BY <1>1, <1>2, <1>3, <1>4

\* What the newest call's frame promises.
LEMMA TopFrame ==
  ASSUME TypeOK, FramesOK, NEW t \in Tasks, stacks[t] # << >>, NEW n, n = Len(stacks[t])
  PROVE  /\ n \in DOMAIN stacks[t] /\ Top(t) = stacks[t][n] /\ Top(t).id \in CallIds
         /\ FrameShape(t, n) /\ FrameKept(t, n)
         /\ TopKind(t) = kinds[Top(t).id] /\ TopPhase(t) = Top(t).phase
BY StackFacts DEF Top, TopKind, TopPhase, FramesOK, FrameOK

\* A call that changed no engine returns into the interval that made it.
LEMMA ReturnStep ==
  ASSUME GuestInv, TypeOK', ReturnSameEngine
  PROVE  FramesOK' /\ Engines'
<1>0. PICK t \in Tasks : t = currentTask
  BY DEF GuestInv, Scheduling, TypeOK
<1>1. /\ TypeOK /\ FramesOK /\ CallIdentity /\ Engines
      /\ Runs(native, "PowerPc") \/ Runs(classic, "M68k")
      /\ stacks[t] # << >> /\ TopKind(t) \in {"NativeToNative", "ClassicToClassic"}
      /\ stacks' = WithoutTop(t)
      /\ UNCHANGED <<currentTask, taskStates, taskEntryIsas, bankVars, guestVars>>
  BY <1>0, NativeIsOwner, ClassicIsOwner
     DEF GuestInv, Scheduling, ReturnSameEngine, ValidTransition
<1>2. StackStep(t, Top(t).id)
  BY <1>1 DEF StackStep, WithoutTop, TypeOK, bankVars, guestVars
<1>3. /\ FramesOK' /\ \A u \in Tasks \ {t} : Same(u)
      /\ Owner(t)' = CallerOf(t, Len(stacks[t])) /\ OwnerIsa(t)' = IsaOf(CallerOf(t, Len(stacks[t])))
      /\ ~ Finished(t)'
  BY <1>1, <1>2, Popped
<1>4. Owner(t)' = Owner(t) /\ OwnerIsa(t)' = OwnerIsa(t)
  <2>1. kinds[Top(t).id] \notin Cross
    BY <1>1, TopFrame DEF Cross
  <2> QED BY <1>1, <1>3, <2>1, OwnerOverTop DEF OwnerIsa
<1>5. taskStates[t] = "Running" /\ handoff = NoHandoff /\ ~ Finished(t)
  BY <1>0, <1>1 DEF Runs
<1>6. IF OwnerIsa(t) = "PowerPc" THEN native = Owner(t) /\ nativeCpuTask = t
      ELSE classic = Owner(t)
  BY <1>0, <1>1, <1>5 DEF Engines, Installed
<1>7. Engines'
  BY <1>0, <1>1, <1>3, <1>4, <1>5, <1>6, CallEngines DEF guestVars
<1> QED BY <1>3, <1>7

\* Native code that classic code called returns: the native engine gets back what the
\* call displaced, and the classic caller waits in the bank.
LEMMA CompleteNativeStep ==
  ASSUME GuestInv, TypeOK', CompletePowerPcForM68k
  PROVE  FramesOK' /\ Engines'
<1>a. PICK t \in Tasks : t = currentTask
  BY DEF GuestInv, Scheduling, TypeOK
<1>b. PICK n, c : n = Len(stacks[t]) /\ c = Top(t).id
  OBVIOUS
<1>0. t = currentTask /\ n = Len(stacks[t]) /\ c = Top(t).id
  BY <1>a, <1>b
<1>1. /\ TypeOK /\ FramesOK /\ CallIdentity /\ Engines
      /\ Runs(native, "PowerPc") /\ nativeCpuTask = t
      /\ stacks[t] # << >> /\ Top(t).phase = "Active" /\ TopKind(t) = "ClassicToNative"
      /\ stacks' = WithTopPhase(t, "Completed")
      /\ powerpcParked' = [powerpcParked EXCEPT ![c] = NoContext]
      /\ UNCHANGED <<currentTask, taskStates, taskEntryIsas, m68kContexts, kinds, classic,
                     nativeThreads, cooperativeContexts, m68kParked, nativeCpuTask, handoff>>
  BY <1>0, NativeIsOwner DEF GuestInv, Scheduling, CompletePowerPcForM68k, TakeWhileCompleting,
     ValidTransition
<1>2. /\ n \in DOMAIN stacks[t] /\ Top(t) = stacks[t][n] /\ c \in CallIds
      /\ FrameShape(t, n) /\ FrameKept(t, n) /\ kinds[c] = "ClassicToNative"
  BY <1>0, <1>1, TopFrame
<1>3. StackStep(t, c)
  <2>1. \A d \in CallIds \ {c} : powerpcParked'[d] = powerpcParked[d]
    BY <1>1 DEF GuestInv, GuestTypeOK
  <2>2. \A u \in Tasks \ {t} : stacks'[u] = stacks[u]
    BY <1>1 DEF WithTopPhase, TypeOK
  <2> QED BY <1>1, <2>1, <2>2 DEF StackStep
<1>4. /\ \A u \in Tasks \ {t} : Same(u) /\ \A i \in DOMAIN stacks'[u] : FrameOK(u, i)'
      /\ n \in Nat \ {0} /\ DOMAIN stacks'[t] = 1..n /\ Len(stacks'[t]) = n
      /\ \A i \in 1..(n - 1) : FrameOK(t, i)'
      /\ stacks'[t][n].id = c /\ stacks'[t][n].phase = "Completed"
      /\ kinds'[c] = kinds[c] /\ taskEntryIsas'[t] = taskEntryIsas[t]
      /\ CallerOf(t, n)' = CallerOf(t, n) /\ IsaOf(CallerOf(t, n))' = IsaOf(CallerOf(t, n))
      /\ OwnerIsa(t)' = IsaOf(CallerOf(t, n))
  <2>1. "Completed" \in Phases /\ kinds[Top(t).id] \in Cross
    BY <1>0, <1>2 DEF Phases, Cross
  <2> QED BY <1>0, <1>1, <1>2, <1>3, <2>1, Rephased
<1>c. Finished(t)'
  <2>1. stacks'[t] # << >> /\ Top(t)' = stacks'[t][n]
    BY <1>4 DEF Top
  <2> QED BY <1>2, <1>4, <2>1 DEF Finished, TopKind, TopPhase
<1>5. IsaOf(CallerOf(t, n)) = "M68k"
  BY <1>0, <1>2 DEF FrameShape
<1>6. FrameOK(t, n)'
  <2>1. FrameShape(t, n)'
    BY <1>2, <1>4, <1>5 DEF FrameShape, Kinds
  <2>2. ParksClassic(t, n)
    BY <1>0, <1>1, <1>2 DEF ParksClassic
  <2>3. FrameKept(t, n)'
    BY <1>0, <1>1, <1>2, <1>4, <2>2 DEF FrameKept, ParksClassic, ParksNative
  <2> QED BY <2>1, <2>3 DEF FrameOK
<1>7. FramesOK'
  <2>1. 1..n = 1..(n - 1) \cup {n}
    BY <1>4
  <2>2. \A i \in DOMAIN stacks'[t] : FrameOK(t, i)'
    BY <1>4, <1>6, <2>1
  <2> QED BY <1>4, <2>2 DEF FramesOK
<1>8. taskStates[t] = "Running" /\ handoff = NoHandoff
  BY <1>0, <1>1 DEF Runs
<1>9. Engines'
  BY <1>0, <1>1, <1>4, <1>c, <1>5, <1>8, CallEngines
<1> QED BY <1>7, <1>9

\* Classic code that native code called returns: its caller is taken from the bank.
LEMMA CompleteClassicStep ==
  ASSUME GuestInv, TypeOK', CompleteM68kForPowerPc
  PROVE  FramesOK' /\ Engines'
<1>a. PICK t \in Tasks : t = currentTask
  BY DEF GuestInv, Scheduling, TypeOK
<1>b. PICK n, c : n = Len(stacks[t]) /\ c = Top(t).id
  OBVIOUS
<1>0. t = currentTask /\ n = Len(stacks[t]) /\ c = Top(t).id
  BY <1>a, <1>b
<1>1. /\ TypeOK /\ FramesOK /\ CallIdentity /\ Engines
      /\ ClassicRuns /\ Runs(classic, "M68k") /\ TopKind(t) = "NativeToClassic"
      /\ stacks[t] # << >> /\ Top(t).phase = "Active"
      /\ stacks' = WithoutTop(t) /\ native' = powerpcParked[c]
      /\ powerpcParked' = [powerpcParked EXCEPT ![c] = NoContext]
      /\ UNCHANGED <<currentTask, taskStates, taskEntryIsas, m68kContexts, kinds, classic,
                     nativeThreads, cooperativeContexts, m68kParked, nativeCpuTask, handoff>>
  BY <1>0, ClassicIsOwner DEF GuestInv, Scheduling, CompleteM68kForPowerPc, ValidTransition
<1>2. /\ n \in DOMAIN stacks[t] /\ Top(t) = stacks[t][n] /\ c \in CallIds
      /\ FrameShape(t, n) /\ FrameKept(t, n) /\ kinds[c] = "NativeToClassic"
  BY <1>0, <1>1, TopFrame
<1>3. StackStep(t, c)
  <2>1. \A d \in CallIds \ {c} : powerpcParked'[d] = powerpcParked[d]
    BY <1>1 DEF GuestInv, GuestTypeOK
  <2>2. \A u \in Tasks \ {t} : stacks'[u] = stacks[u]
    BY <1>1 DEF WithoutTop, TypeOK
  <2> QED BY <1>1, <2>1, <2>2 DEF StackStep
<1>4. /\ FramesOK' /\ \A u \in Tasks \ {t} : Same(u)
      /\ Owner(t)' = CallerOf(t, n) /\ OwnerIsa(t)' = IsaOf(CallerOf(t, n)) /\ ~ Finished(t)'
  BY <1>0, <1>1, <1>3, Popped
<1>5. IsaOf(CallerOf(t, n)) = "PowerPc" /\ powerpcParked[c] = CallerOf(t, n)
  BY <1>0, <1>1, <1>2 DEF FrameShape, FrameKept, ParksNative
<1>6. taskStates[t] = "Running" /\ handoff = NoHandoff /\ nativeCpuTask = t
  BY <1>0, <1>1 DEF Runs, ClassicRuns, Route, Prepared
<1>7. Engines'
  BY <1>0, <1>1, <1>4, <1>5, <1>6, CallEngines
<1> QED BY <1>4, <1>7

\* A started call: the caller's registers are in the bank, and the engine holds the
\* callee's.
LEMMA Activated ==
  ASSUME GuestInv, TypeOK', NEW t \in Tasks, t = currentTask, stacks[t] # << >>,
         NEW n, n = Len(stacks[t]), NEW c, c = Top(t).id, kinds[c] \in Cross,
         StackStep(t, c), stacks' = WithTopPhase(t, "Active"),
         taskStates[t] = "Running", handoff = NoHandoff, nativeCpuTask = t,
         UNCHANGED <<currentTask, taskStates, taskEntryIsas, nativeThreads, cooperativeContexts,
                     nativeCpuTask, handoff>>,
         kinds[c] = "ClassicToNative" =>
           /\ <<t, c>> \in m68kContexts' /\ m68kParked'[c] = CallerOf(t, n)
           /\ powerpcParked'[c] \in Contexts /\ native' = <<t, c>>,
         kinds[c] = "NativeToClassic" =>
           powerpcParked'[c] = CallerOf(t, n) /\ classic' = <<t, c>>
  PROVE  FramesOK' /\ Engines'
<1>1. /\ TypeOK /\ FramesOK /\ CallIdentity /\ Engines
      /\ kinds[c] \in {"ClassicToNative", "NativeToClassic"}
  BY DEF GuestInv, Scheduling, Cross
<1>2. n \in DOMAIN stacks[t] /\ Top(t) = stacks[t][n] /\ FrameShape(t, n)
  BY <1>1, TopFrame
<1>3. /\ \A u \in Tasks \ {t} : Same(u) /\ \A i \in DOMAIN stacks'[u] : FrameOK(u, i)'
      /\ n \in Nat \ {0} /\ DOMAIN stacks'[t] = 1..n /\ Len(stacks'[t]) = n
      /\ \A i \in 1..(n - 1) : FrameOK(t, i)'
      /\ stacks'[t][n].id = c /\ stacks'[t][n].phase = "Active"
      /\ kinds'[c] = kinds[c] /\ taskEntryIsas'[t] = taskEntryIsas[t]
      /\ CallerOf(t, n)' = CallerOf(t, n) /\ IsaOf(CallerOf(t, n))' = IsaOf(CallerOf(t, n))
      /\ Owner(t)' = <<t, c>>
      /\ OwnerIsa(t)' = IF kinds[c] = "ClassicToNative" THEN "PowerPc" ELSE "M68k"
  <2>1. "Active" \in Phases
    BY DEF Phases
  <2> QED BY <1>1, <2>1, Rephased
<1>4. FrameOK(t, n)'
  <2>1. FrameShape(t, n)'
    BY <1>1, <1>2, <1>3 DEF FrameShape, Kinds
  <2>2. FrameKept(t, n)'
    BY <1>1, <1>3 DEF FrameKept, ParksClassic, ParksNative
  <2> QED BY <2>1, <2>2 DEF FrameOK
<1>5. FramesOK'
  <2>1. 1..n = 1..(n - 1) \cup {n}
    BY <1>3
  <2>2. \A i \in DOMAIN stacks'[t] : FrameOK(t, i)'
    BY <1>3, <1>4, <2>1
  <2> QED BY <1>3, <2>2 DEF FramesOK
<1>6. Engines'
  BY <1>1, <1>3, CallEngines
<1> QED BY <1>5, <1>6

\* A task whose newest call waits to be started is in the interval that made the call.
LEMMA WaitingCaller ==
  ASSUME GuestInv, Prepared, NEW t \in Tasks, t = currentTask, stacks[t] # << >>,
         NEW n, n = Len(stacks[t]), Top(t).phase = "Pending", TopKind(t) \in Cross
  PROVE  IF TopKind(t) = "ClassicToNative" THEN classic = CallerOf(t, n)
         ELSE native = CallerOf(t, n)
<1>1. /\ TypeOK /\ FramesOK /\ Installed /\ taskStates[t] = "Running" /\ handoff = NoHandoff
      /\ TopKind(t) \in {"ClassicToNative", "NativeToClassic"}
  BY DEF GuestInv, Scheduling, Engines, Prepared, Route, Cross
<1>2. TopPhase(t) = "Pending" /\ ~ Finished(t)
  BY DEF TopPhase, Finished
<1>3. OwnerIsa(t) = IF TopKind(t) = "ClassicToNative" THEN "M68k" ELSE "PowerPc"
  BY <1>1, <1>2, IsaByTop
<1>4. Owner(t) = CallerOf(t, n)
  BY <1>1, OwnerOverTop
<1> QED BY <1>1, <1>2, <1>3, <1>4 DEF Installed

\* The runner starts native code for a classic caller.
LEMMA ActivateNativeStep ==
  ASSUME GuestInv, TypeOK', ActivatePowerPcTransition
  PROVE  FramesOK' /\ Engines'
<1>a. PICK t \in Tasks : t = currentTask
  BY DEF GuestInv, Scheduling, TypeOK
<1>b. PICK n, c : n = Len(stacks[t]) /\ c = Top(t).id
  OBVIOUS
<1>1. /\ TypeOK /\ FramesOK /\ Prepared /\ TopKind(t) = "ClassicToNative"
      /\ stacks[t] # << >> /\ Top(t).phase = "Pending" /\ stacks' = WithTopPhase(t, "Active")
      /\ m68kContexts' = m68kContexts \cup {<<t, c>>}
      /\ powerpcParked' = [powerpcParked EXCEPT ![c] = native]
      /\ m68kParked' = [m68kParked EXCEPT ![c] = classic]
      /\ native' = <<t, c>>
      /\ UNCHANGED <<currentTask, taskStates, taskEntryIsas, kinds, nativeThreads,
                     cooperativeContexts, nativeCpuTask, handoff>>
  BY <1>a, <1>b DEF GuestInv, Scheduling, ActivatePowerPcTransition, MayActivatePowerPc,
                    ParkPairWhileActivating, MayParkPair, ValidTransition
<1>2. c \in CallIds /\ kinds[c] = "ClassicToNative"
  BY <1>1, <1>b, TopFrame
<1>3. taskStates[t] = "Running" /\ handoff = NoHandoff /\ nativeCpuTask = t
  BY <1>a, <1>1 DEF Prepared, Route
<1>4. /\ powerpcParked'[c] = native /\ m68kParked'[c] = classic /\ native \in Contexts
      /\ \A d \in CallIds \ {c} :
           m68kParked'[d] = m68kParked[d] /\ powerpcParked'[d] = powerpcParked[d]
  BY <1>1, <1>2 DEF GuestInv, GuestTypeOK
<1>5. StackStep(t, c)
  <2>1. \A u \in Tasks \ {t} : stacks'[u] = stacks[u]
    BY <1>1 DEF WithTopPhase, TypeOK
  <2> QED BY <1>1, <1>4, <2>1 DEF StackStep
<1>6. classic = CallerOf(t, n)
  BY <1>a, <1>b, <1>1, WaitingCaller DEF Cross
<1> QED BY <1>a, <1>b, <1>1, <1>2, <1>3, <1>4, <1>5, <1>6, Activated DEF Cross

\* A classic caller that waits under a callback is in the bank already.
LEMMA CallerIsParked ==
  ASSUME TypeOK, FramesOK, NEW t \in Tasks, SuspendedM68kOwner(t) # 0
  PROVE  <<t, SuspendedM68kOwner(t)>> \in m68kContexts
<1> DEFINE waiting == {i \in Started(t) : kinds[stacks[t][i].id] = "ClassicToNative"}
<1>1. waiting # {} /\ SuspendedM68kOwner(t) = stacks[t][Newest(waiting)].id
  BY DEF SuspendedM68kOwner
<1>2. waiting \subseteq 1..Len(stacks[t]) /\ Len(stacks[t]) \in Nat
  BY StackFacts DEF Started
<1>3. Newest(waiting) \in waiting
  <2> HIDE DEF waiting
  <2> QED BY <1>1, <1>2, NewestExists
<1>4. PICK k : k = Newest(waiting)
  OBVIOUS
<1>5. /\ k \in DOMAIN stacks[t] /\ kinds[stacks[t][k].id] = "ClassicToNative"
      /\ stacks[t][k].phase = "Active"
  BY <1>3, <1>4 DEF Started
<1>6. FrameKept(t, k)
  BY <1>5 DEF FramesOK, FrameOK
<1> QED BY <1>1, <1>4, <1>5, <1>6 DEF FrameKept, ParksClassic

\* The runner starts classic code for a native caller.
LEMMA ActivateClassicStep ==
  ASSUME GuestInv, TypeOK', ActivateM68kParking
  PROVE  FramesOK' /\ Engines'
<1>a. PICK t \in Tasks : t = currentTask
  BY DEF GuestInv, Scheduling, TypeOK
<1>b. PICK n, c : n = Len(stacks[t]) /\ c = Top(t).id
  OBVIOUS
<1>1. /\ TypeOK /\ FramesOK /\ Prepared /\ TopKind(t) = "NativeToClassic"
      /\ stacks[t] # << >> /\ Top(t).phase = "Pending" /\ stacks' = WithTopPhase(t, "Active")
      /\ m68kContexts \subseteq m68kContexts'
      /\ powerpcParked' = [powerpcParked EXCEPT ![c] = native]
      /\ classic' = <<t, c>>
      /\ UNCHANGED <<currentTask, taskStates, taskEntryIsas, kinds, nativeThreads,
                     cooperativeContexts, nativeCpuTask, handoff>>
  BY <1>a, <1>b DEF GuestInv, Scheduling, ActivateM68kParking, MayActivateM68k,
                    ActivateParkingCaller, MayParkCaller, ValidTransition
<1>2. m68kParked' = m68kParked
  <2>1. SuspendedM68kOwner(t) # 0 => <<t, SuspendedM68kOwner(t)>> \in m68kContexts
    BY <1>1, CallerIsParked
  <2> QED BY <1>a, <2>1 DEF ActivateM68kParking, MayActivateM68k
<1>3. c \in CallIds /\ kinds[c] = "NativeToClassic"
  BY <1>1, <1>b, TopFrame
<1>4. taskStates[t] = "Running" /\ handoff = NoHandoff /\ nativeCpuTask = t
  BY <1>a, <1>1 DEF Prepared, Route
<1>5. /\ powerpcParked'[c] = native
      /\ \A d \in CallIds \ {c} :
           m68kParked'[d] = m68kParked[d] /\ powerpcParked'[d] = powerpcParked[d]
  BY <1>1, <1>2, <1>3 DEF GuestInv, GuestTypeOK
<1>6. StackStep(t, c)
  <2>1. \A u \in Tasks \ {t} : stacks'[u] = stacks[u]
    BY <1>1 DEF WithTopPhase, TypeOK
  <2> QED BY <1>1, <1>5, <2>1 DEF StackStep
<1>7. native = CallerOf(t, n)
  BY <1>a, <1>b, <1>1, WaitingCaller DEF Cross
<1> QED BY <1>a, <1>b, <1>1, <1>3, <1>4, <1>5, <1>6, <1>7, Activated DEF Cross

\* The classic caller of native code that has returned is installed.
LEMMA ResumeClassicStep ==
  ASSUME GuestInv, TypeOK', ResumeM68kAfterPowerPc
  PROVE  FramesOK' /\ Engines'
<1>a. PICK t \in Tasks : t = currentTask
  BY DEF GuestInv, Scheduling, TypeOK
<1>b. PICK n, c : n = Len(stacks[t]) /\ c = Top(t).id
  OBVIOUS
<1>1. /\ TypeOK /\ FramesOK /\ CallIdentity /\ Engines
      /\ taskStates[t] = "Running" /\ TopKind(t) = "ClassicToNative"
      /\ stacks[t] # << >> /\ Top(t).phase = "Completed" /\ stacks' = WithoutTop(t)
      /\ m68kContexts' = m68kContexts \ {<<t, c>>}
      /\ m68kParked' = [m68kParked EXCEPT ![c] = NoContext]
      /\ classic' = IF <<t, c>> \in m68kContexts THEN m68kParked[c] ELSE classic
      /\ UNCHANGED <<currentTask, taskStates, taskEntryIsas, kinds, native, nativeThreads,
                     cooperativeContexts, powerpcParked, nativeCpuTask, handoff>>
  BY <1>a, <1>b DEF GuestInv, Scheduling, ResumeM68kAfterPowerPc, MayResumeM68k,
                    RetireWithContext, MayRetire, Route, ValidTransition
<1>2. /\ n \in DOMAIN stacks[t] /\ Top(t) = stacks[t][n] /\ c \in CallIds
      /\ FrameShape(t, n) /\ FrameKept(t, n) /\ kinds[c] = "ClassicToNative"
  BY <1>1, <1>b, TopFrame
<1>3. Finished(t)
  BY <1>1 DEF Finished, TopPhase
<1>4. handoff = NoHandoff
  BY <1>a, <1>1, <1>3 DEF Engines, Installed
<1>5. StackStep(t, c)
  <2>1. \A d \in CallIds \ {c} : m68kParked'[d] = m68kParked[d]
    BY <1>1 DEF GuestInv, GuestTypeOK
  <2>2. \A u \in Tasks \ {t} : stacks'[u] = stacks[u]
    BY <1>1 DEF WithoutTop, TypeOK
  <2> QED BY <1>1, <2>1, <2>2 DEF StackStep
<1>6. /\ FramesOK' /\ \A u \in Tasks \ {t} : Same(u)
      /\ Owner(t)' = CallerOf(t, n) /\ OwnerIsa(t)' = IsaOf(CallerOf(t, n)) /\ ~ Finished(t)'
  BY <1>1, <1>b, <1>5, Popped
<1>7. IsaOf(CallerOf(t, n)) = "M68k" /\ classic' = CallerOf(t, n)
  <2>1. ParksClassic(t, n) /\ stacks[t][n].id = c
    BY <1>b, <1>1, <1>2 DEF ParksClassic
  <2> QED BY <1>b, <1>1, <1>2, <2>1 DEF FrameShape, FrameKept
<1>8. Engines'
  BY <1>a, <1>1, <1>4, <1>6, <1>7, CallEngines
<1> QED BY <1>6, <1>8

---------------------------------------------------------------------------
(* Switches: no stack, call or bank is written *)

\* Every task stays in its interval, and its architecture changes only with its entry.
LEMMA StacksStay ==
  ASSUME GuestInv, TypeOK', UNCHANGED <<stacks, kinds, m68kContexts, powerpcParked, m68kParked>>,
         \A u \in Tasks : stacks[u] = << >> \/ taskEntryIsas'[u] = taskEntryIsas[u]
  PROVE  FramesOK' /\ \A u \in Tasks : taskEntryIsas'[u] = taskEntryIsas[u] => Same(u)
<1>1. TypeOK /\ FramesOK
  BY DEF GuestInv, Scheduling
<1>2. ASSUME NEW u \in Tasks, NEW i \in DOMAIN stacks[u] PROVE Untouched(u, i)
  BY DEF Untouched
<1>3. ASSUME NEW u \in Tasks, taskEntryIsas'[u] = taskEntryIsas[u]
      PROVE  Same(u) /\ \A i \in DOMAIN stacks'[u] : FrameOK(u, i)'
  BY <1>1, <1>2, <1>3, TaskStays DEF Same
<1>4. \A u \in Tasks : stacks[u] = << >> => DOMAIN stacks'[u] = {}
  OBVIOUS
<1> QED BY <1>3, <1>4 DEF FramesOK

\* The running task hands the CPU to a ready one: its own registers are kept, unless it
\* is retired, and the successor's snapshot is in its engine or in the handoff.
LEMMA Handover ==
  ASSUME GuestInv, NEW t \in Tasks, t = currentTask, taskStates[t] = "Running",
         handoff = NoHandoff, NEW next \in Tasks \ {t}, taskStates[next] = "Ready",
         currentTask' = next, taskStates'[next] = "Running", taskStates'[t] # "Running",
         \A u \in Tasks \ {t, next} : taskStates'[u] = taskStates[u],
         \A u \in Registered' : Same(u) /\ taskEntryIsas'[u] = taskEntryIsas[u],
         \A u \in Registered' \ {t} : /\ nativeThreads'[u] = nativeThreads[u]
                                      /\ cooperativeContexts'[u] = cooperativeContexts[u],
         t \in Registered' =>
           /\ ~ Finished(t)
           /\ IF OwnerIsa(t) = "M68k" THEN cooperativeContexts'[t] = Owner(t)
              ELSE nativeThreads'[t] = Owner(t),
         NEW heir \in {nativeCpuTask, NoTask}, heir \in Registered' \cup {NoTask},
         \/ InstallFromNative(heir, next)
         \/ InstallFromClassic(next) /\ nativeCpuTask' = heir
  PROVE  Engines'
<1>1. /\ TypeOK /\ Bound /\ Saved /\ Installed /\ Displaced /\ next # NoTask
      /\ \A u \in Tasks : taskStates[u] = "Running" => u = t
      /\ t \in Registered /\ next \in Registered
  BY TasksAreNat DEF GuestInv, Scheduling, Engines, SingleRunner, Registered
<1>2. /\ SavedIsa(next) = OwnerIsa(next) /\ SavedContext(next) = Owner(next) /\ ~ Finished(next)
      /\ OwnerIsa(next) \in {"M68k", "PowerPc"}
  BY <1>1, SnapshotIsOwner
<1>3. /\ next \in Registered' /\ Registered' \subseteq Registered /\ NoHandoff' = NoHandoff
      /\ Registered' \subseteq Tasks
  BY <1>1 DEF Registered, NoHandoff
<1>4. Bound'
  BY <1>1, <1>3 DEF Bound
<1>5. Saved'
  <2> SUFFICES ASSUME NEW u \in Registered', taskStates'[u] # "Running"
               PROVE  /\ ~ Finished(u)'
                      /\ IF OwnerIsa(u)' = "M68k" THEN cooperativeContexts'[u] = Owner(u)'
                         ELSE nativeThreads'[u] = Owner(u)'
    BY DEF Saved
  <2>1. CASE u = t
    BY <2>1 DEF Same
  <2>2. CASE u # t
    <3>1. u \in Registered /\ taskStates[u] # "Running"
      BY <1>1, <1>3, <2>2
    <3>2. /\ ~ Finished(u)
          /\ IF OwnerIsa(u) = "M68k" THEN cooperativeContexts[u] = Owner(u)
             ELSE nativeThreads[u] = Owner(u)
      BY <1>1, <3>1 DEF Saved
    <3> QED BY <2>2, <3>2 DEF Same
  <2> QED BY <2>1, <2>2
<1>6. Same(next)
  BY <1>3
<1>7. [task |-> next, isa |-> OwnerIsa(next), context |-> Owner(next)] # NoHandoff
  BY <1>1 DEF NoHandoff
<1>8. \/ /\ OwnerIsa(next) = "PowerPc" /\ handoff' = NoHandoff
         /\ native' = Owner(next) /\ nativeCpuTask' = next
      \/ /\ OwnerIsa(next) = "M68k" /\ handoff' = NoHandoff
         /\ native' = native /\ classic' = Owner(next) /\ nativeCpuTask' = heir
      \/ /\ handoff' = [task |-> next, isa |-> OwnerIsa(next), context |-> Owner(next)]
         /\ native' = native /\ nativeCpuTask' = heir
  BY <1>1, <1>2 DEF InstallFromNative, InstallFromClassic
<1>9. Installed'
  <2>1. CASE handoff' = NoHandoff
    BY <1>2, <1>3, <1>6, <1>7, <1>8, <2>1 DEF Installed, Same
  <2>2. CASE handoff' = [task |-> next, isa |-> OwnerIsa(next), context |-> Owner(next)]
    BY <1>2, <1>3, <1>6, <1>7, <2>2 DEF Installed, Same
  <2> QED BY <1>8, <2>1, <2>2
<1>10. Displaced'
  <2>1. nativeCpuTask' \in Registered' \cup {NoTask}
    BY <1>3, <1>8
  <2>2. ASSUME nativeCpuTask' # NoTask, taskStates'[nativeCpuTask'] # "Running",
               OwnerIsa(nativeCpuTask)' = "PowerPc"
        PROVE  native' = Owner(nativeCpuTask)'
    <3>1. PICK x : x = nativeCpuTask'
      OBVIOUS
    <3>2. x # next /\ x = heir /\ x = nativeCpuTask /\ native' = native /\ x \in Registered'
      BY <1>8, <2>1, <2>2, <3>1
    <3>3. Same(x) /\ OwnerIsa(x)' = "PowerPc"
      BY <2>2, <3>1, <3>2
    <3>4. native = Owner(x)
      <4>1. CASE x = t
        BY <1>1, <3>3, <4>1 DEF Installed, Same
      <4>2. CASE x # t
        <5>1. taskStates[x] # "Running" /\ OwnerIsa(x) = "PowerPc" /\ x # NoTask
          BY <1>1, <1>3, <2>2, <3>1, <3>2, <3>3, <4>2 DEF Same
        <5> QED BY <1>1, <3>2, <5>1 DEF Displaced
      <4> QED BY <4>1, <4>2
    <3>5. Owner(nativeCpuTask)' = Owner(x)'
      BY <3>1
    <3> QED BY <3>2, <3>3, <3>4, <3>5 DEF Same
  <2>3. taskStates'[currentTask'] = "Running"
    OBVIOUS
  <2> QED BY <2>1, <2>2, <2>3 DEF Displaced
<1> QED BY <1>4, <1>5, <1>9, <1>10 DEF Engines

\* A step that leaves the cursor and both engines alone, and other tasks running or not
\* as they were.
LEMMA SameCursor ==
  ASSUME GuestInv, UNCHANGED <<currentTask, native, classic, handoff>>,
         Saved', currentTask \in Registered',
         \A u \in Registered' \cap Registered : Same(u) /\ taskEntryIsas'[u] = taskEntryIsas[u],
         \A u \in Registered' \ Registered : taskEntryIsas'[u] \in {"M68k", "PowerPc"},
         \A u \in Tasks : taskStates'[u] = "Running" => taskStates[u] = "Running",
         taskStates[currentTask] = "Running" =>
           handoff = NoHandoff \/ taskStates'[currentTask] = "Running",
         nativeCpuTask' \in Registered' \cup {NoTask},
         \/ nativeCpuTask' = nativeCpuTask
         \/ nativeCpuTask' = NoTask /\ nativeCpuTask # currentTask
  PROVE  Engines'
<1>a. PICK t \in Tasks : t = currentTask
  BY DEF GuestInv, Scheduling, TypeOK
<1>1. /\ TypeOK /\ Bound /\ Installed /\ Displaced
      /\ \A u \in Tasks : taskStates[u] = "Running" => u = t
      /\ t \in Registered /\ Registered' \subseteq Tasks /\ NoHandoff' = NoHandoff
      /\ currentTask' = t
  BY <1>a DEF GuestInv, Scheduling, Engines, SingleRunner, Registered, NoHandoff
<1>2. Same(t)
  BY <1>a, <1>1
<1>3. Bound'
  BY <1>1 DEF Bound
<1>4. Installed'
  <2> SUFFICES ASSUME taskStates'[t] = "Running" PROVE Installed'
    BY <1>1 DEF Installed
  <2>1. taskStates[t] = "Running"
    OBVIOUS
  <2>2. IF handoff # NoHandoff
        THEN /\ handoff.task = t /\ handoff.isa = OwnerIsa(t)
             /\ handoff.context = Owner(t) /\ ~ Finished(t)
        ELSE IF OwnerIsa(t) = "PowerPc" THEN native = Owner(t) /\ nativeCpuTask = t
        ELSE ~ Finished(t) => classic = Owner(t)
    BY <1>a, <1>1, <2>1 DEF Installed
  <2>3. IF handoff' # NoHandoff'
        THEN /\ handoff'.task = t /\ handoff'.isa = OwnerIsa(t)'
             /\ handoff'.context = Owner(t)' /\ ~ Finished(t)'
        ELSE IF OwnerIsa(t)' = "PowerPc" THEN native' = Owner(t)' /\ nativeCpuTask' = t
        ELSE ~ Finished(t)' => classic' = Owner(t)'
    BY <1>a, <1>1, <1>2, <2>2 DEF Same
  <2> QED BY <1>1, <2>3 DEF Installed
<1>5. Displaced'
  <2>1. ASSUME nativeCpuTask' # NoTask, taskStates'[nativeCpuTask'] # "Running",
               OwnerIsa(nativeCpuTask)' = "PowerPc"
        PROVE  native' = Owner(nativeCpuTask)'
    <3>1. PICK x : x = nativeCpuTask'
      OBVIOUS
    <3>2. x = nativeCpuTask /\ x \in Registered' /\ x \in Registered /\ x # NoTask
      BY <1>1, <2>1, <3>1 DEF Displaced
    <3>3. Same(x) /\ OwnerIsa(x)' = "PowerPc"
      BY <2>1, <3>1, <3>2
    <3>4. native = Owner(x)
      <4>1. CASE taskStates[x] = "Running"
        <5>1. x = t /\ handoff = NoHandoff
          BY <1>a, <1>1, <2>1, <3>1, <3>2, <4>1
        <5> QED BY <1>a, <1>1, <3>3, <4>1, <5>1 DEF Installed, Same
      <4>2. CASE taskStates[x] # "Running"
        BY <1>1, <3>2, <3>3, <4>2 DEF Displaced, Same
      <4> QED BY <4>1, <4>2
    <3>5. Owner(nativeCpuTask)' = Owner(x)'
      BY <3>1
    <3> QED BY <3>3, <3>4, <3>5 DEF Same
  <2>2. handoff' # NoHandoff' => taskStates'[currentTask'] = "Running"
    BY <1>a, <1>1 DEF Displaced
  <2> QED BY <2>1, <2>2 DEF Displaced
<1> QED BY <1>3, <1>4, <1>5 DEF Engines

\* What a switch leaves alone, and what it finds.
LEMMA Switching ==
  ASSUME GuestInv, NEW n \in BOOLEAN, IF n THEN NativeRuns ELSE ClassicRuns,
         NEW t \in Tasks, t = currentTask
  PROVE  /\ taskStates[t] = "Running" /\ handoff = NoHandoff /\ ~ Finished(t) /\ t \in Registered
         /\ \A u \in Tasks : taskStates[u] = "Running" => u = t
         /\ n => OwnerIsa(t) = "PowerPc" /\ native = Owner(t) /\ nativeCpuTask = t
         /\ ~ n => OwnerIsa(t) = "M68k" /\ classic = Owner(t)
         /\ nativeThreads \in [Tasks -> Contexts \cup {NoContext}]
         /\ cooperativeContexts \in [Tasks -> Contexts \cup {NoContext}]
         /\ TypeOK /\ nativeCpuTask \in Registered \cup {NoTask}
BY NativeIsOwner, ClassicIsOwner
   DEF Runs, GuestInv, Scheduling, SingleRunner, GuestTypeOK, Engines, Displaced

\* A yield (yield_task).
LEMMA YieldStep ==
  ASSUME GuestInv, TypeOK', NEW n \in BOOLEAN, NEW suggested \in Tasks \cup {NoTask},
         YieldTask(n, suggested)
  PROVE  FramesOK' /\ Engines'
<1>a. PICK t \in Tasks : t = currentTask
  BY DEF GuestInv, Scheduling, TypeOK
<1>b. PICK next : next = NextReadyTask(suggested, FALSE)
  OBVIOUS
<1>1. /\ taskStates[t] = "Running" /\ handoff = NoHandoff /\ ~ Finished(t) /\ t \in Registered
      /\ n => OwnerIsa(t) = "PowerPc" /\ native = Owner(t) /\ nativeCpuTask = t
      /\ ~ n => OwnerIsa(t) = "M68k" /\ classic = Owner(t)
      /\ nativeThreads \in [Tasks -> Contexts \cup {NoContext}]
      /\ cooperativeContexts \in [Tasks -> Contexts \cup {NoContext}]
      /\ TypeOK /\ nativeCpuTask \in Registered \cup {NoTask}
  BY <1>a, Switching DEF YieldTask
<1>2. /\ next # NoTask /\ SwitchToTask(next) /\ SaveOutgoing(n, TRUE)
      /\ IF n THEN InstallFromNative(currentTask, next)
         ELSE InstallFromClassic(next) /\ UNCHANGED nativeCpuTask
      /\ UNCHANGED <<kinds, powerpcParked, m68kParked>>
  BY <1>b DEF YieldTask
<1>3. next \in Tasks \ {t} /\ taskStates[next] = "Ready"
  BY <1>a, <1>b, <1>1, <1>2, CandidateEligible DEF NextReadyTask, Eligible
<1>4. /\ taskStates' = [taskStates EXCEPT ![t] = "Ready", ![next] = "Running"]
      /\ currentTask' = next /\ UNCHANGED <<stacks, taskEntryIsas, m68kContexts>>
  BY <1>a, <1>1, <1>2, <1>3 DEF SwitchToTask, MaySwitchTo, bankVars
<1>5. /\ taskStates'[next] = "Running" /\ taskStates'[t] # "Running"
      /\ \A u \in Tasks \ {t, next} : taskStates'[u] = taskStates[u]
      /\ Registered' \subseteq Tasks /\ Registered \subseteq Registered'
  BY <1>1, <1>3, <1>4 DEF TypeOK, Registered, States
<1>6. FramesOK' /\ \A u \in Tasks : Same(u)
  BY <1>2, <1>4, StacksStay
<1>7. /\ \A u \in Tasks \ {t} : /\ nativeThreads'[u] = nativeThreads[u]
                                /\ cooperativeContexts'[u] = cooperativeContexts[u]
      /\ IF OwnerIsa(t) = "M68k" THEN cooperativeContexts'[t] = Owner(t)
         ELSE nativeThreads'[t] = Owner(t)
  BY <1>a, <1>1, <1>2 DEF SaveOutgoing
<1>8. /\ \/ InstallFromNative(nativeCpuTask, next)
         \/ InstallFromClassic(next) /\ nativeCpuTask' = nativeCpuTask
      /\ nativeCpuTask \in {nativeCpuTask, NoTask} /\ nativeCpuTask \in Registered' \cup {NoTask}
  BY <1>a, <1>1, <1>2, <1>5
<1>9. /\ \A u \in Registered' : Same(u) /\ taskEntryIsas'[u] = taskEntryIsas[u]
      /\ \A u \in Registered' \ {t} : /\ nativeThreads'[u] = nativeThreads[u]
                                      /\ cooperativeContexts'[u] = cooperativeContexts[u]
  BY <1>4, <1>5, <1>6, <1>7
<1>10. Engines'
  BY <1>a, <1>1, <1>3, <1>4, <1>5, <1>7, <1>8, <1>9, Handover
<1> QED BY <1>6, <1>10

\* A thread's state is changed (change_thread_state): with a successor, as a yield;
\* without, the cursor stays and a task that stops keeps its registers.
LEMMA ThreadStateStep ==
  ASSUME GuestInv, TypeOK', NEW n \in BOOLEAN, NEW x \in Tasks, NEW s \in States,
         NEW suggested \in Tasks \cup {NoTask}, NEW e \in BOOLEAN,
         SetThreadState(n, x, s, suggested, e)
  PROVE  FramesOK' /\ Engines'
<1>a. PICK t \in Tasks : t = currentTask
  BY DEF GuestInv, Scheduling, TypeOK
<1>b. PICK next : next = IF x = t /\ s # "Running" THEN Candidate(suggested, x) ELSE NoTask
  OBVIOUS
<1>c. PICK saves \in BOOLEAN : saves <=> next # NoTask \/ (x = t /\ s = "Stopped")
  OBVIOUS
<1>d. PICK final : final = IF x = t /\ s # "Running" /\ next = NoTask /\ s = "Ready" THEN "Running" ELSE s
  OBVIOUS
<1>1. /\ taskStates[t] = "Running" /\ handoff = NoHandoff /\ ~ Finished(t) /\ t \in Registered
      /\ \A u \in Tasks : taskStates[u] = "Running" => u = t
      /\ n => OwnerIsa(t) = "PowerPc" /\ native = Owner(t) /\ nativeCpuTask = t
      /\ ~ n => OwnerIsa(t) = "M68k" /\ classic = Owner(t)
      /\ nativeThreads \in [Tasks -> Contexts \cup {NoContext}]
      /\ cooperativeContexts \in [Tasks -> Contexts \cup {NoContext}]
      /\ TypeOK /\ nativeCpuTask \in Registered \cup {NoTask}
  BY <1>a, Switching DEF SetThreadState
<1>2. /\ SaveOutgoing(n, saves)
      /\ IF n /\ saves THEN InstallFromNative(t, next)
         ELSE InstallFromClassic(next) /\ UNCHANGED nativeCpuTask
      /\ UNCHANGED <<kinds, powerpcParked, m68kParked>>
  BY <1>a, <1>b, <1>c, Zenon DEF SetThreadState
<1>3. /\ x \in Registered /\ (s = "Running" => x = t)
      /\ IF next = NoTask
         THEN taskStates' = [taskStates EXCEPT ![x] = final] /\ currentTask' = currentTask
         ELSE /\ taskStates' = [taskStates EXCEPT ![x] = final, ![next] = "Running"]
              /\ currentTask' = next
      /\ UNCHANGED <<stacks, taskEntryIsas, bankVars>>
  BY <1>a, <1>b, <1>d DEF SetThreadState, ChangeThreadState
<1>4. FramesOK' /\ \A u \in Tasks : Same(u)
  BY <1>2, <1>3, StacksStay DEF bankVars
<1>5. /\ \A u \in Tasks \ {t} : /\ nativeThreads'[u] = nativeThreads[u]
                                /\ cooperativeContexts'[u] = cooperativeContexts[u]
      /\ saves => IF OwnerIsa(t) = "M68k" THEN cooperativeContexts'[t] = Owner(t)
                  ELSE nativeThreads'[t] = Owner(t)
  BY <1>a, <1>1, <1>2 DEF SaveOutgoing
<1>6. CASE next # NoTask
  <2>1. x = t /\ s # "Running" /\ next \in Tasks \ {t} /\ taskStates[next] = "Ready" /\ final = s
    BY <1>b, <1>d, <1>1, <1>6, CandidateEligible DEF Eligible
  <2>2. /\ taskStates'[next] = "Running" /\ taskStates'[t] # "Running" /\ currentTask' = next
        /\ \A u \in Tasks \ {t, next} : taskStates'[u] = taskStates[u]
        /\ Registered' \subseteq Tasks /\ Registered \subseteq Registered'
    <3>1. /\ taskStates' = [taskStates EXCEPT ![x] = final, ![next] = "Running"]
          /\ currentTask' = next
      BY <1>3, <1>6
    <3>2. /\ taskStates \in [Tasks -> States \cup {"Absent"}] /\ final \in States
          /\ final # "Running" /\ x = t /\ next \in Tasks \ {t}
      BY <1>1, <2>1 DEF TypeOK
    <3>3. /\ taskStates'[next] = "Running" /\ taskStates'[t] = final
          /\ \A u \in Tasks \ {t, next} : taskStates'[u] = taskStates[u]
      BY <3>1, <3>2
    <3> QED BY <3>1, <3>2, <3>3 DEF Registered, States
  <2>3. /\ \/ InstallFromNative(nativeCpuTask, next)
           \/ InstallFromClassic(next) /\ nativeCpuTask' = nativeCpuTask
        /\ nativeCpuTask \in {nativeCpuTask, NoTask} /\ nativeCpuTask \in Registered' \cup {NoTask}
    BY <1>c, <1>1, <1>2, <1>6, <2>2
  <2>4. /\ \A u \in Registered' : Same(u) /\ taskEntryIsas'[u] = taskEntryIsas[u]
        /\ \A u \in Registered' \ {t} : /\ nativeThreads'[u] = nativeThreads[u]
                                        /\ cooperativeContexts'[u] = cooperativeContexts[u]
    BY <1>3, <1>4, <1>5, <2>2
  <2>5. IF OwnerIsa(t) = "M68k" THEN cooperativeContexts'[t] = Owner(t)
        ELSE nativeThreads'[t] = Owner(t)
    BY <1>c, <1>5, <1>6
  <2>6. Engines'
    BY <1>a, <1>1, <2>1, <2>2, <2>3, <2>4, <2>5, Handover
  <2> QED BY <1>4, <2>6
<1>7. CASE next = NoTask
  <2>1. /\ taskStates' = [taskStates EXCEPT ![x] = final] /\ currentTask' = currentTask
        /\ Registered' = Registered /\ Registered \subseteq Tasks
    BY <1>d, <1>3, <1>7 DEF TypeOK, Registered, States
  <2>2. /\ UNCHANGED <<native, classic, handoff>> /\ nativeCpuTask' = nativeCpuTask
    <3>1. InstallFromNative(t, next) => UNCHANGED <<native, classic, handoff>> /\ nativeCpuTask' = t
      BY <1>7 DEF InstallFromNative
    <3>2. InstallFromClassic(next) => UNCHANGED <<native, classic, handoff>>
      BY <1>7 DEF InstallFromClassic
    <3> QED BY <1>1, <1>2, <3>1, <3>2
  <2>3. \A u \in Tasks : taskStates'[u] = "Running" => taskStates[u] = "Running"
    BY <1>b, <1>d, <1>1, <1>3, <2>1 DEF TypeOK
  <2>4. Saved'
    <3> SUFFICES ASSUME NEW u \in Registered', taskStates'[u] # "Running"
                 PROVE  /\ ~ Finished(u)'
                        /\ IF OwnerIsa(u)' = "M68k" THEN cooperativeContexts'[u] = Owner(u)'
                           ELSE nativeThreads'[u] = Owner(u)'
      BY DEF Saved
    <3>1. CASE u = t
      <4>1. x = t /\ s = "Stopped"
        BY <1>b, <1>d, <1>1, <1>7, <2>1, <3>1 DEF TypeOK, States
      <4> QED BY <1>c, <1>1, <1>4, <1>5, <3>1, <4>1 DEF Same
    <3>2. CASE u # t
      <4>1. /\ ~ Finished(u)
            /\ IF OwnerIsa(u) = "M68k" THEN cooperativeContexts[u] = Owner(u)
               ELSE nativeThreads[u] = Owner(u)
        BY <1>1, <2>1, <3>2 DEF GuestInv, Engines, Saved
      <4> QED BY <1>4, <1>5, <2>1, <3>2, <4>1 DEF Same
    <3> QED BY <3>1, <3>2
  <2>5. Engines'
    BY <1>a, <1>1, <1>3, <1>4, <2>1, <2>2, <2>3, <2>4, SameCursor
  <2> QED BY <1>4, <2>5
<1> QED BY <1>6, <1>7

\* A new thread is entered in its own code, with that code's registers (create_thread).
LEMMA CreateStep ==
  ASSUME GuestInv, TypeOK', NEW n \in BOOLEAN, NEW suspended \in BOOLEAN,
         CreateThread(n, suspended)
  PROVE  FramesOK' /\ Engines'
<1>a. PICK t \in Tasks : t = nextTaskId
  BY DEF GuestInv, Scheduling, TypeOK, CreateThread
<1>1. /\ TypeOK /\ GuestTypeOK /\ Engines /\ t \notin Registered /\ stacks[t] = << >>
      /\ currentTask \in Registered
  BY <1>a DEF GuestInv, Scheduling, CreateThread, RetiredForever, SingleRunner
<1>2. /\ taskEntryIsas' = [taskEntryIsas EXCEPT ![t] = IF n THEN "PowerPc" ELSE "M68k"]
      /\ taskStates' = [taskStates EXCEPT ![t] = IF suspended THEN "Stopped" ELSE "Ready"]
      /\ nativeThreads' = IF n THEN [nativeThreads EXCEPT ![t] = <<t, 0>>] ELSE nativeThreads
      /\ cooperativeContexts' = IF n THEN cooperativeContexts
                                ELSE [cooperativeContexts EXCEPT ![t] = <<t, 0>>]
      /\ UNCHANGED <<currentTask, m68kContexts, kinds, native, classic, powerpcParked, m68kParked,
                     nativeCpuTask, handoff>>
  BY <1>a DEF CreateThread, bankVars
<1>3. stacks' = stacks
  BY CreateKeepsKernel DEF GuestInv
<1>4. /\ Registered' = Registered \cup {t} /\ Registered \subseteq Tasks
      /\ \A u \in Tasks \ {t} : taskEntryIsas'[u] = taskEntryIsas[u] /\ taskStates'[u] = taskStates[u]
      /\ taskEntryIsas'[t] = IF n THEN "PowerPc" ELSE "M68k"
      /\ taskStates'[t] # "Running"
  BY <1>1, <1>2 DEF TypeOK, Registered
<1>5. FramesOK' /\ \A u \in Tasks : taskEntryIsas'[u] = taskEntryIsas[u] => Same(u)
  BY <1>1, <1>2, <1>3, <1>4, StacksStay
<1>6. /\ \A u \in Tasks \ {t} : /\ nativeThreads'[u] = nativeThreads[u]
                                /\ cooperativeContexts'[u] = cooperativeContexts[u]
      /\ IF n THEN nativeThreads'[t] = <<t, 0>> ELSE cooperativeContexts'[t] = <<t, 0>>
  BY <1>1, <1>2 DEF GuestTypeOK
<1>7. Saved'
  <2> SUFFICES ASSUME NEW u \in Registered', taskStates'[u] # "Running"
               PROVE  /\ ~ Finished(u)'
                      /\ IF OwnerIsa(u)' = "M68k" THEN cooperativeContexts'[u] = Owner(u)'
                         ELSE nativeThreads'[u] = Owner(u)'
    BY DEF Saved
  <2>1. CASE u = t
    <3>1. Owner(t)' = <<t, 0>> /\ OwnerIsa(t)' = taskEntryIsas'[t] /\ ~ Finished(t)'
      BY <1>1, <1>3, NoCalls
    <3> QED BY <1>4, <1>6, <2>1, <3>1
  <2>2. CASE u # t
    <3>1. u \in Registered /\ taskStates[u] # "Running" /\ Same(u)
      BY <1>4, <1>5, <2>2
    <3>2. /\ ~ Finished(u)
          /\ IF OwnerIsa(u) = "M68k" THEN cooperativeContexts[u] = Owner(u)
             ELSE nativeThreads[u] = Owner(u)
      BY <1>1, <3>1 DEF Engines, Saved
    <3> QED BY <1>4, <1>6, <2>2, <3>1, <3>2 DEF Same
  <2> QED BY <2>1, <2>2
<1>8. nativeCpuTask' \in Registered' \cup {NoTask}
  BY <1>1, <1>2, <1>4 DEF Engines, Displaced
<1>9. /\ \A u \in Registered' \cap Registered : Same(u) /\ taskEntryIsas'[u] = taskEntryIsas[u]
      /\ \A u \in Registered' \ Registered : taskEntryIsas'[u] \in {"M68k", "PowerPc"}
      /\ \A u \in Tasks : taskStates'[u] = "Running" => taskStates[u] = "Running"
      /\ currentTask \in Registered'
      /\ taskStates[currentTask] = "Running" => taskStates'[currentTask] = "Running"
  BY <1>1, <1>4, <1>5
<1>10. Engines'
  BY <1>2, <1>7, <1>8, <1>9, SameCursor
<1> QED BY <1>5, <1>10

\* A retired thread leaves nothing that the engines or the snapshots still name
\* (retire_thread).
LEMMA RetireStep ==
  ASSUME GuestInv, TypeOK', NEW n \in BOOLEAN, NEW x \in Tasks, RetireThread(n, x)
  PROVE  FramesOK' /\ Engines'
<1>a. PICK t \in Tasks : t = currentTask
  BY DEF GuestInv, Scheduling, TypeOK
<1>b. PICK next : next = IF x = t THEN NextReadyTask(NoTask, FALSE) ELSE NoTask
  OBVIOUS
<1>c. PICK heir : heir = IF nativeCpuTask = x THEN NoTask ELSE nativeCpuTask
  OBVIOUS
<1>1. /\ taskStates[t] = "Running" /\ handoff = NoHandoff /\ ~ Finished(t) /\ t \in Registered
      /\ \A u \in Tasks : taskStates[u] = "Running" => u = t
      /\ n => OwnerIsa(t) = "PowerPc" /\ native = Owner(t) /\ nativeCpuTask = t
      /\ nativeThreads \in [Tasks -> Contexts \cup {NoContext}]
      /\ cooperativeContexts \in [Tasks -> Contexts \cup {NoContext}]
      /\ TypeOK /\ nativeCpuTask \in Registered \cup {NoTask}
  BY <1>a, Switching DEF RetireThread
<1>2. /\ x = t => next # NoTask
      /\ RetireTask(x, next)
      /\ nativeThreads' = [nativeThreads EXCEPT ![x] = NoContext]
      /\ cooperativeContexts' = [cooperativeContexts EXCEPT ![x] = NoContext]
      /\ \/ InstallFromNative(heir, next)
         \/ InstallFromClassic(next) /\ nativeCpuTask' = heir
      /\ UNCHANGED <<kinds, powerpcParked, m68kParked>>
  BY <1>a, <1>b, <1>c DEF RetireThread
<1>3. /\ x \in Registered /\ stacks[x] = << >>
      /\ currentTask' = IF x = t THEN next ELSE t
      /\ taskStates' = [u \in Tasks |-> IF u = x THEN "Absent"
                                        ELSE IF u = next THEN "Running" ELSE taskStates[u]]
      /\ taskEntryIsas' = [taskEntryIsas EXCEPT ![x] = "Unbound"]
      /\ UNCHANGED <<stacks, m68kContexts>>
  BY <1>a, <1>1, <1>2 DEF RetireTask, bankVars, TypeOK
<1>4. FramesOK' /\ \A u \in Tasks \ {x} : Same(u) /\ taskEntryIsas'[u] = taskEntryIsas[u]
  <2>1. \A u \in Tasks \ {x} : taskEntryIsas'[u] = taskEntryIsas[u]
    BY <1>1, <1>3 DEF TypeOK
  <2> QED BY <1>2, <1>3, <2>1, StacksStay
<1>5. /\ \A u \in Tasks \ {x} : /\ nativeThreads'[u] = nativeThreads[u]
                                /\ cooperativeContexts'[u] = cooperativeContexts[u]
      /\ heir \in {nativeCpuTask, NoTask} /\ heir # x /\ heir \in Registered \cup {NoTask}
  BY <1>c, <1>1, <1>2, TasksAreNat
<1>6. CASE x = t
  <2>1. next \in Tasks \ {t} /\ taskStates[next] = "Ready"
    BY <1>a, <1>b, <1>1, <1>2, <1>6, CandidateEligible DEF NextReadyTask, Eligible
  <2>2. /\ currentTask' = next /\ taskStates'[next] = "Running" /\ taskStates'[t] # "Running"
        /\ \A u \in Tasks \ {t, next} : taskStates'[u] = taskStates[u]
        /\ Registered' = Registered \ {x} /\ Registered' \subseteq Tasks
    BY <1>3, <1>6, <2>1 DEF Registered
  <2>3. /\ \A u \in Registered' : Same(u) /\ taskEntryIsas'[u] = taskEntryIsas[u]
        /\ \A u \in Registered' \ {t} : /\ nativeThreads'[u] = nativeThreads[u]
                                        /\ cooperativeContexts'[u] = cooperativeContexts[u]
        /\ t \notin Registered' /\ heir \in Registered' \cup {NoTask}
    BY <1>4, <1>5, <1>6, <2>2
  <2>4. Engines'
    BY <1>a, <1>1, <1>2, <1>5, <2>1, <2>2, <2>3, Handover
  <2> QED BY <1>4, <2>4
<1>7. CASE x # t
  <2>1. next = NoTask /\ currentTask' = t
    BY <1>b, <1>3, <1>7
  <2>2. /\ UNCHANGED <<native, classic, handoff>> /\ nativeCpuTask' = heir
    BY <1>2, <2>1 DEF InstallFromNative, InstallFromClassic
  <2>3. /\ Registered' = Registered \ {x} /\ Registered' \subseteq Tasks
        /\ \A u \in Tasks \ {x} : taskStates'[u] = taskStates[u]
        /\ taskStates'[x] # "Running"
    BY <1>3, <2>1, TasksAreNat DEF Registered
  <2>4. Saved'
    <3> SUFFICES ASSUME NEW u \in Registered', taskStates'[u] # "Running"
                 PROVE  /\ ~ Finished(u)'
                        /\ IF OwnerIsa(u)' = "M68k" THEN cooperativeContexts'[u] = Owner(u)'
                           ELSE nativeThreads'[u] = Owner(u)'
      BY DEF Saved
    <3>1. u \in Registered /\ u \in Tasks \ {x} /\ taskStates[u] # "Running"
      BY <2>3
    <3>2. /\ ~ Finished(u)
          /\ IF OwnerIsa(u) = "M68k" THEN cooperativeContexts[u] = Owner(u)
             ELSE nativeThreads[u] = Owner(u)
      BY <3>1 DEF GuestInv, Engines, Saved
    <3> QED BY <1>4, <1>5, <3>1, <3>2 DEF Same
  <2>5. /\ \A u \in Registered' \cap Registered : Same(u) /\ taskEntryIsas'[u] = taskEntryIsas[u]
        /\ \A u \in Registered' \ Registered : taskEntryIsas'[u] \in {"M68k", "PowerPc"}
        /\ \A u \in Tasks : taskStates'[u] = "Running" => taskStates[u] = "Running"
        /\ currentTask \in Registered' /\ currentTask' = currentTask
        /\ taskStates[currentTask] = "Running" => taskStates'[currentTask] = "Running"
        /\ nativeCpuTask' \in Registered' \cup {NoTask}
        /\ \/ nativeCpuTask' = nativeCpuTask
           \/ nativeCpuTask' = NoTask /\ nativeCpuTask # currentTask
    BY <1>a, <1>c, <1>1, <1>4, <1>5, <1>7, <2>1, <2>2, <2>3
  <2>6. Engines'
    BY <2>2, <2>4, <2>5, SameCursor
  <2> QED BY <1>4, <2>6
<1> QED BY <1>6, <1>7

\* A stopped task is readied with the registers it stopped with (set_thread_ready,
\* also at interrupt time), and a critical section moves nothing.
LEMMA ReadyStep ==
  ASSUME GuestInv, TypeOK', (\E x \in Tasks : ReadyGivenTask(x)) \/ CriticalSection
  PROVE  FramesOK' /\ Engines'
<1>1. /\ TypeOK /\ Saved /\ Displaced /\ currentTask \in Registered
  BY DEF GuestInv, Scheduling, Engines, SingleRunner
<1>2. /\ UNCHANGED <<currentTask, stacks, taskEntryIsas, bankVars, guestVars>>
      /\ \/ taskStates' = taskStates
         \/ \E x \in Tasks : /\ taskStates[x] = "Stopped"
                             /\ taskStates' = [taskStates EXCEPT ![x] = "Ready"]
  BY DEF ReadyGivenTask, SetSchedulingState, CriticalSection, BeginCritical, EndCritical
<1>3. /\ Registered' = Registered /\ Registered \subseteq Tasks
      /\ \A u \in Tasks : taskStates'[u] = "Running" <=> taskStates[u] = "Running"
  BY <1>1, <1>2 DEF TypeOK, Registered
<1>4. FramesOK' /\ \A u \in Tasks : Same(u)
  BY <1>2, StacksStay DEF bankVars, guestVars
<1>5. Saved'
  BY <1>1, <1>2, <1>3, <1>4 DEF Saved, Same, guestVars
<1>6. nativeCpuTask' \in Registered' \cup {NoTask}
  BY <1>1, <1>2, <1>3 DEF Displaced, guestVars
<1>7. UNCHANGED <<currentTask, native, classic, handoff, nativeCpuTask, taskEntryIsas>>
  BY <1>2 DEF guestVars
<1>8. Engines'
  BY <1>1, <1>3, <1>4, <1>5, <1>6, <1>7, SameCursor
<1> QED BY <1>4, <1>8

\* A classic successor that a native switch selected is installed (apply_task_handoff).
LEMMA ApplyStep ==
  ASSUME GuestInv, TypeOK', ApplyTaskHandoff
  PROVE  FramesOK' /\ Engines'
<1>a. PICK t \in Tasks : t = currentTask
  BY DEF GuestInv, Scheduling, TypeOK
<1>1. /\ Bound /\ Saved /\ Installed /\ Displaced
      /\ handoff # NoHandoff /\ handoff.isa = "M68k"
      /\ classic' = handoff.context /\ handoff' = NoHandoff
      /\ UNCHANGED <<currentTask, stacks, taskStates, taskEntryIsas, m68kContexts, kinds, native,
                     nativeThreads, cooperativeContexts, powerpcParked, m68kParked, nativeCpuTask>>
  BY DEF GuestInv, Engines, ApplyTaskHandoff, MayApplyHandoff, vars, storeVars, bankVars
<1>2. FramesOK' /\ \A u \in Tasks : Same(u)
  BY <1>1, StacksStay
<1>3. Registered' = Registered /\ Registered \subseteq Tasks /\ NoHandoff' = NoHandoff
  BY <1>1 DEF Registered, NoHandoff
<1>4. Bound' /\ Saved'
  BY <1>1, <1>2, <1>3 DEF Bound, Saved, Same
<1>5. OwnerIsa(t) = "M68k" /\ handoff.context = Owner(t)
  BY <1>a, <1>1 DEF Installed, Displaced
<1>6. Installed'
  BY <1>a, <1>1, <1>2, <1>3, <1>5 DEF Installed, Same
<1>7. Displaced'
  BY <1>1, <1>2, <1>3 DEF Displaced, Same
<1> QED BY <1>2, <1>4, <1>6, <1>7 DEF Engines

\* The native engine is given to the selected task, and what it held is kept
\* (prepare_native_task).
LEMMA PrepareStep ==
  ASSUME GuestInv, TypeOK', PrepareNativeTask
  PROVE  FramesOK' /\ Engines'
<1>a. PICK t \in Tasks : t = currentTask
  BY DEF GuestInv, Scheduling, TypeOK
<1>b. PICK x : x = nativeCpuTask
  OBVIOUS
<1>1. /\ Bound /\ Saved /\ Installed /\ Displaced /\ t \in Registered
      /\ nativeThreads \in [Tasks -> Contexts \cup {NoContext}]
      /\ \A u \in Tasks : taskStates[u] = "Running" => u = t
      /\ taskStates[t] = "Running" /\ (handoff # NoHandoff \/ x # t)
  BY <1>a, <1>b DEF GuestInv, Engines, Scheduling, SingleRunner, GuestTypeOK,
                    PrepareNativeTask, MayPrepareNative, Replacing, Prepared, Route
<1>2. /\ handoff # NoHandoff => handoff.isa = "PowerPc" /\ native' = handoff.context
      /\ nativeThreads' = IF x # t /\ x # NoTask THEN SavedNative(x) ELSE nativeThreads
      /\ nativeCpuTask' = t /\ handoff' = NoHandoff
      /\ UNCHANGED <<currentTask, stacks, taskStates, taskEntryIsas, m68kContexts, kinds, classic,
                     cooperativeContexts, powerpcParked, m68kParked>>
  BY <1>a, <1>b DEF PrepareNativeTask, MayPrepareNative, Replacing, vars, storeVars,
                    bankVars
<1>3. FramesOK' /\ \A u \in Tasks : Same(u)
  BY <1>2, StacksStay
<1>4. Registered' = Registered /\ Registered \subseteq Tasks /\ NoHandoff' = NoHandoff
  BY <1>2 DEF Registered, NoHandoff
<1>5. Bound'
  BY <1>1, <1>2, <1>4 DEF Bound
<1>6. Saved'
  <2> SUFFICES ASSUME NEW u \in Registered, taskStates[u] # "Running"
               PROVE  /\ ~ Finished(u)'
                      /\ IF OwnerIsa(u)' = "M68k" THEN cooperativeContexts'[u] = Owner(u)'
                         ELSE nativeThreads'[u] = Owner(u)'
    BY <1>2, <1>4 DEF Saved
  <2>1. /\ ~ Finished(u)
        /\ IF OwnerIsa(u) = "M68k" THEN cooperativeContexts[u] = Owner(u)
           ELSE nativeThreads[u] = Owner(u)
    BY <1>1 DEF Saved
  <2>2. OwnerIsa(u) \in {"M68k", "PowerPc"}
    BY <1>1, OwnerIsaIs DEF GuestInv, Scheduling
  <2>3. CASE u = x /\ x # t /\ OwnerIsa(u) = "PowerPc"
    <3>1. native = Owner(u) /\ u # NoTask
      BY <1>b, <1>1, <1>4, <2>3, TasksAreNat DEF Displaced
    <3>2. nativeThreads'[u] = native
      BY <1>1, <1>2, <1>4, <2>3, <3>1 DEF SavedNative
    <3> QED BY <1>3, <1>4, <2>1, <2>3, <3>1, <3>2 DEF Same
  <2>4. CASE ~ (u = x /\ x # t)
    <3>1. nativeThreads'[u] = nativeThreads[u]
      BY <1>1, <1>2, <1>4, <2>4 DEF SavedNative
    <3> QED BY <1>2, <1>3, <1>4, <2>1, <3>1 DEF Same
  <2>5. CASE OwnerIsa(u) = "M68k"
    BY <1>2, <1>3, <1>4, <2>1, <2>5 DEF Same
  <2> QED BY <2>2, <2>3, <2>4, <2>5
<1>7. Installed'
  <2>1. CASE handoff # NoHandoff
    <3>1. OwnerIsa(t) = "PowerPc" /\ native' = Owner(t)
      BY <1>a, <1>1, <1>2, <2>1 DEF Installed
    <3> QED BY <1>a, <1>2, <1>3, <1>4, <3>1 DEF Installed, Same
  <2>2. CASE handoff = NoHandoff
    <3>1. OwnerIsa(t) # "PowerPc" /\ (~ Finished(t) => classic = Owner(t))
      BY <1>a, <1>b, <1>1, <2>2 DEF Installed
    <3> QED BY <1>a, <1>2, <1>3, <1>4, <3>1 DEF Installed, Same
  <2> QED BY <2>1, <2>2
<1>8. Displaced'
  BY <1>1, <1>2, <1>4 DEF Displaced
<1> QED BY <1>3, <1>5, <1>6, <1>7, <1>8 DEF Engines

\* A ready task is selected when nothing runs (resume_ready_task).
LEMMA ResumeStep ==
  ASSUME GuestInv, TypeOK', ResumeReadyTask
  PROVE  FramesOK' /\ Engines'
<1>a. PICK t \in Tasks : t = currentTask
  BY DEF GuestInv, Scheduling, TypeOK
<1>b. PICK next : next = IF taskStates[t] = "Ready" THEN t ELSE NextReadyTask(NoTask, FALSE)
  OBVIOUS
<1>1. /\ TypeOK /\ Bound /\ Saved /\ Displaced
      /\ \A u \in Tasks : taskStates[u] # "Running"
  BY <1>a DEF GuestInv, Engines, Scheduling, SingleRunner, ResumeReadyTask, MayResumeReady,
              ReadySuccessor
<1>2. /\ next # NoTask /\ SwitchToTask(next)
      /\ handoff' = [task |-> next, isa |-> SavedIsa(next), context |-> SavedContext(next)]
      /\ UNCHANGED <<kinds, native, classic, nativeThreads, cooperativeContexts, powerpcParked,
                     m68kParked, nativeCpuTask>>
  BY <1>a, <1>b DEF ResumeReadyTask, MayResumeReady, ReadySuccessor
<1>3. next \in Tasks /\ taskStates[next] = "Ready"
  BY <1>a, <1>b, <1>1, <1>2, CandidateEligible DEF NextReadyTask, Eligible
<1>4. /\ taskStates' = [taskStates EXCEPT ![next] = "Running"] /\ currentTask' = next
      /\ UNCHANGED <<stacks, taskEntryIsas, m68kContexts>>
  <2>1. taskStates' = [taskStates EXCEPT ![t] = taskStates[t], ![next] = "Running"]
        /\ currentTask' = next /\ UNCHANGED <<stacks, taskEntryIsas, m68kContexts>>
    BY <1>a, <1>1, <1>2 DEF SwitchToTask, MaySwitchTo, bankVars
  <2> QED BY <1>1, <2>1 DEF TypeOK
<1>5. /\ Registered' = Registered /\ Registered \subseteq Tasks /\ next \in Registered
      /\ \A u \in Tasks \ {next} : taskStates'[u] = taskStates[u]
      /\ taskStates'[next] = "Running" /\ NoHandoff' = NoHandoff
  BY <1>1, <1>3, <1>4 DEF TypeOK, Registered, NoHandoff
<1>6. FramesOK' /\ \A u \in Tasks : Same(u)
  BY <1>2, <1>4, StacksStay
<1>7. SavedIsa(next) = OwnerIsa(next) /\ SavedContext(next) = Owner(next) /\ ~ Finished(next)
  BY <1>3, <1>5, SnapshotIsOwner
<1>8. Bound' /\ Saved'
  BY <1>1, <1>2, <1>4, <1>5, <1>6 DEF Bound, Saved, Same
<1>9. Installed'
  <2>1. /\ handoff' # NoHandoff' /\ handoff'.task = next /\ handoff'.isa = OwnerIsa(next)
        /\ handoff'.context = Owner(next)
    BY <1>2, <1>5, <1>7 DEF NoHandoff
  <2> QED BY <1>4, <1>5, <1>6, <1>7, <2>1 DEF Installed, Same
<1>10. Displaced'
  BY <1>1, <1>2, <1>4, <1>5, <1>6 DEF Displaced, Same
<1> QED BY <1>6, <1>8, <1>9, <1>10 DEF Engines

---------------------------------------------------------------------------
(* The theorems *)

\* Every step of the guest and of the runner preserves the invariant.
LEMMA StepGuest ==
  ASSUME ~ NativeReentry, ~ ClassicReentry, GuestInv, [GuestNext]_allVars
  PROVE  GuestInv'
<1>1. Scheduling' /\ CallIdentity' /\ TypeOK'
  BY KernelKept DEF GuestInv, Scheduling
<1>2. GuestTypeOK'
  BY <1>1, TypesKept
<1> DEFINE Kept == FramesOK' /\ Engines'
<1>3. ASSUME UNCHANGED allVars PROVE Kept
  <2>1. UNCHANGED <<vars, guestVars>>
    BY <1>3 DEF allVars
  <2>2. FramesOK' = FramesOK
    BY <2>1 DEF FramesOK, FrameOK, FrameShape, FrameKept, ParksClassic, ParksNative, CallerOf,
       Started, IsaOf, vars, storeVars, bankVars, guestVars
  <2>3. Engines'
    <3>1. \A u \in Tasks : Same(u)
      BY <1>1, <2>1, StacksStay DEF vars, storeVars, bankVars, guestVars
    <3>2. Registered' = Registered /\ Registered \subseteq Tasks
      BY <2>1 DEF Registered, vars, storeVars
    <3>3. Saved'
      BY <2>1, <3>1, <3>2 DEF GuestInv, Engines, Saved, Same, vars, storeVars, guestVars
    <3>4. nativeCpuTask' \in Registered' \cup {NoTask}
      BY <2>1, <3>2 DEF GuestInv, Engines, Displaced, guestVars
    <3>5. UNCHANGED <<currentTask, taskStates, taskEntryIsas, native, classic, handoff, nativeCpuTask>>
      BY <2>1 DEF vars, storeVars, guestVars
    <3>6. currentTask \in Registered
      BY DEF GuestInv, Scheduling, SingleRunner
    <3> QED BY <3>1, <3>2, <3>3, <3>4, <3>5, <3>6, SameCursor
  <2> QED BY <2>2, <2>3 DEF GuestInv
<1>4. ASSUME RunNative \/ RunClassic PROVE Kept
  <2>1. CASE RunNative
    BY <1>1, <2>1, NativeIsOwner, OvertakeStep DEF RunNative
  <2>2. CASE RunClassic
    BY <1>1, <2>2, ClassicIsOwner, OvertakeStep DEF RunClassic
  <2> QED BY <1>4, <2>1, <2>2
<1>5. ASSUME BeginClassicToClassic \/ BeginClassicToNative \/ BeginNativeToClassic \/ CallNativeToNative
      PROVE  Kept
  BY <1>1, <1>5, CallSteps
<1>6. ASSUME ReturnSameEngine \/ CompletePowerPcForM68k \/ CompleteM68kForPowerPc PROVE Kept
  BY <1>1, <1>6, ReturnStep, CompleteNativeStep, CompleteClassicStep
<1>7. ASSUME NEW n \in BOOLEAN, NEW suggested \in Tasks \cup {NoTask}, YieldTask(n, suggested)
      PROVE  Kept
  BY <1>1, <1>7, YieldStep
<1>8. ASSUME NEW n \in BOOLEAN, NEW t \in Tasks, NEW s \in States,
             NEW suggested \in Tasks \cup {NoTask}, NEW e \in BOOLEAN,
             SetThreadState(n, t, s, suggested, e)
      PROVE  Kept
  BY <1>1, <1>8, ThreadStateStep
<1>9. ASSUME NEW n \in BOOLEAN, NEW suspended \in BOOLEAN, CreateThread(n, suspended) PROVE Kept
  BY <1>1, <1>9, CreateStep
<1>10. ASSUME NEW n \in BOOLEAN, NEW t \in Tasks, RetireThread(n, t) PROVE Kept
  BY <1>1, <1>10, RetireStep
<1>11. ASSUME CriticalSection \/ (\E t \in Tasks : ReadyGivenTask(t)) PROVE Kept
  BY <1>1, <1>11, ReadyStep
<1>12. ASSUME ActivatePowerPcTransition \/ ActivateM68kParking \/ ResumeM68kAfterPowerPc PROVE Kept
  BY <1>1, <1>12, ActivateNativeStep, ActivateClassicStep, ResumeClassicStep
<1>13. ASSUME ApplyTaskHandoff \/ PrepareNativeTask \/ ResumeReadyTask PROVE Kept
  BY <1>1, <1>13, ApplyStep, PrepareStep, ResumeStep
<1>14. Kept
  <2> HIDE DEF Kept
  <2> QED BY <1>3, <1>4, <1>5, <1>6, <1>7, <1>8, <1>9, <1>10, <1>11, <1>12, <1>13
          DEF GuestNext, Guest, Runner
<1> QED BY <1>1, <1>2, <1>14 DEF GuestInv

\* The invariant holds in every reachable state.
LEMMA GuestInvHolds ==
  ASSUME ~ NativeReentry, ~ ClassicReentry
  PROVE  GuestSpec => []GuestInv
<1>1. GuestInv /\ [GuestNext]_allVars => GuestInv'
  BY StepGuest
<1> QED BY <1>1, InitGuest, PTL DEF GuestSpec

\* Every register set, snapshot and bank entry is one an interval of guest code left
\* (guest_call.rs and the runner never install "nothing").
THEOREM GuestTypes ==
  ASSUME ~ NativeReentry, ~ ClassicReentry
  PROVE  GuestSpec => []GuestTypeOK
<1>1. GuestInv => GuestTypeOK
  BY DEF GuestInv
<1> QED BY <1>1, GuestInvHolds, PTL

\* Whichever engine the runner lets run holds the registers of the interval that comes
\* next on the selected task, however calls nest and tasks interleave (execution_route,
\* prepare_native_task, apply_task_handoff and the call transitions together).
THEOREM EnginesRunTheirOwner ==
  ASSUME ~ NativeReentry, ~ ClassicReentry
  PROVE  GuestSpec => []RunsOwnRegisters
<1>1. GuestInv => RunsOwnRegisters
  BY NativeIsOwner, ClassicIsOwner DEF RunsOwnRegisters, Runs
<1> QED BY <1>1, GuestInvHolds, PTL

\* Every task that may be selected has the snapshot of exactly the interval it was
\* suspended in, and a handoff holds the selected task's (saved_context against the
\* saves of yield_task, change_thread_state and prepare_native_task).
THEOREM ReadyTasksResumable ==
  ASSUME ~ NativeReentry, ~ ClassicReentry
  PROVE  GuestSpec => []ResumableTasks
<1>1. ASSUME GuestInv PROVE ResumableTasks
  <2>1. ASSUME NEW t \in Tasks, taskStates[t] = "Ready"
        PROVE  SavedContext(t) = Owner(t) /\ SavedIsa(t) = IsaOf(Owner(t))
    <3>1. t \in Registered /\ taskStates[t] # "Running"
      BY <2>1 DEF Registered
    <3> QED BY <1>1, <3>1, SnapshotIsOwner DEF OwnerIsa
  <2>2. handoff # NoHandoff => /\ handoff.task = currentTask
                               /\ taskStates[currentTask] = "Running"
                               /\ handoff.context = Owner(currentTask)
    BY <1>1 DEF GuestInv, Engines, Installed, Displaced
  <2> QED BY <2>1, <2>2 DEF ResumableTasks
<1> QED BY <1>1, GuestInvHolds, PTL

\* Each started cross-architecture call keeps its own caller's registers in its bank
\* entry until it returns (ExecutionContextBank against the engines and the snapshots).
THEOREM BanksKeepCallers ==
  ASSUME ~ NativeReentry, ~ ClassicReentry
  PROVE  GuestSpec => []CallersKept
<1>1. ASSUME GuestInv PROVE CallersKept
  <2> SUFFICES ASSUME NEW t \in Tasks, NEW i \in Started(t)
               PROVE  IF kinds[stacks[t][i].id] = "ClassicToNative"
                      THEN m68kParked[stacks[t][i].id] = CallerOf(t, i)
                      ELSE powerpcParked[stacks[t][i].id] = CallerOf(t, i)
    BY DEF CallersKept
  <2>1. FrameKept(t, i) /\ stacks[t][i].phase = "Active"
        /\ kinds[stacks[t][i].id] \in {"ClassicToNative", "NativeToClassic"}
    BY <1>1 DEF GuestInv, FramesOK, FrameOK, Started
  <2> QED BY <2>1 DEF FrameKept, ParksClassic, ParksNative
<1> QED BY <1>1, GuestInvHolds, PTL

---------------------------------------------------------------------------
(* No guard of the runner leaves the process waiting for itself *)

\* The banks against a frame: both engines are held under a call into native code from
\* its activation, the native one until its completion; the native one under a call into
\* classic code while it is active.
FrameBooked(t, i) ==
  LET c == stacks[t][i].id IN
  /\ <<t, c>> \in powerpcContexts <=> kinds[c] \in Cross /\ stacks[t][i].phase = "Active"
  /\ <<t, c>> \in m68kContexts <=> kinds[c] = "ClassicToNative" /\ stacks[t][i].phase # "Pending"
  /\ attachedContexts[c] = (IF <<t, c>> \in powerpcContexts THEN 1 ELSE 0)
                         + (IF <<t, c>> \in m68kContexts THEN 1 ELSE 0)

Unused(c) == attachedContexts[c] = 0 /\ \A t \in Tasks : <<t, c>> \notin powerpcContexts \cup m68kContexts

Books ==
  /\ \A t \in Tasks : \A i \in DOMAIN stacks[t] : FrameBooked(t, i)
  /\ \A c \in CallIds : c >= nextCallId => Unused(c)

\* A task whose native code waits for classic code it called.
InCallback(t) == \E i \in DOMAIN stacks[t] : /\ kinds[stacks[t][i].id] = "NativeToClassic"
                                             /\ stacks[t][i].phase = "Active"

\* Native code that waits is in the native engine or in its task's snapshot.
NativeKept == \A t \in Tasks : InCallback(t) => nativeCpuTask = t \/ nativeThreads[t] # NoContext

\* Nothing is pinned when no task runs.
Unpinned == taskStates[currentTask] # "Running" => criticalDepth = 0

Free == Books /\ NativeKept /\ Unpinned

\* What a step leaves of the banks when it changes no call.
LEMMA QuietBooks ==
  ASSUME Books, UNCHANGED <<stacks, kinds, attachedContexts, powerpcContexts, m68kContexts, nextCallId>>
  PROVE  Books' /\ \A t \in Tasks : InCallback(t)' = InCallback(t)
<1>1. \A t, i : FrameBooked(t, i)' = FrameBooked(t, i)
  BY DEF FrameBooked
<1>2. \A c : Unused(c)' = Unused(c)
  BY DEF Unused
<1>3. Books'
  BY <1>1, <1>2 DEF Books
<1>4. \A t \in Tasks : InCallback(t)' = InCallback(t)
  BY DEF InCallback
<1> QED BY <1>3, <1>4

\* A frame and what the banks hold under its call stay as they are.
LEMMA BookStays ==
  ASSUME NEW u, NEW i, NEW c, FrameBooked(u, i), stacks'[u][i] = stacks[u][i], c = stacks[u][i].id,
         kinds'[c] = kinds[c], attachedContexts'[c] = attachedContexts[c],
         <<u, c>> \in powerpcContexts' <=> <<u, c>> \in powerpcContexts,
         <<u, c>> \in m68kContexts' <=> <<u, c>> \in m68kContexts
  PROVE  FrameBooked(u, i)'
<1>1. /\ <<u, c>> \in powerpcContexts' <=> kinds'[c] \in Cross /\ stacks'[u][i].phase = "Active"
      /\ <<u, c>> \in m68kContexts' <=>
           kinds'[c] = "ClassicToNative" /\ stacks'[u][i].phase # "Pending"
  BY DEF FrameBooked
<1>2. attachedContexts'[c] = (IF <<u, c>> \in powerpcContexts' THEN 1 ELSE 0)
                           + (IF <<u, c>> \in m68kContexts' THEN 1 ELSE 0)
  BY DEF FrameBooked
<1>3. stacks'[u][i].id = c
  OBVIOUS
<1> QED BY <1>1, <1>2, <1>3 DEF FrameBooked

\* A frame and what the banks hold under its call agree after a step.
LEMMA BookAgrees ==
  ASSUME NEW u, NEW i, NEW c, NEW p, stacks'[u][i].id = c, stacks'[u][i].phase = p,
         <<u, c>> \in powerpcContexts' <=> kinds'[c] \in Cross /\ p = "Active",
         <<u, c>> \in m68kContexts' <=> kinds'[c] = "ClassicToNative" /\ p # "Pending",
         attachedContexts'[c] = (IF <<u, c>> \in powerpcContexts' THEN 1 ELSE 0)
                              + (IF <<u, c>> \in m68kContexts' THEN 1 ELSE 0)
  PROVE  FrameBooked(u, i)'
BY DEF FrameBooked

\* A step that changes the banks under one call c only.
LEMMA BooksTouch ==
  ASSUME TypeOK, TypeOK', Books, NEW c \in CallIds, c < nextCallId,
         UNCHANGED <<kinds, nextCallId>>,
         \A d \in CallIds \ {c} :
           /\ attachedContexts'[d] = attachedContexts[d]
           /\ \A u \in Tasks : /\ <<u, d>> \in powerpcContexts' <=> <<u, d>> \in powerpcContexts
                               /\ <<u, d>> \in m68kContexts' <=> <<u, d>> \in m68kContexts,
         \A u \in Tasks : \A i \in DOMAIN stacks'[u] :
           \/ FrameBooked(u, i)'
           \/ /\ i \in DOMAIN stacks[u] /\ stacks'[u][i] = stacks[u][i]
              /\ stacks[u][i].id # c
  PROVE  Books'
<1>1. ASSUME NEW u \in Tasks, NEW i \in DOMAIN stacks'[u] PROVE FrameBooked(u, i)'
  <2> SUFFICES ASSUME i \in DOMAIN stacks[u], stacks'[u][i] = stacks[u][i], stacks[u][i].id # c
               PROVE  FrameBooked(u, i)'
    BY <1>1
  <2> DEFINE d == stacks[u][i].id
  <2>1. d \in CallIds \ {c}
    BY StackFacts
  <2>2. FrameBooked(u, i)
    BY DEF Books
  <2>3. /\ attachedContexts'[d] = attachedContexts[d]
        /\ <<u, d>> \in powerpcContexts' <=> <<u, d>> \in powerpcContexts
        /\ <<u, d>> \in m68kContexts' <=> <<u, d>> \in m68kContexts
    BY <2>1
  <2>4. kinds' = kinds
    OBVIOUS
  <2> QED BY <2>2, <2>3, <2>4 DEF FrameBooked
<1>2. ASSUME NEW d \in CallIds, d >= nextCallId' PROVE Unused(d)'
  <2>1. nextCallId \in CallIds /\ CallIds \subseteq Nat
    BY DEF TypeOK, CallIds
  <2>2. d # c /\ d >= nextCallId
    BY <1>2, <2>1
  <2>3. Unused(d)
    BY <2>2 DEF Books
  <2> QED BY <2>2, <2>3 DEF Unused
<1> QED BY <1>1, <1>2 DEF Books

\* The calls of a stack are different, and none is on another stack.
LEMMA OtherIds ==
  ASSUME TypeOK, CallIdentity, NEW t \in Tasks, stacks[t] # << >>, NEW n, n = Len(stacks[t]),
         NEW u \in Tasks, NEW i \in DOMAIN stacks[u], u # t \/ i # n
  PROVE  stacks[u][i].id # stacks[t][n].id
<1>1. n \in DOMAIN stacks[t] /\ n \in Nat /\ DOMAIN stacks[t] = 1..n
  BY StackFacts
<1>2. stacks[u][i].id \in CallsOf(u) /\ stacks[t][n].id \in CallsOf(t) /\ stacks[t][n].id \in CallIds
  BY <1>1, StackFacts
<1>3. CASE u # t
  BY <1>2, <1>3 DEF CallIdentity
<1>4. CASE u = t
  <2>1. i < n
    BY <1>1, <1>4
  <2>2. stacks[t][i].id < stacks[t][n].id
    BY <1>1, <1>4, <2>1 DEF CallIdentity
  <2>3. stacks[t][n].id \in Nat
    BY <1>2 DEF CallIds
  <2> QED BY <1>4, <2>2, <2>3
<1> QED BY <1>3, <1>4

\* The newest call of a task has an id that was handed out.
LEMMA TopIsUsed ==
  ASSUME TypeOK, CallIdentity, NEW t \in Tasks, stacks[t] # << >>
  PROVE  /\ Top(t).id \in CallIds /\ Top(t).id < nextCallId
         /\ Top(t) = stacks[t][Len(stacks[t])] /\ Len(stacks[t]) \in DOMAIN stacks[t]
<1>1. Len(stacks[t]) \in DOMAIN stacks[t]
  BY StackFacts
<1>2. Top(t) = stacks[t][Len(stacks[t])]
  BY DEF Top
<1>3. Top(t).id \in CallsOf(t) /\ Top(t).id \in CallIds
  BY <1>1, <1>2, StackFacts
<1> QED BY <1>1, <1>2, <1>3 DEF CallIdentity

\* A new call, with a fresh id, has nothing in the banks.
LEMMA BooksPushed ==
  ASSUME TypeOK, TypeOK', CallIdentity, Books, NEW t \in Tasks,
         NEW kind \in Kinds, NEW p \in {"Pending", "Active"}, kind \in Cross => p = "Pending",
         stacks' = [stacks EXCEPT ![t] = Append(@, [id |-> nextCallId, phase |-> p])],
         kinds' = [kinds EXCEPT ![nextCallId] = kind], kinds \in [CallIds -> Kinds \cup {"None"}],
         nextCallId' = nextCallId + 1,
         UNCHANGED <<attachedContexts, powerpcContexts, m68kContexts>>
  PROVE  Books' /\ \A u \in Tasks : InCallback(u)' => InCallback(u)
<1> DEFINE f == [id |-> nextCallId, phase |-> p]
<1>1. /\ nextCallId \in CallIds /\ CallIds \subseteq Nat
      /\ stacks[t] \in Seq(Frames) /\ Len(stacks[t]) \in Nat
      /\ DOMAIN stacks[t] = 1..Len(stacks[t]) /\ stacks \in [Tasks -> Seq(Frames)]
  BY StackFacts DEF TypeOK, CallIds
<1>2. /\ stacks'[t] = Append(stacks[t], f)
      /\ \A u \in Tasks \ {t} : stacks'[u] = stacks[u]
  BY <1>1
<1>3. /\ DOMAIN stacks'[t] = 1..(Len(stacks[t]) + 1)
      /\ stacks'[t][Len(stacks[t]) + 1] = f
      /\ \A i \in 1..Len(stacks[t]) : stacks'[t][i] = stacks[t][i]
  BY <1>1, <1>2, AppendProperties
<1>4. \A u \in Tasks : \A i \in DOMAIN stacks[u] :
        stacks[u][i].id \in CallIds /\ stacks[u][i].id < nextCallId
  BY StackFacts DEF CallIdentity
<1>5. \A u \in Tasks : \A i \in DOMAIN stacks[u] : kinds'[stacks[u][i].id] = kinds[stacks[u][i].id]
  <2> SUFFICES ASSUME NEW u \in Tasks, NEW i \in DOMAIN stacks[u]
               PROVE  kinds'[stacks[u][i].id] = kinds[stacks[u][i].id]
    OBVIOUS
  <2>1. stacks[u][i].id # nextCallId
    BY <1>1, <1>4
  <2> QED BY <1>4, <2>1
<1>6. \A u \in Tasks : \A i \in DOMAIN stacks'[u] :
        \/ u = t /\ i = Len(stacks[t]) + 1
        \/ i \in DOMAIN stacks[u] /\ stacks'[u][i] = stacks[u][i]
  <2> SUFFICES ASSUME NEW u \in Tasks, NEW i \in DOMAIN stacks'[u], ~ (u = t /\ i = Len(stacks[t]) + 1)
               PROVE  i \in DOMAIN stacks[u] /\ stacks'[u][i] = stacks[u][i]
    OBVIOUS
  <2>1. CASE u = t
    BY <1>1, <1>3, <2>1
  <2>2. CASE u # t
    BY <1>2, <2>2
  <2> QED BY <2>1, <2>2
<1>7. kinds'[nextCallId] = kind
  BY <1>1
<1> HIDE DEF f
<1>8. f.id = nextCallId /\ f.phase = p
  BY DEF f
<1>9. ASSUME NEW u \in Tasks, NEW i \in DOMAIN stacks'[u] PROVE FrameBooked(u, i)'
  <2>1. CASE u = t /\ i = Len(stacks[t]) + 1
    <3>1. Unused(nextCallId)
      BY <1>1 DEF Books
    <3>2. kind \in Cross => p # "Active"
      OBVIOUS
    <3>3. kind = "ClassicToNative" => p = "Pending"
      BY DEF Cross
    <3> QED BY <1>3, <1>7, <1>8, <2>1, <3>1, <3>2, <3>3 DEF FrameBooked, Unused
  <2>2. CASE i \in DOMAIN stacks[u] /\ stacks'[u][i] = stacks[u][i]
    <3>1. FrameBooked(u, i) /\ kinds'[stacks[u][i].id] = kinds[stacks[u][i].id]
      BY <1>5, <2>2 DEF Books
    <3>2. /\ attachedContexts' = attachedContexts /\ powerpcContexts' = powerpcContexts
          /\ m68kContexts' = m68kContexts
      OBVIOUS
    <3> QED BY ONLY <2>2, <3>1, <3>2, BookStays
  <2> QED BY <1>6, <2>1, <2>2
<1>10. ASSUME NEW c \in CallIds, c >= nextCallId' PROVE Unused(c)'
  <2>1. c >= nextCallId
    BY <1>1, <1>10
  <2> QED BY <2>1 DEF Books, Unused
<1>11. ASSUME NEW u \in Tasks, InCallback(u)' PROVE InCallback(u)
  <2>1. PICK i \in DOMAIN stacks'[u] : kinds'[stacks'[u][i].id] = "NativeToClassic" /\ stacks'[u][i].phase = "Active"
    BY <1>11 DEF InCallback
  <2>2. CASE u = t /\ i = Len(stacks[t]) + 1
    <3>1. kind = "NativeToClassic" /\ p = "Active"
      BY <1>3, <1>7, <1>8, <2>1, <2>2
    <3> QED BY <3>1 DEF Cross
  <2>3. CASE i \in DOMAIN stacks[u] /\ stacks'[u][i] = stacks[u][i]
    BY <1>5, <2>1, <2>3 DEF InCallback
  <2> QED BY <1>6, <2>2, <2>3
<1> QED BY <1>9, <1>10, <1>11 DEF Books

\* The newest call is taken off, and the banks hold nothing under another call that
\* they did not hold.
LEMMA BooksPopped ==
  ASSUME TypeOK, TypeOK', CallIdentity, Books, NEW t \in Tasks, stacks[t] # << >>,
         NEW c, c = Top(t).id, stacks' = WithoutTop(t), UNCHANGED <<kinds, nextCallId>>,
         \A d \in CallIds \ {c} :
           /\ attachedContexts'[d] = attachedContexts[d]
           /\ \A u \in Tasks : /\ <<u, d>> \in powerpcContexts' <=> <<u, d>> \in powerpcContexts
                               /\ <<u, d>> \in m68kContexts' <=> <<u, d>> \in m68kContexts
  PROVE  Books' /\ \A u \in Tasks : InCallback(u)' => InCallback(u)
<1> DEFINE n == Len(stacks[t])
<1>1. /\ stacks[t] \in Seq(Frames) /\ n \in Nat \ {0} /\ stacks \in [Tasks -> Seq(Frames)]
      /\ DOMAIN stacks[t] = 1..n
  BY StackFacts DEF TypeOK
<1>2. /\ stacks'[t] = SubSeq(stacks[t], 1, n - 1)
      /\ \A u \in Tasks \ {t} : stacks'[u] = stacks[u]
  BY <1>1 DEF WithoutTop
<1>3. /\ DOMAIN stacks'[t] = 1..(n - 1)
      /\ \A i \in 1..(n - 1) : stacks'[t][i] = stacks[t][i]
  <2> HIDE DEF n
  <2> QED BY <1>1, <1>2, SubSeqProperties
<1>4. \A u \in Tasks : \A i \in DOMAIN stacks'[u] :
        i \in DOMAIN stacks[u] /\ stacks'[u][i] = stacks[u][i] /\ (u # t \/ i # n)
  <2> SUFFICES ASSUME NEW u \in Tasks, NEW i \in DOMAIN stacks'[u]
               PROVE  i \in DOMAIN stacks[u] /\ stacks'[u][i] = stacks[u][i] /\ (u # t \/ i # n)
    OBVIOUS
  <2> HIDE DEF n
  <2>1. CASE u = t
    BY <1>1, <1>3, <2>1
  <2>2. CASE u # t
    BY <1>2, <2>2
  <2> QED BY <2>1, <2>2
<1>5. c \in CallIds /\ c < nextCallId /\ c = stacks[t][n].id
  BY TopIsUsed
<1>6. \A u \in Tasks : \A i \in DOMAIN stacks'[u] :
        i \in DOMAIN stacks[u] /\ stacks'[u][i] = stacks[u][i] /\ stacks[u][i].id # c
  BY <1>4, <1>5, OtherIds
<1>7. Books'
  BY <1>5, <1>6, BooksTouch
<1>8. \A u \in Tasks : InCallback(u)' => InCallback(u)
  BY <1>6 DEF InCallback
<1> QED BY <1>7, <1>8

\* The newest call changes its phase, and the banks agree with the new one.
LEMMA BooksRephased ==
  ASSUME TypeOK, TypeOK', CallIdentity, Books, NEW t \in Tasks, stacks[t] # << >>,
         NEW c, c = Top(t).id, NEW p \in Phases, stacks' = WithTopPhase(t, p),
         UNCHANGED <<kinds, nextCallId>>,
         \A d \in CallIds \ {c} :
           /\ attachedContexts'[d] = attachedContexts[d]
           /\ \A u \in Tasks : /\ <<u, d>> \in powerpcContexts' <=> <<u, d>> \in powerpcContexts
                               /\ <<u, d>> \in m68kContexts' <=> <<u, d>> \in m68kContexts,
         <<t, c>> \in powerpcContexts' <=> kinds[c] \in Cross /\ p = "Active",
         <<t, c>> \in m68kContexts' <=> kinds[c] = "ClassicToNative" /\ p # "Pending",
         attachedContexts'[c] = (IF <<t, c>> \in powerpcContexts' THEN 1 ELSE 0)
                              + (IF <<t, c>> \in m68kContexts' THEN 1 ELSE 0)
  PROVE  /\ Books'
         /\ \A u \in Tasks : InCallback(u)' =>
              InCallback(u) \/ (u = t /\ p = "Active" /\ kinds[c] = "NativeToClassic")
<1>0. PICK n : n = Len(stacks[t])
  OBVIOUS
<1>1. /\ stacks[t] \in Seq(Frames) /\ n \in Nat \ {0} /\ stacks \in [Tasks -> Seq(Frames)]
      /\ DOMAIN stacks[t] = 1..n /\ stacks[t][n] \in Frames
  BY <1>0, StackFacts DEF TypeOK
<1>2. /\ stacks'[t] = [stacks[t] EXCEPT ![n].phase = p]
      /\ \A u \in Tasks \ {t} : stacks'[u] = stacks[u]
  BY <1>0, <1>1 DEF WithTopPhase
<1>3. /\ DOMAIN stacks'[t] = 1..n
      /\ stacks'[t][n] = [stacks[t][n] EXCEPT !.phase = p]
      /\ \A i \in 1..n : i # n => stacks'[t][i] = stacks[t][i]
  BY <1>1, <1>2
<1>4. stacks'[t][n].id = stacks[t][n].id /\ stacks'[t][n].phase = p
  BY <1>1, <1>3 DEF Frames
<1>5. \A u \in Tasks : \A i \in DOMAIN stacks'[u] :
        \/ u = t /\ i = n
        \/ i \in DOMAIN stacks[u] /\ stacks'[u][i] = stacks[u][i] /\ (u # t \/ i # n)
  <2> SUFFICES ASSUME NEW u \in Tasks, NEW i \in DOMAIN stacks'[u], ~ (u = t /\ i = n)
               PROVE  i \in DOMAIN stacks[u] /\ stacks'[u][i] = stacks[u][i] /\ (u # t \/ i # n)
    OBVIOUS
  <2>1. CASE u = t
    BY <1>1, <1>3, <2>1
  <2>2. CASE u # t
    BY <1>2, <2>2
  <2> QED BY <2>1, <2>2
<1>6. c \in CallIds /\ c < nextCallId /\ c = stacks[t][n].id
  BY <1>0, TopIsUsed
<1>7. FrameBooked(t, n)'
  <2>1. kinds' = kinds
    OBVIOUS
  <2> QED BY <1>4, <1>6, <2>1, BookAgrees
<1>8. \A u \in Tasks : \A i \in DOMAIN stacks'[u] :
        \/ FrameBooked(u, i)'
        \/ i \in DOMAIN stacks[u] /\ stacks'[u][i] = stacks[u][i] /\ stacks[u][i].id # c
  <2> SUFFICES ASSUME NEW u \in Tasks, NEW i \in DOMAIN stacks'[u]
               PROVE  \/ FrameBooked(u, i)'
                      \/ /\ i \in DOMAIN stacks[u] /\ stacks'[u][i] = stacks[u][i]
                         /\ stacks[u][i].id # c
    OBVIOUS
  <2>1. CASE u = t /\ i = n
    <3> QED BY <1>7, <2>1
  <2>2. CASE i \in DOMAIN stacks[u] /\ stacks'[u][i] = stacks[u][i] /\ (u # t \/ i # n)
    BY <1>0, <1>6, <2>2, OtherIds
  <2> QED BY <1>5, <2>1, <2>2
<1>9. Books'
  BY <1>6, <1>8, BooksTouch
<1>10. ASSUME NEW u \in Tasks, InCallback(u)'
       PROVE  InCallback(u) \/ (u = t /\ p = "Active" /\ kinds[c] = "NativeToClassic")
  <2>1. PICK i \in DOMAIN stacks'[u] : kinds'[stacks'[u][i].id] = "NativeToClassic" /\ stacks'[u][i].phase = "Active"
    BY <1>10 DEF InCallback
  <2>2. CASE u = t /\ i = n
    <3> QED BY <1>4, <1>6, <2>1, <2>2
  <2>3. CASE i \in DOMAIN stacks[u] /\ stacks'[u][i] = stacks[u][i]
    BY <2>1, <2>3 DEF InCallback
  <2> QED BY <1>5, <2>2, <2>3
<1> QED BY <1>9, <1>10

\* Native code that waits stays in the engine or in a snapshot.
LEMMA NativeStays ==
  ASSUME NativeKept,
         \A u \in Tasks : InCallback(u)' => InCallback(u) \/ nativeCpuTask' = u,
         \A u \in Tasks : nativeThreads[u] # NoContext => nativeThreads'[u] # NoContext \/ ~ InCallback(u)',
         \A u \in Tasks : nativeCpuTask = u =>
           nativeCpuTask' = u \/ nativeThreads'[u] # NoContext \/ ~ InCallback(u)'
  PROVE  NativeKept'
BY DEF NativeKept

\* A call is made, on either engine.
LEMMA FreeCall ==
  ASSUME GuestInv, TypeOK', Free,
         \/ BeginClassicToClassic \/ BeginClassicToNative \/ BeginNativeToClassic
         \/ CallNativeToNative
  PROVE  Free'
<1>a. PICK t \in Tasks : t = currentTask
  BY DEF GuestInv, Scheduling, TypeOK
<1>1. /\ TypeOK /\ CallIdentity /\ Books /\ NativeKept /\ Unpinned
      /\ kinds \in [CallIds -> Kinds \cup {"None"}]
  BY DEF GuestInv, Scheduling, GuestTypeOK, Free
<1>2. PICK kind \in Kinds, p \in {"Pending", "Active"} :
        /\ kind \in Cross => p = "Pending"
        /\ stacks' = [stacks EXCEPT ![t] = Append(@, [id |-> nextCallId, phase |-> p])]
        /\ kinds' = [kinds EXCEPT ![nextCallId] = kind]
        /\ nextCallId' = nextCallId + 1
  <2>1. CASE BeginClassicToClassic \/ BeginClassicToNative \/ BeginNativeToClassic
    BY <1>a, <2>1 DEF BeginClassicToClassic, BeginClassicToNative, BeginNativeToClassic,
       SubmitEffect, Submit, Kinds
  <2>2. CASE CallNativeToNative
    BY <1>a, <2>2 DEF CallNativeToNative, Kinds, Cross
  <2> QED BY <2>1, <2>2
<1>3. UNCHANGED <<attachedContexts, powerpcContexts, m68kContexts, currentTask, taskStates,
                  criticalDepth, nativeThreads, nativeCpuTask>>
  BY DEF BeginClassicToClassic, BeginClassicToNative, BeginNativeToClassic, CallNativeToNative,
     SubmitEffect, Submit, bankVars
<1>4. Books' /\ \A u \in Tasks : InCallback(u)' => InCallback(u)
  BY <1>1, <1>2, <1>3, BooksPushed
<1>5. NativeKept'
  BY <1>1, <1>3, <1>4, NativeStays
<1>6. Unpinned'
  BY <1>1, <1>3 DEF Unpinned
<1> QED BY <1>4, <1>5, <1>6 DEF Free

\* A call returns.
LEMMA FreeReturn ==
  ASSUME GuestInv, TypeOK', Free, ReturnSameEngine \/ CompleteM68kForPowerPc \/ ResumeM68kAfterPowerPc
  PROVE  Free'
<1>a. PICK t \in Tasks : t = currentTask
  BY DEF GuestInv, Scheduling, TypeOK
<1>b. PICK c : c = Top(t).id
  OBVIOUS
<1>1. TypeOK /\ CallIdentity /\ Books /\ NativeKept /\ Unpinned
  BY DEF GuestInv, Scheduling, Free
<1>2. /\ stacks[t] # << >> /\ stacks' = WithoutTop(t)
      /\ UNCHANGED <<kinds, nextCallId, currentTask, taskStates, criticalDepth, nativeThreads,
                     nativeCpuTask>>
      /\ powerpcContexts' \in {powerpcContexts, powerpcContexts \ {<<t, c>>}}
      /\ m68kContexts' \in {m68kContexts, m68kContexts \ {<<t, c>>}}
      /\ attachedContexts' \in {attachedContexts, [attachedContexts EXCEPT ![c] = 0]}
  <2>1. CASE ReturnSameEngine
    BY <1>a, <1>b, <2>1 DEF ReturnSameEngine, ValidTransition, bankVars, guestVars
  <2>2. CASE CompleteM68kForPowerPc
    BY <1>a, <1>b, <2>2 DEF CompleteM68kForPowerPc, ValidTransition
  <2>3. CASE ResumeM68kAfterPowerPc
    BY <1>a, <1>b, <2>3 DEF ResumeM68kAfterPowerPc, RetireWithContext, MayRetire, ValidTransition
  <2> QED BY <2>1, <2>2, <2>3
<1>3. \A d \in CallIds \ {c} :
        /\ attachedContexts'[d] = attachedContexts[d]
        /\ \A u \in Tasks : /\ <<u, d>> \in powerpcContexts' <=> <<u, d>> \in powerpcContexts
                            /\ <<u, d>> \in m68kContexts' <=> <<u, d>> \in m68kContexts
  BY <1>1, <1>2 DEF TypeOK
<1>4. Books' /\ \A u \in Tasks : InCallback(u)' => InCallback(u)
  BY <1>b, <1>1, <1>2, <1>3, BooksPopped
<1>5. NativeKept'
  BY <1>1, <1>2, <1>4, NativeStays
<1>6. Unpinned'
  BY <1>1, <1>2 DEF Unpinned
<1> QED BY <1>4, <1>5, <1>6 DEF Free

\* Native code that classic code called returns.
LEMMA FreeComplete ==
  ASSUME GuestInv, TypeOK', Free, CompletePowerPcForM68k
  PROVE  Free'
<1>a. PICK t \in Tasks : t = currentTask
  BY DEF GuestInv, Scheduling, TypeOK
<1>b. PICK c : c = Top(t).id
  OBVIOUS
<1>1. TypeOK /\ FramesOK /\ CallIdentity /\ Books /\ NativeKept /\ Unpinned
  BY DEF GuestInv, Scheduling, Free
<1>2. /\ stacks[t] # << >> /\ Top(t).phase = "Active" /\ stacks' = WithTopPhase(t, "Completed")
      /\ TopKind(t) = "ClassicToNative" /\ <<t, c>> \in powerpcContexts
      /\ powerpcContexts' = powerpcContexts \ {<<t, c>>}
      /\ attachedContexts' = [attachedContexts EXCEPT ![c] = @ - 1]
      /\ UNCHANGED <<kinds, nextCallId, currentTask, taskStates, criticalDepth, nativeThreads,
                     nativeCpuTask, m68kContexts>>
  BY <1>a, <1>b DEF CompletePowerPcForM68k, TakeWhileCompleting, ValidTransition
<1>3. \A d \in CallIds \ {c} :
        /\ attachedContexts'[d] = attachedContexts[d]
        /\ \A u \in Tasks : /\ <<u, d>> \in powerpcContexts' <=> <<u, d>> \in powerpcContexts
                            /\ <<u, d>> \in m68kContexts' <=> <<u, d>> \in m68kContexts
  BY <1>1, <1>2 DEF TypeOK
<1>4. PICK n : n = Len(stacks[t])
  OBVIOUS
<1>5. n \in DOMAIN stacks[t] /\ c = stacks[t][n].id /\ c \in CallIds /\ kinds[c] = "ClassicToNative"
      /\ stacks[t][n].phase = "Active"
  BY <1>b, <1>1, <1>2, <1>4, TopFrame
<1>6. <<t, c>> \in m68kContexts /\ attachedContexts[c] = 2
  <2>1. FrameBooked(t, n)
    BY <1>1, <1>5 DEF Books
  <2> QED BY <1>2, <1>5, <2>1 DEF FrameBooked
<1>7. attachedContexts'[c] = 1
  BY <1>1, <1>2, <1>5, <1>6 DEF TypeOK
<1>8. /\ <<t, c>> \notin powerpcContexts' /\ <<t, c>> \in m68kContexts'
  BY <1>2, <1>6
<1>9. PICK p \in Phases : p = "Completed"
  BY DEF Phases
<1>10. Books' /\ \A u \in Tasks : InCallback(u)' => InCallback(u)
  <2>1. /\ <<t, c>> \in powerpcContexts' <=> kinds[c] \in Cross /\ p = "Active"
        /\ <<t, c>> \in m68kContexts' <=> kinds[c] = "ClassicToNative" /\ p # "Pending"
    BY <1>5, <1>8, <1>9
  <2>2. attachedContexts'[c] = (IF <<t, c>> \in powerpcContexts' THEN 1 ELSE 0)
                             + (IF <<t, c>> \in m68kContexts' THEN 1 ELSE 0)
    BY <1>7, <1>8
  <2>3. stacks' = WithTopPhase(t, p)
    BY <1>2, <1>9
  <2>4. /\ Books'
        /\ \A u \in Tasks : InCallback(u)' =>
             InCallback(u) \/ (u = t /\ p = "Active" /\ kinds[c] = "NativeToClassic")
    BY <1>b, <1>1, <1>2, <1>3, <2>1, <2>2, <2>3, BooksRephased
  <2> QED BY <1>9, <2>4
<1>11. NativeKept'
  BY <1>1, <1>2, <1>10, NativeStays
<1>12. Unpinned'
  BY <1>1, <1>2 DEF Unpinned
<1> QED BY <1>10, <1>11, <1>12 DEF Free

\* A submitted call is started.
LEMMA FreeActivate ==
  ASSUME GuestInv, TypeOK', Free, ActivatePowerPcTransition \/ ActivateM68kParking
  PROVE  Free'
<1>a. PICK t \in Tasks : t = currentTask
  BY DEF GuestInv, Scheduling, TypeOK
<1>b. PICK c : c = Top(t).id
  OBVIOUS
<1>1. TypeOK /\ FramesOK /\ CallIdentity /\ Books /\ NativeKept /\ Unpinned
  BY DEF GuestInv, Scheduling, Free
<1>2. /\ stacks[t] # << >> /\ Top(t).phase = "Pending" /\ stacks' = WithTopPhase(t, "Active")
      /\ nativeCpuTask = t /\ TopKind(t) \in Cross
      /\ powerpcContexts' = powerpcContexts \cup {<<t, c>>}
      /\ UNCHANGED <<kinds, nextCallId, currentTask, taskStates, criticalDepth, nativeThreads,
                     nativeCpuTask>>
  BY <1>a, <1>b DEF ActivatePowerPcTransition, MayActivatePowerPc, ParkPairWhileActivating,
     MayParkPair, ActivateM68kParking, MayActivateM68k, ActivateParkingCaller, MayParkCaller,
     ValidTransition, Prepared, Cross
<1>4. PICK n : n = Len(stacks[t])
  OBVIOUS
<1>5. n \in DOMAIN stacks[t] /\ c = stacks[t][n].id /\ c \in CallIds /\ kinds[c] = TopKind(t)
      /\ stacks[t][n].phase = "Pending"
  BY <1>b, <1>1, <1>2, <1>4, TopFrame
<1>6. <<t, c>> \notin m68kContexts /\ attachedContexts[c] = 0
  <2>1. FrameBooked(t, n)
    BY <1>1, <1>5 DEF Books
  <2> QED BY <1>2, <1>5, <2>1 DEF FrameBooked
<1>7. /\ m68kContexts' = IF kinds[c] = "ClassicToNative" THEN m68kContexts \cup {<<t, c>>} ELSE m68kContexts
      /\ attachedContexts'[c] = IF kinds[c] = "ClassicToNative" THEN 2 ELSE 1
      /\ \A d \in CallIds \ {c} : attachedContexts'[d] = attachedContexts[d]
  <2>1. CASE ActivatePowerPcTransition
    <3>1. /\ kinds[c] = "ClassicToNative" /\ m68kContexts' = m68kContexts \cup {<<t, c>>}
          /\ attachedContexts' = [attachedContexts EXCEPT ![c] = @ + 2]
      BY <1>a, <1>b, <1>5, <2>1 DEF ActivatePowerPcTransition, MayActivatePowerPc,
         ParkPairWhileActivating
    <3> QED BY <1>1, <1>5, <1>6, <3>1 DEF TypeOK
  <2>2. CASE ActivateM68kParking
    <3> DEFINE caller == SuspendedM68kOwner(t)
    <3>1. ~ (caller # 0 /\ <<t, caller>> \notin m68kContexts)
      BY <1>1, CallerIsParked
    <3> HIDE DEF caller
    <3>2. /\ kinds[c] = "NativeToClassic" /\ ActivateParkingCaller(t, c, caller)
      BY <1>a, <1>b, <1>5, <2>2 DEF ActivateM68kParking, MayActivateM68k, caller
    <3>3. /\ m68kContexts' = m68kContexts
          /\ attachedContexts' = [d \in CallIds |-> attachedContexts[d] + 0 + (IF d = c THEN 1 ELSE 0)]
      BY <3>1, <3>2 DEF ActivateParkingCaller
    <3>4. \A d \in CallIds : attachedContexts[d] \in Nat
      BY <1>1 DEF TypeOK
    <3> QED BY <1>5, <1>6, <3>2, <3>3, <3>4
  <2> QED BY <2>1, <2>2
<1>8. \A d \in CallIds \ {c} :
        /\ attachedContexts'[d] = attachedContexts[d]
        /\ \A u \in Tasks : /\ <<u, d>> \in powerpcContexts' <=> <<u, d>> \in powerpcContexts
                            /\ <<u, d>> \in m68kContexts' <=> <<u, d>> \in m68kContexts
  BY <1>2, <1>7
<1>9. /\ <<t, c>> \in powerpcContexts'
      /\ <<t, c>> \in m68kContexts' <=> kinds[c] = "ClassicToNative"
  BY <1>2, <1>6, <1>7
<1>10. attachedContexts'[c] = (IF <<t, c>> \in powerpcContexts' THEN 1 ELSE 0)
                            + (IF <<t, c>> \in m68kContexts' THEN 1 ELSE 0)
  BY <1>7, <1>9
<1>11. /\ Books'
       /\ \A u \in Tasks : InCallback(u)' =>
            InCallback(u) \/ (u = t /\ "Active" = "Active" /\ kinds[c] = "NativeToClassic")
  <2>1. "Active" \in Phases
    BY DEF Phases
  <2>2. kinds[c] \in Cross
    BY <1>2, <1>5
  <2> QED BY <1>b, <1>1, <1>2, <1>8, <1>9, <1>10, <2>1, <2>2, BooksRephased
<1>12. \A u \in Tasks : InCallback(u)' => InCallback(u) \/ nativeCpuTask' = u
  BY <1>2, <1>11
<1>13. NativeKept'
  BY <1>1, <1>2, <1>12, NativeStays
<1>14. Unpinned'
  BY <1>1, <1>2 DEF Unpinned
<1> QED BY <1>11, <1>13, <1>14 DEF Free

\* Guest code runs on, or sets the critical depth.
LEMMA FreeRun ==
  ASSUME GuestInv, Free, RunNative \/ RunClassic \/ CriticalSection
  PROVE  Free'
<1>1. /\ UNCHANGED <<stacks, kinds, attachedContexts, powerpcContexts, m68kContexts, nextCallId,
                     currentTask, taskStates, nativeCpuTask>>
      /\ taskStates[currentTask] = "Running"
  BY NativeIsOwner, ClassicIsOwner
     DEF RunNative, RunClassic, Overtake, CriticalSection, GuestRuns, BeginCritical, EndCritical,
         vars, storeVars, bankVars, guestVars, Runs
<1>2. \A u \in Tasks : nativeThreads[u] # NoContext => nativeThreads'[u] # NoContext
  <2>1. CASE CriticalSection
    BY <2>1 DEF CriticalSection, guestVars
  <2>2. CASE RunNative \/ RunClassic
    <3>1. PICK k : nativeThreads' = Overtaken(nativeThreads, k)
      BY <2>2 DEF RunNative, RunClassic, Overtake
    <3>2. Stale # NoContext /\ nativeThreads \in [Tasks -> Contexts \cup {NoContext}]
      BY GuestAssumption DEF Contexts, GuestInv, GuestTypeOK
    <3> QED BY <3>1, <3>2 DEF Overtaken
  <2> QED BY <2>1, <2>2
<1>3. Books' /\ \A u \in Tasks : InCallback(u)' = InCallback(u)
  BY <1>1, QuietBooks DEF Free
<1>4. NativeKept'
  BY <1>1, <1>2, <1>3, NativeStays DEF Free
<1> QED BY <1>1, <1>3, <1>4 DEF Free, Unpinned

\* A task leaves the CPU to another.
LEMMA FreeYield ==
  ASSUME GuestInv, Free, NEW n \in BOOLEAN, NEW suggested \in Tasks \cup {NoTask},
         YieldTask(n, suggested)
  PROVE  Free'
<1>a. PICK t \in Tasks : t = currentTask
  BY DEF GuestInv, Scheduling, TypeOK
<1>b. PICK next : next = NextReadyTask(suggested, FALSE)
  OBVIOUS
<1>1. /\ n => nativeCpuTask = t
      /\ nativeThreads \in [Tasks -> Contexts \cup {NoContext}] /\ TypeOK
      /\ native \in Contexts /\ NoContext \notin Contexts
  BY <1>a, Switching, GuestAssumption DEF YieldTask, GuestInv, GuestTypeOK
<1>2. /\ SwitchToTask(next) /\ SaveOutgoing(n, TRUE) /\ UNCHANGED kinds
      /\ nativeCpuTask' = nativeCpuTask \/ n
  BY <1>b DEF YieldTask
<1>3. /\ currentTask' = next /\ next \in Tasks
      /\ taskStates' = [taskStates EXCEPT
           ![t] = IF next # t /\ taskStates[t] = "Running" THEN "Ready" ELSE @, ![next] = "Running"]
      /\ UNCHANGED <<stacks, attachedContexts, powerpcContexts, m68kContexts, nextCallId>>
  BY <1>a, <1>2 DEF SwitchToTask, MaySwitchTo, bankVars, Registered
<1>4. taskStates'[next] = "Running"
  BY <1>1, <1>3 DEF TypeOK
<1>5. \A u \in Tasks : /\ nativeThreads[u] # NoContext => nativeThreads'[u] # NoContext
                       /\ nativeCpuTask = u => nativeCpuTask' = u \/ nativeThreads'[u] # NoContext
  BY <1>a, <1>1, <1>2 DEF SaveOutgoing
<1>6. Books' /\ \A u \in Tasks : InCallback(u)' = InCallback(u)
  BY <1>2, <1>3, QuietBooks DEF Free
<1>7. NativeKept'
  BY <1>5, <1>6, NativeStays DEF Free
<1> QED BY <1>3, <1>4, <1>6, <1>7 DEF Free, Unpinned

\* A task changes its own state or another's.
LEMMA FreeThreadState ==
  ASSUME GuestInv, Free, NEW n \in BOOLEAN, NEW x \in Tasks, NEW s \in States,
         NEW suggested \in Tasks \cup {NoTask}, NEW e \in BOOLEAN,
         SetThreadState(n, x, s, suggested, e)
  PROVE  Free'
<1>a. PICK t \in Tasks : t = currentTask
  BY DEF GuestInv, Scheduling, TypeOK
<1>b. PICK next : next = IF x = t /\ s # "Running" THEN Candidate(suggested, x) ELSE NoTask
  OBVIOUS
<1>c. PICK saves \in BOOLEAN : saves = (next # NoTask \/ (x = t /\ s = "Stopped"))
  OBVIOUS
<1>1. /\ n => nativeCpuTask = t
      /\ nativeThreads \in [Tasks -> Contexts \cup {NoContext}] /\ TypeOK
      /\ native \in Contexts /\ NoContext \notin Contexts /\ taskStates[t] = "Running"
  BY <1>a, Switching, GuestAssumption DEF SetThreadState, GuestInv, GuestTypeOK
<1>2. /\ ChangeThreadState(x, s, suggested, e) /\ SaveOutgoing(n, saves) /\ UNCHANGED kinds
      /\ nativeCpuTask' = nativeCpuTask \/ (n /\ saves)
  BY <1>a, <1>b, <1>c DEF SetThreadState
<1>3. /\ x = t /\ s # "Running" => criticalDepth' = 0
      /\ next = NoTask => /\ currentTask' = t
                          /\ \E final : /\ taskStates' = [taskStates EXCEPT ![x] = final]
                                        /\ s = "Running" => final = "Running"
      /\ next # NoTask => x = t /\ s # "Running"
      /\ UNCHANGED <<stacks, attachedContexts, powerpcContexts, m68kContexts, nextCallId>>
  BY <1>a, <1>b, <1>2 DEF ChangeThreadState, bankVars
<1>4. taskStates'[currentTask'] # "Running" => criticalDepth' = 0
  <2>1. CASE next = NoTask /\ x # t
    <3>1. taskStates'[t] = taskStates[t] /\ currentTask' = t
      BY <1>1, <1>3, <2>1 DEF TypeOK
    <3> QED BY <1>1, <3>1
  <2>2. CASE next = NoTask /\ x = t /\ s = "Running"
    <3>1. taskStates'[t] = "Running" /\ currentTask' = t
      BY <1>1, <1>3, <2>2 DEF TypeOK
    <3> QED BY <3>1
  <2>3. CASE x = t /\ s # "Running"
    BY <1>3, <2>3
  <2> QED BY <1>3, <2>1, <2>2, <2>3
<1>5. \A u \in Tasks : /\ nativeThreads[u] # NoContext => nativeThreads'[u] # NoContext
                       /\ nativeCpuTask = u => nativeCpuTask' = u \/ nativeThreads'[u] # NoContext
  BY <1>a, <1>1, <1>2 DEF SaveOutgoing
<1>6. Books' /\ \A u \in Tasks : InCallback(u)' = InCallback(u)
  BY <1>2, <1>3, QuietBooks DEF Free
<1>7. NativeKept'
  BY <1>5, <1>6, NativeStays DEF Free
<1> QED BY <1>4, <1>6, <1>7 DEF Free, Unpinned

\* A thread is made.
LEMMA FreeCreate ==
  ASSUME GuestInv, Free, NEW n \in BOOLEAN, NEW suspended \in BOOLEAN, CreateThread(n, suspended)
  PROVE  Free'
<1>a. PICK t \in Tasks : t = currentTask
  BY DEF GuestInv, Scheduling, TypeOK
<1>1. /\ taskStates[t] = "Running" /\ t \in Registered /\ TypeOK
      /\ nativeThreads \in [Tasks -> Contexts \cup {NoContext}]
  BY <1>a, Switching DEF CreateThread
<1>2. stacks' = stacks
  BY CreateKeepsKernel DEF GuestInv
<1>3. /\ UNCHANGED <<currentTask, attachedContexts, powerpcContexts, m68kContexts, nextCallId, kinds,
                     nativeCpuTask>>
      /\ nextTaskId \in Tasks \ {t}
      /\ taskStates' = [taskStates EXCEPT ![nextTaskId] = IF suspended THEN "Stopped" ELSE "Ready"]
      /\ nativeThreads' = IF n THEN [nativeThreads EXCEPT ![nextTaskId] = <<nextTaskId, 0>>]
                          ELSE nativeThreads
  BY <1>a, <1>1 DEF CreateThread, bankVars, TypeOK
<1>4. taskStates'[currentTask'] = "Running"
  BY <1>a, <1>1, <1>3 DEF TypeOK
<1>5. \A u \in Tasks : nativeThreads[u] # NoContext => nativeThreads'[u] # NoContext
  <2>1. <<nextTaskId, 0>> # NoContext
    BY <1>3, GuestAssumption DEF Contexts, Intervals
  <2> QED BY <1>1, <1>3, <2>1
<1>6. Books' /\ \A u \in Tasks : InCallback(u)' = InCallback(u)
  BY <1>2, <1>3, QuietBooks DEF Free
<1>7. NativeKept'
  BY <1>3, <1>5, <1>6, NativeStays DEF Free
<1> QED BY <1>4, <1>6, <1>7 DEF Free, Unpinned

\* A thread is disposed of.
LEMMA FreeRetire ==
  ASSUME GuestInv, Free, NEW n \in BOOLEAN, NEW x \in Tasks, RetireThread(n, x)
  PROVE  Free'
<1>a. PICK t \in Tasks : t = currentTask
  BY DEF GuestInv, Scheduling, TypeOK
<1>b. PICK next : next = IF x = t THEN NextReadyTask(NoTask, FALSE) ELSE NoTask
  OBVIOUS
<1>1. /\ taskStates[t] = "Running" /\ TypeOK
      /\ n => nativeCpuTask = t
      /\ nativeThreads \in [Tasks -> Contexts \cup {NoContext}]
  BY <1>a, Switching DEF RetireThread
<1>2. /\ RetireTask(x, next) /\ UNCHANGED kinds
      /\ nativeThreads' = [nativeThreads EXCEPT ![x] = NoContext]
      /\ \/ nativeCpuTask' = nativeCpuTask
         \/ nativeCpuTask = x
         \/ n /\ x = t
  <2>1. x # t => next = NoTask
    BY <1>b
  <2> DEFINE heir == IF nativeCpuTask = x THEN NoTask ELSE nativeCpuTask
  <2>2. /\ RetireTask(x, next) /\ UNCHANGED kinds
        /\ nativeThreads' = [nativeThreads EXCEPT ![x] = NoContext]
        /\ IF n THEN InstallFromNative(heir, next) ELSE nativeCpuTask' = heir
    BY <1>a, <1>b DEF RetireThread
  <2>3. x # t => nativeCpuTask' = heir
    BY <2>1, <2>2 DEF InstallFromNative
  <2>4. ~ n => nativeCpuTask' = heir
    BY <2>2
  <2> QED BY <2>2, <2>3, <2>4
<1>3. /\ stacks[x] = << >> /\ stacks' = [stacks EXCEPT ![x] = << >>]
      /\ x = t => currentTask' = next /\ next \in Tasks \ {x}
      /\ x # t => currentTask' = t
      /\ taskStates' = [u \in Tasks |-> IF u = x THEN "Absent"
                                        ELSE IF u = next THEN "Running" ELSE taskStates[u]]
      /\ UNCHANGED <<attachedContexts, powerpcContexts, m68kContexts, nextCallId>>
  BY <1>a, <1>2 DEF RetireTask, bankVars, Registered
<1>4. stacks' = stacks
  BY <1>1, <1>3 DEF TypeOK
<1>5. taskStates'[currentTask'] = "Running"
  BY <1>1, <1>3
<1>6. Books' /\ \A u \in Tasks : InCallback(u)' = InCallback(u)
  BY <1>2, <1>3, <1>4, QuietBooks DEF Free
<1>7. ~ InCallback(x)'
  BY <1>3, <1>4 DEF InCallback
<1>8. \A u \in Tasks : nativeThreads[u] # NoContext => nativeThreads'[u] # NoContext \/ ~ InCallback(u)'
  BY <1>1, <1>2, <1>7
<1>9. \A u \in Tasks : nativeCpuTask = u =>
        nativeCpuTask' = u \/ nativeThreads'[u] # NoContext \/ ~ InCallback(u)'
  BY <1>1, <1>2, <1>7
<1>10. NativeKept'
  BY <1>6, <1>8, <1>9, NativeStays DEF Free
<1> QED BY <1>5, <1>6, <1>10 DEF Free, Unpinned

\* The runner installs or selects a task, or a stopped task is readied.
LEMMA FreeRunner ==
  ASSUME GuestInv, Free,
         ApplyTaskHandoff \/ PrepareNativeTask \/ ResumeReadyTask \/ (\E x \in Tasks : ReadyGivenTask(x))
  PROVE  Free'
<1>1. /\ TypeOK /\ nativeThreads \in [Tasks -> Contexts \cup {NoContext}]
      /\ native \in Contexts /\ NoContext \notin Contexts
      /\ nativeCpuTask \in Registered \cup {NoTask} /\ currentTask \in Tasks
  BY GuestAssumption DEF GuestInv, Scheduling, GuestTypeOK, Engines, Displaced, TypeOK
<1>2. UNCHANGED <<stacks, kinds, attachedContexts, powerpcContexts, m68kContexts, nextCallId>>
  BY DEF ApplyTaskHandoff, PrepareNativeTask, ResumeReadyTask, SwitchToTask, ReadyGivenTask,
     SetSchedulingState, vars, storeVars, bankVars, guestVars
<1>3. Books' /\ \A u \in Tasks : InCallback(u)' = InCallback(u)
  BY <1>2, QuietBooks DEF Free
<1>4. \A u \in Tasks : /\ nativeThreads[u] # NoContext => nativeThreads'[u] # NoContext
                       /\ nativeCpuTask = u => nativeCpuTask' = u \/ nativeThreads'[u] # NoContext
  <2>1. CASE PrepareNativeTask
    <3>1. /\ nativeCpuTask' = currentTask
          /\ nativeThreads' = IF nativeCpuTask # currentTask /\ nativeCpuTask # NoTask
                              THEN SavedNative(nativeCpuTask) ELSE nativeThreads
      BY <2>1 DEF PrepareNativeTask, Replacing
    <3>2. nativeCpuTask # NoTask =>
            SavedNative(nativeCpuTask) = [nativeThreads EXCEPT ![nativeCpuTask] = native]
      BY <1>1 DEF SavedNative
    <3>3. CASE nativeCpuTask # currentTask /\ nativeCpuTask # NoTask
      BY <1>1, <3>1, <3>2, <3>3
    <3>4. CASE nativeCpuTask = currentTask \/ nativeCpuTask = NoTask
      <4>1. NoTask \notin Tasks
        BY TasksAreNat
      <4> QED BY <3>1, <3>4, <4>1
    <3> QED BY <3>3, <3>4
  <2>2. CASE ApplyTaskHandoff \/ ResumeReadyTask \/ (\E x \in Tasks : ReadyGivenTask(x))
    BY <2>2 DEF ApplyTaskHandoff, ResumeReadyTask, ReadyGivenTask, guestVars
  <2> QED BY <2>1, <2>2
<1>5. NativeKept'
  BY <1>3, <1>4, NativeStays DEF Free
<1>6. Unpinned'
  <2>1. CASE ApplyTaskHandoff \/ PrepareNativeTask
    BY <2>1 DEF ApplyTaskHandoff, PrepareNativeTask, Free, Unpinned, vars, storeVars
  <2>2. CASE ResumeReadyTask
    <3>1. SwitchToTask(ReadySuccessor)
      BY <2>2 DEF ResumeReadyTask
    <3>2. PICK next : next = ReadySuccessor
      OBVIOUS
    <3>3. /\ currentTask' = next /\ next \in Tasks
          /\ \E y : taskStates' = [taskStates EXCEPT ![currentTask] = y, ![next] = "Running"]
      BY <3>1, <3>2 DEF SwitchToTask, MaySwitchTo, Registered
    <3>4. taskStates'[next] = "Running"
      BY <1>1, <3>3 DEF TypeOK
    <3> QED BY <3>3, <3>4 DEF Unpinned
  <2>3. ASSUME NEW x \in Tasks, ReadyGivenTask(x) PROVE Unpinned'
    <3>1. /\ x = currentTask => criticalDepth = 0
          /\ taskStates' = [taskStates EXCEPT ![x] = "Ready"]
          /\ UNCHANGED <<currentTask, criticalDepth>>
      BY <2>3 DEF ReadyGivenTask, SetSchedulingState
    <3>2. x # currentTask => taskStates'[currentTask] = taskStates[currentTask]
      BY <1>1, <3>1 DEF TypeOK
    <3> QED BY <3>1, <3>2 DEF Unpinned, Free
  <2> QED BY <2>1, <2>2, <2>3
<1> QED BY <1>3, <1>5, <1>6 DEF Free

\* Every step keeps the banks' books, native code that waits, and the CPU unpinned.
LEMMA StepFree ==
  ASSUME GuestInv, GuestInv', Free, [GuestNext]_allVars
  PROVE  Free'
<1>0. TypeOK'
  BY DEF GuestInv, Scheduling
<1>1. CASE UNCHANGED allVars
  <2>1. UNCHANGED <<vars, guestVars>>
    BY <1>1 DEF allVars
  <2>2. Books' /\ \A u \in Tasks : InCallback(u)' = InCallback(u)
    BY <2>1, QuietBooks DEF Free, vars, storeVars, bankVars, guestVars
  <2>3. NativeKept'
    BY <2>1, <2>2, NativeStays DEF Free, guestVars
  <2>4. Unpinned'
    BY <2>1 DEF Free, Unpinned, vars, storeVars
  <2> QED BY <2>2, <2>3, <2>4 DEF Free
<1>2. CASE Guest
  <2>1. CASE RunNative \/ RunClassic \/ CriticalSection
    BY <2>1, FreeRun
  <2>2. CASE BeginClassicToClassic \/ BeginClassicToNative \/ BeginNativeToClassic \/ CallNativeToNative
    BY <1>0, <2>2, FreeCall
  <2>3. CASE ReturnSameEngine \/ CompleteM68kForPowerPc
    BY <1>0, <2>3, FreeReturn
  <2>4. CASE CompletePowerPcForM68k
    BY <1>0, <2>4, FreeComplete
  <2>5. ASSUME NEW n \in BOOLEAN, NEW suggested \in Tasks \cup {NoTask}, YieldTask(n, suggested)
        PROVE  Free'
    BY <2>5, FreeYield
  <2>6. ASSUME NEW n \in BOOLEAN, NEW t \in Tasks, NEW s \in States,
               NEW suggested \in Tasks \cup {NoTask}, NEW e \in BOOLEAN,
               SetThreadState(n, t, s, suggested, e)
        PROVE  Free'
    BY <2>6, FreeThreadState
  <2>7. ASSUME NEW n \in BOOLEAN, NEW suspended \in BOOLEAN, CreateThread(n, suspended) PROVE Free'
    BY <2>7, FreeCreate
  <2>8. ASSUME NEW n \in BOOLEAN, NEW t \in Tasks, RetireThread(n, t) PROVE Free'
    BY <2>8, FreeRetire
  <2> QED BY <1>2, <2>1, <2>2, <2>3, <2>4, <2>5, <2>6, <2>7, <2>8 DEF Guest
<1>3. CASE Runner \/ \E t \in Tasks : ReadyGivenTask(t)
  BY <1>0, <1>3, FreeActivate, FreeReturn, FreeRunner DEF Runner
<1> QED BY <1>1, <1>2, <1>3 DEF GuestNext

\* A launch has no calls, and its application runs.
LEMMA InitFree == GuestInit => Free
<1> SUFFICES ASSUME NEW isa \in AppIsas, LaunchedIn(isa) PROVE Free
  BY DEF GuestInit
<1>1. \A t \in Tasks : stacks[t] = << >>
  BY DEF LaunchedIn
<1>2. Books
  BY <1>1 DEF LaunchedIn, Books, Unused
<1>3. NativeKept
  BY <1>1 DEF NativeKept, InCallback
<1>4. Unpinned
  BY DEF LaunchedIn, Unpinned
<1> QED BY <1>2, <1>3, <1>4 DEF Free

\* A task that runs goes on: its own code does, or the runner has a step for it.
LEMMA RunningGoesOn ==
  ASSUME GuestInv, Free, taskStates[currentTask] = "Running"
  PROVE  GuestRuns \/ RunnerMayStep
<1>a. PICK t \in Tasks : t = currentTask
  BY DEF GuestInv, Scheduling, TypeOK
<1>1. /\ TypeOK /\ FramesOK /\ CallIdentity /\ Books /\ NativeKept /\ Bound /\ Installed
      /\ t \in Registered /\ handoff.isa \in {"M68k", "PowerPc"}
  BY <1>a DEF GuestInv, Scheduling, SingleRunner, GuestTypeOK, Engines, Free
<1>2. OwnerIsa(t) \in {"M68k", "PowerPc"}
  BY <1>1, OwnerIsaIs
<1>3. CASE handoff # NoHandoff
  <2>1. handoff.task = t /\ handoff.isa = OwnerIsa(t)
    BY <1>a, <1>1, <1>3 DEF Installed
  <2>2. CASE OwnerIsa(t) = "M68k"
    BY <1>a, <1>3, <2>1, <2>2 DEF RunnerMayStep, MayApplyHandoff
  <2>3. CASE OwnerIsa(t) = "PowerPc"
    <3>1. taskEntryIsas[t] = "PowerPc" \/ TopKind(t) \in Cross
      BY <1>1, <2>3, IsaByTop DEF Kinds, Cross
    <3>2. Route = "Native" /\ ~ Prepared
      BY <1>a, <1>3, <3>1 DEF Route, Prepared, Cross
    <3> QED BY <1>a, <1>3, <2>1, <2>3, <3>2 DEF RunnerMayStep, MayPrepareNative
  <2> QED BY <1>2, <2>2, <2>3
<1>4. CASE handoff = NoHandoff /\ Route # "Native"
  <2>1. Route = "Classic"
    BY <1>a, <1>4 DEF Route
  <2> QED BY <1>4, <2>1 DEF GuestRuns, ClassicRuns
<1>5. CASE handoff = NoHandoff /\ Route = "Native"
  <2>a. PICK n, c : n = Len(stacks[t]) /\ c = Top(t).id
    OBVIOUS
  <2>1. ASSUME stacks[t] # << >>
        PROVE  /\ n \in DOMAIN stacks[t] /\ c = stacks[t][n].id /\ c \in CallIds /\ kinds[c] = TopKind(t)
               /\ TopPhase(t) = stacks[t][n].phase /\ FrameBooked(t, n)
               /\ ValidTransition(t, c, TopPhase(t))
    <3>1. /\ n \in DOMAIN stacks[t] /\ c = stacks[t][n].id /\ c \in CallIds /\ kinds[c] = TopKind(t)
          /\ TopPhase(t) = Top(t).phase /\ TopPhase(t) = stacks[t][n].phase
      BY <1>1, <2>a, <2>1, TopFrame
    <3>2. \A other \in Tasks : c \in CallsOf(other) => other = t
      <4>1. c \in CallsOf(t)
        BY <3>1 DEF CallsOf
      <4> QED BY <1>1, <4>1 DEF CallIdentity
    <3> QED BY <1>a, <1>1, <2>a, <2>1, <3>1, <3>2 DEF Books, ValidTransition
  <2>2. TopKind(t) = "None" <=> stacks[t] = << >>
    BY <1>1, IsaByTop
  <2>3. CASE TopKind(t) = "ClassicToNative" /\ TopPhase(t) = "Completed"
    <3>1. MayRetire(t, c)
      BY <2>1, <2>2, <2>3 DEF MayRetire, FrameBooked
    <3> QED BY <1>a, <1>5, <2>a, <2>3, <3>1 DEF RunnerMayStep, MayResumeM68k
  <2>4. CASE Prepared
    <3>1. CASE TopKind(t) = "ClassicToNative" /\ TopPhase(t) = "Pending"
      <4>1. MayParkPair(t, c)
        BY <2>1, <2>2, <3>1 DEF MayParkPair, FrameBooked
      <4> QED BY <1>a, <2>a, <2>4, <3>1, <4>1 DEF RunnerMayStep, MayActivatePowerPc
    <3>2. CASE TopKind(t) = "NativeToClassic" /\ TopPhase(t) = "Pending"
      <4>1. ValidTransition(t, c, "Pending") /\ <<t, c>> \notin powerpcContexts
        BY <2>1, <2>2, <3>2 DEF FrameBooked
      <4>2. PICK caller : caller = SuspendedM68kOwner(t)
        OBVIOUS
      <4>3. caller # 0 => OwnedByCurrent(t, caller) /\ caller # c
        <5> SUFFICES ASSUME caller # 0 PROVE OwnedByCurrent(t, caller) /\ caller # c
          OBVIOUS
        <5> DEFINE W == {i \in Started(t) : kinds[stacks[t][i].id] = "ClassicToNative"}
        <5>1. W # {} /\ caller = stacks[t][Newest(W)].id
          BY <4>2 DEF SuspendedM68kOwner
        <5>2. W \subseteq 1..Len(stacks[t]) /\ Len(stacks[t]) \in Nat
          BY <1>1, StackFacts DEF Started
        <5>3. Newest(W) \in W
          <6> HIDE DEF W
          <6> QED BY <5>1, <5>2, NewestExists
        <5>4. PICK k : k = Newest(W)
          OBVIOUS
        <5>5. k \in Started(t) /\ kinds[stacks[t][k].id] = "ClassicToNative" /\ caller = stacks[t][k].id
          BY <5>1, <5>3, <5>4
        <5>6. caller \in CallsOf(t)
          BY <5>5 DEF Started, CallsOf
        <5>7. caller # c
          BY <2>1, <2>2, <3>2, <5>5
        <5> QED BY <1>a, <5>6, <5>7 DEF OwnedByCurrent
      <4> QED BY <1>a, <2>a, <2>4, <3>2, <4>1, <4>2, <4>3
              DEF RunnerMayStep, MayActivateM68k, MayParkCaller
    <3>3. CASE TopKind(t) = "NativeToClassic" /\ TopPhase(t) = "Active"
      BY <1>a, <2>4, <3>3 DEF GuestRuns, ClassicRuns
    <3>4. CASE TopKind(t) # "NativeToClassic"
               /\ ~ (TopKind(t) = "ClassicToNative" /\ TopPhase(t) # "Active")
      BY <1>a, <2>4, <3>4 DEF GuestRuns, NativeRuns
    <3>5. /\ TopKind(t) = "NativeToClassic" => TopPhase(t) \in {"Pending", "Active"}
          /\ TopKind(t) = "ClassicToNative" => TopPhase(t) \in Phases
      BY <1>1, IsaByTop
    <3> QED BY <2>3, <3>1, <3>2, <3>3, <3>4, <3>5 DEF Phases
  <2>5. CASE nativeCpuTask # t /\ ~ (TopKind(t) = "ClassicToNative" /\ TopPhase(t) = "Completed")
    <3>1. OwnerIsa(t) = "M68k"
      <4>1. OwnerIsa(t) = "PowerPc" => nativeCpuTask = t
        BY <1>a, <1>1, <1>5 DEF Installed
      <4> QED BY <1>2, <2>5, <4>1
    <3>2. taskEntryIsas[t] = "PowerPc" \/ TopKind(t) \in Cross
      BY <1>a, <1>5 DEF Route, Cross
    <3>3. \/ TopKind(t) = "ClassicToNative" /\ TopPhase(t) = "Pending"
          \/ TopKind(t) = "NativeToClassic" /\ TopPhase(t) = "Active"
      BY <1>1, <2>5, <3>1, <3>2, IsaByTop DEF Kinds, Cross, Phases
    <3>4. TopKind(t) = "NativeToClassic" /\ TopPhase(t) = "Active" => nativeThreads[t] # NoContext
      <4> SUFFICES ASSUME TopKind(t) = "NativeToClassic", TopPhase(t) = "Active"
                   PROVE  nativeThreads[t] # NoContext
        OBVIOUS
      <4>1. InCallback(t)
        BY <2>1, <2>2 DEF InCallback
      <4> QED BY <1>1, <2>5, <4>1 DEF NativeKept
    <3>5. ~ Prepared
      BY <1>a, <2>5 DEF Prepared
    <3> QED BY <1>a, <1>5, <3>3, <3>4, <3>5 DEF RunnerMayStep, MayPrepareNative
  <2>6. Prepared \/ nativeCpuTask # t
    BY <1>a, <1>5 DEF Prepared
  <2> QED BY <2>3, <2>4, <2>5, <2>6
<1> QED BY <1>3, <1>4, <1>5

\* When nothing runs, a ready task can be resumed.
LEMMA ReadyGoesOn ==
  ASSUME GuestInv, Free, taskStates[currentTask] # "Running",
         NEW r \in Tasks, taskStates[r] = "Ready"
  PROVE  MayResumeReady
<1>a. PICK t \in Tasks : t = currentTask
  BY DEF GuestInv, Scheduling, TypeOK
<1>1. /\ TypeOK /\ ReadyQueueExact /\ handoff = NoHandoff /\ criticalDepth = 0
  BY <1>a DEF GuestInv, Scheduling, Engines, Displaced, Free, Unpinned
<1>b. PICK next : next = ReadySuccessor
  OBVIOUS
<1>2. next \in Tasks /\ taskStates[next] = "Ready"
  <2>1. CASE taskStates[t] = "Ready"
    BY <1>a, <1>b, <2>1 DEF ReadySuccessor
  <2>2. CASE taskStates[t] # "Ready"
    <3>1. next = Candidate(NoTask, t)
      BY <1>a, <1>b, <1>1, <2>2 DEF ReadySuccessor, NextReadyTask
    <3>2. next # NoTask
      <4>1. ~ Eligible(NoTask, t)
        BY TasksAreNat DEF Eligible
      <4> DEFINE W == {i \in DOMAIN ready : Eligible(ready[i], t)}
      <4>2. PICK k \in DOMAIN ready : ready[k] = r
        BY <1>1 DEF ReadyQueueExact, Entries
      <4>3. k \in W
        BY <2>2, <4>2 DEF Eligible
      <4>4. W \subseteq Nat
        BY <1>1 DEF TypeOK
      <4>5. PICK m \in W : \A j \in W : m <= j
        <5> HIDE DEF W
        <5> QED BY <4>3, <4>4, LeastNatural
      <4>6. (CHOOSE i \in W : \A j \in W : i <= j) \in W
        BY <4>5
      <4>7. ready[CHOOSE i \in W : \A j \in W : i <= j] \in Tasks
        BY <4>6 DEF Eligible
      <4>8. Candidate(NoTask, t) = ready[CHOOSE i \in W : \A j \in W : i <= j]
        BY <4>1, <4>3 DEF Candidate
      <4> QED BY <3>1, <4>7, <4>8, TasksAreNat
    <3> QED BY <1>1, <3>1, <3>2, CandidateEligible DEF Eligible
  <2> QED BY <2>1, <2>2
<1>3. next \in Registered /\ taskStates[next] # "Running" /\ next # NoTask
  BY <1>2, TasksAreNat DEF Registered
<1>4. SavedContext(next) # NoContext
  BY <1>1, <1>2, <1>3, SnapshotIsOwner, OwnerNames
<1> QED BY <1>a, <1>b, <1>1, <1>2, <1>3, <1>4 DEF MayResumeReady, MaySwitchTo

\* Some task that is Running or Ready can always go on: no guard of the banks (parking,
\* activation, retirement) or of the handoffs (prepare_native_task, apply_task_handoff,
\* resume_ready_task) ever leaves the process waiting for itself.
THEOREM NothingWedges ==
  ASSUME ~ NativeReentry, ~ ClassicReentry
  PROVE  GuestSpec => []NeverWedged
<1>1. GuestInv /\ GuestInv' /\ Free /\ [GuestNext]_allVars => Free'
  BY StepFree
<1>2. ASSUME GuestInv, Free PROVE NeverWedged
  <2> SUFFICES ASSUME NEW r \in Tasks, taskStates[r] \in {"Ready", "Running"}
               PROVE  GuestRuns \/ RunnerMayStep
    BY DEF NeverWedged
  <2>1. CASE taskStates[currentTask] = "Running"
    BY <1>2, <2>1, RunningGoesOn
  <2>2. CASE taskStates[currentTask] # "Running"
    <3>1. taskStates[r] = "Ready"
      BY <1>2, <2>2 DEF GuestInv, Scheduling, SingleRunner
    <3> QED BY <1>2, <2>2, <3>1, ReadyGoesOn DEF RunnerMayStep
  <2> QED BY <2>1, <2>2
<1>3. GuestSpec => [](GuestInv /\ Free)
  BY <1>1, InitFree, GuestInvHolds, PTL DEF GuestSpec
<1>4. GuestInv /\ Free => NeverWedged
  BY <1>2
<1> QED BY <1>3, <1>4, PTL
===============================================================================
