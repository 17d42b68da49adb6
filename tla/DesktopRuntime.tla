---------------------------- MODULE DesktopRuntime ----------------------------
(***************************************************************************)
(* The threaded desktop frontend: the window thread (bin/systemless.rs,    *)
(* native_termination.rs) and the owner thread that builds, runs and drops *)
(* the guest (runtime_owner.rs, runtime_driver.rs), joined only by the     *)
(* mailbox.  Every access to the mailbox is a step of its own; what a      *)
(* thread does between two accesses is part of the nearer one.             *)
(*                                                                         *)
(* Commands are AcknowledgeWarp and inputs numbered in the order they are  *)
(* sent.  Pointer positions, pictures, audio and pacing are left out: a    *)
(* frame is due, a slice is possible and a frame is worth drawing whenever *)
(* the environment says so.  Locals of a frame hold their first value      *)
(* outside of it.                                                          *)
(***************************************************************************)
EXTENDS RuntimeMailbox

CONSTANTS Batch,          \* commands applied in one go (32)
          Kinds,          \* kinds of input: "Move", "Down", "Up", and "Key" for the rest
          MaxInputs,      \* bound: inputs the host sends
          MaxWarps,       \* bound: cursor warps the guest makes
          Sessions        \* the processes looked at: within these bounds how many inputs
                          \* and warps, with a guest that changes files or not, closed by
                          \* its user or not, on macOS (AppKit may quit; the launch looks
                          \* for a native bundle first), with a debugger that keeps the
                          \* guest after it exits

ASSUME RuntimeAssumption ==
  /\ Kinds \subseteq {"Move", "Down", "Up", "Key"}
  /\ Batch \in Nat \ {0} /\ MaxInputs \in Nat /\ MaxWarps \in Nat
  /\ Sessions \subseteq [inputs : 0..MaxInputs, warps : 0..MaxWarps,
                         files : BOOLEAN, closed : BOOLEAN,
                         macOS : BOOLEAN, debugServer : BOOLEAN]

VARIABLES
  session,                \* which of the sessions this is
  \* the owner thread
  pc, after,              \* where it is; where it goes after a wake or a safe point
  popped,                 \* commands taken at this safe point
  latch,                  \* HostMouseReleaseLatch
  ran,                    \* foreground_steps > 0 in this frame
  acks,                   \* acknowledgements put off to the end of the frame
  forceNextRender, warpSerial, pendingWarp,
  guest,                  \* what the guest does
  guestWarp,              \* it moved the pointer since the last snapshot
  dirty,                  \* its files: "Clean", "Changed" since the save store's last pass,
                          \* or "Unsaved" although a pass was made
  reported,               \* guest_exit_reported
  nativeBundle, failed,
  willWake,               \* the mailbox armed a wake that is not sent yet
  \* the window thread
  host, closing, runtimeError, seen, hostWarp, hostBundle, preflight,
  sent, pressed,          \* inputs sent; the button as the window system sees it
  quit,                   \* native termination: "No", "Pending" or "Replied"
  wakeEvent,              \* the event loop holds a user event
  \* history
  applied,                \* the newest input handed to the guest
  unseen,                 \* button transitions handed over since the guest ran
  appliedWarp,            \* the newest warp the host applied
  leftBy                  \* why the owner left its loop

ownerVars == <<pc, after, popped, latch, ran, acks, forceNextRender, warpSerial, pendingWarp,
               guest, guestWarp, dirty, reported, nativeBundle, failed, willWake>>
hostVars  == <<host, closing, runtimeError, seen, hostWarp, hostBundle, preflight, sent,
               pressed, quit>>
history   == <<applied, unseen, appliedWarp, leftBy>>
vars      == <<session, mailboxVars, ownerVars, hostVars, wakeEvent, history>>

Inputs   == [kind : Kinds, n : 1..MaxInputs]
NoLatch  == [pressed |-> FALSE, observed |-> FALSE, needsRelease |-> FALSE, held |-> FALSE]

OwnerStart ==
  /\ pc = "Preflight" /\ after = "Slice" /\ popped = 0 /\ latch = NoLatch /\ ran = FALSE
  /\ acks = << >> /\ forceNextRender = TRUE /\ warpSerial = 0 /\ pendingWarp = 0
  /\ guest = "Absent" /\ guestWarp = FALSE /\ dirty = "Clean" /\ reported = FALSE
  /\ nativeBundle = FALSE /\ failed = FALSE /\ willWake = FALSE
  /\ applied = << >> /\ unseen = 0 /\ appliedWarp = 0 /\ leftBy = "None"

\* The same, for a second owner.
NewOwner ==
  /\ pc' = "Preflight" /\ after' = "Slice" /\ popped' = 0 /\ latch' = NoLatch /\ ran' = FALSE
  /\ acks' = << >> /\ forceNextRender' = TRUE /\ warpSerial' = 0 /\ pendingWarp' = 0
  /\ guest' = "Absent" /\ guestWarp' = FALSE /\ dirty' = "Clean" /\ reported' = FALSE
  /\ nativeBundle' = FALSE /\ failed' = FALSE /\ willWake' = FALSE
  /\ applied' = << >> /\ unseen' = 0 /\ appliedWarp' = 0 /\ leftBy' = "None"

Init ==
  /\ session \in Sessions
  /\ MailboxInit /\ OwnerStart
  /\ host = "Idle" /\ closing = FALSE /\ runtimeError = FALSE /\ seen = "Starting"
  /\ hostWarp = 0 /\ hostBundle = FALSE /\ preflight = session.macOS
  /\ sent = 0 /\ pressed = FALSE /\ quit = "No" /\ wakeEvent = FALSE

---------------------------------------------------------------------------
(* HostMouseReleaseLatch *)

Press == [pressed |-> TRUE, observed |-> FALSE, needsRelease |-> FALSE, held |-> FALSE]

\* release holds a release back while the press was not observed.
Holds(l)   == l.pressed /\ ~ l.observed
Release(l) == IF Holds(l) THEN [l EXCEPT !.held = TRUE]
              ELSE [l EXCEPT !.pressed = FALSE, !.observed = FALSE,
                             !.needsRelease = l.pressed]

\* Slip: progress counts for a press whose release waits.
ObserveProgressOfClick(l) == IF l.held THEN [l EXCEPT !.observed = TRUE]
                             ELSE [l EXCEPT !.needsRelease = FALSE]

\* observe_guest_progress.
ObserveProgress(l) == IF Holds(l) THEN [l EXCEPT !.observed = TRUE]
                      ELSE [l EXCEPT !.needsRelease = FALSE]

\* Slip: a release is not waited for.
RequiresProgressOfPress(l) == l.pressed /\ ~ l.observed

\* requires_guest_progress.
RequiresProgress(l) == Holds(l) \/ l.needsRelease

ReadyRelease(l) == l.observed /\ l.held

\* take_ready_release.
TakeReadyRelease(l) ==
  IF ReadyRelease(l)
  THEN [pressed |-> FALSE, observed |-> FALSE, needsRelease |-> TRUE, held |-> FALSE]
  ELSE l

---------------------------------------------------------------------------
(* Applying a command *)

Saturated(n) == IF n > 3 THEN 3 ELSE n

\* apply_guest_command.  A release is a transition when its press was handed over (one
\* whose press went to the bootstrap owner is not).
ApplyInput(c) ==
  /\ latch' = IF c.kind = "Down" THEN Press
              ELSE IF c.kind = "Up" THEN Release(latch) ELSE latch
  /\ unseen' = IF c.kind = "Down" \/ (c.kind = "Up" /\ latch.pressed /\ latch.observed)
               THEN Saturated(unseen + 1) ELSE unseen
  /\ applied' = <<c>>

\* Slip: any acknowledgement clears the pending warp.
AcknowledgedByAny(serials) == IF serials # {} THEN 0 ELSE pendingWarp

\* apply_command of acknowledgements: only the pending serial is acknowledged.
Acknowledged(serials) == IF pendingWarp \in serials THEN 0 ELSE pendingWarp

\* apply_command, of the head of the queue.
ApplyCommand(c) ==
  /\ IF c.kind = "Ack"
     THEN /\ pendingWarp' = Acknowledged({c.n})
          /\ UNCHANGED <<latch, unseen, applied, forceNextRender>>
     ELSE /\ ApplyInput(c)
          /\ forceNextRender' = TRUE
          /\ UNCHANGED pendingWarp

\* next_command found one.
TakeCommand == commands # << >> /\ commands' = Tail(commands)

MailboxExcept == <<shutdown, presentation, frame, published, bundle, status, wakePending>>

---------------------------------------------------------------------------
(* The owner thread starts *)

\* native_preflight: a cached or new bundle ends this owner before any guest exists.
OwnerPreflight ==
  /\ pc = "Preflight"
  /\ \/ preflight /\ ~ shutdown /\ nativeBundle' = TRUE /\ pc' = "Flush" /\ leftBy' = "Start"
     \/ pc' = "CheckStart" /\ UNCHANGED <<nativeBundle, leftBy>>
  /\ UNCHANGED <<mailboxVars, after, popped, latch, ran, acks, forceNextRender, warpSerial,
                 pendingWarp, guest, guestWarp, dirty, reported, failed, willWake, hostVars,
                 wakeEvent, applied, unseen, appliedWarp>>

OwnerCheckStart ==
  /\ pc = "CheckStart"
  /\ IF shutdown THEN pc' = "Flush" /\ leftBy' = "Start"
     ELSE pc' = "Initialize" /\ UNCHANGED leftBy
  /\ UNCHANGED <<mailboxVars, after, popped, latch, ran, acks, forceNextRender, warpSerial,
                 pendingWarp, guest, guestWarp, dirty, reported, nativeBundle, failed,
                 willWake, hostVars, wakeEvent, applied, unseen, appliedWarp>>

\* bind, initialize and the first publish; or an error or a panic on the way.
OwnerInitialize ==
  /\ pc = "Initialize"
  /\ \/ /\ pc' = "Flush" /\ failed' = TRUE /\ leftBy' = "Start"
        /\ UNCHANGED <<mailboxVars, guest, willWake, after>>
     \/ /\ guest' = "Running"
        /\ Publish(FALSE, [warp |-> 0])
        /\ willWake' = ~ wakePending /\ pc' = "Wake" /\ after' = "Ready"
        /\ UNCHANGED <<commands, shutdown, presentation, bundle, status, failed, leftBy>>
  /\ UNCHANGED <<popped, latch, ran, acks, forceNextRender, warpSerial, pendingWarp,
                 guestWarp, dirty, reported, nativeBundle, hostVars, wakeEvent, applied,
                 unseen, appliedWarp>>

OwnerReady ==
  /\ pc = "Ready"
  /\ SetStatus("Ready")
  /\ willWake' = ~ wakePending /\ pc' = "Wake" /\ after' = "Top"
  /\ UNCHANGED <<commands, shutdown, presentation, frame, published, bundle, popped, latch,
                 ran, acks, forceNextRender, warpSerial, pendingWarp, guest, guestWarp, dirty,
                 reported, nativeBundle, failed, hostVars, wakeEvent, history>>

\* wake_host, outside the lock: the event loop holds one user event or none.
OwnerWake ==
  /\ pc = "Wake"
  /\ wakeEvent' = (wakeEvent \/ willWake)
  /\ willWake' = FALSE /\ pc' = after /\ after' = "Slice"
  /\ UNCHANGED <<mailboxVars, popped, latch, ran, acks, forceNextRender, warpSerial,
                 pendingWarp, guest, guestWarp, dirty, reported, nativeBundle, failed,
                 hostVars, history>>

---------------------------------------------------------------------------
(* The owner's loop *)

\* What a pass of the save store leaves of the guest's changes: an error of a write or of
\* a removal is printed and dropped.
AfterPass == IF dirty = "Clean" THEN {"Clean"} ELSE {"Clean", "Unsaved"}

OwnerTakePresentation ==
  /\ pc = "Top"
  /\ forceNextRender' = (forceNextRender \/ presentation = "Forced")
  /\ presentation' = "None" /\ pc' = "Check"
  /\ UNCHANGED <<commands, shutdown, frame, published, bundle, status, wakePending, after,
                 popped, latch, ran, acks, warpSerial, pendingWarp, guest, guestWarp, dirty,
                 reported, nativeBundle, failed, willWake, hostVars, wakeEvent, history>>

\* Slip: a shutdown leaves the loop before the queue is applied.
OwnerCheckShutdownLeaving ==
  /\ pc = "Check"
  /\ pc' = IF shutdown THEN "Flush" ELSE "Commands"
  /\ leftBy' = IF shutdown THEN "Shutdown" ELSE leftBy
  /\ UNCHANGED <<mailboxVars, after, popped, latch, ran, acks, forceNextRender, warpSerial,
                 pendingWarp, guest, guestWarp, dirty, reported, nativeBundle, failed,
                 willWake, hostVars, wakeEvent, applied, unseen, appliedWarp>>

OwnerCheckShutdown ==
  /\ pc = "Check"
  /\ pc' = IF shutdown THEN "Drain" ELSE "Commands"
  /\ UNCHANGED <<mailboxVars, after, popped, latch, ran, acks, forceNextRender, warpSerial,
                 pendingWarp, guest, guestWarp, dirty, reported, nativeBundle, failed,
                 willWake, hostVars, wakeEvent, history>>

\* A shutdown applies everything that was accepted.
OwnerDrain ==
  /\ pc = "Drain"
  /\ IF commands = << >>
     THEN /\ pc' = "Flush" /\ leftBy' = "Shutdown"
          /\ UNCHANGED <<commands, latch, unseen, applied, forceNextRender, pendingWarp>>
     ELSE /\ TakeCommand /\ ApplyCommand(Head(commands))
          /\ UNCHANGED <<pc, leftBy>>
  /\ UNCHANGED <<MailboxExcept, after, popped, ran, acks, warpSerial, guest, guestWarp, dirty,
                 reported, nativeBundle, failed, willWake, hostVars, wakeEvent, appliedWarp>>

MayTake == popped < Batch /\ ~ RequiresProgress(latch)

OwnerApplyQueued ==
  /\ pc = "Commands" /\ MayTake
  /\ TakeCommand /\ ApplyCommand(Head(commands))
  /\ popped' = popped + 1
  /\ UNCHANGED <<MailboxExcept, pc, after, ran, acks, warpSerial, guest, guestWarp, dirty,
                 reported, nativeBundle, failed, willWake, hostVars, wakeEvent, appliedWarp,
                 leftBy>>

\* The frame is not due: wait_until_accepting, then from the top.
OwnerWait ==
  /\ pc = "Commands" /\ (MayTake => commands = << >>)
  /\ pc' = "Top" /\ popped' = 0
  /\ UNCHANGED <<mailboxVars, after, latch, ran, acks, forceNextRender, warpSerial,
                 pendingWarp, guest, guestWarp, dirty, reported, nativeBundle, failed,
                 willWake, hostVars, wakeEvent, history>>

\* The frame is due.  step_frame returns at once for a halted guest.
OwnerStartFrame ==
  /\ pc = "Commands" /\ (MayTake => commands = << >>)
  /\ pc' = IF guest = "Running" THEN "SafePoint" ELSE "EndFrame"
  /\ popped' = 0
  /\ UNCHANGED <<mailboxVars, after, latch, ran, acks, forceNextRender, warpSerial,
                 pendingWarp, guest, guestWarp, dirty, reported, nativeBundle, failed,
                 willWake, hostVars, wakeEvent, history>>

OwnerSafePoint ==
  /\ pc = "SafePoint"
  /\ pc' = IF shutdown THEN "EndFrame" ELSE "SafePop"
  /\ UNCHANGED <<mailboxVars, after, popped, latch, ran, acks, forceNextRender, warpSerial,
                 pendingWarp, guest, guestWarp, dirty, reported, nativeBundle, failed,
                 willWake, hostVars, wakeEvent, history>>

MaySafePop == MayTake /\ Len(acks) < Batch

OwnerSafePop ==
  /\ pc = "SafePop" /\ MaySafePop /\ TakeCommand
  /\ popped' = popped + 1
  /\ IF Head(commands).kind = "Ack"
     THEN /\ acks' = Append(acks, Head(commands).n)
          /\ UNCHANGED <<latch, unseen, applied, forceNextRender>>
     ELSE /\ ApplyInput(Head(commands))
          /\ forceNextRender' = TRUE
          /\ UNCHANGED acks
  /\ UNCHANGED <<MailboxExcept, pc, after, ran, warpSerial, pendingWarp, guest, guestWarp,
                 dirty, reported, nativeBundle, failed, willWake, hostVars, wakeEvent,
                 appliedWarp, leftBy>>

OwnerSafePopDone ==
  /\ pc = "SafePop" /\ (MaySafePop => commands = << >>)
  /\ pc' = after /\ popped' = 0
  /\ UNCHANGED <<mailboxVars, after, latch, ran, acks, forceNextRender, warpSerial,
                 pendingWarp, guest, guestWarp, dirty, reported, nativeBundle, failed,
                 willWake, hostVars, wakeEvent, history>>

\* A foreground slice: the guest runs, and may move the pointer, change a file, exit,
\* fault or panic.
OwnerSlice ==
  /\ pc = "Slice"
  /\ ran' = TRUE /\ unseen' = 0
  /\ dirty' \in IF session.files THEN {dirty, "Changed"} ELSE {dirty}
  /\ guestWarp' \in IF warpSerial < session.warps THEN {guestWarp, TRUE} ELSE {guestWarp}
  /\ guest' \in {"Running", "Exited", "Faulted"}
  /\ \/ pc' \in (IF guest' = "Running" THEN {"SafePoint", "Audio"} ELSE {"EndFrame"})
        /\ UNCHANGED <<failed, leftBy>>
     \/ pc' = "Flush" /\ failed' = TRUE /\ leftBy' = "Panic"
  /\ UNCHANGED <<mailboxVars, after, popped, latch, acks, forceNextRender, warpSerial,
                 pendingWarp, reported, nativeBundle, willWake, hostVars, wakeEvent, applied,
                 appliedWarp>>

\* After the safe point the tick or the deadline turns out to be reached.
OwnerStopSlicing ==
  /\ pc = "Slice"
  /\ pc' = "Audio"
  /\ UNCHANGED <<mailboxVars, after, popped, latch, ran, acks, forceNextRender, warpSerial,
                 pendingWarp, guest, guestWarp, dirty, reported, nativeBundle, failed,
                 willWake, hostVars, wakeEvent, history>>

\* What is left of the frame's audio is mixed, with a safe point before each chunk.
OwnerMixAudio ==
  /\ pc = "Audio"
  /\ pc' \in {"SafePoint", "EndFrame"}
  /\ after' = "Audio"
  /\ UNCHANGED <<mailboxVars, popped, latch, ran, acks, forceNextRender, warpSerial,
                 pendingWarp, guest, guestWarp, dirty, reported, nativeBundle, failed,
                 willWake, hostVars, wakeEvent, history>>

\* Progress is noted, the acknowledgements applied, a held release let go; then the
\* guest's exit and a shutdown are looked at.
OwnerEndFrame ==
  LET noted == IF ran THEN ObserveProgress(latch) ELSE latch IN
  /\ pc = "EndFrame"
  /\ latch' = TakeReadyRelease(noted)
  /\ unseen' = IF ReadyRelease(noted) THEN Saturated(unseen + 1) ELSE unseen
  /\ pendingWarp' = Acknowledged({acks[i] : i \in DOMAIN acks})
  /\ acks' = << >> /\ ran' = FALSE /\ after' = "Slice"
  /\ forceNextRender' \in {forceNextRender, forceNextRender \/ ran}
  /\ dirty' \in IF guest = "Exited" /\ ~ reported THEN AfterPass ELSE {dirty}
  /\ reported' = (reported \/ guest = "Exited")
  /\ IF guest = "Exited" /\ ~ session.debugServer THEN pc' = "Flush" /\ leftBy' = "Exit"
     ELSE pc' = (IF shutdown THEN "Top" ELSE "Capture") /\ UNCHANGED leftBy
  /\ UNCHANGED <<mailboxVars, popped, warpSerial, guest, guestWarp,
                  nativeBundle, failed, willWake, hostVars, wakeEvent, applied, appliedWarp>>

\* sync_save_files(false), which looks at the files in one frame of many; capture_frame,
\* capture_state and publish.
OwnerCapture ==
  /\ pc = "Capture"
  /\ dirty' \in {dirty} \cup AfterPass
  /\ warpSerial' = IF guestWarp THEN warpSerial + 1 ELSE warpSerial
  /\ pendingWarp' = IF guestWarp THEN warpSerial' ELSE pendingWarp
  /\ guestWarp' = FALSE
  /\ \E drawn \in (IF forceNextRender THEN {TRUE} ELSE BOOLEAN) :
       Publish(drawn, [warp |-> pendingWarp'])
  /\ forceNextRender' = FALSE
  /\ willWake' = ~ wakePending /\ pc' = "Wake" /\ after' = "Top"
  /\ UNCHANGED <<commands, shutdown, presentation, bundle, status, popped, latch, ran, acks,
                 guest, reported, nativeBundle, failed, hostVars, wakeEvent, history>>

---------------------------------------------------------------------------
(* The owner thread ends *)

\* sync_save_files(true) and the teardown of the driver.  A panic of either is reported;
\* a file that the store could not write is not.
OwnerFlush ==
  /\ pc = "Flush"
  /\ dirty' \in AfterPass
  /\ failed' \in {failed, TRUE}
  /\ pc' = "Stop"
  /\ UNCHANGED <<mailboxVars, after, popped, latch, ran, acks, forceNextRender, warpSerial,
                 pendingWarp, guest, guestWarp, reported, nativeBundle, willWake, hostVars,
                 wakeEvent, history>>

OwnerStop ==
  /\ pc = "Stop"
  /\ pc' = IF ~ failed /\ ~ shutdown /\ nativeBundle THEN "StopWithBundle" ELSE "StopPlain"
  /\ UNCHANGED <<mailboxVars, after, popped, latch, ran, acks, forceNextRender, warpSerial,
                 pendingWarp, guest, guestWarp, dirty, reported, nativeBundle, failed,
                 willWake, hostVars, wakeEvent, history>>

\* Slip: the terminal status does not wake the host.
OwnerPublishStatusSilently ==
  /\ pc \in {"StopWithBundle", "StopPlain"}
  /\ bundle' = (bundle \/ pc = "StopWithBundle")
  /\ status' = IF failed THEN "Failed" ELSE "Stopped"
  /\ pc' = "Wake" /\ after' = "Done"
  /\ UNCHANGED <<commands, shutdown, presentation, frame, published, wakePending, popped,
                 latch, ran, acks, forceNextRender, warpSerial, pendingWarp, guest, guestWarp,
                 dirty, reported, nativeBundle, failed, willWake, hostVars, wakeEvent, history>>

\* finish_native_bootstrap or set_status(Stopped); the thread then returns.
OwnerPublishStatus ==
  /\ pc \in {"StopWithBundle", "StopPlain"}
  /\ bundle' = (bundle \/ pc = "StopWithBundle")
  /\ SetStatus(IF failed THEN "Failed" ELSE "Stopped")
  /\ willWake' = ~ wakePending /\ pc' = "Wake" /\ after' = "Done"
  /\ UNCHANGED <<commands, shutdown, presentation, frame, published, popped, latch, ran, acks,
                 forceNextRender, warpSerial, pendingWarp, guest, guestWarp, dirty, reported,
                 nativeBundle, failed, hostVars, wakeEvent, history>>

---------------------------------------------------------------------------
(* The window thread *)

\* send_command: a full queue stops the runtime, a closed one refuses silently.
SendCommand(c) ==
  IF closing \/ Closed THEN UNCHANGED <<commands, shutdown, runtimeError>>
  ELSE IF Full(c) THEN shutdown' = TRUE /\ runtimeError' = TRUE /\ UNCHANGED commands
  ELSE Send(c) /\ UNCHANGED <<shutdown, runtimeError>>

\* The window system reports an input; more of its batch may follow before the poll.
HostInput(kind) ==
  /\ host \in {"Idle", "Batch"} /\ sent < session.inputs
  /\ kind = "Down" => ~ pressed
  /\ kind = "Up" => pressed
  /\ pressed' = IF kind \in {"Down", "Up"} THEN kind = "Down" ELSE pressed
  /\ sent' = sent + 1
  /\ SendCommand([kind |-> kind, n |-> sent + 1])
  /\ host' = "Batch"
  /\ UNCHANGED <<presentation, frame, published, bundle, status, wakePending, ownerVars,
                 closing, seen, hostWarp, hostBundle, preflight, quit, wakeEvent, history>>

\* WindowEvent::CloseRequested.
HostClose ==
  /\ session.closed /\ host \in {"Idle", "Batch"} /\ ~ closing
  /\ closing' = TRUE /\ shutdown' = TRUE /\ host' = "Poll"
  /\ UNCHANGED <<commands, presentation, frame, published, bundle, status, wakePending,
                 ownerVars, runtimeError, seen, hostWarp, hostBundle, preflight, sent,
                 pressed, quit, wakeEvent, history>>

\* applicationShouldTerminate: AppKit waits for the timer's reply.
HostQuit ==
  /\ session.macOS /\ host \in {"Idle", "Batch"} /\ quit = "No"
  /\ quit' = "Pending" /\ shutdown' = TRUE
  /\ UNCHANGED <<commands, presentation, frame, published, bundle, status, wakePending,
                 ownerVars, host, closing, runtimeError, seen, hostWarp, hostBundle,
                 preflight, sent, pressed, wakeEvent, history>>

\* poll_termination, once a terminal status is seen.
HostQuitTimer ==
  /\ quit = "Pending" /\ status \in Terminal
  /\ quit' = "Replied" /\ host' = "Exited"
  /\ UNCHANGED <<mailboxVars, ownerVars, closing, runtimeError, seen, hostWarp, hostBundle,
                 preflight, sent, pressed, wakeEvent, history>>

\* A user event or a batch of window events ends in about_to_wait.
HostWake ==
  /\ host = "Batch" \/ (host = "Idle" /\ wakeEvent)
  /\ wakeEvent' = FALSE /\ host' = "Poll"
  /\ UNCHANGED <<mailboxVars, ownerVars, closing, runtimeError, seen, hostWarp, hostBundle,
                 preflight, sent, pressed, quit, history>>

\* poll_owner's poll.  During a native quit the timer owns completion.
HostPoll ==
  /\ host = "Poll"
  /\ IF quit = "Pending"
     THEN /\ host' = "Idle"
          /\ UNCHANGED <<mailboxVars, seen, hostWarp, hostBundle>>
     ELSE /\ Poll
          /\ seen' = status
          /\ hostWarp' = IF published # NoState THEN published.warp ELSE hostWarp
          /\ hostBundle' = (hostBundle \/ bundle)
          /\ host' = IF hostWarp' = 0 THEN "Status" ELSE "Warp"
          /\ UNCHANGED <<commands, shutdown, presentation, status>>
  /\ UNCHANGED <<ownerVars, closing, runtimeError, preflight, sent, pressed, quit, wakeEvent,
                 history>>

\* sync_guest_cursor_warp: the host pointer is moved and the serial acknowledged, unless
\* there is no place for it in the window.
HostWarpPointer ==
  /\ host = "Warp" /\ host' = "Status"
  /\ \/ UNCHANGED <<commands, shutdown, runtimeError, hostWarp, appliedWarp>>
     \/ /\ SendCommand([kind |-> "Ack", n |-> hostWarp])
        /\ appliedWarp' = hostWarp
        /\ hostWarp' = 0
  /\ UNCHANGED <<presentation, frame, published, bundle, status, wakePending, ownerVars,
                 closing, seen, hostBundle, preflight, sent, pressed, quit, wakeEvent,
                 applied, unseen, leftBy>>

\* The rest of poll_owner while the owner lives: ask for the next presentation.
HostPresent ==
  /\ host = "Status" /\ seen \notin Terminal
  /\ \E force \in BOOLEAN : RequestPresentation(force)
  /\ host' = "Idle"
  /\ UNCHANGED <<commands, shutdown, frame, published, bundle, status, wakePending, ownerVars,
                 closing, runtimeError, seen, hostWarp, hostBundle, preflight, sent, pressed,
                 quit, wakeEvent, history>>

\* join_finished says no: poll again in 2 ms.
HostRetryJoin ==
  /\ host = "Status" /\ seen \in Terminal /\ pc # "Done"
  /\ runtimeError' = (runtimeError \/ seen = "Failed")
  /\ host' = "Poll"
  /\ UNCHANGED <<mailboxVars, ownerVars, closing, seen, hostWarp, hostBundle, preflight, sent,
                 pressed, quit, wakeEvent, history>>

Respawns == hostBundle /\ ~ closing /\ ~ runtimeError /\ seen # "Failed" /\ quit = "No"

\* The owner is joined: the process exits, or the window shows the error.
HostJoined ==
  /\ host = "Status" /\ seen \in Terminal /\ pc = "Done" /\ ~ Respawns
  /\ runtimeError' = (runtimeError \/ seen = "Failed")
  /\ host' = IF closing \/ ~ runtimeError' THEN "Exited" ELSE "Idle"
  /\ UNCHANGED <<mailboxVars, ownerVars, closing, seen, hostWarp, hostBundle, preflight, sent,
                 pressed, quit, wakeEvent, history>>

\* The bootstrap owner is joined: exec replaces the process or, when it fails, a second
\* owner is started on a mailbox of its own, which can fail too.
HostEnterBundle ==
  /\ host = "Status" /\ seen \in Terminal /\ pc = "Done" /\ Respawns
  /\ hostBundle' = FALSE /\ preflight' = FALSE
  /\ \/ /\ host' = "Exited"
        /\ UNCHANGED <<mailboxVars, ownerVars, history, seen, runtimeError>>
     \/ /\ host' = "Idle" /\ seen' = "Starting"
        /\ NewMailbox /\ NewOwner
        /\ UNCHANGED runtimeError
     \/ /\ host' = "Idle" /\ runtimeError' = TRUE
        /\ UNCHANGED <<mailboxVars, ownerVars, history, seen>>
  /\ UNCHANGED <<closing, hostWarp, sent, pressed, quit, wakeEvent>>

---------------------------------------------------------------------------
OwnerStep ==
  \/ OwnerPreflight \/ OwnerCheckStart \/ OwnerInitialize \/ OwnerReady \/ OwnerWake
  \/ OwnerTakePresentation \/ OwnerCheckShutdown \/ OwnerDrain \/ OwnerApplyQueued
  \/ OwnerWait \/ OwnerStartFrame \/ OwnerSafePoint \/ OwnerSafePop \/ OwnerSafePopDone
  \/ OwnerSlice \/ OwnerStopSlicing \/ OwnerMixAudio \/ OwnerEndFrame
  \/ OwnerCapture \/ OwnerFlush \/ OwnerStop \/ OwnerPublishStatus

\* What the event loop does of itself.
HostStep == \/ HostQuitTimer \/ HostWake \/ HostPoll \/ HostWarpPointer \/ HostPresent
            \/ HostRetryJoin \/ HostJoined \/ HostEnterBundle

User == (\E kind \in Kinds : HostInput(kind)) \/ HostClose \/ HostQuit

\* The process lives, and stays the session it is.
Alive == host # "Exited" /\ UNCHANGED session

Next == Alive /\ (OwnerStep \/ HostStep \/ User)

FrameMoves == \/ OwnerStartFrame
              \/ (OwnerSlice \/ OwnerStopSlicing) /\ pc' = "Audio"
              \/ OwnerMixAudio /\ pc' = "EndFrame"

\* Both threads are scheduled; frame deadlines pass and every frame's budget of slices and
\* audio chunks is used up, so that frames follow each other; some have time for a slice.
Fairness ==
  /\ WF_vars(Alive /\ OwnerStep) /\ WF_vars(Alive /\ HostStep)
  /\ SF_vars(Alive /\ FrameMoves) /\ SF_vars(Alive /\ OwnerSlice)

Spec == Init /\ [][Next]_vars /\ Fairness

---------------------------------------------------------------------------
(* Properties *)

Ended == {"Flush", "Stop", "StopWithBundle", "StopPlain", "Done"}

\* Every variable keeps its type; the queue never exceeds its capacity.
RuntimeTypeOK ==
  /\ session \in Sessions
  /\ commands \in Seq(Inputs \cup [kind : {"Ack"}, n : 1..MaxWarps])
  /\ Len(commands) <= Capacity
  /\ shutdown \in BOOLEAN /\ presentation \in {"None", "Plain", "Forced"}
  /\ frame \in BOOLEAN /\ bundle \in BOOLEAN /\ wakePending \in BOOLEAN
  /\ published \in [warp : 0..MaxWarps] \cup {NoState}
  /\ status \in Statuses /\ seen \in Statuses /\ dirty \in {"Clean", "Changed", "Unsaved"}
  /\ pc \in {"Preflight", "CheckStart", "Initialize", "Ready", "Wake", "Top", "Check", "Drain",
             "Commands", "SafePoint", "SafePop", "Slice", "Audio", "EndFrame", "Capture"}
           \cup Ended
  /\ after \in {"Ready", "Top", "Slice", "Audio", "Done"}
  /\ popped \in 0..Batch /\ acks \in Seq(1..MaxWarps) /\ Len(acks) <= Batch
  /\ latch \in [pressed : BOOLEAN, observed : BOOLEAN, needsRelease : BOOLEAN, held : BOOLEAN]
  /\ guest \in {"Absent", "Running", "Exited", "Faulted"}
  /\ warpSerial \in 0..MaxWarps /\ pendingWarp \in 0..warpSerial
  /\ hostWarp \in 0..warpSerial /\ appliedWarp \in 0..warpSerial
  /\ host \in {"Idle", "Batch", "Poll", "Warp", "Status", "Exited"}
  /\ quit \in {"No", "Pending", "Replied"} /\ sent \in 0..MaxInputs /\ unseen \in 0..3

\* A shutdown, after which no guest runs, applies the rest of the queue at once.
Leaving == pc = "Drain" \/ pc \in Ended \/ after = "Done"

\* "Polling Mac applications must still execute with the button down before they observe
\* the release": whatever arrives in one batch, at whichever safe point, the guest is never
\* handed a second button transition before it ran after the first.
ObservedTransitions == unseen <= 1 \/ Leaving

\* What the latch does ensure: a press that came late in a frame may be followed by its
\* release at once, credited with what the guest ran before it, but no third transition
\* follows before the guest runs.
TransitionsInPairs == unseen <= 2 \/ Leaving

IsInput(c) == c.kind # "Ack"

\* The inputs of a queue, in order: a recursive function, for the proofs.
InputsOf(queue) ==
  LET kept[i \in 0..Len(queue)] ==
        IF i = 0 THEN << >>
        ELSE IF IsInput(queue[i]) THEN Append(kept[i - 1], queue[i]) ELSE kept[i - 1]
  IN  kept[Len(queue)]

Channel == INSTANCE InputChannel WITH pending <- InputsOf(commands), delivered <- applied

\* The bounded queue with its acknowledgements, the batches, the put-off commands and the
\* latch implement an ordered channel that loses and duplicates nothing, and merges a
\* movement with its direct predecessor only.
OrderedInput == Channel!Spec

\* "Already accepted commands remain available to the owner before its final flush": an
\* owner that was asked to stop leaves its loop with an empty queue, and whatever ended it,
\* a panic or an error included, no end is reported before the save store made a pass over
\* everything the guest changed.  (That the pass saved it all is not promised.)
OrderlyStop ==
  /\ leftBy = "Shutdown" => commands = << >>
  /\ status \in Terminal => dirty # "Changed"

Unpolled == frame \/ published # NoState \/ bundle \/ status # seen

\* The host sleeps on news only while a wake is on its way: arming it under the lock and
\* calling it after the lock loses no wake, whenever the host polls in between.
WakeNeverLost == host = "Idle" /\ quit # "Pending" /\ Unpolled => wakeEvent \/ willWake

\* A warp the host did not apply yet is published again and again: a late acknowledgement
\* of an older warp does not cancel it.
WarpKept == warpSerial > appliedWarp => pendingWarp = warpSerial

Demanded == presentation = "Forced" \/ forceNextRender

\* A demand for a redraw, by the host or after an input, ends in a frame being published
\* (or with its owner), and in nothing else.
RedrawKept == [][Demanded /\ ~ Demanded' => (pc = "Capture" /\ frame') \/ pc = "Done"]_vars

\* A closed window and a native Quit end the process: neither waits for the other thread
\* in a circle, whatever the owner is doing and however it fails.
QuitCompletes == (closing \/ quit = "Pending") ~> (host = "Exited")

InputQueued == \E i \in DOMAIN commands : IsInput(commands[i])

\* Inputs that were accepted are handed to the guest to the last one, unless the runtime
\* stops or the guest stopped running.  (The user's inputs are bounded: that the queue is
\* found empty says that none stayed in it.)
InputConsumed ==
  InputQueued ~> (\/ ~ InputQueued
                  \/ pc \in Ended \/ guest \in {"Exited", "Faulted"} \/ host = "Exited")
===============================================================================
