---------------------------- MODULE RuntimeMailbox ----------------------------
(***************************************************************************)
(* The bounded transport between the window thread and the guest's owner   *)
(* thread (bin/desktop/runtime_mailbox.rs).  Every operation holds the     *)
(* mutex once and is one step; the host wake is called after the mutex is  *)
(* released and is a step of the thread that armed it (DesktopRuntime).    *)
(* Frames and snapshots are owned values: a waiting frame is a flag, and   *)
(* of a snapshot only the guest's cursor warp is kept.  The recycled frame *)
(* buffers are left out.                                                   *)
(***************************************************************************)
EXTENDS Naturals, Sequences

CONSTANTS Capacity,       \* COMMAND_CAPACITY
          NoState         \* no snapshot waits

ASSUME MailboxAssumption == Capacity \in Nat /\ Capacity >= 1

VARIABLES commands,       \* the queue, oldest first
          shutdown, presentation, frame, published, bundle, status,
          wakePending

mailboxVars == <<commands, shutdown, presentation, frame, published, bundle, status,
                 wakePending>>

Terminal == {"Stopped", "Failed"}      \* RuntimeStatus::Stopped without, with an error
Statuses == {"Starting", "Ready"} \cup Terminal

MailboxInit ==
  /\ commands = << >> /\ shutdown = FALSE /\ presentation = "None"
  /\ frame = FALSE /\ published = NoState /\ bundle = FALSE
  /\ status = "Starting" /\ wakePending = FALSE

\* The same, for a second mailbox.
NewMailbox ==
  /\ commands' = << >> /\ shutdown' = FALSE /\ presentation' = "None"
  /\ frame' = FALSE /\ published' = NoState /\ bundle' = FALSE
  /\ status' = "Starting" /\ wakePending' = FALSE

Closed == shutdown \/ status \in Terminal

\* Slip: a movement replaces whatever is queued last.
CoalescesWithAny(c) == c.kind = "Move" /\ commands # << >>

\* A movement replaces the movement it follows directly.
Coalesces(c) == /\ c.kind = "Move" /\ commands # << >>
                /\ commands[Len(commands)].kind = "Move"

Full(c) == ~ Coalesces(c) /\ Len(commands) = Capacity

\* send, accepted.
Send(c) ==
  /\ ~ Closed /\ ~ Full(c)
  /\ commands' = IF Coalesces(c) THEN [commands EXCEPT ![Len(commands)] = c]
                 ELSE Append(commands, c)

\* Slip: a newer request replaces a forced one that the owner has not taken.
RequestPresentationReplacing(force) ==
  presentation' = IF force THEN "Forced" ELSE "Plain"

\* request_presentation: a forced request that was not taken stays forced.
RequestPresentation(force) ==
  presentation' = IF force \/ presentation = "Forced" THEN "Forced" ELSE "Plain"

\* publish: the newest frame and snapshot replace what the host has not taken.
Publish(newFrame, state) ==
  /\ frame' = (frame \/ newFrame)
  /\ published' = state
  /\ wakePending' = TRUE

\* set_status, and finish_native_bootstrap with its bundle.
SetStatus(s) == status' = s /\ wakePending' = TRUE

\* Slip: the wake stays armed although the host looked.
PollKeepingWake ==
  /\ frame' = FALSE /\ published' = NoState /\ bundle' = FALSE
  /\ UNCHANGED wakePending

\* poll: the host takes everything and may be woken again.
Poll ==
  /\ frame' = FALSE /\ published' = NoState /\ bundle' = FALSE
  /\ wakePending' = FALSE
===============================================================================
