------------------------------ MODULE InputEvents ------------------------------
(***************************************************************************)
(* From the host's devices to the guest's polls: key and button state, the  *)
(* event queue, automatic key repeat, the latched native-menu click, the    *)
(* low-memory mouse button, WaitNextEvent's sleep, and who owns the release *)
(* of a press that a modal dialog handled.                                   *)
(*                                                                          *)
(* The host injects between slices of guest execution; everything runs on   *)
(* one thread, so each handler is one action.  Time is a tick counter that  *)
(* wraps at TickSpan (2^32 in the code).                                     *)
(*                                                                          *)
(* A dialog that ModalDialog left keeps the clicks that hit its buttons      *)
(* until it is disposed of; that another window may cover it meanwhile is    *)
(* left out, and so are a filter's null events and the drawing of buttons.   *)
(***************************************************************************)
EXTENDS EventQueue

CONSTANTS
  Keys,          \* keys that repeat
  CapsLock,      \* the set of latching modifier keys: empty or one key
  Sessions,      \* the kinds of session looked at, see Session
  Threshold,     \* KeyThresh
  Rate,          \* KeyRepThresh
  TickSpan       \* number of values of the tick counter

\* What the user and the guest of a session do.
Session ==
  [keys      : SUBSET Keys,                 \* the user types these
   caps      : SUBSET CapsLock,
   mouse     : BOOLEAN,                     \* clicks and moves the mouse
   menu      : BOOLEAN,                     \* chooses from the host's menu bar
   dialogs   : BOOLEAN,                     \* the guest calls ModalDialog
   buttons   : BOOLEAN,                     \* clicks in a dialog that is left hit its buttons
   filter    : BOOLEAN,                     \* its filter procedure polls the mouse itself
   selective : BOOLEAN,                     \* it may take releases ahead of their presses
   masks     : SUBSET SUBSET Kinds,         \* it polls with these event masks
   systemMasks : SUBSET SUBSET Kinds,       \* it gives SysEvtMask these values
   sleeps    : SUBSET Nat,                  \* it passes these to WaitNextEvent
   room      : Nat]                         \* bound on queued events (unbounded in the code)

ASSUME InputAssumption ==
  /\ Sessions \subseteq Session /\ Threshold \in Nat /\ Rate \in Nat
  /\ TickSpan \in Nat
  /\ TickSpan > 2 * (Threshold + 1) /\ TickSpan > 2 * (Rate + 1)
  /\ Keys \cap CapsLock = {}
  /\ \A s \in Sessions : \* without a selective guest: both kinds of transition or neither
       /\ s.buttons => ~s.menu /\ ~s.filter /\ ~s.selective
       /\ \/ s.selective
          \/ \A mask \in s.masks : MouseKinds \subseteq mask \/ MouseKinds \cap mask = {}

NoKey   == "noKey"
Never   == TickSpan
NoRecord == "noRecord"

VARIABLES
  session,   \* which of the sessions this is
  tick,      \* the guest's tick counter
  em,        \* Event Manager state, see EventManager
  mbDown,    \* low-memory MBState reads "down"
  sysMask,   \* low-memory SysEvtMask
  asleep,    \* pending_wait_sleep_ticks and pending_wait_next_event_return
  draining,  \* inside service_wait_sleep_ticks' loop over ticks
  callback,  \* an interrupt callback is running
  modal,     \* "none" or the phase of ModalDialog's loop
  owned,     \* pending_modal_dialog_mouse_up
  held       \* the user's finger is on the button (not part of the program)

vars == <<session, tick, em, mbDown, sysMask, asleep, draining, callback, modal, owned, held>>

EventManager ==
  [queue    : Seq([what : Kinds, key : Keys \cup {NoKey}]),
   button   : BOOLEAN,                \* ProcessInputState::mouse_button
   down     : SUBSET (Keys \cup CapsLock),
   caps     : BOOLEAN,                \* the caps lock key is physically pressed
   repeat   : [key : Keys \cup {NoKey}, due : 0..TickSpan - 1],
   click    : BOOLEAN,                \* a native selection and its click are staged
   shown    : 0..TickSpan,            \* tick of the click's last presentation
   outside  : BOOLEAN,                \* the pointer is outside the caller's region
   launched : BOOLEAN,                \* the open-application event was claimed
   dialog   : {"gone", "left", "pressed"}, \* the dialog ModalDialog returned from, see Retained
   took     : BOOLEAN,                \* it took the event of the last Toolbox poll
   seen     : MouseKinds,             \* the last transition that left the queue
   since    : 0..Threshold + Rate,    \* ticks since the repeating key's last event
   first    : BOOLEAN,                \* that event was its keyDown
   paced    : BOOLEAN]                \* no repeat came early or for a key that is up

After(n) == (tick + n) % TickSpan
Reached(now, due) == (now - due) % TickSpan < TickSpan \div 2
NoRepeat == [key |-> NoKey, due |-> 0]

Event(what, key) == [what |-> what, key |-> key]
Posted(s, event) == [s EXCEPT !.queue = Append(@, event)]

\* The state without the i-th event.
Removed(s, i) ==
  [s EXCEPT !.queue = Keeping(@, DOMAIN @ \ {i}),
            !.seen = IF s.queue[i].what \in MouseKinds THEN s.queue[i].what ELSE @]

Room(s) == Len(s.queue) < session.room

\* At the bound a repeat waits.
RepeatDue(s, now) ==
  /\ Room(s) /\ s.repeat.key # NoKey /\ s.repeat.key \in s.down
  /\ Reached(now, s.repeat.due)

\* A repeat is posted; `since`, `first` and `paced` record when.
AutoKeyPosted(s) ==
  [Posted(s, Event("autoKey", s.repeat.key)) EXCEPT
     !.since = 0, !.first = FALSE,
     !.paced = @ /\ s.since >= (IF s.first THEN Threshold ELSE Rate) /\ s.repeat.key \in s.down]

\* Slip: the repeat stays due after it was posted.
WithAutoKeyAgain(s, now, mask) ==
  IF "autoKey" \notin mask \/ ~RepeatDue(s, now) THEN s ELSE AutoKeyPosted(s)

\* The repeating key's event when it is due, and the end of a repeat whose key is up.
WithAutoKey(s, now, mask) ==
  IF "autoKey" \notin mask THEN s
  ELSE IF s.repeat.key \notin s.down THEN [s EXCEPT !.repeat = NoRepeat]
  ELSE IF ~RepeatDue(s, now) THEN s
  ELSE AutoKeyPosted([s EXCEPT !.repeat.due = (now + Rate) % TickSpan])

\* What every poll of the Toolbox does before it selects.
BeforePoll(s, mask) ==
  LET launch == IF "highLevel" \in mask /\ ~s.launched
                THEN [s EXCEPT !.queue = <<Event("highLevel", NoKey)>> \o @, !.launched = TRUE]
                ELSE s
  IN  IF "autoKey" \in mask THEN WithAutoKey(launch, tick, sysMask) ELSE launch

ClickAvailable(s, mask) == s.click /\ s.shown # tick /\ "mouseDown" \in mask

\* The latched click against the queued event at i: a better class first; a tie
\* goes to the queue until the click has been presented once.
ClickWins(s, i) ==
  \/ Priority("mouseDown") < Priority(s.queue[i].what)
  \/ Priority("mouseDown") = Priority(s.queue[i].what) /\ s.shown # Never

\* Taking the i-th event; a release also clears the button.
Dequeued(s, i) ==
  LET t == Removed(s, i)
  IN  IF s.queue[i].what = "mouseUp" THEN [t EXCEPT !.button = FALSE] ELSE t

ShowClick(s) == [s EXCEPT !.shown = tick]

\* A dialog that stays on the screen after ModalDialog returned takes the presses the
\* guest polls for and the release of a press it took
\* (consume_retained_modal_dialog_event).
Retains(s, i) ==
  \/ s.queue[i].what = "mouseDown" /\ s.dialog # "gone" /\ modal = "none"
  \/ s.queue[i].what = "mouseUp" /\ s.dialog = "pressed"

\* Such a release closes the dialog if the click hit a button; no release of a press
\* ModalDialog handled is awaited then, since none is queued while one is.
Retained(s, i) ==
  [Removed(s, i) EXCEPT
     !.took = TRUE,
     !.dialog = IF s.queue[i].what = "mouseDown" THEN "pressed"
                ELSE IF session.buttons THEN "gone" ELSE "left"]

\* dequeue_toolbox_event: the state after it and whether it returned an event.
ToolboxPoll(s0, mask) ==
  LET s == [BeforePoll(s0, mask) EXCEPT !.took = FALSE]
      i == ToolboxMatch(s.queue, mask)
  IN  IF ClickAvailable(s, mask) /\ (i = 0 \/ ClickWins(s, i))
      THEN [state |-> ShowClick(s), got |-> TRUE]
      ELSE IF i # 0 /\ Retains(s, i) THEN [state |-> Retained(s, i), got |-> FALSE]
      ELSE IF i # 0 THEN [state |-> Dequeued(s, i), got |-> TRUE]
      ELSE [state |-> s, got |-> FALSE]

\* dequeue_event: GetOSEvent.
OSPoll(s0, mask) ==
  LET s == IF "autoKey" \in mask THEN WithAutoKey(s0, tick, sysMask) ELSE s0
      i == OSMatch(s.queue, mask)
  IN  IF ClickAvailable(s, mask) /\ (i = 0 \/ s.shown # Never) THEN ShowClick(s)
      ELSE IF i # 0 THEN Dequeued(s, i) ELSE s

MouseMoved(s, mask, region) == region /\ s.outside /\ "osEvt" \in mask

(***************************************************************************)
(* Sleeping in WaitNextEvent.                                                *)
(***************************************************************************)
Awake == [left |-> 0, mask |-> {}, region |-> FALSE, record |-> FALSE]

IsAsleep == asleep.left > 0

\* deliver_pending_wait_next_event_if_available in state s: the new state, the
\* sleep that is left and whether the wait is over.
Delivery(s) ==
  IF ~asleep.record
  THEN IF s.queue # << >> \/ s.click
       THEN [state |-> s, sleep |-> Awake, over |-> TRUE]
       ELSE [state |-> s, sleep |-> asleep, over |-> FALSE]
  ELSE LET poll == ToolboxPoll(s, asleep.mask)
           got  == poll.got \/ MouseMoved(poll.state, asleep.mask, asleep.region)
       IN  [state |-> poll.state, sleep |-> IF got THEN Awake ELSE asleep, over |-> got]

\* The end of every injection: MBState follows the button and a sleeping guest is
\* given the event at once (a callback delays that to the next slice).
Inject(s, button) ==
  IF IsAsleep /\ asleep.record /\ ~callback
  THEN LET d == Delivery(s)
       IN  /\ em' = d.state /\ asleep' = d.sleep
           /\ mbDown' = IF d.over THEN d.state.button ELSE button
  ELSE em' = s /\ asleep' = asleep /\ mbDown' = button

Init ==
  /\ session \in Sessions
  /\ tick = 0
  /\ em = [queue |-> << >>, button |-> FALSE, down |-> {}, caps |-> FALSE,
           repeat |-> NoRepeat, click |-> FALSE, shown |-> Never,
           outside |-> FALSE, launched |-> FALSE, dialog |-> "gone", took |-> FALSE,
           seen |-> "mouseUp", since |-> 0, first |-> TRUE, paced |-> TRUE]
  /\ mbDown = FALSE /\ sysMask = Kinds \ {"keyUp"} /\ asleep = Awake
  /\ draining = FALSE /\ callback = FALSE /\ modal = "none"
  /\ owned = FALSE /\ held = FALSE

(***************************************************************************)
(* The host.                                                                 *)
(***************************************************************************)
HostTurn == ~draining

MoveMouse ==
  /\ HostTurn /\ session.mouse
  /\ Inject([em EXCEPT !.outside = ~@], mbDown)
  /\ UNCHANGED <<tick, sysMask, draining, callback, modal, owned, held>>

PushMouseDown ==
  /\ HostTurn /\ session.mouse /\ ~held /\ Room(em)
  /\ held' = TRUE
  /\ Inject(Posted([em EXCEPT !.button = TRUE], Event("mouseDown", NoKey)), TRUE)
  /\ UNCHANGED <<tick, sysMask, draining, callback, modal, owned>>

\* Slip: the owner of the release is not reset by it.
PushMouseUpStillOwned ==
  /\ HostTurn /\ session.mouse /\ held /\ Room(em)
  /\ held' = FALSE
  /\ IF owned
     THEN Inject([em EXCEPT !.button = FALSE, !.seen = "mouseUp"], FALSE)
     ELSE Inject(Posted([em EXCEPT !.button = FALSE], Event("mouseUp", NoKey)), FALSE)
  /\ UNCHANGED <<tick, sysMask, draining, callback, modal, owned>>

\* A release that belongs to a dialog's press is consumed here.
PushMouseUp ==
  /\ HostTurn /\ session.mouse /\ held /\ Room(em)
  /\ held' = FALSE
  /\ owned' = FALSE
  /\ IF owned
     THEN Inject([em EXCEPT !.button = FALSE, !.seen = "mouseUp"], FALSE)
     ELSE Inject(Posted([em EXCEPT !.button = FALSE], Event("mouseUp", NoKey)), FALSE)
  /\ UNCHANGED <<tick, sysMask, draining, callback, modal>>

\* A key that is down already is the host's own repeat and ignored.
PushKeyDown(k) ==
  /\ HostTurn /\ k \in session.keys \ em.down /\ Room(em)
  /\ Inject(Posted([em EXCEPT !.down = @ \cup {k},
                              !.repeat = [key |-> k, due |-> After(Threshold)],
                              !.since = 0, !.first = TRUE],
                   Event("keyDown", k)), mbDown)
  /\ UNCHANGED <<tick, sysMask, draining, callback, modal, owned, held>>

\* Caps Lock toggles its bit on each physical press and posts nothing.
PushCapsDown(k) ==
  /\ HostTurn /\ k \in session.caps /\ ~em.caps
  /\ Inject([em EXCEPT !.caps = TRUE,
                       !.down = IF k \in @ THEN @ \ {k} ELSE @ \cup {k}], mbDown)
  /\ UNCHANGED <<tick, sysMask, draining, callback, modal, owned, held>>

PushCapsUp(k) ==
  /\ HostTurn /\ k \in session.caps /\ em.caps
  /\ Inject([em EXCEPT !.caps = FALSE], mbDown)
  /\ UNCHANGED <<tick, sysMask, draining, callback, modal, owned, held>>

\* The key map without k, and the repeat ended if it was k's.
Released(s, k) ==
  [s EXCEPT !.down = @ \ {k},
            !.repeat = IF @.key = k THEN NoRepeat ELSE @]

PushKeyUp(k) ==
  /\ HostTurn /\ k \in Keys \cap em.down /\ Room(em)
  /\ LET s == Released(em, k)
     IN  Inject(IF "keyUp" \in sysMask THEN Posted(s, Event("keyUp", k)) ELSE s, mbDown)
  /\ UNCHANGED <<tick, sysMask, draining, callback, modal, owned, held>>

\* A choice in the host's menu bar latches a click; choosing the same item again
\* while it is latched changes nothing, another item starts over.
SelectMenuItem ==
  /\ HostTurn /\ session.menu
  /\ \E same \in BOOLEAN :
       /\ same => em.click
       /\ Inject(IF same THEN em ELSE [em EXCEPT !.click = TRUE, !.shown = Never], mbDown)
  /\ UNCHANGED <<tick, sysMask, draining, callback, modal, owned, held>>

(***************************************************************************)
(* Time.                                                                     *)
(***************************************************************************)
Ticked(s) ==
  WithAutoKey([s EXCEPT !.since = IF @ < Threshold + Rate THEN @ + 1 ELSE @],
              After(1), sysMask)

\* The part of a tick both clocks share; a timer or VBL task may start.
AdvanceTick ==
  /\ tick' = After(1)
  /\ em' = Ticked(em)
  /\ mbDown' = (em.button \/ UnmatchedDown(em.queue))
  /\ callback' \in BOOLEAN

\* A tick while the guest executes.
Tick ==
  /\ ~callback /\ ~draining /\ ~IsAsleep
  /\ AdvanceTick
  /\ UNCHANGED <<sysMask, asleep, draining, modal, owned, held>>

\* Slip: the wait is served without looking for an event first.
ServeSleepUnseen ==
  /\ IsAsleep /\ ~callback /\ ~draining
  /\ draining' = TRUE
  /\ UNCHANGED <<tick, em, mbDown, sysMask, asleep, callback, modal, owned, held>>

\* A slice that finds the guest asleep: deliver, or let its ticks pass; inside a
\* modal dialog's loop the rest of the sleep is dropped.
ServeSleep ==
  /\ IsAsleep /\ ~callback /\ ~draining
  /\ LET d == Delivery(em)
     IN  /\ em' = d.state
         /\ asleep' = IF modal = "none" THEN d.sleep ELSE Awake
         /\ draining' = (~d.over /\ modal = "none")
         /\ mbDown' = IF d.over /\ asleep.record THEN d.state.button ELSE mbDown
  /\ UNCHANGED <<tick, sysMask, callback, modal, owned, held>>

\* Slip: the tick a callback interrupts is not counted.
SleepTickAgain ==
  /\ draining /\ IsAsleep
  /\ AdvanceTick
  /\ LET left == IF callback' THEN asleep.left ELSE asleep.left - 1
     IN  /\ draining' = (left > 0 /\ ~callback')
         /\ asleep' = IF left = 0 THEN Awake ELSE [asleep EXCEPT !.left = left]
  /\ UNCHANGED <<sysMask, modal, owned, held>>

\* One tick of the sleep; a callback ends the loop and, unless the cap is reached
\* in the same tick, drops the record.
SleepTick ==
  /\ draining /\ IsAsleep
  /\ AdvanceTick
  /\ LET left == asleep.left - 1
     IN  IF callback'
         THEN /\ draining' = FALSE
              /\ asleep' \in IF left = 0 THEN {Awake}
                             ELSE {[Awake EXCEPT !.left = left], [asleep EXCEPT !.left = left]}
         ELSE /\ draining' = (left > 0)
              /\ asleep' = IF left = 0 THEN Awake ELSE [asleep EXCEPT !.left = left]
  /\ UNCHANGED <<sysMask, modal, owned, held>>

\* The frame's tick cap is reached: the next frame continues the sleep.
SleepCapped ==
  /\ draining /\ IsAsleep /\ draining' = FALSE
  /\ UNCHANGED <<tick, em, mbDown, sysMask, asleep, callback, modal, owned, held>>

CallbackReturns ==
  /\ callback /\ callback' = FALSE
  /\ UNCHANGED <<tick, em, mbDown, sysMask, asleep, draining, modal, owned, held>>

(***************************************************************************)
(* The guest's calls.  It runs while it is not asleep, not in a modal       *)
(* dialog's loop (except that dialog's filter) and not interrupted.          *)
(***************************************************************************)
GuestRuns == ~IsAsleep /\ ~callback /\ modal \in {"none", "filter"}

GetNextEvent(mask) ==
  /\ GuestRuns
  /\ LET poll == ToolboxPoll(em, mask)
     IN  em' = poll.state /\ mbDown' = poll.state.button
  /\ UNCHANGED <<tick, sysMask, asleep, draining, callback, modal, owned, held>>

\* EventAvail looks without taking but posts what is due and shows nothing.
EventAvail(mask) ==
  /\ GuestRuns
  /\ em' = BeforePoll(em, mask) /\ mbDown' = em.button
  /\ UNCHANGED <<tick, sysMask, asleep, draining, callback, modal, owned, held>>

WaitNextEvent(mask, ticks, region) ==
  /\ GuestRuns
  /\ LET poll == ToolboxPoll(em, mask)
         got  == poll.got \/ MouseMoved(poll.state, mask, region)
     IN  /\ em' = poll.state /\ mbDown' = poll.state.button
         /\ asleep' = IF got \/ ticks = 0 THEN Awake
                      ELSE [left |-> ticks, mask |-> mask, region |-> region, record |-> TRUE]
  /\ UNCHANGED <<tick, sysMask, draining, callback, modal, owned, held>>

GetOSEvent(mask) ==
  /\ GuestRuns
  /\ em' = OSPoll(em, mask) /\ mbDown' = em'.button
  /\ UNCHANGED <<tick, sysMask, asleep, draining, callback, modal, owned, held>>

\* The flushed prefix takes its transitions with it.
FlushEvents(mask, stop) ==
  /\ GuestRuns
  /\ LET gone  == FlushedPositions(em.queue, mask, stop)
         mouse == gone \cap Positions(em.queue, MouseKinds)
     IN  em' = [em EXCEPT !.queue = Flushed(@, mask, stop),
                          !.seen = IF mouse = {} THEN @
                                   ELSE em.queue[Latest(mouse)].what]
  /\ UNCHANGED <<tick, mbDown, sysMask, asleep, draining, callback, modal, owned, held>>

PostEvent ==
  /\ (GuestRuns \/ callback) /\ "osEvt" \in sysMask /\ Room(em)
  /\ em' = Posted(em, Event("osEvt", NoKey))
  /\ UNCHANGED <<tick, mbDown, sysMask, asleep, draining, callback, modal, owned, held>>

SetEventMask(mask) ==
  /\ GuestRuns /\ sysMask' = mask
  /\ UNCHANGED <<tick, em, mbDown, asleep, draining, callback, modal, owned, held>>

\* MenuSelect with a staged native selection; it also drops the first release.
MenuSelect ==
  /\ GuestRuns /\ em.click
  /\ LET s == [em EXCEPT !.click = FALSE, !.shown = Never]
         ups == Positions(s.queue, {"mouseUp"})
     IN  em' = IF ups = {} THEN s ELSE Removed(s, Earliest(ups))
  /\ UNCHANGED <<tick, mbDown, sysMask, asleep, draining, callback, modal, owned, held>>

Ups == Positions(em.queue, {"mouseUp"})
FirstUp == Earliest(Ups)

\* WaitMouseUp with the original press over, and the end of a manager's tracking
\* loop, take the first queued release.
TakeRelease ==
  /\ GuestRuns /\ Ups # {}
  /\ session.selective \/ em.seen = "mouseDown"
  /\ em' = Dequeued(em, FirstUp)
  /\ UNCHANGED <<tick, mbDown, sysMask, asleep, draining, callback, modal, owned, held>>

(***************************************************************************)
(* ModalDialog.                                                              *)
(***************************************************************************)
OpenDialog ==
  /\ GuestRuns /\ session.dialogs /\ modal = "none"
  /\ modal' = "idle"
  /\ em' = [em EXCEPT !.dialog = IF @ = "gone" THEN "left" ELSE @]
  /\ UNCHANGED <<tick, mbDown, sysMask, asleep, draining, callback, owned, held>>

MousePositions(s) == Positions(s.queue, MouseKinds)

\* The release of a press the dialog handled: taken if it is the next transition
\* queued, else still to come.
ConsumeOrRetainRelease(s) ==
  LET next == Earliest(MousePositions(s))
  IN  IF MousePositions(s) # {} /\ s.queue[next].what = "mouseUp"
      THEN [state |-> Removed(s, next), pending |-> FALSE]
      ELSE [state |-> s, pending |-> TRUE]

Actionable == {"mouseDown", "mouseUp", "keyDown"}

\* What a press that was taken from the queue may do: nothing active is under the
\* pointer; a button is tracked while the mouse is down, else flashed; a popup menu is
\* tracked; an item the application draws is reported while the mouse is down and its
\* release left to the application; any other item is reported at once.
PressOutcomes(s) ==
  LET Outcome(t, phase, pending) == [state |-> t, modal |-> phase, owned |-> pending]
      release == ConsumeOrRetainRelease(s)
  IN  {Outcome(s, "idle", owned),
       Outcome(s, IF s.button THEN "button" ELSE "none", owned),
       Outcome(s, "popup", owned),
       Outcome(release.state, "none", release.pending)}
      \cup (IF s.button THEN {Outcome(s, "none", owned)} ELSE {})

\* The dialog's loop drops events up to the first it acts on and takes that one.
ModalEvent ==
  /\ modal = "idle" /\ ~callback /\ ~session.filter /\ em.queue # << >>
  /\ LET acts  == Positions(em.queue, Actionable)
         first == Earliest(acts)
         taken == [Removed(em, first) EXCEPT
                     !.queue = Keeping(em.queue, (first + 1)..Len(em.queue))]
     IN  IF acts = {}
         THEN /\ em' = [em EXCEPT !.queue = << >>]
              /\ UNCHANGED <<modal, owned>>
         ELSE CASE em.queue[first].what = "mouseDown" ->
                   \E o \in PressOutcomes(taken) :
                     em' = o.state /\ modal' = o.modal /\ owned' = o.owned
                [] em.queue[first].what = "keyDown" ->
                      /\ em' = taken /\ modal' \in {"idle", "none"} /\ UNCHANGED owned
                [] OTHER -> em' = taken /\ UNCHANGED <<modal, owned>>
  /\ UNCHANGED <<tick, mbDown, sysMask, asleep, draining, callback, held>>

\* With a filter procedure the next event is handed to it first.
FilterStarts ==
  /\ modal = "idle" /\ ~callback /\ session.filter
  /\ LET presses == Positions(em.queue, {"mouseDown"})
         acts == Positions(em.queue, Actionable \cup {"keyUp"})
         first == Earliest(acts)
     IN  /\ acts # {}
         /\ em' = Removed(em, first)
         /\ modal' = IF first \in presses THEN "filter" ELSE "idle"
  /\ UNCHANGED <<tick, mbDown, sysMask, asleep, draining, callback, owned, held>>

\* The filter handled the press it was given: ModalDialog returns.
FilterHandles ==
  /\ modal = "filter" /\ ~callback /\ ~IsAsleep
  /\ em' = ConsumeOrRetainRelease(em).state
  /\ owned' = ConsumeOrRetainRelease(em).pending
  /\ modal' = "none"
  /\ UNCHANGED <<tick, mbDown, sysMask, asleep, draining, callback, held>>

\* The filter declined it: the dialog handles the press as if it had no filter.
FilterDeclines ==
  /\ modal = "filter" /\ ~callback /\ ~IsAsleep
  /\ \E o \in PressOutcomes(em) : em' = o.state /\ modal' = o.modal /\ owned' = o.owned
  /\ UNCHANGED <<tick, mbDown, sysMask, asleep, draining, callback, held>>

\* Tracking ends when the button state is up; the dialog may return.
TrackButton ==
  /\ modal = "button" /\ ~callback /\ ~em.button
  /\ em' = ConsumeOrRetainRelease(em).state
  /\ owned' = ConsumeOrRetainRelease(em).pending
  /\ modal' \in {"idle", "none"}
  /\ UNCHANGED <<tick, mbDown, sysMask, asleep, draining, callback, held>>

\* A popup menu is tracked to the release, which is taken if it is the next transition
\* queued and else left to whoever polls for it.
TrackPopup ==
  /\ modal = "popup" /\ ~callback /\ ~em.button
  /\ em' = ConsumeOrRetainRelease(em).state
  /\ modal' \in {"idle", "none"}
  /\ UNCHANGED <<tick, mbDown, sysMask, asleep, draining, callback, owned, held>>

\* Disposing of the front dialog ends the press it owns; the down event is
\* discarded if one like it is queued.
DisposeDialog ==
  /\ GuestRuns /\ modal = "none" /\ em.dialog # "gone"
  /\ LET closed == [em EXCEPT !.dialog = "gone"]
         downs  == Positions(em.queue, {"mouseDown"})
     IN  IF owned
         THEN /\ \/ /\ downs # {}
                    /\ em' = [closed EXCEPT !.queue = Keeping(@, DOMAIN @ \ {Latest(downs)}),
                                             !.button = FALSE]
                 \/ em' = [closed EXCEPT !.button = FALSE]
              /\ mbDown' = FALSE
         ELSE em' = closed /\ UNCHANGED mbDown
  /\ UNCHANGED <<tick, sysMask, asleep, draining, callback, modal, owned, held>>

Host ==
  \/ MoveMouse \/ PushMouseDown \/ PushMouseUp \/ SelectMenuItem
  \/ \E k \in Keys : PushKeyDown(k) \/ PushKeyUp(k)
  \/ \E k \in CapsLock : PushCapsDown(k) \/ PushCapsUp(k)

Guest ==
  \/ \E mask \in session.masks :
       \/ GetNextEvent(mask) \/ EventAvail(mask) \/ GetOSEvent(mask)
       \/ \E ticks \in session.sleeps, region \in BOOLEAN : WaitNextEvent(mask, ticks, region)
       \/ \E stop \in {{}, KeyKinds} : FlushEvents(mask, stop)
  \/ PostEvent \/ MenuSelect \/ TakeRelease
  \/ \E mask \in session.systemMasks : SetEventMask(mask)
  \/ OpenDialog \/ ModalEvent \/ FilterStarts \/ FilterHandles \/ FilterDeclines
  \/ TrackButton \/ TrackPopup \/ DisposeDialog

Clock == Tick \/ ServeSleep \/ SleepTick \/ SleepCapped \/ CallbackReturns

Next == (Host \/ Guest \/ Clock) /\ UNCHANGED session

Spec == Init /\ [][Next]_vars

\* Ticks pass, sleeps are served within their frames, and callbacks return.
Fairness ==
  /\ WF_vars(Tick /\ UNCHANGED session) /\ WF_vars(ServeSleep /\ UNCHANGED session)
  /\ SF_vars(SleepTick /\ UNCHANGED session) /\ WF_vars(CallbackReturns /\ UNCHANGED session)

LiveSpec == Spec /\ Fairness

-----------------------------------------------------------------------------
(***************************************************************************)
(* Properties.                                                               *)
(***************************************************************************)
\* Every variable has its type.
InputTypeOK ==
  /\ session \in Sessions
  /\ tick \in 0..TickSpan - 1 /\ em \in EventManager
  /\ mbDown \in BOOLEAN /\ sysMask \in SUBSET Kinds
  /\ asleep \in [left : Nat, mask : SUBSET Kinds, region : BOOLEAN, record : BOOLEAN]
  /\ draining \in BOOLEAN /\ callback \in BOOLEAN
  /\ modal \in {"none", "idle", "button", "popup", "filter"}
  /\ owned \in BOOLEAN /\ held \in BOOLEAN

\* A key repeats only while it is down, whatever other keys were pressed and
\* released meanwhile.
RepeatNeedsKey == em.repeat.key # NoKey => em.repeat.key \in em.down

\* No automatic key comes before its threshold or rate has passed, however often
\* ticks and polls look whether it is due, or for a key that was released.
AutoKeyPaced == em.paced

\* A dialog keeps the ownership of a release only while the button is held:
\* "event masks or FlushEvents cannot leave stale ownership behind to swallow a
\* later, unrelated click" (trap/dispatch.rs:5958).
OwnedReleasePending == owned => held

\* What the guest has taken and what is still queued alternate between press and
\* release: no consumer of a click (dialog, tracking loop, flush, injection) takes a
\* transition of another one.
TransitionsAlternate ==
  LET mouse == Positions(em.queue, MouseKinds)
  IN  \A i \in mouse :
        LET before == {j \in mouse : j < i}
        IN  em.queue[i].what # IF before = {} THEN em.seen ELSE em.queue[Latest(before)].what

\* The guest's own code and the host's menu bar leave clicks to the Toolbox.
LeavesClicksAlone == ~session.menu /\ ~session.filter /\ ~session.selective

\* In such a session every consumer of clicks keeps the pairs together: a press and its
\* release alternate, and a dialog owns no release that has come already.
ClicksStayPaired == LeavesClicksAlone => OwnedReleasePending /\ TransitionsAlternate

\* What the Button trap answers.
ButtonTrap == mbDown \/ em.button

\* The guest never sees a press that is over and whose release it could see too:
\* "paired mouseDown/mouseUp events must not create a phantom press after release"
\* (trap/toolbox.rs:6135).
NoPhantomPress == LeavesClicksAlone => (ButtonTrap => held)

\* The same for every guest.
PressIsHeld == ButtonTrap => held

\* Clearing the button when a release is taken is "harmless"
\* (trap/event.rs:862): while the user holds the button outside of a dialog's
\* disposal, the guest's state says so.
TakingReleaseIsHarmless == held /\ ~owned => em.button

\* No tick passes over a sleeping guest while an event it waits for is queued,
\* except one posted by an earlier tick of the same loop or queued behind one that a
\* dialog left on the screen took.
NoEventSleptThrough ==
  [][tick' # tick /\ IsAsleep /\ asleep.record /\ ~em.took
       => ToolboxMatch(em.queue, asleep.mask \ {"autoKey"}) = 0]_vars

\* The click made up for a host menu choice never overtakes clicks and keys queued
\* when it is first shown (to a guest whose masks select them).
MenuClickWaits ==
  [][em.shown = Never /\ em'.shown # Never
       => Positions(em'.queue, LowLevel \ {"autoKey"}) = {}]_vars

\* A sleep ends, whatever callbacks interrupt it.
SleepEnds == IsAsleep ~> ~IsAsleep
=============================================================================
