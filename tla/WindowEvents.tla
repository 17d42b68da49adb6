----------------------------- MODULE WindowEvents -----------------------------
(***************************************************************************)
(* The 68K Window Manager's promises to an application's event loop: which  *)
(* window is active, which windows need drawing, and the activate and       *)
(* update events that say so.  A window's update region is abstracted to    *)
(* whether it is empty; which windows a moved, hidden or closed window      *)
(* exposes is the environment's choice (`exposed`).  Dialogs are windows    *)
(* that remember what was active when they were made and hand it back.      *)
(*                                                                          *)
(* Every trap runs to its end before the application continues, so each is  *)
(* one action; an operator here is a method that changes the manager `wm`.  *)
(***************************************************************************)
EXTENDS Naturals, SequencesExt, Subsequences

CONSTANTS
  Documents, Dialogs,  \* addresses of window and dialog records
  None,                \* NIL
  MaxOpen,             \* bound on windows open at a time
  MaxRemembered,       \* bound on window_stack (unbounded in the code)
  PairedDialogs        \* the application closes no window that a dialog remembers

Windows == Documents \cup Dialogs

ASSUME WindowsAssumption ==
  /\ Documents \cap Dialogs = {} /\ None \notin Windows
  /\ MaxOpen \in Nat /\ MaxRemembered \in Nat
  /\ PairedDialogs \in BOOLEAN

VARIABLES
  wm,          \* the manager, see WindowManager
  remembered,  \* window_stack: what was active when each dialog was made
  entered      \* dialog_modal_entered: dialogs ModalDialog has run for

vars == <<wm, remembered, entered>>

Polarity == {"activate", "deactivate"}
Kinds    == Polarity \cup {"update"}
Events   == [what : Kinds, message : Windows]
Event(what, w) == [what |-> what, message |-> w]

WindowManager ==
  [list    : Seq(Windows),             \* WindowList, front to back
   visible : SUBSET Windows,
   dirty   : SUBSET Windows,           \* update region not empty
   front   : Windows \cup {None},      \* front_window: the active window
   queue   : Seq(Events),
   flushed : SUBSET Windows,           \* flushed_update_events
   slot    : [Polarity -> Windows \cup {None}],  \* CurActivate, CurDeactive
   told    : SUBSET Windows,           \* update event returned; no BeginUpdate or new marker since
   missed  : SUBSET Windows]           \* the same, but ModalDialog took it for its dialog's

IsOpen(m, w) == Contains(m.list, w)
Open(m)  == {w \in Windows : IsOpen(m, w)}
FirstOr(s, default) == IF s = <<>> THEN default ELSE Head(s)
FirstVisible(m) == FirstOr(Among(m.list, m.visible), None)
FrontForInternalState(m) ==
  IF FirstVisible(m) # None THEN FirstVisible(m) ELSE FirstOr(m.list, None)
Position(m, w) == CHOOSE i \in DOMAIN m.list : m.list[i] = w
VisibleBehind(m, w) ==
  {m.list[i] : i \in {j \in DOMAIN m.list : IsOpen(m, w) /\ j > Position(m, w)}} \cap m.visible
VisibleAhead(m, w) ==
  {m.list[i] : i \in {j \in DOMAIN m.list : j < Position(m, w)}} \cap m.visible

TrackFront(m, w) == [m EXCEPT !.list = <<w>> \o Without(@, w)]
MoveBehind(m, w, behind) ==
  LET rest == Without(m.list, w)
      at   == {i \in DOMAIN rest : rest[i] = behind}
  IN [m EXCEPT !.list = IF at = {} THEN Append(rest, w)
                        ELSE InsertAt(rest, 1 + CHOOSE i \in at : TRUE, w)]

-----------------------------------------------------------------------------
(* Events. *)

\* One pending event of each polarity: a later one replaces it.
QueueActivation(m, what, w) ==
  IF w = None THEN m
  ELSE [m EXCEPT !.queue = Append(Among(@, {e \in Events : e.what # what}), Event(what, w)),
                 !.slot[what] = w]

\* The switch both queue: the old window first.
SwitchEvents(m, old, new) ==
  QueueActivation(QueueActivation(m, "deactivate", old), "activate", new)

Marked(m, w) == Contains(m.queue, Event("update", w))
\* A new marker means a new update event is due.
QueueUpdate(m, w) ==
  IF Marked(m, w) \/ w \in m.flushed THEN m
  ELSE [m EXCEPT !.queue = Append(@, Event("update", w)),
                 !.told = @ \ {w}, !.missed = @ \ {w}]

ClearUpdates(m, w) ==
  [m EXCEPT !.queue = Without(@, Event("update", w)),
            !.flushed = @ \ {w}, !.told = @ \ {w}, !.missed = @ \ {w}]

\* An emptied update region takes its markers back.
Repaired(m, w) == [ClearUpdates(m, w) EXCEPT !.dirty = @ \ {w}]
Invalidate(m, w) == [QueueUpdate(m, w) EXCEPT !.dirty = @ \cup {w}]
InvalidateEach(m, ws) ==
  LET fresh == {w \in ws \cap Open(m) : ~Marked(m, w) /\ w \notin m.flushed}
      due   == Among(m.list, fresh)
  IN [m EXCEPT !.queue = @ \o [i \in 1..Len(due) |-> Event("update", due[i])],
               !.told = @ \ fresh, !.missed = @ \ fresh,
               !.dirty = @ \cup (ws \cap Open(m))]

\* Revealing a window makes its whole content dirty.
Reveal(m, w) == Invalidate([m EXCEPT !.visible = @ \cup {w}], w)

-----------------------------------------------------------------------------
(* Activation. *)

ActivateAsFront(m, w) ==
  IF w = m.front THEN Invalidate(TrackFront(m, w), w)
  ELSE Invalidate([TrackFront(SwitchEvents(m, m.front, w), w) EXCEPT !.front = w], w)

ActivateCreated(m, w, old) ==
  IF w = old THEN m ELSE [SwitchEvents(m, old, w) EXCEPT !.front = w]

\* init_graf_window and init_cgraf_window
MakeWindow(m, w, shown) ==
  LET m1 == TrackFront([m EXCEPT !.visible = IF shown THEN @ \cup {w} ELSE @ \ {w},
                                 !.dirty = IF shown THEN @ \cup {w} ELSE @ \ {w},
                                 !.front = w], w)
  IN IF shown THEN QueueUpdate(m1, w) ELSE m1

\* `behind` is "first" for (WindowPtr)-1, None for the back, or a window.
ApplyBehind(m, w, behind, exposed) ==
  IF behind = "first" THEN m
  ELSE LET m1 == MoveBehind(m, w, behind)
       IN InvalidateEach([m1 EXCEPT !.front = FrontForInternalState(m1)],
                         exposed \cap VisibleAhead(m1, w))

\* Slip: pending activation events keep naming the removed window.
UntrackKeepingEvents(m, w) ==
  LET m1 == [ClearUpdates(m, w) EXCEPT !.list = Without(@, w), !.visible = @ \ {w}]
  IN IF m.front = w THEN [m1 EXCEPT !.front = FrontForInternalState(m1)] ELSE m1
Untrack(m, w) ==
  LET m1 == [ClearUpdates(m, w) EXCEPT
               !.queue = Among(@, {e \in Events : e.message # w}),
               !.slot  = [p \in Polarity |-> IF @[p] = w THEN None ELSE @[p]],
               !.list  = Without(@, w), !.visible = @ \ {w}, !.dirty = @ \ {w}]
  IN IF m.front = w THEN [m1 EXCEPT !.front = FrontForInternalState(m1)] ELSE m1

Init ==
  /\ wm = [list |-> <<>>, visible |-> {}, dirty |-> {}, front |-> None, queue |-> <<>>,
           flushed |-> {}, slot |-> [p \in Polarity |-> None], told |-> {}, missed |-> {}]
  /\ remembered = <<>> /\ entered = {}

Becomes(m) == wm' = m /\ UNCHANGED <<remembered, entered>>

-----------------------------------------------------------------------------
(* Traps of the Window Manager. *)

Behinds == {"first", None} \cup Windows

NewWindow(w, shown, behind, exposed) ==
  /\ ~IsOpen(wm, w) /\ Len(wm.list) < MaxOpen
  /\ LET old  == wm.front
         made == ApplyBehind(MakeWindow(wm, w, shown), w, behind, exposed)
     IN Becomes(
          IF behind = "first" \/ (shown /\ old = None /\ made.front = w)
          THEN IF shown THEN ActivateCreated(made, w, old) ELSE [made EXCEPT !.front = old]
          ELSE made)

\* An application that keeps a dialog's remembered window open.
MayClose(w) == PairedDialogs => ~Contains(remembered, w)

\* CloseWindow and DisposeWindow
CloseWindow(w, exposed) ==
  /\ IsOpen(wm, w) /\ MayClose(w)
  /\ LET gone == InvalidateEach(Untrack(wm, w), exposed \cap VisibleBehind(wm, w))
     IN Becomes(IF wm.front = w THEN QueueActivation(gone, "activate", gone.front) ELSE gone)

SelectWindow(w) == IsOpen(wm, w) /\ Becomes(ActivateAsFront(wm, w))

ShowWindow(w) ==
  /\ IsOpen(wm, w) /\ w \notin wm.visible
  /\ LET active == IF Head(wm.list) = w
                   THEN [QueueActivation(wm, "activate", w) EXCEPT !.front = w] ELSE wm
     IN Becomes(Reveal(active, w))

HideWindow(w, exposed) ==
  /\ IsOpen(wm, w)
  /\ LET hidden == ClearUpdates([wm EXCEPT !.visible = @ \ {w}], w)
         next   == FirstVisible(hidden)
         active == IF wm.front # w THEN hidden
                   ELSE IF next # None THEN ActivateAsFront(hidden, next)
                   ELSE [hidden EXCEPT !.front = None]
     IN Becomes(IF w \in wm.visible
                THEN InvalidateEach(active, exposed \cap VisibleBehind(wm, w)) ELSE hidden)

\* ShowHide: visibility without activation.
ShowOnly(w) ==
  /\ IsOpen(wm, w)
  /\ LET shown == [wm EXCEPT !.visible = @ \cup {w}]
     IN Becomes(Reveal(IF wm.front \in shown.visible THEN shown
                       ELSE [shown EXCEPT !.front = FrontForInternalState(shown)], w))
HideOnly(w, exposed) ==
  /\ IsOpen(wm, w)
  /\ LET hidden == ClearUpdates([wm EXCEPT !.visible = @ \ {w}], w)
     IN Becomes(IF w \in wm.visible
                THEN InvalidateEach(hidden, exposed \cap VisibleBehind(wm, w)) ELSE hidden)

BringToFront(w) == IsOpen(wm, w) /\ Becomes(Invalidate(TrackFront(wm, w), w))

SendBehind(w, behind, exposed) ==
  /\ IsOpen(wm, w)
  /\ LET moved  == MoveBehind(wm, w, behind)
         next   == FrontForInternalState(moved)
         active == IF wm.front # w \/ next = w THEN moved
                   ELSE Invalidate([SwitchEvents(moved, w, next) EXCEPT !.front = next], next)
     IN Becomes(InvalidateEach(active, exposed))

InvalRect(w) == IsOpen(wm, w) /\ Becomes(Invalidate(wm, w))

\* A rectangle that covers what is left of the update region; a smaller one
\* changes nothing here.
ValidRect(w) == IsOpen(wm, w) /\ Becomes(Repaired(wm, w))

BeginUpdate(w) == IsOpen(wm, w) /\ Becomes(Repaired(wm, w))

-----------------------------------------------------------------------------
(* The event loop. *)

Masks == (SUBSET {"activation", "update"}) \ {{}}
Class(e) == IF e.what = "update" THEN "update" ELSE "activation"

\* preferred_marked_update_event: front to back, then markers of unknown windows.
Preferred(m) ==
  LET due     == Among(m.list, {w \in m.visible \cap m.dirty : Marked(m, w) \/ w \in m.flushed})
      unknown == Among(m.queue, {e \in Events : e.what = "update" /\ ~IsOpen(m, e.message)})
  IN IF due # <<>> THEN Head(due)
     ELSE IF unknown # <<>> THEN Head(unknown).message ELSE None

TakeUpdate(m, w) ==
  IF Marked(m, w)
  THEN [m EXCEPT !.queue = Without(@, Event("update", w)), !.told = @ \cup {w}]
  ELSE [m EXCEPT !.flushed = @ \ {w}, !.told = @ \cup {w}]

\* acknowledge_window_activation_event
TakeActivation(m, e) ==
  [m EXCEPT !.queue = Without(@, e),
            !.slot[e.what] = IF @ = e.message THEN None ELSE @]

\* GetNextEvent and WaitNextEvent: activation events go before update events.
GetNextEvent(mask) ==
  LET polled  == IF "update" \in mask
                 THEN [wm EXCEPT !.flushed = @ \cap Open(wm)] ELSE wm
      matches == Among(polled.queue, {e \in Events : Class(e) = "activation"})
      update  == Preferred(polled)
  IN Becomes(IF "activation" \in mask /\ matches # <<>> THEN TakeActivation(polled, Head(matches))
             ELSE IF "update" \in mask /\ update # None THEN TakeUpdate(polled, update)
             ELSE polled)

\* Slip: markers are flushed like any other event.
FlushEventsForGood(mask) ==
  Becomes([wm EXCEPT !.queue = Among(@, {e \in Events : Class(e) \notin mask})])
\* A flushed marker is put aside, to be returned once.
FlushEvents(mask) ==
  Becomes([wm EXCEPT !.queue = Among(@, {e \in Events : Class(e) \notin mask}),
                     !.flushed = @ \cup {w \in Windows : "update" \in mask /\ Marked(wm, w)}])

-----------------------------------------------------------------------------
(* Dialogs. *)

\* NewDialog and GetNewDialog; `drawn` if its items cover what was dirty.
NewDialog(d, shown, drawn, behind, exposed) ==
  /\ ~IsOpen(wm, d) /\ Len(wm.list) < MaxOpen /\ Len(remembered) < MaxRemembered
  /\ LET made  == MakeWindow(wm, d, shown)
         ready == IF ~shown THEN made
                  ELSE QueueUpdate(IF drawn THEN Repaired(made, d) ELSE made, d)
     IN wm' = ApplyBehind(ready, d, behind, exposed)
  /\ remembered' = Append(remembered, wm.front)
  /\ UNCHANGED entered

\* One turn of ModalDialog: it discards what is ahead of the first update event
\* and handles that event as its own dialog's.
ModalDialog ==
  LET d       == wm.front
      updates == {i \in DOMAIN wm.queue : wm.queue[i].what = "update"}
      first   == CHOOSE i \in updates : \A j \in updates : i <= j
  IN /\ d \in Dialogs /\ IsOpen(wm, d)
     /\ wm' = IF updates = {} THEN [wm EXCEPT !.queue = <<>>]
              ELSE Repaired([wm EXCEPT !.queue = SubSeq(@, first + 1, Len(@)),
                                         !.missed = @ \cup {wm.queue[first].message}], d)
     /\ entered' = entered \cup {d}
     /\ UNCHANGED remembered

\* CloseDialog and DisposDialog hand activation back to what was remembered.
CloseDialog(d, exposed) ==
  /\ IsOpen(wm, d) /\ MayClose(d)
  /\ LET wasFront == \/ wm.front = d
                     \/ /\ d \in entered /\ remembered # <<>>
                        /\ Last(remembered) = wm.front
         behind   == VisibleBehind(wm, d)
         gone     == InvalidateEach(Untrack(wm, d),
                                    IF d \in wm.visible THEN exposed \cap behind ELSE {})
         previous == IF Last(remembered) = None THEN gone.front ELSE Last(remembered)
         again    == IF Contains(gone.queue, Event("activate", previous)) THEN gone
                     ELSE QueueActivation(gone, "activate", previous)
         restored == [again EXCEPT !.front = previous]
     IN IF wasFront /\ remembered # <<>>
        THEN /\ wm' = IF d \in wm.visible /\ previous \in exposed \ behind
                      THEN Invalidate(restored, previous) ELSE restored
             /\ remembered' = Front(remembered)
        ELSE wm' = gone /\ UNCHANGED remembered
  /\ entered' = entered \ {d}

-----------------------------------------------------------------------------
WindowTraps ==
  \/ \E w \in Open(wm) : \/ SelectWindow(w) \/ ShowWindow(w) \/ ShowOnly(w)
                         \/ BringToFront(w) \/ InvalRect(w) \/ ValidRect(w) \/ BeginUpdate(w)
  \/ \E w \in Open(wm) : \E exposed \in SUBSET VisibleBehind(wm, w) :
       HideWindow(w, exposed) \/ HideOnly(w, exposed)
  \/ \E w \in Open(wm), exposed \in SUBSET Open(wm) :
       \E behind \in ({None} \cup Windows) \ {w} : SendBehind(w, behind, exposed)
  \/ \E w \in Documents, exposed \in SUBSET wm.visible :
       \/ CloseWindow(w, exposed)
       \/ \E shown \in BOOLEAN, behind \in Behinds : NewWindow(w, shown, behind, exposed)

EventTraps == \E mask \in Masks : GetNextEvent(mask) \/ FlushEvents(mask)

DialogTraps ==
  \/ ModalDialog
  \/ \E d \in Dialogs, exposed \in SUBSET Open(wm) :
       \/ CloseDialog(d, exposed)
       \/ \E shown, drawn \in BOOLEAN, behind \in Behinds :
            NewDialog(d, shown, drawn, behind, exposed)

Next == WindowTraps \/ EventTraps \/ DialogTraps
Spec == Init /\ [][Next]_vars

-----------------------------------------------------------------------------
WindowsTypeOK ==
  /\ wm \in WindowManager
  /\ remembered \in Seq(Windows \cup {None})
  /\ entered \subseteq Dialogs

Awaited(w) == Marked(wm, w) \/ w \in wm.flushed \/ w \in wm.told

\* A visible window that needs drawing is not forgotten: a marker for it waits
\* in the queue, or was put aside by FlushEvents, or its update event has been
\* returned to the application, and the window has not been asked to draw again
\* since.  The exception is a window whose update event ModalDialog took and
\* answered by redrawing its own dialog.
RedrawsDue == \A w \in (wm.visible \cap wm.dirty) \ wm.missed : Awaited(w)

\* Without the exception.  An update event is "cleared by BeginUpdate" and entries
\* dropped meanwhile "are recoverable once" (event.rs:728-731); ModalDialog's are not.
EveryRedrawDue == \A w \in wm.visible \cap wm.dirty : Awaited(w)

\* A window is asked to redraw once: it never has two markers, in the queue or
\* put aside, however often it is invalidated, flushed and invalidated again.
OneMarker ==
  /\ \A i, j \in DOMAIN wm.queue :
       wm.queue[i] = wm.queue[j] /\ wm.queue[i].what = "update" => i = j
  /\ \A w \in wm.flushed : ~Marked(wm, w)

\* Nothing names a window that was closed: "A removed WindowRecord can be
\* disposed or reused before the next GetNextEvent" (untrack_window).
NoStaleWindow ==
  LET named == {wm.queue[i].message : i \in DOMAIN wm.queue} \cup wm.flushed
                 \cup {wm.slot[p] : p \in Polarity} \cup {wm.front}
  IN named \subseteq Open(wm) \cup {None}

\* However often the active window changes between two polls, at most one event
\* of each polarity is pending, it is the one the low-memory slot names, and the
\* window that loses activation hears of it first.
OneChangePending ==
  \A i, j \in DOMAIN wm.queue :
    LET e == wm.queue[i] f == wm.queue[j]
    IN /\ e.what \in Polarity => e.message = wm.slot[e.what]
       /\ e.what = f.what /\ e.what \in Polarity => i = j
       /\ e.what = "deactivate" /\ f.what = "activate" => i < j

\* What an application that polls late will be told: about open windows only,
\* one switch of the active window in its order, one redraw for each window.
PendingEventsSound == NoStaleWindow /\ OneChangePending /\ OneMarker

============================================================================
