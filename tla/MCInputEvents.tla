--------------------------- MODULE MCInputEvents ---------------------------
(* InputEvents in a few kinds of session.  What one kind of user or guest     *)
(* does is left out of the others, so that their state spaces add up.         *)
EXTENDS InputEvents

CONSTANTS a, b, c

EveryEvent    == {Kinds}
MouseOnly     == {Kinds, MouseKinds}
ReleaseOnly   == {Kinds, {"mouseUp"}}
SomeNoRepeats == {Kinds, Kinds \ {"autoKey", "highLevel"}}

\* A guest that polls for everything and is given no input.
Idle == [keys |-> {}, caps |-> {}, mouse |-> FALSE, menu |-> FALSE, dialogs |-> FALSE,
         buttons |-> FALSE, filter |-> FALSE, selective |-> FALSE, masks |-> EveryEvent,
         systemMasks |-> EveryEvent, sleeps |-> {0, 2}, room |-> 2]

Clicks == [Idle EXCEPT !.mouse = TRUE, !.sleeps = {0}, !.room = 3]

\* Two keys, a key whose repeats the guest ignores, Caps Lock, the host's menu bar, a
\* mouse, dialogs of two kinds; guests that sleep have one kind of input.
Everyday ==
  {[Idle EXCEPT !.keys = {a, b}, !.sleeps = {0}],
   [Idle EXCEPT !.keys = {a}, !.masks = SomeNoRepeats],
   [Idle EXCEPT !.caps = {c}],
   [Idle EXCEPT !.mouse = TRUE],
   [Idle EXCEPT !.mouse = TRUE, !.menu = TRUE, !.sleeps = {0}],
   [Idle EXCEPT !.mouse = TRUE, !.dialogs = TRUE, !.filter = TRUE, !.sleeps = {0}],
   [Clicks EXCEPT !.dialogs = TRUE, !.masks = MouseOnly],
   [Idle EXCEPT !.mouse = TRUE, !.dialogs = TRUE, !.buttons = TRUE, !.sleeps = {0, 1}]}

PlainClicks     == {Clicks}
SelectiveClicks == {[Clicks EXCEPT !.selective = TRUE, !.masks = ReleaseOnly]}
FilteredClicks  == {[Clicks EXCEPT !.dialogs = TRUE, !.filter = TRUE]}
MenuAndClicks   == {[Clicks EXCEPT !.menu = TRUE]}
============================================================================
