------------------------------ MODULE EventQueue ------------------------------
(***************************************************************************)
(* The selections the Event Manager makes on its one queue of events        *)
(* (trap/event.rs), as operators its users compose.  An event is a record   *)
(* with a field `what`; a mask is the set of kinds it designates (bit 10 of *)
(* the 16-bit mask stands for high-level events, the other bits for the     *)
(* kinds they number).                                                      *)
(***************************************************************************)
EXTENDS Integers, FiniteSets, Subsequences

\* Kinds of events, by the code's numbers.
MouseKinds == {"mouseDown", "mouseUp"}
KeyKinds   == {"keyDown", "keyUp", "autoKey"}
LowLevel   == MouseKinds \cup KeyKinds
Kinds      == LowLevel \cup {"update", "activate", "osEvt", "highLevel"}

\* Smaller is sooner: activations, then mouse and keys in arrival order, ...
Priority(what) ==
  CASE what = "activate"  -> 0
    [] what \in {"mouseDown", "mouseUp", "keyDown", "keyUp"} -> 1
    [] what = "autoKey"   -> 2
    [] what = "update"    -> 3
    [] what = "osEvt"     -> 4
    [] what = "highLevel" -> 5

\* The positions at which a queue holds an event some kind of which is in `kinds`.
Positions(queue, kinds) == {i \in 1..Len(queue) : queue[i].what \in kinds}
Earliest(positions) == CHOOSE i \in positions : \A j \in positions : i <= j
Latest(positions)   == CHOOSE i \in positions : \A j \in positions : j <= i

\* The event the Toolbox selects: best class first, then arrival; 0 for none.
ToolboxMatch(queue, mask) ==
  LET matching == Positions(queue, mask \ {"update"})
  IN  IF matching = {} THEN 0
      ELSE CHOOSE i \in matching : \A j \in matching :
             \/ Priority(queue[i].what) < Priority(queue[j].what)
             \/ Priority(queue[i].what) = Priority(queue[j].what) /\ i <= j

\* The event GetOSEvent selects: the oldest low-level one; 0 for none.
OSMatch(queue, mask) ==
  LET matching == Positions(queue, mask \cap LowLevel)
  IN  IF matching = {} THEN 0 ELSE Earliest(matching)

\* FlushEvents removes the designated events in front of the first stop event.
StopAt(queue, stop) ==
  LET stops == Positions(queue, stop)
  IN  IF stops = {} THEN Len(queue) + 1 ELSE Earliest(stops)

FlushedPositions(queue, mask, stop) ==
  {i \in Positions(queue, mask) : i < StopAt(queue, stop)}

Flushed(queue, mask, stop) ==
  Keeping(queue, DOMAIN queue \ FlushedPositions(queue, mask, stop))

\* Slip: a queued release does not end its press.
QueuedDown(queue) == Positions(queue, {"mouseDown"}) # {}

\* Presses queued beyond the releases queued.
UnmatchedDown(queue) ==
    Cardinality(Positions(queue, {"mouseDown"}))
  > Cardinality(Positions(queue, {"mouseUp"}))
===============================================================================
