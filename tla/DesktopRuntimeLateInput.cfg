\* A click through a queue of two entries.
SPECIFICATION Spec
CONSTANTS
  Capacity = 2
  Batch = 2
  Kinds = {"Down", "Up"}
  MaxInputs = 2
  MaxWarps = 0
  Sessions <- Clicking
  NoState = NoState
INVARIANT
  ObservedTransitions
CHECK_DEADLOCK FALSE
