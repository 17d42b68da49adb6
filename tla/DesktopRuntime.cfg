SPECIFICATION Spec
CONSTANTS
  Capacity = 2
  Batch = 2
  Kinds = {"Move", "Down", "Up"}
  MaxInputs = 3
  MaxWarps = 2
  Sessions <- OneOfAKind
  NoState = NoState
INVARIANTS
  TransitionsInPairs
  OrderlyStop
  WakeNeverLost
  WarpKept
PROPERTIES
  OrderedInput
  RedrawKept
  InputConsumed
  QuitCompletes
CHECK_DEADLOCK FALSE
