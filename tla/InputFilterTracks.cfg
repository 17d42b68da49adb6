SPECIFICATION Spec
CONSTANTS
  a = a
  b = b
  c = c
  Keys = {a, b}
  CapsLock = {c}
  Sessions <- FilteredClicks
  Threshold = 0
  Rate = 0
  TickSpan = 4
INVARIANT
  OwnedReleasePending
CHECK_DEADLOCK FALSE
