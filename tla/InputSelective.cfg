SPECIFICATION Spec
CONSTANTS
  a = a
  b = b
  c = c
  Keys = {a, b}
  CapsLock = {c}
  Sessions <- SelectiveClicks
  Threshold = 0
  Rate = 0
  TickSpan = 4
INVARIANT
  PressIsHeld
CHECK_DEADLOCK FALSE
