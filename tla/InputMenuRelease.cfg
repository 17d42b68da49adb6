SPECIFICATION Spec
CONSTANTS
  a = a
  b = b
  c = c
  Keys = {a, b}
  CapsLock = {c}
  Sessions <- MenuAndClicks
  Threshold = 0
  Rate = 0
  TickSpan = 4
INVARIANT
  TransitionsAlternate
CHECK_DEADLOCK FALSE
