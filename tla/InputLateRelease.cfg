SPECIFICATION Spec
CONSTANTS
  a = a
  b = b
  c = c
  Keys = {a, b}
  CapsLock = {c}
  Sessions <- PlainClicks
  Threshold = 0
  Rate = 0
  TickSpan = 4
INVARIANT
  TakingReleaseIsHarmless
CHECK_DEADLOCK FALSE
