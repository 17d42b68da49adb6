SPECIFICATION LiveSpec
CONSTANTS
  a = a
  b = b
  c = c
  Keys = {a, b}
  CapsLock = {c}
  Sessions <- Everyday
  Threshold = 1
  Rate = 1
  TickSpan = 5
INVARIANTS
  AutoKeyPaced
  ClicksStayPaired
  NoPhantomPress
PROPERTIES
  NoEventSleptThrough
  SleepEnds
CHECK_DEADLOCK FALSE
