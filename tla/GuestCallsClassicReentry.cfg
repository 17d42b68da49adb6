\* A native application whose classic callback makes classic callbacks.
SPECIFICATION GuestSpec
CONSTANTS
  LastTaskId = 2
  MaxCallId = 4
  MaxDepth = 0
  Isas = {"M68k", "PowerPc"}
  AppIsas = {"PowerPc"}
  NativeReentry = FALSE
  ClassicReentry = TRUE
  Stale = Stale
  NoContext = NoContext
INVARIANT NativeWaitsForCallback
