\* A classic application whose native plug-in makes native callbacks.
SPECIFICATION GuestSpec
CONSTANTS
  LastTaskId = 2
  MaxCallId = 4
  MaxDepth = 0
  Isas = {"M68k", "PowerPc"}
  AppIsas = {"M68k"}
  NativeReentry = TRUE
  ClassicReentry = FALSE
  Stale = Stale
  NoContext = NoContext
INVARIANT CoordinatorAdvancesOwner
