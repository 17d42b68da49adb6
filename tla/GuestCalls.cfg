\* An application of either architecture and one worker thread, three calls.
SPECIFICATION GuestSpec
CONSTANTS
  LastTaskId = 3
  MaxCallId = 4
  MaxDepth = 1
  Isas = {"M68k", "PowerPc"}
  AppIsas = {"M68k", "PowerPc"}
  NativeReentry = FALSE
  ClassicReentry = FALSE
  Stale = Stale
  NoContext = NoContext
INVARIANTS
  RunsOwnRegisters
  ResumableTasks
  CallersKept
  NeverWedged
PROPERTIES
  CallsStart
