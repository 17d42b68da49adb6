\* An application task and two workers, two calls, one level of critical section.
SPECIFICATION Spec
CONSTANTS
  LastTaskId = 4
  MaxCallId = 3
  MaxDepth = 1
  Isas = {"M68k"}
INVARIANTS
  ReadyQueueExact
  RetiredForever
  CallIdentity
  ContextCustody
PROPERTIES
  SwitchOutsideCritical
  SuspendedCallsFrozen
