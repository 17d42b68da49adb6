SPECIFICATION Spec
CONSTANTS
  Tasks = {t1, t2, t3}
  Bases = {b1, b2, b3, b4}
  Requests = {0, 3, 6}
  DefaultSize = 4
  MinimumM68k = 2
  MinimumPpc = 4
  MaxCount = 2
  MaxPool = 3
  NoBlock = NoBlock
  NoThread = NoThread
INVARIANT
  OneOwner
PROPERTIES
  ErrorChangesNothing
CHECK_DEADLOCK FALSE
SYMMETRY Interchangeable
VIEW Owned
