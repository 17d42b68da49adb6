SPECIFICATION LiveSpec
CONSTANTS
  Paths = {a, f}
  Archived = {a}
  Inside = {}
  MaxVersion = 3
  MaxDamage = 2
INVARIANTS
  CleanScanMirrors
  FirstSaveWhole
PROPERTIES
  StoreCatchesUp
