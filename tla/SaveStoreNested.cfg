SPECIFICATION Spec
CONSTANTS
  d = d
  x = x
  Paths = {d, x}
  Archived = {}
  Inside <- DirectoryOverFile
  MaxVersion = 2
  MaxDamage = 0
INVARIANT
  CleanScanMirrors
