SPECIFICATION MigrationSpec
CONSTANTS
  Procs = {p1, p2}
  Games = {g1, g2}
  Names = {n1, n2}
  GameNames = {n2}
  LegacyNames = {n1, n2}
  MaxStarts = 3
INVARIANTS
  LegacyMigratedOnce
  ImportedWhole
  PublishedIsRecorded
PROPERTY
  GameFilesKept
CHECK_DEADLOCK FALSE
