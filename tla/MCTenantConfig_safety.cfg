SPECIFICATION Spec
CONSTANTS
  Callers = {c1, c2}
  Values <- MCValues
  Initial <- MCInitial
  Patches <- MCPatches
  RightUrl = "u1"
  MaxClock = 2
  MaxFaults = 1
SYMMETRY Symmetry
CHECK_DEADLOCK FALSE
INVARIANTS
  TypeOK
  AuditCoversRow
  CheckedReadIsFresh
  DownloadWorks
PROPERTY RetiredStaysRetired
