SPECIFICATION Spec
CONSTANTS
  Requests = {r1, r2, r3}
  Kinds <- AllKinds
  Keys = {k1, k2}
  Contents = {a}
  Titles = {t}
  MaxDocs = 2
  MaxVersions = 2
  MaxEarly = 1
  MaxLate = 0
  MaxCrashes = 1
  Backups = TRUE
SYMMETRY RequestSymmetry
INVARIANTS CommittedFilesIntact BackupComplete
PROPERTIES Refines NoLostUpdate
CHECK_DEADLOCK FALSE
