SPECIFICATION Spec
CONSTANTS
  Requests = {r1, r2, r3}
  Kinds <- UploadKinds
  Keys = {k1, k2}
  Contents = {a, b}
  Titles = {t}
  MaxDocs = 2
  MaxVersions = 2
  MaxEarly = 0
  MaxLate = 1
  MaxCrashes = 0
  Backups = FALSE
SYMMETRY RequestSymmetry
INVARIANTS CommittedFilesIntact
CHECK_DEADLOCK FALSE
