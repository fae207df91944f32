SPECIFICATION Spec
CONSTANTS
  Requests = {r1, r2, r3}
  Kinds <- RetriedKinds
  Keys = {k1, k2}
  Contents = {a, b}
  Titles = {t}
  MaxDocs = 2
  MaxVersions = 2
  MaxEarly = 1
  MaxLate = 1
  MaxCrashes = 1
  Backups = FALSE
SYMMETRY RequestSymmetry
INVARIANTS StagedFilesAreLive FailedLeaveNothing
PROPERTIES RetryIsAnswered
CHECK_DEADLOCK FALSE
