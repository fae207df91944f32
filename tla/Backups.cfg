SPECIFICATION FairSpec
CONSTANTS
  Jobs = {j1, j2}
  Times <- Clock
  OldTimes <- EarlierTimes
  Retention = 0
  MaxFaults = 2
  MaxCrashes = 1
  MaxDamage = 1
INVARIANTS SuccessHasBackup
PROPERTIES TwoNewestKept TaskEnds SuccessIsTold
CHECK_DEADLOCK FALSE
