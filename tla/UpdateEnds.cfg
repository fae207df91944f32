CONSTANTS
  Writes = {w1}
  MaxVersion = 2
  MaxJobs = 2
  MaxFaults = 1
  MaxCrashes = 2
  Oversized = {}
  Mishaps = {}
SPECIFICATION FairSpec
INVARIANTS
  RolledBackIsRestored
PROPERTIES
  MaintenanceEnds
  ReplacedBehindBarrier
