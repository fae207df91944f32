CONSTANTS
  Writes = {w1, w2}
  MaxVersion = 3
  MaxJobs = 2
  MaxFaults = 2
  MaxCrashes = 1
  Oversized = {2}
  Mishaps = {"fresh", "by_hand"}
SPECIFICATION Spec
SYMMETRY WriteSymmetry
INVARIANTS
  NoAckedWriteLost
  GateConsistent
PROPERTIES
  CommitIsFinal
  Refines
