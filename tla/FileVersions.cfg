SPECIFICATION FairSpec
CONSTANTS
  Calls = {c1, c2}
  Old <- EarlierVersions
  Residue <- LeftReserved
INVARIANTS UniqueVersions NewerThanBefore
PROPERTIES EveryCallEnds
CHECK_DEADLOCK FALSE
