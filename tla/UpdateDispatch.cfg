SPECIFICATION DispatchSpec
CONSTANTS
  first = first
  second = second
  check = check
  JobIds = {first, second, check}
  Checks = {check}
  MaxKills = 1
INVARIANTS RunnerIsDispatched RefusedNeverRuns
PROPERTIES EveryJobIsReported
CHECK_DEADLOCK FALSE
