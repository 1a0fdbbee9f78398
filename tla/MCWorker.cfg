CONSTANTS
  Dest = {d1}
  MaxAttempts = 1
  Capacity = 9
  MaxGeneration = 2
  Removals = TRUE
  Ends = TRUE
  MaxFailures = 1
  MaxEchoes = 1
  MaxFaults = 1
SPECIFICATION Spec
CHECK_DEADLOCK FALSE
INVARIANT OutageIsLocal
PROPERTIES OutputRecovers StatusTellsTruth
