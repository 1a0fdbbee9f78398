CONSTANTS
  Dest = {d1}
  MaxAttempts = 1
  Capacity = 6
  MaxGeneration = 1
  Removals = FALSE
  Ends = FALSE
  MaxFailures = 2
  MaxEchoes = 0
  MaxFaults = 0
SPECIFICATION Spec
CHECK_DEADLOCK FALSE
INVARIANT BoundedCircuit
