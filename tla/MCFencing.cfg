CONSTANTS
  None = None
  Alloc = {a1}
  MaxFence = 4
  MaxInFlight = 2
  Restores = TRUE
SPECIFICATION Spec
INVARIANTS TypeOK StopIsFinal CommittedFirst InspectionStable NotFencedOut PassGoverns FreshGeneration
PROPERTIES WatermarkMonotone ImplementsAuthority
CHECK_DEADLOCK FALSE
