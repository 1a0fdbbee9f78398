CONSTANTS
  None = None
  RestartLimit = 2
  ControlFaults = 2
  WorkerFaults = 1
  CutHandoffs = 1
  OutputChanges = 2
  SlateChanges = 0
  Drains = TRUE
SPECIFICATION Spec
INVARIANTS OverMeansGone NoOrphans
PROPERTIES NoInterruption
