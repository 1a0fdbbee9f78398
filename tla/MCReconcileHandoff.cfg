CONSTANTS
  None = None
  RestartLimit = 2
  ControlFaults = 0
  WorkerFaults = 0
  CutHandoffs = 1
  OutputChanges = 0
  SlateChanges = 0
  Drains = FALSE
SPECIFICATION Spec
PROPERTIES StopCompletes
CHECK_DEADLOCK FALSE
