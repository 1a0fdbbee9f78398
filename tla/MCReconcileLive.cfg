CONSTANTS
  None = None
  RestartLimit = 1
  ControlFaults = 1
  WorkerFaults = 1
  CutHandoffs = 0
  OutputChanges = 2
  SlateChanges = 1
  Drains = FALSE
SPECIFICATION Spec
PROPERTIES StopCompletes 
