SPECIFICATION Spec
CONSTANTS
  a = a
  b = b
  None = None
  Jobs = {a, b}
  Asked = {a}
  Queued = {b}
  MaxRelease = 1
  MaxWakes = 1
  MaxResumes = 1
  MaxStarts = 1
  MaxFaults = 2
INVARIANTS
  OneAtATime
  FencedWhileUncertain
  NoDowngrade
PROPERTIES
  NoRewind
  OpensDecided
  DueSettles
CHECK_DEADLOCK FALSE
