SPECIFICATION Spec
CONSTANTS
  Capacity = 2
  MaxChanges = 2
INVARIANTS
  NoGhostInput
PROPERTIES
  SelectionFollows
  StatusFollows
  WorkerEnds
CHECK_DEADLOCK FALSE
