CONSTANTS
  s1 = s1
  None = None
  Conn = {c1, c2}
  Stream = {s1}
  StreamOf <- OneStream
  MaxSessions = 2
  Hooks = TRUE
  Disables = {s1}
  Reenables = TRUE
  MaxFaults = 2
SPECIFICATION Spec
SYMMETRY Connections
INVARIANTS OnePublisher StopIsDurable
PROPERTIES SeenPublisherBlocksStop AdmittedHasSession
