CONSTANTS
  s1 = s1
  None = None
  Conn = {c1, c2}
  Stream = {s1}
  StreamOf <- OneStream
  MaxSessions = 2
  Hooks = FALSE
  Disables = {}
  Reenables = FALSE
  MaxFaults = 1
SPECIFICATION Spec
PROPERTIES EdgeIsFollowed
