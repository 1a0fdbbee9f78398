SPECIFICATION Spec
CONSTANTS
  Requests = {r1, r2}
  Passwords = {p1, p2}
  Codes = {1}
  Updates = {u1}
  Presented = {1, 2}
  MaxSecrets = 2
  MaxStep = 2
  MaxHost = 2
  None = None
SYMMETRY Symmetry
INVARIANTS
  NoReplay
  OneAuthenticator
  EnrollmentIsCurrent
  LockoutIsShort
CHECK_DEADLOCK FALSE
