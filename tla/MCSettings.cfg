SPECIFICATION Spec
CONSTANTS
  Pages = {p1, p2}
  Conns = {c1}
  Outputs = {o1, o2, o3}
  Names = {n1, n2}
  Values = {v1, v2}
  OutputLimit = 2
  MaxChanges = 3
  None = None
SYMMETRY Symmetry
INVARIANTS
  NoLostUpdate
  ContractHolds
  PublisherHasTheKey
  OutputsUsable
CHECK_DEADLOCK FALSE
