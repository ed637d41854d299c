SPECIFICATION Spec
CONSTANTS
  Threshold = 1
  ResetTimeout = 1
  HalfOpenMaxRequests = 1
  Kinds = {"memory", "native", "aws", "python"}
  Ids = {i1}
  None = None
  Calls = {c1, c2, c3, c4}
  TTLs = {0, 1}
  RefTTLs = {2}
  MaxTime = 2
  MaxRestarts = 1
CHECK_DEADLOCK FALSE
INVARIANTS DeleteIsFinal RefsExplained
PROPERTY GuardsItsVault
SYMMETRY Symmetry
