SPECIFICATION PortSpec
CONSTANTS
  c1 = c1
  c2 = c2
  s1 = s1
  s2 = s2
  Calls = {c1, c2}
  Secrets = {s1, s2}
  NumLeaves = 2
  Ports = {"local"}
  Configs <- Unreached
  PortConfigs <- Shared
  None = None
  Rejected = Rejected
CHECK_DEADLOCK FALSE
INVARIANT NoSecretReturned
