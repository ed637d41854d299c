SPECIFICATION Spec
CONSTANTS
  Events <- SomeEvents
  Snapshots = {s1}
  FlushThreshold = 2
  PlainLogs = TRUE
  WritesMayFail = TRUE
  MaxProcesses = 3
  MaxLogged = 3
  MaxDisturbances = 1
  MaxClock = 3
CHECK_DEADLOCK FALSE
INVARIANTS LossBounded RootsVerify
