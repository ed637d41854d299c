SPECIFICATION FairSpec
CONSTANTS
  Threshold = 2
  ResetTimeout = 1
  HalfOpenMaxRequests = 1
  Jobs = {j1, j2, j3, j4}
  Size = 2
  MaxRetries = 1
  MaxQueueSize = 1
  Modes = {"threads", "isolated", "inline"}
  RemoteJobs = {j3}
  SilentJobs = {j1}
  Unspawnable = {j2}
  MaxTime = 1
CHECK_DEADLOCK FALSE
INVARIANTS HoldingsAccounted QueueServed FirstAttemptsBounded
PROPERTIES UsesBreaker EveryJobSettles
