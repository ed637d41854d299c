SPECIFICATION FairSpec
CONSTANTS
  Threshold = 2
  ResetTimeout = 2
  HalfOpenMaxRequests = 2
  Calls = {c1,c2,c3,c4,c5}
  CallbacksMayThrow = TRUE
  MaxTime = 5
INVARIANTS ProbeAccounting TripsRightly
PROPERTIES ImplementsContract NoWedge
