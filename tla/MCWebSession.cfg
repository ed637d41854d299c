SPECIFICATION MCWebSpec
CONSTANTS
  Users = {u1, u2}
  Tabs = {t1, t2, t3}
  None = None
  Readers = {t3}
  Keys = {"apiKeys", "quotas"}
  AccessLife = 2
  EarlyLife = 1
  RefreshLife = 2
  MaxTime = 2
  MaxAsking = 2
  MaxActs = 3
SYMMETRY Symmetry
INVARIANTS SessionSound TabShowsOwn
CHECK_DEADLOCK FALSE
