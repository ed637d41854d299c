SPECIFICATION Spec
CONSTANTS
  Emails = {e1, e2}
  Passwords = {p1, p2}
  Slots = {s1, s2}
  None = None
  AccessTTL = 1
  RefreshTTL = 2
  ResetTTL = 1
  MaxTime = 2
  MaxRequests = 3
  MaxFaults = 1
  Resets = {t1}
CHECK_DEADLOCK FALSE
INVARIANTS AccountsSound NoStaleReset PasswordProved
SYMMETRY Symmetry
