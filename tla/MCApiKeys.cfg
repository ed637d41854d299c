SPECIFICATION KeysSpec
CONSTANTS
  Users = {u1}
  None = None
  Subs = {b1, b2}
  Hooks = {h1, h2}
  MaxStimuli = 3
  MaxLostAcks = 1
  Keys = {k1, k2, k3}
  Slots = {s1, s2}
  MaxKeys <- Limits
CHECK_DEADLOCK FALSE
INVARIANTS KeysSound RowTrue KeyAdmission
SYMMETRY Symmetry
