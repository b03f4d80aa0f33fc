SPECIFICATION Spec
CONSTANTS
  Users = {ann}
  TokenIds = {t1, t2, t3}
  NoToken = NoToken
  Requests = {q1, q2}
  AccessTTL = 2
  RefreshTTL = 2
  MaxChanges = 1
SYMMETRY Interchangeable
INVARIANTS
  RefreshSingleUse
  OnlyStragglersSurvive
  DeactivationBites
