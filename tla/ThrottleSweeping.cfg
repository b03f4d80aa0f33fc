SPECIFICATION FairSpec
CONSTANTS
  Clients = {c1}
  Emails = {m1}
  LoginAttempts = 2
  LoginWindow = 3
  RefreshAttempts = 2
  RefreshWindow = 1
  MaxKeys = 1
  Callers = {q1, q2, q3}
INVARIANTS
  NoPhantomAttempts
  RefreshBudgetKept
  LoginBurstKept
PROPERTY LockoutEnds
