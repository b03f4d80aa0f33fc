SPECIFICATION Spec
CONSTANTS
  Tabs = {a, b}
  Widgets = {}
  Accounts = {ann}
  NoAccount = NoAccount
  TokenIds = {t1, t2, t3, t4}
  NoToken = NoToken
  Lossy = TRUE
SYMMETRY Interchangeable
INVARIANTS
  SessionSurvives
  CalmSignOutIsFinal
