SPECIFICATION FairSpec
CONSTANTS
  Tabs = {a}
  Widgets = {w1}
  Accounts = {ann}
  NoAccount = NoAccount
  TokenIds = {t1, t2, t3}
  NoToken = NoToken
  Lossy = TRUE

  
PROPERTIES
  CallsEnd
