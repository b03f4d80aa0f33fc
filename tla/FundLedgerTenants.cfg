SPECIFICATION Spec
CONSTANTS
  alpha = alpha
  beta = beta
  nobody = nobody
  sa = sa
  sb = sb
  e1 = e1
  e2 = e2
  e3 = e3
  q1 = q1
  q2 = q2
  q3 = q3
  Users <- MCUsers
  Builders <- MCBuilders
  NoBuilder = nobody
  Societies = {sa, sb}
  BuilderOf <- MCBuilderOf
  Owners <- MCOwners
  Callers <- Tenants
  Heads = {"security"}
  Amounts = {0, 4, 5}
  EntryIds = {e1, e2, e3}
  NoEntry = NoEntry
  Requests = {q1, q2}
SYMMETRY Interchangeable
INVARIANTS
  DoubledByOverlapOnly
  WritersAreTenants
  ReadersAreTenants
  PagesNest
PROPERTY KeepsPromise
