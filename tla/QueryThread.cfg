SPECIFICATION Spec
CONSTANTS
  alpha = alpha
  beta = beta
  nobody = nobody
  sa = sa
  c1 = c1
  c2 = c2
  Users <- MCUsers
  Builders <- MCBuilders
  NoBuilder = nobody
  Societies = {sa}
  BuilderOf <- MCBuilderOf
  Callers <- MCCallers
  Statuses = {"open", "resolved"}
  SLA = {0}
  PageLimit = 1
  QueryIds = {1, 2}
  MessageIds = {1, 2, 3}
  NoQuery = NoQuery
  NoMessage = NoMessage
  Never = Never
  MaxTime = 1
  Calls = {c1, c2}
SYMMETRY Interchangeable
INVARIANTS
  ThreadsOpen
  NotesStayInside
  SpeakersBelong
  InboxSurfacesLate
PROPERTIES
  KeepsPromise
