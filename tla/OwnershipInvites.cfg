SPECIFICATION Spec
CONSTANTS
  alpha = alpha
  beta = beta
  nobody = nobody
  sa = sa
  sb = sb
  p1 = p1
  p2 = p2
  v = v
  w = w
  x = x
  y = y
  z = z
  none = none
  i1 = i1
  i2 = i2
  i3 = i3
  ann = ann
  carl = carl
  root = root
  n1 = n1
  n2 = n2
  q1 = q1
  q2 = q2
  q3 = q3
  Users = {ann, carl, n1, n2}
  Builders = {alpha, beta}
  NoBuilder = nobody
  Societies = {sa, sb}
  BuilderOf <- MCBuilderOf
  Plots = {p1, p2}
  Noted = {}
  Statuses = {"available", "sold"}
  Numbers = {"1"}
  NoPlot = NoPlot
  Emails = {w, x, y, z}
  Invites = {i1, i2}
  NoInvite = none
  InviteTTL = 1
  First <- MCFirst
  NoAccount = NoAccount
  Clerks = {ann}
  Requests = {q1, q2}
SYMMETRY Interchangeable
INVARIANTS
  InviteOnce
  HeldByInvitation
  StrandedByRivalsOnly
