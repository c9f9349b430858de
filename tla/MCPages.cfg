SPECIFICATION PagesSpec
CONSTANTS
  o1 = o1
  y1 = y1
  d1 = d1
  a1 = a1
  s1 = s1
  h1 = h1
  l1 = l1
  u1 = u1
  e1 = e1
  w1 = w1
  w2 = w2
  dt = dt
  dh = dh
  ut = ut
  uh = uh
  p1 = p1
  p2 = p2
  n1 = n1
  n2 = n2
  k1 = k1
  k2 = k2
  k3 = k3
  g1 = g1
  g2 = g2
  t1 = t1
  t2 = t2
  q1 = q1
  q2 = q2
  Policy = {p1, p2}
  Name = {n1, n2}
  Rule = {k1, k2, k3}
  DomainRow = {g1, g2}
  Setting = {t1, t2}
  PolicyOf <- MCPolicyOf
  FollowedSettings <- EachSetting
  None = None
  Absent = Absent
  Organization = {o1}
  Relay = {y1}
  Domain = {d1}
  Alias = {a1}
  Destination = {s1}
  AuthServer = {h1}
  LDAPSettings = {l1}
  User = {u1}
  Address = {e1}
  ListItem = {w1, w2}
  DomSignature = {dt, dh}
  UserSignature = {ut, uh}
  HTML = {dh, uh}
  Of <- MCOf
  Request = {q1, q2}
  Followed <- File
  MaxCrash = 1
SYMMETRY Requests
CHECK_DEADLOCK FALSE
INVARIANTS
  PagesTypeOK
  DirectoryFilesSettle
  SettingsFilesSettle
