SPECIFICATION FairSpec
CONSTANTS
  People = {p1}
  Sessions = {1, 2}
  Tokens = {k1}
  Browsers = {b1}
  Calls = {c1, c2}
  Ttl = 1
  Grace = 1
  MaxNow = 3
  NoSession = NoSession
  NoPerson = NoPerson
  Families = {1, 2}
  Rows = {1, 2, 3}
  Jars = {j1, j2}
  WebJars = {j1}
  Requests = {r1, r2}
  RefreshTtl = 2
  AccessTtl = 1
  MaxTime = 1
  MaxFailures = 1
  NoToken = NoToken
  NoFamily = NoFamily
INVARIANTS QuietRevocationHolds RotationKeepsOne
PROPERTIES EndedStaysEnded SweepKeepsLive StaleSessionsGo
CHECK_DEADLOCK FALSE
