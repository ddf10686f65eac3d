\* One code, a public and a confidential client, two requests racing.
SPECIFICATION Spec
CONSTANTS
  u1 = u1  u2 = u2  c1 = c1  c2 = c2  v1 = v1  v2 = v2  k1 = k1  k2 = k2
  r1 = r1  r2 = r2  r3 = r3  r4 = r4  j1 = j1  j2 = j2  j3 = j3  j4 = j4
  q1 = q1  q2 = q2
  Admin = admin  None = None
  Users = {u1}
  Clients = {c1, c2}
  Public = {c2}
  Builtin = {}
  SpInitiated = {c1, c2}
  Assigned = {c1}
  NoOne = {}
  RequireConsent = {}
  IssueRefresh = {c1}
  ClientTTL <- DefaultTTL
  ClientRefreshTTL <- DefaultTTL
  Scopes = {"openid"}
  Redirects <- AllURIs
  Registered <- RegisteredOne
  Verifiers = {v1}
  Codes = {k1}
  Refreshes = {r1, r2}
  Jtis = {j1, j2}
  Requests = {q1, q2}
  CodeTTL = 1
  AccessTTL = 1
  RefreshTTL = 1
  SessionTTL = 1
  ActivityTTL = 3
  IdleTimeout = 0
  MaxLatency = 1
  Persistent = TRUE
  MaxTime = 2
INVARIANTS
  RedemptionMatchesCode
  PolicyRespected
SYMMETRY Symmetry
CONSTRAINTS QuietAdmin NoConsole NoRevocation
