\* Rotation: two requests, either refresh endpoint, one client with lifetimes of its own.
SPECIFICATION Spec
CONSTANTS
  u1 = u1  u2 = u2  c1 = c1  c2 = c2  v1 = v1  v2 = v2  k1 = k1  k2 = k2
  r1 = r1  r2 = r2  r3 = r3  r4 = r4  j1 = j1  j2 = j2  j3 = j3  j4 = j4
  q1 = q1  q2 = q2
  Admin = admin  None = None
  Users = {u1}
  Clients = {c1}
  Public = {}
  Builtin = {}
  SpInitiated = {c1}
  Assigned = {}
  NoOne = {}
  RequireConsent = {}
  IssueRefresh = {c1}
  ClientTTL <- DefaultTTL
  ClientRefreshTTL <- ShortTTL
  Scopes = {"openid", "profile"}
  Redirects = {"app"}
  Registered <- RegisteredOne
  Verifiers = {}
  Codes = {k1}
  Refreshes = {r1, r2, r3}
  Jtis = {j1, j2, j3}
  Requests = {q1, q2}
  CodeTTL = 1
  AccessTTL = 1
  RefreshTTL = 2
  SessionTTL = 1
  ActivityTTL = 3
  IdleTimeout = 0
  MaxLatency = 1
  Persistent = TRUE
  MaxTime = 2
INVARIANT
  TokensMatchAuthorization

  
SYMMETRY Symmetry
CONSTRAINTS NoAdmin NoConsole NoRevocation
