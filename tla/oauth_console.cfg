\* The console: logins, activity, idle logout and revocation.
SPECIFICATION Spec
CONSTANTS
  u1 = u1  u2 = u2  c1 = c1  c2 = c2  v1 = v1  v2 = v2  k1 = k1  k2 = k2
  r1 = r1  r2 = r2  r3 = r3  r4 = r4  j1 = j1  j2 = j2  j3 = j3  j4 = j4
  q1 = q1  q2 = q2
  Admin = admin  None = None
  Users = {u1}
  Clients = {c1}
  Public = {}
  Builtin = {}
  SpInitiated = {c1}
  Assigned = {}
  NoOne = {}
  RequireConsent = {}
  IssueRefresh = {c1}
  ClientTTL <- DefaultTTL
  ClientRefreshTTL <- DefaultTTL
  Scopes = {"openid"}
  Redirects = {"app"}
  Registered <- RegisteredOne
  Verifiers = {}
  Codes = {}
  Refreshes = {r1, r2, r3}
  Jtis = {j1, j2, j3}
  Requests = {q1}
  CodeTTL = 1
  AccessTTL = 2
  RefreshTTL = 2
  SessionTTL = 2
  ActivityTTL = 5
  IdleTimeout = 1
  MaxLatency = 1
  Persistent = TRUE
  MaxTime = 7
INVARIANTS
  TypeOK
  IdleNeverRenewed
  RevokedStaysInvalid
SYMMETRY Symmetry
CONSTRAINTS NoAdmin
