SPECIFICATION Spec
CONSTANTS
  b1 = b1
  b2 = b2
  u1 = u1
  u2 = u2
  s1 = s1
  s2 = s2
  s3 = s3
  t1 = t1
  t2 = t2
  c1 = c1
  c2 = c2
  r1 = r1
  r2 = r2
  Browsers = {b1, b2}
  Users = {u1, u2}
  Nobody = Nobody
  Sids = {s1, s2}
  NoSid = NoSid
  Tickets = {t1}
  NoTicket = NoTicket
  CasClients = {c1}
  SamlClients = {c2}
  NoClient = NoClient
  Builtin = {}
  RowChoices <- Rows2
  Requests = {r1, r2}
  SessionTTL = 1
  TokenTTL = 2
  TicketTTL = 1
  Persistent = TRUE
  MaxBegins = 3
  MaxActs = 1
INVARIANTS
  TypeOK
  NoImpersonation
  Listed
  LogoutSticks

  
SYMMETRY Symmetric
CHECK_DEADLOCK FALSE
