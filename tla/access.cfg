\* Three requests of administrators, two at a time, of any kind.
SPECIFICATION AccessSpec
CONSTANTS
  q1 = q1  q2 = q2  u1 = u1  d1 = d1  d2 = d2  d3 = d3  g1 = g1
  a = a  n = n  console = console
  Nil = Nil  Root = Root  Gone = Gone  None = None  Junk = Junk
  Requests = {q1, q2}
  MaxRequests = 3
  Users = {u1}
  Depts = {d1, d2, d3}
  Founded = {d1, d2}
  Groups = {g1}
  Reparent = TRUE
  MemberSets <- MCMembers
  People = {u1}
  Rules = {1, 2}
  IPs = {"ip1", "ip2"}
  Hours = 1
  RuleInputs <- MCRuleInputs
  Clients = {a, n, console}
  URLs = {"x", "y"}
  Builtin = {console}
  AdminConsole = console
  Staff = {}
  StartRows <- MCStartRows
  StartGrants <- MCStartGrants
  CreateInputs <- MCCreate
  UpdateInputs <- MCUpdate
INVARIANTS
  AccessTypeOK
  
  
  
  
  RulesAnswer
CONSTRAINT Bounded
CHECK_DEADLOCK FALSE
