\* The scheduler, a probe by hand, one request and one restart.
SPECIFICATION MCSpec
CONSTANTS
  a = a  j = j  h1 = h1  q1 = q1  s1 = s1  s2 = s2
  Nil = Nil  Root = Root  Gone = Gone  None = None  Junk = Junk
  Requests = {q1}
  MaxRequests = 2
  Users = {}
  Depts = {}
  Founded = {}
  Groups = {}
  Reparent = FALSE
  MemberSets = {}
  Clients = {a, j}
  URLs = {"x"}
  Builtin = {}
  AdminConsole = Nil
  Staff = {}
  StartRows <- MCStartRows
  StartGrants <- MCStartGrants
  CreateInputs = {}
  UpdateInputs <- MCUpdate
  Hands = {h1}
  Slots = 1
  Setters = {s1, s2}
  Intervals = {1, 2}
  FirstInterval = 1
  MonitorEdits <- MCEdits
  MaxCrashes = 1
INVARIANTS
  OngoingBounded
  DownHasIncident
  DayAgrees
  
PROPERTIES
  ProbedAgain
CHECK_DEADLOCK FALSE
