\* Two requests, one application, two users, three requests.
SPECIFICATION Spec
CONSTANTS
  p = p  n1 = n1  n2 = n2  a1 = a1  a2 = a2  j1 = j1  j2 = j2
  Apps = {p}
  Names = {n1, n2}
  Known = {n1}
  Accounts = {a1, a2}
  AppOf <- MCAppOf
  NameOf <- MCNameOf
  NoAccount = NoAccount
  Jobs = {j1, j2}
  RulePage = 1
  UserPage = 2
  PowerChoices <- TwoPowers
  MaxRules = 2
  MaxJobs = 3
  MaxChanges = 1
INVARIANT OneSnapshot
PROPERTY HandledOnly
SYMMETRY Symmetric
CHECK_DEADLOCK FALSE
