\* Logins, the LDAP fallback, administration, deletion, restarts and the sweep, interleaved.
SPECIFICATION Spec
CONSTANTS
  u1 = u1  r1 = r1  r2 = r2  r3 = r3
  Users = {u1}
  Nobody = nobody
  Names = {"alice"}
  Owner <- OneOwner
  IPs = {"ip"}
  Passwords = {"good", "bad"}
  LdapAccepts <- LdapBad
  Excluded = {}
  Requests = {r1, r2}
  AdminOps = {"disable", "reset"}
  Deletable = {u1}
  LockThreshold = 1
  LockDuration = 0
  FailWindow = 1
  CaptchaOn = FALSE
  CaptchaThreshold = 0
  IPBanOn = FALSE
  IPBanThreshold = 2
  IPBanDuration = 1
  IPBanWindow = 1
  LdapOn = TRUE
  InactiveAfter = 1
  Persistent = FALSE
  Absent = absent
INVARIANTS
  TypeOK
  FailuresBounded
SYMMETRY Symmetry
CONSTRAINTS FewFails NoHandBans
