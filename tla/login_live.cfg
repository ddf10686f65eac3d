\* Locks and bans lift and inactive accounts are locked, with two requests racing.
SPECIFICATION FairSpec
CONSTANTS
  u1 = u1  r1 = r1  r2 = r2  r3 = r3
  Users = {u1}
  Nobody = nobody
  Names = {"alice"}
  Owner <- OneOwner
  IPs = {"ip"}
  Passwords = {"good", "bad"}
  LdapAccepts = {}
  Excluded = {}
  Requests = {r1, r2}
  AdminOps = {}
  Deletable = {}
  LockThreshold = 2
  LockDuration = 1
  FailWindow = 1
  CaptchaOn = FALSE
  CaptchaThreshold = 0
  IPBanOn = TRUE
  IPBanThreshold = 2
  IPBanDuration = 2
  IPBanWindow = 1
  LdapOn = FALSE
  InactiveAfter = 1
  Persistent = FALSE
  Absent = absent
INVARIANT
  IPFailuresBounded
PROPERTIES
  TempLockLifts
  InactiveGetsLocked
  AutoBanLifts
