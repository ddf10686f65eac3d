SPECIFICATION TicketSpec
CONSTANTS
  i1 = i1  i2 = i2  u1 = u1  u2 = u2  u3 = u3  u4 = u4
  m1 = m1  m2 = m2  t1 = t1  t2 = t2  r1 = r1  r2 = r2
  Ids = {i1, i2}
  NoId = NoId
  Users = {u1, u2, u3, u4}
  NoUser = NoUser
  Tokens = {t1, t2}
  NoToken = NoToken
  KindsOf <- TicketApart
  Mails = {m1, m2}
  NoMail = NoMail
  MailOf <- OneMail
  BaseOf <- SameBase
  Mapped = {i2}
  FirstRows <- TwoUsers
  Requests = {r1, r2}
  AutoCreate = TRUE
  FixedState = TRUE
  MaxBegins = 2
  MaxActs = 1
  MaxNames = 3
INVARIANTS
  TypeOK
  LinkedGoesHome
  CutStaysOut
  OneAccountEach

  
SYMMETRY Symmetric
CHECK_DEADLOCK FALSE
