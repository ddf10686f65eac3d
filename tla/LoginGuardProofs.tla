-------------------------- MODULE LoginGuardProofs --------------------------
(***************************************************************************)
(* Proofs about LoginGuard, for every set of users, names, addresses and   *)
(* requests and every setting of the thresholds and durations.             *)
(***************************************************************************)
EXTENDS LoginGuard, FiniteSetTheorems, TLAPS

-----------------------------------------------------------------------------
(* The variables have their types *)

\* Locking, unlocking and stamping a row give rows.
LEMMA LockTypes ==
  ASSUME NEW row \in Rows
  PROVE  /\ Unlocked(row) \in Rows /\ LoggedIn(row) \in Rows
         /\ \A until \in Nat \cup {Forever}, b \in BOOLEAN :
              SetLock(row, b, until) \in Rows
  BY LimitsAssumption DEF Rows, Unlocked, LoggedIn, SetLock, Forever

\* So does the passing of time.
LEMMA AgeTypes ==
  ASSUME NEW row \in Rows
  PROVE  AgeRow(row) \in Rows
<1> row # Absent
  BY GuardAssumption
<1> Less(row.until) \in Nat \cup {Forever}
  BY DEF Rows, Less, Forever
<1> QED
  BY LimitsAssumption DEF Rows, AgeRow

\* So do the administrator's operations.
LEMMA ApplyTypes ==
  ASSUME NEW row \in Rows, NEW op \in AdminOps, NEW p,
         op = "reset" => p \in Passwords
  PROVE  Apply(op, row, p) \in Rows
<1>1. (IF op \in {"lock", "unlock"} THEN op = "lock" ELSE row.locked) \in BOOLEAN
  BY DEF Rows
<1>2. (IF op \in {"enable", "disable"} THEN op = "enable" ELSE row.active)
        \in BOOLEAN
  BY DEF Rows
<1>3. (IF op = "reset" THEN p ELSE row.pwd) \in Passwords
  BY DEF Rows
<1>4. (IF op \in {"lock", "unlock"} THEN Forever ELSE row.until)
        \in Nat \cup {Forever}
  BY DEF Rows
<1> QED
  BY <1>1, <1>2, <1>3, <1>4 DEF Apply, Rows

\* A fresh row is a row.
LEMMA NewRowType == \A p \in Passwords : NewRow(p) \in Rows
  BY LimitsAssumption DEF Rows, NewRow, Forever

\* The initial state is well typed.
LEMMA GuardInitTypeOK == Init => TypeOK
<1> SUFFICES ASSUME Init PROVE TypeOK
  OBVIOUS
<1>1. RequestOK(Idle)
  BY GuardAssumption
     DEF RequestOK, Idle, RequestStates, Steps, Errors, None, Saving
<1> QED
  BY <1>1, GuardAssumption, LimitsAssumption, NewRowType
     DEF Init, TypeOK, RequestOK, Counts, NoCount, NoBan, Forever

\* The part of TypeOK that is about requests.
RequestsOK ==
  req \in [Requests -> RequestStates] /\ \A r \in Requests : RequestOK(req[r])

\* A request slot that is freed is well typed.
LEMMA EndTypes ==
  ASSUME TypeOK, NEW r \in Requests, End(r)
  PROVE  RequestsOK'
<1> RequestOK(Idle)
  BY GuardAssumption
     DEF RequestOK, Idle, RequestStates, Steps, Errors, None, Saving
<1> QED
  BY DEF TypeOK, End, RequestsOK, RequestOK

\* A login that moves on with a copy of a row in hand is well typed, provided
\* it holds a row where it is going to save one.
LEMMA CarryTypes ==
  ASSUME TypeOK, NEW r \in Requests, req[r].pc \notin {"idle", "admin"},
         NEW pc \in Steps \ {"idle", "admin"}, NEW row \in Rows \cup {Absent},
         NEW err \in Errors,
         pc \in Saving => row \in Rows /\ req[r].user \in Users,
         Carry(r, pc, row, err)
  PROVE  RequestsOK'
<1> DEFINE q == [pc |-> pc, user |-> req[r].user, name |-> req[r].name,
                 ip |-> req[r].ip, pw |-> req[r].pw, ticket |-> req[r].ticket,
                 look |-> req[r].look, copy |-> row, err |-> err,
                 op |-> req[r].op]
<1>1. RequestOK(req[r])
  BY DEF TypeOK
<1>2. RequestOK(q)
  BY <1>1 DEF RequestOK, RequestStates
<1>3. req' = [req EXCEPT ![r] = q]
  BY DEF Carry
<1> QED
  BY <1>2, <1>3 DEF TypeOK, RequestsOK, RequestOK

\* So is a login that has looked its user up.
LEMMA FoundTypes ==
  ASSUME TypeOK, NEW r \in Requests, req[r].pc \notin {"idle", "admin"},
         NEW yes \in BOOLEAN, Found(r, "captcha", yes)
  PROVE  RequestsOK'
<1> DEFINE q == [pc |-> "captcha", user |-> req[r].user, name |-> req[r].name,
                 ip |-> req[r].ip, pw |-> req[r].pw, ticket |-> req[r].ticket,
                 look |-> yes, copy |-> Absent, err |-> "none", op |-> None]
<1>1. RequestOK(req[r])
  BY DEF TypeOK
<1>2. RequestOK(q)
  BY <1>1 DEF RequestOK, RequestStates, Steps, Errors, None, Saving
<1>3. req' = [req EXCEPT ![r] = q]
  BY DEF Found
<1> QED
  BY <1>2, <1>3 DEF TypeOK, RequestsOK, RequestOK

\* What Save writes is a row: an insert changes is_active only.
LEMMA StoredType ==
  \A u \in Users : \A row \in Rows : Stored(u, row) \in Rows
BY DEF Stored, Rows

\* What a login step that finds its request at one of the places below may
\* rely on.
LEMMA RequestFacts ==
  ASSUME TypeOK, NEW r \in Requests
  PROVE  /\ req[r] \in RequestStates
         /\ req[r].pc \notin {"idle", "admin"} =>
              /\ req[r].name \in Names /\ req[r].ip \in IPs
              /\ req[r].user = Owner[req[r].name]
         /\ req[r].pc \in Saving => req[r].copy \in Rows /\ req[r].user \in Users
         /\ RowOf(req[r].user) \in Rows \cup {Absent}
         /\ RowOf(req[r].user) \in Rows => req[r].user \in Users
         /\ req[r].copy \in Rows \cup {Absent} /\ req[r].err \in Errors
  BY GuardAssumption DEF TypeOK, RequestOK, RequestStates, RowOf

\* A failed password moves on to the directory, to the counters, or ends.
LEMMA FailTypes ==
  ASSUME TypeOK, NEW r \in Requests, req[r].pc \notin {"idle", "admin"},
         NEW err \in Errors, Fail(r, err) \/ AfterFail(r, err)
  PROVE  RequestsOK'
<1>1. CASE Carry(r, "ldap", Absent, err)
  BY <1>1, CarryTypes DEF Steps, Saving
<1>2. CASE Carry(r, "count", Absent, err)
  BY <1>2, CarryTypes DEF Steps, Saving
<1>3. CASE End(r)
  BY <1>3, EndTypes
<1> QED
  BY <1>1, <1>2, <1>3 DEF Fail, AfterFail

\* Verifying the password of a row keeps the types.
LEMMA VerifyTypes ==
  ASSUME TypeOK, NEW r \in Requests, req[r].pc \notin {"idle", "admin"},
         NEW row \in Rows, req[r].user \in Users, Verify(r, row)
  PROVE  RequestsOK'
<1>1. CASE Carry(r, "stamp", row, "none")
  BY <1>1, CarryTypes DEF Steps, Errors
<1>2. CASE Fail(r, "bad")
  BY <1>2, FailTypes DEF Errors
<1> QED
  BY <1>1, <1>2 DEF Verify

\* Every step of LoginGuard preserves TypeOK.
LEMMA GuardNextTypeOK == TypeOK /\ [Next]_vars => TypeOK'
<1> SUFFICES ASSUME TypeOK, [Next]_vars PROVE TypeOK'
  OBVIOUS
<1> USE GuardAssumption, LimitsAssumption DEF counters, bans
<1>1. ASSUME NEW n \in Names, NEW r \in Requests, NEW ip \in IPs,
             NEW pw \in Passwords, NEW ticket \in BOOLEAN,
             Start(r, n, ip, pw, ticket)
      PROVE TypeOK'
  BY <1>1 DEF TypeOK, Start, At, RequestStates, RequestOK, Steps, Errors, None,
     Saving
<1>2. ASSUME NEW r \in Requests, FindLoginUser(r) PROVE TypeOK'
  <2>1. RequestsOK'
    <3> DEFINE row == RowOf(req[r].user)
    <3>1. CASE Found(r, "captcha", FALSE) \/ Found(r, "captcha", TRUE)
      BY <1>2, <3>1, FoundTypes DEF FindLoginUser, At
    <3>2. CASE row \in Rows /\ Carry(r, "findsave", Unlocked(row), "none")
      BY <1>2, <3>2, CarryTypes, LockTypes, RequestFacts
         DEF FindLoginUser, At, Steps, Errors
    <3>3. CASE End(r)
      BY <3>3, EndTypes
    <3> QED
      BY <1>2, <3>1, <3>2, <3>3, RequestFacts DEF FindLoginUser
  <2> QED
    BY <1>2, <2>1 DEF TypeOK, RequestsOK, FindLoginUser
<1>3. ASSUME NEW r \in Requests, FindSave(r) PROVE TypeOK'
  <2>1. RequestsOK'
    BY <1>3, FoundTypes DEF FindSave, At
  <2> QED
    BY <1>3, <2>1, RequestFacts, StoredType DEF TypeOK, RequestsOK, FindSave, At, Save, Saving
<1>4. ASSUME NEW r \in Requests, PassCaptcha(r) PROVE TypeOK'
  <2>1. RequestsOK'
    BY <1>4, EndTypes, CarryTypes, RequestFacts
       DEF PassCaptcha, At, Goto, Steps, Saving
  <2> QED
    BY <1>4, <2>1 DEF TypeOK, RequestsOK, PassCaptcha
<1>5. ASSUME NEW r \in Requests, Authenticate(r) PROVE TypeOK'
  <2>1. RequestsOK'
    <3> DEFINE row == RowOf(req[r].user)
    <3>1. CASE \E err \in Errors : Fail(r, err)
      BY <1>5, <3>1, FailTypes DEF Authenticate, At
    <3>2. CASE row \in Rows /\ Carry(r, "authsave", Unlocked(row), "none")
      BY <1>5, <3>2, CarryTypes, LockTypes, RequestFacts
         DEF Authenticate, At, Steps, Errors
    <3>3. CASE row \in Rows /\ Verify(r, row)
      BY <1>5, <3>3, VerifyTypes, RequestFacts DEF Authenticate, At
    <3> QED
      BY <1>5, <3>1, <3>2, <3>3, RequestFacts DEF Authenticate, Errors
  <2> QED
    BY <1>5, <2>1 DEF TypeOK, RequestsOK, Authenticate
<1>6. ASSUME NEW r \in Requests, AuthSave(r) PROVE TypeOK'
  <2>1. RequestsOK'
    BY <1>6, VerifyTypes, RequestFacts DEF AuthSave, At, Saving
  <2> QED
    BY <1>6, <2>1, RequestFacts, StoredType DEF TypeOK, RequestsOK, AuthSave, At, Save, Saving
<1>7. ASSUME NEW r \in Requests, LdapReject(r) PROVE TypeOK'
  <2>1. RequestsOK'
    BY <1>7, FailTypes, RequestFacts DEF LdapReject, At
  <2> QED
    BY <1>7, <2>1 DEF TypeOK, RequestsOK, LdapReject
<1>8. ASSUME NEW r \in Requests, NEW p \in Passwords, LdapAccept(r, p)
      PROVE TypeOK'
  <2>1. req[r].user \in Users
    BY <1>8, RequestFacts DEF LdapAccept, At
  <2>2. RequestsOK'
    BY <1>8, <2>1, CarryTypes, RequestFacts
       DEF LdapAccept, At, RowOf, Steps, Saving
  <2> QED
    BY <1>8, <2>1, <2>2, NewRowType, StoredType DEF TypeOK, RequestsOK, LdapAccept, Save
<1>9. ASSUME NEW r \in Requests, Stamp(r) PROVE TypeOK'
  <2>1. RequestsOK'
    BY <1>9, CarryTypes, RequestFacts DEF Stamp, At, Steps, Saving
  <2> QED
    BY <1>9, <2>1, RequestFacts, LockTypes, StoredType
       DEF TypeOK, RequestsOK, Stamp, At, Save, Saving
<1>10. ASSUME NEW r \in Requests, Reread(r) PROVE TypeOK'
  <2>1. RequestsOK'
    <3>1. CASE Goto(r, "rules")
      BY <1>10, <3>1, CarryTypes, RequestFacts DEF Reread, At, Goto, Steps, Saving
    <3>2. CASE Fail(r, "bad") \/ AfterFail(r, req[r].err)
      BY <1>10, <3>2, FailTypes, RequestFacts DEF Reread, At, Errors
    <3> QED
      BY <1>10, <3>1, <3>2 DEF Reread
  <2> QED
    BY <1>10, <2>1 DEF TypeOK, RequestsOK, Reread
<1>11. ASSUME NEW r \in Requests, RulesDeny(r) \/ RulesAllow(r) PROVE TypeOK'
  <2>1. RequestsOK'
    BY <1>11, EndTypes, CarryTypes, RequestFacts
       DEF RulesDeny, RulesAllow, At, Goto, Steps, Saving
  <2> QED
    BY <1>11, <2>1 DEF TypeOK, RequestsOK, RulesDeny, RulesAllow
<1>12. ASSUME NEW r \in Requests, ClearFailures(r) PROVE TypeOK'
  <2>1. RequestsOK'
    BY <1>12, EndTypes DEF ClearFailures
  <2> QED
    BY <1>12, <2>1 DEF TypeOK, RequestsOK, ClearFailures, Counts, NoCount
<1>13. ASSUME NEW r \in Requests, RecordUserFail(r) PROVE TypeOK'
  <2>1. RequestsOK'
    BY <1>13, CarryTypes, RequestFacts
       DEF RecordUserFail, At, Goto, Steps, Saving
  <2>2. userFail' \in [Names -> Counts]
    <3>1. userFail[req[r].name] \in Counts
      BY <1>13, RequestFacts DEF TypeOK, RecordUserFail, At
    <3>2. Incr(userFail[req[r].name], FailWindow) \in Counts
      BY <3>1 DEF Counts, Incr
    <3> QED
      BY <1>13, <3>2 DEF TypeOK, RecordUserFail
  <2> QED
    BY <1>13, <2>1, <2>2 DEF TypeOK, RequestsOK, RecordUserFail
<1>14. ASSUME NEW r \in Requests, LockRead(r) PROVE TypeOK'
  <2>1. RequestsOK'
    BY <1>14, CarryTypes, RequestFacts DEF LockRead, At, Goto, Steps, Saving
  <2> QED
    BY <1>14, <2>1 DEF TypeOK, RequestsOK, LockRead
<1>15. ASSUME NEW r \in Requests, LockSave(r) PROVE TypeOK'
  <2>1. RequestsOK'
    BY <1>15, CarryTypes, RequestFacts DEF LockSave, At, Steps, Saving
  <2>2. (IF LockDuration > 0 THEN LockDuration ELSE Forever) \in Nat \cup {Forever}
    OBVIOUS
  <2> QED
    BY <1>15, <2>1, <2>2, RequestFacts, LockTypes, StoredType
       DEF TypeOK, RequestsOK, LockSave, At, Save, Saving
<1>16. ASSUME NEW r \in Requests, LockClear(r) PROVE TypeOK'
  <2>1. RequestsOK'
    BY <1>16, EndTypes DEF LockClear
  <2> QED
    BY <1>16, <2>1 DEF TypeOK, RequestsOK, LockClear, Counts, NoCount
<1>17. ASSUME NEW r \in Requests, RecordIPFail(r) PROVE TypeOK'
  <2>1. RequestsOK'
    BY <1>17, EndTypes, CarryTypes, RequestFacts
       DEF RecordIPFail, At, Goto, Steps, Saving
  <2> QED
    BY <1>17, <2>1 DEF TypeOK, RequestsOK, RecordIPFail, Counts, Incr
<1>18. ASSUME NEW r \in Requests, UpsertAutoBan(r) PROVE TypeOK'
  <2>1. RequestsOK'
    BY <1>18, CarryTypes, RequestFacts DEF UpsertAutoBan, At, Goto, Steps, Saving
  <2> QED
    BY <1>18, <2>1 DEF TypeOK, RequestsOK, UpsertAutoBan, Forever, NoBan
<1>19. ASSUME NEW r \in Requests, BanClear(r) PROVE TypeOK'
  <2>1. RequestsOK'
    BY <1>19, EndTypes DEF BanClear
  <2> QED
    BY <1>19, <2>1 DEF TypeOK, RequestsOK, BanClear, Counts, NoCount
<1>20. ASSUME NEW r \in Requests, AdminSave(r) PROVE TypeOK'
  <2>1. RequestsOK'
    BY <1>20, EndTypes DEF AdminSave
  <2>2. req[r].user \in Users /\ Apply(req[r].op, req[r].copy, req[r].pw) \in Rows
    BY <1>20, ApplyTypes DEF TypeOK, RequestOK, AdminSave, At, Saving
  <2> QED
    BY <1>20, <2>1, <2>2, StoredType DEF TypeOK, RequestsOK, AdminSave, Save
<1>21. ASSUME NEW r \in Requests, NEW u \in Users, NEW op \in AdminOps,
              NEW p \in Passwords \cup {None}, AdminRead(r, u, op, p)
       PROVE TypeOK'
  BY <1>21 DEF TypeOK, AdminRead, At, RequestStates, RequestOK, Steps, Errors, None,
     Saving
<1>22. ASSUME NEW u \in Deletable, DeleteUser(u) PROVE TypeOK'
  BY <1>22 DEF TypeOK, DeleteUser
<1>23. ASSUME NEW ip \in IPs,
              BanByHand(ip) \/ DeleteManualBan(ip) \/ DeleteAutoBan(ip)
       PROVE TypeOK'
  BY <1>23 DEF TypeOK, BanByHand, DeleteManualBan, DeleteAutoBan, NoBan
<1>24. CASE SweepRead
  BY <1>24 DEF TypeOK, SweepRead, Inactive
<1>25. ASSUME NEW u \in Users, SweepSave(u) PROVE TypeOK'
  <2>1. sweep[u] \in Rows
    BY <1>25 DEF TypeOK, SweepSave
  <2>2. SetLock(sweep[u], TRUE, sweep[u].until) \in Rows
    BY <2>1, LockTypes DEF Rows
  <2> QED
    BY <1>25, <2>2, StoredType DEF TypeOK, SweepSave, Save
<1>26. CASE PurgeBans
  BY <1>26 DEF TypeOK, PurgeBans, NoBan
<1>27. CASE Gc
  BY <1>27 DEF TypeOK, Gc, Drop, Counts, NoCount
<1>28. CASE Tick
  <2>1. rows' \in [Users -> Rows \cup {Absent}]
    BY <1>28, AgeTypes DEF TypeOK, Tick, AgeRow
  <2>2. userFail' \in [Names -> Counts] /\ ipFail' \in [IPs -> Counts]
    BY <1>28 DEF TypeOK, Tick, AgeCount, Counts, NoCount, Less
  <2>3. autoBan' \in [IPs -> Nat \cup {Forever, NoBan}]
    BY <1>28 DEF TypeOK, Tick, Less, Forever, NoBan
  <2>4. sweep' \in [DOMAIN sweep -> Rows] /\ DOMAIN sweep' = DOMAIN sweep
    BY <1>28, AgeTypes DEF TypeOK, Tick
  <2>5. ASSUME NEW r \in Requests PROVE RequestOK(AgeRequest(req[r]))
    <3>1. RequestOK(req[r])
      BY DEF TypeOK
    <3>2. AgeRow(req[r].copy) \in Rows \cup {Absent}
      BY <3>1, AgeTypes DEF RequestOK, RequestStates, AgeRow
    <3>3. req[r].copy \in Rows => AgeRow(req[r].copy) \in Rows
      BY AgeTypes
    <3> QED
      BY <3>1, <3>2, <3>3 DEF AgeRequest, RequestOK, RequestStates
  <2>6. RequestsOK'
    BY <1>28, <2>5 DEF Tick, RequestsOK, RequestOK
  <2> QED
    BY <1>28, <2>1, <2>2, <2>3, <2>4, <2>6 DEF TypeOK, RequestsOK, Tick
<1>29. CASE Restart
  <2>1. RequestOK(Idle)
    BY DEF RequestOK, Idle, RequestStates, Steps, Errors, None, Saving
  <2>2. RequestsOK'
    BY <1>29, <2>1 DEF RequestsOK, RequestOK, Restart
  <2>3. /\ userFail' \in [Names -> Counts] /\ ipFail' \in [IPs -> Counts]
        /\ loginFail' \in [Names \X IPs -> Nat]
    <3>1. CASE Persistent
      BY <1>29, <3>1 DEF TypeOK, Restart
    <3>2. CASE ~Persistent
      BY <1>29, <3>2 DEF Restart, Counts, NoCount
    <3> QED
      BY <3>1, <3>2
  <2>4. sweep' \in [{} -> Rows] /\ DOMAIN sweep' = {}
    BY <1>29 DEF Restart
  <2> QED
    BY <1>29, <2>2, <2>3, <2>4 DEF TypeOK, RequestsOK, Restart
<1>30. CASE UNCHANGED vars
  BY <1>30 DEF TypeOK, vars
<1> QED
  BY ONLY [Next]_vars, <1>1, <1>2, <1>3, <1>4, <1>5, <1>6, <1>7, <1>8, <1>9, <1>10, <1>11,
     <1>12, <1>13, <1>14, <1>15, <1>16, <1>17, <1>18, <1>19, <1>20, <1>21,
     <1>22, <1>23, <1>24, <1>25, <1>26, <1>27, <1>28, <1>29, <1>30
     DEF Next, Steady, LoginStep, Arrive, Sweep

\* Type correctness of the login guard.
THEOREM GuardTypeCorrect == Spec => []TypeOK
  BY GuardInitTypeOK, GuardNextTypeOK, PTL DEF Spec

-----------------------------------------------------------------------------
(* Who has a row *)

\* A user who was never without a row has one, and a login past FindLoginUser
\* knows it.
Looked == Steps \ {"idle", "admin", "find", "findsave"}
PresentInv ==
  /\ TypeOK
  /\ \A u \in Users \ gone : rows[u] # Absent
  /\ \A r \in Requests :
       req[r].pc \in Looked /\ req[r].user \in Users \ gone => req[r].look

\* Saving a row never takes one away.
LEMMA SavePresent ==
  ASSUME TypeOK, NEW u \in Users, NEW row \in Rows, Save(u, row)
  PROVE  \A x \in Users : rows[x] # Absent => rows'[x] # Absent
<1> Stored(u, row) # Absent
  BY StoredType, GuardAssumption
<1> QED
  BY DEF TypeOK, Save

\* Every step preserves PresentInv: only DeleteUser removes a row.
LEMMA NextPresentInv == PresentInv /\ [Next]_vars => PresentInv'
<1> SUFFICES ASSUME PresentInv, [Next]_vars PROVE PresentInv'
  OBVIOUS
<1> TypeOK /\ TypeOK'
  BY GuardNextTypeOK DEF PresentInv
<1> USE GuardAssumption DEF counters, bans
<1>1. ASSUME NEW n \in Names, NEW r \in Requests, NEW ip \in IPs,
             NEW pw \in Passwords, NEW ticket \in BOOLEAN,
             Start(r, n, ip, pw, ticket)
      PROVE PresentInv'
  BY <1>1 DEF PresentInv, Start, Looked, TypeOK
<1>2. ASSUME NEW r \in Requests, FindLoginUser(r) PROVE PresentInv'
  BY <1>2 DEF PresentInv, TypeOK, Looked, At, FindLoginUser, RowOf,
     Found, Carry, End, Idle
<1>3. ASSUME NEW r \in Requests, FindSave(r) PROVE PresentInv'
  <2>1. \A u \in Users : rows[u] # Absent => rows'[u] # Absent
    BY <1>3, SavePresent, RequestFacts DEF FindSave, At, Saving
  <2> QED
    BY <1>3, <2>1 DEF PresentInv, TypeOK, Looked, At, FindSave, Found
<1>4. ASSUME NEW r \in Requests, PassCaptcha(r) PROVE PresentInv'
  BY <1>4 DEF PresentInv, TypeOK, Looked, At, PassCaptcha, Goto, Carry,
     End, Idle, Steps
<1>5. ASSUME NEW r \in Requests, Authenticate(r) PROVE PresentInv'
  BY <1>5 DEF PresentInv, TypeOK, Looked, At, Authenticate, Fail,
     AfterFail, Verify, Carry, End, Idle, Steps
<1>6. ASSUME NEW r \in Requests, AuthSave(r) PROVE PresentInv'
  BY <1>6, StoredType DEF PresentInv, TypeOK, Looked, At, AuthSave, Save, Fail,
     AfterFail, Verify, Carry, End, Idle, Steps, RequestOK, Saving
<1>7. ASSUME NEW r \in Requests, LdapReject(r) PROVE PresentInv'
  BY <1>7 DEF PresentInv, TypeOK, Looked, At, LdapReject, AfterFail,
     Carry, End, Idle, Steps
<1>8. ASSUME NEW r \in Requests, NEW p \in Passwords, LdapAccept(r, p)
      PROVE PresentInv'
  BY <1>8, NewRowType, StoredType DEF PresentInv, TypeOK, Looked, At, LdapAccept, Save, Carry,
     Steps
<1>9. ASSUME NEW r \in Requests, Stamp(r) PROVE PresentInv'
  BY <1>9, LockTypes, StoredType DEF PresentInv, TypeOK, Looked, At, Stamp, Save, Carry,
     Steps, RequestOK, Saving
<1>10. ASSUME NEW r \in Requests, Reread(r) PROVE PresentInv'
  BY <1>10 DEF PresentInv, TypeOK, Looked, At, Reread, Goto, Fail,
     AfterFail, Carry, End, Idle, Steps
<1>11. ASSUME NEW r \in Requests, RulesDeny(r) \/ RulesAllow(r) PROVE PresentInv'
  BY <1>11 DEF PresentInv, TypeOK, Looked, At, RulesDeny,
     RulesAllow, Goto, Carry, End, Idle, Steps
<1>12. ASSUME NEW r \in Requests, ClearFailures(r) PROVE PresentInv'
  BY <1>12 DEF PresentInv, TypeOK, Looked, At, ClearFailures, End, Idle
<1>13. ASSUME NEW r \in Requests, RecordUserFail(r) PROVE PresentInv'
  BY <1>13 DEF PresentInv, TypeOK, Looked, At, RecordUserFail, Goto,
     Carry, Steps
<1>14. ASSUME NEW r \in Requests, LockRead(r) PROVE PresentInv'
  BY <1>14 DEF PresentInv, TypeOK, Looked, At, LockRead, Goto, Carry,
     Steps
<1>15. ASSUME NEW r \in Requests, LockSave(r) PROVE PresentInv'
  <2>1. (IF LockDuration > 0 THEN LockDuration ELSE Forever) \in Nat \cup {Forever}
    BY LimitsAssumption
  <2>2. \A u \in Users : rows[u] # Absent => rows'[u] # Absent
    BY <1>15, <2>1, SavePresent, LockTypes, RequestFacts DEF LockSave, At, Saving
  <2> QED
    BY <1>15, <2>2 DEF PresentInv, TypeOK, Looked, At, LockSave, Carry, Steps
<1>16. ASSUME NEW r \in Requests, LockClear(r) PROVE PresentInv'
  BY <1>16 DEF PresentInv, TypeOK, Looked, At, LockClear, End, Idle
<1>17. ASSUME NEW r \in Requests, RecordIPFail(r) PROVE PresentInv'
  BY <1>17 DEF PresentInv, TypeOK, Looked, At, RecordIPFail, Goto,
     Carry, End, Idle, Steps
<1>18. ASSUME NEW r \in Requests, UpsertAutoBan(r) PROVE PresentInv'
  BY <1>18 DEF PresentInv, TypeOK, Looked, At, UpsertAutoBan, Goto,
     Carry, Steps
<1>19. ASSUME NEW r \in Requests, BanClear(r) PROVE PresentInv'
  BY <1>19 DEF PresentInv, TypeOK, Looked, At, BanClear, End, Idle
<1>20. ASSUME NEW r \in Requests, AdminSave(r) PROVE PresentInv'
  <2>1. req[r].user \in Users /\ Apply(req[r].op, req[r].copy, req[r].pw) \in Rows
    BY <1>20, ApplyTypes DEF TypeOK, RequestOK, AdminSave, At, Saving
  <2>2. \A u \in Users : rows[u] # Absent => rows'[u] # Absent
    BY <1>20, <2>1, SavePresent DEF AdminSave
  <2> QED
    BY <1>20, <2>2 DEF PresentInv, TypeOK, Looked, AdminSave, End, Idle
<1>21. ASSUME NEW r \in Requests, NEW u \in Users, NEW op \in AdminOps,
              NEW p \in Passwords \cup {None}, AdminRead(r, u, op, p)
       PROVE PresentInv'
  BY <1>21 DEF PresentInv, TypeOK, Looked, AdminRead
<1>22. ASSUME NEW u \in Deletable, DeleteUser(u) PROVE PresentInv'
  BY <1>22 DEF PresentInv, TypeOK, DeleteUser
<1>23. ASSUME NEW ip \in IPs,
              BanByHand(ip) \/ DeleteManualBan(ip) \/ DeleteAutoBan(ip)
       PROVE PresentInv'
  BY <1>23 DEF PresentInv, BanByHand, DeleteManualBan, DeleteAutoBan
<1>24. CASE SweepRead \/ PurgeBans \/ Gc
  BY <1>24 DEF PresentInv, SweepRead, PurgeBans, Gc
<1>25. ASSUME NEW u \in Users, SweepSave(u) PROVE PresentInv'
  <2>1. sweep[u] \in Rows
    BY <1>25 DEF TypeOK, SweepSave
  <2>2. SetLock(sweep[u], TRUE, sweep[u].until) \in Rows
    BY <2>1, LockTypes DEF Rows
  <2>3. \A x \in Users : rows[x] # Absent => rows'[x] # Absent
    BY <1>25, <2>2, SavePresent DEF SweepSave
  <2> QED
    BY <1>25, <2>3 DEF PresentInv, SweepSave
<1>26. CASE Tick
  <2>1. \A u \in Users : rows[u] # Absent => rows'[u] # Absent
    BY <1>26, AgeTypes DEF TypeOK, Tick
  <2>2. \A r \in Requests : /\ req'[r].pc = req[r].pc /\ req'[r].user = req[r].user
                            /\ req'[r].look = req[r].look
    BY <1>26 DEF Tick, AgeRequest
  <2> QED
    BY <1>26, <2>1, <2>2 DEF PresentInv, Tick
<1>27. CASE Restart
  BY <1>27 DEF PresentInv, Restart, Idle, Looked
<1>28. CASE UNCHANGED vars
  BY <1>28 DEF PresentInv, vars
<1> QED
  BY ONLY [Next]_vars, <1>1, <1>2, <1>3, <1>4, <1>5, <1>6, <1>7, <1>8, <1>9, <1>10, <1>11,
     <1>12, <1>13, <1>14, <1>15, <1>16, <1>17, <1>18, <1>19, <1>20, <1>21,
     <1>22, <1>23, <1>24, <1>25, <1>26, <1>27, <1>28
     DEF Next, Steady, LoginStep, Arrive, Sweep

-----------------------------------------------------------------------------
(* Failures are bounded *)

\* The strengthening of FailuresBounded.
BoundInv == PresentInv /\ FailuresBounded

LockSteps == {"lockread", "locksave", "lockclear"}

\* Any set of requests is finite.
LEMMA RequestsFinite ==
  \A S \in SUBSET Requests : IsFiniteSet(S) /\ Cardinality(S) \in Nat
  BY GuardAssumption, FS_Subset, FS_CardinalityType

\* A step that leaves the counter of a name alone, or takes from it, and takes
\* nobody out of the lock, keeps the bound; so does one that deletes it.
LEMMA BoundKept ==
  ASSUME FailuresBounded, TypeOK, TypeOK', gone \subseteq gone',
         \A n \in Names :
           \/ userFail'[n].n = 0
           \/ userFail'[n].n <= userFail[n].n /\ Locking(n)' = Locking(n)
  PROVE  FailuresBounded'
<1> SUFFICES ASSUME ~Persistent, NEW n \in Names, Owner[n] \in Users \ gone'
             PROVE  userFail'[n].n <= LockThreshold - 1 + Cardinality(Locking(n)')
  BY DEF FailuresBounded
<1>1. Cardinality(Locking(n)) \in Nat /\ Cardinality(Locking(n)') \in Nat
  BY RequestsFinite DEF Locking
<1>2. userFail[n].n <= LockThreshold - 1 + Cardinality(Locking(n))
  BY DEF FailuresBounded
<1>3. userFail[n].n \in Nat /\ userFail'[n].n \in Nat
  BY DEF TypeOK, Counts
<1> QED
  BY <1>1, <1>2, <1>3, LimitsAssumption

\* A step of one request that is neither before nor after it in the lock
\* leaves every Locking(n) as it is.
LEMMA LockingKept ==
  ASSUME NEW r \in Requests,
         \A q \in Requests \ {r} : req'[q] = req[q],
         \/ req[r].pc \notin LockSteps /\ req'[r].pc \notin LockSteps
         \/ /\ req[r].pc \in LockSteps /\ req'[r].pc \in LockSteps
            /\ req'[r].name = req[r].name
  PROVE  \A n : Locking(n)' = Locking(n)
  BY DEF Locking, LockSteps

\* Every step preserves BoundInv.
LEMMA NextBoundInv == BoundInv /\ [Next]_vars => BoundInv'
<1> SUFFICES ASSUME BoundInv, [Next]_vars PROVE FailuresBounded'
  BY NextPresentInv DEF BoundInv
<1> TypeOK /\ TypeOK' /\ PresentInv
  BY GuardNextTypeOK DEF BoundInv, PresentInv
<1> FailuresBounded
  BY DEF BoundInv
<1> USE DEF counters, bans
\* Steps of a request outside the lock that count no failure of a user.
<1>1. ASSUME NEW r \in Requests, UNCHANGED <<userFail, gone>>,
             \A q \in Requests \ {r} : req'[q] = req[q],
             req[r].pc \notin LockSteps, req'[r].pc \notin LockSteps
      PROVE FailuresBounded'
  <2>1. \A n : Locking(n)' = Locking(n)
    BY <1>1, LockingKept
  <2> QED
    BY <1>1, <2>1, BoundKept DEF TypeOK, Counts
<1>2. ASSUME NEW n \in Names, NEW r \in Requests, NEW ip \in IPs,
             NEW pw \in Passwords, NEW ticket \in BOOLEAN,
             Start(r, n, ip, pw, ticket)
      PROVE FailuresBounded'
  BY <1>2, <1>1 DEF TypeOK, Start, At, LockSteps
<1>3. ASSUME NEW r \in Requests, FindLoginUser(r) PROVE FailuresBounded'
  BY SMTT(30), <1>3, <1>1 DEF TypeOK, At, LockSteps, FindLoginUser, Found, Carry, End,
     Idle
<1>4. ASSUME NEW r \in Requests, FindSave(r) PROVE FailuresBounded'
  BY <1>4, <1>1 DEF TypeOK, At, LockSteps, FindSave, Found
<1>5. ASSUME NEW r \in Requests, PassCaptcha(r) PROVE FailuresBounded'
  BY <1>5, <1>1 DEF TypeOK, At, LockSteps, PassCaptcha, Goto, Carry, End, Idle
<1>6. ASSUME NEW r \in Requests, Authenticate(r) PROVE FailuresBounded'
  BY SMTT(30), <1>6, <1>1 DEF TypeOK, At, LockSteps, Authenticate, Fail, AfterFail, Verify,
     Carry, End, Idle
<1>7. ASSUME NEW r \in Requests, AuthSave(r) PROVE FailuresBounded'
  BY <1>7, <1>1 DEF TypeOK, At, LockSteps, AuthSave, Fail, AfterFail, Verify, Carry,
     End, Idle
<1>8. ASSUME NEW r \in Requests, LdapReject(r) PROVE FailuresBounded'
  BY <1>8, <1>1 DEF TypeOK, At, LockSteps, LdapReject, AfterFail, Carry, End, Idle
<1>9. ASSUME NEW r \in Requests, NEW p \in Passwords, LdapAccept(r, p)
      PROVE FailuresBounded'
  BY <1>9, <1>1 DEF TypeOK, At, LockSteps, LdapAccept, Carry
<1>10. ASSUME NEW r \in Requests, Stamp(r) PROVE FailuresBounded'
  BY <1>10, <1>1 DEF TypeOK, At, LockSteps, Stamp, Carry
<1>11. ASSUME NEW r \in Requests, Reread(r) PROVE FailuresBounded'
  BY <1>11, <1>1 DEF TypeOK, At, LockSteps, Reread, Goto, Fail, AfterFail, Carry,
     End, Idle
<1>12. ASSUME NEW r \in Requests, RulesDeny(r) \/ RulesAllow(r) PROVE FailuresBounded'
  BY <1>12, <1>1 DEF TypeOK, At, LockSteps, RulesDeny, RulesAllow,
     Goto, Carry, End, Idle
<1>13. ASSUME NEW r \in Requests, ClearFailures(r) PROVE FailuresBounded'
  <2>1. \A n : Locking(n)' = Locking(n)
    BY <1>13, LockingKept DEF TypeOK, ClearFailures, At, End, Idle, LockSteps
  <2>2. req[r].name \in Names
    BY <1>13, RequestFacts DEF ClearFailures, At
  <2> QED
    BY <1>13, <2>1, <2>2, BoundKept DEF TypeOK, ClearFailures, Counts, NoCount
<1>14. ASSUME NEW r \in Requests, RecordUserFail(r) PROVE FailuresBounded'
  <2> SUFFICES ASSUME ~Persistent, NEW n \in Names, Owner[n] \in Users \ gone'
               PROVE  userFail'[n].n <= LockThreshold - 1 + Cardinality(Locking(n)')
    BY DEF FailuresBounded
  <2>1. userFail[n].n <= LockThreshold - 1 + Cardinality(Locking(n))
    BY <1>14 DEF FailuresBounded, RecordUserFail
  <2>2. Cardinality(Locking(n)) \in Nat /\ Cardinality(Locking(n)') \in Nat
    BY RequestsFinite DEF Locking
  <2>3. userFail[n] \in Counts
    BY DEF TypeOK
  <2>4. CASE req[r].name = n
    <3>1. req[r].look
      BY <1>14, <2>4, RequestFacts
         DEF PresentInv, Looked, Steps, RecordUserFail, At
    <3>2. userFail'[n].n = userFail[n].n + 1
      BY <1>14, <2>4 DEF TypeOK, RecordUserFail, Incr
    <3>3. CASE userFail[n].n + 1 >= LockThreshold
      <4>1. Locking(n)' = Locking(n) \cup {r} /\ r \notin Locking(n)
        BY <1>14, <2>4, <3>1, <3>3
           DEF TypeOK, RecordUserFail, At, Goto, Carry, Incr, ReachesLock, Locking
      <4>2. IsFiniteSet(Locking(n))
        BY RequestsFinite DEF Locking
      <4>3. Cardinality(Locking(n)') = Cardinality(Locking(n)) + 1
        BY <4>1, <4>2, FS_AddElement
      <4> QED
        BY <2>1, <2>2, <2>3, <3>2, <4>3, LimitsAssumption DEF Counts
    <3>4. CASE ~(userFail[n].n + 1 >= LockThreshold)
      BY <2>2, <2>3, <3>2, <3>4, LimitsAssumption DEF Counts
    <3> QED
      BY <3>3, <3>4
  <2>5. CASE req[r].name # n
    <3>1. Locking(n)' = Locking(n)
      BY <1>14, <2>5 DEF TypeOK, RecordUserFail, At, Goto, Carry, Locking
    <3>2. userFail'[n] = userFail[n]
      BY <1>14, <2>5 DEF TypeOK, RecordUserFail
    <3> QED
      BY <2>1, <3>1, <3>2
  <2> QED
    BY <2>4, <2>5
<1>15. ASSUME NEW r \in Requests, LockRead(r) PROVE FailuresBounded'
  <2>1. CASE RowOf(req[r].user) # Absent
    <3>1. \A n : Locking(n)' = Locking(n)
      BY <1>15, <2>1, LockingKept DEF TypeOK, LockRead, At, Carry, LockSteps
    <3> QED
      BY <1>15, <3>1, BoundKept DEF TypeOK, LockRead, Counts
  <2>2. CASE RowOf(req[r].user) = Absent
    <3> SUFFICES ASSUME ~Persistent, NEW n \in Names, Owner[n] \in Users \ gone'
                 PROVE  userFail'[n].n <=
                          LockThreshold - 1 + Cardinality(Locking(n)')
      BY DEF FailuresBounded
    <3>1. req[r].name # n
      BY <1>15, <2>2, RequestFacts DEF PresentInv, LockRead, At, RowOf
    <3>2. Locking(n)' = Locking(n)
      BY <1>15, <3>1 DEF TypeOK, LockRead, At, Goto, Carry, Locking
    <3> QED
      BY <1>15, <3>2 DEF FailuresBounded, LockRead
  <2> QED
    BY <2>1, <2>2
<1>16. ASSUME NEW r \in Requests, LockSave(r) PROVE FailuresBounded'
  <2>1. \A n : Locking(n)' = Locking(n)
    BY <1>16, LockingKept DEF TypeOK, LockSave, At, Carry, LockSteps
  <2> QED
    BY <1>16, <2>1, BoundKept DEF TypeOK, LockSave, Counts
<1>17. ASSUME NEW r \in Requests, LockClear(r) PROVE FailuresBounded'
  <2>1. req[r].name \in Names
    BY <1>17, RequestFacts DEF LockClear, At
  <2>2. \A n \in Names \ {req[r].name} : Locking(n)' = Locking(n)
    BY <1>17 DEF TypeOK, LockClear, At, End, Idle, Locking
  <2> QED
    BY <1>17, <2>1, <2>2, BoundKept DEF TypeOK, LockClear, Counts, NoCount
<1>18. ASSUME NEW r \in Requests, RecordIPFail(r) PROVE FailuresBounded'
  BY <1>18, <1>1 DEF TypeOK, At, LockSteps, RecordIPFail, Goto, Carry, End, Idle
<1>19. ASSUME NEW r \in Requests, UpsertAutoBan(r) PROVE FailuresBounded'
  BY <1>19, <1>1 DEF TypeOK, At, LockSteps, UpsertAutoBan, Goto, Carry
<1>20. ASSUME NEW r \in Requests, BanClear(r) PROVE FailuresBounded'
  BY <1>20, <1>1 DEF TypeOK, At, LockSteps, BanClear, End, Idle
<1>21. ASSUME NEW r \in Requests, AdminSave(r) PROVE FailuresBounded'
  BY <1>21, <1>1 DEF TypeOK, At, LockSteps, AdminSave, End, Idle
<1>22. ASSUME NEW r \in Requests, NEW u \in Users, NEW op \in AdminOps,
              NEW p \in Passwords \cup {None}, AdminRead(r, u, op, p)
       PROVE FailuresBounded'
  BY <1>22, <1>1 DEF TypeOK, AdminRead, At, LockSteps
\* Steps of nobody's request.
<1>23. ASSUME UNCHANGED <<req, userFail>>, gone \subseteq gone' PROVE FailuresBounded'
  BY <1>23, BoundKept DEF Locking, TypeOK, Counts
<1>24. /\ \A u \in Deletable : DeleteUser(u) => FailuresBounded'
       /\ \A u \in Users : SweepSave(u) => FailuresBounded'
  BY <1>23 DEF DeleteUser, SweepSave
<1>25. ASSUME NEW ip \in IPs,
              BanByHand(ip) \/ DeleteManualBan(ip) \/ DeleteAutoBan(ip)
       PROVE FailuresBounded'
  BY <1>25, <1>23 DEF BanByHand, DeleteManualBan, DeleteAutoBan
<1>26. CASE SweepRead \/ PurgeBans \/ UNCHANGED vars
  BY <1>26, <1>23 DEF SweepRead, PurgeBans, vars
<1>27. CASE Gc
  <2>1. \A n \in Names : userFail'[n] = userFail[n] \/ userFail'[n].n = 0
    BY <1>27 DEF Gc, Drop, NoCount
  <2>2. \A n : Locking(n)' = Locking(n)
    BY <1>27 DEF Gc, Locking
  <2> QED
    BY <1>27, <2>1, <2>2, BoundKept DEF Gc, TypeOK, Counts
<1>28. CASE Tick
  <2>1. \A n \in Names : userFail'[n].n = userFail[n].n \/ userFail'[n].n = 0
    BY <1>28 DEF Tick, AgeCount, NoCount
  <2>2. \A n : Locking(n)' = Locking(n)
    BY <1>28 DEF Tick, AgeRequest, Locking
  <2> QED
    BY <1>28, <2>1, <2>2, BoundKept DEF Tick, TypeOK, Counts
<1>29. CASE Restart
  <2>1. CASE Persistent
    BY <2>1 DEF FailuresBounded
  <2>2. CASE ~Persistent
    BY <1>29, <2>2, BoundKept DEF Restart, NoCount
  <2> QED
    BY <2>1, <2>2
<1> QED
  BY ONLY [Next]_vars, <1>2, <1>3, <1>4, <1>5, <1>6, <1>7, <1>8, <1>9,
     <1>10, <1>11, <1>12,
     <1>13, <1>14, <1>15, <1>16, <1>17, <1>18, <1>19, <1>20, <1>21, <1>22,
     <1>23, <1>24, <1>25, <1>26, <1>27, <1>28, <1>29
     DEF Next, Steady, LoginStep, Arrive, Sweep

\* No interleaving of logins, administration, clock ticks and crashes lets the
\* failures of a name slip past the lockout threshold, for any number of
\* requests and any threshold.
THEOREM LockoutHolds == Spec => []FailuresBounded
<1>1. Init => BoundInv
  <2> SUFFICES ASSUME Init PROVE BoundInv
    OBVIOUS
  <2>1. PresentInv
    BY GuardInitTypeOK, GuardAssumption, NewRowType
       DEF Init, PresentInv, Looked, Idle
  <2>2. FailuresBounded
    BY SMTT(30), RequestsFinite, LimitsAssumption
       DEF Init, FailuresBounded, NoCount, Locking
  <2> QED
    BY <2>1, <2>2 DEF BoundInv
<1>2. BoundInv /\ [Next]_vars => BoundInv'
  BY NextBoundInv
<1>3. BoundInv => FailuresBounded
  BY DEF BoundInv
<1> QED
  BY <1>1, <1>2, <1>3, PTL DEF Spec

-----------------------------------------------------------------------------
(* Failures of an address are bounded *)

BanSteps == {"ban", "banclear"}

\* The analogue of BoundKept for the counters of addresses.
LEMMA IPBoundKept ==
  ASSUME IPFailuresBounded, TypeOK, TypeOK',
         \A ip \in IPs :
           \/ ipFail'[ip].n = 0
           \/ ipFail'[ip].n <= ipFail[ip].n /\ Banning(ip)' = Banning(ip)
  PROVE  IPFailuresBounded'
<1> SUFFICES ASSUME ~Persistent, NEW ip \in IPs
             PROVE  ipFail'[ip].n <= IPBanThreshold - 1 + Cardinality(Banning(ip)')
  BY DEF IPFailuresBounded
<1>1. Cardinality(Banning(ip)) \in Nat /\ Cardinality(Banning(ip)') \in Nat
  BY RequestsFinite DEF Banning
<1>2. ipFail[ip].n <= IPBanThreshold - 1 + Cardinality(Banning(ip))
  BY DEF IPFailuresBounded
<1>3. ipFail[ip].n \in Nat /\ ipFail'[ip].n \in Nat
  BY DEF TypeOK, Counts
<1> QED
  BY <1>1, <1>2, <1>3, LimitsAssumption

\* A step of one request that neither enters nor leaves the ban leaves every
\* Banning(ip) as it is.
LEMMA BanningKept ==
  ASSUME NEW r \in Requests,
         \A q \in Requests \ {r} : req'[q] = req[q],
         \/ req[r].pc \notin BanSteps /\ req'[r].pc \notin BanSteps
         \/ /\ req[r].pc \in BanSteps /\ req'[r].pc \in BanSteps
            /\ req'[r].ip = req[r].ip
  PROVE  \A ip : Banning(ip)' = Banning(ip)
  BY DEF Banning, BanSteps

\* Every step preserves the bound on the failures of an address.
LEMMA NextIPFailuresBounded ==
  TypeOK /\ IPFailuresBounded /\ [Next]_vars => IPFailuresBounded'
<1> SUFFICES ASSUME TypeOK, IPFailuresBounded, [Next]_vars
             PROVE  IPFailuresBounded'
  OBVIOUS
<1> TypeOK'
  BY GuardNextTypeOK
<1> USE DEF counters, bans
\* Steps of a request outside the ban that leave the counter alone.
<1>1. ASSUME NEW r \in Requests, UNCHANGED ipFail,
             \A q \in Requests \ {r} : req'[q] = req[q],
             req[r].pc \notin BanSteps, req'[r].pc \notin BanSteps
      PROVE IPFailuresBounded'
  <2>1. \A ip : Banning(ip)' = Banning(ip)
    BY <1>1, BanningKept
  <2> QED
    BY <1>1, <2>1, IPBoundKept DEF TypeOK, Counts
<1>2. ASSUME NEW n \in Names, NEW r \in Requests, NEW ip \in IPs,
             NEW pw \in Passwords, NEW ticket \in BOOLEAN,
             Start(r, n, ip, pw, ticket)
      PROVE IPFailuresBounded'
  BY <1>2, <1>1 DEF TypeOK, Start, At, BanSteps
<1>3. ASSUME NEW r \in Requests, FindLoginUser(r) PROVE IPFailuresBounded'
  BY SMTT(30), <1>3, <1>1 DEF TypeOK, At, BanSteps, FindLoginUser, Found, Carry, End,
     Idle
<1>4. ASSUME NEW r \in Requests, FindSave(r) PROVE IPFailuresBounded'
  BY <1>4, <1>1 DEF TypeOK, At, BanSteps, FindSave, Found
<1>5. ASSUME NEW r \in Requests, PassCaptcha(r) PROVE IPFailuresBounded'
  BY <1>5, <1>1 DEF TypeOK, At, BanSteps, PassCaptcha, Goto, Carry, End, Idle
<1>6. ASSUME NEW r \in Requests, Authenticate(r) PROVE IPFailuresBounded'
  BY <1>6, <1>1 DEF TypeOK, At, BanSteps, Authenticate, Fail, AfterFail,
     Verify, Carry, End, Idle
<1>7. ASSUME NEW r \in Requests, AuthSave(r) PROVE IPFailuresBounded'
  BY <1>7, <1>1 DEF TypeOK, At, BanSteps, AuthSave, Fail, AfterFail, Verify,
     Carry, End, Idle
<1>8. ASSUME NEW r \in Requests, LdapReject(r) PROVE IPFailuresBounded'
  BY <1>8, <1>1 DEF TypeOK, At, BanSteps, LdapReject, AfterFail, Carry, End,
     Idle
<1>9. ASSUME NEW r \in Requests, NEW p \in Passwords, LdapAccept(r, p)
      PROVE IPFailuresBounded'
  BY <1>9, <1>1 DEF TypeOK, At, BanSteps, LdapAccept, Carry
<1>10. ASSUME NEW r \in Requests, Stamp(r) PROVE IPFailuresBounded'
  BY <1>10, <1>1 DEF TypeOK, At, BanSteps, Stamp, Carry
<1>11. ASSUME NEW r \in Requests, Reread(r) PROVE IPFailuresBounded'
  BY <1>11, <1>1 DEF TypeOK, At, BanSteps, Reread, Goto, Fail, AfterFail,
     Carry, End, Idle
<1>12. ASSUME NEW r \in Requests, RulesDeny(r) \/ RulesAllow(r)
       PROVE IPFailuresBounded'
  BY SMTT(30), <1>12, <1>1 DEF TypeOK, At, BanSteps, RulesDeny, RulesAllow, Goto, Carry,
     End, Idle
<1>13. ASSUME NEW r \in Requests, ClearFailures(r) PROVE IPFailuresBounded'
  <2>1. \A ip : Banning(ip)' = Banning(ip)
    BY <1>13, BanningKept DEF TypeOK, ClearFailures, At, End, Idle, BanSteps
  <2>2. req[r].ip \in IPs
    BY <1>13, RequestFacts DEF ClearFailures, At
  <2> QED
    BY <1>13, <2>1, <2>2, IPBoundKept DEF TypeOK, ClearFailures, Counts, NoCount
<1>14. ASSUME NEW r \in Requests,
              RecordUserFail(r) \/ LockRead(r) \/ LockSave(r) \/ LockClear(r)
       PROVE IPFailuresBounded'
  <2>1. CASE RecordUserFail(r)
    <3>1. \E pc \in {"lockread", "ipfail"} : Goto(r, pc)
      BY <2>1 DEF RecordUserFail
    <3>2. UNCHANGED ipFail /\ req[r].pc = "count"
      BY <2>1 DEF RecordUserFail, At
    <3> QED
      BY <3>1, <3>2, <1>1 DEF TypeOK, BanSteps, Goto, Carry
  <2>2. CASE LockRead(r)
    BY <2>2, <1>1 DEF TypeOK, At, BanSteps, LockRead, Goto, Carry
  <2>3. CASE LockSave(r)
    BY <2>3, <1>1 DEF TypeOK, At, BanSteps, LockSave, Carry
  <2>4. CASE LockClear(r)
    BY <2>4, <1>1 DEF TypeOK, At, BanSteps, LockClear, End, Idle
  <2> QED
    BY <1>14, <2>1, <2>2, <2>3, <2>4
<1>15. ASSUME NEW r \in Requests, RecordIPFail(r) PROVE IPFailuresBounded'
  <2>1. CASE ~IPBanOn
    BY <1>15, <2>1, <1>1 DEF TypeOK, At, BanSteps, RecordIPFail, End, Idle
  <2>2. CASE IPBanOn
    <3> SUFFICES ASSUME ~Persistent, NEW ip \in IPs
                 PROVE  ipFail'[ip].n <=
                          IPBanThreshold - 1 + Cardinality(Banning(ip)')
      BY DEF IPFailuresBounded
    <3> DEFINE count == Incr(ipFail[req[r].ip], IPBanWindow)
    <3>1. ipFail[ip].n <= IPBanThreshold - 1 + Cardinality(Banning(ip))
      BY DEF IPFailuresBounded
    <3>2. Cardinality(Banning(ip)) \in Nat /\ Cardinality(Banning(ip)') \in Nat
      BY RequestsFinite DEF Banning
    <3>3. ipFail[ip] \in Counts
      BY DEF TypeOK
    <3>4. /\ ipFail' = [ipFail EXCEPT ![req[r].ip] = count]
          /\ req[r].pc = "ipfail"
          /\ IF count.n < IPBanThreshold THEN End(r) ELSE Goto(r, "ban")
      BY <1>15, <2>2 DEF RecordIPFail, At
    <3>5. CASE req[r].ip = ip
      <4>1. ipFail'[ip].n = ipFail[ip].n + 1 /\ count.n = ipFail[ip].n + 1
        BY <3>4, <3>5 DEF TypeOK, Incr
      <4>2. CASE ~(ipFail[ip].n + 1 < IPBanThreshold)
        <5>1. Goto(r, "ban")
          BY <3>4, <4>1, <4>2
        <5>2. Banning(ip)' = Banning(ip) \cup {r} /\ r \notin Banning(ip)
          BY <3>4, <3>5, <5>1 DEF TypeOK, Goto, Carry, Banning
        <5>3. IsFiniteSet(Banning(ip))
          BY RequestsFinite DEF Banning
        <5>4. Cardinality(Banning(ip)') = Cardinality(Banning(ip)) + 1
          BY <5>2, <5>3, FS_AddElement
        <5> QED
          BY <3>1, <3>2, <3>3, <4>1, <5>4, LimitsAssumption DEF Counts
      <4>3. CASE ipFail[ip].n + 1 < IPBanThreshold
        BY <3>2, <3>3, <4>1, <4>3, LimitsAssumption DEF Counts
      <4> QED
        BY <4>2, <4>3
    <3>6. CASE req[r].ip # ip
      <4>1. ipFail'[ip] = ipFail[ip]
        BY <3>4, <3>6 DEF TypeOK
      <4>2. Banning(ip)' = Banning(ip)
        BY <3>4, <3>6 DEF TypeOK, Goto, Carry, End, Idle, Banning
      <4> QED
        BY <3>1, <4>1, <4>2
    <3> QED
      BY <3>5, <3>6
  <2> QED
    BY <2>1, <2>2
<1>16. ASSUME NEW r \in Requests, UpsertAutoBan(r) PROVE IPFailuresBounded'
  <2>1. \A ip : Banning(ip)' = Banning(ip)
    BY <1>16, BanningKept DEF TypeOK, UpsertAutoBan, At, Goto, Carry, BanSteps
  <2> QED
    BY <1>16, <2>1, IPBoundKept DEF TypeOK, UpsertAutoBan, Counts
<1>17. ASSUME NEW r \in Requests, BanClear(r) PROVE IPFailuresBounded'
  <2>1. req[r].ip \in IPs
    BY <1>17, RequestFacts DEF BanClear, At
  <2>2. \A ip \in IPs \ {req[r].ip} : Banning(ip)' = Banning(ip)
    BY <1>17 DEF TypeOK, BanClear, At, End, Idle, Banning
  <2> QED
    BY <1>17, <2>1, <2>2, IPBoundKept DEF TypeOK, BanClear, Counts, NoCount
<1>18. ASSUME NEW r \in Requests, AdminSave(r) PROVE IPFailuresBounded'
  BY <1>18, <1>1 DEF TypeOK, At, BanSteps, AdminSave, End, Idle
<1>19. ASSUME NEW r \in Requests, NEW u \in Users, NEW op \in AdminOps,
              NEW p \in Passwords \cup {None}, AdminRead(r, u, op, p)
       PROVE IPFailuresBounded'
  BY <1>19, <1>1 DEF TypeOK, AdminRead, At, BanSteps
\* Steps of nobody's request.
<1>20. ASSUME UNCHANGED <<req, ipFail>> PROVE IPFailuresBounded'
  BY <1>20, IPBoundKept DEF Banning, TypeOK, Counts
<1>21. /\ \A u \in Deletable : DeleteUser(u) => IPFailuresBounded'
       /\ \A u \in Users : SweepSave(u) => IPFailuresBounded'
  BY <1>20 DEF DeleteUser, SweepSave
<1>22. ASSUME NEW ip \in IPs,
              BanByHand(ip) \/ DeleteManualBan(ip) \/ DeleteAutoBan(ip)
       PROVE IPFailuresBounded'
  BY <1>22, <1>20 DEF BanByHand, DeleteManualBan, DeleteAutoBan
<1>23. CASE SweepRead \/ PurgeBans \/ UNCHANGED vars
  BY <1>23, <1>20 DEF SweepRead, PurgeBans, vars
<1>24. CASE Gc
  <2>1. \A ip \in IPs : ipFail'[ip] = ipFail[ip] \/ ipFail'[ip].n = 0
    BY <1>24 DEF Gc, Drop, NoCount
  <2>2. \A ip : Banning(ip)' = Banning(ip)
    BY <1>24 DEF Gc, Banning
  <2> QED
    BY <1>24, <2>1, <2>2, IPBoundKept DEF Gc, TypeOK, Counts
<1>25. CASE Tick
  <2>1. \A ip \in IPs : ipFail'[ip].n = ipFail[ip].n \/ ipFail'[ip].n = 0
    BY <1>25 DEF Tick, AgeCount, NoCount
  <2>2. \A ip : Banning(ip)' = Banning(ip)
    BY <1>25 DEF Tick, AgeRequest, Banning
  <2> QED
    BY <1>25, <2>1, <2>2, IPBoundKept DEF Tick, TypeOK, Counts
<1>26. CASE Restart
  <2>1. CASE Persistent
    BY <2>1 DEF IPFailuresBounded
  <2>2. CASE ~Persistent
    BY <1>26, <2>2, IPBoundKept DEF Restart, NoCount
  <2> QED
    BY <2>1, <2>2
<1> QED
  BY ONLY [Next]_vars, <1>2, <1>3, <1>4, <1>5, <1>6, <1>7, <1>8, <1>9,
     <1>10, <1>11, <1>12, <1>13, <1>14, <1>15, <1>16, <1>17, <1>18, <1>19,
     <1>20, <1>21, <1>22, <1>23, <1>24, <1>25, <1>26
     DEF Next, Steady, LoginStep, Arrive, Sweep

\* No interleaving lets the failures of an address slip past the threshold of
\* the automatic ban, for any number of requests and any threshold.
THEOREM IPBanHolds == Spec => []IPFailuresBounded
<1>1. Init => IPFailuresBounded
  BY RequestsFinite, LimitsAssumption
     DEF Init, IPFailuresBounded, NoCount, Banning
<1>2. TypeOK /\ IPFailuresBounded /\ [Next]_vars => IPFailuresBounded'
  BY NextIPFailuresBounded
<1> QED
  BY <1>1, <1>2, GuardTypeCorrect, PTL DEF Spec
=============================================================================
