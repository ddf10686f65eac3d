------------------------------ MODULE LoginGuard ------------------------------
(***************************************************************************)
(* The password login of OneAuth and what protects it: the failure         *)
(* counters, the temporary and permanent account locks, the IP blacklist   *)
(* with automatic bans, the LDAP fallback (handler/auth_handler.go Login,  *)
(* service/user_service.go, service/ldap_service.go,                       *)
(* repository/misc_repo.go) and the sweep that locks inactive accounts     *)
(* (monitor/user_lock_scheduler.go).                                       *)
(*                                                                         *)
(* Every read of a row, every Save of a whole row and every store call is  *)
(* a step, so a request can write back a row that has changed since it was *)
(* read.  Time is relative: what the code stores as an instant is kept as  *)
(* the number of ticks left, which Tick decrements everywhere, in rows,    *)
(* counters, bans and in the copies that requests hold.                    *)
(***************************************************************************)
EXTENDS Integers, FiniteSets

CONSTANTS
  Users, Nobody,       \* user ids; Nobody owns the names of no account
  Names, Owner,        \* login names (user names and e-mails) and whose they are
  IPs,
  Passwords, LdapAccepts,  \* <<name, password>> that the directory accepts
  Excluded,            \* excludeUsers of the inactivity sweep
  Requests,            \* request slots, for logins and admin operations
  AdminOps,            \* what administrators do to a row
  Deletable,           \* users who may be deleted
  LockThreshold,       \* security.login_lockout_threshold
  LockDuration,        \* security.login_lockout_duration, 0 = permanent
  FailWindow,          \* captchaFailWindow
  CaptchaOn, CaptchaThreshold,
  IPBanOn, IPBanThreshold, IPBanDuration, IPBanWindow,
  LdapOn,
  InactiveAfter,       \* security.user_inactive_days
  Persistent,          \* TRUE: RedisStore, FALSE: MemoryStore
  Absent               \* no such row

Forever == -1          \* a nil LockUntil or ExpiresAt
NoBan == -2            \* no automatic entry

Rows == [locked : BOOLEAN, until : Nat \cup {Forever}, active : BOOLEAN,
         pwd : Passwords, age : 0 .. InactiveAfter]

ASSUME GuardAssumption ==
  /\ Nobody \notin Users /\ Absent \notin Rows
  /\ "none" \notin Passwords
  /\ Owner \in [Names -> Users \cup {Nobody}]
  /\ LdapAccepts \subseteq {n \in Names : Owner[n] # Nobody} \X Passwords
  /\ IsFiniteSet(Requests)
  /\ AdminOps \subseteq {"lock", "unlock", "disable", "enable", "reset"}
  /\ Deletable \subseteq Users

ASSUME LimitsAssumption ==
  /\ LockThreshold \in Nat \ {0} /\ IPBanThreshold \in Nat \ {0}
  /\ LockDuration \in Nat /\ IPBanDuration \in Nat
  /\ FailWindow \in Nat \ {0} /\ IPBanWindow \in Nat \ {0}
  /\ CaptchaThreshold \in Nat /\ InactiveAfter \in Nat \ {0}
  /\ {CaptchaOn, IPBanOn, LdapOn, Persistent} \subseteq BOOLEAN

VARIABLES
  rows,       \* the user table
  userFail,   \* store, "userloginfail:" + name: [n, left], n = 0 is no entry
  ipFail,     \* store, "ipfail:" + ip
  loginFail,  \* store, "loginfail:" + ip + ":" + name
  manualBan,  \* IPs with a blacklist entry made by hand
  autoBan,    \* ticks left of the automatic entry of each IP
  req,        \* requests in flight
  sweep,      \* rows read by the inactivity sweep and not yet saved
  gone        \* history: users who were at some time without a row

counters == <<userFail, ipFail, loginFail>>
bans == <<manualBan, autoBan>>
vars == <<rows, counters, bans, req, sweep, gone>>

Errors == {"none", "bad", "disabled", "locked"}
Steps == {"idle", "find", "findsave", "captcha", "auth", "authsave", "ldap",
          "stamp", "reread", "rules", "clear", "count", "lockread", "locksave",
          "lockclear", "ipfail", "ban", "banclear", "admin"}

None == "none"
Idle == [pc |-> "idle", user |-> Nobody, name |-> None, ip |-> None,
         pw |-> None, ticket |-> FALSE, look |-> FALSE, copy |-> Absent,
         err |-> "none", op |-> None]

NoCount == [n |-> 0, left |-> 0]
NewRow(p) == [locked |-> FALSE, until |-> Forever, active |-> TRUE, pwd |-> p,
              age |-> 0]

Init ==
  /\ \E p \in Passwords, none \in SUBSET Deletable :
       /\ rows = [u \in Users |-> IF u \in none THEN Absent ELSE NewRow(p)]
       /\ gone = none
  /\ userFail = [n \in Names |-> NoCount]
  /\ ipFail = [ip \in IPs |-> NoCount]
  /\ loginFail = [x \in Names \X IPs |-> 0]
  /\ manualBan = {} /\ autoBan = [ip \in IPs |-> NoBan]
  /\ req = [r \in Requests |-> Idle]
  /\ sweep = [u \in {} |-> Absent]

-----------------------------------------------------------------------------
(* Helpers *)

At(r, pc) == req[r].pc = pc
End(r) == req' = [req EXCEPT ![r] = Idle]

\* Leave for pc with a copy of a row in hand.
Carry(r, pc, row, err) ==
  req' = [req EXCEPT ![r] =
            [pc |-> pc, user |-> req[r].user, name |-> req[r].name,
             ip |-> req[r].ip, pw |-> req[r].pw, ticket |-> req[r].ticket,
             look |-> req[r].look, copy |-> row, err |-> err,
             op |-> req[r].op]]

Goto(r, pc) == Carry(r, pc, req[r].copy, req[r].err)

\* FindLoginUser's answer: whether there is a user of that name.
Found(r, pc, yes) ==
  req' = [req EXCEPT ![r] =
            [pc |-> pc, user |-> req[r].user, name |-> req[r].name,
             ip |-> req[r].ip, pw |-> req[r].pw, ticket |-> req[r].ticket,
             look |-> yes, copy |-> Absent, err |-> "none", op |-> None]]

\* gorm's Save writes every column, and inserts the row if it is gone: an
\* insert stores the column default, TRUE, for an is_active that is FALSE.
Stored(u, row) ==
  IF rows[u] = Absent THEN [row EXCEPT !.active = TRUE] ELSE row

Save(u, row) == rows' = [rows EXCEPT ![u] = Stored(u, row)]

RowOf(u) == IF u \in Users THEN rows[u] ELSE Absent

\* time.Now().After(*LockUntil)
LockPassed(row) == row.locked /\ row.until = 0

SetLock(row, locked, until) ==
  [locked |-> locked, until |-> until, active |-> row.active, pwd |-> row.pwd,
   age |-> row.age]
Unlocked(row) == SetLock(row, FALSE, Forever)
LoggedIn(row) ==
  [locked |-> row.locked, until |-> row.until, active |-> row.active,
   pwd |-> row.pwd, age |-> 0]

\* Store.Incr re-arms the window.  MemoryStore counts on from an entry that
\* has expired and is not collected yet.
Incr(count, window) == [n |-> count.n + 1, left |-> window]

Banned(ip) == ip \in manualBan \/ autoBan[ip] = Forever \/ autoBan[ip] > 0

CaptchaRequired(n, ip) ==
  /\ CaptchaOn
  /\ CaptchaThreshold = 0 \/ loginFail[<<n, ip>>] >= CaptchaThreshold

-----------------------------------------------------------------------------
(* Login: the checks before the password *)

\* Mutant of Start: the blacklist is not consulted.
StartBanned(r, n, ip, pw, ticket) ==
  /\ At(r, "idle")
  /\ req' = [req EXCEPT ![r] =
               [pc |-> "find", user |-> Owner[n], name |-> n, ip |-> ip,
                pw |-> pw, ticket |-> ticket, look |-> FALSE,
                copy |-> Absent, err |-> "none", op |-> None]]
  /\ UNCHANGED <<rows, counters, bans, sweep, gone>>

\* A banned IP is turned away at once.
Start(r, n, ip, pw, ticket) ==
  /\ At(r, "idle")
  /\ ~Banned(ip)
  /\ req' = [req EXCEPT ![r] =
               [pc |-> "find", user |-> Owner[n], name |-> n, ip |-> ip,
                pw |-> pw, ticket |-> ticket, look |-> FALSE,
                copy |-> Absent, err |-> "none", op |-> None]]
  /\ UNCHANGED <<rows, counters, bans, sweep, gone>>

\* Mutant of FindLoginUser: an expired lock is not lifted on the way.
FindLocked(r) ==
  /\ At(r, "find")
  /\ LET row == RowOf(req[r].user)
     IN  IF row = Absent THEN Found(r, "captcha", FALSE)
         ELSE IF row.locked THEN End(r)
         ELSE Found(r, "captcha", TRUE)
  /\ UNCHANGED <<rows, counters, bans, sweep, gone>>

\* FindLoginUser, up to its Save, and the refusal of locked accounts.
FindLoginUser(r) ==
  /\ At(r, "find")
  /\ LET row == RowOf(req[r].user)
     IN  IF row = Absent THEN Found(r, "captcha", FALSE)
         ELSE IF LockPassed(row)
                THEN Carry(r, "findsave", Unlocked(row), "none")
         ELSE IF row.locked THEN End(r)
         ELSE Found(r, "captcha", TRUE)
  /\ UNCHANGED <<rows, counters, bans, sweep, gone>>

FindSave(r) ==
  /\ At(r, "findsave")
  /\ Save(req[r].user, req[r].copy)
  /\ Found(r, "captcha", TRUE)
  /\ UNCHANGED <<counters, bans, sweep, gone>>

PassCaptcha(r) ==
  /\ At(r, "captcha")
  /\ IF CaptchaRequired(req[r].name, req[r].ip) /\ ~req[r].ticket
       THEN End(r) ELSE Goto(r, "auth")
  /\ UNCHANGED <<rows, counters, bans, sweep, gone>>

-----------------------------------------------------------------------------
(* Login: the password, locally and in the directory *)

\* Only a wrong name or password is counted as a failure.
AfterFail(r, err) ==
  IF err = "bad" THEN Carry(r, "count", Absent, err) ELSE End(r)

\* Any local error, "disabled" and "locked" too, is tried against LDAP.
Fail(r, err) ==
  IF LdapOn THEN Carry(r, "ldap", Absent, err) ELSE AfterFail(r, err)

Verify(r, row) ==
  IF row.pwd = req[r].pw THEN Carry(r, "stamp", row, "none") ELSE Fail(r, "bad")

\* UserService.Authenticate, up to its first Save.
Authenticate(r) ==
  /\ At(r, "auth")
  /\ LET row == RowOf(req[r].user)
     IN  IF row = Absent THEN Fail(r, "bad")
         ELSE IF ~row.active THEN Fail(r, "disabled")
         ELSE IF LockPassed(row)
                THEN Carry(r, "authsave", Unlocked(row), "none")
         ELSE IF row.locked THEN Fail(r, "locked")
         ELSE Verify(r, row)
  /\ UNCHANGED <<rows, counters, bans, sweep, gone>>

AuthSave(r) ==
  /\ At(r, "authsave")
  /\ Save(req[r].user, req[r].copy)
  /\ Verify(r, req[r].copy)
  /\ UNCHANGED <<counters, bans, sweep, gone>>

\* The directory refuses, or cannot be reached.
LdapReject(r) ==
  /\ At(r, "ldap")
  /\ AfterFail(r, req[r].err)
  /\ UNCHANGED <<rows, counters, bans, sweep, gone>>

\* The directory accepts: neither IsActive nor IsLocked is looked at, and a
\* user without a row gets one, with a random password.
LdapAccept(r, p) ==
  /\ At(r, "ldap")
  /\ <<req[r].name, req[r].pw>> \in LdapAccepts
  /\ IF RowOf(req[r].user) = Absent
       THEN Save(req[r].user, NewRow(p)) /\ Carry(r, "reread", Absent, req[r].err)
       ELSE /\ Carry(r, "stamp", rows[req[r].user], req[r].err)
            /\ UNCHANGED rows
  /\ UNCHANGED <<counters, bans, sweep, gone>>

\* LastLogin is written back together with the whole row that was read.
Stamp(r) ==
  /\ At(r, "stamp")
  /\ Save(req[r].user, LoggedIn(req[r].copy))
  /\ Carry(r, "reread", Absent, req[r].err)
  /\ UNCHANGED <<counters, bans, sweep, gone>>

\* GetByID after the Save; a row deleted in between is one more failure.
Reread(r) ==
  /\ At(r, "reread")
  /\ IF RowOf(req[r].user) # Absent THEN Goto(r, "rules")
     ELSE IF req[r].err = "none" THEN Fail(r, "bad")
     ELSE AfterFail(r, req[r].err)
  /\ UNCHANGED <<rows, counters, bans, sweep, gone>>

-----------------------------------------------------------------------------
(* Login: success *)

\* The login rules deny the login.
RulesDeny(r) ==
  /\ At(r, "rules")
  /\ End(r)
  /\ UNCHANGED <<rows, counters, bans, sweep, gone>>

\* Session and tokens are created.
RulesAllow(r) ==
  /\ At(r, "rules")
  /\ Goto(r, "clear")
  /\ UNCHANGED <<rows, counters, bans, sweep, gone>>

ClearFailures(r) ==
  /\ At(r, "clear")
  /\ userFail' = [userFail EXCEPT ![req[r].name] = NoCount]
  /\ ipFail' = [ipFail EXCEPT ![req[r].ip] = NoCount]
  /\ loginFail' = [loginFail EXCEPT ![<<req[r].name, req[r].ip>>] = 0]
  /\ End(r)
  /\ UNCHANGED <<rows, bans, sweep, gone>>

-----------------------------------------------------------------------------
(* Login: failure *)

\* Mutant of ReachesLock: == for >=.
HitsLock(count) == count = LockThreshold

ReachesLock(count) == count >= LockThreshold

RecordUserFail(r) ==
  /\ At(r, "count")
  /\ LET count == Incr(userFail[req[r].name], FailWindow)
     IN  /\ userFail' = [userFail EXCEPT ![req[r].name] = count]
         /\ Goto(r, IF ReachesLock(count.n) /\ req[r].look
                      THEN "lockread" ELSE "ipfail")
  /\ UNCHANGED <<rows, ipFail, loginFail, bans, sweep, gone>>

\* Mutant of LockRead: the error of GetByID is ignored.
LockReadBlind(r) ==
  /\ At(r, "lockread")
  /\ Carry(r, "locksave", RowOf(req[r].user), req[r].err)
  /\ UNCHANGED <<rows, counters, bans, sweep, gone>>

\* UserService.LockUntil: read, then Save.
LockRead(r) ==
  /\ At(r, "lockread")
  /\ LET row == RowOf(req[r].user)
     IN  IF row = Absent THEN Goto(r, "ipfail")
                         ELSE Carry(r, "locksave", row, req[r].err)
  /\ UNCHANGED <<rows, counters, bans, sweep, gone>>

LockSave(r) ==
  /\ At(r, "locksave")
  /\ Save(req[r].user,
          SetLock(req[r].copy, TRUE,
                  IF LockDuration > 0 THEN LockDuration ELSE Forever))
  /\ Carry(r, "lockclear", Absent, req[r].err)
  /\ UNCHANGED <<counters, bans, sweep, gone>>

LockClear(r) ==
  /\ At(r, "lockclear")
  /\ userFail' = [userFail EXCEPT ![req[r].name] = NoCount]
  /\ loginFail' = [loginFail EXCEPT ![<<req[r].name, req[r].ip>>] = 0]
  /\ End(r)
  /\ UNCHANGED <<rows, ipFail, bans, sweep, gone>>

\* recordIPFailAndMaybeBan, up to the ban.
RecordIPFail(r) ==
  /\ At(r, "ipfail")
  /\ IF IPBanOn
       THEN LET count == Incr(ipFail[req[r].ip], IPBanWindow)
            IN  /\ ipFail' = [ipFail EXCEPT ![req[r].ip] = count]
                /\ IF count.n < IPBanThreshold THEN End(r) ELSE Goto(r, "ban")
       ELSE End(r) /\ UNCHANGED ipFail
  /\ UNCHANGED <<rows, userFail, loginFail, bans, sweep, gone>>

\* UpsertAutoBan: an entry made by hand is left alone; with both kinds of
\* entry for the IP, First may return either.
UpsertAutoBan(r) ==
  /\ At(r, "ban")
  /\ \/ /\ req[r].ip \in manualBan
        /\ UNCHANGED autoBan
     \/ /\ req[r].ip \notin manualBan \/ autoBan[req[r].ip] # NoBan
        /\ autoBan' = [autoBan EXCEPT ![req[r].ip] =
                         IF IPBanDuration > 0 THEN IPBanDuration ELSE Forever]
  /\ Goto(r, "banclear")
  /\ UNCHANGED <<rows, counters, manualBan, sweep, gone>>

\* Mutant of BanClear: the counter is left behind.
BanKeepsCount(r) ==
  /\ At(r, "banclear")
  /\ End(r)
  /\ UNCHANGED <<rows, counters, bans, sweep, gone>>

BanClear(r) ==
  /\ At(r, "banclear")
  /\ ipFail' = [ipFail EXCEPT ![req[r].ip] = NoCount]
  /\ End(r)
  /\ UNCHANGED <<rows, userFail, loginFail, bans, sweep, gone>>

-----------------------------------------------------------------------------
(* Administration: each operation reads a row, changes it and saves it *)

AdminRead(r, u, op, p) ==
  /\ At(r, "idle")
  /\ p \in Passwords <=> op = "reset"
  /\ rows[u] # Absent
  /\ req' = [req EXCEPT ![r] =
               [pc |-> "admin", user |-> u, name |-> None, ip |-> None,
                pw |-> p, ticket |-> FALSE, look |-> FALSE,
                copy |-> rows[u], err |-> "none", op |-> op]]
  /\ UNCHANGED <<rows, counters, bans, sweep, gone>>

\* Lock, Unlock, the is_active switch and ResetPassword.
Apply(op, row, p) ==
  [locked |-> IF op \in {"lock", "unlock"} THEN op = "lock" ELSE row.locked,
   until |-> IF op \in {"lock", "unlock"} THEN Forever ELSE row.until,
   active |-> IF op \in {"enable", "disable"} THEN op = "enable"
                                              ELSE row.active,
   pwd |-> IF op = "reset" THEN p ELSE row.pwd,
   age |-> row.age]

AdminSave(r) ==
  /\ At(r, "admin")
  /\ Save(req[r].user, Apply(req[r].op, req[r].copy, req[r].pw))
  /\ End(r)
  /\ UNCHANGED <<counters, bans, sweep, gone>>

DeleteUser(u) ==
  /\ rows[u] # Absent
  /\ rows' = [rows EXCEPT ![u] = Absent]
  /\ gone' = gone \cup {u}
  /\ UNCHANGED <<counters, bans, req, sweep>>

BanByHand(ip) ==
  /\ manualBan' = manualBan \cup {ip}
  /\ UNCHANGED <<rows, counters, autoBan, req, sweep, gone>>

\* The administrator deletes the entries of an IP, one kind at a time.
DeleteManualBan(ip) ==
  /\ manualBan' = manualBan \ {ip}
  /\ UNCHANGED <<rows, counters, autoBan, req, sweep, gone>>

DeleteAutoBan(ip) ==
  /\ autoBan' = [autoBan EXCEPT ![ip] = NoBan]
  /\ UNCHANGED <<rows, counters, manualBan, req, sweep, gone>>

-----------------------------------------------------------------------------
(* Background work *)

\* The query of runOnce, and the rows it skips.
Inactive(u) ==
  /\ u \notin Excluded
  /\ rows[u] # Absent
  /\ ~rows[u].locked /\ rows[u].active /\ rows[u].age = InactiveAfter

SweepRead ==
  /\ DOMAIN sweep = {}
  /\ sweep' = [u \in {x \in Users : Inactive(x)} |-> rows[u]]
  /\ UNCHANGED <<rows, counters, bans, req, gone>>

\* Mutant of SweepSave: the row is saved without the lock.
SweepForgets(u) ==
  /\ u \in DOMAIN sweep
  /\ Save(u, sweep[u])
  /\ sweep' = [x \in DOMAIN sweep \ {u} |-> sweep[x]]
  /\ UNCHANGED <<counters, bans, req, gone>>

SweepSave(u) ==
  /\ u \in DOMAIN sweep
  /\ Save(u, SetLock(sweep[u], TRUE, sweep[u].until))
  /\ sweep' = [x \in DOMAIN sweep \ {u} |-> sweep[x]]
  /\ UNCHANGED <<counters, bans, req, gone>>

\* PurgeExpiredAutoBans, every minute.
PurgeBans ==
  /\ autoBan' = [ip \in IPs |-> IF autoBan[ip] = 0 THEN NoBan ELSE autoBan[ip]]
  /\ UNCHANGED <<rows, counters, manualBan, req, sweep, gone>>

Drop(count) == IF count.left = 0 THEN NoCount ELSE count

\* MemoryStore.gc.
Gc ==
  /\ userFail' = [n \in Names |-> Drop(userFail[n])]
  /\ ipFail' = [ip \in IPs |-> Drop(ipFail[ip])]
  /\ UNCHANGED <<rows, loginFail, bans, req, sweep, gone>>

Less(t) == IF t > 0 THEN t - 1 ELSE t

AgeRow(row) ==
  IF row = Absent THEN Absent
  ELSE [locked |-> row.locked, until |-> Less(row.until), active |-> row.active,
        pwd |-> row.pwd,
        age |-> IF row.age < InactiveAfter THEN row.age + 1 ELSE row.age]

\* Redis drops an entry when its time is up, MemoryStore keeps it for Gc.
AgeCount(count) ==
  IF Persistent /\ count.left <= 1 THEN NoCount
  ELSE [n |-> count.n, left |-> Less(count.left)]

AgeRequest(q) ==
  [pc |-> q.pc, user |-> q.user, name |-> q.name, ip |-> q.ip, pw |-> q.pw,
   ticket |-> q.ticket, look |-> q.look, copy |-> AgeRow(q.copy),
   err |-> q.err, op |-> q.op]

Tick ==
  /\ rows' = [u \in Users |-> AgeRow(rows[u])]
  /\ userFail' = [n \in Names |-> AgeCount(userFail[n])]
  /\ ipFail' = [ip \in IPs |-> AgeCount(ipFail[ip])]
  /\ autoBan' = [ip \in IPs |-> Less(autoBan[ip])]
  /\ req' = [r \in Requests |-> AgeRequest(req[r])]
  /\ sweep' = [u \in DOMAIN sweep |-> AgeRow(sweep[u])]
  /\ UNCHANGED <<loginFail, manualBan, gone>>

Restart ==
  /\ req' = [r \in Requests |-> Idle]
  /\ sweep' = [u \in {} |-> Absent]
  /\ IF Persistent
       THEN UNCHANGED counters
       ELSE /\ userFail' = [n \in Names |-> NoCount]
            /\ ipFail' = [ip \in IPs |-> NoCount]
            /\ loginFail' = [x \in Names \X IPs |-> 0]
  /\ UNCHANGED <<rows, bans, gone>>

-----------------------------------------------------------------------------
LoginStep(r) ==
  \/ FindLoginUser(r) \/ FindSave(r) \/ PassCaptcha(r)
  \/ Authenticate(r) \/ AuthSave(r)
  \/ LdapReject(r) \/ \E p \in Passwords : LdapAccept(r, p)
  \/ Stamp(r) \/ Reread(r)
  \/ RulesDeny(r) \/ RulesAllow(r) \/ ClearFailures(r)
  \/ RecordUserFail(r) \/ LockRead(r) \/ LockSave(r) \/ LockClear(r)
  \/ RecordIPFail(r) \/ UpsertAutoBan(r) \/ BanClear(r)
  \/ AdminSave(r)

Arrive(n) ==
  \E r \in Requests, ip \in IPs, pw \in Passwords,
     ticket \in IF CaptchaOn THEN BOOLEAN ELSE {FALSE} :
    Start(r, n, ip, pw, ticket)

Sweep == SweepRead \/ \E u \in Users : SweepSave(u)

Steady ==
  \/ \E n \in Names : Arrive(n)
  \/ \E r \in Requests : LoginStep(r)
  \/ \E r \in Requests, u \in Users, op \in AdminOps,
        p \in Passwords \cup {None} : AdminRead(r, u, op, p)
  \/ \E u \in Deletable : DeleteUser(u)
  \/ \E ip \in IPs :
       BanByHand(ip) \/ DeleteManualBan(ip) \/ DeleteAutoBan(ip)
  \/ Sweep
  \/ PurgeBans
  \/ Gc
  \/ Tick

Next == Steady \/ Restart

Spec == Init /\ [][Next]_vars

\* The server runs every request it accepted, its timers fire, time passes,
\* and people go on trying to log in under every name.  A crash in every
\* request would defeat any promise, so liveness is about a server that runs.
FairSpec ==
  /\ Init /\ [][Steady]_vars
  /\ WF_vars(Tick) /\ WF_vars(Sweep)
  /\ \A r \in Requests : WF_vars(LoginStep(r))
  /\ \A n \in Names : SF_vars(Arrive(n))

-----------------------------------------------------------------------------
(* Properties *)

Counts == [n : Nat, left : Nat]
RequestStates ==
  [pc : Steps, user : Users \cup {Nobody}, name : Names \cup {None},
   ip : IPs \cup {None}, pw : Passwords \cup {None}, ticket : BOOLEAN,
   look : BOOLEAN, copy : Rows \cup {Absent}, err : Errors,
   op : AdminOps \cup {None}]

\* A login knows its name, address and password; a request that is about to
\* save a row holds one; an administrator's request knows its operation.
Saving == {"findsave", "authsave", "stamp", "locksave", "admin"}
RequestOK(q) ==
  /\ q \in RequestStates
  /\ q.pc \notin {"idle", "admin"} =>
       /\ q.name \in Names /\ q.ip \in IPs /\ q.pw \in Passwords
       /\ q.user = Owner[q.name]
  /\ q.pc \in Saving => q.copy \in Rows /\ q.user \in Users
  /\ q.pc = "admin" =>
       q.op \in AdminOps /\ (q.op = "reset" => q.pw \in Passwords)

\* Every variable has the type its code counterpart has.
TypeOK ==
  /\ rows \in [Users -> Rows \cup {Absent}]
  /\ userFail \in [Names -> Counts] /\ ipFail \in [IPs -> Counts]
  /\ loginFail \in [Names \X IPs -> Nat]
  /\ manualBan \subseteq IPs
  /\ autoBan \in [IPs -> Nat \cup {Forever, NoBan}]
  /\ req \in [Requests -> RequestStates] /\ \A r \in Requests : RequestOK(req[r])
  /\ DOMAIN sweep \subseteq Users /\ sweep \in [DOMAIN sweep -> Rows]
  /\ gone \subseteq Users

\* Requests between the failure that reached the threshold and the deletion
\* of the counter.
Locking(n) ==
  {r \in Requests : /\ req[r].name = n
                    /\ req[r].pc \in {"lockread", "locksave", "lockclear"}}

Banning(ip) ==
  {r \in Requests : req[r].ip = ip /\ req[r].pc \in {"ban", "banclear"}}

\* However many requests race, a name collects at most LockThreshold - 1
\* failures beyond those whose requests are locking the account (recordUserFail,
\* LockUntil, clearUserFail): no failure count slips past the threshold.  For
\* users who were never deleted, on a store that a crash empties.
FailuresBounded ==
  ~Persistent =>
    \A n \in Names : Owner[n] \in Users \ gone =>
      userFail[n].n <= LockThreshold - 1 + Cardinality(Locking(n))

\* The same for IPs and the automatic ban (recordIPFailAndMaybeBan).
IPFailuresBounded ==
  ~Persistent =>
    \A ip \in IPs :
      ipFail[ip].n <= IPBanThreshold - 1 + Cardinality(Banning(ip))

\* A temporary lock does not outlast its time by more than the next login
\* attempt (FindLoginUser unlocks on the way), whatever else is going on,
\* unless every address is banned by hand.
TemporarilyLocked(u) ==
  rows[u] # Absent /\ rows[u].locked /\ rows[u].until # Forever
TempLockLifts ==
  \A u \in Users : TemporarilyLocked(u) ~>
                     (~TemporarilyLocked(u) \/ IPs \subseteq manualBan)

\* An account left alone for InactiveAfter is locked, unless its user comes
\* back or an administrator acts first (UserLockScheduler.runOnce).
InactiveGetsLocked == \A u \in Users : Inactive(u) ~> ~Inactive(u)

\* An automatic ban with a duration ends, even if attempts keep arriving:
\* attempts from a banned IP are not counted.
AutoBanned(ip) == autoBan[ip] > 0
AutoBanLifts == \A ip \in IPs : AutoBanned(ip) ~> ~AutoBanned(ip)

\* The comment on the captcha gate: no attempt passes without a ticket once
\* the failures have reached the threshold.
CaptchaAfterFailures ==
  [][\A r \in Requests :
       /\ CaptchaOn /\ ~req[r].ticket
       /\ req[r].pc = "captcha" /\ req'[r].pc = "auth"
       => userFail[req[r].name].n < CaptchaThreshold]_vars

\* The comment on FindLoginUser: what it lifts is a temporary lock whose time
\* has passed.
AutoUnlockOnlyExpired ==
  [][\A r \in Requests :
       /\ req[r].pc = "findsave" /\ req'[r].pc = "captcha"
       /\ rows[req[r].user] # Absent
       => ~rows[req[r].user].locked \/ rows[req[r].user].until = 0]_vars
=============================================================================
