--------------------------- MODULE AccountRecovery ---------------------------
(***************************************************************************)
(* Reconciliation of the accounts that applications keep with the users    *)
(* that OneAuth knows, and the batches that disable or delete accounts by  *)
(* running the scripts of an application's recovery rule                   *)
(* (handler/account_recovery_handler.go, repository/                       *)
(* account_recovery_repo.go).                                              *)
(*                                                                         *)
(* A reconciliation reads the users, runs the fetch script, and replaces   *)
(* the application's records in two statements; a batch reads records,     *)
(* runs one script per record and then deletes the records it dealt with.  *)
(* Nothing keeps two such requests apart.                                  *)
(***************************************************************************)
EXTENDS Integers, FiniteSets, Sequences

CONSTANTS
  Apps, Names,         \* applications; user names, on either side
  Known,               \* the users there are to begin with
  Accounts,            \* third-party user ids
  AppOf, NameOf,       \* where an account lives, and its user name
  NoAccount,
  Jobs,                \* request slots
  RulePage,            \* List(1, 100): how many rules a lookup sees
  UserPage,            \* PageSize: 10000
  PowerChoices,        \* what rules are given
  MaxRules, MaxJobs,   \* bounds: acts on rules, reconciliations and batches
  MaxChanges           \* bound on what happens to users and accounts

Powers == {"fetch", "disable", "delete"}   \* enabled, with a script
UserStates == {"absent", "active", "locked", "inactive"}
AccountStates == {"absent", "active", "disabled"}

ASSUME RecoveryAssumption ==
  /\ AppOf \in [Accounts -> Apps] /\ NameOf \in [Accounts -> Names]
  /\ Known \subseteq Names /\ PowerChoices \subseteq SUBSET Powers
  /\ NoAccount \notin Accounts /\ IsFiniteSet(Names)
  /\ {RulePage, UserPage, MaxRules, MaxJobs, MaxChanges} \subseteq Nat

VARIABLES
  user,      \* user table, by name
  account,   \* the applications' own accounts
  rules,     \* rule table, newest first
  records,   \* sso_account_reconciliation
  job,       \* requests in flight
  gen,       \* reconciliations and batches so far
  changes,   \* users and accounts changed so far
  edits,     \* acts on rules so far
  mixed,     \* history: applications with overlapping writes since a clean one
  reported,  \* history: records still listed whose script ended well
  lone       \* history: accounts that were at some instant without a user

tables == <<user, account>>
vars == <<tables, rules, records, job, gen, changes, edits, mixed, reported, lone>>

NoRule == [app |-> "none", can |-> {}]
Idle == [pc |-> "idle", kind |-> "none", app |-> "none", rule |-> NoRule,
         users |-> [n \in Names |-> "absent"], fetched |-> {},
         gen |-> 0, todo |-> {}, done |-> {}, failed |-> {}]

Lone(us, ac) == {a \in Accounts : ac[a] # "absent" /\ us[NameOf[a]] = "absent"}

Init ==
  /\ user = [n \in Names |-> IF n \in Known THEN "active" ELSE "absent"]
  /\ account \in [Accounts -> {"absent", "active"}]
  /\ rules = << >> /\ records = {} /\ job = [j \in Jobs |-> Idle]
  /\ gen = 0 /\ changes = 0 /\ edits = 0 /\ mixed = {} /\ reported = {}
  /\ lone = Lone(user, account)

-----------------------------------------------------------------------------
(* Rules *)

At(j, kind, pc) == job[j].kind = kind /\ job[j].pc = pc
Free(j) == job[j].pc = "idle"
End(j) == job' = [job EXCEPT ![j] = Idle]

Page(s) == SubSeq(s, 1, IF Len(s) < RulePage THEN Len(s) ELSE RulePage)
OfApp(s, app) == {i \in 1 .. Len(s) : s[i].app = app}

\* The first rule of the application on the first page, or none.
RuleOf(app) ==
  LET found == OfApp(Page(rules), app)
  IN  IF found = {} THEN NoRule
      ELSE rules[CHOOSE i \in found : \A k \in found : i <= k]

\* Create looks for a rule of the application and then inserts one.
CreateCheck(j, app, can) ==
  /\ Free(j) /\ edits < MaxRules
  /\ OfApp(Page(rules), app) = {}
  /\ job' = [job EXCEPT ![j] = [Idle EXCEPT !.pc = "insert", !.kind = "rule",
               !.app = app, !.rule = [app |-> app, can |-> can]]]
  /\ UNCHANGED <<tables, rules, records, gen, changes, edits, mixed, reported, lone>>

\* The column default turns a switch sent as FALSE on, so that at creation only
\* the scripts count; "can" is what is on and has a script.
CreateInsert(j) ==
  /\ At(j, "rule", "insert") /\ edits < MaxRules
  /\ rules' = <<job[j].rule>> \o rules
  /\ edits' = edits + 1
  /\ End(j)
  /\ UNCHANGED <<tables, records, gen, changes, mixed, reported, lone>>

\* Update saves one row, without looking for another of the application; the
\* model leaves out a deletion of the row between its Get and its Save.
\* Toggle changes a column that nothing looks at.
SaveRule(i, app, can) ==
  /\ i \in DOMAIN rules /\ edits < MaxRules
  /\ rules[i] # [app |-> app, can |-> can]
  /\ rules' = [rules EXCEPT ![i] = [app |-> app, can |-> can]]
  /\ edits' = edits + 1
  /\ UNCHANGED <<tables, records, job, gen, changes, mixed, reported, lone>>

DeleteRule(i) ==
  /\ i \in DOMAIN rules /\ edits < MaxRules
  /\ rules' = SubSeq(rules, 1, i - 1) \o SubSeq(rules, i + 1, Len(rules))
  /\ edits' = edits + 1
  /\ UNCHANGED <<tables, records, job, gen, changes, mixed, reported, lone>>

-----------------------------------------------------------------------------
(* RunReconciliation *)

\* The rule is looked up, and the users are read: at most one page.
ReadUsers(j, app, seen) ==
  /\ Free(j) /\ gen < MaxJobs /\ gen' = gen + 1
  /\ seen \subseteq {n \in Names : user[n] # "absent"}
  /\ \/ seen = {n \in Names : user[n] # "absent"}
     \/ Cardinality(seen) = UserPage
  /\ Cardinality(seen) <= UserPage
  /\ job' = [job EXCEPT ![j] =
       [Idle EXCEPT !.pc = "fetch", !.kind = "reconcile", !.app = app,
          !.gen = gen + 1, !.rule = RuleOf(app),
          !.users = [n \in Names |-> IF n \in seen THEN user[n] ELSE "absent"]]]
  /\ UNCHANGED <<tables, rules, records, changes, edits, mixed, reported, lone>>

\* The script prints the accounts; of two with one name the map keeps one.
Listing(app) == {a \in Accounts : AppOf[a] = app /\ account[a] # "absent"}
PerName(list, f) ==
  /\ f \subseteq list
  /\ \A a \in list : \E b \in f : NameOf[b] = NameOf[a]
  /\ \A a, b \in f : NameOf[a] = NameOf[b] => a = b

FetchOk(j, f) ==
  /\ At(j, "reconcile", "fetch") /\ "fetch" \in job[j].rule.can
  /\ PerName(Listing(job[j].app), f)
  /\ job' = [job EXCEPT ![j].pc = "clear", ![j].fetched = f]
  /\ UNCHANGED <<tables, rules, records, gen, changes, edits, mixed, reported, lone>>

\* No script, or it fails, times out or prints no array: the run goes on.
FetchNothing(j) ==
  /\ At(j, "reconcile", "fetch")
  /\ job' = [job EXCEPT ![j].pc = "clear"]
  /\ UNCHANGED <<tables, rules, records, gen, changes, edits, mixed, reported, lone>>

\* ClearReconciliationByAppID
Clear(j) ==
  /\ At(j, "reconcile", "clear")
  /\ records' = {r \in records : r.app # job[j].app}
  /\ reported' = {r \in reported : r.app # job[j].app}
  /\ mixed' = IF \E k \in Jobs : At(k, "reconcile", "write") /\ job[k].app = job[j].app
                THEN mixed \cup {job[j].app} ELSE mixed \ {job[j].app}
  /\ job' = [job EXCEPT ![j].pc = "write"]
  /\ UNCHANGED <<tables, rules, gen, changes, edits, lone>>

\* Locked comes first, and what is not active counts as deleted.
Status(s) == IF s = "inactive" THEN "deleted" ELSE s

Record(g, app, n, a, s, result) ==
  [gen |-> g, app |-> app, name |-> n, acct |-> a, sso |-> s, result |-> result]

\* Mutant of Compare: the users are not looked up by name.
CompareBlind(j, g) ==
  {Record(g, job[j].app, n, NoAccount, Status(job[j].users[n]), "missing") :
     n \in {m \in Names : job[j].users[m] # "absent"}}
  \cup {Record(g, job[j].app, NameOf[a], a, "absent", "orphan") : a \in job[j].fetched}

\* The comparison by user name: consistent, missing, orphan.
Compare(j, g) ==
  LET app == job[j].app
      us == job[j].users
      here == {n \in Names : us[n] # "absent"}
      there == {NameOf[a] : a \in job[j].fetched}
  IN  {Record(g, app, NameOf[a], a, Status(us[NameOf[a]]), "consistent") :
         a \in {x \in job[j].fetched : NameOf[x] \in here}}
      \cup {Record(g, app, n, NoAccount, Status(us[n]), "missing") : n \in here \ there}
      \cup {Record(g, app, NameOf[a], a, "absent", "orphan") :
              a \in {x \in job[j].fetched : NameOf[x] \notin here}}

\* BulkCreateReconciliation, one transaction.
Write(j) ==
  /\ At(j, "reconcile", "write")
  /\ records' = records \cup Compare(j, job[j].gen)
  /\ End(j)
  /\ UNCHANGED <<tables, rules, gen, changes, edits, mixed, reported, lone>>

-----------------------------------------------------------------------------
(* BatchCleanup, BatchDisableUser, BatchDeleteUser *)

Kinds == {"cleanup", "disable", "delete"}
Power(kind) == IF kind = "disable" THEN "disable" ELSE "delete"

Begin(j, kind, app, chosen) ==
  /\ Free(j) /\ gen < MaxJobs /\ gen' = gen + 1
  /\ chosen # {}
  /\ Power(kind) \in RuleOf(app).can
  /\ job' = [job EXCEPT ![j] =
       [Idle EXCEPT !.pc = "run", !.kind = kind, !.app = app, !.rule = RuleOf(app),
          !.todo = chosen]]
  /\ UNCHANGED <<tables, rules, records, changes, edits, mixed, reported, lone>>

\* The console names records, all of them of the application it shows.
BatchCleanup(j, app, ids) ==
  /\ ids \subseteq {r \in records : r.app = app}
  /\ Begin(j, "cleanup", app, ids)

\* The other two batches are given third-party ids.
OfAccounts(app, accts) == {r \in records : r.app = app /\ r.acct \in accts}
BatchDisableUser(j, app, accts) == Begin(j, "disable", app, OfAccounts(app, accts))
BatchDeleteUser(j, app, accts) == Begin(j, "delete", app, OfAccounts(app, accts))

\* How a script may end: "ok"; "refused", a success field that is false;
\* "error", a failure or a timeout, with or without effect.
Ending(e, did) == (e = "ok" => did) /\ (e = "refused" => ~did)

RunScript(j, r, did, after, passed) ==
  /\ r \in job[j].todo
  /\ account' = IF did /\ r.acct \in Accounts /\ account[r.acct] # "absent"
                  THEN [account EXCEPT ![r.acct] = after] ELSE account
  /\ job' = [job EXCEPT ![j].todo = @ \ {r},
               ![j].done = IF passed THEN @ \cup {r} ELSE @,
               ![j].failed = IF passed THEN @ ELSE @ \cup {r}]
  /\ reported' = IF passed THEN reported \cup ({r} \cap records) ELSE reported
  /\ UNCHANGED <<user, rules, records, gen, changes, edits, mixed, lone>>

\* BatchCleanup looks at the exit code, the others at parseScriptResult too.
RunCleanup(j, r, e, did) ==
  At(j, "cleanup", "run") /\ Ending(e, did)
  /\ RunScript(j, r, did, "absent", e # "error")
RunDisable(j, r, e, did) ==
  At(j, "disable", "run") /\ Ending(e, did)
  /\ RunScript(j, r, did, "disabled", e = "ok")
RunDelete(j, r, e, did) ==
  At(j, "delete", "run") /\ Ending(e, did)
  /\ RunScript(j, r, did, "absent", e = "ok")

\* Mutant of Dealt: the records are found again by name.
DealtByName(j) ==
  {r \in records : \E d \in job[j].done : d.name = r.name}

\* successIDs; BatchCleanup keeps a record whose name failed somewhere.
Dealt(j) ==
  IF job[j].kind = "cleanup"
    THEN {r \in job[j].done : \A f \in job[j].failed : f.name # r.name}
    ELSE job[j].done

\* DeleteReconciliationByIDs
DeleteRecords(j) ==
  /\ job[j].pc = "run" /\ job[j].todo = {}
  /\ records' = records \ Dealt(j)
  /\ reported' = reported \ Dealt(j)
  /\ End(j)
  /\ UNCHANGED <<tables, rules, gen, changes, edits, mixed, lone>>

-----------------------------------------------------------------------------
(* The world outside, and crashes *)

Change == changes < MaxChanges /\ changes' = changes + 1

SetUser(n, s) ==
  /\ Change /\ user[n] # s
  /\ user' = [user EXCEPT ![n] = s]
  /\ lone' = lone \cup Lone(user', account)
  /\ UNCHANGED <<account, rules, records, job, gen, edits, mixed, reported>>

\* An application makes an account when its user signs in for the first time.
Provision(a) ==
  /\ Change /\ account[a] = "absent" /\ user[NameOf[a]] = "active"
  /\ account' = [account EXCEPT ![a] = "active"]
  /\ UNCHANGED <<user, rules, records, job, gen, edits, mixed, reported, lone>>

\* A crash between Clear and Write leaves the application without records.
Crash ==
  /\ \E j \in Jobs : ~Free(j)
  /\ job' = [j \in Jobs |-> Idle]
  /\ UNCHANGED <<tables, rules, records, gen, changes, edits, mixed, reported, lone>>

-----------------------------------------------------------------------------
JobStep(j) ==
  \/ CreateInsert(j)
  \/ (\E f \in SUBSET Accounts : FetchOk(j, f)) \/ FetchNothing(j)
  \/ Clear(j) \/ Write(j)
  \/ \E r \in job[j].todo, e \in {"ok", "refused", "error"}, did \in BOOLEAN :
       RunCleanup(j, r, e, did) \/ RunDisable(j, r, e, did) \/ RunDelete(j, r, e, did)
  \/ DeleteRecords(j)

Next ==
  \/ \E j \in Jobs : JobStep(j)
  \/ \E j \in Jobs, app \in Apps, can \in PowerChoices : CreateCheck(j, app, can)
  \/ \E i \in 1 .. MaxRules, app \in Apps, can \in PowerChoices : SaveRule(i, app, can)
  \/ \E i \in 1 .. MaxRules : DeleteRule(i)
  \/ \E j \in Jobs, app \in Apps, seen \in SUBSET Names : ReadUsers(j, app, seen)
  \/ \E j \in Jobs, app \in Apps, ids \in SUBSET records : BatchCleanup(j, app, ids)
  \/ \E j \in Jobs, app \in Apps, accts \in SUBSET Accounts :
       BatchDisableUser(j, app, accts) \/ BatchDeleteUser(j, app, accts)
  \/ \E n \in Names, s \in UserStates : SetUser(n, s)
  \/ \E a \in Accounts : Provision(a)
  \/ Crash

Spec == Init /\ [][Next]_vars

-----------------------------------------------------------------------------
(* Properties *)

\* Unless two reconciliations of an application wrote at the same time, its
\* records are one snapshot: a single run's, at most one record per user, and
\* "orphan" exactly where the snapshot knew no user.  A later run that
\* overlaps nothing restores this, after crashes and batches too
\* (RunReconciliation, step 4).
OneSnapshot ==
  \A r, s \in records : r.app = s.app /\ r.app \notin mixed =>
    /\ r.gen = s.gen
    /\ r.name = s.name => r = s
    /\ (r.result = "orphan") <=> (r.sso = "absent")

\* A record leaves the table only when its application is reconciled again or
\* when the script run for this very record ended well: a late batch never
\* takes away what a newer reconciliation wrote (DeleteReconciliationByIDs).
HandledOnly ==
  [][\A r \in records \ records' :
       \/ r \in reported
       \/ \E j \in Jobs : At(j, "reconcile", "clear") /\ job[j].app = r.app]_vars

\* The comment on step 3b: an orphan is an account whose user does not exist.
\* No account is listed as an orphan that has had its user all along.
OrphanHadNoUser ==
  \A r \in records : r.result = "orphan" => r.acct \in lone
=============================================================================
