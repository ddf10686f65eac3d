---------------------------- MODULE DirectorySync ----------------------------
(***************************************************************************)
(* The synchronisation of accounts with a remote directory                 *)
(* (service/directory_sync_service.go): full syncs, previews and pulls     *)
(* fetch a snapshot and replace the import buffer, a full sync then        *)
(* applies its snapshot in a second transaction and disables the accounts  *)
(* that the buffer lacks, imports apply buffered rows one transaction      *)
(* each, administrators edit and link rows, clear the buffer and work on   *)
(* accounts.                                                               *)
(*                                                                         *)
(* The database is SQLite with one connection (repository/db.go): a        *)
(* transaction keeps everybody else out, and single calls outside one are  *)
(* steps that interleave.  Departments, phones and e-mail strategies are   *)
(* left out; a remote user is a state, a source name and an address.       *)
(***************************************************************************)
EXTENDS Naturals, Sequences, FiniteSets, FiniteSetsExt

CONSTANTS
  Ext,                 \* external ids
  Users,               \* ids of local accounts; bounds how many are made
  Jobs,                \* syncs, previews, pulls and imports in flight
  Bases, MaxSuffix,    \* user names: a base and the numbers appended to it
  SourceOf, BaseOf,    \* remote user name, and its normalised form
  EmailOf,             \* remote address, or None
  Snapshots,           \* what a fetch may return
  Typed,               \* names that administrators type
  Placed,              \* users whose department maps to a local one
  MappingMode, HasMount,
  DeactivateMissing,
  AdminOps,            \* what other requests do to whole rows
  None

States == {"absent", "active", "inactive", "departed"}
Names == Bases \X Seq(2 .. MaxSuffix)
Emails == {EmailOf[e] : e \in Ext}

Accounts == [name : Names, email : Emails \cup {None}, domain : Ext \cup {None},
             source : {"local", "platform"}, active : BOOLEAN,
             hire : {"active", "resigned"}, locked : BOOLEAN]
BufferRows == [state : States, name : Names, edited : Names \cup {None}]

ASSUME SyncAssumption ==
  /\ IsFiniteSet(Users) /\ IsFiniteSet(Ext)
  /\ BaseOf \in [Ext -> Bases] /\ DOMAIN SourceOf = Ext /\ DOMAIN EmailOf = Ext
  /\ MaxSuffix \in Nat /\ MaxSuffix > Cardinality(Users)
  /\ Snapshots \subseteq [Ext -> States] /\ Typed \subseteq Names
  /\ Placed \subseteq Ext
  /\ {MappingMode, HasMount, DeactivateMissing} \subseteq BOOLEAN
  /\ AdminOps \subseteq {"touch", "unlock", "disable"}
  /\ None \notin Names \cup Users \cup Ext \cup Jobs \cup Accounts \cup BufferRows

VARIABLES
  users,    \* accounts: a row or None
  fresh,    \* ids that no account has had
  bind,     \* user bindings: external id to account id, or None
  buffer,   \* sso_directory_sync_buffer
  job,      \* jobs in flight
  tx,       \* the job whose transaction holds the connection, or None
  saved,    \* what a rollback of that transaction restores
  edit,     \* an edit of a buffer row between its read and its write
  writer    \* a request that read an account and has not saved it yet

vars == <<users, fresh, bind, buffer, job, tx, saved, edit, writer>>

Idle == [pc |-> "idle", snap |-> [e \in Ext |-> "absent"],
         rows |-> [e \in Ext |-> None], todo |-> {}, made |-> {},
         failed |-> {}, clean |-> FALSE]
NoEdit == [ext |-> None, name |-> None, mark |-> FALSE, live |-> FALSE]
NoWriter == [user |-> None, row |-> None, op |-> "touch"]

Init ==
  /\ users = [u \in Users |-> None] /\ fresh = Users
  /\ bind = [e \in Ext |-> None] /\ buffer = [e \in Ext |-> None]
  /\ job = [j \in Jobs |-> Idle] /\ tx = None /\ saved = None
  /\ edit = NoEdit /\ writer = NoWriter

-----------------------------------------------------------------------------
(* Queries *)

Living == {u \in Users : users[u] # None}
Free == tx = None

\* uuid.New: which unused id it is does not matter.
NewId == IF fresh = {} THEN {} ELSE {CHOOSE u \in fresh : TRUE}

\* valueTaken, for user names and addresses.
Taken(name, self) == \E u \in Living \ {self} : users[u].name = name
EmailTaken(email, self) ==
  email # None /\ \E u \in Living \ {self} : users[u].email = email

\* generateUsername: bob, bob2, bob3, ...
GenerateUsername(base, self) ==
  LET Nth(n) == <<base, IF n = 1 THEN <<>> ELSE <<n>>>>
  IN  Nth(Min({n \in 1 .. MaxSuffix : ~Taken(Nth(n), self)}))

\* Mutant of ResolveImportUsername: the name is used as it was typed.
AsTyped(name, self) == name

\* resolveImportUsername, and "rename": bob, bob2, bob23, ...
ResolveImportUsername(name, self) ==
  LET Nth(n) == <<name[1], name[2] \o [i \in 1 .. n - 1 |-> i + 1]>>
  IN  Nth(Min({n \in 1 .. MaxSuffix : ~Taken(Nth(n), self)}))

ByEmail(e) ==
  {u \in Living : EmailOf[e] # None /\ users[u].email = EmailOf[e]}
ByName(e) == {u \in Living : users[u].name = <<SourceOf[e], <<>>>>}

\* Mutant of FindUser: an address counts for more than the binding.
FindByEmailFirst(e) ==
  IF ByEmail(e) # {} THEN ByEmail(e) ELSE Living \cap {bind[e]}

\* The lookup chain of applyRemoteUser and findExistingUserForPreview: the
\* accounts First may return.
FindUser(e) ==
  LET byDomain == {u \in Living : users[u].domain = e}
  IN  IF bind[e] \in Living THEN {bind[e]}
      ELSE IF byDomain # {} THEN byDomain
      ELSE IF ByEmail(e) # {} THEN ByEmail(e)
      ELSE ByName(e)

\* resolveUserDepartment finds a department.
InScope(e) == e \in Placed \/ (HasMount /\ ~MappingMode)

HireStatus(state) == IF state = "active" THEN "active" ELSE "resigned"

\* effectiveUsername of a new (u = None) or existing account; the names of the
\* model are in lower case and not numeric, and no profile is marked as edited.
Natural(e, u) ==
  IF u = None \/ u \in ByName(e) THEN GenerateUsername(BaseOf[e], u)
                                 ELSE users[u].name

\* A name in a buffer row that differs from the natural one was edited.
NameFor(e, u, override) ==
  IF override \in {None, Natural(e, u)} THEN Natural(e, u)
                                        ELSE ResolveImportUsername(override, u)

\* The unique indexes on user name and e-mail.
Clashes(u, row) ==
  \E v \in Living \ {u} :
    \/ users[v].name = row.name
    \/ row.email # None /\ users[v].email = row.email

-----------------------------------------------------------------------------
(* applyRemoteUser *)

Disabled(row) ==
  [row EXCEPT !.active = FALSE, !.hire = "resigned", !.locked = TRUE]

\* is_active has a column default, so gorm stores TRUE for a new account
\* whatever the directory says.
NewAccount(e, state, override) ==
  [name |-> NameFor(e, None, override),
   email |-> IF EmailTaken(EmailOf[e], None) THEN None ELSE EmailOf[e],
   domain |-> e, source |-> "platform", active |-> TRUE,
   hire |-> HireStatus(state), locked |-> FALSE]

\* Neither the address nor the lock of an existing account is changed.
Refreshed(e, u, state, override) ==
  [users[u] EXCEPT !.name = NameFor(e, u, override), !.domain = e,
                   !.active = state = "active", !.hire = HireStatus(state)]

\* The outcome of writing row to account u and binding e to it.
Write(e, u, row, new) ==
  IF Clashes(u, row)
    THEN [users |-> users, bind |-> bind, fresh |-> fresh, ok |-> FALSE,
          new |-> FALSE]
    ELSE [users |-> [users EXCEPT ![u] = row], bind |-> [bind EXCEPT ![e] = u],
          fresh |-> fresh \ {u}, ok |-> TRUE, new |-> new]

Outcomes(e, state, override) ==
  IF state = "departed"
    THEN LET found == FindUser(e)
             Leave(table) == [users |-> table, bind |-> bind, fresh |-> fresh,
                              ok |-> TRUE, new |-> FALSE]
         IN  IF found = {} THEN {Leave(users)}
             ELSE {Leave([users EXCEPT ![u] = Disabled(users[u])]) : u \in found}
  ELSE IF FindUser(e) = {}
    THEN {Write(e, u, NewAccount(e, state, override), TRUE) : u \in NewId}
  ELSE {Write(e, u, Refreshed(e, u, state, override), FALSE) : u \in FindUser(e)}

Apply(j, e, state, override) ==
  \E o \in Outcomes(e, state, override) :
    /\ users' = o.users /\ bind' = o.bind /\ fresh' = o.fresh
    /\ job' = [job EXCEPT ![j].todo = @ \ {e},
                          ![j].made = IF o.new THEN @ \cup {e} ELSE @,
                          ![j].failed = IF o.ok THEN @ ELSE @ \cup {e}]

-----------------------------------------------------------------------------
(* Sync, Preview and Pull *)

\* What a lookup may return, for all users at once.
Found(e) == IF FindUser(e) = {} THEN {None} ELSE FindUser(e)
Previews == {f \in [Ext -> UNION {Found(e) : e \in Ext}] :
               \A e \in Ext : f[e] \in Found(e)}

\* Names edited by hand outlive the replacement of the buffer.
StoredRow(e, state, old, u) ==
  LET edited == IF old = None THEN None ELSE old.edited
  IN  [state |-> state, edited |-> edited,
       name |-> IF edited # None THEN edited ELSE Natural(e, u)]

Stored(snap, u) ==
  [e \in Ext |-> IF snap[e] = "absent" \/ ~InScope(e) THEN None
                ELSE StoredRow(e, snap[e], buffer[e], u[e])]

\* fetchCombinedSnapshot returns snap, whatever the directory holds by then,
\* and storeSnapshot replaces the buffer in one transaction.  A pull ends
\* here, and so does a preview: applied with dryRun, its snapshot is written
\* to no account or binding.
StoreSnapshot(j, kind, snap) ==
  /\ job[j].pc = "idle" /\ Free
  /\ \E u \in Previews : buffer' = Stored(snap, u)
  /\ job' = [k \in Jobs |->
               IF k # j THEN [job[k] EXCEPT !.clean = FALSE]
               ELSE IF kind = "pull" THEN Idle
               ELSE [Idle EXCEPT !.pc = "apply", !.snap = snap, !.clean = TRUE]]
  /\ edit' = [edit EXCEPT !.live = FALSE]
  /\ UNCHANGED <<users, fresh, bind, tx, saved, writer>>

\* In mapping mode users out of scope are passed over.
Begin(j) ==
  /\ job[j].pc = "apply" /\ Free
  /\ tx' = j /\ saved' = [users |-> users, bind |-> bind, fresh |-> fresh]
  /\ job' = [job EXCEPT ![j].pc = "users",
                        ![j].todo = {e \in Ext : /\ job[j].snap[e] # "absent"
                                                 /\ MappingMode => InScope(e)}]
  /\ UNCHANGED <<users, fresh, bind, buffer, edit, writer>>

ApplyUser(j, e) ==
  /\ job[j].pc = "users" /\ e \in job[j].todo
  /\ Apply(j, e, job[j].snap[e], None)
  /\ UNCHANGED <<buffer, tx, saved, edit, writer>>

BufferNames == {buffer[e].name : e \in {x \in Ext : buffer[x] # None}}
BufferEmails == {EmailOf[e] : e \in {x \in Ext : buffer[x] # None}} \ {None}

\* The bindings of u that First may return.
Via(u) ==
  IF \E e \in Ext : bind[e] = u THEN {e \in Ext : bind[e] = u} ELSE {None}

\* Mutant of Missing: the binding is not looked at.
MissingByName(u, e) ==
  /\ users[u].source = "platform"
  /\ users[u].active \/ users[u].hire # "resigned"
  /\ users[u].name \notin BufferNames
  /\ users[u].email \notin BufferEmails

\* disableMissingUsers, for an account seen with one of its bindings.
Missing(u, e) ==
  /\ users[u].source = "platform"
  /\ users[u].active \/ users[u].hire # "resigned"
  /\ e \in Ext => buffer[e] = None
  /\ users[u].name \notin BufferNames
  /\ users[u].email \notin BufferEmails

\* The end of applySnapshot and the commit.
DisableMissing(j) ==
  /\ job[j].pc = "users" /\ job[j].todo = {}
  /\ \E lost \in SUBSET {u \in Living : \E e \in Via(u) : Missing(u, e)} :
       /\ {u \in Living : \A e \in Via(u) : Missing(u, e)} \subseteq lost
       /\ users' = [u \in Users |-> IF DeactivateMissing /\ u \in lost
                                     THEN Disabled(users[u]) ELSE users[u]]
  /\ tx' = None /\ saved' = None
  /\ job' = [job EXCEPT ![j].pc = "log"]
  /\ UNCHANGED <<fresh, bind, buffer, edit, writer>>

\* applySnapshot returns an error, and gorm rolls the transaction back.
Abort(j) ==
  /\ tx = j
  /\ users' = saved.users /\ bind' = saved.bind /\ fresh' = saved.fresh
  /\ tx' = None /\ saved' = None
  /\ job' = [job EXCEPT ![j].pc = "failed"]
  /\ UNCHANGED <<buffer, edit, writer>>

FinishLog(j) ==
  /\ job[j].pc \in {"log", "failed"} /\ Free
  /\ job' = [job EXCEPT ![j] = Idle]
  /\ UNCHANGED <<users, fresh, bind, buffer, tx, saved, edit, writer>>

-----------------------------------------------------------------------------
(* ImportUsers *)

\* Mutant of ImportRead: ids without a row are not skipped.
ImportReadAll(j, chosen) ==
  /\ job[j].pc = "idle" /\ Free
  /\ \E e \in chosen : buffer[e] # None
  /\ job' = [job EXCEPT ![j] =
               [Idle EXCEPT !.pc = "import", !.todo = chosen,
                            !.rows = [e \in Ext |-> IF e \in chosen
                                                      THEN buffer[e] ELSE None]]]
  /\ UNCHANGED <<users, fresh, bind, buffer, tx, saved, edit, writer>>

ImportRead(j, chosen) ==
  /\ job[j].pc = "idle" /\ Free
  /\ \E e \in chosen : buffer[e] # None
  /\ job' = [job EXCEPT ![j] =
               [Idle EXCEPT !.pc = "import",
                            !.rows = [e \in Ext |-> IF e \in chosen
                                                      THEN buffer[e] ELSE None],
                            !.todo = {e \in chosen : buffer[e] # None}]]
  /\ UNCHANGED <<users, fresh, bind, buffer, tx, saved, edit, writer>>

\* One transaction for each row, however old the row is by then.
ImportUser(j, e) ==
  /\ job[j].pc = "import" /\ e \in job[j].todo /\ Free
  /\ Apply(j, e, job[j].rows[e].state, job[j].rows[e].name)
  /\ UNCHANGED <<buffer, tx, saved, edit, writer>>

ImportDone(j) ==
  /\ job[j].pc = "import" /\ job[j].todo = {} /\ Free
  /\ job' = [job EXCEPT ![j] = Idle]
  /\ UNCHANGED <<users, fresh, bind, buffer, tx, saved, edit, writer>>

-----------------------------------------------------------------------------
(* Work on the buffer *)

\* EditBufferField with a free name, ResolveBufferConflict "rename" else.
EditRow(e, name) ==
  /\ edit = NoEdit /\ Free /\ buffer[e] # None
  /\ edit' = [ext |-> e, name |-> ResolveImportUsername(name, None),
              mark |-> TRUE, live |-> TRUE]
  /\ UNCHANGED <<users, fresh, bind, buffer, job, tx, saved, writer>>

\* ResolveBufferConflict "link": the binding is written before the row.
Link(e, u) ==
  /\ edit = NoEdit /\ Free /\ buffer[e] # None /\ u \in Living
  /\ bind' = [bind EXCEPT ![e] = u]
  /\ edit' = [ext |-> e, name |-> users[u].name, mark |-> FALSE, live |-> TRUE]
  /\ UNCHANGED <<users, fresh, buffer, job, tx, saved, writer>>

\* The write goes to the row that was read: if that was replaced, nowhere.
EditSave ==
  /\ edit # NoEdit /\ Free
  /\ buffer' = IF edit.live
                 THEN [buffer EXCEPT ![edit.ext].name = edit.name,
                                     ![edit.ext].edited =
                                       IF edit.mark THEN edit.name ELSE @]
                 ELSE buffer
  /\ edit' = NoEdit
  /\ UNCHANGED <<users, fresh, bind, job, tx, saved, writer>>

\* ResetManagedDepartments, or SaveConfig with another platform (and then back:
\* the other platform has bindings and rows of its own).
ClearBuffer ==
  /\ Free
  /\ buffer' = [e \in Ext |-> None]
  /\ job' = [j \in Jobs |-> [job[j] EXCEPT !.clean = FALSE]]
  /\ edit' = [edit EXCEPT !.live = FALSE]
  /\ UNCHANGED <<users, fresh, bind, tx, saved, writer>>

-----------------------------------------------------------------------------
(* Accounts and the directory *)

\* UserService.Create refuses a name that is taken.
CreateLocal(u, name) ==
  /\ Free /\ u \in NewId /\ ~Taken(name, None)
  /\ users' = [users EXCEPT ![u] =
                 [name |-> name, email |-> None, domain |-> None,
                  source |-> "local", active |-> TRUE, hire |-> "active",
                  locked |-> FALSE]]
  /\ fresh' = fresh \ {u}
  /\ UNCHANGED <<bind, buffer, job, tx, saved, edit, writer>>

\* The binding stays behind.
DeleteUser(u) ==
  /\ Free /\ u \in Living
  /\ users' = [users EXCEPT ![u] = None]
  /\ UNCHANGED <<fresh, bind, buffer, job, tx, saved, edit, writer>>

\* Logins and administrators read a row ...
ReadAccount(u, op) ==
  /\ Free /\ writer = NoWriter /\ u \in Living
  /\ writer' = [user |-> u, row |-> users[u], op |-> op]
  /\ UNCHANGED <<users, fresh, bind, buffer, job, tx, saved, edit>>

\* ... and save all of it, over whatever a sync has written since.
SaveAccount ==
  /\ Free /\ writer # NoWriter
  /\ LET row == [writer.row EXCEPT
                   !.locked = IF writer.op = "unlock" THEN FALSE ELSE @,
                   !.active = IF writer.op = "disable" THEN FALSE ELSE @]
     IN  users' = IF Clashes(writer.user, row) THEN users
                  ELSE [users EXCEPT ![writer.user] = row]
  /\ writer' = NoWriter
  /\ UNCHANGED <<fresh, bind, buffer, job, tx, saved, edit>>

\* The process dies; an open transaction is rolled back.
Crash ==
  /\ IF tx = None THEN UNCHANGED <<users, bind, fresh>>
     ELSE users' = saved.users /\ bind' = saved.bind /\ fresh' = saved.fresh
  /\ tx' = None /\ saved' = None
  /\ job' = [j \in Jobs |-> Idle]
  /\ edit' = NoEdit /\ writer' = NoWriter
  /\ UNCHANGED buffer

-----------------------------------------------------------------------------
JobStep(j) ==
  \/ Begin(j)
  \/ \E e \in Ext : ApplyUser(j, e) \/ ImportUser(j, e)
  \/ DisableMissing(j) \/ FinishLog(j) \/ ImportDone(j)

Work == EditSave \/ SaveAccount \/ \E j \in Jobs : JobStep(j)

Arrive ==
  \/ \E j \in Jobs, kind \in {"sync", "pull"}, snap \in Snapshots :
       StoreSnapshot(j, kind, snap)
  \/ \E j \in Jobs, chosen \in SUBSET Ext : ImportRead(j, chosen)

Administer ==
  \/ \E e \in Ext, name \in Typed : EditRow(e, name)
  \/ \E e \in Ext, u \in Users : Link(e, u)
  \/ ClearBuffer
  \/ \E u \in Users, name \in Typed : CreateLocal(u, name)
  \/ \E u \in Users : DeleteUser(u)
  \/ \E u \in Users, op \in AdminOps : ReadAccount(u, op)

Fail == Crash \/ \E j \in Jobs : Abort(j)

Next == Work \/ Arrive \/ Administer \/ Fail

Spec == Init /\ [][Next]_vars

\* A job that was started goes on.
Fairness == \A j \in Jobs : WF_vars(JobStep(j))

-----------------------------------------------------------------------------
(* Properties *)

Tables == [users : [Users -> Accounts \cup {None}], fresh : SUBSET Users,
           bind : [Ext -> Users \cup {None}]]
JobStates ==
  [pc : {"idle", "apply", "users", "log", "failed", "import"},
   snap : [Ext -> States], rows : [Ext -> BufferRows \cup {None}],
   todo : SUBSET Ext, made : SUBSET Ext, failed : SUBSET Ext, clean : BOOLEAN]

\* Types, and what the steps of a job rely on: only a full sync opens the long
\* transaction, with something to roll back to; an import holds the rows it
\* has still to apply; an edit that will be written has its row.
TypeOK ==
  /\ [users |-> users, fresh |-> fresh, bind |-> bind] \in Tables
  /\ buffer \in [Ext -> BufferRows \cup {None}]
  /\ job \in [Jobs -> JobStates]
  /\ \A j \in Jobs :
       /\ job[j].pc = "users" <=> tx = j
       /\ job[j].pc = "import" =>
            \A e \in job[j].todo : job[j].rows[e] \in BufferRows
  /\ (tx = None /\ saved = None) \/ (tx \in Jobs /\ saved \in Tables)
  /\ edit.live => edit.ext \in Ext /\ buffer[edit.ext] # None
  /\ writer.user # None => writer.row \in Accounts

\* Once an external id is bound to an account that exists, no sync or import
\* moves it to another account, whatever addresses and names coincide; only an
\* administrator's link does, and the rollback of a transaction that made the
\* binding (the lookup chain of applyRemoteUser).
StableIdentity ==
  [][\A e \in Ext :
       bind[e] \in Living /\ bind'[e] # bind[e] =>
         edit'.ext = e \/ (tx # None /\ bind' = saved.bind)]_vars

\* No job ever loses a user to the unique indexes: generateUsername and
\* resolveImportUsername find a free name even if the one previewed or edited
\* has been taken since.
NoNameClash == \A j \in Jobs : job[j].failed = {}

\* Whether user e of the directory could be taken for account u.
Claims(e, u) ==
  bind[e] = u \/ users[u].domain = e \/ u \in ByEmail(e) \cup ByName(e)
\* No other user has a say in e's account: accounts that two external ids
\* share, as after a link, follow either of them.
Alone(j, e) ==
  \A x \in Ext \ {e} :
    bind[x] # bind[e] /\ (job[j].snap[x] # "absent" => ~Claims(x, bind[e]))

\* The accounts agree with the snapshot of job j, one account at a time.
Converged(j) ==
  /\ \A e \in Ext :
       bind[e] \in Living /\ Alone(j, e) =>
         LET row == users[bind[e]]
             state == job[j].snap[e]
         IN  /\ state = "active" /\ InScope(e) => row.active
             /\ state = "inactive" /\ InScope(e) => ~row.active \/ e \in job[j].made
             /\ state = "departed" /\ InScope(e) => ~row.active /\ row.locked
  /\ \A e \in Ext : job[j].snap[e] = "active" /\ InScope(e) => bind[e] \in Living

\* A full sync whose buffer nobody else has replaced leaves the accounts in
\* agreement with its snapshot: active users have an active account, inactive
\* ones (unless just created) and departed ones an inactive one, whatever
\* deletions, links, stale bindings and half-done jobs came before
\* (storeSnapshot, applySnapshot, disableMissingUsers).
SyncConverges ==
  [][\A j \in Jobs :
       job[j].pc = "users" /\ job'[j].pc = "log" /\ job[j].clean
         => Converged(j)']_vars

\* The comment on disableMissingUsers: it disables accounts whose users have
\* left the directory, not one whose user the job has just fetched as active.
PresentKept ==
  [][\A j \in Jobs, e \in Ext :
       (/\ job[j].pc = "users" /\ job'[j].pc = "log"
        /\ job[j].snap[e] = "active" /\ InScope(e)
        /\ bind[e] \in Living /\ Alone(j, e) /\ users[bind[e]].active)
       => users'[bind[e]].active]_vars
=============================================================================
