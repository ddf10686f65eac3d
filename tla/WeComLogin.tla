------------------------------ MODULE WeComLogin ------------------------------
(***************************************************************************)
(* Login with WeCom (Enterprise WeChat): the state token of a scan, the    *)
(* callback, the search for the local account of a WeCom userid, the       *)
(* account made when there is none, and the links that users and           *)
(* administrators set or cut (handler/wecom_handler.go,                    *)
(* service/wecom_service.go).                                              *)
(*                                                                         *)
(* No transaction spans two statements here: each query and each Save of a *)
(* whole row is a step, and what a request has read may be old when it is  *)
(* written back.  The tokens of the store (Tickets adds the other kinds)   *)
(* may expire at any time.                                                 *)
(***************************************************************************)
EXTENDS Integers, FiniteSets

CONSTANTS
  Ids, NoId,           \* WeCom userids
  Users, NoUser,       \* primary keys of user rows
  Tokens, NoToken,     \* keys of the store, drawn at random
  KindsOf,             \* what a key may be drawn for
  Mails, NoMail,       \* addresses
  MailOf,              \* the address in a member's detail, or NoMail
  BaseOf,              \* what normalizeUsernameBase makes of a userid
  Mapped,              \* userids whose WeCom department is mapped
  FirstRows,           \* user tables to begin with
  Requests,
  AutoCreate,          \* auto_create_user
  FixedState,          \* the application page uses wecomFixedState
  MaxBegins,           \* bound on the requests
  MaxActs,             \* bound on acts of administrators, crashes, departures
  MaxNames             \* bound on the suffix of a generated user name

Kinds == {"login", "bind", "reset", "challenge", "ticket"}
DeadToken == [kind |-> "none", u |-> NoUser, phase |-> "dead"]
Names == [base : {BaseOf[i] : i \in Ids}, k : 0 .. MaxNames]
Rows == [on : BOOLEAN, dom : Ids \cup {NoId}, mail : Mails \cup {NoMail},
         barred : BOOLEAN, placed : BOOLEAN, name : Names]
NoRow == [on |-> FALSE, dom |-> NoId, mail |-> NoMail, barred |-> FALSE,
          placed |-> FALSE, name |-> [base |-> "none", k |-> 0]]

ASSUME WeComAssumption ==
  /\ NoId \notin Ids /\ NoUser \notin Users /\ NoToken \notin Tokens
  /\ KindsOf \in [Tokens -> SUBSET Kinds]
  /\ NoMail \notin Mails /\ MailOf \in [Ids -> Mails \cup {NoMail}]
  /\ Mapped \subseteq Ids /\ FirstRows \subseteq [Users -> Rows \cup {NoRow}]
  /\ AutoCreate \in BOOLEAN /\ FixedState \in BOOLEAN
  /\ {MaxBegins, MaxActs, MaxNames} \subseteq Nat

\* The unique indexes hold of the rows to begin with.
ASSUME RowsAssumption ==
  \A f \in FirstRows, u, v \in Users : u # v /\ f[u].on /\ f[v].on =>
    f[u].name # f[v].name /\ (f[u].mail = NoMail \/ f[u].mail # f[v].mail)

\* No two members of a WeCom enterprise have the same address.
ASSUME MailAssumption ==
  \A i, j \in Ids : MailOf[i] = MailOf[j] /\ MailOf[i] # NoMail => i = j

VARIABLES
  user,      \* sso_user; on: the row exists
  binding,   \* sso_directory_sync_binding, by its unique external id
  tok,       \* the store: [kind, u, phase]
  gone,      \* members whose WeCom name says that they have left
  req,       \* requests in flight
  begun, acts,
  honoured,  \* history: tokens whose request was answered with success
  origin,    \* history: the userid an account was made for
  solid,     \* history: links made while nothing else was under way
  cut,       \* history: accounts unlinked while nothing else was under way
  shaky      \* history: userids touched by overlapping requests, cut or
             \* reassigned, or whose account was deleted

rows == <<user, binding>>
bounds == <<begun, acts>>
hist == <<honoured, origin, solid, cut, shaky>>
vars == <<rows, tok, gone, req, bounds, hist>>

Idle == [pc |-> "idle", op |-> "none", t |-> NoToken, id |-> NoId, u |-> NoUser,
         row |-> NoRow, detail |-> FALSE, left |-> FALSE, via |-> "none",
         found |-> FALSE, k |-> 0, solo |-> FALSE]

Init ==
  /\ user \in FirstRows
  /\ binding \in {[i \in Ids |-> IF user[u].on /\ user[u].dom = i THEN u ELSE NoUser] :
                    u \in Users}
  /\ gone = {}
  /\ tok = [t \in Tokens |-> [kind |-> "none", u |-> NoUser, phase |-> "fresh"]]
  /\ req = [r \in Requests |-> Idle]
  /\ begun = 0 /\ acts = 0
  /\ honoured = {} /\ origin = [u \in Users |-> NoId]
  /\ solid = {} /\ cut = {} /\ shaky = {}

-----------------------------------------------------------------------------
(* Helpers *)

At(r, pc) == req[r].pc = pc
\* solo: nothing else has been under way since the request began.
Alone(r) == \A q \in Requests \ {r} : req[q].pc = "idle"
End(r) == req' = [req EXCEPT ![r] = Idle]
Goto(r, pc) == req' = [req EXCEPT ![r].pc = pc]
Holding(r, pc, u, row, via) ==
  req' = [req EXCEPT ![r].pc = pc, ![r].u = u, ![r].row = row, ![r].via = via]

Begin(r, q) ==
  /\ At(r, "idle") /\ begun < MaxBegins /\ begun' = begun + 1
  /\ req' = [p \in Requests |->
               IF p = r THEN [q EXCEPT !.solo = Alone(r)]
               ELSE [req[p] EXCEPT !.solo = FALSE]]

\* Primary keys are random UUIDs: no row has had this one, and nobody knows it.
Unseen(u) == origin[u] = NoId /\ \A f \in FirstRows : ~f[u].on

Draw(t, kind, u) ==
  /\ tok[t].phase = "fresh" /\ kind \in KindsOf[t]
  /\ tok' = [tok EXCEPT ![t] = [kind |-> kind, u |-> u, phase |-> "live"]]

\* Unique indexes on the user name and on the address.
Clashes(u, row) ==
  \E v \in Users \ {u} : user[v].on /\
    (user[v].name = row.name \/ (row.mail # NoMail /\ user[v].mail = row.mail))

\* gorm's Save: every column, and an insert when the row has gone.
Saved(u, row) == IF Clashes(u, row) THEN user ELSE [user EXCEPT ![u] = row]

\* A request on userid i has company: what it decides may be overtaken.
Company(r, i) == IF Alone(r) THEN shaky ELSE shaky \cup ({i} \cap Ids)

-----------------------------------------------------------------------------
(* The scan *)

\* QRConfig, Login and Authorize issue a state for a login or for a link.
IssueState(t, mode) ==
  /\ Draw(t, mode, NoUser)
  /\ UNCHANGED <<rows, gone, req, bounds, hist>>

\* The callback: Get the state, then Del it; an unknown one ends the request.
Callback(r, t) ==
  /\ tok[t].phase = "live" /\ tok[t].kind \in {"login", "bind"}
  /\ Begin(r, [Idle EXCEPT !.pc = "del", !.op = tok[t].kind, !.t = t])
  /\ UNCHANGED <<rows, tok, gone, acts, hist>>

CallbackFixed(r) ==
  /\ FixedState
  /\ Begin(r, [Idle EXCEPT !.pc = "code", !.op = "login"])
  /\ UNCHANGED <<rows, tok, gone, acts, hist>>

\* Mutant of ConsumeState: the state is left to expire.
ConsumeStateLater(r) ==
  /\ At(r, "del") /\ req[r].op \in {"login", "bind"}
  /\ Goto(r, "code")
  /\ UNCHANGED <<rows, tok, gone, bounds, hist>>

ConsumeState(r) ==
  /\ At(r, "del") /\ req[r].op \in {"login", "bind"}
  /\ tok' = [tok EXCEPT ![req[r].t] = DeadToken]
  /\ Goto(r, "code")
  /\ UNCHANGED <<rows, gone, bounds, hist>>

\* The name in the detail, if there is one, carries the mark of departure.
Departed(i, detail) == detail /\ i \in gone

\* ResolveCode names the member, and fetchUserDetail may come back with nothing.
ResolveCode(r, i, detail) ==
  /\ At(r, "code") /\ req[r].op = "login"
  /\ req' = [req EXCEPT ![r].pc = "bound", ![r].id = i, ![r].detail = detail,
                        ![r].left = Departed(i, detail)]
  /\ shaky' = Company(r, i)
  /\ UNCHANGED <<rows, tok, gone, bounds, honoured, origin, solid, cut>>

\* In bind mode the account is the one of the session cookie.
ResolveBind(r, i, u) ==
  /\ At(r, "code") /\ req[r].op = "bind" /\ ~Unseen(u)
  /\ req' = [req EXCEPT ![r].pc = "release", ![r].id = i, ![r].u = u]
  /\ shaky' = shaky \cup {i} \cup ({user[u].dom} \cap Ids)
  /\ solid' = {p \in solid : p[1] # i /\ p[2] # u}
  /\ cut' = cut \ {u}
  /\ UNCHANGED <<rows, tok, gone, bounds, honoured, origin>>

\* ResolveCode or currentUserID fails, or the caller goes away.
Abandon(r) ==
  /\ At(r, "code")
  /\ End(r)
  /\ UNCHANGED <<rows, tok, gone, bounds, hist>>

-----------------------------------------------------------------------------
(* FindOrCreateUser *)

\* Mutant of FindBinding: the column of the user table is asked first.
FindDomainFirst(r) ==
  /\ At(r, "bound")
  /\ \/ \E u \in {v \in Users : user[v].on /\ user[v].dom = req[r].id} :
          Holding(r, "apply", u, user[u], "domain")
     \/ /\ \A v \in Users : user[v].on => user[v].dom # req[r].id
        /\ IF binding[req[r].id] = NoUser THEN Goto(r, "domain")
           ELSE Holding(r, "load", binding[req[r].id], NoRow, "binding")
  /\ UNCHANGED <<rows, tok, gone, bounds, hist>>

\* 1. The binding, then its row; a dangling binding falls through.
FindBinding(r) ==
  /\ At(r, "bound")
  /\ IF binding[req[r].id] = NoUser THEN Goto(r, "domain")
     ELSE Holding(r, "load", binding[req[r].id], NoRow, "binding")
  /\ UNCHANGED <<rows, tok, gone, bounds, hist>>

\* Mutant of LoadBound: the account of a binding is taken to exist.
LoadBoundBlind(r) ==
  /\ At(r, "load")
  /\ Holding(r, "apply", req[r].u, user[req[r].u], "binding")
  /\ UNCHANGED <<rows, tok, gone, bounds, hist>>

LoadBound(r) ==
  /\ At(r, "load")
  /\ IF user[req[r].u].on THEN Holding(r, "apply", req[r].u, user[req[r].u], "binding")
     ELSE Holding(r, "domain", NoUser, NoRow, "none")
  /\ UNCHANGED <<rows, tok, gone, bounds, hist>>

WithDomain(i) == {u \in Users : user[u].on /\ user[u].dom = i}

\* 2. domain_account: the first of the rows that have it.
FindDomain(r) ==
  /\ At(r, "domain")
  /\ \/ /\ WithDomain(req[r].id) = {}
        /\ Goto(r, "mail")
     \/ \E u \in WithDomain(req[r].id) : Holding(r, "apply", u, user[u], "domain")
  /\ UNCHANGED <<rows, tok, gone, bounds, hist>>

WithMail(i) == {u \in Users : user[u].on /\ MailOf[i] # NoMail /\ user[u].mail = MailOf[i]}

\* 3. The address; after that the request ends, or makes an account.
FindMail(r) ==
  /\ At(r, "mail")
  /\ IF req[r].detail /\ WithMail(req[r].id) # {}
       THEN \E u \in WithMail(req[r].id) :
              Holding(r, "apply", u, user[u], "mail")
       ELSE IF AutoCreate /\ ~req[r].left THEN Goto(r, "name") ELSE End(r)
  /\ UNCHANGED <<rows, tok, gone, bounds, hist>>

\* handleDepartedUser: the account is closed with the row that was read.
Depart(r) ==
  /\ At(r, "apply") /\ req[r].left
  /\ user' = Saved(req[r].u, [req[r].row EXCEPT !.barred = TRUE])
  /\ End(r)
  /\ UNCHANGED <<binding, tok, gone, bounds, hist>>

\* LastLogin is saved, and with it all of the row that was read; a match by
\* address also sets domain_account.
Stamp(r) ==
  LET q == req[r]
      row == IF q.via = "mail" THEN [q.row EXCEPT !.dom = q.id] ELSE q.row
  IN  /\ At(r, "apply") /\ ~q.left
      /\ user' = Saved(q.u, row)
      /\ Holding(r, IF q.via = "binding" THEN "backfill" ELSE "upread", q.u, row, q.via)
      /\ UNCHANGED <<binding, tok, gone, bounds, hist>>

Taken(name) == \E u \in Users : user[u].on /\ user[u].name = name
NameOf(r) == [base |-> BaseOf[req[r].id], k |-> req[r].k]

\* 4. Names are tried one query at a time.
TryName(r) ==
  /\ At(r, "name")
  /\ IF Taken(NameOf(r))
       THEN req[r].k < MaxNames /\ req' = [req EXCEPT ![r].k = @ + 1]
       ELSE Goto(r, "create")
  /\ UNCHANGED <<rows, tok, gone, bounds, hist>>

\* resolveDepartmentByWeComID finds a mapped department.
HasPlace(r) == req[r].detail /\ req[r].id \in Mapped

\* Mutant of NewRow: domain_account is left to the binding.
NewRowUnlinked(r) ==
  [on |-> TRUE, dom |-> NoId,
   mail |-> IF req[r].detail THEN MailOf[req[r].id] ELSE NoMail,
   barred |-> FALSE, placed |-> HasPlace(r),
   name |-> NameOf(r)]

NewRow(r) ==
  [on |-> TRUE, dom |-> req[r].id,
   mail |-> IF req[r].detail THEN MailOf[req[r].id] ELSE NoMail,
   barred |-> FALSE, placed |-> HasPlace(r),
   name |-> NameOf(r)]

Create(r, u) ==
  /\ At(r, "create")
  /\ Unseen(u)
  /\ IF Clashes(u, NewRow(r))
       THEN End(r) /\ UNCHANGED <<user, origin>>
       ELSE /\ user' = [user EXCEPT ![u] = NewRow(r)]
            /\ Holding(r, "upread", u, NewRow(r), "create")
            /\ origin' = [origin EXCEPT ![u] = req[r].id]
  /\ UNCHANGED <<binding, tok, gone, bounds, honoured, solid, cut, shaky>>

-----------------------------------------------------------------------------
(* upsertUserBinding, backfillWeComUser, the gate of the callback *)

UpsertRead(r) ==
  /\ At(r, "upread")
  /\ req' = [req EXCEPT ![r].pc = "upwrite", ![r].found = binding[req[r].id] # NoUser]
  /\ UNCHANGED <<rows, tok, gone, bounds, hist>>

\* Save of the binding found; Create fails on the unique index.
UpsertWrite(r) ==
  LET i == req[r].id
      ok == req[r].found \/ binding[i] = NoUser
  IN  /\ At(r, "upwrite")
      /\ binding' = IF ok THEN [binding EXCEPT ![i] = req[r].u] ELSE binding
      /\ IF req[r].op = "login" THEN Goto(r, "backfill")
         ELSE IF ok THEN Goto(r, "owner") ELSE End(r)
      /\ UNCHANGED <<user, tok, gone, bounds, hist>>

\* The department of a row without one is filled in, from the copy at hand.
\* (The default groups, an insert that ignores duplicates, are left out.)
Backfill(r) ==
  LET q == req[r]
      fill == q.via # "create" /\ ~q.row.placed /\ HasPlace(r)
  IN  /\ At(r, "backfill")
      /\ user' = IF fill THEN Saved(q.u, [q.row EXCEPT !.placed = TRUE]) ELSE user
      /\ Goto(r, "gate")
      /\ UNCHANGED <<binding, tok, gone, bounds, hist>>

\* The row is read again: locked, disabled and resigned users stay outside.
Refuse(r) ==
  /\ At(r, "gate")
  /\ ~user[req[r].u].on \/ user[req[r].u].barred
  /\ End(r)
  /\ UNCHANGED <<rows, tok, gone, bounds, hist>>

Enter(r) ==
  /\ At(r, "gate")
  /\ user[req[r].u].on /\ ~user[req[r].u].barred
  /\ honoured' = honoured \cup ({req[r].t} \cap Tokens)
  /\ End(r)
  /\ UNCHANGED <<rows, tok, gone, bounds, origin, solid, cut, shaky>>

-----------------------------------------------------------------------------
(* BindWeCom: from the console, the profile page or a scan in bind mode *)

StartBind(r, u, i) ==
  /\ ~Unseen(u)
  /\ Begin(r, [Idle EXCEPT !.pc = "release", !.op = "put", !.id = i, !.u = u])
  /\ shaky' = shaky \cup {i} \cup ({user[u].dom} \cap Ids)
  /\ solid' = {p \in solid : p[1] # i /\ p[2] # u}
  /\ cut' = cut \ {u}
  /\ UNCHANGED <<rows, tok, gone, acts, honoured, origin>>

\* A userid that is bound to somebody else is taken away first.
Release(r) ==
  /\ At(r, "release")
  /\ binding' = IF binding[req[r].id] = req[r].u THEN binding
                ELSE [binding EXCEPT ![req[r].id] = NoUser]
  /\ Goto(r, "upread")
  /\ UNCHANGED <<user, tok, gone, bounds, hist>>

StartUnbind(r, u) ==
  /\ ~Unseen(u)
  /\ Begin(r, [Idle EXCEPT !.pc = "unlink", !.op = "cut", !.u = u])
  /\ shaky' = shaky \cup {i \in Ids : binding[i] = u \/ user[u].dom = i}
  /\ solid' = {p \in solid : p[2] # u}
  /\ UNCHANGED <<rows, tok, gone, acts, honoured, origin, cut>>

Unlink(r) ==
  /\ At(r, "unlink")
  /\ binding' = [i \in Ids |-> IF binding[i] = req[r].u THEN NoUser ELSE binding[i]]
  /\ Goto(r, "owner")
  /\ UNCHANGED <<user, tok, gone, bounds, hist>>

\* The row is read, and domain_account saved with the rest of it.
ReadOwner(r) ==
  /\ At(r, "owner")
  /\ IF user[req[r].u].on THEN Holding(r, "write", req[r].u, user[req[r].u], "owner")
     ELSE End(r)
  /\ UNCHANGED <<rows, tok, gone, bounds, hist>>

\* Mutant of SetDomain: only binding sets the column.
SetDomainKept(r) ==
  IF req[r].op = "cut" THEN req[r].row ELSE [req[r].row EXCEPT !.dom = req[r].id]

SetDomain(r) == [req[r].row EXCEPT !.dom = req[r].id]

WriteOwner(r) ==
  /\ At(r, "write")
  /\ user' = Saved(req[r].u, SetDomain(r))
  /\ End(r)
  /\ honoured' = honoured \cup ({req[r].t} \cap Tokens)
  /\ solid' = IF req[r].solo /\ req[r].op # "cut"
                THEN solid \cup {<<req[r].id, req[r].u>>} ELSE solid
  /\ cut' = IF req[r].solo /\ req[r].op = "cut" THEN cut \cup {req[r].u} ELSE cut
  /\ UNCHANGED <<binding, tok, gone, bounds, origin, shaky>>

-----------------------------------------------------------------------------
(* The world around *)

Act == acts < MaxActs /\ acts' = acts + 1 /\ UNCHANGED begun

\* A lock, or an unlock, by an administrator.
Bar(u) ==
  /\ Act /\ user[u].on
  /\ user' = [user EXCEPT ![u].barred = ~@]
  /\ UNCHANGED <<binding, tok, gone, req, hist>>

\* Deletion of a user leaves the bindings alone.
DeleteUser(u) ==
  /\ Act /\ user[u].on
  /\ user' = [user EXCEPT ![u] = NoRow]
  /\ shaky' = shaky \cup {i \in Ids : binding[i] = u \/ user[u].dom = i}
  /\ solid' = {p \in solid : p[2] # u} /\ cut' = cut \ {u}
  /\ UNCHANGED <<binding, tok, gone, req, honoured, origin>>

Leave(i) ==
  /\ Act /\ i \notin gone
  /\ gone' = gone \cup {i}
  /\ UNCHANGED <<rows, tok, req, hist>>

\* The process dies; a store in memory dies with it.
Crash(persistent) ==
  /\ Act
  /\ \E r \in Requests : ~At(r, "idle")
  /\ req' = [r \in Requests |-> Idle]
  /\ tok' = IF persistent THEN tok
            ELSE [t \in Tokens |-> IF tok[t].phase = "fresh" THEN tok[t]
                                   ELSE DeadToken]
  /\ UNCHANGED <<rows, gone, hist>>

Expire(t) ==
  /\ tok[t].phase = "live"
  /\ tok' = [tok EXCEPT ![t] = DeadToken]
  /\ UNCHANGED <<rows, gone, req, bounds, hist>>

-----------------------------------------------------------------------------
ScanStep(r) ==
  \/ ConsumeState(r) \/ Abandon(r)
  \/ \E i \in Ids, detail \in BOOLEAN : ResolveCode(r, i, detail)
  \/ \E i \in Ids, u \in Users : ResolveBind(r, i, u)
  \/ FindBinding(r) \/ LoadBound(r) \/ FindDomain(r) \/ FindMail(r)
  \/ Depart(r) \/ Stamp(r) \/ TryName(r) \/ (\E u \in Users : Create(r, u))
  \/ Backfill(r) \/ Refuse(r) \/ Enter(r)

LinkStep(r) ==
  \/ UpsertRead(r) \/ UpsertWrite(r) \/ Release(r) \/ Unlink(r)
  \/ ReadOwner(r) \/ WriteOwner(r)

World ==
  \/ \E u \in Users : Bar(u) \/ DeleteUser(u)
  \/ \E i \in Ids : Leave(i)
  \/ \E p \in BOOLEAN : Crash(p)
  \/ \E t \in Tokens : Expire(t)

Start ==
  \/ \E t \in Tokens, mode \in {"login", "bind"} : IssueState(t, mode)
  \/ \E r \in Requests : CallbackFixed(r)
  \/ \E r \in Requests, t \in Tokens : Callback(r, t)
  \/ \E r \in Requests, u \in Users, i \in Ids : StartBind(r, u, i)
  \/ \E r \in Requests, u \in Users : StartUnbind(r, u)

Next == Start \/ World \/ \E r \in Requests : ScanStep(r) \/ LinkStep(r)

Spec == Init /\ [][Next]_vars

-----------------------------------------------------------------------------
(* Properties *)

RequestStates ==
  [pc : {"idle", "del", "code", "bound", "load", "domain", "mail", "apply", "name",
         "create", "upread", "upwrite", "backfill", "gate", "release", "unlink",
         "owner", "write", "send", "tread", "tsave", "answer"},
   op : {"none", "login", "bind", "put", "cut", "reset", "forgot", "challenge",
         "ticket"},
   t : Tokens \cup {NoToken}, id : Ids \cup {NoId}, u : Users \cup {NoUser},
   row : Rows \cup {NoRow}, detail : BOOLEAN, left : BOOLEAN,
   via : {"none", "binding", "domain", "mail", "create", "owner"},
   found : BOOLEAN, k : 0 .. MaxNames, solo : BOOLEAN]

\* Every variable has the type its code counterpart has, and a request that is
\* about to save a row has read one.
TypeOK ==
  /\ user \in [Users -> Rows \cup {NoRow}]
  /\ binding \in [Ids -> Users \cup {NoUser}]
  /\ tok \in [Tokens -> [kind : Kinds \cup {"none"},
                         u : Users \cup {NoUser}, phase : {"fresh", "live", "dead"}]]
  /\ gone \subseteq Ids /\ req \in [Requests -> RequestStates]
  /\ \A r \in Requests : req[r].pc \in {"apply", "write", "tsave"} =>
       req[r].u \in Users /\ req[r].row.on
  /\ begun \in 0 .. MaxBegins /\ acts \in 0 .. MaxActs
  /\ honoured \subseteq Tokens /\ origin \in [Users -> Ids \cup {NoId}]
  /\ solid \subseteq Ids \X Users /\ cut \subseteq Users /\ shaky \subseteq Ids

\* A userid that was linked while nothing else was under way leads to that
\* account and to no other, whatever old domain_account or address points
\* elsewhere, until somebody binds, unbinds or deletes it (FindOrCreateUser:
\* the binding table is the authority).
LinkedGoesHome ==
  \A r \in Requests, p \in solid :
    /\ req[r].op = "login" /\ req[r].id = p[1]
    /\ req[r].pc \in {"apply", "upread", "upwrite", "backfill", "gate"}
    => req[r].u = p[2]

\* An account unlinked while nothing else was under way is out of reach of
\* every userid but the one with its address, until it is bound again: neither
\* a binding nor domain_account is left or comes back (BindWeCom, unbind).
CutStaysOut ==
  \A u \in cut, i \in Ids :
    binding[i] = u \/ (user[u].on /\ user[u].dom = i) =>
      MailOf[i] # NoMail /\ MailOf[i] = user[u].mail

\* A member gets one account, whatever crashes between the Create and its
\* binding, unless requests overlap or the link is cut, moved or deleted: the
\* next scan finds the half-made account again (FindOrCreateUser, step 2).
OneAccountEach ==
  \A i \in Ids \ shaky :
    Cardinality({u \in Users : user[u].on /\ origin[u] = i}) <= 1

\* The comment on BindWeCom: domain_account is written back so that the
\* fallback path agrees with the binding.
DomainAgrees ==
  (\A r \in Requests : req[r].pc = "idle") =>
    \A i \in Ids, u \in Users :
      binding[i] # NoUser /\ user[u].on /\ user[u].dom = i => binding[i] = u
=============================================================================
