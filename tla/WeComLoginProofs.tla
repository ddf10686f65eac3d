-------------------------- MODULE WeComLoginProofs --------------------------
(* Proofs about WeComLogin and Tickets, for any numbers of accounts, WeCom    *)
(* members, tokens and overlapping requests.  All are theorems of TicketSpec, *)
(* whose requests take WeCom states, captcha tickets, password resets and CAS *)
(* tickets from one key/value store.                                          *)
EXTENDS Tickets, FiniteSetTheorems, TLAPS

-----------------------------------------------------------------------------
(* What a request, the tokens and the tables may hold *)

\* A login knows the member by now; and by now also the account.
Searching == {"bound", "load", "domain", "mail", "apply", "name", "create",
              "backfill", "gate"}
Decided == {"load", "apply", "upread", "upwrite", "backfill", "gate"}

\* A request about to save the row that it read.
Holds(q) == \/ q.pc \in {"apply", "write", "tsave", "backfill"}
            \/ q.op = "login" /\ q.pc \in {"upread", "upwrite"}

\* Which fields a request has filled in at each point of its handler.
ReqOK(q) ==
  /\ q.pc = "idle" =>
       q.op = "none" /\ q.t = NoToken /\ q.id = NoId /\ q.u = NoUser /\ ~q.solo
  /\ q.pc = "code" => q.op \in {"login", "bind"} /\ q.id = NoId /\ q.u = NoUser
  /\ q.pc = "del" =>
       /\ q.t \in Tokens
       /\ q.op \in {"login", "bind", "reset", "challenge", "ticket"}
       /\ q.op \in {"login", "bind"} => q.id = NoId /\ q.u = NoUser
  /\ q.pc \in Searching => q.op = "login" /\ q.id \in Ids
  /\ q.pc \in {"upread", "upwrite"} =>
       q.op \in {"login", "bind", "put"} /\ q.id \in Ids /\ q.u \in Users
  /\ q.pc = "release" => q.op \in {"bind", "put"} /\ q.id \in Ids
  /\ q.pc = "unlink" => q.op = "cut" /\ q.id = NoId
  /\ q.pc \in {"owner", "write"} =>
       \/ q.op = "cut" /\ q.id = NoId
       \/ q.op \in {"bind", "put"} /\ q.id \in Ids
  /\ q.pc \in {"load", "apply", "backfill", "gate", "release", "unlink", "owner",
               "write", "send", "tread", "tsave"} => q.u \in Users
  /\ q.pc = "send" => q.op = "forgot"
  /\ q.pc \in {"tread", "tsave"} => q.op = "reset" /\ q.t \in Tokens
  /\ q.pc = "answer" => q.op \in {"reset", "challenge", "ticket"} /\ q.t \in Tokens
  /\ Holds(q) => q.row \in Rows /\ q.row.on
  /\ q.pc = "apply" /\ q.via = "mail" =>
       q.row.mail = MailOf[q.id] /\ MailOf[q.id] # NoMail

ReqsOK == /\ req \in [Requests -> RequestStates]
          /\ \A r \in Requests : ReqOK(req[r])

\* The token that a request has in hand was issued; once the request is past
\* the Del, it is dead.
Taking == {"del", "tread", "tsave"}
TokensOK ==
  /\ tok \in [Tokens -> [kind : Kinds \cup {"none"},
                         u : Users \cup {NoUser}, phase : {"fresh", "live", "dead"}]]
  /\ \A t \in Tokens : tok[t].kind = "reset" => tok[t].u \in Users
  /\ \A r \in Requests : \A t \in Tokens : req[r].t = t =>
       /\ tok[t].phase # "fresh"
       /\ req[r].pc \notin Taking => tok[t].phase = "dead"

\* The tables and the history.
WorldOK ==
  /\ user \in [Users -> Rows \cup {NoRow}]
  /\ binding \in [Ids -> Users \cup {NoUser}]
  /\ gone \subseteq Ids
  /\ begun \in 0 .. MaxBegins /\ acts \in 0 .. MaxActs
  /\ honoured \subseteq Tokens /\ origin \in [Users -> Ids \cup {NoId}]
  /\ solid \subseteq Ids \X Users /\ cut \subseteq Users /\ shaky \subseteq Ids

TicketInv == WorldOK /\ ReqsOK /\ TokensOK

-----------------------------------------------------------------------------
(* What the other invariants say *)

\* A request that moves a link to its account, or takes one from it.
Moving(q) == q.op \in {"bind", "put"}
              /\ q.pc \in {"release", "upread", "upwrite", "owner", "write"}
Cutting(q) == q.op = "cut" /\ q.pc \in {"unlink", "owner", "write"}

\* A request that has been alone finds the binding table as it left it, and its
\* last write is refused by no index.
SoloOK(r) ==
  req[r].solo =>
    /\ Alone(r)
    /\ req[r].pc \in {"owner", "write"} =>
         IF req[r].op = "cut" THEN \A i \in Ids : binding[i] # req[r].u
         ELSE binding[req[r].id] = req[r].u
    /\ req[r].pc = "write" => ~Clashes(req[r].u, req[r].row)

\* The unique indexes of the table of users.
Unique == \A u \in Users : user[u].on => ~Clashes(u, user[u])

\* Nothing in flight threatens the link of i to u: a login of i found u by the
\* binding, and no request moves i, or a link of u.
LinkFits(q, i, u) ==
  /\ q.op = "login" /\ q.id = i =>
       /\ q.pc \notin {"domain", "mail", "name", "create"}
       /\ q.pc \in Decided => q.u = u
  /\ Moving(q) => q.id # i /\ q.u # u
  /\ Cutting(q) => q.u # u
LinkOK(i, u) ==
  /\ binding[i] = u /\ user[u].on
  /\ \A r \in Requests : LinkFits(req[r], i, u)
LinkInv ==
  /\ Unique
  /\ \A r \in Requests : SoloOK(r)
  /\ \A i \in Ids, u \in Users : <<i, u>> \in solid => LinkOK(i, u)

\* The account u, with that address, was unlinked: whatever names u in a table
\* or in a request is a member who owns the address, whom the search by address
\* links again.
Owns(i, mail) == MailOf[i] # NoMail /\ MailOf[i] = mail
CutRow(row, mail) == /\ row.on /\ row.mail = mail
                     /\ row.dom \in Ids => Owns(row.dom, mail)
CutReq(q, u, mail) ==
  q.u = u =>
    /\ ~Moving(q)
    /\ q.op = "login" /\ q.pc \in Decided => Owns(q.id, mail)
    /\ Holds(q) => CutRow(q.row, mail)
CutAt(u, mail) ==
  /\ CutRow(user[u], mail)
  /\ \A i \in Ids : binding[i] = u => Owns(i, mail)
  /\ \A r \in Requests : CutReq(req[r], u, mail)
CutInv == \A u \in cut : CutAt(u, user[u].mail)

\* A primary key that no row has had yet is in no table, request or token.
UnseenOK(u) ==
  Unseen(u) =>
    /\ ~user[u].on
    /\ \A i \in Ids : binding[i] # u
    /\ \A r \in Requests : req[r].u # u
    /\ \A t \in Tokens : tok[t].kind = "reset" => tok[t].u # u

\* The account made for i keeps i in domain_account, and every copy of its row
\* in a request does too; while one request of i has yet to create an account,
\* there is none, and it is the only one.
MadeFor(i, row) == row.on /\ row.dom = i /\ row.mail \in {NoMail, MailOf[i]}
MadeReq(q, i, u) ==
  q.u = u => /\ ~Moving(q) /\ ~Cutting(q)
             /\ Holds(q) => MadeFor(i, q.row)
SearchFor(q, i) ==
  q.id = i =>
    /\ q.op = "login"
    /\ q.pc \in {"mail", "name", "create"} => \A u \in Users : origin[u] # i
MadeOK(i) ==
  /\ \A u \in Users : origin[u] = i =>
       /\ MadeFor(i, user[u])
       /\ \A v \in Users : origin[v] = i => v = u
       /\ \A r \in Requests : MadeReq(req[r], i, u)
  /\ \A r \in Requests : SearchFor(req[r], i)
  /\ \A r, p \in Requests : req[r].id = i /\ req[p].id = i => r = p
MadeInv == /\ \A u \in Users : UnseenOK(u)
           /\ \A i \in Ids \ shaky : MadeOK(i)

-----------------------------------------------------------------------------
(* Requests, rows and the start of a request *)

\* One request goes on to a state that is sound.
LEMMA PutReq ==
  ASSUME ReqsOK, NEW r \in Requests, NEW q \in RequestStates, ReqOK(q),
         req' = [req EXCEPT ![r] = q]
  PROVE  ReqsOK'
<1>1. req' \in [Requests -> RequestStates]
  BY DEF ReqsOK
<1>2. \A p \in Requests : req'[p] = IF p = r THEN q ELSE req[p]
  BY DEF ReqsOK
<1>3. \A p \in Requests : ReqOK(req'[p])
  BY <1>2 DEF ReqsOK
<1> QED
  BY <1>1, <1>3 DEF ReqsOK

\* The idle request is sound.
LEMMA IdleFits == Idle \in RequestStates /\ ReqOK(Idle)
BY WeComAssumption DEF Idle, RequestStates, ReqOK, Searching, Holds

\* A row that is there is a row.
LEMMA UserRow ==
  WorldOK => \A u \in Users : user[u].on => user[u] \in Rows
BY DEF WorldOK, NoRow

\* Whether a request has been alone says nothing else about it.
LEMMA SoloFits ==
  ASSUME NEW q \in RequestStates, ReqOK(q), NEW b \in BOOLEAN, q.pc # "idle" \/ ~b
  PROVE  [q EXCEPT !.solo = b] \in RequestStates /\ ReqOK([q EXCEPT !.solo = b])
<1>1. [q EXCEPT !.solo = b] \in RequestStates
  BY DEF RequestStates
<1>2. ReqOK([q EXCEPT !.solo = b])
  BY DEF ReqOK, RequestStates, Holds
<1> QED
  BY <1>1, <1>2

\* The row that FindOrCreateUser inserts is a row.
LEMMA NewRowFits ==
  ASSUME WorldOK, ReqsOK, NEW r \in Requests, req[r].pc = "create"
  PROVE  NewRow(r) \in Rows /\ NewRow(r).on
<1>1. req[r].id \in Ids /\ req[r].k \in 0 .. MaxNames
  BY DEF ReqsOK, ReqOK, Searching, RequestStates
<1>2. PICK w : w = (IF req[r].detail THEN MailOf[req[r].id] ELSE NoMail)
  OBVIOUS
<1>3. w \in Mails \cup {NoMail}
  BY <1>1, <1>2, WeComAssumption
<1>4. PICK b \in BOOLEAN : b = HasPlace(r)
  BY DEF HasPlace
<1>5. NameOf(r) \in Names
  BY <1>1 DEF NameOf, Names
<1> QED
  BY <1>1, <1>2, <1>3, <1>4, <1>5 DEF NewRow, Rows

\* The row that a login saves for its stamp.
StampRow(q) == IF q.via = "mail" THEN [q.row EXCEPT !.dom = q.id] ELSE q.row

\* So is the row that a login saves.
LEMMA StampRowFits ==
  ASSUME NEW q \in RequestStates, q.row \in Rows, q.row.on, q.id \in Ids
  PROVE  StampRow(q) \in Rows /\ StampRow(q).on
BY DEF StampRow, Rows

\* A request begins, and ends the solitude of the others.
LEMMA BeginReq ==
  ASSUME ReqsOK, NEW r \in Requests, NEW q \in RequestStates, ReqOK(q),
         q.pc # "idle", Begin(r, q)
  PROVE  ReqsOK'
<1>1. PICK b \in BOOLEAN : b = Alone(r)
  BY DEF Alone
<1>2. req' = [p \in Requests |-> IF p = r THEN [q EXCEPT !.solo = b]
                                 ELSE [req[p] EXCEPT !.solo = FALSE]]
  BY <1>1 DEF Begin
<1>3. ASSUME NEW p \in Requests PROVE req'[p] \in RequestStates /\ ReqOK(req'[p])
  <2>1. CASE p = r
    BY <1>2, <2>1, SoloFits
  <2>2. CASE p # r
    <3>1. PICK s \in RequestStates : s = req[p] /\ ReqOK(s)
      BY DEF ReqsOK
    <3> QED
      BY <1>2, <2>2, <3>1, SoloFits
  <2> QED
    BY <2>1, <2>2
<1> QED
  BY <1>2, <1>3 DEF ReqsOK

\* Every step keeps the requests sound.
LEMMA RequestsStep ==
  ASSUME WorldOK, ReqsOK, TokensOK, [TicketNext]_vars PROVE ReqsOK'
<1>1. ASSUME NEW r \in Requests, NEW t \in Tokens, Callback(r, t) PROVE ReqsOK'
  <2>q. PICK q : q = [Idle EXCEPT !.pc = "del", !.op = tok[t].kind, !.t = t]
    OBVIOUS
  <2>1. q \in RequestStates
    BY <1>1, <2>q, IdleFits, WeComAssumption DEF Callback, RequestStates, Idle, TokensOK
  <2>2. ReqOK(q) /\ q.pc # "idle"
    BY <1>1, <2>q, IdleFits, WeComAssumption
       DEF Callback, ReqOK, Searching, Holds, Idle, TokensOK
  <2>3. Begin(r, q)
    BY <1>1, <2>q DEF Callback
  <2> QED
    BY <2>1, <2>2, <2>3, BeginReq
<1>2. ASSUME NEW r \in Requests, CallbackFixed(r) PROVE ReqsOK'
  <2>q. PICK q : q = [Idle EXCEPT !.pc = "code", !.op = "login"]
    OBVIOUS
  <2>1. q \in RequestStates
    BY <1>2, <2>q, IdleFits, WeComAssumption
       DEF CallbackFixed, RequestStates, Idle, TokensOK
  <2>2. ReqOK(q) /\ q.pc # "idle"
    BY <1>2, <2>q, IdleFits, WeComAssumption
       DEF CallbackFixed, ReqOK, Searching, Holds, Idle, TokensOK
  <2>3. Begin(r, q)
    BY <1>2, <2>q DEF CallbackFixed
  <2> QED
    BY <2>1, <2>2, <2>3, BeginReq
<1>3. ASSUME NEW r \in Requests, NEW u \in Users, NEW i \in Ids, StartBind(r, u, i)
      PROVE  ReqsOK'
  <2>q. PICK q : q = [Idle EXCEPT !.pc = "release", !.op = "put", !.id = i, !.u = u]
    OBVIOUS
  <2>1. q \in RequestStates
    BY <1>3, <2>q, IdleFits, WeComAssumption DEF StartBind, RequestStates, Idle, TokensOK
  <2>2. ReqOK(q) /\ q.pc # "idle"
    BY <1>3, <2>q, IdleFits, WeComAssumption
       DEF StartBind, ReqOK, Searching, Holds, Idle, TokensOK
  <2>3. Begin(r, q)
    BY <1>3, <2>q DEF StartBind
  <2> QED
    BY <2>1, <2>2, <2>3, BeginReq
<1>4. ASSUME NEW r \in Requests, NEW u \in Users, StartUnbind(r, u) PROVE ReqsOK'
  <2>q. PICK q : q = [Idle EXCEPT !.pc = "unlink", !.op = "cut", !.u = u]
    OBVIOUS
  <2>1. q \in RequestStates
    BY <1>4, <2>q, IdleFits, WeComAssumption DEF StartUnbind, RequestStates, Idle, TokensOK
  <2>2. ReqOK(q) /\ q.pc # "idle"
    BY <1>4, <2>q, IdleFits, WeComAssumption
       DEF StartUnbind, ReqOK, Searching, Holds, Idle, TokensOK
  <2>3. Begin(r, q)
    BY <1>4, <2>q DEF StartUnbind
  <2> QED
    BY <2>1, <2>2, <2>3, BeginReq
<1>5. ASSUME NEW r \in Requests, NEW u \in Users, ForgotPassword(r, u) PROVE ReqsOK'
  <2>q. PICK q : q = [Idle EXCEPT !.pc = "send", !.op = "forgot", !.u = u]
    OBVIOUS
  <2>1. q \in RequestStates
    BY <1>5, <2>q, IdleFits, WeComAssumption
       DEF ForgotPassword, RequestStates, Idle, TokensOK
  <2>2. ReqOK(q) /\ q.pc # "idle"
    BY <1>5, <2>q, IdleFits, WeComAssumption
       DEF ForgotPassword, ReqOK, Searching, Holds, Idle, TokensOK
  <2>3. Begin(r, q)
    BY <1>5, <2>q DEF ForgotPassword
  <2> QED
    BY <2>1, <2>2, <2>3, BeginReq
<1>6. ASSUME NEW r \in Requests, NEW t \in Tokens, ResetPassword(r, t) PROVE ReqsOK'
  <2>q. PICK q : q = [Idle EXCEPT !.pc = "tread", !.op = "reset", !.t = t, !.u = tok[t].u]
    OBVIOUS
  <2>1. q \in RequestStates
    BY <1>6, <2>q, IdleFits, WeComAssumption
       DEF ResetPassword, RequestStates, Idle, TokensOK
  <2>2. ReqOK(q) /\ q.pc # "idle"
    BY <1>6, <2>q, IdleFits, WeComAssumption
       DEF ResetPassword, ReqOK, Searching, Holds, Idle, TokensOK
  <2>3. Begin(r, q)
    BY <1>6, <2>q DEF ResetPassword
  <2> QED
    BY <2>1, <2>2, <2>3, BeginReq
<1>7. ASSUME NEW r \in Requests, NEW t \in Tokens, Present(r, t) PROVE ReqsOK'
  <2>q. PICK q : q = [Idle EXCEPT !.pc = "del", !.op = tok[t].kind, !.t = t]
    OBVIOUS
  <2>1. q \in RequestStates
    BY <1>7, <2>q, IdleFits, WeComAssumption DEF Present, RequestStates, Idle, TokensOK
  <2>2. ReqOK(q) /\ q.pc # "idle"
    BY <1>7, <2>q, IdleFits, WeComAssumption
       DEF Present, ReqOK, Searching, Holds, Idle, TokensOK
  <2>3. Begin(r, q)
    BY <1>7, <2>q DEF Present
  <2> QED
    BY <2>1, <2>2, <2>3, BeginReq
<1>8. ASSUME NEW r \in Requests, ConsumeState(r) PROVE ReqsOK'
  <2>s. PICK s \in RequestStates : s = req[r] /\ ReqOK(s)
    BY DEF ReqsOK
  <2>p. s.pc = "del" /\ s.op \in {"login", "bind"}
    BY <1>8, <2>s DEF ConsumeState, At
  <2>q. PICK q : q = [s EXCEPT !.pc = "code"]
    OBVIOUS
  <2>1. q \in RequestStates
    BY Zenon, <2>q DEF RequestStates
  <2>2. ReqOK(q)
    BY <2>s, <2>q, <2>p, <2>1, WeComAssumption DEF RequestStates, ReqOK, Searching, Holds
  <2>3. req' = [req EXCEPT ![r] = q]
    BY <1>8, <2>s, <2>q DEF ConsumeState, ReqsOK, Goto, Holding
  <2> QED
    BY <2>1, <2>2, <2>3, PutReq
<1>9. ASSUME NEW r \in Requests, Abandon(r) PROVE ReqsOK'
  <2>1. req' = [req EXCEPT ![r] = Idle]
    BY <1>9 DEF Abandon, End
  <2> QED
    BY <2>1, IdleFits, PutReq
<1>10. ASSUME NEW r \in Requests, NEW i \in Ids, NEW detail \in BOOLEAN, ResolveCode(r, i,
              detail)
       PROVE  ReqsOK'
  <2>s. PICK s \in RequestStates : s = req[r] /\ ReqOK(s)
    BY DEF ReqsOK
  <2>w. PICK b \in BOOLEAN : b = Departed(i, detail)
    BY DEF Departed
  <2>p. s.pc = "code" /\ s.op = "login"
    BY <1>10, <2>s DEF ResolveCode, At
  <2>q. PICK q : q = [s EXCEPT !.pc = "bound", !.id = i, !.detail = detail, !.left = b]
    OBVIOUS
  <2>1. q \in RequestStates
    BY ZenonT(30), <2>q DEF RequestStates
  <2>2. ReqOK(q)
    BY <2>s, <2>q, <2>p, <2>1, WeComAssumption DEF RequestStates, ReqOK, Searching, Holds
  <2>3. req' = [req EXCEPT ![r] = q]
    BY <1>10, <2>s, <2>q, <2>w DEF ResolveCode, ReqsOK, Goto, Holding
  <2> QED
    BY <2>1, <2>2, <2>3, PutReq
<1>11. ASSUME NEW r \in Requests, NEW i \in Ids, NEW u \in Users, ResolveBind(r, i, u)
       PROVE  ReqsOK'
  <2>s. PICK s \in RequestStates : s = req[r] /\ ReqOK(s)
    BY DEF ReqsOK
  <2>p. s.pc = "code" /\ s.op = "bind"
    BY <1>11, <2>s DEF ResolveBind, At
  <2>q. PICK q : q = [s EXCEPT !.pc = "release", !.id = i, !.u = u]
    OBVIOUS
  <2>1. q \in RequestStates
    BY Zenon, <2>q DEF RequestStates
  <2>2. ReqOK(q)
    BY <2>s, <2>q, <2>p, <2>1, WeComAssumption DEF RequestStates, ReqOK, Searching, Holds
  <2>3. req' = [req EXCEPT ![r] = q]
    BY <1>11, <2>s, <2>q DEF ResolveBind, ReqsOK, Goto, Holding
  <2> QED
    BY <2>1, <2>2, <2>3, PutReq
<1>12. ASSUME NEW r \in Requests, FindBinding(r) PROVE ReqsOK'
  <2>s. PICK s \in RequestStates : s = req[r] /\ ReqOK(s)
    BY DEF ReqsOK
  <2>p. s.pc = "bound" /\ s.op = "login" /\ s.id \in Ids
    BY <1>12, <2>s DEF FindBinding, At, ReqOK, Searching
  <2>1. ASSUME Goto(r, "domain") PROVE ReqsOK'
    <3>q. PICK q : q = [s EXCEPT !.pc = "domain"]
      OBVIOUS
    <3>1. q \in RequestStates
      BY Zenon, <3>q DEF RequestStates
    <3>2. ReqOK(q)
      BY <2>s, <2>p, <2>1, <3>q, <3>1, WeComAssumption
         DEF RequestStates, ReqOK, Searching, Holds
    <3>3. req' = [req EXCEPT ![r] = q]
      BY <2>s, <2>1, <3>q DEF ReqsOK, Goto, Holding
    <3> QED
      BY <3>1, <3>2, <3>3, PutReq
  <2>2. ASSUME NEW u \in Users, Holding(r, "load", u, NoRow, "binding") PROVE ReqsOK'
    <3>q. PICK q : q = [s EXCEPT !.pc = "load", !.u = u, !.row = NoRow, !.via = "binding"]
      OBVIOUS
    <3>1. q \in RequestStates
      BY Zenon, <3>q DEF RequestStates
    <3>2. ReqOK(q)
      BY <2>s, <2>p, <2>2, <3>q, <3>1, WeComAssumption
         DEF RequestStates, ReqOK, Searching, Holds
    <3>3. req' = [req EXCEPT ![r] = q]
      BY <2>s, <2>2, <3>q DEF ReqsOK, Goto, Holding
    <3> QED
      BY <3>1, <3>2, <3>3, PutReq
  <2> QED
    BY <1>12, <2>s, <2>p, UserRow, <2>1, <2>2, WeComAssumption
       DEF FindBinding, ReqsOK, WorldOK, At
<1>13. ASSUME NEW r \in Requests, LoadBound(r) PROVE ReqsOK'
  <2>s. PICK s \in RequestStates : s = req[r] /\ ReqOK(s)
    BY DEF ReqsOK
  <2>p. s.pc = "load" /\ s.op = "login" /\ s.id \in Ids /\ s.u \in Users
    BY <1>13, <2>s DEF LoadBound, At, ReqOK, Searching
  <2>1. ASSUME NEW w \in Rows, w.on, Holding(r, "apply", s.u, w, "binding") PROVE ReqsOK'
    <3>q. PICK q : q = [s EXCEPT !.pc = "apply", !.u = s.u, !.row = w, !.via = "binding"]
      OBVIOUS
    <3>1. q \in RequestStates
      BY Zenon, <3>q DEF RequestStates
    <3>2. ReqOK(q)
      BY <2>s, <2>p, <2>1, <3>q, <3>1, WeComAssumption
         DEF RequestStates, ReqOK, Searching, Holds
    <3>3. req' = [req EXCEPT ![r] = q]
      BY <2>s, <2>1, <3>q DEF ReqsOK, Goto, Holding
    <3> QED
      BY <3>1, <3>2, <3>3, PutReq
  <2>2. ASSUME Holding(r, "domain", NoUser, NoRow, "none") PROVE ReqsOK'
    <3>q. PICK q : q = [s EXCEPT !.pc = "domain", !.u = NoUser, !.row = NoRow, !.via = "none"]
      OBVIOUS
    <3>1. q \in RequestStates
      BY Zenon, <3>q DEF RequestStates
    <3>2. ReqOK(q)
      BY <2>s, <2>p, <2>2, <3>q, <3>1, WeComAssumption
         DEF RequestStates, ReqOK, Searching, Holds
    <3>3. req' = [req EXCEPT ![r] = q]
      BY <2>s, <2>2, <3>q DEF ReqsOK, Goto, Holding
    <3> QED
      BY <3>1, <3>2, <3>3, PutReq
  <2> QED
    BY <1>13, <2>s, <2>p, UserRow, <2>1, <2>2, WeComAssumption
       DEF LoadBound, ReqsOK, WorldOK, At
<1>14. ASSUME NEW r \in Requests, FindDomain(r) PROVE ReqsOK'
  <2>s. PICK s \in RequestStates : s = req[r] /\ ReqOK(s)
    BY DEF ReqsOK
  <2>p. s.pc = "domain" /\ s.op = "login" /\ s.id \in Ids
    BY <1>14, <2>s DEF FindDomain, At, ReqOK, Searching
  <2>1. ASSUME Goto(r, "mail") PROVE ReqsOK'
    <3>q. PICK q : q = [s EXCEPT !.pc = "mail"]
      OBVIOUS
    <3>1. q \in RequestStates
      BY Zenon, <3>q DEF RequestStates
    <3>2. ReqOK(q)
      BY <2>s, <2>p, <2>1, <3>q, <3>1, WeComAssumption
         DEF RequestStates, ReqOK, Searching, Holds
    <3>3. req' = [req EXCEPT ![r] = q]
      BY <2>s, <2>1, <3>q DEF ReqsOK, Goto, Holding
    <3> QED
      BY <3>1, <3>2, <3>3, PutReq
  <2>2. ASSUME NEW u \in Users, NEW w \in Rows, w.on, Holding(r, "apply", u, w, "domain")
        PROVE  ReqsOK'
    <3>q. PICK q : q = [s EXCEPT !.pc = "apply", !.u = u, !.row = w, !.via = "domain"]
      OBVIOUS
    <3>1. q \in RequestStates
      BY Zenon, <3>q DEF RequestStates
    <3>2. ReqOK(q)
      BY <2>s, <2>p, <2>2, <3>q, <3>1, WeComAssumption
         DEF RequestStates, ReqOK, Searching, Holds
    <3>3. req' = [req EXCEPT ![r] = q]
      BY <2>s, <2>2, <3>q DEF ReqsOK, Goto, Holding
    <3> QED
      BY <3>1, <3>2, <3>3, PutReq
  <2> QED
    BY <1>14, <2>s, <2>p, UserRow, <2>1, <2>2, WeComAssumption
       DEF FindDomain, ReqsOK, WorldOK, At, WithDomain
<1>15. ASSUME NEW r \in Requests, FindMail(r) PROVE ReqsOK'
  <2>s. PICK s \in RequestStates : s = req[r] /\ ReqOK(s)
    BY DEF ReqsOK
  <2>p. s.pc = "mail" /\ s.op = "login" /\ s.id \in Ids
    BY <1>15, <2>s DEF FindMail, At, ReqOK, Searching
  <2>1. ASSUME NEW u \in Users, NEW w \in Rows, w.on, w.mail = MailOf[s.id],
               MailOf[s.id] # NoMail, Holding(r, "apply", u, w, "mail")
        PROVE  ReqsOK'
    <3>q. PICK q : q = [s EXCEPT !.pc = "apply", !.u = u, !.row = w, !.via = "mail"]
      OBVIOUS
    <3>1. q \in RequestStates
      BY Zenon, <3>q DEF RequestStates
    <3>2. ReqOK(q)
      BY <2>s, <2>p, <2>1, <3>q, <3>1, WeComAssumption
         DEF RequestStates, ReqOK, Searching, Holds
    <3>3. req' = [req EXCEPT ![r] = q]
      BY <2>s, <2>1, <3>q DEF ReqsOK, Goto, Holding
    <3> QED
      BY <3>1, <3>2, <3>3, PutReq
  <2>2. ASSUME Goto(r, "name") PROVE ReqsOK'
    <3>q. PICK q : q = [s EXCEPT !.pc = "name"]
      OBVIOUS
    <3>1. q \in RequestStates
      BY Zenon, <3>q DEF RequestStates
    <3>2. ReqOK(q)
      BY <2>s, <2>p, <2>2, <3>q, <3>1, WeComAssumption
         DEF RequestStates, ReqOK, Searching, Holds
    <3>3. req' = [req EXCEPT ![r] = q]
      BY <2>s, <2>2, <3>q DEF ReqsOK, Goto, Holding
    <3> QED
      BY <3>1, <3>2, <3>3, PutReq
  <2>3. ASSUME End(r) PROVE ReqsOK'
    BY <2>3, IdleFits, PutReq DEF End
  <2> QED
    BY <1>15, <2>s, <2>p, UserRow, <2>1, <2>2, <2>3, WeComAssumption
       DEF FindMail, ReqsOK, WorldOK, At, WithMail
<1>16. ASSUME NEW r \in Requests, Depart(r) PROVE ReqsOK'
  <2>1. req' = [req EXCEPT ![r] = Idle]
    BY <1>16 DEF Depart, End
  <2> QED
    BY <2>1, IdleFits, PutReq
<1>17. ASSUME NEW r \in Requests, Stamp(r) PROVE ReqsOK'
  <2>s. PICK s \in RequestStates : s = req[r] /\ ReqOK(s)
    BY DEF ReqsOK
  <2>p. s.pc = "apply" /\ s.op = "login" /\ s.id \in Ids /\ s.u \in Users
    BY <1>17, <2>s DEF Stamp, At, ReqOK, Searching
  <2>1. ASSUME NEW row \in Rows, row.on, NEW to \in {"upread", "backfill"}, Holding(r, to,
               s.u, row, s.via)
        PROVE  ReqsOK'
    <3>q. PICK q : q = [s EXCEPT !.pc = to, !.u = s.u, !.row = row, !.via = s.via]
      OBVIOUS
    <3>1. q \in RequestStates
      BY Zenon, <3>q DEF RequestStates
    <3>2. ReqOK(q)
      BY <2>s, <2>p, <2>1, <3>q, <3>1, WeComAssumption
         DEF RequestStates, ReqOK, Searching, Holds
    <3>3. req' = [req EXCEPT ![r] = q]
      BY <2>s, <2>1, <3>q DEF ReqsOK, Goto, Holding
    <3> QED
      BY <3>1, <3>2, <3>3, PutReq
  <2> QED
    BY <1>17, <2>s, <2>p, UserRow, StampRowFits, <2>1, WeComAssumption
       DEF Stamp, ReqsOK, WorldOK, At, StampRow, ReqOK, Holds
<1>18. ASSUME NEW r \in Requests, TryName(r) PROVE ReqsOK'
  <2>s. PICK s \in RequestStates : s = req[r] /\ ReqOK(s)
    BY DEF ReqsOK
  <2>p. s.pc = "name" /\ s.op = "login" /\ s.id \in Ids
    BY <1>18, <2>s DEF TryName, At, ReqOK, Searching
  <2>1. ASSUME NEW k \in 0 .. MaxNames, k = s.k + 1, req' = [req EXCEPT ![r].k = @ + 1]
        PROVE  ReqsOK'
    <3>q. PICK q : q = [s EXCEPT !.k = k]
      OBVIOUS
    <3>1. q \in RequestStates
      BY Zenon, <3>q DEF RequestStates
    <3>2. ReqOK(q)
      BY <2>s, <2>p, <2>1, <3>q, <3>1, WeComAssumption
         DEF RequestStates, ReqOK, Searching, Holds
    <3>3. req' = [req EXCEPT ![r] = q]
      BY <2>s, <2>1, <3>q DEF ReqsOK, Goto, Holding
    <3> QED
      BY <3>1, <3>2, <3>3, PutReq
  <2>2. ASSUME Goto(r, "create") PROVE ReqsOK'
    <3>q. PICK q : q = [s EXCEPT !.pc = "create"]
      OBVIOUS
    <3>1. q \in RequestStates
      BY Zenon, <3>q DEF RequestStates
    <3>2. ReqOK(q)
      BY <2>s, <2>p, <2>2, <3>q, <3>1, WeComAssumption
         DEF RequestStates, ReqOK, Searching, Holds
    <3>3. req' = [req EXCEPT ![r] = q]
      BY <2>s, <2>2, <3>q DEF ReqsOK, Goto, Holding
    <3> QED
      BY <3>1, <3>2, <3>3, PutReq
  <2>k. s.k < MaxNames => s.k + 1 \in 0 .. MaxNames
    <3>1. s.k \in 0 .. MaxNames /\ MaxNames \in Nat
      BY WeComAssumption DEF RequestStates
    <3> QED
      BY <3>1
  <2> QED
    BY <1>18, <2>s, <2>p, UserRow, <2>k, <2>1, <2>2, WeComAssumption
       DEF TryName, ReqsOK, WorldOK, At
<1>19. ASSUME NEW r \in Requests, NEW u \in Users, Create(r, u) PROVE ReqsOK'
  <2>s. PICK s \in RequestStates : s = req[r] /\ ReqOK(s)
    BY DEF ReqsOK
  <2>p. s.pc = "create" /\ s.op = "login" /\ s.id \in Ids
    BY <1>19, <2>s DEF Create, At, ReqOK, Searching
  <2>1. ASSUME End(r) PROVE ReqsOK'
    BY <2>1, IdleFits, PutReq DEF End
  <2>2. ASSUME NEW w \in Rows, w.on, Holding(r, "upread", u, w, "create") PROVE ReqsOK'
    <3>q. PICK q : q = [s EXCEPT !.pc = "upread", !.u = u, !.row = w, !.via = "create"]
      OBVIOUS
    <3>1. q \in RequestStates
      BY Zenon, <3>q DEF RequestStates
    <3>2. ReqOK(q)
      BY <2>s, <2>p, <2>2, <3>q, <3>1, WeComAssumption
         DEF RequestStates, ReqOK, Searching, Holds
    <3>3. req' = [req EXCEPT ![r] = q]
      BY <2>s, <2>2, <3>q DEF ReqsOK, Goto, Holding
    <3> QED
      BY <3>1, <3>2, <3>3, PutReq
  <2> QED
    BY <1>19, <2>s, <2>p, UserRow, NewRowFits, <2>1, <2>2, WeComAssumption
       DEF Create, ReqsOK, WorldOK, At
<1>20. ASSUME NEW r \in Requests, Backfill(r) PROVE ReqsOK'
  <2>s. PICK s \in RequestStates : s = req[r] /\ ReqOK(s)
    BY DEF ReqsOK
  <2>p. s.pc = "backfill"
    BY <1>20, <2>s DEF Backfill, At
  <2>q. PICK q : q = [s EXCEPT !.pc = "gate"]
    OBVIOUS
  <2>1. q \in RequestStates
    BY Zenon, <2>q DEF RequestStates
  <2>2. ReqOK(q)
    BY <2>s, <2>q, <2>p, <2>1, WeComAssumption DEF RequestStates, ReqOK, Searching, Holds
  <2>3. req' = [req EXCEPT ![r] = q]
    BY <1>20, <2>s, <2>q DEF Backfill, ReqsOK, Goto, Holding
  <2> QED
    BY <2>1, <2>2, <2>3, PutReq
<1>21. ASSUME NEW r \in Requests, Refuse(r) PROVE ReqsOK'
  <2>1. req' = [req EXCEPT ![r] = Idle]
    BY <1>21 DEF Refuse, End
  <2> QED
    BY <2>1, IdleFits, PutReq
<1>22. ASSUME NEW r \in Requests, Enter(r) PROVE ReqsOK'
  <2>1. req' = [req EXCEPT ![r] = Idle]
    BY <1>22 DEF Enter, End
  <2> QED
    BY <2>1, IdleFits, PutReq
<1>23. ASSUME NEW r \in Requests, UpsertRead(r) PROVE ReqsOK'
  <2>s. PICK s \in RequestStates : s = req[r] /\ ReqOK(s)
    BY DEF ReqsOK
  <2>w. PICK b \in BOOLEAN : b = (binding[s.id] # NoUser)
    OBVIOUS
  <2>p. s.pc = "upread"
    BY <1>23, <2>s DEF UpsertRead, At
  <2>q. PICK q : q = [s EXCEPT !.pc = "upwrite", !.found = b]
    OBVIOUS
  <2>1. q \in RequestStates
    BY Zenon, <2>q DEF RequestStates
  <2>2. ReqOK(q)
    BY <2>s, <2>q, <2>p, <2>1, WeComAssumption DEF RequestStates, ReqOK, Searching, Holds
  <2>3. req' = [req EXCEPT ![r] = q]
    BY <1>23, <2>s, <2>q, <2>w DEF UpsertRead, ReqsOK, Goto, Holding
  <2> QED
    BY <2>1, <2>2, <2>3, PutReq
<1>24. ASSUME NEW r \in Requests, UpsertWrite(r) PROVE ReqsOK'
  <2>s. PICK s \in RequestStates : s = req[r] /\ ReqOK(s)
    BY DEF ReqsOK
  <2>p. s.pc = "upwrite"
    BY <1>24, <2>s DEF UpsertWrite, At, ReqOK, Searching
  <2>1. ASSUME s.op = "login", Goto(r, "backfill") PROVE ReqsOK'
    <3>q. PICK q : q = [s EXCEPT !.pc = "backfill"]
      OBVIOUS
    <3>1. q \in RequestStates
      BY Zenon, <3>q DEF RequestStates
    <3>2. ReqOK(q)
      BY <2>s, <2>p, <2>1, <3>q, <3>1, WeComAssumption
         DEF RequestStates, ReqOK, Searching, Holds
    <3>3. req' = [req EXCEPT ![r] = q]
      BY <2>s, <2>1, <3>q DEF ReqsOK, Goto, Holding
    <3> QED
      BY <3>1, <3>2, <3>3, PutReq
  <2>2. ASSUME s.op # "login", Goto(r, "owner") PROVE ReqsOK'
    <3>q. PICK q : q = [s EXCEPT !.pc = "owner"]
      OBVIOUS
    <3>1. q \in RequestStates
      BY Zenon, <3>q DEF RequestStates
    <3>2. ReqOK(q)
      BY <2>s, <2>p, <2>2, <3>q, <3>1, WeComAssumption
         DEF RequestStates, ReqOK, Searching, Holds
    <3>3. req' = [req EXCEPT ![r] = q]
      BY <2>s, <2>2, <3>q DEF ReqsOK, Goto, Holding
    <3> QED
      BY <3>1, <3>2, <3>3, PutReq
  <2>3. ASSUME End(r) PROVE ReqsOK'
    BY <2>3, IdleFits, PutReq DEF End
  <2> QED
    BY <1>24, <2>s, <2>p, UserRow, <2>1, <2>2, <2>3, WeComAssumption
       DEF UpsertWrite, ReqsOK, WorldOK, At
<1>25. ASSUME NEW r \in Requests, Release(r) PROVE ReqsOK'
  <2>s. PICK s \in RequestStates : s = req[r] /\ ReqOK(s)
    BY DEF ReqsOK
  <2>p. s.pc = "release"
    BY <1>25, <2>s DEF Release, At
  <2>q. PICK q : q = [s EXCEPT !.pc = "upread"]
    OBVIOUS
  <2>1. q \in RequestStates
    BY Zenon, <2>q DEF RequestStates
  <2>2. ReqOK(q)
    BY <2>s, <2>q, <2>p, <2>1, WeComAssumption DEF RequestStates, ReqOK, Searching, Holds
  <2>3. req' = [req EXCEPT ![r] = q]
    BY <1>25, <2>s, <2>q DEF Release, ReqsOK, Goto, Holding
  <2> QED
    BY <2>1, <2>2, <2>3, PutReq
<1>26. ASSUME NEW r \in Requests, Unlink(r) PROVE ReqsOK'
  <2>s. PICK s \in RequestStates : s = req[r] /\ ReqOK(s)
    BY DEF ReqsOK
  <2>p. s.pc = "unlink"
    BY <1>26, <2>s DEF Unlink, At
  <2>q. PICK q : q = [s EXCEPT !.pc = "owner"]
    OBVIOUS
  <2>1. q \in RequestStates
    BY Zenon, <2>q DEF RequestStates
  <2>2. ReqOK(q)
    BY <2>s, <2>q, <2>p, <2>1, WeComAssumption DEF RequestStates, ReqOK, Searching, Holds
  <2>3. req' = [req EXCEPT ![r] = q]
    BY <1>26, <2>s, <2>q DEF Unlink, ReqsOK, Goto, Holding
  <2> QED
    BY <2>1, <2>2, <2>3, PutReq
<1>27. ASSUME NEW r \in Requests, ReadOwner(r) PROVE ReqsOK'
  <2>s. PICK s \in RequestStates : s = req[r] /\ ReqOK(s)
    BY DEF ReqsOK
  <2>p. s.pc = "owner" /\ s.u \in Users
    BY <1>27, <2>s DEF ReadOwner, At, ReqOK, Searching
  <2>1. ASSUME NEW w \in Rows, w.on, Holding(r, "write", s.u, w, "owner") PROVE ReqsOK'
    <3>q. PICK q : q = [s EXCEPT !.pc = "write", !.u = s.u, !.row = w, !.via = "owner"]
      OBVIOUS
    <3>1. q \in RequestStates
      BY Zenon, <3>q DEF RequestStates
    <3>2. ReqOK(q)
      BY <2>s, <2>p, <2>1, <3>q, <3>1, WeComAssumption
         DEF RequestStates, ReqOK, Searching, Holds
    <3>3. req' = [req EXCEPT ![r] = q]
      BY <2>s, <2>1, <3>q DEF ReqsOK, Goto, Holding
    <3> QED
      BY <3>1, <3>2, <3>3, PutReq
  <2>2. ASSUME End(r) PROVE ReqsOK'
    BY <2>2, IdleFits, PutReq DEF End
  <2> QED
    BY <1>27, <2>s, <2>p, UserRow, <2>1, <2>2, WeComAssumption
       DEF ReadOwner, ReqsOK, WorldOK, At
<1>28. ASSUME NEW r \in Requests, WriteOwner(r) PROVE ReqsOK'
  <2>1. req' = [req EXCEPT ![r] = Idle]
    BY <1>28 DEF WriteOwner, End
  <2> QED
    BY <2>1, IdleFits, PutReq
<1>29. ASSUME NEW r \in Requests, NEW t \in Tokens, SendResetMail(r, t) PROVE ReqsOK'
  <2>1. req' = [req EXCEPT ![r] = Idle]
    BY <1>29 DEF SendResetMail, End
  <2> QED
    BY <2>1, IdleFits, PutReq
<1>30. ASSUME NEW r \in Requests, ResetRead(r) PROVE ReqsOK'
  <2>s. PICK s \in RequestStates : s = req[r] /\ ReqOK(s)
    BY DEF ReqsOK
  <2>p. s.pc = "tread" /\ s.u \in Users
    BY <1>30, <2>s DEF ResetRead, At, ReqOK, Searching
  <2>1. ASSUME NEW w \in Rows, w.on, Holding(r, "tsave", s.u, w, "owner") PROVE ReqsOK'
    <3>q. PICK q : q = [s EXCEPT !.pc = "tsave", !.u = s.u, !.row = w, !.via = "owner"]
      OBVIOUS
    <3>1. q \in RequestStates
      BY Zenon, <3>q DEF RequestStates
    <3>2. ReqOK(q)
      BY <2>s, <2>p, <2>1, <3>q, <3>1, WeComAssumption
         DEF RequestStates, ReqOK, Searching, Holds
    <3>3. req' = [req EXCEPT ![r] = q]
      BY <2>s, <2>1, <3>q DEF ReqsOK, Goto, Holding
    <3> QED
      BY <3>1, <3>2, <3>3, PutReq
  <2>2. ASSUME End(r) PROVE ReqsOK'
    BY <2>2, IdleFits, PutReq DEF End
  <2> QED
    BY <1>30, <2>s, <2>p, UserRow, <2>1, <2>2, WeComAssumption
       DEF ResetRead, ReqsOK, WorldOK, At
<1>31. ASSUME NEW r \in Requests, ResetSave(r) PROVE ReqsOK'
  <2>s. PICK s \in RequestStates : s = req[r] /\ ReqOK(s)
    BY DEF ReqsOK
  <2>p. s.pc = "tsave"
    BY <1>31, <2>s DEF ResetSave, At
  <2>q. PICK q : q = [s EXCEPT !.pc = "del"]
    OBVIOUS
  <2>1. q \in RequestStates
    BY Zenon, <2>q DEF RequestStates
  <2>2. ReqOK(q)
    BY <2>s, <2>q, <2>p, <2>1, WeComAssumption DEF RequestStates, ReqOK, Searching, Holds
  <2>3. req' = [req EXCEPT ![r] = q]
    BY <1>31, <2>s, <2>q DEF ResetSave, ReqsOK, Goto, Holding
  <2> QED
    BY <2>1, <2>2, <2>3, PutReq
<1>32. ASSUME NEW r \in Requests, DeleteToken(r) PROVE ReqsOK'
  <2>s. PICK s \in RequestStates : s = req[r] /\ ReqOK(s)
    BY DEF ReqsOK
  <2>p. s.pc = "del" /\ s.op \in {"reset", "challenge", "ticket"}
    BY <1>32, <2>s DEF DeleteToken, At
  <2>q. PICK q : q = [s EXCEPT !.pc = "answer"]
    OBVIOUS
  <2>1. q \in RequestStates
    BY Zenon, <2>q DEF RequestStates
  <2>2. ReqOK(q)
    BY <2>s, <2>q, <2>p, <2>1, WeComAssumption DEF RequestStates, ReqOK, Searching, Holds
  <2>3. req' = [req EXCEPT ![r] = q]
    BY <1>32, <2>s, <2>q DEF DeleteToken, ReqsOK, Goto, Holding
  <2> QED
    BY <2>1, <2>2, <2>3, PutReq
<1>33. ASSUME NEW r \in Requests, NEW t \in Tokens, Solved(r, t) PROVE ReqsOK'
  <2>1. req' = [req EXCEPT ![r] = Idle]
    BY <1>33 DEF Solved, End
  <2> QED
    BY <2>1, IdleFits, PutReq
<1>34. ASSUME NEW r \in Requests, Unsolved(r) PROVE ReqsOK'
  <2>1. req' = [req EXCEPT ![r] = Idle]
    BY <1>34 DEF Unsolved, End
  <2> QED
    BY <2>1, IdleFits, PutReq
<1>35. ASSUME NEW r \in Requests, Answer(r) PROVE ReqsOK'
  <2>1. req' = [req EXCEPT ![r] = Idle]
    BY <1>35 DEF Answer, End
  <2> QED
    BY <2>1, IdleFits, PutReq
<1>36. ASSUME NEW p \in BOOLEAN, Crash(p) PROVE ReqsOK'
  BY <1>36, IdleFits DEF Crash, ReqsOK
<1>37. ASSUME UNCHANGED req PROVE ReqsOK'
  BY <1>37 DEF ReqsOK
<1> QED
  BY <1>1, <1>2, <1>3, <1>4, <1>5, <1>6, <1>7, <1>8, <1>9, <1>10, <1>11, <1>12, <1>13,
     <1>14, <1>15, <1>16, <1>17, <1>18, <1>19, <1>20, <1>21, <1>22, <1>23, <1>24, <1>25,
     <1>26, <1>27, <1>28, <1>29, <1>30, <1>31, <1>32, <1>33, <1>34, <1>35, <1>36, <1>37
     DEF TicketNext, TicketStep, Next, Start, World, ScanStep, LinkStep, IssueState,
         Generate, Bar, DeleteUser, Leave, Expire, vars

-----------------------------------------------------------------------------
(* Tokens *)

\* A step that touches no token leaves them sound.
LEMMA TokensKept ==
  ASSUME TokensOK, UNCHANGED tok,
         \A p \in Requests :
           \/ req'[p].t = NoToken
           \/ /\ req'[p].t = req[p].t
              /\ req[p].pc \in Taking => req'[p].pc \in Taking
  PROVE  TokensOK'
BY WeComAssumption DEF TokensOK

\* Every step keeps the tokens sound.
LEMMA TokensStep ==
  ASSUME WorldOK, ReqsOK, TokensOK, [TicketNext]_vars PROVE TokensOK'
<1>1. ASSUME NEW r \in Requests, NEW t \in Tokens, Callback(r, t) PROVE TokensOK'
  BY <1>1, WeComAssumption
     DEF Callback, TokensOK, ReqsOK, RequestStates, At, Begin, Idle, Taking
<1>2. ASSUME NEW r \in Requests, CallbackFixed(r) PROVE TokensOK'
  <2>1. \A p \in Requests :
          \/ req'[p].t = NoToken
          \/ /\ req'[p].t = req[p].t
             /\ req[p].pc \in Taking => req'[p].pc \in Taking
    BY <1>2
       DEF CallbackFixed, ReqsOK, RequestStates, Idle, At, Goto, End, Holding, Begin, Taking
  <2> QED
    BY <1>2, <2>1, TokensKept DEF CallbackFixed
<1>3. ASSUME NEW r \in Requests, NEW u \in Users, NEW i \in Ids, StartBind(r, u, i)
      PROVE  TokensOK'
  <2>1. \A p \in Requests :
          \/ req'[p].t = NoToken
          \/ /\ req'[p].t = req[p].t
             /\ req[p].pc \in Taking => req'[p].pc \in Taking
    BY <1>3
       DEF StartBind, ReqsOK, RequestStates, Idle, At, Goto, End, Holding, Begin, Taking
  <2> QED
    BY <1>3, <2>1, TokensKept DEF StartBind
<1>4. ASSUME NEW r \in Requests, NEW u \in Users, StartUnbind(r, u) PROVE TokensOK'
  <2>1. \A p \in Requests :
          \/ req'[p].t = NoToken
          \/ /\ req'[p].t = req[p].t
             /\ req[p].pc \in Taking => req'[p].pc \in Taking
    BY <1>4
       DEF StartUnbind, ReqsOK, RequestStates, Idle, At, Goto, End, Holding, Begin, Taking
  <2> QED
    BY <1>4, <2>1, TokensKept DEF StartUnbind
<1>5. ASSUME NEW r \in Requests, NEW u \in Users, ForgotPassword(r, u) PROVE TokensOK'
  <2>1. \A p \in Requests :
          \/ req'[p].t = NoToken
          \/ /\ req'[p].t = req[p].t
             /\ req[p].pc \in Taking => req'[p].pc \in Taking
    BY <1>5
       DEF ForgotPassword, ReqsOK, RequestStates, Idle, At, Goto, End, Holding, Begin,
           Taking
  <2> QED
    BY <1>5, <2>1, TokensKept DEF ForgotPassword
<1>6. ASSUME NEW r \in Requests, NEW t \in Tokens, ResetPassword(r, t) PROVE TokensOK'
  BY <1>6, WeComAssumption
     DEF ResetPassword, TokensOK, ReqsOK, RequestStates, At, Begin, Idle, Taking
<1>7. ASSUME NEW r \in Requests, NEW t \in Tokens, Present(r, t) PROVE TokensOK'
  BY <1>7, WeComAssumption
     DEF Present, TokensOK, ReqsOK, RequestStates, At, Begin, Idle, Taking
<1>8. ASSUME NEW r \in Requests, ConsumeState(r) PROVE TokensOK'
  BY <1>8
     DEF ConsumeState, TokensOK, DeadToken, ReqsOK, RequestStates, ReqOK, At, Goto, Taking,
         Kinds
<1>9. ASSUME NEW r \in Requests, Abandon(r) PROVE TokensOK'
  <2>1. \A p \in Requests :
          \/ req'[p].t = NoToken
          \/ /\ req'[p].t = req[p].t
             /\ req[p].pc \in Taking => req'[p].pc \in Taking
    BY <1>9 DEF Abandon, ReqsOK, RequestStates, Idle, At, Goto, End, Holding, Begin, Taking
  <2> QED
    BY <1>9, <2>1, TokensKept DEF Abandon
<1>10. ASSUME NEW r \in Requests, NEW i \in Ids, NEW detail \in BOOLEAN, ResolveCode(r, i,
              detail)
       PROVE  TokensOK'
  <2>1. \A p \in Requests :
          \/ req'[p].t = NoToken
          \/ /\ req'[p].t = req[p].t
             /\ req[p].pc \in Taking => req'[p].pc \in Taking
    BY <1>10
       DEF ResolveCode, ReqsOK, RequestStates, Idle, At, Goto, End, Holding, Begin, Taking
  <2> QED
    BY <1>10, <2>1, TokensKept DEF ResolveCode
<1>11. ASSUME NEW r \in Requests, NEW i \in Ids, NEW u \in Users, ResolveBind(r, i, u)
       PROVE  TokensOK'
  <2>1. \A p \in Requests :
          \/ req'[p].t = NoToken
          \/ /\ req'[p].t = req[p].t
             /\ req[p].pc \in Taking => req'[p].pc \in Taking
    BY <1>11
       DEF ResolveBind, ReqsOK, RequestStates, Idle, At, Goto, End, Holding, Begin, Taking
  <2> QED
    BY <1>11, <2>1, TokensKept DEF ResolveBind
<1>12. ASSUME NEW r \in Requests, FindBinding(r) PROVE TokensOK'
  <2>1. \A p \in Requests :
          \/ req'[p].t = NoToken
          \/ /\ req'[p].t = req[p].t
             /\ req[p].pc \in Taking => req'[p].pc \in Taking
    BY <1>12
       DEF FindBinding, ReqsOK, RequestStates, Idle, At, Goto, End, Holding, Begin, Taking
  <2> QED
    BY <1>12, <2>1, TokensKept DEF FindBinding
<1>13. ASSUME NEW r \in Requests, LoadBound(r) PROVE TokensOK'
  <2>1. \A p \in Requests :
          \/ req'[p].t = NoToken
          \/ /\ req'[p].t = req[p].t
             /\ req[p].pc \in Taking => req'[p].pc \in Taking
    BY <1>13
       DEF LoadBound, ReqsOK, RequestStates, Idle, At, Goto, End, Holding, Begin, Taking
  <2> QED
    BY <1>13, <2>1, TokensKept DEF LoadBound
<1>14. ASSUME NEW r \in Requests, FindDomain(r) PROVE TokensOK'
  <2>p. req[r].pc \notin Taking
    BY <1>14 DEF FindDomain, At, Taking
  <2>1. ASSUME NEW u, NEW row, NEW via, Holding(r, "apply", u, row, via)
       PROVE  \A p \in Requests :
             \/ req'[p].t = NoToken
             \/ /\ req'[p].t = req[p].t
                /\ req[p].pc \in Taking => req'[p].pc \in Taking
    BY <2>p, <2>1 DEF Holding, ReqsOK, RequestStates
  <2>2. ASSUME NEW pc, Goto(r, pc)
       PROVE  \A p \in Requests :
             \/ req'[p].t = NoToken
             \/ /\ req'[p].t = req[p].t
                /\ req[p].pc \in Taking => req'[p].pc \in Taking
    BY <2>p, <2>2 DEF Goto, ReqsOK, RequestStates
  <2>3. ASSUME End(r)
       PROVE  \A p \in Requests :
             \/ req'[p].t = NoToken
             \/ /\ req'[p].t = req[p].t
                /\ req[p].pc \in Taking => req'[p].pc \in Taking
    BY <2>3 DEF End, Idle, ReqsOK
  <2> QED
    BY <1>14, <2>1, <2>2, <2>3, TokensKept DEF FindDomain
<1>15. ASSUME NEW r \in Requests, FindMail(r) PROVE TokensOK'
  <2>p. req[r].pc \notin Taking
    BY <1>15 DEF FindMail, At, Taking
  <2>1. ASSUME NEW u, NEW row, NEW via, Holding(r, "apply", u, row, via)
       PROVE  \A p \in Requests :
             \/ req'[p].t = NoToken
             \/ /\ req'[p].t = req[p].t
                /\ req[p].pc \in Taking => req'[p].pc \in Taking
    BY <2>p, <2>1 DEF Holding, ReqsOK, RequestStates
  <2>2. ASSUME NEW pc, Goto(r, pc)
       PROVE  \A p \in Requests :
             \/ req'[p].t = NoToken
             \/ /\ req'[p].t = req[p].t
                /\ req[p].pc \in Taking => req'[p].pc \in Taking
    BY <2>p, <2>2 DEF Goto, ReqsOK, RequestStates
  <2>3. ASSUME End(r)
       PROVE  \A p \in Requests :
             \/ req'[p].t = NoToken
             \/ /\ req'[p].t = req[p].t
                /\ req[p].pc \in Taking => req'[p].pc \in Taking
    BY <2>3 DEF End, Idle, ReqsOK
  <2> QED
    BY <1>15, <2>1, <2>2, <2>3, TokensKept DEF FindMail
<1>16. ASSUME NEW r \in Requests, Depart(r) PROVE TokensOK'
  <2>1. \A p \in Requests :
          \/ req'[p].t = NoToken
          \/ /\ req'[p].t = req[p].t
             /\ req[p].pc \in Taking => req'[p].pc \in Taking
    BY <1>16 DEF Depart, ReqsOK, RequestStates, Idle, At, Goto, End, Holding, Begin, Taking
  <2> QED
    BY <1>16, <2>1, TokensKept DEF Depart
<1>17. ASSUME NEW r \in Requests, Stamp(r) PROVE TokensOK'
  <2>1. \A p \in Requests :
          \/ req'[p].t = NoToken
          \/ /\ req'[p].t = req[p].t
             /\ req[p].pc \in Taking => req'[p].pc \in Taking
    BY <1>17 DEF Stamp, ReqsOK, RequestStates, Idle, At, Goto, End, Holding, Begin, Taking
  <2> QED
    BY <1>17, <2>1, TokensKept DEF Stamp
<1>18. ASSUME NEW r \in Requests, TryName(r) PROVE TokensOK'
  <2>1. \A p \in Requests :
          \/ req'[p].t = NoToken
          \/ /\ req'[p].t = req[p].t
             /\ req[p].pc \in Taking => req'[p].pc \in Taking
    BY <1>18 DEF TryName, ReqsOK, RequestStates, Idle, At, Goto, End, Holding, Begin, Taking
  <2> QED
    BY <1>18, <2>1, TokensKept DEF TryName
<1>19. ASSUME NEW r \in Requests, NEW u \in Users, Create(r, u) PROVE TokensOK'
  <2>1. \A p \in Requests :
          \/ req'[p].t = NoToken
          \/ /\ req'[p].t = req[p].t
             /\ req[p].pc \in Taking => req'[p].pc \in Taking
    BY <1>19 DEF Create, ReqsOK, RequestStates, Idle, At, Goto, End, Holding, Begin, Taking
  <2> QED
    BY <1>19, <2>1, TokensKept DEF Create
<1>20. ASSUME NEW r \in Requests, Backfill(r) PROVE TokensOK'
  <2>1. \A p \in Requests :
          \/ req'[p].t = NoToken
          \/ /\ req'[p].t = req[p].t
             /\ req[p].pc \in Taking => req'[p].pc \in Taking
    BY <1>20
       DEF Backfill, ReqsOK, RequestStates, Idle, At, Goto, End, Holding, Begin, Taking
  <2> QED
    BY <1>20, <2>1, TokensKept DEF Backfill
<1>21. ASSUME NEW r \in Requests, Refuse(r) PROVE TokensOK'
  <2>1. \A p \in Requests :
          \/ req'[p].t = NoToken
          \/ /\ req'[p].t = req[p].t
             /\ req[p].pc \in Taking => req'[p].pc \in Taking
    BY <1>21 DEF Refuse, ReqsOK, RequestStates, Idle, At, Goto, End, Holding, Begin, Taking
  <2> QED
    BY <1>21, <2>1, TokensKept DEF Refuse
<1>22. ASSUME NEW r \in Requests, Enter(r) PROVE TokensOK'
  <2>1. \A p \in Requests :
          \/ req'[p].t = NoToken
          \/ /\ req'[p].t = req[p].t
             /\ req[p].pc \in Taking => req'[p].pc \in Taking
    BY <1>22 DEF Enter, ReqsOK, RequestStates, Idle, At, Goto, End, Holding, Begin, Taking
  <2> QED
    BY <1>22, <2>1, TokensKept DEF Enter
<1>23. ASSUME NEW r \in Requests, UpsertRead(r) PROVE TokensOK'
  <2>1. \A p \in Requests :
          \/ req'[p].t = NoToken
          \/ /\ req'[p].t = req[p].t
             /\ req[p].pc \in Taking => req'[p].pc \in Taking
    BY <1>23
       DEF UpsertRead, ReqsOK, RequestStates, Idle, At, Goto, End, Holding, Begin, Taking
  <2> QED
    BY <1>23, <2>1, TokensKept DEF UpsertRead
<1>24. ASSUME NEW r \in Requests, UpsertWrite(r) PROVE TokensOK'
  <2>1. \A p \in Requests :
          \/ req'[p].t = NoToken
          \/ /\ req'[p].t = req[p].t
             /\ req[p].pc \in Taking => req'[p].pc \in Taking
    BY <1>24
       DEF UpsertWrite, ReqsOK, RequestStates, Idle, At, Goto, End, Holding, Begin, Taking
  <2> QED
    BY <1>24, <2>1, TokensKept DEF UpsertWrite
<1>25. ASSUME NEW r \in Requests, Release(r) PROVE TokensOK'
  <2>1. \A p \in Requests :
          \/ req'[p].t = NoToken
          \/ /\ req'[p].t = req[p].t
             /\ req[p].pc \in Taking => req'[p].pc \in Taking
    BY <1>25 DEF Release, ReqsOK, RequestStates, Idle, At, Goto, End, Holding, Begin, Taking
  <2> QED
    BY <1>25, <2>1, TokensKept DEF Release
<1>26. ASSUME NEW r \in Requests, Unlink(r) PROVE TokensOK'
  <2>1. \A p \in Requests :
          \/ req'[p].t = NoToken
          \/ /\ req'[p].t = req[p].t
             /\ req[p].pc \in Taking => req'[p].pc \in Taking
    BY <1>26 DEF Unlink, ReqsOK, RequestStates, Idle, At, Goto, End, Holding, Begin, Taking
  <2> QED
    BY <1>26, <2>1, TokensKept DEF Unlink
<1>27. ASSUME NEW r \in Requests, ReadOwner(r) PROVE TokensOK'
  <2>1. \A p \in Requests :
          \/ req'[p].t = NoToken
          \/ /\ req'[p].t = req[p].t
             /\ req[p].pc \in Taking => req'[p].pc \in Taking
    BY <1>27
       DEF ReadOwner, ReqsOK, RequestStates, Idle, At, Goto, End, Holding, Begin, Taking
  <2> QED
    BY <1>27, <2>1, TokensKept DEF ReadOwner
<1>28. ASSUME NEW r \in Requests, WriteOwner(r) PROVE TokensOK'
  <2>1. \A p \in Requests :
          \/ req'[p].t = NoToken
          \/ /\ req'[p].t = req[p].t
             /\ req[p].pc \in Taking => req'[p].pc \in Taking
    BY <1>28
       DEF WriteOwner, ReqsOK, RequestStates, Idle, At, Goto, End, Holding, Begin, Taking
  <2> QED
    BY <1>28, <2>1, TokensKept DEF WriteOwner
<1>29. ASSUME NEW r \in Requests, NEW t \in Tokens, SendResetMail(r, t) PROVE TokensOK'
  BY <1>29, WeComAssumption
     DEF SendResetMail, TokensOK, ReqsOK, RequestStates, ReqOK, At, End, Idle, Draw, Taking,
         Kinds
<1>30. ASSUME NEW r \in Requests, ResetRead(r) PROVE TokensOK'
  <2>1. \A p \in Requests :
          \/ req'[p].t = NoToken
          \/ /\ req'[p].t = req[p].t
             /\ req[p].pc \in Taking => req'[p].pc \in Taking
    BY <1>30
       DEF ResetRead, ReqsOK, RequestStates, Idle, At, Goto, End, Holding, Begin, Taking
  <2> QED
    BY <1>30, <2>1, TokensKept DEF ResetRead
<1>31. ASSUME NEW r \in Requests, ResetSave(r) PROVE TokensOK'
  <2>1. \A p \in Requests :
          \/ req'[p].t = NoToken
          \/ /\ req'[p].t = req[p].t
             /\ req[p].pc \in Taking => req'[p].pc \in Taking
    BY <1>31
       DEF ResetSave, ReqsOK, RequestStates, Idle, At, Goto, End, Holding, Begin, Taking
  <2> QED
    BY <1>31, <2>1, TokensKept DEF ResetSave
<1>32. ASSUME NEW r \in Requests, DeleteToken(r) PROVE TokensOK'
  BY <1>32
     DEF DeleteToken, TokensOK, DeadToken, ReqsOK, RequestStates, ReqOK, At, Goto, Taking,
         Kinds
<1>33. ASSUME NEW r \in Requests, NEW t \in Tokens, Solved(r, t) PROVE TokensOK'
  BY <1>33, WeComAssumption
     DEF Solved, TokensOK, ReqsOK, RequestStates, ReqOK, At, End, Idle, Draw, Taking, Kinds
<1>34. ASSUME NEW r \in Requests, Unsolved(r) PROVE TokensOK'
  <2>1. \A p \in Requests :
          \/ req'[p].t = NoToken
          \/ /\ req'[p].t = req[p].t
             /\ req[p].pc \in Taking => req'[p].pc \in Taking
    BY <1>34
       DEF Unsolved, ReqsOK, RequestStates, Idle, At, Goto, End, Holding, Begin, Taking
  <2> QED
    BY <1>34, <2>1, TokensKept DEF Unsolved
<1>35. ASSUME NEW r \in Requests, Answer(r) PROVE TokensOK'
  <2>1. \A p \in Requests :
          \/ req'[p].t = NoToken
          \/ /\ req'[p].t = req[p].t
             /\ req[p].pc \in Taking => req'[p].pc \in Taking
    BY <1>35 DEF Answer, ReqsOK, RequestStates, Idle, At, Goto, End, Holding, Begin, Taking
  <2> QED
    BY <1>35, <2>1, TokensKept DEF Answer
<1>36. ASSUME NEW t \in Tokens, NEW mode \in {"login", "bind"}, IssueState(t, mode)
       PROVE  TokensOK'
  BY <1>36, WeComAssumption DEF IssueState, TokensOK, Draw, Kinds
<1>37. ASSUME NEW t \in Tokens, Generate(t) PROVE TokensOK'
  BY <1>37, WeComAssumption DEF Generate, TokensOK, Draw, Kinds
<1>38. ASSUME NEW t \in Tokens, Expire(t) PROVE TokensOK'
  BY <1>38 DEF Expire, TokensOK, DeadToken, Taking
<1>39. ASSUME NEW p \in BOOLEAN, Crash(p) PROVE TokensOK'
  BY <1>39, WeComAssumption DEF Crash, TokensOK, DeadToken, Idle
<1>40. ASSUME UNCHANGED <<req, tok>> PROVE TokensOK'
  BY <1>40 DEF TokensOK
<1> QED
  BY <1>1, <1>2, <1>3, <1>4, <1>5, <1>6, <1>7, <1>8, <1>9, <1>10, <1>11, <1>12, <1>13,
     <1>14, <1>15, <1>16, <1>17, <1>18, <1>19, <1>20, <1>21, <1>22, <1>23, <1>24, <1>25,
     <1>26, <1>27, <1>28, <1>29, <1>30, <1>31, <1>32, <1>33, <1>34, <1>35, <1>36, <1>37,
     <1>38, <1>39, <1>40
     DEF TicketNext, TicketStep, Next, Start, World, ScanStep, LinkStep,
         Bar, DeleteUser, Leave, vars

-----------------------------------------------------------------------------
(* The tables and the history *)

\* A save stores the row, unless a unique index refuses it.
LEMMA SavedRow ==
  WorldOK => \A u \in Users : \A row \in Rows :
    /\ Saved(u, row) \in [Users -> Rows \cup {NoRow}]
    /\ Saved(u, row)[u] = IF Clashes(u, row) THEN user[u] ELSE row
    /\ \A v \in Users \ {u} : Saved(u, row)[v] = user[v]
BY DEF WorldOK, Saved

\* A row whose account is suspended, or given its department, is a row.
LEMMA BarredFits ==
  ASSUME NEW row \in Rows
  PROVE  /\ [row EXCEPT !.barred = TRUE] \in Rows
         /\ [row EXCEPT !.placed = TRUE] \in Rows
         /\ [row EXCEPT !.barred = TRUE].on = row.on
         /\ [row EXCEPT !.placed = TRUE].on = row.on
BY DEF Rows

\* So is a row with another domain_account,
LEMMA DomainFits ==
  ASSUME NEW row \in Rows, NEW i \in Ids \cup {NoId}
  PROVE  [row EXCEPT !.dom = i] \in Rows
BY DEF Rows

\* and one whose status an administrator switches.
LEMMA ToggleFits ==
  ASSUME NEW row \in Rows PROVE [row EXCEPT !.barred = ~@] \in Rows
BY DEF Rows

\* What a request at work on a row has at hand.
LEMMA AtHand ==
  ReqsOK => \A r \in Requests :
    /\ req[r] \in RequestStates
    /\ req[r].pc \in {"apply", "write", "tsave", "backfill"} =>
         req[r].u \in Users /\ req[r].row \in Rows /\ req[r].row.on
    /\ req[r].pc \in Searching => req[r].id \in Ids /\ req[r].op = "login"
    /\ req[r].pc = "write" => req[r].id \in Ids \cup {NoId}
BY DEF ReqsOK, ReqOK, Holds, RequestStates

\* Every step keeps the types of the tables and of the history.
LEMMA WorldStep ==
  ASSUME WorldOK, ReqsOK, TokensOK, [TicketNext]_vars PROVE WorldOK'
<1>1. ASSUME NEW r \in Requests, NEW t \in Tokens, Callback(r, t) PROVE WorldOK'
  BY <1>1, WeComAssumption DEF Callback, WorldOK, Begin, Company, rows, bounds, hist
<1>2. ASSUME NEW r \in Requests, CallbackFixed(r) PROVE WorldOK'
  BY <1>2, WeComAssumption DEF CallbackFixed, WorldOK, Begin, Company, rows, bounds, hist
<1>3. ASSUME NEW r \in Requests, NEW u \in Users, NEW i \in Ids, StartBind(r, u, i)
      PROVE  WorldOK'
  BY <1>3, WeComAssumption DEF StartBind, WorldOK, Begin, Company, rows, bounds, hist
<1>4. ASSUME NEW r \in Requests, NEW u \in Users, StartUnbind(r, u) PROVE WorldOK'
  BY <1>4, WeComAssumption DEF StartUnbind, WorldOK, Begin, Company, rows, bounds, hist
<1>5. ASSUME NEW r \in Requests, NEW u \in Users, ForgotPassword(r, u) PROVE WorldOK'
  BY <1>5, WeComAssumption DEF ForgotPassword, WorldOK, Begin, Company, rows, bounds, hist
<1>6. ASSUME NEW r \in Requests, NEW t \in Tokens, ResetPassword(r, t) PROVE WorldOK'
  BY <1>6, WeComAssumption DEF ResetPassword, WorldOK, Begin, Company, rows, bounds, hist
<1>7. ASSUME NEW r \in Requests, NEW t \in Tokens, Present(r, t) PROVE WorldOK'
  BY <1>7, WeComAssumption DEF Present, WorldOK, Begin, Company, rows, bounds, hist
<1>8. ASSUME NEW r \in Requests, ConsumeState(r) PROVE WorldOK'
  BY <1>8, WeComAssumption DEF ConsumeState, WorldOK, Begin, Company, rows, bounds, hist
<1>9. ASSUME NEW r \in Requests, Abandon(r) PROVE WorldOK'
  BY <1>9, WeComAssumption DEF Abandon, WorldOK, Begin, Company, rows, bounds, hist
<1>10. ASSUME NEW r \in Requests, NEW i \in Ids, NEW detail \in BOOLEAN, ResolveCode(r, i,
              detail)
       PROVE  WorldOK'
  BY <1>10, WeComAssumption DEF ResolveCode, WorldOK, Begin, Company, rows, bounds, hist
<1>11. ASSUME NEW r \in Requests, NEW i \in Ids, NEW u \in Users, ResolveBind(r, i, u)
       PROVE  WorldOK'
  BY <1>11, WeComAssumption DEF ResolveBind, WorldOK, Begin, Company, rows, bounds, hist
<1>12. ASSUME NEW r \in Requests, FindBinding(r) PROVE WorldOK'
  BY <1>12, WeComAssumption DEF FindBinding, WorldOK, Begin, Company, rows, bounds, hist
<1>13. ASSUME NEW r \in Requests, LoadBound(r) PROVE WorldOK'
  BY <1>13, WeComAssumption DEF LoadBound, WorldOK, Begin, Company, rows, bounds, hist
<1>14. ASSUME NEW r \in Requests, FindDomain(r) PROVE WorldOK'
  BY <1>14, WeComAssumption DEF FindDomain, WorldOK, Begin, Company, rows, bounds, hist
<1>15. ASSUME NEW r \in Requests, FindMail(r) PROVE WorldOK'
  BY <1>15, WeComAssumption DEF FindMail, WorldOK, Begin, Company, rows, bounds, hist
<1>16. ASSUME NEW r \in Requests, Depart(r) PROVE WorldOK'
  <2>1. user' \in [Users -> Rows \cup {NoRow}]
    BY <1>16, AtHand, SavedRow, BarredFits, DomainFits DEF Depart, WorldOK, Searching, At
  <2> QED
    BY <1>16, <2>1, AtHand DEF Depart, WorldOK, ReqsOK, ReqOK, At, rows, bounds, hist
<1>17. ASSUME NEW r \in Requests, Stamp(r) PROVE WorldOK'
  <2>1. user' \in [Users -> Rows \cup {NoRow}]
    BY <1>17, AtHand, SavedRow, BarredFits, DomainFits
       DEF Stamp, WorldOK, Searching, At, StampRow
  <2> QED
    BY <1>17, <2>1, AtHand DEF Stamp, WorldOK, ReqsOK, ReqOK, At, rows, bounds, hist
<1>18. ASSUME NEW r \in Requests, TryName(r) PROVE WorldOK'
  BY <1>18, WeComAssumption DEF TryName, WorldOK, Begin, Company, rows, bounds, hist
<1>19. ASSUME NEW r \in Requests, NEW u \in Users, Create(r, u) PROVE WorldOK'
  BY <1>19, NewRowFits DEF Create, WorldOK, ReqsOK, ReqOK, Searching, At, rows, bounds, hist
<1>20. ASSUME NEW r \in Requests, Backfill(r) PROVE WorldOK'
  <2>1. user' \in [Users -> Rows \cup {NoRow}]
    BY <1>20, AtHand, SavedRow, BarredFits, DomainFits DEF Backfill, WorldOK, Searching, At
  <2> QED
    BY <1>20, <2>1, AtHand DEF Backfill, WorldOK, ReqsOK, ReqOK, At, rows, bounds, hist
<1>21. ASSUME NEW r \in Requests, Refuse(r) PROVE WorldOK'
  BY <1>21, WeComAssumption DEF Refuse, WorldOK, Begin, Company, rows, bounds, hist
<1>22. ASSUME NEW r \in Requests, Enter(r) PROVE WorldOK'
  BY <1>22, WeComAssumption DEF Enter, WorldOK, Begin, Company, rows, bounds, hist
<1>23. ASSUME NEW r \in Requests, UpsertRead(r) PROVE WorldOK'
  BY <1>23, WeComAssumption DEF UpsertRead, WorldOK, Begin, Company, rows, bounds, hist
<1>24. ASSUME NEW r \in Requests, UpsertWrite(r) PROVE WorldOK'
  BY <1>24 DEF UpsertWrite, WorldOK, ReqsOK, ReqOK, At, rows, bounds, hist
<1>25. ASSUME NEW r \in Requests, Release(r) PROVE WorldOK'
  BY <1>25 DEF Release, WorldOK, ReqsOK, ReqOK, At, rows, bounds, hist
<1>26. ASSUME NEW r \in Requests, Unlink(r) PROVE WorldOK'
  BY <1>26 DEF Unlink, WorldOK, ReqsOK, ReqOK, At, rows, bounds, hist
<1>27. ASSUME NEW r \in Requests, ReadOwner(r) PROVE WorldOK'
  BY <1>27, WeComAssumption DEF ReadOwner, WorldOK, Begin, Company, rows, bounds, hist
<1>28. ASSUME NEW r \in Requests, WriteOwner(r) PROVE WorldOK'
  <2>1. user' \in [Users -> Rows \cup {NoRow}]
    BY <1>28, AtHand, SavedRow, BarredFits, DomainFits
       DEF WriteOwner, WorldOK, Searching, At, SetDomain
  <2> QED
    BY <1>28, <2>1, AtHand DEF WriteOwner, WorldOK, ReqsOK, ReqOK, At, rows, bounds, hist
<1>29. ASSUME NEW r \in Requests, NEW t \in Tokens, SendResetMail(r, t) PROVE WorldOK'
  BY <1>29, WeComAssumption DEF SendResetMail, WorldOK, Begin, Company, rows, bounds, hist
<1>30. ASSUME NEW r \in Requests, ResetRead(r) PROVE WorldOK'
  BY <1>30, WeComAssumption DEF ResetRead, WorldOK, Begin, Company, rows, bounds, hist
<1>31. ASSUME NEW r \in Requests, ResetSave(r) PROVE WorldOK'
  <2>1. user' \in [Users -> Rows \cup {NoRow}]
    BY <1>31, AtHand, SavedRow, BarredFits, DomainFits DEF ResetSave, WorldOK, Searching, At
  <2> QED
    BY <1>31, <2>1, AtHand DEF ResetSave, WorldOK, ReqsOK, ReqOK, At, rows, bounds, hist
<1>32. ASSUME NEW r \in Requests, DeleteToken(r) PROVE WorldOK'
  BY <1>32, WeComAssumption DEF DeleteToken, WorldOK, Begin, Company, rows, bounds, hist
<1>33. ASSUME NEW r \in Requests, NEW t \in Tokens, Solved(r, t) PROVE WorldOK'
  BY <1>33 DEF Solved, WorldOK, ReqsOK, ReqOK, At, rows, bounds, hist
<1>34. ASSUME NEW r \in Requests, Unsolved(r) PROVE WorldOK'
  BY <1>34, WeComAssumption DEF Unsolved, WorldOK, Begin, Company, rows, bounds, hist
<1>35. ASSUME NEW r \in Requests, Answer(r) PROVE WorldOK'
  BY <1>35 DEF Answer, WorldOK, ReqsOK, ReqOK, At, rows, bounds, hist
<1>36. ASSUME NEW t \in Tokens, NEW mode \in {"login", "bind"}, IssueState(t, mode)
       PROVE  WorldOK'
  BY <1>36 DEF IssueState, WorldOK, rows, bounds, hist
<1>37. ASSUME NEW t \in Tokens, Generate(t) PROVE WorldOK'
  BY <1>37 DEF Generate, WorldOK, rows, bounds, hist
<1>38. ASSUME NEW t \in Tokens, Expire(t) PROVE WorldOK'
  BY <1>38 DEF Expire, WorldOK, rows, bounds, hist
<1>39. ASSUME NEW u \in Users, Bar(u) PROVE WorldOK'
  BY <1>39, UserRow, ToggleFits, WeComAssumption DEF Bar, Act, WorldOK, rows, hist
<1>40. ASSUME NEW u \in Users, DeleteUser(u) PROVE WorldOK'
  BY <1>40, WeComAssumption DEF DeleteUser, Act, WorldOK, rows, hist
<1>41. ASSUME NEW i \in Ids, Leave(i) PROVE WorldOK'
  BY <1>41, WeComAssumption DEF Leave, Act, WorldOK, rows, hist
<1>42. ASSUME NEW p \in BOOLEAN, Crash(p) PROVE WorldOK'
  BY <1>42, WeComAssumption DEF Crash, Act, WorldOK, rows, hist
<1>43. CASE UNCHANGED vars
  BY <1>43 DEF WorldOK, vars, rows, bounds, hist
<1> QED
  BY <1>1, <1>2, <1>3, <1>4, <1>5, <1>6, <1>7, <1>8, <1>9, <1>10, <1>11, <1>12, <1>13,
     <1>14, <1>15, <1>16, <1>17, <1>18, <1>19, <1>20, <1>21, <1>22, <1>23, <1>24, <1>25,
     <1>26, <1>27, <1>28, <1>29, <1>30, <1>31, <1>32, <1>33, <1>34, <1>35, <1>36, <1>37,
     <1>38, <1>39, <1>40, <1>41, <1>42, <1>43
     DEF TicketNext, TicketStep, Next, Start, World, ScanStep, LinkStep

\* TicketInv holds at the start,
LEMMA TicketInit == Init => TicketInv
<1> SUFFICES ASSUME Init PROVE TicketInv
  OBVIOUS
<1>1. user \in [Users -> Rows \cup {NoRow}]
  BY WeComAssumption DEF Init
<1>2. binding \in [Ids -> Users \cup {NoUser}]
  BY DEF Init
<1>3. WorldOK
  BY <1>1, <1>2, WeComAssumption DEF Init, WorldOK
<1>4. ReqsOK
  BY IdleFits DEF Init, ReqsOK
<1>5. TokensOK
  BY WeComAssumption DEF Init, TokensOK, Idle
<1> QED
  BY <1>3, <1>4, <1>5 DEF TicketInv

\* after every step,
LEMMA TicketStepKeeps == TicketInv /\ [TicketNext]_vars => TicketInv'
BY RequestsStep, TokensStep, WorldStep DEF TicketInv

\* and so always.
LEMMA TicketInvHolds == TicketSpec => []TicketInv
BY TicketInit, TicketStepKeeps, PTL DEF TicketSpec

\* Every variable has its type, and a request about to save a row has read one
\* and knows whose it is (FindOrCreateUser, BindWeCom, ResetPassword).
THEOREM WeComTypeCorrect == TicketSpec => []TypeOK
<1>1. TicketInv => TypeOK
  BY DEF TicketInv, WorldOK, ReqsOK, ReqOK, Holds, TokensOK, TypeOK
<1> QED
  BY <1>1, TicketInvHolds, PTL

-----------------------------------------------------------------------------
(* One-time credentials *)

\* What a step may do to the credentials, in the variables of this model.
PhaseMoves(t) ==
  \/ tok'[t].phase = tok[t].phase
  \/ tok[t].phase = "fresh" /\ tok'[t].phase = "live"
  \/ tok[t].phase = "live" /\ tok'[t].phase = "dead"
TakenLive(r) ==
  \A t \in Tokens : req'[r].t = t /\ req[r].t # t => tok[t].phase = "live"
HonouredDead ==
  /\ honoured \subseteq honoured'
  /\ \A t \in honoured' \ honoured :
       tok[t].phase = "dead" /\ \E r \in Requests : req[r].t = t
CredentialStep ==
  /\ \A t \in Tokens : PhaseMoves(t)
  /\ \A r \in Requests : TakenLive(r)
  /\ HonouredDead

\* A step that touches no token moves no credential.
LEMMA QuietCredentials ==
  ASSUME UNCHANGED <<tok, honoured>>,
         \A p \in Requests : req'[p].t = NoToken \/ req'[p].t = req[p].t
  PROVE  CredentialStep
BY WeComAssumption DEF CredentialStep, PhaseMoves, TakenLive, HonouredDead

\* Every step moves the credentials the way CredentialStep allows.
LEMMA CredentialsMove ==
  ASSUME TicketInv, [TicketNext]_vars PROVE CredentialStep
<1> USE DEF TicketInv
<1>1. ASSUME NEW r \in Requests, NEW t \in Tokens, Callback(r, t) PROVE CredentialStep
  BY <1>1, WeComAssumption
     DEF Callback, CredentialStep, PhaseMoves, TakenLive, HonouredDead, Begin, Idle, ReqsOK,
         RequestStates, hist
<1>2. ASSUME NEW r \in Requests, CallbackFixed(r) PROVE CredentialStep
  <2>1. \A p \in Requests : req'[p].t = NoToken \/ req'[p].t = req[p].t
    BY <1>2 DEF CallbackFixed, Goto, End, Holding, Begin, Idle, ReqsOK, RequestStates
  <2> QED
    BY <1>2, <2>1, QuietCredentials DEF CallbackFixed, hist
<1>3. ASSUME NEW r \in Requests, NEW u \in Users, NEW i \in Ids, StartBind(r, u, i)
      PROVE  CredentialStep
  <2>1. \A p \in Requests : req'[p].t = NoToken \/ req'[p].t = req[p].t
    BY <1>3 DEF StartBind, Goto, End, Holding, Begin, Idle, ReqsOK, RequestStates
  <2> QED
    BY <1>3, <2>1, QuietCredentials DEF StartBind, hist
<1>4. ASSUME NEW r \in Requests, NEW u \in Users, StartUnbind(r, u) PROVE CredentialStep
  <2>1. \A p \in Requests : req'[p].t = NoToken \/ req'[p].t = req[p].t
    BY <1>4 DEF StartUnbind, Goto, End, Holding, Begin, Idle, ReqsOK, RequestStates
  <2> QED
    BY <1>4, <2>1, QuietCredentials DEF StartUnbind, hist
<1>5. ASSUME NEW r \in Requests, NEW u \in Users, ForgotPassword(r, u) PROVE CredentialStep
  <2>1. \A p \in Requests : req'[p].t = NoToken \/ req'[p].t = req[p].t
    BY <1>5 DEF ForgotPassword, Goto, End, Holding, Begin, Idle, ReqsOK, RequestStates
  <2> QED
    BY <1>5, <2>1, QuietCredentials DEF ForgotPassword, hist
<1>6. ASSUME NEW r \in Requests, NEW t \in Tokens, ResetPassword(r, t) PROVE CredentialStep
  BY <1>6, WeComAssumption
     DEF ResetPassword, CredentialStep, PhaseMoves, TakenLive, HonouredDead, Begin, Idle,
         ReqsOK, RequestStates, hist
<1>7. ASSUME NEW r \in Requests, NEW t \in Tokens, Present(r, t) PROVE CredentialStep
  BY <1>7, WeComAssumption
     DEF Present, CredentialStep, PhaseMoves, TakenLive, HonouredDead, Begin, Idle, ReqsOK,
         RequestStates, hist
<1>8. ASSUME NEW r \in Requests, ConsumeState(r) PROVE CredentialStep
  <2>1. req[r].t \in Tokens /\ tok[req[r].t].phase # "fresh"
    BY <1>8 DEF ConsumeState, At, ReqsOK, ReqOK, TokensOK
  <2>2. \A p \in Requests : req'[p].t = req[p].t
    BY <1>8 DEF ConsumeState, Goto, ReqsOK, RequestStates
  <2>3. tok' = [tok EXCEPT ![req[r].t] = DeadToken] /\ UNCHANGED honoured
    BY <1>8 DEF ConsumeState, hist
  <2> QED
    BY <2>1, <2>2, <2>3
       DEF CredentialStep, PhaseMoves, TakenLive, HonouredDead, DeadToken, TokensOK
<1>9. ASSUME NEW r \in Requests, Abandon(r) PROVE CredentialStep
  <2>1. \A p \in Requests : req'[p].t = NoToken \/ req'[p].t = req[p].t
    BY <1>9 DEF Abandon, Goto, End, Holding, Begin, Idle, ReqsOK, RequestStates
  <2> QED
    BY <1>9, <2>1, QuietCredentials DEF Abandon, hist
<1>10. ASSUME NEW r \in Requests, NEW i \in Ids, NEW detail \in BOOLEAN, ResolveCode(r, i,
              detail)
       PROVE  CredentialStep
  <2>1. \A p \in Requests : req'[p].t = NoToken \/ req'[p].t = req[p].t
    BY <1>10 DEF ResolveCode, Goto, End, Holding, Begin, Idle, ReqsOK, RequestStates
  <2> QED
    BY <1>10, <2>1, QuietCredentials DEF ResolveCode, hist
<1>11. ASSUME NEW r \in Requests, NEW i \in Ids, NEW u \in Users, ResolveBind(r, i, u)
       PROVE  CredentialStep
  <2>1. \A p \in Requests : req'[p].t = NoToken \/ req'[p].t = req[p].t
    BY <1>11 DEF ResolveBind, Goto, End, Holding, Begin, Idle, ReqsOK, RequestStates
  <2> QED
    BY <1>11, <2>1, QuietCredentials DEF ResolveBind, hist
<1>12. ASSUME NEW r \in Requests, FindBinding(r) PROVE CredentialStep
  <2>1. \A p \in Requests : req'[p].t = NoToken \/ req'[p].t = req[p].t
    BY <1>12 DEF FindBinding, Goto, End, Holding, Begin, Idle, ReqsOK, RequestStates
  <2> QED
    BY <1>12, <2>1, QuietCredentials DEF FindBinding, hist
<1>13. ASSUME NEW r \in Requests, LoadBound(r) PROVE CredentialStep
  <2>1. \A p \in Requests : req'[p].t = NoToken \/ req'[p].t = req[p].t
    BY <1>13 DEF LoadBound, Goto, End, Holding, Begin, Idle, ReqsOK, RequestStates
  <2> QED
    BY <1>13, <2>1, QuietCredentials DEF LoadBound, hist
<1>14. ASSUME NEW r \in Requests, FindDomain(r) PROVE CredentialStep
  <2>1. ASSUME NEW u, NEW row, NEW via, Holding(r, "apply", u, row, via)
       PROVE  \A p \in Requests : req'[p].t = req[p].t
    BY <2>1 DEF Holding, ReqsOK, RequestStates
  <2>2. ASSUME NEW pc, Goto(r, pc) PROVE \A p \in Requests : req'[p].t = req[p].t
    BY <2>2 DEF Goto, ReqsOK, RequestStates
  <2>3. ASSUME End(r)
       PROVE  \A p \in Requests : req'[p].t = NoToken \/ req'[p].t = req[p].t
    BY <2>3 DEF End, Idle, ReqsOK
  <2> QED
    BY <1>14, <2>1, <2>2, <2>3, QuietCredentials DEF FindDomain, hist
<1>15. ASSUME NEW r \in Requests, FindMail(r) PROVE CredentialStep
  <2>1. ASSUME NEW u, NEW row, NEW via, Holding(r, "apply", u, row, via)
       PROVE  \A p \in Requests : req'[p].t = req[p].t
    BY <2>1 DEF Holding, ReqsOK, RequestStates
  <2>2. ASSUME NEW pc, Goto(r, pc) PROVE \A p \in Requests : req'[p].t = req[p].t
    BY <2>2 DEF Goto, ReqsOK, RequestStates
  <2>3. ASSUME End(r)
       PROVE  \A p \in Requests : req'[p].t = NoToken \/ req'[p].t = req[p].t
    BY <2>3 DEF End, Idle, ReqsOK
  <2> QED
    BY <1>15, <2>1, <2>2, <2>3, QuietCredentials DEF FindMail, hist
<1>16. ASSUME NEW r \in Requests, Depart(r) PROVE CredentialStep
  <2>1. \A p \in Requests : req'[p].t = NoToken \/ req'[p].t = req[p].t
    BY <1>16 DEF Depart, Goto, End, Holding, Begin, Idle, ReqsOK, RequestStates
  <2> QED
    BY <1>16, <2>1, QuietCredentials DEF Depart, hist
<1>17. ASSUME NEW r \in Requests, Stamp(r) PROVE CredentialStep
  <2>1. \A p \in Requests : req'[p].t = NoToken \/ req'[p].t = req[p].t
    BY <1>17 DEF Stamp, Goto, End, Holding, Begin, Idle, ReqsOK, RequestStates
  <2> QED
    BY <1>17, <2>1, QuietCredentials DEF Stamp, hist
<1>18. ASSUME NEW r \in Requests, TryName(r) PROVE CredentialStep
  <2>1. \A p \in Requests : req'[p].t = NoToken \/ req'[p].t = req[p].t
    BY <1>18 DEF TryName, Goto, End, Holding, Begin, Idle, ReqsOK, RequestStates
  <2> QED
    BY <1>18, <2>1, QuietCredentials DEF TryName, hist
<1>19. ASSUME NEW r \in Requests, NEW u \in Users, Create(r, u) PROVE CredentialStep
  <2>1. \A p \in Requests : req'[p].t = NoToken \/ req'[p].t = req[p].t
    BY <1>19 DEF Create, Goto, End, Holding, Begin, Idle, ReqsOK, RequestStates
  <2> QED
    BY <1>19, <2>1, QuietCredentials DEF Create, hist
<1>20. ASSUME NEW r \in Requests, Backfill(r) PROVE CredentialStep
  <2>1. \A p \in Requests : req'[p].t = NoToken \/ req'[p].t = req[p].t
    BY <1>20 DEF Backfill, Goto, End, Holding, Begin, Idle, ReqsOK, RequestStates
  <2> QED
    BY <1>20, <2>1, QuietCredentials DEF Backfill, hist
<1>21. ASSUME NEW r \in Requests, Refuse(r) PROVE CredentialStep
  <2>1. \A p \in Requests : req'[p].t = NoToken \/ req'[p].t = req[p].t
    BY <1>21 DEF Refuse, Goto, End, Holding, Begin, Idle, ReqsOK, RequestStates
  <2> QED
    BY <1>21, <2>1, QuietCredentials DEF Refuse, hist
<1>22. ASSUME NEW r \in Requests, Enter(r) PROVE CredentialStep
  <2>1. \A p \in Requests : req'[p].t = NoToken \/ req'[p].t = req[p].t
    BY <1>22 DEF Enter, End, Idle, ReqsOK
  <2>2. HonouredDead
    BY <1>22 DEF Enter, HonouredDead, At, ReqsOK, ReqOK, TokensOK, Taking
  <2> QED
    BY <1>22, <2>1, <2>2, WeComAssumption DEF Enter, CredentialStep, TakenLive, PhaseMoves
<1>23. ASSUME NEW r \in Requests, UpsertRead(r) PROVE CredentialStep
  <2>1. \A p \in Requests : req'[p].t = NoToken \/ req'[p].t = req[p].t
    BY <1>23 DEF UpsertRead, Goto, End, Holding, Begin, Idle, ReqsOK, RequestStates
  <2> QED
    BY <1>23, <2>1, QuietCredentials DEF UpsertRead, hist
<1>24. ASSUME NEW r \in Requests, UpsertWrite(r) PROVE CredentialStep
  <2>1. \A p \in Requests : req'[p].t = NoToken \/ req'[p].t = req[p].t
    BY <1>24 DEF UpsertWrite, Goto, End, Holding, Begin, Idle, ReqsOK, RequestStates
  <2> QED
    BY <1>24, <2>1, QuietCredentials DEF UpsertWrite, hist
<1>25. ASSUME NEW r \in Requests, Release(r) PROVE CredentialStep
  <2>1. \A p \in Requests : req'[p].t = NoToken \/ req'[p].t = req[p].t
    BY <1>25 DEF Release, Goto, End, Holding, Begin, Idle, ReqsOK, RequestStates
  <2> QED
    BY <1>25, <2>1, QuietCredentials DEF Release, hist
<1>26. ASSUME NEW r \in Requests, Unlink(r) PROVE CredentialStep
  <2>1. \A p \in Requests : req'[p].t = NoToken \/ req'[p].t = req[p].t
    BY <1>26 DEF Unlink, Goto, End, Holding, Begin, Idle, ReqsOK, RequestStates
  <2> QED
    BY <1>26, <2>1, QuietCredentials DEF Unlink, hist
<1>27. ASSUME NEW r \in Requests, ReadOwner(r) PROVE CredentialStep
  <2>1. \A p \in Requests : req'[p].t = NoToken \/ req'[p].t = req[p].t
    BY <1>27 DEF ReadOwner, Goto, End, Holding, Begin, Idle, ReqsOK, RequestStates
  <2> QED
    BY <1>27, <2>1, QuietCredentials DEF ReadOwner, hist
<1>28. ASSUME NEW r \in Requests, WriteOwner(r) PROVE CredentialStep
  <2>1. \A p \in Requests : req'[p].t = NoToken \/ req'[p].t = req[p].t
    BY <1>28 DEF WriteOwner, End, Idle, ReqsOK
  <2>2. HonouredDead
    BY <1>28 DEF WriteOwner, HonouredDead, At, ReqsOK, ReqOK, TokensOK, Taking
  <2> QED
    BY <1>28, <2>1, <2>2, WeComAssumption
       DEF WriteOwner, CredentialStep, TakenLive, PhaseMoves
<1>29. ASSUME NEW r \in Requests, NEW t \in Tokens, SendResetMail(r, t) PROVE CredentialStep
  <2>1. \A p \in Requests : req'[p].t = NoToken \/ req'[p].t = req[p].t
    BY <1>29 DEF SendResetMail, End, Idle, ReqsOK
  <2>2. \A x \in Tokens : PhaseMoves(x)
    BY <1>29 DEF SendResetMail, Draw, PhaseMoves, TokensOK
  <2>3. HonouredDead
    BY <1>29 DEF SendResetMail, HonouredDead, At, hist, ReqsOK, ReqOK, TokensOK, Taking
  <2> QED
    BY <2>1, <2>2, <2>3, WeComAssumption DEF CredentialStep, TakenLive
<1>30. ASSUME NEW r \in Requests, ResetRead(r) PROVE CredentialStep
  <2>1. \A p \in Requests : req'[p].t = NoToken \/ req'[p].t = req[p].t
    BY <1>30 DEF ResetRead, Goto, End, Holding, Begin, Idle, ReqsOK, RequestStates
  <2> QED
    BY <1>30, <2>1, QuietCredentials DEF ResetRead, hist
<1>31. ASSUME NEW r \in Requests, ResetSave(r) PROVE CredentialStep
  <2>1. \A p \in Requests : req'[p].t = NoToken \/ req'[p].t = req[p].t
    BY <1>31 DEF ResetSave, Goto, End, Holding, Begin, Idle, ReqsOK, RequestStates
  <2> QED
    BY <1>31, <2>1, QuietCredentials DEF ResetSave, hist
<1>32. ASSUME NEW r \in Requests, DeleteToken(r) PROVE CredentialStep
  <2>1. req[r].t \in Tokens /\ tok[req[r].t].phase # "fresh"
    BY <1>32 DEF DeleteToken, At, ReqsOK, ReqOK, TokensOK
  <2>2. \A p \in Requests : req'[p].t = req[p].t
    BY <1>32 DEF DeleteToken, Goto, ReqsOK, RequestStates
  <2>3. tok' = [tok EXCEPT ![req[r].t] = DeadToken] /\ UNCHANGED honoured
    BY <1>32 DEF DeleteToken, hist
  <2> QED
    BY <2>1, <2>2, <2>3
       DEF CredentialStep, PhaseMoves, TakenLive, HonouredDead, DeadToken, TokensOK
<1>33. ASSUME NEW r \in Requests, NEW t \in Tokens, Solved(r, t) PROVE CredentialStep
  <2>1. \A p \in Requests : req'[p].t = NoToken \/ req'[p].t = req[p].t
    BY <1>33 DEF Solved, End, Idle, ReqsOK
  <2>2. \A x \in Tokens : PhaseMoves(x)
    BY <1>33 DEF Solved, Draw, PhaseMoves, TokensOK
  <2>3. HonouredDead
    BY <1>33 DEF Solved, HonouredDead, At, hist, ReqsOK, ReqOK, TokensOK, Taking
  <2> QED
    BY <2>1, <2>2, <2>3, WeComAssumption DEF CredentialStep, TakenLive
<1>34. ASSUME NEW r \in Requests, Unsolved(r) PROVE CredentialStep
  <2>1. \A p \in Requests : req'[p].t = NoToken \/ req'[p].t = req[p].t
    BY <1>34 DEF Unsolved, Goto, End, Holding, Begin, Idle, ReqsOK, RequestStates
  <2> QED
    BY <1>34, <2>1, QuietCredentials DEF Unsolved, hist
<1>35. ASSUME NEW r \in Requests, Answer(r) PROVE CredentialStep
  <2>1. \A p \in Requests : req'[p].t = NoToken \/ req'[p].t = req[p].t
    BY <1>35 DEF Answer, End, Idle, ReqsOK
  <2>2. HonouredDead
    BY <1>35 DEF Answer, HonouredDead, At, ReqsOK, ReqOK, TokensOK, Taking
  <2> QED
    BY <1>35, <2>1, <2>2, WeComAssumption DEF Answer, CredentialStep, TakenLive, PhaseMoves
<1>36. ASSUME NEW t \in Tokens, NEW mode \in {"login", "bind"}, IssueState(t, mode)
       PROVE  CredentialStep
  BY <1>36
     DEF IssueState, Draw, DeadToken, CredentialStep, PhaseMoves, TakenLive, HonouredDead,
         TokensOK, hist
<1>37. ASSUME NEW t \in Tokens, Generate(t) PROVE CredentialStep
  BY <1>37
     DEF Generate, Draw, DeadToken, CredentialStep, PhaseMoves, TakenLive, HonouredDead,
         TokensOK, hist
<1>38. ASSUME NEW t \in Tokens, Expire(t) PROVE CredentialStep
  BY <1>38
     DEF Expire, Draw, DeadToken, CredentialStep, PhaseMoves, TakenLive, HonouredDead,
         TokensOK, hist
<1>39. ASSUME NEW p \in BOOLEAN, Crash(p) PROVE CredentialStep
  BY <1>39, WeComAssumption
     DEF Crash, DeadToken, Idle, CredentialStep, PhaseMoves, TakenLive, HonouredDead,
         TokensOK, hist
<1>40. ASSUME UNCHANGED <<tok, honoured, req>> PROVE CredentialStep
  BY <1>40, QuietCredentials
<1> QED
  BY <1>1, <1>2, <1>3, <1>4, <1>5, <1>6, <1>7, <1>8, <1>9, <1>10, <1>11, <1>12, <1>13,
     <1>14, <1>15, <1>16, <1>17, <1>18, <1>19, <1>20, <1>21, <1>22, <1>23, <1>24, <1>25,
     <1>26, <1>27, <1>28, <1>29, <1>30, <1>31, <1>32, <1>33, <1>34, <1>35, <1>36, <1>37,
     <1>38, <1>39, <1>40
     DEF TicketNext, TicketStep, Next, Start, World, ScanStep, LinkStep,
         Bar, DeleteUser, Leave, hist, vars

\* Such a step is a step of OneTimeGrant, or none.
LEMMA CredentialRefines ==
  ASSUME TicketInv, TicketInv', CredentialStep PROVE Grant!GrantNext
<1>1. [t \in Tokens |-> tok'[t].phase] \in [Tokens -> {"fresh", "live", "dead"}]
  BY DEF TicketInv, TokensOK
<1>2. honoured' \subseteq Tokens /\ honoured \subseteq honoured'
  BY DEF TicketInv, WorldOK, CredentialStep, HonouredDead
<1>3. \A t \in Tokens : Grant!PhaseStep(t)
  BY DEF Grant!PhaseStep, CredentialStep, PhaseMoves
<1>4. \A t \in Tokens : Grant!Honour(t)
  BY DEF Grant!Honour, CredentialStep, HonouredDead
<1>5. \A r \in Requests, t \in Tokens : Grant!Take(r, t)
  BY DEF Grant!Take, CredentialStep, TakenLive
<1> QED
  BY <1>1, <1>2, <1>3, <1>4, <1>5 DEF Grant!GrantNext

\* States of a scan, reset links, captcha challenges and captcha tickets are
\* one-time credentials: what the callback, ResetPassword, Verify and
\* ConsumeTicket do to them implements OneTimeGrant.
THEOREM TokensImplementOneTimeGrant == TicketSpec => TokenOnce
<1>1. Init => Grant!GrantInit
  BY WeComAssumption DEF Init, Idle, Grant!GrantInit
<1>2. TicketInv /\ TicketInv' /\ [TicketNext]_vars
        => [Grant!GrantNext]_(Grant!grantVars)
  BY CredentialsMove, CredentialRefines
<1> QED
  BY <1>1, <1>2, TicketInvHolds, PTL DEF TicketSpec, TokenOnce, Grant!GrantSpec

-----------------------------------------------------------------------------
(* The unique indexes, and requests that are alone *)

\* The steps that write the table of users.
WritesUser(r) ==
  \/ Depart(r) \/ Stamp(r) \/ (\E u \in Users : Create(r, u)) \/ Backfill(r)
  \/ WriteOwner(r) \/ ResetSave(r)

\* No other step writes the table of users.
LEMMA WhoWritesUser ==
  [TicketNext]_vars =>
    \/ UNCHANGED user
    \/ \E r \in Requests : WritesUser(r)
    \/ \E u \in Users : Bar(u) \/ DeleteUser(u)
<1>1. Start => UNCHANGED user
  BY DEF Start, IssueState, CallbackFixed, Callback, StartBind, StartUnbind, rows
<1>2. \A r \in Requests : ScanStep(r) => UNCHANGED user \/ WritesUser(r)
  BY ZenonT(30) DEF ScanStep, WritesUser, ConsumeState, Abandon, ResolveCode, ResolveBind,
     FindBinding, LoadBound, FindDomain, FindMail, TryName, Refuse, Enter, rows
<1>3. \A r \in Requests : LinkStep(r) => UNCHANGED user \/ WritesUser(r)
  BY DEF LinkStep, WritesUser, UpsertRead, UpsertWrite, Release, Unlink, ReadOwner,
     rows
<1>4. \A r \in Requests : TicketStep(r) => UNCHANGED user \/ WritesUser(r)
  BY DEF TicketStep, WritesUser, ForgotPassword, SendResetMail, ResetPassword, Present,
     ResetRead, DeleteToken, Solved, Unsolved, Answer, rows
<1>5. World => UNCHANGED user \/ \E u \in Users : Bar(u) \/ DeleteUser(u)
  BY DEF World, Leave, Crash, Expire, rows
<1>6. (\E t \in Tokens : Generate(t)) \/ UNCHANGED vars => UNCHANGED user
  BY DEF Generate, rows, vars
<1> QED
  BY <1>1, <1>2, <1>3, <1>4, <1>5, <1>6 DEF TicketNext, Next

\* A save keeps the unique indexes.
LEMMA SavedKeepsUnique ==
  ASSUME WorldOK, Unique, NEW u \in Users, NEW row \in Rows, user' = Saved(u, row)
  PROVE  Unique'
BY DEF Unique, Saved, Clashes, WorldOK

\* The unique indexes hold after every step.
LEMMA UniqueStep ==
  ASSUME TicketInv, Unique, [TicketNext]_vars PROVE Unique'
<1> USE DEF TicketInv
<1>1. ASSUME NEW r \in Requests, Depart(r) PROVE Unique'
  <2>1. user' = user \/ \E u \in Users, row \in Rows : user' = Saved(u, row)
    BY <1>1, AtHand, BarredFits, DomainFits DEF Depart, Searching, At
  <2> QED
    BY <2>1, SavedKeepsUnique DEF Unique, Clashes
<1>2. ASSUME NEW r \in Requests, Stamp(r) PROVE Unique'
  <2>1. user' = user \/ \E u \in Users, row \in Rows : user' = Saved(u, row)
    BY <1>2, AtHand, BarredFits, DomainFits DEF Stamp, Searching, At, StampRow
  <2> QED
    BY <2>1, SavedKeepsUnique DEF Unique, Clashes
<1>3. ASSUME NEW r \in Requests, NEW u \in Users, Create(r, u) PROVE Unique'
  <2>1. NewRow(r) \in Rows /\ NewRow(r).on
    BY <1>3, NewRowFits DEF Create, At
  <2>2. PICK w \in Rows : w = NewRow(r)
    BY <2>1
  <2>3. user' = user \/ (~Clashes(u, w) /\ user' = [user EXCEPT ![u] = w])
    BY <1>3, <2>2 DEF Create
  <2> QED
    BY <2>3 DEF Unique, Clashes, WorldOK
<1>4. ASSUME NEW r \in Requests, Backfill(r) PROVE Unique'
  <2>1. user' = user \/ \E u \in Users, row \in Rows : user' = Saved(u, row)
    BY <1>4, AtHand, BarredFits, DomainFits DEF Backfill, Searching, At
  <2> QED
    BY <2>1, SavedKeepsUnique DEF Unique, Clashes
<1>5. ASSUME NEW r \in Requests, WriteOwner(r) PROVE Unique'
  <2>1. user' = user \/ \E u \in Users, row \in Rows : user' = Saved(u, row)
    BY <1>5, AtHand, BarredFits, DomainFits DEF WriteOwner, Searching, At, SetDomain
  <2> QED
    BY <2>1, SavedKeepsUnique DEF Unique, Clashes
<1>6. ASSUME NEW r \in Requests, ResetSave(r) PROVE Unique'
  <2>1. user' = user \/ \E u \in Users, row \in Rows : user' = Saved(u, row)
    BY <1>6, AtHand, BarredFits, DomainFits DEF ResetSave, Searching, At
  <2> QED
    BY <2>1, SavedKeepsUnique DEF Unique, Clashes
<1>7. ASSUME NEW u \in Users, Bar(u) PROVE Unique'
  <2>1. \A v \in Users : /\ user'[v].on = user[v].on
                         /\ user[v].on => /\ user'[v].name = user[v].name
                                          /\ user'[v].mail = user[v].mail
    BY <1>7, UserRow DEF Bar, WorldOK, Rows
  <2> QED
    BY <2>1 DEF Unique, Clashes
<1>8. ASSUME NEW u \in Users, DeleteUser(u) PROVE Unique'
  BY <1>8 DEF DeleteUser, WorldOK, Unique, Clashes, NoRow
<1>9. CASE UNCHANGED user
  BY <1>9 DEF Unique, Clashes
<1> QED
  BY <1>1, <1>2, <1>3, <1>4, <1>5, <1>6, <1>7, <1>8, <1>9, WhoWritesUser DEF WritesUser

\* The steps that touch neither tables nor requests.
QuietStep ==
  \/ \E t \in Tokens, mode \in {"login", "bind"} : IssueState(t, mode)
  \/ \E t \in Tokens : Generate(t) \/ Expire(t)
  \/ \E i \in Ids : Leave(i)
  \/ UNCHANGED vars

\* A quiet step leaves the tables and the requests as they are.
LEMMA QuietRows ==
  QuietStep => UNCHANGED <<user, binding, req, origin, solid, cut, shaky>>
BY DEF QuietStep, IssueState, Generate, Expire, Leave, rows, hist, vars

\* While a request is alone, the other requests are idle.
LEMMA SoloKept ==
  ASSUME ReqsOK, \A p \in Requests : SoloOK(p), NEW r \in Requests, ~At(r, "idle"),
         \A p \in Requests \ {r} : req'[p] = req[p],
         req'[r].solo => req[r].solo,
         req'[r].pc \notin {"owner", "write"}
  PROVE  \A p \in Requests : SoloOK(p)'
BY DEF SoloOK, Alone, At

\* A request that begins leaves none alone but itself.
LEMMA SoloBegin ==
  ASSUME ReqsOK, \A p \in Requests : SoloOK(p), NEW r \in Requests, NEW q \in RequestStates,
         Begin(r, q), q.pc \notin {"owner", "write"}
  PROVE  \A p \in Requests : SoloOK(p)'
BY DEF SoloOK, Alone, At, Begin, ReqsOK, RequestStates

\* A request that stays alone finds what it left (BindWeCom).
LEMMA SoloStep ==
  ASSUME TicketInv, Unique, \A r \in Requests : SoloOK(r), [TicketNext]_vars
  PROVE  \A r \in Requests : SoloOK(r)'
<1> USE DEF TicketInv
<1> DEFINE Goal == \A p \in Requests : SoloOK(p)'
<1>1. ASSUME NEW r \in Requests, NEW t \in Tokens, Callback(r, t) PROVE Goal
  <2>1. PICK q : q = [Idle EXCEPT !.pc = "del", !.op = tok[t].kind, !.t = t]
    OBVIOUS
  <2>2. q \in RequestStates /\ q.pc \notin {"owner", "write"}
    BY <1>1, <2>1, IdleFits, WeComAssumption DEF Callback, RequestStates, Idle, TokensOK
  <2>3. Begin(r, q)
    BY <1>1, <2>1 DEF Callback
  <2> QED
    BY <2>2, <2>3, SoloBegin
<1>2. ASSUME NEW r \in Requests, CallbackFixed(r) PROVE Goal
  <2>1. PICK q : q = [Idle EXCEPT !.pc = "code", !.op = "login"]
    OBVIOUS
  <2>2. q \in RequestStates /\ q.pc \notin {"owner", "write"}
    BY <1>2, <2>1, IdleFits, WeComAssumption
       DEF CallbackFixed, RequestStates, Idle, TokensOK
  <2>3. Begin(r, q)
    BY <1>2, <2>1 DEF CallbackFixed
  <2> QED
    BY <2>2, <2>3, SoloBegin
<1>3. ASSUME NEW r \in Requests, NEW u \in Users, NEW i \in Ids, StartBind(r, u, i)
      PROVE  Goal
  <2>1. PICK q : q = [Idle EXCEPT !.pc = "release", !.op = "put", !.id = i, !.u = u]
    OBVIOUS
  <2>2. q \in RequestStates /\ q.pc \notin {"owner", "write"}
    BY <1>3, <2>1, IdleFits, WeComAssumption DEF StartBind, RequestStates, Idle, TokensOK
  <2>3. Begin(r, q)
    BY <1>3, <2>1 DEF StartBind
  <2> QED
    BY <2>2, <2>3, SoloBegin
<1>4. ASSUME NEW r \in Requests, NEW u \in Users, StartUnbind(r, u) PROVE Goal
  <2>1. PICK q : q = [Idle EXCEPT !.pc = "unlink", !.op = "cut", !.u = u]
    OBVIOUS
  <2>2. q \in RequestStates /\ q.pc \notin {"owner", "write"}
    BY <1>4, <2>1, IdleFits, WeComAssumption DEF StartUnbind, RequestStates, Idle, TokensOK
  <2>3. Begin(r, q)
    BY <1>4, <2>1 DEF StartUnbind
  <2> QED
    BY <2>2, <2>3, SoloBegin
<1>5. ASSUME NEW r \in Requests, NEW u \in Users, ForgotPassword(r, u) PROVE Goal
  <2>1. PICK q : q = [Idle EXCEPT !.pc = "send", !.op = "forgot", !.u = u]
    OBVIOUS
  <2>2. q \in RequestStates /\ q.pc \notin {"owner", "write"}
    BY <1>5, <2>1, IdleFits, WeComAssumption
       DEF ForgotPassword, RequestStates, Idle, TokensOK
  <2>3. Begin(r, q)
    BY <1>5, <2>1 DEF ForgotPassword
  <2> QED
    BY <2>2, <2>3, SoloBegin
<1>6. ASSUME NEW r \in Requests, NEW t \in Tokens, ResetPassword(r, t) PROVE Goal
  <2>1. PICK q : q = [Idle EXCEPT !.pc = "tread", !.op = "reset", !.t = t, !.u = tok[t].u]
    OBVIOUS
  <2>2. q \in RequestStates /\ q.pc \notin {"owner", "write"}
    BY <1>6, <2>1, IdleFits, WeComAssumption
       DEF ResetPassword, RequestStates, Idle, TokensOK
  <2>3. Begin(r, q)
    BY <1>6, <2>1 DEF ResetPassword
  <2> QED
    BY <2>2, <2>3, SoloBegin
<1>7. ASSUME NEW r \in Requests, NEW t \in Tokens, Present(r, t) PROVE Goal
  <2>1. PICK q : q = [Idle EXCEPT !.pc = "del", !.op = tok[t].kind, !.t = t]
    OBVIOUS
  <2>2. q \in RequestStates /\ q.pc \notin {"owner", "write"}
    BY <1>7, <2>1, IdleFits, WeComAssumption DEF Present, RequestStates, Idle, TokensOK
  <2>3. Begin(r, q)
    BY <1>7, <2>1 DEF Present
  <2> QED
    BY <2>2, <2>3, SoloBegin
<1>8. ASSUME NEW r \in Requests, ConsumeState(r) PROVE Goal
  <2>1. /\ ~At(r, "idle") /\ req'[r].pc \notin {"owner", "write"}
        /\ \A p \in Requests \ {r} : req'[p] = req[p]
        /\ req'[r].solo => req[r].solo
    BY <1>8 DEF ConsumeState, At, Goto, End, Holding, Idle, ReqsOK, RequestStates
  <2> QED
    BY <2>1, SoloKept
<1>9. ASSUME NEW r \in Requests, Abandon(r) PROVE Goal
  <2>1. /\ ~At(r, "idle") /\ req'[r].pc \notin {"owner", "write"}
        /\ \A p \in Requests \ {r} : req'[p] = req[p]
        /\ req'[r].solo => req[r].solo
    BY <1>9 DEF Abandon, At, Goto, End, Holding, Idle, ReqsOK, RequestStates
  <2> QED
    BY <2>1, SoloKept
<1>10. ASSUME NEW r \in Requests, NEW i \in Ids, NEW detail \in BOOLEAN, ResolveCode(r, i,
              detail)
       PROVE  Goal
  <2>1. /\ ~At(r, "idle") /\ req'[r].pc \notin {"owner", "write"}
        /\ \A p \in Requests \ {r} : req'[p] = req[p]
        /\ req'[r].solo => req[r].solo
    BY <1>10 DEF ResolveCode, At, Goto, End, Holding, Idle, ReqsOK, RequestStates
  <2> QED
    BY <2>1, SoloKept
<1>11. ASSUME NEW r \in Requests, NEW i \in Ids, NEW u \in Users, ResolveBind(r, i, u)
       PROVE  Goal
  <2>1. /\ ~At(r, "idle") /\ req'[r].pc \notin {"owner", "write"}
        /\ \A p \in Requests \ {r} : req'[p] = req[p]
        /\ req'[r].solo => req[r].solo
    BY <1>11 DEF ResolveBind, At, Goto, End, Holding, Idle, ReqsOK, RequestStates
  <2> QED
    BY <2>1, SoloKept
<1>12. ASSUME NEW r \in Requests, FindBinding(r) PROVE Goal
  <2>1. /\ ~At(r, "idle") /\ req'[r].pc \notin {"owner", "write"}
        /\ \A p \in Requests \ {r} : req'[p] = req[p]
        /\ req'[r].solo => req[r].solo
    BY <1>12 DEF FindBinding, At, Goto, End, Holding, Idle, ReqsOK, RequestStates
  <2> QED
    BY <2>1, SoloKept
<1>13. ASSUME NEW r \in Requests, LoadBound(r) PROVE Goal
  <2>1. /\ ~At(r, "idle") /\ req'[r].pc \notin {"owner", "write"}
        /\ \A p \in Requests \ {r} : req'[p] = req[p]
        /\ req'[r].solo => req[r].solo
    BY <1>13 DEF LoadBound, At, Goto, End, Holding, Idle, ReqsOK, RequestStates
  <2> QED
    BY <2>1, SoloKept
<1>14. ASSUME NEW r \in Requests, FindDomain(r) PROVE Goal
  <2>p. ~At(r, "idle")
    BY <1>14 DEF FindDomain, At
  <2>1. ASSUME NEW u, NEW row, NEW via, Holding(r, "apply", u, row, via) PROVE Goal
    <3>1. (\A p \in Requests \ {r} : req'[p] = req[p])
              /\ (req'[r].solo => req[r].solo) /\ req'[r].pc \notin {"owner", "write"}
      BY <2>1 DEF Holding, ReqsOK, RequestStates
    <3> QED
      BY <2>p, <3>1, SoloKept
  <2>2. ASSUME NEW pc \in {"mail", "name"}, Goto(r, pc) PROVE Goal
    <3>1. (\A p \in Requests \ {r} : req'[p] = req[p])
              /\ (req'[r].solo => req[r].solo) /\ req'[r].pc \notin {"owner", "write"}
      BY <2>2 DEF Goto, ReqsOK, RequestStates
    <3> QED
      BY <2>p, <3>1, SoloKept
  <2>3. ASSUME End(r) PROVE Goal
    <3>1. (\A p \in Requests \ {r} : req'[p] = req[p])
              /\ (req'[r].solo => req[r].solo) /\ req'[r].pc \notin {"owner", "write"}
      BY <2>3 DEF End, Idle, ReqsOK
    <3> QED
      BY <2>p, <3>1, SoloKept
  <2> HIDE DEF Goal
  <2> QED
    BY <1>14, <2>1, <2>2, <2>3 DEF FindDomain
<1>15. ASSUME NEW r \in Requests, FindMail(r) PROVE Goal
  <2>p. ~At(r, "idle")
    BY <1>15 DEF FindMail, At
  <2>1. ASSUME NEW u, NEW row, NEW via, Holding(r, "apply", u, row, via) PROVE Goal
    <3>1. (\A p \in Requests \ {r} : req'[p] = req[p])
              /\ (req'[r].solo => req[r].solo) /\ req'[r].pc \notin {"owner", "write"}
      BY <2>1 DEF Holding, ReqsOK, RequestStates
    <3> QED
      BY <2>p, <3>1, SoloKept
  <2>2. ASSUME NEW pc \in {"mail", "name"}, Goto(r, pc) PROVE Goal
    <3>1. (\A p \in Requests \ {r} : req'[p] = req[p])
              /\ (req'[r].solo => req[r].solo) /\ req'[r].pc \notin {"owner", "write"}
      BY <2>2 DEF Goto, ReqsOK, RequestStates
    <3> QED
      BY <2>p, <3>1, SoloKept
  <2>3. ASSUME End(r) PROVE Goal
    <3>1. (\A p \in Requests \ {r} : req'[p] = req[p])
              /\ (req'[r].solo => req[r].solo) /\ req'[r].pc \notin {"owner", "write"}
      BY <2>3 DEF End, Idle, ReqsOK
    <3> QED
      BY <2>p, <3>1, SoloKept
  <2> HIDE DEF Goal
  <2> QED
    BY <1>15, <2>1, <2>2, <2>3 DEF FindMail
<1>16. ASSUME NEW r \in Requests, Depart(r) PROVE Goal
  <2>1. /\ ~At(r, "idle") /\ req'[r].pc \notin {"owner", "write"}
        /\ \A p \in Requests \ {r} : req'[p] = req[p]
        /\ req'[r].solo => req[r].solo
    BY <1>16 DEF Depart, At, Goto, End, Holding, Idle, ReqsOK, RequestStates
  <2> QED
    BY <2>1, SoloKept
<1>17. ASSUME NEW r \in Requests, Stamp(r) PROVE Goal
  <2>1. /\ ~At(r, "idle") /\ req'[r].pc \notin {"owner", "write"}
        /\ \A p \in Requests \ {r} : req'[p] = req[p]
        /\ req'[r].solo => req[r].solo
    BY <1>17 DEF Stamp, At, Goto, End, Holding, Idle, ReqsOK, RequestStates
  <2> QED
    BY <2>1, SoloKept
<1>18. ASSUME NEW r \in Requests, TryName(r) PROVE Goal
  <2>1. /\ ~At(r, "idle") /\ req'[r].pc \notin {"owner", "write"}
        /\ \A p \in Requests \ {r} : req'[p] = req[p]
        /\ req'[r].solo => req[r].solo
    BY <1>18 DEF TryName, At, Goto, End, Holding, Idle, ReqsOK, RequestStates
  <2> QED
    BY <2>1, SoloKept
<1>19. ASSUME NEW r \in Requests, NEW u \in Users, Create(r, u) PROVE Goal
  <2>1. /\ ~At(r, "idle") /\ req'[r].pc \notin {"owner", "write"}
        /\ \A p \in Requests \ {r} : req'[p] = req[p]
        /\ req'[r].solo => req[r].solo
    BY <1>19 DEF Create, At, Goto, End, Holding, Idle, ReqsOK, RequestStates
  <2> QED
    BY <2>1, SoloKept
<1>20. ASSUME NEW r \in Requests, Backfill(r) PROVE Goal
  <2>1. /\ ~At(r, "idle") /\ req'[r].pc \notin {"owner", "write"}
        /\ \A p \in Requests \ {r} : req'[p] = req[p]
        /\ req'[r].solo => req[r].solo
    BY <1>20 DEF Backfill, At, Goto, End, Holding, Idle, ReqsOK, RequestStates
  <2> QED
    BY <2>1, SoloKept
<1>21. ASSUME NEW r \in Requests, Refuse(r) PROVE Goal
  <2>1. /\ ~At(r, "idle") /\ req'[r].pc \notin {"owner", "write"}
        /\ \A p \in Requests \ {r} : req'[p] = req[p]
        /\ req'[r].solo => req[r].solo
    BY <1>21 DEF Refuse, At, Goto, End, Holding, Idle, ReqsOK, RequestStates
  <2> QED
    BY <2>1, SoloKept
<1>22. ASSUME NEW r \in Requests, Enter(r) PROVE Goal
  <2>1. /\ ~At(r, "idle") /\ req'[r].pc \notin {"owner", "write"}
        /\ \A p \in Requests \ {r} : req'[p] = req[p]
        /\ req'[r].solo => req[r].solo
    BY <1>22 DEF Enter, At, Goto, End, Holding, Idle, ReqsOK, RequestStates
  <2> QED
    BY <2>1, SoloKept
<1>23. ASSUME NEW r \in Requests, UpsertRead(r) PROVE Goal
  <2>1. /\ ~At(r, "idle") /\ req'[r].pc \notin {"owner", "write"}
        /\ \A p \in Requests \ {r} : req'[p] = req[p]
        /\ req'[r].solo => req[r].solo
    BY <1>23 DEF UpsertRead, At, Goto, End, Holding, Idle, ReqsOK, RequestStates
  <2> QED
    BY <2>1, SoloKept
<1>24. ASSUME NEW r \in Requests, UpsertWrite(r) PROVE Goal
  <2>1. ~At(r, "idle") /\ req[r].u \in Users /\ user' = user
    BY <1>24 DEF UpsertWrite, At, rows, ReqsOK, ReqOK
  <2>2. /\ \A p \in Requests \ {r} : req'[p] = req[p]
        /\ req'[r].solo => req[r].solo
    BY <1>24 DEF UpsertWrite, Goto, End, Holding, Idle, ReqsOK, RequestStates
  <2>3. \A p \in Requests \ {r} : SoloOK(p)'
    BY <2>1, <2>2 DEF SoloOK, Alone, At
  <2>4. req'[r].solo => Alone(r)'
    BY <2>2 DEF SoloOK, Alone
  <2>5. req'[r].pc \in {"owner", "write"} =>
          /\ req'[r].pc = "owner" /\ req'[r].op # "cut" /\ req'[r].u = req[r].u
          /\ req'[r].id = req[r].id /\ binding'[req[r].id] = req[r].u
    BY <1>24 DEF UpsertWrite, Goto, End, Idle, At, ReqsOK, ReqOK, RequestStates, WorldOK
  <2>6. SoloOK(r)'
    BY <2>4, <2>5 DEF SoloOK
  <2> QED
    BY <2>3, <2>6
<1>25. ASSUME NEW r \in Requests, Release(r) PROVE Goal
  <2>1. /\ ~At(r, "idle") /\ req'[r].pc \notin {"owner", "write"}
        /\ \A p \in Requests \ {r} : req'[p] = req[p]
        /\ req'[r].solo => req[r].solo
    BY <1>25 DEF Release, At, Goto, End, Holding, Idle, ReqsOK, RequestStates
  <2> QED
    BY <2>1, SoloKept
<1>26. ASSUME NEW r \in Requests, Unlink(r) PROVE Goal
  <2>1. ~At(r, "idle") /\ req[r].u \in Users /\ user' = user
    BY <1>26 DEF Unlink, At, rows, ReqsOK, ReqOK
  <2>2. /\ \A p \in Requests \ {r} : req'[p] = req[p]
        /\ req'[r].solo => req[r].solo
    BY <1>26 DEF Unlink, Goto, End, Holding, Idle, ReqsOK, RequestStates
  <2>3. \A p \in Requests \ {r} : SoloOK(p)'
    BY <2>1, <2>2 DEF SoloOK, Alone, At
  <2>4. req'[r].solo => Alone(r)'
    BY <2>2 DEF SoloOK, Alone
  <2>5. req'[r].pc = "owner" /\ req'[r].op = "cut" /\ req'[r].u = req[r].u
    BY <1>26 DEF Unlink, Goto, At, ReqsOK, ReqOK, RequestStates
  <2>6. \A i \in Ids : binding'[i] # req[r].u
    BY <1>26, <2>1, WeComAssumption DEF Unlink
  <2>7. SoloOK(r)'
    BY <2>4, <2>5, <2>6 DEF SoloOK
  <2> QED
    BY <2>3, <2>7
<1>27. ASSUME NEW r \in Requests, ReadOwner(r) PROVE Goal
  <2>1. ~At(r, "idle") /\ req[r].u \in Users /\ user' = user
    BY <1>27 DEF ReadOwner, At, rows, ReqsOK, ReqOK
  <2>2. /\ \A p \in Requests \ {r} : req'[p] = req[p]
        /\ req'[r].solo => req[r].solo
    BY <1>27 DEF ReadOwner, Goto, End, Holding, Idle, ReqsOK, RequestStates
  <2>3. \A p \in Requests \ {r} : SoloOK(p)'
    BY <2>1, <2>2 DEF SoloOK, Alone, At
  <2>4. req'[r].solo => Alone(r)'
    BY <2>2 DEF SoloOK, Alone
  <2>5. req'[r].pc = "write" =>
          req'[r].u = req[r].u /\ req'[r].op = req[r].op /\ req'[r].id = req[r].id
          /\ req'[r].row = user[req[r].u] /\ user[req[r].u].on
    BY <1>27 DEF ReadOwner, End, Holding, Idle, ReqsOK, RequestStates
  <2>6. req'[r].pc = "write" => ~Clashes(req[r].u, req[r].row)'
    BY <2>1, <2>5 DEF Unique, Clashes
  <2>7. req'[r].pc # "owner" /\ At(r, "owner") /\ binding' = binding
    BY <1>27 DEF ReadOwner, At, End, Holding, Idle, ReqsOK, RequestStates, rows
  <2>8. SoloOK(r)'
    BY ONLY SoloOK(r), <2>2, <2>4, <2>5, <2>6, <2>7 DEF SoloOK, At
  <2> QED
    BY <2>3, <2>8
<1>28. ASSUME NEW r \in Requests, WriteOwner(r) PROVE Goal
  <2>1. /\ ~At(r, "idle") /\ req'[r].pc \notin {"owner", "write"}
        /\ \A p \in Requests \ {r} : req'[p] = req[p]
        /\ req'[r].solo => req[r].solo
    BY <1>28 DEF WriteOwner, At, Goto, End, Holding, Idle, ReqsOK, RequestStates
  <2> QED
    BY <2>1, SoloKept
<1>29. ASSUME NEW r \in Requests, NEW t \in Tokens, SendResetMail(r, t) PROVE Goal
  <2>1. /\ ~At(r, "idle") /\ req'[r].pc \notin {"owner", "write"}
        /\ \A p \in Requests \ {r} : req'[p] = req[p]
        /\ req'[r].solo => req[r].solo
    BY <1>29 DEF SendResetMail, At, Goto, End, Holding, Idle, ReqsOK, RequestStates
  <2> QED
    BY <2>1, SoloKept
<1>30. ASSUME NEW r \in Requests, ResetRead(r) PROVE Goal
  <2>1. /\ ~At(r, "idle") /\ req'[r].pc \notin {"owner", "write"}
        /\ \A p \in Requests \ {r} : req'[p] = req[p]
        /\ req'[r].solo => req[r].solo
    BY <1>30 DEF ResetRead, At, Goto, End, Holding, Idle, ReqsOK, RequestStates
  <2> QED
    BY <2>1, SoloKept
<1>31. ASSUME NEW r \in Requests, ResetSave(r) PROVE Goal
  <2>1. /\ ~At(r, "idle") /\ req'[r].pc \notin {"owner", "write"}
        /\ \A p \in Requests \ {r} : req'[p] = req[p]
        /\ req'[r].solo => req[r].solo
    BY <1>31 DEF ResetSave, At, Goto, End, Holding, Idle, ReqsOK, RequestStates
  <2> QED
    BY <2>1, SoloKept
<1>32. ASSUME NEW r \in Requests, DeleteToken(r) PROVE Goal
  <2>1. /\ ~At(r, "idle") /\ req'[r].pc \notin {"owner", "write"}
        /\ \A p \in Requests \ {r} : req'[p] = req[p]
        /\ req'[r].solo => req[r].solo
    BY <1>32 DEF DeleteToken, At, Goto, End, Holding, Idle, ReqsOK, RequestStates
  <2> QED
    BY <2>1, SoloKept
<1>33. ASSUME NEW r \in Requests, NEW t \in Tokens, Solved(r, t) PROVE Goal
  <2>1. /\ ~At(r, "idle") /\ req'[r].pc \notin {"owner", "write"}
        /\ \A p \in Requests \ {r} : req'[p] = req[p]
        /\ req'[r].solo => req[r].solo
    BY <1>33 DEF Solved, At, Goto, End, Holding, Idle, ReqsOK, RequestStates
  <2> QED
    BY <2>1, SoloKept
<1>34. ASSUME NEW r \in Requests, Unsolved(r) PROVE Goal
  <2>1. /\ ~At(r, "idle") /\ req'[r].pc \notin {"owner", "write"}
        /\ \A p \in Requests \ {r} : req'[p] = req[p]
        /\ req'[r].solo => req[r].solo
    BY <1>34 DEF Unsolved, At, Goto, End, Holding, Idle, ReqsOK, RequestStates
  <2> QED
    BY <2>1, SoloKept
<1>35. ASSUME NEW r \in Requests, Answer(r) PROVE Goal
  <2>1. /\ ~At(r, "idle") /\ req'[r].pc \notin {"owner", "write"}
        /\ \A p \in Requests \ {r} : req'[p] = req[p]
        /\ req'[r].solo => req[r].solo
    BY <1>35 DEF Answer, At, Goto, End, Holding, Idle, ReqsOK, RequestStates
  <2> QED
    BY <2>1, SoloKept
<1>36. ASSUME NEW u \in Users, Bar(u) PROVE Goal
  <2>1. \A v \in Users : /\ user'[v].on = user[v].on
                         /\ user[v].on => /\ user'[v].name = user[v].name
                                          /\ user'[v].mail = user[v].mail
    BY <1>36, UserRow DEF Bar, WorldOK, Rows
  <2>2. UNCHANGED <<req, binding>>
    BY <1>36 DEF Bar
  <2> QED
    BY <2>1, <2>2 DEF SoloOK, Alone, Clashes
<1>37. ASSUME NEW u \in Users, DeleteUser(u) PROVE Goal
  <2>1. \A v \in Users : user'[v].on => user'[v] = user[v]
    BY <1>37 DEF DeleteUser, WorldOK, NoRow
  <2>2. UNCHANGED <<req, binding>>
    BY <1>37 DEF DeleteUser
  <2> QED
    BY <2>1, <2>2 DEF SoloOK, Alone, Clashes
<1>38. ASSUME NEW p \in BOOLEAN, Crash(p) PROVE Goal
  BY <1>38 DEF Crash, SoloOK, Idle
<1>39. ASSUME UNCHANGED <<req, binding, user>> PROVE Goal
  BY <1>39 DEF SoloOK, Alone, Clashes
<1>q. QuietStep => UNCHANGED <<req, binding, user>>
  BY QuietRows
<1> HIDE DEF Goal
<1>a. Goal
  BY <1>1, <1>2, <1>3, <1>4, <1>5, <1>6, <1>7, <1>8, <1>9, <1>10, <1>11, <1>12, <1>13,
     <1>14, <1>15, <1>16, <1>17, <1>18, <1>19, <1>20, <1>21, <1>22, <1>23, <1>24, <1>25,
     <1>26, <1>27, <1>28, <1>29, <1>30, <1>31, <1>32, <1>33, <1>34, <1>35, <1>36, <1>37,
     <1>38, <1>39, <1>q
     DEF TicketNext, TicketStep, Next, Start, World, ScanStep, LinkStep, QuietStep
<1> QED
  BY <1>a DEF Goal

-----------------------------------------------------------------------------
(* Links *)

\* No save takes a row away.
LEMMA RowsStay ==
  ASSUME TicketInv, NEW r \in Requests, WritesUser(r), NEW a \in Users, user[a].on
  PROVE  user'[a].on
<1> USE DEF TicketInv
<1>1. ASSUME \E u \in Users, row \in Rows : row.on /\ user' = Saved(u, row)
      PROVE  user'[a].on
  BY <1>1, SavedRow
<1>2. ASSUME Depart(r) PROVE user'[a].on
  <2>1. user' = user \/ \E u \in Users, row \in Rows : row.on /\ user' = Saved(u, row)
    BY <1>2, AtHand, BarredFits, DomainFits DEF Depart, Searching, At
  <2> QED
    BY <1>1, <2>1
<1>3. ASSUME Stamp(r) PROVE user'[a].on
  <2>1. user' = user \/ \E u \in Users, row \in Rows : row.on /\ user' = Saved(u, row)
    BY <1>3, AtHand, BarredFits, DomainFits DEF Stamp, Searching, At, Rows, StampRow
  <2> QED
    BY <1>1, <2>1
<1>4. ASSUME NEW u \in Users, Create(r, u) PROVE user'[a].on
  BY <1>4, NewRowFits DEF Create, At, WorldOK
<1>5. ASSUME Backfill(r) PROVE user'[a].on
  <2>1. user' = user \/ \E u \in Users, row \in Rows : row.on /\ user' = Saved(u, row)
    BY <1>5, AtHand, BarredFits, DomainFits DEF Backfill, Searching, At
  <2> QED
    BY <1>1, <2>1
<1>6. ASSUME WriteOwner(r) PROVE user'[a].on
  <2>1. user' = user \/ \E u \in Users, row \in Rows : row.on /\ user' = Saved(u, row)
    BY <1>6, AtHand, BarredFits, DomainFits DEF WriteOwner, Searching, At, Rows, SetDomain
  <2> QED
    BY <1>1, <2>1
<1>7. ASSUME ResetSave(r) PROVE user'[a].on
  <2>1. user' = user \/ \E u \in Users, row \in Rows : row.on /\ user' = Saved(u, row)
    BY <1>7, AtHand, BarredFits, DomainFits DEF ResetSave, Searching, At, Rows
  <2> QED
    BY <1>1, <2>1
<1> QED
  BY <1>2, <1>3, <1>4, <1>5, <1>6, <1>7 DEF WritesUser

\* An idle request threatens no link.
LEMMA IdleFitsLinks == \A l \in Ids, a \in Users : LinkFits(Idle, l, a)
BY WeComAssumption DEF LinkFits, Idle, Moving, Cutting

\* A link stays home when one request goes on and does it no harm,
LEMMA LinkKept ==
  ASSUME NEW l \in Ids, NEW a \in Users, LinkOK(l, a), NEW r \in Requests,
         binding'[l] = a, user'[a].on, \A p \in Requests \ {r} : req'[p] = req[p],
         LinkFits(req'[r], l, a)
  PROVE  LinkOK(l, a)'
BY DEF LinkOK

\* and when a request begins that does it no harm.
LEMMA LinkBegun ==
  ASSUME ReqsOK, NEW l \in Ids, NEW a \in Users, LinkOK(l, a), NEW r \in Requests,
         NEW q \in RequestStates, Begin(r, q), UNCHANGED rows, LinkFits(q, l, a)
  PROVE  LinkOK(l, a)'
<1>1. \A s \in RequestStates : \A b \in BOOLEAN :
        LinkFits(s, l, a) => LinkFits([s EXCEPT !.solo = b], l, a)
  BY DEF LinkFits, Moving, Cutting, RequestStates
<1>2. ASSUME NEW p \in Requests PROVE LinkFits(req'[p], l, a)
  <2>1. PICK s \in RequestStates : s = req[p] /\ LinkFits(s, l, a)
    BY DEF LinkOK, ReqsOK
  <2>2. PICK b \in BOOLEAN : b = Alone(r)
    BY DEF Alone
  <2>3. req'[p] = IF p = r THEN [q EXCEPT !.solo = b] ELSE [s EXCEPT !.solo = FALSE]
    BY <2>1, <2>2 DEF Begin
  <2> QED
    BY <1>1, <2>1, <2>3
<1> QED
  BY <1>2 DEF LinkOK, rows

\* A link stays home whatever happens to others (FindOrCreateUser, BindWeCom).
LEMMA LinksStep ==
  ASSUME TicketInv, LinkInv, [TicketNext]_vars,
         NEW l \in Ids, NEW a \in Users, <<l, a>> \in solid'
  PROVE  LinkOK(l, a)'
<1> USE DEF TicketInv
<1> DEFINE Goal == LinkOK(l, a)'
<1>1. ASSUME NEW r \in Requests, NEW t \in Tokens, Callback(r, t) PROVE Goal
  <2>1. LinkOK(l, a) /\ UNCHANGED rows
    BY <1>1 DEF Callback, hist, LinkInv
  <2>2. PICK q : q = [Idle EXCEPT !.pc = "del", !.op = tok[t].kind, !.t = t]
    OBVIOUS
  <2>3. q \in RequestStates
    BY <1>1, <2>2, IdleFits, WeComAssumption DEF Callback, RequestStates, Idle, TokensOK
  <2>4. Begin(r, q)
    BY <1>1, <2>2 DEF Callback
  <2>5. LinkFits(q, l, a)
    BY <2>1, <2>2, WeComAssumption DEF LinkFits, Moving, Cutting, Decided, Idle
  <2> QED
    BY <2>1, <2>3, <2>4, <2>5, LinkBegun
<1>2. ASSUME NEW r \in Requests, CallbackFixed(r) PROVE Goal
  <2>1. LinkOK(l, a) /\ UNCHANGED rows
    BY <1>2 DEF CallbackFixed, hist, LinkInv
  <2>2. PICK q : q = [Idle EXCEPT !.pc = "code", !.op = "login"]
    OBVIOUS
  <2>3. q \in RequestStates
    BY <1>2, <2>2, IdleFits, WeComAssumption
       DEF CallbackFixed, RequestStates, Idle, TokensOK
  <2>4. Begin(r, q)
    BY <1>2, <2>2 DEF CallbackFixed
  <2>5. LinkFits(q, l, a)
    BY <2>1, <2>2, WeComAssumption DEF LinkFits, Moving, Cutting, Decided, Idle
  <2> QED
    BY <2>1, <2>3, <2>4, <2>5, LinkBegun
<1>3. ASSUME NEW r \in Requests, NEW u \in Users, NEW i \in Ids, StartBind(r, u, i)
      PROVE  Goal
  <2>1. LinkOK(l, a) /\ UNCHANGED rows /\ l # i /\ a # u
    BY <1>3 DEF StartBind, LinkInv
  <2>2. PICK q : q = [Idle EXCEPT !.pc = "release", !.op = "put", !.id = i, !.u = u]
    OBVIOUS
  <2>3. q \in RequestStates
    BY <1>3, <2>2, IdleFits, WeComAssumption DEF StartBind, RequestStates, Idle, TokensOK
  <2>4. Begin(r, q)
    BY <1>3, <2>2 DEF StartBind
  <2>5. LinkFits(q, l, a)
    BY <2>1, <2>2, WeComAssumption DEF LinkFits, Moving, Cutting, Decided, Idle
  <2> QED
    BY <2>1, <2>3, <2>4, <2>5, LinkBegun
<1>4. ASSUME NEW r \in Requests, NEW u \in Users, StartUnbind(r, u) PROVE Goal
  <2>1. LinkOK(l, a) /\ UNCHANGED rows /\ a # u
    BY <1>4 DEF StartUnbind, LinkInv
  <2>2. PICK q : q = [Idle EXCEPT !.pc = "unlink", !.op = "cut", !.u = u]
    OBVIOUS
  <2>3. q \in RequestStates
    BY <1>4, <2>2, IdleFits, WeComAssumption DEF StartUnbind, RequestStates, Idle, TokensOK
  <2>4. Begin(r, q)
    BY <1>4, <2>2 DEF StartUnbind
  <2>5. LinkFits(q, l, a)
    BY <2>1, <2>2, WeComAssumption DEF LinkFits, Moving, Cutting, Decided, Idle
  <2> QED
    BY <2>1, <2>3, <2>4, <2>5, LinkBegun
<1>5. ASSUME NEW r \in Requests, NEW u \in Users, ForgotPassword(r, u) PROVE Goal
  <2>1. LinkOK(l, a) /\ UNCHANGED rows
    BY <1>5 DEF ForgotPassword, hist, LinkInv
  <2>2. PICK q : q = [Idle EXCEPT !.pc = "send", !.op = "forgot", !.u = u]
    OBVIOUS
  <2>3. q \in RequestStates
    BY <1>5, <2>2, IdleFits, WeComAssumption
       DEF ForgotPassword, RequestStates, Idle, TokensOK
  <2>4. Begin(r, q)
    BY <1>5, <2>2 DEF ForgotPassword
  <2>5. LinkFits(q, l, a)
    BY <2>1, <2>2, WeComAssumption DEF LinkFits, Moving, Cutting, Decided, Idle
  <2> QED
    BY <2>1, <2>3, <2>4, <2>5, LinkBegun
<1>6. ASSUME NEW r \in Requests, NEW t \in Tokens, ResetPassword(r, t) PROVE Goal
  <2>1. LinkOK(l, a) /\ UNCHANGED rows
    BY <1>6 DEF ResetPassword, hist, LinkInv
  <2>2. PICK q : q = [Idle EXCEPT !.pc = "tread", !.op = "reset", !.t = t, !.u = tok[t].u]
    OBVIOUS
  <2>3. q \in RequestStates
    BY <1>6, <2>2, IdleFits, WeComAssumption
       DEF ResetPassword, RequestStates, Idle, TokensOK
  <2>4. Begin(r, q)
    BY <1>6, <2>2 DEF ResetPassword
  <2>5. LinkFits(q, l, a)
    BY <2>1, <2>2, WeComAssumption DEF LinkFits, Moving, Cutting, Decided, Idle
  <2> QED
    BY <2>1, <2>3, <2>4, <2>5, LinkBegun
<1>7. ASSUME NEW r \in Requests, NEW t \in Tokens, Present(r, t) PROVE Goal
  <2>1. LinkOK(l, a) /\ UNCHANGED rows
    BY <1>7 DEF Present, hist, LinkInv
  <2>2. PICK q : q = [Idle EXCEPT !.pc = "del", !.op = tok[t].kind, !.t = t]
    OBVIOUS
  <2>3. q \in RequestStates
    BY <1>7, <2>2, IdleFits, WeComAssumption DEF Present, RequestStates, Idle, TokensOK
  <2>4. Begin(r, q)
    BY <1>7, <2>2 DEF Present
  <2>5. LinkFits(q, l, a)
    BY <2>1, <2>2, WeComAssumption DEF LinkFits, Moving, Cutting, Decided, Idle
  <2> QED
    BY <2>1, <2>3, <2>4, <2>5, LinkBegun
<1>8. ASSUME NEW r \in Requests, ConsumeState(r) PROVE Goal
  <2>1. LinkOK(l, a)
    BY <1>8 DEF ConsumeState, LinkInv, hist
  <2>2. binding'[l] = a /\ user'[a].on
    BY <1>8, <2>1 DEF ConsumeState, rows, LinkOK
  <2>3. \A p \in Requests \ {r} : req'[p] = req[p]
    BY <1>8 DEF ConsumeState, Goto, End, Holding, ReqsOK
  <2>4. LinkFits(req'[r], l, a)
    BY <1>8, <2>1, IdleFitsLinks
       DEF ConsumeState, At, Goto, End, Holding, ReqsOK, ReqOK, Searching, RequestStates,
           LinkOK, LinkFits, Moving, Cutting, Decided
  <2> QED
    BY <2>1, <2>2, <2>3, <2>4, LinkKept
<1>9. ASSUME NEW r \in Requests, Abandon(r) PROVE Goal
  <2>1. LinkOK(l, a)
    BY <1>9 DEF Abandon, LinkInv, hist
  <2>2. binding'[l] = a /\ user'[a].on
    BY <1>9, <2>1 DEF Abandon, rows, LinkOK
  <2>3. \A p \in Requests \ {r} : req'[p] = req[p]
    BY <1>9 DEF Abandon, Goto, End, Holding, ReqsOK
  <2>4. LinkFits(req'[r], l, a)
    BY <1>9, <2>1, IdleFitsLinks
       DEF Abandon, At, Goto, End, Holding, ReqsOK, ReqOK, Searching, RequestStates,
           LinkOK, LinkFits, Moving, Cutting, Decided
  <2> QED
    BY <2>1, <2>2, <2>3, <2>4, LinkKept
<1>10. ASSUME NEW r \in Requests, NEW i \in Ids, NEW detail \in BOOLEAN, ResolveCode(r, i,
              detail)
       PROVE  Goal
  <2>1. LinkOK(l, a)
    BY <1>10 DEF ResolveCode, LinkInv, hist
  <2>2. binding'[l] = a /\ user'[a].on
    BY <1>10, <2>1 DEF ResolveCode, rows, LinkOK
  <2>3. \A p \in Requests \ {r} : req'[p] = req[p]
    BY <1>10 DEF ResolveCode, Goto, End, Holding, ReqsOK
  <2>4. LinkFits(req'[r], l, a)
    BY <1>10, <2>1, IdleFitsLinks
       DEF ResolveCode, At, Goto, End, Holding, ReqsOK, ReqOK, Searching, RequestStates,
           LinkOK, LinkFits, Moving, Cutting, Decided
  <2> QED
    BY <2>1, <2>2, <2>3, <2>4, LinkKept
<1>11. ASSUME NEW r \in Requests, NEW i \in Ids, NEW u \in Users, ResolveBind(r, i, u)
       PROVE  Goal
  <2>1. LinkOK(l, a) /\ l # i /\ a # u
    BY <1>11 DEF ResolveBind, LinkInv, hist
  <2>2. binding'[l] = a /\ user'[a].on
    BY <1>11, <2>1 DEF ResolveBind, rows, LinkOK
  <2>3. \A p \in Requests \ {r} : req'[p] = req[p]
    BY <1>11 DEF ResolveBind, Goto, End, Holding, ReqsOK
  <2>4. LinkFits(req'[r], l, a)
    BY <1>11, <2>1, IdleFitsLinks
       DEF ResolveBind, At, Goto, End, Holding, ReqsOK, ReqOK, Searching, RequestStates,
           LinkOK, LinkFits, Moving, Cutting, Decided
  <2> QED
    BY <2>1, <2>2, <2>3, <2>4, LinkKept
<1>12. ASSUME NEW r \in Requests, FindBinding(r) PROVE Goal
  <2>1. LinkOK(l, a)
    BY <1>12 DEF FindBinding, LinkInv, hist
  <2>2. binding'[l] = a /\ user'[a].on
    BY <1>12, <2>1 DEF FindBinding, rows, LinkOK
  <2>3. \A p \in Requests \ {r} : req'[p] = req[p]
    BY <1>12 DEF FindBinding, Goto, Holding, ReqsOK
  <2>4. req[r].op = "login" /\ req[r].id \in Ids
    BY <1>12 DEF FindBinding, At, ReqsOK, ReqOK, Searching
  <2>5. /\ req'[r].op = req[r].op /\ req'[r].id = req[r].id
        /\ \/ req'[r].pc = "domain" /\ binding[req[r].id] = NoUser
           \/ req'[r].pc = "load" /\ req'[r].u = binding[req[r].id]
    BY <1>12 DEF FindBinding, Goto, Holding, ReqsOK, RequestStates
  <2>6. LinkFits(req'[r], l, a)
    BY <2>1, <2>4, <2>5, WeComAssumption DEF LinkOK, LinkFits, Moving, Cutting, Decided
  <2> QED
    BY <2>1, <2>2, <2>3, <2>6, LinkKept
<1>13. ASSUME NEW r \in Requests, LoadBound(r) PROVE Goal
  <2>1. LinkOK(l, a)
    BY <1>13 DEF LoadBound, LinkInv, hist
  <2>2. binding'[l] = a /\ user'[a].on
    BY <1>13, <2>1 DEF LoadBound, rows, LinkOK
  <2>3. \A p \in Requests \ {r} : req'[p] = req[p]
    BY <1>13 DEF LoadBound, Goto, End, Holding, ReqsOK
  <2>4. LinkFits(req'[r], l, a)
    BY <1>13, <2>1, IdleFitsLinks
       DEF LoadBound, At, Goto, End, Holding, ReqsOK, ReqOK, Searching, RequestStates,
           LinkOK, LinkFits, Moving, Cutting, Decided
  <2> QED
    BY <2>1, <2>2, <2>3, <2>4, LinkKept
<1>14. ASSUME NEW r \in Requests, FindDomain(r) PROVE Goal
  <2>1. LinkOK(l, a)
    BY <1>14 DEF FindDomain, LinkInv, hist
  <2>2. binding'[l] = a /\ user'[a].on
    BY <1>14, <2>1 DEF FindDomain, rows, LinkOK
  <2>p. req[r].op = "login" /\ req[r].id # l
    BY <1>14, <2>1 DEF FindDomain, At, LinkOK, LinkFits, ReqsOK, ReqOK, Searching
  <2>3. ASSUME NEW u, NEW row, NEW via, Holding(r, "apply", u, row, via) PROVE Goal
    <3>1. (\A p \in Requests \ {r} : req'[p] = req[p]) /\ LinkFits(req'[r], l, a)
      BY <2>p, <2>3 DEF Holding, ReqsOK, RequestStates, LinkFits, Moving, Cutting, Decided
    <3> QED
      BY <2>1, <2>2, <3>1, LinkKept
  <2>4. ASSUME NEW pc, Goto(r, pc) PROVE Goal
    <3>1. (\A p \in Requests \ {r} : req'[p] = req[p]) /\ LinkFits(req'[r], l, a)
      BY <2>p, <2>4 DEF Goto, ReqsOK, RequestStates, LinkFits, Moving, Cutting, Decided
    <3> QED
      BY <2>1, <2>2, <3>1, LinkKept
  <2>5. ASSUME End(r) PROVE Goal
    <3>1. (\A p \in Requests \ {r} : req'[p] = req[p]) /\ req'[r] = Idle
      BY <2>5 DEF End, ReqsOK
    <3> QED
      BY <2>1, <2>2, <3>1, IdleFitsLinks, LinkKept
  <2> HIDE DEF Goal
  <2> QED
    BY <1>14, <2>3, <2>4, <2>5 DEF FindDomain
<1>15. ASSUME NEW r \in Requests, FindMail(r) PROVE Goal
  <2>1. LinkOK(l, a)
    BY <1>15 DEF FindMail, LinkInv, hist
  <2>2. binding'[l] = a /\ user'[a].on
    BY <1>15, <2>1 DEF FindMail, rows, LinkOK
  <2>p. req[r].op = "login" /\ req[r].id # l
    BY <1>15, <2>1 DEF FindMail, At, LinkOK, LinkFits, ReqsOK, ReqOK, Searching
  <2>3. ASSUME NEW u, NEW row, NEW via, Holding(r, "apply", u, row, via) PROVE Goal
    <3>1. (\A p \in Requests \ {r} : req'[p] = req[p]) /\ LinkFits(req'[r], l, a)
      BY <2>p, <2>3 DEF Holding, ReqsOK, RequestStates, LinkFits, Moving, Cutting, Decided
    <3> QED
      BY <2>1, <2>2, <3>1, LinkKept
  <2>4. ASSUME NEW pc, Goto(r, pc) PROVE Goal
    <3>1. (\A p \in Requests \ {r} : req'[p] = req[p]) /\ LinkFits(req'[r], l, a)
      BY <2>p, <2>4 DEF Goto, ReqsOK, RequestStates, LinkFits, Moving, Cutting, Decided
    <3> QED
      BY <2>1, <2>2, <3>1, LinkKept
  <2>5. ASSUME End(r) PROVE Goal
    <3>1. (\A p \in Requests \ {r} : req'[p] = req[p]) /\ req'[r] = Idle
      BY <2>5 DEF End, ReqsOK
    <3> QED
      BY <2>1, <2>2, <3>1, IdleFitsLinks, LinkKept
  <2> HIDE DEF Goal
  <2> QED
    BY <1>15, <2>3, <2>4, <2>5 DEF FindMail
<1>16. ASSUME NEW r \in Requests, Depart(r) PROVE Goal
  <2>1. LinkOK(l, a)
    BY <1>16 DEF Depart, LinkInv, hist
  <2>2. binding'[l] = a /\ user'[a].on
    BY <1>16, <2>1, RowsStay DEF WritesUser, Depart, LinkOK
  <2>3. \A p \in Requests \ {r} : req'[p] = req[p]
    BY <1>16 DEF Depart, Goto, End, Holding, ReqsOK
  <2>4. LinkFits(req'[r], l, a)
    BY <1>16, <2>1, IdleFitsLinks
       DEF Depart, At, Goto, End, Holding, ReqsOK, ReqOK, Searching, RequestStates,
           LinkOK, LinkFits, Moving, Cutting, Decided
  <2> QED
    BY <2>1, <2>2, <2>3, <2>4, LinkKept
<1>17. ASSUME NEW r \in Requests, Stamp(r) PROVE Goal
  <2>1. LinkOK(l, a)
    BY <1>17 DEF Stamp, LinkInv, hist
  <2>2. binding'[l] = a /\ user'[a].on
    BY <1>17, <2>1, RowsStay DEF WritesUser, Stamp, LinkOK
  <2>3. \A p \in Requests \ {r} : req'[p] = req[p]
    BY <1>17 DEF Stamp, Goto, End, Holding, ReqsOK
  <2>4. LinkFits(req'[r], l, a)
    BY <1>17, <2>1, IdleFitsLinks
       DEF Stamp, At, Goto, End, Holding, ReqsOK, ReqOK, Searching, RequestStates,
           LinkOK, LinkFits, Moving, Cutting, Decided
  <2> QED
    BY <2>1, <2>2, <2>3, <2>4, LinkKept
<1>18. ASSUME NEW r \in Requests, TryName(r) PROVE Goal
  <2>1. LinkOK(l, a)
    BY <1>18 DEF TryName, LinkInv, hist
  <2>2. binding'[l] = a /\ user'[a].on
    BY <1>18, <2>1 DEF TryName, rows, LinkOK
  <2>3. \A p \in Requests \ {r} : req'[p] = req[p]
    BY <1>18 DEF TryName, Goto, End, Holding, ReqsOK
  <2>4. LinkFits(req'[r], l, a)
    BY <1>18, <2>1, IdleFitsLinks
       DEF TryName, At, Goto, End, Holding, ReqsOK, ReqOK, Searching, RequestStates,
           LinkOK, LinkFits, Moving, Cutting, Decided
  <2> QED
    BY <2>1, <2>2, <2>3, <2>4, LinkKept
<1>19. ASSUME NEW r \in Requests, NEW u \in Users, Create(r, u) PROVE Goal
  <2>1. LinkOK(l, a)
    BY <1>19 DEF Create, LinkInv, hist
  <2>2. binding'[l] = a /\ user'[a].on
    BY <1>19, <2>1, RowsStay DEF WritesUser, Create, LinkOK
  <2>3. \A p \in Requests \ {r} : req'[p] = req[p]
    BY <1>19 DEF Create, Goto, End, Holding, ReqsOK
  <2>4. LinkFits(req'[r], l, a)
    BY <1>19, <2>1, IdleFitsLinks
       DEF Create, At, Goto, End, Holding, ReqsOK, ReqOK, Searching, RequestStates,
           LinkOK, LinkFits, Moving, Cutting, Decided
  <2> QED
    BY <2>1, <2>2, <2>3, <2>4, LinkKept
<1>20. ASSUME NEW r \in Requests, Backfill(r) PROVE Goal
  <2>1. LinkOK(l, a)
    BY <1>20 DEF Backfill, LinkInv, hist
  <2>2. binding'[l] = a /\ user'[a].on
    BY <1>20, <2>1, RowsStay DEF WritesUser, Backfill, LinkOK
  <2>3. \A p \in Requests \ {r} : req'[p] = req[p]
    BY <1>20 DEF Backfill, Goto, End, Holding, ReqsOK
  <2>4. LinkFits(req'[r], l, a)
    BY <1>20, <2>1, IdleFitsLinks
       DEF Backfill, At, Goto, End, Holding, ReqsOK, ReqOK, Searching, RequestStates,
           LinkOK, LinkFits, Moving, Cutting, Decided
  <2> QED
    BY <2>1, <2>2, <2>3, <2>4, LinkKept
<1>21. ASSUME NEW r \in Requests, Refuse(r) PROVE Goal
  <2>1. LinkOK(l, a)
    BY <1>21 DEF Refuse, LinkInv, hist
  <2>2. binding'[l] = a /\ user'[a].on
    BY <1>21, <2>1 DEF Refuse, rows, LinkOK
  <2>3. \A p \in Requests \ {r} : req'[p] = req[p]
    BY <1>21 DEF Refuse, Goto, End, Holding, ReqsOK
  <2>4. LinkFits(req'[r], l, a)
    BY <1>21, <2>1, IdleFitsLinks
       DEF Refuse, At, Goto, End, Holding, ReqsOK, ReqOK, Searching, RequestStates,
           LinkOK, LinkFits, Moving, Cutting, Decided
  <2> QED
    BY <2>1, <2>2, <2>3, <2>4, LinkKept
<1>22. ASSUME NEW r \in Requests, Enter(r) PROVE Goal
  <2>1. LinkOK(l, a)
    BY <1>22 DEF Enter, LinkInv, hist
  <2>2. binding'[l] = a /\ user'[a].on
    BY <1>22, <2>1 DEF Enter, rows, LinkOK
  <2>3. \A p \in Requests \ {r} : req'[p] = req[p]
    BY <1>22 DEF Enter, Goto, End, Holding, ReqsOK
  <2>4. LinkFits(req'[r], l, a)
    BY <1>22, <2>1, IdleFitsLinks
       DEF Enter, At, Goto, End, Holding, ReqsOK, ReqOK, Searching, RequestStates,
           LinkOK, LinkFits, Moving, Cutting, Decided
  <2> QED
    BY <2>1, <2>2, <2>3, <2>4, LinkKept
<1>23. ASSUME NEW r \in Requests, UpsertRead(r) PROVE Goal
  <2>1. LinkOK(l, a)
    BY <1>23 DEF UpsertRead, LinkInv, hist
  <2>2. binding'[l] = a /\ user'[a].on
    BY <1>23, <2>1 DEF UpsertRead, rows, LinkOK
  <2>3. \A p \in Requests \ {r} : req'[p] = req[p]
    BY <1>23 DEF UpsertRead, Goto, End, Holding, ReqsOK
  <2>4. LinkFits(req'[r], l, a)
    BY <1>23, <2>1, IdleFitsLinks
       DEF UpsertRead, At, Goto, End, Holding, ReqsOK, ReqOK, Searching, RequestStates,
           LinkOK, LinkFits, Moving, Cutting, Decided
  <2> QED
    BY <2>1, <2>2, <2>3, <2>4, LinkKept
<1>24. ASSUME NEW r \in Requests, UpsertWrite(r) PROVE Goal
  <2>1. LinkOK(l, a)
    BY <1>24 DEF UpsertWrite, LinkInv, hist
  <2>2. binding'[l] = a /\ user'[a].on
    BY <1>24, <2>1
       DEF UpsertWrite, LinkOK, LinkFits, Moving, Cutting, Decided, At, ReqsOK, ReqOK,
           WorldOK
  <2>3. \A p \in Requests \ {r} : req'[p] = req[p]
    BY <1>24 DEF UpsertWrite, Goto, End, Holding, ReqsOK
  <2>4. LinkFits(req'[r], l, a)
    BY <1>24, <2>1, IdleFitsLinks
       DEF UpsertWrite, At, Goto, End, Holding, ReqsOK, ReqOK, Searching, RequestStates,
           LinkOK, LinkFits, Moving, Cutting, Decided
  <2> QED
    BY <2>1, <2>2, <2>3, <2>4, LinkKept
<1>25. ASSUME NEW r \in Requests, Release(r) PROVE Goal
  <2>1. LinkOK(l, a)
    BY <1>25 DEF Release, LinkInv, hist
  <2>2. binding'[l] = a /\ user'[a].on
    BY <1>25, <2>1
       DEF Release, LinkOK, LinkFits, Moving, Cutting, Decided, At, ReqsOK, ReqOK, WorldOK
  <2>3. \A p \in Requests \ {r} : req'[p] = req[p]
    BY <1>25 DEF Release, Goto, End, Holding, ReqsOK
  <2>4. LinkFits(req'[r], l, a)
    BY <1>25, <2>1, IdleFitsLinks
       DEF Release, At, Goto, End, Holding, ReqsOK, ReqOK, Searching, RequestStates,
           LinkOK, LinkFits, Moving, Cutting, Decided
  <2> QED
    BY <2>1, <2>2, <2>3, <2>4, LinkKept
<1>26. ASSUME NEW r \in Requests, Unlink(r) PROVE Goal
  <2>1. LinkOK(l, a)
    BY <1>26 DEF Unlink, LinkInv, hist
  <2>2. binding'[l] = a /\ user'[a].on
    BY <1>26, <2>1
       DEF Unlink, LinkOK, LinkFits, Moving, Cutting, Decided, At, ReqsOK, ReqOK, WorldOK
  <2>3. \A p \in Requests \ {r} : req'[p] = req[p]
    BY <1>26 DEF Unlink, Goto, End, Holding, ReqsOK
  <2>4. LinkFits(req'[r], l, a)
    BY <1>26, <2>1, IdleFitsLinks
       DEF Unlink, At, Goto, End, Holding, ReqsOK, ReqOK, Searching, RequestStates,
           LinkOK, LinkFits, Moving, Cutting, Decided
  <2> QED
    BY <2>1, <2>2, <2>3, <2>4, LinkKept
<1>27. ASSUME NEW r \in Requests, ReadOwner(r) PROVE Goal
  <2>1. LinkOK(l, a)
    BY <1>27 DEF ReadOwner, LinkInv, hist
  <2>2. binding'[l] = a /\ user'[a].on
    BY <1>27, <2>1 DEF ReadOwner, rows, LinkOK
  <2>3. \A p \in Requests \ {r} : req'[p] = req[p]
    BY <1>27 DEF ReadOwner, Goto, End, Holding, ReqsOK
  <2>4. LinkFits(req'[r], l, a)
    BY <1>27, <2>1, IdleFitsLinks
       DEF ReadOwner, At, Goto, End, Holding, ReqsOK, ReqOK, Searching, RequestStates,
           LinkOK, LinkFits, Moving, Cutting, Decided
  <2> QED
    BY <2>1, <2>2, <2>3, <2>4, LinkKept
<1>28. ASSUME NEW r \in Requests, WriteOwner(r) PROVE Goal
  <2>1. /\ \A p \in Requests \ {r} : req'[p] = req[p]
        /\ req'[r] = Idle /\ binding' = binding
    BY <1>28 DEF WriteOwner, End, ReqsOK
  <2>2. LinkFits(req'[r], l, a)
    BY <2>1, IdleFitsLinks
  <2>3. CASE <<l, a>> \in solid
    <3>1. LinkOK(l, a)
      BY <2>3 DEF LinkInv
    <3>2. user'[a].on /\ binding'[l] = a
      BY <1>28, <2>1, <3>1, RowsStay DEF WritesUser, LinkOK
    <3> QED
      BY <2>1, <2>2, <3>1, <3>2, LinkKept
  <2>4. CASE <<l, a>> \notin solid
    <3>1. req[r].solo /\ req[r].op # "cut" /\ l = req[r].id /\ a = req[r].u
      BY <1>28, <2>4 DEF WriteOwner
    <3>2. req[r].pc = "write" /\ SoloOK(r)
      BY <1>28 DEF WriteOwner, At, LinkInv
    <3>3. binding[l] = a /\ ~Clashes(a, req[r].row)
      BY <3>1, <3>2 DEF SoloOK
    <3>4. ~Clashes(a, SetDomain(r)) /\ SetDomain(r) \in Rows /\ SetDomain(r).on
      BY <3>1, <3>2, <3>3, AtHand, DomainFits DEF Clashes, SetDomain, Rows
    <3>5. user'[a].on
      BY <1>28, <3>1, <3>4, SavedRow DEF WriteOwner
    <3>6. \A p \in Requests \ {r} : req[p].pc = "idle"
      BY <3>1, <3>2 DEF SoloOK, Alone
    <3>7. \A p \in Requests \ {r} : LinkFits(req'[p], l, a)
      BY <2>1, <3>6 DEF LinkFits, Moving, Cutting, ReqsOK, ReqOK
    <3> QED
      BY <2>1, <2>2, <3>3, <3>5, <3>7 DEF LinkOK
  <2> QED
    BY <2>3, <2>4
<1>29. ASSUME NEW r \in Requests, NEW t \in Tokens, SendResetMail(r, t) PROVE Goal
  <2>1. LinkOK(l, a)
    BY <1>29 DEF SendResetMail, LinkInv, hist
  <2>2. binding'[l] = a /\ user'[a].on
    BY <1>29, <2>1 DEF SendResetMail, rows, LinkOK
  <2>3. \A p \in Requests \ {r} : req'[p] = req[p]
    BY <1>29 DEF SendResetMail, Goto, End, Holding, ReqsOK
  <2>4. LinkFits(req'[r], l, a)
    BY <1>29, <2>1, IdleFitsLinks
       DEF SendResetMail, At, Goto, End, Holding, ReqsOK, ReqOK, Searching, RequestStates,
           LinkOK, LinkFits, Moving, Cutting, Decided
  <2> QED
    BY <2>1, <2>2, <2>3, <2>4, LinkKept
<1>30. ASSUME NEW r \in Requests, ResetRead(r) PROVE Goal
  <2>1. LinkOK(l, a)
    BY <1>30 DEF ResetRead, LinkInv, hist
  <2>2. binding'[l] = a /\ user'[a].on
    BY <1>30, <2>1 DEF ResetRead, rows, LinkOK
  <2>3. \A p \in Requests \ {r} : req'[p] = req[p]
    BY <1>30 DEF ResetRead, Goto, End, Holding, ReqsOK
  <2>4. LinkFits(req'[r], l, a)
    BY <1>30, <2>1, IdleFitsLinks
       DEF ResetRead, At, Goto, End, Holding, ReqsOK, ReqOK, Searching, RequestStates,
           LinkOK, LinkFits, Moving, Cutting, Decided
  <2> QED
    BY <2>1, <2>2, <2>3, <2>4, LinkKept
<1>31. ASSUME NEW r \in Requests, ResetSave(r) PROVE Goal
  <2>1. LinkOK(l, a)
    BY <1>31 DEF ResetSave, LinkInv, hist
  <2>2. binding'[l] = a /\ user'[a].on
    BY <1>31, <2>1, RowsStay DEF WritesUser, ResetSave, LinkOK
  <2>3. \A p \in Requests \ {r} : req'[p] = req[p]
    BY <1>31 DEF ResetSave, Goto, End, Holding, ReqsOK
  <2>4. LinkFits(req'[r], l, a)
    BY <1>31, <2>1, IdleFitsLinks
       DEF ResetSave, At, Goto, End, Holding, ReqsOK, ReqOK, Searching, RequestStates,
           LinkOK, LinkFits, Moving, Cutting, Decided
  <2> QED
    BY <2>1, <2>2, <2>3, <2>4, LinkKept
<1>32. ASSUME NEW r \in Requests, DeleteToken(r) PROVE Goal
  <2>1. LinkOK(l, a)
    BY <1>32 DEF DeleteToken, LinkInv, hist
  <2>2. binding'[l] = a /\ user'[a].on
    BY <1>32, <2>1 DEF DeleteToken, rows, LinkOK
  <2>3. \A p \in Requests \ {r} : req'[p] = req[p]
    BY <1>32 DEF DeleteToken, Goto, End, Holding, ReqsOK
  <2>4. LinkFits(req'[r], l, a)
    BY <1>32, <2>1, IdleFitsLinks
       DEF DeleteToken, At, Goto, End, Holding, ReqsOK, ReqOK, Searching, RequestStates,
           LinkOK, LinkFits, Moving, Cutting, Decided
  <2> QED
    BY <2>1, <2>2, <2>3, <2>4, LinkKept
<1>33. ASSUME NEW r \in Requests, NEW t \in Tokens, Solved(r, t) PROVE Goal
  <2>1. LinkOK(l, a)
    BY <1>33 DEF Solved, LinkInv, hist
  <2>2. binding'[l] = a /\ user'[a].on
    BY <1>33, <2>1 DEF Solved, rows, LinkOK
  <2>3. \A p \in Requests \ {r} : req'[p] = req[p]
    BY <1>33 DEF Solved, Goto, End, Holding, ReqsOK
  <2>4. LinkFits(req'[r], l, a)
    BY <1>33, <2>1, IdleFitsLinks
       DEF Solved, At, Goto, End, Holding, ReqsOK, ReqOK, Searching, RequestStates,
           LinkOK, LinkFits, Moving, Cutting, Decided
  <2> QED
    BY <2>1, <2>2, <2>3, <2>4, LinkKept
<1>34. ASSUME NEW r \in Requests, Unsolved(r) PROVE Goal
  <2>1. LinkOK(l, a)
    BY <1>34 DEF Unsolved, LinkInv, hist
  <2>2. binding'[l] = a /\ user'[a].on
    BY <1>34, <2>1 DEF Unsolved, rows, LinkOK
  <2>3. \A p \in Requests \ {r} : req'[p] = req[p]
    BY <1>34 DEF Unsolved, Goto, End, Holding, ReqsOK
  <2>4. LinkFits(req'[r], l, a)
    BY <1>34, <2>1, IdleFitsLinks
       DEF Unsolved, At, Goto, End, Holding, ReqsOK, ReqOK, Searching, RequestStates,
           LinkOK, LinkFits, Moving, Cutting, Decided
  <2> QED
    BY <2>1, <2>2, <2>3, <2>4, LinkKept
<1>35. ASSUME NEW r \in Requests, Answer(r) PROVE Goal
  <2>1. LinkOK(l, a)
    BY <1>35 DEF Answer, LinkInv, hist
  <2>2. binding'[l] = a /\ user'[a].on
    BY <1>35, <2>1 DEF Answer, rows, LinkOK
  <2>3. \A p \in Requests \ {r} : req'[p] = req[p]
    BY <1>35 DEF Answer, Goto, End, Holding, ReqsOK
  <2>4. LinkFits(req'[r], l, a)
    BY <1>35, <2>1, IdleFitsLinks
       DEF Answer, At, Goto, End, Holding, ReqsOK, ReqOK, Searching, RequestStates,
           LinkOK, LinkFits, Moving, Cutting, Decided
  <2> QED
    BY <2>1, <2>2, <2>3, <2>4, LinkKept
<1>36. ASSUME NEW u \in Users, Bar(u) PROVE Goal
  <2>1. LinkOK(l, a) /\ UNCHANGED <<req, binding>>
    BY <1>36 DEF Bar, LinkInv, hist
  <2>2. user'[a].on = user[a].on
    BY <1>36, UserRow DEF Bar, WorldOK, Rows
  <2> QED
    BY <2>1, <2>2 DEF LinkOK
<1>37. ASSUME NEW u \in Users, DeleteUser(u) PROVE Goal
  <2>1. LinkOK(l, a) /\ a # u /\ UNCHANGED <<req, binding>>
    BY <1>37 DEF DeleteUser, LinkInv
  <2>2. user'[a] = user[a]
    BY <1>37, <2>1 DEF DeleteUser
  <2> QED
    BY <2>1, <2>2 DEF LinkOK
<1>38. ASSUME NEW p \in BOOLEAN, Crash(p) PROVE Goal
  <2>1. LinkOK(l, a)
    BY <1>38 DEF Crash, LinkInv, hist
  <2> QED
    BY <1>38, <2>1, IdleFitsLinks DEF Crash, LinkOK, rows
<1>39. ASSUME QuietStep PROVE Goal
  BY <1>39, QuietRows DEF LinkInv, LinkOK
<1> HIDE DEF Goal
<1>a. Goal
  BY <1>1, <1>2, <1>3, <1>4, <1>5, <1>6, <1>7, <1>8, <1>9, <1>10, <1>11, <1>12, <1>13,
     <1>14, <1>15, <1>16, <1>17, <1>18, <1>19, <1>20, <1>21, <1>22, <1>23, <1>24, <1>25,
     <1>26, <1>27, <1>28, <1>29, <1>30, <1>31, <1>32, <1>33, <1>34, <1>35, <1>36, <1>37,
     <1>38, <1>39
     DEF TicketNext, TicketStep, Next, Start, World, ScanStep, LinkStep, QuietStep
<1> QED
  BY <1>a DEF Goal

\* LinkInv holds at the start,
LEMMA LinkInit == Init => LinkInv
<1> SUFFICES ASSUME Init PROVE LinkInv
  OBVIOUS
<1>1. Unique
  BY RowsAssumption DEF Init, Unique, Clashes
<1> QED
  BY <1>1 DEF Init, LinkInv, SoloOK, Idle

\* after every step,
LEMMA LinkStepKeeps == TicketInv /\ LinkInv /\ [TicketNext]_vars => LinkInv'
BY UniqueStep, SoloStep, LinksStep DEF LinkInv

\* and so always.
LEMMA LinkInvHolds == TicketSpec => []LinkInv
BY LinkInit, LinkStepKeeps, TicketInvHolds, PTL DEF TicketSpec

\* A userid that was linked while nothing else was under way leads to that
\* account and to no other until somebody binds, unbinds or deletes it: the
\* binding table is asked first, and every other writer of it is known
\* (FindOrCreateUser, BindWeCom, upsertUserBinding).
THEOREM LinksLeadHome == TicketSpec => []LinkedGoesHome
<1>1. TicketInv /\ LinkInv => LinkedGoesHome
  BY DEF TicketInv, WorldOK, LinkInv, LinkOK, LinkFits, Decided, LinkedGoesHome
<1> QED
  BY <1>1, TicketInvHolds, LinkInvHolds, PTL

-----------------------------------------------------------------------------
(* Keys and the accounts made for members *)

\* No step forgets whom an account was made for, or who was moved.
LEMMA OriginGrows ==
  ASSUME TicketInv, [TicketNext]_vars
  PROVE  /\ \A a \in Users : origin'[a] = NoId => origin[a] = NoId
         /\ shaky \subseteq shaky'
<1> USE DEF TicketInv
<1>1. ASSUME NEW r \in Requests, NEW u \in Users, Create(r, u)
      PROVE  /\ \A a \in Users : origin'[a] = NoId => origin[a] = NoId
             /\ shaky' = shaky
  BY <1>1, WeComAssumption DEF Create, ReqsOK, ReqOK, Searching, At, WorldOK
<1>2. ASSUME Start PROVE origin' = origin /\ shaky \subseteq shaky'
  BY <1>2 DEF Start, IssueState, CallbackFixed, Callback, StartBind, StartUnbind, hist
<1>3. ASSUME NEW r \in Requests, ScanStep(r), \A u \in Users : ~Create(r, u)
      PROVE  origin' = origin /\ shaky \subseteq shaky'
  BY <1>3 DEF ScanStep, ConsumeState, Abandon, ResolveCode, ResolveBind, Company,
     FindBinding, LoadBound, FindDomain, FindMail, Depart, Stamp, TryName, Backfill,
     Refuse, Enter, hist
<1>4. ASSUME NEW r \in Requests, LinkStep(r) PROVE UNCHANGED <<origin, shaky>>
  BY <1>4 DEF LinkStep, UpsertRead, UpsertWrite, Release, Unlink, ReadOwner,
     WriteOwner, hist
<1>5. ASSUME NEW r \in Requests, TicketStep(r) PROVE UNCHANGED <<origin, shaky>>
  BY <1>5 DEF TicketStep, ForgotPassword, SendResetMail, ResetPassword, Present,
     ResetRead, ResetSave, DeleteToken, Solved, Unsolved, Answer, hist
<1>6. ASSUME World PROVE origin' = origin /\ shaky \subseteq shaky'
  BY <1>6 DEF World, Bar, DeleteUser, Leave, Crash, Expire, hist
<1>7. ASSUME (\E t \in Tokens : Generate(t)) \/ UNCHANGED vars
      PROVE  UNCHANGED <<origin, shaky>>
  BY <1>7 DEF Generate, hist, vars
<1> QED
  BY <1>1, <1>2, <1>3, <1>4, <1>5, <1>6, <1>7 DEF TicketNext, Next, ScanStep

\* What MadeInv says of a key that no row has had.
LEMMA UnseenIsNobody ==
  ASSUME MadeInv, NEW a \in Users, Unseen(a)
  PROVE  /\ ~user[a].on
         /\ \A i \in Ids : binding[i] # a
         /\ \A r \in Requests : req[r].u # a
         /\ \A t \in Tokens : tok[t].kind = "reset" => tok[t].u # a
BY DEF MadeInv, UnseenOK

\* A key that no row has had stays unknown to tables, requests and tokens.
LEMMA UnseenStep ==
  ASSUME TicketInv, MadeInv, [TicketNext]_vars, NEW a \in Users, Unseen(a)'
  PROVE  UnseenOK(a)'
<1> USE DEF TicketInv
<1>0. Unseen(a)
  BY OriginGrows DEF Unseen
<1>f. /\ ~user[a].on
      /\ \A i \in Ids : binding[i] # a
      /\ \A r \in Requests : req[r].u # a
      /\ \A t \in Tokens : tok[t].kind = "reset" => tok[t].u # a
  BY <1>0, UnseenIsNobody
<1> DEFINE Goal ==
       /\ ~user'[a].on
       /\ \A i \in Ids : binding'[i] # a
       /\ \A r \in Requests : req'[r].u # a
       /\ \A t \in Tokens : tok'[t].kind = "reset" => tok'[t].u # a
<1>1. ASSUME NEW r \in Requests, NEW t \in Tokens, Callback(r, t) PROVE Goal
  <2>1. ~user'[a].on
    BY <1>1, <1>f DEF Callback, rows
  <2>2. binding' = binding
    BY <1>1 DEF Callback, rows
  <2>3. \A p \in Requests : req'[p].u # a
    BY <1>1, <1>f, WeComAssumption
       DEF Callback, Begin, Idle, ReqsOK, RequestStates
  <2>4. tok' = tok
    BY <1>1 DEF Callback
  <2> QED
    BY <1>f, <2>1, <2>2, <2>3, <2>4
<1>2. ASSUME NEW r \in Requests, CallbackFixed(r) PROVE Goal
  <2>1. ~user'[a].on
    BY <1>2, <1>f DEF CallbackFixed, rows
  <2>2. binding' = binding
    BY <1>2 DEF CallbackFixed, rows
  <2>3. \A p \in Requests : req'[p].u # a
    BY <1>2, <1>f, WeComAssumption
       DEF CallbackFixed, Begin, Idle, ReqsOK, RequestStates
  <2>4. tok' = tok
    BY <1>2 DEF CallbackFixed
  <2> QED
    BY <1>f, <2>1, <2>2, <2>3, <2>4
<1>3. ASSUME NEW r \in Requests, NEW u \in Users, NEW i \in Ids, StartBind(r, u, i)
      PROVE  Goal
  <2>1. ~user'[a].on
    BY <1>3, <1>f DEF StartBind, rows
  <2>2. binding' = binding
    BY <1>3 DEF StartBind, rows
  <2>3. \A p \in Requests : req'[p].u # a
    BY <1>3, <1>f, <1>0, WeComAssumption
       DEF StartBind, Begin, Idle, ReqsOK, RequestStates
  <2>4. tok' = tok
    BY <1>3 DEF StartBind
  <2> QED
    BY <1>f, <2>1, <2>2, <2>3, <2>4
<1>4. ASSUME NEW r \in Requests, NEW u \in Users, StartUnbind(r, u) PROVE Goal
  <2>1. ~user'[a].on
    BY <1>4, <1>f DEF StartUnbind, rows
  <2>2. binding' = binding
    BY <1>4 DEF StartUnbind, rows
  <2>3. \A p \in Requests : req'[p].u # a
    BY <1>4, <1>f, <1>0, WeComAssumption
       DEF StartUnbind, Begin, Idle, ReqsOK, RequestStates
  <2>4. tok' = tok
    BY <1>4 DEF StartUnbind
  <2> QED
    BY <1>f, <2>1, <2>2, <2>3, <2>4
<1>5. ASSUME NEW r \in Requests, NEW u \in Users, ForgotPassword(r, u) PROVE Goal
  <2>1. ~user'[a].on
    BY <1>5, <1>f DEF ForgotPassword, rows
  <2>2. binding' = binding
    BY <1>5 DEF ForgotPassword, rows
  <2>3. \A p \in Requests : req'[p].u # a
    BY <1>5, <1>f, WeComAssumption
       DEF ForgotPassword, Begin, Idle, ReqsOK, RequestStates
  <2>4. tok' = tok
    BY <1>5 DEF ForgotPassword
  <2> QED
    BY <1>f, <2>1, <2>2, <2>3, <2>4
<1>6. ASSUME NEW r \in Requests, NEW t \in Tokens, ResetPassword(r, t) PROVE Goal
  <2>1. ~user'[a].on
    BY <1>6, <1>f DEF ResetPassword, rows
  <2>2. binding' = binding
    BY <1>6 DEF ResetPassword, rows
  <2>3. \A p \in Requests : req'[p].u # a
    BY <1>6, <1>f, WeComAssumption
       DEF ResetPassword, Begin, Idle, ReqsOK, RequestStates
  <2>4. tok' = tok
    BY <1>6 DEF ResetPassword
  <2> QED
    BY <1>f, <2>1, <2>2, <2>3, <2>4
<1>7. ASSUME NEW r \in Requests, NEW t \in Tokens, Present(r, t) PROVE Goal
  <2>1. ~user'[a].on
    BY <1>7, <1>f DEF Present, rows
  <2>2. binding' = binding
    BY <1>7 DEF Present, rows
  <2>3. \A p \in Requests : req'[p].u # a
    BY <1>7, <1>f, WeComAssumption
       DEF Present, Begin, Idle, ReqsOK, RequestStates
  <2>4. tok' = tok
    BY <1>7 DEF Present
  <2> QED
    BY <1>f, <2>1, <2>2, <2>3, <2>4
<1>8. ASSUME NEW r \in Requests, ConsumeState(r) PROVE Goal
  <2>1. ~user'[a].on
    BY <1>8, <1>f DEF ConsumeState, rows
  <2>2. binding' = binding
    BY <1>8 DEF ConsumeState, rows
  <2>3. \A p \in Requests : req'[p].u # a
    BY <1>8, <1>f, WeComAssumption
       DEF ConsumeState, Goto, End, Holding, Idle, At, ReqsOK, ReqOK, Searching,
           RequestStates
  <2>4. \A x \in Tokens : tok'[x].kind = "reset" => tok'[x].u # a
    BY <1>8, <1>f DEF ConsumeState, Draw, DeadToken, TokensOK
  <2> QED
    BY <1>f, <2>1, <2>2, <2>3, <2>4
<1>9. ASSUME NEW r \in Requests, Abandon(r) PROVE Goal
  <2>1. ~user'[a].on
    BY <1>9, <1>f DEF Abandon, rows
  <2>2. binding' = binding
    BY <1>9 DEF Abandon, rows
  <2>3. \A p \in Requests : req'[p].u # a
    BY <1>9, <1>f, WeComAssumption
       DEF Abandon, Goto, End, Holding, Idle, At, ReqsOK, ReqOK, Searching, RequestStates
  <2>4. tok' = tok
    BY <1>9 DEF Abandon
  <2> QED
    BY <1>f, <2>1, <2>2, <2>3, <2>4
<1>10. ASSUME NEW r \in Requests, NEW i \in Ids, NEW detail \in BOOLEAN, ResolveCode(r, i,
              detail)
       PROVE  Goal
  <2>1. ~user'[a].on
    BY <1>10, <1>f DEF ResolveCode, rows
  <2>2. binding' = binding
    BY <1>10 DEF ResolveCode, rows
  <2>3. \A p \in Requests : req'[p].u # a
    BY <1>10, <1>f, WeComAssumption
       DEF ResolveCode, Goto, End, Holding, Idle, At, ReqsOK, ReqOK, Searching,
           RequestStates
  <2>4. tok' = tok
    BY <1>10 DEF ResolveCode
  <2> QED
    BY <1>f, <2>1, <2>2, <2>3, <2>4
<1>11. ASSUME NEW r \in Requests, NEW i \in Ids, NEW u \in Users, ResolveBind(r, i, u)
       PROVE  Goal
  <2>1. ~user'[a].on
    BY <1>11, <1>f DEF ResolveBind, rows
  <2>2. binding' = binding
    BY <1>11 DEF ResolveBind, rows
  <2>3. \A p \in Requests : req'[p].u # a
    BY <1>11, <1>f, <1>0 DEF ResolveBind, ReqsOK, RequestStates
  <2>4. tok' = tok
    BY <1>11 DEF ResolveBind
  <2> QED
    BY <1>f, <2>1, <2>2, <2>3, <2>4
<1>12. ASSUME NEW r \in Requests, FindBinding(r) PROVE Goal
  <2>1. ~user'[a].on
    BY <1>12, <1>f DEF FindBinding, rows
  <2>2. binding' = binding
    BY <1>12 DEF FindBinding, rows
  <2>3. \A p \in Requests : req'[p].u # a
    BY <1>12, <1>f, WeComAssumption
       DEF FindBinding, Goto, End, Holding, Idle, At, ReqsOK, ReqOK, Searching,
           RequestStates
  <2>4. tok' = tok
    BY <1>12 DEF FindBinding
  <2> QED
    BY <1>f, <2>1, <2>2, <2>3, <2>4
<1>13. ASSUME NEW r \in Requests, LoadBound(r) PROVE Goal
  <2>1. ~user'[a].on
    BY <1>13, <1>f DEF LoadBound, rows
  <2>2. binding' = binding
    BY <1>13 DEF LoadBound, rows
  <2>3. \A p \in Requests : req'[p].u # a
    BY <1>13, <1>f, WeComAssumption
       DEF LoadBound, Goto, End, Holding, Idle, At, ReqsOK, ReqOK, Searching, RequestStates
  <2>4. tok' = tok
    BY <1>13 DEF LoadBound
  <2> QED
    BY <1>f, <2>1, <2>2, <2>3, <2>4
<1>14. ASSUME NEW r \in Requests, FindDomain(r) PROVE Goal
  <2>1. ~user'[a].on
    BY <1>14, <1>f DEF FindDomain, rows
  <2>2. binding' = binding
    BY <1>14 DEF FindDomain, rows
  <2>3. \A p \in Requests : req'[p].u # a
    <3>1. ASSUME NEW u \in Users, user[u].on, NEW row, NEW via,
                 Holding(r, "apply", u, row, via)
          PROVE  \A p \in Requests : req'[p].u # a
      BY <1>f, <3>1 DEF Holding, ReqsOK, RequestStates
    <3>2. ASSUME NEW pc, Goto(r, pc) PROVE \A p \in Requests : req'[p].u # a
      BY <1>f, <3>2 DEF Goto, ReqsOK, RequestStates
    <3>3. ASSUME End(r) PROVE \A p \in Requests : req'[p].u # a
      BY <1>f, <3>3, WeComAssumption DEF End, Idle, ReqsOK
    <3> QED
      BY <1>14, <3>1, <3>2, <3>3 DEF FindDomain, WithDomain
  <2>4. tok' = tok
    BY <1>14 DEF FindDomain
  <2> QED
    BY <1>f, <2>1, <2>2, <2>3, <2>4
<1>15. ASSUME NEW r \in Requests, FindMail(r) PROVE Goal
  <2>1. ~user'[a].on
    BY <1>15, <1>f DEF FindMail, rows
  <2>2. binding' = binding
    BY <1>15 DEF FindMail, rows
  <2>3. \A p \in Requests : req'[p].u # a
    <3>1. ASSUME NEW u \in Users, user[u].on, NEW row, NEW via,
                 Holding(r, "apply", u, row, via)
          PROVE  \A p \in Requests : req'[p].u # a
      BY <1>f, <3>1 DEF Holding, ReqsOK, RequestStates
    <3>2. ASSUME NEW pc, Goto(r, pc) PROVE \A p \in Requests : req'[p].u # a
      BY <1>f, <3>2 DEF Goto, ReqsOK, RequestStates
    <3>3. ASSUME End(r) PROVE \A p \in Requests : req'[p].u # a
      BY <1>f, <3>3, WeComAssumption DEF End, Idle, ReqsOK
    <3> QED
      BY <1>15, <3>1, <3>2, <3>3 DEF FindMail, WithMail
  <2>4. tok' = tok
    BY <1>15 DEF FindMail
  <2> QED
    BY <1>f, <2>1, <2>2, <2>3, <2>4
<1>16. ASSUME NEW r \in Requests, Depart(r) PROVE Goal
  <2>1. ~user'[a].on
    <3>1. user' = user \/ \E row \in Rows : user' = Saved(req[r].u, row)
      BY <1>16, AtHand, BarredFits, DomainFits DEF Depart, Searching, At
    <3>2. req[r].u \in Users /\ req[r].u # a
      BY <1>16, <1>f, AtHand DEF Depart, At
    <3> QED
      BY <1>f, <3>1, <3>2, SavedRow
  <2>2. binding' = binding
    BY <1>16 DEF Depart, rows
  <2>3. \A p \in Requests : req'[p].u # a
    BY <1>16, <1>f, WeComAssumption
       DEF Depart, Goto, End, Holding, Idle, At, ReqsOK, ReqOK, Searching, RequestStates
  <2>4. tok' = tok
    BY <1>16 DEF Depart
  <2> QED
    BY <1>f, <2>1, <2>2, <2>3, <2>4
<1>17. ASSUME NEW r \in Requests, Stamp(r) PROVE Goal
  <2>1. ~user'[a].on
    <3>1. user' = user \/ \E row \in Rows : user' = Saved(req[r].u, row)
      BY <1>17, AtHand, BarredFits, DomainFits DEF Stamp, Searching, At, StampRow
    <3>2. req[r].u \in Users /\ req[r].u # a
      BY <1>17, <1>f, AtHand DEF Stamp, At
    <3> QED
      BY <1>f, <3>1, <3>2, SavedRow
  <2>2. binding' = binding
    BY <1>17 DEF Stamp, rows
  <2>3. \A p \in Requests : req'[p].u # a
    BY <1>17, <1>f, WeComAssumption
       DEF Stamp, Goto, End, Holding, Idle, At, ReqsOK, ReqOK, Searching, RequestStates
  <2>4. tok' = tok
    BY <1>17 DEF Stamp
  <2> QED
    BY <1>f, <2>1, <2>2, <2>3, <2>4
<1>18. ASSUME NEW r \in Requests, TryName(r) PROVE Goal
  <2>1. ~user'[a].on
    BY <1>18, <1>f DEF TryName, rows
  <2>2. binding' = binding
    BY <1>18 DEF TryName, rows
  <2>3. \A p \in Requests : req'[p].u # a
    BY <1>18, <1>f DEF TryName, Goto, ReqsOK, RequestStates
  <2>4. tok' = tok
    BY <1>18 DEF TryName
  <2> QED
    BY <1>f, <2>1, <2>2, <2>3, <2>4
<1>19. ASSUME NEW r \in Requests, NEW u \in Users, Create(r, u) PROVE Goal
  <2>o. origin'[a] = NoId /\ req[r].id \in Ids
    BY <1>19 DEF Unseen, Create, At, ReqsOK, ReqOK, Searching
  <2>u. u # a \/ (End(r) /\ user' = user)
    BY <1>19, <2>o, WeComAssumption DEF Create, WorldOK
  <2>1. ~user'[a].on
    BY <1>19, <1>f, <2>u DEF Create, WorldOK
  <2>2. binding' = binding
    BY <1>19 DEF Create, rows
  <2>3. \A p \in Requests : req'[p].u # a
    BY <1>19, <1>f, <2>u, WeComAssumption
       DEF Create, End, Holding, Idle, ReqsOK, RequestStates
  <2>4. tok' = tok
    BY <1>19 DEF Create
  <2> QED
    BY <1>f, <2>1, <2>2, <2>3, <2>4
<1>20. ASSUME NEW r \in Requests, Backfill(r) PROVE Goal
  <2>1. ~user'[a].on
    <3>1. user' = user \/ \E row \in Rows : user' = Saved(req[r].u, row)
      BY <1>20, AtHand, BarredFits, DomainFits DEF Backfill, Searching, At
    <3>2. req[r].u \in Users /\ req[r].u # a
      BY <1>20, <1>f, AtHand DEF Backfill, At
    <3> QED
      BY <1>f, <3>1, <3>2, SavedRow
  <2>2. binding' = binding
    BY <1>20 DEF Backfill, rows
  <2>3. \A p \in Requests : req'[p].u # a
    BY <1>20, <1>f, WeComAssumption
       DEF Backfill, Goto, End, Holding, Idle, At, ReqsOK, ReqOK, Searching, RequestStates
  <2>4. tok' = tok
    BY <1>20 DEF Backfill
  <2> QED
    BY <1>f, <2>1, <2>2, <2>3, <2>4
<1>21. ASSUME NEW r \in Requests, Refuse(r) PROVE Goal
  <2>1. ~user'[a].on
    BY <1>21, <1>f DEF Refuse, rows
  <2>2. binding' = binding
    BY <1>21 DEF Refuse, rows
  <2>3. \A p \in Requests : req'[p].u # a
    BY <1>21, <1>f, WeComAssumption
       DEF Refuse, Goto, End, Holding, Idle, At, ReqsOK, ReqOK, Searching, RequestStates
  <2>4. tok' = tok
    BY <1>21 DEF Refuse
  <2> QED
    BY <1>f, <2>1, <2>2, <2>3, <2>4
<1>22. ASSUME NEW r \in Requests, Enter(r) PROVE Goal
  <2>1. ~user'[a].on
    BY <1>22, <1>f DEF Enter, rows
  <2>2. binding' = binding
    BY <1>22 DEF Enter, rows
  <2>3. \A p \in Requests : req'[p].u # a
    BY <1>22, <1>f, WeComAssumption
       DEF Enter, Goto, End, Holding, Idle, At, ReqsOK, ReqOK, Searching, RequestStates
  <2>4. tok' = tok
    BY <1>22 DEF Enter
  <2> QED
    BY <1>f, <2>1, <2>2, <2>3, <2>4
<1>23. ASSUME NEW r \in Requests, UpsertRead(r) PROVE Goal
  <2>1. ~user'[a].on
    BY <1>23, <1>f DEF UpsertRead, rows
  <2>2. binding' = binding
    BY <1>23 DEF UpsertRead, rows
  <2>3. \A p \in Requests : req'[p].u # a
    BY <1>23, <1>f, WeComAssumption
       DEF UpsertRead, Goto, End, Holding, Idle, At, ReqsOK, ReqOK, Searching, RequestStates
  <2>4. tok' = tok
    BY <1>23 DEF UpsertRead
  <2> QED
    BY <1>f, <2>1, <2>2, <2>3, <2>4
<1>24. ASSUME NEW r \in Requests, UpsertWrite(r) PROVE Goal
  <2>1. ~user'[a].on
    BY <1>24, <1>f DEF UpsertWrite, rows
  <2>2. \A i \in Ids : binding'[i] # a
    BY <1>24, <1>f, WeComAssumption DEF UpsertWrite, WorldOK
  <2>3. \A p \in Requests : req'[p].u # a
    BY <1>24, <1>f, WeComAssumption
       DEF UpsertWrite, Goto, End, Holding, Idle, At, ReqsOK, ReqOK, Searching,
           RequestStates
  <2>4. tok' = tok
    BY <1>24 DEF UpsertWrite
  <2> QED
    BY <1>f, <2>1, <2>2, <2>3, <2>4
<1>25. ASSUME NEW r \in Requests, Release(r) PROVE Goal
  <2>1. ~user'[a].on
    BY <1>25, <1>f DEF Release, rows
  <2>2. \A i \in Ids : binding'[i] # a
    BY <1>25, <1>f, WeComAssumption DEF Release, WorldOK
  <2>3. \A p \in Requests : req'[p].u # a
    BY <1>25, <1>f, WeComAssumption
       DEF Release, Goto, End, Holding, Idle, At, ReqsOK, ReqOK, Searching, RequestStates
  <2>4. tok' = tok
    BY <1>25 DEF Release
  <2> QED
    BY <1>f, <2>1, <2>2, <2>3, <2>4
<1>26. ASSUME NEW r \in Requests, Unlink(r) PROVE Goal
  <2>1. ~user'[a].on
    BY <1>26, <1>f DEF Unlink, rows
  <2>2. \A i \in Ids : binding'[i] # a
    BY <1>26, <1>f, WeComAssumption DEF Unlink, WorldOK
  <2>3. \A p \in Requests : req'[p].u # a
    BY <1>26, <1>f, WeComAssumption
       DEF Unlink, Goto, End, Holding, Idle, At, ReqsOK, ReqOK, Searching, RequestStates
  <2>4. tok' = tok
    BY <1>26 DEF Unlink
  <2> QED
    BY <1>f, <2>1, <2>2, <2>3, <2>4
<1>27. ASSUME NEW r \in Requests, ReadOwner(r) PROVE Goal
  <2>1. ~user'[a].on
    BY <1>27, <1>f DEF ReadOwner, rows
  <2>2. binding' = binding
    BY <1>27 DEF ReadOwner, rows
  <2>3. \A p \in Requests : req'[p].u # a
    BY <1>27, <1>f, WeComAssumption
       DEF ReadOwner, Goto, End, Holding, Idle, At, ReqsOK, ReqOK, Searching, RequestStates
  <2>4. tok' = tok
    BY <1>27 DEF ReadOwner
  <2> QED
    BY <1>f, <2>1, <2>2, <2>3, <2>4
<1>28. ASSUME NEW r \in Requests, WriteOwner(r) PROVE Goal
  <2>1. ~user'[a].on
    <3>1. user' = user \/ \E row \in Rows : user' = Saved(req[r].u, row)
      BY <1>28, AtHand, BarredFits, DomainFits DEF WriteOwner, Searching, At, SetDomain
    <3>2. req[r].u \in Users /\ req[r].u # a
      BY <1>28, <1>f, AtHand DEF WriteOwner, At
    <3> QED
      BY <1>f, <3>1, <3>2, SavedRow
  <2>2. binding' = binding
    BY <1>28 DEF WriteOwner, rows
  <2>3. \A p \in Requests : req'[p].u # a
    BY <1>28, <1>f, WeComAssumption
       DEF WriteOwner, Goto, End, Holding, Idle, At, ReqsOK, ReqOK, Searching, RequestStates
  <2>4. tok' = tok
    BY <1>28 DEF WriteOwner
  <2> QED
    BY <1>f, <2>1, <2>2, <2>3, <2>4
<1>29. ASSUME NEW r \in Requests, NEW t \in Tokens, SendResetMail(r, t) PROVE Goal
  <2>1. ~user'[a].on
    BY <1>29, <1>f DEF SendResetMail, rows
  <2>2. binding' = binding
    BY <1>29 DEF SendResetMail, rows
  <2>3. \A p \in Requests : req'[p].u # a
    BY <1>29, <1>f, WeComAssumption
       DEF SendResetMail, Goto, End, Holding, Idle, At, ReqsOK, ReqOK, Searching,
           RequestStates
  <2>4. \A x \in Tokens : tok'[x].kind = "reset" => tok'[x].u # a
    BY <1>29, <1>f DEF SendResetMail, Draw, DeadToken, TokensOK
  <2> QED
    BY <1>f, <2>1, <2>2, <2>3, <2>4
<1>30. ASSUME NEW r \in Requests, ResetRead(r) PROVE Goal
  <2>1. ~user'[a].on
    BY <1>30, <1>f DEF ResetRead, rows
  <2>2. binding' = binding
    BY <1>30 DEF ResetRead, rows
  <2>3. \A p \in Requests : req'[p].u # a
    BY <1>30, <1>f, WeComAssumption
       DEF ResetRead, Goto, End, Holding, Idle, At, ReqsOK, ReqOK, Searching, RequestStates
  <2>4. tok' = tok
    BY <1>30 DEF ResetRead
  <2> QED
    BY <1>f, <2>1, <2>2, <2>3, <2>4
<1>31. ASSUME NEW r \in Requests, ResetSave(r) PROVE Goal
  <2>1. ~user'[a].on
    <3>1. user' = user \/ \E row \in Rows : user' = Saved(req[r].u, row)
      BY <1>31, AtHand, BarredFits, DomainFits DEF ResetSave, Searching, At
    <3>2. req[r].u \in Users /\ req[r].u # a
      BY <1>31, <1>f, AtHand DEF ResetSave, At
    <3> QED
      BY <1>f, <3>1, <3>2, SavedRow
  <2>2. binding' = binding
    BY <1>31 DEF ResetSave, rows
  <2>3. \A p \in Requests : req'[p].u # a
    BY <1>31, <1>f, WeComAssumption
       DEF ResetSave, Goto, End, Holding, Idle, At, ReqsOK, ReqOK, Searching, RequestStates
  <2>4. tok' = tok
    BY <1>31 DEF ResetSave
  <2> QED
    BY <1>f, <2>1, <2>2, <2>3, <2>4
<1>32. ASSUME NEW r \in Requests, DeleteToken(r) PROVE Goal
  <2>1. ~user'[a].on
    BY <1>32, <1>f DEF DeleteToken, rows
  <2>2. binding' = binding
    BY <1>32 DEF DeleteToken, rows
  <2>3. \A p \in Requests : req'[p].u # a
    BY <1>32, <1>f, WeComAssumption
       DEF DeleteToken, Goto, End, Holding, Idle, At, ReqsOK, ReqOK, Searching,
           RequestStates
  <2>4. \A x \in Tokens : tok'[x].kind = "reset" => tok'[x].u # a
    BY <1>32, <1>f DEF DeleteToken, Draw, DeadToken, TokensOK
  <2> QED
    BY <1>f, <2>1, <2>2, <2>3, <2>4
<1>33. ASSUME NEW r \in Requests, NEW t \in Tokens, Solved(r, t) PROVE Goal
  <2>1. ~user'[a].on
    BY <1>33, <1>f DEF Solved, rows
  <2>2. binding' = binding
    BY <1>33 DEF Solved, rows
  <2>3. \A p \in Requests : req'[p].u # a
    BY <1>33, <1>f, WeComAssumption
       DEF Solved, Goto, End, Holding, Idle, At, ReqsOK, ReqOK, Searching, RequestStates
  <2>4. \A x \in Tokens : tok'[x].kind = "reset" => tok'[x].u # a
    BY <1>33, <1>f DEF Solved, Draw, DeadToken, TokensOK
  <2> QED
    BY <1>f, <2>1, <2>2, <2>3, <2>4
<1>34. ASSUME NEW r \in Requests, Unsolved(r) PROVE Goal
  <2>1. ~user'[a].on
    BY <1>34, <1>f DEF Unsolved, rows
  <2>2. binding' = binding
    BY <1>34 DEF Unsolved, rows
  <2>3. \A p \in Requests : req'[p].u # a
    BY <1>34, <1>f, WeComAssumption
       DEF Unsolved, Goto, End, Holding, Idle, At, ReqsOK, ReqOK, Searching, RequestStates
  <2>4. tok' = tok
    BY <1>34 DEF Unsolved
  <2> QED
    BY <1>f, <2>1, <2>2, <2>3, <2>4
<1>35. ASSUME NEW r \in Requests, Answer(r) PROVE Goal
  <2>1. ~user'[a].on
    BY <1>35, <1>f DEF Answer, rows
  <2>2. binding' = binding
    BY <1>35 DEF Answer, rows
  <2>3. \A p \in Requests : req'[p].u # a
    BY <1>35, <1>f, WeComAssumption
       DEF Answer, Goto, End, Holding, Idle, At, ReqsOK, ReqOK, Searching, RequestStates
  <2>4. tok' = tok
    BY <1>35 DEF Answer
  <2> QED
    BY <1>f, <2>1, <2>2, <2>3, <2>4
<1>36. ASSUME NEW t \in Tokens, NEW mode \in {"login", "bind"}, IssueState(t, mode)
       PROVE  Goal
  BY <1>36, <1>f DEF IssueState, Draw, DeadToken, TokensOK, rows
<1>37. ASSUME NEW t \in Tokens, Generate(t) PROVE Goal
  BY <1>37, <1>f DEF Generate, Draw, DeadToken, TokensOK, rows
<1>38. ASSUME NEW t \in Tokens, Expire(t) PROVE Goal
  BY <1>38, <1>f DEF Expire, Draw, DeadToken, TokensOK, rows
<1>39. ASSUME NEW u \in Users, Bar(u) PROVE Goal
  BY <1>39, <1>f DEF Bar, WorldOK
<1>40. ASSUME NEW u \in Users, DeleteUser(u) PROVE Goal
  BY <1>40, <1>f DEF DeleteUser, NoRow, WorldOK
<1>41. ASSUME NEW p \in BOOLEAN, Crash(p) PROVE Goal
  <2>1. \A t \in Tokens : tok'[t] \in {tok[t], DeadToken}
    BY <1>41 DEF Crash, TokensOK
  <2> QED
    BY <1>41, <1>f, <2>1, WeComAssumption DEF Crash, DeadToken, Idle, rows
<1>42. ASSUME UNCHANGED <<user, binding, req, tok>> PROVE Goal
  BY <1>42, <1>f
<1> HIDE DEF Goal
<1>a. Goal
  BY <1>1, <1>2, <1>3, <1>4, <1>5, <1>6, <1>7, <1>8, <1>9, <1>10, <1>11, <1>12, <1>13,
     <1>14, <1>15, <1>16, <1>17, <1>18, <1>19, <1>20, <1>21, <1>22, <1>23, <1>24, <1>25,
     <1>26, <1>27, <1>28, <1>29, <1>30, <1>31, <1>32, <1>33, <1>34, <1>35, <1>36, <1>37,
     <1>38, <1>39, <1>40, <1>41, <1>42
     DEF TicketNext, TicketStep, Next, Start, World, ScanStep, LinkStep, Leave, rows, vars
<1> QED
  BY <1>a DEF Goal, UnseenOK

\* An idle request works for nobody and on no account.
LEMMA IdleIsUnmade ==
  ASSUME NEW m \in Ids
  PROVE  /\ Idle.id # m
         /\ \A a \in Users : MadeReq(Idle, m, a)
BY WeComAssumption DEF Idle, MadeReq

\* The account made for a member stays sound when one request goes on and does
\* it no harm,
LEMMA MadeKept ==
  ASSUME NEW m \in Ids, MadeOK(m), NEW r \in Requests, UNCHANGED origin,
         \A p \in Requests \ {r} : req'[p] = req[p],
         \A a \in Users : origin[a] = m =>
           MadeFor(m, user'[a]) /\ MadeReq(req'[r], m, a),
         req'[r].id = m =>
           /\ req[r].id = m \/ \A p \in Requests \ {r} : req[p].id # m
           /\ SearchFor(req'[r], m)
  PROVE  MadeOK(m)'
BY DEF MadeOK, SearchFor

\* A search is the same whether or not its request has been alone.
LEMMA WithSolo ==
  ASSUME NEW s \in RequestStates, NEW b \in BOOLEAN, NEW m \in Ids
  PROVE  /\ SearchFor(s, m) => SearchFor([s EXCEPT !.solo = b], m)
         /\ [s EXCEPT !.solo = b].id = s.id
BY DEF SearchFor, RequestStates

\* and when a request begins for somebody else.
LEMMA MadeBegun ==
  ASSUME ReqsOK, NEW m \in Ids, MadeOK(m), NEW r \in Requests, NEW q \in RequestStates,
         Begin(r, q), UNCHANGED <<rows, origin>>, q.id # m,
         \A a \in Users : origin[a] = m => MadeReq(q, m, a)
  PROVE  MadeOK(m)'
<1>1. \A s \in RequestStates : \A b \in BOOLEAN : \A a \in Users :
        MadeReq(s, m, a) => MadeReq([s EXCEPT !.solo = b], m, a)
  BY DEF MadeReq, Moving, Cutting, Holds, RequestStates
<1>2. ASSUME NEW p \in Requests
      PROVE  /\ \A a \in Users : origin[a] = m => MadeReq(req'[p], m, a)
             /\ SearchFor(req'[p], m)
             /\ req'[p].id = IF p = r THEN q.id ELSE req[p].id
  <2>1. PICK s \in RequestStates : s = req[p]
    BY DEF ReqsOK
  <2>2. /\ \A a \in Users : origin[a] = m => MadeReq(s, m, a)
        /\ SearchFor(s, m)
    BY <2>1 DEF MadeOK
  <2>3. PICK b \in BOOLEAN : b = Alone(r)
    BY DEF Alone
  <2>4. req'[p] = IF p = r THEN [q EXCEPT !.solo = b] ELSE [s EXCEPT !.solo = FALSE]
    BY <2>1, <2>3 DEF Begin
  <2>5. SearchFor(q, m)
    BY DEF SearchFor
  <2>6. CASE p = r
    <3>1. req'[p] = [q EXCEPT !.solo = b]
      BY <2>4, <2>6
    <3>2. \A a \in Users : origin[a] = m => MadeReq([q EXCEPT !.solo = b], m, a)
      BY <1>1
    <3>3. SearchFor([q EXCEPT !.solo = b], m) /\ [q EXCEPT !.solo = b].id = q.id
      BY <2>5, WithSolo
    <3> QED
      BY <2>6, <3>1, <3>2, <3>3
  <2>7. CASE p # r
    <3>1. req'[p] = [s EXCEPT !.solo = FALSE]
      BY <2>4, <2>7
    <3>2. \A a \in Users : origin[a] = m => MadeReq([s EXCEPT !.solo = FALSE], m, a)
      BY <1>1, <2>2
    <3>3. SearchFor([s EXCEPT !.solo = FALSE], m) /\ [s EXCEPT !.solo = FALSE].id = s.id
      BY <2>2, WithSolo
    <3> QED
      BY <2>1, <2>7, <3>1, <3>2, <3>3
  <2> QED
    BY <2>6, <2>7
<1>3. \A p \in Requests : SearchFor(req[p], m)'
  BY <1>2 DEF SearchFor
<1> QED
  BY <1>2, <1>3 DEF MadeOK, rows

\* A save keeps the userid an account was made for, and its address.
LEMMA RowMade ==
  ASSUME TicketInv, NEW m \in Ids, MadeOK(m), NEW r \in Requests,
         NEW a \in Users, origin[a] = m
  PROVE  /\ MadeFor(m, user[a])
         /\ MadeReq(req[r], m, a)
         /\ Depart(r) \/ Stamp(r) \/ Backfill(r) \/ WriteOwner(r) \/ ResetSave(r) =>
              MadeFor(m, user'[a])
         /\ Stamp(r) /\ req[r].u = a => MadeFor(m, StampRow(req[r]))
<1> USE DEF TicketInv
<1>1. MadeFor(m, user[a]) /\ MadeReq(req[r], m, a)
  BY DEF MadeOK
<1>2. ASSUME NEW row \in Rows, user' = Saved(req[r].u, row), req[r].u \in Users,
             req[r].u = a => MadeFor(m, row)
      PROVE  MadeFor(m, user'[a])
  BY <1>1, <1>2, SavedRow
<1>3. \A row \in Rows : MadeFor(m, row) =>
        MadeFor(m, [row EXCEPT !.barred = TRUE]) /\ MadeFor(m, [row EXCEPT !.placed = TRUE])
  BY DEF MadeFor, Rows
<1>4. ASSUME Depart(r) PROVE MadeFor(m, user'[a])
  <2>1. /\ req[r].u \in Users /\ req[r].row \in Rows /\ Holds(req[r])
        /\ user' = Saved(req[r].u, [req[r].row EXCEPT !.barred = TRUE])
    BY <1>4, AtHand DEF Depart, At, Holds
  <2>2. req[r].u = a => MadeFor(m, [req[r].row EXCEPT !.barred = TRUE])
    BY <1>1, <1>3, <2>1 DEF MadeReq
  <2> QED
    BY <1>2, <2>1, <2>2, BarredFits
<1>5. ASSUME Stamp(r)
      PROVE  MadeFor(m, user'[a]) /\ (req[r].u = a => MadeFor(m, StampRow(req[r])))
  <2>1. /\ req[r].u \in Users /\ req[r].row \in Rows /\ Holds(req[r])
        /\ req[r].id \in Ids /\ user' = Saved(req[r].u, StampRow(req[r]))
    BY <1>5, AtHand DEF Stamp, StampRow, At, Holds, Searching
  <2>2. StampRow(req[r]) \in Rows
    BY <2>1, DomainFits DEF StampRow
  <2>3. req[r].via = "mail" => req[r].row.mail = MailOf[req[r].id]
                               /\ MailOf[req[r].id] # NoMail
    BY <1>5 DEF Stamp, At, ReqsOK, ReqOK
  <2>4. req[r].u = a => MadeFor(m, req[r].row)
    BY <1>1, <2>1 DEF MadeReq
  <2>5. req[r].u = a /\ req[r].via = "mail" => req[r].id = m
    BY <2>1, <2>3, <2>4, MailAssumption DEF MadeFor
  <2>6. req[r].u = a => MadeFor(m, StampRow(req[r]))
    BY <2>1, <2>4, <2>5 DEF StampRow, MadeFor, Rows
  <2> QED
    BY <1>2, <2>1, <2>2, <2>6
<1>6. ASSUME Backfill(r) PROVE MadeFor(m, user'[a])
  <2>1. /\ req[r].u \in Users /\ req[r].row \in Rows /\ Holds(req[r])
        /\ \/ user' = user
           \/ user' = Saved(req[r].u, [req[r].row EXCEPT !.placed = TRUE])
    BY <1>6, AtHand DEF Backfill, At, Holds
  <2>2. req[r].u = a => MadeFor(m, [req[r].row EXCEPT !.placed = TRUE])
    BY <1>1, <1>3, <2>1 DEF MadeReq
  <2> QED
    BY <1>1, <1>2, <2>1, <2>2, BarredFits
<1>7. ASSUME WriteOwner(r) PROVE MadeFor(m, user'[a])
  <2>1. /\ req[r].u \in Users /\ req[r].row \in Rows
        /\ user' = Saved(req[r].u, SetDomain(r)) /\ SetDomain(r) \in Rows
    BY <1>7, AtHand, DomainFits DEF WriteOwner, At, SetDomain
  <2>2. req[r].u # a
    BY <1>1, <1>7 DEF MadeReq, Moving, Cutting, WriteOwner, At, ReqsOK, ReqOK
  <2> QED
    BY <1>2, <2>1, <2>2
<1>8. ASSUME ResetSave(r) PROVE MadeFor(m, user'[a])
  <2>1. /\ req[r].u \in Users /\ req[r].row \in Rows /\ Holds(req[r])
        /\ user' = Saved(req[r].u, req[r].row)
    BY <1>8, AtHand DEF ResetSave, At, Holds
  <2>2. req[r].u = a => MadeFor(m, req[r].row)
    BY <1>1, <2>1 DEF MadeReq
  <2> QED
    BY <1>2, <2>1, <2>2
<1> QED
  BY <1>1, <1>4, <1>5, <1>6, <1>7, <1>8

\* A userid that nobody moves has one account made for it (FindOrCreateUser).
LEMMA MadeStep ==
  ASSUME TicketInv, MadeInv, [TicketNext]_vars, NEW m \in Ids, m \notin shaky'
  PROVE  MadeOK(m)'
<1> USE DEF TicketInv
<1>0. MadeOK(m)
  BY OriginGrows DEF MadeInv
<1>k. ASSUME NEW a \in Users, origin[a] = m
      PROVE  /\ MadeFor(m, user[a])
             /\ \A r \in Requests : MadeReq(req[r], m, a)
  BY <1>0, <1>k DEF MadeOK
<1>s. \A r \in Requests : SearchFor(req[r], m)
  BY <1>0 DEF MadeOK
<1> DEFINE Goal == MadeOK(m)'
<1>1. ASSUME NEW r \in Requests, NEW t \in Tokens, Callback(r, t) PROVE Goal
  <2>1. UNCHANGED <<rows, origin>>
    BY <1>1 DEF Callback, hist
  <2>2. PICK q : q = [Idle EXCEPT !.pc = "del", !.op = tok[t].kind, !.t = t]
    OBVIOUS
  <2>3. q \in RequestStates
    BY <1>1, <2>2, IdleFits, WeComAssumption DEF Callback, RequestStates, Idle, TokensOK
  <2>4. Begin(r, q)
    BY <1>1, <2>2 DEF Callback
  <2>5. q.id # m
    BY <2>1, <2>2, WeComAssumption DEF Idle
  <2>6. \A a \in Users : origin[a] = m => MadeReq(q, m, a)
    BY <1>1, <1>k, <2>1, <2>2, WeComAssumption
       DEF Callback, MadeReq, MadeFor, Moving, Cutting, Holds, Idle, TokensOK
  <2> QED
    BY <1>0, <2>1, <2>3, <2>4, <2>5, <2>6, MadeBegun
<1>2. ASSUME NEW r \in Requests, CallbackFixed(r) PROVE Goal
  <2>1. UNCHANGED <<rows, origin>>
    BY <1>2 DEF CallbackFixed, hist
  <2>2. PICK q : q = [Idle EXCEPT !.pc = "code", !.op = "login"]
    OBVIOUS
  <2>3. q \in RequestStates
    BY <1>2, <2>2, IdleFits, WeComAssumption
       DEF CallbackFixed, RequestStates, Idle, TokensOK
  <2>4. Begin(r, q)
    BY <1>2, <2>2 DEF CallbackFixed
  <2>5. q.id # m
    BY <2>1, <2>2, WeComAssumption DEF Idle
  <2>6. \A a \in Users : origin[a] = m => MadeReq(q, m, a)
    BY <1>2, <1>k, <2>1, <2>2, WeComAssumption
       DEF CallbackFixed, MadeReq, MadeFor, Moving, Cutting, Holds, Idle, TokensOK
  <2> QED
    BY <1>0, <2>1, <2>3, <2>4, <2>5, <2>6, MadeBegun
<1>3. ASSUME NEW r \in Requests, NEW u \in Users, NEW i \in Ids, StartBind(r, u, i)
      PROVE  Goal
  <2>1. UNCHANGED <<rows, origin>> /\ m # i /\ user[u].dom # m
    BY <1>3 DEF StartBind, hist
  <2>2. PICK q : q = [Idle EXCEPT !.pc = "release", !.op = "put", !.id = i, !.u = u]
    OBVIOUS
  <2>3. q \in RequestStates
    BY <1>3, <2>2, IdleFits, WeComAssumption DEF StartBind, RequestStates, Idle, TokensOK
  <2>4. Begin(r, q)
    BY <1>3, <2>2 DEF StartBind
  <2>5. q.id # m
    BY <2>1, <2>2, WeComAssumption DEF Idle
  <2>6. \A a \in Users : origin[a] = m => MadeReq(q, m, a)
    BY <1>3, <1>k, <2>1, <2>2, WeComAssumption
       DEF StartBind, MadeReq, MadeFor, Moving, Cutting, Holds, Idle, TokensOK
  <2> QED
    BY <1>0, <2>1, <2>3, <2>4, <2>5, <2>6, MadeBegun
<1>4. ASSUME NEW r \in Requests, NEW u \in Users, StartUnbind(r, u) PROVE Goal
  <2>1. UNCHANGED <<rows, origin>> /\ user[u].dom # m
    BY <1>4 DEF StartUnbind, hist
  <2>2. PICK q : q = [Idle EXCEPT !.pc = "unlink", !.op = "cut", !.u = u]
    OBVIOUS
  <2>3. q \in RequestStates
    BY <1>4, <2>2, IdleFits, WeComAssumption DEF StartUnbind, RequestStates, Idle, TokensOK
  <2>4. Begin(r, q)
    BY <1>4, <2>2 DEF StartUnbind
  <2>5. q.id # m
    BY <2>1, <2>2, WeComAssumption DEF Idle
  <2>6. \A a \in Users : origin[a] = m => MadeReq(q, m, a)
    BY <1>4, <1>k, <2>1, <2>2, WeComAssumption
       DEF StartUnbind, MadeReq, MadeFor, Moving, Cutting, Holds, Idle, TokensOK
  <2> QED
    BY <1>0, <2>1, <2>3, <2>4, <2>5, <2>6, MadeBegun
<1>5. ASSUME NEW r \in Requests, NEW u \in Users, ForgotPassword(r, u) PROVE Goal
  <2>1. UNCHANGED <<rows, origin>>
    BY <1>5 DEF ForgotPassword, hist
  <2>2. PICK q : q = [Idle EXCEPT !.pc = "send", !.op = "forgot", !.u = u]
    OBVIOUS
  <2>3. q \in RequestStates
    BY <1>5, <2>2, IdleFits, WeComAssumption
       DEF ForgotPassword, RequestStates, Idle, TokensOK
  <2>4. Begin(r, q)
    BY <1>5, <2>2 DEF ForgotPassword
  <2>5. q.id # m
    BY <2>1, <2>2, WeComAssumption DEF Idle
  <2>6. \A a \in Users : origin[a] = m => MadeReq(q, m, a)
    BY <1>5, <1>k, <2>1, <2>2, WeComAssumption
       DEF ForgotPassword, MadeReq, MadeFor, Moving, Cutting, Holds, Idle, TokensOK
  <2> QED
    BY <1>0, <2>1, <2>3, <2>4, <2>5, <2>6, MadeBegun
<1>6. ASSUME NEW r \in Requests, NEW t \in Tokens, ResetPassword(r, t) PROVE Goal
  <2>1. UNCHANGED <<rows, origin>>
    BY <1>6 DEF ResetPassword, hist
  <2>2. PICK q : q = [Idle EXCEPT !.pc = "tread", !.op = "reset", !.t = t, !.u = tok[t].u]
    OBVIOUS
  <2>3. q \in RequestStates
    BY <1>6, <2>2, IdleFits, WeComAssumption
       DEF ResetPassword, RequestStates, Idle, TokensOK
  <2>4. Begin(r, q)
    BY <1>6, <2>2 DEF ResetPassword
  <2>5. q.id # m
    BY <2>1, <2>2, WeComAssumption DEF Idle
  <2>6. \A a \in Users : origin[a] = m => MadeReq(q, m, a)
    BY <1>6, <1>k, <2>1, <2>2, WeComAssumption
       DEF ResetPassword, MadeReq, MadeFor, Moving, Cutting, Holds, Idle, TokensOK
  <2> QED
    BY <1>0, <2>1, <2>3, <2>4, <2>5, <2>6, MadeBegun
<1>7. ASSUME NEW r \in Requests, NEW t \in Tokens, Present(r, t) PROVE Goal
  <2>1. UNCHANGED <<rows, origin>>
    BY <1>7 DEF Present, hist
  <2>2. PICK q : q = [Idle EXCEPT !.pc = "del", !.op = tok[t].kind, !.t = t]
    OBVIOUS
  <2>3. q \in RequestStates
    BY <1>7, <2>2, IdleFits, WeComAssumption DEF Present, RequestStates, Idle, TokensOK
  <2>4. Begin(r, q)
    BY <1>7, <2>2 DEF Present
  <2>5. q.id # m
    BY <2>1, <2>2, WeComAssumption DEF Idle
  <2>6. \A a \in Users : origin[a] = m => MadeReq(q, m, a)
    BY <1>7, <1>k, <2>1, <2>2, WeComAssumption
       DEF Present, MadeReq, MadeFor, Moving, Cutting, Holds, Idle, TokensOK
  <2> QED
    BY <1>0, <2>1, <2>3, <2>4, <2>5, <2>6, MadeBegun
<1>8. ASSUME NEW r \in Requests, ConsumeState(r) PROVE Goal
  <2>1. UNCHANGED <<user, origin>>
    BY <1>8 DEF ConsumeState, rows, hist
  <2>2. \A p \in Requests \ {r} : req'[p] = req[p]
    BY <1>8 DEF ConsumeState, Goto, End, Holding, ReqsOK
  <2>3. \A a \in Users : origin[a] = m => MadeReq(req'[r], m, a)
    BY <1>8, <1>k, IdleIsUnmade
       DEF ConsumeState, At, Goto, End, Holding, ReqsOK, ReqOK, Searching, RequestStates,
           MadeReq, MadeFor, Moving, Cutting, Holds
  <2>4. req'[r].id # m \/ (req'[r].id = req[r].id /\ SearchFor(req'[r], m))
    BY <1>8, <1>s, IdleIsUnmade
       DEF ConsumeState, At, Goto, End, Holding, ReqsOK, ReqOK, Searching, RequestStates,
           SearchFor
  <2> QED
    BY <1>0, <1>k, <2>1, <2>2, <2>3, <2>4, MadeKept
<1>9. ASSUME NEW r \in Requests, Abandon(r) PROVE Goal
  <2>1. UNCHANGED <<user, origin>>
    BY <1>9 DEF Abandon, rows, hist
  <2>2. (\A p \in Requests \ {r} : req'[p] = req[p]) /\ req'[r] = Idle
    BY <1>9 DEF Abandon, End, ReqsOK
  <2> QED
    BY <1>0, <1>k, <2>1, <2>2, IdleIsUnmade, MadeKept
<1>10. ASSUME NEW r \in Requests, NEW i \in Ids, NEW detail \in BOOLEAN, ResolveCode(r, i,
              detail)
       PROVE  Goal
  <2>1. UNCHANGED <<user, origin>>
    BY <1>10 DEF ResolveCode, rows, hist
  <2>3. /\ \A p \in Requests \ {r} : req'[p] = req[p]
        /\ req'[r].op = req[r].op /\ req'[r].pc = "bound"
        /\ req'[r].id = i /\ req'[r].u = req[r].u
    BY <1>10 DEF ResolveCode, ReqsOK, RequestStates
  <2>4. req[r].op = "login"
    BY <1>10 DEF ResolveCode
  <2>5. i = m => \A p \in Requests \ {r} : req[p].id # m
    BY <1>10, WeComAssumption DEF ResolveCode, Company, Alone, ReqsOK, ReqOK
  <2>6. \A a \in Users : MadeReq(req'[r], m, a)
    BY <2>3, <2>4 DEF MadeReq, Moving, Cutting, Holds
  <2>7. SearchFor(req'[r], m)
    BY <2>3, <2>4 DEF SearchFor
  <2> QED
    BY <1>0, <1>k, <2>1, <2>3, <2>5, <2>6, <2>7, MadeKept
<1>11. ASSUME NEW r \in Requests, NEW i \in Ids, NEW u \in Users, ResolveBind(r, i, u)
       PROVE  Goal
  <2>1. UNCHANGED <<user, origin>> /\ m # i /\ user[u].dom # m
    BY <1>11 DEF ResolveBind, rows, hist
  <2>3. /\ \A p \in Requests \ {r} : req'[p] = req[p]
        /\ req'[r].op = req[r].op /\ req'[r].pc = "release"
        /\ req'[r].id = i /\ req'[r].u = u
    BY <1>11 DEF ResolveBind, ReqsOK, RequestStates
  <2>4. \A a \in Users : origin[a] = m => MadeReq(req'[r], m, a)
    BY <1>k, <2>1, <2>3 DEF MadeReq, MadeFor
  <2> QED
    BY <1>0, <1>k, <2>1, <2>3, <2>4, MadeKept
<1>12. ASSUME NEW r \in Requests, FindBinding(r) PROVE Goal
  <2>1. UNCHANGED <<user, origin>>
    BY <1>12 DEF FindBinding, rows, hist
  <2>2. \A p \in Requests \ {r} : req'[p] = req[p]
    BY <1>12 DEF FindBinding, Goto, End, Holding, ReqsOK
  <2>3. \A a \in Users : origin[a] = m => MadeReq(req'[r], m, a)
    BY <1>12, <1>k, IdleIsUnmade
       DEF FindBinding, At, Goto, End, Holding, ReqsOK, ReqOK, Searching, RequestStates,
           MadeReq, MadeFor, Moving, Cutting, Holds
  <2>4. req'[r].id # m \/ (req'[r].id = req[r].id /\ SearchFor(req'[r], m))
    BY <1>12, <1>s, IdleIsUnmade
       DEF FindBinding, At, Goto, End, Holding, ReqsOK, ReqOK, Searching, RequestStates,
           SearchFor
  <2> QED
    BY <1>0, <1>k, <2>1, <2>2, <2>3, <2>4, MadeKept
<1>13. ASSUME NEW r \in Requests, LoadBound(r) PROVE Goal
  <2>1. UNCHANGED <<user, origin>>
    BY <1>13 DEF LoadBound, rows, hist
  <2>2. \A p \in Requests \ {r} : req'[p] = req[p]
    BY <1>13 DEF LoadBound, Goto, End, Holding, ReqsOK
  <2>3. \A a \in Users : origin[a] = m => MadeReq(req'[r], m, a)
    BY <1>13, <1>k, IdleIsUnmade
       DEF LoadBound, At, Goto, End, Holding, ReqsOK, ReqOK, Searching, RequestStates,
           MadeReq, MadeFor, Moving, Cutting, Holds
  <2>4. req'[r].id # m \/ (req'[r].id = req[r].id /\ SearchFor(req'[r], m))
    BY <1>13, <1>s, IdleIsUnmade
       DEF LoadBound, At, Goto, End, Holding, ReqsOK, ReqOK, Searching, RequestStates,
           SearchFor
  <2> QED
    BY <1>0, <1>k, <2>1, <2>2, <2>3, <2>4, MadeKept
<1>14. ASSUME NEW r \in Requests, FindDomain(r) PROVE Goal
  <2>1. UNCHANGED <<user, origin>>
    BY <1>14 DEF FindDomain, rows, hist
  <2>p. req[r].op = "login" /\ req[r].pc = "domain"
    BY <1>14 DEF FindDomain, At, ReqsOK, ReqOK, Searching
  <2>3. ASSUME NEW u \in Users, Holding(r, "apply", u, user[u], "domain") PROVE Goal
    <3>1. /\ \A p \in Requests \ {r} : req'[p] = req[p]
          /\ req'[r].op = "login" /\ req'[r].pc = "apply" /\ req'[r].u = u
          /\ req'[r].row = user[u] /\ req'[r].id = req[r].id
      BY <2>p, <2>3 DEF Holding, ReqsOK, RequestStates
    <3>2. \A a \in Users : origin[a] = m => MadeReq(req'[r], m, a)
      BY <1>k, <3>1 DEF MadeReq, Moving, Cutting
    <3>3. SearchFor(req'[r], m)
      BY <3>1 DEF SearchFor
    <3> QED
      BY <1>0, <1>k, <2>1, <3>1, <3>2, <3>3, MadeKept
  <2>4. ASSUME Goto(r, "mail"), req[r].id = m => \A a \in Users : origin[a] # m PROVE Goal
    <3>1. /\ \A p \in Requests \ {r} : req'[p] = req[p]
          /\ req'[r].op = "login" /\ req'[r].pc = "mail" /\ req'[r].id = req[r].id
      BY <2>p, <2>4 DEF Goto, ReqsOK, RequestStates
    <3>2. \A a \in Users : MadeReq(req'[r], m, a)
      BY <3>1 DEF MadeReq, Moving, Cutting, Holds
    <3>3. SearchFor(req'[r], m)
      BY <2>4, <3>1 DEF SearchFor
    <3> QED
      BY <1>0, <1>k, <2>1, <3>1, <3>2, <3>3, MadeKept
  <2>5. ASSUME End(r) PROVE Goal
    <3>1. (\A p \in Requests \ {r} : req'[p] = req[p]) /\ req'[r] = Idle
      BY <2>5 DEF End, ReqsOK
    <3> QED
      BY <1>0, <1>k, <2>1, <3>1, IdleIsUnmade, MadeKept
  <2>6. req[r].id = m /\ WithDomain(m) = {} => \A a \in Users : origin[a] # m
    BY <1>k DEF WithDomain, MadeFor
  <2> HIDE DEF Goal
  <2> QED
    BY <1>14, <2>3, <2>4, <2>5, <2>6 DEF FindDomain, WithDomain
<1>15. ASSUME NEW r \in Requests, FindMail(r) PROVE Goal
  <2>1. UNCHANGED <<user, origin>>
    BY <1>15 DEF FindMail, rows, hist
  <2>p. req[r].op = "login" /\ req[r].pc = "mail"
    BY <1>15 DEF FindMail, At, ReqsOK, ReqOK, Searching
  <2>3. ASSUME NEW u \in Users, Holding(r, "apply", u, user[u], "mail") PROVE Goal
    <3>1. /\ \A p \in Requests \ {r} : req'[p] = req[p]
          /\ req'[r].op = "login" /\ req'[r].pc = "apply" /\ req'[r].u = u
          /\ req'[r].row = user[u] /\ req'[r].id = req[r].id
      BY <2>p, <2>3 DEF Holding, ReqsOK, RequestStates
    <3>2. \A a \in Users : origin[a] = m => MadeReq(req'[r], m, a)
      BY <1>k, <3>1 DEF MadeReq, Moving, Cutting
    <3>3. SearchFor(req'[r], m)
      BY <3>1 DEF SearchFor
    <3> QED
      BY <1>0, <1>k, <2>1, <3>1, <3>2, <3>3, MadeKept
  <2>4. ASSUME Goto(r, "name"), req[r].id = m => \A a \in Users : origin[a] # m PROVE Goal
    <3>1. /\ \A p \in Requests \ {r} : req'[p] = req[p]
          /\ req'[r].op = "login" /\ req'[r].pc = "name" /\ req'[r].id = req[r].id
      BY <2>p, <2>4 DEF Goto, ReqsOK, RequestStates
    <3>2. \A a \in Users : MadeReq(req'[r], m, a)
      BY <3>1 DEF MadeReq, Moving, Cutting, Holds
    <3>3. SearchFor(req'[r], m)
      BY <2>4, <3>1 DEF SearchFor
    <3> QED
      BY <1>0, <1>k, <2>1, <3>1, <3>2, <3>3, MadeKept
  <2>5. ASSUME End(r) PROVE Goal
    <3>1. (\A p \in Requests \ {r} : req'[p] = req[p]) /\ req'[r] = Idle
      BY <2>5 DEF End, ReqsOK
    <3> QED
      BY <1>0, <1>k, <2>1, <3>1, IdleIsUnmade, MadeKept
  <2>6. req[r].id = m => \A a \in Users : origin[a] # m
    BY <1>s, <2>p DEF SearchFor
  <2> HIDE DEF Goal
  <2> QED
    BY <1>15, <2>3, <2>4, <2>5, <2>6 DEF FindMail, WithMail
<1>16. ASSUME NEW r \in Requests, Depart(r) PROVE Goal
  <2>1. origin' = origin /\ \A a \in Users : origin[a] = m => MadeFor(m, user'[a])
    BY <1>16, <1>0, RowMade DEF Depart, hist
  <2>2. (\A p \in Requests \ {r} : req'[p] = req[p]) /\ req'[r] = Idle
    BY <1>16 DEF Depart, End, ReqsOK
  <2> QED
    BY <1>0, <1>k, <2>1, <2>2, IdleIsUnmade, MadeKept
<1>17. ASSUME NEW r \in Requests, Stamp(r) PROVE Goal
  <2>1. origin' = origin /\ \A a \in Users : origin[a] = m => MadeFor(m, user'[a])
    BY <1>17, <1>0, RowMade DEF Stamp, hist
  <2>2. \A p \in Requests \ {r} : req'[p] = req[p]
    BY <1>17 DEF Stamp, Holding, ReqsOK
  <2>3. /\ req[r].op = "login" /\ req'[r].op = "login" /\ req'[r].id = req[r].id
        /\ req'[r].u = req[r].u /\ req'[r].row = StampRow(req[r])
        /\ req'[r].pc \in {"backfill", "upread"}
    BY <1>17 DEF Stamp, Holding, StampRow, At, ReqsOK, ReqOK, Searching, RequestStates
  <2>4. \A a \in Users : origin[a] = m => MadeReq(req'[r], m, a)
    BY <1>17, <1>0, <2>3, RowMade DEF MadeReq, Moving, Cutting
  <2>5. SearchFor(req'[r], m)
    BY <2>3 DEF SearchFor
  <2> QED
    BY <1>0, <1>k, <2>1, <2>2, <2>3, <2>4, <2>5, MadeKept
<1>18. ASSUME NEW r \in Requests, TryName(r) PROVE Goal
  <2>1. UNCHANGED <<user, origin>>
    BY <1>18 DEF TryName, rows, hist
  <2>2. \A p \in Requests \ {r} : req'[p] = req[p]
    BY <1>18 DEF TryName, Goto, End, Holding, ReqsOK
  <2>3. \A a \in Users : origin[a] = m => MadeReq(req'[r], m, a)
    BY <1>18, <1>k, IdleIsUnmade
       DEF TryName, At, Goto, End, Holding, ReqsOK, ReqOK, Searching, RequestStates,
           MadeReq, MadeFor, Moving, Cutting, Holds
  <2>4. req'[r].id # m \/ (req'[r].id = req[r].id /\ SearchFor(req'[r], m))
    BY <1>18, <1>s, IdleIsUnmade
       DEF TryName, At, Goto, End, Holding, ReqsOK, ReqOK, Searching, RequestStates,
           SearchFor
  <2> QED
    BY <1>0, <1>k, <2>1, <2>2, <2>3, <2>4, MadeKept
<1>19. ASSUME NEW r \in Requests, NEW u \in Users, Create(r, u) PROVE Goal
  <2>1. CASE End(r) /\ UNCHANGED <<user, origin>>
    <3>1. (\A p \in Requests \ {r} : req'[p] = req[p]) /\ req'[r] = Idle
      BY <2>1 DEF End, ReqsOK
    <3> QED
      BY <1>0, <1>k, <2>1, <3>1, IdleIsUnmade, MadeKept
  <2>2. CASE /\ user' = [user EXCEPT ![u] = NewRow(r)]
             /\ Holding(r, "upread", u, NewRow(r), "create")
             /\ origin' = [origin EXCEPT ![u] = req[r].id]
    <3>1. /\ req[r].pc = "create" /\ req[r].op = "login" /\ req[r].id \in Ids
          /\ Unseen(u) /\ NewRow(r) \in Rows /\ NewRow(r).on
      BY <1>19, NewRowFits DEF Create, At, ReqsOK, ReqOK, Searching
    <3>2. /\ \A p \in Requests : req[p].u # u
          /\ origin[u] = NoId
      BY <3>1, UnseenIsNobody DEF Unseen
    <3>3. /\ \A p \in Requests \ {r} : req'[p] = req[p]
          /\ req'[r].op = "login" /\ req'[r].pc = "upread" /\ req'[r].u = u
          /\ req'[r].row = NewRow(r) /\ req'[r].id = req[r].id
      BY <2>2, <3>1 DEF Holding, ReqsOK, RequestStates
    <3>4. \A a \in Users : /\ user'[a] = IF a = u THEN NewRow(r) ELSE user[a]
                           /\ origin'[a] = IF a = u THEN req[r].id ELSE origin[a]
      BY <2>2 DEF WorldOK
    <3>5. MadeFor(req[r].id, NewRow(r))
      BY <3>1 DEF MadeFor, NewRow
    <3>6. ASSUME req[r].id = m PROVE \A a \in Users : origin[a] # m
      BY <1>s, <3>1, <3>6 DEF SearchFor
    <3>7. ASSUME NEW a \in Users, origin'[a] = m
          PROVE  /\ MadeFor(m, user'[a])
                 /\ \A v \in Users : origin'[v] = m => v = a
                 /\ \A p \in Requests : MadeReq(req'[p], m, a)
      <4>1. CASE a = u
        <5>1. req[r].id = m
          BY <3>4, <3>7, <4>1
        <5>2. \A v \in Users : origin'[v] = m => v = a
          BY <3>4, <3>6, <4>1, <5>1
        <5>3. MadeReq(req'[r], m, a)
          BY <3>3, <3>5, <5>1 DEF MadeReq, Moving, Cutting
        <5>4. \A p \in Requests \ {r} : MadeReq(req'[p], m, a)
          BY <3>2, <3>3, <4>1 DEF MadeReq
        <5> QED
          BY <3>4, <3>5, <4>1, <5>1, <5>2, <5>3, <5>4
      <4>2. CASE a # u
        <5>1. origin[a] = m /\ req[r].id # m /\ user'[a] = user[a]
          BY <3>4, <3>6, <3>7, <4>2
        <5>2. \A v \in Users : origin'[v] = m => v = a
          BY <1>0, <3>4, <5>1 DEF MadeOK
        <5>3. MadeReq(req'[r], m, a)
          BY <3>3, <4>2 DEF MadeReq
        <5> QED
          BY <1>k, <3>3, <5>1, <5>2, <5>3
      <4> QED
        BY <4>1, <4>2
    <3>8. ASSUME NEW p \in Requests PROVE SearchFor(req[p], m)'
      <4>1. CASE p = r
        BY <3>3, <4>1 DEF SearchFor
      <4>2. CASE p # r /\ req[p].id = m
        <5>1. req[r].id # m
          BY <1>0, <4>2 DEF MadeOK
        <5> QED
          BY <1>s, <3>3, <3>4, <4>2, <5>1 DEF SearchFor
      <4>3. CASE p # r /\ req[p].id # m
        BY <3>3, <4>3 DEF SearchFor
      <4> QED
        BY <4>1, <4>2, <4>3
    <3>9. \A p \in Requests : req'[p].id = req[p].id
      BY <3>3
    <3> QED
      BY <1>0, <3>7, <3>8, <3>9 DEF MadeOK
  <2> HIDE DEF Goal
  <2> QED
    BY <1>19, <2>1, <2>2 DEF Create
<1>20. ASSUME NEW r \in Requests, Backfill(r) PROVE Goal
  <2>1. origin' = origin /\ \A a \in Users : origin[a] = m => MadeFor(m, user'[a])
    BY <1>20, <1>0, RowMade DEF Backfill, hist
  <2>2. \A p \in Requests \ {r} : req'[p] = req[p]
    BY <1>20 DEF Backfill, Goto, End, Holding, ReqsOK
  <2>3. \A a \in Users : origin[a] = m => MadeReq(req'[r], m, a)
    BY <1>20, <1>k, IdleIsUnmade
       DEF Backfill, At, Goto, End, Holding, ReqsOK, ReqOK, Searching, RequestStates,
           MadeReq, MadeFor, Moving, Cutting, Holds
  <2>4. req'[r].id # m \/ (req'[r].id = req[r].id /\ SearchFor(req'[r], m))
    BY <1>20, <1>s, IdleIsUnmade
       DEF Backfill, At, Goto, End, Holding, ReqsOK, ReqOK, Searching, RequestStates,
           SearchFor
  <2> QED
    BY <1>0, <1>k, <2>1, <2>2, <2>3, <2>4, MadeKept
<1>21. ASSUME NEW r \in Requests, Refuse(r) PROVE Goal
  <2>1. UNCHANGED <<user, origin>>
    BY <1>21 DEF Refuse, rows, hist
  <2>2. (\A p \in Requests \ {r} : req'[p] = req[p]) /\ req'[r] = Idle
    BY <1>21 DEF Refuse, End, ReqsOK
  <2> QED
    BY <1>0, <1>k, <2>1, <2>2, IdleIsUnmade, MadeKept
<1>22. ASSUME NEW r \in Requests, Enter(r) PROVE Goal
  <2>1. UNCHANGED <<user, origin>>
    BY <1>22 DEF Enter, rows, hist
  <2>2. (\A p \in Requests \ {r} : req'[p] = req[p]) /\ req'[r] = Idle
    BY <1>22 DEF Enter, End, ReqsOK
  <2> QED
    BY <1>0, <1>k, <2>1, <2>2, IdleIsUnmade, MadeKept
<1>23. ASSUME NEW r \in Requests, UpsertRead(r) PROVE Goal
  <2>1. UNCHANGED <<user, origin>>
    BY <1>23 DEF UpsertRead, rows, hist
  <2>2. \A p \in Requests \ {r} : req'[p] = req[p]
    BY <1>23 DEF UpsertRead, Goto, End, Holding, ReqsOK
  <2>3. \A a \in Users : origin[a] = m => MadeReq(req'[r], m, a)
    BY <1>23, <1>k, IdleIsUnmade
       DEF UpsertRead, At, Goto, End, Holding, ReqsOK, ReqOK, Searching, RequestStates,
           MadeReq, MadeFor, Moving, Cutting, Holds
  <2>4. req'[r].id # m \/ (req'[r].id = req[r].id /\ SearchFor(req'[r], m))
    BY <1>23, <1>s, IdleIsUnmade
       DEF UpsertRead, At, Goto, End, Holding, ReqsOK, ReqOK, Searching, RequestStates,
           SearchFor
  <2> QED
    BY <1>0, <1>k, <2>1, <2>2, <2>3, <2>4, MadeKept
<1>24. ASSUME NEW r \in Requests, UpsertWrite(r) PROVE Goal
  <2>1. UNCHANGED <<user, origin>>
    BY <1>24 DEF UpsertWrite, rows, hist
  <2>2. \A p \in Requests \ {r} : req'[p] = req[p]
    BY <1>24 DEF UpsertWrite, Goto, End, Holding, ReqsOK
  <2>3. \A a \in Users : origin[a] = m => MadeReq(req'[r], m, a)
    BY <1>24, <1>k, IdleIsUnmade
       DEF UpsertWrite, At, Goto, End, Holding, ReqsOK, ReqOK, Searching, RequestStates,
           MadeReq, MadeFor, Moving, Cutting, Holds
  <2>4. req'[r].id # m \/ (req'[r].id = req[r].id /\ SearchFor(req'[r], m))
    BY <1>24, <1>s, IdleIsUnmade
       DEF UpsertWrite, At, Goto, End, Holding, ReqsOK, ReqOK, Searching, RequestStates,
           SearchFor
  <2> QED
    BY <1>0, <1>k, <2>1, <2>2, <2>3, <2>4, MadeKept
<1>25. ASSUME NEW r \in Requests, Release(r) PROVE Goal
  <2>1. UNCHANGED <<user, origin>>
    BY <1>25 DEF Release, rows, hist
  <2>2. \A p \in Requests \ {r} : req'[p] = req[p]
    BY <1>25 DEF Release, Goto, End, Holding, ReqsOK
  <2>3. \A a \in Users : origin[a] = m => MadeReq(req'[r], m, a)
    BY <1>25, <1>k, IdleIsUnmade
       DEF Release, At, Goto, End, Holding, ReqsOK, ReqOK, Searching, RequestStates,
           MadeReq, MadeFor, Moving, Cutting, Holds
  <2>4. req'[r].id # m \/ (req'[r].id = req[r].id /\ SearchFor(req'[r], m))
    BY <1>25, <1>s, IdleIsUnmade
       DEF Release, At, Goto, End, Holding, ReqsOK, ReqOK, Searching, RequestStates,
           SearchFor
  <2> QED
    BY <1>0, <1>k, <2>1, <2>2, <2>3, <2>4, MadeKept
<1>26. ASSUME NEW r \in Requests, Unlink(r) PROVE Goal
  <2>1. UNCHANGED <<user, origin>>
    BY <1>26 DEF Unlink, rows, hist
  <2>2. \A p \in Requests \ {r} : req'[p] = req[p]
    BY <1>26 DEF Unlink, Goto, End, Holding, ReqsOK
  <2>3. \A a \in Users : origin[a] = m => MadeReq(req'[r], m, a)
    BY <1>26, <1>k, IdleIsUnmade
       DEF Unlink, At, Goto, End, Holding, ReqsOK, ReqOK, Searching, RequestStates, MadeReq,
           MadeFor, Moving, Cutting, Holds
  <2>4. req'[r].id # m \/ (req'[r].id = req[r].id /\ SearchFor(req'[r], m))
    BY <1>26, <1>s, IdleIsUnmade
       DEF Unlink, At, Goto, End, Holding, ReqsOK, ReqOK, Searching, RequestStates,
           SearchFor
  <2> QED
    BY <1>0, <1>k, <2>1, <2>2, <2>3, <2>4, MadeKept
<1>27. ASSUME NEW r \in Requests, ReadOwner(r) PROVE Goal
  <2>1. UNCHANGED <<user, origin>>
    BY <1>27 DEF ReadOwner, rows, hist
  <2>2. \A p \in Requests \ {r} : req'[p] = req[p]
    BY <1>27 DEF ReadOwner, Goto, End, Holding, ReqsOK
  <2>3. \A a \in Users : origin[a] = m => MadeReq(req'[r], m, a)
    BY <1>27, <1>k, IdleIsUnmade
       DEF ReadOwner, At, Goto, End, Holding, ReqsOK, ReqOK, Searching, RequestStates,
           MadeReq, MadeFor, Moving, Cutting, Holds
  <2>4. req'[r].id # m \/ (req'[r].id = req[r].id /\ SearchFor(req'[r], m))
    BY <1>27, <1>s, IdleIsUnmade
       DEF ReadOwner, At, Goto, End, Holding, ReqsOK, ReqOK, Searching, RequestStates,
           SearchFor
  <2> QED
    BY <1>0, <1>k, <2>1, <2>2, <2>3, <2>4, MadeKept
<1>28. ASSUME NEW r \in Requests, WriteOwner(r) PROVE Goal
  <2>1. origin' = origin /\ \A a \in Users : origin[a] = m => MadeFor(m, user'[a])
    BY <1>28, <1>0, RowMade DEF WriteOwner, hist
  <2>2. (\A p \in Requests \ {r} : req'[p] = req[p]) /\ req'[r] = Idle
    BY <1>28 DEF WriteOwner, End, ReqsOK
  <2> QED
    BY <1>0, <1>k, <2>1, <2>2, IdleIsUnmade, MadeKept
<1>29. ASSUME NEW r \in Requests, NEW t \in Tokens, SendResetMail(r, t) PROVE Goal
  <2>1. UNCHANGED <<user, origin>>
    BY <1>29 DEF SendResetMail, rows, hist
  <2>2. (\A p \in Requests \ {r} : req'[p] = req[p]) /\ req'[r] = Idle
    BY <1>29 DEF SendResetMail, End, ReqsOK
  <2> QED
    BY <1>0, <1>k, <2>1, <2>2, IdleIsUnmade, MadeKept
<1>30. ASSUME NEW r \in Requests, ResetRead(r) PROVE Goal
  <2>1. UNCHANGED <<user, origin>>
    BY <1>30 DEF ResetRead, rows, hist
  <2>2. \A p \in Requests \ {r} : req'[p] = req[p]
    BY <1>30 DEF ResetRead, Goto, End, Holding, ReqsOK
  <2>3. \A a \in Users : origin[a] = m => MadeReq(req'[r], m, a)
    BY <1>30, <1>k, IdleIsUnmade
       DEF ResetRead, At, Goto, End, Holding, ReqsOK, ReqOK, Searching, RequestStates,
           MadeReq, MadeFor, Moving, Cutting, Holds
  <2>4. req'[r].id # m \/ (req'[r].id = req[r].id /\ SearchFor(req'[r], m))
    BY <1>30, <1>s, IdleIsUnmade
       DEF ResetRead, At, Goto, End, Holding, ReqsOK, ReqOK, Searching, RequestStates,
           SearchFor
  <2> QED
    BY <1>0, <1>k, <2>1, <2>2, <2>3, <2>4, MadeKept
<1>31. ASSUME NEW r \in Requests, ResetSave(r) PROVE Goal
  <2>1. origin' = origin /\ \A a \in Users : origin[a] = m => MadeFor(m, user'[a])
    BY <1>31, <1>0, RowMade DEF ResetSave, hist
  <2>2. \A p \in Requests \ {r} : req'[p] = req[p]
    BY <1>31 DEF ResetSave, Goto, End, Holding, ReqsOK
  <2>3. \A a \in Users : origin[a] = m => MadeReq(req'[r], m, a)
    BY <1>31, <1>k, IdleIsUnmade
       DEF ResetSave, At, Goto, End, Holding, ReqsOK, ReqOK, Searching, RequestStates,
           MadeReq, MadeFor, Moving, Cutting, Holds
  <2>4. req'[r].id # m \/ (req'[r].id = req[r].id /\ SearchFor(req'[r], m))
    BY <1>31, <1>s, IdleIsUnmade
       DEF ResetSave, At, Goto, End, Holding, ReqsOK, ReqOK, Searching, RequestStates,
           SearchFor
  <2> QED
    BY <1>0, <1>k, <2>1, <2>2, <2>3, <2>4, MadeKept
<1>32. ASSUME NEW r \in Requests, DeleteToken(r) PROVE Goal
  <2>1. UNCHANGED <<user, origin>>
    BY <1>32 DEF DeleteToken, rows, hist
  <2>2. \A p \in Requests \ {r} : req'[p] = req[p]
    BY <1>32 DEF DeleteToken, Goto, End, Holding, ReqsOK
  <2>3. \A a \in Users : origin[a] = m => MadeReq(req'[r], m, a)
    BY <1>32, <1>k, IdleIsUnmade
       DEF DeleteToken, At, Goto, End, Holding, ReqsOK, ReqOK, Searching, RequestStates,
           MadeReq, MadeFor, Moving, Cutting, Holds
  <2>4. req'[r].id # m \/ (req'[r].id = req[r].id /\ SearchFor(req'[r], m))
    BY <1>32, <1>s, IdleIsUnmade
       DEF DeleteToken, At, Goto, End, Holding, ReqsOK, ReqOK, Searching, RequestStates,
           SearchFor
  <2> QED
    BY <1>0, <1>k, <2>1, <2>2, <2>3, <2>4, MadeKept
<1>33. ASSUME NEW r \in Requests, NEW t \in Tokens, Solved(r, t) PROVE Goal
  <2>1. UNCHANGED <<user, origin>>
    BY <1>33 DEF Solved, rows, hist
  <2>2. (\A p \in Requests \ {r} : req'[p] = req[p]) /\ req'[r] = Idle
    BY <1>33 DEF Solved, End, ReqsOK
  <2> QED
    BY <1>0, <1>k, <2>1, <2>2, IdleIsUnmade, MadeKept
<1>34. ASSUME NEW r \in Requests, Unsolved(r) PROVE Goal
  <2>1. UNCHANGED <<user, origin>>
    BY <1>34 DEF Unsolved, rows, hist
  <2>2. (\A p \in Requests \ {r} : req'[p] = req[p]) /\ req'[r] = Idle
    BY <1>34 DEF Unsolved, End, ReqsOK
  <2> QED
    BY <1>0, <1>k, <2>1, <2>2, IdleIsUnmade, MadeKept
<1>35. ASSUME NEW r \in Requests, Answer(r) PROVE Goal
  <2>1. UNCHANGED <<user, origin>>
    BY <1>35 DEF Answer, rows, hist
  <2>2. (\A p \in Requests \ {r} : req'[p] = req[p]) /\ req'[r] = Idle
    BY <1>35 DEF Answer, End, ReqsOK
  <2> QED
    BY <1>0, <1>k, <2>1, <2>2, IdleIsUnmade, MadeKept
<1>36. ASSUME NEW u \in Users, Bar(u) PROVE Goal
  <2>1. UNCHANGED <<req, origin>>
    BY <1>36 DEF Bar, hist
  <2>2. \A a \in Users : MadeFor(m, user[a]) => MadeFor(m, user'[a])
    BY <1>36, UserRow DEF Bar, MadeFor, WorldOK, Rows
  <2> QED
    BY <1>0, <2>1, <2>2 DEF MadeOK, SearchFor
<1>37. ASSUME NEW u \in Users, DeleteUser(u) PROVE Goal
  <2>1. UNCHANGED <<req, origin>> /\ user[u].dom # m
    BY <1>37 DEF DeleteUser
  <2>2. \A a \in Users : MadeFor(m, user[a]) => MadeFor(m, user'[a])
    BY <1>37, <2>1 DEF DeleteUser, MadeFor, WorldOK
  <2> QED
    BY <1>0, <2>1, <2>2 DEF MadeOK, SearchFor
<1>38. ASSUME NEW p \in BOOLEAN, Crash(p) PROVE Goal
  <2>1. UNCHANGED <<user, origin>> /\ \A r \in Requests : req'[r] = Idle
    BY <1>38 DEF Crash, rows, hist
  <2> QED
    BY <1>0, <2>1, IdleIsUnmade DEF MadeOK, SearchFor
<1>39. ASSUME QuietStep PROVE Goal
  BY <1>39, <1>0, QuietRows DEF MadeOK, SearchFor
<1> HIDE DEF Goal
<1>a. Goal
  BY <1>1, <1>2, <1>3, <1>4, <1>5, <1>6, <1>7, <1>8, <1>9, <1>10, <1>11, <1>12, <1>13,
     <1>14, <1>15, <1>16, <1>17, <1>18, <1>19, <1>20, <1>21, <1>22, <1>23, <1>24, <1>25,
     <1>26, <1>27, <1>28, <1>29, <1>30, <1>31, <1>32, <1>33, <1>34, <1>35, <1>36, <1>37,
     <1>38, <1>39
     DEF TicketNext, TicketStep, Next, Start, World, ScanStep, LinkStep, QuietStep
<1> QED
  BY <1>a DEF Goal

\* MadeInv holds at the start,
LEMMA MadeInit == Init => MadeInv
<1> SUFFICES ASSUME Init PROVE MadeInv
  OBVIOUS
<1>1. \A u \in Users : UnseenOK(u)
  BY WeComAssumption DEF Init, UnseenOK, Unseen, Idle
<1>2. ASSUME NEW m \in Ids PROVE MadeOK(m)
  BY IdleIsUnmade, WeComAssumption DEF Init, MadeOK, SearchFor
<1> QED
  BY <1>1, <1>2 DEF MadeInv

\* after every step,
LEMMA MadeStepKeeps == TicketInv /\ MadeInv /\ [TicketNext]_vars => MadeInv'
<1> SUFFICES ASSUME TicketInv, MadeInv, [TicketNext]_vars PROVE MadeInv'
  OBVIOUS
<1>1. \A u \in Users : UnseenOK(u)'
  BY UnseenStep DEF UnseenOK
<1>2. \A m \in Ids \ shaky' : MadeOK(m)'
  BY MadeStep
<1> QED
  BY <1>1, <1>2 DEF MadeInv

\* and so always.
LEMMA MadeInvHolds == TicketSpec => []MadeInv
BY MadeInit, MadeStepKeeps, TicketInvHolds, PTL DEF TicketSpec

\* A member gets one account, whatever crashes between the Create and its
\* binding, unless requests overlap or the link is cut, moved or deleted: the
\* account made first keeps its domain_account, and the next scan finds it
\* (FindOrCreateUser).
THEOREM OneAccountForEach == TicketSpec => []OneAccountEach
<1>1. ASSUME MadeInv PROVE OneAccountEach
  <2>1. ASSUME NEW i \in Ids \ shaky
        PROVE  Cardinality({u \in Users : user[u].on /\ origin[u] = i}) <= 1
    <3> DEFINE S == {u \in Users : user[u].on /\ origin[u] = i}
    <3>1. \A u, v \in S : u = v
      BY <1>1, <2>1 DEF MadeInv, MadeOK
    <3>2. CASE S = {}
      BY <3>2, FS_EmptySet
    <3>3. CASE S # {}
      <4>1. PICK u \in S : TRUE
        BY <3>3
      <4>2. S = {u}
        BY <3>1, <4>1
      <4> HIDE DEF S
      <4>3. Cardinality(S) = 1
        BY <4>2, FS_Singleton
      <4> QED
        BY <4>3 DEF S
    <3> QED
      BY <3>2, <3>3
  <2> QED
    BY <2>1 DEF OneAccountEach
<1> QED
  BY <1>1, MadeInvHolds, PTL

-----------------------------------------------------------------------------
(* Accounts that were unlinked *)

\* An idle request links no account.
LEMMA IdleIsCut ==
  \A a \in Users : \A mail \in Mails \cup {NoMail} : CutReq(Idle, a, mail)
BY WeComAssumption DEF Idle, CutReq

\* An account stays unlinked when one request goes on and does not link it,
LEMMA CutKept ==
  ASSUME NEW a \in Users, NEW mail, CutAt(a, mail), NEW r \in Requests,
         CutRow(user'[a], mail),
         \A j \in Ids : binding'[j] = a => Owns(j, mail),
         \A p \in Requests \ {r} : req'[p] = req[p],
         CutReq(req'[r], a, mail)
  PROVE  CutAt(a, mail)'
BY DEF CutAt

\* and when a request begins that does not.
LEMMA CutBegun ==
  ASSUME ReqsOK, NEW a \in Users, NEW mail, CutAt(a, mail), NEW r \in Requests,
         NEW q \in RequestStates, Begin(r, q), UNCHANGED rows, CutReq(q, a, mail)
  PROVE  CutAt(a, mail)'
<1>1. \A s \in RequestStates : \A b \in BOOLEAN :
        CutReq(s, a, mail) => CutReq([s EXCEPT !.solo = b], a, mail)
  BY DEF CutReq, Moving, Holds, RequestStates
<1>2. ASSUME NEW p \in Requests PROVE CutReq(req'[p], a, mail)
  <2>1. PICK s \in RequestStates : s = req[p] /\ CutReq(s, a, mail)
    BY DEF CutAt, ReqsOK
  <2>2. PICK b \in BOOLEAN : b = Alone(r)
    BY DEF Alone
  <2>3. req'[p] = IF p = r THEN [q EXCEPT !.solo = b] ELSE [s EXCEPT !.solo = FALSE]
    BY <2>1, <2>2 DEF Begin
  <2> QED
    BY <1>1, <2>1, <2>3
<1> QED
  BY <1>2 DEF CutAt, rows

\* A save of an unlinked account's row does not link it again.
LEMMA RowCut ==
  ASSUME TicketInv, NEW a \in Users, NEW mail \in Mails \cup {NoMail}, CutAt(a, mail),
         NEW r \in Requests
  PROVE  /\ Depart(r) \/ Stamp(r) \/ Backfill(r) \/ WriteOwner(r) \/ ResetSave(r) =>
              CutRow(user'[a], mail)
         /\ Stamp(r) /\ req[r].u = a => CutRow(StampRow(req[r]), mail)
<1> USE DEF TicketInv
<1>1. CutRow(user[a], mail) /\ CutReq(req[r], a, mail)
  BY DEF CutAt
<1>2. ASSUME NEW row \in Rows, user' = Saved(req[r].u, row), req[r].u \in Users,
             req[r].u = a => CutRow(row, mail)
      PROVE  CutRow(user'[a], mail)
  BY <1>1, <1>2, SavedRow
<1>3. \A row \in Rows : CutRow(row, mail) =>
        CutRow([row EXCEPT !.barred = TRUE], mail) /\ CutRow([row EXCEPT !.placed = TRUE], mail)
  BY DEF CutRow, Rows
<1>4. ASSUME Depart(r) PROVE CutRow(user'[a], mail)
  <2>1. /\ req[r].u \in Users /\ req[r].row \in Rows /\ Holds(req[r])
        /\ user' = Saved(req[r].u, [req[r].row EXCEPT !.barred = TRUE])
    BY <1>4, AtHand DEF Depart, At, Holds
  <2>2. req[r].u = a => CutRow([req[r].row EXCEPT !.barred = TRUE], mail)
    BY <1>1, <1>3, <2>1 DEF CutReq
  <2> QED
    BY <1>2, <2>1, <2>2, BarredFits
<1>5. ASSUME Stamp(r)
      PROVE  CutRow(user'[a], mail) /\ (req[r].u = a => CutRow(StampRow(req[r]), mail))
  <2>1. /\ req[r].u \in Users /\ req[r].row \in Rows /\ Holds(req[r])
        /\ req[r].id \in Ids /\ user' = Saved(req[r].u, StampRow(req[r]))
        /\ req[r].op = "login" /\ req[r].pc = "apply"
    BY <1>5, AtHand DEF Stamp, StampRow, At, Holds, Searching
  <2>2. StampRow(req[r]) \in Rows
    BY <2>1, DomainFits DEF StampRow
  <2>3. req[r].u = a => CutRow(req[r].row, mail) /\ Owns(req[r].id, mail)
    BY <1>1, <2>1 DEF CutReq, Decided
  <2>4. req[r].u = a => CutRow(StampRow(req[r]), mail)
    BY <2>1, <2>3 DEF StampRow, CutRow, Rows
  <2> QED
    BY <1>2, <2>1, <2>2, <2>4
<1>6. ASSUME Backfill(r) PROVE CutRow(user'[a], mail)
  <2>1. /\ req[r].u \in Users /\ req[r].row \in Rows /\ Holds(req[r])
        /\ \/ user' = user
           \/ user' = Saved(req[r].u, [req[r].row EXCEPT !.placed = TRUE])
    BY <1>6, AtHand DEF Backfill, At, Holds
  <2>2. req[r].u = a => CutRow([req[r].row EXCEPT !.placed = TRUE], mail)
    BY <1>1, <1>3, <2>1 DEF CutReq
  <2> QED
    BY <1>1, <1>2, <2>1, <2>2, BarredFits
<1>7. ASSUME WriteOwner(r) PROVE CutRow(user'[a], mail)
  <2>1. /\ req[r].u \in Users /\ req[r].row \in Rows /\ Holds(req[r])
        /\ user' = Saved(req[r].u, SetDomain(r)) /\ SetDomain(r) \in Rows
    BY <1>7, AtHand, DomainFits DEF WriteOwner, At, SetDomain, Holds
  <2>2. req[r].u = a => req[r].id = NoId /\ CutRow(req[r].row, mail)
    BY <1>1, <1>7, <2>1 DEF CutReq, Moving, WriteOwner, At, ReqsOK, ReqOK
  <2>3. req[r].u = a => CutRow(SetDomain(r), mail)
    BY <2>1, <2>2, WeComAssumption DEF SetDomain, CutRow, Rows
  <2> QED
    BY <1>2, <2>1, <2>3
<1>8. ASSUME ResetSave(r) PROVE CutRow(user'[a], mail)
  <2>1. /\ req[r].u \in Users /\ req[r].row \in Rows /\ Holds(req[r])
        /\ user' = Saved(req[r].u, req[r].row)
    BY <1>8, AtHand DEF ResetSave, At, Holds
  <2>2. req[r].u = a => CutRow(req[r].row, mail)
    BY <1>1, <2>1 DEF CutReq
  <2> QED
    BY <1>2, <2>1, <2>2
<1> QED
  BY <1>4, <1>5, <1>6, <1>7, <1>8

\* What was true of an unlinked account stays true until it is bound again.
LEMMA CutStep ==
  ASSUME TicketInv, LinkInv, MadeInv, CutInv, [TicketNext]_vars, NEW a \in cut', a \in cut
  PROVE  CutAt(a, user[a].mail)'
<1> USE DEF TicketInv
<1>0. PICK mail : mail = user[a].mail
  OBVIOUS
<1>c. /\ CutAt(a, mail) /\ a \in Users /\ mail \in Mails \cup {NoMail}
      /\ CutRow(user[a], mail) /\ \A j \in Ids : binding[j] = a => Owns(j, mail)
  BY <1>0, WeComAssumption, UserRow DEF CutInv, CutAt, CutRow, WorldOK, Rows
<1>k. \A r \in Requests : CutReq(req[r], a, mail)
  BY <1>c DEF CutAt
<1> DEFINE Goal == CutAt(a, mail)'
<1>1. ASSUME NEW r \in Requests, NEW t \in Tokens, Callback(r, t) PROVE Goal
  <2>1. UNCHANGED rows
    BY <1>1 DEF Callback
  <2>2. PICK q : q = [Idle EXCEPT !.pc = "del", !.op = tok[t].kind, !.t = t]
    OBVIOUS
  <2>3. q \in RequestStates
    BY <1>1, <2>2, IdleFits, WeComAssumption DEF Callback, RequestStates, Idle, TokensOK
  <2>4. Begin(r, q)
    BY <1>1, <2>2 DEF Callback
  <2>5. CutReq(q, a, mail)
    BY <1>1, <1>c, <2>1, <2>2, WeComAssumption
       DEF Callback, CutReq, Moving, Decided, Holds, Idle, TokensOK
  <2> QED
    BY <1>c, <2>1, <2>3, <2>4, <2>5, CutBegun
<1>2. ASSUME NEW r \in Requests, CallbackFixed(r) PROVE Goal
  <2>1. UNCHANGED rows
    BY <1>2 DEF CallbackFixed
  <2>2. PICK q : q = [Idle EXCEPT !.pc = "code", !.op = "login"]
    OBVIOUS
  <2>3. q \in RequestStates
    BY <1>2, <2>2, IdleFits, WeComAssumption
       DEF CallbackFixed, RequestStates, Idle, TokensOK
  <2>4. Begin(r, q)
    BY <1>2, <2>2 DEF CallbackFixed
  <2>5. CutReq(q, a, mail)
    BY <1>2, <1>c, <2>1, <2>2, WeComAssumption
       DEF CallbackFixed, CutReq, Moving, Decided, Holds, Idle, TokensOK
  <2> QED
    BY <1>c, <2>1, <2>3, <2>4, <2>5, CutBegun
<1>3. ASSUME NEW r \in Requests, NEW u \in Users, NEW i \in Ids, StartBind(r, u, i)
      PROVE  Goal
  <2>1. UNCHANGED rows /\ a # u
    BY <1>3 DEF StartBind
  <2>2. PICK q : q = [Idle EXCEPT !.pc = "release", !.op = "put", !.id = i, !.u = u]
    OBVIOUS
  <2>3. q \in RequestStates
    BY <1>3, <2>2, IdleFits, WeComAssumption DEF StartBind, RequestStates, Idle, TokensOK
  <2>4. Begin(r, q)
    BY <1>3, <2>2 DEF StartBind
  <2>5. CutReq(q, a, mail)
    BY <1>3, <1>c, <2>1, <2>2, WeComAssumption
       DEF StartBind, CutReq, Moving, Decided, Holds, Idle, TokensOK
  <2> QED
    BY <1>c, <2>1, <2>3, <2>4, <2>5, CutBegun
<1>4. ASSUME NEW r \in Requests, NEW u \in Users, StartUnbind(r, u) PROVE Goal
  <2>1. UNCHANGED rows
    BY <1>4 DEF StartUnbind
  <2>2. PICK q : q = [Idle EXCEPT !.pc = "unlink", !.op = "cut", !.u = u]
    OBVIOUS
  <2>3. q \in RequestStates
    BY <1>4, <2>2, IdleFits, WeComAssumption DEF StartUnbind, RequestStates, Idle, TokensOK
  <2>4. Begin(r, q)
    BY <1>4, <2>2 DEF StartUnbind
  <2>5. CutReq(q, a, mail)
    BY <1>4, <1>c, <2>1, <2>2, WeComAssumption
       DEF StartUnbind, CutReq, Moving, Decided, Holds, Idle, TokensOK
  <2> QED
    BY <1>c, <2>1, <2>3, <2>4, <2>5, CutBegun
<1>5. ASSUME NEW r \in Requests, NEW u \in Users, ForgotPassword(r, u) PROVE Goal
  <2>1. UNCHANGED rows
    BY <1>5 DEF ForgotPassword
  <2>2. PICK q : q = [Idle EXCEPT !.pc = "send", !.op = "forgot", !.u = u]
    OBVIOUS
  <2>3. q \in RequestStates
    BY <1>5, <2>2, IdleFits, WeComAssumption
       DEF ForgotPassword, RequestStates, Idle, TokensOK
  <2>4. Begin(r, q)
    BY <1>5, <2>2 DEF ForgotPassword
  <2>5. CutReq(q, a, mail)
    BY <1>5, <1>c, <2>1, <2>2, WeComAssumption
       DEF ForgotPassword, CutReq, Moving, Decided, Holds, Idle, TokensOK
  <2> QED
    BY <1>c, <2>1, <2>3, <2>4, <2>5, CutBegun
<1>6. ASSUME NEW r \in Requests, NEW t \in Tokens, ResetPassword(r, t) PROVE Goal
  <2>1. UNCHANGED rows
    BY <1>6 DEF ResetPassword
  <2>2. PICK q : q = [Idle EXCEPT !.pc = "tread", !.op = "reset", !.t = t, !.u = tok[t].u]
    OBVIOUS
  <2>3. q \in RequestStates
    BY <1>6, <2>2, IdleFits, WeComAssumption
       DEF ResetPassword, RequestStates, Idle, TokensOK
  <2>4. Begin(r, q)
    BY <1>6, <2>2 DEF ResetPassword
  <2>5. CutReq(q, a, mail)
    BY <1>6, <1>c, <2>1, <2>2, WeComAssumption
       DEF ResetPassword, CutReq, Moving, Decided, Holds, Idle, TokensOK
  <2> QED
    BY <1>c, <2>1, <2>3, <2>4, <2>5, CutBegun
<1>7. ASSUME NEW r \in Requests, NEW t \in Tokens, Present(r, t) PROVE Goal
  <2>1. UNCHANGED rows
    BY <1>7 DEF Present
  <2>2. PICK q : q = [Idle EXCEPT !.pc = "del", !.op = tok[t].kind, !.t = t]
    OBVIOUS
  <2>3. q \in RequestStates
    BY <1>7, <2>2, IdleFits, WeComAssumption DEF Present, RequestStates, Idle, TokensOK
  <2>4. Begin(r, q)
    BY <1>7, <2>2 DEF Present
  <2>5. CutReq(q, a, mail)
    BY <1>7, <1>c, <2>1, <2>2, WeComAssumption
       DEF Present, CutReq, Moving, Decided, Holds, Idle, TokensOK
  <2> QED
    BY <1>c, <2>1, <2>3, <2>4, <2>5, CutBegun
<1>8. ASSUME NEW r \in Requests, ConsumeState(r) PROVE Goal
  <2>1. CutRow(user'[a], mail)
    BY <1>8, <1>c DEF ConsumeState, rows
  <2>2. \A j \in Ids : binding'[j] = a => Owns(j, mail)
    BY <1>8, <1>c DEF ConsumeState, rows
  <2>3. \A p \in Requests \ {r} : req'[p] = req[p]
    BY <1>8 DEF ConsumeState, Goto, End, Holding, ReqsOK
  <2>4. CutReq(req'[r], a, mail)
    BY <1>8, <1>c, <1>k, IdleIsCut, WeComAssumption
       DEF ConsumeState, At, Goto, End, Holding, ReqsOK, ReqOK, Searching, RequestStates,
           CutReq, Moving, Decided, Holds
  <2> QED
    BY <1>c, <2>1, <2>2, <2>3, <2>4, CutKept
<1>9. ASSUME NEW r \in Requests, Abandon(r) PROVE Goal
  <2>1. CutRow(user'[a], mail)
    BY <1>9, <1>c DEF Abandon, rows
  <2>2. \A j \in Ids : binding'[j] = a => Owns(j, mail)
    BY <1>9, <1>c DEF Abandon, rows
  <2>3. (\A p \in Requests \ {r} : req'[p] = req[p]) /\ req'[r] = Idle
    BY <1>9 DEF Abandon, End, ReqsOK
  <2> QED
    BY <1>c, <2>1, <2>2, <2>3, IdleIsCut, CutKept
<1>10. ASSUME NEW r \in Requests, NEW i \in Ids, NEW detail \in BOOLEAN, ResolveCode(r, i,
              detail)
       PROVE  Goal
  <2>1. CutRow(user'[a], mail)
    BY <1>10, <1>c DEF ResolveCode, rows
  <2>2. \A j \in Ids : binding'[j] = a => Owns(j, mail)
    BY <1>10, <1>c DEF ResolveCode, rows
  <2>3. \A p \in Requests \ {r} : req'[p] = req[p]
    BY <1>10 DEF ResolveCode, Goto, End, Holding, ReqsOK
  <2>4. CutReq(req'[r], a, mail)
    BY <1>10, <1>c, <1>k, IdleIsCut, WeComAssumption
       DEF ResolveCode, At, Goto, End, Holding, ReqsOK, ReqOK, Searching, RequestStates,
           CutReq, Moving, Decided, Holds
  <2> QED
    BY <1>c, <2>1, <2>2, <2>3, <2>4, CutKept
<1>11. ASSUME NEW r \in Requests, NEW i \in Ids, NEW u \in Users, ResolveBind(r, i, u)
       PROVE  Goal
  <2>1. CutRow(user'[a], mail)
    BY <1>11, <1>c DEF ResolveBind, rows
  <2>2. \A j \in Ids : binding'[j] = a => Owns(j, mail)
    BY <1>11, <1>c DEF ResolveBind, rows
  <2>3. (\A p \in Requests \ {r} : req'[p] = req[p]) /\ a # u /\ req'[r].u = u
    BY <1>11 DEF ResolveBind, ReqsOK, RequestStates
  <2>4. CutReq(req'[r], a, mail)
    BY <2>3 DEF CutReq
  <2> QED
    BY <1>c, <2>1, <2>2, <2>3, <2>4, CutKept
<1>12. ASSUME NEW r \in Requests, FindBinding(r) PROVE Goal
  <2>1. CutRow(user'[a], mail)
    BY <1>12, <1>c DEF FindBinding, rows
  <2>2. \A j \in Ids : binding'[j] = a => Owns(j, mail)
    BY <1>12, <1>c DEF FindBinding, rows
  <2>3. \A p \in Requests \ {r} : req'[p] = req[p]
    BY <1>12 DEF FindBinding, Goto, Holding, ReqsOK
  <2>4. req[r].op = "login" /\ req[r].id \in Ids
    BY <1>12 DEF FindBinding, At, ReqsOK, ReqOK, Searching
  <2>5. /\ req'[r].op = req[r].op /\ req'[r].id = req[r].id
        /\ \/ req'[r].pc = "domain"
           \/ req'[r].pc = "load" /\ req'[r].u = binding[req[r].id]
    BY <1>12 DEF FindBinding, Goto, Holding, ReqsOK, RequestStates
  <2>6. CutReq(req'[r], a, mail)
    BY <1>c, <2>4, <2>5 DEF CutReq, Moving, Decided, Holds
  <2> QED
    BY <1>c, <2>1, <2>2, <2>3, <2>6, CutKept
<1>13. ASSUME NEW r \in Requests, LoadBound(r) PROVE Goal
  <2>1. CutRow(user'[a], mail)
    BY <1>13, <1>c DEF LoadBound, rows
  <2>2. \A j \in Ids : binding'[j] = a => Owns(j, mail)
    BY <1>13, <1>c DEF LoadBound, rows
  <2>3. \A p \in Requests \ {r} : req'[p] = req[p]
    BY <1>13 DEF LoadBound, Goto, End, Holding, ReqsOK
  <2>4. CutReq(req'[r], a, mail)
    BY <1>13, <1>c, <1>k, IdleIsCut, WeComAssumption
       DEF LoadBound, At, Goto, End, Holding, ReqsOK, ReqOK, Searching, RequestStates,
           CutReq, Moving, Decided, Holds
  <2> QED
    BY <1>c, <2>1, <2>2, <2>3, <2>4, CutKept
<1>14. ASSUME NEW r \in Requests, FindDomain(r) PROVE Goal
  <2>1. CutRow(user'[a], mail)
    BY <1>14, <1>c DEF FindDomain, rows
  <2>2. \A j \in Ids : binding'[j] = a => Owns(j, mail)
    BY <1>14, <1>c DEF FindDomain, rows
  <2>p. req[r].op = "login" /\ req[r].id \in Ids
    BY <1>14 DEF FindDomain, At, ReqsOK, ReqOK, Searching
  <2>3. ASSUME NEW u \in WithDomain(req[r].id), Holding(r, "apply", u, user[u], "domain")
        PROVE  Goal
    <3>1. /\ \A p \in Requests \ {r} : req'[p] = req[p]
          /\ req'[r].op = "login" /\ req'[r].pc = "apply" /\ req'[r].u = u
          /\ req'[r].row = user[u] /\ req'[r].id = req[r].id
      BY <2>p, <2>3 DEF Holding, ReqsOK, RequestStates
    <3>2. u = a => Owns(req[r].id, mail)
      BY <1>c, <2>p, <2>3 DEF WithDomain, CutRow, Owns
    <3>3. CutReq(req'[r], a, mail)
      BY <1>c, <3>1, <3>2 DEF CutReq, Moving
    <3> QED
      BY <1>c, <2>1, <2>2, <3>1, <3>3, CutKept
  <2>4. ASSUME Goto(r, "mail") PROVE Goal
    <3>1. /\ \A p \in Requests \ {r} : req'[p] = req[p]
          /\ req'[r].op = "login" /\ req'[r].pc = "mail"
      BY <2>p, <2>4 DEF Goto, ReqsOK, RequestStates
    <3>2. CutReq(req'[r], a, mail)
      BY <3>1 DEF CutReq, Moving, Decided, Holds
    <3> QED
      BY <1>c, <2>1, <2>2, <3>1, <3>2, CutKept
  <2>5. ASSUME End(r) PROVE Goal
    <3>1. (\A p \in Requests \ {r} : req'[p] = req[p]) /\ req'[r] = Idle
      BY <2>5 DEF End, ReqsOK
    <3> QED
      BY <1>c, <2>1, <2>2, <3>1, IdleIsCut, CutKept
  <2> HIDE DEF Goal
  <2> QED
    BY <1>14, <2>3, <2>4, <2>5 DEF FindDomain
<1>15. ASSUME NEW r \in Requests, FindMail(r) PROVE Goal
  <2>1. CutRow(user'[a], mail)
    BY <1>15, <1>c DEF FindMail, rows
  <2>2. \A j \in Ids : binding'[j] = a => Owns(j, mail)
    BY <1>15, <1>c DEF FindMail, rows
  <2>p. req[r].op = "login" /\ req[r].id \in Ids
    BY <1>15 DEF FindMail, At, ReqsOK, ReqOK, Searching
  <2>3. ASSUME NEW u \in WithMail(req[r].id), Holding(r, "apply", u, user[u], "mail")
        PROVE  Goal
    <3>1. /\ \A p \in Requests \ {r} : req'[p] = req[p]
          /\ req'[r].op = "login" /\ req'[r].pc = "apply" /\ req'[r].u = u
          /\ req'[r].row = user[u] /\ req'[r].id = req[r].id
      BY <2>p, <2>3 DEF Holding, ReqsOK, RequestStates
    <3>2. u = a => Owns(req[r].id, mail)
      BY <1>c, <2>p, <2>3 DEF WithMail, CutRow, Owns
    <3>3. CutReq(req'[r], a, mail)
      BY <1>c, <3>1, <3>2 DEF CutReq, Moving
    <3> QED
      BY <1>c, <2>1, <2>2, <3>1, <3>3, CutKept
  <2>4. ASSUME Goto(r, "name") PROVE Goal
    <3>1. /\ \A p \in Requests \ {r} : req'[p] = req[p]
          /\ req'[r].op = "login" /\ req'[r].pc = "name"
      BY <2>p, <2>4 DEF Goto, ReqsOK, RequestStates
    <3>2. CutReq(req'[r], a, mail)
      BY <3>1 DEF CutReq, Moving, Decided, Holds
    <3> QED
      BY <1>c, <2>1, <2>2, <3>1, <3>2, CutKept
  <2>5. ASSUME End(r) PROVE Goal
    <3>1. (\A p \in Requests \ {r} : req'[p] = req[p]) /\ req'[r] = Idle
      BY <2>5 DEF End, ReqsOK
    <3> QED
      BY <1>c, <2>1, <2>2, <3>1, IdleIsCut, CutKept
  <2> HIDE DEF Goal
  <2> QED
    BY <1>15, <2>3, <2>4, <2>5 DEF FindMail
<1>16. ASSUME NEW r \in Requests, Depart(r) PROVE Goal
  <2>1. CutRow(user'[a], mail)
    BY <1>16, <1>c, RowCut
  <2>2. \A j \in Ids : binding'[j] = a => Owns(j, mail)
    BY <1>16, <1>c DEF Depart, rows
  <2>3. (\A p \in Requests \ {r} : req'[p] = req[p]) /\ req'[r] = Idle
    BY <1>16 DEF Depart, End, ReqsOK
  <2> QED
    BY <1>c, <2>1, <2>2, <2>3, IdleIsCut, CutKept
<1>17. ASSUME NEW r \in Requests, Stamp(r) PROVE Goal
  <2>1. CutRow(user'[a], mail)
    BY <1>17, <1>c, RowCut
  <2>2. \A j \in Ids : binding'[j] = a => Owns(j, mail)
    BY <1>17, <1>c DEF Stamp, rows
  <2>3. \A p \in Requests \ {r} : req'[p] = req[p]
    BY <1>17 DEF Stamp, Holding, ReqsOK
  <2>4. /\ req[r].op = "login" /\ req'[r].op = "login" /\ req'[r].id = req[r].id
        /\ req'[r].u = req[r].u /\ req'[r].row = StampRow(req[r])
        /\ req'[r].pc \in {"backfill", "upread"} /\ req[r].pc = "apply"
    BY <1>17 DEF Stamp, Holding, StampRow, At, ReqsOK, ReqOK, Searching, RequestStates
  <2>5. CutReq(req'[r], a, mail)
    BY <1>17, <1>c, <1>k, <2>4, RowCut DEF CutReq, Moving, Decided
  <2> QED
    BY <1>c, <2>1, <2>2, <2>3, <2>5, CutKept
<1>18. ASSUME NEW r \in Requests, TryName(r) PROVE Goal
  <2>1. CutRow(user'[a], mail)
    BY <1>18, <1>c DEF TryName, rows
  <2>2. \A j \in Ids : binding'[j] = a => Owns(j, mail)
    BY <1>18, <1>c DEF TryName, rows
  <2>3. \A p \in Requests \ {r} : req'[p] = req[p]
    BY <1>18 DEF TryName, Goto, End, Holding, ReqsOK
  <2>4. CutReq(req'[r], a, mail)
    BY <1>18, <1>c, <1>k, IdleIsCut, WeComAssumption
       DEF TryName, At, Goto, End, Holding, ReqsOK, ReqOK, Searching, RequestStates, CutReq,
           Moving, Decided, Holds
  <2> QED
    BY <1>c, <2>1, <2>2, <2>3, <2>4, CutKept
<1>19. ASSUME NEW r \in Requests, NEW u \in Users, Create(r, u) PROVE Goal
  <2>u. u # a
    BY <1>19, <1>c, UnseenIsNobody DEF Create, CutRow
  <2>1. CutRow(user'[a], mail)
    BY <1>19, <1>c, <2>u DEF Create, WorldOK
  <2>2. binding' = binding
    BY <1>19 DEF Create
  <2>3. \A p \in Requests \ {r} : req'[p] = req[p]
    BY <1>19 DEF Create, End, Holding, ReqsOK
  <2>4. CutReq(req'[r], a, mail)
    BY <1>19, <1>c, <2>u, IdleIsCut DEF Create, End, Holding, CutReq, ReqsOK, RequestStates
  <2> QED
    BY <1>c, <2>1, <2>2, <2>3, <2>4, CutKept
<1>20. ASSUME NEW r \in Requests, Backfill(r) PROVE Goal
  <2>1. CutRow(user'[a], mail)
    BY <1>20, <1>c, RowCut
  <2>2. \A j \in Ids : binding'[j] = a => Owns(j, mail)
    BY <1>20, <1>c DEF Backfill, rows
  <2>3. \A p \in Requests \ {r} : req'[p] = req[p]
    BY <1>20 DEF Backfill, Goto, End, Holding, ReqsOK
  <2>4. CutReq(req'[r], a, mail)
    BY <1>20, <1>c, <1>k, IdleIsCut, WeComAssumption
       DEF Backfill, At, Goto, End, Holding, ReqsOK, ReqOK, Searching, RequestStates,
           CutReq, Moving, Decided, Holds
  <2> QED
    BY <1>c, <2>1, <2>2, <2>3, <2>4, CutKept
<1>21. ASSUME NEW r \in Requests, Refuse(r) PROVE Goal
  <2>1. CutRow(user'[a], mail)
    BY <1>21, <1>c DEF Refuse, rows
  <2>2. \A j \in Ids : binding'[j] = a => Owns(j, mail)
    BY <1>21, <1>c DEF Refuse, rows
  <2>3. (\A p \in Requests \ {r} : req'[p] = req[p]) /\ req'[r] = Idle
    BY <1>21 DEF Refuse, End, ReqsOK
  <2> QED
    BY <1>c, <2>1, <2>2, <2>3, IdleIsCut, CutKept
<1>22. ASSUME NEW r \in Requests, Enter(r) PROVE Goal
  <2>1. CutRow(user'[a], mail)
    BY <1>22, <1>c DEF Enter, rows
  <2>2. \A j \in Ids : binding'[j] = a => Owns(j, mail)
    BY <1>22, <1>c DEF Enter, rows
  <2>3. (\A p \in Requests \ {r} : req'[p] = req[p]) /\ req'[r] = Idle
    BY <1>22 DEF Enter, End, ReqsOK
  <2> QED
    BY <1>c, <2>1, <2>2, <2>3, IdleIsCut, CutKept
<1>23. ASSUME NEW r \in Requests, UpsertRead(r) PROVE Goal
  <2>1. CutRow(user'[a], mail)
    BY <1>23, <1>c DEF UpsertRead, rows
  <2>2. \A j \in Ids : binding'[j] = a => Owns(j, mail)
    BY <1>23, <1>c DEF UpsertRead, rows
  <2>3. \A p \in Requests \ {r} : req'[p] = req[p]
    BY <1>23 DEF UpsertRead, Goto, End, Holding, ReqsOK
  <2>4. CutReq(req'[r], a, mail)
    BY <1>23, <1>c, <1>k, IdleIsCut, WeComAssumption
       DEF UpsertRead, At, Goto, End, Holding, ReqsOK, ReqOK, Searching, RequestStates,
           CutReq, Moving, Decided, Holds
  <2> QED
    BY <1>c, <2>1, <2>2, <2>3, <2>4, CutKept
<1>24. ASSUME NEW r \in Requests, UpsertWrite(r) PROVE Goal
  <2>1. CutRow(user'[a], mail)
    BY <1>24, <1>c DEF UpsertWrite, rows
  <2>2. \A j \in Ids : binding'[j] = a => Owns(j, mail)
    BY <1>24, <1>c, <1>k, WeComAssumption
       DEF UpsertWrite, CutReq, Moving, Decided, At, ReqsOK, ReqOK, WorldOK
  <2>3. \A p \in Requests \ {r} : req'[p] = req[p]
    BY <1>24 DEF UpsertWrite, Goto, End, Holding, ReqsOK
  <2>4. CutReq(req'[r], a, mail)
    BY <1>24, <1>c, <1>k, IdleIsCut, WeComAssumption
       DEF UpsertWrite, At, Goto, End, Holding, ReqsOK, ReqOK, Searching, RequestStates,
           CutReq, Moving, Decided, Holds
  <2> QED
    BY <1>c, <2>1, <2>2, <2>3, <2>4, CutKept
<1>25. ASSUME NEW r \in Requests, Release(r) PROVE Goal
  <2>1. CutRow(user'[a], mail)
    BY <1>25, <1>c DEF Release, rows
  <2>2. \A j \in Ids : binding'[j] = a => Owns(j, mail)
    BY <1>25, <1>c, <1>k, WeComAssumption
       DEF Release, CutReq, Moving, Decided, At, ReqsOK, ReqOK, WorldOK
  <2>3. \A p \in Requests \ {r} : req'[p] = req[p]
    BY <1>25 DEF Release, Goto, End, Holding, ReqsOK
  <2>4. CutReq(req'[r], a, mail)
    BY <1>25, <1>c, <1>k, IdleIsCut, WeComAssumption
       DEF Release, At, Goto, End, Holding, ReqsOK, ReqOK, Searching, RequestStates, CutReq,
           Moving, Decided, Holds
  <2> QED
    BY <1>c, <2>1, <2>2, <2>3, <2>4, CutKept
<1>26. ASSUME NEW r \in Requests, Unlink(r) PROVE Goal
  <2>1. CutRow(user'[a], mail)
    BY <1>26, <1>c DEF Unlink, rows
  <2>2. \A j \in Ids : binding'[j] = a => Owns(j, mail)
    BY <1>26, <1>c, <1>k, WeComAssumption
       DEF Unlink, CutReq, Moving, Decided, At, ReqsOK, ReqOK, WorldOK
  <2>3. \A p \in Requests \ {r} : req'[p] = req[p]
    BY <1>26 DEF Unlink, Goto, End, Holding, ReqsOK
  <2>4. CutReq(req'[r], a, mail)
    BY <1>26, <1>c, <1>k, IdleIsCut, WeComAssumption
       DEF Unlink, At, Goto, End, Holding, ReqsOK, ReqOK, Searching, RequestStates, CutReq,
           Moving, Decided, Holds
  <2> QED
    BY <1>c, <2>1, <2>2, <2>3, <2>4, CutKept
<1>27. ASSUME NEW r \in Requests, ReadOwner(r) PROVE Goal
  <2>1. CutRow(user'[a], mail)
    BY <1>27, <1>c DEF ReadOwner, rows
  <2>2. \A j \in Ids : binding'[j] = a => Owns(j, mail)
    BY <1>27, <1>c DEF ReadOwner, rows
  <2>3. \A p \in Requests \ {r} : req'[p] = req[p]
    BY <1>27 DEF ReadOwner, Goto, End, Holding, ReqsOK
  <2>4. CutReq(req'[r], a, mail)
    BY <1>27, <1>c, <1>k, IdleIsCut, WeComAssumption
       DEF ReadOwner, At, Goto, End, Holding, ReqsOK, ReqOK, Searching, RequestStates,
           CutReq, Moving, Decided, Holds
  <2> QED
    BY <1>c, <2>1, <2>2, <2>3, <2>4, CutKept
<1>28. ASSUME NEW r \in Requests, WriteOwner(r) PROVE Goal
  <2>1. CutRow(user'[a], mail)
    BY <1>28, <1>c, RowCut
  <2>2. \A j \in Ids : binding'[j] = a => Owns(j, mail)
    BY <1>28, <1>c DEF WriteOwner, rows
  <2>3. (\A p \in Requests \ {r} : req'[p] = req[p]) /\ req'[r] = Idle
    BY <1>28 DEF WriteOwner, End, ReqsOK
  <2> QED
    BY <1>c, <2>1, <2>2, <2>3, IdleIsCut, CutKept
<1>29. ASSUME NEW r \in Requests, NEW t \in Tokens, SendResetMail(r, t) PROVE Goal
  <2>1. CutRow(user'[a], mail)
    BY <1>29, <1>c DEF SendResetMail, rows
  <2>2. \A j \in Ids : binding'[j] = a => Owns(j, mail)
    BY <1>29, <1>c DEF SendResetMail, rows
  <2>3. (\A p \in Requests \ {r} : req'[p] = req[p]) /\ req'[r] = Idle
    BY <1>29 DEF SendResetMail, End, ReqsOK
  <2> QED
    BY <1>c, <2>1, <2>2, <2>3, IdleIsCut, CutKept
<1>30. ASSUME NEW r \in Requests, ResetRead(r) PROVE Goal
  <2>1. CutRow(user'[a], mail)
    BY <1>30, <1>c DEF ResetRead, rows
  <2>2. \A j \in Ids : binding'[j] = a => Owns(j, mail)
    BY <1>30, <1>c DEF ResetRead, rows
  <2>3. \A p \in Requests \ {r} : req'[p] = req[p]
    BY <1>30 DEF ResetRead, Goto, End, Holding, ReqsOK
  <2>4. CutReq(req'[r], a, mail)
    BY <1>30, <1>c, <1>k, IdleIsCut, WeComAssumption
       DEF ResetRead, At, Goto, End, Holding, ReqsOK, ReqOK, Searching, RequestStates,
           CutReq, Moving, Decided, Holds
  <2> QED
    BY <1>c, <2>1, <2>2, <2>3, <2>4, CutKept
<1>31. ASSUME NEW r \in Requests, ResetSave(r) PROVE Goal
  <2>1. CutRow(user'[a], mail)
    BY <1>31, <1>c, RowCut
  <2>2. \A j \in Ids : binding'[j] = a => Owns(j, mail)
    BY <1>31, <1>c DEF ResetSave, rows
  <2>3. \A p \in Requests \ {r} : req'[p] = req[p]
    BY <1>31 DEF ResetSave, Goto, End, Holding, ReqsOK
  <2>4. CutReq(req'[r], a, mail)
    BY <1>31, <1>c, <1>k, IdleIsCut, WeComAssumption
       DEF ResetSave, At, Goto, End, Holding, ReqsOK, ReqOK, Searching, RequestStates,
           CutReq, Moving, Decided, Holds
  <2> QED
    BY <1>c, <2>1, <2>2, <2>3, <2>4, CutKept
<1>32. ASSUME NEW r \in Requests, DeleteToken(r) PROVE Goal
  <2>1. CutRow(user'[a], mail)
    BY <1>32, <1>c DEF DeleteToken, rows
  <2>2. \A j \in Ids : binding'[j] = a => Owns(j, mail)
    BY <1>32, <1>c DEF DeleteToken, rows
  <2>3. \A p \in Requests \ {r} : req'[p] = req[p]
    BY <1>32 DEF DeleteToken, Goto, End, Holding, ReqsOK
  <2>4. CutReq(req'[r], a, mail)
    BY <1>32, <1>c, <1>k, IdleIsCut, WeComAssumption
       DEF DeleteToken, At, Goto, End, Holding, ReqsOK, ReqOK, Searching, RequestStates,
           CutReq, Moving, Decided, Holds
  <2> QED
    BY <1>c, <2>1, <2>2, <2>3, <2>4, CutKept
<1>33. ASSUME NEW r \in Requests, NEW t \in Tokens, Solved(r, t) PROVE Goal
  <2>1. CutRow(user'[a], mail)
    BY <1>33, <1>c DEF Solved, rows
  <2>2. \A j \in Ids : binding'[j] = a => Owns(j, mail)
    BY <1>33, <1>c DEF Solved, rows
  <2>3. (\A p \in Requests \ {r} : req'[p] = req[p]) /\ req'[r] = Idle
    BY <1>33 DEF Solved, End, ReqsOK
  <2> QED
    BY <1>c, <2>1, <2>2, <2>3, IdleIsCut, CutKept
<1>34. ASSUME NEW r \in Requests, Unsolved(r) PROVE Goal
  <2>1. CutRow(user'[a], mail)
    BY <1>34, <1>c DEF Unsolved, rows
  <2>2. \A j \in Ids : binding'[j] = a => Owns(j, mail)
    BY <1>34, <1>c DEF Unsolved, rows
  <2>3. (\A p \in Requests \ {r} : req'[p] = req[p]) /\ req'[r] = Idle
    BY <1>34 DEF Unsolved, End, ReqsOK
  <2> QED
    BY <1>c, <2>1, <2>2, <2>3, IdleIsCut, CutKept
<1>35. ASSUME NEW r \in Requests, Answer(r) PROVE Goal
  <2>1. CutRow(user'[a], mail)
    BY <1>35, <1>c DEF Answer, rows
  <2>2. \A j \in Ids : binding'[j] = a => Owns(j, mail)
    BY <1>35, <1>c DEF Answer, rows
  <2>3. (\A p \in Requests \ {r} : req'[p] = req[p]) /\ req'[r] = Idle
    BY <1>35 DEF Answer, End, ReqsOK
  <2> QED
    BY <1>c, <2>1, <2>2, <2>3, IdleIsCut, CutKept
<1>36. ASSUME NEW u \in Users, Bar(u) PROVE Goal
  <2>1. UNCHANGED <<req, binding>>
    BY <1>36 DEF Bar
  <2>2. CutRow(user'[a], mail)
    BY <1>36, <1>c, UserRow DEF Bar, CutRow, WorldOK, Rows
  <2> QED
    BY <1>c, <2>1, <2>2 DEF CutAt
<1>37. ASSUME NEW u \in Users, DeleteUser(u) PROVE Goal
  <2>1. UNCHANGED <<req, binding>> /\ a # u
    BY <1>37 DEF DeleteUser
  <2>2. user'[a] = user[a]
    BY <1>37, <1>c, <2>1 DEF DeleteUser, WorldOK
  <2> QED
    BY <1>c, <2>1, <2>2 DEF CutAt
<1>38. ASSUME NEW p \in BOOLEAN, Crash(p) PROVE Goal
  <2>1. UNCHANGED <<user, binding>> /\ \A r \in Requests : req'[r] = Idle
    BY <1>38 DEF Crash, rows
  <2> QED
    BY <1>c, <2>1, IdleIsCut DEF CutAt
<1>39. ASSUME QuietStep PROVE Goal
  BY <1>39, <1>c, QuietRows DEF CutAt
<1> HIDE DEF Goal
<1>a. Goal
  BY <1>1, <1>2, <1>3, <1>4, <1>5, <1>6, <1>7, <1>8, <1>9, <1>10, <1>11, <1>12, <1>13,
     <1>14, <1>15, <1>16, <1>17, <1>18, <1>19, <1>20, <1>21, <1>22, <1>23, <1>24, <1>25,
     <1>26, <1>27, <1>28, <1>29, <1>30, <1>31, <1>32, <1>33, <1>34, <1>35, <1>36, <1>37,
     <1>38, <1>39
     DEF TicketNext, TicketStep, Next, Start, World, ScanStep, LinkStep, QuietStep
<1>b. user'[a].mail = mail
  BY <1>a DEF Goal, CutAt, CutRow
<1> QED
  BY <1>a, <1>b DEF Goal, CutAt

\* An account enters the set when a request that was alone has unlinked it.
LEMMA CutStarts ==
  ASSUME TicketInv, LinkInv, [TicketNext]_vars, NEW a \in cut', a \notin cut
  PROVE  CutAt(a, user[a].mail)'
<1> USE DEF TicketInv
<1>1. PICK r \in Requests : WriteOwner(r)
  <2>1. Start => cut' \subseteq cut
    BY DEF Start, IssueState, CallbackFixed, Callback, StartBind, StartUnbind, hist
  <2>2. ASSUME NEW p \in Requests, ScanStep(p) PROVE cut' \subseteq cut
    <3>1. ConsumeState(p) \/ Abandon(p) \/ FindBinding(p) \/ LoadBound(p) => cut' = cut
      BY DEF ConsumeState, Abandon, FindBinding, LoadBound, hist
    <3>2. FindDomain(p) \/ FindMail(p) \/ Depart(p) \/ Stamp(p) \/ TryName(p) => cut' = cut
      BY DEF FindDomain, FindMail, Depart, Stamp, TryName, hist
    <3>3. Backfill(p) \/ Refuse(p) \/ Enter(p) => cut' = cut
      BY DEF Backfill, Refuse, Enter, hist
    <3>4. \A i \in Ids, d \in BOOLEAN : ResolveCode(p, i, d) => cut' = cut
      BY DEF ResolveCode
    <3>5. \A i \in Ids, u \in Users : ResolveBind(p, i, u) => cut' \subseteq cut
      BY DEF ResolveBind
    <3>6. \A u \in Users : Create(p, u) => cut' = cut
      BY DEF Create
    <3> QED
      BY <2>2, <3>1, <3>2, <3>3, <3>4, <3>5, <3>6 DEF ScanStep
  <2>3. \A p \in Requests : LinkStep(p) => cut' \subseteq cut \/ WriteOwner(p)
    BY DEF LinkStep, UpsertRead, UpsertWrite, Release, Unlink, ReadOwner, hist
  <2>4. \A p \in Requests : TicketStep(p) => cut' \subseteq cut
    BY DEF TicketStep, ForgotPassword, SendResetMail, ResetPassword, Present,
       ResetRead, ResetSave, DeleteToken, Solved, Unsolved, Answer, hist
  <2>5. World => cut' \subseteq cut
    BY DEF World, Bar, DeleteUser, Leave, Crash, Expire, hist
  <2>6. (\E t \in Tokens : Generate(t)) \/ UNCHANGED vars => cut' \subseteq cut
    BY DEF Generate, hist, vars
  <2> QED
    BY <2>1, <2>2, <2>3, <2>4, <2>5, <2>6 DEF TicketNext, Next
<1>2. req[r].solo /\ req[r].op = "cut" /\ a = req[r].u /\ req[r].pc = "write"
  BY <1>1 DEF WriteOwner, At
<1>3. /\ a \in Users /\ req[r].id = NoId /\ req[r].row \in Rows /\ req[r].row.on
  BY <1>2 DEF ReqsOK, ReqOK, Holds
<1>4. /\ \A i \in Ids : binding[i] # a
      /\ ~Clashes(a, req[r].row) /\ Alone(r)
  BY <1>2 DEF LinkInv, SoloOK
<1>5. /\ SetDomain(r) \in Rows /\ SetDomain(r).on /\ SetDomain(r).dom = NoId
      /\ ~Clashes(a, SetDomain(r))
  BY <1>3, <1>4, DomainFits DEF SetDomain, Rows, Clashes
<1>6. user'[a] = SetDomain(r)
  BY <1>1, <1>2, <1>3, <1>5, SavedRow DEF WriteOwner
<1>7. binding' = binding /\ req'[r] = Idle /\ \A p \in Requests \ {r} : req'[p] = req[p]
  BY <1>1 DEF WriteOwner, End, ReqsOK
<1>8. \A p \in Requests : req'[p].u # a
  BY <1>3, <1>4, <1>7, WeComAssumption DEF Alone, ReqsOK, ReqOK, Idle
<1> QED
  BY <1>4, <1>5, <1>6, <1>7, <1>8, WeComAssumption DEF CutAt, CutRow, CutReq

\* CutInv holds after every step,
LEMMA CutStepKeeps ==
  TicketInv /\ LinkInv /\ MadeInv /\ CutInv /\ [TicketNext]_vars => CutInv'
BY CutStep, CutStarts DEF CutInv

\* and so always.
LEMMA CutInvHolds == TicketSpec => []CutInv
<1>1. Init => CutInv
  BY DEF Init, CutInv
<1> QED
  BY <1>1, CutStepKeeps, TicketInvHolds, LinkInvHolds, MadeInvHolds, PTL DEF TicketSpec

\* An account unlinked while nothing else was under way is out of reach of
\* every userid but the one with its address, until it is bound again: no stale
\* copy of its row and no scan in flight brings the link back (BindWeCom with an
\* empty userid, FindOrCreateUser).
THEOREM UnlinkedStaysOut == TicketSpec => []CutStaysOut
<1>1. CutInv => CutStaysOut
  BY DEF CutInv, CutAt, CutRow, Owns, CutStaysOut
<1> QED
  BY <1>1, CutInvHolds, PTL
==============================================================================
