----------------------------- MODULE SSOSessions -----------------------------
(***************************************************************************)
(* The single sign-on state of OneAuth: sessions (session/session.go), the *)
(* two cookies of a browser and the recovery of a session from the access  *)
(* token cookie (handler/session_helpers.go), login, sync, refresh and     *)
(* logout as far as they touch them (handler/auth_handler.go), the CAS     *)
(* service tickets (handler/cas_handler.go), the SAML answer               *)
(* (handler/saml_handler.go) and the administrator's list and kick         *)
(* (handler/session_handler.go).                                           *)
(*                                                                         *)
(* A request carries the cookies of the moment it was sent and changes     *)
(* them when its answer arrives, so the requests of one browser overlap.   *)
(* Every store call and every critical section on the index is a step.     *)
(* Time is relative: ticks left, decremented everywhere by Tick.           *)
(***************************************************************************)
EXTENDS Integers, FiniteSets

CONSTANTS
  Browsers, Users, Nobody,
  Sids, NoSid,           \* session ids, drawn at random: never used twice
  Tickets, NoTicket,     \* CAS service tickets, the same
  CasClients, SamlClients, NoClient,
  Builtin,               \* clients with is_builtin
  RowChoices,            \* client rows an administrator may save
  Requests,
  SessionTTL, TokenTTL, TicketTTL,
  Persistent,            \* TRUE: RedisStore, FALSE: MemoryStore
  MaxBegins,             \* bound on the requests of browsers
  MaxActs                \* bound on the acts of administrators

Clients == CasClients \cup SamlClients
ClientRows == [active : BOOLEAN, sp : BOOLEAN,
               policy : {"all", "assigned", "none"}]

ASSUME SessionAssumption ==
  /\ Nobody \notin Users /\ NoSid \notin Sids /\ NoTicket \notin Tickets
  /\ "none" \notin Browsers
  /\ NoClient \notin Clients /\ Builtin \subseteq Clients
  /\ RowChoices \subseteq ClientRows
  /\ SessionTTL \in Nat \ {0} /\ TokenTTL \in Nat \ {0}
  /\ TicketTTL \in Nat \ {0} /\ MaxBegins \in Nat /\ MaxActs \in Nat
  /\ Persistent \in BOOLEAN

VARIABLES
  sess,      \* store, "sso_session:" + sid: [user, left]; user = Nobody: not drawn yet
  index,     \* Manager.index
  list,      \* ListAll under way: [on, todo, stale]
  jar,       \* cookies: [sid, tok]; tok = [user, left]
  spa,       \* whose tokens the single-page application keeps
  req,       \* requests in flight
  ticket,    \* store, "cas:ticket:" + id: [user, client, left]
  client,    \* client table
  grants,    \* UserAllowed, for the clients with policy "assigned"
  exists,    \* users with a row
  begun,     \* requests of browsers so far
  acts,      \* acts of administrators so far
  proved,    \* history: who has authenticated at each browser
  out,       \* history: logged out, and nothing of the time before is open
  honoured,  \* history: tickets that were validated with success
  old,       \* history: sessions created before the last restart
  kicked     \* history: sessions that an administrator has ended

tables == <<client, grants, exists>>
hist == <<proved, out, honoured, old, kicked>>
bounds == <<begun, acts>>
vars == <<sess, index, list, jar, spa, req, ticket, tables, bounds, hist>>

NoTok == [user |-> Nobody, left |-> 0]
Idle == [pc |-> "idle", op |-> "none", b |-> "none", sid |-> NoSid,
         tok |-> NoTok, user |-> Nobody, client |-> NoClient, t |-> NoTicket,
         set |-> FALSE]

Init ==
  /\ sess = [s \in Sids |-> [user |-> Nobody, left |-> 0]]
  /\ index = {} /\ list = [on |-> FALSE, todo |-> {}, stale |-> {}]
  /\ jar = [b \in Browsers |-> [sid |-> NoSid, tok |-> NoTok]]
  /\ spa = [b \in Browsers |-> Nobody]
  /\ req = [r \in Requests |-> Idle]
  /\ ticket = [t \in Tickets |-> [user |-> Nobody, client |-> NoClient, left |-> 0]]
  /\ \E row \in RowChoices : client = [c \in Clients |-> row]
  /\ grants = {} /\ exists = Users
  /\ begun = 0 /\ acts = 0
  /\ proved = [b \in Browsers |-> {}] /\ out = {} /\ honoured = {} /\ old = {}
  /\ kicked = {}

-----------------------------------------------------------------------------
(* Helpers *)

At(r, pc) == req[r].pc = pc
LiveSession(s) == s \in Sids /\ sess[s].left > 0
Open(b) == {r \in Requests : req[r].b = b /\ req[r].pc # "idle"}

\* Move request r to pc with a session, a user and a ticket in hand.
Step(r, pc, s, u, t) ==
  req' = [req EXCEPT ![r] =
            [pc |-> pc, op |-> req[r].op, b |-> req[r].b, sid |-> s,
             tok |-> req[r].tok, user |-> u, client |-> req[r].client, t |-> t,
             set |-> req[r].set \/ pc = "index"]]
Goto(r, pc) == Step(r, pc, req[r].sid, req[r].user, req[r].t)
End(r) == req' = [req EXCEPT ![r] = Idle]

\* A browser sends a request with the cookies it has now.
Send(r, b, op, pc, u, c) ==
  /\ At(r, "idle")
  /\ begun < MaxBegins /\ begun' = begun + 1
  /\ req' = [req EXCEPT ![r] =
               [pc |-> pc, op |-> op, b |-> b, sid |-> jar[b].sid,
                tok |-> jar[b].tok, user |-> u, client |-> c, t |-> NoTicket,
                set |-> FALSE]]

AdminAct == acts < MaxActs /\ acts' = acts + 1 /\ UNCHANGED begun

-----------------------------------------------------------------------------
(* Requests that begin *)

\* POST /auth/login or the WeCom callback, once the identity is established.
Login(r, b, u) ==
  /\ u \in exists
  /\ Send(r, b, "login", "create", u, NoClient)
  /\ proved' = [proved EXCEPT ![b] = @ \cup {u}]
  /\ out' = out \ {b}
  /\ UNCHANGED <<sess, index, list, jar, spa, ticket, tables, acts, honoured, old, kicked>>

\* JWTAuth: the bearer token of the application, or else the cookie.
Bearer(b) == IF spa[b] # Nobody THEN spa[b] ELSE jar[b].tok.user

\* POST /auth/sso-session.  JWTAuth asks for a valid token, not for a row.
Sync(r, b) ==
  /\ Bearer(b) # Nobody
  /\ Send(r, b, "sync", "get", Bearer(b), NoClient)
  /\ out' = IF spa[b] # Nobody THEN out \ {b} ELSE out
  /\ UNCHANGED <<sess, index, list, jar, spa, ticket, tables, acts, proved,
                 honoured, old, kicked>>

\* POST /auth/refresh, as far as the cookie is concerned.
Refresh(r, b) ==
  /\ spa[b] \in exists
  /\ Send(r, b, "refresh", "reply", spa[b], NoClient)
  /\ out' = out \ {b}
  /\ UNCHANGED <<sess, index, list, jar, spa, ticket, tables, acts, proved,
                 honoured, old, kicked>>

\* GET /cas/login, /saml/sso: the client is looked up first.
Enter(r, b, c) ==
  /\ client[c].active
  /\ Send(r, b, IF c \in CasClients THEN "cas" ELSE "saml", "get", Nobody, c)
  /\ UNCHANGED <<sess, index, list, jar, spa, ticket, tables, acts, hist>>

\* POST /auth/logout: what the cookie names is deleted, known or not.
Logout(r, b) ==
  /\ Send(r, b, "logout", "unindex", Nobody, NoClient)
  /\ UNCHANGED <<sess, index, list, jar, spa, ticket, tables, acts, hist>>

\* GET /cas/logout, /saml/slo, /oauth/end_session: the session is looked up,
\* recovered if need be, and then deleted.
SingleLogout(r, b) ==
  /\ Send(r, b, "slo", "get", Nobody, NoClient)
  /\ UNCHANGED <<sess, index, list, jar, spa, ticket, tables, acts, hist>>

-----------------------------------------------------------------------------
(* Finding, recovering, creating and deleting a session *)

After(op) == IF op = "slo" THEN "unindex" ELSE "gate"

\* Mutant of Recover: the token is not looked at.
RecoverUnchecked(r) == Step(r, "create", NoSid, req[r].tok.user, NoTicket)

\* recoverSessionFromAccessToken, up to Create: a valid token of a user with
\* a row.  Otherwise the browser is sent to the login page; a logout goes on.
Recover(r) ==
  LET tok == req[r].tok
  IN  IF tok.left > 0 /\ tok.user \in exists
        THEN Step(r, "create", NoSid, tok.user, NoTicket)
      ELSE IF req[r].op = "slo" THEN Step(r, "reply", NoSid, Nobody, NoTicket)
      ELSE End(r)

\* currentSessionFromCookie, then the recovery.
FindSession(r) ==
  /\ At(r, "get") /\ req[r].op # "sync"
  /\ IF LiveSession(req[r].sid)
       THEN Step(r, After(req[r].op), req[r].sid, sess[req[r].sid].user, NoTicket)
       ELSE Recover(r)
  /\ UNCHANGED <<sess, index, list, jar, spa, ticket, tables, bounds, hist>>

\* A session of the same user is kept, any other one is left alone.
SyncSSOSession(r) ==
  /\ At(r, "get") /\ req[r].op = "sync"
  /\ IF LiveSession(req[r].sid) /\ sess[req[r].sid].user = req[r].user
       THEN Goto(r, "reply")
       ELSE Step(r, "create", NoSid, req[r].user, NoTicket)
  /\ UNCHANGED <<sess, index, list, jar, spa, ticket, tables, bounds, hist>>

\* Mutant of Create: a session id may be drawn again once it is dead.
CreateReused(r, s) ==
  /\ At(r, "create") /\ sess[s].left = 0
  /\ sess' = [sess EXCEPT ![s] = [user |-> req[r].user, left |-> SessionTTL]]
  /\ Step(r, "index", s, req[r].user, NoTicket)
  /\ UNCHANGED <<index, list, jar, spa, ticket, tables, bounds, hist>>

\* Manager.Create: the store first, then the index.
Create(r, s) ==
  /\ At(r, "create") /\ sess[s].user = Nobody
  /\ sess' = [sess EXCEPT ![s] = [user |-> req[r].user, left |-> SessionTTL]]
  /\ Step(r, "index", s, req[r].user, NoTicket)
  /\ UNCHANGED <<index, list, jar, spa, ticket, tables, bounds, hist>>

\* Mutant of AddToIndex: a recovered session is not indexed.
AddLogins(r) ==
  /\ At(r, "index")
  /\ index' = IF req[r].op = "login" THEN index \cup {req[r].sid} ELSE index
  /\ Goto(r, IF req[r].op \in {"login", "sync"} THEN "reply" ELSE After(req[r].op))
  /\ UNCHANGED <<sess, list, jar, spa, ticket, tables, bounds, hist>>

AddToIndex(r) ==
  /\ At(r, "index")
  /\ index' = index \cup {req[r].sid}
  /\ Goto(r, IF req[r].op \in {"login", "sync"} THEN "reply" ELSE After(req[r].op))
  /\ UNCHANGED <<sess, list, jar, spa, ticket, tables, bounds, hist>>

\* Manager.Delete: the index first, then the store.
RemoveFromIndex(r) ==
  /\ At(r, "unindex")
  /\ index' = index \ {req[r].sid}
  /\ Goto(r, "del")
  /\ UNCHANGED <<sess, list, jar, spa, ticket, tables, bounds, hist>>

Dead(s) ==
  sess' = [x \in Sids |-> IF x = s THEN [user |-> sess[x].user, left |-> 0]
                          ELSE sess[x]]

DeleteSession(r) ==
  /\ At(r, "del")
  /\ Dead(req[r].sid)
  /\ IF req[r].op = "kick"
       THEN End(r) /\ kicked' = kicked \cup {req[r].sid}
       ELSE Goto(r, "reply") /\ UNCHANGED kicked
  /\ UNCHANGED <<index, list, jar, spa, ticket, tables, bounds, proved, out,
                 honoured, old>>

-----------------------------------------------------------------------------
(* The access gate, tickets and assertions *)

\* client.IsBuiltin, AllowSpInitiated, AccessPolicy, UserAllowed.
Admits(c, u) ==
  \/ c \in Builtin
  \/ /\ client[c].sp
     /\ \/ client[c].policy = "all"
        \/ client[c].policy = "assigned" /\ <<u, c>> \in grants

\* Of the SAML handler only: the user must still have a row.
Deny(r) ==
  /\ At(r, "gate")
  /\ LET c == req[r].client
     IN  ~Admits(c, req[r].user) \/ (c \in SamlClients /\ req[r].user \notin exists)
  /\ Step(r, "reply", req[r].sid, Nobody, NoTicket)
  /\ UNCHANGED <<sess, index, list, jar, spa, ticket, tables, bounds, hist>>

AnswerSAML(r) ==
  /\ At(r, "gate") /\ req[r].client \in SamlClients
  /\ Admits(req[r].client, req[r].user) /\ req[r].user \in exists
  /\ Goto(r, "reply")
  /\ UNCHANGED <<sess, index, list, jar, spa, ticket, tables, bounds, hist>>

\* saveTicket
Issue(r, t) ==
  /\ At(r, "gate") /\ req[r].client \in CasClients /\ ticket[t].user = Nobody
  /\ Admits(req[r].client, req[r].user)
  /\ ticket' = [ticket EXCEPT ![t] =
                  [user |-> req[r].user, client |-> req[r].client, left |-> TicketTTL]]
  /\ Step(r, "reply", req[r].sid, req[r].user, t)
  /\ UNCHANGED <<sess, index, list, jar, spa, tables, bounds, hist>>

LoggingOut(q) == q.op \in {"logout", "slo"}

\* The cookies an answer sets.  A session that was found is not set again,
\* except by a sync.
NewSid(q) ==
  IF LoggingOut(q) THEN NoSid
  ELSE IF q.set \/ q.op = "sync" THEN q.sid
  ELSE jar[q.b].sid

\* Mutant of NewTok: a logout leaves the access token cookie.
NewTokKept(q) ==
  IF q.op \in {"login", "refresh"} THEN [user |-> q.user, left |-> TokenTTL]
  ELSE jar[q.b].tok

NewTok(q) ==
  IF LoggingOut(q) THEN NoTok
  ELSE IF q.op \in {"login", "refresh"} THEN [user |-> q.user, left |-> TokenTTL]
  ELSE jar[q.b].tok

\* The application keeps the tokens of a login until its own logout.
Reply(r) ==
  /\ At(r, "reply")
  /\ LET q == req[r]
     IN  /\ jar' = [jar EXCEPT ![q.b] = [sid |-> NewSid(q), tok |-> NewTok(q)]]
         /\ spa' = [spa EXCEPT ![q.b] = IF q.op = "login" THEN q.user
                                        ELSE IF q.op = "logout" THEN Nobody ELSE @]
         /\ out' = IF LoggingOut(q) /\ Open(q.b) = {r} THEN out \cup {q.b} ELSE out
  /\ End(r)
  /\ UNCHANGED <<sess, index, list, ticket, tables, bounds, proved, honoured, old, kicked>>

\* The answer is lost; the application logs itself out all the same.
LoseReply(r) ==
  /\ At(r, "reply")
  /\ spa' = IF req[r].op = "logout" THEN [spa EXCEPT ![req[r].b] = Nobody] ELSE spa
  /\ End(r)
  /\ UNCHANGED <<sess, index, list, jar, ticket, tables, bounds, hist>>

\* GET /cas/serviceValidate by the application behind c: consumeTicket.
Validate(r, t, c) ==
  /\ At(r, "idle") /\ ticket[t].left > 0
  /\ req' = [req EXCEPT ![r] =
               [pc |-> "tdel", op |-> "validate", b |-> "none", sid |-> NoSid,
                tok |-> NoTok, user |-> ticket[t].user, client |-> c, t |-> t,
                set |-> FALSE]]
  /\ UNCHANGED <<sess, index, list, jar, spa, ticket, tables, bounds, hist>>

\* Mutant of DeleteTicket: the deletion fails, and nobody notices.
KeepTicket(r) ==
  /\ At(r, "tdel")
  /\ Goto(r, "answer")
  /\ UNCHANGED <<sess, index, list, jar, spa, ticket, tables, bounds, hist>>

DeleteTicket(r) ==
  /\ At(r, "tdel")
  /\ ticket' = [ticket EXCEPT ![req[r].t] =
                  [user |-> ticket[req[r].t].user, client |-> ticket[req[r].t].client,
                   left |-> 0]]
  /\ Goto(r, "answer")
  /\ UNCHANGED <<sess, index, list, jar, spa, tables, bounds, hist>>

\* matchService, and the user must still have a row.
Accepted(q) == ticket[q.t].client = q.client /\ q.user \in exists

AnswerValidate(r) ==
  /\ At(r, "answer")
  /\ honoured' = IF Accepted(req[r]) THEN honoured \cup {req[r].t} ELSE honoured
  /\ End(r)
  /\ UNCHANGED <<sess, index, list, jar, spa, ticket, tables, bounds, proved, out, old, kicked>>

-----------------------------------------------------------------------------
(* Administrators, time, crashes *)

\* DELETE /sessions/:sid, of a session that was listed.
Kick(r, s) ==
  /\ AdminAct /\ At(r, "idle")
  /\ s \in index \cup old
  /\ req' = [req EXCEPT ![r] =
               [pc |-> "unindex", op |-> "kick", b |-> "none", sid |-> s,
                tok |-> NoTok, user |-> Nobody, client |-> NoClient,
                t |-> NoTicket, set |-> FALSE]]
  /\ UNCHANGED <<sess, index, list, jar, spa, ticket, tables, hist>>

\* GET /sessions, /sessions/count: ListAll copies the index, gets every
\* session, and takes out of the index the ones it did not find.
ListBegin ==
  /\ AdminAct /\ ~list.on
  /\ list' = [on |-> TRUE, todo |-> index, stale |-> {}]
  /\ UNCHANGED <<sess, index, jar, spa, req, ticket, tables, hist>>

ListGet(s) ==
  /\ s \in list.todo
  /\ list' = [on |-> TRUE, todo |-> list.todo \ {s},
              stale |-> IF LiveSession(s) THEN list.stale ELSE list.stale \cup {s}]
  /\ UNCHANGED <<sess, index, jar, spa, req, ticket, tables, bounds, hist>>

ListEnd ==
  /\ list.on /\ list.todo = {}
  /\ index' = index \ list.stale
  /\ list' = [on |-> FALSE, todo |-> {}, stale |-> {}]
  /\ UNCHANGED <<sess, jar, spa, req, ticket, tables, bounds, hist>>

SaveClient(c, row) ==
  /\ AdminAct /\ client' = [client EXCEPT ![c] = row]
  /\ UNCHANGED <<sess, index, list, jar, spa, req, ticket, grants, exists, hist>>

ToggleGrant(u, c) ==
  /\ AdminAct
  /\ grants' = IF <<u, c>> \in grants THEN grants \ {<<u, c>>}
               ELSE grants \cup {<<u, c>>}
  /\ UNCHANGED <<sess, index, list, jar, spa, req, ticket, client, exists, hist>>

\* Deleting, disabling or locking a user leaves its sessions alone.
DeleteUser(u) ==
  /\ AdminAct /\ exists' = exists \ {u}
  /\ UNCHANGED <<sess, index, list, jar, spa, req, ticket, client, grants, hist>>

Less(n) == IF n > 0 THEN n - 1 ELSE 0
AgeTok(k) == [user |-> IF k.left > 1 THEN k.user ELSE Nobody, left |-> Less(k.left)]

Tick ==
  /\ sess' = [s \in Sids |-> [user |-> sess[s].user, left |-> Less(sess[s].left)]]
  /\ ticket' = [t \in Tickets |->
       [user |-> ticket[t].user, client |-> ticket[t].client,
        left |-> Less(ticket[t].left)]]
  /\ jar' = [b \in Browsers |-> [sid |-> jar[b].sid, tok |-> AgeTok(jar[b].tok)]]
  /\ req' = [r \in Requests |->
       [pc |-> req[r].pc, op |-> req[r].op, b |-> req[r].b, sid |-> req[r].sid,
        tok |-> AgeTok(req[r].tok), user |-> req[r].user,
        client |-> req[r].client, t |-> req[r].t, set |-> req[r].set]]
  /\ UNCHANGED <<index, list, spa, tables, bounds, hist>>

\* The index lives in memory; so does MemoryStore.
Restart ==
  /\ index' = {} /\ list' = [on |-> FALSE, todo |-> {}, stale |-> {}]
  /\ req' = [r \in Requests |-> Idle]
  /\ old' = {s \in Sids : sess[s].user # Nobody}
  /\ IF Persistent THEN UNCHANGED <<sess, ticket>>
     ELSE /\ sess' = [s \in Sids |-> [user |-> sess[s].user, left |-> 0]]
          /\ ticket' = [t \in Tickets |->
               [user |-> ticket[t].user, client |-> ticket[t].client, left |-> 0]]
  /\ UNCHANGED <<jar, spa, tables, bounds, proved, out, honoured, kicked>>

-----------------------------------------------------------------------------
Begin(r, b) ==
  \/ \E u \in Users : Login(r, b, u)
  \/ Sync(r, b) \/ Refresh(r, b) \/ Logout(r, b) \/ SingleLogout(r, b)
  \/ \E c \in Clients : Enter(r, b, c)

Serve(r) ==
  \/ FindSession(r) \/ SyncSSOSession(r) \/ \E s \in Sids : Create(r, s)
  \/ AddToIndex(r) \/ RemoveFromIndex(r) \/ DeleteSession(r)
  \/ Deny(r) \/ AnswerSAML(r) \/ \E t \in Tickets : Issue(r, t)
  \/ Reply(r) \/ LoseReply(r)
  \/ DeleteTicket(r) \/ AnswerValidate(r)

Administer ==
  \/ \E r \in Requests, s \in Sids : Kick(r, s)
  \/ ListBegin \/ (\E s \in Sids : ListGet(s)) \/ ListEnd
  \/ \E c \in Clients, row \in RowChoices : SaveClient(c, row)
  \/ \E u \in Users, c \in Clients : ToggleGrant(u, c)
  \/ \E u \in Users : DeleteUser(u)

Next ==
  \/ \E r \in Requests, b \in Browsers : Begin(r, b)
  \/ \E r \in Requests : Serve(r)
  \/ \E r \in Requests, t \in Tickets, c \in CasClients : Validate(r, t, c)
  \/ Administer \/ Tick \/ Restart

Spec == Init /\ [][Next]_vars

-----------------------------------------------------------------------------
(* Properties *)

Toks == {k \in [user : Users \cup {Nobody}, left : Nat] :
           k.left = 0 <=> k.user = Nobody}
Sessions == [user : Users \cup {Nobody}, left : Nat]
RequestStates ==
  [pc : {"idle", "get", "create", "index", "unindex", "del", "gate",
         "reply", "tdel", "answer"},
   op : {"none", "login", "sync", "refresh", "cas", "saml", "logout", "slo",
         "kick", "validate"},
   b : Browsers \cup {"none"}, sid : Sids \cup {NoSid}, tok : Toks,
   user : Users \cup {Nobody}, client : Clients \cup {NoClient},
   t : Tickets \cup {NoTicket}, set : BOOLEAN]

\* Every variable has the type its code counterpart has, and a request the
\* parameters its next step dereferences.
RequestOK(q) ==
  /\ q.pc \in {"create", "index", "gate"} => q.user # Nobody
  /\ q.pc = "index" => q.sid # NoSid
  /\ q.pc = "gate" => q.client # NoClient
  /\ q.pc \in {"tdel", "answer"} => q.t # NoTicket /\ q.op = "validate"
  /\ q.pc \in {"get", "create", "index", "gate", "reply"} =>
       q.b \in Browsers
  /\ q.pc = "reply" /\ q.op \in {"login", "sync", "refresh"} => q.user # Nobody
  /\ q.op = "kick" <=> q.pc \in {"unindex", "del"} /\ q.b = "none"

TypeOK ==
  /\ sess \in [Sids -> Sessions] /\ index \subseteq Sids
  /\ list \in [on : BOOLEAN, todo : SUBSET Sids, stale : SUBSET Sids]
  /\ jar \in [Browsers -> [sid : Sids \cup {NoSid}, tok : Toks]]
  /\ spa \in [Browsers -> Users \cup {Nobody}]
  /\ req \in [Requests -> RequestStates] /\ \A r \in Requests : RequestOK(req[r])
  /\ ticket \in [Tickets -> [user : Users \cup {Nobody},
                             client : CasClients \cup {NoClient}, left : Nat]]
  /\ client \in [Clients -> ClientRows] /\ grants \subseteq Users \X Clients
  /\ exists \subseteq Users /\ acts \in 0 .. MaxActs
  /\ begun \in 0 .. MaxBegins
  /\ proved \in [Browsers -> SUBSET Users] /\ out \subseteq Browsers
  /\ honoured \subseteq Tickets /\ old \subseteq Sids /\ kicked \subseteq Sids

\* Whatever requests, recoveries, logouts and kicks overlap, a browser is only
\* ever known as somebody who authenticated at that very browser: the session
\* its cookie names, dead or alive, the token it carries and the answers on
\* their way to it are theirs (Create, currentSession, setCookie).
NoImpersonation ==
  /\ \A b \in Browsers :
       /\ jar[b].sid # NoSid => sess[jar[b].sid].user \in proved[b]
       /\ {jar[b].tok.user, spa[b]} \subseteq proved[b] \cup {Nobody}
  /\ \A r \in Requests : req[r].b \in Browsers =>
       /\ req[r].sid # NoSid => sess[req[r].sid].user \in proved[req[r].b]
       /\ {req[r].tok.user, req[r].user} \subseteq proved[req[r].b] \cup {Nobody}

\* The list shows every live session made since the last restart, except the
\* ones a request is creating or deleting right now: no interleaving of
\* Create, Delete and two-phase ListAll hides a session from administrators.
Listed ==
  \A s \in Sids : LiveSession(s) =>
    \/ s \in index \/ s \in old
    \/ \E r \in Requests : req[r].sid = s /\ req[r].pc \in {"index", "del"}

\* After a logout that overlapped nothing, of whatever kind, the browser is a
\* stranger until somebody logs in or the application presents its tokens,
\* even though a logout may itself have recovered a session.
LogoutSticks ==
  \A b \in out :
    /\ jar[b] = [sid |-> NoSid, tok |-> NoTok]
    /\ \A r \in Open(b) : req[r].sid = NoSid /\ req[r].user = Nobody

\* A service ticket is a one-time credential: see OneTimeGrant.
TicketPhase(t) ==
  IF ticket[t].user = Nobody THEN "fresh"
  ELSE IF ticket[t].left > 0 THEN "live" ELSE "dead"
Grant == INSTANCE OneTimeGrant WITH
  Key <- Tickets, Holder <- Requests,
  phase <- [t \in Tickets |-> TicketPhase(t)],
  held <- {p \in Requests \X Tickets :
             req[p[1]].pc \in {"tdel", "answer"} /\ req[p[1]].t = p[2]},
  honoured <- honoured
TicketOnce == Grant!GrantSpec

\* The comment on SessionHandler: a kick takes the user off line.  Whoever
\* loses the session of the cookie has to log in again.
KickedIsOffline ==
  [][\A r \in Requests :
       /\ req[r].pc = "get" /\ req[r].op \in {"cas", "saml"}
       /\ req[r].sid \in kicked
       => req'[r].pc # "create"]_vars

=============================================================================
