-------------------------- MODULE SSOSessionsProofs --------------------------
(***************************************************************************)
(* Proofs about SSOSessions, for every set of browsers, users, sessions,   *)
(* tickets, clients and requests, every lifetime and both stores.          *)
(***************************************************************************)
EXTENDS SSOSessions, TLAPS

-----------------------------------------------------------------------------
(* The inductive invariant *)

Drawn == {s \in Sids : sess[s].user # Nobody}

\* Which requests reach which program counter, and with what in hand.
Lane(q) ==
  /\ q.pc \in {"get", "create", "index"} =>
       q.op \in {"login", "sync", "slo", "cas", "saml"}
  /\ q.pc \in {"get", "create", "index", "gate"} /\ q.op \in {"cas", "saml"} =>
       q.client # NoClient
  /\ q.pc = "gate" => q.op \in {"cas", "saml"}
  /\ q.pc \in {"unindex", "del"} => q.op \in {"logout", "slo", "kick"}
  /\ q.pc = "get" => q.op # "login"
  /\ q.pc = "get" /\ q.op = "sync" => q.user # Nobody
  /\ q.op = "kick" => q.sid # NoSid

\* A session id that is named anywhere has been drawn, and a live session has
\* a user: a fresh id is known to nobody.
NamedIsDrawn ==
  /\ \A s \in Sids : sess[s].left > 0 => s \in Drawn
  /\ index \cup list.todo \cup list.stale \cup old \subseteq Drawn
  /\ \A b \in Browsers : jar[b].sid # NoSid => jar[b].sid \in Drawn
  /\ \A r \in Requests : req[r].sid # NoSid => req[r].sid \in Drawn

\* What a listing under way has found dead stays dead.
StaleIsDead == \A s \in list.stale : sess[s].left = 0

\* A browser that is logged out carries nothing, and neither do its requests.
OutCarriesNothing ==
  \A b \in out : \A r \in Open(b) : req[r].tok = NoTok

\* A ticket in the hand of a validation was issued; a validation about to
\* answer has deleted it.
TicketsInHand ==
  /\ \A t \in Tickets : ticket[t].left > 0 => ticket[t].user # Nobody
  /\ \A r \in Requests : req[r].pc \in {"tdel", "answer"} =>
       ticket[req[r].t].user # Nobody
  /\ \A r \in Requests : req[r].pc = "answer" => ticket[req[r].t].left = 0

SessionInv ==
  /\ TypeOK
  /\ \A r \in Requests : Lane(req[r])
  /\ NamedIsDrawn /\ StaleIsDead
  /\ NoImpersonation /\ Listed
  /\ LogoutSticks /\ OutCarriesNothing
  /\ TicketsInHand

-----------------------------------------------------------------------------
(* Types *)

\* The initial state is well typed.
LEMMA InitTypeOK == Init => TypeOK
  BY SessionAssumption DEF Init, TypeOK, Sessions, Toks, NoTok, Idle,
     RequestStates, RequestOK, ClientRows

\* Every step preserves the types and the lanes of the requests.
LEMMA NextTypeOK ==
  TypeOK /\ (\A r \in Requests : Lane(req[r])) /\ NamedIsDrawn /\ [Next]_vars
    => TypeOK' /\ (\A r \in Requests : Lane(req[r]))'
<1> SUFFICES ASSUME TypeOK, \A r \in Requests : Lane(req[r]), NamedIsDrawn,
                    [Next]_vars
             PROVE  TypeOK' /\ (\A r \in Requests : Lane(req[r]))'
  OBVIOUS
<1> DEFINE Goal == TypeOK' /\ (\A r \in Requests : Lane(req[r]))'
<1> USE SessionAssumption DEF tables, bounds, hist, NoTok, Idle, Goal
<1>1. ASSUME NEW r \in Requests, NEW b \in Browsers, NEW u \in Users, Login(r,
      b, u) PROVE Goal
  BY <1>1 DEF TypeOK, RequestOK, RequestStates, Toks, Lane, Clients, Sessions,
     NamedIsDrawn, Drawn, Login, Send, At
<1>2. ASSUME NEW r \in Requests, NEW b \in Browsers, Sync(r, b) PROVE Goal
  BY <1>2 DEF TypeOK, RequestOK, RequestStates, Toks, Lane, Clients, Sessions,
     NamedIsDrawn, Drawn, Sync, Send, At, Bearer
<1>3. ASSUME NEW r \in Requests, NEW b \in Browsers, Refresh(r, b) PROVE Goal
  BY <1>3 DEF TypeOK, RequestOK, RequestStates, Toks, Lane, Clients, Sessions,
     NamedIsDrawn, Drawn, Refresh, Send, At
<1>4. ASSUME NEW r \in Requests, NEW b \in Browsers, NEW c \in Clients,
      Enter(r, b, c) PROVE Goal
  BY <1>4 DEF TypeOK, RequestOK, RequestStates, Toks, Lane, Clients, Sessions,
     NamedIsDrawn, Drawn, Enter, Send, At
<1>5. ASSUME NEW r \in Requests, NEW b \in Browsers, Logout(r, b) PROVE Goal
  BY <1>5 DEF TypeOK, RequestOK, RequestStates, Toks, Lane, Clients, Sessions,
     NamedIsDrawn, Drawn, Logout, Send, At
<1>6. ASSUME NEW r \in Requests, NEW b \in Browsers, SingleLogout(r, b) PROVE
      Goal
  BY <1>6 DEF TypeOK, RequestOK, RequestStates, Toks, Lane, Clients, Sessions,
     NamedIsDrawn, Drawn, SingleLogout, Send, At
<1>7. ASSUME NEW r \in Requests, FindSession(r) PROVE Goal
  <2>0. req[r].pc = "get" /\ req[r].op # "sync" /\ UNCHANGED <<sess, index,
        list, jar, spa, ticket, tables, bounds, hist>>
    BY <1>7 DEF FindSession, At
  <2>1. CASE LiveSession(req[r].sid)
    <3>1. Step(r, After(req[r].op), req[r].sid, sess[req[r].sid].user,
          NoTicket)
      BY <1>7, <2>1 DEF FindSession
    <3>2. req' \in [Requests -> RequestStates]
      BY <2>0, <2>1, <3>1 DEF TypeOK, RequestStates, NamedIsDrawn, Drawn,
         Sessions, LiveSession, After, Step
    <3>3. (\A x \in Requests : RequestOK(req[x]) /\ Lane(req[x]))'
      BY <2>0, <2>1, <3>1 DEF TypeOK, RequestStates, RequestOK, Lane, Toks,
         NamedIsDrawn, Drawn, Sessions, LiveSession, After, Step
    <3> QED
      BY <2>0, <3>2, <3>3 DEF TypeOK
  <2>2. CASE ~LiveSession(req[r].sid) /\ req[r].tok.left > 0 /\
        req[r].tok.user \in exists
    <3>1. Step(r, "create", NoSid, req[r].tok.user, NoTicket)
      BY <1>7, <2>2 DEF FindSession, Recover
    <3>2. req' \in [Requests -> RequestStates]
      BY <2>0, <2>2, <3>1 DEF TypeOK, RequestStates, NamedIsDrawn, Drawn,
         Sessions, Step
    <3>3. (\A x \in Requests : RequestOK(req[x]) /\ Lane(req[x]))'
      BY <2>0, <2>2, <3>1 DEF TypeOK, RequestStates, RequestOK, Lane, Toks,
         NamedIsDrawn, Drawn, Sessions, Step
    <3> QED
      BY <2>0, <3>2, <3>3 DEF TypeOK
  <2>3. CASE ~LiveSession(req[r].sid) /\ ~(req[r].tok.left > 0 /\
        req[r].tok.user \in exists) /\ req[r].op = "slo"
    <3>1. Step(r, "reply", NoSid, Nobody, NoTicket)
      BY <1>7, <2>3 DEF FindSession, Recover
    <3>2. req' \in [Requests -> RequestStates]
      BY <2>0, <2>3, <3>1 DEF TypeOK, RequestStates, NamedIsDrawn, Drawn,
         Sessions, Step
    <3>3. (\A x \in Requests : RequestOK(req[x]) /\ Lane(req[x]))'
      BY <2>0, <2>3, <3>1 DEF TypeOK, RequestStates, RequestOK, Lane, Toks,
         NamedIsDrawn, Drawn, Sessions, Step
    <3> QED
      BY <2>0, <3>2, <3>3 DEF TypeOK
  <2>4. CASE ~LiveSession(req[r].sid) /\ ~(req[r].tok.left > 0 /\
        req[r].tok.user \in exists) /\ req[r].op # "slo"
    <3>0. Recover(r)
      BY <1>7, <2>4 DEF FindSession
    <3>1. End(r)
      BY <2>4, <3>0 DEF Recover
    <3>2. req' \in [Requests -> RequestStates]
      BY <2>0, <2>4, <3>1 DEF TypeOK, RequestStates, NamedIsDrawn, Drawn,
         Sessions, Toks, End
    <3>3. (\A x \in Requests : RequestOK(req[x]) /\ Lane(req[x]))'
      BY <2>0, <2>4, <3>1 DEF TypeOK, RequestStates, RequestOK, Lane, Toks,
         NamedIsDrawn, Drawn, Sessions, End
    <3> QED
      BY <2>0, <3>2, <3>3 DEF TypeOK
  <2> QED
    BY <2>1, <2>2, <2>3, <2>4
<1>8. ASSUME NEW r \in Requests, SyncSSOSession(r) PROVE Goal
  <2>0. req[r].pc = "get" /\ req[r].op = "sync" /\ UNCHANGED <<sess, index,
        list, jar, spa, ticket, tables, bounds, hist>>
    BY <1>8 DEF SyncSSOSession, At
  <2>1. CASE LiveSession(req[r].sid) /\ sess[req[r].sid].user = req[r].user
    <3>1. Goto(r, "reply")
      BY <1>8, <2>1 DEF SyncSSOSession
    <3>2. req' \in [Requests -> RequestStates]
      BY <2>0, <2>1, <3>1 DEF TypeOK, RequestStates, NamedIsDrawn, Drawn,
         Sessions, Goto, Step
    <3>3. (\A x \in Requests : RequestOK(req[x]) /\ Lane(req[x]))'
      BY <2>0, <2>1, <3>1 DEF TypeOK, RequestStates, RequestOK, Lane, Toks,
         NamedIsDrawn, Drawn, Sessions, Goto, Step
    <3> QED
      BY <2>0, <3>2, <3>3 DEF TypeOK
  <2>2. CASE ~(LiveSession(req[r].sid) /\ sess[req[r].sid].user = req[r].user)
    <3>1. Step(r, "create", NoSid, req[r].user, NoTicket)
      BY <1>8, <2>2 DEF SyncSSOSession
    <3>2. req' \in [Requests -> RequestStates]
      BY <2>0, <2>2, <3>1 DEF TypeOK, RequestStates, NamedIsDrawn, Drawn,
         Sessions, Step
    <3>3. (\A x \in Requests : RequestOK(req[x]) /\ Lane(req[x]))'
      BY <2>0, <2>2, <3>1 DEF TypeOK, RequestStates, RequestOK, Lane, Toks,
         NamedIsDrawn, Drawn, Sessions, Step
    <3> QED
      BY <2>0, <3>2, <3>3 DEF TypeOK
  <2> QED
    BY <2>1, <2>2
<1>9. ASSUME NEW r \in Requests, NEW s \in Sids, Create(r, s) PROVE Goal
  BY <1>9 DEF TypeOK, RequestOK, RequestStates, Toks, Lane, Clients, Sessions,
     NamedIsDrawn, Drawn, Create, At, Step
<1>10. ASSUME NEW r \in Requests, AddToIndex(r) PROVE Goal
  BY <1>10 DEF TypeOK, RequestOK, RequestStates, Toks, Lane, Clients,
     Sessions, NamedIsDrawn, Drawn, AddToIndex, At, Step, Goto, After
<1>11. ASSUME NEW r \in Requests, RemoveFromIndex(r) PROVE Goal
  BY <1>11 DEF TypeOK, RequestOK, RequestStates, Toks, Lane, Clients,
     Sessions, NamedIsDrawn, Drawn, RemoveFromIndex, At, Step, Goto
<1>12. ASSUME NEW r \in Requests, DeleteSession(r) PROVE Goal
  <2>0. req[r].pc = "del" /\ Dead(req[r].sid) /\ UNCHANGED <<index, list, jar,
        spa, ticket, tables, bounds, proved, out, honoured, old>>
    BY <1>12 DEF DeleteSession, At
  <2>9. sess' \in [Sids -> Sessions]
    BY <2>0 DEF TypeOK, Sessions, Dead
  <2>1. CASE req[r].op = "kick"
    <3>1. End(r) /\ kicked' = kicked \cup {req[r].sid}
      BY <1>12, <2>1 DEF DeleteSession
    <3>2. req' \in [Requests -> RequestStates]
      BY <3>1 DEF TypeOK, RequestStates, Toks, End
    <3>3. (\A x \in Requests : RequestOK(req[x]) /\ Lane(req[x]))'
      BY <2>0, <2>1, <3>1 DEF TypeOK, RequestStates, RequestOK, Lane, End
    <3>4. (kicked \subseteq Sids)'
      BY <2>0, <2>1, <3>1 DEF TypeOK, RequestStates, Lane
    <3> QED
      BY <2>0, <2>9, <3>2, <3>3, <3>4 DEF TypeOK
  <2>2. CASE req[r].op # "kick"
    <3>1. Goto(r, "reply") /\ UNCHANGED kicked
      BY <1>12, <2>2 DEF DeleteSession
    <3>2. req' \in [Requests -> RequestStates]
      BY <3>1 DEF TypeOK, RequestStates, Toks, Goto, Step
    <3>3. (\A x \in Requests : RequestOK(req[x]) /\ Lane(req[x]))'
      BY <2>0, <2>2, <3>1 DEF TypeOK, RequestStates, RequestOK, Lane, Goto,
         Step
    <3>4. (kicked \subseteq Sids)'
      BY <2>0, <2>2, <3>1 DEF TypeOK, RequestStates, Lane
    <3> QED
      BY <2>0, <2>9, <3>2, <3>3, <3>4 DEF TypeOK
  <2> QED
    BY <2>1, <2>2
<1>13. ASSUME NEW r \in Requests, Deny(r) PROVE Goal
  BY <1>13 DEF TypeOK, RequestOK, RequestStates, Toks, Lane, Clients,
     Sessions, NamedIsDrawn, Drawn, Deny, At, Step
<1>14. ASSUME NEW r \in Requests, AnswerSAML(r) PROVE Goal
  BY <1>14 DEF TypeOK, RequestOK, RequestStates, Toks, Lane, Clients,
     Sessions, NamedIsDrawn, Drawn, AnswerSAML, At, Step, Goto
<1>15. ASSUME NEW r \in Requests, NEW t \in Tickets, Issue(r, t) PROVE Goal
  BY <1>15 DEF TypeOK, RequestOK, RequestStates, Toks, Lane, Clients,
     Sessions, NamedIsDrawn, Drawn, Issue, At, Step
<1>16. ASSUME NEW r \in Requests, Reply(r) PROVE Goal
  BY <1>16 DEF TypeOK, RequestOK, RequestStates, Toks, Lane, Clients,
     Sessions, NamedIsDrawn, Drawn, Reply, At, End, NewSid, NewTok, LoggingOut
<1>17. ASSUME NEW r \in Requests, LoseReply(r) PROVE Goal
  BY <1>17 DEF TypeOK, RequestOK, RequestStates, Toks, Lane, Clients,
     Sessions, NamedIsDrawn, Drawn, LoseReply, At, End
<1>18. ASSUME NEW r \in Requests, DeleteTicket(r) PROVE Goal
  BY <1>18 DEF TypeOK, RequestOK, RequestStates, Toks, Lane, Clients,
     Sessions, NamedIsDrawn, Drawn, DeleteTicket, At, Step, Goto
<1>19. ASSUME NEW r \in Requests, AnswerValidate(r) PROVE Goal
  BY <1>19 DEF TypeOK, RequestOK, RequestStates, Toks, Lane, Clients,
     Sessions, NamedIsDrawn, Drawn, AnswerValidate, At, End
<1>20. ASSUME NEW r \in Requests, NEW t \in Tickets, NEW c \in CasClients,
      Validate(r, t, c) PROVE Goal
  BY <1>20 DEF TypeOK, RequestOK, RequestStates, Toks, Lane, Clients,
     Sessions, NamedIsDrawn, Drawn, Validate, At
<1>21. ASSUME NEW r \in Requests, NEW s \in Sids, Kick(r, s) PROVE Goal
  BY <1>21 DEF TypeOK, RequestOK, RequestStates, Toks, Lane, Clients,
     Sessions, NamedIsDrawn, Drawn, Kick, AdminAct, At
<1>22. CASE ListBegin
  BY <1>22 DEF TypeOK, RequestOK, RequestStates, Toks, Lane, Clients,
     Sessions, NamedIsDrawn, Drawn, ListBegin, AdminAct
<1>23. ASSUME NEW s \in Sids, ListGet(s) PROVE Goal
  BY <1>23 DEF TypeOK, RequestOK, RequestStates, Toks, Lane, Clients,
     Sessions, NamedIsDrawn, Drawn, ListGet, LiveSession
<1>24. CASE ListEnd
  BY <1>24 DEF TypeOK, RequestOK, RequestStates, Toks, Lane, Clients,
     Sessions, NamedIsDrawn, Drawn, ListEnd
<1>25. ASSUME NEW c \in Clients, NEW row \in RowChoices, SaveClient(c, row)
      PROVE Goal
  BY <1>25 DEF TypeOK, RequestOK, RequestStates, Toks, Lane, Clients,
     Sessions, NamedIsDrawn, Drawn, SaveClient, AdminAct
<1>26. ASSUME NEW u \in Users, NEW c \in Clients, ToggleGrant(u, c) PROVE Goal
  BY <1>26 DEF TypeOK, RequestOK, RequestStates, Toks, Lane, Clients,
     Sessions, NamedIsDrawn, Drawn, ToggleGrant, AdminAct
<1>27. ASSUME NEW u \in Users, DeleteUser(u) PROVE Goal
  BY <1>27 DEF TypeOK, RequestOK, RequestStates, Toks, Lane, Clients,
     Sessions, NamedIsDrawn, Drawn, DeleteUser, AdminAct
<1>28. CASE Tick
  BY SMTT(30), <1>28 DEF TypeOK, RequestOK, RequestStates, Toks, Lane, Clients,
     Sessions, NamedIsDrawn, Drawn, Tick, Less, AgeTok
<1>29. CASE Restart
  BY <1>29 DEF TypeOK, RequestOK, RequestStates, Toks, Lane, Clients,
     Sessions, NamedIsDrawn, Drawn, Restart
<1>30. CASE UNCHANGED vars
  BY <1>30 DEF TypeOK, RequestOK, RequestStates, Toks, Lane, Clients,
     Sessions, NamedIsDrawn, Drawn, vars
<1> QED
  BY <1>1, <1>2, <1>3, <1>4, <1>5, <1>6, <1>7, <1>8, <1>9, <1>10, <1>11,
     <1>12, <1>13, <1>14, <1>15, <1>16, <1>17, <1>18, <1>19, <1>20, <1>21,
     <1>22, <1>23, <1>24, <1>25, <1>26, <1>27, <1>28, <1>29, <1>30 DEF Next,
     Begin, Serve, Administer

-----------------------------------------------------------------------------
(* Session ids *)

\* FindSession finds the session of the cookie, recovers one from a token that
\* has not expired, goes on without one or gives up.
LEMMA FindOutcome ==
  ASSUME NEW r \in Requests, FindSession(r)
  PROVE  \/ /\ LiveSession(req[r].sid)
            /\ Step(r, After(req[r].op), req[r].sid, sess[req[r].sid].user,
                    NoTicket)
         \/ /\ req[r].tok.left > 0
            /\ Step(r, "create", NoSid, req[r].tok.user, NoTicket)
         \/ Step(r, "reply", NoSid, Nobody, NoTicket)
         \/ End(r)
<1>1. CASE LiveSession(req[r].sid)
  BY <1>1 DEF FindSession
<1>2. CASE ~LiveSession(req[r].sid)
  <2>1. Recover(r)
    BY <1>2 DEF FindSession
  <2> QED
    BY <2>1 DEF Recover
<1> QED
  BY <1>1, <1>2

\* Every step keeps the ids that are named among the drawn ones, and what a
\* listing found dead stays dead.
LEMMA NextNamed ==
  TypeOK /\ (\A r \in Requests : Lane(req[r])) /\ NamedIsDrawn /\ StaleIsDead
     /\ [Next]_vars
    => NamedIsDrawn' /\ StaleIsDead'
<1> SUFFICES ASSUME TypeOK, \A r \in Requests : Lane(req[r]), NamedIsDrawn,
      StaleIsDead, [Next]_vars PROVE NamedIsDrawn' /\ StaleIsDead'
  OBVIOUS
<1> DEFINE Goal == NamedIsDrawn' /\ StaleIsDead'
<1> USE SessionAssumption DEF tables, bounds, hist, NoTok, Idle, Goal
<1>1. ASSUME NEW r \in Requests, NEW b \in Browsers, NEW u \in Users, Login(r,
      b, u) PROVE Goal
  BY <1>1 DEF NamedIsDrawn, StaleIsDead, Drawn, TypeOK, RequestStates,
     Sessions, RequestOK, Login, Send, At
<1>2. ASSUME NEW r \in Requests, NEW b \in Browsers, Sync(r, b) PROVE Goal
  BY <1>2 DEF NamedIsDrawn, StaleIsDead, Drawn, TypeOK, RequestStates,
     Sessions, RequestOK, Sync, Send, At, Bearer
<1>3. ASSUME NEW r \in Requests, NEW b \in Browsers, Refresh(r, b) PROVE Goal
  BY <1>3 DEF NamedIsDrawn, StaleIsDead, Drawn, TypeOK, RequestStates,
     Sessions, RequestOK, Refresh, Send, At
<1>4. ASSUME NEW r \in Requests, NEW b \in Browsers, NEW c \in Clients,
      Enter(r, b, c) PROVE Goal
  BY <1>4 DEF NamedIsDrawn, StaleIsDead, Drawn, TypeOK, RequestStates,
     Sessions, RequestOK, Enter, Send, At
<1>5. ASSUME NEW r \in Requests, NEW b \in Browsers, Logout(r, b) PROVE Goal
  BY <1>5 DEF NamedIsDrawn, StaleIsDead, Drawn, TypeOK, RequestStates,
     Sessions, RequestOK, Logout, Send, At
<1>6. ASSUME NEW r \in Requests, NEW b \in Browsers, SingleLogout(r, b) PROVE
      Goal
  BY <1>6 DEF NamedIsDrawn, StaleIsDead, Drawn, TypeOK, RequestStates,
     Sessions, RequestOK, SingleLogout, Send, At
<1>7. ASSUME NEW r \in Requests, FindSession(r) PROVE Goal
  BY <1>7 DEF NamedIsDrawn, StaleIsDead, Drawn, TypeOK, RequestStates,
     Sessions, RequestOK, FindSession, At, LiveSession, Recover, Step, End,
     After
<1>8. ASSUME NEW r \in Requests, SyncSSOSession(r) PROVE Goal
  <2>0. At(r, "get") /\ UNCHANGED <<sess, index, list, jar, spa, ticket,
        tables, bounds, hist>>
    BY <1>8 DEF SyncSSOSession
  <2>1. CASE Goto(r, "reply")
    BY <2>0, <2>1 DEF NamedIsDrawn, StaleIsDead, Drawn, TypeOK, RequestStates,
       Sessions, RequestOK, At, Goto, Step
  <2>2. CASE Step(r, "create", NoSid, req[r].user, NoTicket)
    BY <2>0, <2>2 DEF NamedIsDrawn, StaleIsDead, Drawn, TypeOK, RequestStates,
       Sessions, RequestOK, At, Step
  <2> QED
    BY <1>8, <2>1, <2>2 DEF SyncSSOSession
<1>9. ASSUME NEW r \in Requests, NEW s \in Sids, Create(r, s) PROVE Goal
  BY <1>9 DEF NamedIsDrawn, StaleIsDead, Drawn, TypeOK, RequestStates,
     Sessions, RequestOK, Create, At, Step
<1>10. ASSUME NEW r \in Requests, AddToIndex(r) PROVE Goal
  BY <1>10 DEF NamedIsDrawn, StaleIsDead, Drawn, TypeOK, RequestStates,
     Sessions, RequestOK, AddToIndex, At, Step, Goto, After
<1>11. ASSUME NEW r \in Requests, RemoveFromIndex(r) PROVE Goal
  BY <1>11 DEF NamedIsDrawn, StaleIsDead, Drawn, TypeOK, RequestStates,
     Sessions, RequestOK, RemoveFromIndex, At, Step, Goto
<1>12. ASSUME NEW r \in Requests, DeleteSession(r) PROVE Goal
  <2>0. At(r, "del") /\ Dead(req[r].sid) /\ UNCHANGED <<index, list, jar, spa,
        ticket, tables, bounds, proved, out, honoured, old>>
    BY <1>12 DEF DeleteSession
  <2>1. CASE End(r)
    BY <2>0, <2>1 DEF NamedIsDrawn, StaleIsDead, Drawn, TypeOK, RequestStates,
       Sessions, RequestOK, At, Dead, End
  <2>2. CASE Goto(r, "reply")
    BY <2>0, <2>2 DEF NamedIsDrawn, StaleIsDead, Drawn, TypeOK, RequestStates,
       Sessions, RequestOK, At, Dead, Goto, Step
  <2> QED
    BY <1>12, <2>1, <2>2 DEF DeleteSession
<1>13. ASSUME NEW r \in Requests, Deny(r) PROVE Goal
  BY <1>13 DEF NamedIsDrawn, StaleIsDead, Drawn, TypeOK, RequestStates,
     Sessions, RequestOK, Deny, At, Step
<1>14. ASSUME NEW r \in Requests, AnswerSAML(r) PROVE Goal
  BY <1>14 DEF NamedIsDrawn, StaleIsDead, Drawn, TypeOK, RequestStates,
     Sessions, RequestOK, AnswerSAML, At, Step, Goto
<1>15. ASSUME NEW r \in Requests, NEW t \in Tickets, Issue(r, t) PROVE Goal
  BY <1>15 DEF NamedIsDrawn, StaleIsDead, Drawn, TypeOK, RequestStates,
     Sessions, RequestOK, Issue, At, Step
<1>16. ASSUME NEW r \in Requests, Reply(r) PROVE Goal
  BY <1>16 DEF NamedIsDrawn, StaleIsDead, Drawn, TypeOK, RequestStates,
     Sessions, RequestOK, Reply, At, End, NewSid, NewTok, LoggingOut
<1>17. ASSUME NEW r \in Requests, LoseReply(r) PROVE Goal
  BY <1>17 DEF NamedIsDrawn, StaleIsDead, Drawn, TypeOK, RequestStates,
     Sessions, RequestOK, LoseReply, At, End
<1>18. ASSUME NEW r \in Requests, DeleteTicket(r) PROVE Goal
  BY <1>18 DEF NamedIsDrawn, StaleIsDead, Drawn, TypeOK, RequestStates,
     Sessions, RequestOK, DeleteTicket, At, Step, Goto
<1>19. ASSUME NEW r \in Requests, AnswerValidate(r) PROVE Goal
  BY <1>19 DEF NamedIsDrawn, StaleIsDead, Drawn, TypeOK, RequestStates,
     Sessions, RequestOK, AnswerValidate, At, End
<1>20. ASSUME NEW r \in Requests, NEW t \in Tickets, NEW c \in CasClients,
      Validate(r, t, c) PROVE Goal
  BY <1>20 DEF NamedIsDrawn, StaleIsDead, Drawn, TypeOK, RequestStates,
     Sessions, RequestOK, Validate, At
<1>21. ASSUME NEW r \in Requests, NEW s \in Sids, Kick(r, s) PROVE Goal
  BY <1>21 DEF NamedIsDrawn, StaleIsDead, Drawn, TypeOK, RequestStates,
     Sessions, RequestOK, Kick, AdminAct, At
<1>22. CASE ListBegin
  BY <1>22 DEF NamedIsDrawn, StaleIsDead, Drawn, TypeOK, RequestStates,
     Sessions, RequestOK, ListBegin, AdminAct
<1>23. ASSUME NEW s \in Sids, ListGet(s) PROVE Goal
  BY <1>23 DEF NamedIsDrawn, StaleIsDead, Drawn, TypeOK, RequestStates,
     Sessions, RequestOK, ListGet, LiveSession
<1>24. CASE ListEnd
  BY <1>24 DEF NamedIsDrawn, StaleIsDead, Drawn, TypeOK, RequestStates,
     Sessions, RequestOK, ListEnd
<1>25. ASSUME NEW c \in Clients, NEW row \in RowChoices, SaveClient(c, row)
      PROVE Goal
  BY <1>25 DEF NamedIsDrawn, StaleIsDead, Drawn, TypeOK, RequestStates,
     Sessions, RequestOK, SaveClient, AdminAct
<1>26. ASSUME NEW u \in Users, NEW c \in Clients, ToggleGrant(u, c) PROVE Goal
  BY <1>26 DEF NamedIsDrawn, StaleIsDead, Drawn, TypeOK, RequestStates,
     Sessions, RequestOK, ToggleGrant, AdminAct
<1>27. ASSUME NEW u \in Users, DeleteUser(u) PROVE Goal
  BY <1>27 DEF NamedIsDrawn, StaleIsDead, Drawn, TypeOK, RequestStates,
     Sessions, RequestOK, DeleteUser, AdminAct
<1>28. CASE Tick
  BY <1>28 DEF NamedIsDrawn, StaleIsDead, Drawn, TypeOK, RequestStates,
     Sessions, RequestOK, Tick, Less, AgeTok
<1>29. CASE Restart
  BY <1>29 DEF NamedIsDrawn, StaleIsDead, Drawn, TypeOK, RequestStates,
     Sessions, RequestOK, Restart
<1>30. CASE UNCHANGED vars
  BY <1>30 DEF NamedIsDrawn, StaleIsDead, Drawn, TypeOK, RequestStates,
     Sessions, RequestOK, vars
<1> QED
  BY <1>1, <1>2, <1>3, <1>4, <1>5, <1>6, <1>7, <1>8, <1>9, <1>10, <1>11,
     <1>12, <1>13, <1>14, <1>15, <1>16, <1>17, <1>18, <1>19, <1>20, <1>21,
     <1>22, <1>23, <1>24, <1>25, <1>26, <1>27, <1>28, <1>29, <1>30 DEF Next,
     Begin, Serve, Administer

-----------------------------------------------------------------------------
(* Who a browser is *)

\* Every step keeps browsers known as people who authenticated there.
LEMMA NextNoImpersonation ==
  TypeOK /\ (\A r \in Requests : Lane(req[r])) /\ NamedIsDrawn /\
     NoImpersonation /\ [Next]_vars
    => NoImpersonation'
<1> SUFFICES ASSUME TypeOK, \A r \in Requests : Lane(req[r]), NamedIsDrawn,
      NoImpersonation, [Next]_vars PROVE NoImpersonation'
  OBVIOUS
<1> DEFINE Goal == NoImpersonation'
<1> USE SessionAssumption DEF tables, bounds, hist, NoTok, Idle, Goal
<1>1. ASSUME NEW r \in Requests, NEW b \in Browsers, NEW u \in Users, Login(r,
      b, u) PROVE Goal
  BY <1>1 DEF NoImpersonation, NamedIsDrawn, Drawn, TypeOK, RequestStates,
     Sessions, RequestOK, Login, Send, At
<1>2. ASSUME NEW r \in Requests, NEW b \in Browsers, Sync(r, b) PROVE Goal
  BY <1>2 DEF NoImpersonation, NamedIsDrawn, Drawn, TypeOK, RequestStates,
     Sessions, RequestOK, Sync, Send, At, Bearer
<1>3. ASSUME NEW r \in Requests, NEW b \in Browsers, Refresh(r, b) PROVE Goal
  BY <1>3 DEF NoImpersonation, NamedIsDrawn, Drawn, TypeOK, RequestStates,
     Sessions, RequestOK, Refresh, Send, At
<1>4. ASSUME NEW r \in Requests, NEW b \in Browsers, NEW c \in Clients,
      Enter(r, b, c) PROVE Goal
  BY <1>4 DEF NoImpersonation, NamedIsDrawn, Drawn, TypeOK, RequestStates,
     Sessions, RequestOK, Enter, Send, At
<1>5. ASSUME NEW r \in Requests, NEW b \in Browsers, Logout(r, b) PROVE Goal
  BY <1>5 DEF NoImpersonation, NamedIsDrawn, Drawn, TypeOK, RequestStates,
     Sessions, RequestOK, Logout, Send, At
<1>6. ASSUME NEW r \in Requests, NEW b \in Browsers, SingleLogout(r, b) PROVE
      Goal
  BY <1>6 DEF NoImpersonation, NamedIsDrawn, Drawn, TypeOK, RequestStates,
     Sessions, RequestOK, SingleLogout, Send, At
<1>7. ASSUME NEW r \in Requests, FindSession(r) PROVE Goal
  <2>0. At(r, "get") /\ UNCHANGED <<sess, index, list, jar, spa, ticket,
        tables, bounds, hist>>
    BY <1>7 DEF FindSession
  <2>1. CASE LiveSession(req[r].sid) /\ Step(r, After(req[r].op), req[r].sid,
        sess[req[r].sid].user, NoTicket)
    BY <2>0, <2>1 DEF NoImpersonation, NamedIsDrawn, Drawn, TypeOK,
       RequestStates, Sessions, RequestOK, At, LiveSession, After, Step
  <2>2. CASE req[r].tok.left > 0 /\ Step(r, "create", NoSid, req[r].tok.user,
        NoTicket)
    BY <2>0, <2>2 DEF NoImpersonation, NamedIsDrawn, Drawn, TypeOK,
       RequestStates, Sessions, RequestOK, At, Step
  <2>3. CASE Step(r, "reply", NoSid, Nobody, NoTicket)
    BY <2>0, <2>3 DEF NoImpersonation, NamedIsDrawn, Drawn, TypeOK,
       RequestStates, Sessions, RequestOK, At, Step
  <2>4. CASE End(r)
    BY <2>0, <2>4 DEF NoImpersonation, NamedIsDrawn, Drawn, TypeOK,
       RequestStates, Sessions, RequestOK, At, End
  <2> QED
    BY <1>7, <2>1, <2>2, <2>3, <2>4, FindOutcome
<1>8. ASSUME NEW r \in Requests, SyncSSOSession(r) PROVE Goal
  <2>0. At(r, "get") /\ UNCHANGED <<sess, index, list, jar, spa, ticket,
        tables, bounds, hist>>
    BY <1>8 DEF SyncSSOSession
  <2>1. CASE Goto(r, "reply")
    BY <2>0, <2>1 DEF NoImpersonation, NamedIsDrawn, Drawn, TypeOK,
       RequestStates, Sessions, RequestOK, At, Goto, Step
  <2>2. CASE Step(r, "create", NoSid, req[r].user, NoTicket)
    BY <2>0, <2>2 DEF NoImpersonation, NamedIsDrawn, Drawn, TypeOK,
       RequestStates, Sessions, RequestOK, At, Step
  <2> QED
    BY <1>8, <2>1, <2>2 DEF SyncSSOSession
<1>9. ASSUME NEW r \in Requests, NEW s \in Sids, Create(r, s) PROVE Goal
  BY <1>9 DEF NoImpersonation, NamedIsDrawn, Drawn, TypeOK, RequestStates,
     Sessions, RequestOK, Create, At, Step
<1>10. ASSUME NEW r \in Requests, AddToIndex(r) PROVE Goal
  BY <1>10 DEF NoImpersonation, NamedIsDrawn, Drawn, TypeOK, RequestStates,
     Sessions, RequestOK, AddToIndex, At, Step, Goto, After
<1>11. ASSUME NEW r \in Requests, RemoveFromIndex(r) PROVE Goal
  BY <1>11 DEF NoImpersonation, NamedIsDrawn, Drawn, TypeOK, RequestStates,
     Sessions, RequestOK, RemoveFromIndex, At, Step, Goto
<1>12. ASSUME NEW r \in Requests, DeleteSession(r) PROVE Goal
  <2>0. At(r, "del") /\ Dead(req[r].sid) /\ UNCHANGED <<index, list, jar, spa,
        ticket, tables, bounds, proved, out, honoured, old>>
    BY <1>12 DEF DeleteSession
  <2>1. CASE End(r)
    BY <2>0, <2>1 DEF NoImpersonation, NamedIsDrawn, Drawn, TypeOK,
       RequestStates, Sessions, RequestOK, At, Dead, End
  <2>2. CASE Goto(r, "reply")
    BY <2>0, <2>2 DEF NoImpersonation, NamedIsDrawn, Drawn, TypeOK,
       RequestStates, Sessions, RequestOK, At, Dead, Goto, Step
  <2> QED
    BY <1>12, <2>1, <2>2 DEF DeleteSession
<1>13. ASSUME NEW r \in Requests, Deny(r) PROVE Goal
  BY <1>13 DEF NoImpersonation, NamedIsDrawn, Drawn, TypeOK, RequestStates,
     Sessions, RequestOK, Deny, At, Step
<1>14. ASSUME NEW r \in Requests, AnswerSAML(r) PROVE Goal
  BY <1>14 DEF NoImpersonation, NamedIsDrawn, Drawn, TypeOK, RequestStates,
     Sessions, RequestOK, AnswerSAML, At, Step, Goto
<1>15. ASSUME NEW r \in Requests, NEW t \in Tickets, Issue(r, t) PROVE Goal
  BY <1>15 DEF NoImpersonation, NamedIsDrawn, Drawn, TypeOK, RequestStates,
     Sessions, RequestOK, Issue, At, Step
<1>16. ASSUME NEW r \in Requests, Reply(r) PROVE Goal
  BY <1>16 DEF NoImpersonation, NamedIsDrawn, Drawn, TypeOK, RequestStates,
     Sessions, RequestOK, Reply, At, End, NewSid, NewTok, LoggingOut
<1>17. ASSUME NEW r \in Requests, LoseReply(r) PROVE Goal
  BY <1>17 DEF NoImpersonation, NamedIsDrawn, Drawn, TypeOK, RequestStates,
     Sessions, RequestOK, LoseReply, At, End
<1>18. ASSUME NEW r \in Requests, DeleteTicket(r) PROVE Goal
  BY <1>18 DEF NoImpersonation, NamedIsDrawn, Drawn, TypeOK, RequestStates,
     Sessions, RequestOK, DeleteTicket, At, Step, Goto
<1>19. ASSUME NEW r \in Requests, AnswerValidate(r) PROVE Goal
  BY <1>19 DEF NoImpersonation, NamedIsDrawn, Drawn, TypeOK, RequestStates,
     Sessions, RequestOK, AnswerValidate, At, End
<1>20. ASSUME NEW r \in Requests, NEW t \in Tickets, NEW c \in CasClients,
      Validate(r, t, c) PROVE Goal
  BY <1>20 DEF NoImpersonation, NamedIsDrawn, Drawn, TypeOK, RequestStates,
     Sessions, RequestOK, Validate, At
<1>21. ASSUME NEW r \in Requests, NEW s \in Sids, Kick(r, s) PROVE Goal
  BY <1>21 DEF NoImpersonation, NamedIsDrawn, Drawn, TypeOK, RequestStates,
     Sessions, RequestOK, Kick, AdminAct, At
<1>22. CASE ListBegin
  BY <1>22 DEF NoImpersonation, NamedIsDrawn, Drawn, TypeOK, RequestStates,
     Sessions, RequestOK, ListBegin, AdminAct
<1>23. ASSUME NEW s \in Sids, ListGet(s) PROVE Goal
  BY <1>23 DEF NoImpersonation, NamedIsDrawn, Drawn, TypeOK, RequestStates,
     Sessions, RequestOK, ListGet, LiveSession
<1>24. CASE ListEnd
  BY <1>24 DEF NoImpersonation, NamedIsDrawn, Drawn, TypeOK, RequestStates,
     Sessions, RequestOK, ListEnd
<1>25. ASSUME NEW c \in Clients, NEW row \in RowChoices, SaveClient(c, row)
      PROVE Goal
  BY <1>25 DEF NoImpersonation, NamedIsDrawn, Drawn, TypeOK, RequestStates,
     Sessions, RequestOK, SaveClient, AdminAct
<1>26. ASSUME NEW u \in Users, NEW c \in Clients, ToggleGrant(u, c) PROVE Goal
  BY <1>26 DEF NoImpersonation, NamedIsDrawn, Drawn, TypeOK, RequestStates,
     Sessions, RequestOK, ToggleGrant, AdminAct
<1>27. ASSUME NEW u \in Users, DeleteUser(u) PROVE Goal
  BY <1>27 DEF NoImpersonation, NamedIsDrawn, Drawn, TypeOK, RequestStates,
     Sessions, RequestOK, DeleteUser, AdminAct
<1>28. CASE Tick
  BY SMTT(30), <1>28 DEF NoImpersonation, NamedIsDrawn, Drawn, TypeOK, RequestStates,
     Sessions, RequestOK, Tick, Less, AgeTok
<1>29. CASE Restart
  BY <1>29 DEF NoImpersonation, NamedIsDrawn, Drawn, TypeOK, RequestStates,
     Sessions, RequestOK, Restart
<1>30. CASE UNCHANGED vars
  BY <1>30 DEF NoImpersonation, NamedIsDrawn, Drawn, TypeOK, RequestStates,
     Sessions, RequestOK, vars
<1> QED
  BY <1>1, <1>2, <1>3, <1>4, <1>5, <1>6, <1>7, <1>8, <1>9, <1>10, <1>11,
     <1>12, <1>13, <1>14, <1>15, <1>16, <1>17, <1>18, <1>19, <1>20, <1>21,
     <1>22, <1>23, <1>24, <1>25, <1>26, <1>27, <1>28, <1>29, <1>30 DEF Next,
     Begin, Serve, Administer

-----------------------------------------------------------------------------
(* What the administrator sees *)

\* Every step keeps live sessions on the list.
LEMMA NextListed ==
  TypeOK /\ (\A r \in Requests : Lane(req[r])) /\ NamedIsDrawn /\ StaleIsDead
     /\ Listed /\ [Next]_vars
    => Listed'
<1> SUFFICES ASSUME TypeOK, \A r \in Requests : Lane(req[r]), NamedIsDrawn,
      StaleIsDead, Listed, [Next]_vars PROVE Listed'
  OBVIOUS
<1> DEFINE Goal == Listed'
<1> USE SessionAssumption DEF tables, bounds, hist, NoTok, Idle, Goal
<1>1. ASSUME NEW r \in Requests, NEW b \in Browsers, NEW u \in Users, Login(r,
      b, u) PROVE Goal
  BY <1>1 DEF Listed, LiveSession, NamedIsDrawn, StaleIsDead, Drawn, TypeOK,
     RequestStates, Sessions, RequestOK, Login, Send, At
<1>2. ASSUME NEW r \in Requests, NEW b \in Browsers, Sync(r, b) PROVE Goal
  BY <1>2 DEF Listed, LiveSession, NamedIsDrawn, StaleIsDead, Drawn, TypeOK,
     RequestStates, Sessions, RequestOK, Sync, Send, At, Bearer
<1>3. ASSUME NEW r \in Requests, NEW b \in Browsers, Refresh(r, b) PROVE Goal
  BY <1>3 DEF Listed, LiveSession, NamedIsDrawn, StaleIsDead, Drawn, TypeOK,
     RequestStates, Sessions, RequestOK, Refresh, Send, At
<1>4. ASSUME NEW r \in Requests, NEW b \in Browsers, NEW c \in Clients,
      Enter(r, b, c) PROVE Goal
  BY <1>4 DEF Listed, LiveSession, NamedIsDrawn, StaleIsDead, Drawn, TypeOK,
     RequestStates, Sessions, RequestOK, Enter, Send, At
<1>5. ASSUME NEW r \in Requests, NEW b \in Browsers, Logout(r, b) PROVE Goal
  BY <1>5 DEF Listed, LiveSession, NamedIsDrawn, StaleIsDead, Drawn, TypeOK,
     RequestStates, Sessions, RequestOK, Logout, Send, At
<1>6. ASSUME NEW r \in Requests, NEW b \in Browsers, SingleLogout(r, b) PROVE
      Goal
  BY <1>6 DEF Listed, LiveSession, NamedIsDrawn, StaleIsDead, Drawn, TypeOK,
     RequestStates, Sessions, RequestOK, SingleLogout, Send, At
<1>7. ASSUME NEW r \in Requests, FindSession(r) PROVE Goal
  <2>0. At(r, "get") /\ UNCHANGED <<sess, index, list, jar, spa, ticket,
        tables, bounds, hist>>
    BY <1>7 DEF FindSession
  <2>1. CASE LiveSession(req[r].sid) /\ Step(r, After(req[r].op), req[r].sid,
        sess[req[r].sid].user, NoTicket)
    BY <2>0, <2>1 DEF Listed, LiveSession, NamedIsDrawn, StaleIsDead, Drawn,
       TypeOK, RequestStates, Sessions, RequestOK, At, LiveSession, After,
       Step
  <2>2. CASE req[r].tok.left > 0 /\ Step(r, "create", NoSid, req[r].tok.user,
        NoTicket)
    BY <2>0, <2>2 DEF Listed, LiveSession, NamedIsDrawn, StaleIsDead, Drawn,
       TypeOK, RequestStates, Sessions, RequestOK, At, Step
  <2>3. CASE Step(r, "reply", NoSid, Nobody, NoTicket)
    BY <2>0, <2>3 DEF Listed, LiveSession, NamedIsDrawn, StaleIsDead, Drawn,
       TypeOK, RequestStates, Sessions, RequestOK, At, Step
  <2>4. CASE End(r)
    BY <2>0, <2>4 DEF Listed, LiveSession, NamedIsDrawn, StaleIsDead, Drawn,
       TypeOK, RequestStates, Sessions, RequestOK, At, End
  <2> QED
    BY <1>7, <2>1, <2>2, <2>3, <2>4, FindOutcome
<1>8. ASSUME NEW r \in Requests, SyncSSOSession(r) PROVE Goal
  <2>0. At(r, "get") /\ UNCHANGED <<sess, index, list, jar, spa, ticket,
        tables, bounds, hist>>
    BY <1>8 DEF SyncSSOSession
  <2>1. CASE Goto(r, "reply")
    BY <2>0, <2>1 DEF Listed, LiveSession, NamedIsDrawn, StaleIsDead, Drawn,
       TypeOK, RequestStates, Sessions, RequestOK, At, Goto, Step
  <2>2. CASE Step(r, "create", NoSid, req[r].user, NoTicket)
    BY <2>0, <2>2 DEF Listed, LiveSession, NamedIsDrawn, StaleIsDead, Drawn,
       TypeOK, RequestStates, Sessions, RequestOK, At, Step
  <2> QED
    BY <1>8, <2>1, <2>2 DEF SyncSSOSession
<1>9. ASSUME NEW r \in Requests, NEW s \in Sids, Create(r, s) PROVE Goal
  BY <1>9 DEF Listed, LiveSession, NamedIsDrawn, StaleIsDead, Drawn, TypeOK,
     RequestStates, Sessions, RequestOK, Create, At, Step
<1>10. ASSUME NEW r \in Requests, AddToIndex(r) PROVE Goal
  BY <1>10 DEF Listed, LiveSession, NamedIsDrawn, StaleIsDead, Drawn, TypeOK,
     RequestStates, Sessions, RequestOK, AddToIndex, At, Step, Goto, After
<1>11. ASSUME NEW r \in Requests, RemoveFromIndex(r) PROVE Goal
  BY <1>11 DEF Listed, LiveSession, NamedIsDrawn, StaleIsDead, Drawn, TypeOK,
     RequestStates, Sessions, RequestOK, RemoveFromIndex, At, Step, Goto
<1>12. ASSUME NEW r \in Requests, DeleteSession(r) PROVE Goal
  <2>0. At(r, "del") /\ Dead(req[r].sid) /\ UNCHANGED <<index, list, jar, spa,
        ticket, tables, bounds, proved, out, honoured, old>>
    BY <1>12 DEF DeleteSession
  <2>1. CASE End(r)
    BY <2>0, <2>1 DEF Listed, LiveSession, NamedIsDrawn, StaleIsDead, Drawn,
       TypeOK, RequestStates, Sessions, RequestOK, At, Dead, End
  <2>2. CASE Goto(r, "reply")
    BY <2>0, <2>2 DEF Listed, LiveSession, NamedIsDrawn, StaleIsDead, Drawn,
       TypeOK, RequestStates, Sessions, RequestOK, At, Dead, Goto, Step
  <2> QED
    BY <1>12, <2>1, <2>2 DEF DeleteSession
<1>13. ASSUME NEW r \in Requests, Deny(r) PROVE Goal
  BY <1>13 DEF Listed, LiveSession, NamedIsDrawn, StaleIsDead, Drawn, TypeOK,
     RequestStates, Sessions, RequestOK, Deny, At, Step
<1>14. ASSUME NEW r \in Requests, AnswerSAML(r) PROVE Goal
  BY <1>14 DEF Listed, LiveSession, NamedIsDrawn, StaleIsDead, Drawn, TypeOK,
     RequestStates, Sessions, RequestOK, AnswerSAML, At, Step, Goto
<1>15. ASSUME NEW r \in Requests, NEW t \in Tickets, Issue(r, t) PROVE Goal
  BY <1>15 DEF Listed, LiveSession, NamedIsDrawn, StaleIsDead, Drawn, TypeOK,
     RequestStates, Sessions, RequestOK, Issue, At, Step
<1>16. ASSUME NEW r \in Requests, Reply(r) PROVE Goal
  BY <1>16 DEF Listed, LiveSession, NamedIsDrawn, StaleIsDead, Drawn, TypeOK,
     RequestStates, Sessions, RequestOK, Reply, At, End, NewSid, NewTok,
     LoggingOut
<1>17. ASSUME NEW r \in Requests, LoseReply(r) PROVE Goal
  BY <1>17 DEF Listed, LiveSession, NamedIsDrawn, StaleIsDead, Drawn, TypeOK,
     RequestStates, Sessions, RequestOK, LoseReply, At, End
<1>18. ASSUME NEW r \in Requests, DeleteTicket(r) PROVE Goal
  BY <1>18 DEF Listed, LiveSession, NamedIsDrawn, StaleIsDead, Drawn, TypeOK,
     RequestStates, Sessions, RequestOK, DeleteTicket, At, Step, Goto
<1>19. ASSUME NEW r \in Requests, AnswerValidate(r) PROVE Goal
  BY <1>19 DEF Listed, LiveSession, NamedIsDrawn, StaleIsDead, Drawn, TypeOK,
     RequestStates, Sessions, RequestOK, AnswerValidate, At, End
<1>20. ASSUME NEW r \in Requests, NEW t \in Tickets, NEW c \in CasClients,
      Validate(r, t, c) PROVE Goal
  BY <1>20 DEF Listed, LiveSession, NamedIsDrawn, StaleIsDead, Drawn, TypeOK,
     RequestStates, Sessions, RequestOK, Validate, At
<1>21. ASSUME NEW r \in Requests, NEW s \in Sids, Kick(r, s) PROVE Goal
  BY <1>21 DEF Listed, LiveSession, NamedIsDrawn, StaleIsDead, Drawn, TypeOK,
     RequestStates, Sessions, RequestOK, Kick, AdminAct, At
<1>22. CASE ListBegin
  BY <1>22 DEF Listed, LiveSession, NamedIsDrawn, StaleIsDead, Drawn, TypeOK,
     RequestStates, Sessions, RequestOK, ListBegin, AdminAct
<1>23. ASSUME NEW s \in Sids, ListGet(s) PROVE Goal
  BY <1>23 DEF Listed, LiveSession, NamedIsDrawn, StaleIsDead, Drawn, TypeOK,
     RequestStates, Sessions, RequestOK, ListGet, LiveSession
<1>24. CASE ListEnd
  BY <1>24 DEF Listed, LiveSession, NamedIsDrawn, StaleIsDead, Drawn, TypeOK,
     RequestStates, Sessions, RequestOK, ListEnd
<1>25. ASSUME NEW c \in Clients, NEW row \in RowChoices, SaveClient(c, row)
      PROVE Goal
  BY <1>25 DEF Listed, LiveSession, NamedIsDrawn, StaleIsDead, Drawn, TypeOK,
     RequestStates, Sessions, RequestOK, SaveClient, AdminAct
<1>26. ASSUME NEW u \in Users, NEW c \in Clients, ToggleGrant(u, c) PROVE Goal
  BY <1>26 DEF Listed, LiveSession, NamedIsDrawn, StaleIsDead, Drawn, TypeOK,
     RequestStates, Sessions, RequestOK, ToggleGrant, AdminAct
<1>27. ASSUME NEW u \in Users, DeleteUser(u) PROVE Goal
  BY <1>27 DEF Listed, LiveSession, NamedIsDrawn, StaleIsDead, Drawn, TypeOK,
     RequestStates, Sessions, RequestOK, DeleteUser, AdminAct
<1>28. CASE Tick
  BY <1>28 DEF Listed, LiveSession, NamedIsDrawn, StaleIsDead, Drawn, TypeOK,
     RequestStates, Sessions, RequestOK, Tick, Less, AgeTok
<1>29. CASE Restart
  BY <1>29 DEF Listed, LiveSession, NamedIsDrawn, StaleIsDead, Drawn, TypeOK,
     RequestStates, Sessions, RequestOK, Restart
<1>30. CASE UNCHANGED vars
  BY <1>30 DEF Listed, LiveSession, NamedIsDrawn, StaleIsDead, Drawn, TypeOK,
     RequestStates, Sessions, RequestOK, vars
<1> QED
  BY <1>1, <1>2, <1>3, <1>4, <1>5, <1>6, <1>7, <1>8, <1>9, <1>10, <1>11,
     <1>12, <1>13, <1>14, <1>15, <1>16, <1>17, <1>18, <1>19, <1>20, <1>21,
     <1>22, <1>23, <1>24, <1>25, <1>26, <1>27, <1>28, <1>29, <1>30 DEF Next,
     Begin, Serve, Administer

-----------------------------------------------------------------------------
(* Logout *)

\* Every step leaves a browser that logged out with nothing.
LEMMA NextOut ==
  TypeOK /\ (\A r \in Requests : Lane(req[r])) /\ LogoutSticks /\
     OutCarriesNothing /\ [Next]_vars
    => LogoutSticks' /\ OutCarriesNothing'
<1> SUFFICES ASSUME TypeOK, \A r \in Requests : Lane(req[r]), LogoutSticks,
      OutCarriesNothing, [Next]_vars PROVE LogoutSticks' /\ OutCarriesNothing'
  OBVIOUS
<1> DEFINE Goal == LogoutSticks' /\ OutCarriesNothing'
<1> USE SessionAssumption DEF tables, bounds, hist, NoTok, Idle, Goal
<1>1. ASSUME NEW r \in Requests, NEW b \in Browsers, NEW u \in Users, Login(r,
      b, u) PROVE Goal
  BY <1>1 DEF LogoutSticks, OutCarriesNothing, Open, TypeOK, Toks,
     RequestStates, RequestOK, Login, Send, At
<1>2. ASSUME NEW r \in Requests, NEW b \in Browsers, Sync(r, b) PROVE Goal
  BY <1>2 DEF LogoutSticks, OutCarriesNothing, Open, TypeOK, Toks,
     RequestStates, RequestOK, Sync, Send, At, Bearer
<1>3. ASSUME NEW r \in Requests, NEW b \in Browsers, Refresh(r, b) PROVE Goal
  BY <1>3 DEF LogoutSticks, OutCarriesNothing, Open, TypeOK, Toks,
     RequestStates, RequestOK, Refresh, Send, At
<1>4. ASSUME NEW r \in Requests, NEW b \in Browsers, NEW c \in Clients,
      Enter(r, b, c) PROVE Goal
  BY <1>4 DEF LogoutSticks, OutCarriesNothing, Open, TypeOK, Toks,
     RequestStates, RequestOK, Enter, Send, At
<1>5. ASSUME NEW r \in Requests, NEW b \in Browsers, Logout(r, b) PROVE Goal
  BY <1>5 DEF LogoutSticks, OutCarriesNothing, Open, TypeOK, Toks,
     RequestStates, RequestOK, Logout, Send, At
<1>6. ASSUME NEW r \in Requests, NEW b \in Browsers, SingleLogout(r, b) PROVE
      Goal
  BY <1>6 DEF LogoutSticks, OutCarriesNothing, Open, TypeOK, Toks,
     RequestStates, RequestOK, SingleLogout, Send, At
<1>7. ASSUME NEW r \in Requests, FindSession(r) PROVE Goal
  <2>0. At(r, "get") /\ UNCHANGED <<sess, index, list, jar, spa, ticket,
        tables, bounds, hist>>
    BY <1>7 DEF FindSession
  <2>1. CASE LiveSession(req[r].sid) /\ Step(r, After(req[r].op), req[r].sid,
        sess[req[r].sid].user, NoTicket)
    BY <2>0, <2>1 DEF LogoutSticks, OutCarriesNothing, Open, TypeOK, Toks,
       RequestStates, RequestOK, At, LiveSession, After, Step
  <2>2. CASE req[r].tok.left > 0 /\ Step(r, "create", NoSid, req[r].tok.user,
        NoTicket)
    BY <2>0, <2>2 DEF LogoutSticks, OutCarriesNothing, Open, TypeOK, Toks,
       RequestStates, RequestOK, At, Step
  <2>3. CASE Step(r, "reply", NoSid, Nobody, NoTicket)
    BY <2>0, <2>3 DEF LogoutSticks, OutCarriesNothing, Open, TypeOK, Toks,
       RequestStates, RequestOK, At, Step
  <2>4. CASE End(r)
    BY <2>0, <2>4 DEF LogoutSticks, OutCarriesNothing, Open, TypeOK, Toks,
       RequestStates, RequestOK, At, End
  <2> QED
    BY <1>7, <2>1, <2>2, <2>3, <2>4, FindOutcome
<1>8. ASSUME NEW r \in Requests, SyncSSOSession(r) PROVE Goal
  <2>0. At(r, "get") /\ UNCHANGED <<sess, index, list, jar, spa, ticket,
        tables, bounds, hist>>
    BY <1>8 DEF SyncSSOSession
  <2>1. CASE Goto(r, "reply")
    BY <2>0, <2>1 DEF LogoutSticks, OutCarriesNothing, Open, TypeOK, Toks,
       RequestStates, RequestOK, At, Goto, Step
  <2>2. CASE Step(r, "create", NoSid, req[r].user, NoTicket)
    BY <2>0, <2>2 DEF LogoutSticks, OutCarriesNothing, Open, TypeOK, Toks,
       RequestStates, RequestOK, At, Step
  <2> QED
    BY <1>8, <2>1, <2>2 DEF SyncSSOSession
<1>9. ASSUME NEW r \in Requests, NEW s \in Sids, Create(r, s) PROVE Goal
  BY <1>9 DEF LogoutSticks, OutCarriesNothing, Open, TypeOK, Toks,
     RequestStates, RequestOK, Create, At, Step
<1>10. ASSUME NEW r \in Requests, AddToIndex(r) PROVE Goal
  BY <1>10 DEF LogoutSticks, OutCarriesNothing, Open, TypeOK, Toks,
     RequestStates, RequestOK, AddToIndex, At, Step, Goto, After
<1>11. ASSUME NEW r \in Requests, RemoveFromIndex(r) PROVE Goal
  BY <1>11 DEF LogoutSticks, OutCarriesNothing, Open, TypeOK, Toks,
     RequestStates, RequestOK, RemoveFromIndex, At, Step, Goto
<1>12. ASSUME NEW r \in Requests, DeleteSession(r) PROVE Goal
  <2>0. At(r, "del") /\ Dead(req[r].sid) /\ UNCHANGED <<index, list, jar, spa,
        ticket, tables, bounds, proved, out, honoured, old>>
    BY <1>12 DEF DeleteSession
  <2>1. CASE End(r)
    BY <2>0, <2>1 DEF LogoutSticks, OutCarriesNothing, Open, TypeOK, Toks,
       RequestStates, RequestOK, At, Dead, End
  <2>2. CASE Goto(r, "reply")
    BY <2>0, <2>2 DEF LogoutSticks, OutCarriesNothing, Open, TypeOK, Toks,
       RequestStates, RequestOK, At, Dead, Goto, Step
  <2> QED
    BY <1>12, <2>1, <2>2 DEF DeleteSession
<1>13. ASSUME NEW r \in Requests, Deny(r) PROVE Goal
  BY <1>13 DEF LogoutSticks, OutCarriesNothing, Open, TypeOK, Toks,
     RequestStates, RequestOK, Deny, At, Step
<1>14. ASSUME NEW r \in Requests, AnswerSAML(r) PROVE Goal
  BY <1>14 DEF LogoutSticks, OutCarriesNothing, Open, TypeOK, Toks,
     RequestStates, RequestOK, AnswerSAML, At, Step, Goto
<1>15. ASSUME NEW r \in Requests, NEW t \in Tickets, Issue(r, t) PROVE Goal
  BY <1>15 DEF LogoutSticks, OutCarriesNothing, Open, TypeOK, Toks,
     RequestStates, RequestOK, Issue, At, Step
<1>16. ASSUME NEW r \in Requests, Reply(r) PROVE Goal
  BY <1>16 DEF LogoutSticks, OutCarriesNothing, Open, TypeOK, Toks,
     RequestStates, RequestOK, Reply, At, End, NewSid, NewTok, LoggingOut
<1>17. ASSUME NEW r \in Requests, LoseReply(r) PROVE Goal
  BY <1>17 DEF LogoutSticks, OutCarriesNothing, Open, TypeOK, Toks,
     RequestStates, RequestOK, LoseReply, At, End
<1>18. ASSUME NEW r \in Requests, DeleteTicket(r) PROVE Goal
  BY <1>18 DEF LogoutSticks, OutCarriesNothing, Open, TypeOK, Toks,
     RequestStates, RequestOK, DeleteTicket, At, Step, Goto
<1>19. ASSUME NEW r \in Requests, AnswerValidate(r) PROVE Goal
  BY <1>19 DEF LogoutSticks, OutCarriesNothing, Open, TypeOK, Toks,
     RequestStates, RequestOK, AnswerValidate, At, End
<1>20. ASSUME NEW r \in Requests, NEW t \in Tickets, NEW c \in CasClients,
      Validate(r, t, c) PROVE Goal
  BY <1>20 DEF LogoutSticks, OutCarriesNothing, Open, TypeOK, Toks,
     RequestStates, RequestOK, Validate, At
<1>21. ASSUME NEW r \in Requests, NEW s \in Sids, Kick(r, s) PROVE Goal
  BY <1>21 DEF LogoutSticks, OutCarriesNothing, Open, TypeOK, Toks,
     RequestStates, RequestOK, Kick, AdminAct, At
<1>22. CASE ListBegin
  BY <1>22 DEF LogoutSticks, OutCarriesNothing, Open, TypeOK, Toks,
     RequestStates, RequestOK, ListBegin, AdminAct
<1>23. ASSUME NEW s \in Sids, ListGet(s) PROVE Goal
  BY <1>23 DEF LogoutSticks, OutCarriesNothing, Open, TypeOK, Toks,
     RequestStates, RequestOK, ListGet, LiveSession
<1>24. CASE ListEnd
  BY <1>24 DEF LogoutSticks, OutCarriesNothing, Open, TypeOK, Toks,
     RequestStates, RequestOK, ListEnd
<1>25. ASSUME NEW c \in Clients, NEW row \in RowChoices, SaveClient(c, row)
      PROVE Goal
  BY <1>25 DEF LogoutSticks, OutCarriesNothing, Open, TypeOK, Toks,
     RequestStates, RequestOK, SaveClient, AdminAct
<1>26. ASSUME NEW u \in Users, NEW c \in Clients, ToggleGrant(u, c) PROVE Goal
  BY <1>26 DEF LogoutSticks, OutCarriesNothing, Open, TypeOK, Toks,
     RequestStates, RequestOK, ToggleGrant, AdminAct
<1>27. ASSUME NEW u \in Users, DeleteUser(u) PROVE Goal
  BY <1>27 DEF LogoutSticks, OutCarriesNothing, Open, TypeOK, Toks,
     RequestStates, RequestOK, DeleteUser, AdminAct
<1>28. CASE Tick
  BY <1>28 DEF LogoutSticks, OutCarriesNothing, Open, TypeOK, Toks,
     RequestStates, RequestOK, Tick, Less, AgeTok
<1>29. CASE Restart
  BY <1>29 DEF LogoutSticks, OutCarriesNothing, Open, TypeOK, Toks,
     RequestStates, RequestOK, Restart
<1>30. CASE UNCHANGED vars
  BY <1>30 DEF LogoutSticks, OutCarriesNothing, Open, TypeOK, Toks,
     RequestStates, RequestOK, vars
<1> QED
  BY <1>1, <1>2, <1>3, <1>4, <1>5, <1>6, <1>7, <1>8, <1>9, <1>10, <1>11,
     <1>12, <1>13, <1>14, <1>15, <1>16, <1>17, <1>18, <1>19, <1>20, <1>21,
     <1>22, <1>23, <1>24, <1>25, <1>26, <1>27, <1>28, <1>29, <1>30 DEF Next,
     Begin, Serve, Administer

-----------------------------------------------------------------------------
(* Tickets *)

\* Every step keeps tickets in hand issued, and answered ones deleted.
LEMMA NextTicketsInHand ==
  TypeOK /\ (\A r \in Requests : Lane(req[r])) /\ TicketsInHand /\ [Next]_vars
    => TicketsInHand'
<1> SUFFICES ASSUME TypeOK, \A r \in Requests : Lane(req[r]), TicketsInHand,
      [Next]_vars PROVE TicketsInHand'
  OBVIOUS
<1> DEFINE Goal == TicketsInHand'
<1> USE SessionAssumption DEF tables, bounds, hist, NoTok, Idle, Goal
<1>1. ASSUME NEW r \in Requests, NEW b \in Browsers, NEW u \in Users, Login(r,
      b, u) PROVE Goal
  BY <1>1 DEF TicketsInHand, TypeOK, RequestStates, RequestOK, Login, Send, At
<1>2. ASSUME NEW r \in Requests, NEW b \in Browsers, Sync(r, b) PROVE Goal
  BY <1>2 DEF TicketsInHand, TypeOK, RequestStates, RequestOK, Sync, Send, At,
     Bearer
<1>3. ASSUME NEW r \in Requests, NEW b \in Browsers, Refresh(r, b) PROVE Goal
  BY <1>3 DEF TicketsInHand, TypeOK, RequestStates, RequestOK, Refresh, Send,
     At
<1>4. ASSUME NEW r \in Requests, NEW b \in Browsers, NEW c \in Clients,
      Enter(r, b, c) PROVE Goal
  BY <1>4 DEF TicketsInHand, TypeOK, RequestStates, RequestOK, Enter, Send, At
<1>5. ASSUME NEW r \in Requests, NEW b \in Browsers, Logout(r, b) PROVE Goal
  BY <1>5 DEF TicketsInHand, TypeOK, RequestStates, RequestOK, Logout, Send,
     At
<1>6. ASSUME NEW r \in Requests, NEW b \in Browsers, SingleLogout(r, b) PROVE
      Goal
  BY <1>6 DEF TicketsInHand, TypeOK, RequestStates, RequestOK, SingleLogout,
     Send, At
<1>7. ASSUME NEW r \in Requests, FindSession(r) PROVE Goal
  <2>0. At(r, "get") /\ UNCHANGED <<sess, index, list, jar, spa, ticket,
        tables, bounds, hist>>
    BY <1>7 DEF FindSession
  <2>1. CASE LiveSession(req[r].sid) /\ Step(r, After(req[r].op), req[r].sid,
        sess[req[r].sid].user, NoTicket)
    BY <2>0, <2>1 DEF TicketsInHand, TypeOK, RequestStates, RequestOK, At,
       LiveSession, After, Step
  <2>2. CASE req[r].tok.left > 0 /\ Step(r, "create", NoSid, req[r].tok.user,
        NoTicket)
    BY <2>0, <2>2 DEF TicketsInHand, TypeOK, RequestStates, RequestOK, At,
       Step
  <2>3. CASE Step(r, "reply", NoSid, Nobody, NoTicket)
    BY <2>0, <2>3 DEF TicketsInHand, TypeOK, RequestStates, RequestOK, At,
       Step
  <2>4. CASE End(r)
    BY <2>0, <2>4 DEF TicketsInHand, TypeOK, RequestStates, RequestOK, At, End
  <2> QED
    BY <1>7, <2>1, <2>2, <2>3, <2>4, FindOutcome
<1>8. ASSUME NEW r \in Requests, SyncSSOSession(r) PROVE Goal
  <2>0. At(r, "get") /\ UNCHANGED <<sess, index, list, jar, spa, ticket,
        tables, bounds, hist>>
    BY <1>8 DEF SyncSSOSession
  <2>1. CASE Goto(r, "reply")
    BY <2>0, <2>1 DEF TicketsInHand, TypeOK, RequestStates, RequestOK, At,
       Goto, Step
  <2>2. CASE Step(r, "create", NoSid, req[r].user, NoTicket)
    BY <2>0, <2>2 DEF TicketsInHand, TypeOK, RequestStates, RequestOK, At,
       Step
  <2> QED
    BY <1>8, <2>1, <2>2 DEF SyncSSOSession
<1>9. ASSUME NEW r \in Requests, NEW s \in Sids, Create(r, s) PROVE Goal
  BY <1>9 DEF TicketsInHand, TypeOK, RequestStates, RequestOK, Create, At,
     Step
<1>10. ASSUME NEW r \in Requests, AddToIndex(r) PROVE Goal
  BY <1>10 DEF TicketsInHand, TypeOK, RequestStates, RequestOK, AddToIndex,
     At, Step, Goto, After
<1>11. ASSUME NEW r \in Requests, RemoveFromIndex(r) PROVE Goal
  BY <1>11 DEF TicketsInHand, TypeOK, RequestStates, RequestOK,
     RemoveFromIndex, At, Step, Goto
<1>12. ASSUME NEW r \in Requests, DeleteSession(r) PROVE Goal
  <2>0. At(r, "del") /\ Dead(req[r].sid) /\ UNCHANGED <<index, list, jar, spa,
        ticket, tables, bounds, proved, out, honoured, old>>
    BY <1>12 DEF DeleteSession
  <2>1. CASE End(r)
    BY <2>0, <2>1 DEF TicketsInHand, TypeOK, RequestStates, RequestOK, At,
       Dead, End
  <2>2. CASE Goto(r, "reply")
    BY <2>0, <2>2 DEF TicketsInHand, TypeOK, RequestStates, RequestOK, At,
       Dead, Goto, Step
  <2> QED
    BY <1>12, <2>1, <2>2 DEF DeleteSession
<1>13. ASSUME NEW r \in Requests, Deny(r) PROVE Goal
  BY <1>13 DEF TicketsInHand, TypeOK, RequestStates, RequestOK, Deny, At, Step
<1>14. ASSUME NEW r \in Requests, AnswerSAML(r) PROVE Goal
  BY <1>14 DEF TicketsInHand, TypeOK, RequestStates, RequestOK, AnswerSAML,
     At, Step, Goto
<1>15. ASSUME NEW r \in Requests, NEW t \in Tickets, Issue(r, t) PROVE Goal
  BY <1>15 DEF TicketsInHand, TypeOK, RequestStates, RequestOK, Issue, At,
     Step
<1>16. ASSUME NEW r \in Requests, Reply(r) PROVE Goal
  BY <1>16 DEF TicketsInHand, TypeOK, RequestStates, RequestOK, Reply, At,
     End, NewSid, NewTok, LoggingOut
<1>17. ASSUME NEW r \in Requests, LoseReply(r) PROVE Goal
  BY <1>17 DEF TicketsInHand, TypeOK, RequestStates, RequestOK, LoseReply, At,
     End
<1>18. ASSUME NEW r \in Requests, DeleteTicket(r) PROVE Goal
  BY <1>18 DEF TicketsInHand, TypeOK, RequestStates, RequestOK, DeleteTicket,
     At, Step, Goto
<1>19. ASSUME NEW r \in Requests, AnswerValidate(r) PROVE Goal
  BY <1>19 DEF TicketsInHand, TypeOK, RequestStates, RequestOK,
     AnswerValidate, At, End
<1>20. ASSUME NEW r \in Requests, NEW t \in Tickets, NEW c \in CasClients,
      Validate(r, t, c) PROVE Goal
  BY <1>20 DEF TicketsInHand, TypeOK, RequestStates, RequestOK, Validate, At
<1>21. ASSUME NEW r \in Requests, NEW s \in Sids, Kick(r, s) PROVE Goal
  BY <1>21 DEF TicketsInHand, TypeOK, RequestStates, RequestOK, Kick,
     AdminAct, At
<1>22. CASE ListBegin
  BY <1>22 DEF TicketsInHand, TypeOK, RequestStates, RequestOK, ListBegin,
     AdminAct
<1>23. ASSUME NEW s \in Sids, ListGet(s) PROVE Goal
  BY <1>23 DEF TicketsInHand, TypeOK, RequestStates, RequestOK, ListGet,
     LiveSession
<1>24. CASE ListEnd
  BY <1>24 DEF TicketsInHand, TypeOK, RequestStates, RequestOK, ListEnd
<1>25. ASSUME NEW c \in Clients, NEW row \in RowChoices, SaveClient(c, row)
      PROVE Goal
  BY <1>25 DEF TicketsInHand, TypeOK, RequestStates, RequestOK, SaveClient,
     AdminAct
<1>26. ASSUME NEW u \in Users, NEW c \in Clients, ToggleGrant(u, c) PROVE Goal
  BY <1>26 DEF TicketsInHand, TypeOK, RequestStates, RequestOK, ToggleGrant,
     AdminAct
<1>27. ASSUME NEW u \in Users, DeleteUser(u) PROVE Goal
  BY <1>27 DEF TicketsInHand, TypeOK, RequestStates, RequestOK, DeleteUser,
     AdminAct
<1>28. CASE Tick
  BY SMTT(30), <1>28 DEF TicketsInHand, TypeOK, RequestStates, RequestOK, Tick, Less,
     AgeTok
<1>29. CASE Restart
  BY <1>29 DEF TicketsInHand, TypeOK, RequestStates, RequestOK, Restart
<1>30. CASE UNCHANGED vars
  BY <1>30 DEF TicketsInHand, TypeOK, RequestStates, RequestOK, vars
<1> QED
  BY <1>1, <1>2, <1>3, <1>4, <1>5, <1>6, <1>7, <1>8, <1>9, <1>10, <1>11,
     <1>12, <1>13, <1>14, <1>15, <1>16, <1>17, <1>18, <1>19, <1>20, <1>21,
     <1>22, <1>23, <1>24, <1>25, <1>26, <1>27, <1>28, <1>29, <1>30 DEF Next,
     Begin, Serve, Administer

-----------------------------------------------------------------------------
(* The theorems *)

\* The inductive invariant holds at the start.
LEMMA InitSessionInv == Init => SessionInv
<1> SUFFICES ASSUME Init PROVE SessionInv
  OBVIOUS
<1>1. TypeOK
  BY InitTypeOK
<1>2. \A r \in Requests : req[r] = Idle
  BY DEF Init
<1>3. (\A r \in Requests : Lane(req[r])) /\ TicketsInHand
  BY <1>2 DEF Init, Lane, Idle, TicketsInHand
<1>4. NamedIsDrawn /\ StaleIsDead /\ Listed
  BY <1>2 DEF Init, NamedIsDrawn, Drawn, StaleIsDead, Listed, LiveSession, Idle
<1>5. NoImpersonation /\ LogoutSticks /\ OutCarriesNothing
  BY <1>2, SessionAssumption DEF Init, NoImpersonation, LogoutSticks,
     OutCarriesNothing, Idle, NoTok
<1> QED
  BY <1>1, <1>3, <1>4, <1>5 DEF SessionInv

\* Every step preserves the inductive invariant.
LEMMA NextSessionInv == SessionInv /\ [Next]_vars => SessionInv'
  BY NextTypeOK, NextNamed, NextNoImpersonation, NextListed, NextOut,
     NextTicketsInHand DEF SessionInv

\* The inductive invariant holds throughout.
LEMMA SessionInvariant == Spec => []SessionInv
<1>1. Init => SessionInv
  BY InitSessionInv
<1>2. SessionInv /\ [Next]_vars => SessionInv'
  BY NextSessionInv
<1> QED
  BY <1>1, <1>2, PTL DEF Spec

\* Type correctness, and every request has in hand what its next step uses.
THEOREM SessionTypeCorrect == Spec => []TypeOK
<1>1. SessionInv => TypeOK
  BY DEF SessionInv
<1> QED
  BY <1>1, SessionInvariant, PTL

\* Nobody is known at a browser as somebody who never authenticated there,
\* however logins, recoveries, syncs, logouts and kicks overlap.
THEOREM NobodyImpersonated == Spec => []NoImpersonation
<1>1. SessionInv => NoImpersonation
  BY DEF SessionInv
<1> QED
  BY <1>1, SessionInvariant, PTL

\* No interleaving of Create, Delete and ListAll hides a live session from
\* the administrators' list.
THEOREM LiveSessionsListed == Spec => []Listed
<1>1. SessionInv => Listed
  BY DEF SessionInv
<1> QED
  BY <1>1, SessionInvariant, PTL

\* After a logout that overlapped nothing the browser is a stranger until
\* somebody logs in or presents tokens, in spite of the session recovery.
THEOREM LogoutIsFinal == Spec => []LogoutSticks
<1>1. SessionInv => LogoutSticks
  BY DEF SessionInv
<1> QED
  BY <1>1, SessionInvariant, PTL

-----------------------------------------------------------------------------
(* CAS service tickets implement OneTimeGrant *)

\* At the start no ticket is issued, held or honoured.
LEMMA InitGrant == Init => Grant!GrantInit
  BY DEF Init, Idle, TicketPhase, Grant!GrantInit

\* Every step is a step of OneTimeGrant, or leaves the tickets alone.
LEMMA NextGrant ==
  SessionInv /\ SessionInv' /\ [Next]_vars => [Grant!GrantNext]_(Grant!grantVars)
<1> SUFFICES ASSUME SessionInv, SessionInv', [Next]_vars PROVE Grant!GrantNext
  OBVIOUS
<1> DEFINE Goal == Grant!GrantNext
<1> USE SessionAssumption DEF tables, bounds, hist, NoTok, Idle, Goal, SessionInv
<1>1. ASSUME NEW r \in Requests, NEW b \in Browsers, NEW u \in Users, Login(r,
      b, u) PROVE Goal
  BY <1>1 DEF TicketPhase, TicketsInHand, TypeOK, RequestStates, RequestOK,
     Grant!GrantNext, Grant!PhaseStep, Grant!Take, Grant!Honour, Login, Send,
     At
<1>2. ASSUME NEW r \in Requests, NEW b \in Browsers, Sync(r, b) PROVE Goal
  BY <1>2 DEF TicketPhase, TicketsInHand, TypeOK, RequestStates, RequestOK,
     Grant!GrantNext, Grant!PhaseStep, Grant!Take, Grant!Honour, Sync, Send,
     At, Bearer
<1>3. ASSUME NEW r \in Requests, NEW b \in Browsers, Refresh(r, b) PROVE Goal
  BY <1>3 DEF TicketPhase, TicketsInHand, TypeOK, RequestStates, RequestOK,
     Grant!GrantNext, Grant!PhaseStep, Grant!Take, Grant!Honour, Refresh,
     Send, At
<1>4. ASSUME NEW r \in Requests, NEW b \in Browsers, NEW c \in Clients,
      Enter(r, b, c) PROVE Goal
  BY <1>4 DEF TicketPhase, TicketsInHand, TypeOK, RequestStates, RequestOK,
     Grant!GrantNext, Grant!PhaseStep, Grant!Take, Grant!Honour, Enter, Send,
     At
<1>5. ASSUME NEW r \in Requests, NEW b \in Browsers, Logout(r, b) PROVE Goal
  BY <1>5 DEF TicketPhase, TicketsInHand, TypeOK, RequestStates, RequestOK,
     Grant!GrantNext, Grant!PhaseStep, Grant!Take, Grant!Honour, Logout, Send,
     At
<1>6. ASSUME NEW r \in Requests, NEW b \in Browsers, SingleLogout(r, b) PROVE
      Goal
  BY <1>6 DEF TicketPhase, TicketsInHand, TypeOK, RequestStates, RequestOK,
     Grant!GrantNext, Grant!PhaseStep, Grant!Take, Grant!Honour, SingleLogout,
     Send, At
<1>7. ASSUME NEW r \in Requests, FindSession(r) PROVE Goal
  <2>0. At(r, "get") /\ UNCHANGED <<sess, index, list, jar, spa, ticket,
        tables, bounds, hist>>
    BY <1>7 DEF FindSession
  <2>1. CASE LiveSession(req[r].sid) /\ Step(r, After(req[r].op), req[r].sid,
        sess[req[r].sid].user, NoTicket)
    BY <2>0, <2>1 DEF TicketPhase, TicketsInHand, TypeOK, RequestStates,
       RequestOK, Grant!GrantNext, Grant!PhaseStep, Grant!Take, Grant!Honour,
       At, LiveSession, After, Step
  <2>2. CASE req[r].tok.left > 0 /\ Step(r, "create", NoSid, req[r].tok.user,
        NoTicket)
    BY <2>0, <2>2 DEF TicketPhase, TicketsInHand, TypeOK, RequestStates,
       RequestOK, Grant!GrantNext, Grant!PhaseStep, Grant!Take, Grant!Honour,
       At, Step
  <2>3. CASE Step(r, "reply", NoSid, Nobody, NoTicket)
    BY <2>0, <2>3 DEF TicketPhase, TicketsInHand, TypeOK, RequestStates,
       RequestOK, Grant!GrantNext, Grant!PhaseStep, Grant!Take, Grant!Honour,
       At, Step
  <2>4. CASE End(r)
    BY <2>0, <2>4 DEF TicketPhase, TicketsInHand, TypeOK, RequestStates,
       RequestOK, Grant!GrantNext, Grant!PhaseStep, Grant!Take, Grant!Honour,
       At, End
  <2> QED
    BY <1>7, <2>1, <2>2, <2>3, <2>4, FindOutcome
<1>8. ASSUME NEW r \in Requests, SyncSSOSession(r) PROVE Goal
  <2>0. At(r, "get") /\ UNCHANGED <<sess, index, list, jar, spa, ticket,
        tables, bounds, hist>>
    BY <1>8 DEF SyncSSOSession
  <2>1. CASE Goto(r, "reply")
    BY <2>0, <2>1 DEF TicketPhase, TicketsInHand, TypeOK, RequestStates,
       RequestOK, Grant!GrantNext, Grant!PhaseStep, Grant!Take, Grant!Honour,
       At, Goto, Step
  <2>2. CASE Step(r, "create", NoSid, req[r].user, NoTicket)
    BY <2>0, <2>2 DEF TicketPhase, TicketsInHand, TypeOK, RequestStates,
       RequestOK, Grant!GrantNext, Grant!PhaseStep, Grant!Take, Grant!Honour,
       At, Step
  <2> QED
    BY <1>8, <2>1, <2>2 DEF SyncSSOSession
<1>9. ASSUME NEW r \in Requests, NEW s \in Sids, Create(r, s) PROVE Goal
  BY <1>9 DEF TicketPhase, TicketsInHand, TypeOK, RequestStates, RequestOK,
     Grant!GrantNext, Grant!PhaseStep, Grant!Take, Grant!Honour, Create, At,
     Step
<1>10. ASSUME NEW r \in Requests, AddToIndex(r) PROVE Goal
  BY <1>10 DEF TicketPhase, TicketsInHand, TypeOK, RequestStates, RequestOK,
     Grant!GrantNext, Grant!PhaseStep, Grant!Take, Grant!Honour, AddToIndex,
     At, Step, Goto, After
<1>11. ASSUME NEW r \in Requests, RemoveFromIndex(r) PROVE Goal
  BY <1>11 DEF TicketPhase, TicketsInHand, TypeOK, RequestStates, RequestOK,
     Grant!GrantNext, Grant!PhaseStep, Grant!Take, Grant!Honour,
     RemoveFromIndex, At, Step, Goto
<1>12. ASSUME NEW r \in Requests, DeleteSession(r) PROVE Goal
  <2>0. At(r, "del") /\ Dead(req[r].sid) /\ UNCHANGED <<index, list, jar, spa,
        ticket, tables, bounds, proved, out, honoured, old>>
    BY <1>12 DEF DeleteSession
  <2>1. CASE End(r)
    BY <2>0, <2>1 DEF TicketPhase, TicketsInHand, TypeOK, RequestStates,
       RequestOK, Grant!GrantNext, Grant!PhaseStep, Grant!Take, Grant!Honour,
       At, Dead, End
  <2>2. CASE Goto(r, "reply")
    BY <2>0, <2>2 DEF TicketPhase, TicketsInHand, TypeOK, RequestStates,
       RequestOK, Grant!GrantNext, Grant!PhaseStep, Grant!Take, Grant!Honour,
       At, Dead, Goto, Step
  <2> QED
    BY <1>12, <2>1, <2>2 DEF DeleteSession
<1>13. ASSUME NEW r \in Requests, Deny(r) PROVE Goal
  BY <1>13 DEF TicketPhase, TicketsInHand, TypeOK, RequestStates, RequestOK,
     Grant!GrantNext, Grant!PhaseStep, Grant!Take, Grant!Honour, Deny, At,
     Step
<1>14. ASSUME NEW r \in Requests, AnswerSAML(r) PROVE Goal
  BY <1>14 DEF TicketPhase, TicketsInHand, TypeOK, RequestStates, RequestOK,
     Grant!GrantNext, Grant!PhaseStep, Grant!Take, Grant!Honour, AnswerSAML,
     At, Step, Goto
<1>15. ASSUME NEW r \in Requests, NEW t \in Tickets, Issue(r, t) PROVE Goal
  BY <1>15 DEF TicketPhase, TicketsInHand, TypeOK, RequestStates, RequestOK,
     Grant!GrantNext, Grant!PhaseStep, Grant!Take, Grant!Honour, Issue, At,
     Step
<1>16. ASSUME NEW r \in Requests, Reply(r) PROVE Goal
  BY <1>16 DEF TicketPhase, TicketsInHand, TypeOK, RequestStates, RequestOK,
     Grant!GrantNext, Grant!PhaseStep, Grant!Take, Grant!Honour, Reply, At,
     End, NewSid, NewTok, LoggingOut
<1>17. ASSUME NEW r \in Requests, LoseReply(r) PROVE Goal
  BY <1>17 DEF TicketPhase, TicketsInHand, TypeOK, RequestStates, RequestOK,
     Grant!GrantNext, Grant!PhaseStep, Grant!Take, Grant!Honour, LoseReply,
     At, End
<1>18. ASSUME NEW r \in Requests, DeleteTicket(r) PROVE Goal
  BY <1>18 DEF TicketPhase, TicketsInHand, TypeOK, RequestStates, RequestOK,
     Grant!GrantNext, Grant!PhaseStep, Grant!Take, Grant!Honour, DeleteTicket,
     At, Step, Goto
<1>19. ASSUME NEW r \in Requests, AnswerValidate(r) PROVE Goal
  BY <1>19 DEF TicketPhase, TicketsInHand, TypeOK, RequestStates, RequestOK,
     Grant!GrantNext, Grant!PhaseStep, Grant!Take, Grant!Honour,
     AnswerValidate, At, End
<1>20. ASSUME NEW r \in Requests, NEW t \in Tickets, NEW c \in CasClients,
      Validate(r, t, c) PROVE Goal
  BY <1>20 DEF TicketPhase, TicketsInHand, TypeOK, RequestStates, RequestOK,
     Grant!GrantNext, Grant!PhaseStep, Grant!Take, Grant!Honour, Validate, At
<1>21. ASSUME NEW r \in Requests, NEW s \in Sids, Kick(r, s) PROVE Goal
  BY <1>21 DEF TicketPhase, TicketsInHand, TypeOK, RequestStates, RequestOK,
     Grant!GrantNext, Grant!PhaseStep, Grant!Take, Grant!Honour, Kick,
     AdminAct, At
<1>22. CASE ListBegin
  BY <1>22 DEF TicketPhase, TicketsInHand, TypeOK, RequestStates, RequestOK,
     Grant!GrantNext, Grant!PhaseStep, Grant!Take, Grant!Honour, ListBegin,
     AdminAct
<1>23. ASSUME NEW s \in Sids, ListGet(s) PROVE Goal
  BY <1>23 DEF TicketPhase, TicketsInHand, TypeOK, RequestStates, RequestOK,
     Grant!GrantNext, Grant!PhaseStep, Grant!Take, Grant!Honour, ListGet,
     LiveSession
<1>24. CASE ListEnd
  BY <1>24 DEF TicketPhase, TicketsInHand, TypeOK, RequestStates, RequestOK,
     Grant!GrantNext, Grant!PhaseStep, Grant!Take, Grant!Honour, ListEnd
<1>25. ASSUME NEW c \in Clients, NEW row \in RowChoices, SaveClient(c, row)
      PROVE Goal
  BY <1>25 DEF TicketPhase, TicketsInHand, TypeOK, RequestStates, RequestOK,
     Grant!GrantNext, Grant!PhaseStep, Grant!Take, Grant!Honour, SaveClient,
     AdminAct
<1>26. ASSUME NEW u \in Users, NEW c \in Clients, ToggleGrant(u, c) PROVE Goal
  BY <1>26 DEF TicketPhase, TicketsInHand, TypeOK, RequestStates, RequestOK,
     Grant!GrantNext, Grant!PhaseStep, Grant!Take, Grant!Honour, ToggleGrant,
     AdminAct
<1>27. ASSUME NEW u \in Users, DeleteUser(u) PROVE Goal
  BY <1>27 DEF TicketPhase, TicketsInHand, TypeOK, RequestStates, RequestOK,
     Grant!GrantNext, Grant!PhaseStep, Grant!Take, Grant!Honour, DeleteUser,
     AdminAct
<1>28. CASE Tick
  <2>1. \A t \in Tickets : /\ ticket'[t].user = ticket[t].user
                           /\ ticket[t].left = 0 => ticket'[t].left = 0
                           /\ ticket'[t].left \in Nat
    BY <1>28 DEF Tick, Less, TypeOK
  <2>2. \A r \in Requests : req'[r].pc = req[r].pc /\ req'[r].t = req[r].t
    BY <1>28 DEF Tick, TypeOK
  <2>3. honoured' = honoured
    BY <1>28 DEF Tick
  <2> QED
    BY <2>1, <2>2, <2>3 DEF TicketPhase, TicketsInHand, TypeOK, RequestStates,
       RequestOK, Grant!GrantNext, Grant!PhaseStep, Grant!Take, Grant!Honour
<1>29. CASE Restart
  BY <1>29 DEF TicketPhase, TicketsInHand, TypeOK, RequestStates, RequestOK,
     Grant!GrantNext, Grant!PhaseStep, Grant!Take, Grant!Honour, Restart
<1>30. CASE UNCHANGED vars
  BY <1>30 DEF TicketPhase, TicketsInHand, TypeOK, RequestStates, RequestOK,
     Grant!GrantNext, Grant!PhaseStep, Grant!Take, Grant!Honour, vars
<1> QED
  BY <1>1, <1>2, <1>3, <1>4, <1>5, <1>6, <1>7, <1>8, <1>9, <1>10, <1>11,
     <1>12, <1>13, <1>14, <1>15, <1>16, <1>17, <1>18, <1>19, <1>20, <1>21,
     <1>22, <1>23, <1>24, <1>25, <1>26, <1>27, <1>28, <1>29, <1>30 DEF Next,
     Begin, Serve, Administer

\* CAS service tickets are one-time credentials: reading, deleting and
\* answering (consumeTicket, then the success answer) implement OneTimeGrant.
THEOREM TicketsImplementOneTimeGrant == Spec => TicketOnce
<1>1. Init => Grant!GrantInit
  BY InitGrant
<1>2. SessionInv /\ SessionInv' /\ [Next]_vars
        => [Grant!GrantNext]_(Grant!grantVars)
  BY NextGrant
<1> QED
  BY <1>1, <1>2, SessionInvariant, PTL DEF Spec, TicketOnce, Grant!GrantSpec
=============================================================================
