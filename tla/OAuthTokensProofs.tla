------------------------- MODULE OAuthTokensProofs -------------------------
(***************************************************************************)
(* Proofs about OAuthTokens, for every set of users, clients, tokens and   *)
(* requests and every setting of the lifetimes.                            *)
(***************************************************************************)
EXTENDS OAuthTokens, TLAPS

-----------------------------------------------------------------------------
(* The variables have their types *)

\* The initial state is well typed.
LEMMA InitTypeOK == Init => TypeOK
  BY TimeAssumption DEF Init, TypeOK, EmptyStore

\* Every step of OAuthTokens preserves TypeOK.
LEMMA NextTypeOK == TypeOK /\ [Next]_vars => TypeOK'
<1> SUFFICES ASSUME TypeOK, [Next]_vars PROVE TypeOK'
  OBVIOUS
<1> USE SetsAssumption, TimeAssumption DEF store, rows, history
<1>1. ASSUME NEW u \in Users, NEW c \in Clients, NEW k \in Codes,
             NEW uri \in Redirects, NEW scope \in Scopes,
             NEW challenge \in Verifiers \cup {None},
             NEW method \in {"S256", "plain"}, NEW consent \in BOOLEAN,
             Authorize(u, c, k, uri, scope, challenge, method, consent)
      PROVE TypeOK'
  BY <1>1 DEF TypeOK, Authorize, Put, ExpiryOf, With, GrantOf, Grants
<1>2. ASSUME NEW r \in Requests, NEW c \in Clients,
             NEW who \in Clients \cup {None}, NEW k \in Codes,
             NEW uri \in Redirects, NEW v \in Verifiers \cup {None},
             CodeGet(r, c, who, k, uri, v)
      PROVE TypeOK'
  BY <1>2 DEF TypeOK, CodeGet, Begin, With, Live, ClientMatches, GrantOf,
              Grants, Origins, Credentials, CodeVerdict
<1>3. ASSUME NEW r \in Requests, NEW c \in Clients, NEW k \in Refreshes,
             RefreshLoad(r, c, k)
      PROVE TypeOK'
  BY <1>3 DEF TypeOK, RefreshLoad, Begin, With, Live, ClientMatches, GrantOf,
              Grants, Origins, Credentials
<1>4. ASSUME NEW r \in Requests, NEW k \in Refreshes, SelfRefreshLoad(r, k)
      PROVE TypeOK'
  BY <1>4 DEF TypeOK, SelfRefreshLoad, Begin, With, Live, GrantOf, Grants,
              Origins, Credentials
<1>5. ASSUME NEW r \in Requests, DeleteCredential(r) PROVE TypeOK'
  <2>1. /\ r \in DOMAIN req
        /\ UNCHANGED <<now, rows, revoked, lastActive, access, history>>
    BY <1>5 DEF DeleteCredential, At
  <2>2. /\ DOMAIN authCodes' \subseteq DOMAIN authCodes
        /\ \A k \in DOMAIN authCodes' : authCodes'[k] = authCodes[k]
        /\ DOMAIN refreshTokens' \subseteq DOMAIN refreshTokens
        /\ \A k \in DOMAIN refreshTokens' : refreshTokens'[k] = refreshTokens[k]
    BY <1>5 DEF DeleteCredential, Del
  <2>3. CASE Goto(r, AfterDelete(r))
    BY <2>1, <2>2, <2>3 DEF TypeOK, Goto, AfterDelete
  <2>4. CASE End(r)
    BY <2>1, <2>2, <2>4 DEF TypeOK, End, Without
  <2> QED
    BY <1>5, <2>3, <2>4 DEF DeleteCredential
<1>6. ASSUME NEW r \in Requests, LookupUser(r) PROVE TypeOK'
  BY <1>6 DEF TypeOK, LookupUser, At, Goto, End, Without
<1>7. ASSUME NEW r \in Requests, CheckIdle(r) PROVE TypeOK'
  BY <1>7 DEF TypeOK, CheckIdle, At, Grants
<1>8. ASSUME NEW r \in Requests, NEW j \in Jtis, NEW k \in Refreshes,
             Issue(r, j, k)
      PROVE TypeOK'
  BY SMTT(30), <1>8 DEF TypeOK, Issue, At, IssueAccess, SaveRefreshToken, End, With,
              Without, Put, ExpiryOf, AccessTTLFor, RefreshTTLFor, EffectiveTTL, Grants
<1>9. ASSUME NEW r \in Requests, IssueFails(r) PROVE TypeOK'
  BY <1>9 DEF TypeOK, IssueFails, At, End, Without
<1>10. ASSUME NEW u \in Users, NEW j \in Jtis, NEW k \in Refreshes,
              NEW scope \in Scopes, Login(u, j, k, scope)
       PROVE TypeOK'
  BY <1>10 DEF TypeOK, Login, IssueAccess, SaveRefreshToken, With, Put,
               ExpiryOf, Grants, Origins, Credentials
<1>11. ASSUME NEW j \in Jtis, TouchActivity(j) PROVE TypeOK'
  BY <1>11 DEF TypeOK, TouchActivity, ValidAccessToken, Put, ExpiryOf
<1>12. ASSUME NEW k \in Refreshes, RevokeRefresh(k) PROVE TypeOK'
  BY <1>12 DEF TypeOK, RevokeRefresh, Del
<1>13. ASSUME NEW j \in Jtis, RevokeAccess(j) PROVE TypeOK'
  BY <1>13 DEF TypeOK, RevokeAccess, ValidAccessToken, RevocationTTL, Put,
               ExpiryOf
<1>14. ASSUME NEW u \in Users, DeleteUser(u) PROVE TypeOK'
  BY <1>14 DEF TypeOK, DeleteUser
<1>15. ASSUME NEW c \in Clients, ToggleClient(c) PROVE TypeOK'
  BY <1>15 DEF TypeOK, ToggleClient
<1>16. ASSUME NEW c \in Clients, NEW us \in SUBSET Users, SetGrants(c, us)
       PROVE TypeOK'
  BY <1>16 DEF TypeOK, SetGrants
<1>17. CASE Gc
  BY <1>17 DEF TypeOK, Gc, Collect
<1>18. CASE Tick
  BY <1>18 DEF TypeOK, Tick
<1>19. CASE Restart
  BY <1>19 DEF TypeOK, Restart, EmptyStore
<1>20. CASE UNCHANGED vars
  BY <1>20 DEF TypeOK, vars
<1> QED
  BY <1>1, <1>2, <1>3, <1>4, <1>5, <1>6, <1>7, <1>8, <1>9, <1>10, <1>11,
     <1>12, <1>13, <1>14, <1>15, <1>16, <1>17, <1>18, <1>19, <1>20 DEF Next

\* Type correctness of the token machinery.
THEOREM TypeCorrect == Spec => []TypeOK
<1>1. Init => TypeOK
  BY InitTypeOK
<1>2. TypeOK /\ [Next]_vars => TypeOK'
  BY NextTypeOK
<1> QED
  BY <1>1, <1>2, PTL DEF Spec

-----------------------------------------------------------------------------
(* Tokens carry what the user authorised *)

\* Strengthening: stored refresh tokens and requests in flight carry an
\* authorised grant too, and a stored code is the one that was authorised.
GrantInv ==
  /\ TypeOK
  /\ \A k \in DOMAIN refreshTokens :
       refreshTokens[k].val.client # Admin =>
         refreshTokens[k].val \in AuthorizedGrants
  /\ \A r \in DOMAIN req :
       req[r].grant.client # Admin => req[r].grant \in AuthorizedGrants
  /\ TokensMatchAuthorization

\* Authorisations are never forgotten.
LEMMA AuthorizedGrantsGrow ==
  ASSUME NEW u, NEW c, NEW k, NEW uri, NEW scope, NEW challenge, NEW method,
         NEW consent,
         Authorize(u, c, k, uri, scope, challenge, method, consent)
  PROVE  AuthorizedGrants \subseteq AuthorizedGrants'
  BY DEF Authorize, AuthorizedGrants, With

\* Every step preserves the strengthening GrantInv.
LEMMA NextGrantInv == GrantInv /\ [Next]_vars => GrantInv'
<1> SUFFICES ASSUME GrantInv, [Next]_vars PROVE GrantInv'
  OBVIOUS
<1> TypeOK /\ TypeOK'
  BY NextTypeOK DEF GrantInv
<1> USE SetsAssumption DEF store, rows, history
<1>1. ASSUME NEW u \in Users, NEW c \in Clients, NEW k \in Codes,
             NEW uri \in Redirects, NEW scope \in Scopes,
             NEW challenge \in Verifiers \cup {None},
             NEW method \in {"S256", "plain"}, NEW consent \in BOOLEAN,
             Authorize(u, c, k, uri, scope, challenge, method, consent)
      PROVE GrantInv'
  <2>1. AuthorizedGrants \subseteq AuthorizedGrants'
    BY <1>1, AuthorizedGrantsGrow
  <2>2. UNCHANGED <<refreshTokens, req, access>>
    BY <1>1 DEF Authorize
  <2> QED
    BY <2>1, <2>2 DEF GrantInv, TokensMatchAuthorization, GrantOf
<1>2. ASSUME NEW r \in Requests,
             \/ \E c \in Clients, who \in Clients \cup {None}, k \in Codes,
                   uri \in Redirects, v \in Verifiers \cup {None} :
                  CodeGet(r, c, who, k, uri, v)
             \/ \E c \in Clients, k \in Refreshes : RefreshLoad(r, c, k)
             \/ \E k \in Refreshes : SelfRefreshLoad(r, k)
      PROVE GrantInv'
  <2>1. UNCHANGED <<authorized, access, refreshTokens>>
    BY <1>2 DEF CodeGet, RefreshLoad, SelfRefreshLoad
  <2>2. AuthorizedGrants' = AuthorizedGrants
    BY <2>1 DEF AuthorizedGrants
  <2>3. /\ DOMAIN req' = DOMAIN req \cup {r}
        /\ \A x \in DOMAIN req : x # r => req'[x] = req[x]
        /\ req'[r].grant.client # Admin => req'[r].grant \in AuthorizedGrants
    <3>1. ASSUME NEW c \in Clients, NEW who \in Clients \cup {None},
                 NEW k \in Codes, NEW uri \in Redirects,
                 NEW v \in Verifiers \cup {None},
                 CodeGet(r, c, who, k, uri, v)
          PROVE <2>3!1 /\ <2>3!2 /\ <2>3!3
      BY <3>1 DEF CodeGet, Begin, With, Live, TypeOK, AuthorizedGrants
    <3>2. ASSUME NEW c \in Clients, NEW k \in Refreshes, RefreshLoad(r, c, k)
          PROVE <2>3!1 /\ <2>3!2 /\ <2>3!3
      BY <3>2 DEF RefreshLoad, Begin, With, Live, TypeOK, GrantInv, GrantOf,
                  Grants
    <3>3. ASSUME NEW k \in Refreshes, SelfRefreshLoad(r, k)
          PROVE <2>3!1 /\ <2>3!2 /\ <2>3!3
      BY <3>3 DEF SelfRefreshLoad, Begin, With, Live, TypeOK, GrantInv,
                  GrantOf, Grants
    <3> QED
      BY <1>2, <3>1, <3>2, <3>3
  <2> QED
    BY <2>1, <2>2, <2>3 DEF GrantInv, TokensMatchAuthorization, GrantOf
<1>3. ASSUME NEW r \in Requests,
             DeleteCredential(r) \/ LookupUser(r) \/ CheckIdle(r)
               \/ IssueFails(r)
      PROVE GrantInv'
  <2>1. /\ DOMAIN req' \subseteq DOMAIN req
        /\ \A x \in DOMAIN req' : req'[x].grant = req[x].grant
    BY <1>3 DEF DeleteCredential, LookupUser, CheckIdle, IssueFails, Goto,
                End, Without, TypeOK
  <2>2. UNCHANGED <<authorized, access>>
    BY <1>3 DEF DeleteCredential, LookupUser, CheckIdle, IssueFails
  <2>3. /\ DOMAIN refreshTokens' \subseteq DOMAIN refreshTokens
        /\ \A k \in DOMAIN refreshTokens' :
             refreshTokens'[k] = refreshTokens[k]
    BY <1>3 DEF DeleteCredential, LookupUser, CheckIdle, IssueFails, Del
  <2> QED
    BY <2>1, <2>2, <2>3 DEF GrantInv, TokensMatchAuthorization, GrantOf,
                            AuthorizedGrants
<1>4. ASSUME NEW r \in Requests, NEW j \in Jtis, NEW k \in Refreshes,
             Issue(r, j, k)
      PROVE GrantInv'
  <2>1. r \in DOMAIN req /\ UNCHANGED authorized
    BY <1>4 DEF Issue, At
  <2>2. /\ DOMAIN req' \subseteq DOMAIN req
        /\ \A x \in DOMAIN req' : req'[x] = req[x]
    BY <1>4 DEF Issue, End, Without
  <2>3. \A x \in DOMAIN refreshTokens' :
           \/ x \in DOMAIN refreshTokens /\ refreshTokens'[x] = refreshTokens[x]
           \/ refreshTokens'[x].val = req[r].grant
    BY <1>4 DEF Issue, SaveRefreshToken, Put
  <2>4. \A x \in DOMAIN access' :
           \/ x \in DOMAIN access /\ access'[x] = access[x]
           \/ /\ access'[x].client = req[r].grant.client
              /\ GrantOf(access'[x]) = req[r].grant
    BY <1>4, <2>1 DEF Issue, IssueAccess, With, GrantOf, TypeOK, Grants
  <2> QED
    BY <2>1, <2>2, <2>3, <2>4 DEF GrantInv, TokensMatchAuthorization,
                                  AuthorizedGrants, GrantOf
<1>5. ASSUME NEW u \in Users, NEW j \in Jtis, NEW k \in Refreshes,
             NEW scope \in Scopes, Login(u, j, k, scope)
      PROVE GrantInv'
  BY <1>5 DEF GrantInv, Login, IssueAccess, SaveRefreshToken, With, Put,
              TokensMatchAuthorization, GrantOf, AuthorizedGrants
<1>6. CASE /\ UNCHANGED <<authorized, access, req>>
           /\ DOMAIN refreshTokens' \subseteq DOMAIN refreshTokens
           /\ \A k \in DOMAIN refreshTokens' :
                refreshTokens'[k] = refreshTokens[k]
  BY <1>6 DEF GrantInv, TokensMatchAuthorization, GrantOf, AuthorizedGrants
<1>7. CASE Restart
  BY <1>7 DEF Restart, EmptyStore, GrantInv, TokensMatchAuthorization,
              GrantOf, AuthorizedGrants
<1>8. ASSUME \/ \E j \in Jtis : TouchActivity(j) \/ RevokeAccess(j)
             \/ \E k \in Refreshes : RevokeRefresh(k)
             \/ \E u \in Users : DeleteUser(u)
             \/ \E c \in Clients : ToggleClient(c)
             \/ \E c \in Clients, us \in SUBSET Users : SetGrants(c, us)
             \/ Gc \/ Tick \/ UNCHANGED vars
      PROVE GrantInv'
  BY ZenonT(30), <1>6, <1>8 DEF TouchActivity, RevokeAccess, RevokeRefresh, DeleteUser,
       ToggleClient, SetGrants, Gc, Tick, vars, Del, Collect
<1> QED
  BY <1>1, <1>2, <1>3, <1>4, <1>5, <1>7, <1>8 DEF Next

\* Every access token of a relying party, however often refreshed and at
\* whichever endpoint, carries a user, client and scope that the user
\* authorised at /oauth/authorize.
THEOREM TokensAuthorized == Spec => []TokensMatchAuthorization
<1>1. Init => GrantInv
  BY InitTypeOK DEF Init, GrantInv, TokensMatchAuthorization, EmptyStore
<1>2. GrantInv /\ [Next]_vars => GrantInv'
  BY NextGrantInv
<1>3. GrantInv => TokensMatchAuthorization
  BY DEF GrantInv
<1> QED
  BY <1>1, <1>2, <1>3, PTL DEF Spec

-----------------------------------------------------------------------------
(* Revoked tokens stay invalid *)

\* Strengthening: no token lives longer than its ttl from now on, and a
\* revoked one either has expired or is blacklisted at least until it does.
RevocationInv ==
  /\ TypeOK
  /\ \A j \in DOMAIN access : access[j].exp <= now + access[j].ttl
  /\ Persistent =>
       \A j \in revokedEver : access[j].ttl <= AccessTTL =>
         \/ now >= access[j].exp
         \/ j \in DOMAIN revoked /\ revoked[j].exp >= access[j].exp

\* Every step preserves the strengthening RevocationInv.
LEMMA NextRevocationInv == RevocationInv /\ [Next]_vars => RevocationInv'
<1> SUFFICES ASSUME RevocationInv, [Next]_vars PROVE RevocationInv'
  OBVIOUS
<1> TypeOK /\ TypeOK'
  BY NextTypeOK DEF RevocationInv
<1> USE TimeAssumption DEF store, rows, history
<1>1. CASE UNCHANGED <<now, access, revoked, revokedEver>>
  BY <1>1 DEF RevocationInv
<1>2. ASSUME UNCHANGED <<now, revoked, revokedEver>>,
             \A j \in DOMAIN access : j \in DOMAIN access' /\ access'[j] = access[j],
             \A j \in DOMAIN access' \ DOMAIN access :
               access'[j].exp = now + access'[j].ttl
      PROVE RevocationInv'
  BY <1>2 DEF RevocationInv, TypeOK
<1>3. ASSUME NEW r \in Requests, NEW j \in Jtis, NEW k \in Refreshes,
             Issue(r, j, k)
      PROVE RevocationInv'
  BY <1>2, <1>3 DEF Issue, IssueAccess, With
<1>4. ASSUME NEW u \in Users, NEW j \in Jtis, NEW k \in Refreshes,
             NEW scope \in Scopes, Login(u, j, k, scope)
      PROVE RevocationInv'
  BY <1>2, <1>4 DEF Login, IssueAccess, With
<1>5. ASSUME NEW j \in Jtis, RevokeAccess(j) PROVE RevocationInv'
  BY <1>5 DEF RevokeAccess, ValidAccessToken, RevocationTTL, Put, ExpiryOf,
              RevocationInv, TypeOK
<1>6. CASE Gc
  BY <1>6 DEF Gc, Collect, Expired, RevocationInv, TypeOK
<1>7. CASE Tick
  BY <1>7 DEF Tick, RevocationInv, TypeOK
<1>8. CASE Restart
  BY <1>8 DEF Restart, EmptyStore, RevocationInv, TypeOK
<1>9. ASSUME NEW u \in Users, NEW c \in Clients, NEW k \in Codes,
             NEW uri \in Redirects, NEW scope \in Scopes,
             NEW challenge \in Verifiers \cup {None},
             NEW method \in {"S256", "plain"}, NEW consent \in BOOLEAN,
             Authorize(u, c, k, uri, scope, challenge, method, consent)
      PROVE RevocationInv'
  BY <1>1, <1>9 DEF Authorize
<1>10. ASSUME NEW r \in Requests,
             \/ \E c \in Clients, who \in Clients \cup {None}, k \in Codes,
                   uri \in Redirects, v \in Verifiers \cup {None} :
                  CodeGet(r, c, who, k, uri, v)
             \/ \E c \in Clients, k \in Refreshes : RefreshLoad(r, c, k)
             \/ \E k \in Refreshes : SelfRefreshLoad(r, k)
             \/ DeleteCredential(r) \/ LookupUser(r) \/ CheckIdle(r)
             \/ IssueFails(r)
      PROVE RevocationInv'
  BY <1>1, <1>10 DEF CodeGet, RefreshLoad, SelfRefreshLoad, DeleteCredential,
                     LookupUser, CheckIdle, IssueFails
<1>11. ASSUME \/ \E j \in Jtis : TouchActivity(j)
              \/ \E k \in Refreshes : RevokeRefresh(k)
              \/ \E u \in Users : DeleteUser(u)
              \/ \E c \in Clients : ToggleClient(c)
              \/ \E c \in Clients, us \in SUBSET Users : SetGrants(c, us)
              \/ UNCHANGED vars
       PROVE RevocationInv'
  BY <1>1, <1>11 DEF TouchActivity, RevokeRefresh, DeleteUser, ToggleClient,
                     SetGrants, vars
<1> QED
  BY ONLY [Next]_vars, <1>3, <1>4, <1>5, <1>6, <1>7, <1>8, <1>9, <1>10, <1>11
     DEF Next

\* With a persistent store, an access token whose lifetime is at most the
\* global access TTL is never accepted again once Revoke has accepted it.
THEOREM RevocationHolds == Spec => []RevokedStaysInvalid
<1>1. Init => RevocationInv
  <2>1. Init => /\ access = EmptyStore
                /\ revokedEver = {}
    BY DEF Init
  <2> QED
    BY <2>1, InitTypeOK DEF RevocationInv, EmptyStore
<1>2. RevocationInv /\ [Next]_vars => RevocationInv'
  BY NextRevocationInv
<1>3. RevocationInv => RevokedStaysInvalid
  BY DEF RevocationInv, RevokedStaysInvalid, ValidAccessToken, Live, Expired,
         TypeOK
<1> QED
  BY <1>1, <1>2, <1>3, PTL DEF Spec

-----------------------------------------------------------------------------
(* The idle logout *)

\* A user's activity record is there, or enough time has passed for it to
\* have expired.
RecordKept(u) == u \in DOMAIN lastActive \/ now > seen[u] + ActivityTTL

\* The latest moment at which a refresh token of u can be presented.
Deadline(u) == seen[u] + IdleTimeout + MaxLatency + RefreshTTL

\* Requests are young, and activity records say when the user was last seen.
ClockInv ==
  /\ \A r \in DOMAIN req : req[r].at <= now /\ now <= req[r].at + MaxLatency
  /\ \A u \in Users : seen[u] <= now
  /\ \A u \in DOMAIN lastActive :
       lastActive[u].val = seen[u] /\ lastActive[u].exp = seen[u] + ActivityTTL

\* A console request past its idle check has passed it.
Renewing(r) ==
  /\ req[r].ep = "self" /\ req[r].grant.client = Admin
  /\ req[r].pc \in {"delete", "issue"} /\ req[r].verdict = "ok"

\* A console request that has yet to check.
Presented(r) ==
  /\ req[r].ep = "self" /\ req[r].grant.client = Admin
  /\ req[r].pc \in {"user", "idle"}

RequestInv(r) ==
  LET u == req[r].grant.user
  IN  /\ req[r].pc # "delete" => req[r].verdict = "ok"
      /\ req[r].ep = "self" /\ req[r].grant.client = Admin => RecordKept(u)
      /\ Presented(r) => req[r].at <= Deadline(u)
      /\ Renewing(r) => /\ req[r].idle <= IdleTimeout
                        /\ req[r].at <= seen[u] + IdleTimeout

\* A console refresh token expires before the activity record can.
RefreshInv(k) ==
  LET u == refreshTokens[k].val.user
  IN  refreshTokens[k].val.client = Admin =>
        /\ refreshTokens[k].exp # 0
        /\ refreshTokens[k].exp <= Deadline(u)
        /\ RecordKept(u)

\* Strengthening: however slow the requests were that renewed a console
\* login, the activity record is still there when its token is presented.
IdleInv ==
  /\ TypeOK
  /\ ClockInv
  /\ \A k \in DOMAIN refreshTokens : RefreshInv(k)
  /\ \A r \in DOMAIN req : RequestInv(r)

\* The idle check is exact: as long as the request is young enough, the
\* record it reads is there and has not expired.
LEMMA IdleCheckExact ==
  ASSUME IdleInv, ActivityOutlivesRefresh, IdleTimeout > 0,
         NEW r \in DOMAIN req, req[r].pc = "idle", req[r].ep = "self",
         req[r].grant.client = Admin, ~IdleTooLong(req[r].grant.user)
  PROVE  now - seen[req[r].grant.user] <= IdleTimeout
<1> DEFINE u == req[r].grant.user
<1> USE TimeAssumption
<1>1. u \in Users /\ seen[u] \in Nat /\ now \in Nat /\ req[r].at \in Nat
  BY DEF IdleInv, TypeOK, Grants
<1>2. now <= seen[u] + ActivityTTL
  <2>1. req[r].at <= seen[u] + IdleTimeout + MaxLatency + RefreshTTL
    BY DEF IdleInv, RequestInv, Presented, Deadline
  <2>2. now <= req[r].at + MaxLatency
    BY DEF IdleInv, ClockInv
  <2> QED
    BY <1>1, <2>1, <2>2 DEF ActivityOutlivesRefresh
<1>3. u \in DOMAIN lastActive
  BY <1>1, <1>2 DEF IdleInv, RequestInv, RecordKept
<1>4. lastActive[u].val = seen[u] /\ lastActive[u].exp = seen[u] + ActivityTTL
  BY <1>3 DEF IdleInv, ClockInv
<1>5. Live(lastActive, u, now)
  BY <1>1, <1>2, <1>3, <1>4 DEF Live, Expired
<1> QED
  BY <1>1, <1>4, <1>5 DEF IdleTooLong

\* Every step preserves the strengthening IdleInv.
LEMMA NextIdleInv ==
  ActivityOutlivesRefresh /\ IdleTimeout > 0 =>
    (IdleInv /\ [Next]_vars => IdleInv')
<1> SUFFICES ASSUME ActivityOutlivesRefresh, IdleTimeout > 0, IdleInv,
                    [Next]_vars
             PROVE  IdleInv'
  OBVIOUS
<1> TypeOK /\ TypeOK'
  BY NextTypeOK DEF IdleInv
<1> USE SetsAssumption, TimeAssumption DEF store, rows, history
\* Steps that touch neither the clock nor activity, and only remove.
<1>1. ASSUME UNCHANGED <<now, lastActive, seen>>,
             DOMAIN refreshTokens' \subseteq DOMAIN refreshTokens,
             \A k \in DOMAIN refreshTokens' :
               refreshTokens'[k] = refreshTokens[k],
             \A r \in DOMAIN req' :
               \/ r \in DOMAIN req /\ req'[r] = req[r]
               \/ /\ RequestInv(r)'
                  /\ req'[r].at <= now /\ now <= req'[r].at + MaxLatency
      PROVE IdleInv'
  <2>1. ClockInv'
    BY <1>1 DEF IdleInv, ClockInv
  <2>2. \A u : RecordKept(u)' = RecordKept(u) /\ Deadline(u)' = Deadline(u)
    BY <1>1 DEF RecordKept, Deadline
  <2>3. \A r \in DOMAIN req' : RequestInv(r)'
    BY <1>1, <2>2 DEF IdleInv, RequestInv, Presented, Renewing
  <2> QED
    BY <1>1, <2>1, <2>2, <2>3 DEF IdleInv, RefreshInv
<1>2. ASSUME NEW u \in Users, NEW c \in Clients, NEW k \in Codes,
             NEW uri \in Redirects, NEW scope \in Scopes,
             NEW challenge \in Verifiers \cup {None},
             NEW method \in {"S256", "plain"}, NEW consent \in BOOLEAN,
             Authorize(u, c, k, uri, scope, challenge, method, consent)
      PROVE IdleInv'
  BY <1>1, <1>2 DEF Authorize
<1>3. ASSUME NEW r \in Requests,
             \/ \E c \in Clients, who \in Clients \cup {None}, k \in Codes,
                   uri \in Redirects, v \in Verifiers \cup {None} :
                  CodeGet(r, c, who, k, uri, v)
             \/ \E c \in Clients, k \in Refreshes : RefreshLoad(r, c, k)
      PROVE IdleInv'
  <2>1. /\ UNCHANGED <<now, lastActive, seen, refreshTokens>>
        /\ \A x \in DOMAIN req' : x # r => x \in DOMAIN req /\ req'[x] = req[x]
        /\ r \in DOMAIN req' /\ req'[r].ep # "self" /\ req'[r].pc = "delete"
        /\ req'[r].at = now
    BY <1>3 DEF CodeGet, RefreshLoad, Begin, With
  <2>2. RequestInv(r)' /\ now <= req'[r].at + MaxLatency
    BY <2>1 DEF RequestInv, Presented, Renewing, TypeOK
  <2> QED
    BY <1>1, <2>1, <2>2 DEF TypeOK
<1>4. ASSUME NEW r \in Requests, NEW k \in Refreshes, SelfRefreshLoad(r, k)
      PROVE IdleInv'
  <2>1. /\ UNCHANGED <<now, lastActive, seen, refreshTokens>>
        /\ \A x \in DOMAIN req' : x # r => x \in DOMAIN req /\ req'[x] = req[x]
        /\ r \in DOMAIN req' /\ req'[r].ep = "self" /\ req'[r].pc = "user"
        /\ req'[r].verdict = "ok"
        /\ req'[r].at = now
        /\ req'[r].grant.user = refreshTokens[k].val.user
        /\ req'[r].grant.client = refreshTokens[k].val.client
        /\ k \in DOMAIN refreshTokens /\ ~Expired(refreshTokens[k], now)
    BY <1>4 DEF SelfRefreshLoad, Begin, With, Live, GrantOf
  <2>2. req'[r].grant.client = Admin =>
          /\ RecordKept(refreshTokens[k].val.user)
          /\ now <= Deadline(refreshTokens[k].val.user)
    <3> SUFFICES ASSUME req'[r].grant.client = Admin PROVE <2>2!2
      OBVIOUS
    <3> DEFINE u == refreshTokens[k].val.user
    <3>1. /\ RecordKept(u) /\ refreshTokens[k].exp # 0
          /\ refreshTokens[k].exp <= Deadline(u)
      BY <2>1 DEF IdleInv, RefreshInv
    <3>2. now <= refreshTokens[k].exp
      BY <2>1, <3>1 DEF Expired, TypeOK
    <3>3. u \in Users /\ seen[u] \in Nat
      BY <2>1 DEF TypeOK, Grants
    <3> QED
      BY <2>1, <3>1, <3>2, <3>3 DEF Deadline, TypeOK
  <2>3. RequestInv(r)' /\ now <= req'[r].at + MaxLatency
    BY <2>1, <2>2 DEF RequestInv, Presented, Renewing, RecordKept, Deadline,
                      TypeOK
  <2> QED
    BY <1>1, <2>1, <2>3 DEF TypeOK
<1>5. ASSUME NEW r \in Requests, DeleteCredential(r) PROVE IdleInv'
  <2>1. /\ UNCHANGED <<now, lastActive, seen>>
        /\ DOMAIN refreshTokens' \subseteq DOMAIN refreshTokens
        /\ \A k \in DOMAIN refreshTokens' :
             refreshTokens'[k] = refreshTokens[k]
    BY <1>5 DEF DeleteCredential, Del
  <2>2. r \in DOMAIN req /\ req[r].pc = "delete"
    BY <1>5 DEF DeleteCredential, At
  <2>3. CASE req[r].verdict = "ok"
    <3>1. req' = [req EXCEPT ![r].pc = AfterDelete(r)]
      BY <1>5, <2>3 DEF DeleteCredential, Goto
    <3>2. /\ DOMAIN req' = DOMAIN req
          /\ \A x \in DOMAIN req : x # r => req'[x] = req[x]
          /\ req'[r].pc = AfterDelete(r) /\ req'[r].ep = req[r].ep
          /\ req'[r].grant = req[r].grant /\ req'[r].verdict = "ok"
          /\ req'[r].at = req[r].at /\ req'[r].idle = req[r].idle
      BY <2>2, <2>3, <3>1 DEF TypeOK
    <3>3. RequestInv(r)
      BY <2>2 DEF IdleInv
    <3>4. RequestInv(r)'
      BY <2>1, <2>2, <2>3, <3>2, <3>3 DEF RequestInv, Presented, Renewing,
                                          RecordKept, AfterDelete, Deadline
    <3> QED
      BY <1>1, <2>1, <2>2, <3>2, <3>4 DEF IdleInv, ClockInv
  <2>4. CASE req[r].verdict # "ok"
    BY <1>1, <1>5, <2>1, <2>4 DEF DeleteCredential, End, Without
  <2> QED
    BY <2>3, <2>4
<1>6. ASSUME NEW r \in Requests, LookupUser(r) PROVE IdleInv'
  <2>1. UNCHANGED <<now, lastActive, seen, refreshTokens>>
    BY <1>6 DEF LookupUser
  <2>2. r \in DOMAIN req /\ req[r].pc = "user"
    BY <1>6 DEF LookupUser, At
  <2>3. CASE req[r].grant.user \in users
    <3> DEFINE pc == IF req[r].ep = "self" THEN "idle" ELSE "issue"
    <3>1. req' = [req EXCEPT ![r].pc = pc]
      BY <1>6, <2>3 DEF LookupUser, Goto
    <3>2. /\ DOMAIN req' = DOMAIN req
          /\ \A x \in DOMAIN req : x # r => req'[x] = req[x]
          /\ req'[r].pc = pc /\ req'[r].ep = req[r].ep
          /\ req'[r].grant = req[r].grant
          /\ req'[r].verdict = req[r].verdict
          /\ req'[r].at = req[r].at /\ req'[r].idle = req[r].idle
      BY <2>2, <3>1 DEF TypeOK
    <3>3. RequestInv(r)
      BY <2>2 DEF IdleInv
    <3>4. RequestInv(r)'
      BY <2>1, <2>2, <3>2, <3>3 DEF RequestInv, Presented, Renewing,
                                          RecordKept, Deadline
    <3> QED
      BY <1>1, <2>1, <2>2, <3>2, <3>4 DEF IdleInv, ClockInv
  <2>4. CASE req[r].grant.user \notin users
    BY <1>1, <1>6, <2>1, <2>4 DEF LookupUser, End, Without
  <2> QED
    BY <2>3, <2>4
<1>7. ASSUME NEW r \in Requests, CheckIdle(r) PROVE IdleInv'
  <2> DEFINE u == req[r].grant.user
             v == IF IdleTooLong(u) THEN "reject" ELSE "ok"
  <2>1. UNCHANGED <<now, lastActive, seen, refreshTokens>>
    BY <1>7 DEF CheckIdle
  <2>2. r \in DOMAIN req /\ req[r].pc = "idle"
    BY <1>7 DEF CheckIdle, At
  <2>3. /\ DOMAIN req' = DOMAIN req
        /\ \A x \in DOMAIN req : x # r => req'[x] = req[x]
        /\ req'[r].pc = "delete" /\ req'[r].ep = req[r].ep
        /\ req'[r].grant = req[r].grant /\ req'[r].verdict = v
        /\ req'[r].at = req[r].at /\ req'[r].idle = now - seen[u]
    BY <1>7, <2>2 DEF CheckIdle, TypeOK
  <2>4. RequestInv(r) /\ req[r].at <= now
    BY <2>2 DEF IdleInv, ClockInv
  <2>5. req[r].ep = "self" /\ req[r].grant.client = Admin /\ v = "ok" =>
          now - seen[u] <= IdleTimeout
    BY <2>2, IdleCheckExact
  <2>6. u \in Users /\ seen[u] \in Nat /\ req[r].at \in Nat
    BY <2>2 DEF TypeOK, Grants
  <2>7. RequestInv(r)'
    BY <2>1, <2>2, <2>3, <2>4, <2>5, <2>6 DEF RequestInv, Presented, Renewing,
                                              RecordKept, Deadline, TypeOK
  <2> QED
    BY <1>1, <2>1, <2>2, <2>3, <2>7 DEF IdleInv, ClockInv
<1>8. ASSUME NEW r \in Requests, NEW j \in Jtis, NEW k \in Refreshes,
             Issue(r, j, k)
      PROVE IdleInv'
  <2> DEFINE u == req[r].grant.user
  <2>1. /\ UNCHANGED <<now, lastActive, seen>>
        /\ r \in DOMAIN req /\ req[r].pc = "issue"
        /\ \A x \in DOMAIN req' : x \in DOMAIN req /\ req'[x] = req[x]
    BY <1>8 DEF Issue, At, End, Without
  <2>2. \A x \in DOMAIN refreshTokens' :
           \/ x \in DOMAIN refreshTokens /\ refreshTokens'[x] = refreshTokens[x]
           \/ /\ refreshTokens'[x].val = req[r].grant
              /\ req[r].grant.client = Admin =>
                   refreshTokens'[x].exp = now + RefreshTTL
    <3>1. req[r].grant.client = Admin => RefreshTTLFor(r) = RefreshTTL
      BY <2>1, SetsAssumption DEF RefreshTTLFor, TypeOK
    <3>2. \A x \in DOMAIN refreshTokens' :
            \/ x \in DOMAIN refreshTokens
               /\ refreshTokens'[x] = refreshTokens[x]
            \/ /\ refreshTokens'[x].val = req[r].grant
               /\ refreshTokens'[x].exp = ExpiryOf(RefreshTTLFor(r), now)
      BY <1>8 DEF Issue, SaveRefreshToken, Put
    <3> QED
      BY <3>1, <3>2, TimeAssumption DEF ExpiryOf
  <2>3. req[r].grant.client = Admin =>
          RecordKept(u) /\ req[r].at <= seen[u] + IdleTimeout
    BY <2>1 DEF IdleInv, RequestInv, Renewing, TypeOK
  <2>4. u \in Users /\ seen[u] \in Nat /\ req[r].at \in Nat /\ now \in Nat
        /\ now <= req[r].at + MaxLatency
    BY <2>1 DEF TypeOK, Grants, IdleInv, ClockInv
  <2>5. req[r].grant.client = Admin => now + RefreshTTL <= Deadline(u)
    BY <2>3, <2>4 DEF Deadline
  <2>6. \A x : RecordKept(x)' = RecordKept(x) /\ Deadline(x)' = Deadline(x)
    BY <2>1 DEF RecordKept, Deadline
  <2>7. ClockInv'
    BY <2>1 DEF IdleInv, ClockInv
  <2>8. \A x \in DOMAIN req' : RequestInv(x)'
    BY <2>1, <2>6 DEF IdleInv, RequestInv, Presented, Renewing
  <2>9. now + RefreshTTL # 0
    BY <2>4
  <2> QED
    BY <2>2, <2>3, <2>5, <2>6, <2>7, <2>8, <2>9 DEF IdleInv, RefreshInv
<1>9. ASSUME NEW r \in Requests, IssueFails(r) PROVE IdleInv'
  BY <1>1, <1>9 DEF IssueFails, End, Without
\* A user is seen: every deadline of theirs moves on, and the record is fresh.
<1>10. ASSUME NEW u \in Users,
              lastActive' = Put(lastActive, u, now, ActivityTTL, now),
              seen' = [seen EXCEPT ![u] = now],
              UNCHANGED <<now, req>>,
              \A k \in DOMAIN refreshTokens' :
                \/ /\ k \in DOMAIN refreshTokens
                   /\ refreshTokens'[k] = refreshTokens[k]
                \/ /\ refreshTokens'[k].val.user = u
                   /\ refreshTokens'[k].exp = now + RefreshTTL
       PROVE IdleInv'
  <2>1. \A x \in Users : /\ seen[x] \in Nat /\ seen[x] <= now
                         /\ seen'[x] = IF x = u THEN now ELSE seen[x]
    BY <1>10 DEF TypeOK, IdleInv, ClockInv
  <2>2. /\ DOMAIN lastActive' = DOMAIN lastActive \cup {u}
        /\ lastActive'[u].val = now /\ lastActive'[u].exp = now + ActivityTTL
        /\ \A x \in DOMAIN lastActive : x # u => lastActive'[x] = lastActive[x]
    BY <1>10 DEF Put, ExpiryOf
  <2>3. ClockInv'
    BY <1>10, <2>1, <2>2 DEF IdleInv, ClockInv, TypeOK
  <2>4. \A x \in Users : /\ RecordKept(x) => RecordKept(x)'
                         /\ Deadline(x) <= Deadline(x)'
                         /\ Deadline(x) \in Nat /\ Deadline(x)' \in Nat
    BY <1>10, <2>1, <2>2 DEF RecordKept, Deadline, TypeOK
  <2>5. RecordKept(u)' /\ now + RefreshTTL <= Deadline(u)'
    BY <1>10, <2>1, <2>2 DEF RecordKept, Deadline, TypeOK
  <2>6. \A r \in DOMAIN req' : RequestInv(r)'
    <3> SUFFICES ASSUME NEW r \in DOMAIN req PROVE RequestInv(r)'
      BY <1>10
    <3>1. RequestInv(r) /\ req[r].grant.user \in Users /\ req[r].at \in Nat
      BY DEF IdleInv, TypeOK, Grants
    <3> QED
      BY <1>10, <2>1, <2>4, <3>1 DEF RequestInv, Presented, Renewing, TypeOK
  <2>7. ASSUME NEW k \in DOMAIN refreshTokens' PROVE RefreshInv(k)'
    <3>1. CASE k \in DOMAIN refreshTokens /\ refreshTokens'[k] = refreshTokens[k]
      <4>1. refreshTokens[k].val.user \in Users /\ refreshTokens[k].exp \in Nat
        BY <3>1 DEF TypeOK, Grants
      <4>2. RefreshInv(k)
        BY <3>1 DEF IdleInv
      <4> QED
        BY <2>4, <3>1, <4>1, <4>2 DEF RefreshInv
    <3>2. CASE /\ refreshTokens'[k].val.user = u
               /\ refreshTokens'[k].exp = now + RefreshTTL
      BY <2>5, <3>2 DEF RefreshInv, TypeOK
    <3> QED
      BY <1>10, <3>1, <3>2
  <2> QED
    BY <2>3, <2>6, <2>7 DEF IdleInv
<1>11. ASSUME NEW u \in Users, NEW j \in Jtis, NEW k \in Refreshes,
              NEW scope \in Scopes, Login(u, j, k, scope)
       PROVE IdleInv'
  <2>1. \A x \in DOMAIN refreshTokens' :
          \/ /\ x \in DOMAIN refreshTokens
             /\ refreshTokens'[x] = refreshTokens[x]
          \/ /\ refreshTokens'[x].val.user = u
             /\ refreshTokens'[x].exp = now + RefreshTTL
    BY <1>11 DEF Login, SaveRefreshToken, Put, ExpiryOf
  <2> QED
    BY <1>10, <1>11, <2>1 DEF Login
<1>12. ASSUME NEW j \in Jtis, TouchActivity(j) PROVE IdleInv'
  BY <1>10, <1>12 DEF TouchActivity, ValidAccessToken, TypeOK
<1>13. ASSUME \/ \E j \in Jtis : RevokeAccess(j)
              \/ \E k \in Refreshes : RevokeRefresh(k)
              \/ \E u \in Users : DeleteUser(u)
              \/ \E c \in Clients : ToggleClient(c)
              \/ \E c \in Clients, us \in SUBSET Users : SetGrants(c, us)
              \/ UNCHANGED vars
       PROVE IdleInv'
  <2>1. /\ UNCHANGED <<now, lastActive, seen, req>>
        /\ DOMAIN refreshTokens' \subseteq DOMAIN refreshTokens
        /\ \A k \in DOMAIN refreshTokens' :
             refreshTokens'[k] = refreshTokens[k]
    BY <1>13 DEF RevokeAccess, RevokeRefresh, DeleteUser, ToggleClient,
                 SetGrants, vars, Del
  <2> QED
    BY <1>1, <2>1
<1>14. CASE Gc
  <2>1. UNCHANGED <<now, seen, req>>
    BY <1>14 DEF Gc
  <2>2. /\ DOMAIN refreshTokens' \subseteq DOMAIN refreshTokens
        /\ \A k \in DOMAIN refreshTokens' :
             refreshTokens'[k] = refreshTokens[k]
    BY <1>14 DEF Gc, Collect
  <2>3. /\ DOMAIN lastActive' \subseteq DOMAIN lastActive
        /\ \A x \in DOMAIN lastActive' : lastActive'[x] = lastActive[x]
        /\ \A x \in DOMAIN lastActive \ DOMAIN lastActive' :
             now > seen[x] + ActivityTTL
    BY <1>14 DEF Gc, Collect, Expired, IdleInv, ClockInv
  <2>4. ClockInv'
    BY <2>1, <2>3 DEF IdleInv, ClockInv
  <2>5. \A x \in Users : RecordKept(x) => RecordKept(x)'
    BY <2>1, <2>3 DEF RecordKept
  <2>6. \A x : Deadline(x)' = Deadline(x)
    BY <2>1 DEF Deadline
  <2>7. \A r \in DOMAIN req' : RequestInv(r)'
    BY <2>1, <2>5, <2>6 DEF IdleInv, RequestInv, Presented, Renewing, TypeOK,
                            Grants
  <2> QED
    BY <2>2, <2>4, <2>5, <2>6, <2>7 DEF IdleInv, RefreshInv, TypeOK, Grants
<1>15. CASE Tick
  <2>1. /\ UNCHANGED <<seen, req, refreshTokens, lastActive>>
        /\ now' = now + 1 /\ now \in Nat
        /\ \A r \in DOMAIN req : now - req[r].at < MaxLatency
    BY <1>15 DEF Tick, TypeOK
  <2>2. ClockInv'
    BY <2>1 DEF IdleInv, ClockInv, TypeOK
  <2>3. \A x \in Users : RecordKept(x) => RecordKept(x)'
    BY <2>1 DEF RecordKept, TypeOK
  <2>4. \A x : Deadline(x)' = Deadline(x)
    BY <2>1 DEF Deadline
  <2>5. \A r \in DOMAIN req' : RequestInv(r)'
    BY <2>1, <2>3, <2>4 DEF IdleInv, RequestInv, Presented, Renewing, TypeOK,
                            Grants
  <2> QED
    BY <2>1, <2>2, <2>3, <2>4, <2>5 DEF IdleInv, RefreshInv, TypeOK, Grants
<1>16. CASE Restart
  <2>1. /\ UNCHANGED <<now, seen>> /\ DOMAIN req' = {}
        /\ \/ UNCHANGED <<refreshTokens, lastActive>>
           \/ DOMAIN refreshTokens' = {} /\ DOMAIN lastActive' = {}
    BY <1>16 DEF Restart, EmptyStore
  <2> QED
    BY <2>1 DEF IdleInv, ClockInv, RefreshInv, RecordKept, Deadline
<1> QED
  BY ONLY [Next]_vars, <1>2, <1>3, <1>4, <1>5, <1>6, <1>7, <1>8, <1>9, <1>11,
          <1>12, <1>13, <1>14, <1>15, <1>16 DEF Next

\* When the activity record outlives every refresh token, /auth/refresh never
\* renews a console login whose user has been idle longer than the timeout.
THEOREM IdleLogoutHolds == Spec => []IdleNeverRenewed
<1>1. CASE ActivityOutlivesRefresh /\ IdleTimeout > 0
  <2>1. Init => IdleInv
    <3>1. Init => /\ req = EmptyStore /\ refreshTokens = EmptyStore
                  /\ lastActive = EmptyStore /\ now = 1
                  /\ seen = [u \in Users |-> 0]
      BY DEF Init
    <3> QED
      BY <3>1, InitTypeOK DEF IdleInv, ClockInv, EmptyStore
  <2>2. IdleInv /\ [Next]_vars => IdleInv'
    BY <1>1, NextIdleInv
  <2>3. IdleInv => IdleNeverRenewed
    BY DEF IdleInv, RequestInv, Renewing, IdleNeverRenewed
  <2> QED
    BY <2>1, <2>2, <2>3, PTL DEF Spec
<1>2. CASE ~(ActivityOutlivesRefresh /\ IdleTimeout > 0)
  <2>1. IdleNeverRenewed
    BY <1>2 DEF IdleNeverRenewed
  <2> QED
    BY <2>1, PTL
<1> QED
  BY <1>1, <1>2

-----------------------------------------------------------------------------
(* Codes and refresh tokens in the hands of requests *)

\* The checks of the code exchange, against what was authorised.
Redeemed(via, c) ==
  /\ via.key \in DOMAIN authorized
  /\ LET data == authorized[via.key].data
     IN  /\ data.client = c
         /\ c \notin Public => via.by = c
         /\ via.uri = data.uri
         /\ VerifyPKCE(via.verifier, data)

\* The request has deleted the credential it presented.
Spent(q) == q.pc = "issue" \/ (q.pc = "user" /\ q.ep # "self")

RequestHolds(q) ==
  /\ q.via.key \in DOMAIN authorized \cup DOMAIN parent
  /\ q.via.key \in Codes => q.ep = "code"
  /\ q.ep = "code" => q.pc \in {"delete", "user", "issue"}
  /\ Spent(q) => /\ q.verdict = "ok"
                 /\ q.via.key \notin DOMAIN authCodes \cup DOMAIN refreshTokens
  /\ q.ep = "code" /\ q.verdict = "ok" => Redeemed(q.via, q.grant.client)

\* Strengthening: a request holds a credential that was issued, has deleted
\* it before it issues anything for it, and a code it is about to honour has
\* passed every check.
CredentialInv ==
  /\ TypeOK
  /\ \A r \in DOMAIN req : RequestHolds(req[r])
  /\ \A j \in DOMAIN access :
       access[j].via.key \in Codes => Redeemed(access[j].via, access[j].client)

\* The start satisfies the strengthening.
LEMMA InitCredentialInv == Init => CredentialInv
<1> SUFFICES ASSUME Init PROVE CredentialInv
  OBVIOUS
<1>1. req = EmptyStore /\ access = EmptyStore
  BY DEF Init
<1> QED
  BY <1>1, InitTypeOK DEF CredentialInv, EmptyStore

\* Every step preserves the strengthening CredentialInv.
LEMMA NextCredentialInv == CredentialInv /\ [Next]_vars => CredentialInv'
<1> SUFFICES ASSUME CredentialInv, [Next]_vars PROVE CredentialInv'
  OBVIOUS
<1> TypeOK /\ TypeOK'
  BY NextTypeOK DEF CredentialInv
<1> USE SetsAssumption DEF store, rows, history
\* Steps that authorise nothing, put nothing into the stores and only end
\* requests or move them on.
<1>1. ASSUME UNCHANGED <<authorized, access>>,
             DOMAIN parent \subseteq DOMAIN parent',
             DOMAIN authCodes' \subseteq DOMAIN authCodes,
             DOMAIN refreshTokens' \subseteq
               DOMAIN refreshTokens \cup (DOMAIN parent' \ DOMAIN parent),
             \A r \in DOMAIN req' :
               \/ r \in DOMAIN req /\ req'[r] = req[r]
               \/ RequestHolds(req[r])'
      PROVE CredentialInv'
  <2>1. \A via, c : Redeemed(via, c)' = Redeemed(via, c)
    BY <1>1 DEF Redeemed
  <2>2. \A q : q.via.key \in Credentials /\ RequestHolds(q) => RequestHolds(q)'
    BY <1>1, <2>1 DEF RequestHolds, TypeOK, Credentials
  <2>3. \A r \in DOMAIN req : /\ req[r].via.key \in Credentials
                              /\ RequestHolds(req[r])
    BY DEF CredentialInv, RequestHolds, TypeOK, Credentials
  <2>4. \A r \in DOMAIN req' : RequestHolds(req[r])'
    BY <1>1, <2>2, <2>3
  <2> QED
    BY <1>1, <2>1, <2>4 DEF CredentialInv
<1>2. ASSUME NEW u \in Users, NEW c \in Clients, NEW k \in Codes,
             NEW uri \in Redirects, NEW scope \in Scopes,
             NEW challenge \in Verifiers \cup {None},
             NEW method \in {"S256", "plain"}, NEW consent \in BOOLEAN,
             Authorize(u, c, k, uri, scope, challenge, method, consent)
      PROVE CredentialInv'
  <2>1. /\ k \notin DOMAIN authorized
        /\ DOMAIN authorized' = DOMAIN authorized \cup {k}
        /\ \A x \in DOMAIN authorized : authorized'[x] = authorized[x]
        /\ DOMAIN authCodes' = DOMAIN authCodes \cup {k}
        /\ UNCHANGED <<refreshTokens, parent, req, access>>
    BY <1>2 DEF Authorize, With, Put
  <2>2. \A via, x : Redeemed(via, x) => Redeemed(via, x)'
    BY <2>1 DEF Redeemed
  <2>3. \A r \in DOMAIN req : RequestHolds(req[r]) => RequestHolds(req[r])'
    BY <2>1, <2>2 DEF RequestHolds, TypeOK
  <2> QED
    BY <2>1, <2>2, <2>3 DEF CredentialInv
<1>3. ASSUME NEW r \in Requests, NEW c \in Clients,
             NEW who \in Clients \cup {None}, NEW k \in Codes,
             NEW uri \in Redirects, NEW v \in Verifiers \cup {None},
             CodeGet(r, c, who, k, uri, v)
      PROVE CredentialInv'
  <2>1. /\ UNCHANGED <<authorized, access, parent, authCodes, refreshTokens>>
        /\ \A x \in DOMAIN req' : x # r => x \in DOMAIN req /\ req'[x] = req[x]
        /\ req'[r] = [ep |-> "code", pc |-> "delete",
             via |-> [key |-> k, by |-> who, uri |-> uri, verifier |-> v],
             grant |-> GrantOf(authCodes[k].val),
             verdict |-> CodeVerdict(authCodes[k].val, uri, v),
             at |-> now, idle |-> 0]
        /\ k \in DOMAIN authCodes /\ authCodes[k].val.client = c
        /\ ClientAuthenticated(c, who)
    BY <1>3 DEF CodeGet, Begin, With, Live, ClientMatches
  <2>2. k \in DOMAIN authorized /\ authCodes[k].val = authorized[k].data
    BY <2>1 DEF TypeOK
  <2>3. RequestHolds(req[r])'
    BY <2>1, <2>2 DEF RequestHolds, Redeemed, Spent, CodeVerdict, GrantOf,
       ClientAuthenticated
  <2> QED
    BY <1>1, <2>1, <2>3
<1>4. ASSUME NEW r \in Requests, NEW k \in Refreshes,
             (\E c \in Clients : RefreshLoad(r, c, k)) \/ SelfRefreshLoad(r, k)
      PROVE CredentialInv'
  <2>1. /\ UNCHANGED <<authorized, access, parent, authCodes, refreshTokens>>
        /\ \A x \in DOMAIN req' : x # r => x \in DOMAIN req /\ req'[x] = req[x]
        /\ req'[r].via.key = k
        /\ \/ req'[r].ep = "refresh" /\ req'[r].pc = "delete"
           \/ req'[r].ep = "self" /\ req'[r].pc = "user"
        /\ k \in DOMAIN refreshTokens
    BY <1>4 DEF RefreshLoad, SelfRefreshLoad, Begin, With, Live
  <2>2. k \in DOMAIN parent /\ k \notin Codes
    BY <2>1 DEF TypeOK
  <2>3. RequestHolds(req[r])'
    BY <2>1, <2>2 DEF RequestHolds, Spent
  <2> QED
    BY <1>1, <2>1, <2>3
<1>5. ASSUME NEW r \in Requests, DeleteCredential(r) PROVE CredentialInv'
  <2>1. /\ UNCHANGED <<authorized, access, parent>>
        /\ DOMAIN authCodes' = DOMAIN authCodes \ {req[r].via.key}
        /\ DOMAIN refreshTokens' = DOMAIN refreshTokens \ {req[r].via.key}
        /\ r \in DOMAIN req
    BY <1>5 DEF DeleteCredential, Del, At
  <2>2. CASE req[r].verdict = "ok"
    <3>1. /\ \A x \in DOMAIN req' : x # r => x \in DOMAIN req /\ req'[x] = req[x]
          /\ req'[r].pc \in {"user", "issue"} /\ req'[r].ep = req[r].ep
          /\ req'[r].grant = req[r].grant /\ req'[r].via = req[r].via
          /\ req'[r].verdict = "ok"
      BY <1>5, <2>1, <2>2 DEF DeleteCredential, Goto, AfterDelete, TypeOK
    <3>2. RequestHolds(req[r]) /\ \A via, c : Redeemed(via, c)' = Redeemed(via, c)
      BY <2>1 DEF CredentialInv, Redeemed
    <3>3. RequestHolds(req[r])'
      BY <2>1, <2>2, <3>1, <3>2 DEF RequestHolds, Spent
    <3> QED
      BY <1>1, <2>1, <3>1, <3>3
  <2>3. CASE req[r].verdict # "ok"
    BY <1>1, <1>5, <2>1, <2>3 DEF DeleteCredential, End, Without
  <2> QED
    BY <2>2, <2>3
<1>6. ASSUME NEW r \in Requests, LookupUser(r) PROVE CredentialInv'
  <2>1. /\ UNCHANGED <<authorized, access, parent, authCodes, refreshTokens>>
        /\ r \in DOMAIN req /\ req[r].pc = "user"
    BY <1>6 DEF LookupUser, At
  <2>2. CASE req[r].grant.user \in users
    <3>1. /\ \A x \in DOMAIN req' : x # r => x \in DOMAIN req /\ req'[x] = req[x]
          /\ req'[r].pc = IF req[r].ep = "self" THEN "idle" ELSE "issue"
          /\ req'[r].ep = req[r].ep /\ req'[r].grant = req[r].grant
          /\ req'[r].via = req[r].via /\ req'[r].verdict = req[r].verdict
      BY <1>6, <2>1, <2>2 DEF LookupUser, Goto, TypeOK
    <3>2. RequestHolds(req[r]) /\ \A via, c : Redeemed(via, c)' = Redeemed(via, c)
      BY <2>1 DEF CredentialInv, Redeemed
    <3>3. RequestHolds(req[r])'
      BY <2>1, <3>1, <3>2 DEF RequestHolds, Spent
    <3> QED
      BY <1>1, <2>1, <3>1, <3>3
  <2>3. CASE req[r].grant.user \notin users
    BY <1>1, <1>6, <2>1, <2>3 DEF LookupUser, End, Without
  <2> QED
    BY <2>2, <2>3
<1>7. ASSUME NEW r \in Requests, CheckIdle(r) PROVE CredentialInv'
  <2>1. /\ UNCHANGED <<authorized, access, parent, authCodes, refreshTokens>>
        /\ r \in DOMAIN req /\ req[r].pc = "idle"
        /\ \A x \in DOMAIN req' : x # r => x \in DOMAIN req /\ req'[x] = req[x]
        /\ req'[r].pc = "delete" /\ req'[r].ep = req[r].ep
        /\ req'[r].via = req[r].via
    BY <1>7 DEF CheckIdle, At
  <2>2. RequestHolds(req[r])
    BY <2>1 DEF CredentialInv
  <2>3. RequestHolds(req[r])'
    BY <2>1, <2>2 DEF RequestHolds, Spent
  <2> QED
    BY <1>1, <2>1, <2>3
<1>8. ASSUME NEW r \in Requests, NEW j \in Jtis, NEW k \in Refreshes,
             Issue(r, j, k)
      PROVE CredentialInv'
  <2>1. /\ UNCHANGED <<authorized, authCodes>>
        /\ r \in DOMAIN req /\ req[r].pc = "issue"
        /\ DOMAIN req' = DOMAIN req \ {r}
        /\ \A x \in DOMAIN req' : req'[x] = req[x]
    BY <1>8 DEF Issue, At, End, Without
  <2>2. \/ UNCHANGED <<refreshTokens, parent>>
        \/ /\ k \notin DOMAIN parent
           /\ DOMAIN parent' = DOMAIN parent \cup {k}
           /\ DOMAIN refreshTokens' = DOMAIN refreshTokens \cup {k}
    BY <1>8 DEF Issue, SaveRefreshToken, Put, With
  <2>3. /\ j \notin DOMAIN access /\ DOMAIN access' = DOMAIN access \cup {j}
        /\ \A x \in DOMAIN access : access'[x] = access[x]
        /\ access'[j].via = req[r].via
        /\ access'[j].client = req[r].grant.client
    BY <1>8 DEF Issue, IssueAccess, With
  <2>4. \A via, c : Redeemed(via, c)' = Redeemed(via, c)
    BY <2>1 DEF Redeemed
  <2>5. \A x \in DOMAIN req' : RequestHolds(req[x])'
    <3> SUFFICES ASSUME NEW x \in DOMAIN req' PROVE RequestHolds(req[x])'
      OBVIOUS
    <3>1. RequestHolds(req[x]) /\ req'[x] = req[x]
      BY <2>1 DEF CredentialInv
    <3>2. DOMAIN authorized \subseteq Codes /\ Codes \cap Refreshes = {}
      BY DEF TypeOK
    <3> QED
      BY <2>1, <2>2, <2>4, <3>1, <3>2 DEF RequestHolds
  <2>6. access'[j].via.key \in Codes => Redeemed(access'[j].via, access'[j].client)
    <3>1. RequestHolds(req[r])
      BY <2>1 DEF CredentialInv
    <3> QED
      BY <2>1, <2>3, <3>1 DEF RequestHolds, Spent
  <2> QED
    BY <2>3, <2>4, <2>5, <2>6 DEF CredentialInv
<1>9. ASSUME NEW u \in Users, NEW j \in Jtis, NEW k \in Refreshes,
             NEW scope \in Scopes, Login(u, j, k, scope)
      PROVE CredentialInv'
  <2>1. /\ UNCHANGED <<authorized, authCodes, req>>
        /\ k \notin DOMAIN parent
        /\ DOMAIN parent' = DOMAIN parent \cup {k}
        /\ DOMAIN refreshTokens' = DOMAIN refreshTokens \cup {k}
    BY <1>9 DEF Login, SaveRefreshToken, With, Put
  <2>2. /\ DOMAIN access' = DOMAIN access \cup {j}
        /\ \A x \in DOMAIN access : access'[x] = access[x]
        /\ access'[j].via.key = None
    BY <1>9 DEF Login, IssueAccess, With
  <2>3. \A via, c : Redeemed(via, c)' = Redeemed(via, c)
    BY <2>1 DEF Redeemed
  <2>4. \A x \in DOMAIN req : RequestHolds(req[x])'
    <3> SUFFICES ASSUME NEW x \in DOMAIN req PROVE RequestHolds(req[x])'
      OBVIOUS
    <3>1. RequestHolds(req[x]) /\ req'[x] = req[x]
      BY <2>1 DEF CredentialInv
    <3>2. DOMAIN authorized \subseteq Codes /\ Codes \cap Refreshes = {}
      BY DEF TypeOK
    <3> QED
      BY <2>1, <2>3, <3>1, <3>2 DEF RequestHolds
  <2> QED
    BY <2>1, <2>2, <2>3, <2>4 DEF CredentialInv
<1>10. ASSUME \/ \E r \in Requests : IssueFails(r)
              \/ \E j \in Jtis : TouchActivity(j) \/ RevokeAccess(j)
              \/ \E k \in Refreshes : RevokeRefresh(k)
              \/ \E u \in Users : DeleteUser(u)
              \/ \E c \in Clients : ToggleClient(c)
              \/ \E c \in Clients, us \in SUBSET Users : SetGrants(c, us)
              \/ Gc \/ Tick \/ Restart \/ UNCHANGED vars
       PROVE CredentialInv'
  <2>1. /\ UNCHANGED <<authorized, access, parent>>
        /\ DOMAIN authCodes' \subseteq DOMAIN authCodes
        /\ DOMAIN refreshTokens' \subseteq DOMAIN refreshTokens
        /\ \A r \in DOMAIN req' : r \in DOMAIN req /\ req'[r] = req[r]
    BY <1>10 DEF IssueFails, End, Without, TouchActivity, RevokeAccess,
       RevokeRefresh, DeleteUser, ToggleClient, SetGrants, Gc, Tick, Restart,
       vars, Del, Collect, EmptyStore
  <2> QED
    BY <1>1, <2>1
<1> QED
  BY ONLY [Next]_vars, <1>2, <1>3, <1>4, <1>5, <1>6, <1>7, <1>8, <1>9, <1>10
     DEF Next

\* The strengthening holds throughout.
LEMMA CredentialInvariant == Spec => []CredentialInv
<1>1. Init => CredentialInv
  BY InitCredentialInv
<1>2. CredentialInv /\ [Next]_vars => CredentialInv'
  BY NextCredentialInv
<1> QED
  BY <1>1, <1>2, PTL DEF Spec

\* A token obtained with a code went to the client the code was made for,
\* against the redirect URI and the PKCE challenge of /oauth/authorize.
THEOREM CodesRedeemedByTheirClient == Spec => []RedemptionMatchesCode
<1>1. CredentialInv => RedemptionMatchesCode
  BY DEF CredentialInv, Redeemed, VerifyPKCE, RedemptionMatchesCode
<1> QED
  BY <1>1, CredentialInvariant, PTL

-----------------------------------------------------------------------------
(* The access policy *)

\* Strengthening: the policy admitted every authorisation when it was made.
AuthorizedByPolicy ==
  \A k \in DOMAIN authorized :
    LET c == authorized[k].data.client
    IN  c \notin Builtin => /\ c \notin NoOne
                            /\ c \in Assigned => authorized[k].granted

\* Authorisations are only ever made past the access gate, and never changed.
LEMMA NextAuthorizedByPolicy ==
  AuthorizedByPolicy /\ [Next]_vars => AuthorizedByPolicy'
<1> SUFFICES ASSUME AuthorizedByPolicy, [Next]_vars PROVE AuthorizedByPolicy'
  OBVIOUS
<1> USE DEF store, rows, history
<1>1. ASSUME NEW u \in Users, NEW c \in Clients, NEW k \in Codes,
             NEW uri \in Redirects, NEW scope \in Scopes,
             NEW challenge \in Verifiers \cup {None},
             NEW method \in {"S256", "plain"}, NEW consent \in BOOLEAN,
             Authorize(u, c, k, uri, scope, challenge, method, consent)
      PROVE AuthorizedByPolicy'
  BY <1>1 DEF AuthorizedByPolicy, Authorize, AccessAllowed, With
<1>2. CASE UNCHANGED authorized
  BY <1>2 DEF AuthorizedByPolicy
<1> QED
  BY <1>1, <1>2 DEF Next, CodeGet, RefreshLoad, SelfRefreshLoad,
     DeleteCredential, LookupUser, CheckIdle, Issue, IssueFails, Login,
     TouchActivity, RevokeRefresh, RevokeAccess, DeleteUser, ToggleClient,
     SetGrants, Gc, Tick, Restart, vars

\* Nobody holds a token for an application that was never granted to them or
\* is open to no one, whatever is granted, revoked and refreshed meanwhile.
THEOREM PolicyHolds == Spec => []PolicyRespected
<1>1. Init => AuthorizedByPolicy
  BY DEF Init, AuthorizedByPolicy, EmptyStore
<1>2. AuthorizedByPolicy /\ [Next]_vars => AuthorizedByPolicy'
  BY NextAuthorizedByPolicy
<1>3. TypeOK /\ AuthorizedByPolicy /\ TokensMatchAuthorization => PolicyRespected
  <2> SUFFICES ASSUME TypeOK, AuthorizedByPolicy, TokensMatchAuthorization,
                      NEW j \in DOMAIN access, access[j].client \notin Builtin
               PROVE  /\ access[j].client \notin NoOne
                      /\ access[j].client \in Assigned =>
                           \E k \in DOMAIN authorized :
                             /\ authorized[k].data.user = access[j].user
                             /\ authorized[k].data.client = access[j].client
                             /\ authorized[k].granted
    BY DEF PolicyRespected
  <2>1. CASE access[j].client = Admin
    BY <2>1, SetsAssumption
  <2>2. CASE access[j].client # Admin
    <3>1. PICK k \in DOMAIN authorized :
                 GrantOf(access[j]) = GrantOf(authorized[k].data)
      BY <2>2 DEF TokensMatchAuthorization, AuthorizedGrants
    <3>2. /\ authorized[k].data.user = access[j].user
          /\ authorized[k].data.client = access[j].client
      BY <3>1 DEF GrantOf
    <3> QED
      BY <3>2 DEF AuthorizedByPolicy
  <2> QED
    BY <2>1, <2>2
<1> QED
  BY <1>1, <1>2, <1>3, TypeCorrect, TokensAuthorized, PTL DEF Spec

-----------------------------------------------------------------------------
(* Codes and refresh tokens implement OneTimeGrant *)

\* At the start no credential is issued, held or honoured.
LEMMA InitOneTime == Init => OneTime!GrantInit
<1> SUFFICES ASSUME Init PROVE OneTime!GrantInit
  OBVIOUS
<1>1. /\ req = EmptyStore /\ access = EmptyStore
      /\ authorized = EmptyStore /\ parent = EmptyStore
  BY DEF Init
<1> QED
  BY <1>1 DEF EmptyStore, Phase, OneTime!GrantInit

\* What a step must do to the credentials, the requests and the tokens so
\* that it is a step of OneTimeGrant.
LEMMA OneTimeStep ==
  ASSUME CredentialInv, CredentialInv',
         \A k \in Credentials :
           \/ Phase(k)' = Phase(k)
           \/ Phase(k) = "fresh" /\ Phase(k)' = "live"
           \/ Phase(k) = "live" /\ Phase(k)' = "dead",
         \A r \in DOMAIN req' :
           \/ r \in DOMAIN req /\ req'[r].via.key = req[r].via.key
           \/ Phase(req'[r].via.key) = "live",
         \A j \in DOMAIN access :
           j \in DOMAIN access' /\ access'[j].via.key = access[j].via.key,
         \A j \in DOMAIN access' \ DOMAIN access :
           \/ access'[j].via.key = None
           \/ \E r \in DOMAIN req : /\ req[r].via.key = access'[j].via.key
                                    /\ Phase(req[r].via.key) = "dead"
  PROVE  OneTime!GrantNext
<1> DEFINE held == {<<r, req[r].via.key>> : r \in DOMAIN req}
           honoured == {access[j].via.key : j \in DOMAIN access} \ {None}
<1>1. \A k : Phase(k) \in {"fresh", "live", "dead"}
  BY DEF Phase
<1>2. \A k : Phase(k)' \in {"fresh", "live", "dead"}
  BY DEF Phase
<1>3. held \subseteq Requests \X Credentials
      /\ held' \subseteq Requests \X Credentials
  BY DEF CredentialInv, RequestHolds, TypeOK, Credentials
<1>4. honoured \subseteq honoured' /\ honoured' \subseteq Credentials
  BY DEF CredentialInv, TypeOK, Origins
<1>5. \A r \in Requests, k \in Credentials :
        <<r, k>> \in held' \ held => Phase(k) = "live"
  OBVIOUS
<1>6. \A k \in Credentials : k \in honoured' \ honoured =>
        Phase(k) = "dead" /\ \E r \in Requests : <<r, k>> \in held
  BY DEF CredentialInv, TypeOK
<1> QED
  BY <1>2, <1>3, <1>4, <1>5, <1>6 DEF OneTime!GrantNext, OneTime!PhaseStep,
     OneTime!Take, OneTime!Honour

\* A step that stores nothing and draws nothing can only kill credentials.
LEMMA PhaseFalls ==
  ASSUME TypeOK, TypeOK', now <= now',
         DOMAIN authorized' = DOMAIN authorized, DOMAIN parent' = DOMAIN parent,
         \A k \in DOMAIN authCodes' :
           k \in DOMAIN authCodes /\ authCodes'[k] = authCodes[k],
         \A k \in DOMAIN refreshTokens' :
           k \in DOMAIN refreshTokens /\ refreshTokens'[k] = refreshTokens[k]
  PROVE  \A k \in Credentials :
           \/ Phase(k)' = Phase(k)
           \/ Phase(k) = "live" /\ Phase(k)' = "dead"
<1>1. \A k : Live(authCodes, k, now)' => Live(authCodes, k, now)
  BY DEF Live, Expired, TypeOK
<1>2. \A k : Live(refreshTokens, k, now)' => Live(refreshTokens, k, now)
  BY DEF Live, Expired, TypeOK
<1> QED
  BY <1>1, <1>2 DEF Phase

\* A refresh token that is drawn and stored goes from fresh to live, and
\* nothing else changes.
LEMMA PhaseOfNewRefresh ==
  ASSUME TypeOK, NEW k \in Refreshes, NEW grant, NEW key, NEW ttl \in Nat \ {0},
         SaveRefreshToken(k, grant, key, ttl),
         UNCHANGED <<now, authorized, authCodes>>
  PROVE  \A x \in Credentials :
           \/ Phase(x)' = Phase(x)
           \/ Phase(x) = "fresh" /\ Phase(x)' = "live"
<1>1. /\ k \notin DOMAIN parent /\ DOMAIN parent' = DOMAIN parent \cup {k}
      /\ DOMAIN refreshTokens' = DOMAIN refreshTokens \cup {k}
      /\ refreshTokens'[k].exp = now + ttl
      /\ \A x \in DOMAIN refreshTokens : x # k =>
           refreshTokens'[x] = refreshTokens[x]
  BY DEF SaveRefreshToken, With, Put, ExpiryOf
<1>2. Live(refreshTokens, k, now)'
  BY <1>1 DEF Live, Expired, TypeOK
<1>3. \A x : x # k =>
        Live(refreshTokens, x, now)' = Live(refreshTokens, x, now)
  BY <1>1 DEF Live, Expired
<1>4. \A x : Live(authCodes, x, now)' = Live(authCodes, x, now)
  BY DEF Live, Expired
<1>5. Phase(k) = "fresh" /\ Phase(k)' = "live"
  BY <1>1, <1>2, SetsAssumption DEF Phase, TypeOK
<1> QED
  BY <1>1, <1>3, <1>4, <1>5 DEF Phase

\* Every step is a step of OneTimeGrant.
LEMMA NextOneTime ==
  CredentialInv /\ CredentialInv' /\ [Next]_vars
    => [OneTime!GrantNext]_(OneTime!grantVars)
<1> SUFFICES ASSUME CredentialInv, CredentialInv', [Next]_vars
             PROVE  OneTime!GrantNext
  OBVIOUS
<1> TypeOK /\ TypeOK'
  BY DEF CredentialInv
<1> USE SetsAssumption, TimeAssumption DEF store, rows, history
\* Steps that issue nothing.
<1>1. ASSUME UNCHANGED <<authorized, parent, access>>, now <= now',
             \A k \in DOMAIN authCodes' :
               k \in DOMAIN authCodes /\ authCodes'[k] = authCodes[k],
             \A k \in DOMAIN refreshTokens' :
               /\ k \in DOMAIN refreshTokens
               /\ refreshTokens'[k] = refreshTokens[k],
             \A r \in DOMAIN req' :
               \/ r \in DOMAIN req /\ req'[r].via.key = req[r].via.key
               \/ Phase(req'[r].via.key) = "live"
      PROVE  OneTime!GrantNext
  <2>1. \A k \in Credentials : \/ Phase(k)' = Phase(k)
                               \/ Phase(k) = "live" /\ Phase(k)' = "dead"
    BY <1>1, PhaseFalls
  <2> QED
    BY <1>1, <2>1, OneTimeStep
<1>2. ASSUME NEW u \in Users, NEW c \in Clients, NEW k \in Codes,
             NEW uri \in Redirects, NEW scope \in Scopes,
             NEW challenge \in Verifiers \cup {None},
             NEW method \in {"S256", "plain"}, NEW consent \in BOOLEAN,
             Authorize(u, c, k, uri, scope, challenge, method, consent)
      PROVE OneTime!GrantNext
  <2>1. /\ k \notin DOMAIN authorized
        /\ DOMAIN authorized' = DOMAIN authorized \cup {k}
        /\ DOMAIN authCodes' = DOMAIN authCodes \cup {k}
        /\ authCodes'[k].exp = now + CodeTTL
        /\ \A x \in DOMAIN authCodes : x # k => authCodes'[x] = authCodes[x]
        /\ UNCHANGED <<now, refreshTokens, parent, req, access>>
    BY <1>2 DEF Authorize, With, Put, ExpiryOf
  <2>2. Live(authCodes, k, now)'
    BY <2>1 DEF Live, Expired, TypeOK
  <2>3. \A x : x # k => Live(authCodes, x, now)' = Live(authCodes, x, now)
    BY <2>1 DEF Live, Expired
  <2>4. \A x : Live(refreshTokens, x, now)' = Live(refreshTokens, x, now)
    BY <2>1 DEF Live, Expired
  <2>5. Phase(k) = "fresh" /\ Phase(k)' = "live"
    BY <2>1, <2>2 DEF Phase, TypeOK
  <2>6. \A x \in Credentials : \/ Phase(x)' = Phase(x)
                               \/ Phase(x) = "fresh" /\ Phase(x)' = "live"
    BY <2>1, <2>3, <2>4, <2>5 DEF Phase
  <2> QED
    BY <2>1, <2>6, OneTimeStep
<1>3. ASSUME NEW r \in Requests, NEW c \in Clients,
             NEW who \in Clients \cup {None}, NEW k \in Codes,
             NEW uri \in Redirects, NEW v \in Verifiers \cup {None},
             CodeGet(r, c, who, k, uri, v)
      PROVE OneTime!GrantNext
  <2>1. /\ UNCHANGED <<now, authorized, access, parent, authCodes, refreshTokens>>
        /\ \A x \in DOMAIN req' : x # r => x \in DOMAIN req /\ req'[x] = req[x]
        /\ req'[r].via.key = k /\ Live(authCodes, k, now)
    BY <1>3 DEF CodeGet, Begin, With
  <2>2. Phase(k) = "live"
    BY <2>1 DEF Phase, Live, TypeOK
  <2> QED
    BY <1>1, <2>1, <2>2 DEF TypeOK
<1>4. ASSUME NEW r \in Requests, NEW k \in Refreshes,
             (\E c \in Clients : RefreshLoad(r, c, k)) \/ SelfRefreshLoad(r, k)
      PROVE OneTime!GrantNext
  <2>1. /\ UNCHANGED <<now, authorized, access, parent, authCodes, refreshTokens>>
        /\ \A x \in DOMAIN req' : x # r => x \in DOMAIN req /\ req'[x] = req[x]
        /\ req'[r].via.key = k /\ Live(refreshTokens, k, now)
    BY <1>4 DEF RefreshLoad, SelfRefreshLoad, Begin, With
  <2>2. Phase(k) = "live"
    BY <2>1 DEF Phase, Live, TypeOK
  <2> QED
    BY <1>1, <2>1, <2>2 DEF TypeOK
<1>5. ASSUME NEW r \in Requests,
             DeleteCredential(r) \/ LookupUser(r) \/ CheckIdle(r)
               \/ IssueFails(r)
      PROVE OneTime!GrantNext
  <2>1. /\ UNCHANGED <<now, authorized, parent, access>>
        /\ \A k \in DOMAIN authCodes' :
             k \in DOMAIN authCodes /\ authCodes'[k] = authCodes[k]
        /\ \A k \in DOMAIN refreshTokens' :
             k \in DOMAIN refreshTokens /\ refreshTokens'[k] = refreshTokens[k]
    BY <1>5 DEF DeleteCredential, LookupUser, CheckIdle, IssueFails, Del
  <2>2. \A x \in DOMAIN req' : x \in DOMAIN req /\ req'[x].via = req[x].via
    BY <1>5 DEF DeleteCredential, LookupUser, CheckIdle, IssueFails, Goto,
                End, Without, TypeOK
  <2> QED
    BY <1>1, <2>1, <2>2 DEF TypeOK
<1>6. ASSUME NEW r \in Requests, NEW j \in Jtis, NEW k \in Refreshes,
             Issue(r, j, k)
      PROVE OneTime!GrantNext
  <2>1. /\ UNCHANGED <<now, authorized, authCodes>>
        /\ r \in DOMAIN req /\ req[r].pc = "issue"
        /\ \A x \in DOMAIN req' : x \in DOMAIN req /\ req'[x] = req[x]
    BY <1>6 DEF Issue, At, End, Without
  <2>2. /\ DOMAIN access' = DOMAIN access \cup {j}
        /\ \A x \in DOMAIN access : access'[x] = access[x]
        /\ j \notin DOMAIN access /\ access'[j].via = req[r].via
    BY <1>6 DEF Issue, IssueAccess, With
  <2>3. Phase(req[r].via.key) = "dead"
    BY <2>1 DEF CredentialInv, RequestHolds, Spent, Phase, Live
  <2>4. RefreshTTLFor(r) \in Nat \ {0}
    BY <2>1 DEF RefreshTTLFor, EffectiveTTL, TypeOK, Grants
  <2>5. \A x \in Credentials : \/ Phase(x)' = Phase(x)
                               \/ Phase(x) = "fresh" /\ Phase(x)' = "live"
    <3>1. CASE UNCHANGED <<refreshTokens, parent>>
      BY <2>1, <3>1 DEF Phase, Live, Expired
    <3>2. CASE SaveRefreshToken(k, req[r].grant, req[r].via.key, RefreshTTLFor(r))
      BY <2>1, <2>4, <3>2, PhaseOfNewRefresh
    <3> QED
      BY <1>6, <3>1, <3>2 DEF Issue
  <2> QED
    BY <2>1, <2>2, <2>3, <2>5, OneTimeStep
<1>7. ASSUME NEW u \in Users, NEW j \in Jtis, NEW k \in Refreshes,
             NEW scope \in Scopes, Login(u, j, k, scope)
      PROVE OneTime!GrantNext
  <2>1. /\ UNCHANGED <<now, authorized, authCodes, req>>
        /\ \A x \in DOMAIN access : x \in DOMAIN access' /\ access'[x] = access[x]
        /\ \A x \in DOMAIN access' \ DOMAIN access : access'[x].via.key = None
        /\ \E g : SaveRefreshToken(k, g, None, RefreshTTL)
    BY <1>7 DEF Login, IssueAccess, With
  <2>2. \A x \in Credentials : \/ Phase(x)' = Phase(x)
                               \/ Phase(x) = "fresh" /\ Phase(x)' = "live"
    BY <2>1, PhaseOfNewRefresh
  <2> QED
    BY <2>1, <2>2, OneTimeStep
<1>8. ASSUME NEW j \in Jtis, TouchActivity(j) \/ RevokeAccess(j)
      PROVE OneTime!GrantNext
  BY <1>1, <1>8 DEF TouchActivity, RevokeAccess, TypeOK
<1>9. ASSUME NEW k \in Refreshes, RevokeRefresh(k) PROVE OneTime!GrantNext
  BY <1>1, <1>9 DEF RevokeRefresh, Del, TypeOK
<1>10. ASSUME \/ \E u \in Users : DeleteUser(u)
              \/ \E c \in Clients : ToggleClient(c)
              \/ \E c \in Clients, us \in SUBSET Users : SetGrants(c, us)
              \/ UNCHANGED vars
       PROVE OneTime!GrantNext
  <2>1. UNCHANGED <<now, authCodes, refreshTokens, authorized, parent, access, req>>
    BY <1>10 DEF DeleteUser, ToggleClient, SetGrants, vars
  <2> QED
    BY <1>1, <2>1 DEF TypeOK
<1>11. CASE Gc
  BY <1>1, <1>11 DEF Gc, Collect, TypeOK
<1>12. CASE Tick
  BY <1>1, <1>12 DEF Tick, TypeOK
<1>13. CASE Restart
  <2>1. /\ UNCHANGED <<now, authorized, parent, access>> /\ req' = EmptyStore
        /\ \/ UNCHANGED <<authCodes, refreshTokens>>
           \/ authCodes' = EmptyStore /\ refreshTokens' = EmptyStore
    BY <1>13 DEF Restart
  <2> QED
    BY <1>1, <2>1 DEF EmptyStore, TypeOK
<1> QED
  BY ONLY [Next]_vars, <1>2, <1>3, <1>4, <1>5, <1>6, <1>7, <1>8, <1>9, <1>10,
          <1>11, <1>12, <1>13 DEF Next

\* Authorization codes and refresh tokens are one-time credentials: Get,
\* Delete and the issue of tokens, over any number of overlapping requests,
\* implement OneTimeGrant.
THEOREM CredentialsImplementOneTimeGrant == Spec => OneTimeCredentials
<1>1. Init => OneTime!GrantInit
  BY InitOneTime
<1>2. CredentialInv /\ CredentialInv' /\ [Next]_vars
        => [OneTime!GrantNext]_(OneTime!grantVars)
  BY NextOneTime
<1> QED
  BY <1>1, <1>2, CredentialInvariant, PTL
     DEF Spec, OneTimeCredentials, OneTime!GrantSpec
=============================================================================
