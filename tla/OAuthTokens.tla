----------------------------- MODULE OAuthTokens -----------------------------
(***************************************************************************)
(* Authorization codes, access tokens and refresh tokens of OneAuth:       *)
(* internal/oauth (authcode.go, token.go), the /oauth/authorize,           *)
(* /oauth/token and /oauth/revoke handlers (handler/oauth_handler.go), the *)
(* /auth/refresh handler (handler/auth_handler.go) and the activity record *)
(* behind the idle logout (middleware/activity.go).                        *)
(*                                                                         *)
(* A request is a process: every access to the shared store or to the user *)
(* table is a step of its own, so that requests interleave as they do in   *)
(* the server.                                                             *)
(***************************************************************************)
EXTENDS Integers, KVStore

CONSTANTS
  Users,            \* user ids
  Clients,          \* relying parties that call /oauth/token
  Admin,            \* AdminClientID; its secret is discarded at seeding
  Public,           \* clients with ClientType = "public"
  Builtin,          \* clients with IsBuiltin
  SpInitiated,      \* clients with AllowSpInitiated
  Assigned, NoOne,  \* clients with AccessPolicy "assigned" / "none"
  RequireConsent,   \* clients with RequireConsent
  IssueRefresh,     \* clients with IssueRefreshToken
  ClientTTL,        \* AccessTokenTTL per client, 0 = global default
  ClientRefreshTTL, \* RefreshTokenTTL per client, 0 = global default
  Scopes,
  Redirects,        \* redirect URIs, normalised
  Registered,       \* RedirectURIs per client
  Verifiers,        \* PKCE verifiers; S256 is injective on them
  Codes, Refreshes, Jtis,   \* supplies of random identifiers
  Requests,         \* request slots: how many requests run at a time
  CodeTTL, AccessTTL, RefreshTTL, SessionTTL, ActivityTTL,
  IdleTimeout,      \* security.session_timeout, 0 = disabled
  MaxLatency,       \* a request ends within MaxLatency ticks
  Persistent,       \* TRUE: RedisStore, FALSE: MemoryStore
  MaxTime,          \* bound on the clock
  None

ASSUME SetsAssumption ==
  /\ Admin \notin Clients
  /\ None \notin Clients \cup {Admin} \cup Codes \cup Refreshes
               \cup Redirects \cup Verifiers
  /\ Codes \cap Refreshes = {}
  /\ Public \subseteq Clients
  /\ Assigned \subseteq Clients /\ NoOne \subseteq Clients
  /\ Registered \in [Clients -> SUBSET Redirects]

ASSUME TimeAssumption ==
  /\ CodeTTL \in Nat \ {0} /\ AccessTTL \in Nat \ {0}
  /\ RefreshTTL \in Nat \ {0} /\ SessionTTL \in Nat \ {0}
  /\ ActivityTTL \in Nat \ {0}
  /\ IdleTimeout \in Nat /\ MaxLatency \in Nat /\ MaxTime \in Nat
  /\ ClientTTL \in [Clients -> Nat] /\ ClientRefreshTTL \in [Clients -> Nat]

VARIABLES
  now,            \* the clock
  users,          \* rows of the user table
  active,         \* clients with IsActive
  allowed,        \* <<user, client>> that AppGrantRepo.UserAllowed accepts
  consents,       \* rows of sso_auth_grant
  authCodes,      \* store, prefix "auth_code:"
  refreshTokens,  \* store, prefix "refresh:"
  revoked,        \* store, prefix "revoked:jti:"
  lastActive,     \* store, prefix "lastactive:"
  access,         \* JWTs handed out: jti -> claims (no server state)
  req,            \* requests in flight
  authorized,     \* history: what was authorised under each code
  parent,         \* history: the credential a refresh token was issued for
  seen,           \* history: last activity of each user, never expires
  revokedEver     \* history: jtis that Revoke accepted

store == <<authCodes, refreshTokens, revoked, lastActive>>
rows == <<users, active, allowed, consents>>
history == <<authorized, parent, seen, revokedEver>>
vars == <<now, rows, store, access, req, history>>

Credentials == Codes \cup Refreshes
Grants == [user : Users, client : Clients \cup {Admin}, scope : Scopes]
\* Where an issued token comes from: the credential presented, and by whom.
Origins == [key : Credentials \cup {None}, by : Clients \cup {None},
            uri : Redirects \cup {None}, verifier : Verifiers \cup {None}]

Init ==
  /\ now = 1
  /\ users = Users /\ active = Clients
  /\ allowed = {} /\ consents = {}
  /\ authCodes = EmptyStore /\ refreshTokens = EmptyStore
  /\ revoked = EmptyStore /\ lastActive = EmptyStore
  /\ access = EmptyStore /\ req = EmptyStore
  /\ authorized = EmptyStore /\ parent = EmptyStore
  /\ seen = [u \in Users |-> 0]
  /\ revokedEver = {}

-----------------------------------------------------------------------------
(* Finite maps other than stores. *)
With(f, k, v) == [x \in DOMAIN f \cup {k} |-> IF x = k THEN v ELSE f[x]]
Without(f, k) == [x \in DOMAIN f \ {k} |-> f[x]]

-----------------------------------------------------------------------------
(* Authorize *)

\* Mutant of AccessAllowed: the policy "assigned" is not looked up.
AccessUnchecked(u, c) == c \in Builtin \/ (c \in SpInitiated /\ c \notin NoOne)

\* The access gate: built-in applications skip it.
AccessAllowed(u, c) ==
  \/ c \in Builtin
  \/ /\ c \in SpInitiated
     /\ c \notin NoOne
     /\ c \in Assigned => <<u, c>> \in allowed

\* No consent page: GrantRepo.Has ignores the scope.
AutoGrant(u, c) ==
  c \in Builtin \/ c \notin RequireConsent \/ <<u, c>> \in consents

\* GET /oauth/authorize by a browser that carries a session of u.  The
\* early returns (error redirects, login page, consent page) change nothing.
Authorize(u, c, k, uri, scope, challenge, method, consent) ==
  /\ c \in active
  /\ uri \in Registered[c]
  /\ c \in Public => challenge # None
  /\ AccessAllowed(u, c)
  /\ AutoGrant(u, c) \/ consent
  /\ k \notin DOMAIN authorized
  /\ consents' = IF consent /\ c \notin Builtin
                   THEN consents \cup {<<u, c>>} ELSE consents
  /\ LET data == [user |-> u, client |-> c, scope |-> scope, uri |-> uri,
                  challenge |-> challenge, method |-> method]
     IN  /\ authCodes' = Put(authCodes, k, data, CodeTTL, now)
         /\ authorized' = With(authorized, k,
                               [data |-> data, granted |-> <<u, c>> \in allowed])
  /\ UNCHANGED <<now, users, active, allowed, refreshTokens, revoked,
                 lastActive, access, req, parent, seen, revokedEver>>

-----------------------------------------------------------------------------
(* Token endpoint and /auth/refresh: the first step of a request *)

\* Only the client itself knows the secret of a confidential client.
ClientAuthenticated(c, who) == c \in Public \/ who = c

\* Mutant of ClientMatches: the client ids are not compared.
ClientIgnored(data, c) == TRUE

\* AuthCodeStore.Get and handleRefreshTokenGrant compare the client ids.
ClientMatches(data, c) == data.client = c

\* verifyPKCE: only S256 is accepted.
VerifyPKCE(verifier, data) ==
  data.challenge # None => data.method = "S256" /\ verifier = data.challenge

\* Mutant of CodeVerdict: the redirect URI is not compared.
RedirectIgnored(data, uri, verifier) ==
  IF VerifyPKCE(verifier, data) THEN "ok" ELSE "reject"

\* The checks that follow the deletion of a code.
CodeVerdict(data, uri, verifier) ==
  IF data.uri = uri /\ VerifyPKCE(verifier, data) THEN "ok" ELSE "reject"

GrantOf(data) ==
  [user |-> data.user, client |-> data.client, scope |-> data.scope]

Begin(r, endpoint, pc, via, data, verdict) ==
  /\ r \notin DOMAIN req
  /\ req' = With(req, r, [ep |-> endpoint, pc |-> pc, via |-> via,
                          grant |-> GrantOf(data), verdict |-> verdict,
                          at |-> now, idle |-> 0])

\* grant_type=authorization_code, up to AuthCodeStore.Get.
CodeGet(r, c, who, k, uri, verifier) ==
  /\ ClientAuthenticated(c, who)
  /\ Live(authCodes, k, now)
  /\ ClientMatches(authCodes[k].val, c)
  /\ Begin(r, "code", "delete",
           [key |-> k, by |-> who, uri |-> uri, verifier |-> verifier],
           authCodes[k].val, CodeVerdict(authCodes[k].val, uri, verifier))
  /\ UNCHANGED <<now, rows, store, access, history>>

\* grant_type=refresh_token by the authenticated client c, up to the
\* comparison of the client ids.
RefreshLoad(r, c, k) ==
  /\ Live(refreshTokens, k, now)
  /\ ClientMatches(refreshTokens[k].val, c)
  /\ Begin(r, "refresh", "delete",
           [key |-> k, by |-> c, uri |-> None, verifier |-> None],
           refreshTokens[k].val, "ok")
  /\ UNCHANGED <<now, rows, store, access, history>>

\* POST /auth/refresh: no client authentication, any refresh token.
SelfRefreshLoad(r, k) ==
  /\ Live(refreshTokens, k, now)
  /\ Begin(r, "self", "user",
           [key |-> k, by |-> None, uri |-> None, verifier |-> None],
           refreshTokens[k].val, "ok")
  /\ UNCHANGED <<now, rows, store, access, history>>

-----------------------------------------------------------------------------
(* The remaining steps of a request *)

At(r, pc) == r \in DOMAIN req /\ req[r].pc = pc

Goto(r, pc) == req' = [req EXCEPT ![r].pc = pc]

End(r) == req' = Without(req, r)

\* The credential is deleted before anything is issued for it.  A request
\* whose checks failed ends here, with the credential gone.
AfterDelete(r) == IF req[r].ep = "self" THEN "issue" ELSE "user"

\* Mutant of DeleteCredential: refresh tokens are not rotated out.
DeleteCodeOnly(r) ==
  /\ At(r, "delete")
  /\ authCodes' = Del(authCodes, req[r].via.key)
  /\ IF req[r].verdict = "ok" THEN Goto(r, AfterDelete(r)) ELSE End(r)
  /\ UNCHANGED <<now, rows, refreshTokens, revoked, lastActive, access, history>>

DeleteCredential(r) ==
  /\ At(r, "delete")
  /\ authCodes' = Del(authCodes, req[r].via.key)
  /\ refreshTokens' = Del(refreshTokens, req[r].via.key)
  /\ IF req[r].verdict = "ok" THEN Goto(r, AfterDelete(r)) ELSE End(r)
  /\ UNCHANGED <<now, rows, revoked, lastActive, access, history>>

\* UserService.GetByID: neither IsActive nor IsLocked is looked at.
LookupUser(r) ==
  /\ At(r, "user")
  /\ IF req[r].grant.user \in users
       THEN Goto(r, IF req[r].ep = "self" THEN "idle" ELSE "issue")
       ELSE End(r)
  /\ UNCHANGED <<now, rows, store, access, history>>

\* Idle logout: a user with no activity record passes.
IdleTooLong(u) ==
  /\ IdleTimeout > 0
  /\ Live(lastActive, u, now)
  /\ now - lastActive[u].val > IdleTimeout

CheckIdle(r) ==
  /\ At(r, "idle")
  /\ LET u == req[r].grant.user
     IN  req' = [req EXCEPT ![r] =
                   [ep |-> req[r].ep, pc |-> "delete", via |-> req[r].via,
                    grant |-> req[r].grant, at |-> req[r].at,
                    verdict |-> IF IdleTooLong(u) THEN "reject" ELSE "ok",
                    idle |-> now - seen[u]]]
  /\ UNCHANGED <<now, rows, store, access, history>>

\* ttl <= 0 falls back to the global default.
EffectiveTTL(ttl, default) == IF ttl <= 0 THEN default ELSE ttl

\* Tokens issued from /auth/refresh for the admin console live as long as a
\* session; everything else gets the client's or the global lifetime.
AccessTTLFor(r) ==
  LET c == req[r].grant.client
  IN  IF req[r].ep = "self" THEN IF c = Admin THEN SessionTTL ELSE AccessTTL
                            ELSE EffectiveTTL(ClientTTL[c], AccessTTL)

\* Mutant of IssueAccess: the token carries a default scope, not the grant's.
IssueDefaultScope(j, grant, via, ttl) ==
  /\ j \notin DOMAIN access
  /\ access' = With(access, j, [user |-> grant.user, client |-> grant.client,
                                scope |-> CHOOSE s \in Scopes : TRUE, via |-> via,
                                ttl |-> ttl, exp |-> now + ttl])

RefreshTTLFor(r) ==
  IF req[r].ep = "self" THEN RefreshTTL
  ELSE EffectiveTTL(ClientRefreshTTL[req[r].grant.client], RefreshTTL)

IssueAccess(j, grant, via, ttl) ==
  /\ j \notin DOMAIN access
  /\ access' = With(access, j, [user |-> grant.user, client |-> grant.client,
                                scope |-> grant.scope, via |-> via,
                                ttl |-> ttl, exp |-> now + ttl])

SaveRefreshToken(k, grant, key, ttl) ==
  /\ k \notin DOMAIN parent
  /\ refreshTokens' = Put(refreshTokens, k, grant, ttl, now)
  /\ parent' = With(parent, k, key)

\* The answer: an access token and, unless the client opted out of refresh
\* tokens on a code exchange, a new refresh token.
Issue(r, j, k) ==
  /\ At(r, "issue")
  /\ IssueAccess(j, req[r].grant, req[r].via, AccessTTLFor(r))
  /\ IF req[r].ep = "code" /\ req[r].grant.client \notin IssueRefresh
       THEN UNCHANGED <<refreshTokens, parent>>
       ELSE SaveRefreshToken(k, req[r].grant, req[r].via.key, RefreshTTLFor(r))
  /\ End(r)
  /\ UNCHANGED <<now, rows, authCodes, revoked, lastActive, authorized, seen,
                 revokedEver>>

\* The store refuses the new refresh token: server_error, nothing is issued.
IssueFails(r) ==
  /\ At(r, "issue")
  /\ ~(req[r].ep = "code" /\ req[r].grant.client \notin IssueRefresh)
  /\ End(r)
  /\ UNCHANGED <<now, rows, store, access, history>>

-----------------------------------------------------------------------------
(* Login, activity, revocation *)

\* Mutant of Login: MarkActive is forgotten.
LoginUnmarked(u, j, k, scope) ==
  /\ u \in users
  /\ LET grant == [user |-> u, client |-> Admin, scope |-> scope]
     IN  /\ IssueAccess(j, grant, [key |-> None, by |-> None, uri |-> None,
                                   verifier |-> None], SessionTTL)
         /\ SaveRefreshToken(k, grant, None, RefreshTTL)
  /\ seen' = [seen EXCEPT ![u] = now]
  /\ UNCHANGED <<now, rows, authCodes, revoked, lastActive, req, authorized,
                 revokedEver>>

\* The tail of a successful login: session-long access token, refresh token
\* and MarkActive.
Login(u, j, k, scope) ==
  /\ u \in users
  /\ LET grant == [user |-> u, client |-> Admin, scope |-> scope]
     IN  /\ IssueAccess(j, grant, [key |-> None, by |-> None, uri |-> None,
                                   verifier |-> None], SessionTTL)
         /\ SaveRefreshToken(k, grant, None, RefreshTTL)
  /\ lastActive' = Put(lastActive, u, now, ActivityTTL, now)
  /\ seen' = [seen EXCEPT ![u] = now]
  /\ UNCHANGED <<now, rows, authCodes, revoked, req, authorized, revokedEver>>

\* ValidateAccessToken: signature and exp, then the blacklist.
ValidAccessToken(j) ==
  /\ j \in DOMAIN access
  /\ now < access[j].exp
  /\ ~Live(revoked, j, now)

\* A request marked X-User-Action: 1 with a valid token.
TouchActivity(j) ==
  /\ ValidAccessToken(j)
  /\ LET u == access[j].user
     IN  /\ lastActive' = Put(lastActive, u, now, ActivityTTL, now)
         /\ seen' = [seen EXCEPT ![u] = now]
  /\ UNCHANGED <<now, rows, authCodes, refreshTokens, revoked, access, req,
                 authorized, parent, revokedEver>>

\* The lifetime of a blacklist entry.
RevocationTTL == AccessTTL

\* POST /oauth/revoke with a refresh token.
RevokeRefresh(k) ==
  /\ k \in DOMAIN refreshTokens
  /\ refreshTokens' = Del(refreshTokens, k)
  /\ UNCHANGED <<now, rows, authCodes, revoked, lastActive, access, req,
                 history>>

\* POST /oauth/revoke with an access token.
RevokeAccess(j) ==
  /\ ValidAccessToken(j)
  /\ revoked' = Put(revoked, j, "1", RevocationTTL, now)
  /\ revokedEver' = revokedEver \cup {j}
  /\ UNCHANGED <<now, rows, authCodes, refreshTokens, lastActive, access, req,
                 authorized, parent, seen>>

-----------------------------------------------------------------------------
(* Administration, time, failure *)

\* Users are the accounts other than the built-in one, which is protected.
DeleteUser(u) ==
  /\ u \in users
  /\ users' = users \ {u}
  /\ UNCHANGED <<now, active, allowed, consents, store, access, req, history>>

ToggleClient(c) ==
  /\ active' = IF c \in active THEN active \ {c} ELSE active \cup {c}
  /\ UNCHANGED <<now, users, allowed, consents, store, access, req, history>>

\* SetGrants replaces the grants of one application.
SetGrants(c, us) ==
  /\ allowed' = {p \in allowed : p[2] # c} \cup (us \X {c})
  /\ UNCHANGED <<now, users, active, consents, store, access, req, history>>

\* MemoryStore.gc; Redis expires keys by itself.
Gc ==
  /\ authCodes' = Collect(authCodes, now)
  /\ refreshTokens' = Collect(refreshTokens, now)
  /\ revoked' = Collect(revoked, now)
  /\ lastActive' = Collect(lastActive, now)
  /\ UNCHANGED <<now, rows, access, req, history>>

\* Time passes, but no request takes longer than MaxLatency.
Tick ==
  /\ now < MaxTime
  /\ \A r \in DOMAIN req : now - req[r].at < MaxLatency
  /\ now' = now + 1
  /\ UNCHANGED <<rows, store, access, req, history>>

\* Mutant of Restart: the blacklist is kept in the process.
RestartLosesBlacklist ==
  /\ req' = EmptyStore
  /\ revoked' = EmptyStore
  /\ UNCHANGED <<now, rows, authCodes, refreshTokens, lastActive, access, history>>

\* The process restarts: requests in flight are lost, and with the
\* in-memory store everything in it.  Signing keys are on disk, so the JWTs
\* stay valid.
Restart ==
  /\ req' = EmptyStore
  /\ IF Persistent
       THEN UNCHANGED store
       ELSE /\ authCodes' = EmptyStore /\ refreshTokens' = EmptyStore
            /\ revoked' = EmptyStore /\ lastActive' = EmptyStore
  /\ UNCHANGED <<now, rows, access, history>>

Next ==
  \/ \E u \in Users, c \in Clients, k \in Codes, uri \in Redirects,
        scope \in Scopes, challenge \in Verifiers \cup {None},
        method \in {"S256", "plain"}, consent \in BOOLEAN :
       Authorize(u, c, k, uri, scope, challenge, method, consent)
  \/ \E r \in Requests, c \in Clients, who \in Clients \cup {None},
        k \in Codes, uri \in Redirects, v \in Verifiers \cup {None} :
       CodeGet(r, c, who, k, uri, v)
  \/ \E r \in Requests, c \in Clients, k \in Refreshes : RefreshLoad(r, c, k)
  \/ \E r \in Requests, k \in Refreshes : SelfRefreshLoad(r, k)
  \/ \E r \in Requests : DeleteCredential(r)
  \/ \E r \in Requests : LookupUser(r)
  \/ \E r \in Requests : CheckIdle(r)
  \/ \E r \in Requests, j \in Jtis, k \in Refreshes : Issue(r, j, k)
  \/ \E r \in Requests : IssueFails(r)
  \/ \E u \in Users, j \in Jtis, k \in Refreshes, scope \in Scopes :
       Login(u, j, k, scope)
  \/ \E j \in Jtis : TouchActivity(j)
  \/ \E k \in Refreshes : RevokeRefresh(k)
  \/ \E j \in Jtis : RevokeAccess(j)
  \/ \E u \in Users : DeleteUser(u)
  \/ \E c \in Clients : ToggleClient(c)
  \/ \E c \in Clients, us \in SUBSET Users : SetGrants(c, us)
  \/ Gc
  \/ Tick
  \/ Restart

Spec == Init /\ [][Next]_vars

-----------------------------------------------------------------------------
(* Properties *)

\* Every variable has the type its code counterpart has.
TypeOK ==
  /\ now \in Nat
  /\ users \subseteq Users /\ active \subseteq Clients
  /\ allowed \subseteq Users \X Clients /\ consents \subseteq Users \X Clients
  /\ DOMAIN authCodes \subseteq DOMAIN authorized
  /\ DOMAIN authorized \subseteq Codes
  /\ DOMAIN refreshTokens \subseteq DOMAIN parent
  /\ DOMAIN parent \subseteq Refreshes
  /\ DOMAIN access \subseteq Jtis /\ DOMAIN revoked \subseteq DOMAIN access
  /\ DOMAIN lastActive \subseteq Users
  /\ DOMAIN req \subseteq Requests
  /\ seen \in [Users -> Nat]
  /\ revokedEver \subseteq DOMAIN access
  /\ \A k \in DOMAIN authorized : GrantOf(authorized[k].data) \in Grants
  /\ \A k \in DOMAIN authCodes :
       authCodes[k].val = authorized[k].data /\ authCodes[k].exp \in Nat
  /\ \A k \in DOMAIN refreshTokens :
       refreshTokens[k].val \in Grants /\ refreshTokens[k].exp \in Nat
  /\ \A j \in DOMAIN revoked : revoked[j].exp \in Nat
  /\ \A u \in DOMAIN lastActive :
       lastActive[u].val \in Nat /\ lastActive[u].exp \in Nat
  /\ \A j \in DOMAIN access :
       /\ access[j].user \in Users /\ access[j].scope \in Scopes
       /\ access[j].client \in Clients \cup {Admin}
       /\ access[j].via \in Origins
       /\ access[j].ttl \in Nat /\ access[j].exp \in Nat
  /\ \A r \in DOMAIN req :
       /\ req[r] \in [ep : {"code", "refresh", "self"},
                      pc : {"delete", "user", "idle", "issue"},
                      via : Origins, grant : Grants,
                      verdict : {"ok", "reject"}, at : Nat, idle : Int]
       /\ req[r].ep # "self" => req[r].grant.client \in Clients

\* What the user agreed to, code by code.
AuthorizedGrants == {GrantOf(authorized[k].data) : k \in DOMAIN authorized}

\* Every access token of a relying party carries a user, client and scope
\* that this user authorised at /oauth/authorize, through any number of
\* refreshes, at either refresh endpoint, and whoever presents the code.
TokensMatchAuthorization ==
  \A j \in DOMAIN access :
    access[j].client # Admin => GrantOf(access[j]) \in AuthorizedGrants

\* A token obtained with a code went to the client the code was made for,
\* against the redirect URI and the PKCE challenge given at /oauth/authorize
\* (handleAuthCodeGrant).
RedemptionMatchesCode ==
  \A j \in DOMAIN access :
    access[j].via.key \in Codes =>
      LET via == access[j].via
          data == authorized[via.key].data
      IN  /\ data.client = access[j].client
          /\ access[j].client \notin Public => via.by = access[j].client
          /\ via.uri = data.uri
          /\ data.challenge # None => /\ data.method = "S256"
                                      /\ via.verifier = data.challenge

\* Nobody holds a token for an application that was never granted to them
\* (AccessPolicy "assigned") or to anyone ("none").
PolicyRespected ==
  \A j \in DOMAIN access :
    access[j].client \notin Builtin =>
      /\ access[j].client \notin NoOne
      /\ access[j].client \in Assigned =>
           \E k \in DOMAIN authorized :
             /\ authorized[k].data.user = access[j].user
             /\ authorized[k].data.client = access[j].client
             /\ authorized[k].granted

\* A revoked access token whose own lifetime is at most the global access
\* TTL is never accepted again: its blacklist entry outlives it.
RevokedStaysInvalid ==
  Persistent =>
    \A j \in revokedEver : access[j].ttl <= AccessTTL => ~ValidAccessToken(j)

\* RevokeJTI's comment: the blacklist entry lasts as long as the token can.
\* It does not for tokens whose lifetime exceeds the global access TTL.
BlacklistOutlivesToken ==
  Persistent => \A j \in revokedEver : ~ValidAccessToken(j)

\* The activity record outlives every refresh token of the admin console.
ActivityOutlivesRefresh == ActivityTTL >= RefreshTTL + IdleTimeout + 2 * MaxLatency

\* /auth/refresh renews an admin console login only for a user who was active
\* within the idle timeout when it checked: the activity record cannot have
\* expired before the refresh token, so "no record" never means "idle".
IdleNeverRenewed ==
  ActivityOutlivesRefresh /\ IdleTimeout > 0 =>
    \A r \in DOMAIN req :
      /\ req[r].ep = "self" /\ req[r].pc = "issue"
      /\ req[r].grant.client = Admin
      => req[r].idle <= IdleTimeout

\* The idle logout as its comment states it, for every setting of the TTLs.
IdleAlwaysRefused ==
  IdleTimeout > 0 =>
    \A r \in DOMAIN req :
      /\ req[r].ep = "self" /\ req[r].pc = "issue"
      /\ req[r].grant.client = Admin
      => req[r].idle <= IdleTimeout

\* The rotation comment in handleRefreshTokenGrant: an old token exchanged
\* concurrently leaves the user without refresh tokens, never with two.
ConcurrentExchangeRefused ==
  \A k1, k2 \in DOMAIN parent :
    k1 # k2 /\ parent[k1] \in Refreshes /\ parent[k1] = parent[k2] =>
      ~(Live(refreshTokens, k1, now) /\ Live(refreshTokens, k2, now)
          /\ refreshTokens[k1].val.client \in Clients)

-----------------------------------------------------------------------------
(* Codes and refresh tokens as one-time credentials *)

Phase(k) ==
  IF k \notin DOMAIN authorized \cup DOMAIN parent THEN "fresh"
  ELSE IF Live(authCodes, k, now) \/ Live(refreshTokens, k, now) THEN "live"
  ELSE "dead"

OneTime == INSTANCE OneTimeGrant WITH
  Key <- Credentials,
  Holder <- Requests,
  phase <- [k \in Credentials |-> Phase(k)],
  held <- {<<r, req[r].via.key>> : r \in DOMAIN req},
  honoured <- {access[j].via.key : j \in DOMAIN access} \ {None}

\* Codes and refresh tokens are one-time credentials: a request that starts
\* after another was answered, or failed, with the same credential gets
\* nothing.
OneTimeCredentials == OneTime!GrantSpec
=============================================================================
