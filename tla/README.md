# OneAuth in TLA+

OneAuth is a single sign-on server: `sso-server/` (Go) issues OAuth2/OIDC
tokens, CAS tickets and SAML assertions for registered applications, keeps the
users, departments and groups they describe, synchronises them from a corporate
directory, and protects its own login; `sso-admin/` is the browser console.
This directory models the parts whose correctness depends on the order in which
things happen, checks them with TLC on small instances and proves the central
properties with TLAPS for instances of any size.

`PROJECT.json` lists the components, the runs, the map from every definition to
the lines it stands for, the finding, the hazards and the theorems.

## 1. Inventory

| Component | State | Operations | What makes it correct |
|---|---|---|---|
| Key/value store (`oauth/store.go`) | entries with expiry, in Redis or in the process | Set, Get, Del, Incr, collection every minute | an expired entry is never returned; each call is atomic, two calls are not |
| Tokens (`oauth/token.go`, `authcode.go`, `oauth_handler.go`, `auth_handler.go`) | codes, refresh tokens, blacklist, activity records; JWTs live with the clients | authorize, code and refresh grants, `/auth/refresh`, revoke | a token says only what was authorised; codes and refresh tokens are used once; revoked stays revoked; idle users are not renewed |
| Login (`auth_handler.go`, `user_service.go`, `ldap_service.go`) | user rows, failure counters, IP blacklist | login, lock, unlock, reset, delete, ban | failures lead to a lock or a ban whatever races; locks and bans end |
| Background jobs (`monitor/user_lock_scheduler.go`, purge in `cmd/server/main.go`) | none of their own | sweep of inactive users, purge of bans | every inactive account is reached |
| SSO sessions (`session/session.go`, `session_helpers.go`, `cas_handler.go`, `saml_handler.go`, `session_handler.go`) | session entries, an in-process index, two cookies per browser, CAS tickets | login, sync, refresh, three kinds of logout, recovery from an access token, CAS and SAML sign-on, list, kick | a browser is only known as who authenticated there; logout ends the session; the list shows every live session |
| WeCom login (`wecom_handler.go`, `wecom_service.go`) | user rows, bindings, scan states | scan, find or create, backfill, bind, unbind | a linked member comes home, an unlinked account is out of reach, one account per member |
| One-time tickets (`captcha.go`, reset links in `auth_handler.go`, scan states, CAS tickets) | store entries | issue, read, delete, answer | nothing is honoured after it was used |
| Directory sync (`service/directory_sync_service.go`, `directory_sync_scheduler.go`) | remote snapshot buffer, bindings, users, sync configuration | pull, resolve, edit, apply, disable missing, nightly run | a bound user keeps its account; after a sync the accounts agree with the directory; nobody is lost to a name clash; the night's sync starts |
| Account recovery (`account_recovery_handler.go`) | rules, reconciliation records | reconcile, batch clean-up, disable, delete | the records are one snapshot; a batch takes away what it dealt with |
| Login rules (`loginrule_repo.go`, `login_rule_handler.go`) | rules by priority and age | CRUD, toggle, evaluate | the first rule in force that matches decides |
| Applications, grants, portal (`client_service.go`, `app_grant_repo.go`, `portal_handler.go`) | client rows, grants, monitors | create, update, batches, toggle, rotate, delete | what an administrator was answered is what gates and portal go by |
| Departments, groups (`misc_handler.go`, `usergroup_handler.go`) | tree, memberships | CRUD, move, set members | the departments stay a forest |
| Monitoring (`monitor/scheduler.go`, `monitor_repo.go`, `monitor_handler.go`) | monitors, probes, daily rows, incidents, the interval | probe rounds, probes by hand, edits, maintenance, interval | what is down has an incident, the day shows its worst probe, everything enabled is probed again |
| Logs, audit, site settings, mail, keys, gateway | rows, files | append, query, render | no behaviour modelled here depends on them |

How they interact: all components share one store (by key prefix) and one
database. HTTP handlers run concurrently, without locks or transactions around
their read-modify-write sequences; rows are written back whole (`gorm.Save`,
which inserts when the row has gone, and an insert replaces FALSE by the column
default TRUE). Background goroutines write the same rows. The hard behaviours are
therefore interleavings of requests between a read and the write that depends on
it, entries that expire between two calls, restarts of a server whose store is in
memory, several statements of which one fails, and things that must happen again
and again: locks that only end when somebody knocks, probes, the nightly sync.

## 2. Modules

`KVStore` is the store as a value: a function from keys to `[val, exp]`. A Go
`time.Time` zero is `exp = 0`, "never". Each key prefix is a store of its own in
the models, because no operation spans two prefixes.

`OneTimeGrant` is the abstract promise of a one-time credential: a request takes
hold of it only while it is live, it is honoured only after it is dead, and a
dead one never comes back. Requests that overlap may both hold it; that is what
the code really provides. `OAuthTokens`, `SSOSessions` and `Tickets` implement it.

`OAuthTokens` models the token endpoints. A request is a process with a program
counter: `Get`, `Delete`, the user lookup, the idle check and the issue are
separate steps, because the code makes separate calls. `authCodes`,
`refreshTokens`, `revoked`, `lastActive` are the four prefixes; `access` holds
the JWTs clients received (the server keeps none); `users`, `active`, `allowed`,
`consents` are the rows the handlers read. History variables (`authorized`,
`parent`, `seen`, `revokedEver`) record what happened and influence nothing.
`Authorize` is one step: its reads race only with administrative changes, which
the model allows before and after it. `Restart` drops the requests in flight and,
without Redis, the store; JWTs stay valid because the signing keys are on disk.

`LoginGuard` models a login from the blacklist check to the clearing of the
counters, the administrator's operations, the sweep and the purge. Every read of
a row and every `Save` is a step, and a request carries the copy it read, so
stale writes happen as they do in the server, including `gorm.Save` inserting a
row that was deleted in between, active again (`Stored`). Times are kept as ticks
left; `Tick` decrements them everywhere, in the copies too. Captcha tickets are a
Boolean (their life is in `Tickets`), the login rules a free choice (they are in
`LoginRules`).

`SSOSessions` models what a browser is known as. `sess` and `ticket` are two
prefixes of the store, `index` is the map in `session.Manager`, `jar` and `spa`
the cookies and the tokens in a browser. A request carries the cookies of the
moment it was sent and changes them when its answer arrives (`Reply`) or does not
(`LoseReply`), so the requests of one browser overlap. `FindSession`, `Recover`,
`Create`, `AddToIndex`, `RemoveFromIndex`, `DeleteSession`, the ticket steps and
the three phases of `ListAll` are the separate store calls and critical sections
of the code; CAS and SAML share the session steps and have their own gates.

`WeComLogin` models a scan from the state token to the session: `ConsumeState`,
`ResolveCode`, the three lookups of `FindOrCreateUser` in their order, the
creation with its free name, the binding that is written afterwards, `Backfill`,
a departed member, and `BindWeCom` with its four statements. It shares the user
rows with `Tickets`, which adds the reset link (`ForgotPassword` to
`ResetPassword`) and the two tokens of the slider captcha. A new account gets a
key no account had (`Unseen`: random UUIDs). Tokens may expire at any time (`Expire`), and the process may die between any two steps (`Crash`).

`DirectorySync` models full syncs, previews, pulls and imports over the tables
`users`, `bind` and `buffer`. The database is SQLite with one connection, so a
transaction is exclusive: `storeSnapshot` and each row of an import are one step,
and while the long transaction of a full sync is open (`tx`) nobody else moves; a
crash or an error in it restores `saved`. Everything between two transactions interleaves:
another job, an edit or link of a row (`edit` is its read, `EditSave` its write),
clearing the buffer, and whole-row saves of accounts (`writer`). A remote user is
a state (absent, active, inactive, departed), a source name and an address; where
`First` has a choice the model takes any. `made`, `failed` and `clean` (nobody
else has replaced the job's buffer) are history. With Postgres transactions would
overlap more; that is not modelled.

`NightlySync` models the goroutine that waits for 2:00, the two clock reads of
`time.Until(next2AM())` as two steps (`Date`, `Until`), the naps of a minute, the
ticker of 24 hours and the switch.

`AccountRecovery` models the rules, a reconciliation (read the users, run the
fetch script, compare, delete the old records, insert the new ones) and the
batches that run a script per record. What a script prints and how it ends is a
choice; users and accounts change underneath.

`AdminRequests` holds what requests of administrators have in common: a slot, the
key it works on, and `raced`, the keys on which two requests overlapped or one
died half-way. `Organisation` (departments, groups), `LoginRules` and
`Applications` extend it with one action per statement of their handlers;
`MonitorStore` has the statements on the monitoring tables. `AccessControl`
composes them. `AppMonitor` composes `Applications` with the scheduler of
monitoring: a probe is a goroutine that works from the row it was given, the loop
of `Start` is `RunOnce`, `RoundOver`, `Tick`, `NewTicker`, and `SetInterval` is
the send, drain and send on a channel of capacity one. `mixed` has the
applications on which a probe overlapped another or a save of the configuration
(a creation saves the row it saw, status and all), and `"interval"` once two saves of
the interval overlapped.

The `MC` modules instantiate these for TLC: constants, symmetry and the
constraints that keep still what a run does not ask about.
The eight modules `XProofs` hold the theorems about `X` (section 4).

Operators whose comment begins "Mutant of" are broken variants of a definition:
replacing the definition by its mutant makes the named run fail, which shows
that the property depends on that code.

## 3. Runs

| Run | Checks | Bounds, and why they suffice |
|---|---|---|
| `oauth_code` | `RedemptionMatchesCode`, `PolicyRespected` | a public and a confidential client, one code, two requests, two redirect URIs, one PKCE verifier or none, methods S256 and plain; one administrative change at a time. Mixing up clients, URIs or verifiers needs two of each |
| `oauth_refresh` | `TokensMatchAuthorization`, `OneTimeCredentials` (refinement of `OneTimeGrant`) | two scopes, one code, three refresh tokens and JWTs: two overlapping exchanges and a later one; the client's refresh lifetime is shorter than the default |
| `oauth_console` | `TypeOK`, `IdleNeverRenewed`, `RevokedStaysInvalid` | seven ticks: longer than refresh lifetime plus activity lifetime, so every expiry happens; restarts on a persistent store |
| `login_guard` | `TypeOK`, `FailuresBounded` | two requests, threshold 1, LDAP that accepts one password, administrators who disable and reset, deletion, sweep and restarts |
| `login_live` | `IPFailuresBounded`, `TempLockLifts`, `InactiveGetsLocked`, `AutoBanLifts` | two requests, thresholds 2, locks of one tick and bans of two, under `FairSpec` |
| `sync_jobs` | `TypeOK`, `NoNameClash`, `StableIdentity`, `SyncConverges` | two remote users whose names normalise to one, one with an address; two jobs that overlap in every way; two acts of administrators, stale saves, errors or crashes. Four accounts are enough that ids never run out |
| `sso_sessions` | `TypeOK`, `NoImpersonation`, `Listed`, `LogoutSticks`, `TicketOnce` (refinement of `OneTimeGrant`) | two browsers, users, sessions and requests, a CAS and a SAML application, one ticket; three requests of browsers, an act of an administrator; a token outlives a session, so recovery happens |
| `recovery` | `OneSnapshot`, `HandledOnly` | two requests at a time, three in all, on an application with two accounts; two edits of rules, one change of a user or an account. `RulePage` 1 makes the page of rules overflow |
| `wecom` | `TypeOK`, `LinkedGoesHome`, `CutStaysOut`, `OneAccountEach`, `TokenOnce` (refinement of `OneTimeGrant`) | two members, one with an address, two accounts and room for two more, two tokens; two requests and one act, crash or departure |
| `access` | `AccessTypeOK`, `DecisionHolds`, `GoneLeavesNothing`, `PortalMatchesGate`, `TreeStaysTree`, `RulesAnswer` | three requests, two at a time, each statement a step, with crashes; three departments, one group, an application with grants, one to be created and a built-in one, two rules over a week of seven slots |
| `monitor` | `OngoingBounded`, `DownHasIncident`, `DayAgrees`, `IntervalAgrees`, `ProbedAgain` | two applications, one whose address cannot be probed, a semaphore of one, a probe by hand, two requests, one restart, two intervals and two savers |
| `nightly` | `NightlySyncRuns`, violated | a day of six ticks, naps of one, a punctual goroutine |

Bounds: `MaxTime` caps the clock of `OAuthTokens`; `Codes`, `Refreshes`, `Jtis`,
`Sids`, `Tickets`, `Tokens` are the supplies of random identifiers, never reused;
`Requests` the number of requests at a time; `MaxBegins`, `MaxActs`, `MaxRequests`,
`MaxJobs`, `MaxRules`, `MaxChanges`, `MaxCrashes` cap the requests, acts, jobs,
edits, changes and restarts of a behaviour; `FewFails` caps the counter of a
deleted account, which nothing locks. `LoginGuard`, `SSOSessions` and
`NightlySync` need no clock bound: their times are relative.

A constraint of a run is named for what it holds still. `OneArea` in `access`: a
behaviour edits the tree, the rules or the applications with the groups, which
never read each other, and after a race there is at most one more request. `Focus`
in `monitor`: a behaviour saves the interval, which reaches the rest through the
loop alone, or has requests and probes by hand; two savers overlap while the
monitored application is under maintenance, and the rounds are empty. `Focus` is part of the next-state
relation and not a constraint, so that `ProbedAgain` is checked on whole behaviours.

Fairness of `LoginGuard` (`FairSpec`): the server runs every request it accepted
(weak fairness of each request's steps), its tickers fire (`Tick`, `Sweep`), and
people keep trying to log in under every name (strong fairness of arrivals: an
attempt can be disabled while all slots are busy or the address is banned). It
leaves out `Restart`: a crash in every request would defeat any promise. Fairness
of `AppMonitor`: weak, of the loop, of each probe (an HTTP request has a timeout)
and of each saver of the interval; strong, of the branch of `select` that takes the
new interval, since Go chooses at random among the ready ones; of no request, edit
or restart. Fairness of
`NightlySync`: the goroutine is scheduled and the clock advances.

Runs of behaviours whose bounds are used up end in a state without successor, and
say `CHECK_DEADLOCK FALSE`; the runs of the token, login and sync modules check
deadlock.

## 4. Proofs

Each module `XProofs` proves theorems of the specification of `X`, for every value
of its constants that meets its `ASSUME`s; TLC evaluates those on the run of `X`.
An invariant that a run checks is seldom inductive. Where it is not, the module
defines a stronger one, and proves that it holds at the start, that every action
keeps it, and that it implies the property. `PROJECT.json` lists the theorems.

`OAuthTokensProofs` (assumptions `SetsAssumption`, `TimeAssumption`):

- `TypeCorrect`: `TypeOK` is inductive.
- `TokensAuthorized`: `TokensMatchAuthorization` is not inductive, because a token
  is issued from a request that got its grant from a credential read earlier. The
  strengthening `GrantInv` says that every refresh token and every request in
  flight carries an authorised grant too.
- `RevocationHolds`: the strengthening ties the expiry of a blacklist entry to the
  expiry of the token: an entry lives at least as long as any token whose lifetime
  is at most `AccessTTL`, or the token has expired already.
- `IdleLogoutHolds`: the argument is about time. An activity record written at
  `seen` lives until `seen + ActivityTTL`; a chain of refreshes can only be renewed
  within `IdleTimeout` of `seen`, each request lasts at most `MaxLatency`, and the
  token it issues lives `RefreshTTL`. So every console refresh token in the store
  expires before `Deadline(u)`, and the record is still there whenever it is
  presented (`IdleCheckExact`). The precondition `ActivityOutlivesRefresh` is what
  the seeded configuration breaks (`IdleAlwaysRefused`, section 5).
- `CodesRedeemedByTheirClient`, `CredentialsImplementOneTimeGrant`: one invariant,
  `CredentialInv`. A request holds a credential that was issued; before it issues
  anything it has deleted the credential (`Spent`), which can then not come back;
  and a code about to be honoured has passed the checks of client, URI and verifier
  (`Redeemed`). `OneTimeGrant` follows step by step: a read is a `Take`, a write, a
  delete or an expiry a `PhaseStep`, an issue an `Honour`.
- `PolicyHolds`: the gate admitted every authorisation when it was made
  (`AuthorizedByPolicy`), and `GrantInv` leads from a token back to one.

`LoginGuardProofs` (assumptions `GuardAssumption`, `LimitsAssumption`):

- `GuardTypeCorrect`: `TypeOK`, which includes that a request about to save holds a
  row of its own user.
- `LockoutHolds`, `IPBanHolds`: a counter is bounded by the threshold and the number
  of requests between the failure that reached it and the deletion of the counter.
  For users this needs that a user who was never deleted has a row at every moment
  (`PresentInv`), so that `LockUntil` cannot fail and leave the counter behind. The
  proofs are about the cardinality of the set of locking (banning) requests,
  whatever the number of requests.

`SSOSessionsProofs` (assumption `SessionAssumption`): five theorems from one
invariant, `SessionInv`. What makes it inductive: a session id that is named
anywhere, in a cookie, in the index, in a listing or in a request, has been drawn
(`NamedIsDrawn`), so `Create` draws one that nobody knows and cannot make a browser
somebody else; which requests reach which point (`Lane`); what a listing under way
has found dead stays dead (`StaleIsDead`), so a prune hides nothing; a browser that
is logged out has no token under way either (`OutCarriesNothing`); a validation
about to answer has deleted its ticket (`TicketsInHand`).

`DirectorySyncProofs` (assumption `SyncAssumption`):

- `IdentityIsStable`: `StableIdentity` as an action property. A step changes a
  binding by applying a user, by a link or by a rollback. `OutcomeBinds` shows that
  applying a user can only rebind it when its account is gone, because the lookup
  chain starts with the binding; the invariant `BindOK` types the bindings before
  and after a rollback.
- `SyncTypeCorrect`, `NamesNeverClash`: `SyncInv`. That no job fails on a unique
  index needs the indexes to hold, in the accounts and in the tables that a rollback
  would restore (`RollbackOK`): the account whose name is kept is then the only one
  that has it. A generated name is free because there are more suffixes than
  accounts (`SyncAssumption`).
- `CleanSyncConverges`: `SyncConverges` as an action property. The invariant `OnCourse`
  says two things of a job. While nobody has replaced its buffer, the buffer has a row
  for each active user of its snapshot. In the transaction, the users already dealt with
  agree with the snapshot (`Through`). Nobody else works meanwhile
  (`WhoseTransaction`). If a later user writes the account of an earlier one, it keeps a
  claim to that account, which is then no longer `Alone`, so the property says nothing
  of it (`ThroughKept`). No write fails, by `NamesNeverClash`. `disableMissingUsers` passes
  over an active user's account, because the only binding that leads to it has a row in
  the buffer (`DisableConverges`).

`AccountRecoveryProofs` (assumption `RecoveryAssumption`): `RecordsAreOneSnapshot`
and `OnlyHandledLeave` from `RecoveryInv`. A reconciliation has a number that no
record has before it writes (`Numbered`), so what it writes cannot be in the list of
a batch that began earlier; one that is between its Clear and its Write, where no
two wrote at once, finds the table as it left it (`LoneWriter`); a record that a
batch is through with and that is still listed was reported (`DoneReported`).

`AccessControlProofs` (assumptions of `AdminRequests`, `Organisation`, `LoginRules`,
`Applications`): `AccessTypeCorrect`, then `DecisionsHold`, `DeletedLeavesNothing`
and `RulesDecideAsAnswered`. For each key that is not in `raced` the invariant
(`AppSound`, `RuleSound`) says that one request at most works on it, and how far it
has taken the rows from what the last answer promised (`Phase`); when none works on
it, the rows are what was promised (`Agreed`). A request on another key leaves it
alone (`Apart`). `RulesDecideAsAnswered` adds that the rules have a first one by
priority and age (`LeastRule`): the number `Earlier` compares orders them as the pair
does (`Lexicographic`). `PortalAgreesWithGate` follows from types: the two queries
differ in form, over grants to users, departments and groups, and in nothing else.
`DepartmentsStayTree` needs no induction over paths, because `Above(f, d)` is defined
as the least set of departments that has `d` and that `f` does not lead out of
(`Upward`). When `d` is saved below `p` and `d` is not in `Above(f, p)`, that set stays
upward, so nothing above `p` changes; and whatever met `d` on its way up meets at most
`Above(f, p)` besides (`MoveMakesNoCycle`). `TreeSound` carries this through a request:
as long as none overlapped another on the tree, what the walk of `Move` found still
holds at its save, and a department that is created is above nobody, since no request
can name it as a parent before (`ParentsIssued`).

`AppMonitorProofs` extends it (assumption `MonitorAssumption` besides):
`FewOngoing`, `DownIsRecorded`, `DayIsTheWorst`, `TickerIsStored` from `MonitorInv`.
Incidents are counted together with the probes that have looked for one in vain
(`FewIncidents`). For an application not in `mixed` there is at most one probe or one
save, and what it carries from its read still agrees with the table (`ProbePhase`,
`SavePhase`); in between, being down without an incident, or a day that is not its
worst, can only be seen at the points `Unmet` names. `IntervalSound` follows the
interval through the lock, the channel and the loop.

`WeComLoginProofs` (assumptions `WeComAssumption`, `RowsAssumption`,
`MailAssumption`) is about `TicketSpec`, which composes `WeComLogin` and `Tickets`:

- `WeComTypeCorrect`, `TokensImplementOneTimeGrant`: `TicketInv` says which fields a
  request has filled in at each point, and that a token in a request's hand is dead
  once the request is past the `Del`.
- `LinksLeadHome`: for a link in `solid` nothing in flight may threaten it: a login
  of its member has been led to the account, and no request moves or cuts it
  (`LinkFits`). That a link becomes solid needs `SoloOK`: the last write of a request
  that was alone meets the binding it wrote and no unique index (`Unique`).
- `UnlinkedStaysOut`: for an account in `cut`, every copy of its row, every binding
  and every request that leads to it belongs to the member who owns its address
  (`CutAt`), since the search by address may link it again, and only that.
- `OneAccountForEach`: for a member not in `shaky` (one request at a time, no link
  cut or moved) the account made for it keeps the userid in `domain_account`, in the
  table and in every copy of the row, so the next scan finds it. It needs that a new
  account gets a key that nothing names (`UnseenOK`).

The proofs changed the models. `Create` of `WeComLogin` reused the key of a deleted
account, which a UUID cannot be: `Unseen` is the fresh key. `MailAssumption` says that no
two members of an enterprise share an address; without it the account of one is found
by the address of the other, and `OneAccountEach` and `CutStaysOut` say something else.
In `AppMonitor` a monitor created with the row that was seen before its first probe
could bring back a status without an incident: `Saving` now counts that request among
those that may overlap a probe. `IntervalAgrees` was inductive only for one saver of
the interval; it is stated for those that do not overlap, and the run has two.

Only model-checked:

- Liveness under fairness, out of the prover's reach: `TempLockLifts`,
  `InactiveGetsLocked`, `AutoBanLifts`, `ProbedAgain`, and the finding on
  `NightlySyncRuns`.

## 5. Finding and observations

**The nightly sync never starts** (`nightly`). `sleepUntilNext2AM` asks `next2AM`
again after every nap (`directory_sync_scheduler.go:91`), and `next2AM` never
returns a time that is not in the future (line 99). At 2:00 the wait turns to the
next day, and `tick` is not reached, although the comments say
"每天凌晨 2:00 触发一次完整同步" (line 10) and "阻塞直到下一个凌晨 2:00" (line 78). In the run
the goroutine is punctual. With `Punctual = FALSE` 2:00 may fall between the two
clock reads, a window of nanoseconds in the program, and only then a sync starts.

The modules also state what other comments say and TLC refutes; no listed run
checks these definitions. Each can be put in the place of the properties of the
run named here, with the constants given.

| Definition | Run, constants | What happens |
|---|---|---|
| `BlacklistOutlivesToken` | `oauth_console`, `SessionTTL = 4`, `AccessTTL = 1`, `ActivityTTL = 8` | a blacklist entry lives for the global access TTL, a console token for the session TTL: revoked, it is accepted again |
| `ConcurrentExchangeRefused` | `oauth_refresh` | two overlapping exchanges of a refresh token both succeed; the comment says the second is refused |
| `IdleAlwaysRefused` | `oauth_console`, `ActivityTTL = 1` | an activity record shorter than the refresh lifetime, as seeded (14 days against 30), lets an idle user through |
| `CaptchaAfterFailures` | `login_guard`, `CaptchaOn = TRUE`, `CaptchaThreshold = 1` | the counter behind the captcha gate is never incremented |
| `AutoUnlockOnlyExpired` | `login_guard`, `AdminOps = {"lock"}`, `LockDuration = 1`, `LdapOn = FALSE` | the lazy unlock writes back a stale row and lifts a lock that was set after it read |
| `PresentKept` | `sync_jobs` | the buffer cleared between the two transactions of a sync (a switch of platform, a reset of departments) disables accounts although the directory has lost nobody |
| `KickedIsOffline` | `sso_sessions` | a session an administrator has ended is recovered from the access token cookie |
| `OrphanHadNoUser` | `recovery`, `MaxChanges = 2` | users are read before the fetch script runs: a user and an account made in between are listed as an orphan |
| `DomainAgrees` | `wecom` | binding a userid to another account leaves `domain_account` with the previous one |
| `HiddenIsHidden` | `access` | an application created hidden is visible: the column default replaces FALSE on insert |
| `NoCycle` | `access` | two overlapping moves, or an update with a `parent_id`, make a cycle, on which the next move's walk does not end |

Seen while modelling, and not covered by a property:

- The login stamp (`user_service.go:390`) and the sweep
  (`user_lock_scheduler.go:107`) save rows read earlier, and can undo a lock, a
  password reset or a deactivation; `LoginGuard` explores it.
- `UpsertAutoBan` (`misc_repo.go:274`) looks for an entry and then creates one: two
  racing bans create two rows. The model keeps one ban per address.
- Directory sync: an account linked to two external ids is judged by whichever
  binding `First` returns (line 2160); a departed record that matches the name of a
  rehired employee disables the account (1639); an update sets `is_active` whatever
  an administrator set (1719).
- `BatchCleanup` counts a script that printed `success: false` as done when it ended
  with code 0; the reconciliation reads at most 10000 users, the check for a second
  rule of an application the first 100 rules.
- The day of a probe is the local date, the row of the day the UTC date; after down,
  degraded, up an incident stays open, because only down to up closes it.
- Grants to a group that was deleted stay; `allow_idp_initiated` is read by nobody.
- With two saves of the interval at once the scheduler may keep the older. The
  monitor of a new application is saved from the row that was looked for before: a
  round that probes in between can leave "down" without an incident.

## 6. Not modelled, and why

JWT signatures, PKCE hashing, bcrypt and XML signatures are taken as perfect.
UserInfo, discovery, JWKS, ID tokens, SAML metadata, logs, statistics and status
pages, mail, GeoIP and the gateway change no state that the models' properties
depend on. Store errors are modelled where the code reacts to them (`IssueFails`),
not where it discards them. Settings are constants, except the probe interval.
Roles and permissions are rows without rules between them. Directory sync leaves
out the departments and groups of the directory, phones, e-mail strategies and
e-mail edits, the flag of profiles edited by hand, and transactions on Postgres.
Account recovery leaves out a rule deleted between the read and the save of its
update, test runs and logs. Sort order, categories, icons and protocol settings of
an application, and the refresh interceptor of the console, are left out: the first
are columns nothing here reads, the second is one client of `/auth/refresh`.

## 7. Plan

1. Core: store, tokens, login guard, directory sync, their first proofs (done).
2. Sessions, one-time tickets as refinements of `OneTimeGrant`, WeCom login, account
   recovery, the nightly scheduler, login rules, organisation, applications and
   monitoring (done, model-checked).
3. Proofs of the safety properties of every module, and of the four refinements of
   `OneTimeGrant` (done, section 4).
4. `TreeStaysTree` and `SyncConverges`, the two safety properties that were left to TLC
   (done, section 4). Every safety property of the runs is proved.
5. The parts that are modelled in part or not at all (section 1).
