---------------------------- MODULE Applications ----------------------------
(***************************************************************************)
(* Applications: the rows administrators edit, who is granted access to    *)
(* them, what the portal shows and what the gate in front of every         *)
(* protocol (OAuth, CAS, SAML) admits.  (client_service.go,                *)
(* app_handler.go, app_grant_repo.go, portal_handler.go and the gates of   *)
(* the protocol handlers.)                                                 *)
(*                                                                         *)
(* Create, Update and Delete write the row, the grants and the monitoring  *)
(* of an application in statements of their own.                           *)
(***************************************************************************)
EXTENDS Organisation, MonitorStore

CONSTANTS
  Builtin,       \* is_builtin
  AdminConsole,  \* the client "sso-admin", which the portal leaves out
  Staff,         \* users with is_staff
  StartRows,     \* Clients -> row at the start, or None
  StartGrants,   \* Clients -> principals granted at the start
  CreateInputs,
  UpdateInputs

VARIABLES
  clients,  \* Clients -> row of sso_oauth2_client, None before and Gone after
  grants,   \* Clients -> principals in sso_app_grant
  minted,   \* secrets made so far
  want      \* what the last request on the application answered

appVars == <<clients, grants, minted, want>>

Policies == {"all", "assigned", "none"}
Principals == ({"user"} \X Users) \cup ({"group"} \X Groups) \cup ({"org"} \X Depts)

Rows ==
  [active : BOOLEAN, policy : Policies, visible : BOOLEAN, sp : BOOLEAN,
   secret : Nat, login : Addresses, health : Addresses]

\* What Create and Update are sent; Nil: the field is left out.
CreateSent ==
  [policy : Policies \cup {Nil}, visible : BOOLEAN, sp : BOOLEAN, login : Addresses,
   health : Addresses, grants : SUBSET Principals, bad : BOOLEAN]
UpdateSent ==
  [active : BOOLEAN \cup {Nil}, policy : Policies \cup {Nil},
   visible : BOOLEAN \cup {Nil}, sp : BOOLEAN \cup {Nil},
   login : Addresses \cup {Nil}, health : Addresses \cup {Nil},
   grants : (SUBSET Principals) \cup {Nil}, bad : BOOLEAN]

App(c) == <<"app", c>>

ASSUME AppAssumption ==
  /\ None # Gone /\ {None, Gone} \cap Rows = {} /\ None \notin Monitors \cup Statuses
  /\ \A c \in Clients : App(c) # Nil
  /\ StartRows \in [Clients -> Rows \cup {None}]
  /\ StartGrants \in [Clients -> SUBSET Principals]
  /\ \A c \in Clients : StartRows[c] = None => StartGrants[c] = {}
  /\ CreateInputs \subseteq CreateSent /\ UpdateInputs \subseteq UpdateSent

Registered(c) == clients[c] \notin {None, Gone}

AppInit ==
  /\ clients = StartRows /\ grants = StartGrants
  /\ minted = 1
  /\ want = [c \in Clients |-> [row |-> StartRows[c], grants |-> StartGrants[c]]]
  /\ ongoing = [c \in Clients |-> {}]
  /\ probed = [c \in Clients |-> {}] /\ worst = [c \in Clients |-> None]
  /\ mon = [c \in Clients |-> IF StartRows[c] = None THEN None
                              ELSE NewRow(NewMonitor(StartRows[c].health))]

-----------------------------------------------------------------------------
(* Who may enter, and what the portal shows *)

\* UserAllowed: by name, by group, by department; the group and department
\* tables are not consulted.
UserAllowed(u, c) ==
  \/ <<"user", u>> \in grants[c]
  \/ \E m \in member : m[2] = u /\ <<"group", m[1]>> \in grants[c]
  \/ <<"org", home[u]>> \in grants[c]

\* The gate of /oauth/authorize, /cas/login and /saml/sso.
Gate(u, c) ==
  /\ Registered(c) /\ clients[c].active
  /\ c \in Builtin \/ /\ clients[c].sp
                      /\ clients[c].policy # "none"
                      /\ clients[c].policy = "assigned" => UserAllowed(u, c)

\* Mutant of AllowedClientIDs: departments are left out.
AllowedWithoutOrg(u) ==
  {c \in Clients : grants[c] \cap ({<<"user", u>>} \cup
                     {<<"group", g>> : g \in {x \in Groups : <<x, u>> \in member}}) # {}}

\* The three queries of AllowedClientIDs, united.
AllowedClientIDs(u) ==
  LET mine == {<<"user", u>>, <<"org", home[u]>>} \cup
              {<<"group", g>> : g \in {x \in Groups : <<x, u>> \in member}}
  IN  {c \in Clients : grants[c] \cap mine # {}}

\* PortalHandler.Apps
Shown(u, c) ==
  /\ Registered(c) /\ clients[c].active /\ c # AdminConsole
  /\ \/ c \in Builtin \/ u \in Staff
     \/ /\ clients[c].visible
        /\ clients[c].policy # "none"
        /\ clients[c].policy = "assigned" => c \in AllowedClientIDs(u)

-----------------------------------------------------------------------------
(* Writing the row *)

\* An insert puts the column default TRUE in the place of a FALSE.
Fresh(row) == [row EXCEPT !.active = TRUE, !.visible = TRUE, !.sp = TRUE]

\* gorm's Save: every column, and an insert when the row has gone.
Saved(c, row) ==
  [clients EXCEPT ![c] = IF Registered(c) THEN row ELSE Fresh(row)]

Given(x, old) == IF x = Nil THEN old ELSE x

\* Update: what is sent replaces what was read.  The address that is monitored
\* follows the entry as long as it was the same and none is sent.
Changed(row, in) ==
  [active |-> Given(in.active, row.active),
   policy |-> Given(in.policy, row.policy),
   visible |-> Given(in.visible, row.visible),
   sp |-> Given(in.sp, row.sp),
   secret |-> row.secret,
   login |-> Given(in.login, row.login),
   health |-> Given(in.health, IF in.login # Nil /\ row.health = row.login
                               THEN in.login ELSE row.health)]

NoChange == [active |-> Nil, policy |-> Nil, visible |-> Nil, sp |-> Nil,
             login |-> Nil, health |-> Nil, grants |-> Nil, bad |-> FALSE]

\* Request q is through with its application: a batch goes on to the next.
Through(q) ==
  IF req[q].todo = {} THEN End(q)
  ELSE /\ req' = [req EXCEPT ![q] = [@ EXCEPT !.pc = "next", !.key = Nil, !.row = Nil]]
       /\ UNCHANGED <<started, raced>>

Answer(c, row, gs) == want' = [want EXCEPT ![c] = [row |-> row, grants |-> gs]]

-----------------------------------------------------------------------------
(* Create *)

CreateApp(q, c, in) ==
  LET row == [active |-> TRUE, policy |-> Given(in.policy, "all"),
              visible |-> in.visible, sp |-> in.sp, secret |-> minted,
              login |-> in.login,
              health |-> IF in.health = "" THEN in.login ELSE in.health]
  IN  /\ clients[c] = None /\ c \notin Builtin
      /\ Begin(q, "create", "grant", App(c), in, Fresh(row), {})
      /\ clients' = [clients EXCEPT ![c] = Fresh(row)]
      /\ minted' = minted + 1
      /\ UNCHANGED <<grants, want, monVars, orgVars>>

\* Grants count with the policy "assigned" only; one that cannot be parsed
\* ends the request, with the row there and no monitoring.
CreateGrants(q) ==
  LET c == On(q)
      in == req[q].in
      given == req[q].row.policy = "assigned" /\ in.grants # {}
  IN  /\ At(q, "create", "grant")
      /\ IF given /\ in.bad
         THEN End(q) /\ UNCHANGED grants /\ Answer(c, req[q].row, {})
         ELSE /\ grants' = [grants EXCEPT ![c] = IF given THEN in.grants ELSE {}]
              /\ Goto(q, "monitor") /\ UNCHANGED want
      /\ UNCHANGED <<clients, minted, monVars, orgVars>>

\* Upsert: a First, and what it leads to.
CreateFirst(q) ==
  /\ At(q, "create", "monitor")
  /\ req' = [req EXCEPT ![q].pc = "upsert", ![q].seen = mon[On(q)]]
  /\ UNCHANGED <<started, raced, appVars, monVars, orgVars>>

CreateMonitor(q) ==
  LET c == On(q)
      row == req[q].row
  IN  /\ At(q, "create", "upsert")
      /\ mon' = Upserted(c, req[q].seen, NewMonitor(row.health))
      /\ Answer(c, row, IF row.policy = "assigned" THEN req[q].in.grants ELSE {})
      /\ End(q)
      /\ UNCHANGED <<clients, grants, minted, ongoing, probed, worst, orgVars>>

-----------------------------------------------------------------------------
(* Update, alone, in a batch and for ToggleStatus *)

\* GetByID and the changes, with the ids a batch has left.
Load(q, c, in, todo) ==
  /\ Registered(c)
  /\ Take(q, "update", "save", App(c), in, Changed(clients[c], in), todo)

Update(q, c, in) ==
  /\ req[q].pc = "idle" /\ started < MaxRequests
  /\ started' = started + 1
  /\ Load(q, c, in, {})
  /\ UNCHANGED <<appVars, monVars, orgVars>>

\* BatchUpdate and BatchDelete take the ids in the order they are sent, and
\* skip those that fail; ids is read one by one in NextOfBatch.
Batch(q, op, in) ==
  /\ req[q].pc = "idle" /\ started < MaxRequests
  /\ started' = started + 1
  /\ req' = [req EXCEPT ![q] = [Idle EXCEPT !.op = op, !.pc = "next", !.in = in,
                                            !.todo = Clients]]
  /\ UNCHANGED <<raced, appVars, monVars, orgVars>>

BatchUpdate(q, in) ==
  /\ in.policy = Nil /\ in.sp = Nil /\ in.login = Nil /\ in.health = Nil
  /\ in.grants = Nil /\ in # NoChange
  /\ Batch(q, "update", in)

BatchDelete(q) == Batch(q, "delete", Nil)

SkipOfBatch(q, c) ==
  /\ req[q].pc = "next" /\ c \in req[q].todo
  /\ ~Registered(c) \/ (req[q].op = "delete" /\ c \in Builtin)
  /\ LET rest == req[q].todo \ {c}
     IN  req' = [req EXCEPT ![q] = IF rest = {} THEN Idle ELSE [@ EXCEPT !.todo = rest]]
  /\ UNCHANGED <<started, raced, appVars, monVars, orgVars>>

NextOfBatch(q, c) ==
  /\ req[q].pc = "next" /\ c \in req[q].todo
  /\ \/ req[q].op = "update" /\ Load(q, c, req[q].in, req[q].todo \ {c})
     \/ /\ req[q].op = "delete" /\ Registered(c) /\ c \notin Builtin
        /\ Take(q, "delete", "monitor", App(c), Nil, Nil, req[q].todo \ {c})
  /\ UNCHANGED <<started, appVars, monVars, orgVars>>

\* ToggleStatus reads the flag, and Update reads the row again.
ToggleStatus(q, c) ==
  /\ Registered(c)
  /\ Begin(q, "toggle", "reload", App(c),
           [NoChange EXCEPT !.active = ~clients[c].active], Nil, {})
  /\ UNCHANGED <<appVars, monVars, orgVars>>

Reload(q) ==
  /\ At(q, "toggle", "reload")
  /\ IF Registered(On(q)) THEN Load(q, On(q), req[q].in, {}) /\ UNCHANGED started
     ELSE End(q)
  /\ UNCHANGED <<appVars, monVars, orgVars>>

UpdateSave(q) ==
  /\ At(q, "update", "save")
  /\ clients' = Saved(On(q), req[q].row)
  /\ Goto(q, "monitor")
  /\ UNCHANGED <<grants, minted, want, monVars, orgVars>>

UpdateMonitor(q) ==
  /\ At(q, "update", "monitor")
  /\ UpdateHealthURL(On(q), req[q].row.health)
  /\ Goto(q, "grants")
  /\ UNCHANGED <<appVars, orgVars>>

\* Mutant of NewGrants: an open policy leaves the grants in the table.
NewGrantsKept(old, policy, in) ==
  IF policy = "assigned" /\ in.grants # Nil /\ ~in.bad THEN in.grants ELSE old

\* The grants after Update: none unless the policy is "assigned"; those sent,
\* if some are and all can be parsed; the old ones otherwise.
NewGrants(old, policy, in) ==
  IF policy # "assigned" THEN {}
  ELSE IF in.grants # Nil /\ ~in.bad THEN in.grants ELSE old

UpdateGrants(q) ==
  LET c == On(q)
      row == req[q].row
      in == req[q].in
  IN  /\ At(q, "update", "grants")
      /\ grants' = [grants EXCEPT ![c] = NewGrants(@, row.policy, in)]
      /\ Answer(c, row, IF row.policy # "assigned" THEN {}
                        ELSE IF in.grants = Nil \/ in.bad THEN want[c].grants
                        ELSE in.grants)
      /\ Through(q)
      /\ UNCHANGED <<clients, minted, monVars, orgVars>>

\* RotateSecret hashes for a while between its read and its Save.
RotateSecret(q, c) ==
  /\ Registered(c)
  /\ Begin(q, "rotate", "save", App(c), Nil, [clients[c] EXCEPT !.secret = minted], {})
  /\ minted' = minted + 1
  /\ UNCHANGED <<clients, grants, want, monVars, orgVars>>

RotateSave(q) ==
  LET c == On(q)
  IN  /\ At(q, "rotate", "save")
      /\ clients' = Saved(c, req[q].row)
      /\ Answer(c, req[q].row, want[c].grants)
      /\ End(q)
      /\ UNCHANGED <<grants, minted, monVars, orgVars>>

-----------------------------------------------------------------------------
(* Delete *)

Delete(q, c) ==
  /\ Registered(c) /\ c \notin Builtin
  /\ Begin(q, "delete", "monitor", App(c), Nil, Nil, {})
  /\ UNCHANGED <<appVars, monVars, orgVars>>

\* Mutant of DeleteMonitor: the monitoring is left.
DeleteMonitorNot(q) ==
  /\ At(q, "delete", "monitor")
  /\ Goto(q, "grants")
  /\ UNCHANGED <<appVars, monVars, orgVars>>

DeleteMonitor(q) ==
  /\ At(q, "delete", "monitor")
  /\ DeleteByClientID(On(q))
  /\ Goto(q, "grants")
  /\ UNCHANGED <<appVars, orgVars>>

DeleteGrants(q) ==
  /\ At(q, "delete", "grants")
  /\ grants' = [grants EXCEPT ![On(q)] = {}]
  /\ Goto(q, "row")
  /\ UNCHANGED <<clients, minted, want, monVars, orgVars>>

DeleteRow(q) ==
  /\ At(q, "delete", "row")
  /\ clients' = [clients EXCEPT ![On(q)] = Gone]
  /\ Answer(On(q), Gone, {})
  /\ Through(q)
  /\ UNCHANGED <<grants, minted, monVars, orgVars>>

-----------------------------------------------------------------------------
AppRequest(q) ==
  \/ \E c \in Clients :
       \/ \E in \in CreateInputs : CreateApp(q, c, in)
       \/ \E in \in UpdateInputs : Update(q, c, in)
       \/ ToggleStatus(q, c) \/ RotateSecret(q, c) \/ Delete(q, c)
       \/ NextOfBatch(q, c) \/ SkipOfBatch(q, c)
  \/ \E in \in UpdateInputs : BatchUpdate(q, in)
  \/ BatchDelete(q)
  \/ CreateGrants(q) \/ CreateFirst(q) \/ CreateMonitor(q) \/ Reload(q)
  \/ UpdateSave(q) \/ UpdateMonitor(q) \/ UpdateGrants(q)
  \/ RotateSave(q)
  \/ DeleteMonitor(q) \/ DeleteGrants(q) \/ DeleteRow(q)

AppNext ==
  \/ \E q \in Requests : AppRequest(q)
  \/ OrgNext /\ UNCHANGED <<appVars, monVars>>

-----------------------------------------------------------------------------
AppTypeOK ==
  /\ OrgTypeOK /\ MonitorTypeOK
  /\ clients \in [Clients -> Rows \cup {None, Gone}]
  /\ grants \in [Clients -> SUBSET Principals]
  /\ minted \in Nat

Settled(c) == App(c) \notin raced /\ ~Busy(App(c))

\* Once the requests on an application are over, and none overlapped another,
\* its row, its secret, its grants and the address that is monitored are what
\* the last of them answered: a policy or a grant taken away is gone for
\* good, whatever was switched, rotated or batched since.
DecisionHolds ==
  \A c \in Clients : Settled(c) =>
    /\ clients[c] = want[c].row /\ grants[c] = want[c].grants
    /\ Registered(c) /\ mon[c] # None => mon[c].url = clients[c].health

\* An application deleted without a race leaves neither a grant, nor a
\* monitor, nor anybody who may enter.
GoneLeavesNothing ==
  \A c \in Clients : Settled(c) /\ clients[c] = Gone =>
    grants[c] = {} /\ mon[c] = None /\ ongoing[c] = {}

\* The portal and the gates read the grants with different queries, and agree:
\* who is not staff sees just the applications that would let them in, among
\* the visible ones that accept logins started by the application.
PortalMatchesGate ==
  \A u \in Users \ Staff, c \in Clients \ (Builtin \cup {AdminConsole}) :
    Registered(c) /\ clients[c].visible /\ clients[c].sp =>
      (Shown(u, c) <=> Gate(u, c))

\* What the portal's comment says of visible_in_portal: an application that
\* was asked to be hidden, and has not been edited since, is not shown.
HiddenIsHidden ==
  \A q \in Requests, u \in Users \ Staff :
    req[q].op = "create" /\ ~req[q].in.visible => ~Shown(u, On(q))
=============================================================================
