-------------------------- MODULE AppMonitorProofs --------------------------
(* Proofs about AppMonitor, for any numbers of applications, of goroutines    *)
(* that probe by hand, of requests and of saves of the interval.              *)
EXTENDS AppMonitor, AccessControlProofs

-----------------------------------------------------------------------------
(* The invariant *)

\* Where a probe is before it has written the status of its application.
Measuring == {"queued", "http", "record", "daily", "status"}

ProbeRows ==
  [pc : {"idle", "open", "create", "close", "resolve"} \cup Measuring,
   on : Clients \cup {Nil}, url : Addresses, prev : Statuses \cup {"no_data", None},
   status : Statuses \cup {None}, day : Statuses \cup {None}, today : BOOLEAN,
   incident : Nat]

ProbeOK(t) ==
  LET p == probe[t]
  IN  /\ p.pc = "idle" => p = NoProbe
      /\ p.pc # "idle" => p.on \in Clients /\ (t \in Clients => p.on = t)
      /\ p.pc \in {"record", "daily", "status"} => p.status \in Statuses
      /\ p.pc # "daily" => p.today

\* A request that saves the configuration of one application, or of several.
MonitorReqOK(r) ==
  r.op = "monitor" =>
    /\ r.pc \in {"sync", "first", "upsert"}
    /\ r.pc = "sync" <=> r.key = Nil
    /\ r.pc # "sync" => r.in \in Monitors
    /\ r.pc = "upsert" => r.seen \in Monitors \cup {None}
    /\ \A c \in r.todo : r.row[c] \in Addresses

TablesOK ==
  /\ AppTyped
  /\ probe \in [Probers -> ProbeRows] /\ \A t \in Probers : ProbeOK(t)
  /\ \A q \in Requests : MonitorReqOK(req[q])

\* The loop and who saves the interval.  Until two saves overlap, what is in
\* the channel, or else the period of the ticker, is the interval, unless
\* the request that changed it has still to send it.
SettersOK ==
  /\ interval \in Intervals /\ stored \in Intervals /\ chan \in Intervals \cup {0}
  /\ loop \in [pc : {"run", "round", "select"}, ticker : Intervals \cup {0}]
  /\ setter \in [Setters -> [pc : {"idle", "lock", "send", "drain", "push"},
                             value : Intervals \cup {0}]]
  /\ \A s \in Setters : setter[s].pc # "idle" => setter[s].value \in Intervals

Told == (chan # 0 => chan = interval) /\ (chan = 0 /\ loop.ticker # 0 => loop.ticker = interval)

IntervalSound ==
  "interval" \notin mixed =>
    /\ \A s, p \in Setters : ~At_(s, "idle") /\ ~At_(p, "idle") => s = p
    /\ \A s \in Setters : ~At_(s, "idle") => setter[s].value = stored
    /\ \A s \in Setters : ~At_(s, "idle") /\ ~At_(s, "lock") => interval = stored
    /\ (\A s \in Setters : At_(s, "idle")) => interval = stored
    /\ (\A s \in Setters : At_(s, "idle") \/ At_(s, "lock")) => Told

\* Who has looked for an incident in vain will create one.
Creators(c) == {t \in Probers : probe[t].on = c /\ probe[t].pc = "create"}

FewIncidents(c) ==
  /\ IsFiniteSet(ongoing[c])
  /\ Cardinality(ongoing[c]) + Cardinality(Creators(c)) <= Cardinality(Hands) + 1

DownOK(c) == mon[c] # None /\ mon[c].status = "down" => ongoing[c] # {}

DayOK(c) ==
  IF probed[c] = {} THEN worst[c] = None
  ELSE worst[c] \in probed[c] /\ \A s \in probed[c] : Rank[s] <= Rank[worst[c]]

\* Day is the row of the day before status was recorded.
DayBut(c, status, day) ==
  /\ status \in probed[c]
  /\ IF day = None THEN probed[c] = {status}
     ELSE day \in probed[c] /\ \A s \in probed[c] : s = status \/ Rank[s] <= Rank[day]

\* What a probe of c that overlaps nothing knows about c.
ProbePhase(t, c) ==
  LET p == probe[t]
  IN  /\ mon[c] # None
      /\ p.pc \in Measuring => p.prev = mon[c].status
      /\ p.pc \in {"open", "create"} => mon[c].status = "down"
      /\ p.pc \in {"close", "resolve"} => mon[c].status = "up"
      /\ p.pc = "daily" => IF p.today THEN p.day = worst[c] /\ DayBut(c, p.status, p.day)
                           ELSE DayOK(c)

\* And a request that saves the configuration it has looked for.
SavePhase(q, c) ==
  /\ req[q].op = "monitor" /\ mon[c] = None => req[q].in.status # "down"
  /\ req[q].pc = "upsert" =>
       /\ req[q].seen = None <=> mon[c] = None
       /\ mon[c] # None => req[q].seen.status = mon[c].status

\* Probes of c and saves of its configuration have not overlapped: there is
\* one of them at most.
Unmet(c) ==
  c \notin mixed =>
    /\ \A t, u \in Probing(c) : t = u
    /\ \A p, q \in Saving(c) : p = q
    /\ Probing(c) = {} \/ Saving(c) = {}
    /\ \A t \in Probing(c) : ProbePhase(t, c)
    /\ \A q \in Saving(c) : SavePhase(q, c)
    /\ (\A t \in Probing(c) : probe[t].pc \notin {"open", "create"}) => DownOK(c)
    /\ (\A t \in Probing(c) : probe[t].pc # "daily") => DayOK(c)

MonitorInv ==
  /\ TablesOK /\ SettersOK /\ IntervalSound
  /\ \A c \in Clients : FewIncidents(c) /\ Unmet(c)

-----------------------------------------------------------------------------
(* Requests on applications and departments do not take part in saving the    *)
(* configuration of the monitoring, but for the creation of an application.   *)

Upserts(r) == r.op = "create" /\ r.pc = "upsert"

\* Neither of the two is a request on the monitoring.
Elsewhere(q) ==
  /\ OnlySlot(q) /\ req[q].op # "monitor" /\ req'[q].op # "monitor"

\* Departments and groups.
LEMMA OrgSlot ==
  ASSUME ReqsOK, NEW q \in Requests, OrgRequest(q)
  PROVE  Elsewhere(q) /\ ~Upserts(req[q]) /\ ~Upserts(req'[q])
<1>s. ReqShape /\ ReqOK(req[q])
  BY DEF ReqsOK
<1>i. req[q].pc = "idle" => req[q].op = "idle"
  BY <1>s, IdleIsReq DEF ReqOK
<1> DEFINE Goal == Elsewhere(q) /\ ~Upserts(req[q]) /\ ~Upserts(req'[q])
<1>b. ASSUME NEW op, op \in {"dept", "group", "members"}, NEW pc, NEW key, NEW in, NEW row,
             Begin(q, op, pc, key, in, row, {})
      PROVE  Goal
  <2>1. OnlySlot(q) /\ req'[q].op = op /\ req[q].op = "idle"
    BY <1>b, <1>i, <1>s, BeginReq, TakeReq
  <2> QED
    BY <1>b, <2>1 DEF Elsewhere, Upserts
<1>e. ASSUME req[q].op \in {"dept", "group", "members"},
             End(q) \/ Goto(q, "walking") \/ Goto(q, "save")
      PROVE  Goal
  <2>1. OnlySlot(q) /\ req'[q].op \in {"idle", req[q].op}
    BY <1>e, <1>s, EndReq, GotoReq, IdleIsReq
  <2> QED
    BY <1>e, <2>1 DEF Elsewhere, Upserts
<1> HIDE DEF Goal
<1>1. ASSUME NEW d \in Depts, NEW p \in Issued, UpdateDept(q, d, p) PROVE Goal
  BY <1>b, <1>1 DEF UpdateDept
<1>2. ASSUME NEW d \in Depts, NEW p \in Issued, MoveGet(q, d, p) PROVE Goal
  BY <1>b, <1>2 DEF MoveGet
<1>3. ASSUME MoveList(q) \/ DeptSave(q) \/ DropGroup(q) \/ PruneMembers(q) PROVE Goal
  BY <1>e, <1>3 DEF MoveList, DeptSave, DropGroup, PruneMembers, At
<1>4. ASSUME NEW g \in Groups, DeleteGroup(q, g) PROVE Goal
  BY <1>b, <1>4 DEF DeleteGroup
<1>5. ASSUME NEW g \in Groups, NEW us \in MemberSets, SetMembers(q, g, us) PROVE Goal
  BY <1>b, <1>5 DEF SetMembers
<1>6. Goal
  BY ONLY OrgRequest(q), <1>1, <1>2, <1>3, <1>4, <1>5 DEF OrgRequest
<1> QED
  BY <1>6 DEF Goal

\* Applications.
LEMMA AppSlot ==
  ASSUME ReqsOK, NEW q \in Requests, AppRequest(q)
  PROVE  /\ Elsewhere(q)
         /\ Upserts(req[q]) => CreateMonitor(q)
         /\ Upserts(req'[q]) => CreateFirst(q)
         /\ \/ UNCHANGED monVars /\ ~Upserts(req[q])
            \/ CreateMonitor(q) /\ Upserts(req[q])
            \/ UpdateMonitor(q) /\ ~Upserts(req[q])
            \/ DeleteMonitor(q) /\ ~Upserts(req[q])
<1>s. ReqShape /\ ReqOK(req[q])
  BY DEF ReqsOK
<1>i. /\ req[q].pc = "idle" => req[q].op = "idle"
      /\ req[q].pc = "next" => req[q].op \in {"update", "delete"}
  BY <1>s, IdleIsReq DEF ReqOK
\* Steps that neither look for the configuration nor save it.
<1> DEFINE Plain == Elsewhere(q) /\ ~Upserts(req[q]) /\ ~Upserts(req'[q])
           Still == Plain /\ UNCHANGED monVars
<1>t. ASSUME req[q].op \notin {"monitor", "create"},
             NEW op, op # "monitor", NEW pc, pc # "upsert", NEW key, NEW in, NEW row, NEW todo,
             Take(q, op, pc, key, in, row, todo)
      PROVE  Plain
  <2>1. OnlySlot(q) /\ req'[q].op = op /\ req'[q].pc = pc
    BY <1>s, <1>t, TakeReq
  <2> QED
    BY <1>t, <2>1 DEF Elsewhere, Upserts
<1>b. ASSUME NEW op, op # "monitor", NEW pc, pc # "upsert", NEW key, NEW in, NEW row,
             NEW todo,
             Begin(q, op, pc, key, in, row, todo)
      PROVE  Plain
  BY <1>b, <1>i, <1>t, BeginReq
<1>g. ASSUME req[q].op # "monitor", req[q].pc # "upsert", NEW pc, pc # "upsert", Goto(q, pc)
      PROVE  Plain
  <2>1. OnlySlot(q) /\ req'[q].op = req[q].op /\ req'[q].pc = pc
    BY <1>s, <1>g, GotoReq
  <2> QED
    BY <1>g, <2>1 DEF Elsewhere, Upserts
<1>e. ASSUME req[q].op # "monitor", End(q)
      PROVE  Elsewhere(q) /\ ~Upserts(req'[q])
  BY <1>s, <1>e, EndReq, IdleIsReq DEF Elsewhere, Upserts
<1>v. ASSUME req[q].op \in {"update", "delete"}, Through(q) PROVE Plain
  <2>1. OnlySlot(q) /\ req'[q].op \in {"idle", req[q].op}
    BY <1>s, <1>v, ThroughReq, IdleIsReq
  <2> QED
    BY <1>v, <2>1 DEF Elsewhere, Upserts
<1>1. ASSUME NEW c \in Clients, NEW in \in CreateInputs, CreateApp(q, c, in) PROVE Still
  <2>1. PICK row : Begin(q, "create", "grant", App(c), in, row, {})
    BY <1>1 DEF CreateApp
  <2> QED
    BY <1>1, <1>b, <2>1 DEF CreateApp
<1>2. ASSUME NEW c \in Clients, NEW in \in UpdateInputs, Update(q, c, in) PROVE Still
  <2>1. PICK row : Take(q, "update", "save", App(c), in, row, {})
    BY <1>2 DEF Update, Load
  <2> QED
    BY <1>2, <1>i, <1>t, <2>1 DEF Update
<1>3. ASSUME NEW c \in Clients, ToggleStatus(q, c) PROVE Still
  <2>1. PICK in : Begin(q, "toggle", "reload", App(c), in, Nil, {})
    BY <1>3 DEF ToggleStatus
  <2> QED
    BY <1>3, <1>b, <2>1 DEF ToggleStatus
<1>4. ASSUME NEW c \in Clients, RotateSecret(q, c) PROVE Still
  <2>1. PICK row : Begin(q, "rotate", "save", App(c), Nil, row, {})
    BY <1>4 DEF RotateSecret
  <2> QED
    BY <1>4, <1>b, <2>1 DEF RotateSecret
<1>5. ASSUME NEW c \in Clients, Delete(q, c) PROVE Still
  BY <1>5, <1>b DEF Delete
<1>6. ASSUME NEW c \in Clients, NextOfBatch(q, c) PROVE Still
  <2>1. PICK op, pc, in, row, todo :
          /\ Take(q, op, pc, App(c), in, row, todo)
          /\ op \in {"update", "delete"} /\ pc \in {"save", "monitor"}
    <3>1. PICK in, row, todo : /\ in = req[q].in /\ row = Changed(clients[c], req[q].in)
                               /\ todo = req[q].todo \ {c}
      OBVIOUS
    <3>2. \/ Take(q, "update", "save", App(c), in, row, todo)
          \/ Take(q, "delete", "monitor", App(c), Nil, Nil, todo)
      BY <1>6, <3>1 DEF NextOfBatch, Load, Take
    <3> QED
      BY <3>2
  <2> QED
    BY <1>6, <1>i, <1>t, <2>1 DEF NextOfBatch
\* A batch begins, or leaves an application out.
<1>a. ASSUME NEW r, IsReq(r), r.op \in {"idle", "update", "delete"},
             req[q].op \in {"idle", "update", "delete"}, req' = [req EXCEPT ![q] = r]
      PROVE  Plain
  <2>1. OnlySlot(q) /\ req'[q] = r
    BY <1>s, <1>a, ReqSet
  <2> QED
    BY <1>a, <2>1 DEF Elsewhere, Upserts
<1>7. ASSUME NEW c \in Clients, SkipOfBatch(q, c) PROVE Still
  <2>1. PICK r : r = req[q] /\ IsReq(r)
    BY <1>s, SlotIsReq
  <2>2. PICK V : r \in ReqSlots(V)
    BY <2>1 DEF IsReq
  <2>3. PICK rest : rest = r.todo \ {c}
    OBVIOUS
  <2>4. PICK s : s = IF rest = {} THEN Idle ELSE [r EXCEPT !.todo = rest]
    OBVIOUS
  <2>5. req' = [req EXCEPT ![q] = s] /\ r.pc = "next" /\ UNCHANGED monVars
    BY <1>7, <2>1, <2>3, <2>4 DEF SkipOfBatch
  <2>6. IsReq(s) /\ s.op \in {"idle", r.op}
    <3>1. CASE rest = {}
      BY <2>4, <3>1, IdleIsReq
    <3>2. CASE rest # {}
      <4>1. s \in ReqSlots(V \cup {rest}) /\ s.op = r.op
        BY <2>2, <2>4, <3>2 DEF ReqSlots
      <4> QED
        BY <4>1 DEF IsReq
    <3> QED
      BY <3>1, <3>2
  <2> QED
    BY <1>a, <1>i, <2>1, <2>5, <2>6
<1>c. ASSUME NEW op, op \in {"update", "delete"}, NEW in, Batch(q, op, in) PROVE Still
  <2>1. PICK s : s = [Idle EXCEPT !.op = op, !.pc = "next", !.in = in, !.todo = Clients]
    OBVIOUS
  <2>2. PICK V : Idle \in ReqSlots(V)
    BY IdleIsReq DEF IsReq
  <2>3. s \in ReqSlots(V \cup {op, "next", in, Clients}) /\ s.op = op
    BY <2>1, <2>2 DEF ReqSlots
  <2>4. req' = [req EXCEPT ![q] = s] /\ req[q].pc = "idle" /\ UNCHANGED monVars
    BY <1>c, <2>1 DEF Batch
  <2>5. IsReq(s)
    BY <2>3 DEF IsReq
  <2> QED
    BY <1>a, <1>c, <1>i, <2>3, <2>4, <2>5
<1>8. ASSUME NEW in \in UpdateInputs, BatchUpdate(q, in) PROVE Still
  BY <1>8, <1>c DEF BatchUpdate
<1>9. ASSUME BatchDelete(q) PROVE Still
  BY <1>9, <1>c DEF BatchDelete
<1>10. ASSUME CreateGrants(q) PROVE Still
  <2>1. End(q) \/ Goto(q, "monitor")
    BY <1>10 DEF CreateGrants
  <2>2. Plain
    BY <1>10, <1>e, <1>g, <2>1 DEF CreateGrants, At, Upserts
  <2> QED
    BY <1>10, <2>2 DEF CreateGrants
<1>11. ASSUME CreateFirst(q)
       PROVE  Elsewhere(q) /\ ~Upserts(req[q]) /\ UNCHANGED monVars
  <2>1. PICK r : r = req[q] /\ IsReq(r)
    BY <1>s, SlotIsReq
  <2>2. PICK V : r \in ReqSlots(V)
    BY <2>1 DEF IsReq
  <2>3. PICK seen : seen = mon[On(q)]
    OBVIOUS
  <2>4. PICK s : s = [r EXCEPT !.pc = "upsert", !.seen = seen]
    OBVIOUS
  <2>5. s \in ReqSlots(V \cup {"upsert", seen}) /\ s.op = r.op
    BY <2>2, <2>4 DEF ReqSlots
  <2>6. req' = [req EXCEPT ![q] = s] /\ r.op = "create" /\ r.pc = "monitor"
        /\ UNCHANGED monVars
    BY <1>11, <2>1, <2>3, <2>4 DEF CreateFirst, At
  <2>7. OnlySlot(q) /\ req'[q] = s
    BY <1>s, <2>5, <2>6, ReqSet DEF IsReq
  <2> QED
    BY <2>1, <2>5, <2>6, <2>7 DEF Elsewhere, Upserts
<1>12. ASSUME CreateMonitor(q)
       PROVE  Elsewhere(q) /\ Upserts(req[q]) /\ ~Upserts(req'[q])
  BY <1>12, <1>e DEF CreateMonitor, At, Upserts
<1>13. ASSUME Reload(q) PROVE Still
  <2>1. req[q].op = "toggle" /\ UNCHANGED monVars
    BY <1>13 DEF Reload, At
  <2>2. CASE End(q)
    BY <1>e, <2>1, <2>2 DEF Upserts
  <2>3. CASE ~End(q)
    <3>1. PICK key, in, row : Take(q, "update", "save", key, in, row, {})
      <4>1. PICK key, in, row : /\ key = App(On(q)) /\ in = req[q].in
                                /\ row = Changed(clients[On(q)], req[q].in)
        OBVIOUS
      <4> QED
        BY <1>13, <2>3, <4>1 DEF Reload, Load, Take
    <3> QED
      BY <1>t, <2>1, <3>1
  <2> QED
    BY <2>2, <2>3
<1>14. ASSUME UpdateSave(q) PROVE Still
  BY <1>14, <1>g DEF UpdateSave, At
<1>15. ASSUME UpdateMonitor(q) PROVE Plain
  BY <1>15, <1>g DEF UpdateMonitor, At
<1>16. ASSUME UpdateGrants(q) PROVE Still
  BY <1>16, <1>v DEF UpdateGrants, At
<1>17. ASSUME RotateSave(q) PROVE Still
  BY <1>17, <1>e DEF RotateSave, At, Upserts
<1>18. ASSUME DeleteMonitor(q) PROVE Plain
  BY <1>18, <1>g DEF DeleteMonitor, At
<1>19. ASSUME DeleteGrants(q) PROVE Still
  BY <1>19, <1>g DEF DeleteGrants, At
<1>20. ASSUME DeleteRow(q) PROVE Still
  BY <1>20, <1>v DEF DeleteRow, At
<1> HIDE DEF Plain
<1>21. \/ Plain /\ (UNCHANGED monVars \/ UpdateMonitor(q) \/ DeleteMonitor(q))
       \/ CreateFirst(q) \/ CreateMonitor(q)
  BY ONLY AppRequest(q), <1>1, <1>2, <1>3, <1>4, <1>5, <1>6, <1>7, <1>8, <1>9, <1>10,
     <1>13, <1>14, <1>15, <1>16, <1>17, <1>18, <1>19, <1>20 DEF AppRequest
<1> QED
  BY <1>11, <1>12, <1>21 DEF Plain

-----------------------------------------------------------------------------
(* What a step of a request does to one application *)

\* Only requests on the monitoring have its keys.
LEMMA MonitorKey ==
  ASSUME NEW r, ReqOK(r), NEW c \in Clients, r.key = Mon(c)
  PROVE  r.op = "monitor"
BY MonitorAssumption, IdleIsReq, KeysDiffer
   DEF ReqOK, Mon, OnClient, App, Rule, Tree

\* Who saves the configuration of c.
LEMMA SavingIs ==
  ASSUME ReqsOK, NEW c \in Clients, NEW q \in Requests
  PROVE  /\ q \in Saving(c) <=>
              \/ req[q].op = "monitor" /\ req[q].key = Mon(c)
              \/ Upserts(req[q]) /\ req[q].key = App(c)
         /\ q \in Saving(c) => On(q) = c /\ req[q].op \in {"monitor", "create"}
<1>1. ReqOK(req[q])
  BY DEF ReqsOK
<1>2. req[q].key = Mon(c) => req[q].op = "monitor" /\ On(q) = c
  BY <1>1, MonitorKey DEF Mon, On
<1>3. Upserts(req[q]) => OnClient(req[q])
  BY <1>1 DEF ReqOK, Upserts
<1>4. Upserts(req[q]) => (On(q) = c <=> req[q].key = App(c))
  BY <1>3, OnApp, OnClientApp
<1> QED
  BY <1>2, <1>4 DEF Saving, At, Upserts

SameTables(c) ==
  ongoing'[c] = ongoing[c] /\ probed'[c] = probed[c] /\ worst'[c] = worst[c]

\* The row stays, or stays away, with its status.
Touched(c) ==
  /\ SameTables(c)
  /\ mon'[c] = None <=> mon[c] = None
  /\ mon[c] # None => mon'[c].status = mon[c].status

Removed(c) ==
  mon'[c] = None /\ ongoing'[c] = {} /\ probed'[c] = {} /\ worst'[c] = None

\* The same requests save the configuration, and as far as they were.
Kept(c) ==
  \A p \in Requests : /\ p \in Saving(c)' <=> p \in Saving(c)
                      /\ p \in Saving(c) => req'[p] = req[p]

\* Request q takes up the configuration, or looks for it.
Enters(q, c) ==
  /\ Touched(c) /\ SavePhase(q, c)'
  /\ \A p \in Requests \ {q} : p \in Saving(c)' => p \in Saving(c) /\ req'[p] = req[p]

\* Request q saves it as it has seen it.
Saves(q, c) ==
  /\ q \in Saving(c) /\ req[q].pc = "upsert" /\ SameTables(c)
  /\ \A p \in Requests : p \in Saving(c)' => p # q /\ p \in Saving(c) /\ req'[p] = req[p]
  /\ req[q].seen = None /\ mon[c] # None => mon'[c] = mon[c]
  /\ req[q].seen = None /\ mon[c] = None /\ mon'[c].status = "down" =>
       req[q].op = "monitor" /\ req[q].in.status = "down"
  /\ req[q].seen # None => mon'[c].status = req[q].seen.status

\* A step of a request leaves what is said of an application that nothing
\* overlapped.
LEMMA UnmetRequest ==
  ASSUME NEW c \in Clients, Unmet(c), UNCHANGED probe, c \in mixed => c \in mixed',
         \/ Kept(c) /\ Touched(c)
         \/ Kept(c) /\ Removed(c) /\ (Quiet(c) \/ mon[c] = None \/ c \in mixed')
         \/ \E q \in Requests : Enters(q, c) /\ (q \in Saving(c) \/ Quiet(c) \/ c \in mixed')
         \/ \E q \in Requests : Saves(q, c)
  PROVE  Unmet(c)'
<1> SUFFICES ASSUME c \notin mixed' PROVE Unmet(c)'
  BY DEF Unmet
<1>0. c \notin mixed /\ Probing(c)' = Probing(c)
  BY DEF Probing, Probers
<1>1. /\ \A t, u \in Probing(c) : t = u
      /\ \A p, q \in Saving(c) : p = q
      /\ Probing(c) = {} \/ Saving(c) = {}
      /\ \A t \in Probing(c) : ProbePhase(t, c)
      /\ \A q \in Saving(c) : SavePhase(q, c)
      /\ (\A t \in Probing(c) : probe[t].pc \notin {"open", "create"}) => DownOK(c)
      /\ (\A t \in Probing(c) : probe[t].pc # "daily") => DayOK(c)
  BY <1>0 DEF Unmet
<1>s. \A q : q \in Saving(c)' => q \in Requests
  BY DEF Saving
\* The row is only touched.
<1>t. ASSUME Touched(c)
      PROVE  /\ DownOK(c) => DownOK(c)'
             /\ DayOK(c) => DayOK(c)'
             /\ \A t \in Probing(c) : ProbePhase(t, c) => ProbePhase(t, c)'
  <2>1. (DownOK(c) => DownOK(c)') /\ (DayOK(c) => DayOK(c)')
    BY <1>t DEF Touched, SameTables, DownOK, DayOK
  <2>2. ASSUME NEW t \in Probing(c), ProbePhase(t, c) PROVE ProbePhase(t, c)'
    BY <1>t, <2>1, <2>2 DEF ProbePhase, Touched, SameTables, DayBut
  <2> QED
    BY <2>1, <2>2
<1>k. ASSUME Kept(c) PROVE Saving(c)' = Saving(c)
  BY <1>k DEF Kept, Saving
<1>2. CASE Kept(c) /\ Touched(c)
  <2>1. ASSUME NEW q \in Saving(c)' PROVE SavePhase(q, c)'
    BY <1>1, <1>2, <1>k, <1>s, <2>1 DEF SavePhase, Kept, Touched
  <2> QED
    BY <1>0, <1>1, <1>2, <1>k, <1>t, <2>1 DEF Unmet
<1>3. CASE Kept(c) /\ Removed(c) /\ (Quiet(c) \/ mon[c] = None)
  <2>1. Probing(c) = {}
    BY <1>1, <1>3 DEF Quiet, ProbePhase
  <2>2. DownOK(c)' /\ DayOK(c)'
    BY <1>3 DEF Removed, DownOK, DayOK
  <2>3. ASSUME NEW q \in Saving(c)' PROVE SavePhase(q, c)'
    <3>1. q \in Saving(c) /\ req'[q] = req[q] /\ mon[c] = None
      BY <1>3, <1>k, <1>s, <2>3 DEF Kept, Quiet
    <3> QED
      BY <1>1, <1>3, <3>1 DEF SavePhase, Removed
  <2> QED
    BY <1>0, <1>1, <1>3, <1>k, <2>1, <2>2, <2>3 DEF Unmet
<1>4. ASSUME NEW q \in Requests, Enters(q, c), q \in Saving(c) \/ Quiet(c)
      PROVE  Unmet(c)'
  <2>1. Saving(c)' \subseteq {q}
    BY <1>1, <1>4, <1>s DEF Enters, Quiet
  <2>2. Probing(c) = {}
    BY <1>1, <1>4 DEF Quiet
  <2>3. Touched(c) /\ SavePhase(q, c)'
    BY <1>4 DEF Enters
  <2>4. DownOK(c)' /\ DayOK(c)'
    BY <1>1, <1>t, <2>2, <2>3
  <2> QED
    BY <1>0, <2>1, <2>2, <2>3, <2>4 DEF Unmet
<1>5. ASSUME NEW q \in Requests, Saves(q, c) PROVE Unmet(c)'
  <2>1. Saving(c)' = {} /\ q \in Saving(c)
    BY <1>1, <1>5, <1>s DEF Saves
  <2>2. Probing(c) = {} /\ SavePhase(q, c) /\ DownOK(c) /\ DayOK(c)
    BY <1>1, <2>1
  <2>3. DayOK(c)'
    BY <1>5, <2>2 DEF DayOK, Saves, SameTables
  <2>4. mon[c] # None => mon'[c].status = mon[c].status
    BY <1>5, <2>2 DEF Saves, SavePhase
  <2>5. mon[c] = None => mon'[c].status # "down"
    BY <1>5, <2>2 DEF Saves, SavePhase
  <2>6. DownOK(c)'
    BY <1>5, <2>2, <2>4, <2>5 DEF DownOK, Saves, SameTables
  <2> QED
    BY <1>0, <2>1, <2>2, <2>3, <2>6 DEF Unmet
<1> QED
  BY <1>2, <1>3, <1>4, <1>5

\* A request that stays away from the configurations keeps who saves them.
LEMMA KeptElsewhere ==
  ASSUME ReqsOK, ReqsOK', NEW q \in Requests, Elsewhere(q), NEW c \in Clients,
         ~(Upserts(req[q]) /\ req[q].key = App(c)),
         ~(Upserts(req'[q]) /\ req'[q].key = App(c))
  PROVE  Kept(c)
<1>1. \A p \in Requests :
        /\ p \in Saving(c) <=> \/ req[p].op = "monitor" /\ req[p].key = Mon(c)
                               \/ Upserts(req[p]) /\ req[p].key = App(c)
  BY SavingIs
<1>2. \A p \in Requests :
        /\ p \in Saving(c)' <=> \/ req'[p].op = "monitor" /\ req'[p].key = Mon(c)
                                \/ Upserts(req'[p]) /\ req'[p].key = App(c)
  <2>1. ASSUME NEW p \in Requests
        PROVE  p \in Saving(c)' <=> \/ req'[p].op = "monitor" /\ req'[p].key = Mon(c)
                                    \/ Upserts(req'[p]) /\ req'[p].key = App(c)
    <3>1. ReqOK(req'[p])
      BY DEF ReqsOK
    <3>2. req'[p].key = Mon(c) => req'[p].op = "monitor"
      BY <3>1, MonitorKey
    <3>3. Upserts(req'[p]) => \E d \in Clients : req'[p].key = App(d)
      BY <3>1 DEF ReqOK, Upserts, OnClient
    <3>4. Upserts(req'[p]) => (req'[p].key[2] = c <=> req'[p].key = App(c))
      BY <3>3 DEF App
    <3> QED
      BY <3>2, <3>4 DEF Saving, At, On, Upserts, Mon
  <2> QED
    BY <2>1
<1>3. \A p \in Requests \ {q} : req'[p] = req[p]
  BY DEF Elsewhere, OnlySlot
<1> QED
  BY <1>1, <1>2, <1>3 DEF Kept, Elsewhere


-----------------------------------------------------------------------------
(* Statements on applications, departments and groups *)

\* The requests on the monitoring stay as they are.
LEMMA ElsewhereMonitor ==
  ASSUME NEW q \in Requests, Elsewhere(q), \A p \in Requests : MonitorReqOK(req[p])
  PROVE  \A p \in Requests : MonitorReqOK(req'[p])
BY DEF Elsewhere, OnlySlot, MonitorReqOK

\* What Upsert leaves, by what it had seen.
LEMMA UpsertSet ==
  ASSUME MonitorTypeOK, NEW c \in Clients, NEW seen \in Monitors \cup {None},
         NEW m \in Monitors, mon' = Upserted(c, seen, m)
  PROVE  /\ mon' \in [Clients -> Monitors \cup {None}]
         /\ \A d \in Clients \ {c} : mon'[d] = mon[d]
         /\ mon'[c] # None
         /\ seen = None /\ mon[c] = None => mon'[c].status = m.status
         /\ seen = None /\ mon[c] # None => mon'[c] = mon[c]
         /\ seen # None => mon'[c].status = seen.status
<1>1. Upserted(c, seen, m) \in [Clients -> Monitors \cup {None}]
  BY UpsertTyped
<1>2. \A d \in Clients \ {c} : Upserted(c, seen, m)[d] = mon[d]
  BY DEF Upserted, Put, MonitorTypeOK
<1>3. Upserted(c, seen, m)[c] # None
  BY UpsertTyped
<1>4. seen = None /\ mon[c] = None => Upserted(c, seen, m)[c].status = m.status
  BY UpsertTyped
<1>5. seen = None /\ mon[c] # None => Upserted(c, seen, m) = mon
  BY UpsertTyped
<1>6. seen # None => Upserted(c, seen, m)[c].status = seen.status
  BY ZenonT(30), UpsertTyped
<1> QED
  BY <1>1, <1>2, <1>3, <1>4, <1>5, <1>6

\* What AppStep records of c.
AppMix(c) ==
  /\ c \in mixed => c \in mixed'
  /\ mon'[c] # mon[c] /\ ~Quiet(c)' => c \in mixed'
  /\ ~Quiet(c) /\ Saving(c)' \ Saving(c) # {} => c \in mixed'

\* A statement of a request on an application.
LEMMA AppRequestUnmet ==
  ASSUME AppTyped, AppTyped', NEW q \in Requests, AppRequest(q), UNCHANGED probe,
         NEW c \in Clients, Unmet(c), AppMix(c)
  PROVE  Unmet(c)'
<1>t. ReqsOK /\ ReqsOK' /\ MonitorTypeOK /\ ReqOK(req[q]) /\ ReqOK(req'[q])
  BY DEF AppTyped, AppTypeOK, ReqsOK
<1>a. /\ Elsewhere(q)
      /\ Upserts(req[q]) => CreateMonitor(q)
      /\ Upserts(req'[q]) => CreateFirst(q)
      /\ \/ UNCHANGED monVars /\ ~Upserts(req[q])
         \/ CreateMonitor(q) /\ Upserts(req[q])
         \/ UpdateMonitor(q) /\ ~Upserts(req[q])
         \/ DeleteMonitor(q) /\ ~Upserts(req[q])
  BY <1>t, AppSlot
<1>m. c \in mixed => c \in mixed'
  BY DEF AppMix
<1>k. \A p \in Requests \ {q} : req'[p] = req[p]
  BY <1>a DEF Elsewhere, OnlySlot
\* Whoever else saves c did so before.
<1>o. ASSUME NEW p \in Requests, p # q, p \in Saving(c)'
      PROVE  p \in Saving(c) /\ req'[p] = req[p]
  BY <1>k, <1>o DEF Saving, At, On
<1>w. ASSUME q \in Saving(c)' PROVE Upserts(req'[q]) /\ req'[q].key = App(c)
  <2>1. req'[q].op # "monitor"
    BY <1>a DEF Elsewhere
  <2>2. req'[q].key # Mon(c)
    BY <1>t, <2>1, MonitorKey
  <2>3. Upserts(req'[q]) /\ req'[q].key[2] = c
    BY <1>w, <2>2 DEF Saving, At, On, Upserts
  <2>4. PICK d \in Clients : req'[q].key = App(d)
    BY <1>t, <2>3 DEF ReqOK, Upserts, OnClient
  <2> QED
    BY <2>3, <2>4 DEF App
<1>c. ASSUME ~Upserts(req[q]) \/ req[q].key # App(c), ~Upserts(req'[q]) PROVE Kept(c)
  BY <1>a, <1>c, <1>t, KeptElsewhere
<1>n. UNCHANGED monVars => Touched(c)
  BY DEF monVars, Touched, SameTables
<1>1. CASE UNCHANGED monVars /\ ~Upserts(req[q])
  <2>1. CASE ~Upserts(req'[q]) \/ req'[q].key # App(c)
    <3>1. Kept(c)
      BY <1>1, <1>a, <1>t, <2>1, KeptElsewhere
    <3> QED
      BY <1>1, <1>m, <1>n, <3>1, UnmetRequest
  <2>2. CASE Upserts(req'[q]) /\ req'[q].key = App(c)
    <3>1. CreateFirst(q)
      BY <1>a, <2>2
    <3>2. PICK r : r = req[q] /\ IsReq(r)
      BY <1>t, SlotIsReq DEF ReqsOK
    <3>3. PICK V : r \in ReqSlots(V)
      BY <3>2 DEF IsReq
    <3>4. PICK seen : seen = mon[On(q)]
      OBVIOUS
    <3>5. PICK s : s = [r EXCEPT !.pc = "upsert", !.seen = seen]
      OBVIOUS
    <3>6. s \in ReqSlots(V \cup {"upsert", seen}) /\ s.key = r.key /\ s.seen = seen
      BY <3>3, <3>5 DEF ReqSlots
    <3>7. req' = [req EXCEPT ![q] = s]
      BY <3>1, <3>2, <3>4, <3>5 DEF CreateFirst
    <3>8. req'[q] = s
      BY <1>t, <3>6, <3>7, ReqSet DEF IsReq, ReqsOK
    <3>9. On(q) = c
      BY <2>2, <3>2, <3>6, <3>8, OnApp
    <3>10. req'[q].seen = mon'[c] /\ req'[q].op = "create"
      BY <1>1, <2>2, <3>4, <3>6, <3>8, <3>9 DEF monVars, Upserts
    <3>11. mon'[c] = None => req'[q].seen = None
      BY <3>10
    <3>12. SavePhase(q, c)'
      BY <3>10 DEF SavePhase
    <3>13. Enters(q, c)
      BY <1>1, <1>n, <1>o, <3>12 DEF Enters
    <3>14. q \in Saving(c)'
      BY <2>2, OnApp DEF Saving, At, On, Upserts, App
    <3>15. q \notin Saving(c)
      BY <1>1, <1>a, <1>t, SavingIs DEF Elsewhere
    <3>16. Quiet(c) \/ c \in mixed'
      BY <3>14, <3>15 DEF AppMix
    <3> QED
      BY <1>m, <3>13, <3>16, UnmetRequest
  <2> QED
    BY <2>1, <2>2
<1>2. CASE CreateMonitor(q) /\ Upserts(req[q])
  <2>1. PICK d \in Clients : req[q].key = App(d) /\ On(q) = d
    BY <1>2, <1>t, OnClientApp DEF ReqOK, Upserts
  <2>2. PICK row : row = req[q].row
    OBVIOUS
  <2>3. PICK m : m = NewMonitor(row.health)
    OBVIOUS
  <2>4. PICK seen : seen = req[q].seen
    OBVIOUS
  <2>5. /\ mon' = Upserted(d, seen, m) /\ End(q)
        /\ ongoing' = ongoing /\ probed' = probed /\ worst' = worst
    BY <1>2, <2>1, <2>2, <2>3, <2>4 DEF CreateMonitor
  <2>6. m \in Monitors /\ m.status = "no_data" /\ seen \in Monitors \cup {None}
    <3>1. row.health \in Addresses /\ seen \in Monitors \cup {None}
      BY <1>2, <1>t, <2>2, <2>4 DEF ReqOK, Upserts, Rows
    <3> QED
      BY <2>3, <3>1, NewMonitorTyped
  <2>7. /\ \A x \in Clients \ {d} : mon'[x] = mon[x]
        /\ seen = None /\ mon[d] = None => mon'[d].status = m.status
        /\ seen = None /\ mon[d] # None => mon'[d] = mon[d]
        /\ seen # None => mon'[d].status = seen.status
    BY <1>t, <2>5, <2>6, UpsertSet
  <2>8. req'[q] = Idle
    BY <1>t, <2>5, EndReq DEF ReqsOK
  <2>9. ~Upserts(req'[q])
    BY <2>8, IdleIsReq DEF Upserts
  <2>10. CASE c = d
    <3>1. q \in Saving(c) /\ q \notin Saving(c)'
      BY <1>2, <1>t, <1>w, <2>1, <2>9, <2>10, SavingIs
    <3>2. Saves(q, c)
      <4>1. req[q].op = "create" /\ req[q].pc = "upsert"
        BY <1>2 DEF Upserts
      <4>2. \A p \in Requests : p \in Saving(c)' => p # q /\ p \in Saving(c) /\ req'[p] = req[p]
        BY <1>o, <3>1
      <4>3. seen = None /\ mon[c] = None => mon'[c].status # "down"
        BY <2>6, <2>7, <2>10
      <4> QED
        BY <2>4, <2>5, <2>7, <2>10, <3>1, <4>1, <4>2, <4>3 DEF Saves, SameTables
    <3> QED
      BY <1>m, <3>2, UnmetRequest
  <2>11. CASE c # d
    <3>1. Kept(c)
      BY <1>c, <2>1, <2>9, <2>11 DEF App
    <3>2. Touched(c)
      BY <2>5, <2>7, <2>11 DEF Touched, SameTables
    <3> QED
      BY <1>m, <3>1, <3>2, UnmetRequest
  <2> QED
    BY <2>10, <2>11
<1>3. CASE UpdateMonitor(q) /\ ~Upserts(req[q])
  <2>1. ~Upserts(req'[q])
    BY <1>3, <1>a DEF UpdateMonitor, CreateFirst, At
  <2>2. PICK d \in Clients : On(q) = d
    BY <1>3, <1>t, OnClientApp DEF ReqOK, UpdateMonitor, At
  <2>3. PICK url \in Addresses : url = req[q].row.health
    BY <1>3, <1>t DEF ReqOK, UpdateMonitor, At, Rows
  <2>4. UpdateHealthURL(d, url)
    BY <1>3, <2>2, <2>3 DEF UpdateMonitor, UpdateHealthURL, SetColumns, Put
  <2>5. /\ \A x \in Clients \ {d} : mon'[x] = mon[x]
        /\ mon[d] = None => mon'[d] = None
        /\ mon[d] # None => mon'[d] # None /\ mon'[d].status = mon[d].status
    BY <1>t, <2>4, HealthURLSet
  <2>6. ongoing' = ongoing /\ probed' = probed /\ worst' = worst
    BY <2>4 DEF UpdateHealthURL
  <2>7. Touched(c)
    <3>1. CASE c = d
      BY <2>5, <2>6, <3>1 DEF Touched, SameTables
    <3>2. CASE c # d
      BY <2>5, <2>6, <3>2 DEF Touched, SameTables
    <3> QED
      BY <3>1, <3>2
  <2> QED
    BY <1>3, <1>c, <1>m, <2>1, <2>7, UnmetRequest
<1>4. CASE DeleteMonitor(q) /\ ~Upserts(req[q])
  <2>1. ~Upserts(req'[q])
    BY <1>4, <1>a DEF DeleteMonitor, CreateFirst, At
  <2>2. PICK d \in Clients : On(q) = d
    BY <1>4, <1>t, OnClientApp DEF ReqOK, DeleteMonitor, At
  <2>3. DeleteByClientID(d)
    BY <1>4, <2>2 DEF DeleteMonitor, DeleteByClientID, Put
  <2>4. /\ mon'[d] = None /\ ongoing'[d] = {} /\ probed'[d] = {} /\ worst'[d] = None
        /\ \A x \in Clients \ {d} :
             /\ mon'[x] = mon[x] /\ ongoing'[x] = ongoing[x]
             /\ probed'[x] = probed[x] /\ worst'[x] = worst[x]
    BY <1>t, <2>3, DeleteTyped
  <2>5. Kept(c)
    BY <1>4, <1>c, <2>1
  <2>6. CASE c = d
    <3>1. Removed(c)
      BY <2>4, <2>6 DEF Removed
    <3>2. Quiet(c)' <=> Quiet(c)
      BY <2>5 DEF Quiet, Kept, Probing, Saving
    <3>3. Quiet(c) \/ mon[c] = None \/ c \in mixed'
      BY <2>4, <2>6, <3>2 DEF AppMix
    <3> QED
      BY <1>m, <2>5, <3>1, <3>3, UnmetRequest
  <2>7. CASE c # d
    <3>1. Touched(c)
      BY <2>4, <2>7 DEF Touched, SameTables
    <3> QED
      BY <1>m, <2>5, <3>1, UnmetRequest
  <2> QED
    BY <2>6, <2>7
<1> QED
  BY <1>1, <1>2, <1>3, <1>4, <1>a

\* Every statement on applications, departments and groups.
LEMMA AppNextUnmet ==
  ASSUME AppTyped, AppTyped', AppNext, UNCHANGED probe,
         \A p \in Requests : MonitorReqOK(req[p])
  PROVE  /\ \A p \in Requests : MonitorReqOK(req'[p])
         /\ \A c \in Clients : Unmet(c) /\ AppMix(c) => Unmet(c)'
<1>t. ReqsOK /\ ReqsOK'
  BY DEF AppTyped
<1>1. ASSUME NEW q \in Requests, AppRequest(q)
      PROVE  /\ \A p \in Requests : MonitorReqOK(req'[p])
             /\ \A c \in Clients : Unmet(c) /\ AppMix(c) => Unmet(c)'
  <2>1. Elsewhere(q)
    BY <1>1, <1>t, AppSlot
  <2> QED
    BY <1>1, <2>1, AppRequestUnmet, ElsewhereMonitor
<1>2. ASSUME NEW q \in Requests, OrgRequest(q), UNCHANGED monVars
      PROVE  /\ \A p \in Requests : MonitorReqOK(req'[p])
             /\ \A c \in Clients : Unmet(c) /\ AppMix(c) => Unmet(c)'
  <2>1. Elsewhere(q) /\ ~Upserts(req[q]) /\ ~Upserts(req'[q])
    BY <1>2, <1>t, OrgSlot
  <2>2. ASSUME NEW c \in Clients, Unmet(c), AppMix(c) PROVE Unmet(c)'
    <3>1. Kept(c) /\ Touched(c) /\ (c \in mixed => c \in mixed')
      BY <1>2, <1>t, <2>1, <2>2, KeptElsewhere DEF monVars, Touched, SameTables, AppMix
    <3> QED
      BY <2>2, <3>1, UnmetRequest
  <2> QED
    BY <2>1, <2>2, ElsewhereMonitor
<1>3. ASSUME UNCHANGED <<req, monVars>>
      PROVE  /\ \A p \in Requests : MonitorReqOK(req'[p])
             /\ \A c \in Clients : Unmet(c) /\ AppMix(c) => Unmet(c)'
  <2>2. ASSUME NEW c \in Clients, Unmet(c), AppMix(c) PROVE Unmet(c)'
    <3>1. Kept(c) /\ Touched(c) /\ (c \in mixed => c \in mixed')
      BY <1>3, <2>2 DEF monVars, Touched, SameTables, AppMix, Kept, Saving, At, On
    <3> QED
      BY <2>2, <3>1, UnmetRequest
  <2> QED
    BY <1>3, <2>2
<1>4. OrgNext => (\E q \in Requests : OrgRequest(q)) \/ UNCHANGED req
  BY DEF OrgNext, DeleteDept, CreateDept, MoveUser, Once
<1> QED
  BY <1>1, <1>2, <1>3, <1>4 DEF AppNext

-----------------------------------------------------------------------------
(* Requests on the monitoring *)

\* A request on the monitoring keeps the requests typed.
LEMMA MonitorSlot ==
  ASSUME ReqsOK, NEW q \in Requests, OnlySlot(q), \A p \in Requests : MonitorReqOK(req[p]),
         \/ req'[q] = Idle
         \/ /\ req'[q].op = "monitor" /\ MonitorReqOK(req'[q])
            /\ req'[q].todo \subseteq Clients
            /\ req'[q].key = Nil \/ \E c \in Clients : req'[q].key = Mon(c)
  PROVE  ReqsOK' /\ \A p \in Requests : MonitorReqOK(req'[p])
<1>1. ReqOK(req'[q])
  <2>1. CASE req'[q] = Idle
    BY <2>1, IdleOK
  <2>2. CASE req'[q].op = "monitor" /\ MonitorReqOK(req'[q])
             /\ req'[q].todo \subseteq Clients
             /\ (req'[q].key = Nil \/ \E c \in Clients : req'[q].key = Mon(c))
    BY <2>2 DEF ReqOK, MonitorReqOK, Mon
  <2> QED
    BY <2>1, <2>2
<1>2. MonitorReqOK(req'[q])
  BY IdleIsReq DEF MonitorReqOK
<1> QED
  BY <1>1, <1>2, OneReq DEF OnlySlot

\* One that neither comes from the application nor goes to it keeps who saves
\* its configuration.
LEMMA KeptOther ==
  ASSUME ReqsOK, NEW q \in Requests, OnlySlot(q), NEW c \in Clients,
         req[q].op \in {"idle", "monitor"}, req'[q].op \in {"idle", "monitor"},
         req[q].key # Mon(c), req'[q].key # Mon(c)
  PROVE  Kept(c)
<1>1. \A p \in Requests \ {q} : req'[p] = req[p]
  BY DEF OnlySlot
<1>2. q \notin Saving(c) /\ q \notin Saving(c)'
  BY DEF Saving, At
<1>3. \A p \in Requests \ {q} : p \in Saving(c)' <=> p \in Saving(c)
  BY <1>1 DEF Saving, At, On
<1> QED
  BY <1>1, <1>2, <1>3 DEF Kept

\* The others save what they saved.
LEMMA OthersSave ==
  ASSUME NEW q \in Requests, OnlySlot(q), NEW c \in Clients, NEW p \in Requests \ {q}
  PROVE  (p \in Saving(c)' <=> p \in Saving(c)) /\ req'[p] = req[p]
<1>1. req'[p] = req[p]
  BY DEF OnlySlot
<1> QED
  BY <1>1 DEF Saving, At, On

\* What a step keeps of the tables, of the requests and of each application.
RequestKeeps ==
  /\ ReqsOK' /\ MonitorTypeOK' /\ \A p \in Requests : MonitorReqOK(req'[p])
  /\ \A c \in Clients : Unmet(c) => Unmet(c)'
  /\ \A c \in Clients : ongoing'[c] = ongoing[c] \/ ongoing'[c] = {}

\* Monitors that do not change keep their types.
LEMMA SameMonitors == MonitorTypeOK /\ UNCHANGED monVars => MonitorTypeOK'
BY DEF MonitorTypeOK, monVars

\* A request begins on the configuration of d, alone or mixed.
LEMMA TakesUp ==
  ASSUME ReqsOK, MonitorTypeOK, \A p \in Requests : MonitorReqOK(req[p]),
         NEW q \in Requests, NEW d \in Clients, OnlySlot(q),
         req[q].op \in {"idle", "monitor"}, \A c \in Clients : req[q].key # Mon(c),
         req'[q].op = "monitor", req'[q].pc = "first", req'[q].key = Mon(d),
         req'[q].in \in Monitors, req'[q].todo \subseteq Clients,
         \A c \in req'[q].todo : req'[q].row[c] \in Addresses,
         mon[d] = None => req'[q].in.status # "down",
         Mix(d), UNCHANGED <<probe, monVars>>
  PROVE  RequestKeeps
<1>k. \A c : Mon(c) # Nil \/ c \notin Clients
  BY MonitorAssumption DEF Mon
<1>1. ReqsOK' /\ \A p \in Requests : MonitorReqOK(req'[p])
  <2>1. MonitorReqOK(req'[q])
    BY <1>k DEF MonitorReqOK
  <2> QED
    BY <2>1, MonitorSlot
<1>2. /\ \A c \in Clients : Touched(c) /\ (c \in mixed => c \in mixed')
      /\ Quiet(d) \/ d \in mixed'
  BY DEF Touched, SameTables, monVars, Mix
<1>3. ASSUME NEW c \in Clients, Unmet(c) PROVE Unmet(c)'
  <2>1. CASE c # d
    <3>1. Kept(c)
      BY <2>1, KeptOther DEF Mon
    <3> QED
      BY <1>2, <1>3, <3>1, UnmetRequest
  <2>2. CASE c = d
    <3>1. SavePhase(q, c)'
      BY <2>2 DEF SavePhase, monVars
    <3>2. Enters(q, c)
      BY <1>2, <3>1, OthersSave DEF Enters
    <3> QED
      BY <1>2, <1>3, <2>2, <3>2, UnmetRequest
  <2> QED
    BY <2>1, <2>2
<1> QED
  BY <1>1, <1>3, SameMonitors DEF RequestKeeps, monVars

\* UpdateMonitoring
LEMMA UpdateMonitoringKeeps ==
  ASSUME ReqsOK, MonitorTypeOK, \A p \in Requests : MonitorReqOK(req[p]),
         NEW q \in Requests, NEW d \in Clients, NEW in \in MonitorEdits,
         UpdateMonitoring(q, d, in), UNCHANGED probe
  PROVE  RequestKeeps
<1>s. ReqShape /\ ReqOK(req[q])
  BY DEF ReqsOK
<1>1. PICK m : m = [enabled |-> Given(in.enabled, mon[d].enabled),
                    url |-> Given(in.url, mon[d].url),
                    maintenance |-> mon[d].maintenance, status |-> mon[d].status]
  OBVIOUS
<1>2. m \in Monitors
  <2>1. PICK o \in Monitors : o = mon[d]
    BY DEF UpdateMonitoring, MonitorTypeOK
  <2>2. in.enabled \in BOOLEAN \cup {Nil} /\ in.url \in Addresses \cup {Nil}
    BY MonitorAssumption
  <2>3. Given(in.enabled, o.enabled) \in BOOLEAN
    BY <2>2 DEF Given, Monitors
  <2>4. Given(in.url, o.url) \in Addresses
    BY <2>2 DEF Given, Monitors
  <2> QED
    BY <1>1, <2>1, <2>3, <2>4 DEF Monitors
<1>3. PICK key : key = Mon(d)
  OBVIOUS
<1>4. Begin(q, "monitor", "first", key, m, Nil, {})
  BY <1>1, <1>3 DEF UpdateMonitoring, Begin, Take
<1>5. Take(q, "monitor", "first", key, m, Nil, {}) /\ req[q].pc = "idle"
  BY <1>4, BeginReq
<1>6. /\ OnlySlot(q) /\ req'[q].op = "monitor" /\ req'[q].pc = "first" /\ req'[q].key = key
      /\ req'[q].in = m /\ req'[q].todo = {}
  BY <1>s, <1>5, TakeReq
<1>7. req[q].op = "idle" /\ req[q].key = Nil
  BY <1>5, <1>s, IdleIsReq DEF ReqOK
<1>8. \A c \in Clients : req[q].key # Mon(c)
  BY <1>7, MonitorAssumption DEF Mon
<1>9. mon[d] # None /\ Mix(d) /\ UNCHANGED monVars
  BY DEF UpdateMonitoring
<1> QED
  BY <1>2, <1>3, <1>6, <1>7, <1>8, <1>9, TakesUp

\* Sync comes to an application.
LEMMA SyncGetKeeps ==
  ASSUME ReqsOK, MonitorTypeOK, \A p \in Requests : MonitorReqOK(req[p]),
         NEW q \in Requests, NEW d \in Clients, SyncGet(q, d), UNCHANGED probe
  PROVE  RequestKeeps
<1>s. ReqShape /\ ReqOK(req[q]) /\ MonitorReqOK(req[q])
  BY DEF ReqsOK
<1>1. PICK r : r = req[q] /\ IsReq(r)
  BY <1>s, SlotIsReq
<1>2. PICK V : r \in ReqSlots(V)
  BY <1>1 DEF IsReq
<1>3. PICK rest : rest = r.todo \ {d}
  OBVIOUS
<1>4. /\ r.op = "monitor" /\ r.pc = "sync" /\ r.key = Nil /\ d \in r.todo
      /\ r.todo \subseteq Clients /\ \A c \in r.todo : r.row[c] \in Addresses
  BY <1>s, <1>1 DEF SyncGet, At, MonitorReqOK, ReqOK
<1>5. \A c \in Clients : req[q].key # Mon(c)
  BY <1>1, <1>4, MonitorAssumption DEF Mon
<1>6. UNCHANGED monVars
  BY DEF SyncGet
<1>7. CASE mon[d] = None
  <2>1. PICK m \in Monitors : m = NewMonitor(r.row[d]) /\ m.status = "no_data"
    BY <1>4, NewMonitorTyped
  <2>2. PICK key : key = Mon(d)
    OBVIOUS
  <2>3. PICK s : s = [r EXCEPT !.pc = "first", !.key = key, !.todo = rest, !.in = m]
    OBVIOUS
  <2>4. /\ s \in ReqSlots(V \cup {"first", key, rest, m})
        /\ s.op = r.op /\ s.pc = "first" /\ s.key = key /\ s.todo = rest /\ s.in = m
        /\ s.row = r.row
    BY <1>2, <2>3 DEF ReqSlots
  <2>5. req' = [req EXCEPT ![q] = s] /\ Mix(d)
    BY <1>1, <1>3, <1>7, <2>1, <2>2, <2>3 DEF SyncGet
  <2>6. OnlySlot(q) /\ req'[q] = s
    BY <1>s, <2>4, <2>5, ReqSet DEF IsReq
  <2>7. rest \subseteq Clients /\ \A c \in rest : r.row[c] \in Addresses
    BY <1>3, <1>4
  <2> QED
    BY <1>1, <1>4, <1>5, <1>6, <2>1, <2>2, <2>4, <2>5, <2>6, <2>7, TakesUp
<1>8. CASE mon[d] # None
  <2>1. PICK s : s = IF rest = {} THEN Idle ELSE [r EXCEPT !.todo = rest]
    OBVIOUS
  <2>2. req' = [req EXCEPT ![q] = s] /\ UNCHANGED mixed
    BY <1>1, <1>3, <1>8, <2>1 DEF SyncGet, Unmixed
  <2>3. IsReq(s) /\ s.key = Nil /\ (s = Idle \/ /\ s.op = "monitor" /\ s.pc = "sync"
                                                /\ s.todo = rest /\ s.row = r.row)
    <3>1. CASE rest = {}
      BY <2>1, <3>1, IdleIsReq
    <3>2. CASE rest # {}
      <4>1. /\ s \in ReqSlots(V \cup {rest}) /\ s.op = r.op /\ s.pc = r.pc /\ s.key = r.key
            /\ s.todo = rest /\ s.row = r.row
        BY <1>2, <2>1, <3>2 DEF ReqSlots
      <4> QED
        BY <1>4, <4>1 DEF IsReq
    <3> QED
      BY <3>1, <3>2
  <2>4. OnlySlot(q) /\ req'[q] = s
    BY <1>s, <2>2, <2>3, ReqSet
  <2>5. s = Idle \/ (s.op = "monitor" /\ MonitorReqOK(s) /\ s.todo \subseteq Clients)
    BY <1>3, <1>4, <2>3 DEF MonitorReqOK
  <2>6. ReqsOK' /\ \A p \in Requests : MonitorReqOK(req'[p])
    BY <2>3, <2>4, <2>5, MonitorSlot
  <2>7. ASSUME NEW c \in Clients, Unmet(c) PROVE Unmet(c)'
    <3>1. s.op \in {"idle", "monitor"} /\ s.key # Mon(c)
      BY <2>3, IdleIsReq, MonitorAssumption DEF Mon
    <3>2. Kept(c)
      BY <1>1, <1>4, <1>5, <2>4, <3>1, KeptOther
    <3>3. Touched(c) /\ (c \in mixed => c \in mixed')
      BY <1>6, <2>2 DEF Touched, SameTables, monVars
    <3> QED
      BY <2>7, <3>2, <3>3, UnmetRequest
  <2> QED
    BY <1>6, <2>6, <2>7, SameMonitors DEF RequestKeeps, monVars
<1> QED
  BY <1>7, <1>8

\* Sync lists the applications.
LEMMA SyncListKeeps ==
  ASSUME ReqsOK, MonitorTypeOK, \A p \in Requests : MonitorReqOK(req[p]),
         clients \in [Clients -> Rows \cup {None, Gone}],
         NEW q \in Requests, SyncList(q), UNCHANGED probe
  PROVE  RequestKeeps
<1>s. ReqShape /\ ReqOK(req[q])
  BY DEF ReqsOK
<1>1. PICK all : all = {c \in Clients \ {AdminConsole} : Registered(c)}
  OBVIOUS
<1>2. PICK in : in = [c \in all |-> clients[c].health]
  OBVIOUS
<1>3. Begin(q, "monitor", "sync", Nil, Nil, in, all)
  BY <1>1, <1>2 DEF SyncList, Begin, Take
<1>4. Take(q, "monitor", "sync", Nil, Nil, in, all) /\ req[q].pc = "idle"
  BY <1>3, BeginReq
<1>5. /\ OnlySlot(q) /\ req'[q].op = "monitor" /\ req'[q].pc = "sync" /\ req'[q].key = Nil
      /\ req'[q].row = in /\ req'[q].todo = all
  BY <1>s, <1>4, TakeReq
<1>6. req[q].op = "idle" /\ req[q].key = Nil
  BY <1>4, <1>s, IdleIsReq DEF ReqOK
<1>7. all \subseteq Clients /\ \A c \in all : in[c] \in Addresses
  BY <1>1, <1>2 DEF Registered, Rows
<1>8. ReqsOK' /\ \A p \in Requests : MonitorReqOK(req'[p])
  <2>1. MonitorReqOK(req'[q])
    BY <1>5, <1>7 DEF MonitorReqOK
  <2> QED
    BY <1>5, <1>7, <2>1, MonitorSlot
<1>9. UNCHANGED <<mixed, monVars>>
  BY DEF SyncList, Unmixed
<1>10. ASSUME NEW c \in Clients, Unmet(c) PROVE Unmet(c)'
  <2>1. Nil # Mon(c)
    BY MonitorAssumption DEF Mon
  <2>2. Kept(c)
    BY <1>5, <1>6, <2>1, KeptOther
  <2>3. Touched(c) /\ (c \in mixed => c \in mixed')
    BY <1>9 DEF Touched, SameTables, monVars
  <2> QED
    BY <1>10, <2>2, <2>3, UnmetRequest
<1> QED
  BY <1>8, <1>9, <1>10, SameMonitors DEF RequestKeeps, monVars

\* The configuration that a request works on.
LEMMA OnMonitor ==
  ASSUME NEW q \in Requests, ReqOK(req[q]), MonitorReqOK(req[q]), req[q].op = "monitor",
         req[q].pc # "sync"
  PROVE  On(q) \in Clients /\ req[q].key = Mon(On(q))
<1>1. req[q].key # Nil
  BY DEF MonitorReqOK
<1>2. PICK c \in Clients : req[q].key = Mon(c)
  BY <1>1 DEF ReqOK, Mon
<1> QED
  BY <1>2 DEF Mon, On

\* Upsert looks for the row.
LEMMA UpsertFirstKeeps ==
  ASSUME ReqsOK, MonitorTypeOK, \A p \in Requests : MonitorReqOK(req[p]),
         NEW q \in Requests, UpsertFirst(q), UNCHANGED probe
  PROVE  RequestKeeps
<1>s. ReqShape /\ ReqOK(req[q]) /\ MonitorReqOK(req[q])
  BY DEF ReqsOK
<1>1. PICK r : r = req[q] /\ IsReq(r)
  BY <1>s, SlotIsReq
<1>2. PICK V : r \in ReqSlots(V)
  BY <1>1 DEF IsReq
<1>3. r.op = "monitor" /\ r.pc = "first"
  BY <1>1 DEF UpsertFirst, At
<1>4. PICK d \in Clients : d = On(q) /\ r.key = Mon(d)
  BY <1>s, <1>1, <1>3, OnMonitor
<1>5. PICK seen \in Monitors \cup {None} : seen = mon[d]
  BY DEF MonitorTypeOK
<1>6. PICK s : s = [r EXCEPT !.pc = "upsert", !.seen = seen]
  OBVIOUS
<1>7. /\ s \in ReqSlots(V \cup {"upsert", seen}) /\ s.op = r.op /\ s.pc = "upsert"
      /\ s.key = r.key /\ s.in = r.in /\ s.row = r.row /\ s.todo = r.todo /\ s.seen = seen
  BY <1>2, <1>6 DEF ReqSlots
<1>8. req' = [req EXCEPT ![q] = s] /\ UNCHANGED <<mixed, monVars>>
  BY <1>1, <1>4, <1>5, <1>6 DEF UpsertFirst, Unmixed
<1>9. OnlySlot(q) /\ req'[q] = s
  BY <1>s, <1>7, <1>8, ReqSet DEF IsReq
<1>10. MonitorReqOK(s) /\ s.todo \subseteq Clients
  BY <1>s, <1>1, <1>3, <1>5, <1>7 DEF MonitorReqOK, ReqOK
<1>11. ReqsOK' /\ \A p \in Requests : MonitorReqOK(req'[p])
  BY <1>3, <1>4, <1>7, <1>9, <1>10, MonitorSlot
<1>12. ASSUME NEW c \in Clients, Unmet(c) PROVE Unmet(c)'
  <2>0. Touched(c) /\ (c \in mixed => c \in mixed')
    BY <1>8 DEF Touched, SameTables, monVars
  <2>1. CASE c # d
    <3>1. Kept(c)
      BY <1>1, <1>3, <1>4, <1>7, <1>9, <2>1, KeptOther DEF Mon
    <3> QED
      BY <1>12, <2>0, <3>1, UnmetRequest
  <2>2. CASE c = d /\ c \in mixed
    BY <1>8, <2>2 DEF Unmet
  <2>3. CASE c = d /\ c \notin mixed
    <3>1. q \in Saving(c)
      BY <1>1, <1>4, <2>3 DEF Saving
    <3>2. mon[c] = None => r.in.status # "down"
      BY <1>1, <1>3, <1>12, <2>3, <3>1 DEF Unmet, SavePhase
    <3>3. SavePhase(q, c)'
      BY <1>5, <1>7, <1>8, <1>9, <2>3, <3>2 DEF SavePhase, monVars
    <3>4. Enters(q, c)
      BY <1>9, <2>0, <3>3, OthersSave DEF Enters
    <3> QED
      BY <1>12, <2>0, <3>1, <3>4, UnmetRequest
  <2> QED
    BY <2>1, <2>2, <2>3
<1> QED
  BY <1>8, <1>11, <1>12, SameMonitors DEF RequestKeeps, monVars

\* Upsert saves what it makes of the row it has seen.
LEMMA UpsertWriteKeeps ==
  ASSUME ReqsOK, MonitorTypeOK, \A p \in Requests : MonitorReqOK(req[p]),
         NEW q \in Requests, UpsertWrite(q), UNCHANGED probe
  PROVE  RequestKeeps
<1>s. ReqShape /\ ReqOK(req[q]) /\ MonitorReqOK(req[q])
  BY DEF ReqsOK
<1>1. PICK r : r = req[q] /\ IsReq(r)
  BY <1>s, SlotIsReq
<1>2. PICK V : r \in ReqSlots(V)
  BY <1>1 DEF IsReq
<1>3. r.op = "monitor" /\ r.pc = "upsert"
  BY <1>1 DEF UpsertWrite, At
<1>4. PICK d \in Clients : d = On(q) /\ r.key = Mon(d)
  BY <1>s, <1>1, <1>3, OnMonitor
<1>5. PICK seen \in Monitors \cup {None} : seen = r.seen
  BY <1>s, <1>1, <1>3 DEF MonitorReqOK
<1>6. PICK m \in Monitors : m = r.in
  BY <1>s, <1>1, <1>3 DEF MonitorReqOK
<1>7. /\ mon' = Upserted(d, seen, m) /\ UNCHANGED <<mixed, ongoing, probed, worst>>
  BY <1>1, <1>4, <1>5, <1>6 DEF UpsertWrite, Unmixed, NoTables
<1>8. /\ mon' \in [Clients -> Monitors \cup {None}]
      /\ \A c \in Clients \ {d} : mon'[c] = mon[c]
      /\ mon'[d] # None
      /\ seen = None /\ mon[d] = None => mon'[d].status = m.status
      /\ seen = None /\ mon[d] # None => mon'[d] = mon[d]
      /\ seen # None => mon'[d].status = seen.status
  BY <1>7, UpsertSet
<1>9. PICK s : s = IF r.todo = {} THEN Idle ELSE [r EXCEPT !.pc = "sync", !.key = Nil]
  OBVIOUS
<1>10. req' = [req EXCEPT ![q] = s]
  BY <1>1, <1>9 DEF UpsertWrite, End
<1>11. IsReq(s) /\ s.key = Nil /\ (s = Idle \/ /\ s.op = "monitor" /\ s.pc = "sync"
                                               /\ s.todo = r.todo /\ s.row = r.row)
  <2>1. CASE r.todo = {}
    BY <1>9, <2>1, IdleIsReq
  <2>2. CASE r.todo # {}
    <3>1. /\ s \in ReqSlots(V \cup {"sync", Nil}) /\ s.op = r.op /\ s.pc = "sync"
          /\ s.key = Nil /\ s.todo = r.todo /\ s.row = r.row
      BY <1>2, <1>9, <2>2 DEF ReqSlots
    <3> QED
      BY <1>3, <3>1 DEF IsReq
  <2> QED
    BY <2>1, <2>2
<1>12. OnlySlot(q) /\ req'[q] = s
  BY <1>s, <1>10, <1>11, ReqSet
<1>13. s = Idle \/ (s.op = "monitor" /\ MonitorReqOK(s) /\ s.todo \subseteq Clients)
  BY <1>s, <1>1, <1>3, <1>11 DEF MonitorReqOK, ReqOK
<1>14. ReqsOK' /\ \A p \in Requests : MonitorReqOK(req'[p])
  BY <1>11, <1>12, <1>13, MonitorSlot
<1>15. MonitorTypeOK'
  BY <1>7, <1>8 DEF MonitorTypeOK
<1>16. ASSUME NEW c \in Clients, Unmet(c) PROVE Unmet(c)'
  <2>0. SameTables(c) /\ (c \in mixed => c \in mixed')
    BY <1>7 DEF SameTables
  <2>1. s.op \in {"idle", "monitor"} /\ \A x \in Clients : s.key # Mon(x)
    BY <1>11, IdleIsReq, MonitorAssumption DEF Mon
  <2>2. CASE c # d
    <3>1. Kept(c)
      BY <1>1, <1>3, <1>4, <1>12, <2>1, <2>2, KeptOther DEF Mon
    <3>2. Touched(c)
      BY <1>8, <2>0, <2>2 DEF Touched
    <3> QED
      BY <1>16, <2>0, <3>1, <3>2, UnmetRequest
  <2>3. CASE c = d
    <3>1. q \in Saving(c)
      BY <1>1, <1>4, <2>3 DEF Saving
    <3>2. q \notin Saving(c)'
      BY <1>12, <2>1 DEF Saving, At
    <3>3. Saves(q, c)
      BY <1>1, <1>3, <1>5, <1>6, <1>8, <1>12, <2>0, <2>3, <3>1, <3>2, OthersSave DEF Saves
    <3> QED
      BY <1>16, <2>0, <3>3, UnmetRequest
  <2> QED
    BY <2>2, <2>3
<1> QED
  BY <1>7, <1>14, <1>15, <1>16 DEF RequestKeeps

\* A request of one statement.
LEMMA OnceKeeps ==
  ASSUME ReqsOK, MonitorTypeOK, \A p \in Requests : MonitorReqOK(req[p]),
         NEW d \in Clients, UNCHANGED probe,
         DeleteMonitoring(d) \/ \E on \in BOOLEAN : Maintenance(d, on)
  PROVE  RequestKeeps
<1>1. UNCHANGED req
  BY OnceReq DEF DeleteMonitoring, Maintenance
<1>2. /\ ReqsOK' /\ \A p \in Requests : MonitorReqOK(req'[p])
      /\ \A c \in Clients : Kept(c)
  BY <1>1, SameReqs DEF Kept, Saving, At, On
<1>3. CASE DeleteMonitoring(d)
  <2>1. DeleteByClientID(d) /\ Mix(d)
    BY <1>3 DEF DeleteMonitoring
  <2>2. /\ MonitorTypeOK'
        /\ mon'[d] = None /\ ongoing'[d] = {} /\ probed'[d] = {} /\ worst'[d] = None
        /\ \A c \in Clients \ {d} :
             /\ mon'[c] = mon[c] /\ ongoing'[c] = ongoing[c]
             /\ probed'[c] = probed[c] /\ worst'[c] = worst[c]
    BY <2>1, DeleteTyped
  <2>3. ASSUME NEW c \in Clients, Unmet(c) PROVE Unmet(c)'
    <3>1. (c \in mixed => c \in mixed') /\ (c = d => Quiet(c) \/ c \in mixed')
      BY <2>1 DEF Mix
    <3>2. (c # d => Touched(c)) /\ (c = d => Removed(c))
      BY <2>2 DEF Touched, SameTables, Removed
    <3> QED
      BY <1>2, <2>3, <3>1, <3>2, UnmetRequest
  <2> QED
    BY <1>2, <2>2, <2>3 DEF RequestKeeps
<1>4. ASSUME NEW on \in BOOLEAN, Maintenance(d, on) PROVE RequestKeeps
  <2>1. PICK m \in Monitors : m = mon[d]
    BY <1>4 DEF Maintenance, MonitorTypeOK
  <2>2. PICK n : n = [m EXCEPT !.maintenance = on]
    OBVIOUS
  <2>3. n \in Monitors /\ n.status = m.status
    BY <2>2, ColumnsTyped
  <2>4. mon' = [mon EXCEPT ![d] = n] /\ UNCHANGED <<mixed, ongoing, probed, worst>>
    BY <1>4, <2>1, <2>2 DEF Maintenance, SetMaintenance, SetColumns, Put, Unmixed
  <2>5. /\ MonitorTypeOK' /\ mon'[d] = n /\ \A c \in Clients \ {d} : mon'[c] = mon[c]
    BY <2>3, <2>4 DEF MonitorTypeOK
  <2>6. n # None /\ m # None
    BY <2>3, AppAssumption
  <2>7. ASSUME NEW c \in Clients, Unmet(c) PROVE Unmet(c)'
    <3>1. Touched(c) /\ (c \in mixed => c \in mixed')
      BY <2>1, <2>3, <2>4, <2>5, <2>6 DEF Touched, SameTables
    <3> QED
      BY <1>2, <2>7, <3>1, UnmetRequest
  <2> QED
    BY <1>2, <2>4, <2>5, <2>7 DEF RequestKeeps
<1> QED
  BY <1>3, <1>4

\* Every request on the monitoring.
LEMMA MonitorRequestKeeps ==
  ASSUME AppTyped, \A p \in Requests : MonitorReqOK(req[p]), MonitorRequest, UNCHANGED probe
  PROVE  RequestKeeps
<1>1. ReqsOK /\ MonitorTypeOK /\ clients \in [Clients -> Rows \cup {None, Gone}]
  BY DEF AppTyped, AppTypeOK
<1> QED
  BY <1>1, SyncGetKeeps, UpdateMonitoringKeeps, UpsertFirstKeeps, UpsertWriteKeeps,
     SyncListKeeps, OnceKeeps DEF MonitorRequest

-----------------------------------------------------------------------------
(* Incident ids *)

\* A set of numbers that is not empty has a least one.
LEMMA LeastOf ==
  ASSUME NEW S, S \subseteq Nat, S # {}
  PROVE  Min(S) \in S
<1>1. PICK f : f = [i \in S |-> i]
  OBVIOUS
<1>2. \A i \in S : f[i] \in Nat /\ f[i] = i
  BY <1>1
<1>3. \E i \in S : \A j \in S : f[i] <= f[j]
  BY <1>2, LeastRule
<1>4. \E i \in S : \A j \in S : i <= j
  BY <1>2, <1>3
<1> QED
  BY <1>4 DEF Min

\* Finitely many incidents are known, so there is an id left.
LEMMA NewIdTyped ==
  ASSUME ongoing \in [Clients -> SUBSET Nat], probe \in [Probers -> ProbeRows],
         \A c \in Clients : IsFiniteSet(ongoing[c])
  PROVE  NewId \in Nat
<1> DEFINE Tables == {ongoing[c] : c \in Clients}
           Held == {probe[t].incident : t \in Probers}
           n == Cardinality(InUse)
           Free == (1 .. n + 1) \ InUse
<1>1. IsFiniteSet(UNION Tables)
  <2>1. ongoing \in Surjection(Clients, Tables)
    BY DEF Surjection
  <2>2. IsFiniteSet(Tables)
    BY <2>1, FS_Surjection, MonitorAssumption
  <2>3. \A T \in Tables : IsFiniteSet(T)
    OBVIOUS
  <2> HIDE DEF Tables
  <2> QED
    BY <2>2, <2>3, FS_UNION
<1>2. IsFiniteSet(Held)
  <2>1. IsFiniteSet(Probers)
    BY MonitorAssumption, FS_Union DEF Probers
  <2>2. PICK f : f = [t \in Probers |-> probe[t].incident]
    OBVIOUS
  <2>3. f \in Surjection(Probers, Held)
    BY <2>2 DEF Surjection
  <2> HIDE DEF Held
  <2> QED
    BY <2>1, <2>3, FS_Surjection
<1>3. IsFiniteSet(InUse)
  <2>1. InUse = (UNION Tables) \cup Held
    BY DEF InUse
  <2> HIDE DEF Tables, Held
  <2> QED
    BY <1>1, <1>2, <2>1, FS_Union
<1>4. n \in Nat
  BY <1>3, FS_CardinalityType
<1>5. Free # {}
  <2>1. SUFFICES ASSUME 1 .. n + 1 \subseteq InUse PROVE FALSE
    OBVIOUS
  <2>2. Cardinality(1 .. n + 1) = n + 1
    <3> HIDE DEF n
    <3> QED
      BY <1>4, FS_Interval
  <2>3. Cardinality(1 .. n + 1) <= n
    BY <1>3, <2>1, FS_Subset
  <2> HIDE DEF n
  <2> QED
    BY <1>4, <2>2, <2>3
<1>6. Free \subseteq Nat
  <2> HIDE DEF n
  <2> QED
    BY <1>4
<1>7. NewId = Min(Free)
  BY DEF NewId
<1> HIDE DEF Free
<1> QED
  BY <1>5, <1>6, <1>7, LeastOf

\* Who may create an incident of c: the goroutines of the requests, and the
\* one that the scheduler has for c.
LEMMA CreatorsFew ==
  ASSUME \A t \in Probers : ProbeOK(t), NEW c \in Clients
  PROVE  IsFiniteSet(Creators(c)) /\ Cardinality(Creators(c)) \in Nat
         /\ Cardinality(Creators(c)) <= Cardinality(Hands) + 1
<1>1. Creators(c) \subseteq Hands \cup {c}
  BY DEF Creators, ProbeOK, Probers
<1>2. IsFiniteSet(Hands \cup {c}) /\ Cardinality(Hands \cup {c}) = Cardinality(Hands) + 1
  BY MonitorAssumption, FS_AddElement
<1> QED
  BY <1>1, <1>2, FS_Subset, FS_CardinalityType

\* No incident and no creator more: no more than there were.
LEMMA FewLess ==
  ASSUME \A t \in Probers : ProbeOK(t), NEW c \in Clients, FewIncidents(c),
         ongoing'[c] \subseteq ongoing[c], Creators(c)' \subseteq Creators(c)
  PROVE  FewIncidents(c)'
<1>1. /\ IsFiniteSet(ongoing'[c]) /\ IsFiniteSet(Creators(c)')
      /\ Cardinality(ongoing'[c]) <= Cardinality(ongoing[c])
      /\ Cardinality(Creators(c)') <= Cardinality(Creators(c))
  BY CreatorsFew, FS_Subset DEF FewIncidents
<1>2. /\ Cardinality(ongoing'[c]) \in Nat /\ Cardinality(Creators(c)') \in Nat
      /\ Cardinality(ongoing[c]) \in Nat /\ Cardinality(Creators(c)) \in Nat
      /\ Cardinality(Hands) \in Nat
  BY <1>1, CreatorsFew, FS_CardinalityType, MonitorAssumption DEF FewIncidents
<1> QED
  BY <1>1, <1>2 DEF FewIncidents

-----------------------------------------------------------------------------
(* Probes *)

\* A goroutine that probes nothing.
LEMMA NoProbeIs ==
  /\ NoProbe \in ProbeRows /\ NoProbe.pc = "idle" /\ NoProbe.on = Nil
  /\ NoProbe.today /\ NoProbe.status = None
BY DEF NoProbe, ProbeRows, Addresses

\* Only the goroutine t goes on, from p to r.
Goes(t, r) == probe' = [probe EXCEPT ![t] = r]

\* The rows of the requests and the scheduler's other variables are left.
LEMMA ProbeSet ==
  ASSUME probe \in [Probers -> ProbeRows], \A t \in Probers : ProbeOK(t),
         NEW t \in Probers, NEW r \in ProbeRows, Goes(t, r),
         r.pc = "idle" => r = NoProbe,
         r.pc # "idle" => r.on \in Clients /\ (t \in Clients => r.on = t),
         r.pc \in {"record", "daily", "status"} => r.status \in Statuses,
         r.pc # "daily" => r.today
  PROVE  /\ probe' \in [Probers -> ProbeRows] /\ \A u \in Probers : ProbeOK(u)'
         /\ probe'[t] = r /\ \A u \in Probers \ {t} : probe'[u] = probe[u]
<1>1. /\ probe' \in [Probers -> ProbeRows] /\ probe'[t] = r
      /\ \A u \in Probers \ {t} : probe'[u] = probe[u]
  BY DEF Goes
<1>2. ASSUME NEW u \in Probers PROVE ProbeOK(u)'
  BY <1>1, <1>2 DEF ProbeOK
<1> QED
  BY <1>1, <1>2

\* The tables of c are left alone.
Untouched(c) == mon'[c] = mon[c] /\ SameTables(c)

\* A probe of another application.
LEMMA UnmetApart ==
  ASSUME NEW c \in Clients, Unmet(c), c \in mixed => c \in mixed', UNCHANGED req,
         Probing(c)' = Probing(c), \A t \in Probing(c) : probe'[t] = probe[t],
         Untouched(c)
  PROVE  Unmet(c)'
<1> SUFFICES ASSUME c \notin mixed' PROVE Unmet(c)'
  BY DEF Unmet
<1>1. Saving(c)' = Saving(c)
  BY DEF Saving, At, On
<1>2. \A q \in Saving(c) : SavePhase(q, c) => SavePhase(q, c)'
  BY DEF SavePhase, Untouched
<1>3. \A t \in Probing(c) : ProbePhase(t, c) => ProbePhase(t, c)'
  BY DEF ProbePhase, Untouched, SameTables, DayBut, DayOK
<1>4. (DownOK(c)' <=> DownOK(c)) /\ (DayOK(c)' <=> DayOK(c))
  BY DEF Untouched, SameTables, DownOK, DayOK
<1> QED
  BY <1>1, <1>2, <1>3, <1>4 DEF Unmet

\* The probe of c that overlaps nothing goes on, or is over.
LEMMA UnmetOwn ==
  ASSUME NEW c \in Clients, NEW t \in Probing(c), Unmet(c), UNCHANGED <<req, mixed>>,
         \A u \in Probers \ {t} : probe'[u] = probe[u],
         c \notin mixed => /\ probe'[t].on = c => ProbePhase(t, c)'
                           /\ \/ probe'[t].on = c /\ probe'[t].pc \in {"open", "create"}
                              \/ DownOK(c)'
                           /\ (probe'[t].on = c /\ probe'[t].pc = "daily") \/ DayOK(c)'
  PROVE  Unmet(c)'
<1> SUFFICES ASSUME c \notin mixed PROVE Unmet(c)'
  BY DEF Unmet
<1>1. Probing(c) = {t} /\ Saving(c) = {}
  BY DEF Unmet
<1>2. Probing(c)' = IF probe'[t].on = c THEN {t} ELSE {}
  <2>1. \A u \in Probers \ {t} : probe[u].on # c
    BY <1>1 DEF Probing
  <2>2. t \in Probers
    BY DEF Probing
  <2> QED
    BY <2>1, <2>2 DEF Probing
<1>3. Saving(c)' = {}
  BY <1>1 DEF Saving, At, On
<1> QED
  BY <1>2, <1>3 DEF Unmet

\* What a goroutine's step keeps of the tables and of each application.
ProbeKeeps ==
  /\ MonitorTypeOK'
  /\ probe' \in [Probers -> ProbeRows] /\ \A t \in Probers : ProbeOK(t)'
  /\ \A c \in Clients : FewIncidents(c)' /\ Unmet(c)'

ProbeHyp ==
  /\ MonitorTypeOK
  /\ probe \in [Probers -> ProbeRows] /\ \A t \in Probers : ProbeOK(t)
  /\ \A c \in Clients : FewIncidents(c) /\ Unmet(c)

\* A step that leaves the incidents, or takes some away, and adds no creator.
LEMMA ProbeStepKeeps ==
  ASSUME ProbeHyp, NEW t \in Probers, NEW d \in Clients, probe[t].on = d,
         NEW r \in ProbeRows, Goes(t, r), UNCHANGED <<req, mixed>>, MonitorTypeOK',
         r.pc = "idle" => r = NoProbe, r.pc # "idle" => r.on = d,
         r.pc \in {"record", "daily", "status"} => r.status \in Statuses,
         r.pc # "daily" => r.today,
         \A c \in Clients \ {d} : Untouched(c),
         \/ ongoing'[d] \subseteq ongoing[d] /\ (r.pc = "create" => probe[t].pc = "create")
         \/ FewIncidents(d)',
         d \notin mixed /\ ProbePhase(t, d)
           /\ (probe[t].pc \notin {"open", "create"} => DownOK(d))
           /\ (probe[t].pc # "daily" => DayOK(d))
           /\ probe'[t] = r =>
             /\ r.on = d => ProbePhase(t, d)'
             /\ (r.on = d /\ r.pc \in {"open", "create"}) \/ DownOK(d)'
             /\ (r.on = d /\ r.pc = "daily") \/ DayOK(d)'
  PROVE  ProbeKeeps
<1>h. /\ probe \in [Probers -> ProbeRows] /\ \A u \in Probers : ProbeOK(u)
      /\ \A c \in Clients : FewIncidents(c) /\ Unmet(c)
  BY DEF ProbeHyp
<1>0. probe[t].pc # "idle" /\ Nil \notin Clients
  BY <1>h, NoProbeIs, MonitorAssumption DEF ProbeOK
<1>d. t \in Clients => d = t
  BY <1>h, <1>0 DEF ProbeOK
<1>1. /\ probe' \in [Probers -> ProbeRows] /\ \A u \in Probers : ProbeOK(u)'
      /\ probe'[t] = r /\ \A u \in Probers \ {t} : probe'[u] = probe[u]
  BY <1>h, <1>d, ProbeSet
<1>2. r.on = d \/ r.on = Nil
  BY NoProbeIs
<1>3. ASSUME NEW c \in Clients \ {d} PROVE FewIncidents(c)' /\ Unmet(c)'
  <2>1. Probing(c)' = Probing(c) /\ t \notin Probing(c)
    BY <1>0, <1>1, <1>2, <1>3 DEF Probing
  <2>2. \A u \in Probing(c) : probe'[u] = probe[u]
    BY <1>1, <2>1 DEF Probing
  <2>3. Unmet(c)'
    BY <1>h, <1>3, <2>1, <2>2, UnmetApart
  <2>4. Creators(c)' \subseteq Creators(c)
    BY <2>1, <2>2 DEF Creators, Probing
  <2>5. FewIncidents(c)'
    BY <1>h, <1>3, <2>4, FewLess DEF Untouched, SameTables
  <2> QED
    BY <2>3, <2>5
<1>4. FewIncidents(d)'
  <2>1. CASE ongoing'[d] \subseteq ongoing[d] /\ (r.pc = "create" => probe[t].pc = "create")
    <3>1. Creators(d)' \subseteq Creators(d)
      BY <1>1, <2>1 DEF Creators
    <3> QED
      BY <1>h, <2>1, <3>1, FewLess
  <2> QED
    BY <2>1
<1>5. Unmet(d)'
  <2>1. t \in Probing(d)
    BY DEF Probing
  <2>2. d \notin mixed => /\ ProbePhase(t, d)
                          /\ probe[t].pc \notin {"open", "create"} => DownOK(d)
                          /\ probe[t].pc # "daily" => DayOK(d)
    BY <1>h, <2>1 DEF Unmet
  <2>3. d \notin mixed => /\ r.on = d => ProbePhase(t, d)'
                          /\ (r.on = d /\ r.pc \in {"open", "create"}) \/ DownOK(d)'
                          /\ (r.on = d /\ r.pc = "daily") \/ DayOK(d)'
    BY <1>1, <2>2
  <2> QED
    BY <1>h, <1>1, <2>1, <2>3, UnmetOwn
<1> QED
  BY <1>1, <1>3, <1>4, <1>5 DEF ProbeKeeps

\* The goroutine t is at a statement: what it works on.
LEMMA ProbeAt ==
  ASSUME ProbeHyp, NEW t \in Probers, probe[t].pc # "idle"
  PROVE  /\ probe[t] \in ProbeRows /\ probe[t].on \in Clients /\ ProbeOK(t)
         /\ t \in Clients => probe[t].on = t
BY DEF ProbeHyp, ProbeOK

\* Steps of the goroutine that leave the tables.
LEMMA PlainStep ==
  ASSUME ProbeHyp, NEW t \in Probers, NEW r \in ProbeRows, Goes(t, r), probe[t].pc # "idle",
         UNCHANGED <<req, mixed, monVars>>,
         r.pc = "idle" => r = NoProbe, r.pc # "idle" => r.on = probe[t].on,
         r.pc \in {"record", "status"} => r.status \in Statuses,
         r.pc # "daily", r.today,
         \/ r.pc = "create" => probe[t].pc = "create"
         \/ ongoing[probe[t].on] = {},
         ProbePhase(t, probe[t].on) => probe[t].pc # "daily" /\
           IF r.pc \in {"open", "create"} THEN probe[t].pc \in {"open", "create"}
           ELSE /\ \/ probe[t].pc \notin {"open", "create"}
                   \/ ongoing[probe[t].on] # {}
                /\ r.pc \in Measuring => probe[t].pc \in Measuring /\ r.prev = probe[t].prev
                /\ r.pc \in {"close", "resolve"} => probe[t].pc \in {"close", "resolve"}
  PROVE  ProbeKeeps
<1>1. PICK d \in Clients : d = probe[t].on
  BY ProbeAt
<1>2. /\ MonitorTypeOK /\ MonitorTypeOK'
      /\ \A c \in Clients : Untouched(c)
  BY SameMonitors DEF ProbeHyp, Untouched, SameTables, monVars
<1>3. ProbePhase(t, d) /\ (probe[t].pc \notin {"open", "create"} => DownOK(d))
        /\ (probe[t].pc # "daily" => DayOK(d)) /\ probe'[t] = r =>
        /\ r.on = d => ProbePhase(t, d)'
        /\ (r.on = d /\ r.pc \in {"open", "create"}) \/ DownOK(d)'
        /\ (r.on = d /\ r.pc = "daily") \/ DayOK(d)'
  <2> SUFFICES ASSUME ProbePhase(t, d), probe[t].pc \notin {"open", "create"} => DownOK(d),
                      probe[t].pc # "daily" => DayOK(d), probe'[t] = r
               PROVE  /\ r.on = d => ProbePhase(t, d)'
                      /\ (r.on = d /\ r.pc \in {"open", "create"}) \/ DownOK(d)'
                      /\ (r.on = d /\ r.pc = "daily") \/ DayOK(d)'
    OBVIOUS
  <2>1. DayOK(d)' /\ (DownOK(d)' <=> DownOK(d)) /\ mon'[d] = mon[d]
    BY <1>1, <1>2 DEF DayOK, DownOK, Untouched, SameTables
  <2>2. r.pc \in {"open", "create"} => r.on = d
    BY <1>1, NoProbeIs
  <2>3. r.pc \notin {"open", "create"} => DownOK(d)
    BY <1>1 DEF DownOK
  <2>4. r.on = d => ProbePhase(t, d)'
    BY <1>1, <2>1 DEF ProbePhase, Measuring
  <2> QED
    BY <2>1, <2>2, <2>3, <2>4
<1>4. \/ ongoing'[d] \subseteq ongoing[d] /\ (r.pc = "create" => probe[t].pc = "create")
      \/ FewIncidents(d)'
  <2>1. CASE ongoing[d] = {}
    <3>1. probe' \in [Probers -> ProbeRows] /\ \A u \in Probers : ProbeOK(u)'
      <4>1. /\ probe \in [Probers -> ProbeRows] /\ \A u \in Probers : ProbeOK(u)
            /\ t \in Clients => d = t
        BY <1>1, ProbeAt DEF ProbeHyp
      <4> QED
        BY <1>1, <4>1, ProbeSet
    <3>2. ongoing'[d] = {}
      BY <2>1 DEF monVars
    <3>3. /\ IsFiniteSet(Creators(d)') /\ Cardinality(Creators(d)') \in Nat
          /\ Cardinality(Creators(d)') <= Cardinality(Hands) + 1
      <4>1. Creators(d)' \subseteq Hands \cup {d}
        BY <3>1 DEF Creators, ProbeOK, Probers
      <4>2. IsFiniteSet(Hands \cup {d}) /\ Cardinality(Hands \cup {d}) = Cardinality(Hands) + 1
        BY MonitorAssumption, FS_AddElement
      <4> QED
        BY <4>1, <4>2, FS_Subset, FS_CardinalityType
    <3>4. Cardinality(Hands) \in Nat
      BY MonitorAssumption, FS_CardinalityType
    <3> QED
      BY <3>2, <3>3, <3>4, FS_EmptySet DEF FewIncidents
  <2> QED
    BY <1>1, <2>1 DEF monVars
<1>5. r.pc \in {"record", "daily", "status"} => r.status \in Statuses
  OBVIOUS
<1> QED
  BY <1>1, <1>2, <1>3, <1>4, <1>5, ProbeStepKeeps

\* Waiting, the request, and looking for incidents.
LEMMA AcquireKeeps ==
  ASSUME ProbeHyp, NEW t \in Probers, Acquire(t), UNCHANGED req
  PROVE  ProbeKeeps
<1>1. PICK p \in ProbeRows : p = probe[t]
  BY DEF ProbeHyp
<1>2. PICK r : r = [p EXCEPT !.pc = "http"]
  OBVIOUS
<1>3. /\ r \in ProbeRows /\ r.pc = "http" /\ r.on = p.on /\ r.today = p.today
      /\ r.prev = p.prev
  BY <1>2 DEF ProbeRows, Measuring
<1>4. p.pc = "queued" /\ Goes(t, r) /\ UNCHANGED <<mixed, monVars>>
  BY <1>1, <1>2 DEF Acquire, Goes
<1>5. p.today
  BY <1>1, <1>4 DEF ProbeHyp, ProbeOK
<1> QED
  BY <1>1, <1>3, <1>4, <1>5, PlainStep DEF Measuring

\* The answer of an application changes nothing but the probe.
LEMMA HttpKeeps ==
  ASSUME ProbeHyp, NEW t \in Probers, Http(t), UNCHANGED req
  PROVE  ProbeKeeps
<1>1. PICK p \in ProbeRows : p = probe[t]
  BY DEF ProbeHyp
<1>2. PICK s \in Statuses :
        probe' = [probe EXCEPT ![t] = [@ EXCEPT !.pc = "record", !.status = s, !.url = ""]]
  BY DEF Http, Statuses
<1>3. PICK r : r = [p EXCEPT !.pc = "record", !.status = s, !.url = ""]
  OBVIOUS
<1>4. /\ r \in ProbeRows /\ r.pc = "record" /\ r.on = p.on /\ r.today = p.today
      /\ r.prev = p.prev /\ r.status = s
  BY <1>3 DEF ProbeRows, Measuring, Addresses
<1>5. p.pc = "http" /\ Goes(t, r) /\ UNCHANGED <<mixed, monVars>>
  BY <1>1, <1>2, <1>3 DEF Http, Goes
<1>6. p.today
  BY <1>1, <1>5 DEF ProbeHyp, ProbeOK
<1> QED
  BY <1>1, <1>4, <1>5, <1>6, PlainStep DEF Measuring

\* Neither does the search for an incident to go on with,
LEMMA OpenIncidentKeeps ==
  ASSUME ProbeHyp, NEW t \in Probers, OpenIncident(t), UNCHANGED req
  PROVE  ProbeKeeps
<1>1. PICK p \in ProbeRows : p = probe[t]
  BY DEF ProbeHyp
<1>2. PICK r : r = IF ongoing[p.on] # {} THEN NoProbe ELSE [p EXCEPT !.pc = "create"]
  OBVIOUS
<1>3. p.pc = "open" /\ Goes(t, r) /\ UNCHANGED <<mixed, monVars>>
  BY <1>1, <1>2 DEF OpenIncident, Goes
<1>4. p.today
  BY <1>1, <1>3 DEF ProbeHyp, ProbeOK
<1>5. CASE ongoing[p.on] # {}
  <2>1. r = NoProbe
    BY <1>2, <1>5
  <2> QED
    BY <1>1, <1>3, <1>5, <2>1, NoProbeIs, PlainStep DEF Measuring
<1>6. CASE ongoing[p.on] = {}
  <2>1. r \in ProbeRows /\ r.pc = "create" /\ r.on = p.on /\ r.today = p.today
    BY <1>2, <1>6 DEF ProbeRows
  <2> QED
    BY <1>1, <1>3, <1>4, <1>6, <2>1, PlainStep DEF Measuring
<1> QED
  BY <1>5, <1>6

\* nor the one for the incident to close.
LEMMA CloseIncidentKeeps ==
  ASSUME ProbeHyp, NEW t \in Probers, CloseIncident(t), UNCHANGED req
  PROVE  ProbeKeeps
<1>1. PICK p \in ProbeRows : p = probe[t]
  BY DEF ProbeHyp
<1>2. PICK least : least = Min(ongoing[p.on])
  OBVIOUS
<1>3. PICK r : r = IF ongoing[p.on] = {} THEN NoProbe
                   ELSE [p EXCEPT !.pc = "resolve", !.incident = least]
  OBVIOUS
<1>4. p.pc = "close" /\ Goes(t, r) /\ UNCHANGED <<mixed, monVars>>
  BY <1>1, <1>2, <1>3 DEF CloseIncident, Goes
<1>5. p.today /\ p.on \in Clients
  BY <1>1, <1>4 DEF ProbeHyp, ProbeOK
<1>6. CASE ongoing[p.on] = {}
  <2>1. r = NoProbe
    BY <1>3, <1>6
  <2> QED
    BY <1>1, <1>4, <1>6, <2>1, NoProbeIs, PlainStep DEF Measuring
<1>7. CASE ongoing[p.on] # {}
  <2>1. ongoing[p.on] \subseteq Nat
    BY <1>5 DEF ProbeHyp, MonitorTypeOK
  <2>2. least \in Nat
    BY <1>2, <1>7, <2>1, LeastOf
  <2>3. r \in ProbeRows /\ r.pc = "resolve" /\ r.on = p.on /\ r.today = p.today
    BY <1>3, <1>7, <2>2 DEF ProbeRows
  <2> QED
    BY <1>1, <1>4, <1>5, <1>7, <2>3, PlainStep DEF Measuring
<1> QED
  BY <1>6, <1>7

\* Ranks are numbers.
LEMMA Ranks == \A s \in Statuses : Rank[s] \in Nat
BY DEF Rank, Statuses

\* RecordProbe, and the row of the day as UpsertDaily reads it.
LEMMA RecordKeeps ==
  ASSUME ProbeHyp, NEW t \in Probers, Record(t), UNCHANGED req
  PROVE  ProbeKeeps
<1>1. PICK p \in ProbeRows : p = probe[t]
  BY DEF ProbeHyp
<1>2. p.pc = "record" /\ UNCHANGED <<mixed, mon, ongoing, worst>>
  BY <1>1 DEF Record
<1>3. PICK d \in Clients : d = p.on
  BY <1>1, <1>2, ProbeAt
<1>4. p.today /\ p.status \in Statuses
  BY <1>1, <1>2 DEF ProbeHyp, ProbeOK
<1>5. PICK day \in Statuses \cup {None} : day = worst[d]
  BY DEF ProbeHyp, MonitorTypeOK
<1>6. PICK r : r = [p EXCEPT !.pc = "daily", !.day = day]
  OBVIOUS
<1>7. /\ r \in ProbeRows /\ r.pc = "daily" /\ r.on = d /\ r.today = p.today
      /\ r.prev = p.prev /\ r.status = p.status /\ r.day = day
  BY <1>3, <1>6 DEF ProbeRows, Measuring
<1>8. /\ Goes(t, r)
      /\ probed' = [probed EXCEPT ![d] = probed[d] \cup {p.status}]
  BY <1>1, <1>3, <1>5, <1>6 DEF Record, Goes
<1>9. /\ MonitorTypeOK /\ MonitorTypeOK'
      /\ probed'[d] = probed[d] \cup {p.status}
      /\ \A c \in Clients \ {d} : Untouched(c)
  BY <1>2, <1>4, <1>8 DEF ProbeHyp, MonitorTypeOK, Untouched, SameTables
<1>10. ASSUME ProbePhase(t, d), DownOK(d), DayOK(d), probe'[t] = r
       PROVE  ProbePhase(t, d)' /\ DownOK(d)'
  <2>1. DownOK(d)'
    BY <1>2, <1>10 DEF DownOK
  <2>2. DayBut(d, p.status, day)'
    <3>1. p.status \in probed'[d]
      BY <1>9
    <3>2. CASE day = None
      <4>1. probed[d] = {}
        <5>1. probed[d] \subseteq Statuses
          BY <1>9 DEF MonitorTypeOK
        <5> QED
          BY <1>5, <1>10, <3>2, <5>1, AppAssumption DEF DayOK
      <4> QED
        BY <1>9, <3>1, <3>2, <4>1 DEF DayBut
    <3>3. CASE day # None
      <4>1. day \in probed[d] /\ \A s \in probed[d] : Rank[s] <= Rank[day]
        BY <1>5, <1>10, <3>3 DEF DayOK
      <4> QED
        BY <1>9, <3>1, <3>3, <4>1 DEF DayBut
    <3> QED
      BY <3>2, <3>3
  <2>3. worst'[d] = day /\ mon'[d] = mon[d]
    BY <1>2, <1>5
  <2>4. mon[d] # None /\ p.prev = mon[d].status
    BY <1>1, <1>2, <1>10 DEF ProbePhase, Measuring
  <2>5. ProbePhase(t, d)'
    BY <1>4, <1>7, <1>10, <2>2, <2>3, <2>4 DEF ProbePhase
  <2> QED
    BY <2>1, <2>5
<1> QED
  BY <1>1, <1>2, <1>3, <1>4, <1>7, <1>8, <1>9, <1>10, ProbeStepKeeps

\* UpsertDaily saves the worse of the two.
LEMMA UpsertDailyKeeps ==
  ASSUME ProbeHyp, NEW t \in Probers, UpsertDaily(t), UNCHANGED req
  PROVE  ProbeKeeps
<1>1. PICK p \in ProbeRows : p = probe[t]
  BY DEF ProbeHyp
<1>2. p.pc = "daily" /\ UNCHANGED <<mixed, mon, ongoing, probed>>
  BY <1>1 DEF UpsertDaily
<1>3. PICK d \in Clients : d = p.on
  BY <1>1, <1>2, ProbeAt
<1>4. p.status \in Statuses /\ p.day \in Statuses \cup {None}
  BY <1>1, <1>2 DEF ProbeHyp, ProbeOK, ProbeRows
<1>5. PICK r : r = [p EXCEPT !.pc = "status", !.day = None, !.today = TRUE]
  OBVIOUS
<1>6. /\ r \in ProbeRows /\ r.pc = "status" /\ r.on = d /\ r.today
      /\ r.prev = p.prev /\ r.status = p.status
  BY <1>3, <1>5 DEF ProbeRows, Measuring
<1>7. PICK w : w = Worse(p.status, p.day)
  OBVIOUS
<1>8. w \in Statuses
  BY <1>4, <1>7 DEF Worse
<1>9. /\ Goes(t, r)
      /\ worst' = IF ~p.today \/ (p.day = None /\ worst[d] # None) THEN worst
                  ELSE [worst EXCEPT ![d] = w]
  BY <1>1, <1>3, <1>5, <1>7 DEF UpsertDaily, Goes
<1>10. /\ MonitorTypeOK /\ MonitorTypeOK'
       /\ \A c \in Clients \ {d} : Untouched(c)
  <2>1. MonitorTypeOK
    BY DEF ProbeHyp
  <2>2. worst' \in [Clients -> Statuses \cup {None}] /\ \A c \in Clients \ {d} : worst'[c] = worst[c]
    BY <1>8, <1>9, <2>1 DEF MonitorTypeOK
  <2> QED
    BY <1>2, <2>1, <2>2 DEF MonitorTypeOK, Untouched, SameTables
<1>11. ASSUME ProbePhase(t, d), DownOK(d), probe'[t] = r
       PROVE  ProbePhase(t, d)' /\ DownOK(d)' /\ DayOK(d)'
  <2>1. DownOK(d)'
    BY <1>2, <1>11 DEF DownOK
  <2>2. mon[d] # None /\ p.prev = mon[d].status
        /\ IF p.today THEN p.day = worst[d] /\ DayBut(d, p.status, p.day) ELSE DayOK(d)
    BY <1>1, <1>2, <1>11 DEF ProbePhase, Measuring
  <2>3. ProbePhase(t, d)'
    BY <1>2, <1>6, <1>11, <2>2 DEF ProbePhase
  <2>4. ASSUME ~p.today PROVE DayOK(d)'
    <3>1. worst' = worst /\ DayOK(d)
      BY <1>9, <2>2, <2>4
    <3> QED
      BY <1>2, <3>1 DEF DayOK
  <2>5. ASSUME p.today PROVE DayOK(d)'
    <3>1. worst'[d] = w
      BY <1>9, <1>10, <2>2, <2>5 DEF MonitorTypeOK
    <3>2. probed'[d] = probed[d] /\ probed[d] \subseteq Statuses
      BY <1>2, <1>10 DEF MonitorTypeOK
    <3>3. p.status \in probed[d]
      BY <2>2, <2>5 DEF DayBut
    <3>4. w \in probed[d] /\ \A s \in probed[d] : Rank[s] <= Rank[w]
      <4>1. CASE p.day = None
        BY <1>4, <1>7, <2>2, <2>5, <3>3, <4>1, Ranks DEF DayBut, Worse
      <4>2. CASE p.day # None
        <5>1. p.day \in probed[d] /\ \A s \in probed[d] : s = p.status \/ Rank[s] <= Rank[p.day]
          BY <2>2, <2>5, <4>2 DEF DayBut
        <5>2. CASE Rank[p.status] > Rank[p.day]
          <6>1. w = p.status
            BY <1>7, <5>2 DEF Worse
          <6> HIDE DEF Rank
          <6> QED
            BY <3>2, <3>3, <5>1, <5>2, <6>1, Ranks
        <5>3. CASE ~(Rank[p.status] > Rank[p.day])
          <6>1. w = p.day
            BY <1>7, <4>2, <5>3 DEF Worse
          <6>2. Rank[p.status] <= Rank[p.day]
            BY <3>2, <3>3, <5>1, <5>3, Ranks
          <6> QED
            BY <3>2, <5>1, <6>1, <6>2
        <5> QED
          BY <5>2, <5>3
      <4> QED
        BY <4>1, <4>2
    <3>5. probed'[d] # {}
      BY <3>2, <3>3
    <3>6. worst'[d] \in probed'[d]
      BY <3>1, <3>2, <3>4
    <3>7. \A s \in probed'[d] : Rank[s] <= Rank[worst'[d]]
      BY <3>1, <3>2, <3>4
    <3> QED
      BY <3>5, <3>6, <3>7 DEF DayOK
  <2> QED
    BY <2>1, <2>3, <2>4, <2>5
<1> QED
  BY <1>1, <1>2, <1>3, <1>4, <1>6, <1>9, <1>10, <1>11, ProbeStepKeeps

\* UpdateStatus, and what is decided from the row that was read.
LEMMA StatusSetKeeps ==
  ASSUME ProbeHyp, NEW t \in Probers, StatusSet(t), UNCHANGED req
  PROVE  ProbeKeeps
<1>1. PICK p \in ProbeRows : p = probe[t]
  BY DEF ProbeHyp
<1>2. p.pc = "status" /\ UNCHANGED mixed /\ UpdateStatus(p.on, p.status)
  BY <1>1 DEF StatusSet
<1>3. PICK d \in Clients : d = p.on
  BY <1>1, <1>2, ProbeAt
<1>4. p.status \in Statuses
  BY <1>1, <1>2 DEF ProbeHyp, ProbeOK
<1>5. PICK next : next = Then(p.status, p.prev)
  OBVIOUS
<1>6. PICK r : r = IF next = "idle" THEN NoProbe ELSE [NoProbe EXCEPT !.pc = next, !.on = d]
  OBVIOUS
<1>7. next \in {"idle", "open", "close"}
  BY <1>5 DEF Then
<1>8. /\ r \in ProbeRows /\ r.pc = next /\ r.on = (IF next = "idle" THEN Nil ELSE d) /\ r.today
      /\ next = "idle" => r = NoProbe
  <2>1. CASE next = "idle"
    BY <1>6, <2>1, NoProbeIs
  <2>2. CASE next # "idle"
    <3>1. r = [NoProbe EXCEPT !.pc = next, !.on = d] /\ next \in {"open", "close"}
      BY <1>6, <1>7, <2>2
    <3>2. r \in ProbeRows
      BY <3>1, NoProbeIs DEF ProbeRows
    <3>3. r.pc = next /\ r.on = d /\ r.today
      BY <3>1, NoProbeIs DEF ProbeRows
    <3> QED
      BY <2>2, <3>2, <3>3
  <2> QED
    BY <2>1, <2>2
<1>9. Goes(t, r)
  BY <1>1, <1>3, <1>5, <1>6 DEF StatusSet, Goes
<1>10. /\ MonitorTypeOK /\ MonitorTypeOK'
       /\ \A c \in Clients \ {d} : Untouched(c)
       /\ SameTables(d)
       /\ mon[d] # None => mon'[d] # None /\ mon'[d].status = p.status
  <2>1. MonitorTypeOK
    BY DEF ProbeHyp
  <2>2. UNCHANGED <<ongoing, probed, worst>>
    BY <1>2 DEF UpdateStatus
  <2>3. CASE mon[d] = None
    <3>1. mon' = mon
      BY <1>2, <1>3, <2>3 DEF UpdateStatus, SetColumns
    <3> QED
      BY <2>1, <2>2, <2>3, <3>1 DEF MonitorTypeOK, Untouched, SameTables
  <2>4. CASE mon[d] # None
    <3>1. PICK m \in Monitors : m = mon[d]
      BY <2>1, <2>4 DEF MonitorTypeOK
    <3>2. PICK n : n = [m EXCEPT !.status = p.status]
      OBVIOUS
    <3>3. n \in Monitors /\ n.status = p.status
      BY <1>4, <3>2, ColumnsTyped
    <3>4. mon' = [mon EXCEPT ![d] = n]
      BY <1>2, <1>3, <2>4, <3>1, <3>2 DEF UpdateStatus, SetColumns, Put
    <3>5. n # None
      BY <3>3, AppAssumption
    <3> QED
      BY <2>1, <2>2, <3>3, <3>4, <3>5 DEF MonitorTypeOK, Untouched, SameTables
  <2> QED
    BY <2>3, <2>4
<1>11. ASSUME ProbePhase(t, d), DownOK(d), DayOK(d), probe'[t] = r
       PROVE  /\ r.on = d => ProbePhase(t, d)'
              /\ (r.on = d /\ r.pc \in {"open", "create"}) \/ DownOK(d)'
              /\ DayOK(d)'
  <2>1. mon[d] # None /\ p.prev = mon[d].status
    BY <1>1, <1>2, <1>11 DEF ProbePhase, Measuring
  <2>2. mon'[d] # None /\ mon'[d].status = p.status
    BY <1>10, <2>1
  <2>3. DayOK(d)'
    BY <1>10, <1>11 DEF DayOK, SameTables
  <2>4. next = "open" => p.status = "down"
    BY <1>5 DEF Then
  <2>5. next = "close" => p.status = "up"
    BY <1>5 DEF Then
  <2>6. next # "open" => p.status # "down" \/ p.prev = "down"
    BY <1>5 DEF Then
  <2>7. r.on = d => ProbePhase(t, d)'
    <3>1. r.on = d => next # "idle"
      BY <1>8, MonitorAssumption
    <3> QED
      BY <1>7, <1>8, <1>11, <2>2, <2>4, <2>5, <3>1 DEF ProbePhase, Measuring
  <2>8. next # "open" => DownOK(d)'
    BY <1>10, <1>11, <2>1, <2>2, <2>6 DEF DownOK, SameTables
  <2> QED
    BY <1>8, <2>3, <2>7, <2>8
<1>12. ongoing'[d] \subseteq ongoing[d]
  BY <1>10 DEF SameTables
<1>13. r.pc \notin {"record", "daily", "status", "create"}
  BY <1>7, <1>8
<1>14. r.pc = "idle" => r = NoProbe
  BY <1>8
<1>15. r.pc # "idle" => r.on = d
  BY <1>8
<1> QED
  BY <1>1, <1>2, <1>3, <1>8, <1>9, <1>10, <1>11, <1>12, <1>13, <1>14, <1>15, ProbeStepKeeps

\* The incident that was looked for in vain is created.
LEMMA CreateIncidentKeeps ==
  ASSUME ProbeHyp, NEW t \in Probers, CreateIncident(t), UNCHANGED req
  PROVE  ProbeKeeps
<1>1. PICK p \in ProbeRows : p = probe[t]
  BY DEF ProbeHyp
<1>2. p.pc = "create" /\ UNCHANGED <<mixed, mon, probed, worst>>
  BY <1>1 DEF CreateIncident
<1>3. PICK d \in Clients : d = p.on
  BY <1>1, <1>2, ProbeAt
<1>h. /\ MonitorTypeOK /\ probe \in [Probers -> ProbeRows] /\ \A u \in Probers : ProbeOK(u)
      /\ \A c \in Clients : FewIncidents(c)
  BY DEF ProbeHyp
<1>4. PICK id \in Nat : id = NewId
  BY <1>h, NewIdTyped DEF MonitorTypeOK, FewIncidents
<1>5. Goes(t, NoProbe) /\ ongoing' = [ongoing EXCEPT ![d] = ongoing[d] \cup {id}]
  BY <1>1, <1>3, <1>4 DEF CreateIncident, Goes
<1>6. /\ MonitorTypeOK' /\ ongoing'[d] = ongoing[d] \cup {id}
      /\ \A c \in Clients \ {d} : Untouched(c)
  BY <1>2, <1>5, <1>h DEF MonitorTypeOK, Untouched, SameTables
<1>7. FewIncidents(d)'
  <2>1. /\ probe'[t] = NoProbe /\ \A u \in Probers \ {t} : probe'[u] = probe[u]
    BY <1>5, <1>h DEF Goes
  <2>2. Creators(d)' = Creators(d) \ {t} /\ t \in Creators(d)
    BY <1>1, <1>2, <1>3, <2>1, NoProbeIs DEF Creators
  <2>3. IsFiniteSet(Creators(d)) /\ Cardinality(Creators(d)) \in Nat
    BY <1>h, CreatorsFew
  <2>4. Cardinality(Creators(d)') = Cardinality(Creators(d)) - 1
    BY <2>2, <2>3, FS_RemoveElement
  <2>5. /\ IsFiniteSet(ongoing[d]) /\ Cardinality(ongoing[d]) \in Nat
        /\ Cardinality(ongoing[d]) + Cardinality(Creators(d)) <= Cardinality(Hands) + 1
    BY <1>h, FS_CardinalityType DEF FewIncidents
  <2>6. /\ IsFiniteSet(ongoing'[d]) /\ Cardinality(ongoing'[d]) \in Nat
        /\ Cardinality(ongoing'[d]) <= Cardinality(ongoing[d]) + 1
    <3>1. PICK S : S = ongoing[d] /\ IsFiniteSet(S)
      BY <2>5
    <3>2. /\ IsFiniteSet(S \cup {id})
          /\ Cardinality(S \cup {id}) = IF id \in S THEN Cardinality(S) ELSE Cardinality(S) + 1
      BY <3>1, FS_AddElement
    <3>3. Cardinality(S \cup {id}) \in Nat
      BY <3>2, FS_CardinalityType
    <3> QED
      BY <1>6, <2>5, <3>1, <3>2, <3>3
  <2>7. Cardinality(Hands) \in Nat
    BY MonitorAssumption, FS_CardinalityType
  <2> QED
    BY <2>3, <2>4, <2>5, <2>6, <2>7 DEF FewIncidents
<1>8. ASSUME ProbePhase(t, d), DayOK(d) PROVE DownOK(d)' /\ DayOK(d)'
  BY <1>2, <1>6, <1>8 DEF DownOK, DayOK
<1>9. NoProbe.on # d
  BY NoProbeIs, MonitorAssumption
<1> QED
  BY <1>1, <1>2, <1>3, <1>5, <1>6, <1>7, <1>8, <1>9, NoProbeIs, ProbeStepKeeps

\* The incident that was read is resolved.
LEMMA SaveIncidentKeeps ==
  ASSUME ProbeHyp, NEW t \in Probers, SaveIncident(t), UNCHANGED req
  PROVE  ProbeKeeps
<1>1. PICK p \in ProbeRows : p = probe[t]
  BY DEF ProbeHyp
<1>2. p.pc = "resolve" /\ UNCHANGED <<mixed, mon, probed, worst>>
  BY <1>1 DEF SaveIncident
<1>3. PICK d \in Clients : d = p.on
  BY <1>1, <1>2, ProbeAt
<1>4. PICK id : id = p.incident
  OBVIOUS
<1>5. Goes(t, NoProbe) /\ ongoing' = [ongoing EXCEPT ![d] = ongoing[d] \ {id}]
  BY <1>1, <1>3, <1>4 DEF SaveIncident, Goes
<1>6. /\ MonitorTypeOK' /\ ongoing'[d] \subseteq ongoing[d]
      /\ \A c \in Clients \ {d} : Untouched(c)
  BY <1>2, <1>5 DEF ProbeHyp, MonitorTypeOK, Untouched, SameTables
<1>7. ASSUME ProbePhase(t, d), DayOK(d) PROVE DownOK(d)' /\ DayOK(d)'
  <2>1. mon[d].status = "up"
    BY <1>1, <1>2, <1>7 DEF ProbePhase
  <2> QED
    BY <1>2, <1>7, <2>1 DEF DownOK, DayOK
<1>8. NoProbe.on # d
  BY NoProbeIs, MonitorAssumption
<1> QED
  BY <1>1, <1>2, <1>3, <1>5, <1>6, <1>7, <1>8, NoProbeIs, ProbeStepKeeps

-----------------------------------------------------------------------------
(* Probes begin, a day ends, and the process dies *)

\* What a goroutine is given of the row.
LEMMA StartedIs ==
  ASSUME MonitorTypeOK, NEW c \in Clients, mon[c] # None, NEW pc \in {"queued", "http"}
  PROVE  \E r \in ProbeRows : /\ r = Started(c, pc) /\ r.pc = pc /\ r.on = c /\ r.today
                              /\ r.prev = mon[c].status
<1>1. PICK m \in Monitors : m = mon[c]
  BY DEF MonitorTypeOK
<1>2. PICK r : r = [NoProbe EXCEPT !.pc = pc, !.on = c, !.url = m.url, !.prev = m.status]
  OBVIOUS
<1>3. m.url \in Addresses /\ m.status \in Statuses \cup {"no_data"}
  BY <1>1 DEF Monitors
<1>4. r \in ProbeRows
  BY <1>2, <1>3, NoProbeIs DEF ProbeRows, Measuring
<1>5. r.pc = pc /\ r.on = c /\ r.today /\ r.prev = m.status
  BY <1>2, NoProbeIs DEF ProbeRows
<1>6. r = Started(c, pc)
  BY <1>1, <1>2 DEF Started
<1> QED
  BY <1>1, <1>4, <1>5, <1>6

\* Probes that have not overlapped begin on what is there.
LEMMA UnmetBegun ==
  ASSUME NEW c \in Clients, NEW t \in Probers, Unmet(c), UNCHANGED req, Untouched(c),
         c \in mixed => c \in mixed', Quiet(c) \/ c \in mixed',
         Quiet(c) => Probing(c)' = {t},
         mon[c] # None, probe'[t].pc \in {"queued", "http"}, probe'[t].prev = mon[c].status
  PROVE  Unmet(c)'
<1> SUFFICES ASSUME c \notin mixed' PROVE Unmet(c)'
  BY DEF Unmet
<1>1. Probing(c)' = {t} /\ Saving(c)' = {}
  BY DEF Quiet, Saving, At, On
<1>2. DownOK(c) /\ DayOK(c)
  BY DEF Unmet, Quiet
<1>3. DownOK(c)' /\ DayOK(c)'
  BY <1>2 DEF DownOK, DayOK, Untouched, SameTables
<1>4. ProbePhase(t, c)'
  BY DEF ProbePhase, Untouched, Measuring
<1> QED
  BY <1>1, <1>3, <1>4 DEF Unmet

\* A probe by hand.
LEMMA ByHandKeeps ==
  ASSUME ProbeHyp, NEW t \in Hands, NEW d \in Clients, ProbeByClientID(t, d)
  PROVE  ProbeKeeps /\ UNCHANGED req
<1>h. /\ MonitorTypeOK /\ probe \in [Probers -> ProbeRows] /\ \A u \in Probers : ProbeOK(u)
      /\ \A c \in Clients : FewIncidents(c) /\ Unmet(c)
  BY DEF ProbeHyp
<1>1. PICK r \in ProbeRows : /\ r = Started(d, "http") /\ r.pc = "http" /\ r.on = d /\ r.today
                             /\ r.prev = mon[d].status
  BY <1>h, StartedIs DEF ProbeByClientID
<1>2. /\ Goes(t, r) /\ Mix(d) /\ UNCHANGED <<req, monVars>> /\ mon[d] # None
      /\ probe[t].pc = "idle" /\ t \in Probers /\ t \notin Clients
  BY <1>1, OnceReq, MonitorAssumption DEF ProbeByClientID, Goes, Probers
<1>3. /\ probe' \in [Probers -> ProbeRows] /\ \A u \in Probers : ProbeOK(u)'
      /\ probe'[t] = r /\ \A u \in Probers \ {t} : probe'[u] = probe[u]
  BY <1>h, <1>1, <1>2, ProbeSet
<1>4. probe[t].on = Nil /\ Nil \notin Clients
  BY <1>h, <1>2, NoProbeIs, MonitorAssumption DEF ProbeOK
<1>5. /\ \A c \in Clients : Untouched(c)
      /\ \A c \in Clients : c \in mixed => c \in mixed'
      /\ Quiet(d) \/ d \in mixed'
  BY <1>2 DEF Untouched, SameTables, monVars, Mix
<1>6. ASSUME NEW c \in Clients PROVE FewIncidents(c)'
  <2>1. Creators(c)' \subseteq Creators(c)
    BY <1>1, <1>3 DEF Creators
  <2> QED
    BY <1>h, <1>2, <2>1, FewLess DEF monVars
<1>7. ASSUME NEW c \in Clients \ {d} PROVE Unmet(c)'
  <2>1. Probing(c)' = Probing(c) /\ t \notin Probing(c)
    BY <1>1, <1>3, <1>4, <1>7 DEF Probing
  <2>2. \A u \in Probing(c) : probe'[u] = probe[u]
    BY <1>3, <2>1 DEF Probing
  <2> QED
    BY <1>h, <1>2, <1>5, <2>1, <2>2, UnmetApart
<1>8. Unmet(d)'
  <2>1. Quiet(d) => Probing(d)' = {t}
    <3>1. SUFFICES ASSUME Quiet(d) PROVE Probing(d)' = {t}
      OBVIOUS
    <3>2. \A u \in Probers : probe[u].on # d
      BY <3>1 DEF Quiet, Probing
    <3> QED
      BY <1>1, <1>2, <1>3, <3>2 DEF Probing
  <2> QED
    BY <1>h, <1>1, <1>2, <1>3, <1>5, <2>1, UnmetBegun
<1> QED
  BY <1>2, <1>h, <1>3, <1>6, <1>7, <1>8, SameMonitors DEF ProbeKeeps

\* A round of the scheduler.
LEMMA RunOnceKeeps ==
  ASSUME ProbeHyp, RunOnce, UNCHANGED req
  PROVE  ProbeKeeps
<1>h. /\ MonitorTypeOK /\ probe \in [Probers -> ProbeRows] /\ \A u \in Probers : ProbeOK(u)
      /\ \A c \in Clients : FewIncidents(c) /\ Unmet(c)
  BY DEF ProbeHyp
<1>1. /\ probe' = [t \in Probers |-> IF t \in Targets THEN Started(t, "queued") ELSE probe[t]]
      /\ mixed' = mixed \cup {c \in Targets : ~Quiet(c)} /\ UNCHANGED monVars
  BY DEF RunOnce
<1>2. Targets \subseteq Clients /\ \A c \in Targets : mon[c] # None
  BY DEF Targets, ListEnabled
<1>3. \A t \in Targets : /\ probe'[t] \in ProbeRows /\ probe'[t].pc = "queued"
                         /\ probe'[t].on = t /\ probe'[t].today
                         /\ probe'[t].prev = mon[t].status
  <2> TAKE t \in Targets
  <2>1. PICK r \in ProbeRows : /\ r = Started(t, "queued") /\ r.pc = "queued" /\ r.on = t
                               /\ r.today /\ r.prev = mon[t].status
    BY <1>h, <1>2, StartedIs
  <2> QED
    BY <1>1, <1>2, <2>1 DEF Probers
<1>4. \A t \in Probers \ Targets : probe'[t] = probe[t]
  BY <1>1
<1>5. probe' \in [Probers -> ProbeRows]
  BY <1>1, <1>3, <1>4, <1>h
<1>6. ASSUME NEW t \in Probers PROVE ProbeOK(t)'
  <2>1. CASE t \in Targets
    BY <1>2, <1>3, <2>1 DEF ProbeOK
  <2>2. CASE t \notin Targets
    BY <1>h, <1>4, <1>6, <2>2 DEF ProbeOK
  <2> QED
    BY <2>1, <2>2
<1>7. ASSUME NEW c \in Clients PROVE FewIncidents(c)'
  <2>1. Creators(c)' \subseteq Creators(c)
    BY <1>3, <1>4 DEF Creators
  <2> QED
    BY <1>1, <1>h, <2>1, FewLess DEF monVars
<1>8. /\ \A c \in Clients : Untouched(c)
      /\ \A c \in Clients : c \in mixed => c \in mixed'
      /\ \A c \in Targets : Quiet(c) \/ c \in mixed'
  BY <1>1 DEF Untouched, SameTables, monVars
<1>o. \A t \in Targets, c \in Clients : probe[t].on = c => t = c
  BY <1>2, <1>h, NoProbeIs, MonitorAssumption DEF ProbeOK, Probers
<1>9. ASSUME NEW c \in Clients \ Targets PROVE Unmet(c)'
  <2>1. Probing(c)' = Probing(c) /\ \A t \in Probing(c) : t \notin Targets
    BY <1>3, <1>4, <1>9, <1>o DEF Probing
  <2>2. \A t \in Probing(c) : probe'[t] = probe[t]
    BY <1>4, <2>1 DEF Probing
  <2> QED
    BY <1>h, <1>8, <2>1, <2>2, UnmetApart
<1>10. ASSUME NEW c \in Targets PROVE Unmet(c)'
  <2>1. Quiet(c) => Probing(c)' = {c}
    <3>1. SUFFICES ASSUME Quiet(c) PROVE Probing(c)' = {c}
      OBVIOUS
    <3>2. \A t \in Probers : probe[t].on # c
      BY <3>1 DEF Quiet, Probing
    <3> QED
      BY <1>2, <1>3, <1>4, <3>2 DEF Probing, Probers
  <2>2. c \in Clients /\ c \in Probers
    BY <1>2 DEF Probers
  <2> QED
    BY <1>h, <1>2, <1>3, <1>8, <2>1, <2>2, UnmetBegun
<1> QED
  BY <1>1, <1>h, <1>5, <1>6, <1>7, <1>9, <1>10, SameMonitors DEF ProbeKeeps

\* Midnight.
LEMMA NewDayKeeps ==
  ASSUME ProbeHyp, NewDay, UNCHANGED req
  PROVE  ProbeKeeps
<1>h. /\ MonitorTypeOK /\ probe \in [Probers -> ProbeRows] /\ \A u \in Probers : ProbeOK(u)
      /\ \A c \in Clients : FewIncidents(c) /\ Unmet(c)
  BY DEF ProbeHyp
<1>1. /\ probed' = [c \in Clients |-> {}] /\ worst' = [c \in Clients |-> None]
      /\ probe' = [t \in Probers |-> IF probe[t].pc = "daily"
                                     THEN [probe[t] EXCEPT !.today = FALSE] ELSE probe[t]]
      /\ UNCHANGED <<mixed, mon, ongoing>>
  BY DEF NewDay
<1>2. ASSUME NEW t \in Probers
      PROVE  /\ probe'[t] \in ProbeRows /\ probe'[t].pc = probe[t].pc
             /\ probe'[t].on = probe[t].on /\ probe'[t].prev = probe[t].prev
             /\ probe'[t].status = probe[t].status
             /\ probe[t].pc = "daily" => ~probe'[t].today
             /\ probe[t].pc # "daily" => probe'[t] = probe[t]
  <2>1. PICK p \in ProbeRows : p = probe[t]
    BY <1>h, <1>2
  <2>2. PICK r : r = [p EXCEPT !.today = FALSE]
    OBVIOUS
  <2>3. /\ r \in ProbeRows /\ r.pc = p.pc /\ r.on = p.on /\ r.prev = p.prev
        /\ r.status = p.status /\ r.today = FALSE
    BY <2>2 DEF ProbeRows
  <2>4. probe'[t] = IF p.pc = "daily" THEN r ELSE p
    BY <1>1, <1>2, <2>1, <2>2
  <2> QED
    BY <2>1, <2>3, <2>4
<1>3. probe' \in [Probers -> ProbeRows] /\ \A t \in Probers : ProbeOK(t)'
  <2>1. \A t \in Probers : ProbeOK(t)'
    BY <1>h, <1>2 DEF ProbeOK
  <2> QED
    BY <1>1, <1>2, <2>1
<1>4. MonitorTypeOK'
  BY <1>1, <1>h DEF MonitorTypeOK
<1>5. ASSUME NEW c \in Clients PROVE FewIncidents(c)'
  <2>1. Creators(c)' \subseteq Creators(c)
    BY <1>2 DEF Creators
  <2> QED
    BY <1>1, <1>h, <2>1, FewLess
<1>6. ASSUME NEW c \in Clients PROVE Unmet(c)'
  <2> SUFFICES ASSUME c \notin mixed' PROVE Unmet(c)'
    BY DEF Unmet
  <2>1. c \notin mixed /\ Probing(c)' = Probing(c) /\ Saving(c)' = Saving(c)
    BY <1>1, <1>2 DEF Probing, Saving, At, On
  <2>2. /\ \A t, u \in Probing(c) : t = u
        /\ \A p, q \in Saving(c) : p = q
        /\ Probing(c) = {} \/ Saving(c) = {}
        /\ \A t \in Probing(c) : ProbePhase(t, c)
        /\ \A q \in Saving(c) : SavePhase(q, c)
        /\ (\A t \in Probing(c) : probe[t].pc \notin {"open", "create"}) => DownOK(c)
    BY <1>h, <2>1 DEF Unmet
  <2>3. DayOK(c)'
    BY <1>1 DEF DayOK
  <2>4. DownOK(c)' <=> DownOK(c)
    BY <1>1 DEF DownOK
  <2>5. \A q \in Saving(c) : SavePhase(q, c)'
    BY <1>1, <2>2 DEF SavePhase
  <2>6. ASSUME NEW t \in Probing(c) PROVE ProbePhase(t, c)' /\ probe'[t].pc = probe[t].pc
    <3>1. ProbePhase(t, c) /\ t \in Probers
      BY <2>2 DEF Probing
    <3> QED
      BY <1>1, <1>2, <2>3, <3>1 DEF ProbePhase
  <2> QED
    BY <2>1, <2>2, <2>3, <2>4, <2>5, <2>6 DEF Unmet
<1> QED
  BY <1>3, <1>4, <1>5, <1>6 DEF ProbeKeeps

\* Every step of a probe.
LEMMA ProbeStepsKeep ==
  ASSUME ProbeHyp, NEW t \in Probers, ProbeStep(t), UNCHANGED req
  PROVE  ProbeKeeps
BY AcquireKeeps, HttpKeeps, RecordKeeps, UpsertDailyKeeps, StatusSetKeeps,
   OpenIncidentKeeps,
   CreateIncidentKeeps, CloseIncidentKeeps, SaveIncidentKeeps DEF ProbeStep

\* The process is started again: the configurations that are missing are added.
LEMMA RestartKeeps ==
  ASSUME AppTyped, ProbeHyp, \A p \in Requests : MonitorReqOK(req[p]), Restart
  PROVE  AppTyped' /\ ProbeKeeps /\ \A p \in Requests : MonitorReqOK(req'[p])
<1>h. /\ MonitorTypeOK /\ probe \in [Probers -> ProbeRows] /\ \A u \in Probers : ProbeOK(u)
      /\ \A c \in Clients : FewIncidents(c) /\ Unmet(c)
  BY DEF ProbeHyp
<1>t. clients \in [Clients -> Rows \cup {None, Gone}]
  BY DEF AppTyped, AppTypeOK
<1>1. /\ req' = [q \in Requests |-> Idle]
      /\ mixed' = (mixed \ {"interval"}) \cup {c \in Clients : ~Quiet(c)}
      /\ probe' = [t \in Probers |-> NoProbe]
      /\ mon' = [c \in Clients |-> IF Registered(c) /\ mon[c] = None
                                   THEN NewRow(NewMonitor(clients[c].health)) ELSE mon[c]]
      /\ UNCHANGED <<ongoing, probed, worst, orgVars, appVars>>
  BY DEF Restart
<1>2. ReqsOK' /\ \A p \in Requests : MonitorReqOK(req'[p])
  <2>1. ReqShape'
    <3>1. PICK V : Idle \in ReqSlots(V)
      BY IdleIsReq DEF IsReq
    <3> QED
      BY <1>1, <3>1 DEF ReqShape
  <2>2. MonitorReqOK(Idle)
    BY IdleIsReq DEF MonitorReqOK
  <2> QED
    BY <1>1, <2>1, <2>2, IdleOK DEF ReqsOK
<1>3. ASSUME NEW c \in Clients
      PROVE  /\ mon'[c] \in Monitors \cup {None}
             /\ mon'[c] = mon[c] \/ (mon'[c] # None /\ mon'[c].status = "no_data")
  <2>1. CASE Registered(c) /\ mon[c] = None
    <3>1. PICK url \in Addresses : url = clients[c].health
      BY <1>t, <2>1 DEF Registered, Rows
    <3>2. PICK m \in Monitors : m = NewMonitor(url) /\ m.status = "no_data"
      BY NewMonitorTyped
    <3>3. PICK n \in Monitors : n = NewRow(m) /\ n.status = "no_data"
      BY <3>2, NewRowTyped
    <3>4. mon'[c] = n
      BY <1>1, <2>1, <3>1, <3>2, <3>3
    <3> QED
      BY <3>3, <3>4, AppAssumption
  <2>2. CASE ~(Registered(c) /\ mon[c] = None)
    BY <1>1, <1>h, <2>2 DEF MonitorTypeOK
  <2> QED
    BY <2>1, <2>2
<1>4. MonitorTypeOK'
  <2>1. mon' \in [Clients -> Monitors \cup {None}]
    BY <1>1, <1>3
  <2> QED
    BY <1>1, <1>h, <2>1 DEF MonitorTypeOK
<1>5. AppTyped'
  BY <1>1, <1>2, <1>4 DEF AppTyped, AppTypeOK, OrgTypeOK, orgVars, appVars
<1>6. probe' \in [Probers -> ProbeRows] /\ \A t \in Probers : ProbeOK(t)'
  BY <1>1, NoProbeIs DEF ProbeOK
<1>7. ASSUME NEW c \in Clients PROVE FewIncidents(c)'
  <2>1. Creators(c)' \subseteq Creators(c)
    BY <1>1, NoProbeIs DEF Creators
  <2> QED
    BY <1>1, <1>h, <2>1, FewLess
<1>8. ASSUME NEW c \in Clients PROVE Unmet(c)'
  <2> SUFFICES ASSUME c \notin mixed' PROVE Unmet(c)'
    BY DEF Unmet
  <2>1. Quiet(c) /\ c \notin mixed
    BY <1>1, MonitorAssumption
  <2>2. DownOK(c) /\ DayOK(c)
    BY <1>h, <2>1 DEF Unmet, Quiet
  <2>3. Probing(c)' = {} /\ Saving(c)' = {}
    <3>1. Nil # c /\ Nil # Mon(c)
      BY MonitorAssumption DEF Mon
    <3> QED
      BY <1>1, <3>1, NoProbeIs, IdleIsReq DEF Probing, Saving, At
  <2>4. DownOK(c)' /\ DayOK(c)'
    <3>1. DayOK(c)'
      BY <1>1, <2>2 DEF DayOK
    <3>2. mon'[c] = mon[c] \/ mon'[c].status # "down"
      BY <1>3
    <3> QED
      BY <1>1, <2>2, <3>1, <3>2 DEF DownOK
  <2> QED
    BY <2>3, <2>4 DEF Unmet
<1> QED
  BY <1>2, <1>4, <1>5, <1>6, <1>7, <1>8 DEF ProbeKeeps

-----------------------------------------------------------------------------
(* The interval *)

\* A step that leaves the scheduler's variables.
LEMMA SettersApart ==
  ASSUME SettersOK, IntervalSound, UNCHANGED <<loop, interval, chan, stored, setter>>,
         "interval" \in mixed => "interval" \in mixed'
  PROVE  SettersOK' /\ IntervalSound'
<1>1. SettersOK'
  BY DEF SettersOK
<1>2. IntervalSound'
  BY DEF IntervalSound, Told, At_
<1> QED
  BY <1>1, <1>2

\* The loop.
LEMMA LoopInterval ==
  ASSUME SettersOK, IntervalSound, Loop
  PROVE  SettersOK' /\ IntervalSound'
<1>i. Intervals \subseteq Nat \ {0}
  BY MonitorAssumption
<1>l. loop \in [pc : {"run", "round", "select"}, ticker : Intervals \cup {0}]
      /\ chan \in Intervals \cup {0} /\ interval \in Intervals
  BY DEF SettersOK
<1>1. ASSUME UNCHANGED <<interval, stored, setter>>,
             "interval" \in mixed => "interval" \in mixed',
             chan' \in {0, chan},
             loop' \in [pc : {"run", "round", "select"}, ticker : Intervals \cup {0}],
             Told => Told'
      PROVE  SettersOK' /\ IntervalSound'
  <2>1. SettersOK'
    BY <1>1 DEF SettersOK
  <2>2. IntervalSound'
    BY <1>1 DEF IntervalSound, At_
  <2> QED
    BY <2>1, <2>2
<1>2. CASE RunOnce
  <2>1. loop' = [loop EXCEPT !.pc = "round"] /\ UNCHANGED <<interval, chan, stored, setter>>
        /\ ("interval" \in mixed => "interval" \in mixed')
    BY <1>2 DEF RunOnce
  <2>2. loop' \in [pc : {"run", "round", "select"}, ticker : Intervals \cup {0}]
        /\ loop'.ticker = loop.ticker
    BY <1>l, <2>1
  <2> QED
    BY <1>1, <2>1, <2>2 DEF Told
<1>3. CASE RoundOver
  <2>1. PICK k : k = IF loop.ticker = 0 THEN interval ELSE loop.ticker
    OBVIOUS
  <2>2. loop' = [pc |-> "select", ticker |-> k] /\ UNCHANGED <<interval, chan, stored, setter, mixed>>
    BY <1>3, <2>1 DEF RoundOver
  <2>3. loop' \in [pc : {"run", "round", "select"}, ticker : Intervals \cup {0}]
        /\ loop'.ticker = k
    BY <1>l, <2>1, <2>2
  <2> QED
    BY <1>1, <2>1, <2>2, <2>3 DEF Told
<1>4. CASE Tick
  <2>1. loop' = [loop EXCEPT !.pc = "run"] /\ UNCHANGED <<interval, chan, stored, setter, mixed>>
    BY <1>4 DEF Tick
  <2>2. loop' \in [pc : {"run", "round", "select"}, ticker : Intervals \cup {0}]
        /\ loop'.ticker = loop.ticker
    BY <1>l, <2>1
  <2> QED
    BY <1>1, <2>1, <2>2 DEF Told
<1>5. CASE NewTicker
  <2>1. /\ loop' = [pc |-> "run", ticker |-> chan] /\ chan # 0 /\ chan' = 0
        /\ UNCHANGED <<interval, stored, setter, mixed>>
    BY <1>5 DEF NewTicker
  <2>2. loop' \in [pc : {"run", "round", "select"}, ticker : Intervals \cup {0}]
        /\ loop'.ticker = chan
    BY <1>l, <2>1
  <2> QED
    BY <1>1, <2>1, <2>2 DEF Told
<1> QED
  BY <1>2, <1>3, <1>4, <1>5 DEF Loop

\* Who saves the interval sends it, or somebody overlapped.
LEMMA SaveInterval ==
  ASSUME SettersOK, IntervalSound, NEW s \in Setters,
         SetterStep(s) \/ \E v \in Intervals : SetConfig(s, v)
  PROVE  SettersOK' /\ IntervalSound'
<1> DEFINE SetterRows == [pc : {"idle", "lock", "send", "drain", "push"}, value : Intervals \cup {0}]
<1>i. Intervals \subseteq Nat \ {0} /\ 0 \notin Intervals
  BY MonitorAssumption
<1>l. /\ interval \in Intervals /\ stored \in Intervals /\ chan \in Intervals \cup {0}
      /\ loop \in [pc : {"run", "round", "select"}, ticker : Intervals \cup {0}]
      /\ setter \in [Setters -> SetterRows]
      /\ \A p \in Setters : setter[p].pc # "idle" => setter[p].value \in Intervals
  BY DEF SettersOK
<1>r. PICK x \in SetterRows : x = setter[s]
  BY <1>l
<1>n. NoSetter \in SetterRows /\ NoSetter.pc = "idle"
  BY DEF NoSetter
<1> HIDE DEF SetterRows
\* s goes on, with its value, or is over.
<1>g. ASSUME NEW y \in SetterRows, setter' = [setter EXCEPT ![s] = y],
             y.pc # "idle" => y.value \in Intervals, UNCHANGED <<loop>>,
             interval' \in Intervals, stored' \in Intervals, chan' \in Intervals \cup {0}
      PROVE  /\ SettersOK' /\ setter'[s] = y
             /\ \A p \in Setters \ {s} : setter'[p] = setter[p]
  BY <1>g, <1>l DEF SettersOK, SetterRows
<1>c. ASSUME ~At_(s, "idle"), NEW y \in SetterRows, setter' = [setter EXCEPT ![s] = y],
             y.pc # "idle" => y.value = x.value, UNCHANGED <<loop, stored, mixed>>,
             interval' \in Intervals, chan' \in Intervals \cup {0},
             "interval" \notin mixed /\ x.value = stored
               /\ (x.pc # "lock" => interval = stored) /\ (x.pc = "lock" => Told) =>
               /\ y.pc # "lock" => interval' = stored
               /\ y.pc \in {"idle", "lock"} => Told'
      PROVE  SettersOK' /\ IntervalSound'
  <2>1. /\ SettersOK' /\ setter'[s] = y
        /\ \A p \in Setters \ {s} : setter'[p] = setter[p]
    BY <1>c, <1>g, <1>l, <1>r DEF At_
  <2>2. SUFFICES ASSUME "interval" \notin mixed PROVE IntervalSound'
    BY <1>c, <2>1 DEF IntervalSound
  <2>3. \A p \in Setters \ {s} : setter[p].pc = "idle"
    BY <1>c, <2>2 DEF IntervalSound, At_
  <2>4. x.value = stored /\ (x.pc # "lock" => interval = stored)
    BY <1>c, <1>r, <2>2 DEF IntervalSound, At_
  <2>5. x.pc = "lock" => Told
    BY <1>r, <2>2, <2>3 DEF IntervalSound, At_
  <2>6. /\ y.pc # "lock" => interval' = stored
        /\ y.pc \in {"idle", "lock"} => Told'
    BY <1>c, <2>2, <2>4, <2>5
  <2> QED
    BY <1>c, <2>1, <2>3, <2>4, <2>6 DEF IntervalSound, At_
<1>1. ASSUME NEW v \in Intervals, SetConfig(s, v)
      PROVE  SettersOK' /\ IntervalSound'
  <2>1. PICK y : y = [pc |-> "lock", value |-> v]
    OBVIOUS
  <2>2. y \in SetterRows /\ y.pc = "lock" /\ y.value = v
    BY <2>1 DEF SetterRows
  <2>3. /\ setter' = [setter EXCEPT ![s] = y] /\ stored' = v /\ UNCHANGED <<loop, interval, chan>>
        /\ mixed' = IF \A p \in Setters : At_(p, "idle") THEN mixed ELSE mixed \cup {"interval"}
    BY <1>1, <2>1 DEF SetConfig
  <2>4. /\ SettersOK' /\ setter'[s] = y
        /\ \A p \in Setters \ {s} : setter'[p] = setter[p]
    BY <1>g, <1>l, <2>2, <2>3
  <2>5. SUFFICES ASSUME "interval" \notin mixed' PROVE IntervalSound'
    BY <2>4 DEF IntervalSound
  <2>6. "interval" \notin mixed /\ \A p \in Setters : At_(p, "idle")
    BY <2>3, <2>5
  <2>7. Told /\ Told'
    BY <2>3, <2>6 DEF IntervalSound, Told
  <2>8. \A p \in Setters \ {s} : setter'[p].pc = "idle"
    BY <2>4, <2>6 DEF At_
  <2> QED
    BY <2>2, <2>3, <2>4, <2>7, <2>8 DEF IntervalSound, At_
<1>2. ASSUME SetInterval(s) PROVE SettersOK' /\ IntervalSound'
  <2>1. x.pc = "lock" /\ ~At_(s, "idle") /\ interval' = x.value /\ x.value \in Intervals
        /\ UNCHANGED <<loop, chan, stored, mixed>>
    BY <1>2, <1>l, <1>r DEF SetInterval, At_, Rest
  <2>2. CASE interval = x.value
    <3>1. setter' = [setter EXCEPT ![s] = NoSetter]
      BY <1>2, <1>r, <2>2 DEF SetInterval, Done
    <3>2. x.value = stored /\ Told => Told'
      BY <2>1, <2>2 DEF Told
    <3> QED
      BY <1>c, <1>l, <1>n, <2>1, <3>1, <3>2
  <2>3. CASE interval # x.value
    <3>1. PICK y : y = [x EXCEPT !.pc = "send"]
      OBVIOUS
    <3>2. y \in SetterRows /\ y.pc = "send" /\ y.value = x.value
      BY <3>1 DEF SetterRows
    <3>3. setter' = [setter EXCEPT ![s] = y]
      BY <1>2, <1>r, <2>3, <3>1 DEF SetInterval, Step
    <3> QED
      BY <1>c, <1>l, <2>1, <3>2, <3>3
  <2> QED
    BY <2>2, <2>3
<1>3. ASSUME Send(s) PROVE SettersOK' /\ IntervalSound'
  <2>1. x.pc = "send" /\ ~At_(s, "idle") /\ x.value \in Intervals
        /\ UNCHANGED <<loop, interval, stored, mixed>>
    BY <1>3, <1>l, <1>r DEF Send, At_, Rest
  <2>2. CASE chan = 0
    <3>1. chan' = x.value /\ setter' = [setter EXCEPT ![s] = NoSetter]
      BY <1>3, <1>r, <2>2 DEF Send, Done
    <3>2. x.value = stored /\ interval = stored => Told' /\ interval' = stored
      BY <1>i, <2>1, <3>1 DEF Told
    <3> QED
      BY <1>c, <1>l, <1>n, <2>1, <3>1, <3>2
  <2>3. CASE chan # 0
    <3>1. PICK y : y = [x EXCEPT !.pc = "drain"]
      OBVIOUS
    <3>2. y \in SetterRows /\ y.pc = "drain" /\ y.value = x.value
      BY <3>1 DEF SetterRows
    <3>3. setter' = [setter EXCEPT ![s] = y] /\ chan' = chan
      BY <1>3, <1>r, <2>3, <3>1 DEF Send, Step
    <3> QED
      BY <1>c, <1>l, <2>1, <3>2, <3>3
  <2> QED
    BY <2>2, <2>3
<1>4. ASSUME Drain(s) PROVE SettersOK' /\ IntervalSound'
  <2>1. x.pc = "drain" /\ ~At_(s, "idle") /\ chan' = 0
        /\ UNCHANGED <<loop, interval, stored, mixed>>
    BY <1>4, <1>r DEF Drain, At_, Rest
  <2>2. PICK y : y = [x EXCEPT !.pc = "push"]
    OBVIOUS
  <2>3. y \in SetterRows /\ y.pc = "push" /\ y.value = x.value
    BY <2>2 DEF SetterRows
  <2>4. setter' = [setter EXCEPT ![s] = y]
    BY <1>4, <1>r, <2>2 DEF Drain, Step
  <2> QED
    BY <1>c, <1>l, <2>1, <2>3, <2>4
<1>5. ASSUME Push(s) PROVE SettersOK' /\ IntervalSound'
  <2>1. /\ x.pc = "push" /\ ~At_(s, "idle") /\ chan' = x.value /\ x.value \in Intervals
        /\ UNCHANGED <<loop, interval, stored, mixed>>
        /\ setter' = [setter EXCEPT ![s] = NoSetter]
    BY <1>5, <1>l, <1>r DEF Push, At_, Rest, Done
  <2>2. x.value = stored /\ interval = stored => Told' /\ interval' = stored
    BY <1>i, <2>1 DEF Told
  <2> QED
    BY <1>c, <1>l, <1>n, <2>1, <2>2
<1> QED
  BY <1>1, <1>2, <1>3, <1>4, <1>5 DEF SetterStep

-----------------------------------------------------------------------------
(* The specification *)

\* MonitorInv holds at the start.
LEMMA MonitorInitInv == Init => MonitorInv
<1> SUFFICES ASSUME Init PROVE MonitorInv
  OBVIOUS
<1>1. AppTyped /\ \A c \in Clients : mon[c] # None => mon[c].status = "no_data"
  <2>1. RequestsInit /\ OrgInit /\ AppInit
    BY DEF Init
  <2>2. ReqsOK
    <3>1. PICK V : Idle \in ReqSlots(V)
      BY IdleIsReq DEF IsReq
    <3> QED
      BY <2>1, <3>1, IdleOK DEF ReqsOK, ReqShape, RequestsInit
  <2>3. OrgTypeOK
    BY <2>1, OrgAssumption DEF OrgTypeOK, OrgInit, Parents
  <2>4. ASSUME NEW c \in Clients
        PROVE  /\ mon[c] \in Monitors \cup {None}
               /\ mon[c] # None => mon[c].status = "no_data"
    <3>1. CASE StartRows[c] = None
      BY <2>1, <2>4, <3>1 DEF AppInit
    <3>2. CASE StartRows[c] # None
      <4>1. PICK url \in Addresses : url = StartRows[c].health
        BY <2>4, <3>2, AppAssumption DEF Rows
      <4>2. PICK m \in Monitors : m = NewMonitor(url) /\ m.status = "no_data"
        BY NewMonitorTyped
      <4>3. PICK n \in Monitors : n = NewRow(m) /\ n.status = "no_data"
        BY <4>2, NewRowTyped
      <4>4. mon[c] = n
        BY <2>1, <2>4, <3>2, <4>1, <4>2, <4>3 DEF AppInit
      <4> QED
        BY <4>3, <4>4
    <3> QED
      BY <3>1, <3>2
  <2>5. MonitorTypeOK
    <3>1. mon \in [Clients -> Monitors \cup {None}]
      <4>1. \E f : mon = [c \in Clients |-> f[c]]
        BY <2>1 DEF AppInit
      <4> QED
        BY <2>4, <4>1
    <3> QED
      BY <2>1, <3>1 DEF MonitorTypeOK, AppInit
  <2>6. clients \in [Clients -> Rows \cup {None, Gone}] /\ grants \in [Clients -> SUBSET Principals]
        /\ minted \in Nat
    BY <2>1, AppAssumption DEF AppInit
  <2> QED
    BY <2>2, <2>3, <2>4, <2>5, <2>6 DEF AppTyped, AppTypeOK
<1>2. /\ req = [q \in Requests |-> Idle] /\ probe = [t \in Probers |-> NoProbe]
      /\ ongoing = [c \in Clients |-> {}] /\ probed = [c \in Clients |-> {}]
      /\ worst = [c \in Clients |-> None]
  BY DEF Init, RequestsInit, AppInit
<1>3. TablesOK
  <2>1. probe \in [Probers -> ProbeRows] /\ \A t \in Probers : ProbeOK(t)
    BY <1>2, NoProbeIs DEF ProbeOK
  <2>2. \A q \in Requests : MonitorReqOK(req[q])
    BY <1>2, IdleIsReq DEF MonitorReqOK
  <2> QED
    BY <1>1, <2>1, <2>2 DEF TablesOK
<1>4. SettersOK /\ IntervalSound
  <2>1. /\ loop = [pc |-> "run", ticker |-> 0]
        /\ interval = FirstInterval /\ chan = 0 /\ stored = FirstInterval
        /\ setter = [s \in Setters |-> NoSetter]
    BY DEF Init
  <2>2. loop.ticker = 0 /\ loop \in [pc : {"run", "round", "select"}, ticker : Intervals \cup {0}]
    BY <2>1
  <2>3. \A s \in Setters : setter[s].pc = "idle"
    BY <2>1 DEF NoSetter
  <2>4. SettersOK
    BY <2>1, <2>2, <2>3, MonitorAssumption DEF SettersOK, NoSetter
  <2>5. IntervalSound
    BY <2>1, <2>2, <2>3 DEF IntervalSound, Told, At_
  <2> QED
    BY <2>4, <2>5
<1>5. ASSUME NEW c \in Clients PROVE FewIncidents(c) /\ Unmet(c)
  <2>1. Nil # c /\ Nil # Mon(c)
    BY MonitorAssumption DEF Mon
  <2>2. Probing(c) = {} /\ Saving(c) = {} /\ Creators(c) = {}
    BY <1>2, <2>1, NoProbeIs, IdleIsReq DEF Probing, Saving, At, Creators
  <2>3. FewIncidents(c)
    <3>1. Cardinality(Hands) \in Nat
      BY MonitorAssumption, FS_CardinalityType
    <3> QED
      BY <1>2, <2>2, <3>1, FS_EmptySet DEF FewIncidents
  <2>4. DownOK(c) /\ DayOK(c)
    BY <1>1, <1>2 DEF DownOK, DayOK
  <2> QED
    BY <2>2, <2>3, <2>4 DEF Unmet
<1> QED
  BY <1>3, <1>4, <1>5 DEF MonitorInv

\* Every step.
LEMMA MonitorStep == MonitorInv /\ [Next]_vars => MonitorInv'
<1> SUFFICES ASSUME MonitorInv, [Next]_vars PROVE MonitorInv'
  OBVIOUS
<1>h. /\ TablesOK /\ SettersOK /\ IntervalSound /\ AppTyped /\ ProbeHyp
      /\ \A q \in Requests : MonitorReqOK(req[q])
      /\ \A c \in Clients : FewIncidents(c) /\ Unmet(c)
  BY DEF MonitorInv, TablesOK, ProbeHyp, AppTyped, AppTypeOK
<1>t. AppTyped /\ ReqsOK' /\ MonitorTypeOK' /\ UNCHANGED <<orgVars, appVars>> => AppTyped'
  BY DEF AppTyped, AppTypeOK, OrgTypeOK, orgVars, appVars
\* The requests and the tables are left alone by the scheduler.
<1>p. ASSUME ProbeKeeps, UNCHANGED <<req, orgVars, appVars>>, SettersOK', IntervalSound'
      PROVE  MonitorInv'
  <2>1. ReqsOK'
    BY <1>h, <1>p, SameReqs DEF AppTyped
  <2>2. AppTyped'
    BY <1>h, <1>p, <1>t, <2>1 DEF ProbeKeeps
  <2>3. \A q \in Requests : MonitorReqOK(req[q])'
    BY <1>h, <1>p
  <2>4. TablesOK'
    BY <1>p, <2>2, <2>3 DEF TablesOK, ProbeKeeps
  <2> QED
    BY <1>p, <2>4 DEF MonitorInv, ProbeKeeps
\* The scheduler is left alone by the requests.
<1>r. ASSUME AppTyped', \A q \in Requests : MonitorReqOK(req'[q]), UNCHANGED schedVars,
             "interval" \in mixed => "interval" \in mixed',
             \A c \in Clients : Unmet(c)' /\ (ongoing'[c] = ongoing[c] \/ ongoing'[c] = {})
      PROVE  MonitorInv'
  <2>1. SettersOK' /\ IntervalSound'
    BY <1>h, <1>r, SettersApart DEF schedVars
  <2>2. probe' = probe
    BY <1>r DEF schedVars
  <2>3. TablesOK'
    BY <1>h, <1>r, <2>2 DEF TablesOK, ProbeOK
  <2>4. \A c \in Clients : FewIncidents(c)'
    <3> TAKE c \in Clients
    <3>1. Creators(c)' \subseteq Creators(c)
      BY <2>2 DEF Creators, Probers
    <3>2. ongoing'[c] \subseteq ongoing[c]
      BY <1>r
    <3> QED
      BY <1>h, <3>1, <3>2, FewLess DEF ProbeHyp
  <2> QED
    BY <1>r, <2>1, <2>3, <2>4 DEF MonitorInv
\* Nothing is probed, and the tables stay.
<1>s. ASSUME UNCHANGED <<req, probe, monVars>>,
             "interval" \in mixed => "interval" \in mixed',
             \A c \in Clients : c \in mixed => c \in mixed'
      PROVE  ProbeKeeps
  <2>1. MonitorTypeOK' /\ probe' \in [Probers -> ProbeRows] /\ \A t \in Probers : ProbeOK(t)'
    BY <1>h, <1>s, SameMonitors DEF ProbeHyp, ProbeOK
  <2>2. ASSUME NEW c \in Clients PROVE FewIncidents(c)' /\ Unmet(c)'
    <3>1. Probing(c)' = Probing(c) /\ Creators(c)' = Creators(c) /\ Untouched(c)
      BY <1>s DEF Probing, Creators, Untouched, SameTables, monVars, Probers
    <3>2. FewIncidents(c)'
      BY <1>h, <1>s, <3>1, FewLess DEF ProbeHyp, Untouched, SameTables
    <3>3. \A t \in Probing(c) : probe'[t] = probe[t]
      BY <1>s
    <3>4. Unmet(c)'
      BY <1>h, <1>s, <2>2, <3>1, <3>3, UnmetApart
    <3> QED
      BY <3>2, <3>4
  <2> QED
    BY <2>1, <2>2 DEF ProbeKeeps
<1>1. CASE Scheduling /\ UNCHANGED <<reqVars, orgVars, appVars, crashes>>
  <2>0. UNCHANGED <<req, orgVars, appVars>>
    BY <1>1 DEF reqVars
  <2>1. CASE Loop
    <3>1. SettersOK' /\ IntervalSound'
      BY <1>h, <2>1, LoopInterval
    <3>2. ProbeKeeps
      <4>1. CASE RunOnce
        BY <1>h, <2>0, <4>1, RunOnceKeeps
      <4>2. CASE RoundOver \/ Tick \/ NewTicker
        BY <1>s, <2>0, <4>2 DEF RoundOver, Tick, NewTicker
      <4> QED
        BY <2>1, <4>1, <4>2 DEF Loop
    <3> QED
      BY <1>p, <2>0, <3>1, <3>2
  <2>2. ASSUME NEW t \in Probers, ProbeStep(t) PROVE MonitorInv'
    <3>1. ProbeKeeps
      BY <1>h, <2>0, <2>2, ProbeStepsKeep
    <3>2. UNCHANGED <<loop, interval, chan, stored, setter, mixed>>
      BY <2>2 DEF ProbeStep, Acquire, Http, Record, UpsertDaily, StatusSet, OpenIncident,
                  CreateIncident, CloseIncident, SaveIncident
    <3>3. SettersOK' /\ IntervalSound'
      BY <1>h, <3>2, SettersApart
    <3> QED
      BY <1>p, <2>0, <3>1, <3>3
  <2>3. CASE NewDay
    <3>1. ProbeKeeps
      BY <1>h, <2>0, <2>3, NewDayKeeps
    <3>2. SettersOK' /\ IntervalSound'
      BY <1>h, <2>3, SettersApart DEF NewDay
    <3> QED
      BY <1>p, <2>0, <3>1, <3>2
  <2>4. ASSUME NEW s \in Setters, SetterStep(s) \/ \E v \in Intervals : SetConfig(s, v)
        PROVE  MonitorInv'
    <3>1. SettersOK' /\ IntervalSound'
      BY <1>h, <2>4, SaveInterval
    <3>2. /\ UNCHANGED <<probe, monVars>> /\ ("interval" \in mixed => "interval" \in mixed')
          /\ \A c \in Clients : c \in mixed => c \in mixed'
      BY <2>4 DEF SetterStep, SetInterval, Send, Drain, Push, SetConfig, Rest
    <3>3. ProbeKeeps
      BY <1>s, <2>0, <3>2
    <3> QED
      BY <1>p, <2>0, <3>1, <3>3
  <2> QED
    BY <1>1, <2>1, <2>2, <2>3, <2>4 DEF Scheduling
<1>2. CASE MonitorRequest /\ UNCHANGED <<schedVars, orgVars, appVars, crashes>>
  <2>1. probe' = probe
    BY <1>2 DEF schedVars
  <2>2. RequestKeeps
    BY <1>2, <1>h, <2>1, MonitorRequestKeeps
  <2>3. AppTyped'
    BY <1>2, <1>h, <1>t, <2>2 DEF RequestKeeps
  <2>4. "interval" \in mixed => "interval" \in mixed'
    BY <1>2
       DEF MonitorRequest, SyncGet, UpdateMonitoring, UpsertFirst, UpsertWrite, SyncList,
                DeleteMonitoring, Maintenance, Mix, Unmixed
  <2> QED
    BY <1>2, <1>h, <1>r, <2>2, <2>3, <2>4 DEF RequestKeeps
<1>3. CASE /\ \E t \in Hands, c \in Clients : ProbeByClientID(t, c)
           /\ UNCHANGED <<orgVars, appVars, crashes>>
  <2>1. PICK t \in Hands, c \in Clients : ProbeByClientID(t, c)
    BY <1>3
  <2>2. ProbeKeeps /\ UNCHANGED req
    BY <1>h, <2>1, ByHandKeeps
  <2>3. SettersOK' /\ IntervalSound'
    BY <1>h, <2>1, SettersApart DEF ProbeByClientID, Mix
  <2> QED
    BY <1>3, <1>p, <2>2, <2>3
<1>4. CASE AppStep
  <2>1. AppNext /\ UNCHANGED schedVars /\ probe' = probe
    BY <1>4 DEF AppStep, schedVars
  <2>2. AppTyped'
    BY <1>h, <2>1, AppNextTyped
  <2>3. /\ \A p \in Requests : MonitorReqOK(req'[p])
        /\ \A c \in Clients : Unmet(c) /\ AppMix(c) => Unmet(c)'
    BY <1>h, <2>1, <2>2, AppNextUnmet
  <2>4. \A c \in Clients : AppMix(c)
    BY <1>4 DEF AppStep, AppMix
  <2>5. "interval" \in mixed => "interval" \in mixed'
    BY <1>4 DEF AppStep
  <2>6. \A c \in Clients : ongoing'[c] = ongoing[c] \/ ongoing'[c] = {}
    <3>1. MonitorTypeOK /\ ReqsOK
      BY <1>h DEF AppTyped, AppTypeOK
    <3>2. ASSUME NEW q \in Requests, AppRequest(q)
          PROVE  \A c \in Clients : ongoing'[c] = ongoing[c] \/ ongoing'[c] = {}
      <4>1. UNCHANGED monVars \/ CreateMonitor(q) \/ UpdateMonitor(q) \/ DeleteMonitor(q)
        BY <3>1, <3>2, AppSlot
      <4>2. UNCHANGED ongoing \/ \E d : ongoing' = [ongoing EXCEPT ![d] = {}]
        BY <4>1 DEF monVars, CreateMonitor, UpdateMonitor, DeleteMonitor, UpdateHealthURL,
                    DeleteByClientID
      <4> QED
        BY <3>1, <4>2 DEF MonitorTypeOK
    <3> QED
      BY <2>1, <3>2 DEF AppNext, monVars
  <2> QED
    BY <1>h, <1>r, <2>1, <2>2, <2>3, <2>4, <2>5, <2>6
<1>5. CASE Restart
  <2>1. AppTyped' /\ ProbeKeeps /\ \A p \in Requests : MonitorReqOK(req'[p])
    BY <1>h, <1>5, RestartKeeps
  <2>2. /\ loop' = [pc |-> "run", ticker |-> 0] /\ interval' = stored /\ stored' = stored
        /\ chan' = 0 /\ setter' = [s \in Setters |-> NoSetter]
    BY <1>5 DEF Restart
  <2>3. /\ loop'.ticker = 0
        /\ loop' \in [pc : {"run", "round", "select"}, ticker : Intervals \cup {0}]
        /\ \A s \in Setters : setter'[s].pc = "idle"
    BY <2>2 DEF NoSetter
  <2>4. SettersOK' /\ IntervalSound'
    <3>1. SettersOK'
      BY <1>h, <2>2, <2>3 DEF SettersOK, NoSetter
    <3>2. IntervalSound'
      BY <2>2, <2>3 DEF IntervalSound, Told, At_
    <3> QED
      BY <3>1, <3>2
  <2> QED
    BY <2>1, <2>4 DEF MonitorInv, TablesOK, ProbeKeeps
<1>6. CASE UNCHANGED vars
  <2>1. UNCHANGED <<req, orgVars, appVars, monVars, schedVars, mixed>>
    BY <1>6 DEF vars, reqVars
  <2>2. ProbeKeeps
    BY <1>s, <2>1 DEF schedVars
  <2>3. SettersOK' /\ IntervalSound'
    BY <1>h, <2>1, SettersApart DEF schedVars
  <2> QED
    BY <1>p, <2>1, <2>2, <2>3
<1> QED
  BY <1>1, <1>2, <1>3, <1>4, <1>5, <1>6 DEF Next

\* Every state of the specification satisfies the invariant.
LEMMA MonitorInvariant == Spec => []MonitorInv
BY MonitorInitInv, MonitorStep, PTL DEF Spec

\* The invariant says what the run checks.
LEMMA MonitorInvImplies ==
  MonitorInv => OngoingBounded /\ DownHasIncident /\ DayAgrees /\ IntervalAgrees
<1> SUFFICES ASSUME MonitorInv
             PROVE  OngoingBounded /\ DownHasIncident /\ DayAgrees /\ IntervalAgrees
  OBVIOUS
<1>h. /\ SettersOK /\ IntervalSound /\ \A t \in Probers : ProbeOK(t)
      /\ \A c \in Clients : FewIncidents(c) /\ Unmet(c)
  BY DEF MonitorInv, TablesOK
<1>1. OngoingBounded
  <2>1. ASSUME NEW c \in Clients PROVE Cardinality(ongoing[c]) <= Cardinality(Hands) + 1
    <3>1. /\ Cardinality(ongoing[c]) \in Nat /\ Cardinality(Creators(c)) \in Nat
          /\ Cardinality(ongoing[c]) + Cardinality(Creators(c)) <= Cardinality(Hands) + 1
      BY <1>h, CreatorsFew, FS_CardinalityType DEF FewIncidents
    <3>2. Cardinality(Hands) \in Nat
      BY MonitorAssumption, FS_CardinalityType
    <3> QED
      BY <3>1, <3>2
  <2> QED
    BY <2>1 DEF OngoingBounded
<1>2. \A c \in Clients : c \notin mixed /\ Quiet(c) => DownOK(c) /\ DayOK(c)
  BY <1>h DEF Unmet, Quiet
<1>3. DownHasIncident
  BY <1>2 DEF DownHasIncident, DownOK
<1>4. DayAgrees
  BY <1>2 DEF DayAgrees, DayOK
<1>5. IntervalAgrees
  BY <1>h DEF IntervalAgrees, IntervalSound, Told, At_
<1> QED
  BY <1>1, <1>3, <1>4, <1>5

\* However many outages, restarts and deletions there are, an application has
\* no more incidents that are open than goroutines may be probing it.
THEOREM FewOngoing == Spec => []OngoingBounded
BY MonitorInvariant, MonitorInvImplies, PTL

\* An application that is shown as down has an incident, as long as probes and
\* edits of it have not overlapped (monitor/scheduler.go).
THEOREM DownIsRecorded == Spec => []DownHasIncident
BY MonitorInvariant, MonitorInvImplies, PTL

\* The row of the day is the worst of the probes of that day (monitor_repo.go).
THEOREM DayIsTheWorst == Spec => []DayAgrees
BY MonitorInvariant, MonitorInvImplies, PTL

\* The ticker of the scheduler ends with the interval that is stored, unless
\* two saves overlapped (SetInterval).
THEOREM TickerIsStored == Spec => []IntervalAgrees
BY MonitorInvariant, MonitorInvImplies, PTL
=============================================================================
