------------------------- MODULE AccessControlProofs -------------------------
(* Proofs about AccessControl, for any numbers of departments, groups, rules, *)
(* applications and overlapping requests.  The lemmas on AppNext also serve   *)
(* AppMonitorProofs.                                                          *)
EXTENDS AccessControl, FiniteSetTheorems, WellFoundedInduction, TLAPS

-----------------------------------------------------------------------------
(* Requests *)

\* A request, with values from V in its fields.
ReqSlots(V) ==
  [op : V, pc : V, key : V, in : V, row : V, seen : V, todo : V]

IsReq(r) == \E V : r \in ReqSlots(V)
ReqShape == \E V : req \in [Requests -> ReqSlots(V)]

\* Only the slot q has changed.
OnlySlot(q) == ReqShape' /\ \A p \in Requests \ {q} : req'[p] = req[p]

\* Every slot holds a request.
LEMMA SlotIsReq == ReqShape => \A q \in Requests : IsReq(req[q])
BY DEF ReqShape, IsReq

\* A slot is given another request.
LEMMA ReqSet ==
  ASSUME ReqShape, NEW q \in Requests, NEW r, IsReq(r), req' = [req EXCEPT ![q] = r]
  PROVE  OnlySlot(q) /\ req'[q] = r
<1>1. PICK W : r \in ReqSlots(W)
  BY DEF IsReq
<1>2. PICK V : req \in [Requests -> ReqSlots(V)]
  BY DEF ReqShape
<1>3. \A p : p \in ReqSlots(V) => p \in ReqSlots(V \cup W)
  BY DEF ReqSlots
<1>4. \A p : p \in ReqSlots(W) => p \in ReqSlots(V \cup W)
  BY DEF ReqSlots
<1>5. req' \in [Requests -> ReqSlots(V \cup W)]
  BY <1>1, <1>2, <1>3, <1>4
<1> QED
  BY <1>2, <1>5 DEF OnlySlot, ReqShape

\* A record with the seven fields is a request.
LEMMA RecordIsReq ==
  ASSUME NEW op, NEW pc, NEW key, NEW in, NEW row, NEW seen, NEW todo
  PROVE  IsReq([op |-> op, pc |-> pc, key |-> key, in |-> in, row |-> row,
                seen |-> seen, todo |-> todo])
<1> DEFINE V == {op, pc, key, in, row, seen, todo}
<1>1. [op |-> op, pc |-> pc, key |-> key, in |-> in, row |-> row,
       seen |-> seen, todo |-> todo] \in ReqSlots(V)
  BY DEF ReqSlots
<1> QED
  BY <1>1 DEF IsReq

\* The idle request is one.
LEMMA IdleIsReq ==
  /\ IsReq(Idle)
  /\ Idle.op = "idle" /\ Idle.pc = "idle" /\ Idle.key = Nil /\ Idle.todo = {}
BY RecordIsReq DEF Idle

\* A request that goes on keeps its fields but those that are set.
LEMMA PcSet ==
  ASSUME NEW r, IsReq(r), NEW pc
  PROVE  LET s == [r EXCEPT !.pc = pc]
         IN  /\ IsReq(s) /\ s.pc = pc /\ s.op = r.op /\ s.key = r.key /\ s.in = r.in
             /\ s.row = r.row /\ s.seen = r.seen /\ s.todo = r.todo
<1>1. PICK V : r \in ReqSlots(V)
  BY DEF IsReq
<1> DEFINE s == [r EXCEPT !.pc = pc]
<1>2. s \in ReqSlots(V \cup {pc})
  BY <1>1 DEF ReqSlots
<1>3. /\ s.pc = pc /\ s.op = r.op /\ s.key = r.key /\ s.in = r.in
      /\ s.row = r.row /\ s.seen = r.seen /\ s.todo = r.todo
  BY <1>1 DEF ReqSlots
<1> QED
  BY <1>2, <1>3 DEF IsReq

\* A request that takes up a key is the record it is given.
LEMMA TakeReq ==
  ASSUME ReqShape, NEW q \in Requests, NEW op, NEW pc, NEW key, NEW in, NEW row, NEW todo,
         Take(q, op, pc, key, in, row, todo)
  PROVE  /\ OnlySlot(q)
         /\ req'[q].op = op /\ req'[q].pc = pc /\ req'[q].key = key /\ req'[q].in = in
         /\ req'[q].row = row /\ req'[q].seen = Nil /\ req'[q].todo = todo
         /\ raced \subseteq raced'
         /\ (\E p \in Requests \ {q} : req[p].key = key) => key \in raced'
<1> DEFINE r == [op |-> op, pc |-> pc, key |-> key, in |-> in, row |-> row,
                 seen |-> Nil, todo |-> todo]
<1>1. req' = [req EXCEPT ![q] = r]
  BY DEF Take
<1>2. OnlySlot(q) /\ req'[q] = r
  BY <1>1, ReqSet, RecordIsReq
<1>3. /\ raced \subseteq raced'
      /\ (\E p \in Requests \ {q} : req[p].key = key) => key \in raced'
  BY DEF Take
<1> QED
  BY <1>2, <1>3

\* So does one that goes on to another statement.
LEMMA GotoReq ==
  ASSUME ReqShape, NEW q \in Requests, NEW pc, Goto(q, pc)
  PROVE  /\ OnlySlot(q) /\ UNCHANGED <<started, raced>>
         /\ req'[q].pc = pc /\ req'[q].op = req[q].op /\ req'[q].key = req[q].key
         /\ req'[q].in = req[q].in /\ req'[q].row = req[q].row
         /\ req'[q].seen = req[q].seen /\ req'[q].todo = req[q].todo
<1>1. PICK r : r = req[q] /\ IsReq(r)
  BY SlotIsReq
<1>2. PICK s : s = [r EXCEPT !.pc = pc]
  OBVIOUS
<1>3. /\ IsReq(s) /\ s.pc = pc /\ s.op = r.op /\ s.key = r.key /\ s.in = r.in
      /\ s.row = r.row /\ s.seen = r.seen /\ s.todo = r.todo
  BY <1>1, <1>2, PcSet
<1>4. req' = [req EXCEPT ![q] = s]
  BY <1>1, <1>2 DEF Goto
<1>5. OnlySlot(q) /\ req'[q] = s
  BY <1>3, <1>4, ReqSet
<1>6. UNCHANGED <<started, raced>>
  BY DEF Goto
<1> QED
  BY <1>1, <1>3, <1>5, <1>6

\* And one that is over.
LEMMA EndReq ==
  ASSUME ReqShape, NEW q \in Requests, End(q)
  PROVE  OnlySlot(q) /\ req'[q] = Idle /\ UNCHANGED <<started, raced>>
<1>1. PICK r : r = Idle
  OBVIOUS
<1> QED
  BY <1>1, ReqSet, IdleIsReq DEF End

\* A batch goes on to the next id, or is over.
LEMMA ThroughReq ==
  ASSUME ReqShape, NEW q \in Requests, Through(q)
  PROVE  /\ OnlySlot(q) /\ UNCHANGED <<started, raced>>
         /\ \/ req'[q] = Idle
            \/ /\ req'[q].pc = "next" /\ req'[q].key = Nil /\ req'[q].op = req[q].op
               /\ req'[q].in = req[q].in /\ req'[q].todo = req[q].todo
<1>1. CASE req[q].todo = {}
  BY <1>1, EndReq DEF Through
<1>2. CASE req[q].todo # {}
  <2>1. PICK r : r = req[q] /\ IsReq(r)
    BY SlotIsReq
  <2>2. PICK V : r \in ReqSlots(V)
    BY <2>1 DEF IsReq
  <2>3. PICK s : s = [r EXCEPT !.pc = "next", !.key = Nil, !.row = Nil]
    OBVIOUS
  <2>4. s \in ReqSlots(V \cup {"next", Nil})
    BY <2>2, <2>3 DEF ReqSlots
  <2>5. s.pc = "next" /\ s.key = Nil /\ s.op = r.op /\ s.in = r.in /\ s.todo = r.todo
    BY <2>2, <2>3 DEF ReqSlots
  <2>6. req' = [req EXCEPT ![q] = s] /\ UNCHANGED <<started, raced>>
    BY <1>2, <2>1, <2>3 DEF Through
  <2>7. OnlySlot(q) /\ req'[q] = s
    BY <2>4, <2>6, ReqSet DEF IsReq
  <2> QED
    BY <2>1, <2>5, <2>6, <2>7
<1> QED
  BY <1>1, <1>2

\* Begin is a Take by an idle slot.
LEMMA BeginReq ==
  ASSUME NEW q \in Requests, NEW op, NEW pc, NEW key, NEW in, NEW row, NEW todo,
         Begin(q, op, pc, key, in, row, todo)
  PROVE  /\ Take(q, op, pc, key, in, row, todo)
         /\ req[q].pc = "idle" /\ started < MaxRequests /\ started' = started + 1
BY DEF Begin

-----------------------------------------------------------------------------
(* Types *)

OnClient(r) == \E c \in Clients : r.key = App(c)

\* What a request holds, by its operation and the statement it is at.
ReqOK(r) ==
  /\ r.pc = "idle" => r = Idle
  /\ r.pc = "next" => r.op \in {"update", "delete"}
  /\ r.todo \subseteq Clients
  /\ r.op \in {"idle", "dept", "group", "members", "create", "update", "rotate",
               "delete", "toggle", "rule", "monitor"}
  /\ r.op = "idle" => r.key = Nil
  /\ r.op = "dept" => r.key = Tree /\ r.in \in Depts /\ r.row \in Parents
  /\ r.op = "group" => \E g \in Groups : r.key = <<"group", g>>
  /\ r.op = "members" => (\E g \in Groups : r.key = <<"group", g>>) /\ r.in \in SUBSET Users
  /\ r.op = "create" =>
       /\ OnClient(r) /\ r.row \in Rows /\ r.in \in CreateSent
       /\ r.pc \in {"grant", "monitor", "upsert"}
       /\ r.pc = "upsert" => r.seen \in Monitors \cup {None}
  /\ r.op = "update" =>
       /\ r.in \in UpdateSent
       /\ \/ r.pc = "next" /\ r.key = Nil
          \/ r.pc \in {"save", "monitor", "grants"} /\ OnClient(r) /\ r.row \in Rows
  /\ r.op = "rotate" => r.pc = "save" /\ OnClient(r) /\ r.row \in Rows
  /\ r.op = "delete" =>
       \/ r.pc = "next" /\ r.key = Nil
       \/ r.pc \in {"monitor", "grants", "row"} /\ OnClient(r)
  /\ r.op = "toggle" =>
       \/ r.pc = "reload" /\ OnClient(r) /\ r.in \in UpdateSent
       \/ r.pc = "set" /\ (\E i \in Rules : r.key = Rule(i)) /\ r.in \in BOOLEAN
  /\ r.op = "rule" =>
       r.pc = "save" /\ (\E i \in Rules : r.key = Rule(i)) /\ r.in \in RuleRows
  /\ r.op = "monitor" => r.key = Nil \/ \E c \in Clients : r.key = <<"monitor", c>>

ReqsOK == ReqShape /\ \A q \in Requests : ReqOK(req[q])

AppTyped == AppTypeOK /\ ReqsOK

\* One slot changes, to a request that is typed.
LEMMA OneReq ==
  ASSUME ReqsOK, NEW q \in Requests, OnlySlot(q), ReqOK(req'[q])
  PROVE  ReqsOK'
BY DEF ReqsOK, OnlySlot, ReqShape

\* The idle request is typed.
LEMMA IdleOK == ReqOK(Idle)
BY IdleIsReq DEF ReqOK, Idle

\* A request that is over leaves the others as they are.
LEMMA EndOK ==
  ASSUME ReqsOK, NEW q \in Requests, OnlySlot(q), req'[q] = Idle
  PROVE  ReqsOK'
BY OneReq, IdleOK

\* A request of one statement changes no slot.
LEMMA OnceReq ==
  ASSUME NEW key, Once(key)
  PROVE  /\ UNCHANGED req /\ raced \subseteq raced' /\ (Busy(key) => key \in raced')
         /\ started < MaxRequests /\ started' = started + 1
BY DEF Once

\* Requests that do not change stay sound.
LEMMA SameReqs == ReqsOK /\ UNCHANGED req => ReqsOK'
BY DEF ReqsOK, ReqShape

\* The departments, the groups and their members.
LEMMA OrgTyped ==
  ASSUME OrgTypeOK, ReqsOK, OrgNext
  PROVE  OrgTypeOK' /\ ReqsOK'
<1> USE OrgAssumption DEF OrgTypeOK
<1>s. ReqShape /\ \A q \in Requests : ReqOK(req[q])
  BY DEF ReqsOK
<1>i. Issued \subseteq Parents
  BY DEF Issued, Parents
<1>1. ASSUME NEW d \in Depts, DeleteDept(d) PROVE OrgTypeOK' /\ ReqsOK'
  BY <1>1, OnceReq, SameReqs DEF DeleteDept, SaveDept
<1>2. ASSUME NEW d \in Depts, NEW p \in Issued, CreateDept(d, p)
      PROVE  OrgTypeOK' /\ ReqsOK'
  BY <1>2, <1>i, OnceReq, SameReqs DEF CreateDept, SaveDept
<1>3. ASSUME NEW u \in Users, NEW d \in Depts, MoveUser(u, d)
      PROVE  OrgTypeOK' /\ ReqsOK'
  <2>1. UNCHANGED req
    BY <1>3 DEF MoveUser, Once
  <2> QED
    BY <1>3, <2>1, SameReqs DEF MoveUser
\* A request on the tree begins.
<1>4. ASSUME NEW q \in Requests, NEW pc, NEW d \in Depts, NEW p \in Issued,
             pc \notin {"idle", "next"}, Begin(q, "dept", pc, Tree, d, p, {})
      PROVE  ReqsOK'
  <2>1. Take(q, "dept", pc, Tree, d, p, {})
    BY <1>4 DEF Begin
  <2>2. /\ OnlySlot(q) /\ req'[q].op = "dept" /\ req'[q].pc = pc /\ req'[q].key = Tree
        /\ req'[q].in = d /\ req'[q].row = p /\ req'[q].todo = {}
    BY <1>s, <2>1, TakeReq
  <2>3. ReqOK(req'[q])
    BY <1>4, <1>i, <2>2 DEF ReqOK
  <2> QED
    BY <2>2, <2>3, OneReq
<1>5. ASSUME NEW q \in Requests, NEW d \in Depts, NEW p \in Issued,
             UpdateDept(q, d, p) \/ MoveGet(q, d, p)
      PROVE  OrgTypeOK' /\ ReqsOK'
  <2>1. ReqsOK'
    BY <1>5, <1>4 DEF UpdateDept, MoveGet
  <2> QED
    BY <1>5, <2>1 DEF UpdateDept, MoveGet, orgVars
<1>6. ASSUME NEW q \in Requests, MoveList(q) PROVE OrgTypeOK' /\ ReqsOK'
  <2>1. UNCHANGED orgVars /\ req[q].op = "dept"
        /\ (End(q) \/ Goto(q, "walking") \/ Goto(q, "save"))
    BY <1>6 DEF MoveList, At
  <2>2. ASSUME End(q) PROVE ReqsOK'
    BY <1>s, <2>2, EndReq, EndOK
  <2>3. ASSUME NEW pc, pc \notin {"idle", "next"}, Goto(q, pc) PROVE ReqsOK'
    <3>1. ReqOK(req'[q])
      BY <1>s, <2>1, <2>3, GotoReq DEF ReqOK
    <3> QED
      BY <1>s, <2>3, <3>1, GotoReq, OneReq
  <2> QED
    BY <2>1, <2>2, <2>3 DEF orgVars
<1>7. ASSUME NEW q \in Requests, DeptSave(q) PROVE OrgTypeOK' /\ ReqsOK'
  <2>1. End(q) /\ req[q].in \in Depts /\ req[q].row \in Parents
    BY <1>s, <1>7 DEF DeptSave, At, ReqOK
  <2>2. ReqsOK'
    BY <1>s, <2>1, EndReq, EndOK
  <2> QED
    BY <1>7, <2>1, <2>2 DEF DeptSave, SaveDept
<1>8. ASSUME NEW q \in Requests, NEW g \in Groups, DeleteGroup(q, g)
      PROVE  OrgTypeOK' /\ ReqsOK'
  <2>1. Take(q, "group", "drop", <<"group", g>>, Nil, Nil, {})
    BY <1>8 DEF DeleteGroup, Begin
  <2>2. /\ OnlySlot(q) /\ req'[q].op = "group" /\ req'[q].pc = "drop"
        /\ req'[q].key = <<"group", g>> /\ req'[q].todo = {}
    BY <1>s, <2>1, TakeReq
  <2>3. ReqOK(req'[q])
    BY <2>2 DEF ReqOK
  <2>4. ReqsOK'
    BY <2>2, <2>3, OneReq
  <2> QED
    BY <1>8, <2>4 DEF DeleteGroup
<1>9. ASSUME NEW q \in Requests, DropGroup(q) PROVE OrgTypeOK' /\ ReqsOK'
  <2>1. End(q)
    BY <1>9 DEF DropGroup
  <2>2. ReqsOK'
    BY <1>s, <2>1, EndReq, EndOK
  <2> QED
    BY <1>9, <2>2 DEF DropGroup
<1>10. ASSUME NEW q \in Requests, NEW g \in Groups, NEW us \in MemberSets,
              SetMembers(q, g, us)
       PROVE  OrgTypeOK' /\ ReqsOK'
  <2>1. Take(q, "members", "prune", <<"group", g>>, us, Nil, {})
    BY <1>10 DEF SetMembers, Begin
  <2>2. /\ OnlySlot(q) /\ req'[q].op = "members" /\ req'[q].pc = "prune"
        /\ req'[q].key = <<"group", g>> /\ req'[q].in = us /\ req'[q].todo = {}
    BY <1>s, <2>1, TakeReq
  <2>3. ReqOK(req'[q])
    BY <2>2 DEF ReqOK
  <2>4. ReqsOK'
    BY <2>2, <2>3, OneReq
  <2> QED
    BY <1>10, <2>4 DEF SetMembers
<1>11. ASSUME NEW q \in Requests, PruneMembers(q) PROVE OrgTypeOK' /\ ReqsOK'
  <2>1. End(q)
    BY <1>11 DEF PruneMembers
  <2>2. ReqsOK'
    BY <1>s, <2>1, EndReq, EndOK
  <2> QED
    BY <1>11, <2>2 DEF PruneMembers
<1> QED
  BY ONLY OrgNext, <1>1, <1>2, <1>3, <1>5, <1>6, <1>7, <1>8, <1>9, <1>10, <1>11
     DEF OrgNext, OrgRequest

\* What Update makes of a row is a row.
LEMMA ChangedTyped ==
  \A row \in Rows, in \in UpdateSent : Changed(row, in) \in Rows
<1> SUFFICES ASSUME NEW row \in Rows, NEW in \in UpdateSent
             PROVE  Changed(row, in) \in Rows
  OBVIOUS
<1>1. /\ in.active \in BOOLEAN \cup {Nil} /\ in.policy \in Policies \cup {Nil}
      /\ in.visible \in BOOLEAN \cup {Nil} /\ in.sp \in BOOLEAN \cup {Nil}
      /\ in.login \in Addresses \cup {Nil} /\ in.health \in Addresses \cup {Nil}
  BY DEF UpdateSent
<1>2. /\ row.active \in BOOLEAN /\ row.policy \in Policies /\ row.visible \in BOOLEAN
      /\ row.sp \in BOOLEAN /\ row.secret \in Nat
      /\ row.login \in Addresses /\ row.health \in Addresses
  BY DEF Rows
<1>3. /\ Given(in.active, row.active) \in BOOLEAN
      /\ Given(in.policy, row.policy) \in Policies
      /\ Given(in.visible, row.visible) \in BOOLEAN
      /\ Given(in.sp, row.sp) \in BOOLEAN
      /\ Given(in.login, row.login) \in Addresses
  BY <1>1, <1>2 DEF Given
<1>4. PICK h : h = IF in.login # Nil /\ row.health = row.login THEN in.login
                   ELSE row.health
  OBVIOUS
<1>5. h \in Addresses
  BY <1>1, <1>2, <1>4
<1>6. Given(in.health, h) \in Addresses
  BY <1>1, <1>5 DEF Given
<1> QED
  BY <1>2, <1>3, <1>4, <1>6 DEF Changed, Rows

\* An insert stores a row.
LEMMA FreshTyped ==
  \A row \in Rows : Fresh(row) \in Rows /\ Fresh(row).policy = row.policy
                    /\ Fresh(row).health = row.health
BY DEF Fresh, Rows

\* A save keeps the type of the table of applications.
LEMMA SavedTyped ==
  ASSUME clients \in [Clients -> Rows \cup {None, Gone}], NEW c \in Clients,
         NEW row \in Rows
  PROVE  Saved(c, row) \in [Clients -> Rows \cup {None, Gone}]
<1>1. Fresh(row) \in Rows
  BY FreshTyped
<1> QED
  BY <1>1 DEF Saved

\* The statements of MonitorStore keep its types, and say what they set.
LEMMA NewMonitorTyped ==
  \A url \in Addresses : /\ NewMonitor(url) \in Monitors
                         /\ NewMonitor(url).url = url /\ NewMonitor(url).status = "no_data"
BY DEF NewMonitor, Monitors

\* The row of a new monitor is one, with what it was given.
LEMMA NewRowTyped ==
  \A m \in Monitors : /\ NewRow(m) \in Monitors
                      /\ NewRow(m).url = m.url /\ NewRow(m).status = m.status
BY DEF NewRow, Monitors

\* An update of some columns leaves a row, and the other columns.
LEMMA ColumnsTyped ==
  ASSUME NEW m \in Monitors
  PROVE  /\ \A url \in Addresses :
              LET n == [m EXCEPT !.url = url]
              IN  n \in Monitors /\ n.url = url /\ n.status = m.status
         /\ \A on \in BOOLEAN :
              LET n == [m EXCEPT !.maintenance = on]
              IN  n \in Monitors /\ n.url = m.url /\ n.status = m.status
         /\ \A status \in Statuses :
              LET n == [m EXCEPT !.status = status]
              IN  n \in Monitors /\ n.url = m.url /\ n.status = status
BY DEF Monitors

\* An update of a row that is there leaves one; the others stay.
LEMMA HealthURLSet ==
  ASSUME MonitorTypeOK, NEW c \in Clients, NEW url \in Addresses, UpdateHealthURL(c, url)
  PROVE  /\ MonitorTypeOK' /\ \A d \in Clients \ {c} : mon'[d] = mon[d]
         /\ mon[c] = None => mon'[c] = None
         /\ mon[c] # None => /\ mon'[c] # None /\ mon'[c].url = url
                             /\ mon'[c].status = mon[c].status
<1> USE AppAssumption
<1>1. UNCHANGED <<ongoing, probed, worst>>
  BY DEF UpdateHealthURL
<1>2. CASE mon[c] = None
  BY <1>1, <1>2 DEF UpdateHealthURL, SetColumns, MonitorTypeOK
<1>3. CASE mon[c] # None
  <2>1. PICK m \in Monitors : m = mon[c]
    BY <1>3 DEF MonitorTypeOK
  <2>2. PICK n : n = [m EXCEPT !.url = url]
    OBVIOUS
  <2>3. n \in Monitors /\ n.url = url /\ n.status = m.status
    BY <2>2, ColumnsTyped
  <2>4. mon' = [mon EXCEPT ![c] = n]
    BY <1>3, <2>1, <2>2 DEF UpdateHealthURL, SetColumns, Put
  <2> QED
    BY <1>1, <1>3, <2>1, <2>3, <2>4 DEF MonitorTypeOK
<1> QED
  BY <1>2, <1>3

\* Upsert of what was seen: a row, with the address it was given.
LEMMA UpsertTyped ==
  ASSUME MonitorTypeOK, NEW c \in Clients, NEW seen \in Monitors \cup {None},
         NEW m \in Monitors
  PROVE  /\ Upserted(c, seen, m) \in [Clients -> Monitors \cup {None}]
         /\ \A d \in Clients \ {c} : Upserted(c, seen, m)[d] = mon[d]
         /\ Upserted(c, seen, m)[c] # None
         /\ seen = None /\ mon[c] = None =>
              Upserted(c, seen, m)[c].url = m.url /\ Upserted(c, seen, m)[c].status = m.status
         /\ seen = None /\ mon[c] # None => Upserted(c, seen, m) = mon
         /\ seen # None => Upserted(c, seen, m)[c].url = m.url
                           /\ Upserted(c, seen, m)[c].status = seen.status
<1> USE AppAssumption
<1>0. mon \in [Clients -> Monitors \cup {None}]
  BY DEF MonitorTypeOK
<1>1. CASE seen = None
  <2>1. PICK n \in Monitors : n = NewRow(m) /\ n.url = m.url /\ n.status = m.status
    BY NewRowTyped
  <2> QED
    BY <1>0, <1>1, <2>1 DEF Upserted, Put
<1>2. CASE seen # None
  <2>1. PICK s \in Monitors : s = seen
    BY <1>2
  <2>2. PICK r : r = [s EXCEPT !.enabled = m.enabled, !.url = m.url]
    OBVIOUS
  <2>3. r \in Monitors /\ r.url = m.url /\ r.status = s.status
    BY <2>2 DEF Monitors
  <2>4. PICK n : n = (IF mon[c] = None THEN NewRow(r) ELSE r)
    OBVIOUS
  <2>5. n \in Monitors /\ n.url = m.url /\ n.status = seen.status
    BY <2>1, <2>3, <2>4, NewRowTyped
  <2>6. Upserted(c, seen, m) = [mon EXCEPT ![c] = n]
    BY <1>2, <2>1, <2>2, <2>4 DEF Upserted, Put
  <2> QED
    BY <1>0, <1>2, <2>5, <2>6
<1> QED
  BY <1>1, <1>2

\* A deletion takes away all there is of one application.
LEMMA DeleteTyped ==
  ASSUME MonitorTypeOK, NEW c \in Clients, DeleteByClientID(c)
  PROVE  /\ MonitorTypeOK'
         /\ mon'[c] = None /\ ongoing'[c] = {} /\ probed'[c] = {} /\ worst'[c] = None
         /\ \A d \in Clients \ {c} :
              /\ mon'[d] = mon[d] /\ ongoing'[d] = ongoing[d]
              /\ probed'[d] = probed[d] /\ worst'[d] = worst[d]
BY DEF MonitorTypeOK, DeleteByClientID, Put

\* The application that a request works on.
LEMMA OnApp == \A q, c : req[q].key = App(c) => On(q) = c
BY DEF On, App

\* A request on an application has its key.
LEMMA OnClientApp ==
  \A q : OnClient(req[q]) => On(q) \in Clients /\ req[q].key = App(On(q))
BY OnApp DEF OnClient

\* Requests on applications.
LEMMA AppRequestTyped ==
  ASSUME AppTyped, NEW q \in Requests, AppRequest(q)
  PROVE  AppTyped'
<1> USE AppAssumption
<1>s. ReqShape /\ ReqsOK /\ \A p \in Requests : ReqOK(req[p])
  BY DEF ReqsOK, AppTyped
<1>t. /\ OrgTypeOK /\ MonitorTypeOK
      /\ clients \in [Clients -> Rows \cup {None, Gone}]
      /\ grants \in [Clients -> SUBSET Principals] /\ minted \in Nat
  BY DEF AppTyped, AppTypeOK
<1>o. ASSUME UNCHANGED orgVars PROVE OrgTypeOK'
  BY <1>o, <1>t DEF OrgTypeOK, orgVars
<1>m. ASSUME UNCHANGED monVars PROVE MonitorTypeOK'
  BY <1>m, <1>t DEF MonitorTypeOK, monVars
<1>n. ASSUME UNCHANGED <<orgVars, monVars, appVars>>, ReqsOK' PROVE AppTyped'
  BY <1>n, <1>o, <1>m, <1>t DEF AppTyped, AppTypeOK, appVars
\* q goes on to another statement, or is over.
<1>g. ASSUME NEW pc, Goto(q, pc), req[q].pc # "next",
             \/ req[q].op = "create" /\ pc = "monitor"
             \/ req[q].op = "update" /\ pc \in {"monitor", "grants"}
             \/ req[q].op = "delete" /\ pc \in {"grants", "row"}
      PROVE  ReqsOK'
  <2>1. ReqOK(req'[q])
    BY <1>s, <1>g, GotoReq DEF ReqOK, OnClient
  <2> QED
    BY <1>s, <1>g, <2>1, GotoReq, OneReq
<1>e. ASSUME End(q) PROVE ReqsOK'
  BY <1>s, <1>e, EndReq, EndOK
<1>h. ASSUME Through(q), req[q].op \in {"update", "delete"} PROVE ReqsOK'
  <2>1. ReqOK(req'[q])
    BY <1>s, <1>h, ThroughReq, IdleOK DEF ReqOK
  <2> QED
    BY <1>s, <1>h, <2>1, ThroughReq, OneReq
<1>1. ASSUME NEW c \in Clients, NEW in \in CreateInputs, CreateApp(q, c, in)
      PROVE  AppTyped'
  <2>1. PICK row : /\ row = [active |-> TRUE, policy |-> Given(in.policy, "all"),
                             visible |-> in.visible, sp |-> in.sp, secret |-> minted,
                             login |-> in.login,
                             health |-> IF in.health = "" THEN in.login ELSE in.health]
                   /\ Begin(q, "create", "grant", App(c), in, Fresh(row), {})
                   /\ clients' = [clients EXCEPT ![c] = Fresh(row)]
    BY <1>1 DEF CreateApp
  <2>2. in \in CreateSent /\ Given(in.policy, "all") \in Policies
    BY DEF CreateSent, Given, Policies
  <2>3. row \in Rows
    <3>1. /\ in.visible \in BOOLEAN /\ in.sp \in BOOLEAN
          /\ in.login \in Addresses /\ in.health \in Addresses
      BY <2>2 DEF CreateSent
    <3> QED
      BY <1>t, <2>1, <2>2, <3>1 DEF Rows
  <2>4. PICK fresh \in Rows : fresh = Fresh(row)
    BY <2>3, FreshTyped
  <2>5. Take(q, "create", "grant", App(c), in, fresh, {})
    BY <2>1, <2>4 DEF Begin
  <2>6. /\ OnlySlot(q) /\ req'[q].op = "create" /\ req'[q].pc = "grant"
        /\ req'[q].key = App(c) /\ req'[q].in = in /\ req'[q].row = fresh
        /\ req'[q].todo = {}
    BY <1>s, <2>5, TakeReq
  <2>7. ReqOK(req'[q])
    BY <2>2, <2>6 DEF ReqOK, OnClient
  <2>8. ReqsOK'
    BY <1>s, <2>6, <2>7, OneReq
  <2>9. UNCHANGED <<grants, want, monVars, orgVars>> /\ minted' = minted + 1
    BY <1>1 DEF CreateApp
  <2> QED
    <3>1. OrgTypeOK' /\ MonitorTypeOK'
      BY <1>o, <1>m, <2>9
    <3>2. clients' \in [Clients -> Rows \cup {None, Gone}]
      BY <1>t, <2>1, <2>4
    <3>3. grants' \in [Clients -> SUBSET Principals] /\ minted' \in Nat
      BY <1>t, <2>9
    <3> QED
      BY <2>8, <3>1, <3>2, <3>3 DEF AppTyped, AppTypeOK
\* Load: what Update has read is a row.
<1>l. ASSUME NEW c \in Clients, NEW in \in UpdateSent, NEW todo \in SUBSET Clients,
             Load(q, c, in, todo)
      PROVE  ReqsOK'
  <2>1. PICK row \in Rows : row = Changed(clients[c], in)
    BY <1>l, <1>t, ChangedTyped DEF Load, Registered
  <2>2. Take(q, "update", "save", App(c), in, row, todo)
    BY <1>l, <2>1 DEF Load
  <2>3. /\ OnlySlot(q) /\ req'[q].op = "update" /\ req'[q].pc = "save"
        /\ req'[q].key = App(c) /\ req'[q].in = in /\ req'[q].row = row
        /\ req'[q].todo = todo
    BY <1>s, <2>2, TakeReq
  <2>4. ReqOK(req'[q])
    BY <2>3 DEF ReqOK, OnClient
  <2> QED
    BY <1>s, <2>3, <2>4, OneReq
<1>2. ASSUME NEW c \in Clients, NEW in \in UpdateInputs, Update(q, c, in)
      PROVE  AppTyped'
  <2>1. ReqsOK'
    BY <1>2, <1>l DEF Update
  <2> QED
    BY <1>2, <1>n, <2>1 DEF Update
<1>3. ASSUME NEW c \in Clients, ToggleStatus(q, c) PROVE AppTyped'
  <2>1. PICK b \in BOOLEAN : b = ~clients[c].active
    OBVIOUS
  <2>2. PICK in : in = [NoChange EXCEPT !.active = b]
    OBVIOUS
  <2>3. in \in UpdateSent
    <3>1. NoChange \in UpdateSent
      BY DEF NoChange, UpdateSent
    <3> QED
      BY <2>2, <3>1 DEF UpdateSent
  <2>4. Take(q, "toggle", "reload", App(c), in, Nil, {})
    BY <1>3, <2>1, <2>2 DEF ToggleStatus, Begin
  <2>5. /\ OnlySlot(q) /\ req'[q].op = "toggle" /\ req'[q].pc = "reload"
        /\ req'[q].key = App(c) /\ req'[q].in = in /\ req'[q].todo = {}
    BY <1>s, <2>4, TakeReq
  <2>6. ReqOK(req'[q])
    BY <2>3, <2>5 DEF ReqOK, OnClient
  <2>7. ReqsOK'
    BY <1>s, <2>5, <2>6, OneReq
  <2> QED
    BY <1>3, <1>n, <2>7 DEF ToggleStatus
<1>4. ASSUME NEW c \in Clients, RotateSecret(q, c) PROVE AppTyped'
  <2>1. clients[c] \in Rows
    BY <1>4, <1>t DEF RotateSecret, Registered
  <2>2. PICK row : row = [clients[c] EXCEPT !.secret = minted]
    OBVIOUS
  <2>3. row \in Rows
    BY <1>t, <2>1, <2>2 DEF Rows
  <2>4. Take(q, "rotate", "save", App(c), Nil, row, {})
    BY <1>4, <2>2 DEF RotateSecret, Begin
  <2>5. /\ OnlySlot(q) /\ req'[q].op = "rotate" /\ req'[q].pc = "save"
        /\ req'[q].key = App(c) /\ req'[q].row = row /\ req'[q].todo = {}
    BY <1>s, <2>4, TakeReq
  <2>6. ReqOK(req'[q])
    BY <2>3, <2>5 DEF ReqOK, OnClient
  <2>7. ReqsOK'
    BY <1>s, <2>5, <2>6, OneReq
  <2>8. UNCHANGED <<clients, grants, monVars, orgVars>> /\ minted' = minted + 1
    BY <1>4 DEF RotateSecret
  <2> QED
    BY <1>t, <1>o, <1>m, <2>7, <2>8 DEF AppTyped, AppTypeOK
\* Delete, and its element in a batch.
<1>k. ASSUME NEW c \in Clients, NEW todo \in SUBSET Clients,
             Take(q, "delete", "monitor", App(c), Nil, Nil, todo)
      PROVE  ReqsOK'
  <2>1. /\ OnlySlot(q) /\ req'[q].op = "delete" /\ req'[q].pc = "monitor"
        /\ req'[q].key = App(c) /\ req'[q].todo = todo
    BY <1>s, <1>k, TakeReq
  <2>2. ReqOK(req'[q])
    BY <2>1 DEF ReqOK, OnClient
  <2> QED
    BY <1>s, <2>1, <2>2, OneReq
<1>5. ASSUME NEW c \in Clients, Delete(q, c) PROVE AppTyped'
  <2>1. ReqsOK'
    BY <1>5, <1>k DEF Delete, Begin
  <2> QED
    BY <1>5, <1>n, <2>1 DEF Delete
\* The next of a batch.
<1>b. req[q].pc = "next" =>
        /\ req[q].op \in {"update", "delete"} /\ req[q].key = Nil
        /\ req[q].todo \subseteq Clients
        /\ req[q].op = "update" => req[q].in \in UpdateSent
  BY <1>s DEF ReqOK, Idle
<1>6. ASSUME NEW c \in Clients, NextOfBatch(q, c) PROVE AppTyped'
  <2>1. ReqsOK'
    <3>1. PICK in, todo : in = req[q].in /\ todo = req[q].todo \ {c}
      OBVIOUS
    <3>0. req[q].pc = "next"
      BY <1>6 DEF NextOfBatch
    <3>2. todo \in SUBSET Clients
      BY <1>b, <3>0, <3>1
    <3>3. \/ in \in UpdateSent /\ Load(q, c, in, todo)
          \/ Take(q, "delete", "monitor", App(c), Nil, Nil, todo)
      BY <1>6, <1>b, <3>0, <3>1 DEF NextOfBatch, Load, Take
    <3> QED
      BY <1>l, <1>k, <3>2, <3>3
  <2> QED
    BY <1>6, <1>n, <2>1 DEF NextOfBatch
<1>7. ASSUME NEW c \in Clients, SkipOfBatch(q, c) PROVE AppTyped'
  <2>1. PICK r : r = req[q] /\ IsReq(r)
    BY <1>s, SlotIsReq
  <2>2. PICK V : r \in ReqSlots(V)
    BY <2>1 DEF IsReq
  <2>3. PICK rest : rest = r.todo \ {c}
    OBVIOUS
  <2>4. PICK s : s = IF rest = {} THEN Idle ELSE [r EXCEPT !.todo = rest]
    OBVIOUS
  <2>5. req' = [req EXCEPT ![q] = s]
    BY <1>7, <2>1, <2>3, <2>4 DEF SkipOfBatch
  <2>6. CASE rest = {}
    <3>1. OnlySlot(q) /\ req'[q] = Idle
      BY <1>s, <2>4, <2>5, <2>6, ReqSet, IdleIsReq
    <3> QED
      BY <1>s, <1>7, <1>n, <3>1, EndOK DEF SkipOfBatch
  <2>7. CASE rest # {}
    <3>1. s \in ReqSlots(V \cup {rest})
      BY <2>2, <2>4, <2>7 DEF ReqSlots
    <3>2. s.pc = r.pc /\ s.op = r.op /\ s.key = r.key /\ s.in = r.in /\ s.todo = rest
      BY <2>2, <2>4, <2>7 DEF ReqSlots
    <3>3. OnlySlot(q) /\ req'[q] = s
      BY <1>s, <2>5, <3>1, ReqSet DEF IsReq
    <3>4. r.pc = "next"
      BY <1>7, <2>1 DEF SkipOfBatch
    <3>5. /\ r.op \in {"update", "delete"} /\ r.key = Nil /\ rest \subseteq Clients
          /\ r.op = "update" => r.in \in UpdateSent
      BY <1>b, <2>1, <2>3, <3>4
    <3>7. ReqOK(s)
      BY <3>2, <3>4, <3>5 DEF ReqOK
    <3>6. ReqsOK'
      BY <1>s, <3>3, <3>7, OneReq
    <3> QED
      BY <1>7, <1>n, <3>6 DEF SkipOfBatch
  <2> QED
    BY <2>6, <2>7
\* A batch begins.
<1>a. ASSUME NEW op, NEW in, op = "delete" \/ (op = "update" /\ in \in UpdateSent),
             Batch(q, op, in)
      PROVE  AppTyped'
  <2>1. PICK s : s = [Idle EXCEPT !.op = op, !.pc = "next", !.in = in, !.todo = Clients]
    OBVIOUS
  <2>2. PICK V : Idle \in ReqSlots(V)
    BY IdleIsReq DEF IsReq
  <2>3. s \in ReqSlots(V \cup {op, "next", in, Clients})
    BY <2>1, <2>2 DEF ReqSlots
  <2>4. s.op = op /\ s.pc = "next" /\ s.in = in /\ s.todo = Clients /\ s.key = Nil
    BY <2>1, <2>2, IdleIsReq DEF ReqSlots
  <2>5. req' = [req EXCEPT ![q] = s]
    BY <1>a, <2>1 DEF Batch
  <2>6. OnlySlot(q) /\ req'[q] = s
    BY <1>s, <2>3, <2>5, ReqSet DEF IsReq
  <2>7. ReqOK(req'[q])
    BY <1>a, <2>4, <2>6 DEF ReqOK
  <2>8. ReqsOK'
    BY <1>s, <2>6, <2>7, OneReq
  <2> QED
    BY <1>a, <1>n, <2>8 DEF Batch
<1>8. ASSUME NEW in \in UpdateInputs, BatchUpdate(q, in) PROVE AppTyped'
  BY <1>8, <1>a DEF BatchUpdate
<1>9. ASSUME BatchDelete(q) PROVE AppTyped'
  BY <1>9, <1>a DEF BatchDelete
<1>10. ASSUME CreateGrants(q) PROVE AppTyped'
  <2>1. /\ req[q].op = "create" /\ req[q].pc = "grant" /\ On(q) \in Clients
        /\ req[q].in \in CreateSent
    BY <1>10, <1>s, OnClientApp DEF CreateGrants, At, ReqOK
  <2>2. /\ UNCHANGED <<clients, minted, monVars, orgVars>>
        /\ End(q) \/ Goto(q, "monitor")
    BY <1>10 DEF CreateGrants
  <2>3. ReqsOK'
    BY <1>g, <1>e, <2>1, <2>2
  <2>4. req[q].in.grants \in SUBSET Principals
    BY <2>1 DEF CreateSent
  <2>5. grants' \in [Clients -> SUBSET Principals]
    <3>1. PICK gs \in SUBSET Principals :
            grants' = grants \/ grants' = [grants EXCEPT ![On(q)] = gs]
      BY <1>10, <2>4 DEF CreateGrants
    <3> QED
      BY <1>t, <2>1, <3>1
  <2> QED
    BY <1>t, <1>o, <1>m, <2>2, <2>3, <2>5 DEF AppTyped, AppTypeOK
<1>11. ASSUME CreateFirst(q) PROVE AppTyped'
  <2>1. req[q].op = "create" /\ On(q) \in Clients
    BY <1>11, <1>s, OnClientApp DEF CreateFirst, At, ReqOK
  <2>2. PICK r : r = req[q] /\ IsReq(r)
    BY <1>s, SlotIsReq
  <2>3. PICK V : r \in ReqSlots(V)
    BY <2>2 DEF IsReq
  <2>4. PICK seen \in Monitors \cup {None} : seen = mon[On(q)]
    BY <1>t, <2>1 DEF MonitorTypeOK
  <2>5. PICK s : s = [r EXCEPT !.pc = "upsert", !.seen = seen]
    OBVIOUS
  <2>6. s \in ReqSlots(V \cup {"upsert", seen})
    BY <2>3, <2>5 DEF ReqSlots
  <2>7. /\ s.pc = "upsert" /\ s.seen = seen /\ s.op = r.op /\ s.key = r.key
        /\ s.in = r.in /\ s.row = r.row /\ s.todo = r.todo
    BY <2>3, <2>5 DEF ReqSlots
  <2>8. req' = [req EXCEPT ![q] = s]
    BY <1>11, <2>2, <2>4, <2>5 DEF CreateFirst
  <2>9. OnlySlot(q) /\ req'[q] = s
    BY <1>s, <2>6, <2>8, ReqSet DEF IsReq
  <2>10. ReqOK(r)
    BY <1>s, <2>2
  <2>11. ReqOK(s)
    BY <2>1, <2>2, <2>7, <2>10 DEF ReqOK, OnClient
  <2>12. ReqsOK'
    BY <1>s, <2>9, <2>11, OneReq
  <2> QED
    BY <1>11, <1>n, <2>12 DEF CreateFirst
<1>12. ASSUME CreateMonitor(q) PROVE AppTyped'
  <2>1. /\ req[q].op = "create" /\ req[q].pc = "upsert" /\ On(q) \in Clients
        /\ req[q].row \in Rows /\ req[q].seen \in Monitors \cup {None}
    BY <1>12, <1>s, OnClientApp DEF CreateMonitor, At, ReqOK
  <2>2. ReqsOK'
    BY <1>12, <1>e DEF CreateMonitor
  <2>3. mon' \in [Clients -> Monitors \cup {None}]
    <3>1. PICK c \in Clients, seen \in Monitors \cup {None}, url \in Addresses :
            c = On(q) /\ seen = req[q].seen /\ url = req[q].row.health
      BY <2>1 DEF Rows
    <3>2. PICK m \in Monitors : m = NewMonitor(url)
      BY NewMonitorTyped
    <3>3. mon' = Upserted(c, seen, m)
      BY <1>12, <3>1, <3>2 DEF CreateMonitor, Upserted, Put
    <3> QED
      BY <1>t, <3>3, UpsertTyped
  <2>4. UNCHANGED <<clients, grants, minted, ongoing, probed, worst, orgVars>>
    BY <1>12 DEF CreateMonitor
  <2> QED
    BY <1>t, <1>o, <2>2, <2>3, <2>4 DEF AppTyped, AppTypeOK, MonitorTypeOK
<1>13. ASSUME Reload(q) PROVE AppTyped'
  <2>1. /\ req[q].op = "toggle" /\ req[q].pc = "reload" /\ On(q) \in Clients
        /\ req[q].in \in UpdateSent
    BY <1>13, <1>s, OnClientApp DEF Reload, At, ReqOK
  <2>2. ReqsOK'
    <3>1. CASE End(q)
      BY <1>e, <3>1
    <3>2. PICK c \in Clients, in \in UpdateSent : c = On(q) /\ in = req[q].in
      BY <2>1
    <3>3. CASE Load(q, c, in, {})
      BY <1>l, <3>3
    <3> QED
      BY <1>13, <3>1, <3>2, <3>3 DEF Reload, Load, Take
  <2> QED
    BY <1>13, <1>n, <2>2 DEF Reload
<1>14. ASSUME UpdateSave(q) PROVE AppTyped'
  <2>1. /\ req[q].op = "update" /\ req[q].pc = "save" /\ On(q) \in Clients
        /\ req[q].row \in Rows
    BY <1>14, <1>s, OnClientApp DEF UpdateSave, At, ReqOK
  <2>2. ReqsOK'
    BY <1>14, <1>g, <2>1 DEF UpdateSave
  <2>3. clients' \in [Clients -> Rows \cup {None, Gone}]
    <3>1. PICK c \in Clients, row \in Rows : c = On(q) /\ row = req[q].row
      BY <2>1
    <3>2. clients' = Saved(c, row)
      BY <1>14, <3>1 DEF UpdateSave, Saved, Registered, Fresh
    <3> QED
      BY <1>t, <3>2, SavedTyped
  <2>4. UNCHANGED <<grants, minted, want, monVars, orgVars>>
    BY <1>14 DEF UpdateSave
  <2> QED
    BY <1>t, <1>o, <1>m, <2>2, <2>3, <2>4 DEF AppTyped, AppTypeOK
<1>15. ASSUME UpdateMonitor(q) PROVE AppTyped'
  <2>1. /\ req[q].op = "update" /\ req[q].pc = "monitor" /\ On(q) \in Clients
        /\ req[q].row \in Rows
    BY <1>15, <1>s, OnClientApp DEF UpdateMonitor, At, ReqOK
  <2>2. ReqsOK'
    BY <1>15, <1>g, <2>1 DEF UpdateMonitor
  <2>3. PICK c \in Clients, url \in Addresses : c = On(q) /\ url = req[q].row.health
    BY <2>1 DEF Rows
  <2>4. UpdateHealthURL(c, url)
    BY <1>15, <2>3 DEF UpdateMonitor, UpdateHealthURL, SetColumns, Put
  <2>5. MonitorTypeOK'
    BY <1>t, <2>4, HealthURLSet
  <2>6. UNCHANGED <<appVars, orgVars>>
    BY <1>15 DEF UpdateMonitor
  <2> QED
    BY <1>t, <1>o, <2>2, <2>5, <2>6 DEF AppTyped, AppTypeOK, appVars
<1>16. ASSUME UpdateGrants(q) PROVE AppTyped'
  <2>1. /\ req[q].op = "update" /\ req[q].pc = "grants" /\ On(q) \in Clients
        /\ req[q].in \in UpdateSent
    BY <1>16, <1>s, OnClientApp DEF UpdateGrants, At, ReqOK
  <2>2. ReqsOK'
    BY <1>16, <1>h, <2>1 DEF UpdateGrants
  <2>3. req[q].in.grants \in (SUBSET Principals) \cup {Nil}
    BY <2>1 DEF UpdateSent
  <2>4. PICK c, gs :
          c \in Clients /\ c = On(q) /\ gs = NewGrants(grants[c], req[q].row.policy, req[q].in)
    BY <2>1
  <2>5. gs \in SUBSET Principals
    BY <1>t, <2>3, <2>4 DEF NewGrants
  <2>6. grants' = [grants EXCEPT ![c] = gs]
    BY <1>16, <2>4 DEF UpdateGrants, NewGrants
  <2>7. UNCHANGED <<clients, minted, monVars, orgVars>>
    BY <1>16 DEF UpdateGrants
  <2> QED
    BY <1>t, <1>o, <1>m, <2>2, <2>5, <2>6, <2>7 DEF AppTyped, AppTypeOK
<1>17. ASSUME RotateSave(q) PROVE AppTyped'
  <2>1. On(q) \in Clients /\ req[q].row \in Rows
    BY <1>17, <1>s, OnClientApp DEF RotateSave, At, ReqOK
  <2>2. ReqsOK'
    BY <1>17, <1>e DEF RotateSave
  <2>3. clients' \in [Clients -> Rows \cup {None, Gone}]
    <3>1. PICK c \in Clients, row \in Rows : c = On(q) /\ row = req[q].row
      BY <2>1
    <3>2. clients' = Saved(c, row)
      BY <1>17, <3>1 DEF RotateSave, Saved, Registered, Fresh
    <3> QED
      BY <1>t, <3>2, SavedTyped
  <2>4. UNCHANGED <<grants, minted, monVars, orgVars>>
    BY <1>17 DEF RotateSave
  <2> QED
    BY <1>t, <1>o, <1>m, <2>2, <2>3, <2>4 DEF AppTyped, AppTypeOK
<1>18. ASSUME DeleteMonitor(q) PROVE AppTyped'
  <2>1. req[q].op = "delete" /\ req[q].pc = "monitor" /\ On(q) \in Clients
    BY <1>18, <1>s, OnClientApp DEF DeleteMonitor, At, ReqOK
  <2>2. ReqsOK'
    BY <1>18, <1>g, <2>1 DEF DeleteMonitor
  <2>3. MonitorTypeOK' /\ UNCHANGED <<appVars, orgVars>>
    <3>1. PICK c \in Clients : c = On(q)
      BY <2>1
    <3>2. DeleteByClientID(c)
      BY <1>18, <3>1 DEF DeleteMonitor, DeleteByClientID, Put
    <3> QED
      BY <1>18, <1>t, <3>2, DeleteTyped DEF DeleteMonitor
  <2> QED
    BY <1>t, <1>o, <2>2, <2>3 DEF AppTyped, AppTypeOK, appVars
<1>19. ASSUME DeleteGrants(q) PROVE AppTyped'
  <2>1. req[q].op = "delete" /\ req[q].pc = "grants" /\ On(q) \in Clients
    BY <1>19, <1>s, OnClientApp DEF DeleteGrants, At, ReqOK
  <2>2. ReqsOK'
    BY <1>19, <1>g, <2>1 DEF DeleteGrants
  <2>3. /\ UNCHANGED <<clients, minted, want, monVars, orgVars>>
        /\ grants' = [grants EXCEPT ![On(q)] = {}]
    BY <1>19 DEF DeleteGrants
  <2>4. grants' \in [Clients -> SUBSET Principals]
    BY <1>t, <2>1, <2>3
  <2> QED
    BY <1>t, <1>o, <1>m, <2>2, <2>3, <2>4 DEF AppTyped, AppTypeOK
<1>20. ASSUME DeleteRow(q) PROVE AppTyped'
  <2>1. req[q].op = "delete" /\ On(q) \in Clients
    BY <1>20, <1>s, OnClientApp DEF DeleteRow, At, ReqOK
  <2>2. ReqsOK'
    BY <1>20, <1>h, <2>1 DEF DeleteRow
  <2>3. /\ UNCHANGED <<grants, minted, monVars, orgVars>>
        /\ clients' = [clients EXCEPT ![On(q)] = Gone]
    BY <1>20 DEF DeleteRow
  <2>4. clients' \in [Clients -> Rows \cup {None, Gone}]
    BY <1>t, <2>1, <2>3
  <2> QED
    BY <1>t, <1>o, <1>m, <2>2, <2>3, <2>4 DEF AppTyped, AppTypeOK
<1> QED
  BY ONLY AppRequest(q), <1>1, <1>2, <1>3, <1>4, <1>5, <1>6, <1>7, <1>8, <1>9, <1>10,
     <1>11, <1>12, <1>13, <1>14, <1>15, <1>16, <1>17, <1>18, <1>19, <1>20 DEF AppRequest

\* Every step on applications, departments and groups keeps the types.
LEMMA AppNextTyped == AppTyped /\ AppNext => AppTyped'
<1> SUFFICES ASSUME AppTyped, AppNext PROVE AppTyped'
  OBVIOUS
<1>1. CASE OrgNext /\ UNCHANGED <<appVars, monVars>>
  <2>1. OrgTypeOK' /\ ReqsOK'
    BY <1>1, OrgTyped DEF AppTyped, AppTypeOK
  <2> QED
    BY <1>1, <2>1 DEF AppTyped, AppTypeOK, MonitorTypeOK, appVars, monVars
<1> QED
  BY <1>1, AppRequestTyped DEF AppNext

-----------------------------------------------------------------------------
(* Login rules *)

\* What sanitize makes of a request is a row.
LEMMA SanitizedTyped ==
  \A in \in Inputs : Sanitized(in) \in RuleRows /\ Inserted(Sanitized(in)) \in RuleRows
<1> SUFFICES ASSUME NEW in \in Inputs
             PROVE  Sanitized(in) \in RuleRows /\ Inserted(Sanitized(in)) \in RuleRows
  OBVIOUS
<1>1. PICK p : p = IF in.priority <= 0 THEN 50 ELSE in.priority
  OBVIOUS
<1>2. p \in Nat \ {0}
  BY <1>1 DEF Inputs
<1>3. PICK us : us = IF in.specific THEN in.users ELSE Everybody
  OBVIOUS
<1>4. us \in {Everybody} \cup SUBSET People
  BY <1>3 DEF Inputs
<1>5. PICK m : m = IF in.length = 7 * Hours THEN in.mask ELSE AllWeek
  OBVIOUS
<1>6. m \in SUBSET (0 .. 7 * Hours - 1)
  BY <1>5 DEF Inputs, AllWeek
<1>7. PICK x : x = IF in.action \in {"accept", "deny"} THEN in.action ELSE "deny"
  OBVIOUS
<1>8. x \in {"accept", "deny"}
  BY <1>7
<1>9. in.enabled \in BOOLEAN /\ in.ips \in SUBSET Entries
  BY DEF Inputs
<1>10. Sanitized(in) = [priority |-> p, enabled |-> in.enabled, users |-> us,
                        ips |-> in.ips, mask |-> m, action |-> x]
  BY <1>1, <1>3, <1>5, <1>7 DEF Sanitized
<1>11. Sanitized(in) \in RuleRows
  BY <1>2, <1>4, <1>6, <1>8, <1>9, <1>10 DEF RuleRows
<1> QED
  BY <1>11 DEF RuleRows, Inserted

\* A row with another switch, or after an insert, is a row.
LEMMA RuleRowSet ==
  \A row \in RuleRows : /\ Inserted(row) \in RuleRows
                        /\ \A b \in BOOLEAN : [row EXCEPT !.enabled = b] \in RuleRows
BY DEF RuleRows, Inserted

\* The rule that a request works on.
LEMMA OnRule == \A q, i : req[q].key = Rule(i) => On(q) = i
BY DEF On, Rule

\* The requests on one rule never overlapped: there is one at most, the rule
\* it works on is there, and the table is what was answered.
RuleSound(i) ==
  Rule(i) \notin raced =>
    /\ \A p, q \in Requests : req[p].key = Rule(i) /\ req[q].key = Rule(i) => p = q
    /\ rules[i] = wantRule[i]
    /\ \A q \in Requests : req[q].key = Rule(i) => rules[i] # Nil

\* A step that has nothing to do with key: who holds it stays as it is.
Apart(key) ==
  /\ raced \subseteq raced'
  /\ \A p \in Requests : req'[p] = req[p] \/ (req[p].key # key /\ req'[p].key # key)

\* A step on another rule leaves a rule sound.
LEMMA RuleApart ==
  ASSUME NEW i, RuleSound(i), Apart(Rule(i)), rules'[i] = rules[i],
         wantRule'[i] = wantRule[i]
  PROVE  RuleSound(i)'
<1>1. Rule(i)' = Rule(i)
  BY DEF Rule
<1> QED
  BY <1>1 DEF RuleSound, Apart

RulesInv == RulesTypeOK /\ \A i \in Rules : RuleSound(i)

\* Every step on the rules keeps them sound, and other keys apart.
LEMMA RulesNextSound ==
  ASSUME ReqsOK, RulesInv, RulesNext
  PROVE  /\ ReqsOK' /\ RulesInv'
         /\ \A key : (key # Nil /\ \A i \in Rules : key # Rule(i)) => Apart(key)
<1> USE RulesAssumption, RuleKeyAssumption
<1>s. ReqShape /\ \A p \in Requests : ReqOK(req[p])
  BY DEF ReqsOK
<1>t. /\ rules \in [Rules -> RuleRows \cup {Nil}]
      /\ wantRule \in [Rules -> RuleRows \cup {Nil}]
      /\ issued \in 0 .. Cardinality(Rules)
      /\ \A i \in Rules : RuleSound(i)
  BY DEF RulesInv, RulesTypeOK
<1>k. \A i, j : Rule(i)' = Rule(i) /\ (Rule(i) = Rule(j) => i = j)
  BY DEF Rule
<1> DEFINE Others == \A key : (key # Nil /\ \A i \in Rules : key # Rule(i)) => Apart(key)
           Goal == ReqsOK' /\ RulesInv' /\ Others
\* A step on rule i that leaves the other rules alone.
<1>a. ASSUME NEW i \in Rules, RulesTypeOK', ReqsOK', RuleSound(i)',
             \A j \in Rules \ {i} : rules'[j] = rules[j] /\ wantRule'[j] = wantRule[j],
             \A key : (key # Nil /\ key # Rule(i)) => Apart(key)
      PROVE  Goal
  <2>1. ASSUME NEW j \in Rules \ {i} PROVE RuleSound(j)'
    BY <1>t, <1>k, <1>a, RuleApart
  <2> QED
    BY <1>a, <2>1 DEF RulesInv
\* A request of one statement.
<1>o. ASSUME NEW i \in Rules, Once(Rule(i))
      PROVE  ReqsOK' /\ UNCHANGED req /\ \A key : Apart(key)
  BY <1>o, OnceReq, SameReqs DEF Apart
\* A request begins, goes on, or is over.
<1>b. ASSUME NEW i \in Rules, NEW q \in Requests, OnlySlot(q), raced \subseteq raced',
             req[q].key \in {Nil, Rule(i)}, req'[q].key \in {Nil, Rule(i)}
      PROVE  \A key : (key # Nil /\ key # Rule(i)) => Apart(key)
  BY <1>b DEF Apart, OnlySlot
<1>i. \A q \in Requests : req[q].pc = "idle" => req[q].key = Nil
  BY <1>s, IdleIsReq DEF ReqOK
<1>1. ASSUME NEW in \in RuleInputs, CreateRule(in) PROVE Goal
  <2>1. PICK i \in Rules, row \in RuleRows :
          /\ i = issued + 1 /\ row = Inserted(Sanitized(in))
          /\ Once(Rule(i)) /\ issued' = i
          /\ rules' = [rules EXCEPT ![i] = row]
          /\ wantRule' = [wantRule EXCEPT ![i] = row]
    BY <1>1, SanitizedTyped DEF CreateRule
  <2>2. RulesTypeOK'
    <3>1. issued' \in 0 .. Cardinality(Rules)
      BY <2>1, FS_CardinalityType
    <3> QED
      BY <1>t, <2>1, <3>1 DEF RulesTypeOK
  <2>3. RuleSound(i)'
    <3>1. RuleSound(i) /\ rules'[i] = row /\ wantRule'[i] = row /\ row # Nil
      BY <1>t, <2>1
    <3>2. UNCHANGED req /\ raced \subseteq raced'
      BY <2>1, OnceReq
    <3> QED
      BY <1>k, <3>1, <3>2 DEF RuleSound
  <2> QED
    BY <1>a, <1>o, <1>t, <2>1, <2>2, <2>3
<1>2. ASSUME NEW i \in Rules, DeleteRule(i) PROVE Goal
  <2>1. RulesTypeOK'
    BY <1>2, <1>t DEF DeleteRule, RulesTypeOK
  <2>2. RuleSound(i)'
    <3>1. RuleSound(i) /\ rules'[i] = Nil /\ wantRule'[i] = Nil
      BY <1>2, <1>t DEF DeleteRule
    <3>2. UNCHANGED req /\ raced \subseteq raced' /\ (Busy(Rule(i)) => Rule(i) \in raced')
      BY <1>2, OnceReq DEF DeleteRule
    <3> QED
      BY <1>k, <3>1, <3>2 DEF RuleSound, Busy
  <2> QED
    BY <1>a, <1>o, <1>t, <1>2, <2>1, <2>2 DEF DeleteRule
\* A request takes up rule i, which is there.
<1>c. ASSUME NEW q \in Requests, NEW i \in Rules, NEW op, NEW pc, NEW in,
             \/ op = "rule" /\ pc = "save" /\ in \in RuleRows
             \/ op = "toggle" /\ pc = "set" /\ in \in BOOLEAN,
             rules[i] # Nil, UNCHANGED ruleVars,
             Begin(q, op, pc, Rule(i), in, Nil, {})
      PROVE  Goal
  <2>1. Take(q, op, pc, Rule(i), in, Nil, {}) /\ req[q].key = Nil
    BY <1>c, <1>i, BeginReq
  <2>2. /\ OnlySlot(q) /\ req'[q].op = op /\ req'[q].pc = pc /\ req'[q].key = Rule(i)
        /\ req'[q].in = in /\ req'[q].todo = {}
        /\ raced \subseteq raced'
        /\ (\E p \in Requests \ {q} : req[p].key = Rule(i)) => Rule(i) \in raced'
    BY <1>s, <2>1, TakeReq
  <2>3. ReqOK(req'[q])
    BY <1>c, <2>2 DEF ReqOK
  <2>4. ReqsOK'
    BY <2>2, <2>3, OneReq
  <2>5. RulesTypeOK' /\ \A j \in Rules : rules'[j] = rules[j] /\ wantRule'[j] = wantRule[j]
    BY <1>c, <1>t DEF RulesTypeOK, ruleVars
  <2>6. RuleSound(i)'
    BY <1>c, <1>k, <1>t, <2>2, <2>5 DEF RuleSound, OnlySlot
  <2> QED
    BY <1>a, <1>b, <2>1, <2>2, <2>4, <2>5, <2>6
<1>3. ASSUME NEW q \in Requests, NEW i \in Rules, NEW in \in RuleInputs, UpdateRule(q, i,
             in)
      PROVE  Goal
  <2>1. PICK row \in RuleRows : row = Sanitized(in)
    BY SanitizedTyped
  <2>2. Begin(q, "rule", "save", Rule(i), row, Nil, {}) /\ rules[i] # Nil
        /\ UNCHANGED ruleVars
    BY <1>3, <2>1 DEF UpdateRule
  <2> QED
    BY <1>c, <2>2
<1>4. ASSUME NEW q \in Requests, NEW i \in Rules, ToggleRule(q, i) PROVE Goal
  <2>1. PICK b \in BOOLEAN : b = ~rules[i].enabled
    OBVIOUS
  <2>2. Begin(q, "toggle", "set", Rule(i), b, Nil, {}) /\ rules[i] # Nil
        /\ UNCHANGED ruleVars
    BY <1>4, <2>1 DEF ToggleRule
  <2> QED
    BY <1>c, <2>2
\* A request on rule i is over.
<1>d. ASSUME NEW q \in Requests, NEW i \in Rules, req[q].key = Rule(i), End(q),
             RulesTypeOK', rules[i] # Nil => rules'[i] = wantRule'[i] \/ rules[i] # wantRule[i],
             \A j \in Rules \ {i} : rules'[j] = rules[j] /\ wantRule'[j] = wantRule[j]
      PROVE  Goal
  <2>1. OnlySlot(q) /\ req'[q] = Idle /\ UNCHANGED <<started, raced>>
    BY <1>d, <1>s, EndReq
  <2>2. ReqsOK' /\ req'[q].key = Nil
    BY <2>1, EndOK, IdleIsReq
  <2>3. RuleSound(i)'
    BY <1>d, <1>k, <1>t, <2>1, <2>2 DEF RuleSound, OnlySlot
  <2> QED
    BY <1>a, <1>b, <1>d, <2>1, <2>2, <2>3
<1>5. ASSUME NEW q \in Requests, SaveRule(q) PROVE Goal
  <2>1. PICK i \in Rules, row \in RuleRows :
          i = On(q) /\ row = req[q].in /\ req[q].key = Rule(i)
    BY <1>5, <1>s, OnRule DEF SaveRule, At, ReqOK
  <2>2. PICK new \in RuleRows : new = (IF rules[i] = Nil THEN Inserted(row) ELSE row)
    BY RuleRowSet
  <2>3. /\ rules' = [rules EXCEPT ![i] = new] /\ wantRule' = [wantRule EXCEPT ![i] = row]
        /\ UNCHANGED issued /\ End(q)
    BY <1>5, <2>1, <2>2 DEF SaveRule
  <2>4. RulesTypeOK'
    BY <1>t, <2>3 DEF RulesTypeOK
  <2> QED
    BY <1>d, <1>t, <2>1, <2>2, <2>3, <2>4
<1>6. ASSUME NEW q \in Requests, SetEnabled(q) PROVE Goal
  <2>1. PICK i \in Rules, b \in BOOLEAN :
          i = On(q) /\ b = req[q].in /\ req[q].key = Rule(i)
    BY <1>6, <1>s, OnRule DEF SetEnabled, At, ReqOK
  <2>2. ASSUME NEW table \in [Rules -> RuleRows \cup {Nil}]
        PROVE  \E new \in RuleRows \cup {Nil} :
                 /\ new = Nil <=> table[i] = Nil
                 /\ table[i] # Nil => new = [table[i] EXCEPT !.enabled = b]
                 /\ (IF table[i] = Nil THEN table
                     ELSE [table EXCEPT ![i].enabled = b]) = [table EXCEPT ![i] = new]
    <3>1. CASE table[i] = Nil
      BY <3>1
    <3>2. CASE table[i] # Nil
      <4>1. table[i] \in RuleRows
        BY <3>2
      <4>2. PICK new \in RuleRows : new = [table[i] EXCEPT !.enabled = b]
        BY <4>1, RuleRowSet
      <4>3. new # Nil
        BY RuleKeyAssumption
      <4>4. [table EXCEPT ![i].enabled = b] = [table EXCEPT ![i] = new]
        BY <4>2
      <4> QED
        BY <3>2, <4>2, <4>3, <4>4
    <3> QED
      BY <3>1, <3>2
  <2>3. PICK n1 \in RuleRows \cup {Nil} :
          /\ rules[i] # Nil => n1 = [rules[i] EXCEPT !.enabled = b]
          /\ rules' = [rules EXCEPT ![i] = n1]
    BY ZenonT(30), <1>6, <1>t, <2>1, <2>2 DEF SetEnabled
  <2>4. PICK n2 \in RuleRows \cup {Nil} :
          /\ wantRule[i] # Nil => n2 = [wantRule[i] EXCEPT !.enabled = b]
          /\ wantRule' = [wantRule EXCEPT ![i] = n2]
    BY ZenonT(30), <1>6, <1>t, <2>1, <2>2 DEF SetEnabled
  <2>5. End(q) /\ UNCHANGED issued
    BY <1>6 DEF SetEnabled
  <2>6. RulesTypeOK'
    BY <1>t, <2>3, <2>4, <2>5 DEF RulesTypeOK
  <2>7. rules[i] # Nil => rules'[i] = wantRule'[i] \/ rules[i] # wantRule[i]
    BY <1>t, <2>3, <2>4
  <2>8. \A j \in Rules \ {i} : rules'[j] = rules[j] /\ wantRule'[j] = wantRule[j]
    BY <1>t, <2>3, <2>4
  <2> QED
    BY <1>d, <2>1, <2>5, <2>6, <2>7, <2>8
<1> HIDE DEF Goal
<1>7. Goal
  BY ONLY RulesNext, <1>1, <1>2, <1>3, <1>4, <1>5, <1>6 DEF RulesNext, RuleRequest
<1> QED
  BY <1>7 DEF Goal

\* The priority and then the age of a rule, as one number.
RuleKey(i) == wantRule[i].priority * (Cardinality(Rules) + 1) + i

\* Numbers compare as the pairs they stand for.
LEMMA Lexicographic ==
  ASSUME NEW K \in Nat, NEW p \in Nat, NEW r \in Nat, NEW i \in 1 .. K, NEW j \in 1 .. K
  PROVE  p * (K + 1) + i < r * (K + 1) + j <=> p < r \/ (p = r /\ i < j)
<1>1. ASSUME NEW x \in Nat, NEW y \in Nat, x < y, NEW m \in 1 .. K, NEW n \in 1 .. K
      PROVE  x * (K + 1) + m < y * (K + 1) + n
  <2>1. PICK d \in Nat : y = x + 1 + d
    <3>1. y - x - 1 \in Nat /\ y = x + 1 + (y - x - 1)
      BY <1>1
    <3> QED
      BY <3>1
  <2>2. y * (K + 1) = x * (K + 1) + (K + 1) + d * (K + 1)
    BY <2>1
  <2>3. d * (K + 1) \in Nat /\ x * (K + 1) \in Nat
    BY <2>1
  <2> QED
    BY <2>2, <2>3
<1>2. CASE p < r
  BY <1>1, <1>2
<1>3. CASE r < p
  <2>1. r * (K + 1) + j < p * (K + 1) + i
    BY <1>1, <1>3
  <2>2. r * (K + 1) \in Nat /\ p * (K + 1) \in Nat
    OBVIOUS
  <2> QED
    BY <1>3, <2>1, <2>2
<1>4. CASE p = r
  <2>1. p * (K + 1) \in Nat
    OBVIOUS
  <2> QED
    BY <1>4, <2>1
<1> QED
  BY <1>2, <1>3, <1>4

\* A set of numbers that is not empty has a least one.
LEMMA LeastRule ==
  ASSUME NEW S, S # {}, NEW f, \A i \in S : f[i] \in Nat
  PROVE  \E i \in S : \A j \in S : f[i] <= f[j]
<1> DEFINE N == {f[i] : i \in S}
           less == {p \in Nat \X Nat : p[1] < p[2]}
<1>1. N \subseteq Nat /\ N # {}
  OBVIOUS
<1>2. IsWellFoundedOn(less, Nat)
  BY NatLessThanWellFounded, Zenon DEF OpToRel
<1>3. PICK n \in N : \A m \in N : <<m, n>> \notin less
  <2> HIDE DEF less, N
  <2> QED
    BY <1>1, <1>2, WFMin
<1>4. \A m \in N : n <= m
  <2> HIDE DEF N
  <2>1. \A m \in N : <<m, n>> \in Nat \X Nat
    BY <1>1
  <2>2. \A m \in N : ~(m < n)
    BY <1>3, <2>1
  <2> QED
    BY <1>1, <2>2
<1>5. PICK i \in S : n = f[i]
  OBVIOUS
<1> QED
  BY <1>4, <1>5

\* The rules as they are decide as the rules that were answered.
LEMMA RulesDecide ==
  ASSUME RulesTypeOK, \A i \in Rules : rules[i] = wantRule[i],
         NEW u \in People, NEW ip \in IPs, NEW t \in Times
  PROVE  Evaluate(u, ip, t) <=>
           \A i \in InForce(u, ip, t) : wantRule[i].action = "deny" =>
             \E j \in InForce(u, ip, t) : wantRule[j].action = "accept" /\ Earlier(j, i)
<1> USE RulesAssumption, RuleKeyAssumption
<1>t. /\ wantRule \in [Rules -> RuleRows \cup {Nil}]
      /\ \A i \in Rules : wantRule[i] # Nil =>
           wantRule[i].priority \in Nat /\ wantRule[i].action \in {"accept", "deny"}
  BY DEF RulesTypeOK, RuleRows
<1>c. PICK K \in Nat : K = Cardinality(Rules) /\ Rules = 1 .. K
  BY FS_CardinalityType
<1> DEFINE hits == {i \in Enabled : RuleMatches(rules[i], u, ip, t)}
           first == CHOOSE i \in hits : \A j \in hits \ {i} : Before(i, j)
           Valid == InForce(u, ip, t)
<1>1. Slot(t) = ((t.day + 6) % 7) * Hours + t.hour
  <2>1. t.day \in 0 .. 6
    BY DEF Times
  <2>2. (t.day + 6) % 7 = IF t.day = 0 THEN 6 ELSE t.day - 1
    BY <2>1
  <2> QED
    BY <2>2 DEF Slot
<1>2. hits = Valid
  BY <1>1 DEF Enabled, RuleMatches, MatchIPs, MatchTimeMask, InForce
<1>3. \A i \in Valid : i \in Rules /\ wantRule[i] # Nil
  BY DEF InForce
<1>4. \A i, j \in Valid : Before(i, j) <=> Earlier(i, j)
  <2> SUFFICES ASSUME NEW i \in Valid, NEW j \in Valid
               PROVE  Before(i, j) <=> Earlier(i, j)
    OBVIOUS
  <2>1. PICK p \in Nat, r \in Nat : p = wantRule[i].priority /\ r = wantRule[j].priority
    BY <1>t, <1>3
  <2>2. p * (K + 1) + i < r * (K + 1) + j <=> p < r \/ (p = r /\ i < j)
    BY <1>c, <1>3, Lexicographic
  <2> QED
    BY <1>c, <1>3, <2>1, <2>2 DEF Before, Earlier
<1>5. \A i \in Valid : RuleKey(i) \in Nat
  BY <1>t, <1>c, <1>3 DEF RuleKey
<1>e. \A i, j \in Valid : Earlier(i, j) <=> RuleKey(i) < RuleKey(j)
  BY DEF Earlier, RuleKey
<1>6. CASE Valid = {}
  BY <1>2, <1>6 DEF Evaluate
<1>7. CASE Valid # {}
  <2>1. PICK i \in Valid : \A j \in Valid : RuleKey(i) <= RuleKey(j)
    <3> DEFINE f == [i \in Valid |-> RuleKey(i)]
    <3>1. \A i \in Valid : f[i] = RuleKey(i) /\ f[i] \in Nat
      BY <1>5
    <3> HIDE DEF f
    <3>2. \E i \in Valid : \A j \in Valid : f[i] <= f[j]
      BY <1>7, <3>1, LeastRule
    <3> QED
      BY <3>1, <3>2
  <2>2. \A j \in Valid \ {i} : Before(i, j)
    <3> SUFFICES ASSUME NEW j \in Valid \ {i} PROVE Before(i, j)
      OBVIOUS
    <3>1. ~Before(j, i)
      BY <1>4, <1>5, <1>e, <2>1
    <3> QED
      BY <1>t, <1>c, <1>3, <3>1 DEF Before
  <2>3. first \in Valid /\ \A j \in Valid \ {first} : Before(first, j)
    BY <1>2, <2>2
  <2>4. PICK x : x = first
    OBVIOUS
  <2>5. x \in Valid /\ \A j \in Valid \ {x} : Earlier(x, j) /\ ~Earlier(j, x)
    <3>1. x \in Valid /\ \A j \in Valid \ {x} : Before(x, j)
      BY <2>3, <2>4
    <3> HIDE DEF first, Valid
    <3>2. \A j \in Valid \ {x} : Earlier(x, j)
      BY <1>4, <3>1
    <3>3. \A j \in Valid : Earlier(x, j) => ~Earlier(j, x)
      BY <1>5, <1>e, <3>1
    <3> QED
      BY <3>1, <3>2, <3>3
  <2>6. ~Earlier(x, x)
    BY <1>5, <1>e, <2>5
  <2>7. Evaluate(u, ip, t) <=> wantRule[x].action = "accept"
    BY <1>2, <1>3, <1>7, <2>4, <2>5 DEF Evaluate
  <2>8. wantRule[x].action \in {"accept", "deny"}
    BY <1>t, <1>3, <2>5
  <2>9. PICK H : H = Valid
    OBVIOUS
  <2>10. x \in H /\ \A j \in H \ {x} : Earlier(x, j) /\ ~Earlier(j, x)
    BY <2>5, <2>9
  <2>11. wantRule[x].action = "accept" <=>
           \A k \in H : wantRule[k].action = "deny" =>
             \E j \in H : wantRule[j].action = "accept" /\ Earlier(j, k)
    BY <2>6, <2>8, <2>10
  <2> QED
    BY <2>7, <2>9, <2>11
<1> QED
  BY <1>6, <1>7

\* What RulesInv says of a rule is what RulesAnswer asks.
LEMMA RulesAnswered == RulesInv => RulesAnswer
BY RulesDecide DEF RulesInv, RuleSound, RulesAnswer

-----------------------------------------------------------------------------
(* Decisions on applications *)

Holds(q, c) == req[q].key = App(c)

\* Application c is as the last request on it answered, and nothing is left
\* of one that is not registered.
Agreed(c) ==
  /\ clients[c] = want[c].row /\ grants[c] = want[c].grants /\ ongoing[c] = {}
  /\ Registered(c) /\ mon[c] # None => mon[c].url = clients[c].health
  /\ ~Registered(c) => grants[c] = {} /\ mon[c] = None

\* What request q leaves for its last statement to complete.
Phase(q, c) ==
  LET r == req[q]
  IN  /\ Registered(c) /\ ongoing[c] = {}
      /\ r.op = "create" =>
           /\ clients[c] = r.row /\ mon[c] = None
           /\ grants[c] = IF r.pc # "grant" /\ r.row.policy = "assigned"
                          THEN r.in.grants ELSE {}
           /\ r.pc = "upsert" => r.seen = None
      /\ r.op \in {"toggle", "rotate"} \/ (r.op = "update" /\ r.pc = "save")
           \/ (r.op = "delete" /\ r.pc = "monitor") => Agreed(c)
      /\ r.op = "rotate" => r.row.health = clients[c].health
      /\ r.op = "update" /\ r.pc # "save" =>
           clients[c] = r.row /\ grants[c] = want[c].grants
      /\ r.op = "update" /\ r.pc = "grants" /\ mon[c] # None =>
           mon[c].url = clients[c].health
      /\ r.op = "delete" /\ r.pc # "monitor" => mon[c] = None
      /\ r.op = "delete" /\ r.pc = "row" => grants[c] = {}

\* The requests on application c never overlapped: there is one at most, and
\* it has taken the application this far from what was answered before.
AppSound(c) ==
  App(c) \notin raced =>
    /\ \A p, q \in Requests : Holds(p, c) /\ Holds(q, c) => p = q
    /\ (\A q \in Requests : ~Holds(q, c)) => Agreed(c)
    /\ \A q \in Requests : Holds(q, c) => Phase(q, c)

WantShape == want = [c \in Clients |-> want[c]]

AppsInv == AppTyped /\ WantShape /\ \A c \in Clients : AppSound(c)

SameApp(c) ==
  /\ clients'[c] = clients[c] /\ grants'[c] = grants[c] /\ want'[c] = want[c]
  /\ mon'[c] = mon[c] /\ ongoing'[c] = ongoing[c]

\* A step on something else leaves an application sound.
LEMMA AppApart ==
  ASSUME NEW c, AppSound(c), Apart(App(c)), SameApp(c)
  PROVE  AppSound(c)'
<1>1. App(c)' = App(c)
  BY DEF App
<1>2. Agreed(c) => Agreed(c)'
  BY DEF Agreed, SameApp, Registered
<1>3. ASSUME NEW p \in Requests, Holds(p, c)'
      PROVE  Holds(p, c) /\ (Phase(p, c) => Phase(p, c)')
  <2>1. req'[p] = req[p]
    BY <1>1, <1>3 DEF Apart, Holds
  <2> QED
    BY <1>1, <1>2, <1>3, <2>1 DEF Phase, SameApp, Registered, Holds
<1>4. ASSUME NEW p \in Requests, Holds(p, c) PROVE Holds(p, c)'
  BY <1>1, <1>4 DEF Apart, Holds
<1>5. raced \subseteq raced'
  BY DEF Apart
<1> QED
  BY <1>1, <1>2, <1>3, <1>4, <1>5 DEF AppSound

\* A request takes the application up: alone, or it has raced.
LEMMA TakeSound ==
  ASSUME NEW c, NEW q \in Requests, AppSound(c), OnlySlot(q), raced \subseteq raced',
         ~Holds(q, c), Holds(q, c)',
         (\E p \in Requests \ {q} : Holds(p, c)) => App(c) \in raced',
         Agreed(c) => Phase(q, c)'
  PROVE  AppSound(c)'
<1>1. App(c)' = App(c)
  BY DEF App
<1>2. \A p \in Requests \ {q} : Holds(p, c)' <=> Holds(p, c)
  BY <1>1 DEF OnlySlot, Holds
<1>3. CASE \E p \in Requests \ {q} : Holds(p, c)
  BY <1>1, <1>3 DEF AppSound
<1>4. CASE ~\E p \in Requests \ {q} : Holds(p, c)
  <2>1. App(c) \notin raced => Agreed(c)
    BY <1>4 DEF AppSound
  <2>2. \A p \in Requests : Holds(p, c)' => p = q
    BY <1>2, <1>4
  <2> QED
    BY <1>1, <2>1, <2>2 DEF AppSound
<1> QED
  BY <1>3, <1>4

\* The request that works on it goes on.
LEMMA GoSound ==
  ASSUME NEW c, NEW q \in Requests, AppSound(c), OnlySlot(q), raced' = raced,
         Holds(q, c), Holds(q, c)', Phase(q, c) => Phase(q, c)'
  PROVE  AppSound(c)'
<1>1. App(c)' = App(c)
  BY DEF App
<1>2. \A p \in Requests \ {q} : Holds(p, c)' <=> Holds(p, c)
  BY <1>1 DEF OnlySlot, Holds
<1>3. SUFFICES ASSUME App(c) \notin raced PROVE AppSound(c)'
  BY <1>1 DEF AppSound
<1>4. \A p \in Requests : Holds(p, c)' => p = q
  BY <1>2, <1>3 DEF AppSound
<1>5. Phase(q, c)'
  BY <1>3 DEF AppSound
<1> QED
  BY <1>1, <1>4, <1>5 DEF AppSound

\* Or it is over.
LEMMA EndSound ==
  ASSUME NEW c, NEW q \in Requests, AppSound(c), OnlySlot(q), raced' = raced,
         Holds(q, c), ~Holds(q, c)', Phase(q, c) => Agreed(c)'
  PROVE  AppSound(c)'
<1>1. App(c)' = App(c)
  BY DEF App
<1>2. \A p \in Requests \ {q} : Holds(p, c)' <=> Holds(p, c)
  BY <1>1 DEF OnlySlot, Holds
<1>3. SUFFICES ASSUME App(c) \notin raced PROVE AppSound(c)'
  BY <1>1 DEF AppSound
<1>4. \A p \in Requests : ~Holds(p, c)'
  BY <1>2, <1>3 DEF AppSound
<1>5. Agreed(c)'
  BY <1>3 DEF AppSound
<1> QED
  BY <1>1, <1>4, <1>5 DEF AppSound

\* An answer changes what is wanted of one application.
LEMMA AnswerSet ==
  ASSUME WantShape, NEW c \in Clients, NEW row, NEW gs, Answer(c, row, gs)
  PROVE  /\ WantShape' /\ want'[c].row = row /\ want'[c].grants = gs
         /\ \A d \in Clients \ {c} : want'[d] = want[d]
BY DEF WantShape, Answer

\* What a request keeps: the applications sound, and other keys apart.
Keeps(q) ==
  /\ WantShape' /\ \A c \in Clients : AppSound(c)'
  /\ \A key : (key # Nil /\ \A c \in Clients : key # App(c)) => Apart(key)

\* A request works on one application and leaves the others sound.
LEMMA OneApp ==
  ASSUME NEW q \in Requests, NEW c \in Clients, OnlySlot(q), raced \subseteq raced',
         req[q].key \in {Nil, App(c)}, req'[q].key \in {Nil, App(c)},
         WantShape', AppSound(c)', \A d \in Clients \ {c} : AppSound(d) /\ SameApp(d)
  PROVE  Keeps(q)
<1>1. \A key : (key # Nil /\ key # App(c)) => Apart(key)
  BY DEF Apart, OnlySlot
<1>2. ASSUME NEW d \in Clients \ {c} PROVE AppSound(d)'
  <2>1. App(d) # App(c) /\ App(d) # Nil
    BY AppAssumption DEF App
  <2> QED
    BY <1>1, <2>1, AppApart
<1> QED
  BY <1>1, <1>2 DEF Keeps

\* A request that takes none up changes none.
LEMMA NoApp ==
  ASSUME NEW q \in Requests, OnlySlot(q), raced' = raced,
         req[q].key = Nil, req'[q].key = Nil, WantShape, UNCHANGED <<appVars, monVars>>,
         \A c \in Clients : AppSound(c)
  PROVE  Keeps(q)
<1>1. \A key : key # Nil => Apart(key)
  BY DEF Apart, OnlySlot
<1>2. WantShape' /\ \A c \in Clients : SameApp(c)
  BY DEF WantShape, SameApp, appVars, monVars
<1> QED
  BY <1>1, <1>2, AppApart, AppAssumption DEF Keeps
\* Every step of a request keeps the applications sound.
LEMMA AppRequestSound ==
  ASSUME AppsInv, NEW q \in Requests, AppRequest(q)
  PROVE  Keeps(q)
<1> USE AppAssumption
<1>s. ReqShape /\ ReqsOK /\ \A p \in Requests : ReqOK(req[p])
  BY DEF ReqsOK, AppTyped, AppsInv
<1>t. /\ MonitorTypeOK
      /\ clients \in [Clients -> Rows \cup {None, Gone}]
      /\ grants \in [Clients -> SUBSET Principals]
      /\ WantShape /\ \A c \in Clients : AppSound(c)
  BY DEF AppTyped, AppTypeOK, AppsInv
<1>m. mon \in [Clients -> Monitors \cup {None}] /\ ongoing \in [Clients -> SUBSET Nat]
  BY <1>t DEF MonitorTypeOK
<1>i. req[q].pc \in {"idle", "next"} => req[q].key = Nil
  BY <1>s, IdleIsReq DEF ReqOK
<1>r. \A c \in Clients : Registered(c) <=> clients[c] \in Rows
  BY <1>t DEF Registered
\* q takes up c.
<1>a. ASSUME NEW c \in Clients, NEW op, NEW pc, NEW in, NEW row, NEW todo,
             req[q].pc \in {"idle", "next"},
             Take(q, op, pc, App(c), in, row, todo), WantShape',
             \A d \in Clients \ {c} : SameApp(d), Agreed(c) => Phase(q, c)'
      PROVE  Keeps(q)
  <2>1. /\ OnlySlot(q) /\ req'[q].key = App(c) /\ raced \subseteq raced'
        /\ (\E p \in Requests \ {q} : req[p].key = App(c)) => App(c) \in raced'
    BY <1>a, <1>s, TakeReq
  <2>2. Holds(q, c)' /\ ~Holds(q, c)
    BY <1>a, <1>i, <2>1 DEF Holds, App
  <2>3. AppSound(c)'
    BY <1>a, <1>t, <2>1, <2>2, TakeSound DEF Holds
  <2> QED
    BY <1>a, <1>i, <1>t, <2>1, <2>3, OneApp
\* q goes on with c.
<1>g. ASSUME NEW c \in Clients, Holds(q, c), OnlySlot(q), raced' = raced, Holds(q, c)',
             WantShape', \A d \in Clients \ {c} : SameApp(d), Phase(q, c) => Phase(q, c)'
      PROVE  Keeps(q)
  <2>1. AppSound(c)' /\ App(c)' = App(c)
    BY <1>g, <1>t, GoSound DEF App
  <2> QED
    BY <1>g, <1>t, <2>1, OneApp DEF Holds
\* q is over, or a batch takes the next.
<1>e. ASSUME NEW c \in Clients, Holds(q, c), OnlySlot(q), raced' = raced, req'[q].key = Nil,
             WantShape', \A d \in Clients \ {c} : SameApp(d), Phase(q, c) => Agreed(c)'
      PROVE  Keeps(q)
  <2>1. AppSound(c)' /\ App(c)' = App(c)
    BY <1>e, <1>t, EndSound DEF App, Holds
  <2> QED
    BY <1>e, <1>t, <2>1, OneApp DEF Holds
<1>n. ASSUME UNCHANGED <<appVars, monVars>>
      PROVE  WantShape' /\ \A d \in Clients : SameApp(d)
  BY <1>n, <1>t DEF WantShape, SameApp, appVars, monVars
<1>1. ASSUME NEW c \in Clients, NEW in \in CreateInputs, CreateApp(q, c, in)
      PROVE  Keeps(q)
  <2>1. PICK row : /\ row = [active |-> TRUE, policy |-> Given(in.policy, "all"),
                             visible |-> in.visible, sp |-> in.sp, secret |-> minted,
                             login |-> in.login,
                             health |-> IF in.health = "" THEN in.login ELSE in.health]
                   /\ Begin(q, "create", "grant", App(c), in, Fresh(row), {})
                   /\ clients' = [clients EXCEPT ![c] = Fresh(row)]
    BY <1>1 DEF CreateApp
  <2>2. PICK fresh : fresh = Fresh(row)
    OBVIOUS
  <2>3. Take(q, "create", "grant", App(c), in, fresh, {}) /\ req[q].pc = "idle"
    BY <2>1, <2>2 DEF Begin
  <2>4. /\ req'[q].op = "create" /\ req'[q].pc = "grant" /\ req'[q].row = fresh
        /\ req'[q].key = App(c)
    BY <1>s, <2>3, TakeReq
  <2>5. /\ UNCHANGED <<grants, want, monVars>> /\ clients' = [clients EXCEPT ![c] = fresh]
        /\ clients[c] = None
    BY <1>1, <2>1, <2>2 DEF CreateApp
  <2>6. AppTyped' /\ clients'[c] \in Rows
    <3>1. AppTyped'
      BY <1>1, AppRequestTyped DEF AppsInv
    <3>2. ReqOK(req'[q])
      BY <3>1 DEF AppTyped, ReqsOK
    <3> QED
      BY <1>t, <2>4, <2>5, <3>1, <3>2 DEF ReqOK
  <2>7. Agreed(c) => Phase(q, c)'
    <3>1. Registered(c)' /\ ~Registered(c)
      BY <2>5, <2>6 DEF Registered
    <3>2. clients'[c] = fresh
      BY <1>t, <2>5
    <3> QED
      BY <2>4, <2>5, <3>1, <3>2 DEF Phase, Agreed, monVars
  <2>8. WantShape' /\ \A d \in Clients \ {c} : SameApp(d)
    BY <1>t, <2>5 DEF WantShape, SameApp, monVars
  <2> QED
    BY <1>a, <2>3, <2>7, <2>8
\* Load, by a request that held nothing, or the switch of the same application.
<1>l. ASSUME NEW c \in Clients, NEW in, NEW todo, UNCHANGED <<appVars, monVars>>,
             Load(q, c, in, todo),
             \/ req[q].pc \in {"idle", "next"}
             \/ Holds(q, c) /\ req[q].op = "toggle"
      PROVE  Keeps(q)
  <2>1. PICK row : row = Changed(clients[c], in)
    OBVIOUS
  <2>2. Take(q, "update", "save", App(c), in, row, todo) /\ Registered(c)
    BY <1>l, <2>1 DEF Load
  <2>3. /\ req'[q].op = "update" /\ req'[q].pc = "save" /\ OnlySlot(q)
        /\ raced \subseteq raced'
    BY <1>s, <2>2, TakeReq
  <2>8. raced' \in {raced, raced \cup {App(c)}}
    BY <2>2 DEF Take
  <2>4. (Agreed(c) => Agreed(c)') /\ Registered(c)' /\ (Agreed(c) => ongoing'[c] = {})
    BY <1>l, <2>2 DEF Agreed, Registered, appVars, monVars
  <2>5. Agreed(c) => Phase(q, c)'
    BY <2>3, <2>4 DEF Phase
  <2>6. CASE req[q].pc \in {"idle", "next"}
    BY <1>a, <1>n, <1>l, <2>2, <2>5, <2>6
  <2>7. CASE Holds(q, c) /\ req[q].op = "toggle"
    <3>1. Phase(q, c) => Agreed(c)
      BY <2>7 DEF Phase
    <3>2. CASE raced' = raced
      <4>1. Holds(q, c)'
        BY <1>s, <2>2, TakeReq DEF Holds, App
      <4> QED
        BY <1>g, <1>n, <1>l, <2>3, <2>5, <2>7, <3>1, <3>2, <4>1
    <3>3. CASE raced' # raced
      <4>1. App(c)' = App(c) /\ req'[q].key = App(c) /\ AppSound(c)'
        <5>1. App(c) \in raced' /\ App(c)' = App(c)
          BY <2>8, <3>3 DEF App
        <5>2. req'[q].key = App(c)
          BY <1>s, <2>2, TakeReq
        <5> QED
          BY <5>1, <5>2 DEF AppSound
      <4> QED
        BY <1>n, <1>l, <1>t, <2>3, <2>7, <4>1, OneApp DEF Holds
    <3> QED
      BY <3>2, <3>3
  <2> QED
    BY <1>l, <2>6, <2>7
<1>2. ASSUME NEW c \in Clients, NEW in \in UpdateInputs, Update(q, c, in) PROVE Keeps(q)
  BY <1>2, <1>l DEF Update
<1>3. ASSUME NEW c \in Clients, ToggleStatus(q, c) PROVE Keeps(q)
  <2>1. PICK in : Take(q, "toggle", "reload", App(c), in, Nil, {})
    BY <1>3 DEF ToggleStatus, Begin
  <2>2. req[q].pc = "idle" /\ Registered(c) /\ UNCHANGED <<appVars, monVars>>
    BY <1>3 DEF ToggleStatus, Begin
  <2>3. req'[q].op = "toggle" /\ req'[q].pc = "reload"
    BY <1>s, <2>1, TakeReq
  <2>4. Agreed(c) => Phase(q, c)'
    BY <2>2, <2>3 DEF Phase, Agreed, Registered, appVars, monVars
  <2> QED
    BY <1>a, <1>n, <2>1, <2>2, <2>4
<1>4. ASSUME NEW c \in Clients, RotateSecret(q, c) PROVE Keeps(q)
  <2>1. clients[c] \in Rows
    BY <1>4, <1>r DEF RotateSecret
  <2>2. PICK row : row = [clients[c] EXCEPT !.secret = minted]
    OBVIOUS
  <2>3. row.health = clients[c].health
    BY <2>1, <2>2 DEF Rows
  <2>4. Take(q, "rotate", "save", App(c), Nil, row, {}) /\ req[q].pc = "idle"
        /\ Registered(c) /\ UNCHANGED <<clients, grants, want, monVars>>
    BY <1>4, <2>2 DEF RotateSecret, Begin
  <2>5. req'[q].op = "rotate" /\ req'[q].pc = "save" /\ req'[q].row = row
    BY <1>s, <2>4, TakeReq
  <2>6. Agreed(c) => Phase(q, c)'
    BY <2>3, <2>4, <2>5 DEF Phase, Agreed, Registered, monVars
  <2>7. WantShape' /\ \A d \in Clients : SameApp(d)
    BY <1>t, <2>4 DEF WantShape, SameApp, monVars
  <2> QED
    BY <1>a, <2>4, <2>6, <2>7
\* Delete, and its element in a batch.
<1>k. ASSUME NEW c \in Clients, NEW todo, Registered(c), UNCHANGED <<appVars, monVars>>,
             req[q].pc \in {"idle", "next"},
             Take(q, "delete", "monitor", App(c), Nil, Nil, todo)
      PROVE  Keeps(q)
  <2>1. req'[q].op = "delete" /\ req'[q].pc = "monitor"
    BY <1>s, <1>k, TakeReq
  <2>2. Agreed(c) => Phase(q, c)'
    BY <1>k, <2>1 DEF Phase, Agreed, Registered, appVars, monVars
  <2> QED
    BY <1>a, <1>k, <1>n, <2>2
<1>5. ASSUME NEW c \in Clients, Delete(q, c) PROVE Keeps(q)
  BY <1>5, <1>k DEF Delete, Begin
<1>6. ASSUME NEW c \in Clients, NextOfBatch(q, c) PROVE Keeps(q)
  <2>1. PICK in, todo : in = req[q].in /\ todo = req[q].todo \ {c}
    OBVIOUS
  <2>2. req[q].pc = "next" /\ UNCHANGED <<appVars, monVars>>
    BY <1>6 DEF NextOfBatch
  <2>3. \/ Load(q, c, in, todo)
        \/ Registered(c) /\ Take(q, "delete", "monitor", App(c), Nil, Nil, todo)
    BY <1>6, <2>1 DEF NextOfBatch, Load, Take
  <2> QED
    BY <1>l, <1>k, <2>2, <2>3
\* A batch, which holds nothing.
<1>b. ASSUME OnlySlot(q), raced' = raced, req[q].pc \in {"idle", "next"},
             req'[q].key = Nil, UNCHANGED <<appVars, monVars>>
      PROVE  Keeps(q)
  BY <1>b, <1>i, <1>t, NoApp
<1>7. ASSUME NEW c \in Clients, SkipOfBatch(q, c) PROVE Keeps(q)
  <2>1. PICK r : r = req[q] /\ IsReq(r)
    BY <1>s, SlotIsReq
  <2>2. PICK V : r \in ReqSlots(V)
    BY <2>1 DEF IsReq
  <2>3. PICK rest : rest = r.todo \ {c}
    OBVIOUS
  <2>4. PICK s : s = IF rest = {} THEN Idle ELSE [r EXCEPT !.todo = rest]
    OBVIOUS
  <2>5. req' = [req EXCEPT ![q] = s] /\ r.pc = "next"
    BY <1>7, <2>1, <2>3, <2>4 DEF SkipOfBatch
  <2>6. IsReq(s) /\ s.key = Nil
    <3>1. CASE rest = {}
      BY <2>4, <3>1, IdleIsReq
    <3>2. CASE rest # {}
      <4>1. s \in ReqSlots(V \cup {rest}) /\ s.key = r.key
        BY <2>2, <2>4, <3>2 DEF ReqSlots
      <4> QED
        BY <1>i, <2>1, <2>5, <4>1 DEF IsReq
    <3> QED
      BY <3>1, <3>2
  <2>7. OnlySlot(q) /\ req'[q] = s
    BY <1>s, <2>5, <2>6, ReqSet
  <2> QED
    BY <1>7, <1>b, <2>1, <2>5, <2>6, <2>7 DEF SkipOfBatch
<1>c. ASSUME NEW op, NEW in, Batch(q, op, in) PROVE Keeps(q)
  <2>1. PICK s : s = [Idle EXCEPT !.op = op, !.pc = "next", !.in = in, !.todo = Clients]
    OBVIOUS
  <2>2. PICK V : Idle \in ReqSlots(V)
    BY IdleIsReq DEF IsReq
  <2>3. s \in ReqSlots(V \cup {op, "next", in, Clients}) /\ s.key = Nil
    BY <2>1, <2>2, IdleIsReq DEF ReqSlots
  <2>4. req' = [req EXCEPT ![q] = s]
    BY <1>c, <2>1 DEF Batch
  <2>5. OnlySlot(q) /\ req'[q] = s
    BY <1>s, <2>3, <2>4, ReqSet DEF IsReq
  <2> QED
    BY <1>b, <1>c, <2>3, <2>5 DEF Batch
<1>8. ASSUME NEW in \in UpdateInputs, BatchUpdate(q, in) PROVE Keeps(q)
  BY <1>8, <1>c DEF BatchUpdate
<1>9. ASSUME BatchDelete(q) PROVE Keeps(q)
  BY <1>9, <1>c DEF BatchDelete
\* q holds an application.
<1>h. ASSUME OnClient(req[q])
      PROVE  \E c \in Clients : c = On(q) /\ Holds(q, c) /\ req[q].key = App(c)
  BY <1>h, OnClientApp DEF Holds
\* q goes to another statement, or is over with c.
<1>o. ASSUME NEW c \in Clients, Holds(q, c), NEW pc, Goto(q, pc)
      PROVE  /\ OnlySlot(q) /\ raced' = raced /\ Holds(q, c)'
             /\ req'[q].pc = pc /\ req'[q].op = req[q].op /\ req'[q].in = req[q].in
             /\ req'[q].row = req[q].row /\ req'[q].seen = req[q].seen
  BY <1>o, <1>s, GotoReq DEF Holds, App
<1>f. ASSUME End(q)
      PROVE  OnlySlot(q) /\ raced' = raced /\ req'[q].key = Nil
  BY <1>f, <1>s, EndReq, IdleIsReq
<1>v. ASSUME Through(q)
      PROVE  OnlySlot(q) /\ raced' = raced /\ req'[q].key = Nil
  BY <1>v, <1>s, ThroughReq, IdleIsReq
<1>10. ASSUME CreateGrants(q) PROVE Keeps(q)
  <2>1. /\ req[q].op = "create" /\ req[q].pc = "grant" /\ OnClient(req[q])
    BY <1>10, <1>s DEF CreateGrants, At, ReqOK
  <2>2. PICK c \in Clients : c = On(q) /\ Holds(q, c)
    BY <1>h, <2>1
  <2>3. PICK row, in : row = req[q].row /\ in = req[q].in
    OBVIOUS
  <2>4. UNCHANGED <<clients, minted, monVars, orgVars>>
    BY <1>10 DEF CreateGrants
  <2>5. CASE (row.policy = "assigned" /\ in.grants # {}) /\ in.bad
    <3>1. End(q) /\ UNCHANGED grants /\ Answer(c, row, {})
      BY <1>10, <2>2, <2>3, <2>5 DEF CreateGrants, Answer
    <3>2. /\ WantShape' /\ want'[c].row = row /\ want'[c].grants = {}
          /\ \A d \in Clients \ {c} : want'[d] = want[d]
      BY <1>t, <3>1, AnswerSet
    <3>3. Phase(q, c) => Agreed(c)'
      BY <2>1, <2>3, <2>4, <3>1, <3>2 DEF Phase, Agreed, Registered, monVars
    <3> QED
      BY <1>e, <1>f, <2>2, <2>4, <3>1, <3>2, <3>3 DEF SameApp, monVars
  <2>6. CASE ~((row.policy = "assigned" /\ in.grants # {}) /\ in.bad)
    <3>1. PICK gs : gs = IF row.policy = "assigned" THEN in.grants ELSE {}
      OBVIOUS
    <3>2. Goto(q, "monitor") /\ UNCHANGED want /\ grants' = [grants EXCEPT ![c] = gs]
      <4>1. gs = IF row.policy = "assigned" /\ in.grants # {} THEN in.grants ELSE {}
        BY <3>1
      <4> QED
        BY <1>10, <2>2, <2>3, <2>6, <4>1 DEF CreateGrants
    <3>3. grants'[c] = gs /\ \A d \in Clients \ {c} : grants'[d] = grants[d]
      BY <1>t, <3>2
    <3>4. Phase(q, c) => Phase(q, c)'
      BY <1>o, <2>1, <2>2, <2>3, <2>4, <3>1, <3>2, <3>3 DEF Phase, Registered, monVars
    <3> QED
      BY <1>g, <1>o, <1>t, <2>2, <2>4, <3>2, <3>3, <3>4 DEF SameApp, WantShape, monVars
  <2> QED
    BY <2>5, <2>6
<1>11. ASSUME CreateFirst(q) PROVE Keeps(q)
  <2>1. req[q].op = "create" /\ req[q].pc = "monitor" /\ OnClient(req[q])
    BY <1>11, <1>s DEF CreateFirst, At, ReqOK
  <2>2. PICK c \in Clients : c = On(q) /\ Holds(q, c) /\ req[q].key = App(c)
    BY <1>h, <2>1
  <2>3. PICK r : r = req[q] /\ IsReq(r)
    BY <1>s, SlotIsReq
  <2>4. PICK V : r \in ReqSlots(V)
    BY <2>3 DEF IsReq
  <2>5. PICK seen : seen = mon[c]
    OBVIOUS
  <2>6. PICK s : s = [r EXCEPT !.pc = "upsert", !.seen = seen]
    OBVIOUS
  <2>7. s \in ReqSlots(V \cup {"upsert", seen})
    BY <2>4, <2>6 DEF ReqSlots
  <2>8. /\ s.pc = "upsert" /\ s.seen = seen /\ s.op = r.op /\ s.key = r.key
        /\ s.in = r.in /\ s.row = r.row
    BY <2>4, <2>6 DEF ReqSlots
  <2>9. req' = [req EXCEPT ![q] = s] /\ raced' = raced /\ UNCHANGED <<appVars, monVars>>
    BY <1>11, <2>2, <2>3, <2>5, <2>6 DEF CreateFirst
  <2>10. OnlySlot(q) /\ req'[q] = s
    BY <1>s, <2>7, <2>9, ReqSet DEF IsReq
  <2>11. Holds(q, c)'
    BY <2>2, <2>3, <2>8, <2>10 DEF Holds, App
  <2>12. Phase(q, c) => Phase(q, c)'
    BY <2>1, <2>3, <2>5, <2>8, <2>9, <2>10 DEF Phase, Registered, appVars, monVars
  <2> QED
    BY <1>g, <1>n, <2>2, <2>9, <2>10, <2>11, <2>12
<1>12. ASSUME CreateMonitor(q) PROVE Keeps(q)
  <2>1. /\ req[q].op = "create" /\ req[q].pc = "upsert" /\ OnClient(req[q])
        /\ req[q].row \in Rows /\ req[q].seen \in Monitors \cup {None}
    BY <1>12, <1>s DEF CreateMonitor, At, ReqOK
  <2>2. PICK c \in Clients : c = On(q) /\ Holds(q, c)
    BY <1>h, <2>1
  <2>3. PICK row \in Rows, seen \in Monitors \cup {None} :
          row = req[q].row /\ seen = req[q].seen
    BY <2>1
  <2>4. PICK m \in Monitors : m = NewMonitor(row.health) /\ m.url = row.health
    BY NewMonitorTyped DEF Rows
  <2>5. PICK gs : gs = IF row.policy = "assigned" THEN req[q].in.grants ELSE {}
    OBVIOUS
  <2>6. /\ mon' = Upserted(c, seen, m) /\ Answer(c, row, gs) /\ End(q)
        /\ UNCHANGED <<clients, grants, minted, ongoing, probed, worst, orgVars>>
    BY <1>12, <2>2, <2>3, <2>4, <2>5 DEF CreateMonitor, Upserted, Put, Answer
  <2>7. /\ WantShape' /\ want'[c].row = row /\ want'[c].grants = gs
        /\ \A d \in Clients \ {c} : want'[d] = want[d]
    BY <1>t, <2>6, AnswerSet
  <2>8. /\ \A d \in Clients \ {c} : mon'[d] = mon[d]
        /\ seen = None /\ mon[c] = None => mon'[c].url = row.health
    <3>1. \A d \in Clients \ {c} : Upserted(c, seen, m)[d] = mon[d]
      BY <1>m DEF Upserted, Put
    <3>2. seen = None /\ mon[c] = None => Upserted(c, seen, m)[c] = NewRow(m)
      BY <1>m DEF Upserted, Put
    <3> QED
      BY <2>4, <2>6, <3>1, <3>2, NewRowTyped
  <2>9. Phase(q, c) => Agreed(c)'
    BY <2>1, <2>3, <2>5, <2>6, <2>7, <2>8 DEF Phase, Agreed, Registered
  <2> QED
    BY <1>e, <1>f, <2>2, <2>6, <2>7, <2>8, <2>9 DEF SameApp
<1>13. ASSUME Reload(q) PROVE Keeps(q)
  <2>1. req[q].op = "toggle" /\ req[q].pc = "reload" /\ OnClient(req[q])
    BY <1>13, <1>s DEF Reload, At, ReqOK
  <2>2. PICK c \in Clients : c = On(q) /\ Holds(q, c)
    BY <1>h, <2>1
  <2>3. PICK in : in = req[q].in
    OBVIOUS
  <2>4. UNCHANGED <<appVars, monVars>>
    BY <1>13 DEF Reload
  <2>5. CASE Registered(c)
    <3>1. Load(q, c, in, {})
      BY <1>13, <2>2, <2>3, <2>5 DEF Reload, Load, Take
    <3> QED
      BY <1>l, <2>1, <2>2, <2>4, <3>1
  <2>6. CASE ~Registered(c)
    <3>1. End(q)
      BY <1>13, <2>2, <2>6 DEF Reload
    <3>2. ~Phase(q, c)
      BY <2>6 DEF Phase
    <3> QED
      BY <1>e, <1>f, <1>n, <2>2, <2>4, <3>1, <3>2
  <2> QED
    BY <2>5, <2>6
\* gorm's Save of a row that is registered.
<1>w. ASSUME NEW c \in Clients, NEW row, clients' = Saved(c, row)
      PROVE  /\ Registered(c) => clients'[c] = row
             /\ \A d \in Clients \ {c} : clients'[d] = clients[d]
  BY <1>w, <1>t DEF Saved
<1>14. ASSUME UpdateSave(q) PROVE Keeps(q)
  <2>1. /\ req[q].op = "update" /\ req[q].pc = "save" /\ OnClient(req[q])
        /\ req[q].row \in Rows
    BY <1>14, <1>s DEF UpdateSave, At, ReqOK
  <2>2. PICK c \in Clients : c = On(q) /\ Holds(q, c)
    BY <1>h, <2>1
  <2>3. PICK row \in Rows : row = req[q].row
    BY <2>1
  <2>4. /\ clients' = Saved(c, row) /\ Goto(q, "monitor")
        /\ UNCHANGED <<grants, minted, want, monVars, orgVars>>
    BY <1>14, <2>2, <2>3 DEF UpdateSave, Saved, Registered, Fresh
  <2>5. Phase(q, c) => Phase(q, c)'
    <3>1. ASSUME Phase(q, c) PROVE clients'[c] = row /\ Registered(c)'
      BY <1>t, <1>w, <2>3, <2>4, <3>1 DEF Phase, Registered
    <3> QED
      BY <1>o, <2>1, <2>2, <2>3, <2>4, <3>1 DEF Phase, Agreed, monVars
  <2> QED
    BY <1>g, <1>o, <1>t, <1>w, <2>2, <2>4, <2>5 DEF SameApp, WantShape, monVars
<1>15. ASSUME UpdateMonitor(q) PROVE Keeps(q)
  <2>1. /\ req[q].op = "update" /\ req[q].pc = "monitor" /\ OnClient(req[q])
        /\ req[q].row \in Rows
    BY <1>15, <1>s DEF UpdateMonitor, At, ReqOK
  <2>2. PICK c \in Clients : c = On(q) /\ Holds(q, c)
    BY <1>h, <2>1
  <2>3. PICK url \in Addresses : url = req[q].row.health
    BY <2>1 DEF Rows
  <2>4. /\ UpdateHealthURL(c, url) /\ Goto(q, "grants") /\ UNCHANGED <<appVars, orgVars>>
    BY <1>15, <2>2, <2>3 DEF UpdateMonitor, UpdateHealthURL, SetColumns, Put
  <2>5. /\ \A d \in Clients \ {c} : mon'[d] = mon[d]
        /\ mon'[c] # None => mon'[c].url = url
    BY <1>t, <2>4, HealthURLSet
  <2>6. UNCHANGED ongoing
    BY <2>4 DEF UpdateHealthURL
  <2>7. Phase(q, c) => Phase(q, c)'
    BY <1>o, <2>1, <2>2, <2>3, <2>4, <2>5, <2>6 DEF Phase, Registered, appVars
  <2> QED
    BY <1>g, <1>o, <1>t, <2>2, <2>4, <2>5, <2>6, <2>7 DEF SameApp, WantShape, appVars
<1>16. ASSUME UpdateGrants(q) PROVE Keeps(q)
  <2>1. /\ req[q].op = "update" /\ req[q].pc = "grants" /\ OnClient(req[q])
        /\ req[q].row \in Rows
    BY <1>16, <1>s DEF UpdateGrants, At, ReqOK
  <2>2. PICK c \in Clients : c = On(q) /\ Holds(q, c)
    BY <1>h, <2>1
  <2>3. PICK row, in : row \in Rows /\ row = req[q].row /\ in = req[q].in
    BY <2>1
  <2>4. PICK gs : gs = NewGrants(grants[c], row.policy, in)
    OBVIOUS
  <2>5. PICK ws : ws = IF row.policy # "assigned" THEN {}
                       ELSE IF in.grants = Nil \/ in.bad THEN want[c].grants
                       ELSE in.grants
    OBVIOUS
  <2>6. /\ grants' = [grants EXCEPT ![c] = gs] /\ Answer(c, row, ws) /\ Through(q)
        /\ UNCHANGED <<clients, minted, monVars, orgVars>>
    BY <1>16, <2>2, <2>3, <2>4, <2>5 DEF UpdateGrants, NewGrants, Answer
  <2>7. /\ WantShape' /\ want'[c].row = row /\ want'[c].grants = ws
        /\ \A d \in Clients \ {c} : want'[d] = want[d]
    BY <1>t, <2>6, AnswerSet
  <2>8. grants'[c] = gs /\ \A d \in Clients \ {c} : grants'[d] = grants[d]
    BY <1>t, <2>6
  <2>9. grants[c] = want[c].grants => gs = ws
    BY <2>4, <2>5 DEF NewGrants
  <2>10. Phase(q, c) => Agreed(c)'
    BY <2>1, <2>3, <2>6, <2>7, <2>8, <2>9 DEF Phase, Agreed, Registered, monVars
  <2> QED
    BY <1>e, <1>v, <2>2, <2>6, <2>7, <2>8, <2>10 DEF SameApp, monVars
<1>17. ASSUME RotateSave(q) PROVE Keeps(q)
  <2>1. req[q].op = "rotate" /\ OnClient(req[q]) /\ req[q].row \in Rows
    BY <1>17, <1>s DEF RotateSave, At, ReqOK
  <2>2. PICK c \in Clients : c = On(q) /\ Holds(q, c)
    BY <1>h, <2>1
  <2>3. PICK row, ws : row \in Rows /\ row = req[q].row /\ ws = want[c].grants
    BY <2>1
  <2>4. /\ clients' = Saved(c, row) /\ Answer(c, row, ws) /\ End(q)
        /\ UNCHANGED <<grants, minted, monVars, orgVars>>
    BY <1>17, <2>2, <2>3 DEF RotateSave, Saved, Registered, Fresh, Answer
  <2>5. /\ WantShape' /\ want'[c].row = row /\ want'[c].grants = ws
        /\ \A d \in Clients \ {c} : want'[d] = want[d]
    BY <1>t, <2>4, AnswerSet
  <2>6. Phase(q, c) => Agreed(c)'
    <3>1. ASSUME Phase(q, c) PROVE clients'[c] = row /\ Registered(c)'
      BY <1>t, <1>w, <2>3, <2>4, <3>1 DEF Phase, Registered
    <3> QED
      BY <2>1, <2>3, <2>4, <2>5, <3>1 DEF Phase, Agreed, monVars
  <2> QED
    BY <1>e, <1>f, <1>w, <2>2, <2>4, <2>5, <2>6 DEF SameApp, monVars
<1>18. ASSUME DeleteMonitor(q) PROVE Keeps(q)
  <2>1. req[q].op = "delete" /\ req[q].pc = "monitor" /\ OnClient(req[q])
    BY <1>18, <1>s DEF DeleteMonitor, At, ReqOK
  <2>2. PICK c \in Clients : c = On(q) /\ Holds(q, c)
    BY <1>h, <2>1
  <2>3. DeleteByClientID(c) /\ Goto(q, "grants") /\ UNCHANGED <<appVars, orgVars>>
    BY <1>18, <2>2 DEF DeleteMonitor, DeleteByClientID, Put
  <2>4. /\ mon'[c] = None /\ ongoing'[c] = {}
        /\ \A d \in Clients \ {c} : mon'[d] = mon[d] /\ ongoing'[d] = ongoing[d]
    BY <1>t, <2>3, DeleteTyped
  <2>5. Phase(q, c) => Phase(q, c)'
    BY <1>o, <2>1, <2>2, <2>3, <2>4 DEF Phase, Registered, appVars
  <2> QED
    BY <1>g, <1>o, <1>t, <2>2, <2>3, <2>4, <2>5 DEF SameApp, WantShape, appVars
<1>19. ASSUME DeleteGrants(q) PROVE Keeps(q)
  <2>1. req[q].op = "delete" /\ req[q].pc = "grants" /\ OnClient(req[q])
    BY <1>19, <1>s DEF DeleteGrants, At, ReqOK
  <2>2. PICK c \in Clients : c = On(q) /\ Holds(q, c)
    BY <1>h, <2>1
  <2>3. /\ grants' = [grants EXCEPT ![c] = {}] /\ Goto(q, "row")
        /\ UNCHANGED <<clients, minted, want, monVars, orgVars>>
    BY <1>19, <2>2 DEF DeleteGrants
  <2>4. grants'[c] = {} /\ \A d \in Clients \ {c} : grants'[d] = grants[d]
    BY <1>t, <2>3
  <2>5. Phase(q, c) => Phase(q, c)'
    BY <1>o, <2>1, <2>2, <2>3, <2>4 DEF Phase, Registered, monVars
  <2> QED
    BY <1>g, <1>o, <1>t, <2>2, <2>3, <2>4, <2>5 DEF SameApp, WantShape, monVars
<1>20. ASSUME DeleteRow(q) PROVE Keeps(q)
  <2>1. req[q].op = "delete" /\ req[q].pc = "row" /\ OnClient(req[q])
    BY <1>20, <1>s DEF DeleteRow, At, ReqOK
  <2>2. PICK c \in Clients : c = On(q) /\ Holds(q, c)
    BY <1>h, <2>1
  <2>3. /\ clients' = [clients EXCEPT ![c] = Gone] /\ Answer(c, Gone, {}) /\ Through(q)
        /\ UNCHANGED <<grants, minted, monVars, orgVars>>
    BY <1>20, <2>2 DEF DeleteRow, Answer
  <2>4. /\ WantShape' /\ want'[c].row = Gone /\ want'[c].grants = {}
        /\ \A d \in Clients \ {c} : want'[d] = want[d]
    BY <1>t, <2>3, AnswerSet
  <2>5. clients'[c] = Gone /\ \A d \in Clients \ {c} : clients'[d] = clients[d]
    BY <1>t, <2>3
  <2>6. Phase(q, c) => Agreed(c)'
    BY <2>1, <2>3, <2>4, <2>5 DEF Phase, Agreed, Registered, monVars
  <2> QED
    BY <1>e, <1>v, <2>2, <2>3, <2>4, <2>5, <2>6 DEF SameApp, monVars
<1> QED
  BY ONLY AppRequest(q), <1>1, <1>2, <1>3, <1>4, <1>5, <1>6, <1>7, <1>8, <1>9, <1>10,
     <1>11, <1>12, <1>13, <1>14, <1>15, <1>16, <1>17, <1>18, <1>19, <1>20 DEF AppRequest

\* The rows of the departments and groups are no requests on applications or
\* rules.
LEMMA OrgApart ==
  ASSUME ReqsOK, OrgNext, NEW key, key # Nil, key # Tree,
         \A g \in Groups : key # <<"group", g>>
  PROVE  Apart(key)
<1>s. ReqShape /\ \A q \in Requests : ReqOK(req[q])
  BY DEF ReqsOK
<1>i. \A q \in Requests : req[q].pc = "idle" => req[q].key = Nil
  BY <1>s, IdleIsReq DEF ReqOK
<1>o. ASSUME NEW other, Once(other) PROVE Apart(key)
  BY <1>o, OnceReq DEF Apart
<1>b. ASSUME NEW q \in Requests, NEW op, NEW pc, NEW other, NEW in, NEW row, other # key,
             Begin(q, op, pc, other, in, row, {})
      PROVE  Apart(key)
  <2>1. OnlySlot(q) /\ req'[q].key = other /\ raced \subseteq raced' /\ req[q].key = Nil
    BY <1>b, <1>i, <1>s, BeginReq, TakeReq
  <2> QED
    BY <1>b, <2>1 DEF Apart, OnlySlot
<1>e. ASSUME NEW q \in Requests, req[q].key # key,
             End(q) \/ Goto(q, "walking") \/ Goto(q, "save")
      PROVE  Apart(key)
  <2>1. OnlySlot(q) /\ raced' = raced /\ req'[q].key \in {Nil, req[q].key}
    BY <1>e, <1>s, EndReq, GotoReq, IdleIsReq
  <2> QED
    BY <1>e, <2>1 DEF Apart, OnlySlot
<1>k. \A q \in Requests : req[q].op \in {"dept", "group", "members"} => req[q].key # key
  BY <1>s DEF ReqOK
<1>1. ASSUME NEW q \in Requests, OrgRequest(q) PROVE Apart(key)
  <2>1. ASSUME NEW d \in Depts, NEW p \in Issued, UpdateDept(q, d, p) PROVE Apart(key)
    BY <1>b, <2>1 DEF UpdateDept
  <2>2. ASSUME NEW d \in Depts, NEW p \in Issued, MoveGet(q, d, p) PROVE Apart(key)
    BY <1>b, <2>2 DEF MoveGet
  <2>3. ASSUME MoveList(q) \/ DeptSave(q) \/ DropGroup(q) \/ PruneMembers(q)
        PROVE  Apart(key)
    BY <1>e, <1>k, <2>3 DEF MoveList, DeptSave, DropGroup, PruneMembers, At
  <2>4. ASSUME NEW g \in Groups, DeleteGroup(q, g) PROVE Apart(key)
    BY <1>b, <2>4 DEF DeleteGroup
  <2>5. ASSUME NEW g \in Groups, NEW us \in MemberSets, SetMembers(q, g, us)
        PROVE  Apart(key)
    BY <1>b, <2>5 DEF SetMembers
  <2> QED
    BY ONLY <1>1, <2>1, <2>2, <2>3, <2>4, <2>5 DEF OrgRequest
<1>2. ASSUME NEW d \in Depts, DeleteDept(d) PROVE Apart(key)
  BY <1>2, <1>o DEF DeleteDept
<1>3. ASSUME NEW d \in Depts, NEW p \in Issued, CreateDept(d, p) PROVE Apart(key)
  BY <1>3, <1>o DEF CreateDept
<1>4. ASSUME NEW u \in Users, NEW d \in Depts, MoveUser(u, d) PROVE Apart(key)
  BY <1>4, <1>o DEF MoveUser
<1> QED
  BY ONLY OrgNext, <1>1, <1>2, <1>3, <1>4 DEF OrgNext

-----------------------------------------------------------------------------
(* The department tree *)

\* Above is the least set that has the department and is upward.
LEMMA AboveLeast ==
  ASSUME NEW f, NEW d, NEW set \in SUBSET Depts, Upward(f, set), d \in Depts => d \in set
  PROVE  Above(f, d) \subseteq set
BY DEF Above

\* And it is upward, and has the department.
LEMMA AboveUpward ==
  ASSUME NEW f, NEW d
  PROVE  /\ Above(f, d) \subseteq Depts /\ Upward(f, Above(f, d))
         /\ d \in Depts => d \in Above(f, d)
BY DEF Above, Upward

\* A department moved below one that is not under it makes no cycle: what is
\* above the new parent stays, and whoever met the department before now meets
\* that instead.
LEMMA MoveMakesNoCycle ==
  ASSUME NEW f, DOMAIN f = Depts, \A e \in Depts : ~OnCycle(f, e),
         NEW d \in Depts, NEW p, d \notin Above(f, p),
         NEW g, g = [f EXCEPT ![d] = p]
  PROVE  \A e \in Depts : ~OnCycle(g, e)
<1>1. g[d] = p /\ \A e \in Depts \ {d} : g[e] = f[e]
  OBVIOUS
<1>2. Upward(g, Above(f, p)) /\ Above(f, p) \in SUBSET Depts
  BY <1>1, AboveUpward DEF Upward
<1>3. SUFFICES ASSUME NEW e \in Depts, g[e] \in Depts PROVE e \notin Above(g, g[e])
  BY DEF OnCycle
<1>4. CASE e = d
  <2>1. p \in Depts => p \in Above(f, p)
    BY AboveUpward
  <2>2. Above(g, p) \subseteq Above(f, p)
    BY <1>2, <2>1, AboveLeast
  <2> QED
    BY <1>1, <1>4, <2>2
<1>5. CASE e # d
  <2>1. PICK up : up = f[e] /\ g[e] = up /\ up \in Depts
    BY <1>1, <1>3, <1>5
  <2>2. e \notin Above(f, up)
    BY <2>1 DEF OnCycle
  <2>3. /\ Above(f, up) \in SUBSET Depts /\ Upward(f, Above(f, up))
        /\ up \in Above(f, up)
    BY <2>1, AboveUpward
  <2>4. CASE d \notin Above(f, up)
    <3>1. Upward(g, Above(f, up))
      BY <1>1, <2>3, <2>4 DEF Upward
    <3>2. Above(g, up) \subseteq Above(f, up)
      BY <2>3, <3>1, AboveLeast
    <3> QED
      BY <2>1, <2>2, <3>2
  <2>5. CASE d \in Above(f, up)
    <3> DEFINE both == Above(f, up) \cup Above(f, p)
    <3>1. Upward(g, both) /\ both \in SUBSET Depts
      <4>1. ASSUME NEW x \in both, g[x] \in Depts PROVE g[x] \in both
        <5>1. CASE x = d
          <6>1. g[x] = p
            BY <1>1, <5>1
          <6> QED
            BY <4>1, <6>1, AboveUpward
        <5>2. CASE x # d
          <6>1. x \in Depts /\ g[x] = f[x]
            BY <1>1, <1>2, <2>3, <4>1, <5>2
          <6> QED
            BY <4>1, <6>1, AboveUpward DEF Upward
        <5> QED
          BY <5>1, <5>2
      <4> QED
        BY <1>2, <2>3, <4>1 DEF Upward
    <3>2. Above(g, up) \subseteq both
      BY <2>3, <3>1, AboveLeast
    <3>3. ASSUME e \in Above(f, p) PROVE FALSE
      <4>1. up \in Above(f, p)
        BY <2>1, <3>3, AboveUpward DEF Upward
      <4>2. Above(f, up) \subseteq Above(f, p)
        BY <1>2, <4>1, AboveLeast, AboveUpward
      <4> QED
        BY <2>5, <4>2
    <3> QED
      BY <2>1, <2>2, <3>2, <3>3
  <2> QED
    BY <2>4, <2>5
<1> QED
  BY <1>4, <1>5

\* Nobody is above a parent that is no department: none, or one that was deleted.
LEMMA NobodyAbove == \A f, p : p \notin Depts => Above(f, p) = {}
BY DEF Above, Upward

\* A department on a request, when the requests on the tree never overlapped:
\* what it has read is still so, and what it will save makes no cycle.
TreeRequest(r) ==
  /\ r.op = "dept" /\ r.pc \in {"list", "save"}
  /\ r.in \in Depts /\ r.row \in Issued
  /\ r.pc = "save" => r.row = parent[r.in] \/ r.in \notin Above(parent, r.row)

\* A parent was issued, and keeps its number.
ParentsIssued == \A d \in Depts : parent[d] \in Depts => parent[parent[d]] # Nil

\* The table is a forest.
Forest == \A d \in Depts : ~OnCycle(parent, d)

\* What holds of the tree unless requests raced on it, or Update was sent a
\* parent: at most one request holds it, it read what is there, and the table
\* is a forest.
TreeSound ==
  ~unchecked /\ Tree \notin raced =>
    /\ \A p, q \in Requests : req[p].key = Tree /\ req[q].key = Tree => p = q
    /\ \A q \in Requests : req[q].key = Tree => TreeRequest(req[q])
    /\ ParentsIssued /\ Forest

\* A step that has nothing to do with the tree.
LEMMA TreeApart ==
  ASSUME TreeSound, Apart(Tree), UNCHANGED <<parent, unchecked>>
  PROVE  TreeSound'
<1>1. Tree' = Tree /\ raced \subseteq raced'
  BY DEF Tree, Apart
<1>2. \A q \in Requests :
        TreeRequest(req[q]) /\ req'[q] = req[q] => TreeRequest(req[q])'
  BY DEF TreeRequest, Issued, Above, Upward
<1>3. ParentsIssued => ParentsIssued'
  BY DEF ParentsIssued
<1>4. Forest => Forest'
  BY DEF Forest
<1>5. SUFFICES ASSUME ~unchecked, Tree \notin raced
               PROVE  /\ \A p, q \in Requests : req'[p].key = Tree /\ req'[q].key = Tree => p = q
                      /\ \A q \in Requests : req'[q].key = Tree => TreeRequest(req[q])'
                      /\ ParentsIssued' /\ Forest'
  BY <1>1 DEF TreeSound
<1>6. \A q \in Requests : req'[q].key = Tree => req'[q] = req[q]
  BY DEF Apart
<1>7. /\ \A p, q \in Requests : req[p].key = Tree /\ req[q].key = Tree => p = q
      /\ \A q \in Requests : req[q].key = Tree => TreeRequest(req[q])
      /\ ParentsIssued /\ Forest
  BY <1>5 DEF TreeSound
<1>8. ASSUME NEW q \in Requests, req'[q].key = Tree PROVE TreeRequest(req[q])'
  <2>1. TreeRequest(req[q]) /\ req'[q] = req[q]
    BY <1>6, <1>7, <1>8
  <2> QED
    BY <1>2, <2>1
<1> QED
  BY <1>3, <1>4, <1>6, <1>7, <1>8

\* A department saved with a parent it is not above leaves a forest.
LEMMA ParentSet ==
  ASSUME OrgTypeOK, ParentsIssued, Forest, NEW d \in Depts, NEW p,
         p \in Issued \cup {Gone}, d \notin Above(parent, p), SaveDept(d, p)
  PROVE  ParentsIssued' /\ Forest'
<1> USE OrgAssumption
<1>1. DOMAIN parent = Depts /\ parent' = [parent EXCEPT ![d] = p]
  BY DEF OrgTypeOK, SaveDept
<1>2. parent'[d] = p /\ \A e \in Depts \ {d} : parent'[e] = parent[e]
  BY <1>1
<1>3. p # Nil /\ (p \in Depts => parent[p] # Nil)
  BY DEF Issued
<1>4. ParentsIssued'
  BY <1>2, <1>3 DEF ParentsIssued
<1>5. \A e \in Depts : ~OnCycle(parent', e)
  BY <1>1, MoveMakesNoCycle DEF Forest
<1> QED
  BY <1>4, <1>5 DEF Forest, OnCycle, Above

\* A new department is above nobody.
LEMMA NewIsAboveNobody ==
  ASSUME ParentsIssued, NEW d \in Depts, parent[d] = Nil, NEW p \in Issued
  PROVE  d \notin Above(parent, p)
<1> DEFINE old == {x \in Depts : parent[x] # Nil}
<1>1. Upward(parent, old) /\ old \in SUBSET Depts
  BY DEF Upward, ParentsIssued
<1>2. p \in Depts => p \in old
  BY OrgAssumption DEF Issued
<1> QED
  BY <1>1, <1>2, AboveLeast

\* No request holds the tree any more, or none did.
LEMMA TreeFree ==
  ASSUME Tree' = Tree, ~unchecked' /\ Tree \notin raced' => ParentsIssued' /\ Forest',
         ~unchecked' /\ Tree \notin raced' => \A q \in Requests : req'[q].key # Tree
  PROVE  TreeSound'
BY DEF TreeSound

\* A request on the tree begins.
LEMMA TreeBegins ==
  ASSUME ReqsOK, TreeSound, NEW q \in Requests, NEW d \in Depts, NEW p \in Issued,
         NEW pc \in {"list", "save"}, Begin(q, "dept", pc, Tree, d, p, {}),
         parent' = parent, unchecked => unchecked',
         pc = "save" /\ ~unchecked' => p = parent[d] \/ d \notin Above(parent, p)
  PROVE  TreeSound'
<1>1. /\ OnlySlot(q) /\ req'[q].op = "dept" /\ req'[q].pc = pc /\ req'[q].key = Tree
      /\ req'[q].in = d /\ req'[q].row = p /\ raced \subseteq raced'
      /\ (\E r \in Requests \ {q} : req[r].key = Tree) => Tree \in raced'
  BY BeginReq, TakeReq DEF ReqsOK
<1>2. Tree' = Tree
  BY DEF Tree
<1>3. SUFFICES ASSUME ~unchecked', Tree \notin raced'
               PROVE  /\ \A r, s \in Requests : req'[r].key = Tree /\ req'[s].key = Tree => r = s
                      /\ \A r \in Requests : req'[r].key = Tree => TreeRequest(req[r])'
                      /\ ParentsIssued' /\ Forest'
  BY <1>2 DEF TreeSound
<1>4. \A r \in Requests \ {q} : req'[r].key # Tree
  BY <1>1, <1>3 DEF OnlySlot
<1>5. ParentsIssued /\ Forest
  BY <1>1, <1>3 DEF TreeSound
<1>6. TreeRequest(req[q])'
  BY <1>1, <1>3 DEF TreeRequest, Issued, Above, Upward
<1> QED
  BY <1>4, <1>5, <1>6 DEF ParentsIssued, Forest, OnCycle, Above, Upward

\* The walk of Move ends, and finds what a save may do.
LEMMA TreeListed ==
  ASSUME ReqsOK, TreeSound, NEW q \in Requests, MoveList(q)
  PROVE  TreeSound'
<1> DEFINE d == req[q].in
           p == req[q].row
<1>1. req[q].op = "dept" /\ req[q].pc = "list" /\ req[q].key = Tree
      /\ parent' = parent /\ unchecked' = unchecked
  BY DEF MoveList, At, orgVars, ReqsOK, ReqOK
<1>2. Tree' = Tree
  BY DEF Tree
<1>3. raced' = raced
  BY DEF MoveList, End, Goto
<1>4. CASE unchecked \/ Tree \in raced
  BY <1>1, <1>2, <1>3, <1>4 DEF TreeSound
<1>5. CASE ~unchecked /\ Tree \notin raced
  <2>1. /\ \A r, s \in Requests : req[r].key = Tree /\ req[s].key = Tree => r = s
        /\ TreeRequest(req[q]) /\ ParentsIssued /\ Forest
    BY <1>1, <1>5 DEF TreeSound
  <2>2. ParentsIssued' /\ Forest'
    BY <1>1, <2>1 DEF ParentsIssued, Forest, OnCycle, Above, Upward
  <2>3. \A r \in Requests \ {q} : req[r].key # Tree
    BY <1>1, <2>1
  <2>4. CASE Refused(d, p)
    <3>1. End(q)
      BY <2>4 DEF MoveList
    <3>2. OnlySlot(q) /\ req'[q].key = Nil
      BY <3>1, EndReq, IdleIsReq DEF ReqsOK
    <3> QED
      BY <1>2, <2>2, <2>3, <3>2, TreeFree, OrgAssumption DEF OnlySlot
  <2>5. CASE ~Refused(d, p)
    <3>1. ~\E x \in Above(parent, p) : OnCycle(parent, x)
      BY <2>1 DEF Forest, OnCycle
    <3>2. Goto(q, "save")
      BY <2>5, <3>1 DEF MoveList
    <3>3. /\ OnlySlot(q) /\ req'[q].pc = "save" /\ req'[q].op = "dept"
          /\ req'[q].key = Tree /\ req'[q].in = d /\ req'[q].row = p
      BY <1>1, <3>2, GotoReq DEF ReqsOK
    <3>4. d \in Depts /\ p \in Issued /\ d \notin Above(parent, p)
      BY <2>1, <2>5 DEF TreeRequest, Refused
    <3>5. TreeRequest(req[q])'
      BY <1>1, <3>3, <3>4 DEF TreeRequest, Issued, Above, Upward
    <3>6. \A r \in Requests \ {q} : req'[r].key # Tree
      BY <2>3, <3>3 DEF OnlySlot
    <3> QED
      BY <1>2, <2>2, <3>5, <3>6 DEF TreeSound
  <2> QED
    BY <2>4, <2>5
<1> QED
  BY <1>4, <1>5

\* A save of what was checked, or read, keeps the forest.
LEMMA TreeSaved ==
  ASSUME ReqsOK, OrgTypeOK, TreeSound, NEW q \in Requests, DeptSave(q)
  PROVE  TreeSound'
<1>1. req[q].key = Tree /\ unchecked' = unchecked /\ End(q)
      /\ SaveDept(req[q].in, req[q].row)
  BY DEF DeptSave, At, ReqsOK, ReqOK
<1>2. OnlySlot(q) /\ req'[q].key = Nil /\ raced' = raced /\ Tree' = Tree
  BY <1>1, EndReq, IdleIsReq DEF ReqsOK, Tree
<1>3. ASSUME ~unchecked, Tree \notin raced
      PROVE  /\ ParentsIssued' /\ Forest'
             /\ \A r \in Requests : req'[r].key # Tree
  <2>1. /\ \A r, s \in Requests : req[r].key = Tree /\ req[s].key = Tree => r = s
        /\ TreeRequest(req[q]) /\ ParentsIssued /\ Forest
    BY <1>1, <1>3 DEF TreeSound
  <2>2. req[q].in \in Depts /\ req[q].row \in Issued
    BY <2>1 DEF TreeRequest
  <2>3. req[q].in \notin Above(parent, req[q].row)
    <3>1. CASE req[q].row = parent[req[q].in]
      BY <2>1, <2>2, <3>1, NobodyAbove DEF Forest, OnCycle
    <3>2. CASE req[q].row # parent[req[q].in]
      BY <2>1, <3>2 DEF DeptSave, At, TreeRequest
    <3> QED
      BY <3>1, <3>2
  <2>4. ParentsIssued' /\ Forest'
    BY <1>1, <2>1, <2>2, <2>3, ParentSet
  <2>5. \A r \in Requests : req'[r].key # Tree
    BY <1>1, <1>2, <2>1, OrgAssumption DEF OnlySlot
  <2> QED
    BY <2>4, <2>5
<1> QED
  BY <1>1, <1>2, <1>3, TreeFree

\* Create and Delete take one statement.
LEMMA TreeOnce ==
  ASSUME OrgTypeOK, TreeSound, NEW d \in Depts, NEW p, Once(Tree), unchecked' = unchecked,
         SaveDept(d, p), p = Gone \/ (p \in Issued /\ parent[d] = Nil)
  PROVE  TreeSound'
<1>1. UNCHANGED req /\ raced \subseteq raced' /\ (Busy(Tree) => Tree \in raced')
  BY OnceReq
<1>2. Tree' = Tree
  BY DEF Tree
<1>3. ASSUME ~unchecked, Tree \notin raced'
      PROVE  /\ ParentsIssued' /\ Forest'
             /\ \A r \in Requests : req'[r].key # Tree
  <2>1. ParentsIssued /\ Forest
    BY <1>1, <1>3 DEF TreeSound
  <2>2. d \notin Above(parent, p)
    BY <2>1, NobodyAbove, NewIsAboveNobody, OrgAssumption
  <2>3. ParentsIssued' /\ Forest'
    BY <2>1, <2>2, ParentSet
  <2> QED
    BY <1>1, <1>3, <2>3 DEF Busy
<1> QED
  BY <1>2, <1>3, TreeFree

\* Every step on departments and groups.
LEMMA OrgTreeSound ==
  ASSUME ReqsOK, OrgTypeOK, TreeSound, OrgNext
  PROVE  TreeSound'
<1> USE OrgAssumption
<1>s. ReqShape /\ \A q \in Requests : ReqOK(req[q])
  BY DEF ReqsOK
<1>i. \A q \in Requests : req[q].pc = "idle" => req[q].key = Nil
  BY <1>s, IdleIsReq DEF ReqOK
\* Requests on groups.
<1>k. \A g : <<"group", g>> # Tree /\ <<"user", g>> # Tree
  BY DEF Tree
<1>g. ASSUME NEW q \in Requests, OnlySlot(q), raced \subseteq raced', req[q].key # Tree,
             req'[q].key # Tree, UNCHANGED <<parent, unchecked>>
      PROVE  TreeSound'
  BY <1>g, TreeApart DEF Apart, OnlySlot
<1>b. ASSUME NEW q \in Requests, NEW op, NEW pc, NEW g \in Groups, NEW in,
             Begin(q, op, pc, <<"group", g>>, in, Nil, {}), UNCHANGED <<parent, unchecked>>
      PROVE  TreeSound'
  <2>1. OnlySlot(q) /\ req'[q].key = <<"group", g>> /\ raced \subseteq raced'
        /\ req[q].key = Nil
    BY <1>b, <1>i, <1>s, BeginReq, TakeReq
  <2> QED
    BY <1>b, <1>g, <1>k, <2>1
<1>1. ASSUME NEW q \in Requests, OrgRequest(q) PROVE TreeSound'
  <2>1. ASSUME NEW d \in Depts, NEW p \in Issued, UpdateDept(q, d, p) PROVE TreeSound'
    BY <2>1, TreeBegins DEF UpdateDept
  <2>2. ASSUME NEW d \in Depts, NEW p \in Issued, MoveGet(q, d, p) PROVE TreeSound'
    <3>1. PICK pc \in {"list", "save"} :
            pc = (IF p = Root THEN "save" ELSE "list")
      OBVIOUS
    <3>2. Begin(q, "dept", pc, Tree, d, p, {}) /\ parent' = parent /\ unchecked' = unchecked
      BY <2>2, <3>1 DEF MoveGet, orgVars
    <3>3. pc = "save" => d \notin Above(parent, p)
      BY <3>1, NobodyAbove
    <3> QED
      BY <3>2, <3>3, TreeBegins
  <2>3. ASSUME DropGroup(q) \/ PruneMembers(q) PROVE TreeSound'
    <3>1. End(q) /\ UNCHANGED <<parent, unchecked>> /\ req[q].key # Tree
      BY <1>k, <1>s, <2>3 DEF DropGroup, PruneMembers, At, ReqOK
    <3>2. OnlySlot(q) /\ req'[q].key = Nil /\ raced' = raced
      BY <1>s, <3>1, EndReq, IdleIsReq
    <3> QED
      BY <1>g, <3>1, <3>2
  <2>4. ASSUME NEW g \in Groups, DeleteGroup(q, g) PROVE TreeSound'
    BY <1>b, <2>4 DEF DeleteGroup
  <2>5. ASSUME NEW g \in Groups, NEW us \in MemberSets, SetMembers(q, g, us)
        PROVE  TreeSound'
    BY <1>b, <2>5 DEF SetMembers
  <2> QED
    BY ONLY ReqsOK, OrgTypeOK, TreeSound, <1>1, <2>1, <2>2, <2>3, <2>4, <2>5, TreeListed,
       TreeSaved DEF OrgRequest
<1>2. ASSUME NEW d \in Depts, DeleteDept(d) PROVE TreeSound'
  BY <1>2, TreeOnce DEF DeleteDept
<1>3. ASSUME NEW d \in Depts, NEW p \in Issued, CreateDept(d, p) PROVE TreeSound'
  BY <1>3, TreeOnce DEF CreateDept
<1>4. ASSUME NEW u \in Users, NEW d \in Depts, MoveUser(u, d) PROVE TreeSound'
  <2>1. Apart(Tree) /\ UNCHANGED <<parent, unchecked>>
    BY <1>4, OnceReq DEF MoveUser, Apart
  <2> QED
    BY <2>1, TreeApart
<1> QED
  BY ONLY OrgNext, <1>1, <1>2, <1>3, <1>4 DEF OrgNext

\* What TreeSound says is what TreeStaysTree asks.
LEMMA TreeStays == ReqsOK /\ TreeSound => TreeStaysTree
<1> SUFFICES ASSUME ReqsOK, TreeSound, ~unchecked, Tree \notin raced
             PROVE  /\ \A d \in Depts : ~OnCycle(parent, d)
                    /\ \A q \in Requests : ~At(q, "dept", "walking")
  BY DEF TreeStaysTree
<1>1. \A q \in Requests : req[q].op = "dept" => req[q].pc \in {"list", "save"}
  BY DEF TreeSound, TreeRequest, ReqsOK, ReqOK
<1> QED
  BY <1>1 DEF TreeSound, Forest, At

-----------------------------------------------------------------------------
(* The specification *)

AccessInv ==
  /\ AppsInv /\ RulesInv /\ TreeSound
  /\ started \in 0 .. MaxRequests

\* Keys of different kinds differ.
LEMMA KeysDiffer ==
  /\ \A c, i : App(c) # Rule(i) /\ App(c) # Tree /\ Rule(i) # Tree
  /\ \A c, g : App(c) # <<"group", g>> /\ Rule(c) # <<"group", g>>
BY DEF App, Rule, Tree

\* The start.
LEMMA AccessInitInv == AccessInit => AccessInv
<1> SUFFICES ASSUME AccessInit PROVE AccessInv
  OBVIOUS
<1> USE RequestsAssumption, OrgAssumption, AppAssumption, RulesAssumption, RuleKeyAssumption
<1>1. ReqsOK /\ \A q \in Requests : req[q].key = Nil
  <2>1. PICK V : Idle \in ReqSlots(V)
    BY IdleIsReq DEF IsReq
  <2>2. req = [q \in Requests |-> Idle]
    BY DEF AccessInit, RequestsInit
  <2>3. ReqShape
    BY <2>1, <2>2 DEF ReqShape
  <2> QED
    BY <2>2, <2>3, IdleOK, IdleIsReq DEF ReqsOK
<1>2. OrgTypeOK
  BY DEF AccessInit, OrgInit, OrgTypeOK, Parents
<1>3. ASSUME NEW c \in Clients
      PROVE  /\ clients[c] \in Rows \cup {None} /\ grants[c] \in SUBSET Principals
             /\ clients[c] = want[c].row /\ grants[c] = want[c].grants
             /\ ongoing[c] = {} /\ probed[c] = {} /\ worst[c] = None
             /\ mon[c] \in Monitors \cup {None}
             /\ mon[c] = None <=> clients[c] = None
             /\ mon[c] # None => mon[c].url = clients[c].health
             /\ clients[c] = None => grants[c] = {}
  <2>1. /\ clients[c] = StartRows[c] /\ grants[c] = StartGrants[c]
        /\ clients[c] = want[c].row /\ grants[c] = want[c].grants
        /\ ongoing[c] = {} /\ probed[c] = {} /\ worst[c] = None
        /\ mon[c] = IF StartRows[c] = None THEN None
                    ELSE NewRow(NewMonitor(StartRows[c].health))
    BY DEF AccessInit, AppInit
  <2>2. CASE StartRows[c] = None
    BY <2>1, <2>2
  <2>3. CASE StartRows[c] # None
    <3>1. PICK url \in Addresses : url = StartRows[c].health
      BY <2>3 DEF Rows
    <3>2. PICK m \in Monitors : m = NewMonitor(url) /\ m.url = url
      BY NewMonitorTyped
    <3>3. NewRow(m) \in Monitors /\ NewRow(m).url = url
      BY <3>2, NewRowTyped
    <3> QED
      BY <2>1, <2>3, <3>1, <3>2, <3>3
  <2> QED
    BY <2>2, <2>3
<1>4. AppTypeOK
  <2>1. /\ clients \in [Clients -> Rows \cup {None, Gone}]
        /\ grants \in [Clients -> SUBSET Principals] /\ minted \in Nat
    BY <1>3 DEF AccessInit, AppInit
  <2>2. MonitorTypeOK
    <3>1. /\ mon = [c \in Clients |-> mon[c]] /\ ongoing = [c \in Clients |-> ongoing[c]]
          /\ probed = [c \in Clients |-> probed[c]] /\ worst = [c \in Clients |-> worst[c]]
      BY DEF AccessInit, AppInit
    <3> QED
      BY <1>3, <3>1 DEF MonitorTypeOK
  <2> QED
    BY <1>2, <2>1, <2>2 DEF AppTypeOK
<1>5. WantShape
  BY DEF AccessInit, AppInit, WantShape
<1>6. ASSUME NEW c \in Clients PROVE AppSound(c)
  <2>1. Agreed(c)
    BY <1>3 DEF Agreed, Registered
  <2> QED
    BY <1>1, <2>1 DEF AppSound, Holds
<1>7. RulesInv
  <2>1. /\ rules = [i \in Rules |-> Nil] /\ issued = 0 /\ wantRule = [i \in Rules |-> Nil]
    BY DEF AccessInit, RulesInit
  <2>2. RulesTypeOK
    BY <2>1, FS_CardinalityType DEF RulesTypeOK
  <2> QED
    BY <1>1, <2>1, <2>2 DEF RulesInv, RuleSound
<1>8. started \in 0 .. MaxRequests
  BY DEF AccessInit, RequestsInit
<1>9. TreeSound
  <2>1. \A d \in Depts : parent[d] \notin Depts
    BY DEF AccessInit, OrgInit
  <2>2. ParentsIssued /\ Forest
    BY <2>1 DEF ParentsIssued, Forest, OnCycle
  <2> QED
    BY <1>1, <2>2 DEF TreeSound
<1> QED
  BY <1>1, <1>4, <1>5, <1>6, <1>7, <1>8, <1>9 DEF AccessInv, AppsInv, AppTyped

\* Requests on applications leave departments and groups alone.
LEMMA OrgUntouched ==
  ASSUME NEW q \in Requests, AppRequest(q)
  PROVE  UNCHANGED orgVars
BY DEF AppRequest, CreateApp, Update, ToggleStatus, RotateSecret, Delete, NextOfBatch,
   SkipOfBatch, BatchUpdate, BatchDelete, Batch, CreateGrants, CreateFirst, CreateMonitor,
   Reload, UpdateSave, UpdateMonitor, UpdateGrants, RotateSave, DeleteMonitor, DeleteGrants,
   DeleteRow

\* No step starts more requests than the bound.
LEMMA StartedBounded ==
  ASSUME started \in 0 .. MaxRequests, AccessNext
  PROVE  started' \in 0 .. MaxRequests
<1> USE RequestsAssumption
<1>1. SUFFICES started' = started \/ (started < MaxRequests /\ started' = started + 1)
  OBVIOUS
<1>2. ASSUME NEW q \in Requests, OrgRequest(q)
      PROVE  started' = started \/ (started < MaxRequests /\ started' = started + 1)
  BY <1>2 DEF OrgRequest, UpdateDept, MoveGet, MoveList, DeptSave, DeleteGroup, DropGroup,
     SetMembers, PruneMembers, Begin, Goto, End
<1>3. ASSUME OrgNext
      PROVE  started' = started \/ (started < MaxRequests /\ started' = started + 1)
  BY <1>2, <1>3 DEF OrgNext, DeleteDept, CreateDept, MoveUser, Once
<1>4. ASSUME NEW q \in Requests, AppRequest(q)
      PROVE  started' = started \/ (started < MaxRequests /\ started' = started + 1)
  BY <1>4 DEF AppRequest, CreateApp, Update, ToggleStatus, RotateSecret, Delete,
     NextOfBatch, SkipOfBatch, BatchUpdate, BatchDelete, Batch, CreateGrants, CreateFirst,
     CreateMonitor, Reload, UpdateSave, UpdateMonitor, UpdateGrants, RotateSave,
     DeleteMonitor, DeleteGrants, DeleteRow, Begin, Goto, End, Through
<1>5. ASSUME RulesNext
      PROVE  started' = started \/ (started < MaxRequests /\ started' = started + 1)
  BY <1>5 DEF RulesNext, RuleRequest, UpdateRule, ToggleRule, SaveRule, SetEnabled,
     CreateRule, DeleteRule, Once, Begin, End
<1>6. ASSUME CrashRequests PROVE started' = started
  BY <1>6 DEF CrashRequests
<1> QED
  BY <1>3, <1>4, <1>5, <1>6 DEF AccessNext, AppNext

\* Every step.
LEMMA AccessStep == AccessInv /\ [AccessNext]_accessVars => AccessInv'
<1> SUFFICES ASSUME AccessInv, [AccessNext]_accessVars PROVE AccessInv'
  OBVIOUS
<1> USE RuleKeyAssumption, AppAssumption
<1>s. /\ TreeSound /\ OrgTypeOK /\ AppsInv /\ RulesInv /\ AppTyped /\ ReqsOK /\ ReqShape
      /\ WantShape /\ \A c \in Clients : AppSound(c)
      /\ RulesTypeOK /\ \A i \in Rules : RuleSound(i)
      /\ \A q \in Requests : ReqOK(req[q])
  BY DEF AccessInv, AppsInv, AppTyped, AppTypeOK, ReqsOK, RulesInv
\* The rules are left alone.
<1>r. ASSUME UNCHANGED ruleVars, \A i \in Rules : Apart(Rule(i)) PROVE RulesInv'
  <2>1. RulesTypeOK' /\ \A i \in Rules : RuleSound(i)'
    BY <1>s, <1>r, RuleApart DEF RulesTypeOK, ruleVars
  <2> QED
    BY <2>1 DEF RulesInv
\* The applications are.
<1>a. ASSUME UNCHANGED <<appVars, monVars>>, \A c \in Clients : Apart(App(c))
      PROVE  WantShape' /\ \A c \in Clients : AppSound(c)'
  <2>1. \A c \in Clients : SameApp(c)
    BY <1>a DEF SameApp, appVars, monVars
  <2> QED
    BY <1>s, <1>a, <2>1, AppApart DEF WantShape, appVars
<1>t. ASSUME UNCHANGED <<orgVars, appVars, monVars>>, ReqsOK' PROVE AppTyped'
  BY <1>s, <1>t DEF AppTyped, AppTypeOK, OrgTypeOK, MonitorTypeOK, orgVars, appVars, monVars
\* The departments are.
<1>d. ASSUME UNCHANGED orgVars, Apart(Tree) PROVE TreeSound'
  BY <1>s, <1>d, TreeApart DEF orgVars
<1>1. ASSUME NEW q \in Requests, AppRequest(q), UNCHANGED ruleVars
      PROVE  AppsInv' /\ RulesInv' /\ TreeSound'
  <2>1. AppTyped' /\ Keeps(q)
    BY <1>s, <1>1, AppRequestTyped, AppRequestSound
  <2>2. \A i \in Rules : Apart(Rule(i))
    BY <2>1, KeysDiffer DEF Keeps
  <2>3. RulesInv'
    BY <1>1, <1>r, <2>2
  <2>4. TreeSound'
    BY <1>1, <1>d, <2>1, OrgUntouched, KeysDiffer, OrgAssumption DEF Keeps
  <2> QED
    BY <2>1, <2>3, <2>4 DEF Keeps, AppsInv
<1>2. ASSUME OrgNext, UNCHANGED <<appVars, monVars>>, UNCHANGED ruleVars
      PROVE  AppsInv' /\ RulesInv' /\ TreeSound'
  <2>1. AppTyped'
    BY <1>s, <1>2, AppNextTyped DEF AppNext
  <2>2. (\A i \in Rules : Apart(Rule(i))) /\ \A c \in Clients : Apart(App(c))
    BY <1>s, <1>2, OrgApart, KeysDiffer
  <2>3. TreeSound'
    BY <1>s, <1>2, OrgTreeSound
  <2> QED
    BY <1>2, <1>a, <1>r, <2>1, <2>2, <2>3 DEF AppsInv
<1>3. ASSUME RulesNext, UNCHANGED <<orgVars, appVars, monVars>>
      PROVE  AppsInv' /\ RulesInv' /\ TreeSound'
  <2>1. /\ ReqsOK' /\ RulesInv' /\ \A c \in Clients : Apart(App(c))
    BY <1>s, <1>3, RulesNextSound, KeysDiffer
  <2>2. TreeSound'
    BY <1>s, <1>3, <1>d, RulesNextSound, KeysDiffer, OrgAssumption
  <2> QED
    BY <1>3, <1>a, <1>t, <2>1, <2>2 DEF AppsInv
<1>4. ASSUME CrashRequests, UNCHANGED <<orgVars, ruleVars, appVars, monVars>>
      PROVE  AppsInv' /\ RulesInv' /\ TreeSound'
  <2>1. req' = [q \in Requests |-> Idle]
    BY <1>4 DEF CrashRequests
  <2>2. ReqsOK' /\ \A q \in Requests : req'[q].key = Nil
    <3>1. PICK V : Idle \in ReqSlots(V)
      BY IdleIsReq DEF IsReq
    <3>2. ReqShape'
      BY <2>1, <3>1 DEF ReqShape
    <3> QED
      BY <2>1, <3>2, IdleOK, IdleIsReq DEF ReqsOK
  <2>3. ASSUME NEW key, key # Nil, key \notin raced'
        PROVE  key \notin raced /\ \A q \in Requests : req[q].key # key
    <3>1. \A q \in Requests : req[q].pc # "idle" => req[q].key \in raced'
      BY <1>4 DEF CrashRequests
    <3>2. raced \subseteq raced'
      BY <1>4 DEF CrashRequests
    <3>3. \A q \in Requests : req[q].pc = "idle" => req[q].key = Nil
      BY <1>s, IdleIsReq DEF ReqOK
    <3> QED
      BY <2>3, <3>1, <3>2, <3>3
  <2>4. ASSUME NEW i \in Rules PROVE RuleSound(i)'
    <3>1. rules'[i] = rules[i] /\ wantRule'[i] = wantRule[i] /\ Rule(i)' = Rule(i)
      BY <1>4 DEF ruleVars, Rule
    <3>2. Rule(i) \notin raced' => rules[i] = wantRule[i]
      BY <1>s, <2>3 DEF RuleSound
    <3> QED
      BY <2>2, <3>1, <3>2 DEF RuleSound
  <2>5. RulesInv'
    BY <1>s, <1>4, <2>4 DEF RulesInv, RulesTypeOK, ruleVars
  <2>6. ASSUME NEW c \in Clients PROVE AppSound(c)'
    <3>1. App(c)' = App(c) /\ \A q \in Requests : ~Holds(q, c)'
      BY <2>2 DEF App, Holds
    <3>2. App(c) \notin raced' => Agreed(c)
      BY <1>s, <2>3 DEF AppSound, Holds
    <3>3. Agreed(c) => Agreed(c)'
      BY <1>4 DEF Agreed, Registered, appVars, monVars
    <3> QED
      BY <3>1, <3>2, <3>3 DEF AppSound
  <2>7. AppTyped' /\ WantShape'
    BY <1>s, <1>4, <1>t, <2>2 DEF WantShape, appVars
  <2>8. TreeSound'
    <3>1. parent' = parent /\ unchecked' = unchecked /\ Tree' = Tree
      BY <1>4 DEF orgVars, Tree
    <3>2. Tree # Nil
      BY OrgAssumption
    <3>3. ~unchecked' /\ Tree \notin raced' => ParentsIssued /\ Forest
      BY <1>s, <2>3, <3>1, <3>2 DEF TreeSound
    <3>4. (ParentsIssued => ParentsIssued') /\ (Forest => Forest')
      BY <3>1 DEF ParentsIssued, Forest, OnCycle, Above, Upward
    <3> QED
      BY <2>2, <3>1, <3>2, <3>3, <3>4, TreeFree
  <2> QED
    BY <2>5, <2>6, <2>7, <2>8 DEF AppsInv
<1>5. ASSUME AccessNext PROVE AccessInv'
  <2>1. started' \in 0 .. MaxRequests
    BY <1>5, StartedBounded DEF AccessInv
  <2>2. AppsInv' /\ RulesInv' /\ TreeSound'
    BY <1>1, <1>2, <1>3, <1>4, <1>5 DEF AccessNext, AppNext
  <2> QED
    BY <2>1, <2>2 DEF AccessInv
<1>6. ASSUME UNCHANGED accessVars PROVE AccessInv'
  <2>1. UNCHANGED <<orgVars, appVars, monVars>> /\ UNCHANGED ruleVars
        /\ UNCHANGED <<req, started, raced>>
    BY <1>6 DEF accessVars, reqVars
  <2>2. ReqsOK' /\ \A key : Apart(key)
    BY <1>s, <2>1, SameReqs DEF Apart
  <2>3. AppsInv' /\ RulesInv'
    BY <1>a, <1>r, <1>t, <2>1, <2>2 DEF AppsInv
  <2>4. TreeSound'
    BY <1>d, <2>1, <2>2
  <2> QED
    BY <2>1, <2>3, <2>4 DEF AccessInv
<1> QED
  BY <1>5, <1>6

\* The invariant says what the runs check.
LEMMA AccessInvImplies ==
  AccessInv => AccessTypeOK /\ RulesAnswer /\ DecisionHolds /\ GoneLeavesNothing
               /\ PortalMatchesGate /\ TreeStaysTree
<1> SUFFICES ASSUME AccessInv
             PROVE  AccessTypeOK /\ RulesAnswer /\ DecisionHolds /\ GoneLeavesNothing
                    /\ PortalMatchesGate /\ TreeStaysTree
  OBVIOUS
<1>1. AccessTypeOK
  BY DEF AccessInv, AppsInv, AppTyped, ReqsOK, ReqOK, RulesInv, AccessTypeOK
<1>2. RulesAnswer
  BY RulesAnswered DEF AccessInv
<1>3. \A c \in Clients : Settled(c) => Agreed(c)
  BY DEF AccessInv, AppsInv, AppSound, Settled, Busy, Holds
<1>4. DecisionHolds
  BY <1>3 DEF DecisionHolds, Agreed
<1>5. GoneLeavesNothing
  BY <1>3 DEF GoneLeavesNothing, Agreed, Registered
<1>6. ASSUME NEW u \in Users, NEW c \in Clients
      PROVE  UserAllowed(u, c) <=> c \in AllowedClientIDs(u)
  <2>1. member \subseteq Groups \X Users
    BY DEF AccessInv, AppsInv, AppTyped, AppTypeOK, OrgTypeOK
  <2> DEFINE inGroup == \E m \in member : m[2] = u /\ <<"group", m[1]>> \in grants[c]
  <2>2. inGroup <=> \E g \in Groups : <<g, u>> \in member /\ <<"group", g>> \in grants[c]
    <3>1. ASSUME NEW m \in member, m[2] = u, <<"group", m[1]>> \in grants[c]
          PROVE  \E g \in Groups : <<g, u>> \in member /\ <<"group", g>> \in grants[c]
      <4>1. m[1] \in Groups /\ m = <<m[1], u>>
        BY <2>1, <3>1
      <4> QED
        BY <3>1, <4>1
    <3>2. ASSUME NEW g \in Groups, <<g, u>> \in member, <<"group", g>> \in grants[c]
          PROVE  inGroup
      <4>1. PICK m \in member : m = <<g, u>>
        BY <3>2
      <4>2. m[1] = g /\ m[2] = u
        BY <4>1
      <4> QED
        BY <3>2, <4>2
    <3> QED
      BY <3>1, <3>2
  <2> QED
    BY <2>2 DEF UserAllowed, AllowedClientIDs
<1>7. PortalMatchesGate
  BY <1>6 DEF PortalMatchesGate, Shown, Gate
<1>8. TreeStaysTree
  BY TreeStays DEF AccessInv, AppsInv, AppTyped
<1> QED
  BY <1>1, <1>2, <1>4, <1>5, <1>7, <1>8

\* Every state of the specification satisfies the invariant.
LEMMA AccessInvariant == AccessSpec => []AccessInv
BY AccessInitInv, AccessStep, PTL DEF AccessSpec

\* Departments, rules, applications, grants and requests keep their types.
THEOREM AccessTypeCorrect == AccessSpec => []AccessTypeOK
BY AccessInvariant, AccessInvImplies, PTL

\* Once the requests on an application are over, and none overlapped another,
\* its row, its grants and the address that is monitored are what the last of
\* them answered (client_service.go), for any numbers of administrators and
\* applications, and whatever crashes.
THEOREM DecisionsHold == AccessSpec => []DecisionHolds
BY AccessInvariant, AccessInvImplies, PTL

\* An application deleted without a race leaves neither a grant nor a monitor.
THEOREM DeletedLeavesNothing == AccessSpec => []GoneLeavesNothing
BY AccessInvariant, AccessInvImplies, PTL

\* Login rules decide as the answers of Create, Update, Toggle and Delete said
\* (loginrule_repo.go), for any number of rules, priorities and ages.
THEOREM RulesDecideAsAnswered == AccessSpec => []RulesAnswer
BY AccessInvariant, AccessInvImplies, PTL

\* The portal shows who may enter just what the gates would let them enter.
THEOREM PortalAgreesWithGate == AccessSpec => []PortalMatchesGate
BY AccessInvariant, AccessInvImplies, PTL

\* As long as requests on the tree do not overlap and Update is sent no parent,
\* no department is its own ancestor, and no walk of Move goes round a cycle
\* (misc_handler.go), for any number of departments.
THEOREM DepartmentsStayTree == AccessSpec => []TreeStaysTree
BY AccessInvariant, AccessInvImplies, PTL
=============================================================================
