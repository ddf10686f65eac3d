------------------------ MODULE AccountRecoveryProofs ------------------------
(* Proofs about AccountRecovery, for any numbers of applications, users,     *)
(* accounts and requests.                                                    *)
EXTENDS AccountRecovery, TLAPS

\* A request, with values from V in its fields.
Slots(V) ==
  [pc : V, kind : V, app : V, rule : V, users : V, fetched : V, gen : V,
   todo : V, done : V, failed : V]

IsSlot(q) == \E V : q \in Slots(V)

\* Every slot holds the record of a request.
Shape == \E V : job \in [Jobs -> Slots(V)]

Reconciling(j) == job[j].kind = "reconcile"
Writer(j) == Reconciling(j) /\ job[j].pc = "write"

\* A record from a reconciliation that is over.
Old(r) ==
  /\ r.gen \in Nat /\ r.gen <= gen
  /\ \A j \in Jobs : Reconciling(j) => r.gen # job[j].gen

\* A reconciliation under way has a number of its own, that no record has yet:
\* what it is going to write cannot be taken for what a batch has dealt with.
Numbered ==
  /\ gen \in Nat
  /\ \A j \in Jobs : Reconciling(j) => job[j].gen \in Nat /\ job[j].gen <= gen
  /\ \A j, k \in Jobs :
       Reconciling(j) /\ Reconciling(k) /\ j # k => job[j].gen # job[k].gen
  /\ \A r \in records : Old(r)
  /\ \A j \in Jobs : \A r \in job[j].todo \cup job[j].done : Old(r)

\* A record that a batch is through with and that is still listed is one whose
\* script ended well.
DoneReported ==
  \A j \in Jobs : \A r \in job[j].done : r \in records => r \in reported

\* The map that the listing is read into has one account for a name.
OnePerName ==
  \A j \in Jobs : \A a, b \in job[j].fetched : NameOf[a] = NameOf[b] => a = b

\* Where no two reconciliations wrote at the same time, one that is between its
\* Clear and its Write is alone, and finds the table as it left it.
LoneWriter ==
  \A j \in Jobs : Writer(j) /\ job[j].app \notin mixed =>
    /\ \A k \in Jobs : Writer(k) /\ job[k].app = job[j].app => k = j
    /\ \A r \in records : r.app # job[j].app

RecoveryInv ==
  Shape /\ Numbered /\ DoneReported /\ OnePerName /\ LoneWriter /\ OneSnapshot

-----------------------------------------------------------------------------
\* The comparison gives each name one record, with the number of the run, and
\* an orphan exactly where the run knew no user.
LEMMA ComparedOnce ==
  ASSUME NEW j \in Jobs, NEW g,
         \A a, b \in job[j].fetched : NameOf[a] = NameOf[b] => a = b
  PROVE  \A r, s \in Compare(j, g) :
           /\ r.gen = g /\ r.app = job[j].app
           /\ r.name = s.name => r = s
           /\ (r.result = "orphan") <=> (r.sso = "absent")
<1> DEFINE app == job[j].app
           us == job[j].users
           here == {n \in Names : us[n] # "absent"}
           there == {NameOf[a] : a \in job[j].fetched}
           Both(a) == Record(g, app, NameOf[a], a, Status(us[NameOf[a]]), "consistent")
           Only(n) == Record(g, app, n, NoAccount, Status(us[n]), "missing")
           Alone(a) == Record(g, app, NameOf[a], a, "absent", "orphan")
<1>1. \A r \in Compare(j, g) :
        \/ \E a \in job[j].fetched : NameOf[a] \in here /\ r = Both(a)
        \/ \E n \in here : n \notin there /\ r = Only(n)
        \/ \E a \in job[j].fetched : NameOf[a] \notin here /\ r = Alone(a)
  BY DEF Compare
<1>2. \A n \in here : Status(us[n]) # "absent"
  BY DEF Status
<1>3. \A a : /\ Both(a).gen = g /\ Both(a).app = app /\ Both(a).name = NameOf[a]
             /\ Both(a).sso = Status(us[NameOf[a]]) /\ Both(a).result = "consistent"
  BY DEF Record
<1>4. \A n : /\ Only(n).gen = g /\ Only(n).app = app /\ Only(n).name = n
             /\ Only(n).sso = Status(us[n]) /\ Only(n).result = "missing"
  BY DEF Record
<1>5. \A a : /\ Alone(a).gen = g /\ Alone(a).app = app /\ Alone(a).name = NameOf[a]
             /\ Alone(a).sso = "absent" /\ Alone(a).result = "orphan"
  BY DEF Record
<1>6. \A a \in job[j].fetched : NameOf[a] \in there
  OBVIOUS
<1> HIDE DEF Both, Only, Alone, here, there
<1>7. \A r \in Compare(j, g) : r.gen = g /\ r.app = job[j].app
  BY <1>1, <1>3, <1>4, <1>5
<1>8. \A r \in Compare(j, g) : (r.result = "orphan") <=> (r.sso = "absent")
  BY <1>1, <1>2, <1>3, <1>4, <1>5
<1>9. \A r, s \in Compare(j, g) : r.name = s.name => r = s
  BY <1>1, <1>3, <1>4, <1>5, <1>6
<1> QED
  BY <1>7, <1>8, <1>9

\* An idle slot is one, and does nothing.
LEMMA IdleSlot ==
  /\ IsSlot(Idle)
  /\ Idle.pc = "idle" /\ Idle.kind = "none" /\ Idle.todo = {} /\ Idle.done = {}
  /\ Idle.fetched = {}
<1>1. IsSlot(Idle)
  <2> DEFINE none == [n \in Names |-> "absent"]
             V == {"idle", "none", NoRule, none, {}, 0}
  <2>1. Idle \in Slots(V)
    BY DEF Idle, Slots
  <2> QED
    BY <2>1 DEF IsSlot
<1> QED
  BY <1>1 DEF Idle

\* The invariant holds at the start.
LEMMA InitRecovery == Init => RecoveryInv
<1> SUFFICES ASSUME Init PROVE RecoveryInv
  OBVIOUS
<1>1. job = [j \in Jobs |-> Idle] /\ records = {} /\ gen = 0 /\ reported = {}
  BY DEF Init
<1>2. Shape
  <2>1. PICK V : Idle \in Slots(V)
    BY IdleSlot DEF IsSlot
  <2>2. job \in [Jobs -> Slots(V)]
    BY <1>1, <2>1
  <2> QED
    BY <2>2 DEF Shape
<1>3. Numbered /\ DoneReported /\ OnePerName /\ LoneWriter /\ OneSnapshot
  BY <1>1, IdleSlot DEF Numbered, DoneReported, OnePerName, LoneWriter,
     OneSnapshot, Reconciling, Writer, Old
<1> QED
  BY <1>2, <1>3 DEF RecoveryInv

\* A step that starts no reconciliation, clears and writes nothing.
LEMMA Aside ==
  ASSUME RecoveryInv, Shape', gen' \in Nat, gen <= gen', UNCHANGED mixed,
         records' \subseteq records,
         \A r \in records' : r \in reported => r \in reported',
         \A k \in Jobs :
           /\ job'[k].kind = "reconcile" =>
                /\ job[k].kind = "reconcile" /\ job'[k].gen = job[k].gen
                /\ job'[k].pc = "write" =>
                     job[k].pc = "write" /\ job'[k].app = job[k].app
           /\ \A r \in job'[k].todo : r \in job[k].todo \/ r \in records
           /\ \A r \in job'[k].done :
                \/ r \in job[k].done
                \/ r \in job[k].todo /\ (r \in records' => r \in reported')
           /\ \A a, b \in job'[k].fetched : NameOf[a] = NameOf[b] => a = b
  PROVE  RecoveryInv'
<1> Shape /\ Numbered /\ DoneReported /\ OnePerName /\ LoneWriter /\ OneSnapshot
  BY DEF RecoveryInv
<1>1. \A k \in Jobs : /\ Reconciling(k)' => Reconciling(k) /\ job'[k].gen = job[k].gen
                      /\ Writer(k)' => Writer(k) /\ job'[k].app = job[k].app
  BY DEF Reconciling, Writer
<1>2. \A r : Old(r) => Old(r)'
  BY <1>1 DEF Old, Numbered
<1>3. \A k \in Jobs : \A r \in job'[k].todo \cup job'[k].done : Old(r)
  BY DEF Numbered
<1>4. Numbered'
  BY <1>1, <1>2, <1>3 DEF Numbered
<1>5. DoneReported'
  BY DEF DoneReported
<1>6. OnePerName'
  BY DEF OnePerName
<1>7. LoneWriter'
  BY <1>1 DEF LoneWriter
<1>8. OneSnapshot'
  BY DEF OneSnapshot
<1> QED
  BY <1>4, <1>5, <1>6, <1>7, <1>8 DEF RecoveryInv

\* One slot is given another record.
LEMMA SlotSet ==
  ASSUME Shape, NEW j \in Jobs, NEW q, job' = [job EXCEPT ![j] = q],
         IsSlot(q)
  PROVE  /\ Shape' /\ job'[j] = q /\ \A k \in Jobs \ {j} : job'[k] = job[k]
<1>0. PICK W : q \in Slots(W)
  BY DEF IsSlot
<1>1. PICK V : job \in [Jobs -> Slots(V)]
  BY DEF Shape
<1>2. \A p : p \in Slots(V) => p \in Slots(V \cup W)
  BY DEF Slots
<1>3. \A p : p \in Slots(W) => p \in Slots(V \cup W)
  BY DEF Slots
<1>4. job' \in [Jobs -> Slots(V \cup W)]
  BY <1>0, <1>1, <1>2, <1>3
<1> QED
  BY <1>1, <1>4 DEF Shape

\* Every step preserves the invariant.
LEMMA NextRecovery == RecoveryInv /\ [Next]_vars => RecoveryInv'
<1> SUFFICES ASSUME RecoveryInv, [Next]_vars PROVE RecoveryInv'
  OBVIOUS
<1> Shape /\ Numbered /\ DoneReported /\ OnePerName /\ LoneWriter /\ OneSnapshot
  BY DEF RecoveryInv
<1>u. \A j \in Jobs : \A a, b \in job[j].fetched : NameOf[a] = NameOf[b] => a = b
  BY DEF OnePerName
\* Nothing but the tables of the world outside and the rules.
<1>1. ASSUME UNCHANGED <<records, job, gen, mixed, reported>>
      PROVE  RecoveryInv'
  <2>1. Shape' /\ gen' \in Nat /\ gen <= gen'
    BY <1>1 DEF Shape, Numbered
  <2> QED
    BY <1>1, <2>1, <1>u, Aside
\* A slot falls idle, or holds a request that is no reconciliation yet.
<1>2. ASSUME NEW j \in Jobs, NEW q, job' = [job EXCEPT ![j] = q],
             IsSlot(q),
             q.kind # "reconcile", q.todo \subseteq records, q.done = {},
             q.fetched = {}, gen' \in {gen, gen + 1}, UNCHANGED mixed,
             records' \subseteq records,
             \A r \in records' : r \in reported => r \in reported'
      PROVE  RecoveryInv'
  <2>1. Shape' /\ job'[j] = q /\ \A k \in Jobs \ {j} : job'[k] = job[k]
    BY <1>2, SlotSet
  <2>2. gen' \in Nat /\ gen <= gen'
    BY <1>2 DEF Numbered
  <2> QED
    BY <1>2, <2>1, <2>2, <1>u, Aside
<1>3. ASSUME NEW j \in Jobs, NEW app \in Apps, NEW can \in PowerChoices,
             CreateCheck(j, app, can)
      PROVE  RecoveryInv'
  <2>1. PICK q : /\ q = [Idle EXCEPT !.pc = "insert", !.kind = "rule", !.app = app,
                                     !.rule = [app |-> app, can |-> can]]
                 /\ job' = [job EXCEPT ![j] = q]
    BY <1>3 DEF CreateCheck
  <2>2. /\ IsSlot(q)
        /\ q.kind = "rule" /\ q.todo = {} /\ q.done = {} /\ q.fetched = {}
    <3>1. PICK V : Idle \in Slots(V)
      BY IdleSlot DEF IsSlot
    <3>2. q \in Slots(V \cup {"insert", "rule", app, [app |-> app, can |-> can]})
      BY <2>1, <3>1 DEF Slots
    <3> QED
      BY <2>1, <3>2 DEF Idle, IsSlot
  <2> QED
    BY <1>3, <2>1, <2>2, <1>2 DEF CreateCheck
<1>4. ASSUME NEW j \in Jobs, CreateInsert(j) PROVE RecoveryInv'
  BY <1>4, <1>2, IdleSlot DEF CreateInsert, End
<1>5. ASSUME NEW j \in Jobs, NEW app \in Apps, NEW seen \in SUBSET Names,
             ReadUsers(j, app, seen)
      PROVE  RecoveryInv'
  <2>1. PICK q : /\ q = [Idle EXCEPT !.pc = "fetch", !.kind = "reconcile",
                           !.app = app, !.gen = gen + 1, !.rule = RuleOf(app),
                           !.users = [n \in Names |-> IF n \in seen THEN user[n]
                                                                   ELSE "absent"]]
                 /\ job' = [job EXCEPT ![j] = q]
    BY <1>5 DEF ReadUsers
  <2>2. /\ IsSlot(q)
        /\ q.kind = "reconcile" /\ q.pc = "fetch" /\ q.todo = {} /\ q.done = {}
        /\ q.fetched = {} /\ q.gen = gen + 1
    <3>1. PICK V : Idle \in Slots(V)
      BY IdleSlot DEF IsSlot
    <3>2. PICK rule, us, g :
            q = [Idle EXCEPT !.pc = "fetch", !.kind = "reconcile", !.app = app,
                   !.gen = g, !.rule = rule, !.users = us]
      BY <2>1
    <3>3. q \in Slots(V \cup {"fetch", "reconcile", app, g, rule, us})
      BY <3>1, <3>2 DEF Slots
    <3> QED
      BY <2>1, <3>3 DEF Idle, IsSlot
  <2>3. Shape' /\ job'[j] = q /\ \A k \in Jobs \ {j} : job'[k] = job[k]
    BY <2>1, <2>2, SlotSet
  <2>4. /\ gen' = gen + 1 /\ gen \in Nat /\ gen' \in Nat
        /\ UNCHANGED <<records, mixed, reported>>
    BY <1>5 DEF ReadUsers, Numbered
  <2>5. \A r : Old(r) => Old(r)'
    BY <2>2, <2>3, <2>4 DEF Old, Reconciling
  <2>6. Numbered'
    BY <2>2, <2>3, <2>4, <2>5 DEF Numbered, Reconciling
  <2>7. DoneReported' /\ OnePerName'
    BY <2>2, <2>3, <2>4 DEF DoneReported, OnePerName
  <2>8. LoneWriter' /\ OneSnapshot'
    BY <2>2, <2>3, <2>4 DEF LoneWriter, Writer, Reconciling, OneSnapshot
  <2> QED
    BY <2>3, <2>6, <2>7, <2>8 DEF RecoveryInv
<1>6. ASSUME NEW j \in Jobs, NEW f \in SUBSET Accounts,
             FetchOk(j, f) \/ FetchNothing(j)
      PROVE  RecoveryInv'
  <2>1. /\ job[j].kind = "reconcile" /\ gen' = gen /\ gen \in Nat
        /\ UNCHANGED <<records, mixed, reported>>
    BY <1>6 DEF FetchOk, FetchNothing, At, Numbered
  <2>2. PICK q : q = job[j] /\ IsSlot(q)
    BY DEF Shape, IsSlot
  <2>3. PICK g : /\ \A a, b \in g : NameOf[a] = NameOf[b] => a = b
                 /\ \/ job' = [job EXCEPT ![j].pc = "clear", ![j].fetched = g]
                    \/ job' = [job EXCEPT ![j].pc = "clear"] /\ g = job[j].fetched
    BY <1>6, <1>u DEF FetchOk, FetchNothing, PerName
  <2>4. PICK p : /\ job' = [job EXCEPT ![j] = p]
                 /\ IsSlot(p)
                 /\ p.kind = q.kind /\ p.gen = q.gen /\ p.pc = "clear"
                 /\ p.todo = q.todo /\ p.done = q.done /\ p.fetched = g
    <3>0. PICK V : q \in Slots(V)
      BY <2>2 DEF IsSlot
    <3>1. CASE job' = [job EXCEPT ![j].pc = "clear", ![j].fetched = g]
      <4> DEFINE p == [q EXCEPT !.pc = "clear", !.fetched = g]
      <4>1. job' = [job EXCEPT ![j] = p]
        BY <2>2, <3>1
      <4>2. p \in Slots(V \cup {"clear", g})
        BY <3>0 DEF Slots
      <4>3. /\ p.kind = q.kind /\ p.gen = q.gen /\ p.pc = "clear"
            /\ p.todo = q.todo /\ p.done = q.done /\ p.fetched = g
        BY <3>0 DEF Slots
      <4> QED
        BY <4>1, <4>2, <4>3 DEF IsSlot
    <3>2. CASE job' = [job EXCEPT ![j].pc = "clear"] /\ g = job[j].fetched
      <4> DEFINE p == [q EXCEPT !.pc = "clear"]
      <4>1. job' = [job EXCEPT ![j] = p]
        BY <2>2, <3>2
      <4>2. p \in Slots(V \cup {"clear"})
        BY <3>0 DEF Slots
      <4>3. /\ p.kind = q.kind /\ p.gen = q.gen /\ p.pc = "clear"
            /\ p.todo = q.todo /\ p.done = q.done /\ p.fetched = g
        BY <2>2, <3>0, <3>2 DEF Slots
      <4> QED
        BY <4>1, <4>2, <4>3 DEF IsSlot
    <3> QED
      BY <2>3, <3>1, <3>2
  <2>5. Shape' /\ job'[j] = p /\ \A k \in Jobs \ {j} : job'[k] = job[k]
    BY <2>4, SlotSet
  <2> QED
    BY <2>1, <2>2, <2>3, <2>4, <2>5, <1>u, Aside
<1>7. ASSUME NEW j \in Jobs, Clear(j) PROVE RecoveryInv'
  <2>1. /\ job[j].kind = "reconcile" /\ job[j].pc = "clear"
        /\ gen' = gen /\ job' = [job EXCEPT ![j].pc = "write"]
        /\ records' = {r \in records : r.app # job[j].app}
        /\ reported' = {r \in reported : r.app # job[j].app}
    BY <1>7 DEF Clear, At
  <2>2. PICK q : q = job[j] /\ IsSlot(q)
    BY DEF Shape, IsSlot
  <2>3. PICK p : /\ job' = [job EXCEPT ![j] = p]
                 /\ IsSlot(p)
                 /\ p.kind = q.kind /\ p.gen = q.gen /\ p.pc = "write"
                 /\ p.todo = q.todo /\ p.done = q.done /\ p.fetched = q.fetched
                 /\ p.app = q.app
    <3> DEFINE p == [q EXCEPT !.pc = "write"]
    <3>1. PICK V : q \in Slots(V)
      BY <2>2 DEF IsSlot
    <3>2. job' = [job EXCEPT ![j] = p]
      BY <2>1, <2>2
    <3>3. p \in Slots(V \cup {"write"})
      BY <3>1 DEF Slots
    <3>4. /\ p.kind = q.kind /\ p.gen = q.gen /\ p.pc = "write"
          /\ p.todo = q.todo /\ p.done = q.done /\ p.fetched = q.fetched
          /\ p.app = q.app
      BY <3>1 DEF Slots
    <3> QED
      BY <3>2, <3>3, <3>4 DEF IsSlot
  <2>4. Shape' /\ job'[j] = p /\ \A k \in Jobs \ {j} : job'[k] = job[k]
    BY <2>3, SlotSet
  <2>5. \A k \in Jobs : /\ Reconciling(k)' <=> Reconciling(k)
                        /\ job'[k].gen = job[k].gen /\ job'[k].app = job[k].app
                        /\ job'[k].todo = job[k].todo /\ job'[k].done = job[k].done
                        /\ job'[k].fetched = job[k].fetched
                        /\ Writer(k)' <=> Writer(k) \/ k = j
    BY <2>1, <2>2, <2>3, <2>4 DEF Reconciling, Writer
  <2>6. \A r : Old(r) => Old(r)'
    BY <2>1, <2>5 DEF Old
  <2>7. Numbered'
    BY <2>1, <2>5, <2>6 DEF Numbered
  <2>8. DoneReported' /\ OnePerName'
    BY <2>1, <2>5 DEF DoneReported, OnePerName
  <2>9. mixed' = IF \E k \in Jobs : Writer(k) /\ job[k].app = job[j].app
                   THEN mixed \cup {job[j].app} ELSE mixed \ {job[j].app}
    BY <1>7 DEF Clear, At, Writer, Reconciling
  <2>10. LoneWriter'
    <3>1. CASE \E k \in Jobs : Writer(k) /\ job[k].app = job[j].app
      BY <2>1, <2>5, <2>9, <3>1 DEF LoneWriter
    <3>2. CASE ~\E k \in Jobs : Writer(k) /\ job[k].app = job[j].app
      BY <2>1, <2>5, <2>9, <3>2 DEF LoneWriter
    <3> QED
      BY <3>1, <3>2
  <2>11. OneSnapshot'
    BY <2>1, <2>9 DEF OneSnapshot
  <2> QED
    BY <2>4, <2>7, <2>8, <2>10, <2>11 DEF RecoveryInv
<1>8. ASSUME NEW j \in Jobs, Write(j) PROVE RecoveryInv'
  <2>1. /\ job' = [job EXCEPT ![j] = Idle] /\ gen' = gen
        /\ records' = records \cup Compare(j, job[j].gen)
        /\ UNCHANGED <<mixed, reported>>
        /\ Writer(j)
    BY <1>8 DEF Write, At, End, Writer, Reconciling
  <2>2. Shape' /\ job'[j] = Idle /\ \A k \in Jobs \ {j} : job'[k] = job[k]
    BY <2>1, SlotSet, IdleSlot
  <2>3. \A r, s \in Compare(j, job[j].gen) :
           /\ r.gen = job[j].gen /\ r.app = job[j].app
           /\ r.name = s.name => r = s
           /\ (r.result = "orphan") <=> (r.sso = "absent")
    <3>1. \A g : \A r, s \in Compare(j, g) :
           /\ r.gen = g /\ r.app = job[j].app
           /\ r.name = s.name => r = s
           /\ (r.result = "orphan") <=> (r.sso = "absent")
      BY <1>u, ComparedOnce
    <3> QED
      BY <3>1
  <2>4. \A k \in Jobs : Reconciling(k)' => Reconciling(k) /\ k # j
    BY <2>2, IdleSlot DEF Reconciling
  <2>5. Reconciling(j) /\ job[j].gen \in Nat /\ job[j].gen <= gen
    BY <2>1 DEF Writer, Numbered
  <2>6. \A r : Old(r) => Old(r)'
    BY <2>1, <2>2, <2>4 DEF Old
  <2>7. \A r \in Compare(j, job[j].gen) : Old(r)'
    BY <2>1, <2>2, <2>3, <2>4, <2>5 DEF Old, Numbered
  <2>8. Numbered'
    BY <2>1, <2>2, <2>4, <2>6, <2>7, IdleSlot DEF Numbered
  <2>9. \A k \in Jobs : \A r \in job[k].done : r \notin Compare(j, job[j].gen)
    BY <2>3, <2>5 DEF Numbered, Old
  <2>10. DoneReported' /\ OnePerName'
    BY <2>1, <2>2, <2>9, IdleSlot DEF DoneReported, OnePerName
  <2>11. LoneWriter'
    <3>1. \A k \in Jobs : Writer(k)' => Writer(k) /\ k # j /\ job'[k] = job[k]
      BY <2>2, IdleSlot DEF Writer, Reconciling
    <3> QED
      BY <2>1, <2>3, <3>1 DEF LoneWriter
  <2>12. OneSnapshot'
    <3> SUFFICES ASSUME NEW r \in records', NEW s \in records',
                        r.app = s.app, r.app \notin mixed
                 PROVE  /\ r.gen = s.gen
                        /\ r.name = s.name => r = s
                        /\ (r.result = "orphan") <=> (r.sso = "absent")
      BY <2>1 DEF OneSnapshot
    <3>1. CASE r.app = job[j].app
      <4>1. r \notin records /\ s \notin records
        BY <2>1, <3>1 DEF LoneWriter
      <4> QED
        BY <2>1, <2>3, <4>1
    <3>2. CASE r.app # job[j].app
      <4>1. r \in records /\ s \in records
        BY <2>1, <2>3, <3>2
      <4> QED
        BY <4>1 DEF OneSnapshot
    <3> QED
      BY <3>1, <3>2
  <2> QED
    BY <2>2, <2>8, <2>10, <2>11, <2>12 DEF RecoveryInv
<1>9. ASSUME NEW j \in Jobs, NEW kind, NEW app \in Apps,
             NEW chosen \in SUBSET records, kind # "reconcile",
             Begin(j, kind, app, chosen)
      PROVE  RecoveryInv'
  <2>1. PICK q : /\ q = [Idle EXCEPT !.pc = "run", !.kind = kind, !.app = app,
                                     !.rule = RuleOf(app), !.todo = chosen]
                 /\ job' = [job EXCEPT ![j] = q]
    BY <1>9 DEF Begin
  <2>2. /\ IsSlot(q)
        /\ q.kind = kind /\ q.todo = chosen /\ q.done = {} /\ q.fetched = {}
    <3>1. PICK V : Idle \in Slots(V)
      BY IdleSlot DEF IsSlot
    <3>2. PICK rule : q = [Idle EXCEPT !.pc = "run", !.kind = kind, !.app = app,
                             !.rule = rule, !.todo = chosen]
      BY <2>1
    <3>3. q \in Slots(V \cup {"run", kind, app, rule, chosen})
      BY <3>1, <3>2 DEF Slots
    <3> QED
      BY <2>1, <3>3 DEF Idle, IsSlot
  <2> QED
    BY <1>9, <2>1, <2>2, <1>2 DEF Begin
<1>10. ASSUME NEW j \in Jobs, NEW r, NEW did, NEW after, NEW passed,
              job[j].kind # "reconcile", RunScript(j, r, did, after, passed)
       PROVE  RecoveryInv'
  <2>1. /\ r \in job[j].todo /\ gen' = gen /\ gen \in Nat
        /\ UNCHANGED <<records, mixed>>
        /\ reported' = IF passed THEN reported \cup ({r} \cap records) ELSE reported
        /\ job' = [job EXCEPT ![j].todo = @ \ {r},
                     ![j].done = IF passed THEN @ \cup {r} ELSE @,
                     ![j].failed = IF passed THEN @ ELSE @ \cup {r}]
    BY <1>10 DEF RunScript, Numbered
  <2>2. PICK q : q = job[j] /\ IsSlot(q)
    BY DEF Shape, IsSlot
  <2>3. PICK p : /\ job' = [job EXCEPT ![j] = p]
                 /\ IsSlot(p)
                 /\ p.kind = q.kind /\ p.todo = q.todo \ {r}
                 /\ p.done = IF passed THEN q.done \cup {r} ELSE q.done
                 /\ p.fetched = q.fetched
    <3>1. PICK todo, done, failed :
            /\ todo = q.todo \ {r}
            /\ done = IF passed THEN q.done \cup {r} ELSE q.done
            /\ failed = IF passed THEN q.failed ELSE q.failed \cup {r}
      OBVIOUS
    <3> DEFINE p == [q EXCEPT !.todo = todo, !.done = done, !.failed = failed]
    <3>2. PICK V : q \in Slots(V)
      BY <2>2 DEF IsSlot
    <3>3. job' = [job EXCEPT ![j] = p]
      BY <2>1, <2>2, <3>1
    <3>4. p \in Slots(V \cup {todo, done, failed})
      BY <3>2 DEF Slots
    <3>5. p.kind = q.kind /\ p.todo = todo /\ p.done = done /\ p.fetched = q.fetched
      BY <3>2 DEF Slots
    <3> QED
      BY <3>1, <3>3, <3>4, <3>5 DEF IsSlot
  <2>4. Shape' /\ job'[j] = p /\ \A k \in Jobs \ {j} : job'[k] = job[k]
    BY <2>3, SlotSet
  <2>5. \A x \in records' : x \in reported => x \in reported'
    BY <2>1
  <2>6. \A x \in p.done : \/ x \in q.done
                          \/ x \in q.todo /\ (x \in records' => x \in reported')
    BY <2>1, <2>2, <2>3
  <2> QED
    <3>1. \A k \in Jobs \ {j} : job'[k] = job[k]
      BY <2>4
    <3>2. job'[j].kind # "reconcile"
      BY <1>10, <2>2, <2>3, <2>4
    <3>3. /\ \A x \in job'[j].todo : x \in job[j].todo
          /\ \A x \in job'[j].done :
               \/ x \in job[j].done
               \/ x \in job[j].todo /\ (x \in records' => x \in reported')
          /\ \A a, b \in job'[j].fetched : NameOf[a] = NameOf[b] => a = b
      BY <2>2, <2>3, <2>4, <2>6, <1>u
    <3>4. /\ Shape' /\ gen' \in Nat /\ gen <= gen' /\ UNCHANGED mixed
          /\ records' \subseteq records
      BY <2>1, <2>4
    <3> QED
      BY <2>5, <3>1, <3>2, <3>3, <3>4, <1>u, Aside
<1>11. ASSUME NEW j \in Jobs, DeleteRecords(j) PROVE RecoveryInv'
  BY <1>11, <1>2, IdleSlot DEF DeleteRecords, End
<1>12. CASE Crash
  <2>1. job' = [j \in Jobs |-> Idle] /\ UNCHANGED <<records, mixed, reported>>
        /\ gen' = gen /\ gen \in Nat
    BY <1>12 DEF Crash, Numbered
  <2>2. Shape'
    <3>1. PICK V : Idle \in Slots(V)
      BY IdleSlot DEF IsSlot
    <3>2. job' \in [Jobs -> Slots(V)]
      BY <2>1, <3>1
    <3> QED
      BY <3>2 DEF Shape
  <2> QED
    BY <2>1, <2>2, IdleSlot, Aside
<1>13. ASSUME NEW j \in Jobs, JobStep(j) PROVE RecoveryInv'
  <2>1. CASE \E r \in job[j].todo, e \in {"ok", "refused", "error"},
                did \in BOOLEAN :
               RunCleanup(j, r, e, did) \/ RunDisable(j, r, e, did)
                 \/ RunDelete(j, r, e, did)
    BY <2>1, <1>10 DEF RunCleanup, RunDisable, RunDelete, At
  <2> QED
    BY <1>13, <2>1, <1>4, <1>6, <1>7, <1>8, <1>11 DEF JobStep
<1>14. ASSUME NEW j \in Jobs, NEW app \in Apps, NEW ids \in SUBSET records,
              BatchCleanup(j, app, ids)
       PROVE  RecoveryInv'
  BY <1>14, <1>9 DEF BatchCleanup
<1>15. ASSUME NEW j \in Jobs, NEW app \in Apps, NEW accts \in SUBSET Accounts,
              BatchDisableUser(j, app, accts) \/ BatchDeleteUser(j, app, accts)
       PROVE  RecoveryInv'
  <2>1. OfAccounts(app, accts) \in SUBSET records
    BY DEF OfAccounts
  <2> QED
    BY <1>15, <1>9, <2>1 DEF BatchDisableUser, BatchDeleteUser
<1>16. CASE \/ \E i \in 1 .. MaxRules, app \in Apps, can \in PowerChoices :
                 SaveRule(i, app, can)
            \/ \E i \in 1 .. MaxRules : DeleteRule(i)
            \/ \E n \in Names, s \in UserStates : SetUser(n, s)
            \/ \E a \in Accounts : Provision(a)
            \/ UNCHANGED vars
  BY <1>1, <1>16 DEF SaveRule, DeleteRule, SetUser, Provision, vars
<1> QED
  BY ONLY [Next]_vars, <1>3, <1>5, <1>12, <1>13, <1>14, <1>15, <1>16 DEF Next

\* The invariant holds at all times.
LEMMA RecoveryInvHolds == Spec => []RecoveryInv
BY InitRecovery, NextRecovery, PTL DEF Spec

\* The records of an application are one snapshot unless reconciliations wrote
\* at the same time, for any number of reconciliations, batches and crashes
\* (RunReconciliation: ClearReconciliationByAppID, BulkCreateReconciliation).
THEOREM RecordsAreOneSnapshot == Spec => []OneSnapshot
<1>1. RecoveryInv => OneSnapshot
  BY DEF RecoveryInv
<1> QED
  BY <1>1, RecoveryInvHolds, PTL

\* No record is lost that was not dealt with: a step that takes a record away
\* is the Clear of its application, or the end of a batch whose script for
\* this very record ended well, however late the batch is
\* (DeleteReconciliationByIDs).
THEOREM OnlyHandledLeave == Spec => HandledOnly
<1> DEFINE Gone(r) == \/ r \in reported
                      \/ \E j \in Jobs : At(j, "reconcile", "clear") /\ job[j].app = r.app
<1>1. RecoveryInv /\ [Next]_vars => [\A r \in records \ records' : Gone(r)]_vars
  <2> SUFFICES ASSUME RecoveryInv, Next, NEW r \in records, r \notin records'
               PROVE  Gone(r)
    OBVIOUS
  <2>1. ASSUME NEW j \in Jobs, Clear(j) PROVE Gone(r)
    BY <2>1 DEF Clear, At
  <2>2. ASSUME NEW j \in Jobs, DeleteRecords(j) PROVE Gone(r)
    <3>1. r \in Dealt(j)
      BY <2>2 DEF DeleteRecords
    <3>2. r \in job[j].done
      BY <3>1 DEF Dealt
    <3> QED
      BY <3>2 DEF RecoveryInv, DoneReported
  <2>3. ASSUME NEW j \in Jobs, Write(j) PROVE Gone(r)
    BY <2>3 DEF Write
  <2>4. ASSUME UNCHANGED records PROVE Gone(r)
    BY <2>4
  <2>5. ASSUME NEW j \in Jobs, JobStep(j) PROVE Gone(r)
    <3>1. CASE \E x \in job[j].todo, e \in {"ok", "refused", "error"},
                  did \in BOOLEAN :
                 RunCleanup(j, x, e, did) \/ RunDisable(j, x, e, did)
                   \/ RunDelete(j, x, e, did)
      BY <2>4, <3>1 DEF RunCleanup, RunDisable, RunDelete, RunScript
    <3>2. CASE \/ CreateInsert(j) \/ FetchNothing(j)
               \/ \E f \in SUBSET Accounts : FetchOk(j, f)
      BY <2>4, <3>2 DEF CreateInsert, FetchNothing, FetchOk
    <3> HIDE DEF Gone
    <3> QED
      BY ONLY <2>1, <2>2, <2>3, <2>5, <3>1, <3>2, j \in Jobs DEF JobStep
  <2> HIDE DEF Gone
  <2> QED
    BY ONLY Next, <2>4, <2>5 DEF Next, CreateCheck, SaveRule, DeleteRule, ReadUsers,
       BatchCleanup, BatchDisableUser, BatchDeleteUser, Begin, SetUser, Provision,
       Crash
<1> QED
  BY <1>1, RecoveryInvHolds, PTL DEF Spec, HandledOnly
=============================================================================
