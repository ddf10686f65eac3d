---------------------------- MODULE Organisation ----------------------------
(***************************************************************************)
(* The department tree and the user groups, as administrators edit them    *)
(* (misc_handler.go, usergroup_handler.go and their repositories).         *)
(***************************************************************************)
EXTENDS AdminRequests

CONSTANTS
  Users,
  Depts,      \* department ids
  Founded,    \* departments at the start, all at the top
  Groups,     \* user group ids
  Root,       \* parent_id is NULL
  Gone,       \* a department that was deleted: ids are not used again
  Reparent,   \* whether DepartmentHandler.Update is sent a parent_id
  MemberSets  \* what SetMembers is sent

Tree == <<"tree", Nil>>    \* every department request works on the whole tree

ASSUME OrgAssumption ==
  /\ Founded \subseteq Depts /\ MemberSets \subseteq SUBSET Users
  /\ {Root, Gone, Nil} \cap Depts = {}
  /\ Root \notin {Gone, Nil} /\ Gone # Nil /\ Tree # Nil

VARIABLES
  parent,   \* Depts -> parent_id; Nil before the department is created
  unchecked,  \* whether Update has been sent another parent_id
  home,     \* Users -> department_id
  groups,   \* rows of sso_user_group
  member    \* rows of sso_user_group_members, as <<group, user>>

orgVars == <<parent, unchecked, home, groups, member>>

OrgInit ==
  /\ parent = [d \in Depts |-> IF d \in Founded THEN Root ELSE Nil] /\ unchecked = FALSE
  /\ home \in [Users -> Founded]
  /\ groups = Groups
  /\ member = {}

Parents == Depts \cup {Root}
Issued == {Root} \cup {d \in Depts : parent[d] # Nil}   \* ids one can send
Present(f) == {d \in Depts : f[d] \in Parents}

-----------------------------------------------------------------------------
(* Departments *)

\* A walk up the table f does not leave the set.
Upward(f, set) == \A x \in set : f[x] \in Depts => f[x] \in set

\* The departments met on the way up from d in the table f, d among them: the
\* least set that has it and is upward.  A parent that is no row ends the walk;
\* on a cycle the walk never ends.
Above(f, d) ==
  {x \in Depts : \A set \in SUBSET Depts :
     Upward(f, set) /\ (d \in Depts => d \in set) => x \in set}

OnCycle(f, d) ==
  /\ d \in Depts /\ f[d] \in Depts
  /\ d \in Above(f, f[d])

\* gorm's Save: the row as it was read, with the changes; an insert if gone.
SaveDept(d, p) == parent' = [parent EXCEPT ![d] = p]

CreateDept(d, p) ==
  /\ parent[d] = Nil
  /\ Once(Tree)
  /\ SaveDept(d, p)
  /\ UNCHANGED <<unchecked, home, groups, member>>

\* The row and the binding of a directory sync, in one transaction; children
\* and users keep the id.
DeleteDept(d) ==
  /\ d \in Present(parent)
  /\ Once(Tree)
  /\ SaveDept(d, Gone)
  /\ UNCHANGED <<unchecked, home, groups, member>>

\* Update without a parent_id writes back the one it read; with one it asks
\* nothing about it.
UpdateDept(q, d, p) ==
  /\ d \in Present(parent)
  /\ p = parent[d] \/ Reparent
  /\ Begin(q, "dept", "save", Tree, d, p, {})
  /\ unchecked' = (unchecked \/ p # parent[d])
  /\ UNCHANGED <<parent, home, groups, member>>

\* Move reads the department, then the table.
MoveGet(q, d, p) ==
  /\ d \in Present(parent) /\ p # d
  /\ Begin(q, "dept", IF p = Root THEN "save" ELSE "list", Tree, d, p, {})
  /\ UNCHANGED orgVars

\* Mutant of Refused: only the children of the department are refused.
RefusedChild(d, p) == p \in Depts /\ parent[p] = d

\* The new parent is the department itself or below it.
Refused(d, p) == d \in Above(parent, p)

MoveList(q) ==
  LET d == req[q].in
      p == req[q].row
  IN  /\ At(q, "dept", "list")
      /\ IF Refused(d, p) THEN End(q)
         ELSE IF \E x \in Above(parent, p) : OnCycle(parent, x)
         THEN Goto(q, "walking")      \* round and round
         ELSE Goto(q, "save")
      /\ UNCHANGED orgVars

DeptSave(q) ==
  /\ At(q, "dept", "save")
  /\ SaveDept(req[q].in, req[q].row)
  /\ End(q)
  /\ UNCHANGED <<unchecked, home, groups, member>>

-----------------------------------------------------------------------------
(* Groups *)

\* The members go first, then the group; grants to it stay.
DeleteGroup(q, g) ==
  /\ g \in groups
  /\ Begin(q, "group", "drop", <<"group", g>>, Nil, Nil, {})
  /\ member' = {m \in member : m[1] # g}
  /\ UNCHANGED <<parent, unchecked, home, groups>>

DropGroup(q) ==
  /\ At(q, "group", "drop")
  /\ groups' = groups \ {On(q)}
  /\ End(q)
  /\ UNCHANGED <<parent, unchecked, home, member>>

\* SetMembers does not look for the group: it inserts the missing members,
\* then deletes the others.
SetMembers(q, g, us) ==
  /\ Begin(q, "members", "prune", <<"group", g>>, us, Nil, {})
  /\ member' = member \cup ({g} \X us)
  /\ UNCHANGED <<parent, unchecked, home, groups>>

PruneMembers(q) ==
  LET g == On(q)
  IN  /\ At(q, "members", "prune")
      /\ member' = {m \in member : m[1] = g => m[2] \in req[q].in}
      /\ End(q)
      /\ UNCHANGED <<parent, unchecked, home, groups>>

\* An administrator or a sync gives a user another department.
MoveUser(u, d) ==
  /\ home[u] # d
  /\ Once(<<"user", u>>)
  /\ home' = [home EXCEPT ![u] = d]
  /\ UNCHANGED <<parent, unchecked, groups, member>>

OrgRequest(q) ==
  \/ \E d \in Depts, p \in Issued : UpdateDept(q, d, p) \/ MoveGet(q, d, p)
  \/ MoveList(q) \/ DeptSave(q)
  \/ \E g \in Groups : DeleteGroup(q, g)
  \/ DropGroup(q)
  \/ \E g \in Groups, us \in MemberSets : SetMembers(q, g, us)
  \/ PruneMembers(q)

OrgNext ==
  \/ \E q \in Requests : OrgRequest(q)
  \/ \E d \in Depts : DeleteDept(d) \/ \E p \in Issued : CreateDept(d, p)
  \/ \E u \in Users, d \in Depts : MoveUser(u, d)

-----------------------------------------------------------------------------
OrgTypeOK ==
  /\ parent \in [Depts -> Parents \cup {Nil, Gone}]
  /\ unchecked \in BOOLEAN
  /\ home \in [Users -> Depts]
  /\ groups \subseteq Groups
  /\ member \subseteq Groups \X Users

\* Moves, one at a time, keep the departments a forest, whatever else is
\* created, deleted and renamed in between, and the walk of Move ends
\* ("变更 parent_id 并校验不形成环").
TreeStaysTree ==
  ~unchecked /\ Tree \notin raced =>
     /\ \A d \in Depts : ~OnCycle(parent, d)
     /\ \A q \in Requests : ~At(q, "dept", "walking")

\* What the comment on Move promises of any two moves.
NoCycle == \A d \in Depts : ~OnCycle(parent, d)
=============================================================================
