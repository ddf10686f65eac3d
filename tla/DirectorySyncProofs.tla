------------------------- MODULE DirectorySyncProofs -------------------------
(* Proofs about DirectorySync, for any numbers of users, jobs and accounts. *)
EXTENDS DirectorySync, FiniteSetTheorems, SequenceTheorems, TLAPS

Bindings == [Ext -> Users \cup {None}]

\* What a step needs to know of the tables: bindings and unused ids are of
\* their types, before and after a rollback.
BindOK ==
  /\ bind \in Bindings /\ fresh \in SUBSET Users
  /\ tx # None => saved.bind \in Bindings /\ saved.fresh \in SUBSET Users

-----------------------------------------------------------------------------
\* uuid.New hands out an id that is in stock.
LEMMA NewIdUnused ==
  ASSUME NEW u \in NewId
  PROVE  u \in fresh
BY DEF NewId

\* The lookup chain of applyRemoteUser starts with the binding.
LEMMA BindingFirst ==
  ASSUME NEW e \in Ext, bind[e] \in Living
  PROVE  FindUser(e) = {bind[e]}
BY DEF FindUser

\* Every lookup returns an account that exists.
LEMMA FoundLives ==
  ASSUME NEW e \in Ext
  PROVE  FindUser(e) \subseteq Living
BY DEF FindUser, ByEmail, ByName

\* Whatever applyRemoteUser does, it leaves the bindings alone or binds the
\* external id, to the account it is bound to already if that exists.
LEMMA OutcomeBinds ==
  ASSUME BindOK, NEW e \in Ext, NEW state, NEW override,
         NEW o \in Outcomes(e, state, override)
  PROVE  /\ o.fresh \subseteq fresh
         /\ o.bind = bind \/ \E u \in Users :
              /\ o.bind = [bind EXCEPT ![e] = u]
              /\ bind[e] \in Living => u = bind[e]
<1>1. CASE state = "departed"
  BY <1>1 DEF Outcomes
<1>2. CASE state # "departed" /\ FindUser(e) = {}
  <2>1. PICK u \in NewId : o = Write(e, u, NewAccount(e, state, override), TRUE)
    BY <1>2 DEF Outcomes
  <2>2. u \in Users
    BY NewIdUnused DEF BindOK
  <2>3. bind[e] \notin Living
    BY <1>2, BindingFirst
  <2>4. o.bind \in {bind, [bind EXCEPT ![e] = u]} /\ o.fresh \subseteq fresh
    BY <2>1 DEF Write
  <2> QED
    BY <2>2, <2>3, <2>4
<1>3. CASE state # "departed" /\ FindUser(e) # {}
  <2>1. PICK u \in FindUser(e) :
          o = Write(e, u, Refreshed(e, u, state, override), FALSE)
    BY <1>3 DEF Outcomes
  <2>2. u \in Users
    BY FoundLives DEF Living
  <2>3. bind[e] \in Living => u = bind[e]
    BY BindingFirst
  <2>4. o.bind \in {bind, [bind EXCEPT ![e] = u]} /\ o.fresh \subseteq fresh
    BY <2>1 DEF Write
  <2> QED
    BY <2>2, <2>3, <2>4
<1> QED
  BY <1>1, <1>2, <1>3

\* The bindings after applying one remote user.
LEMMA ApplyBinds ==
  ASSUME BindOK, NEW j \in Jobs, NEW e \in Ext, NEW state, NEW override,
         Apply(j, e, state, override)
  PROVE  /\ bind' \in Bindings /\ fresh' \in SUBSET Users
         /\ \A x \in Ext : bind[x] \in Living => bind'[x] = bind[x]
<1>1. PICK o \in Outcomes(e, state, override) : bind' = o.bind /\ fresh' = o.fresh
  BY DEF Apply
<1>2. /\ o.fresh \subseteq fresh
      /\ o.bind = bind \/ \E u \in Users :
           /\ o.bind = [bind EXCEPT ![e] = u]
           /\ bind[e] \in Living => u = bind[e]
  BY OutcomeBinds
<1>3. fresh' \in SUBSET Users
  BY <1>1, <1>2 DEF BindOK
<1>4. CASE o.bind = bind
  BY <1>1, <1>3, <1>4 DEF BindOK
<1>5. CASE \E u \in Users : /\ o.bind = [bind EXCEPT ![e] = u]
                            /\ bind[e] \in Living => u = bind[e]
  <2>1. PICK u \in Users : /\ bind' = [bind EXCEPT ![e] = u]
                           /\ bind[e] \in Living => u = bind[e]
    BY <1>1, <1>5
  <2> QED
    BY <1>3, <2>1 DEF BindOK, Bindings
<1> QED
  BY <1>2, <1>4, <1>5

-----------------------------------------------------------------------------
\* A step either touches no binding, or applies a user, links or crashes.
LEMMA StepBinds ==
  ASSUME BindOK, [Next]_vars
  PROVE  /\ BindOK'
         /\ \A x \in Ext : bind[x] \in Living /\ bind'[x] # bind[x] =>
              edit'.ext = x \/ (tx # None /\ bind' = saved.bind)
<1> DEFINE Kept == \A x \in Ext : bind[x] \in Living => bind'[x] = bind[x]
           Safe == \A x \in Ext : bind[x] \in Living /\ bind'[x] # bind[x] =>
                     edit'.ext = x \/ (tx # None /\ bind' = saved.bind)
<1>1. ASSUME UNCHANGED <<bind, fresh, tx, saved>>
      PROVE  BindOK' /\ Safe
  BY <1>1 DEF BindOK
<1>2. ASSUME NEW j \in Jobs, Begin(j)
      PROVE  BindOK' /\ Safe
  BY <1>2 DEF BindOK, Begin
<1>3. ASSUME NEW j \in Jobs, NEW e \in Ext, ApplyUser(j, e)
      PROVE  BindOK' /\ Safe
  <2>1. /\ bind' \in Bindings /\ fresh' \in SUBSET Users /\ Kept
        /\ UNCHANGED <<tx, saved>>
    BY <1>3, ApplyBinds DEF ApplyUser
  <2> QED
    BY <2>1 DEF BindOK
<1>4. ASSUME NEW j \in Jobs, NEW e \in Ext, ImportUser(j, e)
      PROVE  BindOK' /\ Safe
  <2>1. /\ bind' \in Bindings /\ fresh' \in SUBSET Users /\ Kept
        /\ UNCHANGED <<tx, saved>>
    BY <1>4, ApplyBinds DEF ImportUser
  <2> QED
    BY <2>1 DEF BindOK
<1>5. ASSUME NEW j \in Jobs, DisableMissing(j)
      PROVE  BindOK' /\ Safe
  BY <1>5 DEF BindOK, DisableMissing
<1>6. ASSUME NEW e \in Ext, NEW u \in Users, Link(e, u)
      PROVE  BindOK' /\ Safe
  BY <1>6 DEF BindOK, Bindings, Link
<1>7. ASSUME NEW u \in Users, NEW name \in Typed, CreateLocal(u, name)
      PROVE  BindOK' /\ Safe
  BY <1>7 DEF BindOK, CreateLocal
<1>8. CASE Fail
  <2>1. CASE Crash
    BY <2>1 DEF BindOK, Crash
  <2>2. ASSUME NEW j \in Jobs, Abort(j)
        PROVE  BindOK' /\ Safe
    <3>1. tx # None
      BY <2>2, SyncAssumption DEF Abort
    <3> QED
      BY <2>2, <3>1 DEF BindOK, Abort
  <2> QED
    BY <1>8, <2>1, <2>2 DEF Fail
<1>9. CASE Work
  BY <1>1, <1>2, <1>3, <1>4, <1>5, <1>9
     DEF Work, JobStep, EditSave, SaveAccount, FinishLog, ImportDone
<1>10. CASE Arrive
  BY <1>1, <1>10 DEF Arrive, StoreSnapshot, ImportRead
<1>11. CASE Administer
  BY <1>1, <1>6, <1>7, <1>11 DEF Administer, EditRow, ClearBuffer, DeleteUser, ReadAccount
<1>12. CASE UNCHANGED vars
  BY <1>1, <1>12 DEF vars
<1> QED
  BY <1>8, <1>9, <1>10, <1>11, <1>12 DEF Next

\* The bindings of users and the ids in stock have their types at all times.
LEMMA BindingsTyped == Spec => []BindOK
<1>1. Init => BindOK
  BY DEF Init, BindOK, Bindings
<1>2. BindOK /\ [Next]_vars => BindOK'
  BY StepBinds
<1> QED
  BY <1>1, <1>2, PTL DEF Spec

\* An external id bound to an account that exists stays with it through every
\* sync and import, for any number of remote users that share names and
\* addresses; only links and rollbacks change the binding (applyRemoteUser).
THEOREM IdentityIsStable == Spec => StableIdentity
<1>1. BindOK /\ [Next]_vars =>
        [\A e \in Ext :
           bind[e] \in Living /\ bind'[e] # bind[e] =>
             edit'.ext = e \/ (tx # None /\ bind' = saved.bind)]_vars
  BY StepBinds
<1> QED
  BY <1>1, BindingsTyped, PTL DEF Spec, StableIdentity

-----------------------------------------------------------------------------
(* Types, unique names and addresses *)

\* The unique indexes on user name and address hold in an account table.
Unique(table) ==
  \A u, v \in Users :
    u # v /\ table[u] # None /\ table[v] # None =>
      /\ table[u].name # table[v].name
      /\ table[u].email = None \/ table[u].email # table[v].email

AccountsOK ==
  /\ users \in [Users -> Accounts \cup {None}]
  /\ fresh \in SUBSET Users
  /\ bind \in Bindings
  /\ Unique(users)

\* A rollback restores tables that are as good as the present ones.
RollbackOK ==
  \/ tx = None /\ saved = None
  \/ tx \in Jobs /\ saved \in Tables /\ Unique(saved.users)

JobsOK ==
  /\ job \in [Jobs -> JobStates]
  /\ \A j \in Jobs :
       /\ job[j].pc = "users" <=> tx = j
       /\ job[j].pc = "import" =>
            \A e \in job[j].todo : job[j].rows[e] \in BufferRows
       /\ job[j].failed = {}

\* An edit that is going to be written has a row and a name to write.
BufferOK ==
  /\ buffer \in [Ext -> BufferRows \cup {None}]
  /\ edit \in [ext : Ext \cup {None}, name : Names \cup {None},
               mark : BOOLEAN, live : BOOLEAN]
  /\ edit.live => edit.name \in Names /\ edit.ext \in Ext
                  /\ buffer[edit.ext] \in BufferRows

\* A request that has read an account holds its row.
WriterOK ==
  \/ writer = NoWriter
  \/ writer \in [user : Users, row : Accounts,
                 op : {"touch", "unlock", "disable"}]

\* What the steps preserve together.  That no name clashes needs the names and
\* addresses to be unique, in the accounts and in what a rollback restores: the
\* account whose name is kept must be the only one to have it.
SyncInv == AccountsOK /\ RollbackOK /\ JobsOK /\ BufferOK /\ WriterOK

-----------------------------------------------------------------------------
\* A set of numbers that is not empty has a least element.
LEMMA MinIsIn ==
  ASSUME NEW S, S \subseteq Nat, S # {}
  PROVE  Min(S) \in S
<1> DEFINE less == {p \in Nat \X Nat : p[1] < p[2]}
<1>0. IsWellFoundedOn(less, Nat)
  BY NatLessThanWellFounded, Zenon DEF OpToRel
<1>1. \E x \in S : \A y \in S : <<y, x>> \notin less
  <2> HIDE DEF less
  <2> QED
    BY <1>0, WFMin
<1>2. \E x \in S : \A y \in S : x <= y
  <2>1. PICK x \in S : \A y \in S : <<y, x>> \notin less
    BY <1>1
  <2>2. \A y \in S : <<y, x>> \in Nat \X Nat
    OBVIOUS
  <2>3. \A y \in S : ~(y < x)
    BY <2>1, <2>2
  <2> QED
    BY <2>3
<1> QED
  BY <1>2 DEF Min

\* There are more candidates than accounts: of the names that are tried in
\* turn, if they differ, one is free (generateUsername, resolveImportUsername).
LEMMA OneIsFree ==
  ASSUME NEW Nth, DOMAIN Nth = 1 .. MaxSuffix, NEW self,
         \A m, n \in 1 .. MaxSuffix : Nth[m] = Nth[n] => m = n
  PROVE  \E n \in 1 .. MaxSuffix : ~Taken(Nth[n], self)
<1> SUFFICES ASSUME \A n \in 1 .. MaxSuffix : Taken(Nth[n], self)
             PROVE  FALSE
  OBVIOUS
<1> DEFINE f == [n \in 1 .. MaxSuffix |->
                   CHOOSE u \in Living \ {self} : users[u].name = Nth[n]]
<1>1. \A n \in 1 .. MaxSuffix :
        f[n] \in Users /\ users[f[n]].name = Nth[n]
  <2> TAKE n \in 1 .. MaxSuffix
  <2>1. \E u \in Living \ {self} : users[u].name = Nth[n]
    BY DEF Taken
  <2> QED
    BY <2>1 DEF Living
<1>2. f \in [1 .. MaxSuffix -> Users]
  BY <1>1
<1>3. /\ IsFiniteSet(1 .. MaxSuffix)
      /\ Cardinality(Users) < Cardinality(1 .. MaxSuffix)
  <2>1. Cardinality(Users) \in Nat
    BY FS_CardinalityType, SyncAssumption
  <2> QED
    BY <2>1, FS_Interval, SyncAssumption
<1>4. \E x, y \in 1 .. MaxSuffix : x # y /\ f[x] = f[y]
  <2> HIDE DEF f
  <2> QED
    BY <1>2, <1>3, FS_PigeonHole, SyncAssumption
<1> HIDE DEF f
<1> QED
  BY <1>1, <1>4

\* generateUsername returns a name that no other account has.
LEMMA GeneratedIsFree ==
  ASSUME NEW base \in Bases, NEW self
  PROVE  /\ GenerateUsername(base, self) \in Names
         /\ ~Taken(GenerateUsername(base, self), self)
<1> DEFINE N(n) == <<base, IF n = 1 THEN <<>> ELSE <<n>>>>
           Nth == [n \in 1 .. MaxSuffix |-> N(n)]
           free == {n \in 1 .. MaxSuffix : ~Taken(N(n), self)}
<1>1. \A m, n \in 1 .. MaxSuffix : N(m) = N(n) => m = n
  <2>1. \A m, n \in 1 .. MaxSuffix : <<m>> = <<n>> => m = n
    OBVIOUS
  <2>2. \A n \in 1 .. MaxSuffix : <<n>> # <<>>
    OBVIOUS
  <2>3. \A m, n \in 1 .. MaxSuffix : N(m) = N(n) =>
          (IF m = 1 THEN <<>> ELSE <<m>>) = (IF n = 1 THEN <<>> ELSE <<n>>)
    OBVIOUS
  <2> QED
    BY <2>1, <2>2, <2>3
<1>2. \A n \in 1 .. MaxSuffix : N(n) \in Names
  <2> TAKE n \in 1 .. MaxSuffix
  <2>1. CASE n = 1
    <3>1. <<>> \in Seq(2 .. MaxSuffix)
      BY EmptySeq
    <3>2. N(n) = <<base, <<>>>>
      BY <2>1
    <3> QED
      BY <3>1, <3>2 DEF Names
  <2>2. CASE n # 1
    <3>1. n \in 2 .. MaxSuffix
      BY <2>2, SyncAssumption
    <3>2. <<n>> \in Seq(2 .. MaxSuffix)
      BY <3>1
    <3> QED
      BY <2>2, <3>2 DEF Names
  <2> QED
    BY <2>1, <2>2
<1>3. \E n \in 1 .. MaxSuffix : ~Taken(N(n), self)
  <2>1. \A n \in 1 .. MaxSuffix : Nth[n] = N(n)
    OBVIOUS
  <2>2. \A m, n \in 1 .. MaxSuffix : Nth[m] = Nth[n] => m = n
    BY <1>1, <2>1
  <2>3. DOMAIN Nth = 1 .. MaxSuffix
    OBVIOUS
  <2> HIDE DEF Nth, N
  <2>4. \E n \in 1 .. MaxSuffix : ~Taken(Nth[n], self)
    BY <2>2, <2>3, OneIsFree
  <2> QED
    BY <2>1, <2>4
<1>4. Min(free) \in free
  <2>1. free # {} /\ free \subseteq Nat
    BY <1>3
  <2> QED
    BY <2>1, MinIsIn
<1>5. GenerateUsername(base, self) = N(Min(free))
  BY DEF GenerateUsername
<1> QED
  <2> HIDE DEF N
  <2> QED
    BY <1>2, <1>4, <1>5

\* resolveImportUsername too, although it appends to what it appended before.
LEMMA ResolvedIsFree ==
  ASSUME NEW name \in Names, NEW self
  PROVE  /\ ResolveImportUsername(name, self) \in Names
         /\ ~Taken(ResolveImportUsername(name, self), self)
<1> DEFINE Numbers(n) == [i \in 1 .. n - 1 |-> i + 1]
           N(n) == <<name[1], name[2] \o Numbers(n)>>
           Nth == [n \in 1 .. MaxSuffix |-> N(n)]
           free == {n \in 1 .. MaxSuffix : ~Taken(N(n), self)}
<1>1. name[1] \in Bases /\ name[2] \in Seq(2 .. MaxSuffix)
  BY DEF Names
<1>2. \A n \in 1 .. MaxSuffix :
        Numbers(n) \in Seq(2 .. MaxSuffix) /\ Len(Numbers(n)) = n - 1
  <2> TAKE n \in 1 .. MaxSuffix
  <2>1. n - 1 \in Nat /\ \A i \in 1 .. n - 1 : i + 1 \in 2 .. MaxSuffix
    BY SyncAssumption
  <2> QED
    BY <2>1, IsASeq
<1>3. \A n \in 1 .. MaxSuffix :
        /\ name[2] \o Numbers(n) \in Seq(2 .. MaxSuffix)
        /\ Len(name[2] \o Numbers(n)) = Len(name[2]) + n - 1
  <2> TAKE n \in 1 .. MaxSuffix
  <2> DEFINE t == Numbers(n)
  <2>1. t \in Seq(2 .. MaxSuffix) /\ Len(t) = n - 1
    BY <1>2
  <2>2. Len(name[2]) \in Nat
    BY <1>1, LenProperties
  <2> HIDE DEF t
  <2>3. name[2] \o t \in Seq(2 .. MaxSuffix)
    BY <1>1, <2>1, ConcatProperties
  <2>4. Len(name[2] \o t) = Len(name[2]) + Len(t)
    BY <1>1, <2>1, ConcatProperties
  <2>5. Len(name[2] \o t) = Len(name[2]) + n - 1
    BY <2>1, <2>2, <2>4
  <2> QED
    BY <2>3, <2>5 DEF t
<1>4. \A n \in 1 .. MaxSuffix : N(n) \in Names
  BY <1>1, <1>3 DEF Names
<1>5. \A m, n \in 1 .. MaxSuffix : N(m) = N(n) => m = n
  <2> TAKE m, n \in 1 .. MaxSuffix
  <2> HAVE N(m) = N(n)
  <2>1. name[2] \o Numbers(m) = name[2] \o Numbers(n)
    OBVIOUS
  <2>2. Len(name[2]) + m - 1 = Len(name[2]) + n - 1
    BY <1>3, <2>1
  <2> QED
    BY <1>1, <2>2, LenProperties
<1> HIDE DEF N, Numbers
<1>6. \E n \in 1 .. MaxSuffix : ~Taken(N(n), self)
  <2>1. \A n \in 1 .. MaxSuffix : Nth[n] = N(n)
    OBVIOUS
  <2>2. \A m, n \in 1 .. MaxSuffix : Nth[m] = Nth[n] => m = n
    BY <1>5, <2>1
  <2>3. DOMAIN Nth = 1 .. MaxSuffix
    OBVIOUS
  <2> HIDE DEF Nth
  <2>4. \E n \in 1 .. MaxSuffix : ~Taken(Nth[n], self)
    BY <2>2, <2>3, OneIsFree
  <2> QED
    BY <2>1, <2>4
<1>7. Min(free) \in free
  <2>1. free # {} /\ free \subseteq Nat
    BY <1>6
  <2> QED
    BY <2>1, MinIsIn
<1>8. ResolveImportUsername(name, self) = N(Min(free))
  BY DEF ResolveImportUsername, N, Numbers
<1> QED
  BY <1>4, <1>7, <1>8

\* The name that applyRemoteUser gives an account is nobody else's.
LEMMA NameIsFree ==
  ASSUME AccountsOK, NEW e \in Ext, NEW u \in Living \cup {None},
         NEW override \in Names \cup {None}
  PROVE  /\ Natural(e, u) \in Names
         /\ NameFor(e, u, override) \in Names
         /\ \A v \in Living \ {u} : users[v].name # NameFor(e, u, override)
<1>1. GenerateUsername(BaseOf[e], u) \in Names /\ ~Taken(GenerateUsername(BaseOf[e], u), u)
  BY GeneratedIsFree, SyncAssumption
<1>2. u # None => users[u] \in Accounts /\ users[u].name \in Names
  BY DEF AccountsOK, Living, Accounts
<1>3. Natural(e, u) \in Names
  BY <1>1, <1>2 DEF Natural
<1>4. \A v \in Living \ {u} : users[v].name # Natural(e, u)
  <2>1. CASE u = None \/ u \in ByName(e)
    BY <1>1, <2>1 DEF Natural, Taken
  <2>2. CASE ~(u = None \/ u \in ByName(e))
    <3>1. Natural(e, u) = users[u].name /\ u \in Living
      BY <2>2 DEF Natural
    <3> QED
      BY <3>1 DEF AccountsOK, Unique, Living
  <2> QED
    BY <2>1, <2>2
<1>5. CASE override \in {None, Natural(e, u)}
  BY <1>3, <1>4, <1>5 DEF NameFor
<1>6. CASE override \notin {None, Natural(e, u)}
  <2>1. /\ ResolveImportUsername(override, u) \in Names
        /\ ~Taken(ResolveImportUsername(override, u), u)
    BY <1>6, ResolvedIsFree
  <2>2. NameFor(e, u, override) = ResolveImportUsername(override, u)
    BY <1>6 DEF NameFor
  <2> QED
    BY <1>3, <2>1, <2>2 DEF Taken
<1> QED
  BY <1>5, <1>6

\* Writing a row that clashes with none keeps names and addresses unique.
LEMMA UniqueKept ==
  ASSUME AccountsOK, NEW u \in Users, NEW row \in Accounts, ~Clashes(u, row)
  PROVE  /\ [users EXCEPT ![u] = row] \in [Users -> Accounts \cup {None}]
         /\ Unique([users EXCEPT ![u] = row])
<1> DEFINE table == [users EXCEPT ![u] = row]
<1>1. table \in [Users -> Accounts \cup {None}] /\ table[u] = row
      /\ \A v \in Users \ {u} : table[v] = users[v]
  BY DEF AccountsOK
<1>2. \A v \in Users \ {u} : users[v] # None =>
        users[v].name # row.name /\ (row.email = None \/ users[v].email # row.email)
  BY DEF Clashes, Living
<1>3. \A v, w \in Users : v # w /\ users[v] # None /\ users[w] # None =>
        /\ users[v].name # users[w].name
        /\ users[v].email = None \/ users[v].email # users[w].email
  BY DEF AccountsOK, Unique
<1> HIDE DEF table
<1>4. ASSUME NEW v \in Users, NEW w \in Users, v # w, table[v] # None,
             table[w] # None
      PROVE  /\ table[v].name # table[w].name
             /\ table[v].email = None \/ table[v].email # table[w].email
  <2>1. CASE v = u
    BY <1>1, <1>2, <1>4, <2>1
  <2>2. CASE w = u
    BY <1>1, <1>2, <1>4, <2>2
  <2>3. CASE v # u /\ w # u
    BY <1>1, <1>3, <1>4, <2>3
  <2> QED
    BY <2>1, <2>2, <2>3
<1>5. Unique(table)
  BY <1>4 DEF Unique
<1> QED
  BY <1>1, <1>5 DEF table

\* Closing an account, or removing it, changes no name and no address.
LEMMA UniqueFewer ==
  ASSUME AccountsOK, NEW table \in [Users -> Accounts \cup {None}],
         \A u \in Users : \/ table[u] = None
                          \/ /\ users[u] # None /\ table[u].name = users[u].name
                             /\ table[u].email = users[u].email
  PROVE  Unique(table)
BY DEF AccountsOK, Unique

\* applyRemoteUser never loses a user to the unique indexes, and leaves the
\* tables in order.
LEMMA OutcomeOK ==
  ASSUME AccountsOK, NEW e \in Ext, NEW state \in States,
         NEW override \in Names \cup {None},
         NEW o \in Outcomes(e, state, override)
  PROVE  /\ o.users \in [Users -> Accounts \cup {None}] /\ Unique(o.users)
         /\ o.fresh \in SUBSET Users /\ o.bind \in Bindings
         /\ o.ok = TRUE
<1>1. CASE state = "departed"
  <2>1. CASE FindUser(e) = {}
    <3>1. o.users = users /\ o.bind = bind /\ o.fresh = fresh /\ o.ok = TRUE
      BY <1>1, <2>1 DEF Outcomes
    <3> QED
      BY <3>1 DEF AccountsOK
  <2>2. CASE FindUser(e) # {}
    <3>1. PICK u \in FindUser(e) :
            /\ o.users = [users EXCEPT ![u] = Disabled(users[u])]
            /\ o.bind = bind /\ o.fresh = fresh /\ o.ok = TRUE
      <4>1. \E u \in FindUser(e) :
              o = [users |-> [users EXCEPT ![u] = Disabled(users[u])],
                   bind |-> bind, fresh |-> fresh, ok |-> TRUE, new |-> FALSE]
        BY <1>1, <2>2, Zenon DEF Outcomes
      <4>2. PICK u \in FindUser(e) :
              o = [users |-> [users EXCEPT ![u] = Disabled(users[u])],
                   bind |-> bind, fresh |-> fresh, ok |-> TRUE, new |-> FALSE]
        BY <4>1
      <4>3. o.users = [users EXCEPT ![u] = Disabled(users[u])]
        BY <4>2
      <4>4. o.bind = bind /\ o.fresh = fresh /\ o.ok = TRUE
        BY <4>2
      <4> QED
        BY <4>3, <4>4
    <3>2. u \in Users /\ users[u] \in Accounts
      BY FoundLives DEF Living, AccountsOK
    <3>3. /\ Disabled(users[u]) \in Accounts
          /\ Disabled(users[u]).name = users[u].name
          /\ Disabled(users[u]).email = users[u].email
      BY <3>2 DEF Disabled, Accounts
    <3>4. users[u] # None
      BY FoundLives DEF Living
    <3>5. o.users \in [Users -> Accounts \cup {None}]
      BY <3>1, <3>2, <3>3 DEF AccountsOK
    <3>6. Unique(o.users)
      BY <3>1, <3>2, <3>3, <3>4, <3>5, UniqueFewer DEF AccountsOK
    <3> QED
      BY <3>1, <3>5, <3>6 DEF AccountsOK
  <2> QED
    BY <2>1, <2>2
<1>2. CASE state # "departed" /\ FindUser(e) = {}
  <2>1. PICK u \in NewId : o = Write(e, u, NewAccount(e, state, override), TRUE)
    BY <1>2 DEF Outcomes
  <2> DEFINE row == NewAccount(e, state, override)
  <2>2. u \in Users
    BY NewIdUnused DEF AccountsOK
  <2>3. None \notin Living
    BY SyncAssumption DEF Living
  <2>4. /\ NameFor(e, None, override) \in Names
        /\ \A v \in Living : users[v].name # NameFor(e, None, override)
    BY <2>3, NameIsFree
  <2>5. EmailOf[e] \in Emails
    BY DEF Emails
  <2>6. row \in Accounts /\ row.name = NameFor(e, None, override)
    BY <2>4, <2>5 DEF NewAccount, Accounts, HireStatus
  <2>7. row.email # None => \A v \in Living : users[v].email # row.email
    BY <2>3 DEF NewAccount, EmailTaken
  <2>8. ~Clashes(u, row)
    BY <2>4, <2>6, <2>7 DEF Clashes
  <2> HIDE DEF row
  <2>9. /\ o.users = [users EXCEPT ![u] = row] /\ o.bind = [bind EXCEPT ![e] = u]
        /\ o.fresh = fresh \ {u} /\ o.ok = TRUE
    BY <2>1, <2>8 DEF Write, row
  <2>10. o.users \in [Users -> Accounts \cup {None}] /\ Unique(o.users)
    BY <2>2, <2>6, <2>8, <2>9, UniqueKept
  <2> QED
    BY <2>2, <2>9, <2>10 DEF AccountsOK, Bindings
<1>3. CASE state # "departed" /\ FindUser(e) # {}
  <2>1. PICK u \in FindUser(e) :
          o = Write(e, u, Refreshed(e, u, state, override), FALSE)
    BY <1>3 DEF Outcomes
  <2> DEFINE row == Refreshed(e, u, state, override)
  <2>2. u \in Living /\ u \in Users /\ users[u] \in Accounts
    BY FoundLives DEF Living, AccountsOK
  <2>3. /\ NameFor(e, u, override) \in Names
        /\ \A v \in Living \ {u} : users[v].name # NameFor(e, u, override)
    BY <2>2, NameIsFree
  <2>4. /\ row \in Accounts /\ row.name = NameFor(e, u, override)
        /\ row.email = users[u].email
    BY <2>2, <2>3 DEF Refreshed, Accounts, HireStatus
  <2>5. \A v \in Living \ {u} : row.email # None => users[v].email # row.email
    BY <2>2, <2>4 DEF AccountsOK, Unique, Living
  <2>6. ~Clashes(u, row)
    BY <2>3, <2>4, <2>5 DEF Clashes
  <2> HIDE DEF row
  <2>7. /\ o.users = [users EXCEPT ![u] = row] /\ o.bind = [bind EXCEPT ![e] = u]
        /\ o.fresh = fresh \ {u} /\ o.ok = TRUE
    BY <2>1, <2>6 DEF Write, row
  <2>8. o.users \in [Users -> Accounts \cup {None}] /\ Unique(o.users)
    BY <2>2, <2>4, <2>6, <2>7, UniqueKept
  <2> QED
    BY <2>2, <2>7, <2>8 DEF AccountsOK, Bindings
<1> QED
  BY <1>1, <1>2, <1>3

-----------------------------------------------------------------------------
\* A job without anything to do has the type of a job.
LEMMA IdleJob == Idle \in JobStates
BY DEF Idle, JobStates, States

\* A job whose buffer has been replaced.
LEMMA NotClean ==
  \A q \in JobStates :
    /\ [q EXCEPT !.clean = FALSE] \in JobStates
    /\ [q EXCEPT !.clean = FALSE].pc = q.pc
    /\ [q EXCEPT !.clean = FALSE].rows = q.rows
    /\ [q EXCEPT !.clean = FALSE].todo = q.todo
    /\ [q EXCEPT !.clean = FALSE].failed = q.failed
BY DEF JobStates

\* A job that has applied one user more: nothing failed.
LEMMA ApplyOK ==
  ASSUME SyncInv, NEW j \in Jobs, NEW e \in Ext, NEW state \in States,
         NEW override \in Names \cup {None}, Apply(j, e, state, override)
  PROVE  /\ AccountsOK'
         /\ job' \in [Jobs -> JobStates]
         /\ \A k \in Jobs : /\ job'[k].pc = job[k].pc /\ job'[k].rows = job[k].rows
                            /\ job'[k].todo \subseteq job[k].todo
                            /\ job'[k].failed = {}
<1>1. PICK o \in Outcomes(e, state, override) :
        /\ users' = o.users /\ bind' = o.bind /\ fresh' = o.fresh
        /\ job' = [job EXCEPT ![j].todo = @ \ {e},
                              ![j].made = IF o.new THEN @ \cup {e} ELSE @,
                              ![j].failed = IF o.ok THEN @ ELSE @ \cup {e}]
  BY DEF Apply
<1>2. /\ o.users \in [Users -> Accounts \cup {None}] /\ Unique(o.users)
      /\ o.fresh \in SUBSET Users /\ o.bind \in Bindings
      /\ o.ok = TRUE
  BY OutcomeOK DEF SyncInv
<1>3. AccountsOK'
  BY <1>1, <1>2 DEF AccountsOK, Unique
<1>4. job \in [Jobs -> JobStates] /\ \A k \in Jobs : job[k].failed = {}
  BY DEF SyncInv, JobsOK
<1>5. DOMAIN job' = Jobs /\ job' = [k \in Jobs |-> job'[k]]
      /\ \A k \in Jobs : k # j => job'[k] = job[k]
  BY <1>1, <1>4
<1>6. PICK q \in JobStates : q = job[j]
  BY <1>4
<1>7. PICK made \in SUBSET Ext :
        job'[j] = [q EXCEPT !.todo = @ \ {e}, !.made = made, !.failed = @]
  <2> DEFINE made == IF o.new THEN q.made \cup {e} ELSE q.made
  <2>1. made \in SUBSET Ext
    BY DEF JobStates
  <2>2. job'[j] = [q EXCEPT !.todo = @ \ {e}, !.made = made, !.failed = @]
    BY <1>1, <1>2, <1>4, <1>6
  <2> HIDE DEF made
  <2> QED
    BY <2>1, <2>2
<1>8. /\ job'[j] \in JobStates
      /\ job'[j].pc = q.pc /\ job'[j].rows = q.rows
      /\ job'[j].todo = q.todo \ {e}
      /\ job'[j].failed = q.failed
  BY <1>7 DEF JobStates
<1>9. /\ job'[j].pc = job[j].pc /\ job'[j].rows = job[j].rows
      /\ job'[j].todo \subseteq job[j].todo
      /\ job'[j].failed = {}
  BY <1>4, <1>6, <1>8
<1> QED
  BY <1>3, <1>4, <1>5, <1>8, <1>9

\* The invariant holds at the start.
LEMMA InitSyncInv == Init => SyncInv
<1> SUFFICES ASSUME Init PROVE SyncInv
  OBVIOUS
<1>1. AccountsOK
  BY DEF Init, AccountsOK, Unique, Bindings
<1>2. RollbackOK
  BY DEF Init, RollbackOK
<1>3. JobsOK
  BY IdleJob, SyncAssumption DEF Init, JobsOK, Idle
<1>4. BufferOK
  BY DEF Init, BufferOK, NoEdit
<1>5. WriterOK
  BY DEF Init, WriterOK
<1> QED
  BY <1>1, <1>2, <1>3, <1>4, <1>5 DEF SyncInv

\* Every step preserves the invariant.
LEMMA NextSyncInv == SyncInv /\ [Next]_vars => SyncInv'
<1> SUFFICES ASSUME SyncInv, [Next]_vars PROVE SyncInv'
  OBVIOUS
<1> AccountsOK /\ RollbackOK /\ JobsOK /\ BufferOK /\ WriterOK
  BY DEF SyncInv
\* The parts that a step leaves alone.
<1>a. UNCHANGED <<users, fresh, bind>> => AccountsOK'
  BY DEF AccountsOK, Unique
<1>r. UNCHANGED <<tx, saved>> => RollbackOK'
  BY DEF RollbackOK, Unique
<1>j. UNCHANGED <<job, tx>> => JobsOK'
  BY DEF JobsOK
<1>b. UNCHANGED <<buffer, edit>> => BufferOK'
  BY DEF BufferOK
<1>w. UNCHANGED writer => WriterOK'
  BY DEF WriterOK
\* A job that goes back to idle, and one that was not in the transaction.
<1>i. ASSUME NEW j \in Jobs, job' = [job EXCEPT ![j] = Idle], UNCHANGED tx,
             job[j].pc # "users"
      PROVE  JobsOK'
  BY <1>i, IdleJob DEF JobsOK, Idle
<1>1. ASSUME NEW j \in Jobs, NEW kind \in {"sync", "pull"},
             NEW snap \in Snapshots, StoreSnapshot(j, kind, snap)
      PROVE  SyncInv'
  <2>1. AccountsOK' /\ RollbackOK' /\ WriterOK'
    BY <1>1, <1>a, <1>r, <1>w DEF StoreSnapshot
  <2>2. snap \in [Ext -> States]
    BY SyncAssumption
  <2>3. \A k \in Jobs : k # j => job'[k] = [job[k] EXCEPT !.clean = FALSE]
    BY <1>1 DEF StoreSnapshot
  <2>4. job'[j] \in {Idle, [Idle EXCEPT !.pc = "apply", !.snap = snap, !.clean = TRUE]}
    BY <1>1 DEF StoreSnapshot
  <2>5. /\ job'[j] \in JobStates /\ job'[j].pc \in {"idle", "apply"}
        /\ job'[j].failed = {}
    <3>1. CASE job'[j] = Idle
      BY <3>1, IdleJob DEF Idle
    <3>2. CASE job'[j] = [Idle EXCEPT !.pc = "apply", !.snap = snap, !.clean = TRUE]
      <4>1. \A q \in JobStates :
              /\ [q EXCEPT !.pc = "apply", !.snap = snap, !.clean = TRUE] \in JobStates
              /\ [q EXCEPT !.pc = "apply", !.snap = snap, !.clean = TRUE].pc = "apply"
              /\ [q EXCEPT !.pc = "apply", !.snap = snap, !.clean = TRUE].failed
                   = q.failed
        BY <2>2 DEF JobStates
      <4>2. Idle.failed = {}
        BY DEF Idle
      <4> QED
        BY <3>2, <4>1, <4>2, IdleJob
    <3> QED
      BY <2>4, <3>1, <3>2
  <2>6. DOMAIN job' = Jobs /\ job' = [k \in Jobs |-> job'[k]]
    BY <1>1 DEF StoreSnapshot
  <2>7. tx' = None /\ tx = None
    BY <1>1 DEF StoreSnapshot, Free
  <2>8. \A k \in Jobs : job'[k] \in JobStates
    <3> TAKE k \in Jobs
    <3>1. PICK q \in JobStates : q = job[k]
      BY DEF JobsOK
    <3>2. k # j => job'[k] = [q EXCEPT !.clean = FALSE]
      BY <2>3, <3>1
    <3> QED
      BY <2>5, <3>2, NotClean
  <2>9. \A k \in Jobs : /\ job'[k].pc = "users" <=> tx' = k
                        /\ job'[k].pc = "import" =>
                             \A e \in job'[k].todo : job'[k].rows[e] \in BufferRows
                        /\ job'[k].failed = {}
    <3> TAKE k \in Jobs
    <3>1. PICK q \in JobStates : q = job[k]
      BY DEF JobsOK
    <3>2. k # j => job'[k] = [q EXCEPT !.clean = FALSE]
      BY <2>3, <3>1
    <3>3. k # j => /\ job'[k].pc = job[k].pc /\ job'[k].rows = job[k].rows
                   /\ job'[k].todo = job[k].todo /\ job'[k].failed = job[k].failed
      BY <3>1, <3>2, NotClean
    <3> QED
      BY <2>5, <2>7, <3>3, SyncAssumption DEF JobsOK
  <2>10. JobsOK'
    BY <2>6, <2>8, <2>9 DEF JobsOK
  <2>11. buffer' \in [Ext -> BufferRows \cup {None}]
    <3>1. PICK u \in Previews : buffer' = Stored(snap, u)
      BY <1>1 DEF StoreSnapshot
    <3>2. \A e \in Ext : u[e] \in Living \cup {None}
      BY FoundLives DEF Previews, Found
    <3>3. \A e \in Ext : Natural(e, u[e]) \in Names
      BY <3>2, NameIsFree
    <3>4. \A e \in Ext : snap[e] # "absent" =>
            StoredRow(e, snap[e], buffer[e], u[e]) \in BufferRows
      BY <2>2, <3>3, SyncAssumption DEF StoredRow, BufferOK, BufferRows, States
    <3> QED
      BY <3>1, <3>4 DEF Stored
  <2>12. BufferOK'
    BY <1>1, <2>11 DEF StoreSnapshot, BufferOK
  <2> QED
    BY <2>1, <2>10, <2>12 DEF SyncInv
<1>2. ASSUME NEW j \in Jobs, Begin(j) PROVE SyncInv'
  <2>1. AccountsOK' /\ BufferOK' /\ WriterOK'
    BY <1>2, <1>a, <1>b, <1>w DEF Begin
  <2>2. RollbackOK'
    BY <1>2 DEF Begin, RollbackOK, AccountsOK, Tables, Bindings, Unique
  <2>3. PICK todo \in SUBSET Ext :
          job' = [job EXCEPT ![j].pc = "users", ![j].todo = todo]
    BY <1>2 DEF Begin
  <2>4. \A k \in Jobs : k # j => job'[k] = job[k]
    BY <2>3 DEF JobsOK
  <2>5. DOMAIN job' = Jobs /\ job' = [k \in Jobs |-> job'[k]]
    BY <2>3 DEF JobsOK
  <2>6. tx = None /\ tx' = j
    BY <1>2 DEF Begin, Free
  <2>7. job'[j] \in JobStates /\ job'[j].pc = "users" /\ job'[j].failed = {}
    <3>1. PICK q \in JobStates : q = job[j] /\ q.failed = {}
      BY DEF JobsOK
    <3>2. job'[j] = [q EXCEPT !.pc = "users", !.todo = todo]
      BY <2>3, <3>1 DEF JobsOK
    <3> QED
      BY <3>1, <3>2 DEF JobStates
  <2>8. JobsOK'
    BY <2>4, <2>5, <2>6, <2>7, SyncAssumption DEF JobsOK
  <2> QED
    BY <2>1, <2>2, <2>8 DEF SyncInv
<1>3. ASSUME NEW j \in Jobs, NEW e \in Ext, ApplyUser(j, e) PROVE SyncInv'
  <2>1. RollbackOK' /\ BufferOK' /\ WriterOK'
    BY <1>3, <1>r, <1>b, <1>w DEF ApplyUser
  <2>2. job[j].snap[e] \in States
    BY DEF JobsOK, JobStates
  <2>3. Apply(j, e, job[j].snap[e], None)
    BY <1>3 DEF ApplyUser
  <2>4. /\ AccountsOK'
        /\ job' \in [Jobs -> JobStates]
        /\ \A k \in Jobs : /\ job'[k].pc = job[k].pc /\ job'[k].rows = job[k].rows
                           /\ job'[k].todo \subseteq job[k].todo
                           /\ job'[k].failed = {}
    BY <2>2, <2>3, ApplyOK
  <2>5. JobsOK'
    BY <1>3, <2>4 DEF ApplyUser, JobsOK
  <2> QED
    BY <2>1, <2>4, <2>5 DEF SyncInv
<1>4. ASSUME NEW j \in Jobs, NEW e \in Ext, ImportUser(j, e) PROVE SyncInv'
  <2>1. RollbackOK' /\ BufferOK' /\ WriterOK'
    BY <1>4, <1>r, <1>b, <1>w DEF ImportUser
  <2>2. job[j].rows[e] \in BufferRows
    BY <1>4 DEF ImportUser, JobsOK
  <2>3. job[j].rows[e].state \in States /\ job[j].rows[e].name \in Names
    BY <2>2 DEF BufferRows
  <2>4. Apply(j, e, job[j].rows[e].state, job[j].rows[e].name)
    BY <1>4 DEF ImportUser
  <2>5. /\ AccountsOK'
        /\ job' \in [Jobs -> JobStates]
        /\ \A k \in Jobs : /\ job'[k].pc = job[k].pc /\ job'[k].rows = job[k].rows
                           /\ job'[k].todo \subseteq job[k].todo
                           /\ job'[k].failed = {}
    BY <2>3, <2>4, ApplyOK
  <2>6. JobsOK'
    BY <1>4, <2>5 DEF ImportUser, JobsOK
  <2> QED
    BY <2>1, <2>5, <2>6 DEF SyncInv
<1>5. ASSUME NEW j \in Jobs, DisableMissing(j) PROVE SyncInv'
  <2>1. BufferOK' /\ WriterOK'
    BY <1>5, <1>b, <1>w DEF DisableMissing
  <2>2. PICK lost \in SUBSET Living :
          users' = [u \in Users |-> IF DeactivateMissing /\ u \in lost
                                     THEN Disabled(users[u]) ELSE users[u]]
    BY <1>5 DEF DisableMissing
  <2>3. \A u \in Living : /\ Disabled(users[u]) \in Accounts
                          /\ Disabled(users[u]).name = users[u].name
                          /\ Disabled(users[u]).email = users[u].email
    BY DEF Living, AccountsOK, Disabled, Accounts
  <2>4. users' \in [Users -> Accounts \cup {None}]
    BY <2>2, <2>3 DEF AccountsOK
  <2>5. \A u \in Users : \/ users'[u] = None
                         \/ /\ users[u] # None /\ users'[u].name = users[u].name
                            /\ users'[u].email = users[u].email
    BY <2>2, <2>3 DEF Living
  <2>6. AccountsOK'
    BY <1>5, <2>4, <2>5 DEF AccountsOK, Unique, DisableMissing
  <2>7. RollbackOK'
    BY <1>5 DEF DisableMissing, RollbackOK
  <2>8. JobsOK'
    BY SMTT(30), <1>5, SyncAssumption DEF DisableMissing, JobsOK, JobStates
  <2> QED
    BY <2>1, <2>6, <2>7, <2>8 DEF SyncInv
<1>6. ASSUME NEW j \in Jobs, Abort(j) PROVE SyncInv'
  <2>1. BufferOK' /\ WriterOK'
    BY <1>6, <1>b, <1>w DEF Abort
  <2>2. saved \in Tables /\ Unique(saved.users)
    BY <1>6, SyncAssumption DEF Abort, RollbackOK
  <2>3. AccountsOK'
    BY <1>6, <2>2 DEF Abort, Tables, AccountsOK, Unique, Bindings
  <2>4. RollbackOK'
    BY <1>6 DEF Abort, RollbackOK
  <2>5. JobsOK'
    BY <1>6, SyncAssumption DEF Abort, JobsOK, JobStates
  <2> QED
    BY <2>1, <2>3, <2>4, <2>5 DEF SyncInv
<1>7. ASSUME NEW j \in Jobs, FinishLog(j) \/ ImportDone(j) PROVE SyncInv'
  BY <1>7, <1>a, <1>r, <1>b, <1>w, <1>i DEF FinishLog, ImportDone, SyncInv
<1>8. ASSUME NEW j \in Jobs, NEW chosen \in SUBSET Ext, ImportRead(j, chosen)
      PROVE  SyncInv'
  <2>1. AccountsOK' /\ RollbackOK' /\ BufferOK' /\ WriterOK'
    BY <1>8, <1>a, <1>r, <1>b, <1>w DEF ImportRead
  <2>2. PICK q : /\ q = [Idle EXCEPT !.pc = "import",
                            !.rows = [e \in Ext |-> IF e \in chosen
                                                      THEN buffer[e] ELSE None],
                            !.todo = {e \in chosen : buffer[e] # None}]
                 /\ job' = [job EXCEPT ![j] = q]
    BY <1>8 DEF ImportRead
  <2>3. q \in JobStates /\ q.pc = "import" /\ q.failed = {}
    BY <2>2 DEF Idle, JobStates, States, BufferOK
  <2>4. \A e \in q.todo : q.rows[e] \in BufferRows
    BY <2>2 DEF Idle, BufferOK
  <2>5. tx' = None /\ tx = None
    BY <1>8 DEF ImportRead, Free
  <2>6. JobsOK'
    BY <2>2, <2>3, <2>4, <2>5, SyncAssumption DEF JobsOK
  <2> QED
    BY <2>1, <2>6 DEF SyncInv
<1>9. ASSUME NEW e \in Ext, NEW name \in Typed, EditRow(e, name) PROVE SyncInv'
  <2>1. AccountsOK' /\ RollbackOK' /\ JobsOK' /\ WriterOK'
    BY <1>9, <1>a, <1>r, <1>j, <1>w DEF EditRow
  <2>2. ResolveImportUsername(name, None) \in Names
    BY ResolvedIsFree, SyncAssumption
  <2>3. BufferOK'
    BY <1>9, <2>2 DEF EditRow, BufferOK
  <2> QED
    BY <2>1, <2>3 DEF SyncInv
<1>10. ASSUME NEW e \in Ext, NEW u \in Users, Link(e, u) PROVE SyncInv'
  <2>1. RollbackOK' /\ JobsOK' /\ WriterOK'
    BY <1>10, <1>r, <1>j, <1>w DEF Link
  <2>2. AccountsOK'
    BY <1>10 DEF Link, AccountsOK, Bindings, Unique
  <2>3. users[u].name \in Names
    BY <1>10 DEF Link, Living, AccountsOK, Accounts
  <2>4. BufferOK'
    BY <1>10, <2>3 DEF Link, BufferOK
  <2> QED
    BY <2>1, <2>2, <2>4 DEF SyncInv
<1>11. CASE EditSave
  <2>1. AccountsOK' /\ RollbackOK' /\ JobsOK' /\ WriterOK'
    BY <1>11, <1>a, <1>r, <1>j, <1>w DEF EditSave
  <2>2. buffer' \in [Ext -> BufferRows \cup {None}]
    BY <1>11 DEF EditSave, BufferOK, BufferRows
  <2>3. BufferOK'
    BY <1>11, <2>2 DEF EditSave, BufferOK, NoEdit
  <2> QED
    BY <2>1, <2>3 DEF SyncInv
<1>12. CASE ClearBuffer
  <2>1. AccountsOK' /\ RollbackOK' /\ WriterOK'
    BY <1>12, <1>a, <1>r, <1>w DEF ClearBuffer
  <2>2. JobsOK'
    BY ZenonT(30), <1>12, NotClean DEF ClearBuffer, JobsOK
  <2>3. BufferOK'
    BY <1>12 DEF ClearBuffer, BufferOK
  <2> QED
    BY <2>1, <2>2, <2>3 DEF SyncInv
<1>13. ASSUME NEW u \in Users, NEW name \in Typed, CreateLocal(u, name)
       PROVE  SyncInv'
  <2>1. RollbackOK' /\ JobsOK' /\ BufferOK' /\ WriterOK'
    BY <1>13, <1>r, <1>j, <1>b, <1>w DEF CreateLocal
  <2>2. PICK row : /\ row = [name |-> name, email |-> None, domain |-> None,
                             source |-> "local", active |-> TRUE,
                             hire |-> "active", locked |-> FALSE]
                   /\ users' = [users EXCEPT ![u] = row]
    BY <1>13 DEF CreateLocal
  <2>3. row \in Accounts
    BY <2>2, SyncAssumption DEF Accounts
  <2>4. None \notin Living
    BY SyncAssumption DEF Living
  <2>5. ~Clashes(u, row)
    BY <1>13, <2>2, <2>4 DEF CreateLocal, Clashes, Taken
  <2>6. users' \in [Users -> Accounts \cup {None}] /\ Unique(users')
    BY <2>2, <2>3, <2>5, UniqueKept
  <2>7. AccountsOK'
    BY <1>13, <2>6 DEF CreateLocal, AccountsOK, Unique
  <2> QED
    BY <2>1, <2>7 DEF SyncInv
<1>14. ASSUME NEW u \in Users, DeleteUser(u) PROVE SyncInv'
  <2>1. RollbackOK' /\ JobsOK' /\ BufferOK' /\ WriterOK'
    BY <1>14, <1>r, <1>j, <1>b, <1>w DEF DeleteUser
  <2>2. AccountsOK'
    BY <1>14 DEF DeleteUser, AccountsOK, Unique
  <2> QED
    BY <2>1, <2>2 DEF SyncInv
<1>15. ASSUME NEW u \in Users, NEW op \in AdminOps, ReadAccount(u, op)
       PROVE  SyncInv'
  <2>1. AccountsOK' /\ RollbackOK' /\ JobsOK' /\ BufferOK'
    BY <1>15, <1>a, <1>r, <1>j, <1>b DEF ReadAccount
  <2>2. WriterOK'
    BY <1>15, SyncAssumption DEF ReadAccount, WriterOK, Living, AccountsOK
  <2> QED
    BY <2>1, <2>2 DEF SyncInv
<1>16. CASE SaveAccount
  <2>1. RollbackOK' /\ JobsOK' /\ BufferOK' /\ WriterOK'
    BY <1>16, <1>r, <1>j, <1>b DEF SaveAccount, WriterOK
  <2>2. writer.user \in Users /\ writer.row \in Accounts
    BY <1>16 DEF SaveAccount, WriterOK
  <2>3. PICK row : /\ row = [writer.row EXCEPT
                        !.locked = IF writer.op = "unlock" THEN FALSE ELSE @,
                        !.active = IF writer.op = "disable" THEN FALSE ELSE @]
                   /\ users' = IF Clashes(writer.user, row) THEN users
                               ELSE [users EXCEPT ![writer.user] = row]
    BY <1>16 DEF SaveAccount
  <2>4. row \in Accounts
    BY <2>2, <2>3 DEF Accounts
  <2>5. users' \in [Users -> Accounts \cup {None}] /\ Unique(users')
    <3>1. CASE Clashes(writer.user, row)
      BY <2>3, <3>1 DEF AccountsOK
    <3>2. CASE ~Clashes(writer.user, row)
      <4>1. \A u \in Users : ~Clashes(u, row) =>
              /\ [users EXCEPT ![u] = row] \in [Users -> Accounts \cup {None}]
              /\ Unique([users EXCEPT ![u] = row])
        BY <2>4, UniqueKept
      <4> QED
        BY <2>2, <2>3, <3>2, <4>1
    <3> QED
      BY <3>1, <3>2
  <2>6. AccountsOK'
    BY <1>16, <2>5 DEF SaveAccount, AccountsOK, Unique
  <2> QED
    BY <2>1, <2>6 DEF SyncInv
<1>17. CASE Crash
  <2>1. BufferOK' /\ WriterOK'
    BY <1>17 DEF Crash, BufferOK, WriterOK, NoEdit
  <2>2. AccountsOK'
    <3>1. CASE tx = None
      BY <1>17, <3>1, <1>a DEF Crash
    <3>2. CASE tx # None
      BY <1>17, <3>2 DEF Crash, RollbackOK, Tables, AccountsOK, Unique, Bindings
    <3> QED
      BY <3>1, <3>2
  <2>3. RollbackOK'
    BY <1>17 DEF Crash, RollbackOK
  <2>4. JobsOK'
    BY <1>17, IdleJob, SyncAssumption DEF Crash, JobsOK, Idle
  <2> QED
    BY <2>1, <2>2, <2>3, <2>4 DEF SyncInv
<1>18. CASE UNCHANGED vars
  BY <1>18, <1>a, <1>r, <1>j, <1>b, <1>w DEF vars, SyncInv
<1> QED
  BY ONLY [Next]_vars, <1>1, <1>2, <1>3, <1>4, <1>5, <1>6, <1>7, <1>8, <1>9,
     <1>10, <1>11, <1>12, <1>13, <1>14, <1>15, <1>16, <1>17, <1>18
     DEF Next, Work, JobStep, Arrive, Administer, Fail

\* The invariant says what the properties ask for.
LEMMA SyncInvSays == SyncInv => TypeOK /\ NoNameClash
<1> SUFFICES ASSUME SyncInv PROVE TypeOK /\ NoNameClash
  OBVIOUS
<1>1. [users |-> users, fresh |-> fresh, bind |-> bind] \in Tables
  BY DEF SyncInv, AccountsOK, Tables, Bindings
<1>2. /\ buffer \in [Ext -> BufferRows \cup {None}]
      /\ edit.live => edit.ext \in Ext /\ buffer[edit.ext] # None
  BY SyncAssumption DEF SyncInv, BufferOK
<1>3. (tx = None /\ saved = None) \/ (tx \in Jobs /\ saved \in Tables)
  BY DEF SyncInv, RollbackOK
<1>4. writer.user # None => writer.row \in Accounts
  BY DEF SyncInv, WriterOK, NoWriter
<1> QED
  BY <1>1, <1>2, <1>3, <1>4 DEF SyncInv, JobsOK, TypeOK, NoNameClash

\* The invariant holds at all times.
LEMMA SyncInvHolds == Spec => []SyncInv
BY InitSyncInv, NextSyncInv, PTL DEF Spec

\* Whatever jobs, administrators, failures and crashes do in whatever order,
\* only a full sync holds the connection across steps, with tables to roll
\* back to, an import holds the rows it has still to apply, and an edit that
\* will be written has its row (directory_sync_service.go).
THEOREM SyncTypeCorrect == Spec => []TypeOK
BY SyncInvHolds, SyncInvSays, PTL

\* No job loses a user to the unique indexes on names and addresses, for any
\* number of remote users with the same name, however stale the names in the
\* buffer are when they are applied (generateUsername, resolveImportUsername,
\* applyRemoteUser).
THEOREM NamesNeverClash == Spec => []NoNameClash
BY SyncInvHolds, SyncInvSays, PTL

-----------------------------------------------------------------------------
(* What a full sync leaves behind *)

\* The account of e agrees with the snapshot of job j.
Agrees(j, e) ==
  LET row == users[bind[e]]
      state == job[j].snap[e]
  IN  /\ state = "active" /\ InScope(e) => row.active
      /\ state = "inactive" /\ InScope(e) => ~row.active \/ e \in job[j].made
      /\ state = "departed" /\ InScope(e) => ~row.active /\ row.locked

\* Job j is through with e: its account, if no other remote user has a say in
\* it, agrees, and it has one if it is active.
Through(j, e) ==
  /\ bind[e] \in Living /\ Alone(j, e) => Agrees(j, e)
  /\ job[j].snap[e] = "active" /\ InScope(e) => bind[e] \in Living

\* The buffer still has the rows of the job's snapshot, unless somebody has
\* replaced it; the users that the transaction has dealt with agree.
OnCourse(j) ==
  /\ job[j].clean /\ job[j].pc \in {"apply", "users"} =>
       \A e \in Ext : job[j].snap[e] = "active" /\ InScope(e) => buffer[e] # None
  /\ job[j].pc = "users" =>
       /\ \A e \in job[j].todo : job[j].snap[e] # "absent"
       /\ \A e \in Ext \ job[j].todo : Through(j, e)

\* What the steps preserve: every job is on course.
ConvergeInv == SyncInv /\ \A j \in Jobs : OnCourse(j)

\* A departed user's account is disabled; another's is written and bound to it.
Written(e, state, o) ==
  \/ /\ state = "departed" /\ o.bind = bind
     /\ \/ FindUser(e) = {} /\ o.users = users
        \/ \E u \in FindUser(e) : o.users = [users EXCEPT ![u] = Disabled(users[u])]
  \/ /\ state # "departed"
     /\ \E u \in Users, row \in Accounts :
          /\ o.users = [users EXCEPT ![u] = row] /\ o.bind = [bind EXCEPT ![e] = u]
          /\ row.active <=> state = "active" \/ o.new
          /\ bind[e] \in Living => u = bind[e]

\* That is what applyRemoteUser does, as no write clashes.
LEMMA OutcomeWrites ==
  ASSUME AccountsOK, NEW e \in Ext, NEW state \in States,
         NEW override \in Names \cup {None},
         NEW o \in Outcomes(e, state, override)
  PROVE  Written(e, state, o)
<1>0. o.ok = TRUE
  BY OutcomeOK
<1> USE DEF Written
<1>1. CASE state = "departed"
  <2>1. CASE FindUser(e) = {}
    <3>1. o = [users |-> users, bind |-> bind, fresh |-> fresh, ok |-> TRUE, new |-> FALSE]
      BY <1>1, <2>1 DEF Outcomes
    <3> QED
      BY <1>1, <2>1, <3>1
  <2>2. CASE FindUser(e) # {}
    <3>1. \E u \in FindUser(e) :
            o = [users |-> [users EXCEPT ![u] = Disabled(users[u])],
                 bind |-> bind, fresh |-> fresh, ok |-> TRUE, new |-> FALSE]
      BY <1>1, <2>2, Zenon DEF Outcomes
    <3>2. PICK u \in FindUser(e) :
            o = [users |-> [users EXCEPT ![u] = Disabled(users[u])],
                 bind |-> bind, fresh |-> fresh, ok |-> TRUE, new |-> FALSE]
      BY <3>1
    <3>3. o.users = [users EXCEPT ![u] = Disabled(users[u])] /\ o.bind = bind
      BY <3>2
    <3> QED
      BY <1>1, <3>3
  <2> QED
    BY <2>1, <2>2
<1>2. CASE state # "departed" /\ FindUser(e) = {}
  <2>1. PICK u \in NewId : o = Write(e, u, NewAccount(e, state, override), TRUE)
    BY <1>2 DEF Outcomes
  <2> DEFINE row == NewAccount(e, state, override)
  <2>2. u \in Users
    BY NewIdUnused DEF AccountsOK
  <2>3. None \notin Living
    BY SyncAssumption DEF Living
  <2>4. NameFor(e, None, override) \in Names
    BY <2>3, NameIsFree
  <2>5. EmailOf[e] \in Emails
    BY DEF Emails
  <2>6. row \in Accounts /\ row.active = TRUE
    BY <2>4, <2>5 DEF NewAccount, Accounts, HireStatus
  <2> HIDE DEF row
  <2>7. /\ o.users = [users EXCEPT ![u] = row] /\ o.bind = [bind EXCEPT ![e] = u]
        /\ o.new = TRUE
    BY <1>0, <2>1 DEF Write, row
  <2>8. bind[e] \notin Living
    BY <1>2, BindingFirst
  <2> QED
    BY <1>2, <2>2, <2>6, <2>7, <2>8
<1>3. CASE state # "departed" /\ FindUser(e) # {}
  <2>1. PICK u \in FindUser(e) :
          o = Write(e, u, Refreshed(e, u, state, override), FALSE)
    BY <1>3 DEF Outcomes
  <2> DEFINE row == Refreshed(e, u, state, override)
  <2>2. u \in Living /\ u \in Users /\ users[u] \in Accounts
    BY FoundLives DEF Living, AccountsOK
  <2>3. NameFor(e, u, override) \in Names
    BY <2>2, NameIsFree
  <2>4. row \in Accounts /\ row.active = (state = "active")
    BY <2>2, <2>3 DEF Refreshed, Accounts, HireStatus
  <2> HIDE DEF row
  <2>5. /\ o.users = [users EXCEPT ![u] = row] /\ o.bind = [bind EXCEPT ![e] = u]
        /\ o.new = FALSE
    BY <1>0, <2>1 DEF Write, row
  <2>6. bind[e] \in Living => u = bind[e]
    BY BindingFirst
  <2> QED
    BY <1>3, <2>2, <2>4, <2>5, <2>6
<1> QED
  BY <1>1, <1>2, <1>3

\* Whom FindUser returns, the user has a claim to.
LEMMA FoundClaims ==
  ASSUME NEW e \in Ext, NEW u \in FindUser(e)
  PROVE  Claims(e, u)
BY DEF FindUser, Claims

\* A claim rests on the binding and on the row.
LEMMA ClaimKept ==
  ASSUME NEW x \in Ext, NEW u \in Living, Claims(x, u), u \in Living',
         bind[x] = u => bind'[x] = u,
         \/ users'[u] = users[u]
         \/ /\ users'[u].name = users[u].name /\ users'[u].email = users[u].email
            /\ users'[u].domain = users[u].domain
  PROVE  Claims(x, u)'
BY DEF Claims, ByEmail, ByName

\* Applying one more user leaves those already dealt with in agreement.
LEMMA ThroughKept ==
  ASSUME SyncInv, NEW j \in Jobs, OnCourse(j), job[j].pc = "users",
         NEW y \in Ext, ApplyUser(j, y)
  PROVE  /\ \A e \in job'[j].todo : job'[j].snap[e] # "absent"
         /\ \A e \in Ext \ job'[j].todo : Through(j, e)'
<1>s. /\ AccountsOK /\ job[j] \in JobStates /\ job \in [Jobs -> JobStates]
      /\ y \in job[j].todo /\ job[j].snap[y] \in States
      /\ users \in [Users -> Accounts \cup {None}] /\ bind \in [Ext -> Users \cup {None}]
  BY DEF SyncInv, JobsOK, JobStates, ApplyUser, AccountsOK, Bindings
<1>0. None \notin Accounts /\ None \notin Users
  BY SyncAssumption
<1>1. PICK o \in Outcomes(y, job[j].snap[y], None) :
        /\ users' = o.users /\ bind' = o.bind
        /\ job' = [job EXCEPT ![j].todo = @ \ {y},
                              ![j].made = IF o.new THEN @ \cup {y} ELSE @,
                              ![j].failed = IF o.ok THEN @ ELSE @ \cup {y}]
  BY DEF ApplyUser, Apply
<1>2. /\ job'[j].todo = job[j].todo \ {y} /\ job'[j].snap = job[j].snap
      /\ job[j].made \subseteq job'[j].made /\ (o.new => y \in job'[j].made)
  <2>1. PICK q \in JobStates : q = job[j]
    BY <1>s
  <2>2. job'[j] = [q EXCEPT !.todo = @ \ {y},
                            !.made = IF o.new THEN @ \cup {y} ELSE @,
                            !.failed = IF o.ok THEN @ ELSE @ \cup {y}]
    BY <1>1, <1>s, <2>1
  <2> QED
    BY <2>1, <2>2 DEF JobStates
<1>w. \/ /\ job[j].snap[y] = "departed" /\ bind' = bind
         /\ \/ FindUser(y) = {} /\ users' = users
            \/ \E u \in FindUser(y) : users' = [users EXCEPT ![u] = Disabled(users[u])]
      \/ /\ job[j].snap[y] # "departed"
         /\ \E u \in Users, row \in Accounts :
              /\ users' = [users EXCEPT ![u] = row] /\ bind' = [bind EXCEPT ![y] = u]
              /\ row.active <=> job[j].snap[y] = "active" \/ o.new
              /\ bind[y] \in Living => u = bind[y]
  <2>1. PICK state \in States : state = job[j].snap[y]
    BY <1>s
  <2>2. PICK override \in Names \cup {None} : override = None
    OBVIOUS
  <2>3. o \in Outcomes(y, state, override)
    BY <1>1, <2>1, <2>2
  <2>4. Written(y, state, o)
    BY <1>s, <2>3, OutcomeWrites
  <2>5. users' = o.users /\ bind' = o.bind
    BY <1>1
  <2>6. CASE state = "departed"
    BY <2>1, <2>4, <2>5, <2>6 DEF Written
  <2>7. CASE state # "departed"
    BY <2>1, <2>4, <2>5, <2>7 DEF Written
  <2> QED
    BY <2>6, <2>7
<1>3. ASSUME NEW u \in Living
      PROVE  u \in Living' /\ (users'[u] = users[u] \/ Claims(y, u)')
  <2>1. u \in Users /\ users[u] \in Accounts
    BY <1>s DEF Living
  <2>2. CASE job[j].snap[y] = "departed" /\ users' # users
    <3>1. PICK v \in FindUser(y) : users' = [users EXCEPT ![v] = Disabled(users[v])]
      BY <1>w, <2>2
    <3>2. CASE v # u
      BY <1>s, <2>1, <3>1, <3>2 DEF Living
    <3>3. CASE v = u
      <4>1. users'[u] = Disabled(users[u])
        BY <1>s, <2>1, <3>1, <3>3
      <4>2. /\ users'[u].name = users[u].name /\ users'[u].email = users[u].email
            /\ users'[u].domain = users[u].domain /\ users'[u] \in Accounts
        BY <2>1, <4>1 DEF Disabled, Accounts
      <4>3. u \in Living'
        BY <1>0, <2>1, <4>2 DEF Living
      <4>4. Claims(y, u) /\ bind'[y] = bind[y]
        BY <1>w, <2>2, <3>3, FoundClaims
      <4> QED
        BY <4>2, <4>3, <4>4, ClaimKept
    <3> QED
      BY <3>2, <3>3
  <2>3. CASE job[j].snap[y] # "departed"
    <3>1. PICK v \in Users, row \in Accounts :
            /\ users' = [users EXCEPT ![v] = row] /\ bind' = [bind EXCEPT ![y] = v]
      BY <1>w, <2>3
    <3>2. users'[u] = (IF u = v THEN row ELSE users[u]) /\ bind'[y] = v
      BY <1>s, <2>1, <3>1
    <3>3. u \in Living'
      BY <1>0, <2>1, <3>2 DEF Living
    <3> QED
      BY <3>2, <3>3 DEF Claims
  <2>4. CASE users' = users
    BY <2>4 DEF Living
  <2> QED
    BY <2>2, <2>3, <2>4
<1>4. /\ \A x \in Ext \ {y} : bind'[x] = bind[x]
      /\ bind[y] \in Living => bind'[y] = bind[y]
  BY <1>s, <1>w
<1>5. ASSUME NEW u \in Living', u \notin Living PROVE bind'[y] = u
  BY <1>s, <1>w, <1>5, FoundLives DEF Living
\* A user dealt with before.
<1>6. ASSUME NEW e \in Ext \ job[j].todo, e # y PROVE Through(j, e)'
  <2>1. Through(j, e) /\ bind'[e] = bind[e]
    BY <1>4, <1>6 DEF OnCourse
  <2>2. ASSUME bind'[e] \in Living', Alone(j, e)' PROVE Agrees(j, e)'
    <3> DEFINE u == bind[e]
    <3>1. bind'[y] # u /\ ~Claims(y, u)'
      BY <1>s, <1>2, <1>6, <2>1, <2>2 DEF Alone, OnCourse
    <3>2. u \in Living /\ users'[u] = users[u]
      BY <1>3, <1>5, <2>1, <2>2, <3>1
    <3>3. Alone(j, e)
      <4> SUFFICES ASSUME NEW x \in Ext \ {e}
                   PROVE  bind[x] # u /\ (job[j].snap[x] # "absent" => ~Claims(x, u))
        BY DEF Alone
      <4>1. bind'[x] # u /\ (job[j].snap[x] # "absent" => ~Claims(x, u)')
        BY <1>2, <2>1, <2>2 DEF Alone
      <4>2. bind[x] = u => bind'[x] = u
        BY <1>4, <3>2
      <4>3. Claims(x, u) => Claims(x, u)'
        BY <2>1, <2>2, <3>2, <4>2, ClaimKept
      <4> QED
        BY <4>1, <4>2, <4>3
    <3>4. Agrees(j, e)
      BY <2>1, <3>2, <3>3 DEF Through
    <3> QED
      BY <1>2, <2>1, <3>2, <3>4 DEF Agrees, InScope
  <2>3. job'[j].snap[e] = "active" /\ InScope(e) => bind'[e] \in Living'
    BY <1>2, <1>3, <2>1 DEF Through
  <2> QED
    BY <2>2, <2>3 DEF Through, InScope
\* The user dealt with now.
<1>7. Through(j, y)'
  <2>1. CASE job[j].snap[y] = "departed"
    <3>1. ASSUME bind'[y] \in Living' PROVE Agrees(j, y)'
      <4> DEFINE u == bind[y]
      <4>1. u \in Living
        BY <1>5, <1>w, <2>1, <3>1, FoundLives, <1>s DEF Living
      <4>2. FindUser(y) = {u}
        BY <4>1, BindingFirst
      <4>3. users' = [users EXCEPT ![u] = Disabled(users[u])] /\ bind' = bind
        BY <1>w, <2>1, <4>2
      <4>4. users[u] \in Accounts /\ users'[u] = Disabled(users[u])
        BY <1>s, <4>1, <4>3 DEF Living
      <4>5. users'[u].active = FALSE /\ users'[u].locked = TRUE
        BY <4>4 DEF Disabled, Accounts
      <4> QED
        BY <1>2, <2>1, <4>3, <4>5 DEF Agrees
    <3> QED
      BY <1>2, <2>1, <3>1 DEF Through
  <2>2. CASE job[j].snap[y] # "departed"
    <3>1. PICK u \in Users, row \in Accounts :
            /\ users' = [users EXCEPT ![u] = row] /\ bind' = [bind EXCEPT ![y] = u]
            /\ row.active <=> job[j].snap[y] = "active" \/ o.new
      BY <1>w, <2>2
    <3>2. users'[u] = row /\ bind'[y] = u
      BY <1>s, <3>1
    <3>3. u \in Living'
      BY <1>0, <3>2 DEF Living
    <3>4. Agrees(j, y)'
      BY <1>2, <2>2, <3>1, <3>2 DEF Agrees
    <3> QED
      BY <3>2, <3>3, <3>4 DEF Through
  <2> QED
    BY <2>1, <2>2
<1>8. \A e \in job'[j].todo : job'[j].snap[e] # "absent"
  BY <1>2 DEF OnCourse
<1> QED
  BY <1>2, <1>6, <1>7, <1>8

\* Nobody else works while a full sync holds the connection.
LEMMA WhoseTransaction ==
  ASSUME SyncInv, [Next]_vars, NEW j \in Jobs, tx' = j
  PROVE  Begin(j) \/ (\E e \in Ext : ApplyUser(j, e)) \/ UNCHANGED vars
<1>0. j # None
  BY SyncAssumption
<1>1. ~(Free /\ UNCHANGED tx) /\ tx' # None
  BY <1>0 DEF Free
<1>2. CASE Work
  <2>1. ~EditSave /\ ~SaveAccount
    BY <1>1 DEF EditSave, SaveAccount
  <2>2. ASSUME NEW k \in Jobs, JobStep(k)
        PROVE  Begin(j) \/ \E e \in Ext : ApplyUser(j, e)
    <3>1. ~DisableMissing(k) /\ ~FinishLog(k) /\ ~ImportDone(k)
          /\ \A e \in Ext : ~ImportUser(k, e)
      BY <1>1 DEF DisableMissing, FinishLog, ImportDone, ImportUser
    <3>2. Begin(k) => k = j
      BY DEF Begin
    <3>3. \A e \in Ext : ApplyUser(k, e) => k = j
      BY DEF ApplyUser, SyncInv, JobsOK
    <3> QED
      BY <2>2, <3>1, <3>2, <3>3 DEF JobStep
  <2> QED
    BY <1>2, <2>1, <2>2 DEF Work
<1>3. ~Arrive
  BY <1>1 DEF Arrive, StoreSnapshot, ImportRead
<1>4. ~Administer
  BY <1>1 DEF Administer, EditRow, Link, ClearBuffer, CreateLocal, DeleteUser, ReadAccount
<1>5. ~Fail
  BY <1>1 DEF Fail, Crash, Abort
<1> QED
  BY <1>2, <1>3, <1>4, <1>5 DEF Next

\* A job whose buffer nobody has replaced took its snapshot in this step, or
\* had the same before, and no row of the buffer has gone.
LEMMA CleanFrom ==
  ASSUME SyncInv, [Next]_vars, NEW j \in Jobs,
         job'[j].clean, job'[j].pc \in {"apply", "users"}
  PROVE  \/ \E kind \in {"sync", "pull"}, snap \in Snapshots : StoreSnapshot(j, kind, snap)
         \/ /\ job[j].clean /\ job[j].pc \in {"apply", "users"}
            /\ job'[j].snap = job[j].snap
            /\ \A e \in Ext : buffer[e] # None => buffer'[e] # None
<1> DEFINE Same == /\ job[j].clean /\ job[j].pc \in {"apply", "users"}
                   /\ job'[j].snap = job[j].snap
                   /\ \A e \in Ext : buffer[e] # None => buffer'[e] # None
<1>s. /\ job \in [Jobs -> JobStates] /\ buffer \in [Ext -> BufferRows \cup {None}]
      /\ job[j] \in JobStates /\ BufferOK
  BY DEF SyncInv, JobsOK, BufferOK
<1>i. job'[j] # Idle
  BY DEF Idle
<1>1. ASSUME UNCHANGED <<job, buffer>> PROVE Same
  BY <1>1
<1>2. ASSUME NEW k \in Jobs, job' = [job EXCEPT ![k] = Idle], UNCHANGED buffer PROVE Same
  BY <1>2, <1>i, <1>s
<1>3. ASSUME NEW k \in Jobs, NEW kind \in {"sync", "pull"}, NEW snap \in Snapshots,
             StoreSnapshot(k, kind, snap)
      PROVE  k = j
  <2> SUFFICES ASSUME k # j PROVE FALSE
    OBVIOUS
  <2>1. job'[j] = [job[j] EXCEPT !.clean = FALSE]
    BY <1>3 DEF StoreSnapshot
  <2> QED
    BY <1>s, <2>1 DEF JobStates
<1>4. ASSUME NEW k \in Jobs, Begin(k) PROVE Same
  <2>1. PICK todo : job' = [job EXCEPT ![k].pc = "users", ![k].todo = todo]
    BY <1>4 DEF Begin
  <2>2. job[k].pc = "apply" /\ buffer' = buffer
    BY <1>4 DEF Begin
  <2>3. CASE k = j
    <3>1. PICK q \in JobStates : q = job[j]
      BY <1>s
    <3>2. job'[j] = [q EXCEPT !.pc = "users", !.todo = todo]
      BY <1>s, <2>1, <2>3, <3>1
    <3>3. job'[j].clean = q.clean /\ job'[j].snap = q.snap
      BY <3>2 DEF JobStates
    <3> QED
      BY <2>2, <2>3, <3>1, <3>3
  <2>4. CASE k # j
    BY <1>s, <2>1, <2>2, <2>4
  <2> QED
    BY <2>3, <2>4
<1>5. ASSUME NEW k \in Jobs, NEW e \in Ext, NEW state, NEW override,
             Apply(k, e, state, override), job[k].pc \in {"users", "import"}, UNCHANGED buffer
      PROVE  Same
  <2>1. PICK o : job' = [job EXCEPT ![k].todo = @ \ {e},
                                    ![k].made = IF o.new THEN @ \cup {e} ELSE @,
                                    ![k].failed = IF o.ok THEN @ ELSE @ \cup {e}]
    BY <1>5 DEF Apply
  <2>2. CASE k = j
    <3>1. PICK q \in JobStates : q = job[j]
      BY <1>s
    <3>2. job'[j] = [q EXCEPT !.todo = @ \ {e},
                              !.made = IF o.new THEN @ \cup {e} ELSE @,
                              !.failed = IF o.ok THEN @ ELSE @ \cup {e}]
      BY <1>s, <2>1, <2>2, <3>1
    <3>3. job'[j].clean = q.clean /\ job'[j].snap = q.snap /\ job'[j].pc = q.pc
      BY <3>2 DEF JobStates
    <3> QED
      BY <1>5, <3>1, <3>3
  <2>3. CASE k # j
    BY <1>5, <1>s, <2>1, <2>3
  <2> QED
    BY <2>2, <2>3
<1>6. ASSUME NEW k \in Jobs, NEW pc \in {"log", "failed"}, job' = [job EXCEPT ![k].pc = pc],
             UNCHANGED buffer
      PROVE  Same
  <2>1. k # j
    BY <1>6, <1>s DEF JobStates
  <2> QED
    BY <1>6, <1>s, <2>1
<1>7. ASSUME NEW k \in Jobs, NEW chosen \in SUBSET Ext, ImportRead(k, chosen) PROVE Same
  <2>1. PICK q : /\ q = [Idle EXCEPT !.pc = "import",
                            !.rows = [e \in Ext |-> IF e \in chosen
                                                      THEN buffer[e] ELSE None],
                            !.todo = {e \in chosen : buffer[e] # None}]
                 /\ job' = [job EXCEPT ![k] = q]
    BY <1>7 DEF ImportRead
  <2>2. q.pc = "import" /\ buffer' = buffer
    BY <1>7, <2>1 DEF Idle, ImportRead
  <2>3. k # j
    BY <1>s, <2>1, <2>2
  <2> QED
    BY <1>s, <2>1, <2>2, <2>3
<1>8. ASSUME EditSave PROVE Same
  <2>1. job' = job
    BY <1>8 DEF EditSave
  <2>2. CASE edit.live
    <3>1. PICK row \in BufferRows : row = buffer[edit.ext]
      BY <1>s, <2>2 DEF BufferOK
    <3>2. PICK new : /\ new = [row EXCEPT !.name = edit.name,
                                 !.edited = IF edit.mark THEN edit.name ELSE @]
                     /\ buffer' = [buffer EXCEPT ![edit.ext] = new]
      BY <1>8, <1>s, <2>2, <3>1 DEF EditSave, BufferOK
    <3>3. new \in BufferRows
      BY <1>s, <2>2, <3>2 DEF BufferOK, BufferRows
    <3>4. new # None
      BY <3>3, SyncAssumption
    <3> QED
      BY <1>s, <2>1, <3>2, <3>4
  <2>3. CASE ~edit.live
    BY <1>8, <2>1, <2>3 DEF EditSave
  <2> QED
    BY <2>2, <2>3
<1>9. ~ClearBuffer
  <2> SUFFICES ASSUME ClearBuffer PROVE FALSE
    OBVIOUS
  <2>1. job'[j] = [job[j] EXCEPT !.clean = FALSE]
    BY DEF ClearBuffer
  <2> QED
    BY <1>s, <2>1 DEF JobStates
<1>10. ~Crash
  BY <1>i DEF Crash
<1>11. ASSUME Work PROVE Same
  <2>1. ASSUME NEW k \in Jobs, JobStep(k) PROVE Same
    <3>1. ASSUME NEW e \in Ext, ApplyUser(k, e) PROVE Same
      BY <1>5, <3>1 DEF ApplyUser
    <3>2. ASSUME NEW e \in Ext, ImportUser(k, e) PROVE Same
      BY <1>5, <3>2 DEF ImportUser
    <3>3. ASSUME DisableMissing(k) PROVE Same
      BY <1>6, <3>3 DEF DisableMissing
    <3>4. ASSUME FinishLog(k) \/ ImportDone(k) PROVE Same
      BY <1>2, <3>4 DEF FinishLog, ImportDone
    <3> QED
      BY ONLY <1>4, <2>1, <3>1, <3>2, <3>3, <3>4 DEF JobStep
  <2>2. SaveAccount => Same
    BY <1>1 DEF SaveAccount
  <2> QED
    BY ONLY <1>8, <1>11, <2>1, <2>2 DEF Work
<1>12. ASSUME Administer PROVE Same
  BY <1>1, <1>9, <1>12 DEF Administer, EditRow, Link, CreateLocal, DeleteUser, ReadAccount
<1>13. ASSUME NEW k \in Jobs, Abort(k) PROVE Same
  BY <1>6, <1>13 DEF Abort
<1>14. UNCHANGED vars => Same
  BY <1>1 DEF vars
<1> QED
  BY ONLY [Next]_vars, <1>3, <1>7, <1>10, <1>11, <1>12, <1>13, <1>14 DEF Next, Arrive, Fail

\* A full sync gets past its users by the end of applySnapshot only.
LEMMA WhoDisables ==
  ASSUME SyncInv, [Next]_vars, NEW j \in Jobs, job[j].pc = "users", job'[j].pc = "log"
  PROVE  DisableMissing(j)
<1>s. /\ job \in [Jobs -> JobStates] /\ job[j] \in JobStates /\ tx = j /\ j # None
      /\ \A k \in Jobs : job[k].pc = "users" => k = j
  BY SyncAssumption DEF SyncInv, JobsOK
<1>1. ~Free /\ job' # job
  BY <1>s DEF Free
<1>2. \A k \in Jobs, e \in Ext : ~ApplyUser(k, e)
  <2> SUFFICES ASSUME NEW k \in Jobs, NEW e \in Ext, ApplyUser(k, e) PROVE FALSE
    OBVIOUS
  <2>1. Apply(j, e, job[j].snap[e], None)
    BY <1>s DEF ApplyUser
  <2>2. PICK o : job' = [job EXCEPT ![j].todo = @ \ {e},
                                    ![j].made = IF o.new THEN @ \cup {e} ELSE @,
                                    ![j].failed = IF o.ok THEN @ ELSE @ \cup {e}]
    BY <2>1 DEF Apply
  <2>3. PICK q \in JobStates : q = job[j]
    BY <1>s
  <2>4. job'[j] = [q EXCEPT !.todo = @ \ {e},
                            !.made = IF o.new THEN @ \cup {e} ELSE @,
                            !.failed = IF o.ok THEN @ ELSE @ \cup {e}]
    BY <1>s, <2>2, <2>3
  <2>5. job'[j].pc = q.pc
    BY <2>4 DEF JobStates
  <2> QED
    BY <2>3, <2>5
<1>3. ASSUME Work PROVE DisableMissing(j)
  <2>1. ~EditSave /\ ~SaveAccount
    BY <1>1 DEF EditSave, SaveAccount
  <2>2. \A k \in Jobs : /\ ~Begin(k) /\ ~FinishLog(k) /\ ~ImportDone(k)
                        /\ \A e \in Ext : ~ImportUser(k, e)
    BY <1>1 DEF Begin, FinishLog, ImportDone, ImportUser
  <2>3. \A k \in Jobs : DisableMissing(k) => k = j
    BY <1>s DEF DisableMissing
  <2> QED
    BY <1>2, <1>3, <2>1, <2>2, <2>3 DEF Work, JobStep
<1>4. ~Arrive
  BY <1>1 DEF Arrive, StoreSnapshot, ImportRead
<1>5. ~Administer
  BY <1>1 DEF Administer, EditRow, Link, ClearBuffer, CreateLocal, DeleteUser, ReadAccount
<1>6. ~Crash
  BY <1>s DEF Crash, Idle
<1>7. \A k \in Jobs : ~Abort(k)
  BY <1>s DEF Abort, JobStates
<1> QED
  BY <1>1, <1>3, <1>4, <1>5, <1>6, <1>7 DEF Next, Fail, vars

\* The rows of a snapshot that was just stored are in the buffer.
LEMMA StoredRows ==
  ASSUME SyncInv, NEW j \in Jobs, NEW kind, NEW snap \in Snapshots,
         StoreSnapshot(j, kind, snap), job'[j].pc \in {"apply", "users"}
  PROVE  /\ job'[j].snap = snap /\ job'[j].pc = "apply"
         /\ \A e \in Ext : snap[e] = "active" /\ InScope(e) => buffer'[e] # None
<1>1. job'[j] = [Idle EXCEPT !.pc = "apply", !.snap = snap, !.clean = TRUE]
  BY DEF StoreSnapshot, Idle
<1>2. job'[j].snap = snap /\ job'[j].pc = "apply"
  BY <1>1 DEF Idle
<1>3. PICK u \in Previews : buffer' = Stored(snap, u)
  BY DEF StoreSnapshot
<1>4. snap \in [Ext -> States] /\ BufferOK /\ AccountsOK
  BY SyncAssumption DEF SyncInv
<1>5. \A e \in Ext : u[e] \in Living \cup {None}
  BY FoundLives DEF Previews, Found
<1>6. \A e \in Ext : Natural(e, u[e]) \in Names
  BY <1>4, <1>5, NameIsFree
<1>7. \A e \in Ext : snap[e] # "absent" =>
        StoredRow(e, snap[e], buffer[e], u[e]) \in BufferRows
  BY <1>4, <1>6, SyncAssumption DEF StoredRow, BufferOK, BufferRows, States
<1>8. \A e \in Ext : snap[e] = "active" /\ InScope(e) => buffer'[e] \in BufferRows
  BY <1>3, <1>7 DEF Stored
<1> QED
  BY <1>2, <1>8, SyncAssumption

\* Every step.
LEMMA NextOnCourse ==
  ASSUME ConvergeInv, [Next]_vars, NEW j \in Jobs
  PROVE  OnCourse(j)'
<1>s. /\ SyncInv /\ OnCourse(j) /\ SyncInv'
      /\ job \in [Jobs -> JobStates] /\ job[j] \in JobStates
  BY NextSyncInv DEF ConvergeInv, SyncInv, JobsOK
<1>1. job'[j].clean /\ job'[j].pc \in {"apply", "users"} =>
        \A e \in Ext : job'[j].snap[e] = "active" /\ InScope(e)' => buffer'[e] # None
  <2> SUFFICES ASSUME job'[j].clean, job'[j].pc \in {"apply", "users"},
                      NEW e \in Ext, job'[j].snap[e] = "active", InScope(e)
               PROVE  buffer'[e] # None
    BY DEF InScope
  <2>1. CASE \E kind \in {"sync", "pull"}, snap \in Snapshots : StoreSnapshot(j, kind, snap)
    BY <1>s, <2>1, StoredRows
  <2>2. CASE /\ job[j].clean /\ job[j].pc \in {"apply", "users"}
             /\ job'[j].snap = job[j].snap
             /\ \A x \in Ext : buffer[x] # None => buffer'[x] # None
    BY <1>s, <2>2 DEF OnCourse
  <2> QED
    BY <1>s, <2>1, <2>2, CleanFrom
<1>2. job'[j].pc = "users" =>
        /\ \A e \in job'[j].todo : job'[j].snap[e] # "absent"
        /\ \A e \in Ext \ job'[j].todo : Through(j, e)'
  <2> SUFFICES ASSUME job'[j].pc = "users"
               PROVE  /\ \A e \in job'[j].todo : job'[j].snap[e] # "absent"
                      /\ \A e \in Ext \ job'[j].todo : Through(j, e)'
    OBVIOUS
  <2>1. tx' = j
    BY <1>s DEF SyncInv, JobsOK
  <2>2. CASE Begin(j)
    <3>1. PICK todo : /\ todo = {e \in Ext : /\ job[j].snap[e] # "absent"
                                             /\ MappingMode => InScope(e)}
                      /\ job' = [job EXCEPT ![j].pc = "users", ![j].todo = todo]
      BY <2>2 DEF Begin
    <3>2. PICK q \in JobStates : q = job[j]
      BY <1>s
    <3>3. job'[j] = [q EXCEPT !.pc = "users", !.todo = todo]
      BY <1>s, <3>1, <3>2
    <3>4. job'[j].todo = todo /\ job'[j].snap = job[j].snap
      BY <3>2, <3>3 DEF JobStates
    <3>5. \A e \in Ext \ todo : InScope(e) => job'[j].snap[e] = "absent"
      BY <3>1, <3>4
    <3> QED
      BY <3>1, <3>4, <3>5 DEF Through, Agrees, InScope
  <2>3. CASE \E e \in Ext : ApplyUser(j, e)
    <3>1. PICK y \in Ext : ApplyUser(j, y)
      BY <2>3
    <3>2. job[j].pc = "users"
      BY <3>1 DEF ApplyUser
    <3> QED
      BY <1>s, <3>1, <3>2, ThroughKept
  <2>4. CASE UNCHANGED vars
    <3>1. \A e \in Ext : Through(j, e) => Through(j, e)'
      BY <2>4 DEF vars, Through, Agrees, Alone, Claims, ByEmail, ByName, Living, InScope
    <3> QED
      BY <1>s, <2>4, <3>1 DEF vars, OnCourse
  <2> QED
    BY <1>s, <2>1, <2>2, <2>3, <2>4, WhoseTransaction
<1> QED
  BY <1>1, <1>2 DEF OnCourse

\* disableMissingUsers leaves the accounts of active users alone: the buffer has
\* their rows.
LEMMA DisableConverges ==
  ASSUME SyncInv, NEW j \in Jobs, OnCourse(j), job[j].clean, DisableMissing(j)
  PROVE  Converged(j)'
<1>s. /\ job \in [Jobs -> JobStates] /\ job[j] \in JobStates
      /\ job[j].pc = "users" /\ job[j].todo = {} /\ bind' = bind
      /\ users \in [Users -> Accounts \cup {None}] /\ bind \in [Ext -> Users \cup {None}]
  BY DEF SyncInv, JobsOK, DisableMissing, AccountsOK, Bindings
<1>0. None \notin Accounts /\ None \notin Users /\ None \notin Ext
  BY SyncAssumption
<1>1. job'[j].snap = job[j].snap /\ job'[j].made = job[j].made
  BY <1>s DEF DisableMissing, JobStates
<1>2. PICK lost \in SUBSET {u \in Living : \E e \in Via(u) : Missing(u, e)} :
        users' = [u \in Users |-> IF DeactivateMissing /\ u \in lost
                                   THEN Disabled(users[u]) ELSE users[u]]
  BY DEF DisableMissing
<1>3. ASSUME NEW u \in Living
      PROVE  /\ users'[u] \in Accounts /\ users[u] \in Accounts
             /\ users'[u].name = users[u].name /\ users'[u].email = users[u].email
             /\ users'[u].domain = users[u].domain
             /\ \/ users'[u] = users[u]
                \/ u \in lost /\ users'[u].active = FALSE /\ users'[u].locked = TRUE
  <2>1. u \in Users /\ users[u] \in Accounts
    BY <1>s DEF Living
  <2> QED
    BY <1>2, <2>1 DEF Disabled, Accounts
<1>4. Living' = Living
  BY <1>0, <1>2, <1>3 DEF Living
<1>5. ASSUME NEW e \in Ext, bind[e] \in Living, Alone(j, e)' PROVE Alone(j, e)
  <2>1. \A x \in Ext : Claims(x, bind[e]) => Claims(x, bind[e])'
    BY <1>s, <1>3, <1>4, <1>5, ClaimKept
  <2> QED
    BY <1>1, <1>5, <1>s, <2>1 DEF Alone
<1>6. ASSUME NEW e \in Ext, bind[e] \in Living, Alone(j, e),
             job[j].snap[e] = "active", InScope(e)
      PROVE  bind[e] \notin lost
  <2>1. Via(bind[e]) = {e}
    BY <1>6 DEF Via, Alone
  <2>2. buffer[e] # None
    BY <1>6, <1>s DEF OnCourse
  <2>3. ~Missing(bind[e], e)
    BY <2>2 DEF Missing
  <2> QED
    BY <2>1, <2>3
<1>7. \A e \in Ext : Through(j, e)
  BY <1>s DEF OnCourse
<1>8. ASSUME NEW e \in Ext, bind'[e] \in Living', Alone(j, e)'
      PROVE  Agrees(j, e)'
  <2>1. bind[e] \in Living /\ Alone(j, e) /\ Agrees(j, e) /\ bind'[e] = bind[e]
    BY <1>4, <1>5, <1>7, <1>8, <1>s DEF Through
  <2>2. job[j].snap[e] = "active" /\ InScope(e) => bind[e] \notin lost
    BY <1>6, <2>1
  <2>3. \/ users'[bind[e]] = users[bind[e]]
        \/ /\ bind[e] \in lost
           /\ users'[bind[e]].active = FALSE /\ users'[bind[e]].locked = TRUE
    BY <1>3, <2>1
  <2> QED
    BY <1>1, <2>1, <2>2, <2>3 DEF Agrees, InScope
<1>9. \A e \in Ext : job'[j].snap[e] = "active" /\ InScope(e)' => bind'[e] \in Living'
  BY <1>1, <1>4, <1>7, <1>s DEF Through, InScope
<1> QED
  BY <1>8, <1>9 DEF Converged, Agrees, InScope

\* A full sync whose buffer nobody has replaced leaves the accounts in agreement
\* with its snapshot, for any number of remote users, whatever links, stale
\* bindings, shared addresses and half-done jobs it finds (applySnapshot,
\* applyRemoteUser, disableMissingUsers).
THEOREM CleanSyncConverges == Spec => SyncConverges
<1>1. Init => ConvergeInv
  <2>1. ASSUME Init PROVE \A j \in Jobs : OnCourse(j)
    BY <2>1 DEF Init, Idle, OnCourse
  <2> QED
    BY <2>1, InitSyncInv DEF ConvergeInv
<1>2. ConvergeInv /\ [Next]_vars => ConvergeInv'
  <2>1. ASSUME ConvergeInv, [Next]_vars PROVE ConvergeInv'
    <3>1. SyncInv'
      BY <2>1, NextSyncInv DEF ConvergeInv
    <3>2. \A j \in Jobs : OnCourse(j)'
      BY <2>1, NextOnCourse
    <3> QED
      BY <3>1, <3>2 DEF ConvergeInv
  <2> QED
    BY <2>1
<1>3. ConvergeInv /\ [Next]_vars =>
        [\A j \in Jobs :
           job[j].pc = "users" /\ job'[j].pc = "log" /\ job[j].clean
             => Converged(j)']_vars
  <2> SUFFICES ASSUME ConvergeInv, [Next]_vars, NEW j \in Jobs,
                      job[j].pc = "users", job'[j].pc = "log", job[j].clean
               PROVE  Converged(j)'
    OBVIOUS
  <2>1. DisableMissing(j)
    BY WhoDisables DEF ConvergeInv
  <2> QED
    BY <2>1, DisableConverges DEF ConvergeInv
<1> QED
  BY <1>1, <1>2, <1>3, PTL DEF Spec, SyncConverges
=============================================================================
