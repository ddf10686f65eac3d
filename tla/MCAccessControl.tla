--------------------------- MODULE MCAccessControl ---------------------------
EXTENDS AccessControl

CONSTANTS q1, q2, u1, d1, d2, d3, g1, a, n, console

Row(policy) == [active |-> TRUE, policy |-> policy, visible |-> TRUE, sp |-> TRUE,
                secret |-> 0, login |-> "x", health |-> "x"]

MCStartRows == [c \in Clients |-> CASE c = a -> Row("assigned")
                                    [] c = n -> None
                                    [] OTHER -> Row("all")]
MCStartGrants == [c \in Clients |-> IF c = a THEN {<<"group", g1>>} ELSE {}]

MCCreate ==
  {[policy |-> p, visible |-> p # Nil, sp |-> p # Nil, login |-> "x", health |-> "",
    grants |-> IF p = Nil THEN {} ELSE {<<"user", u1>>}, bad |-> b] :
     p \in {Nil, "assigned"}, b \in BOOLEAN}

MCUpdate ==
  {[NoChange EXCEPT !.policy = p] : p \in {"all", "none"}} \cup
  {[NoChange EXCEPT !.policy = "assigned", !.grants = {<<"org", d1>>}, !.bad = b] :
     b \in BOOLEAN} \cup
  {[NoChange EXCEPT !.login = "y", !.sp = FALSE],
   [NoChange EXCEPT !.visible = FALSE]}

MCMembers == {{u1}, {}}

MCRuleInputs ==
  {[priority |-> p, enabled |-> e, specific |-> FALSE, users |-> {u1},
    ips |-> IF e THEN {} ELSE {"ip1", "bad"}, length |-> 7, mask |-> {6}, action |-> x] :
     p \in {0, 2}, e \in BOOLEAN, x \in {"accept", "deny"}} \cup
  {[priority |-> 2, enabled |-> TRUE, specific |-> TRUE, users |-> {u1}, ips |-> {"*"},
    length |-> 3, mask |-> {6}, action |-> "other"]}

\* The tree, the rules and the applications with the groups never read each
\* other: a behaviour edits one of the three.
Kinds(ks) == \A k \in raced \cup {req[q].key : q \in Requests} : k = Nil \/ k[1] \in ks
TreeUntouched == \A d \in Depts : parent[d] = IF d \in Founded THEN Root ELSE Nil
AppsUntouched == /\ want = [c \in Clients |-> [row |-> MCStartRows[c],
                                               grants |-> MCStartGrants[c]]]
                 /\ clients = MCStartRows /\ grants = MCStartGrants /\ minted = 1
                 /\ member = {} /\ groups = Groups
                 /\ \A q \in Requests : req[q].todo = {}
OneArea ==
  \/ TreeUntouched /\ AppsUntouched /\ Kinds({"rule"})
  \/ issued = 0 /\ AppsUntouched /\ Kinds({"tree"})
  \/ issued = 0 /\ TreeUntouched /\ Kinds({"app", "group", "user"})

\* Statements on two applications commute: requests overlap on one.  After a
\* race there is at most one more request, and nobody moves to d3.
Bounded == /\ OneArea
           /\ \A q, p \in Requests : req[q].key = Nil \/ req[p].key = Nil
                \/ req[q].key[1] # "app" \/ req[p].key[1] # "app" \/ req[q].key = req[p].key
           /\ raced # {} => started <= 2
           /\ \A u \in Users : home[u] # d3
=============================================================================
