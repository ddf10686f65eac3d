----------------------------- MODULE LoginRules -----------------------------
(***************************************************************************)
(* Login rules: who may log in from where and when.  The first enabled     *)
(* rule that matches decides, and a login that no rule matches is let in   *)
(* (loginrule_repo.go, login_rule_handler.go).                             *)
(***************************************************************************)
EXTENDS AdminRequests, Integers

CONSTANTS
  People,     \* users the rules may name
  Rules,      \* rule ids, in the order of created_at
  IPs,
  Hours,      \* hours in a day
  RuleInputs  \* what Create and Update are sent

\* An entry of ips is an address (ranges and CIDR blocks: those in them), the
\* wildcard ("" is one too) or something that parses as neither.
Entries == IPs \cup {"*", "bad"}

\* A priority and a mask may be sent that no rule can have.
Inputs ==
  [priority : Int, enabled : BOOLEAN, specific : BOOLEAN, users : SUBSET People,
   ips : SUBSET Entries, length : Nat, mask : SUBSET (0 .. 7 * Hours - 1),
   action : STRING]

ASSUME RulesAssumption ==
  /\ IsFiniteSet(Rules) /\ Rules = 1 .. Cardinality(Rules)
  /\ Hours \in Nat \ {0} /\ RuleInputs \subseteq Inputs

VARIABLES
  rules,      \* Rules -> row, or Nil
  issued,     \* rule ids used so far
  wantRule    \* what the last request on a rule answered

ruleVars == <<rules, issued, wantRule>>

Times == [day : 0 .. 6, hour : 0 .. Hours - 1]    \* Go's Weekday: Sunday is 0

Everybody == Nil    \* user_scope "all"
AllWeek == {}       \* no time_mask, or one without a 1
Rule(i) == <<"rule", i>>

\* A row; ips = {} and mask = AllWeek match all.
RuleRows ==
  [priority : Nat \ {0}, enabled : BOOLEAN, users : {Everybody} \cup SUBSET People,
   ips : SUBSET Entries, mask : SUBSET (0 .. 7 * Hours - 1),
   action : {"accept", "deny"}]

ASSUME RuleKeyAssumption == Nil \notin RuleRows /\ \A i \in Rules : Rule(i) # Nil

RulesInit ==
  /\ rules = [i \in Rules |-> Nil]
  /\ issued = 0
  /\ wantRule = [i \in Rules |-> Nil]

-----------------------------------------------------------------------------
(* Deciding a login *)

\* Mutant of Slot: Sunday is not moved to the end of the week.
SlotSunday(t) == (t.day - 1) * Hours + t.hour

\* The index in the mask: Monday is day 0.
Slot(t) == (IF t.day = 0 THEN 6 ELSE t.day - 1) * Hours + t.hour

MatchTimeMask(mask, t) == mask = AllWeek \/ Slot(t) \in mask

MatchIPs(list, ip) == list = {} \/ list \cap {"*", ip} # {}

RuleMatches(row, u, ip, t) ==
  /\ row.users = Everybody \/ u \in row.users
  /\ MatchIPs(row.ips, ip)
  /\ MatchTimeMask(row.mask, t)

Enabled == {i \in Rules : rules[i] # Nil /\ rules[i].enabled}

\* ORDER BY priority, created_at
Before(i, j) ==
  \/ rules[i].priority < rules[j].priority
  \/ rules[i].priority = rules[j].priority /\ i < j

Evaluate(u, ip, t) ==
  LET hits == {i \in Enabled : RuleMatches(rules[i], u, ip, t)}
      first == CHOOSE i \in hits : \A j \in hits \ {i} : Before(i, j)
  IN  hits = {} \/ rules[first].action = "accept"

-----------------------------------------------------------------------------
(* Operations *)

\* Mutant of Sanitized: what is sent is stored.
SanitizedRaw(in) ==
  [priority |-> in.priority, enabled |-> in.enabled,
   users |-> IF in.specific THEN in.users ELSE Everybody,
   ips |-> in.ips, mask |-> in.mask, action |-> in.action]

\* loginRuleInput.sanitize: a priority that is not positive becomes 50, a mask
\* of another length than a week's is dropped, names count with a scope only.
Sanitized(in) ==
  [priority |-> IF in.priority <= 0 THEN 50 ELSE in.priority,
   enabled |-> in.enabled,
   users |-> IF in.specific THEN in.users ELSE Everybody,
   ips |-> in.ips,
   mask |-> IF in.length = 7 * Hours THEN in.mask ELSE AllWeek,
   action |-> IF in.action \in {"accept", "deny"} THEN in.action ELSE "deny"]

\* An insert stores the column default, TRUE, for an enabled that is FALSE.
Inserted(row) == [row EXCEPT !.enabled = TRUE]

CreateRule(in) ==
  LET i == issued + 1
      row == Inserted(Sanitized(in))
  IN  /\ i \in Rules
      /\ Once(Rule(i))
      /\ issued' = i
      /\ rules' = [rules EXCEPT ![i] = row]
      /\ wantRule' = [wantRule EXCEPT ![i] = row]

\* Update reads the row, for its id only: it sets every other field.
UpdateRule(q, i, in) ==
  /\ rules[i] # Nil
  /\ Begin(q, "rule", "save", Rule(i), Sanitized(in), Nil, {})
  /\ UNCHANGED ruleVars

\* Save, which inserts the row again when it has been deleted.
SaveRule(q) ==
  LET i == On(q)
      row == req[q].in
  IN  /\ At(q, "rule", "save")
      /\ rules' = [rules EXCEPT ![i] = IF rules[i] = Nil THEN Inserted(row) ELSE row]
      /\ wantRule' = [wantRule EXCEPT ![i] = row]
      /\ End(q)
      /\ UNCHANGED issued

\* Toggle writes the opposite of the flag it read, to that column only.
ToggleRule(q, i) ==
  /\ rules[i] # Nil
  /\ Begin(q, "toggle", "set", Rule(i), ~rules[i].enabled, Nil, {})
  /\ UNCHANGED ruleVars

SetEnabled(q) ==
  LET i == On(q)
      flip(table) == IF table[i] = Nil THEN table
                     ELSE [table EXCEPT ![i].enabled = req[q].in]
  IN  /\ At(q, "toggle", "set")
      /\ rules' = flip(rules) /\ wantRule' = flip(wantRule)
      /\ End(q)
      /\ UNCHANGED issued

\* Delete, and every element of BatchDelete.
DeleteRule(i) ==
  /\ rules[i] # Nil
  /\ Once(Rule(i))
  /\ rules' = [rules EXCEPT ![i] = Nil]
  /\ wantRule' = [wantRule EXCEPT ![i] = Nil]
  /\ UNCHANGED issued

RuleRequest(q) ==
  \/ \E i \in Rules, in \in RuleInputs : UpdateRule(q, i, in)
  \/ \E i \in Rules : ToggleRule(q, i)
  \/ SaveRule(q) \/ SetEnabled(q)

RulesNext ==
  \/ \E q \in Requests : RuleRequest(q)
  \/ \E in \in RuleInputs : CreateRule(in)
  \/ \E i \in Rules : DeleteRule(i)

-----------------------------------------------------------------------------
RulesTypeOK ==
  /\ rules \in [Rules -> RuleRows \cup {Nil}]
  /\ wantRule \in [Rules -> RuleRows \cup {Nil}]
  /\ issued \in 0 .. Cardinality(Rules)

\* A login is denied exactly when some deny rule that an administrator has
\* left in force matches it, on the day and hour the mask names, and no accept
\* rule in force that matches comes before: the rules in force are those of
\* the answers that Create, Update, Toggle and Delete gave, as long as no two
\* requests on one rule overlapped.
InForce(u, ip, t) ==
  {i \in Rules : /\ wantRule[i] # Nil /\ wantRule[i].enabled
                 /\ wantRule[i].users = Everybody \/ u \in wantRule[i].users
                 /\ wantRule[i].ips # {} => wantRule[i].ips \cap {"*", ip} # {}
                 /\ \/ wantRule[i].mask = AllWeek
                    \/ ((t.day + 6) % 7) * Hours + t.hour \in wantRule[i].mask}

Earlier(i, j) ==
  wantRule[i].priority * (Cardinality(Rules) + 1) + i
    < wantRule[j].priority * (Cardinality(Rules) + 1) + j

RulesAnswer ==
  (\A i \in Rules : Rule(i) \notin raced /\ ~Busy(Rule(i))) =>
    \A u \in People, ip \in IPs, t \in Times :
      Evaluate(u, ip, t) <=>
        \A i \in InForce(u, ip, t) : wantRule[i].action = "deny" =>
          \E j \in InForce(u, ip, t) : wantRule[j].action = "accept" /\ Earlier(j, i)
=============================================================================
