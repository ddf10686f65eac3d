---------------------------- MODULE AccessControl ----------------------------
(***************************************************************************)
(* What administrators decide about access: departments and groups, login  *)
(* rules, applications and their grants, edited by overlapping requests    *)
(* while the server may die at any moment.                                 *)
(***************************************************************************)
EXTENDS Applications, LoginRules

accessVars == <<reqVars, orgVars, ruleVars, appVars, monVars>>

AccessInit == RequestsInit /\ OrgInit /\ RulesInit /\ AppInit

AccessNext ==
  \/ AppNext /\ UNCHANGED ruleVars
  \/ RulesNext /\ UNCHANGED <<orgVars, appVars, monVars>>
  \/ CrashRequests /\ UNCHANGED <<orgVars, ruleVars, appVars, monVars>>

AccessSpec == AccessInit /\ [][AccessNext]_accessVars

AccessTypeOK ==
  /\ AppTypeOK /\ RulesTypeOK
  /\ started \in 0 .. MaxRequests
  /\ \A q \in Requests : req[q].pc = "idle" => req[q] = Idle
=============================================================================
