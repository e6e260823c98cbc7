---------------------------- MODULE Permissions ----------------------------
(***************************************************************************)
(* fx-core/src/permission.rs: the decision of PermissionEngine on one      *)
(* request.  Permission name and pattern of a rule come to the set of      *)
(* targets the rule matches.                                               *)
(***************************************************************************)
EXTENDS Naturals, Sequences

CONSTANT
  Rules  \* configured_rules, in their order: records with fields targets, action

ASSUME RulesAssumption ==
  Rules \in Seq([targets : SUBSET STRING, action : {"allow", "ask", "deny"}])

Modes == {"ask", "auto", "yolo"}

\* automatic_baseline.
AutomaticBaseline(effect) == IF effect = "read" THEN "allow" ELSE "review"

\* What the last matching rule says.
Configured(target) ==
  LET matching == {i \in DOMAIN Rules : target \in Rules[i].targets}
  IN  IF matching = {} THEN "unset"
      ELSE Rules[CHOOSE i \in matching : \A j \in matching : j <= i].action

\* PermissionEngine::decide.
Decide(mode, grants, call) ==
  IF mode = "yolo" THEN "allow"
  ELSE IF Configured(call.target) = "deny" THEN "deny"
  ELSE IF call.target \in grants THEN "allow"
  ELSE IF Configured(call.target) # "unset" THEN Configured(call.target)
  ELSE IF mode = "ask" THEN "ask"
  ELSE AutomaticBaseline(call.effect)
=============================================================================
