---------------------------- MODULE RuleResolution ----------------------------
(***************************************************************************)
(* Every list of rules, built rule by rule, against every host and path:   *)
(* the loop of resolveRule, compared with the rule it is to find.          *)
(***************************************************************************)
EXTENDS CacheRules

CONSTANTS
  RuleChoices,   \* rules as CacheService has them
  Default,       \* the rule where none applies
  Hosts, Paths,  \* of the URLs
  MaxRules       \* bound on the rules

(* A path, and the prefixes of a rule, are sequences of pieces of text. *)
ASSUME PathAssumption ==
  /\ \A path \in Paths : path \in Seq(STRING)
  /\ \A rule \in RuleChoices : \A p \in rule.prefixes : p \in Seq(STRING)

VARIABLE rules

ResolutionInit == rules = << >>

AddRule == Len(rules) < MaxRules /\ \E r \in RuleChoices : rules' = Append(rules, r)

ResolutionSpec == ResolutionInit /\ [][AddRule]_rules

(* resolveRule returns the first of the applicable rules whose longest matching
   prefix is longest, and the default rule only when no rule applies. *)
LoopFindsGoverning ==
  LET s == [defaultRule |-> Default, rules |-> rules]
  IN \A h \in Hosts, p \in Paths : Governing(s, h, p) = {ResolveRule(s, h, p)}
===============================================================================
