----------------------------- MODULE MCCacheRules -----------------------------
(***************************************************************************)
(* An instance of RuleResolution: rules for every host or for one, with    *)
(* every set of three prefixes of which two are nested.                    *)
(***************************************************************************)
EXTENDS RuleResolution

mcHosts == {"a.example", "b.example"}
mcPaths == {<< >>, <<"/x">>, <<"/x", "/y">>, <<"/z">>}

Rule(domains, prefixes) ==
  [domains |-> domains, prefixes |-> prefixes, ttl |-> [c \in StatusClasses |-> 1],
   minSize |-> 0, maxSize |-> 0, tags |-> {}, sensitive |-> {}]

mcRuleChoices ==
  {Rule(d, p) : d \in {{}, {"a.example"}}, p \in SUBSET {<< >>, <<"/x">>, <<"/x", "/y">>}}

mcDefault == Rule({"none"}, {})
===============================================================================
