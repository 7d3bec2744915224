\* Rule lists end at MaxRules, where no rule is added any more.
SPECIFICATION ResolutionSpec
CONSTANTS
  RuleChoices <- mcRuleChoices
  Default <- mcDefault
  Hosts <- mcHosts
  Paths <- mcPaths
  MaxRules = 2
INVARIANT LoopFindsGoverning
CHECK_DEADLOCK FALSE
