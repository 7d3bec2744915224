\* Rule lists end at MaxRules, where no rule is added any more.
SPECIFICATION RulesSpec
CONSTANTS
  Width = 2
  MaxRules = 3
  Values <- mcValues
  CaptchaToken = "token"
  CaptchaHeaders = {"", "token", "guess"}
INVARIANTS
  MatchIsExact
  DecisionsHaveReason
CHECK_DEADLOCK FALSE
