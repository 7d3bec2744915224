\* Rule lists end at MaxRules, where no rule is added any more.
SPECIFICATION RulesSpec
CONSTANTS
  Width = 2
  MaxRules = 2
  Values <- mcValues
  CaptchaToken = "token"
  CaptchaHeaders = {"", "token", "guess"}
INVARIANT DenyRangesDeny
CHECK_DEADLOCK FALSE
