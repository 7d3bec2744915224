\* The clock stops at MaxNow, but checks go on being made.
SPECIFICATION HistorySpec
CONSTANTS
  Width = 0
  Checkers = {c1, c2}
  Appliers = {g1, g2}
  Unparsable = bad
  Captchas <- mcCaptchas
  SettingsChoices <- mcSettingsChoices
  CacheTTL = 0
  MaxNow = 1
SYMMETRY Symmetry
INVARIANTS
  CaptchaIsPersonal
  CacheAgrees
  AnswersAreCurrent
