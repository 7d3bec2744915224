\* The process may stay down, and the file may stay as it is.
SPECIFICATION SettlingSpec
CONSTANTS
  Rules <- mcRules
  BadRules <- mcBadRules
  Levels <- mcLevels
  BadLevels <- mcBadLevels
  RateLimits <- mcRateLimits
  Default <- mcDefault
  Edits <- mcEdits
  MaxRunning = 2
  MaxChanges = 3
INVARIANTS
  TypeOK
  AgreeWhenSettled
  CreatedRulesStay
PROPERTY
  EditsTakeEffect
CHECK_DEADLOCK FALSE
