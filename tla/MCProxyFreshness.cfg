\* Every request ends, and then only reloads and clears remain.
SPECIFICATION FreshSpec
CONSTANTS
  Ids = {r1, r2, r3}
  Calls <- mcCalls
  Keys <- mcKeys
  HostOf <- mcHostOf
  PathOf <- mcPathOf
  UrlTags <- mcUrlTags
  Tags <- mcTags
  SettingsChoices <- mcSettingsChoices
  MaxVersion = 2
  MaxNow = 2
SYMMETRY IdSymmetry
INVARIANTS
  StaleExplained
  ReadsExplained
  PrivateStaysPrivate
