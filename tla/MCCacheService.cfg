SPECIFICATION RecencySpec
CONSTANTS
  Keys <- mcKeys
  HostOf <- mcHostOf
  PathOf <- mcPathOf
  UrlTags <- mcUrlTags
  Tags <- mcTags
  Responses <- mcResponses
  SettingsChoices <- mcSettingsChoices
  Requests <- mcRequests
  MaxNow = 2
  MaxGets = 1
  MaxUses = 5
INVARIANTS
  TypeOK
  OrderExact
  TagIndexExact
  MemoryExact
  WithinLimits
  RecencyIsLastUse
  NewestSurvives
PROPERTIES
  InvalidateIsExact
  KeepsPromise
