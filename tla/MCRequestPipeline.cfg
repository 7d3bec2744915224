SPECIFICATION RecordsSpec
CONSTANTS
  r1 = r1
  r2 = r2
  r3 = r3
  Ids <- mcIds
  IpOf <- mcIpOf
  IPs <- mcIPs
  Subnets <- mcSubnets
  SubnetOf <- mcSubnetOf
  Periods <- mcPeriods
  Length <- mcLength
  Second = "second"
  Day = "day"
  Retention = 3
  ViolationLimit = 1
  SettingsChoices <- mcSettingsChoices
  Uploads <- mcUploads
  Downloads <- mcDownloads
  MaxNow = 1
  Minute = 1
  MetricsChoices <- mcMetricsChoices
  Declared <- mcDeclared
  Answers <- mcAnswers
SYMMETRY SameClient
INVARIANTS
  PipelineTypeOK
  GaugeExact
  LeasesExact
  RecordsAgree
  BytesExplained
  LogsAreNewest
  BucketsExact
PROPERTY
  RecordWithinLimits
