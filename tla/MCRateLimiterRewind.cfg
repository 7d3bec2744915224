\* The clock stops at MaxNow, but settings go on being applied.
SPECIFICATION HistorySpec
CONSTANTS
  r1 = r1
  r2 = r2
  r3 = r3
  Ids <- mcIds
  IpOf <- mcIpOf
  IPs <- mcIPs
  Subnets <- mcSubnets
  SubnetOf <- mcSubnetOf
  Periods <- mcPeriods
  Length <- mcLength
  Second = "second"
  Day = "day"
  Retention = 3
  ViolationLimit = 1
  SettingsChoices <- mcSettingsChoices
  Uploads <- mcUploads
  Downloads <- mcDownloads
  MaxNow = 4
INVARIANT GrantsWithinLimit
