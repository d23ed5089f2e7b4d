SPECIFICATION Spec
CONSTANTS
  serial1 = serial1  anonymous1 = anonymous1  driver1 = driver1
  dead = dead  stalled = stalled
  Serials = {serial1}
  Anonymous = {anonymous1}
  Drivers = {driver1}
  LinkRates = {1, 2}
  MaxWatches = 1
  MaxWatchSessions = 2
  MaxWatchClocks = 1
  Horizon = 6
  ReadyTicks = 2
  ReadyIntervals = 2
  MaxIntervals = 2
  HighExcess = 2
  LowExcess = 1
  Opening = 3
  Recovery = 2
  MaxInterval = 1
  MaxSessions = 2
  MaxEpochs = 2
  ActivityRates = {0, 2, 4}
  MaxRevision = 3
  Identities = {1}
  MaxCount = 1
  Buckets = {1, 2}
  ServiceTimes = {1, 2, 4}
  OpenIntervals = 2
  CloseIntervals = 2
  Threshold = 2
  MaxGap = 1
  MaxRuleClocks = 2
  MaxRuleEpochs = 2
  MaxGrowth = 2
  Features = {dead, stalled}
  MaxSnapshots = 1
INVARIANTS
  EpisodesFollowWatches
  Unmixed
  OpenFindingsAreLive
PROPERTIES
  VerdictsEarned
  FindingEarned
  RecoveryEarned
  NewErrorsOnly
  RuleOpensOnRun
CHECK_DEADLOCK FALSE
