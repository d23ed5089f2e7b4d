SPECIFICATION Spec
CONSTANTS
  mount1 = mount1  disk1 = disk1  metric1 = metric1  None = None
  Resources = {mount1, disk1}
  Mounts = {mount1}
  Metrics = {metric1}
  Period = 1
  Jitter = 0
  MaxRetained = 1
  MaxRuns = 2
  MaxScans = 2
  MaxBeats = 1
INVARIANTS TypeOK SnapshotIsValid CarriedIsCurrent LatestReadingKept DiscardsCounted
CHECK_DEADLOCK FALSE
