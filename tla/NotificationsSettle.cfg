SPECIFICATION FairSpec
CONSTANTS
  cap = cap  usb = usb  disk = disk  epoch1 = epoch1  epoch2 = epoch2
  None = None
  Keys = {cap}
  Presence = {}
  Removals = {}
  Epochs = {}
  MaxEp = 2
  MaxRev = 2
  MAX_OUTBOX = 1
  MAX_EPISODES = 2
  MaxAge = 1
  RetryLimit = 2
  Reports <- CapReports
  Batches <- CapBatches
  MaxConfig = 1
  MaxCrashes = 1
PROPERTIES RowsSettle IntentsSettle
