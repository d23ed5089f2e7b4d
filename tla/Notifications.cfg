SPECIFICATION Spec
CONSTANTS
  cap = cap  usb = usb  disk = disk  epoch1 = epoch1  epoch2 = epoch2
  None = None
  Keys = {cap, usb, disk}
  Presence = {usb}
  Removals = {disk}
  Epochs = {epoch1}
  MaxEp = 3
  MaxRev = 5
  MAX_OUTBOX = 1
  MAX_EPISODES = 3
  MaxAge = 2
  RetryLimit = 2
  Reports <- AllReports
  Batches <- AllBatches
  MaxConfig = 1
  MaxCrashes = 1
CONSTRAINT OneConcern
INVARIANTS TypeOK AtMostOneMessage PendingIntentIsCurrent LimitedWhilePending OutboxBounded
           NoConcernDropped OneMessagePerDisconnect
PROPERTIES LiveRowsStay DeliveryPromise
