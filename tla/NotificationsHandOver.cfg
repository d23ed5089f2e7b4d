SPECIFICATION Spec
CONSTANTS
  cap = cap  usb = usb  disk = disk  epoch1 = epoch1  epoch2 = epoch2
  None = None
  Keys = {usb, disk}
  Presence = {usb}
  Removals = {disk}
  Epochs = {epoch1}
  MaxEp = 3
  MaxRev = 5
  MAX_OUTBOX = 1
  MAX_EPISODES = 3
  MaxAge = 2
  RetryLimit = 2
  Reports <- UsbReports
  Batches <- UsbBatches
  MaxConfig = 1
  MaxCrashes = 0
INVARIANT UndeliveredIsHandedOver
