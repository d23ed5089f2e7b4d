SPECIFICATION FairSpec
CONSTANTS
  host = host  disk0 = disk0  ns = ns  driver = driver  join = join
  scan = scan  detail = detail
  HostGroup = HostGroup  QuotaGroup = QuotaGroup  Derived = Derived
  None = None  Deleted = Deleted  Never = Never  Plain = Plain
  Resources = {host, disk0, ns, driver}
  Links = {join}
  From <- JoinFrom
  To <- JoinTo
  Host = host
  Groups = {HostGroup, QuotaGroup, Derived, scan, detail}
  Owner <- DiskOwner
  Reports <- DiskReports
  Configured = {}
  Contents = {Plain}
  Events = {event1}
  Removable = {}
  EventLimit = 1
  MaxGen = 2
  MaxSeq = 3
  Calm = 1
  MaxNet = 2
  MaxFaults = 1
  MaxWork = 2
INVARIANTS TypeOK NoConflict DeletionIntentKept AcknowledgedIsHeld EventsAccountedFor
PROPERTIES TelemetryPromise CatchesUp
CHECK_DEADLOCK FALSE
