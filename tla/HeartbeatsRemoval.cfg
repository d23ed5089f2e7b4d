SPECIFICATION Spec
CONSTANTS
  host = host  disk0 = disk0  ns = ns  driver = driver  join = join
  scan = scan  detail = detail
  HostGroup = HostGroup  QuotaGroup = QuotaGroup  Derived = Derived
  None = None  Deleted = Deleted  Never = Never  Plain = Plain
  Resources = {host, disk0}
  Links = {}
  From <- JoinFrom
  To <- JoinTo
  Host = host
  Groups = {HostGroup, QuotaGroup, Derived, scan}
  Owner <- DiskOwner
  Reports <- DiskReports
  Configured = {}
  Contents = {Plain}
  Events = {}
  Removable = {disk0}
  EventLimit = 1
  MaxGen = 2
  MaxSeq = 3
  Calm = 1
  MaxNet = 2
  MaxFaults = 1
  MaxWork = 2
INVARIANT RemovalFollowsObservation
CHECK_DEADLOCK FALSE
