CONSTANTS
  Apps = {"db"}
  Hosts = {"h1", "h2"}
  IPs = {1, 2}
  AppRouters <- MCAppRouters
  InitDNS <- MCInitDNS
  Deletable = {}
  MaxFaults = 0
  MaxDNSChanges = 1
  NoRecord = NoRecord
  Gone = Gone

SPECIFICATION Spec

PROPERTY EventuallyFresh

CHECK_DEADLOCK FALSE
