CONSTANTS
  Apps = {"db"}
  Hosts = {"h1", "h2"}
  IPs = {1, 2}
  AppRouters <- MCAppRouters
  InitDNS <- MCInitDNS
  Deletable = {"db"}
  MaxFaults = 2
  MaxDNSChanges = 2
  NoRecord = NoRecord
  Gone = Gone

SPECIFICATION Spec

PROPERTY RefinesAddressRecord

CHECK_DEADLOCK FALSE
