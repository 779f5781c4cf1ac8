CONSTANTS
  ACLs = {"a5"}
  Workers = {w1}
  Source <- MCSource
  Dests <- MCDests
  ServiceOf <- MCServiceOf
  NoOwner = NoOwner
  NoPolicy = NoPolicy
  Deletable = {}
  RpaasKeys = {}
  AddrHost <- MCAddrHost
  DNSKeys = {"h1"}
  Apps = {"db"}
  Hosts = {"h1"}
  IPs = {1, 2}
  InitDNS <- MCInitDNS
  MaxFaults = 1
  MaxDNSChanges = 1
  NoRecord = NoRecord

SPECIFICATION Spec


INVARIANT NoAllowAllRule

CHECK_DEADLOCK FALSE
