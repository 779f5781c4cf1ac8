CONSTANTS
  ACLs = {"a5", "a6"}
  Workers = {w1, w2}
  Source <- MCSource
  Dests <- MCDests
  ServiceOf <- MCServiceOf
  NoOwner = NoOwner
  NoPolicy = NoPolicy
  Deletable = {}
  RpaasKeys = {}
  AddrHost <- MCAddrHost
  DNSKeys = {"h1"}
  Apps = {"db"}
  Hosts = {"h1"}
  IPs = {1, 2}
  InitDNS <- MCInitDNS
  MaxFaults = 0
  MaxDNSChanges = 0
  NoRecord = NoRecord

SPECIFICATION Spec


PROPERTY EventuallyPolicy

CHECK_DEADLOCK FALSE
