CONSTANTS
  ACLs = {"a1", "a2"}
  Workers = {w1, w2}
  Source <- MCSource
  Dests <- MCDests
  ServiceOf <- MCServiceOf
  NoOwner = NoOwner
  NoPolicy = NoPolicy
  Deletable = {}
  RpaasKeys = {}
  AddrHost <- MCAddrHost
  DNSKeys = {}
  Apps = {"db"}
  Hosts = {"h1"}
  IPs = {1, 2}
  InitDNS <- MCInitDNS
  MaxFaults = 1
  MaxDNSChanges = 1
  NoRecord = NoRecord

SPECIFICATION Spec
SYMMETRY WorkerSymmetry


INVARIANT UpdateOnlyWhenDifferent


CHECK_DEADLOCK FALSE
