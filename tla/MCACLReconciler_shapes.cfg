CONSTANTS
  ACLs = {"a1", "a3", "a4", "a7"}
  Workers = {w1}
  Source <- MCSource
  Dests <- MCDests
  ServiceOf <- MCServiceOf
  NoOwner = NoOwner
  NoPolicy = NoPolicy
  Deletable = {"a1"}
  RpaasKeys = {"r1"}
  AddrHost <- MCAddrHost
  DNSKeys = {"h1"}
  Apps = {"db"}
  Hosts = {"h1"}
  IPs = {1, 2}
  InitDNS <- MCInitDNS
  MaxFaults = 1
  MaxDNSChanges = 0
  NoRecord = NoRecord

SPECIFICATION Spec


PROPERTY DeletedPolicyCollected

CHECK_DEADLOCK FALSE
