CONSTANTS
  ACLs = {"a1"}
  Workers = {w1}
  Source <- MCSource
  Dests <- MCDests
  ServiceOf <- MCServiceOf
  NoOwner = NoOwner
  NoPolicy = NoPolicy
  Deletable = {"a1"}
  RpaasKeys = {}
  AddrHost <- MCAddrHost
  DNSKeys = {}
  Apps = {"db"}
  Hosts = {"h1"}
  IPs = {1, 2}
  InitDNS <- MCInitDNS
  MaxFaults = 0
  MaxDNSChanges = 0
  NoRecord = NoRecord

SPECIFICATION Spec



PROPERTY DeletedForgotten


CHECK_DEADLOCK FALSE
