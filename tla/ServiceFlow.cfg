CONSTANTS
  d1 = d1
  d2 = d2
  d3 = d3
  n = n
  p = p
  Devices = {d1, d2, d3}
  Qps <- MCQps
  Peers = {p}
  DestsOf <- MCDestsOf
  OwnQpns <- MCOwnQpns
  Hooks = {"modify", "destroy"}
  NoDst = NoDst
  ZeroGid = ZeroGid
  BootTime = 1
  Hour = 1
  Word = 16
  RingCap = 1
  ChanCap = 1
  MaxUptime = 1
  MaxOps = 3
  MaxFaults = 1
SPECIFICATION Spec
INVARIANTS
  TableExact
PROPERTIES
  ReaderEnds
  DestroyedForgotten
CHECK_DEADLOCK FALSE
