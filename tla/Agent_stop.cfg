CONSTANTS
  d = d
  PeriodicTraceHopLimit = 1
  OnDemand = {d}
  TraceCap = 1
  MaxRuns = 2
  Configs <- MCConfigs
  s = s
  ServiceProbers = {s}
  ResultCap = 1
  MaxProbes = 1
SPECIFICATION Spec
PROPERTIES
  StopReturns
CHECK_DEADLOCK FALSE
