CONSTANTS
  d = d
  PeriodicTraceHopLimit = 1
  OnDemand = {d}
  TraceCap = 1
  MaxRuns = 2
  Configs <- MCConfigs
  s = s
  ServiceProbers = {s}
  ResultCap = 1
  MaxProbes = 1
SPECIFICATION Spec
INVARIANTS
  TypeOK
  PanicCauses
  ReturnsReleased
PROPERTIES
  StopGetsThrough
  PathsForwarded
CHECK_DEADLOCK FALSE
