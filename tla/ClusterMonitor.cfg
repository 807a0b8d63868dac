SPECIFICATION Spec
CONSTANTS
  l1 = l1
  l2 = l2
  q1 = q1
  q2 = q2
  d1 = d1
  d2 = d2
  NoTarget = NoTarget
  NoDevice = NoDevice
  Gids <- MCGids
  LocalGids <- MCLocal
  Queued <- MCQueued
  LinkLocal <- MCLinkLocal
  DeviceOf <- MCDeviceOf
  LocalHost = "local"
  Pinglists <- MCPinglists
  Period = 2
  ResultCap = 1
INVARIANTS RoundRobin ProbesAreSound
PROPERTIES RateKept UpdateHappens StopEnds
