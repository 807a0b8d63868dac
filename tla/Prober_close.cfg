SPECIFICATION Spec
CONSTANTS
  g1 = g1
  g2 = g2
  r1 = r1
  r2 = r2
  NoTarget = NoTarget
  Gids <- MCGids
  Alive = {g1}
  Rnics <- MCRnics
  Queued <- MCRnics
  Targets <- Mixed
  CarriesFlowLabel = FALSE
  MaxSeq = 2
  MayStop = TRUE
  ResultCap = 1
INVARIANTS AckProvenance NoSessionLeak
PROPERTY ImplementsProbeService
CHECK_DEADLOCK FALSE
