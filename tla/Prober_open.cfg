SPECIFICATION Spec
CONSTANTS
  g1 = g1
  g2 = g2
  r1 = r1
  r2 = r2
  NoTarget = NoTarget
  Gids <- MCGids
  Alive = {g1}
  Rnics <- MCTwoRnics
  Queued <- MCRnics
  Targets <- Three
  CarriesFlowLabel = FALSE
  MaxSeq = 2
  MayStop = FALSE
  ResultCap = 1
INVARIANTS OwnAcksOnly StatsMatchResults
PROPERTY EveryProbeEnds
CHECK_DEADLOCK FALSE
