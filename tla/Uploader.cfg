SPECIFICATION Spec
CONSTANTS
  loop = loop
  w1 = w1
  Loop = loop
  Workers <- OneWorker
  BatchSize = 1
  MaxQueueSize = 2
  MaxPathInfos = 1
  MaxResults = 3
  MaxPaths = 1
INVARIANTS TypeOK PathsConserved ResultsConserved
PROPERTIES NilClientNeedsRival EveryPathEnds
CHECK_DEADLOCK FALSE
