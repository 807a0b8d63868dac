SPECIFICATION SpecWithClose
CONSTANTS
  loop = loop
  w1 = w1
  Loop = loop
  Workers <- OneWorker
  BatchSize = 1
  MaxQueueSize = 2
  MaxPathInfos = 1
  MaxResults = 2
  MaxPaths = 1
PROPERTY LoopExits
CHECK_DEADLOCK FALSE
