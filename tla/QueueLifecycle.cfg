CONSTANTS
  r1 = r1
  Rnics = {r1}
  NumSlots = 1
  NoRnic = NoRnic
  NoQueue = NoQueue
SPECIFICATION Spec
INVARIANTS
  ResourcesSound
  UsersSafe
  DestroyedOnce
  AnsweredOrGone
PROPERTY
  CloseEnds
CHECK_DEADLOCK FALSE
