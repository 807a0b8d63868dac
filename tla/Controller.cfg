SPECIFICATION Spec
CONSTANTS
  a = a
  b = b
  g1 = g1
  g2 = g2
  g3 = g3
  NoRow = NoRow
  Agents = {a, b}
  Rnics = {g1, g2, g3}
  RnicsOf <- MCRnicsOf
  DayLen = 2
  Window = 1
  CleanupAge = 2
  StartTime = 1
  MaxTime = 4
  MaxInc = 2
  Restarting = {b}
  Polling = {a}
INVARIANT RowsCurrent
PROPERTIES PinglistsFresh OldQpnsVanish
CHECK_DEADLOCK FALSE
