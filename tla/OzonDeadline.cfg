SPECIFICATION OzonLimitSpec
CONSTANTS
  Clients = 2
  Wait = {1, 3}
  LastTick = 4
PROPERTIES
  PersistentDeadlineMonotonic
CHECK_DEADLOCK FALSE
