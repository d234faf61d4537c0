SPECIFICATION Spec
CONSTANTS
  Clock = Clock
  Manual = {m1}
  NoJob = NoJob
  NoRun = NoRun
  Day = 2
  Lease = 1
  LocalTime = {0}
  Zone = {0, 1}
  MaxTime = 3
  MaxRun = 2
  MaxRevision = 2
  MaxThreshold = 1
  MaxCrash = 1
INVARIANTS
  LastResultIsLatest
  ToldOnce
PROPERTIES
  PublishedInForce
ACTION_CONSTRAINTS
  Within
