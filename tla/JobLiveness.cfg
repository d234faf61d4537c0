SPECIFICATION FairSpec
CONSTANTS
  Clock = Clock
  Manual = {}
  NoJob = NoJob
  NoRun = NoRun
  Day = 2
  Lease = 1
  LocalTime = {0}
  Zone = {0}
  MaxTime = 3
  MaxRun = 2
  MaxRevision = 1
  MaxThreshold = 0
  MaxCrash = 1
PROPERTIES
  ExpiredEnds
  NeverStuckDue
