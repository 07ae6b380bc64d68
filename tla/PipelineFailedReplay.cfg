\* The system stops when its jobs are finished and no more may be created.
SPECIFICATION FairSpec
CHECK_DEADLOCK FALSE
CONSTANTS
  Jobs = {j1}
  Threads = {t1}
  NoThread = NoThread
  NoJob = NoJob
  Refused = {}
  MaxTries = 1
  MaxCrashes = 0
PROPERTIES
  FailedRunEndsJob
