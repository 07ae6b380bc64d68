\* The system stops when its jobs are finished and no more may be created.
SPECIFICATION Spec
CHECK_DEADLOCK FALSE
CONSTANTS
  Jobs = {j1}
  Threads = {t1, t2}
  NoThread = NoThread
  NoJob = NoJob
  Refused = {}
  MaxTries = 2
  MaxCrashes = 0
PROPERTIES
  LoserLeavesJobAlone
