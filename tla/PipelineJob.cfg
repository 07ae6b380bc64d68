\* The system stops when its jobs are finished and no more may be created.
SPECIFICATION Spec
CHECK_DEADLOCK FALSE
CONSTANTS
  Jobs = {j1, j2}
  Threads = {t1, t2}
  NoThread = NoThread
  NoJob = NoJob
  Refused = {"draft", "intents", "workflow"}
  MaxTries = 2
  MaxCrashes = 1
CONSTRAINT SecondOnlyStarts
SYMMETRY Symmetry
INVARIANTS
  TypeOK
  OneActiveJob
  AppliedOnce
  AcknowledgedIsApplied
  PublishedMeansSucceeded
  DecisionHasReplay
PROPERTIES
  ImplementsLifecycle
