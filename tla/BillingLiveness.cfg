\* One scheduler, one request at a time, one crash, past the day of a retry: the
\* ledger, and progress.
SPECIFICATION FairSpec
CONSTANTS
  Subs = {s1}
  Orders = {o1, o2}
  Requests = {r1}
  Schedulers = {w1}
  NoSub = NoSub
  NoOrder = NoOrder
  Period = 2
  MaxAttempts = 4
  MaxNow = 5
  MaxCrashes = 1
PROPERTIES
  ImplementsPeriodLedger
  DueIsSettled
