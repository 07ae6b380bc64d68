SPECIFICATION FairSpec
CONSTANTS
  Subs = {s1}
  Orders = {o1, o2}
  Requests = {r1}
  Schedulers = {w1}
  NoSub = NoSub
  NoOrder = NoOrder
  Period = 2
  MaxAttempts = 4
  MaxNow = 4
  MaxCrashes = 0
PROPERTIES
  DueRetryIsCounted
