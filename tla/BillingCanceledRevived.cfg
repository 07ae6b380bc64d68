SPECIFICATION Spec
CONSTANTS
  Subs = {s1}
  Orders = {o1, o2, o3}
  Requests = {r1, r2}
  Schedulers = {w1}
  NoSub = NoSub
  NoOrder = NoOrder
  Period = 2
  MaxAttempts = 4
  MaxNow = 3
  MaxCrashes = 0
PROPERTIES
  CanceledIsFinal
