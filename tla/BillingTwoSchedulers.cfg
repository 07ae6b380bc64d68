\* Two instances run the scheduler, and one thread may crash anywhere.
SPECIFICATION Spec
CONSTANTS
  Subs = {s1}
  Orders = {o1, o2, o3}
  Requests = {r1}
  Schedulers = {w1, w2}
  NoSub = NoSub
  NoOrder = NoOrder
  Period = 2
  MaxAttempts = 4
  MaxNow = 3
  MaxCrashes = 1
SYMMETRY Symmetry
INVARIANTS
  NoDoubleChargePerPeriod
  PaidUp
