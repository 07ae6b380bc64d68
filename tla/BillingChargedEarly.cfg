SPECIFICATION Spec
CONSTANTS
  Subs = {s1}
  Orders = {o1, o2, o3, o4}
  Requests = {r1}
  Schedulers = {w1}
  NoSub = NoSub
  NoOrder = NoOrder
  Period = 2
  MaxAttempts = 4
  MaxNow = 4
  MaxCrashes = 0
SYMMETRY Symmetry
INVARIANTS
  NeverChargedEarly
