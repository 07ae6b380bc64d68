\* Two requests meet one scheduler; a second subscription follows a first.
SPECIFICATION Spec
CONSTANTS
  Subs = {s1, s2}
  Orders = {o1, o2}
  Requests = {r1, r2}
  Schedulers = {w1}
  NoSub = NoSub
  NoOrder = NoOrder
  Period = 2
  MaxAttempts = 4
  MaxNow = 3
  MaxCrashes = 0
SYMMETRY Symmetry
INVARIANTS
  TypeOK
  OneOpenSubscription
  AuthorizationExclusive
  PaidUp
