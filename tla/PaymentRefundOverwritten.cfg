\* The system stops once everything is refunded and every event processed.
SPECIFICATION FairSpec
CHECK_DEADLOCK FALSE
CONSTANTS
  Amount = 2
  k1 = k1
  k2 = k2
  Keys <- MCKeys
  AdminKey = AdminKey
  AmountOf <- MCAmountOf
  Users = {u1, u2}
  Admins = {a1}
  Hooks = {h1, h2}
  NoThread = NoThread
  NoKey = NoKey
  MaxCrashes = 1
PROPERTIES
  FullRefundIsReflected
