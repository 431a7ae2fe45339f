SPECIFICATION FairSpec
CONSTANTS
  t1 = t1
  t2 = t2
  k1 = k1
  k2 = k2
  w1 = w1
  w2 = w2
  None = None
  Projects = {w1, w2}
  Keys = {k1, k2}
  Amounts = {1, 2}
  Tries = {t1, t2}
  Workload <- TwoTries
  Payments = {p1}
  Handlers = {h1, h2}
  Admins = {a1}
  MaxCrashes = 1
INVARIANTS
  TypeOK
  ProcessedMeansSettled
  PaymentsHaveAnIntent
  BidsArePaidFor
  PostingsArePushed
PROPERTIES
  PaidGetsSettled
CHECK_DEADLOCK FALSE
