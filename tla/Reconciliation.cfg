SPECIFICATION ReconSpec
CONSTANTS
  c1 = c1
  c2 = c2
  c3 = c3
  k1 = k1
  k2 = k2
  k3 = k3
  k4 = k4
  None = None
  Projects = {1, 2, 3}
  Keys = {k1, k2, k3, k4}
  Calls = {c1, c2, c3}
  Workload <- EveryWorkload
  Orders <- SeedOrders
  OpeningBids <- Seed
  OpeningStatus <- SeedStatus
  Moderation = {}
  Jobs = {1, 2}
INVARIANTS
  JobsOK
  NoFalseAlarm
PROPERTIES
  QuietRunRepairs
CHECK_DEADLOCK FALSE
