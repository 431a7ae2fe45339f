SPECIFICATION Spec
CONSTANTS
  c1 = c1
  c2 = c2
  c3 = c3
  c4 = c4
  k1 = k1
  k2 = k2
  k3 = k3
  k4 = k4
  None = None
  Projects = {1, 2}
  Keys = {k1, k2, k3, k4}
  Calls = {c1, c2}
  Workload <- LostUpdateWorkload
  Orders <- SeedOrders
  OpeningBids <- Seed
  OpeningStatus <- TwoLive
  Moderation = {}
INVARIANTS
  CacheMatchesLedger
CHECK_DEADLOCK FALSE
