SPECIFICATION FairSpec
CONSTANTS
  c1 = c1
  c2 = c2
  c3 = c3
  c4 = c4
  k1 = k1
  k2 = k2
  k3 = k3
  k4 = k4
  None = None
  Projects = {1, 2, 3}
  Keys = {k1, k2, k3, k4}
  Calls = {c1, c2, c3}
  Workload <- DemoWorkload
  Orders <- DemoOrders
  OpeningBids <- DemoSeed
  OpeningStatus <- SeedStatus
  Moderation = {"live", "suspended"}
INVARIANTS
  ControlInv
  OneOpenRow
PROPERTIES
  HistoryKept
  EveryCallReturns
CHECK_DEADLOCK FALSE
