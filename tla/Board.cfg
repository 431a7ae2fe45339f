SPECIFICATION BoardSpec
CONSTANTS
  c1 = c1
  c2 = c2
  c3 = c3
  c4 = c4
  k1 = k1
  k2 = k2
  k3 = k3
  k4 = k4
  None = None
  Projects = {1, 2, 3}
  Keys = {k1, k2, k3, k4}
  Calls = {c1, c2, c3, c4}
  Workload <- LedgerWorkload
  Orders <- SeedOrders
  OpeningBids <- Seed
  OpeningStatus <- SeedStatus
  Moderation = {}
  Visitor = Visitor
  Guest = Guest
  Readers = {Visitor, Guest, c1, c3}
  BoardSize = 2
  MinBid = 1
  Rupee = 2
INVARIANTS
  BoardTypeOK
  MoneyInv
  LogReadsHold
  LogNamesLeader
  AnswersAreTrue
  BoardsAgree
  OffersTakeTheLead
PROPERTIES
  ImplementsLedger
CHECK_DEADLOCK FALSE
