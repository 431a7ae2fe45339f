SPECIFICATION Spec
CONSTANTS
  p1 = p1
  p2 = p2
  n1 = n1
  u1 = u1
  u2 = u2
  k1 = k1
  k2 = k2
  d1 = d1
  r1 = r1
  x = x
  y = y
  Users = {u1, u2}
  Contacts = {x, y}
  NoContact = NoContact
  Codes = {}
  Verifiers = {}
  MaxAttempts = 3
  Projects = {p1, p2}
  NumberOf <- OneNumber
  Claims = {k1, k2}
  ClaimedProject <- BothOfFirst
  Claimant <- EachUser
  Disputes = {d1}
  DisputedProject <- FirstProject
  Requests = {}
  Subject <- FirstUser
  Staff = {s1, s2}
  Nobody = Nobody
SYMMETRY Interchangeable
INVARIANTS
  OneListingPerNumber
  DecisionsStand
  BadgesAreEarned
CHECK_DEADLOCK FALSE
