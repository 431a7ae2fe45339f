SPECIFICATION Spec
CONSTANTS
  p1 = p1
  p2 = p2
  n1 = n1
  u1 = u1
  u2 = u2
  k1 = k1
  k2 = k2
  d1 = d1
  r1 = r1
  x = x
  y = y
  Users = {u1, u2}
  Contacts = {x, y}
  NoContact = NoContact
  Codes = {o1, o2}
  Verifiers = {v1, v2}
  MaxAttempts = 3
  Projects = {}
  NumberOf <- OneNumber
  Claims = {}
  ClaimedProject <- BothOfFirst
  Claimant <- EachUser
  Disputes = {}
  DisputedProject <- FirstProject
  Requests = {r1}
  Subject <- FirstUser
  Staff = {s1}
  Nobody = Nobody
SYMMETRY AlikeLogins
INVARIANTS
  TypeOK
  ContactsAreUnique
  SessionsFitTheCode
  OneCodeOneSession
  LoneGuessesCount
  ErasureIsFinal
CHECK_DEADLOCK FALSE
