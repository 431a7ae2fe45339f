SPECIFICATION Spec
CONSTANTS
  w1 = w1
  v1 = v1
  Writers = {w1}
  Visitors = {v1}
  Kinds = {"settlement", "reversal", "moderation", "dispute"}
  TTL = 1
  Poll = 1
  Slow = 1
  Horizon = 6
INVARIANTS
  TypeOK
  AnswersAreRecent
  ShownIsRecent
CHECK_DEADLOCK FALSE
