SPECIFICATION Spec
CONSTANTS
  b1 = b1
  b2 = b2
  c1 = c1
  c2 = c2
  Tabs = {b1}
  Calls = {c1, c2}
  TabOf <- OneTab
  MaxTokens = 3
INVARIANTS
  NoFalseReuse
CHECK_DEADLOCK FALSE
