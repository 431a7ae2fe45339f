SPECIFICATION Spec
CONSTANTS
  b1 = b1
  b2 = b2
  c1 = c1
  c2 = c2
  Tabs = {b1, b2}
  Calls = {c1, c2}
  TabOf <- TwoTabs
  MaxTokens = 3
INVARIANTS
  TypeOK
  PlainUseKeepsSession
  RevocationIsFinal
  LogoutLasts
CHECK_DEADLOCK FALSE
