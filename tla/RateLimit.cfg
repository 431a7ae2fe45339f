SPECIFICATION FairSpec
CONSTANTS
  phone1 = phone1
  phone2 = phone2
  address = address
  r1 = r1
  r2 = r2
  r3 = r3
  Keys = {phone1, phone2, address}
  Requests = {r1, r2, r3}
  Limit <- Limits
  Window <- Windows
  Checks <- Routes
INVARIANTS
  CountersOK
  LimitsHold
PROPERTIES
  KeysComeBack
