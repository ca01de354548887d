SPECIFICATION MemorySpec
CONSTANTS
  Lines = {l1}
  Restaurants = {r1}
  Numbers = {n1}
  Withheld = withheld
  Window = 0
  Limit = 1
  LastDay = 1
  MaxCalls = 2
  MaxRows = 1
INVARIANTS
  RecitesNothingDeclined
CHECK_DEADLOCK FALSE
