SPECIFICATION MemorySpec
CONSTANTS
  Lines = {l1, l2}
  Restaurants = {r1, r2}
  Numbers = {n1, n2}
  Withheld = withheld
  Window = 0
  Limit = 1
  LastDay = 1
  MaxCalls = 2
  MaxRows = 2
SYMMETRY Symmetric
INVARIANTS
  RecitesWhatTheyHave
  RecitesTheNewest
PROPERTIES
  StrangersHearTheDefault
CHECK_DEADLOCK FALSE
