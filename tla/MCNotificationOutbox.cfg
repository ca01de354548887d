CONSTANTS
  w1 = w1
  w2 = w2
  Workers = {w1}
  NumRows = 5
  TypeOf <- MCTypeOf
  Disabled = {"email"}
  MaxAttempts = 2
  Limit = 2
  MaxFaults = 1
SPECIFICATION FairSpec
INVARIANTS
  ExhaustedIsExplained
  NoNeedlessDuplicate
PROPERTIES
  DueRowsAreSettled
