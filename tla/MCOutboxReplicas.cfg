CONSTANTS
  w1 = w1
  w2 = w2
  Workers = {w1, w2}
  NumRows = 2
  TypeOf <- MCTypeOf
  Disabled = {}
  MaxAttempts = 2
  Limit = 2
  MaxFaults = 1
SPECIFICATION Spec
PROPERTIES
  SentIsFinal
