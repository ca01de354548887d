CONSTANTS
  c1 = c1
  c2 = c2
  Callbacks = {c1, c2}
  CanDial = TRUE
  MaxRetries = 1
SPECIFICATION FairSpec
INVARIANTS
  PromiseIsKept
PROPERTIES
  TransferredIsFinal
  EveryCallIsEnded
CHECK_DEADLOCK FALSE
