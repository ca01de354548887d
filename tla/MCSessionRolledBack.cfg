CONSTANTS
  MaxUnheard = 3
  MaxFailures = 3
  Filler = FALSE
  BargeIn = TRUE
  MaxChunks = 2
  MaxTurns = 2
SPECIFICATION Spec
INVARIANT
  FailedTurnLeavesCallStanding
CHECK_DEADLOCK FALSE
