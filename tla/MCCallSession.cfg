CONSTANTS
  MaxUnheard = 3
  MaxFailures = 3
  Filler = TRUE
  BargeIn = TRUE
  MaxChunks = 2
  MaxTurns = 4
SPECIFICATION FairSpec
INVARIANTS
  OneSpeaker
  OneUserOfTheDatabase
  StrikesHandOver
  OutcomeAgreesWithTransfer
  BookingIsFiled
PROPERTIES
  ImplementsRecord
  HangUpEndsSession
  HandOverEndsStream
CHECK_DEADLOCK FALSE
