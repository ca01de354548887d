SPECIFICATION FairSpec
CONSTANTS
  Hangover = 3
  MaxUtterance = 8
  BargeIn = TRUE
  BargeInRun = 3
  Filler = TRUE
  Tail = 2
  MaxSentences = 3
  MaxDuration = 2
  MaxAudio = 9
INVARIANTS
  UtteranceIsBounded
  HeardIsKept
  SilentWhenListening
PROPERTIES
  HeardIsAnswered
CHECK_DEADLOCK FALSE
