SPECIFICATION FairSpec
CONSTANTS
  WeekLen = 3
  Minutes = 3
  Editors = {e1, e2}
  Entries <- SomeEntries
  Edits <- SomeEdits
  Default <- NineToFive
INVARIANTS
  AnswersAreRight
PROPERTIES
  SavedMeansSaved
  OnlyTheEditChanges
  EveryRequestEnds
CHECK_DEADLOCK FALSE
