SPECIFICATION FairSpec
CONSTANTS
  Users = {u1, u2}
  Pages = {p1}
INVARIANTS
  NobodyLeftWaiting
  TokensFollowUser
PROPERTIES
  EveryFetchEnds
  LoadingEnds
CHECK_DEADLOCK FALSE
