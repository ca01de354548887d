CONSTANTS
  d1 = d1
  r1 = r1
  r2 = r2
  r3 = r3
  r4 = r4
  Docs = {d1}
  Requests = {r1, r2, r3, r4}
  NumConfigs = 3
  ChunkCount <- MCChunkCount
SPECIFICATION Spec
INVARIANTS
  StoresAgree
  NoMixedChunks
PROPERTIES
  ReindexIsCurrent
CHECK_DEADLOCK FALSE
