SPECIFICATION Spec
CONSTANTS
  NumRows = 4
  ChunkSize = 2
  MaxAttempts = 1
  SkipLimit = 0
  Filtered <- MCFiltered
  InMemoryRepo = FALSE
  MaxFaults = 2
  MaxRuns = 1
INVARIANT ChunkRetryRepeatsChunk
CHECK_DEADLOCK FALSE
