SPECIFICATION FairSpec
CONSTANTS
  NumRows = 4
  ChunkSize = 2
  MaxAttempts = 1
  SkipLimit = 2
  Filtered <- MCFiltered
  InMemoryRepo = FALSE
  MaxFaults = 3
  MaxRuns = 2
INVARIANTS
  CheckpointNeverAhead
  NoSilentLoss
  FirstRetryLosesNothing
  OneWritePerRun
CHECK_DEADLOCK FALSE
PROPERTIES
  ExecuteEnds
