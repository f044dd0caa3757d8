SPECIFICATION FairSpec
CONSTANTS
  Clients = {c1, c2}
  Configs <- MCConfigs
  Margin = 1
  Lifetimes = {1, 2}
  MaxTime = 1
  Jobs <- MCJobs
  Windows <- MCWindows
  Unparsable = {3}
  ChunkSize = 2
  SkipLimit = 1
  MaxFaults = 2
  MaxRuns = 2
INVARIANTS
  OneTokenPerLapse
  NoStaleToken
  HoursStored
PROPERTY
  RequestsEnd
CHECK_DEADLOCK FALSE
