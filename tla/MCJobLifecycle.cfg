SPECIFICATION FairSpec
CONSTANTS
  c1 = c1
  c2 = c2
  Callers = {c1, c2}
  InMemoryRepo = FALSE
  MaxExecs = 2
  MaxInstances = 2
  MaxVersion = 1
  MaxFaults = 1
INVARIANTS
  OneInstance
  StopDelivered
  EndRecorded
PROPERTIES
  SettledRowsKept
  LaunchedEnds
CHECK_DEADLOCK FALSE
