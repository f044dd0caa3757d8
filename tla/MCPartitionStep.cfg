SPECIFICATION FairSpec
CONSTANTS
  p1 = p1
  p2 = p2
  Partitions = {p1, p2}
  Concurrencies = {0, 1}
  Modes = {"chunk", "own", "none", "mandatory", "remote"}
  MaxFaults = 2
INVARIANTS
  NoFailureHidden
  StopIsNoFailure
  OwnContextOneByOne
  WorkIsAtomic
PROPERTIES
  ExecuteReturns
CHECK_DEADLOCK FALSE
