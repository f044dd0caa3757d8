SPECIFICATION FairSpec
CONSTANTS
  Steps = {"s1", "s2", "s3"}
  Flows <- AllFlows
  Promoting = {"s1"}
  MaxLaunches = 2
  MaxFaults = 1
INVARIANTS
  WorkIsRecorded
  SuccessIsRecorded
PROPERTIES
  WalkSpec
  StopEnds
  FlowEnds
CHECK_DEADLOCK FALSE
