SPECIFICATION Spec
CONSTANTS
  Steps = {"s1", "s2", "s3"}
  Flows <- GuardOnly
  Promoting = {}
  MaxLaunches = 2
  MaxFaults = 0
INVARIANT RestartResumes
CHECK_DEADLOCK FALSE
