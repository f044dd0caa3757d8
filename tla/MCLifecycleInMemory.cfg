SPECIFICATION Spec
CONSTANTS
  c1 = c1
  c2 = c2
  Callers = {c1, c2}
  InMemoryRepo = TRUE
  MaxExecs = 2
  MaxInstances = 1
  MaxVersion = 2
  MaxFaults = 0
SYMMETRY Symmetry
INVARIANTS
  EndRecorded
CHECK_DEADLOCK FALSE
