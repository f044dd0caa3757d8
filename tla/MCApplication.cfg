SPECIFICATION FairSpec
CONSTANTS
  Steps = {"s1", "s2"}
  Types = {"item_read", "item_write"}
  QueueSize = 2
  MaxItems = 1
INVARIANTS CountsConserved NormalExitKeepsEvents
PROPERTY ShutdownEnds
CHECK_DEADLOCK FALSE
