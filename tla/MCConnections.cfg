SPECIFICATION FairSpec
CONSTANTS
  Clients = {c1, c2}
  Tasklets = {c1}
  Names = {"pg", "none", "odd", "locked"}
  DbType <- MCDbType
  Password <- MCPassword
  Providers = {"postgres", "dummy"}
  MaxCalls = 2
  MaxOutages = 1
  MaxCancels = 1
INVARIANTS
  NoPoolLeaks
  ResolveHeals
  LostToOthers
PROPERTY CallsEnd
CHECK_DEADLOCK FALSE
