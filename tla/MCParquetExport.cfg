SPECIFICATION FairSpec
CONSTANTS
  Kinds = {"local", "gcs", "odd"}
  StorageType <- MCStorageType
  BucketName = "b"
  Tables <- MCTables
  Definitions <- MCDefinitions
  ReadBufferSize = 2
  Formats <- MCFormats
  MaxTicks = 1
  MaxFailures = 1
INVARIANTS
  ExportComplete
  RowsExportedOnce
PROPERTY CancelEnds
CHECK_DEADLOCK FALSE
