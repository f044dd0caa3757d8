--------------------------- MODULE MCParquetExport ---------------------------
EXTENDS ParquetExport, TLC

\* Rows of two days, one without a time; and a row that has no partition.
MCTables == {<<1, Nil, 25, 2, 3>>, <<1, Odd, 2, 3, 4>>}
MCDefinitions == <<"day">>
MCStorageType == "local" :> "local" @@ "gcs" :> "gcs" @@ "odd" :> "s3"
\* The default format, the one of the weather jobs, and one that repeats.
MCFormats == {{"timestamp", "uuid"}, {"sequence"}, {"timestamp", "random"}}
=============================================================================
