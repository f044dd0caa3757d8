--------------------------- MODULE ParquetExport ---------------------------
(***************************************************************************)
(* GenericParquetExportTasklet: a goroutine reads rows from a cursor into  *)
(* a channel, another gathers them into batches for a ParquetWriter, which *)
(* buffers them by partition and, when flushed, uploads one file per       *)
(* partition.  Execute waits for both and looks at their errors.           *)
(***************************************************************************)
EXTENDS Storage, Sequences, SequencesExt

CONSTANTS
  Tables,           \* tables to try: per row the hour of its time, Nil or Odd
  Definitions,      \* partitionDefinitions: a sequence of formats
  ReadBufferSize,   \* as configured; 0 stands for the default
  Formats,          \* outputFileNameFormat: sets of placeholders to try
  MaxTicks,         \* bound: seconds that pass
  MaxFailures       \* bound: failures of the cursor, a file or an upload

ASSUME ExportAssumption ==
  /\ Definitions \in Seq({"day", "hour", "default"})
  /\ Tables \subseteq Seq(Int)
  /\ ReadBufferSize \in Nat /\ MaxTicks \in Nat /\ MaxFailures \in Nat

Nil == -1    \* a null pointer
Odd == -2    \* a struct that is not a time
\* NewGenericParquetExportTasklet: the default size.
Buffer == IF ReadBufferSize = 0 THEN 50 ELSE ReadBufferSize

\* A value formatted by a definition: a null is the empty string, the layout of
\* a day keeps less of a time than the one of an hour or the default one.
FormatValue(f, t) ==
  IF t = Nil THEN Nil ELSE IF f = "day" THEN t \div 24 ELSE t

VARIABLES
  table,             \* the rows to export
  format,            \* the file name format of this run
  main, exit,        \* Execute: where it is, what it returned
  conn,              \* the writer's storage adapter
  reader, item, pos, \* the reading goroutine; its row; rows read
  chan, chanClosed,  \* itemsChan
  writer, batch,     \* the writing goroutine and its batch
  buffered,          \* bufferedItems: partition -> its rows, which are numbered
  toFlush, flushErr, \* the partitions a Flush has still to do; its multierror
  sequence,          \* partitionSequence
  uuids, clock,      \* uuids drawn, seconds passed
  errChan,           \* errors in errChan
  ctxDone, failures

pipeVars == <<reader, item, pos, chan, chanClosed>>
writerVars == <<writer, batch, buffered, toFlush, flushErr, sequence, uuids>>
worldVars == <<clock, ctxDone, failures, format, table>>
vars == <<storageVars, main, exit, conn, pipeVars, writerVars, worldVars, errChan>>

N == Len(table)
Rows == 1 .. N

\* partitionKeyFunc: one directory per definition, none without definitions;
\* a field that is no time is an error.
Unfit(r) == Definitions # <<>> /\ table[r] = Odd
PartitionKey(r) == [i \in DOMAIN Definitions |-> FormatValue(Definitions[i], table[r])]
Partitions == {PartitionKey(r) : r \in {q \in Rows : ~Unfit(q)}}

Empty == [k \in Partitions |-> {}]
OldPath == [part |-> <<>>, timestamp |-> -1, uuid |-> 0, sequence |-> 0, random |-> 0]

Init ==
  /\ StorageInit([p \in {OldPath} |-> {}])
  /\ format \in Formats /\ table \in Tables
  /\ main = "open" /\ exit = "none" /\ conn = 0
  /\ reader = "none" /\ item = 0 /\ pos = 0 /\ chan = <<>> /\ chanClosed = FALSE
  /\ writer = "none" /\ batch = <<>> /\ buffered = Empty
  /\ toFlush = {} /\ flushErr = FALSE /\ sequence = [k \in Partitions |-> 0]
  /\ uuids = 0 /\ clock = 0 /\ errChan = 0 /\ ctxDone = FALSE /\ failures = 0

MayFail == failures < MaxFailures
Fail == failures' = failures + 1
Return(status) == main' = "returned" /\ exit' = status

-----------------------------------------------------------------------------
\* ParquetWriter.Open resolves the storage; the buffers are empty.
Open ==
  /\ main = "open"
  /\ \/ /\ Resolves /\ GetConnection
        /\ conn' = adapter' /\ main' = "execute" /\ UNCHANGED exit
     \/ ~Resolves /\ Return("FAILED") /\ UNCHANGED <<storageVars, conn>>
  /\ UNCHANGED <<pipeVars, writerVars, worldVars, errChan>>

\* Execute up to the two goroutines: the connection and the cursor may fail.
StartPipeline ==
  /\ main = "execute"
  /\ \/ /\ main' = "wait" /\ reader' = "read" /\ writer' = "receive"
        /\ UNCHANGED <<exit, failures>>
     \/ /\ (MayFail /\ Fail) \/ (ctxDone /\ UNCHANGED failures)
        /\ Return("FAILED") /\ UNCHANGED <<reader, writer>>
  /\ UNCHANGED <<storageVars, conn, item, pos, chan, chanClosed, batch, buffered,
                 toFlush, flushErr, sequence, uuids, clock, ctxDone, format, table, errChan>>

\* An error for errChan, which has room for both goroutines; a select that also
\* finds the context ended may drop it.
SendError == \/ errChan' = errChan + 1
             \/ ctxDone /\ UNCHANGED errChan

\* SqlCursorReader.Read: a row, the end, or an error, which a context that has
\* ended causes too.
ReadRow ==
  /\ reader = "read"
  /\ \/ /\ pos < N /\ pos' = pos + 1 /\ item' = pos + 1 /\ reader' = "send"
        /\ UNCHANGED <<chanClosed, errChan, failures>>
     \/ /\ pos = N /\ reader' = "done" /\ chanClosed' = TRUE
        /\ UNCHANGED <<pos, item, errChan, failures>>
     \/ /\ (MayFail /\ Fail) \/ (ctxDone /\ UNCHANGED failures)
        /\ SendError /\ reader' = "done" /\ chanClosed' = TRUE
        /\ UNCHANGED <<pos, item>>
  /\ UNCHANGED <<storageVars, main, exit, conn, chan, writerVars, clock, ctxDone, format, table>>

MutSendRow ==
  /\ reader = "send"
  /\ Len(chan) < Buffer /\ chan' = Append(chan, item) /\ reader' = "read"
  /\ UNCHANGED <<storageVars, main, exit, conn, item, pos, chanClosed, errChan,
                 writerVars, worldVars>>

\* The channel has room, or the context has ended.
SendRow ==
  /\ reader = "send"
  /\ \/ /\ Len(chan) < Buffer /\ chan' = Append(chan, item) /\ reader' = "read"
        /\ UNCHANGED <<chanClosed, errChan>>
     \/ /\ ctxDone /\ errChan' = errChan + 1
        /\ reader' = "done" /\ chanClosed' = TRUE /\ UNCHANGED chan
  /\ UNCHANGED <<storageVars, main, exit, conn, item, pos, writerVars, worldVars>>

-----------------------------------------------------------------------------
\* The range over itemsChan: a row joins the batch, a full batch is written.
ReceiveRow ==
  /\ writer = "receive" /\ chan # <<>>
  /\ chan' = Tail(chan) /\ batch' = Append(batch, Head(chan))
  /\ writer' = IF Len(batch) + 1 >= Buffer THEN "write" ELSE "receive"
  /\ UNCHANGED <<storageVars, main, exit, conn, reader, item, pos, chanClosed,
                 buffered, toFlush, flushErr, sequence, uuids, worldVars, errChan>>

\* The channel is closed and drained: what is left is written too.
ReceiveEnd ==
  /\ writer = "receive" /\ chan = <<>> /\ chanClosed
  /\ writer' = IF batch = <<>> THEN "done" ELSE "write"
  /\ UNCHANGED <<storageVars, main, exit, conn, pipeVars, batch, buffered, toFlush,
                 flushErr, sequence, uuids, worldVars, errChan>>

\* The rows of a batch before the first that has no partition key.
Fitting(b) == {r \in ToSet(b) : \A q \in ToSet(b) : q <= r => ~Unfit(q)}

\* ParquetWriter.Write, then Flush; Write gives up at the first error.
WriteBatch ==
  /\ writer = "write" /\ batch' = <<>>
  /\ buffered' = [k \in Partitions |->
                    buffered[k] \cup {r \in Fitting(batch) : PartitionKey(r) = k}]
  /\ \/ /\ Fitting(batch) = ToSet(batch) /\ UNCHANGED errChan
        /\ writer' = "flush"
        /\ toFlush' = {k \in Partitions : buffered'[k] # {}}
     \/ /\ Fitting(batch) # ToSet(batch) /\ SendError /\ writer' = "done" /\ UNCHANGED toFlush
  /\ UNCHANGED <<storageVars, main, exit, conn, pipeVars, flushErr, sequence, uuids,
                 worldVars>>

MutFileNames(k) ==
  {[part |-> k,
    timestamp |-> IF "timestamp" \in format THEN clock ELSE 0,
    uuid |-> IF "uuid" \in format THEN uuids + 1 ELSE 0,
    sequence |-> 0,
    random |-> r] : r \in IF "random" \in format THEN 0 .. 1 ELSE {0}}

\* generateFileName: the placeholders the format has; the sequence is counted
\* per partition, a random number may repeat.
FileNames(k) ==
  {[part |-> k,
    timestamp |-> IF "timestamp" \in format THEN clock ELSE 0,
    uuid |-> IF "uuid" \in format THEN uuids + 1 ELSE 0,
    sequence |-> IF "sequence" \in format THEN sequence[k] ELSE 0,
    random |-> r] : r \in IF "random" \in format THEN 0 .. 1 ELSE {0}}

\* One turn of Flush's loop over the partitions, in any order: the file is
\* encoded, which may fail, then named and uploaded.
FlushPartition ==
  /\ writer = "flush"
  /\ \E k \in toFlush :
       /\ toFlush' = toFlush \ {k}
       /\ \/ /\ MayFail /\ Fail /\ flushErr' = TRUE
             /\ UNCHANGED <<objects, sequence, uuids>>
          \/ \E path \in FileNames(k) :
               /\ sequence' = [sequence EXCEPT ![k] = @ + 1]
               /\ uuids' = uuids + 1
               /\ \/ /\ ~UploadFails(conn, ctxDone, FALSE)
                     /\ Upload(path, buffered[k], TRUE, ctxDone)
                     /\ UNCHANGED <<flushErr, failures>>
                  \/ /\ UploadFails(conn, ctxDone, MayFail)
                     /\ Upload(path, buffered[k], FALSE, ctxDone)
                     /\ flushErr' = TRUE
                     /\ failures' = IF UploadFails(conn, ctxDone, FALSE)
                                    THEN failures ELSE failures + 1
  /\ UNCHANGED <<kind, providerVars, main, exit, conn, pipeVars, writer, batch,
                 buffered, clock, ctxDone, format, table, errChan>>

MutFlushEnd ==
  /\ writer = "flush" /\ toFlush = {} /\ flushErr' = FALSE
  /\ UNCHANGED buffered
  /\ \/ flushErr /\ SendError /\ writer' = "done"
     \/ ~flushErr /\ writer' = "receive" /\ UNCHANGED errChan
  /\ UNCHANGED <<storageVars, main, exit, conn, pipeVars, batch, toFlush, sequence,
                 uuids, worldVars>>

\* The end of Flush empties the buffer, failed partitions included, and returns
\* the errors; the goroutine stops at an error.
FlushEnd ==
  /\ writer = "flush" /\ toFlush = {}
  /\ flushErr' = FALSE /\ buffered' = Empty
  /\ \/ flushErr /\ SendError /\ writer' = "done"
     \/ ~flushErr /\ writer' = "receive" /\ UNCHANGED errChan
  /\ UNCHANGED <<storageVars, main, exit, conn, pipeVars, batch, toFlush, sequence,
                 uuids, worldVars>>

\* wg.Wait, then the first error of errChan.
Join ==
  /\ main = "wait" /\ reader = "done" /\ writer = "done"
  /\ Return(IF errChan > 0 THEN "FAILED" ELSE "COMPLETED")
  /\ UNCHANGED <<storageVars, conn, pipeVars, writerVars, worldVars, errChan>>

-----------------------------------------------------------------------------
\* The rest of the world: the context ends, time passes, the program shuts the
\* storage, somebody reconnects it or removes an old object.
ContextDone ==
  /\ ~ctxDone /\ ctxDone' = TRUE
  /\ UNCHANGED <<storageVars, main, exit, conn, pipeVars, writerVars, clock,
                 failures, format, table, errChan>>
Tick ==
  /\ clock < MaxTicks /\ clock' = clock + 1
  /\ UNCHANGED <<storageVars, main, exit, conn, pipeVars, writerVars, ctxDone,
                 failures, format, table, errChan>>
Others ==
  /\ LocalCloseAll \/ GcsCloseAll \/ DeleteObject(OldPath)
     \/ LocalForceReconnect("operator") \/ GcsForceReconnect("operator")
  /\ UNCHANGED <<main, exit, conn, pipeVars, writerVars, worldVars, errChan>>

Reader == ReadRow \/ SendRow
Writer == ReceiveRow \/ ReceiveEnd \/ WriteBatch \/ FlushPartition \/ FlushEnd
Main == Open \/ StartPipeline \/ Join
Next == Main \/ Reader \/ Writer \/ ContextDone \/ Tick \/ Others
Spec == Init /\ [][Next]_vars

\* The goroutines are scheduled.
FairSpec == Spec /\ WF_vars(Main) /\ WF_vars(Reader) /\ WF_vars(Writer)

-----------------------------------------------------------------------------
Exported == UNION {Download(p) : p \in ListObjects(Partitions) \ {OldPath}}
Distinct == format \cap {"uuid", "sequence"} # {}

\* parquet_export_tasklet.go 556-699, parquet_writer.go 216-299: an export that
\* ends COMPLETED without a cancellation has put every row into a file that is
\* still there: no batch is left behind, no failed upload is forgotten and, with
\* a uuid or a sequence in the format, no file replaces another.
ExportComplete ==
  exit = "COMPLETED" /\ ~ctxDone /\ Distinct => Exported = Rows

\* parquet_writer.go 277: a row is in one file at most, so that the buffer is
\* emptied between two flushes.
RowsExportedOnce ==
  \A p, q \in ListObjects(Partitions) \ {OldPath} :
    p # q => Download(p) \cap Download(q) = {}

\* parquet_export_tasklet.go 584-595: cancelling the context ends Execute, even
\* when the writer is gone and the channel full.
CancelEnds == main = "wait" /\ ctxDone ~> main = "returned"

=============================================================================
