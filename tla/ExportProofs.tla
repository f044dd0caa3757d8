---------------------------- MODULE ExportProofs ----------------------------
(***************************************************************************)
(* The export of a table to Parquet files, proved for any table, any       *)
(* partition definitions, sizes of the channel and file name formats.  The *)
(* rows of a table are numbered in the order they are read, and a row is   *)
(* in one place: still to be read, in the channel, in the batch, in the    *)
(* buffer of a partition, or in a file.                                    *)
(***************************************************************************)
EXTENDS ParquetExport, SequenceTheorems, TLAPS

Files == DOMAIN objects \ {OldPath}

ReaderAt == {"none", "read", "send", "done"}
WriterAt == {"none", "receive", "write", "flush", "done"}
TypeOK ==
  /\ table \in Seq(Int)
  /\ reader \in ReaderAt /\ writer \in WriterAt
  /\ pos \in Nat /\ pos <= Len(table) /\ item \in Nat
  /\ chan \in Seq(Nat) /\ batch \in Seq(Nat)
  /\ chanClosed \in BOOLEAN /\ flushErr \in BOOLEAN /\ ctxDone \in BOOLEAN
  /\ buffered \in [Partitions -> SUBSET Nat] /\ toFlush \subseteq Partitions
  /\ sequence \in [Partitions -> Nat] /\ uuids \in Nat
  /\ errChan \in Nat /\ clock \in Nat

\* Nothing has gone wrong so far.
Fine == errChan = 0 /\ ~ctxDone

\* The channel is closed by the reader's end; the writer ends, when all is fine,
\* with an empty channel and an empty batch; COMPLETED is returned after both.
Ends ==
  /\ main \in {"open", "execute"} => reader = "none" /\ writer = "none"
  /\ main # "returned" => exit = "none"
  /\ chanClosed <=> reader = "done"
  /\ writer = "done" /\ Fine => reader = "done" /\ chan = <<>> /\ batch = <<>>
  /\ exit = "COMPLETED" => reader = "done" /\ writer = "done" /\ errChan = 0

\* The buffers are empty but for a flush.
Buffers ==
  /\ writer \notin {"flush", "done"} => buffered = Empty /\ toFlush = {} /\ ~flushErr
  /\ \A k \in Partitions : \A r \in buffered[k] : PartitionKey(r) = k

\* Up to row low the writer has received; of these it has put all but the batch
\* into buffers and files, and loses none while all is fine.
Put(low) == low - Len(batch)
Positions(low) ==
  /\ Len(batch) <= low /\ low + Len(chan) <= pos
  /\ \A i \in DOMAIN chan : chan[i] = low + i
  /\ \A i \in DOMAIN batch : batch[i] = Put(low) + i
  /\ reader = "send" => item = pos /\ low + Len(chan) = pos - 1
  /\ reader \in {"none", "read"} => low + Len(chan) = pos
  /\ reader = "done" /\ Fine => low + Len(chan) = pos /\ pos = Len(table)
InFiles(low) ==
  /\ \A p \in DOMAIN objects : \A r \in objects[p] : r \in Nat /\ 1 <= r /\ r <= Put(low)
  /\ \A k \in Partitions : \A r \in buffered[k] : 1 <= r /\ r <= Put(low)
AllKept(low) ==
  Fine /\ Distinct =>
    \A r \in 1 .. Put(low) :
      \/ \E p \in Files : r \in objects[p]
      \/ writer = "flush" /\ (flushErr \/ \E k \in toFlush : r \in buffered[k])
RowsKept == \E low \in Nat : Positions(low) /\ InFiles(low) /\ AllKept(low)

\* A row is in one file, and in none while it waits to be flushed.
OneFile ==
  /\ OldPath \in DOMAIN objects => objects[OldPath] = {}
  /\ \A p \in Files : p.part \in Partitions
  /\ \A p, q \in Files : p # q => objects[p] \cap objects[q] = {}
  /\ \A k \in toFlush : \A p \in Files : buffered[k] \cap objects[p] = {}

\* The names used so far.
Names ==
  /\ \A p \in Files : p.uuid \in Nat /\ p.sequence \in Nat
  /\ "uuid" \in format => \A p \in Files : p.uuid <= uuids
  /\ "sequence" \in format => \A p \in Files : p.sequence < sequence[p.part]

ExportInv == TypeOK /\ Ends /\ Buffers /\ RowsKept /\ OneFile /\ Names

-----------------------------------------------------------------------------
(* What the actions leave alone.                                           *)

\* The table and the format are those of the run.
LEMMA Fixed == [Next]_vars => UNCHANGED <<table, format>>
BY DEF Next, vars, worldVars, Main, Reader, Writer, Open, StartPipeline, Join, ReadRow, SendRow,
       ReceiveRow, ReceiveEnd, WriteBatch, FlushPartition, FlushEnd, ContextDone, Tick, Others

\* So are the partitions.
LEMMA FixedPartitions ==
  ASSUME table' = table, format' = format
  PROVE  /\ Partitions' = Partitions /\ Empty' = Empty /\ Distinct' = Distinct
         /\ \A r : PartitionKey(r)' = PartitionKey(r)
<1>1. \A r : PartitionKey(r)' = PartitionKey(r) /\ Unfit(r)' = Unfit(r)
  BY DEF PartitionKey, Unfit
<1>2. Rows' = Rows
  BY DEF Rows, N
<1>3. Partitions' = Partitions
  BY <1>1, <1>2 DEF Partitions
<1> QED
  BY <1>1, <1>3 DEF Empty, Distinct

\* A row that fits has a partition.
LEMMA KeyFacts ==
  ASSUME NEW r \in Rows, ~Unfit(r)
  PROVE  PartitionKey(r) \in Partitions
BY DEF Partitions

\* What Others does to the files.
LEMMA OthersEffect ==
  ASSUME ExportInv, Others
  PROVE  /\ UNCHANGED <<main, exit, conn, pipeVars, writerVars, worldVars, errChan>>
         /\ Files' = Files /\ \A p \in DOMAIN objects' : p \in DOMAIN objects /\ objects'[p] = objects[p]
BY DEF Others, LocalCloseAll, GcsCloseAll, DeleteObject, LocalForceReconnect,
   GcsForceReconnect, Files

\* An object is stored beside the others.
LEMMA StoredFacts ==
  ASSUME NEW path, NEW rows, objects' = Stored(path, rows)
  PROVE  /\ DOMAIN objects' = DOMAIN objects \cup {path} /\ objects'[path] = rows
         /\ \A p \in DOMAIN objects : p # path => objects'[p] = objects[p]
BY DEF Stored

\* generateFileName: a name of its partition, new if the format tells names apart.
LEMMA NameFacts ==
  ASSUME ExportInv, NEW k \in Partitions, NEW path \in FileNames(k)
  PROVE  /\ path # OldPath /\ path.part = k /\ path.uuid \in Nat /\ path.sequence \in Nat
         /\ "uuid" \in format => path.uuid = uuids + 1
         /\ "sequence" \in format => path.sequence = sequence[k]
         /\ Distinct => path \notin DOMAIN objects
<1>0. TypeOK /\ Names /\ sequence[k] \in Nat /\ uuids \in Nat /\ clock \in Nat
  BY DEF ExportInv, TypeOK
<1>1. /\ path.part = k /\ path.timestamp \in Nat /\ path.uuid \in Nat /\ path.sequence \in Nat
      /\ "uuid" \in format => path.uuid = uuids + 1
      /\ "sequence" \in format => path.sequence = sequence[k]
  BY <1>0 DEF FileNames
<1>2. path # OldPath
  BY <1>1 DEF OldPath
<1>3. ASSUME Distinct, path \in DOMAIN objects PROVE FALSE
  <2>1. path \in Files
    BY <1>2, <1>3 DEF Files
  <2>2. CASE "uuid" \in format
    BY <1>0, <1>1, <2>1, <2>2 DEF Names
  <2>3. CASE "sequence" \in format
    BY <1>0, <1>1, <2>1, <2>3 DEF Names
  <2> QED
    BY <1>3, <2>2, <2>3 DEF Distinct
<1> QED
  BY <1>1, <1>2, <1>3

\* A turn of Flush: the file is there, or part of it or nothing and the error noted.
LEMMA FlushEffect ==
  ASSUME ExportInv, FlushPartition
  PROVE  /\ writer = "flush"
         /\ UNCHANGED <<main, exit, conn, pipeVars, writer, batch, buffered>>
         /\ UNCHANGED <<clock, ctxDone, format, table, errChan>>
         /\ \E k \in toFlush :
              /\ toFlush' = toFlush \ {k}
              /\ \/ UNCHANGED <<objects, sequence, uuids>> /\ flushErr' = TRUE
                 \/ \E path \in FileNames(k), rows \in SUBSET buffered[k] :
                      /\ sequence' = [sequence EXCEPT ![k] = @ + 1] /\ uuids' = uuids + 1
                      /\ \/ /\ objects' = Stored(path, rows)
                            /\ flushErr' = TRUE \/ (rows = buffered[k] /\ flushErr' = flushErr)
                         \/ UNCHANGED objects /\ flushErr' = TRUE
<1>1. PICK k \in toFlush :
       /\ toFlush' = toFlush \ {k}
       /\ \/ flushErr' = TRUE /\ UNCHANGED <<objects, sequence, uuids>>
          \/ \E path \in FileNames(k) :
               /\ sequence' = [sequence EXCEPT ![k] = @ + 1]
               /\ uuids' = uuids + 1
               /\ \/ Upload(path, buffered[k], TRUE, ctxDone) /\ flushErr' = flushErr
                  \/ Upload(path, buffered[k], FALSE, ctxDone) /\ flushErr' = TRUE
  BY DEF FlushPartition
<1>2. ASSUME NEW path, Upload(path, buffered[k], TRUE, ctxDone)
      PROVE  objects' = Stored(path, buffered[k])
  BY <1>2 DEF Upload, LocalUpload, GcsUpload
<1>3. ASSUME NEW path, Upload(path, buffered[k], FALSE, ctxDone)
      PROVE  UNCHANGED objects \/ \E rows \in SUBSET buffered[k] : objects' = Stored(path, rows)
  BY <1>3 DEF Upload, LocalUpload, GcsUpload
<1>4. \E rows \in SUBSET buffered[k] : rows = buffered[k]
  OBVIOUS
<1>5. CASE flushErr' = TRUE /\ UNCHANGED <<objects, sequence, uuids>>
  BY <1>1, <1>5 DEF FlushPartition
<1>6. ASSUME NEW path \in FileNames(k), sequence' = [sequence EXCEPT ![k] = @ + 1], uuids' = uuids + 1,
             Upload(path, buffered[k], TRUE, ctxDone) /\ flushErr' = flushErr
      PROVE  \E rows \in SUBSET buffered[k] :
                   objects' = Stored(path, rows) /\ rows = buffered[k] /\ flushErr' = flushErr
  BY <1>2, <1>6
<1>7. ASSUME NEW path \in FileNames(k), sequence' = [sequence EXCEPT ![k] = @ + 1], uuids' = uuids + 1,
             Upload(path, buffered[k], FALSE, ctxDone) /\ flushErr' = TRUE
      PROVE  \E rows \in SUBSET buffered[k] :
                 flushErr' = TRUE /\ (objects' = Stored(path, rows) \/ UNCHANGED objects)
  BY <1>3, <1>7
<1>8. ASSUME NEW path \in FileNames(k), sequence' = [sequence EXCEPT ![k] = @ + 1], uuids' = uuids + 1,
             \/ Upload(path, buffered[k], TRUE, ctxDone) /\ flushErr' = flushErr
             \/ Upload(path, buffered[k], FALSE, ctxDone) /\ flushErr' = TRUE
      PROVE  \E rows \in SUBSET buffered[k] :
               \/ /\ objects' = Stored(path, rows)
                  /\ flushErr' = TRUE \/ (rows = buffered[k] /\ flushErr' = flushErr)
               \/ UNCHANGED objects /\ flushErr' = TRUE
  BY <1>6, <1>7, <1>8
<1>9. /\ writer = "flush"
      /\ UNCHANGED <<main, exit, conn, pipeVars, writer, batch, buffered>>
      /\ UNCHANGED <<clock, ctxDone, format, table, errChan>>
  BY DEF FlushPartition
<1> QED
  BY <1>1, <1>5, <1>8, <1>9

\* Files and buffers keep what they have when neither they nor the batch change.
LEMMA KeptSame ==
  ASSUME NEW low \in Nat, InFiles(low), AllKept(low), table' = table, format' = format,
         UNCHANGED <<batch, buffered, toFlush, flushErr>>, Files' = Files,
         \A p \in DOMAIN objects' : p \in DOMAIN objects /\ objects'[p] = objects[p],
         Fine' => Fine, writer' = writer \/ writer # "flush"
  PROVE  InFiles(low)' /\ AllKept(low)'
<1>1. Put(low)' = Put(low) /\ Partitions' = Partitions /\ Distinct' = Distinct
  BY FixedPartitions DEF Put
<1>2. InFiles(low)'
  BY <1>1 DEF InFiles
<1>3. \A p \in Files' : objects'[p] = objects[p]
  BY DEF Files
<1>4. AllKept(low)'
  BY <1>1, <1>3 DEF AllKept
<1> QED
  BY <1>2, <1>4

\* A step that leaves every row where it is.
MovesNoRow ==
  /\ UNCHANGED <<pos, item, chan, batch, buffered, toFlush, flushErr, errChan>>
  /\ Files' = Files /\ \A p \in DOMAIN objects' : p \in DOMAIN objects /\ objects'[p] = objects[p]
  /\ ctxDone' = ctxDone \/ ctxDone' = TRUE
  /\ writer' = writer \/ writer # "flush"
  /\ reader' = reader \/ (reader = "none" /\ reader' = "read")

\* Such a step keeps the rows.
LEMMA RowsSame ==
  ASSUME RowsKept, table' = table, format' = format,
         MovesNoRow
  PROVE  RowsKept'
<1>1. PICK low \in Nat : Positions(low) /\ InFiles(low) /\ AllKept(low)
  BY DEF RowsKept
<1>2. (Fine' => Fine) /\ Put(low)' = Put(low)
  BY DEF Fine, Put, MovesNoRow
<1>3. Positions(low)'
  BY <1>1, <1>2 DEF Positions, MovesNoRow
<1>4. InFiles(low)' /\ AllKept(low)'
  BY <1>1, <1>2, KeptSame DEF MovesNoRow
<1> QED
  BY <1>3, <1>4 DEF RowsKept

-----------------------------------------------------------------------------
(* The parts of the invariant.                                             *)

\* Types, and the reader stays within the table.
LEMMA TypeStep == ExportInv /\ [Next]_vars => TypeOK'
<1> SUFFICES ASSUME ExportInv, [Next]_vars PROVE TypeOK'
  OBVIOUS
<1>0. TypeOK /\ table' = table /\ format' = format
  BY Fixed DEF ExportInv
<1> USE FixedPartitions
<1>1. CASE Open
  BY <1>0, <1>1 DEF Open, Return, GetConnection, LocalGetConnection, GcsGetConnection,
     pipeVars, writerVars, worldVars, storageVars, TypeOK, ReaderAt, WriterAt, N
<1>2. CASE StartPipeline
  BY <1>0, <1>2 DEF StartPipeline, Return, pipeVars, writerVars, worldVars, storageVars,
     TypeOK, ReaderAt, WriterAt, N
<1>3. CASE Join
  BY <1>0, <1>3 DEF Join, Return, pipeVars, writerVars, worldVars, storageVars, TypeOK,
     ReaderAt, WriterAt, N
<1>4. CASE ReadRow
  <2>1. pos \in Nat /\ pos <= Len(table) /\ Len(table) \in Nat /\ errChan \in Nat
    BY <1>0 DEF TypeOK
  <2>2. pos' \in Nat /\ pos' <= Len(table) /\ item' \in Nat /\ errChan' \in Nat
    BY <1>0, <1>4, <2>1 DEF TypeOK, ReadRow, SendError, N
  <2>3. reader' \in ReaderAt /\ (chanClosed' = TRUE \/ chanClosed' = chanClosed)
    BY <1>4 DEF ReadRow, ReaderAt
  <2> QED
    BY <1>0, <1>4, <2>2, <2>3 DEF ReadRow, writerVars, TypeOK
<1>5. CASE SendRow
  <2>1. chan \in Seq(Nat) /\ item \in Nat /\ errChan \in Nat /\ chanClosed \in BOOLEAN
    BY <1>0 DEF TypeOK
  <2>2. \/ chan' = Append(chan, item) /\ errChan' = errChan
        \/ chan' = chan /\ errChan' = errChan + 1
    BY <1>5 DEF SendRow
  <2>3. chan' \in Seq(Nat) /\ errChan' \in Nat
    <3>1. CASE chan' = Append(chan, item) /\ errChan' = errChan
      BY <2>1, <3>1
    <3>2. CASE chan' = chan /\ errChan' = errChan + 1
      BY <2>1, <3>2
    <3> QED
      BY <2>2, <3>1, <3>2
  <2>4. reader' \in ReaderAt /\ (chanClosed' = TRUE \/ chanClosed' = chanClosed)
    BY <1>5 DEF SendRow, ReaderAt
  <2> QED
    BY <1>0, <1>5, <2>3, <2>4 DEF SendRow, writerVars, worldVars, TypeOK
<1>6. CASE ReceiveRow
  BY <1>0, <1>6 DEF ReceiveRow, pipeVars, writerVars, worldVars, storageVars, TypeOK,
     ReaderAt, WriterAt, N
<1>7. CASE ReceiveEnd
  BY <1>0, <1>7 DEF ReceiveEnd, pipeVars, writerVars, worldVars, storageVars, TypeOK,
     ReaderAt, WriterAt, N
<1>8. CASE WriteBatch
  <2>1. /\ batch \in Seq(Nat) /\ errChan \in Nat /\ buffered \in [Partitions -> SUBSET Nat]
        /\ toFlush \subseteq Partitions
    BY <1>0 DEF TypeOK
  <2>2. Fitting(batch) \subseteq Nat
    BY <2>1 DEF Fitting, ToSet
  <2>3. buffered' \in [Partitions -> SUBSET Nat] /\ <<>> \in Seq(Nat)
    BY <1>8, <2>1, <2>2 DEF WriteBatch
  <2>4. toFlush' \subseteq Partitions /\ errChan' \in Nat /\ writer' \in WriterAt
    BY <1>8, <2>1 DEF WriteBatch, SendError, WriterAt
  <2> QED
    BY <1>0, <1>8, <2>3, <2>4 DEF WriteBatch, pipeVars, worldVars, TypeOK
<1>9. CASE FlushPartition
  <2>1. PICK k \in toFlush : toFlush' = toFlush \ {k} /\ flushErr' \in {TRUE, flushErr}
          /\ \/ UNCHANGED <<sequence, uuids>>
             \/ sequence' = [sequence EXCEPT ![k] = @ + 1] /\ uuids' = uuids + 1
    BY <1>9, FlushEffect
  <2>2. sequence \in [Partitions -> Nat] /\ uuids \in Nat /\ k \in Partitions
    BY <1>0 DEF TypeOK
  <2>3. sequence' \in [Partitions -> Nat] /\ uuids' \in Nat
    BY <2>1, <2>2
  <2> QED
    BY <1>0, <1>9, <2>1, <2>3, FlushEffect DEF pipeVars, TypeOK
<1>10. CASE FlushEnd
  <2>1. Empty \in [Partitions -> SUBSET Nat]
    BY DEF Empty
  <2>2. errChan' \in Nat /\ writer' \in WriterAt
    BY <1>0, <1>10 DEF FlushEnd, SendError, WriterAt, TypeOK
  <2> QED
    BY <1>0, <1>10, <2>1, <2>2 DEF FlushEnd, pipeVars, worldVars, TypeOK
<1>11. CASE ContextDone
  BY <1>0, <1>11 DEF ContextDone, pipeVars, writerVars, worldVars, storageVars, TypeOK,
     ReaderAt, WriterAt, N
<1>12. CASE Tick
  BY <1>0, <1>12 DEF Tick, pipeVars, writerVars, worldVars, storageVars, TypeOK, ReaderAt,
     WriterAt, N
<1>13. CASE Others
  BY <1>0, <1>13, OthersEffect DEF pipeVars, writerVars, worldVars, storageVars, TypeOK,
     ReaderAt, WriterAt, N
<1>14. CASE UNCHANGED vars
  BY <1>0, <1>14 DEF vars, pipeVars, writerVars, worldVars, storageVars, TypeOK, ReaderAt,
     WriterAt, N
<1> QED
  BY <1>1, <1>2, <1>3, <1>4, <1>5, <1>6, <1>7, <1>8, <1>9, <1>10, <1>11, <1>12, <1>13,
     <1>14 DEF Next, Main, Reader, Writer

\* Who is done has said so, or failed.
LEMMA EndsStep == ExportInv /\ [Next]_vars => Ends'
<1> SUFFICES ASSUME ExportInv, [Next]_vars PROVE Ends'
  OBVIOUS
<1>0. TypeOK /\ Ends /\ table' = table /\ format' = format
  BY Fixed DEF ExportInv
<1> USE FixedPartitions
<1>1. CASE Open
  BY <1>0, <1>1 DEF Open, Return, GetConnection, LocalGetConnection, GcsGetConnection,
     pipeVars, writerVars, worldVars, storageVars, Ends, Fine, TypeOK, N
<1>2. CASE StartPipeline
  BY <1>0, <1>2 DEF StartPipeline, Return, pipeVars, writerVars, worldVars, storageVars,
     Ends, Fine, TypeOK, N
<1>3. CASE Join
  BY <1>0, <1>3 DEF Join, Return, pipeVars, writerVars, worldVars, storageVars, Ends, Fine,
     TypeOK, N
<1>4. CASE ReadRow
  BY <1>0, <1>4 DEF ReadRow, SendError, pipeVars, writerVars, worldVars, storageVars, Ends,
     Fine, TypeOK, N
<1>5. CASE SendRow
  BY <1>0, <1>5 DEF SendRow, pipeVars, writerVars, worldVars, storageVars, Ends, Fine,
     TypeOK, N
<1>6. CASE ReceiveRow
  BY <1>0, <1>6 DEF ReceiveRow, pipeVars, writerVars, worldVars, storageVars, Ends, Fine,
     TypeOK, N
<1>7. CASE ReceiveEnd
  BY <1>0, <1>7 DEF ReceiveEnd, pipeVars, writerVars, worldVars, storageVars, Ends, Fine,
     TypeOK, N
<1>8. CASE WriteBatch
  BY <1>0, <1>8 DEF WriteBatch, SendError, pipeVars, writerVars, worldVars, storageVars,
     Ends, Fine, TypeOK, N
<1>9. CASE FlushPartition
  BY <1>0, <1>9, FlushEffect DEF pipeVars, writerVars, worldVars, storageVars, Ends, Fine,
     TypeOK, N
<1>10. CASE FlushEnd
  BY <1>0, <1>10 DEF FlushEnd, SendError, pipeVars, writerVars, worldVars, storageVars,
     Ends, Fine, TypeOK, N
<1>11. CASE ContextDone
  BY <1>0, <1>11 DEF ContextDone, pipeVars, writerVars, worldVars, storageVars, Ends, Fine,
     TypeOK, N
<1>12. CASE Tick
  BY <1>0, <1>12 DEF Tick, pipeVars, writerVars, worldVars, storageVars, Ends, Fine,
     TypeOK, N
<1>13. CASE Others
  BY <1>0, <1>13, OthersEffect DEF pipeVars, writerVars, worldVars, storageVars, Ends,
     Fine, TypeOK, N
<1>14. CASE UNCHANGED vars
  BY <1>0, <1>14 DEF vars, pipeVars, writerVars, worldVars, storageVars, Ends, Fine,
     TypeOK, N
<1> QED
  BY <1>1, <1>2, <1>3, <1>4, <1>5, <1>6, <1>7, <1>8, <1>9, <1>10, <1>11, <1>12, <1>13,
     <1>14 DEF Next, Main, Reader, Writer

\* Flush leaves nothing behind.
LEMMA BuffersStep == ExportInv /\ [Next]_vars => Buffers'
<1> SUFFICES ASSUME ExportInv, [Next]_vars PROVE Buffers'
  OBVIOUS
<1>0. TypeOK /\ Ends /\ Buffers /\ table' = table /\ format' = format
  BY Fixed DEF ExportInv
<1> USE FixedPartitions
<1>1. CASE Open
  BY <1>0, <1>1 DEF Open, Return, GetConnection, LocalGetConnection, GcsGetConnection,
     pipeVars, writerVars, worldVars, storageVars, Buffers, Ends, Empty, TypeOK, WriterAt
<1>2. CASE StartPipeline
  BY <1>0, <1>2 DEF StartPipeline, Return, pipeVars, writerVars, worldVars, storageVars,
     Buffers, Ends, Empty, TypeOK, WriterAt
<1>3. CASE Join
  BY <1>0, <1>3 DEF Join, Return, pipeVars, writerVars, worldVars, storageVars, Buffers,
     Ends, Empty, TypeOK, WriterAt
<1>4. CASE ReadRow
  BY <1>0, <1>4 DEF ReadRow, SendError, pipeVars, writerVars, worldVars, storageVars,
     Buffers, Ends, Empty, TypeOK, WriterAt
<1>5. CASE SendRow
  BY <1>0, <1>5 DEF SendRow, pipeVars, writerVars, worldVars, storageVars, Buffers, Ends,
     Empty, TypeOK, WriterAt
<1>6. CASE ReceiveRow
  BY <1>0, <1>6 DEF ReceiveRow, pipeVars, writerVars, worldVars, storageVars, Buffers,
     Ends, Empty, TypeOK, WriterAt
<1>7. CASE ReceiveEnd
  BY <1>0, <1>7 DEF ReceiveEnd, pipeVars, writerVars, worldVars, storageVars, Buffers,
     Ends, Empty, TypeOK, WriterAt
<1>8. CASE WriteBatch
  BY <1>0, <1>8 DEF WriteBatch, SendError, pipeVars, writerVars, worldVars, storageVars,
     Buffers, Ends, Empty, TypeOK, WriterAt
<1>9. CASE FlushPartition
  BY <1>0, <1>9, FlushEffect DEF pipeVars, writerVars, worldVars, storageVars, Buffers,
     Ends, Empty, TypeOK, WriterAt
<1>10. CASE FlushEnd
  BY <1>0, <1>10 DEF FlushEnd, SendError, pipeVars, writerVars, worldVars, storageVars,
     Buffers, Ends, Empty, TypeOK, WriterAt
<1>11. CASE ContextDone
  BY <1>0, <1>11 DEF ContextDone, pipeVars, writerVars, worldVars, storageVars, Buffers,
     Ends, Empty, TypeOK, WriterAt
<1>12. CASE Tick
  BY <1>0, <1>12 DEF Tick, pipeVars, writerVars, worldVars, storageVars, Buffers, Ends,
     Empty, TypeOK, WriterAt
<1>13. CASE Others
  BY <1>0, <1>13, OthersEffect DEF pipeVars, writerVars, worldVars, storageVars, Buffers,
     Ends, Empty, TypeOK, WriterAt
<1>14. CASE UNCHANGED vars
  BY <1>0, <1>14 DEF vars, pipeVars, writerVars, worldVars, storageVars, Buffers, Ends,
     Empty, TypeOK, WriterAt
<1> QED
  BY <1>1, <1>2, <1>3, <1>4, <1>5, <1>6, <1>7, <1>8, <1>9, <1>10, <1>11, <1>12, <1>13,
     <1>14 DEF Next, Main, Reader, Writer

\* Names are counted up.
LEMMA NamesStep == ExportInv /\ [Next]_vars => Names'
<1> SUFFICES ASSUME ExportInv, [Next]_vars PROVE Names'
  OBVIOUS
<1>0. TypeOK /\ Names /\ OneFile /\ table' = table /\ format' = format
  BY Fixed DEF ExportInv
<1> USE FixedPartitions
<1>1. CASE Open
  BY <1>0, <1>1 DEF Open, Return, GetConnection, LocalGetConnection, GcsGetConnection,
     pipeVars, writerVars, worldVars, storageVars, Names, OneFile, Files, TypeOK
<1>2. CASE StartPipeline
  BY <1>0, <1>2 DEF StartPipeline, Return, pipeVars, writerVars, worldVars, storageVars,
     Names, OneFile, Files, TypeOK
<1>3. CASE Join
  BY <1>0, <1>3 DEF Join, Return, pipeVars, writerVars, worldVars, storageVars, Names,
     OneFile, Files, TypeOK
<1>4. CASE ReadRow
  BY <1>0, <1>4 DEF ReadRow, SendError, pipeVars, writerVars, worldVars, storageVars,
     Names, OneFile, Files, TypeOK
<1>5. CASE SendRow
  BY <1>0, <1>5 DEF SendRow, pipeVars, writerVars, worldVars, storageVars, Names, OneFile,
     Files, TypeOK
<1>6. CASE ReceiveRow
  BY <1>0, <1>6 DEF ReceiveRow, pipeVars, writerVars, worldVars, storageVars, Names,
     OneFile, Files, TypeOK
<1>7. CASE ReceiveEnd
  BY <1>0, <1>7 DEF ReceiveEnd, pipeVars, writerVars, worldVars, storageVars, Names,
     OneFile, Files, TypeOK
<1>8. CASE WriteBatch
  BY <1>0, <1>8 DEF WriteBatch, SendError, pipeVars, writerVars, worldVars, storageVars,
     Names, OneFile, Files, TypeOK
<1>9. CASE FlushPartition
  <2>0. PICK k \in toFlush :
              \/ UNCHANGED <<objects, sequence, uuids>>
              \/ \E path \in FileNames(k) :
                   /\ sequence' = [sequence EXCEPT ![k] = @ + 1] /\ uuids' = uuids + 1
                   /\ (\E rows : objects' = Stored(path, rows)) \/ UNCHANGED objects
    BY <1>9, FlushEffect
  <2>1. k \in Partitions /\ sequence \in [Partitions -> Nat] /\ uuids \in Nat
    BY <1>0 DEF TypeOK
  <2>2. CASE UNCHANGED <<objects, sequence, uuids>>
    BY <1>0, <2>2 DEF Names, Files
  <2>3. ASSUME NEW path \in FileNames(k), sequence' = [sequence EXCEPT ![k] = @ + 1],
               uuids' = uuids + 1, (\E rows : objects' = Stored(path,
                  rows)) \/ UNCHANGED objects
        PROVE  Names'
    <3>1. Files' \subseteq Files \cup {path}
      BY <2>3, StoredFacts DEF Files
    <3>2. /\ path.part = k /\ path.uuid \in Nat /\ path.sequence \in Nat
          /\ "uuid" \in format => path.uuid = uuids + 1
          /\ "sequence" \in format => path.sequence = sequence[k]
      BY <2>1, NameFacts
    <3>3. sequence'[k] = sequence[k] + 1 /\ \A j \in Partitions : j # k => sequence'[j] = sequence[j]
      BY <2>1, <2>3
    <3>4. sequence[k] \in Nat /\ \A p \in Files : p.part \in Partitions
      BY <1>0, <2>1 DEF OneFile
    <3>5. ASSUME NEW p \in Files
          PROVE  /\ p.uuid \in Nat /\ p.sequence \in Nat
                 /\ "uuid" \in format => p.uuid <= uuids + 1
                 /\ "sequence" \in format => p.sequence < sequence'[p.part]
      <4>1. /\ p.uuid \in Nat /\ p.sequence \in Nat /\ p.part \in Partitions
            /\ "uuid" \in format => p.uuid <= uuids
            /\ "sequence" \in format => p.sequence < sequence[p.part]
        BY <1>0, <3>4 DEF Names
      <4>2. CASE p.part = k
        BY <2>1, <3>3, <3>4, <4>1, <4>2
      <4>3. CASE p.part # k
        BY <2>1, <3>3, <4>1, <4>3
      <4> QED
        BY <4>2, <4>3
    <3>6. ASSUME NEW p \in Files'
          PROVE  /\ p.uuid \in Nat /\ p.sequence \in Nat
                 /\ "uuid" \in format => p.uuid <= uuids'
                 /\ "sequence" \in format => p.sequence < sequence'[p.part]
      BY <2>1, <2>3, <3>1, <3>2, <3>3, <3>4, <3>5
    <3> QED
      BY <1>0, <3>6 DEF Names
  <2> QED
    BY <2>0, <2>2, <2>3
<1>10. CASE FlushEnd
  BY <1>0, <1>10 DEF FlushEnd, SendError, pipeVars, writerVars, worldVars, storageVars,
     Names, OneFile, Files, TypeOK
<1>11. CASE ContextDone
  BY <1>0, <1>11 DEF ContextDone, pipeVars, writerVars, worldVars, storageVars, Names,
     OneFile, Files, TypeOK
<1>12. CASE Tick
  BY <1>0, <1>12 DEF Tick, pipeVars, writerVars, worldVars, storageVars, Names, OneFile,
     Files, TypeOK
<1>13. CASE Others
  BY <1>0, <1>13, OthersEffect DEF pipeVars, writerVars, worldVars, storageVars, Names,
     OneFile, Files, TypeOK
<1>14. CASE UNCHANGED vars
  BY <1>0, <1>14 DEF vars, pipeVars, writerVars, worldVars, storageVars, Names, OneFile,
     Files, TypeOK
<1> QED
  BY <1>1, <1>2, <1>3, <1>4, <1>5, <1>6, <1>7, <1>8, <1>9, <1>10, <1>11, <1>12, <1>13,
     <1>14 DEF Next, Main, Reader, Writer

\* A flushed row waits no longer, and no batch has a row of an earlier one.
LEMMA OneFileStep == ExportInv /\ [Next]_vars => OneFile'
<1> SUFFICES ASSUME ExportInv, [Next]_vars PROVE OneFile'
  OBVIOUS
<1>0. TypeOK /\ Ends /\ Buffers /\ RowsKept /\ OneFile /\ table' = table /\ format' = format
  BY Fixed DEF ExportInv
<1> USE FixedPartitions
<1>1. CASE Open
  BY <1>0, <1>1 DEF Open, Return, GetConnection, LocalGetConnection, GcsGetConnection,
     pipeVars, writerVars, worldVars, storageVars, OneFile, Buffers, Files, TypeOK, Ends
<1>2. CASE StartPipeline
  BY <1>0, <1>2 DEF StartPipeline, Return, pipeVars, writerVars, worldVars, storageVars,
     OneFile, Buffers, Files, TypeOK, Ends
<1>3. CASE Join
  BY <1>0, <1>3 DEF Join, Return, pipeVars, writerVars, worldVars, storageVars, OneFile,
     Buffers, Files, TypeOK, Ends
<1>4. CASE ReadRow
  BY <1>0, <1>4 DEF ReadRow, SendError, pipeVars, writerVars, worldVars, storageVars,
     OneFile, Buffers, Files, TypeOK, Ends
<1>5. CASE SendRow
  BY <1>0, <1>5 DEF SendRow, pipeVars, writerVars, worldVars, storageVars, OneFile,
     Buffers, Files, TypeOK, Ends
<1>6. CASE ReceiveRow
  BY <1>0, <1>6 DEF ReceiveRow, pipeVars, writerVars, worldVars, storageVars, OneFile,
     Buffers, Files, TypeOK, Ends
<1>7. CASE ReceiveEnd
  BY <1>0, <1>7 DEF ReceiveEnd, pipeVars, writerVars, worldVars, storageVars, OneFile,
     Buffers, Files, TypeOK, Ends
<1>8. CASE WriteBatch
  <2>1. PICK low \in Nat : Positions(low) /\ InFiles(low)
    BY <1>0 DEF RowsKept
  <2>2. /\ batch \in Seq(Nat) /\ Len(batch) \in Nat /\ buffered = Empty /\ toFlush = {}
        /\ UNCHANGED objects /\ (toFlush' = {} \/ toFlush' \subseteq Partitions)
    BY <1>0, <1>8 DEF TypeOK, Buffers, WriteBatch, storageVars
  <2>3. \A r \in ToSet(batch) : r \in Nat /\ r > Put(low)
    BY <2>1, <2>2 DEF Positions, Put, ToSet
  <2>4. \A k \in Partitions : buffered'[k] \subseteq ToSet(batch)
    BY <1>8, <2>2 DEF WriteBatch, Fitting, Empty
  <2>5. Put(low) \in Int
    BY <2>2 DEF Put
  <2>6. \A k \in toFlush' : \A p \in Files' : buffered'[k] \cap objects'[p] = {}
    BY <2>1, <2>2, <2>3, <2>4, <2>5 DEF InFiles, Files
  <2> QED
    BY <1>0, <2>2, <2>6 DEF OneFile, Files
<1>9. CASE FlushPartition
  <2>0. PICK k \in toFlush :
              /\ toFlush' = toFlush \ {k} /\ buffered' = buffered
              /\ \/ UNCHANGED objects
                 \/ \E path \in FileNames(k),
                    rows \in SUBSET buffered[k] : objects' = Stored(path, rows)
    BY <1>9, FlushEffect
  <2>1. k \in Partitions /\ toFlush \subseteq Partitions
    BY <1>0 DEF TypeOK
  <2>2. CASE UNCHANGED objects
    BY <1>0, <2>0, <2>2 DEF OneFile, Files
  <2>3. ASSUME NEW path \in FileNames(k), NEW rows \in SUBSET buffered[k],
               objects' = Stored(path, rows)
        PROVE  OneFile'
    <3>1. path # OldPath /\ path.part = k
      BY <2>1, NameFacts
    <3>2. /\ DOMAIN objects' = DOMAIN objects \cup {path} /\ objects'[path] = rows
          /\ \A p \in DOMAIN objects : p # path => objects'[p] = objects[p]
      BY <2>3, StoredFacts
    <3>3. \A p \in Files : buffered[k] \cap objects[p] = {}
      BY <1>0 DEF OneFile
    <3>4. \A j \in toFlush' : j # k /\ buffered[j] \cap buffered[k] = {}
      BY <1>0, <2>0, <2>1 DEF Buffers
    <3>5. \A p \in Files' : p = path \/ (p \in Files /\ objects'[p] = objects[p])
      BY <3>2 DEF Files
    <3>6. \A p \in Files' : p.part \in Partitions
      BY <1>0, <2>1, <3>1, <3>5 DEF OneFile
    <3>7. \A p, q \in Files' : p # q => objects'[p] \cap objects'[q] = {}
      BY <1>0, <3>2, <3>3, <3>5 DEF OneFile
    <3>8. \A j \in toFlush' : \A p \in Files' : buffered'[j] \cap objects'[p] = {}
      BY <1>0, <2>0, <3>2, <3>4, <3>5 DEF OneFile
    <3>9. OldPath \in DOMAIN objects' => objects'[OldPath] = {}
      BY <1>0, <3>1, <3>2 DEF OneFile
    <3> QED
      BY <1>0, <3>6, <3>7, <3>8, <3>9 DEF OneFile
  <2> QED
    BY <2>0, <2>2, <2>3
<1>10. CASE FlushEnd
  BY <1>0, <1>10 DEF FlushEnd, SendError, pipeVars, writerVars, worldVars, storageVars,
     OneFile, Buffers, Files, TypeOK, Ends
<1>11. CASE ContextDone
  BY <1>0, <1>11 DEF ContextDone, pipeVars, writerVars, worldVars, storageVars, OneFile,
     Buffers, Files, TypeOK, Ends
<1>12. CASE Tick
  BY <1>0, <1>12 DEF Tick, pipeVars, writerVars, worldVars, storageVars, OneFile, Buffers,
     Files, TypeOK, Ends
<1>13. CASE Others
  BY <1>0, <1>13, OthersEffect DEF pipeVars, writerVars, worldVars, storageVars, OneFile,
     Buffers, Files, TypeOK, Ends
<1>14. CASE UNCHANGED vars
  BY <1>0, <1>14 DEF vars, pipeVars, writerVars, worldVars, storageVars, OneFile, Buffers,
     Files, TypeOK, Ends
<1> QED
  BY <1>1, <1>2, <1>3, <1>4, <1>5, <1>6, <1>7, <1>8, <1>9, <1>10, <1>11, <1>12, <1>13,
     <1>14 DEF Next, Main, Reader, Writer

\* No row is passed over: what is read is sent, received, buffered and stored in order.
LEMMA RowsKeptStep == ExportInv /\ [Next]_vars => RowsKept'
<1> SUFFICES ASSUME ExportInv, [Next]_vars PROVE RowsKept'
  OBVIOUS
<1>0. TypeOK /\ Ends /\ Buffers /\ RowsKept /\ OneFile /\ table' = table /\ format' = format
  BY Fixed DEF ExportInv
<1> USE FixedPartitions
<1>1. CASE Open
  <2>1. MovesNoRow
    BY <1>0, <1>1 DEF MovesNoRow, Open, Return, GetConnection, LocalGetConnection,
       GcsGetConnection, pipeVars, writerVars, worldVars, Files, storageVars
  <2> QED
    BY <1>0, <2>1, RowsSame
<1>2. CASE StartPipeline
  <2>1. MovesNoRow
    BY <1>0, <1>2 DEF MovesNoRow, StartPipeline, Return, Ends, storageVars, Files
  <2> QED
    BY <1>0, <2>1, RowsSame
<1>3. CASE Join
  <2>1. MovesNoRow
    BY <1>0, <1>3 DEF MovesNoRow, Join, pipeVars, writerVars, worldVars, storageVars, Files
  <2> QED
    BY <1>0, <2>1, RowsSame
<1>4. CASE ReadRow
  <2>1. PICK low \in Nat : Positions(low) /\ InFiles(low) /\ AllKept(low)
    BY <1>0 DEF RowsKept
  <2>2. /\ reader = "read" /\ pos \in Nat /\ errChan \in Nat /\ Len(chan) \in Nat /\ Len(table) \in Nat
        /\ UNCHANGED <<objects, chan, batch, buffered, writer, flushErr, toFlush, ctxDone>>
    BY <1>0, <1>4 DEF TypeOK, ReadRow, storageVars, writerVars
  <2>3. low + Len(chan) = pos /\ Len(batch) <= low /\ Put(low)' = Put(low)
    BY <2>1, <2>2 DEF Positions, Put
  <2>4. Fine' => Fine
    BY <1>4, <2>2 DEF Fine, ReadRow, SendError
  <2>5. CASE pos' = pos + 1 /\ item' = pos + 1 /\ reader' = "send"
    BY <1>0, <2>1, <2>2, <2>3, <2>4, <2>5, KeptSame DEF RowsKept, Positions, Files
  <2>6. CASE pos' = pos /\ item' = item /\ reader' = "done" /\ (pos = N \/ ~Fine')
    BY <1>0, <2>1, <2>2, <2>3, <2>4, <2>6, KeptSame DEF RowsKept, Positions, Files, N
  <2> QED
    BY <1>4, <2>2, <2>5, <2>6 DEF ReadRow, SendError, Fine
<1>5. CASE SendRow
  <2>1. PICK low \in Nat : Positions(low) /\ InFiles(low) /\ AllKept(low)
    BY <1>0 DEF RowsKept
  <2>2. /\ chan \in Seq(Nat) /\ batch \in Seq(Nat) /\ pos \in Nat /\ item \in Nat /\ errChan \in Nat
        /\ Len(chan) \in Nat /\ reader = "send"
        /\ UNCHANGED <<objects, batch, pos, buffered, writer, flushErr, toFlush, ctxDone>>
    BY <1>0, <1>5 DEF TypeOK, SendRow, storageVars, writerVars, worldVars
  <2>3. item = pos /\ low + Len(chan) = pos - 1
    BY <2>1, <2>2 DEF Positions
  <2>4. CASE chan' = Append(chan, item) /\ reader' = "read" /\ errChan' = errChan
    <3>1. Len(chan') = Len(chan) + 1 /\ \A i \in DOMAIN chan' : chan'[i] = low + i
      BY <2>1, <2>2, <2>3, <2>4 DEF Positions
    <3>2. Positions(low)'
      BY <2>1, <2>2, <2>3, <2>4, <3>1 DEF Positions, Put
    <3> QED
      BY <1>0, <2>1, <2>2, <2>4, <3>2, KeptSame DEF RowsKept, Fine, Files
  <2>5. CASE chan' = chan /\ ctxDone /\ reader' = "done"
    <3>1. Positions(low)'
      BY <2>1, <2>2, <2>3, <2>5 DEF Positions, Put, Fine
    <3> QED
      BY <1>0, <2>1, <2>2, <2>5, <3>1, KeptSame DEF RowsKept, Fine, Files
  <2> QED
    BY <1>5, <2>4, <2>5 DEF SendRow
<1>6. CASE ReceiveRow
  <2>1. PICK low \in Nat : Positions(low) /\ InFiles(low) /\ AllKept(low)
    BY <1>0 DEF RowsKept
  <2>2. /\ chan \in Seq(Nat) /\ chan # <<>> /\ batch \in Seq(Nat) /\ pos \in Nat
        /\ UNCHANGED <<objects, pos, item, reader, buffered, flushErr, toFlush, ctxDone,
           errChan>>
    BY <1>0, <1>6 DEF TypeOK, ReceiveRow, storageVars, worldVars
  <2>3. chan' = Tail(chan) /\ batch' = Append(batch, Head(chan)) /\ writer = "receive"
    BY <1>6 DEF ReceiveRow
  <2>4. /\ Len(chan) \in Nat /\ Len(chan) # 0 /\ Len(batch) \in Nat /\ Head(chan) = chan[1]
        /\ Len(chan') = Len(chan) - 1
        /\ \A i \in DOMAIN chan' : chan'[i] = chan[i + 1] /\ i + 1 \in DOMAIN chan
        /\ Len(batch') = Len(batch) + 1 /\ batch'[Len(batch) + 1] = chan[1]
        /\ \A i \in DOMAIN batch : batch'[i] = batch[i]
        /\ DOMAIN batch' = DOMAIN batch \cup {Len(batch) + 1} /\ DOMAIN batch = 1 .. Len(batch)
    BY <2>2, <2>3
  <2>5. chan[1] = low + 1
    BY <2>1, <2>2, <2>4 DEF Positions
  <2>6. \A i \in DOMAIN chan' : chan'[i] = (low + 1) + i
    BY <2>1, <2>2, <2>3, <2>4 DEF Positions
  <2>7. \A i \in DOMAIN batch' : batch'[i] = ((low + 1) - Len(batch')) + i
    BY <2>1, <2>4, <2>5 DEF Positions, Put
  <2>8. (low + 1) - Len(batch') = low - Len(batch) /\ low + 1 \in Nat
    BY <2>4
  <2>9. Positions(low + 1)'
    <3>1. Put(low + 1)' = (low + 1) - Len(batch') /\ Fine' = Fine
      BY <2>2 DEF Put, Fine
    <3>2. Len(batch') <= low + 1 /\ (low + 1) + Len(chan') = low + Len(chan)
      BY <2>1, <2>4 DEF Positions
    <3> QED
      BY <1>0, <2>1, <2>2, <2>6, <2>7, <3>1, <3>2 DEF Positions
  <2>10. InFiles(low + 1)' /\ AllKept(low + 1)'
    <3>1. Put(low + 1)' = Put(low)
      BY <2>8 DEF Put
    <3>2. InFiles(low + 1)'
      BY <1>0, <2>1, <2>2, <3>1 DEF InFiles
    <3>3. Fine' = Fine /\ Files' = Files
      BY <2>2 DEF Fine, Files
    <3>4. AllKept(low + 1)'
      BY <1>0, <2>1, <2>2, <2>3, <3>1, <3>3 DEF AllKept
    <3> QED
      BY <3>2, <3>4
  <2> QED
    BY <2>8, <2>9, <2>10 DEF RowsKept
<1>7. CASE ReceiveEnd
  <2>1. MovesNoRow
    BY <1>0, <1>7 DEF MovesNoRow, ReceiveEnd, pipeVars, worldVars, storageVars, Files
  <2> QED
    BY <1>0, <2>1, RowsSame
<1>8. CASE WriteBatch
  <2>1. PICK low \in Nat : Positions(low) /\ InFiles(low) /\ AllKept(low)
    BY <1>0 DEF RowsKept
  <2>2. /\ chan \in Seq(Nat) /\ batch \in Seq(Nat) /\ Len(batch) \in Nat /\ pos \in Nat
        /\ pos <= Len(table) /\ Len(table) \in Nat /\ errChan \in Nat /\ Len(chan) \in Nat
        /\ UNCHANGED <<objects, pos, item, reader, chan, flushErr, ctxDone>>
        /\ buffered = Empty /\ batch' = <<>> /\ Len(batch') = 0 /\ writer = "write"
    BY <1>0, <1>8 DEF TypeOK, WriteBatch, storageVars, pipeVars, worldVars, Buffers
  <2>3. /\ DOMAIN batch = 1 .. Len(batch) /\ Put(low) = low - Len(batch) /\ Put(low) \in Nat
        /\ Len(batch) <= low /\ low + Len(chan) <= pos
    BY <2>1, <2>2 DEF Put, Positions
  <2>4. ToSet(batch) = {r \in Nat : Put(low) < r /\ r <= low}
    <3>1. ASSUME NEW r \in ToSet(batch) PROVE r \in Nat /\ Put(low) < r /\ r <= low
      BY <2>1, <2>2, <2>3 DEF ToSet, Positions
    <3>2. ASSUME NEW r \in Nat, Put(low) < r, r <= low PROVE r \in ToSet(batch)
      <4>1. r - Put(low) \in DOMAIN batch
        BY <2>2, <2>3, <3>2
      <4>2. batch[r - Put(low)] = Put(low) + (r - Put(low))
        BY <2>1, <4>1 DEF Positions
      <4>3. Put(low) + (r - Put(low)) = r
        BY <2>3
      <4> QED
        BY <4>1, <4>2, <4>3 DEF ToSet
    <3> QED
      BY <3>1, <3>2
  <2>5. \A k \in Partitions : buffered'[k] = {r \in Fitting(batch) : PartitionKey(r) = k}
    BY <1>8, <2>2 DEF WriteBatch, Empty
  <2>6. Positions(low)' /\ Put(low)' = low
    <3>1. (Fine' => Fine) /\ Put(low)' = low /\ DOMAIN batch' = {}
      BY <1>8, <2>2 DEF Put, Fine, WriteBatch, SendError
    <3> QED
      BY <1>0, <2>1, <2>2, <2>3, <3>1 DEF Positions
  <2>7. InFiles(low)'
    <3>1. \A k \in Partitions : \A r \in buffered'[k] : 1 <= r /\ r <= low
      BY <2>3, <2>4, <2>5 DEF Fitting
    <3>2. \A p \in DOMAIN objects : \A r \in objects[p] : r \in Nat /\ 1 <= r /\ r <= low
      BY <2>1, <2>2, <2>3 DEF InFiles
    <3> QED
      BY <1>0, <2>2, <2>6, <3>1, <3>2 DEF InFiles
  <2>8. AllKept(low)'
    <3>1. CASE Fitting(batch) # ToSet(batch)
      <4>1. ~Fine'
        BY <1>8, <2>2, <3>1 DEF WriteBatch, SendError, Fine
      <4> QED
        BY <4>1 DEF AllKept
    <3>2. CASE Fitting(batch) = ToSet(batch)
      <4>1. writer' = "flush" /\ toFlush' = {k \in Partitions : buffered'[k] # {}} /\ errChan' = errChan
        BY <1>8, <3>2 DEF WriteBatch
      <4>2. ASSUME NEW r \in 1 .. low,
         r > Put(low) PROVE \E k \in toFlush' : r \in buffered'[k]
        <5>1. r \in ToSet(batch) /\ r \in Fitting(batch)
          BY <2>3, <2>4, <3>2, <4>2
        <5>2. ~Unfit(r) /\ r \in Rows
          BY <2>2, <2>3, <5>1 DEF Fitting, Rows, N
        <5>3. PartitionKey(r) \in Partitions
          BY <5>2, KeyFacts
        <5>4. r \in buffered'[PartitionKey(r)]
          BY <2>5, <5>1, <5>3
        <5> QED
          BY <4>1, <5>3, <5>4
      <4>3. ASSUME NEW r \in 1 .. Put(low), Fine,
         Distinct PROVE \E p \in Files : r \in objects[p]
        BY <2>1, <2>2, <4>3 DEF AllKept
      <4>4. ASSUME NEW r \in 1 .. low, Fine, Distinct
            PROVE  (\E p \in Files : r \in objects[p]) \/ \E k \in toFlush' : r \in buffered'[k]
        BY <2>3, <4>2, <4>3, <4>4
      <4>5. Fine' = Fine /\ Files' = Files
        BY <2>2, <4>1 DEF Fine, Files
      <4> QED
        BY <1>0, <2>2, <2>6, <4>1, <4>4, <4>5 DEF AllKept
    <3> QED
      BY <3>1, <3>2
  <2> QED
    BY <2>6, <2>7, <2>8 DEF RowsKept
<1>9. CASE FlushPartition
  <2>1. PICK low \in Nat : Positions(low) /\ InFiles(low) /\ AllKept(low)
    BY <1>0 DEF RowsKept
  <2>2. /\ UNCHANGED <<chan, batch, pos, item, reader, writer, buffered, ctxDone, errChan>>
        /\ writer = "flush"
    BY <1>9, FlushEffect DEF pipeVars
  <2>3. PICK k \in toFlush :
              /\ toFlush' = toFlush \ {k}
              /\ \/ UNCHANGED objects /\ flushErr' = TRUE
                 \/ \E path \in FileNames(k), rows \in SUBSET buffered[k] :
                      /\ objects' = Stored(path, rows)
                      /\ flushErr' = TRUE \/ (rows = buffered[k] /\ flushErr' = flushErr)
    BY <1>9, FlushEffect
  <2>4. Positions(low)' /\ Put(low)' = Put(low) /\ Fine' = Fine
    BY <1>0, <2>1, <2>2 DEF Positions, Put, Fine
  <2>5. k \in Partitions /\ buffered[k] \subseteq Nat
    BY <1>0 DEF TypeOK
  <2>6. CASE UNCHANGED objects /\ flushErr' = TRUE
    BY <1>0, <2>1, <2>2, <2>4, <2>6 DEF RowsKept, InFiles, AllKept
  <2>7. ASSUME NEW path \in FileNames(k), NEW rows \in SUBSET buffered[k],
               objects' = Stored(path, rows),
               flushErr' = TRUE \/ (rows = buffered[k] /\ flushErr' = flushErr)
        PROVE  RowsKept'
    <3>1. path # OldPath /\ (Distinct => path \notin DOMAIN objects)
      BY <2>5, NameFacts
    <3>2. /\ DOMAIN objects' = DOMAIN objects \cup {path} /\ objects'[path] = rows
          /\ \A p \in DOMAIN objects : p # path => objects'[p] = objects[p]
      BY <2>7, StoredFacts
    <3>3. \A p \in DOMAIN objects' : \A r \in objects'[p] : r \in Nat /\ 1 <= r /\ r <= Put(low)
      BY <2>1, <2>5, <3>2 DEF InFiles
    <3>4. InFiles(low)'
      BY <1>0, <2>1, <2>2, <2>4, <3>3 DEF InFiles
    <3>5. AllKept(low)'
      <4>1. SUFFICES ASSUME Fine, Distinct, flushErr' # TRUE, NEW r \in 1 .. Put(low)
                     PROVE  (\E p \in Files' : r \in objects'[p]) \/ \E j \in toFlush' : r \in buffered[j]
        BY <1>0, <2>2, <2>4 DEF AllKept
      <4>2. flushErr' = flushErr /\ rows = buffered[k] /\ path \notin DOMAIN objects /\ flushErr # TRUE
        BY <2>7, <3>1, <4>1
      <4>3. (\E p \in Files : r \in objects[p]) \/ \E j \in toFlush : r \in buffered[j]
        BY <1>0, <2>1, <4>1, <4>2 DEF AllKept, TypeOK
      <4>4. ASSUME NEW p \in Files, r \in objects[p] PROVE p \in Files' /\ r \in objects'[p]
        BY <3>2, <4>2, <4>4 DEF Files
      <4>5. path \in Files'
        BY <3>1, <3>2 DEF Files
      <4>6. ASSUME NEW j \in toFlush,
         r \in buffered[j] PROVE j \in toFlush' \/ r \in objects'[path]
        BY <2>3, <3>2, <4>2, <4>6
      <4> QED
        BY <4>3, <4>4, <4>5, <4>6
    <3> QED
      BY <2>4, <3>4, <3>5 DEF RowsKept
  <2> QED
    BY <2>3, <2>6, <2>7
<1>10. CASE FlushEnd
  <2>1. PICK low \in Nat : Positions(low) /\ InFiles(low) /\ AllKept(low)
    BY <1>0 DEF RowsKept
  <2>2. /\ UNCHANGED <<objects, chan, batch, pos, item, reader, ctxDone>>
        /\ writer = "flush" /\ toFlush = {}
        /\ buffered' = Empty /\ errChan \in Nat
    BY <1>0, <1>10 DEF FlushEnd, pipeVars, storageVars, worldVars, TypeOK
  <2>3. Positions(low)' /\ Put(low)' = Put(low)
    BY <1>0, <1>10, <2>1, <2>2 DEF Positions, Put, Fine, FlushEnd, SendError
  <2>4. InFiles(low)'
    BY <1>0, <2>1, <2>2, <2>3 DEF InFiles, Empty
  <2>5. CASE flushErr /\ SendError
    BY <2>2, <2>3, <2>4, <2>5 DEF RowsKept, AllKept, SendError, Fine
  <2>6. CASE ~flushErr /\ errChan' = errChan
    BY <1>0, <2>1, <2>2, <2>3, <2>4, <2>6 DEF RowsKept, AllKept, Fine, Files
  <2> QED
    BY <1>10, <2>5, <2>6 DEF FlushEnd
<1>11. CASE ContextDone
  <2>1. MovesNoRow
    BY <1>0, <1>11 DEF MovesNoRow, ContextDone, pipeVars, writerVars, storageVars, Files
  <2> QED
    BY <1>0, <2>1, RowsSame
<1>12. CASE Tick
  <2>1. MovesNoRow
    BY <1>0, <1>12 DEF MovesNoRow, Tick, pipeVars, writerVars, storageVars, Files
  <2> QED
    BY <1>0, <2>1, RowsSame
<1>13. CASE Others
  <2>1. MovesNoRow
    BY <1>0, <1>13, OthersEffect DEF MovesNoRow, pipeVars, writerVars, worldVars
  <2> QED
    BY <1>0, <2>1, RowsSame
<1>14. CASE UNCHANGED vars
  <2>1. MovesNoRow
    BY <1>0, <1>14 DEF MovesNoRow, vars, pipeVars, writerVars, worldVars, storageVars, Files
  <2> QED
    BY <1>0, <2>1, RowsSame
<1> QED
  BY <1>1, <1>2, <1>3, <1>4, <1>5, <1>6, <1>7, <1>8, <1>9, <1>10, <1>11, <1>12, <1>13,
     <1>14 DEF Next, Main, Reader, Writer

-----------------------------------------------------------------------------
(* The theorems.                                                           *)

\* Nothing has been read, and the storage holds one old object without rows.
LEMMA ExportStart == Init => ExportInv
<1> SUFFICES ASSUME Init PROVE ExportInv
  OBVIOUS
<1>1. objects = [p \in {OldPath} |-> {}] /\ Files = {}
  BY DEF Init, StorageInit, Files
<1>2. TypeOK
  <2>1. table \in Seq(Int) /\ Len(table) \in Nat /\ pos = 0 /\ item = 0
    BY ExportAssumption DEF Init
  <2>2. chan \in Seq(Nat) /\ batch \in Seq(Nat)
    BY DEF Init
  <2>3. buffered \in [Partitions -> SUBSET Nat] /\ sequence \in [Partitions -> Nat]
    BY DEF Init, Empty
  <2>4. /\ chanClosed = FALSE /\ flushErr = FALSE /\ ctxDone = FALSE /\ toFlush = {}
        /\ uuids = 0 /\ errChan = 0 /\ clock = 0 /\ reader = "none" /\ writer = "none"
    BY DEF Init
  <2>5. pos \in Nat /\ pos <= Len(table) /\ item \in Nat
    BY <2>1
  <2>6. uuids \in Nat /\ errChan \in Nat /\ clock \in Nat
    BY <2>4
  <2>7. /\ chanClosed \in BOOLEAN /\ flushErr \in BOOLEAN /\ ctxDone \in BOOLEAN
        /\ toFlush \subseteq Partitions
    BY <2>4
  <2>8. reader \in ReaderAt /\ writer \in WriterAt
    BY <2>4 DEF ReaderAt, WriterAt
  <2> QED
    BY <2>1, <2>2, <2>3, <2>5, <2>6, <2>7, <2>8 DEF TypeOK
<1>3. Ends /\ Buffers
  BY DEF Init, Ends, Buffers, Empty
<1>4. OneFile /\ Names
  BY <1>1 DEF Init, OneFile, Names
<1>5. RowsKept
  <2>1. /\ Len(chan) = 0 /\ Len(batch) = 0 /\ DOMAIN chan = {} /\ DOMAIN batch = {} /\ pos = 0
        /\ reader = "none" /\ buffered = Empty
    BY DEF Init
  <2>2. Put(0) = 0 /\ Positions(0)
    BY <2>1 DEF Put, Positions
  <2>3. InFiles(0)
    BY <1>1, <2>1 DEF InFiles, Empty
  <2>4. AllKept(0)
    BY <2>2 DEF AllKept
  <2> QED
    BY <2>2, <2>3, <2>4 DEF RowsKept
<1> QED
  BY <1>2, <1>3, <1>4, <1>5 DEF ExportInv

\* parquet_export_tasklet.go 556-699, parquet_writer.go 186-280: at every moment
\* a row is unread, in the channel, in the batch, in one buffer or in one file,
\* in the order of the table, and while nothing has failed no row is lost.
THEOREM ExportKept == Spec => []ExportInv
<1>1. Init => ExportInv
  BY ExportStart
<1>2. ExportInv /\ [Next]_vars => ExportInv'
  BY TypeStep, EndsStep, BuffersStep, RowsKeptStep, OneFileStep, NamesStep DEF ExportInv
<1> QED
  BY <1>1, <1>2, PTL DEF Spec

\* parquet_writer.go 277: whatever fails and whatever the format, a row is in one
\* file at most.
THEOREM ExportedOnce == Spec => []RowsExportedOnce
<1>1. ExportInv => RowsExportedOnce
  BY DEF ExportInv, OneFile, Files, RowsExportedOnce, ListObjects, Download
<1> QED
  BY <1>1, ExportKept, PTL

\* parquet_export_tasklet.go 556-699, parquet_writer.go 216-299: an export that
\* ends COMPLETED without a cancellation has every row in a file, whatever the
\* table, the size of the channel and the partitions, when the format has a uuid
\* or a sequence.
THEOREM CompletedExports == Spec => []ExportComplete
<1>1. ASSUME ExportInv PROVE ExportComplete
  <2>1. SUFFICES ASSUME exit = "COMPLETED", ~ctxDone, Distinct PROVE Exported = Rows
    BY DEF ExportComplete
  <2>2. TypeOK /\ Ends /\ RowsKept /\ OneFile
    BY <1>1 DEF ExportInv
  <2>3. reader = "done" /\ writer = "done" /\ Fine
    BY <2>1, <2>2 DEF Ends, Fine
  <2>4. chan = <<>> /\ batch = <<>> /\ Len(chan) = 0 /\ Len(batch) = 0
    BY <2>2, <2>3 DEF Ends
  <2>5. PICK low \in Nat : Positions(low) /\ InFiles(low) /\ AllKept(low)
    BY <2>2 DEF RowsKept
  <2>6. low = Len(table) /\ Put(low) = low /\ pos \in Nat /\ Rows = 1 .. low
    BY <2>2, <2>3, <2>4, <2>5 DEF Positions, Put, Rows, N, TypeOK
  <2>7. Exported = UNION {objects[p] : p \in Files}
    <3>1. ListObjects(Partitions) \ {OldPath} = Files
      BY <2>2 DEF OneFile, Files, ListObjects
    <3> QED
      BY <3>1 DEF Exported, Download
  <2>8. ASSUME NEW r \in Rows PROVE r \in Exported
    BY <2>1, <2>3, <2>5, <2>6, <2>7 DEF AllKept
  <2>9. ASSUME NEW r \in Exported PROVE r \in Rows
    <3>1. PICK p \in Files : r \in objects[p]
      BY <2>7
    <3>2. r \in Nat /\ 1 <= r /\ r <= low
      BY <2>5, <2>6, <3>1 DEF InFiles, Files
    <3> QED
      BY <2>6, <3>2
  <2> QED
    BY <2>8, <2>9
<1> QED
  BY <1>1, ExportKept, PTL

=============================================================================
