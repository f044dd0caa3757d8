------------------------------ MODULE ChunkStep ------------------------------
(***************************************************************************)
(* The chunk engine of pkg/batch/engine/step/item/chunk_step.go: one       *)
(* StepExecution read, processed and written in transactions of            *)
(* ChunkSize rows, with the framework's SqlCursorReader in front of it,    *)
(* the SqlBulkWriter behind it and the JobRepository beside it.  A crash   *)
(* may come between any two steps; Restart executes the same StepExecution *)
(* again from its checkpoint.                                              *)
(*                                                                         *)
(* The rows of the source are 1..NumRows.  An error is the set of          *)
(* questions the policies answer with yes about it.                        *)
(***************************************************************************)
EXTENDS Integers, FiniteSets

CONSTANTS NumRows,      \* rows of the reader's query
          ChunkSize,    \* ChunkStep.chunkSize: item-count, 0 when absent
          MaxAttempts,  \* RetryPolicy.maxAttempts
          SkipLimit,    \* SkipPolicy.skipLimit
          Filtered,     \* rows for which the processor returns nil
          InMemoryRepo, \* TRUE: InMemoryJobRepository, FALSE: SQL repository
          MaxFaults,    \* bound: failures the environment may inject
          MaxRuns       \* bound: Execute calls on this StepExecution

Rows == 1 .. NumRows

ASSUME ChunkStepAssumption ==
  /\ NumRows \in Nat /\ ChunkSize \in Int      \* nothing checks item-count
  /\ MaxAttempts \in Nat /\ SkipLimit \in Nat
  /\ Filtered \subseteq Rows
  /\ InMemoryRepo \in BOOLEAN
  /\ MaxFaults \in Nat /\ MaxRuns \in Nat \ {0}

VARIABLES
  pc, run,
  cursor, usable, rcount,         \* SqlCursorReader: rows, rows # nil, readCount
  readerEC,                       \* the map SqlCursorReader.ec points to
  checkpointEC, stepEC,           \* "<name>.readCount" in the two maps
  aliased,                        \* checkpointEC is the repository's own map
  txOpen,                         \* txAdapter neither committed nor rolled back
  itemsToWrite, currentChunkReadCount, isEOF, attempts, split,
  readCount, writeCount,          \* the local statistics of Execute
  se,                             \* counters of the StepExecution
  skipCount,                      \* defaultSkipPolicy.currentSkipCount
  status, chunkError,
  row, checkpoint,                \* what the JobRepository holds
  committed, dropped,             \* the target table; rows reported as skipped
  writeRetries, badRowRetries,    \* history
  faults

readerVars == <<cursor, usable, rcount, readerEC, checkpointEC, aliased>>
chunkVars  == <<txOpen, itemsToWrite, currentChunkReadCount, isEOF, attempts, split>>
countVars  == <<readCount, writeCount, se, skipCount>>
repoVars   == <<row, checkpoint>>
history    == <<writeRetries, badRowRetries>>
vars == <<pc, run, readerVars, stepEC, chunkVars, countVars, status, chunkError,
          repoVars, committed, dropped, history, faults>>

Locations == {"start", "open", "begin", "read", "process", "endRead", "write",
              "commit", "checkpoint", "split", "finalize", "done", "crashed"}

NoPos == -1                                \* the key is not in the map
Position == 0 .. NumRows \cup {NoPos}
Offset(p) == IF p = NoPos THEN 0 ELSE p    \* readCount = 0 when not found

Errors == SUBSET {"retryable", "skippable"}

Counters == [ReadCount : Nat, WriteCount : Nat, SkipReadCount : Nat,
             SkipProcessCount : Nat, SkipWriteCount : Nat]
NoCounts == [ReadCount |-> 0, WriteCount |-> 0, SkipReadCount |-> 0,
             SkipProcessCount |-> 0, SkipWriteCount |-> 0]

Statuses == {"STARTING", "STARTED", "COMPLETED", "FAILED"}

NoCheckpoint == [pos |-> NoPos, readCount |-> 0, writeCount |-> 0]

-----------------------------------------------------------------------------
\* An operation fails (within the bound) or succeeds.
Fault   == faults < MaxFaults /\ faults' = faults + 1
NoFault == UNCHANGED faults

\* defaultRetryPolicy.ShouldRetry and the attempts of the retry loop.
ShouldRetry(e, n) == "retryable" \in e /\ n < MaxAttempts

\* defaultSkipPolicy.ShouldSkip and the step's own counter against the limit.
ShouldSkip(e, n) ==
  /\ SkipLimit # 0 /\ skipCount < SkipLimit
  /\ "skippable" \in e
  /\ n < SkipLimit

\* GetExecutionContext of the reader and of the writer.  The writer keeps the
\* map it was opened with, which is the map the reader wrote its position to
\* before any chunk retry.
ReaderPos == IF readerEC = "step" THEN stepEC ELSE checkpointEC
WriterPos == checkpointEC

\* saveCheckpoint and the final ExecutionContext merge the reader's map and
\* then the writer's.
MergedPos == IF WriterPos # NoPos THEN WriterPos ELSE ReaderPos

\* The statistics of a successful write.
ChunkLen == Cardinality(itemsToWrite)

\* The rows of an upsert become durable with their transaction.
Persist(items) == [r \in Rows |-> committed[r] + (IF r \in items THEN 1 ELSE 0)]

MutCommitInstead == txOpen' = FALSE /\ committed' = Persist(itemsToWrite)
Rollback == txOpen' = FALSE /\ UNCHANGED committed

\* goto EndChunkLoop or break with an error.
Abort == pc' = "finalize" /\ chunkError' = TRUE

-----------------------------------------------------------------------------
Init ==
  /\ pc = "start" /\ run = 1
  /\ cursor = 0 /\ usable = FALSE /\ rcount = 0
  /\ readerEC = "ckpt" /\ checkpointEC = NoPos /\ stepEC = NoPos
  /\ aliased = FALSE
  /\ txOpen = FALSE /\ itemsToWrite = {} /\ currentChunkReadCount = 0
  /\ isEOF = FALSE /\ attempts = 0 /\ split = {}
  /\ readCount = 0 /\ writeCount = 0 /\ se = NoCounts /\ skipCount = 0
  /\ status = "STARTING" /\ chunkError = FALSE
  /\ row = [status |-> "STARTING", se |-> NoCounts, pos |-> NoPos]
  /\ checkpoint = NoCheckpoint
  /\ committed = [r \in Rows |-> 0] /\ dropped = {}
  /\ writeRetries = 0 /\ badRowRetries = 0
  /\ faults = 0

MutReaderOpen(ec, pos) ==
  /\ readerEC' = ec
  /\ IF ec = "step" THEN UNCHANGED <<rcount, cursor>>
     ELSE rcount' = Offset(pos) /\ cursor' = Offset(pos)

\* SqlCursorReader.Open keeps the map and starts after the offset found in it.
ReaderOpen(ec, pos) ==
  /\ readerEC' = ec
  /\ rcount' = Offset(pos) /\ cursor' = Offset(pos)

\* SqlCursorReader.Read maps a row: the position goes into the map the reader
\* points to, and with the in-memory repository that may be the stored
\* checkpoint itself.
ReaderRead ==
  /\ usable /\ cursor < NumRows
  /\ cursor' = cursor + 1 /\ rcount' = rcount + 1
  /\ checkpointEC' = IF readerEC = "ckpt" THEN rcount' ELSE checkpointEC
  /\ stepEC' = IF readerEC = "step" THEN rcount' ELSE stepEC
  /\ checkpoint' = IF aliased /\ readerEC = "ckpt"
                   THEN [checkpoint EXCEPT !.pos = rcount'] ELSE checkpoint
  /\ UNCHANGED <<usable, readerEC, aliased>>

\* MarkAsStarted and UpdateStepExecution; a failed update returns at once.
Start ==
  /\ pc = "start"
  /\ status' = "STARTED"
  /\ \/ /\ NoFault
        /\ row' = [status |-> "STARTED", se |-> se, pos |-> stepEC]
        /\ pc' = "open" /\ UNCHANGED chunkError
     \/ /\ Fault
        /\ pc' = "done" /\ chunkError' = TRUE /\ UNCHANGED row
  /\ UNCHANGED <<run, readerVars, stepEC, chunkVars, countVars, checkpoint,
                 committed, dropped, history>>

\* FindCheckpointData, the restored statistics, reader.Open and writer.Open.
\* Any of the three failing returns without touching the status.
Open ==
  /\ pc = "open"
  /\ \/ /\ NoFault
        /\ checkpointEC' = checkpoint.pos
        /\ ReaderOpen("ckpt", checkpoint.pos) /\ usable' = TRUE
        /\ aliased' = (InMemoryRepo /\ checkpoint.pos # NoPos)
        /\ readCount'  = IF checkpoint.pos # NoPos THEN checkpoint.readCount
                         ELSE se.ReadCount
        /\ writeCount' = IF checkpoint.pos # NoPos THEN checkpoint.writeCount
                         ELSE se.WriteCount
        /\ se' = [se EXCEPT !.ReadCount = readCount', !.WriteCount = writeCount']
        /\ pc' = "begin" /\ UNCHANGED chunkError
     \/ /\ Fault
        /\ pc' = "done" /\ chunkError' = TRUE
        /\ UNCHANGED <<readerVars, readCount, writeCount, se>>
  /\ UNCHANGED <<run, stepEC, chunkVars, skipCount, status, repoVars,
                 committed, dropped, history>>

\* Top of the chunk loop: resolve the connection, begin the transaction.
BeginChunk ==
  /\ pc = "begin"
  /\ \/ /\ NoFault
        /\ txOpen' = TRUE /\ itemsToWrite' = {} /\ currentChunkReadCount' = 0
        /\ isEOF' = FALSE /\ attempts' = 0
        /\ pc' = "read" /\ UNCHANGED <<split, chunkError>>
     \/ Fault /\ Abort /\ UNCHANGED chunkVars
  /\ UNCHANGED <<run, readerVars, stepEC, countVars, status, repoVars,
                 committed, dropped, history>>

-----------------------------------------------------------------------------
Reading == pc = "read" /\ currentChunkReadCount < ChunkSize

ReadItem ==
  /\ Reading /\ ReaderRead /\ NoFault
  /\ readCount' = readCount + 1
  /\ currentChunkReadCount' = currentChunkReadCount + 1
  /\ attempts' = 0 /\ pc' = "process"
  /\ UNCHANGED <<run, txOpen, itemsToWrite, isEOF, split, writeCount, se,
                 skipCount, status, chunkError, row, committed, dropped, history>>

MutReadEOF ==
  /\ Reading /\ usable /\ cursor = NumRows
  /\ NoFault
  /\ isEOF' = TRUE
  /\ UNCHANGED <<pc, run, readerVars, stepEC, txOpen, itemsToWrite,
                 currentChunkReadCount, attempts, split, countVars, status,
                 chunkError, repoVars, committed, dropped, history>>

ReadEOF ==
  /\ Reading /\ usable /\ cursor = NumRows
  /\ NoFault
  /\ isEOF' = TRUE /\ pc' = "endRead"
  /\ UNCHANGED <<run, readerVars, stepEC, txOpen, itemsToWrite,
                 currentChunkReadCount, attempts, split, countVars, status,
                 chunkError, repoVars, committed, dropped, history>>

\* What SqlCursorReader.Read returned the error for: badRow says the mapper
\* rejected the row the cursor had already moved to; otherwise the iteration
\* failed, and it keeps failing until the reader is opened again.
ReadFails(badRow) ==
  \/ /\ badRow /\ usable /\ cursor < NumRows /\ Fault
     /\ cursor' = cursor + 1 /\ UNCHANGED usable
  \/ /\ ~badRow /\ usable /\ Fault
     /\ usable' = FALSE /\ UNCHANGED cursor
  \/ /\ ~badRow /\ ~usable /\ NoFault
     /\ UNCHANGED <<cursor, usable>>

\* The retry of a read; the back-off ends early when the context is cancelled,
\* and then the loop is left with the transaction open.
ReadRetry(e, badRow) ==
  /\ Reading /\ ReadFails(badRow)
  /\ ShouldRetry(e, attempts)
  /\ attempts' = attempts + 1
  /\ badRowRetries' = IF badRow THEN badRowRetries + 1 ELSE badRowRetries
  /\ \/ pc' = "read" /\ UNCHANGED chunkError
     \/ Abort
  /\ UNCHANGED <<run, rcount, readerEC, checkpointEC, aliased, stepEC, txOpen,
                 itemsToWrite, currentChunkReadCount, isEOF, split, countVars,
                 status, repoVars, committed, dropped, writeRetries>>

ReadSkip(e, badRow) ==
  /\ Reading /\ ReadFails(badRow)
  /\ ~ShouldRetry(e, attempts) /\ ShouldSkip(e, se.SkipReadCount)
  /\ skipCount' = skipCount + 1
  /\ se' = [se EXCEPT !.SkipReadCount = @ + 1]
  /\ dropped' = IF badRow THEN dropped \cup {cursor + 1} ELSE dropped
  /\ attempts' = 0
  /\ UNCHANGED <<pc, run, rcount, readerEC, checkpointEC, aliased, stepEC,
                 txOpen, itemsToWrite, currentChunkReadCount, isEOF, split,
                 readCount, writeCount, status, chunkError, repoVars,
                 committed, history>>

\* A fatal read error jumps to EndChunkLoop past the rollback.
ReadFatal(e, badRow) ==
  /\ Reading /\ ReadFails(badRow)
  /\ ~ShouldRetry(e, attempts) /\ ~ShouldSkip(e, se.SkipReadCount)
  /\ Abort
  /\ UNCHANGED <<run, rcount, readerEC, checkpointEC, aliased, stepEC, chunkVars,
                 countVars, status, repoVars, committed, dropped, history>>

-----------------------------------------------------------------------------
\* The processor sees the row just read, which is row number cursor.
ProcessItem ==
  /\ pc = "process" /\ NoFault
  /\ itemsToWrite' = itemsToWrite \cup ({cursor} \ Filtered)
  /\ attempts' = 0 /\ pc' = "read"
  /\ UNCHANGED <<run, readerVars, stepEC, txOpen, currentChunkReadCount, isEOF,
                 split, countVars, status, chunkError, repoVars, committed,
                 dropped, history>>

ProcessRetry(e) ==
  /\ pc = "process" /\ Fault
  /\ ShouldRetry(e, attempts)
  /\ attempts' = attempts + 1
  /\ \/ UNCHANGED <<pc, chunkError>>
     \/ Abort
  /\ UNCHANGED <<run, readerVars, stepEC, txOpen, itemsToWrite,
                 currentChunkReadCount, isEOF, split, countVars, status,
                 repoVars, committed, dropped, history>>

ProcessSkip(e) ==
  /\ pc = "process" /\ Fault
  /\ ~ShouldRetry(e, attempts) /\ ShouldSkip(e, se.SkipProcessCount)
  /\ skipCount' = skipCount + 1
  /\ se' = [se EXCEPT !.SkipProcessCount = @ + 1]
  /\ dropped' = dropped \cup {cursor}
  /\ attempts' = 0 /\ pc' = "read"
  /\ UNCHANGED <<run, readerVars, stepEC, txOpen, itemsToWrite,
                 currentChunkReadCount, isEOF, split, readCount, writeCount,
                 status, chunkError, repoVars, committed, history>>

ProcessFatal(e) ==
  /\ pc = "process" /\ Fault
  /\ ~ShouldRetry(e, attempts) /\ ~ShouldSkip(e, se.SkipProcessCount)
  /\ pc' = "endRead" /\ chunkError' = TRUE
  /\ UNCHANGED <<run, readerVars, stepEC, chunkVars, countVars, status,
                 repoVars, committed, dropped, history>>

MutEmptyChunk == isEOF \/ currentChunkReadCount = 0
EmptyChunk == currentChunkReadCount = 0 /\ itemsToWrite = {}

\* EndReadLoop: roll back after an error or an empty read, else go on to write.
EndReadLoop ==
  /\ pc = "endRead" \/ (pc = "read" /\ currentChunkReadCount >= ChunkSize)
  /\ NoFault
  /\ \/ /\ chunkError \/ EmptyChunk
        /\ Rollback /\ pc' = "finalize"
     \/ /\ ~chunkError /\ ~EmptyChunk
        /\ pc' = (IF itemsToWrite # {} THEN "write" ELSE "commit")
        /\ UNCHANGED <<txOpen, committed>>
  /\ UNCHANGED <<run, readerVars, stepEC, itemsToWrite, currentChunkReadCount,
                 isEOF, attempts, split, countVars, status, chunkError,
                 repoVars, dropped, history>>

-----------------------------------------------------------------------------
WriteItems ==
  /\ pc = "write" /\ NoFault
  /\ writeCount' = writeCount + ChunkLen
  /\ pc' = "commit"
  /\ UNCHANGED <<run, readerVars, stepEC, chunkVars, readCount, se, skipCount,
                 status, chunkError, repoVars, committed, dropped, history>>

\* Chunk retry: roll back, reopen the reader on the StepExecution's own
\* context (errors of Close and Open are ignored), wait, and read again.
\* writeAttempts is declared inside the loop that goto RetryChunk re-enters,
\* so it is 0 whenever it is compared.
WriteRetry(e) ==
  /\ pc = "write" /\ Fault
  /\ ShouldRetry(e, 0)
  /\ Rollback
  /\ ReaderOpen("step", stepEC) /\ usable' \in BOOLEAN
  /\ writeRetries' = writeRetries + 1
  /\ \/ pc' = "begin" /\ UNCHANGED chunkError
     \/ Abort
  /\ UNCHANGED <<run, checkpointEC, aliased, stepEC, itemsToWrite,
                 currentChunkReadCount, isEOF, attempts, split, countVars,
                 status, repoVars, dropped, badRowRetries>>

\* A skippable write error: roll back and write the items one by one.
WriteSplit(e) ==
  /\ pc = "write" /\ Fault
  /\ ~ShouldRetry(e, 0) /\ ShouldSkip(e, se.SkipWriteCount)
  /\ skipCount' = skipCount + 1
  /\ se' = [se EXCEPT !.SkipWriteCount = @ + 1]
  /\ Rollback /\ split' = itemsToWrite /\ pc' = "split"
  /\ UNCHANGED <<run, readerVars, stepEC, itemsToWrite, currentChunkReadCount,
                 isEOF, attempts, readCount, writeCount, status, chunkError,
                 repoVars, dropped, history>>

WriteFatal(e) ==
  /\ pc = "write" /\ Fault
  /\ ~ShouldRetry(e, 0) /\ ~ShouldSkip(e, se.SkipWriteCount)
  /\ Rollback /\ Abort
  /\ UNCHANGED <<run, readerVars, stepEC, itemsToWrite, currentChunkReadCount,
                 isEOF, attempts, split, countVars, status, repoVars, dropped,
                 history>>

-----------------------------------------------------------------------------
\* Commit, then the reader's Update hook puts its position in the
\* StepExecution's context (the writer's hook does nothing).
Commit ==
  /\ pc = "commit" /\ NoFault
  /\ committed' = Persist(itemsToWrite)
  /\ txOpen' = FALSE /\ stepEC' = rcount
  /\ pc' = "checkpoint"
  /\ UNCHANGED <<run, readerVars, itemsToWrite, currentChunkReadCount, isEOF,
                 attempts, split, countVars, status, chunkError, repoVars,
                 dropped, writeRetries, badRowRetries>>

MutCommitFails ==
  /\ pc = "commit" /\ Fault
  /\ committed' \in {committed, Persist(itemsToWrite)}
  /\ txOpen' = FALSE /\ pc' = "checkpoint"
  /\ UNCHANGED <<run, readerVars, stepEC, itemsToWrite, currentChunkReadCount,
                 isEOF, attempts, split, countVars, status, chunkError,
                 repoVars, dropped, history>>

\* A commit that returns an error may or may not have reached the database.
CommitFails ==
  /\ pc = "commit" /\ Fault
  /\ committed' \in {committed, Persist(itemsToWrite)}
  /\ txOpen' = FALSE /\ Abort
  /\ UNCHANGED <<run, readerVars, stepEC, itemsToWrite, currentChunkReadCount,
                 isEOF, attempts, split, countVars, status, repoVars, dropped,
                 history>>

\* saveCheckpoint stores a fresh map, so an alias ends here.
SaveCheckpoint ==
  /\ pc = "checkpoint"
  /\ \/ /\ NoFault
        /\ checkpoint' = [pos |-> MergedPos, readCount |-> readCount,
                          writeCount |-> writeCount]
        /\ aliased' = FALSE
        /\ pc' = (IF isEOF THEN "finalize" ELSE "begin")
        /\ UNCHANGED chunkError
     \/ Fault /\ Abort /\ UNCHANGED <<checkpoint, aliased>>
  /\ UNCHANGED <<run, cursor, usable, rcount, readerEC, checkpointEC, stepEC,
                 chunkVars, countVars, status, row, committed, dropped, history>>

-----------------------------------------------------------------------------
\* HandleSkippableWriteFailure takes the items in the order they were read.
NextSplit(i) == pc = "split" /\ i \in split /\ \A j \in split : i <= j

SplitCommit(i) ==
  /\ NextSplit(i) /\ NoFault
  /\ committed' = Persist({i})
  /\ se' = [se EXCEPT !.WriteCount = @ + 1]
  /\ split' = split \ {i}
  /\ UNCHANGED <<pc, run, readerVars, stepEC, txOpen, itemsToWrite,
                 currentChunkReadCount, isEOF, attempts, readCount, writeCount,
                 skipCount, status, chunkError, repoVars, dropped, history>>

SplitSkip(i, e) ==
  /\ NextSplit(i) /\ Fault
  /\ ShouldSkip(e, se.SkipWriteCount)
  /\ skipCount' = skipCount + 1
  /\ se' = [se EXCEPT !.SkipWriteCount = @ + 1]
  /\ dropped' = dropped \cup {i}
  /\ split' = split \ {i}
  /\ UNCHANGED <<pc, run, readerVars, stepEC, txOpen, itemsToWrite,
                 currentChunkReadCount, isEOF, attempts, readCount, writeCount,
                 status, chunkError, repoVars, committed, history>>

\* Begin, the write or the commit of the single item failed for good.
SplitFatal(i, e) ==
  /\ NextSplit(i) /\ Fault
  /\ \/ ~ShouldSkip(e, se.SkipWriteCount) /\ UNCHANGED committed
     \/ committed' \in {committed, Persist({i})}
  /\ Abort
  /\ UNCHANGED <<run, readerVars, stepEC, chunkVars, countVars, status,
                 repoVars, dropped, history>>

\* goto EndChunkTransaction: on to the next chunk, without a checkpoint and
\* without looking at isEOF.
SplitDone ==
  /\ pc = "split" /\ split = {} /\ NoFault
  /\ pc' = "begin"
  /\ UNCHANGED <<run, readerVars, stepEC, chunkVars, countVars, status,
                 chunkError, repoVars, committed, dropped, writeRetries,
                 badRowRetries>>

-----------------------------------------------------------------------------
FinalStatus(failed) == IF failed THEN "FAILED" ELSE "COMPLETED"

\* EndChunkLoop: statistics, Close, the final ExecutionContext, the status and
\* the last UpdateStepExecution.
Finalize ==
  /\ pc = "finalize"
  /\ \E closeErr, updateErr \in BOOLEAN :
       LET failed == chunkError \/ closeErr
           used == (IF closeErr THEN 1 ELSE 0) + (IF updateErr THEN 1 ELSE 0)
       IN /\ faults + used <= MaxFaults /\ faults' = faults + used
          /\ status' = FinalStatus(failed)
          /\ se' = [se EXCEPT !.ReadCount = readCount, !.WriteCount = writeCount]
          /\ stepEC' = MergedPos
          /\ row' = IF updateErr THEN row
                    ELSE [status |-> status', se |-> se', pos |-> stepEC']
          /\ chunkError' = (failed \/ updateErr)
  /\ usable' = FALSE
  /\ pc' = "done"
  /\ UNCHANGED <<run, cursor, rcount, readerEC, checkpointEC, aliased, chunkVars,
                 readCount, writeCount, skipCount, checkpoint, committed,
                 dropped, history>>

\* The process dies; the database rolls the open transaction back.
Crash ==
  /\ pc \notin {"done", "crashed"} /\ ~InMemoryRepo
  /\ Fault
  /\ pc' = "crashed" /\ txOpen' = FALSE
  /\ UNCHANGED <<run, readerVars, stepEC, itemsToWrite, currentChunkReadCount,
                 isEOF, attempts, split, countVars, status, chunkError,
                 repoVars, committed, dropped, history>>

\* The flow comes back to the step: FlowJob hands the StepExecution that did
\* not complete to the same ChunkStep again, with its counters, its context
\* and the skip policy as they are.
Reenter ==
  /\ pc = "done" /\ status # "COMPLETED"
  /\ run < MaxRuns
  /\ run' = run + 1 /\ pc' = "start"
  /\ chunkError' = FALSE /\ txOpen' = FALSE
  /\ itemsToWrite' = {} /\ split' = {} /\ usable' = FALSE
  /\ UNCHANGED <<cursor, rcount, readerEC, checkpointEC, aliased, stepEC,
                 currentChunkReadCount, isEOF, attempts, countVars, status,
                 repoVars, committed, dropped, writeRetries, badRowRetries,
                 faults>>

\* A JobExecution loaded from the repository resumes at its current step: the
\* stored StepExecution is executed again by a freshly built ChunkStep.
Restart ==
  /\ pc \in {"done", "crashed"} /\ row.status # "COMPLETED"
  /\ run < MaxRuns
  /\ run' = run + 1 /\ pc' = "start"
  /\ se' = row.se /\ stepEC' = row.pos /\ status' = row.status
  /\ skipCount' = 0 /\ chunkError' = FALSE /\ txOpen' = FALSE
  /\ itemsToWrite' = {} /\ split' = {} /\ usable' = FALSE
  /\ UNCHANGED <<cursor, rcount, readerEC, checkpointEC, aliased,
                 currentChunkReadCount, isEOF, attempts, readCount, writeCount,
                 repoVars, committed, dropped, writeRetries, badRowRetries,
                 faults>>

-----------------------------------------------------------------------------
\* The steps of Execute.
Step ==
  \/ Start \/ Open \/ BeginChunk
  \/ ReadItem \/ ReadEOF
  \/ \E e \in Errors, badRow \in BOOLEAN :
       ReadRetry(e, badRow) \/ ReadSkip(e, badRow) \/ ReadFatal(e, badRow)
  \/ ProcessItem
  \/ \E e \in Errors : ProcessRetry(e) \/ ProcessSkip(e) \/ ProcessFatal(e)
  \/ EndReadLoop
  \/ WriteItems
  \/ \E e \in Errors : WriteRetry(e) \/ WriteSplit(e) \/ WriteFatal(e)
  \/ Commit \/ CommitFails \/ SaveCheckpoint
  \/ \E i \in Rows : SplitCommit(i)
  \/ \E i \in Rows, e \in Errors : SplitSkip(i, e) \/ SplitFatal(i, e)
  \/ SplitDone \/ Finalize

Next == Step \/ Crash \/ Reenter \/ Restart

Spec == Init /\ [][Next]_vars

\* Execute runs on a goroutine of its own: as long as the process lives it
\* takes its next step.
FairSpec == Spec /\ WF_vars(Step)

-----------------------------------------------------------------------------
ControlType ==
  /\ pc \in Locations /\ run \in Nat
  /\ status \in Statuses /\ chunkError \in BOOLEAN
ReaderType ==
  /\ cursor \in 0 .. NumRows /\ usable \in BOOLEAN /\ rcount \in 0 .. cursor
  /\ readerEC \in {"ckpt", "step"} /\ aliased \in BOOLEAN
  /\ checkpointEC \in Position /\ stepEC \in Position
ChunkType ==
  /\ txOpen \in BOOLEAN /\ itemsToWrite \subseteq Rows /\ split \subseteq Rows
  /\ currentChunkReadCount \in Nat /\ isEOF \in BOOLEAN /\ attempts \in Nat
  /\ pc = "process" => cursor > 0
CountType ==
  /\ readCount \in Nat /\ writeCount \in Nat
  /\ se \in Counters /\ skipCount \in Nat
RepoType ==
  /\ row \in [status : Statuses, se : Counters, pos : Position]
  /\ checkpoint \in [pos : Position, readCount : Nat, writeCount : Nat]
  /\ committed \in [Rows -> Nat] /\ dropped \subseteq Rows
HistoryType ==
  /\ writeRetries \in Nat /\ badRowRetries \in Nat
  /\ faults \in 0 .. MaxFaults

TypeOK ==
  /\ ControlType /\ ReaderType /\ ChunkType
  /\ CountType /\ RepoType /\ HistoryType

\* A row is accounted for: written, reported as skipped, or filtered out.
Accounted(r) == committed[r] > 0 \/ r \in dropped \/ r \in Filtered

\* Histories in which the reader was never repositioned against the
\* checkpoint: no chunk was retried and no rejected row was read past.
Undisturbed == writeRetries = 0 /\ badRowRetries = 0

\* Restart position (chunk_step.go 770-776, 890-945): whatever is skipped over
\* when a run resumes at the stored offset has been written, skipped or
\* filtered.  Commit and checkpoint are two steps; the second never overtakes
\* the first.
CheckpointNeverAhead ==
  Undisturbed => \A r \in Rows : r <= checkpoint.pos => Accounted(r)

\* Completeness (chunk_step.go 426-868): a StepExecution that ends COMPLETED,
\* through crashes, restarts, skips and splits, has dealt with every row.  The
\* exception is a chunk size below 1, which nothing refuses (step_adapter.go
\* 334-357): the read loop (472) is not entered, the first chunk counts as the
\* empty one that ends the loop (624), and COMPLETED then says that no row was
\* written or skipped at all.
NoSilentLoss ==
  pc = "done" /\ status = "COMPLETED" /\ Undisturbed
    => IF ChunkSize > 0 THEN \A r \in Rows : Accounted(r)
       ELSE \A r \in Rows : committed[r] = 0 /\ r \notin dropped

\* The first chunk retry of a first run repeats its chunk from the rows after
\* the last commit (chunk_step.go 659-663), whatever was skipped or split
\* before and after it.
FirstRetryLosesNothing ==
  /\ pc = "done" /\ status = "COMPLETED"
  /\ run = 1 /\ writeRetries = 1 /\ badRowRetries = 0
  => \A r \in Rows : Accounted(r)

\* The repository shows COMPLETED only for an Execute that returned no error,
\* and never takes COMPLETED back (chunk_step.go 847-864).
DurableCompletion ==
  row.status = "COMPLETED" => pc = "done" /\ status = "COMPLETED" /\ ~chunkError

\* At-least-once is bounded (chunk_step.go 381-410, 730-776): without chunk
\* retries a row is written at most once per run, so a duplicate always costs
\* a restart.
OneWritePerRun == writeRetries = 0 => \A r \in Rows : committed[r] <= run

\* Execute ends, or the process died under it (chunk_step.go 426-787): every
\* loop of retries, skips and splits is left when failures stop.
ExecuteEnds == (pc = "start") ~> (pc \in {"done", "crashed"})

-----------------------------------------------------------------------------
(* A statement of the documentation that the code does not keep. *)

\* docs/architecture/03_fault_tolerance_and_tx.md 18: after a retryable write
\* error "the whole chunk is executed again", so no row of it is lost.
ChunkRetryRepeatsChunk ==
  pc = "done" /\ status = "COMPLETED" /\ badRowRetries = 0 /\ run = 1
    => \A r \in Rows : Accounted(r)

=============================================================================
