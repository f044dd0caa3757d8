--------------------------- MODULE ChunkStepProofs ---------------------------
(***************************************************************************)
(* Proofs about ChunkStep, for every number of rows, chunk size, policy    *)
(* and number of failures: its types first, then what becomes of the rows. *)
(***************************************************************************)
EXTENDS ChunkStep, FiniteSetTheorems, TLAPS

\* What Persist adds to the target table.
LEMMA PersistType ==
  ASSUME TypeOK, NEW items
  PROVE  /\ Persist(items) \in [Rows -> Nat]
         /\ \A r \in Rows :
              Persist(items)[r] = committed[r] + (IF r \in items THEN 1 ELSE 0)
  BY DEF Persist, TypeOK, RepoType

\* The number of rows of a chunk is a natural number.
LEMMA ChunkLenType ==
  ASSUME TypeOK PROVE ChunkLen \in Nat
  <1>1. IsFiniteSet(Rows)
    BY FS_Interval, ChunkStepAssumption DEF Rows
  <1>2. IsFiniteSet(itemsToWrite)
    BY <1>1, FS_Subset DEF TypeOK, ChunkType
  <1>3. QED
    BY <1>2, FS_CardinalityType DEF ChunkLen

\* Execute may set both of its statistics in one assignment.
LEMMA CounterSet ==
  ASSUME NEW c \in Counters, NEW n \in Nat, NEW k \in Nat
  PROVE  [c EXCEPT !.ReadCount = n, !.WriteCount = k] \in Counters
  BY DEF Counters

\* A failed read leaves the cursor in the rows, not before the rows mapped.
LEMMA ReadFailsType ==
  ASSUME TypeOK, NEW badRow \in BOOLEAN, ReadFails(badRow), UNCHANGED rcount
  PROVE  /\ (cursor \in 0 .. NumRows /\ usable \in BOOLEAN /\ rcount \in 0 .. cursor)'
         /\ (faults \in 0 .. MaxFaults)'
         /\ badRow => cursor + 1 \in Rows
  <1>1. \/ badRow /\ cursor < NumRows /\ cursor' = cursor + 1
        \/ ~badRow /\ UNCHANGED cursor
    BY DEF ReadFails
  <1>2. usable' \in BOOLEAN
    BY DEF ReadFails, TypeOK, ReaderType
  <1>3. Fault \/ NoFault
    BY DEF ReadFails
  <1>4. (cursor \in 0 .. NumRows /\ rcount \in 0 .. cursor)'
    BY <1>1, ChunkStepAssumption DEF TypeOK, ReaderType
  <1>5. (faults \in 0 .. MaxFaults)'
    BY <1>3, ChunkStepAssumption DEF Fault, NoFault, TypeOK, HistoryType
  <1>6. badRow => cursor + 1 \in Rows
    BY <1>1, ChunkStepAssumption DEF TypeOK, ReaderType, Rows
  <1>7. QED
    BY <1>2, <1>4, <1>5, <1>6

\* TypeOK is preserved by every step.
LEMMA TypeStep == TypeOK /\ [Next]_vars => TypeOK'
  <1> SUFFICES ASSUME TypeOK, [Next]_vars
               PROVE  TypeOK'
    OBVIOUS
  <1>1. CASE Start
    <2> USE <1>1 DEF TypeOK
    <2>1. ControlType'
      BY DEF Start, ControlType, Locations, Statuses
    <2>2. RepoType'
      BY DEF Start, RepoType, repoVars, ControlType, ReaderType, CountType,
         Statuses
    <2>3. HistoryType'
      BY ChunkStepAssumption DEF Start, HistoryType, history, Fault, NoFault
    <2>4. ReaderType' /\ ChunkType' /\ CountType'
      BY DEF Start, ReaderType, readerVars, ChunkType, chunkVars, CountType,
         countVars
    <2>5. QED
      BY <2>1, <2>2, <2>3, <2>4
  <1>2. CASE Open
    <2> USE <1>2 DEF TypeOK
    <2>1. ControlType'
      BY DEF Open, ControlType, Locations
    <2>2. ReaderType'
      <3>1. checkpoint.pos \in Position
        BY DEF RepoType
      <3>2. Offset(checkpoint.pos) \in 0 .. NumRows
        BY <3>1, ChunkStepAssumption DEF Offset, Position, NoPos
      <3>3. (cursor \in 0 .. NumRows /\ rcount \in 0 .. cursor)'
        BY <3>2 DEF Open, ReaderOpen, ReaderType, readerVars
      <3>4. QED
        BY <3>1, <3>3 DEF Open, ReaderOpen, ReaderType, readerVars
    <2>3. ChunkType'
      BY DEF Open, ChunkType, chunkVars, readerVars
    <2>4. CountType'
      <3>1. /\ checkpoint.readCount \in Nat /\ checkpoint.writeCount \in Nat
            /\ se.ReadCount \in Nat /\ se.WriteCount \in Nat
        BY DEF RepoType, CountType, Counters
      <3>2. (readCount \in Nat /\ writeCount \in Nat)'
        BY <3>1 DEF Open, CountType
      <3>3. QED
        BY <3>2, CounterSet DEF Open, CountType
    <2>5. HistoryType'
      BY ChunkStepAssumption DEF Open, HistoryType, history, Fault, NoFault
    <2>6. RepoType'
      BY DEF Open, RepoType, repoVars
    <2>7. QED
      BY <2>1, <2>2, <2>3, <2>4, <2>5, <2>6
  <1>3. CASE BeginChunk
    <2> USE <1>3 DEF TypeOK
    <2>1. ControlType'
      BY DEF BeginChunk, ControlType, Abort, Locations
    <2>2. ChunkType'
      <3>1. (txOpen \in BOOLEAN /\ isEOF \in BOOLEAN)'
        BY DEF ChunkType, BeginChunk, chunkVars
      <3>2. (itemsToWrite \subseteq Rows /\ split \subseteq Rows)'
        BY DEF ChunkType, BeginChunk, chunkVars
      <3>3. (currentChunkReadCount \in Nat /\ attempts \in Nat)'
        BY DEF ChunkType, BeginChunk, chunkVars
      <3>4. pc' # "process"
        BY DEF BeginChunk, Abort
      <3>5. QED
        BY <3>1, <3>2, <3>3, <3>4 DEF ChunkType
    <2>3. HistoryType'
      BY ChunkStepAssumption DEF BeginChunk, HistoryType, history, Fault,
         NoFault
    <2>4. ReaderType' /\ CountType' /\ RepoType'
      BY DEF BeginChunk, ReaderType, readerVars, CountType, countVars,
         RepoType, repoVars
    <2>5. QED
      BY <2>1, <2>2, <2>3, <2>4
  <1>4. CASE ReadItem
    <2> USE <1>4 DEF TypeOK
    <2>1. ControlType'
      BY DEF ReadItem, ControlType, Locations
    <2>2. ReaderType'
      BY ChunkStepAssumption DEF ReadItem, ReaderType, readerVars,
         ReaderRead, Position
    <2>3. ChunkType'
      BY ChunkStepAssumption DEF ReadItem, ChunkType, chunkVars, readerVars,
         ReaderRead, ReaderType
    <2>4. CountType'
      BY DEF ReadItem, CountType, countVars
    <2>5. RepoType'
      <3>1. rcount' \in Position
        BY ChunkStepAssumption DEF ReadItem, ReaderRead, ReaderType,
           Position
      <3>2. checkpoint' \in [pos : Position, readCount : Nat, writeCount : Nat]
        BY <3>1 DEF ReadItem, ReaderRead, RepoType
      <3>3. QED
        BY <3>2 DEF ReadItem, RepoType
    <2>6. HistoryType'
      BY DEF ReadItem, HistoryType, history, NoFault
    <2>7. QED
      BY <2>1, <2>2, <2>3, <2>4, <2>5, <2>6
  <1>5. CASE ReadEOF
    <2> USE <1>5 DEF TypeOK
    <2>1. ControlType'
      BY DEF ReadEOF, ControlType, Locations
    <2>2. ChunkType'
      BY DEF ReadEOF, ChunkType, chunkVars, readerVars
    <2>3. HistoryType'
      BY DEF ReadEOF, HistoryType, history, NoFault
    <2>4. ReaderType' /\ CountType' /\ RepoType'
      BY DEF ReadEOF, ReaderType, readerVars, CountType, countVars,
         RepoType, repoVars
    <2>5. QED
      BY <2>1, <2>2, <2>3, <2>4
  <1>6. ASSUME NEW e \in Errors, NEW badRow \in BOOLEAN, ReadRetry(e, badRow)
        PROVE  TypeOK'
    <2> USE <1>6 DEF TypeOK
    <2>1. ControlType'
      BY DEF ReadRetry, ControlType, Abort, Locations
    <2>2. ReaderType'
      BY ReadFailsType DEF ReadRetry, ReaderType, readerVars
    <2>3. ChunkType'
      BY DEF ReadRetry, ChunkType, chunkVars, readerVars, Abort, Reading
    <2>4. HistoryType'
      BY ReadFailsType DEF ReadRetry, HistoryType, history
    <2>5. CountType' /\ RepoType'
      BY DEF ReadRetry, CountType, countVars, RepoType, repoVars
    <2>6. QED
      BY <2>1, <2>2, <2>3, <2>4, <2>5
  <1>7. ASSUME NEW e \in Errors, NEW badRow \in BOOLEAN, ReadSkip(e, badRow)
        PROVE  TypeOK'
    <2> USE <1>7 DEF TypeOK
    <2>1. ReaderType'
      BY ReadFailsType DEF ReadSkip, ReaderType, readerVars
    <2>2. ChunkType'
      BY DEF ReadSkip, ChunkType, chunkVars, readerVars, Reading
    <2>3. CountType'
      <3>1. se' \in Counters
        BY DEF ReadSkip, CountType, Counters
      <3>2. QED
        BY <3>1 DEF ReadSkip, CountType
    <2>4. RepoType'
      BY ReadFailsType DEF ReadSkip, RepoType, repoVars
    <2>5. HistoryType'
      BY ReadFailsType DEF ReadSkip, HistoryType, history
    <2>6. ControlType'
      BY DEF ReadSkip, ControlType
    <2>7. QED
      BY <2>1, <2>2, <2>3, <2>4, <2>5, <2>6
  <1>8. ASSUME NEW e \in Errors, NEW badRow \in BOOLEAN, ReadFatal(e, badRow)
        PROVE  TypeOK'
    <2> USE <1>8 DEF TypeOK
    <2>1. ControlType'
      BY DEF ReadFatal, ControlType, Abort, Locations
    <2>2. ReaderType'
      BY ReadFailsType DEF ReadFatal, ReaderType, readerVars
    <2>3. ChunkType'
      BY DEF ReadFatal, ChunkType, chunkVars, readerVars, Abort
    <2>4. HistoryType'
      BY ReadFailsType DEF ReadFatal, HistoryType, history
    <2>5. CountType' /\ RepoType'
      BY DEF ReadFatal, CountType, countVars, RepoType, repoVars
    <2>6. QED
      BY <2>1, <2>2, <2>3, <2>4, <2>5
  <1>9. CASE ProcessItem
    <2> USE <1>9 DEF TypeOK
    <2>1. ControlType'
      BY DEF ProcessItem, ControlType, Locations
    <2>2. ChunkType'
      BY ChunkStepAssumption DEF ProcessItem, ChunkType, chunkVars,
         readerVars, ReaderType, Rows
    <2>3. HistoryType'
      BY DEF ProcessItem, HistoryType, history, NoFault
    <2>4. ReaderType' /\ CountType' /\ RepoType'
      BY DEF ProcessItem, ReaderType, readerVars, CountType, countVars,
         RepoType, repoVars
    <2>5. QED
      BY <2>1, <2>2, <2>3, <2>4
  <1>10. ASSUME NEW e \in Errors, ProcessRetry(e)
         PROVE  TypeOK'
    <2> USE <1>10 DEF TypeOK
    <2>1. ControlType'
      BY DEF ProcessRetry, ControlType, Abort, Locations
    <2>2. ChunkType'
      BY DEF ProcessRetry, ChunkType, chunkVars, readerVars, Abort
    <2>3. HistoryType'
      BY ChunkStepAssumption DEF ProcessRetry, HistoryType, history, Fault
    <2>4. ReaderType' /\ CountType' /\ RepoType'
      BY DEF ProcessRetry, ReaderType, readerVars, CountType, countVars,
         RepoType, repoVars
    <2>5. QED
      BY <2>1, <2>2, <2>3, <2>4
  <1>11. ASSUME NEW e \in Errors, ProcessSkip(e)
         PROVE  TypeOK'
    <2> USE <1>11 DEF TypeOK
    <2>1. ControlType'
      BY DEF ProcessSkip, ControlType, Locations
    <2>2. ChunkType'
      BY DEF ProcessSkip, ChunkType, chunkVars, readerVars
    <2>3. CountType'
      <3>1. se' \in Counters
        BY DEF ProcessSkip, CountType, Counters
      <3>2. QED
        BY <3>1 DEF ProcessSkip, CountType
    <2>4. RepoType'
      <3>1. cursor \in Rows
        BY ChunkStepAssumption DEF ProcessSkip, ReaderType, ChunkType, Rows
      <3>2. QED
        BY <3>1 DEF ProcessSkip, RepoType, repoVars
    <2>5. HistoryType'
      BY ChunkStepAssumption DEF ProcessSkip, HistoryType, history, Fault
    <2>6. ReaderType'
      BY DEF ProcessSkip, ReaderType, readerVars
    <2>7. QED
      BY <2>1, <2>2, <2>3, <2>4, <2>5, <2>6
  <1>12. ASSUME NEW e \in Errors, ProcessFatal(e)
         PROVE  TypeOK'
    <2> USE <1>12 DEF TypeOK
    <2>1. ControlType'
      BY DEF ProcessFatal, ControlType, Locations
    <2>2. ChunkType'
      BY DEF ProcessFatal, ChunkType, chunkVars, readerVars
    <2>3. HistoryType'
      BY ChunkStepAssumption DEF ProcessFatal, HistoryType, history, Fault
    <2>4. ReaderType' /\ CountType' /\ RepoType'
      BY DEF ProcessFatal, ReaderType, readerVars, CountType, countVars,
         RepoType, repoVars
    <2>5. QED
      BY <2>1, <2>2, <2>3, <2>4
  <1>13. CASE EndReadLoop
    <2> USE <1>13 DEF TypeOK
    <2>1. ControlType'
      BY DEF EndReadLoop, ControlType, Locations
    <2>2. ChunkType'
      BY DEF EndReadLoop, ChunkType, chunkVars, readerVars, Rollback
    <2>3. RepoType'
      BY DEF EndReadLoop, RepoType, repoVars, Rollback
    <2>4. HistoryType'
      BY DEF EndReadLoop, HistoryType, history, NoFault
    <2>5. ReaderType' /\ CountType'
      BY DEF EndReadLoop, ReaderType, readerVars, CountType, countVars
    <2>6. QED
      BY <2>1, <2>2, <2>3, <2>4, <2>5
  <1>14. CASE WriteItems
    <2> USE <1>14 DEF TypeOK
    <2>1. ControlType'
      BY DEF WriteItems, ControlType, Locations
    <2>2. ChunkType'
      BY DEF WriteItems, ChunkType, chunkVars, readerVars
    <2>3. CountType'
      BY ChunkLenType DEF WriteItems, CountType, countVars
    <2>4. HistoryType'
      BY DEF WriteItems, HistoryType, history, NoFault
    <2>5. ReaderType' /\ RepoType'
      BY DEF WriteItems, ReaderType, readerVars, RepoType, repoVars
    <2>6. QED
      BY <2>1, <2>2, <2>3, <2>4, <2>5
  <1>15. ASSUME NEW e \in Errors, WriteRetry(e)
         PROVE  TypeOK'
    <2> USE <1>15 DEF TypeOK
    <2>1. ControlType'
      BY DEF WriteRetry, ControlType, Abort, Locations
    <2>2. ReaderType'
      BY ChunkStepAssumption DEF WriteRetry, ReaderType, readerVars,
         ReaderOpen, Offset, Position, NoPos
    <2>3. ChunkType'
      BY DEF WriteRetry, ChunkType, chunkVars, readerVars, Abort, Rollback
    <2>4. RepoType'
      BY DEF WriteRetry, RepoType, repoVars, Rollback
    <2>5. HistoryType'
      BY ChunkStepAssumption DEF WriteRetry, HistoryType, history, Fault
    <2>6. CountType'
      BY DEF WriteRetry, CountType, countVars
    <2>7. QED
      BY <2>1, <2>2, <2>3, <2>4, <2>5, <2>6
  <1>16. ASSUME NEW e \in Errors, WriteSplit(e)
         PROVE  TypeOK'
    <2> USE <1>16 DEF TypeOK
    <2>1. ControlType'
      BY DEF WriteSplit, ControlType, Locations
    <2>2. ChunkType'
      BY DEF WriteSplit, ChunkType, chunkVars, readerVars, Rollback
    <2>3. CountType'
      <3>1. se' \in Counters
        BY DEF WriteSplit, CountType, Counters
      <3>2. QED
        BY <3>1 DEF WriteSplit, CountType
    <2>4. RepoType'
      BY DEF WriteSplit, RepoType, repoVars, Rollback
    <2>5. HistoryType'
      BY ChunkStepAssumption DEF WriteSplit, HistoryType, history, Fault
    <2>6. ReaderType'
      BY DEF WriteSplit, ReaderType, readerVars
    <2>7. QED
      BY <2>1, <2>2, <2>3, <2>4, <2>5, <2>6
  <1>17. ASSUME NEW e \in Errors, WriteFatal(e)
         PROVE  TypeOK'
    <2> USE <1>17 DEF TypeOK
    <2>1. ControlType'
      BY DEF WriteFatal, ControlType, Abort, Locations
    <2>2. ChunkType'
      BY DEF WriteFatal, ChunkType, chunkVars, readerVars, Rollback, Abort
    <2>3. RepoType'
      BY DEF WriteFatal, RepoType, repoVars, Rollback
    <2>4. HistoryType'
      BY ChunkStepAssumption DEF WriteFatal, HistoryType, history, Fault
    <2>5. ReaderType' /\ CountType'
      BY DEF WriteFatal, ReaderType, readerVars, CountType, countVars
    <2>6. QED
      BY <2>1, <2>2, <2>3, <2>4, <2>5
  <1>18. CASE Commit
    <2> USE <1>18 DEF TypeOK
    <2>1. ControlType'
      BY DEF Commit, ControlType, Locations
    <2>2. ReaderType'
      BY ChunkStepAssumption DEF Commit, ReaderType, readerVars, Position
    <2>3. ChunkType'
      BY DEF Commit, ChunkType, chunkVars, readerVars
    <2>4. RepoType'
      BY PersistType DEF Commit, RepoType, repoVars
    <2>5. HistoryType'
      BY DEF Commit, HistoryType, history, NoFault
    <2>6. CountType'
      BY DEF Commit, CountType, countVars
    <2>7. QED
      BY <2>1, <2>2, <2>3, <2>4, <2>5, <2>6
  <1>19. CASE CommitFails
    <2> USE <1>19 DEF TypeOK
    <2>1. ControlType'
      BY DEF CommitFails, ControlType, Abort, Locations
    <2>2. ChunkType'
      BY DEF CommitFails, ChunkType, chunkVars, readerVars, Abort
    <2>3. RepoType'
      BY PersistType DEF CommitFails, RepoType, repoVars
    <2>4. HistoryType'
      BY ChunkStepAssumption DEF CommitFails, HistoryType, history, Fault
    <2>5. ReaderType' /\ CountType'
      BY DEF CommitFails, ReaderType, readerVars, CountType, countVars
    <2>6. QED
      BY <2>1, <2>2, <2>3, <2>4, <2>5
  <1>20. CASE SaveCheckpoint
    <2> USE <1>20 DEF TypeOK
    <2>1. ControlType'
      BY DEF SaveCheckpoint, ControlType, Abort, Locations
    <2>2. ReaderType'
      BY DEF SaveCheckpoint, ReaderType, readerVars
    <2>3. ChunkType'
      BY DEF SaveCheckpoint, ChunkType, chunkVars, readerVars, Abort
    <2>4. RepoType'
      BY DEF SaveCheckpoint, RepoType, repoVars, ReaderType, CountType,
         MergedPos, WriterPos, ReaderPos
    <2>5. HistoryType'
      BY ChunkStepAssumption DEF SaveCheckpoint, HistoryType, history,
         Fault, NoFault
    <2>6. CountType'
      BY DEF SaveCheckpoint, CountType, countVars
    <2>7. QED
      BY <2>1, <2>2, <2>3, <2>4, <2>5, <2>6
  <1>21. ASSUME NEW i \in Rows, SplitCommit(i)
         PROVE  TypeOK'
    <2> USE <1>21 DEF TypeOK
    <2>1. ChunkType'
      BY DEF SplitCommit, ChunkType, chunkVars, readerVars
    <2>2. CountType'
      <3>1. se' \in Counters
        BY DEF SplitCommit, CountType, Counters
      <3>2. QED
        BY <3>1 DEF SplitCommit, CountType
    <2>3. RepoType'
      BY PersistType DEF SplitCommit, RepoType, repoVars
    <2>4. HistoryType'
      BY DEF SplitCommit, HistoryType, history, NoFault
    <2>5. ControlType' /\ ReaderType'
      BY DEF SplitCommit, ControlType, ReaderType, readerVars
    <2>6. QED
      BY <2>1, <2>2, <2>3, <2>4, <2>5
  <1>22. ASSUME NEW i \in Rows, NEW e \in Errors, SplitSkip(i, e)
         PROVE  TypeOK'
    <2> USE <1>22 DEF TypeOK
    <2>1. ChunkType'
      BY DEF SplitSkip, ChunkType, chunkVars, readerVars
    <2>2. CountType'
      <3>1. se' \in Counters
        BY DEF SplitSkip, CountType, Counters
      <3>2. QED
        BY <3>1 DEF SplitSkip, CountType
    <2>3. RepoType'
      BY DEF SplitSkip, RepoType, repoVars
    <2>4. HistoryType'
      BY ChunkStepAssumption DEF SplitSkip, HistoryType, history, Fault
    <2>5. ControlType' /\ ReaderType'
      BY DEF SplitSkip, ControlType, ReaderType, readerVars
    <2>6. QED
      BY <2>1, <2>2, <2>3, <2>4, <2>5
  <1>23. ASSUME NEW i \in Rows, NEW e \in Errors, SplitFatal(i, e)
         PROVE  TypeOK'
    <2> USE <1>23 DEF TypeOK
    <2>1. ControlType'
      BY DEF SplitFatal, ControlType, Abort, Locations
    <2>2. ChunkType'
      BY DEF SplitFatal, ChunkType, chunkVars, readerVars, Abort
    <2>3. RepoType'
      BY PersistType DEF SplitFatal, RepoType, repoVars
    <2>4. HistoryType'
      BY ChunkStepAssumption DEF SplitFatal, HistoryType, history, Fault
    <2>5. ReaderType' /\ CountType'
      BY DEF SplitFatal, ReaderType, readerVars, CountType, countVars
    <2>6. QED
      BY <2>1, <2>2, <2>3, <2>4, <2>5
  <1>24. CASE SplitDone
    <2> USE <1>24 DEF TypeOK
    <2>1. ControlType'
      BY DEF SplitDone, ControlType, Locations
    <2>2. ChunkType'
      BY DEF SplitDone, ChunkType, chunkVars, readerVars
    <2>3. HistoryType'
      BY DEF SplitDone, HistoryType, history, NoFault
    <2>4. ReaderType' /\ CountType' /\ RepoType'
      BY DEF SplitDone, ReaderType, readerVars, CountType, countVars,
         RepoType, repoVars
    <2>5. QED
      BY <2>1, <2>2, <2>3, <2>4
  <1>25. CASE Finalize
    <2> USE <1>25 DEF TypeOK
    <2>1. ControlType'
      BY DEF Finalize, ControlType, Locations, Statuses, FinalStatus
    <2>2. ReaderType'
      BY DEF Finalize, ReaderType, readerVars, MergedPos, WriterPos,
         ReaderPos
    <2>3. ChunkType'
      BY DEF Finalize, ChunkType, chunkVars, readerVars
    <2>4. CountType'
      <3>1. se' \in Counters
        BY DEF Finalize, CountType, Counters
      <3>2. QED
        BY <3>1 DEF Finalize, CountType
    <2>5. RepoType'
      BY <2>1, <2>2, <2>4 DEF Finalize, ControlType, ReaderType, CountType,
         RepoType
    <2>6. HistoryType'
      BY ChunkStepAssumption DEF Finalize, HistoryType, history
    <2>7. QED
      BY <2>1, <2>2, <2>3, <2>4, <2>5, <2>6
  <1>26. CASE Crash
    <2> USE <1>26 DEF TypeOK
    <2>1. ControlType'
      BY DEF Crash, ControlType, Locations
    <2>2. ChunkType'
      BY DEF Crash, ChunkType, chunkVars, readerVars
    <2>3. HistoryType'
      BY ChunkStepAssumption DEF Crash, HistoryType, history, Fault
    <2>4. ReaderType' /\ CountType' /\ RepoType'
      BY DEF Crash, ReaderType, readerVars, CountType, countVars, RepoType,
         repoVars
    <2>5. QED
      BY <2>1, <2>2, <2>3, <2>4
  <1>27. CASE Reenter
    <2> USE <1>27 DEF TypeOK
    <2>1. ControlType'
      <3>1. chunkError' \in BOOLEAN
        BY DEF Reenter
      <3>2. (pc \in Locations /\ run \in Nat /\ status \in Statuses)'
        BY DEF ControlType, Reenter, Locations
      <3>3. QED
        BY <3>1, <3>2 DEF ControlType
    <2>2. ReaderType'
      BY DEF Reenter, ReaderType
    <2>3. ChunkType'
      BY DEF Reenter, ChunkType
    <2>4. CountType' /\ RepoType'
      BY DEF Reenter, CountType, countVars, RepoType, repoVars
    <2>5. HistoryType'
      BY DEF Reenter, HistoryType
    <2>6. QED
      BY <2>1, <2>2, <2>3, <2>4, <2>5
  <1>29. CASE Restart
    <2> USE <1>29 DEF TypeOK
    <2>1. ControlType'
      <3>1. row.status \in Statuses
        BY DEF RepoType
      <3>2. chunkError' \in BOOLEAN
        BY DEF Restart
      <3>3. (pc \in Locations /\ run \in Nat /\ status \in Statuses)'
        BY <3>1 DEF ControlType, Restart, Locations
      <3>4. QED
        BY <3>2, <3>3 DEF ControlType
    <2>2. ReaderType'
      BY DEF Restart, ReaderType, readerVars, RepoType
    <2>3. ChunkType'
      BY DEF Restart, ChunkType, chunkVars, readerVars
    <2>4. CountType'
      BY DEF Restart, CountType, countVars, RepoType
    <2>5. HistoryType'
      BY DEF Restart, HistoryType, history
    <2>6. RepoType'
      BY DEF Restart, RepoType, repoVars
    <2>7. QED
      BY <2>1, <2>2, <2>3, <2>4, <2>5, <2>6
  <1>28. CASE UNCHANGED vars
    BY <1>28 DEF TypeOK, ControlType, ReaderType, ChunkType, CountType, RepoType,
       HistoryType, vars, readerVars, chunkVars, countVars, repoVars, history
  <1>30. QED
    BY <1>1, <1>2, <1>3, <1>4, <1>5, <1>6, <1>7, <1>8, <1>9, <1>10, <1>11,
       <1>12, <1>13, <1>14, <1>15, <1>16, <1>17, <1>18, <1>19, <1>20, <1>21,
       <1>22, <1>23, <1>24, <1>25, <1>26, <1>27, <1>28,
       <1>29 DEF Next, Step

\* The initial values are in their ranges.
LEMMA TypeInit == Init => TypeOK
  <1> SUFFICES ASSUME Init PROVE TypeOK
    OBVIOUS
  <1>1. ControlType
    BY DEF Init, ControlType, Locations, Statuses
  <1>2. ReaderType
    <2>1. usable \in BOOLEAN /\ aliased \in BOOLEAN
      BY DEF Init
    <2>2. cursor \in 0 .. NumRows /\ rcount \in 0 .. cursor
      BY ChunkStepAssumption DEF Init
    <2>3. /\ readerEC \in {"ckpt", "step"}
          /\ checkpointEC \in Position /\ stepEC \in Position
      BY DEF Init, Position, NoPos
    <2>4. QED
      BY <2>1, <2>2, <2>3 DEF ReaderType
  <1>3. ChunkType
    BY DEF Init, ChunkType
  <1>4. CountType
    BY DEF Init, CountType, Counters, NoCounts
  <1>5. RepoType
    BY <1>4 DEF Init, RepoType, CountType, Statuses, Position, NoPos, NoCheckpoint
  <1>6. HistoryType
    BY ChunkStepAssumption DEF Init, HistoryType
  <1>7. QED
    BY <1>1, <1>2, <1>3, <1>4, <1>5, <1>6 DEF TypeOK

\* Execute keeps every variable within its range, through every failure, crash
\* and restart (chunk_step.go 346-1013).
THEOREM TypeCorrect == Spec => []TypeOK
  BY TypeInit, TypeStep, PTL DEF Spec

------------------------------------------------------------------------------
(* Over an SQL repository no row is lost and none is written twice in one  *)
(* run, proved for every number of rows, chunk size, policy and number of  *)
(* failures, crashes and runs.  The invariant says, at each location of    *)
(* Execute, what has become of the rows the cursor has passed.             *)

\* The repository is SQLJobRepository: a checkpoint that was read is a copy.
SQL == ~InMemoryRepo

Running == Locations \ {"start", "open", "done", "crashed"}
Collecting == {"read", "process", "endRead", "write", "commit"}

\* Rows in the hands of the current chunk.
Pending(r) ==
  \/ pc \in Collecting /\ r \in itemsToWrite
  \/ pc = "process" /\ r = cursor
  \/ pc = "split" /\ r \in split

\* An error is on its way to the end; a status is final.
ErrorEnds ==
  /\ chunkError => pc \in {"endRead", "finalize", "done", "crashed"}
  /\ status = "COMPLETED" => pc = "done"

\* The loop ends without an error only at the end of the rows.
EndAtEOF ==
  /\ pc \in {"read", "process"} => ~isEOF
  /\ pc \in {"endRead", "write", "commit", "checkpoint"} /\ isEOF => cursor = NumRows
  /\ pc = "endRead" /\ ~chunkError => isEOF
  /\ pc = "finalize" /\ ~chunkError => cursor = NumRows \/ ChunkSize <= 0

\* A chunk of size 0 or less takes no row from the reader.
NothingRead ==
  ChunkSize <= 0 =>
    /\ pc \notin {"process", "endRead", "write", "commit", "checkpoint", "split"}
    /\ pc = "read" => EmptyChunk
    /\ writeRetries = 0
    /\ \A r \in Rows : committed[r] = 0 /\ r \notin dropped

\* The position that will be saved is not beyond the cursor.
PositionBehind ==
  writeRetries = 0 =>
    /\ readerEC = "ckpt"
    /\ pc \in Running => checkpointEC <= rcount

\* The rows of a chunk are rows the cursor has passed.
ChunkBehind ==
  writeRetries = 0 =>
    /\ pc \in Collecting => \A r \in itemsToWrite : r <= cursor
    /\ pc = "split" => \A r \in split : r <= cursor

\* Every row the cursor has passed is accounted for or in hand.
PassedRows ==
  Undisturbed /\ pc \in Running /\ ~chunkError
    => \A r \in Rows : r <= cursor => Accounted(r) \/ Pending(r)

\* A row still to come, or in hand, has not been written in this run.
FreshRows ==
  writeRetries = 0 =>
    \A r \in Rows :
      /\ committed[r] <= run
      /\ pc \in {"start", "open"} => committed[r] < run
      /\ pc \in Running /\ (r > cursor \/ Pending(r)) => committed[r] < run

NotAliased == ~aliased

\* Only a checkpoint of the in-memory repository is shared.
LEMMA NotAliasedStep == SQL /\ NotAliased /\ [Next]_vars => NotAliased'
<1> SUFFICES ASSUME SQL, NotAliased, [Next]_vars PROVE NotAliased'
  OBVIOUS
<1> USE DEF readerVars, chunkVars, countVars, repoVars, history,
            SQL, NotAliased
<1>1. CASE Start  BY <1>1 DEF Start
<1>2. CASE Open  BY <1>2 DEF Open, ReaderOpen
<1>3. CASE BeginChunk  BY <1>3 DEF BeginChunk, Abort
<1>4. CASE ReadItem  BY <1>4 DEF ReadItem, Reading, ReaderRead
<1>5. CASE ReadEOF  BY <1>5 DEF ReadEOF, Reading
<1>6. CASE ProcessItem  BY <1>6 DEF ProcessItem
<1>7. CASE EndReadLoop  BY <1>7 DEF EndReadLoop, EmptyChunk, Rollback
<1>8. CASE WriteItems  BY <1>8 DEF WriteItems
<1>9. CASE Commit  BY <1>9 DEF Commit
<1>10. CASE CommitFails  BY <1>10 DEF CommitFails, Abort
<1>11. CASE SaveCheckpoint  BY <1>11 DEF SaveCheckpoint, Abort
<1>12. CASE SplitDone  BY <1>12 DEF SplitDone
<1>13. CASE Finalize  BY <1>13 DEF Finalize, FinalStatus
<1>14. CASE Crash  BY <1>14 DEF Crash
<1>15. CASE Reenter  BY <1>15 DEF Reenter
<1>16. CASE Restart  BY <1>16 DEF Restart
<1>17. ASSUME NEW e \in Errors, NEW badRow \in BOOLEAN, ReadRetry(e, badRow)
       PROVE  NotAliased'
  BY <1>17 DEF ReadRetry, Reading, ReadFails, Abort
<1>18. ASSUME NEW e \in Errors, NEW badRow \in BOOLEAN, ReadSkip(e, badRow)
       PROVE  NotAliased'
  BY <1>18 DEF ReadSkip, Reading, ReadFails
<1>19. ASSUME NEW e \in Errors, NEW badRow \in BOOLEAN, ReadFatal(e, badRow)
       PROVE  NotAliased'
  BY <1>19 DEF ReadFatal, Reading, ReadFails, Abort
<1>20. ASSUME NEW e \in Errors, ProcessRetry(e) PROVE NotAliased'
  BY <1>20 DEF ProcessRetry, Abort
<1>21. ASSUME NEW e \in Errors, ProcessSkip(e) PROVE NotAliased'
  BY <1>21 DEF ProcessSkip
<1>22. ASSUME NEW e \in Errors, ProcessFatal(e) PROVE NotAliased'
  BY <1>22 DEF ProcessFatal
<1>23. ASSUME NEW e \in Errors, WriteRetry(e) PROVE NotAliased'
  BY <1>23 DEF WriteRetry, Rollback, ReaderOpen, Abort
<1>24. ASSUME NEW e \in Errors, WriteSplit(e) PROVE NotAliased'
  BY <1>24 DEF WriteSplit, Rollback
<1>25. ASSUME NEW e \in Errors, WriteFatal(e) PROVE NotAliased'
  BY <1>25 DEF WriteFatal, Rollback, Abort
<1>26. ASSUME NEW i \in Rows, SplitCommit(i) PROVE NotAliased'
  BY <1>26 DEF SplitCommit, NextSplit
<1>27. ASSUME NEW i \in Rows, NEW e \in Errors, SplitSkip(i, e) PROVE NotAliased'
  BY <1>27 DEF SplitSkip, NextSplit
<1>28. ASSUME NEW i \in Rows, NEW e \in Errors, SplitFatal(i, e) PROVE NotAliased'
  BY <1>28 DEF SplitFatal, NextSplit, Abort
<1>29. CASE UNCHANGED vars  BY <1>29 DEF vars
<1> QED
  BY <1>1, <1>2, <1>3, <1>4, <1>5, <1>6, <1>7, <1>8, <1>9, <1>10, <1>11, <1>12, <1>13,
     <1>14, <1>15, <1>16, <1>17, <1>18, <1>19, <1>20, <1>21, <1>22, <1>23, <1>24, <1>25,
     <1>26, <1>27, <1>28, <1>29
     DEF Next, Step

\* Every error leaves the chunk loop.
LEMMA ErrorEndsStep == TypeOK /\ ErrorEnds /\ [Next]_vars => ErrorEnds'
<1> SUFFICES ASSUME TypeOK, ErrorEnds, [Next]_vars PROVE ErrorEnds'
  OBVIOUS
<1> USE DEF readerVars, chunkVars, countVars, repoVars, history,
            TypeOK, ControlType, ErrorEnds
<1>1. CASE Start  BY <1>1 DEF Start
<1>2. CASE Open  BY <1>2 DEF Open, ReaderOpen
<1>3. CASE BeginChunk  BY <1>3 DEF BeginChunk, Abort
<1>4. CASE ReadItem  BY <1>4 DEF ReadItem, Reading, ReaderRead
<1>5. CASE ReadEOF  BY <1>5 DEF ReadEOF, Reading
<1>6. CASE ProcessItem  BY <1>6 DEF ProcessItem
<1>7. CASE EndReadLoop  BY <1>7 DEF EndReadLoop, EmptyChunk, Rollback
<1>8. CASE WriteItems  BY <1>8 DEF WriteItems
<1>9. CASE Commit  BY <1>9 DEF Commit
<1>10. CASE CommitFails  BY <1>10 DEF CommitFails, Abort
<1>11. CASE SaveCheckpoint  BY <1>11 DEF SaveCheckpoint, Abort
<1>12. CASE SplitDone  BY <1>12 DEF SplitDone
<1>13. CASE Finalize  BY <1>13 DEF Finalize, FinalStatus
<1>14. CASE Crash  BY <1>14 DEF Crash
<1>15. CASE Reenter  BY <1>15 DEF Reenter
<1>16. CASE Restart  BY <1>16 DEF Restart
<1>17. ASSUME NEW e \in Errors, NEW badRow \in BOOLEAN, ReadRetry(e, badRow)
       PROVE  ErrorEnds'
  BY <1>17 DEF ReadRetry, Reading, ReadFails, Abort
<1>18. ASSUME NEW e \in Errors, NEW badRow \in BOOLEAN, ReadSkip(e, badRow)
       PROVE  ErrorEnds'
  BY <1>18 DEF ReadSkip, Reading, ReadFails
<1>19. ASSUME NEW e \in Errors, NEW badRow \in BOOLEAN, ReadFatal(e, badRow)
       PROVE  ErrorEnds'
  BY <1>19 DEF ReadFatal, Reading, ReadFails, Abort
<1>20. ASSUME NEW e \in Errors, ProcessRetry(e) PROVE ErrorEnds'
  BY <1>20 DEF ProcessRetry, Abort
<1>21. ASSUME NEW e \in Errors, ProcessSkip(e) PROVE ErrorEnds'
  BY <1>21 DEF ProcessSkip
<1>22. ASSUME NEW e \in Errors, ProcessFatal(e) PROVE ErrorEnds'
  BY <1>22 DEF ProcessFatal
<1>23. ASSUME NEW e \in Errors, WriteRetry(e) PROVE ErrorEnds'
  BY <1>23 DEF WriteRetry, Rollback, ReaderOpen, Abort
<1>24. ASSUME NEW e \in Errors, WriteSplit(e) PROVE ErrorEnds'
  BY <1>24 DEF WriteSplit, Rollback
<1>25. ASSUME NEW e \in Errors, WriteFatal(e) PROVE ErrorEnds'
  BY <1>25 DEF WriteFatal, Rollback, Abort
<1>26. ASSUME NEW i \in Rows, SplitCommit(i) PROVE ErrorEnds'
  BY <1>26 DEF SplitCommit, NextSplit
<1>27. ASSUME NEW i \in Rows, NEW e \in Errors, SplitSkip(i, e) PROVE ErrorEnds'
  BY <1>27 DEF SplitSkip, NextSplit
<1>28. ASSUME NEW i \in Rows, NEW e \in Errors, SplitFatal(i, e) PROVE ErrorEnds'
  BY <1>28 DEF SplitFatal, NextSplit, Abort
<1>29. CASE UNCHANGED vars  BY <1>29 DEF vars
<1> QED
  BY <1>1, <1>2, <1>3, <1>4, <1>5, <1>6, <1>7, <1>8, <1>9, <1>10, <1>11, <1>12, <1>13,
     <1>14, <1>15, <1>16, <1>17, <1>18, <1>19, <1>20, <1>21, <1>22, <1>23, <1>24, <1>25,
     <1>26, <1>27, <1>28, <1>29
     DEF Next, Step

\* A full chunk is not an empty one, unless its size is 0 or less: the empty
\* chunk that ends the loop was cut short by the end of the rows.
LEMMA EndAtEOFStep == TypeOK /\ ErrorEnds /\ EndAtEOF /\ [Next]_vars => EndAtEOF'
<1> SUFFICES ASSUME TypeOK, ErrorEnds, EndAtEOF, [Next]_vars PROVE EndAtEOF'
  OBVIOUS
<1> USE DEF readerVars, chunkVars, countVars, repoVars, history,
            TypeOK, ControlType, ErrorEnds, EndAtEOF
<1>1. CASE Start  BY <1>1 DEF Start
<1>2. CASE Open  BY <1>2 DEF Open, ReaderOpen
<1>3. CASE BeginChunk  BY <1>3 DEF BeginChunk, Abort
<1>4. CASE ReadItem  BY <1>4 DEF ReadItem, Reading, ReaderRead
<1>5. CASE ReadEOF  BY <1>5 DEF ReadEOF, Reading
<1>6. CASE ProcessItem  BY <1>6 DEF ProcessItem
<1>7. CASE EndReadLoop
  <2>1. pc = "read" /\ ~(ChunkSize <= 0) => ~chunkError /\ ~EmptyChunk
    BY <1>7, ChunkStepAssumption DEF EndReadLoop, EmptyChunk, ChunkType
  <2> QED
    BY <2>1, <1>7 DEF EndReadLoop, Rollback
<1>8. CASE WriteItems  BY <1>8 DEF WriteItems
<1>9. CASE Commit  BY <1>9 DEF Commit
<1>10. CASE CommitFails  BY <1>10 DEF CommitFails, Abort
<1>11. CASE SaveCheckpoint  BY <1>11 DEF SaveCheckpoint, Abort
<1>12. CASE SplitDone  BY <1>12 DEF SplitDone
<1>13. CASE Finalize  BY <1>13 DEF Finalize, FinalStatus
<1>14. CASE Crash  BY <1>14 DEF Crash
<1>15. CASE Reenter  BY <1>15 DEF Reenter
<1>16. CASE Restart  BY <1>16 DEF Restart
<1>17. ASSUME NEW e \in Errors, NEW badRow \in BOOLEAN, ReadRetry(e, badRow)
       PROVE  EndAtEOF'
  BY <1>17 DEF ReadRetry, Reading, ReadFails, Abort
<1>18. ASSUME NEW e \in Errors, NEW badRow \in BOOLEAN, ReadSkip(e, badRow)
       PROVE  EndAtEOF'
  BY <1>18 DEF ReadSkip, Reading, ReadFails
<1>19. ASSUME NEW e \in Errors, NEW badRow \in BOOLEAN, ReadFatal(e, badRow)
       PROVE  EndAtEOF'
  BY <1>19 DEF ReadFatal, Reading, ReadFails, Abort
<1>20. ASSUME NEW e \in Errors, ProcessRetry(e) PROVE EndAtEOF'
  BY <1>20 DEF ProcessRetry, Abort
<1>21. ASSUME NEW e \in Errors, ProcessSkip(e) PROVE EndAtEOF'
  BY <1>21 DEF ProcessSkip
<1>22. ASSUME NEW e \in Errors, ProcessFatal(e) PROVE EndAtEOF'
  BY <1>22 DEF ProcessFatal
<1>23. ASSUME NEW e \in Errors, WriteRetry(e) PROVE EndAtEOF'
  BY <1>23 DEF WriteRetry, Rollback, ReaderOpen, Abort
<1>24. ASSUME NEW e \in Errors, WriteSplit(e) PROVE EndAtEOF'
  BY <1>24 DEF WriteSplit, Rollback
<1>25. ASSUME NEW e \in Errors, WriteFatal(e) PROVE EndAtEOF'
  BY <1>25 DEF WriteFatal, Rollback, Abort
<1>26. ASSUME NEW i \in Rows, SplitCommit(i) PROVE EndAtEOF'
  BY <1>26 DEF SplitCommit, NextSplit
<1>27. ASSUME NEW i \in Rows, NEW e \in Errors, SplitSkip(i, e) PROVE EndAtEOF'
  BY <1>27 DEF SplitSkip, NextSplit
<1>28. ASSUME NEW i \in Rows, NEW e \in Errors, SplitFatal(i, e) PROVE EndAtEOF'
  BY <1>28 DEF SplitFatal, NextSplit, Abort
<1>29. CASE UNCHANGED vars  BY <1>29 DEF vars
<1> QED
  BY <1>1, <1>2, <1>3, <1>4, <1>5, <1>6, <1>7, <1>8, <1>9, <1>10, <1>11, <1>12, <1>13,
     <1>14, <1>15, <1>16, <1>17, <1>18, <1>19, <1>20, <1>21, <1>22, <1>23, <1>24, <1>25,
     <1>26, <1>27, <1>28, <1>29
     DEF Next, Step

\* A read loop that is not entered leaves the rows alone.
LEMMA NothingReadStep == TypeOK /\ NothingRead /\ [Next]_vars => NothingRead'
<1> SUFFICES ASSUME TypeOK, NothingRead, [Next]_vars, ChunkSize <= 0 PROVE NothingRead'
  BY DEF NothingRead
<1> USE ChunkStepAssumption
    DEF readerVars, chunkVars, countVars, repoVars, history, TypeOK, ControlType,
        NothingRead, EmptyChunk
<1>1. CASE Start  BY <1>1 DEF Start
<1>2. CASE Open  BY <1>2 DEF Open, ReaderOpen
<1>3. CASE BeginChunk  BY <1>3 DEF BeginChunk, Abort
<1>4. CASE ReadItem  BY <1>4 DEF ReadItem, Reading, ReaderRead, ChunkType
<1>5. CASE ReadEOF  BY <1>5 DEF ReadEOF, Reading, ChunkType
<1>6. CASE ProcessItem  BY <1>6 DEF ProcessItem
<1>7. CASE EndReadLoop  BY <1>7 DEF EndReadLoop, Rollback
<1>8. CASE WriteItems  BY <1>8 DEF WriteItems
<1>9. CASE Commit  BY <1>9 DEF Commit
<1>10. CASE CommitFails  BY <1>10 DEF CommitFails, Abort
<1>11. CASE SaveCheckpoint  BY <1>11 DEF SaveCheckpoint, Abort
<1>12. CASE SplitDone  BY <1>12 DEF SplitDone
<1>13. CASE Finalize  BY <1>13 DEF Finalize, FinalStatus
<1>14. CASE Crash  BY <1>14 DEF Crash
<1>15. CASE Reenter  BY <1>15 DEF Reenter
<1>16. CASE Restart  BY <1>16 DEF Restart
<1>17. ASSUME NEW e \in Errors, NEW badRow \in BOOLEAN, ReadRetry(e, badRow)
       PROVE  NothingRead'
  BY <1>17 DEF ReadRetry, Reading, ReadFails, Abort
<1>18. ASSUME NEW e \in Errors, NEW badRow \in BOOLEAN, ReadSkip(e, badRow)
       PROVE  NothingRead'
  BY <1>18 DEF ReadSkip, Reading, ReadFails
<1>19. ASSUME NEW e \in Errors, NEW badRow \in BOOLEAN, ReadFatal(e, badRow)
       PROVE  NothingRead'
  BY <1>19 DEF ReadFatal, Reading, ReadFails, Abort
<1>20. ASSUME NEW e \in Errors, ProcessRetry(e) PROVE NothingRead'
  BY <1>20 DEF ProcessRetry, Abort
<1>21. ASSUME NEW e \in Errors, ProcessSkip(e) PROVE NothingRead'
  BY <1>21 DEF ProcessSkip
<1>22. ASSUME NEW e \in Errors, ProcessFatal(e) PROVE NothingRead'
  BY <1>22 DEF ProcessFatal
<1>23. ASSUME NEW e \in Errors, WriteRetry(e) PROVE NothingRead'
  BY <1>23 DEF WriteRetry, Rollback, ReaderOpen, Abort
<1>24. ASSUME NEW e \in Errors, WriteSplit(e) PROVE NothingRead'
  BY <1>24 DEF WriteSplit, Rollback
<1>25. ASSUME NEW e \in Errors, WriteFatal(e) PROVE NothingRead'
  BY <1>25 DEF WriteFatal, Rollback, Abort
<1>26. ASSUME NEW i \in Rows, SplitCommit(i) PROVE NothingRead'
  BY <1>26 DEF SplitCommit, NextSplit
<1>27. ASSUME NEW i \in Rows, NEW e \in Errors, SplitSkip(i, e) PROVE NothingRead'
  BY <1>27 DEF SplitSkip, NextSplit
<1>28. ASSUME NEW i \in Rows, NEW e \in Errors, SplitFatal(i, e) PROVE NothingRead'
  BY <1>28 DEF SplitFatal, NextSplit, Abort
<1>29. CASE UNCHANGED vars  BY <1>29 DEF vars
<1> QED
  BY <1>1, <1>2, <1>3, <1>4, <1>5, <1>6, <1>7, <1>8, <1>9, <1>10, <1>11, <1>12, <1>13,
     <1>14, <1>15, <1>16, <1>17, <1>18, <1>19, <1>20, <1>21, <1>22, <1>23, <1>24, <1>25,
     <1>26, <1>27, <1>28, <1>29
     DEF Next, Step

\* The reader writes its position after it has moved.
LEMMA PositionStep == TypeOK /\ PositionBehind /\ [Next]_vars => PositionBehind'
<1> SUFFICES ASSUME TypeOK, PositionBehind, [Next]_vars PROVE PositionBehind'
  OBVIOUS
<1> USE DEF readerVars, chunkVars, countVars, repoVars, history,
            TypeOK, ReaderType, PositionBehind, Running, Locations
<1>1. CASE Start  BY <1>1 DEF Start
<1>2. CASE Open
  <2>1. checkpoint.pos \in Position
    BY DEF RepoType
  <2>2. checkpoint.pos <= Offset(checkpoint.pos)
    BY <2>1, ChunkStepAssumption DEF Position, Offset, NoPos
  <2> QED
    BY <2>2, <1>2 DEF Open, ReaderOpen
<1>3. CASE BeginChunk  BY <1>3 DEF BeginChunk, Abort
<1>4. CASE ReadItem  BY <1>4 DEF ReadItem, Reading, ReaderRead
<1>5. CASE ReadEOF  BY <1>5 DEF ReadEOF, Reading
<1>6. CASE ProcessItem  BY <1>6 DEF ProcessItem
<1>7. CASE EndReadLoop  BY <1>7 DEF EndReadLoop, EmptyChunk, Rollback
<1>8. CASE WriteItems  BY <1>8 DEF WriteItems
<1>9. CASE Commit  BY <1>9 DEF Commit
<1>10. CASE CommitFails  BY <1>10 DEF CommitFails, Abort
<1>11. CASE SaveCheckpoint  BY <1>11 DEF SaveCheckpoint, Abort
<1>12. CASE SplitDone  BY <1>12 DEF SplitDone
<1>13. CASE Finalize  BY <1>13 DEF Finalize, FinalStatus
<1>14. CASE Crash  BY <1>14 DEF Crash
<1>15. CASE Reenter  BY <1>15 DEF Reenter
<1>16. CASE Restart  BY <1>16 DEF Restart
<1>17. ASSUME NEW e \in Errors, NEW badRow \in BOOLEAN, ReadRetry(e, badRow)
       PROVE  PositionBehind'
  BY <1>17 DEF ReadRetry, Reading, ReadFails, Abort
<1>18. ASSUME NEW e \in Errors, NEW badRow \in BOOLEAN, ReadSkip(e, badRow)
       PROVE  PositionBehind'
  BY <1>18 DEF ReadSkip, Reading, ReadFails
<1>19. ASSUME NEW e \in Errors, NEW badRow \in BOOLEAN, ReadFatal(e, badRow)
       PROVE  PositionBehind'
  BY <1>19 DEF ReadFatal, Reading, ReadFails, Abort
<1>20. ASSUME NEW e \in Errors, ProcessRetry(e) PROVE PositionBehind'
  BY <1>20 DEF ProcessRetry, Abort
<1>21. ASSUME NEW e \in Errors, ProcessSkip(e) PROVE PositionBehind'
  BY <1>21 DEF ProcessSkip
<1>22. ASSUME NEW e \in Errors, ProcessFatal(e) PROVE PositionBehind'
  BY <1>22 DEF ProcessFatal
<1>23. ASSUME NEW e \in Errors, WriteRetry(e) PROVE PositionBehind'
  BY <1>23 DEF WriteRetry, HistoryType
<1>24. ASSUME NEW e \in Errors, WriteSplit(e) PROVE PositionBehind'
  BY <1>24 DEF WriteSplit, Rollback
<1>25. ASSUME NEW e \in Errors, WriteFatal(e) PROVE PositionBehind'
  BY <1>25 DEF WriteFatal, Rollback, Abort
<1>26. ASSUME NEW i \in Rows, SplitCommit(i) PROVE PositionBehind'
  BY <1>26 DEF SplitCommit, NextSplit
<1>27. ASSUME NEW i \in Rows, NEW e \in Errors, SplitSkip(i, e) PROVE PositionBehind'
  BY <1>27 DEF SplitSkip, NextSplit
<1>28. ASSUME NEW i \in Rows, NEW e \in Errors, SplitFatal(i, e) PROVE PositionBehind'
  BY <1>28 DEF SplitFatal, NextSplit, Abort
<1>29. CASE UNCHANGED vars  BY <1>29 DEF vars
<1> QED
  BY <1>1, <1>2, <1>3, <1>4, <1>5, <1>6, <1>7, <1>8, <1>9, <1>10, <1>11, <1>12, <1>13,
     <1>14, <1>15, <1>16, <1>17, <1>18, <1>19, <1>20, <1>21, <1>22, <1>23, <1>24, <1>25,
     <1>26, <1>27, <1>28, <1>29
     DEF Next, Step

\* A chunk collects the row the cursor is on, and the cursor only advances.
LEMMA ChunkBehindStep == TypeOK /\ ChunkBehind /\ [Next]_vars => ChunkBehind'
<1> SUFFICES ASSUME TypeOK, ChunkBehind, [Next]_vars PROVE ChunkBehind'
  OBVIOUS
<1> USE DEF readerVars, chunkVars, countVars, repoVars, history,
            TypeOK, ReaderType, ChunkType, ChunkBehind, Collecting
<1>1. CASE Start  BY <1>1 DEF Start
<1>2. CASE Open  BY <1>2 DEF Open, ReaderOpen
<1>3. CASE BeginChunk  BY <1>3 DEF BeginChunk, Abort
<1>4. CASE ReadItem
  <2>1. cursor' \in Nat /\ cursor \in Nat /\ cursor <= cursor'
    BY <1>4, ChunkStepAssumption, TypeStep DEF ReadItem, ReaderRead
  <2>2. /\ writeRetries' = writeRetries /\ itemsToWrite' = itemsToWrite
        /\ pc = "read" /\ pc' # "split"
    BY <1>4 DEF ReadItem, Reading
  <2>3. \A r \in itemsToWrite : r \in Nat
    BY DEF Rows
  <2> QED
    BY <2>1, <2>2, <2>3
<1>5. CASE ReadEOF  BY <1>5 DEF ReadEOF, Reading
<1>6. CASE ProcessItem  BY <1>6 DEF ProcessItem
<1>7. CASE EndReadLoop  BY <1>7 DEF EndReadLoop, EmptyChunk, Rollback
<1>8. CASE WriteItems  BY <1>8 DEF WriteItems
<1>9. CASE Commit  BY <1>9 DEF Commit
<1>10. CASE CommitFails  BY <1>10 DEF CommitFails, Abort
<1>11. CASE SaveCheckpoint  BY <1>11 DEF SaveCheckpoint, Abort
<1>12. CASE SplitDone  BY <1>12 DEF SplitDone
<1>13. CASE Finalize  BY <1>13 DEF Finalize, FinalStatus
<1>14. CASE Crash  BY <1>14 DEF Crash
<1>15. CASE Reenter  BY <1>15 DEF Reenter
<1>16. CASE Restart  BY <1>16 DEF Restart
<1>17. ASSUME NEW e \in Errors, NEW badRow \in BOOLEAN, ReadRetry(e, badRow)
       PROVE  ChunkBehind'
  <2>1. cursor' \in Nat /\ cursor \in Nat /\ cursor <= cursor'
    BY <1>17, ChunkStepAssumption, TypeStep DEF ReadRetry, ReadFails
  <2>2. /\ writeRetries' = writeRetries /\ itemsToWrite' = itemsToWrite
        /\ pc = "read" /\ pc' # "split"
    BY <1>17 DEF ReadRetry, Reading, Abort
  <2>3. \A r \in itemsToWrite : r \in Nat
    BY DEF Rows
  <2> QED
    BY <2>1, <2>2, <2>3
<1>18. ASSUME NEW e \in Errors, NEW badRow \in BOOLEAN, ReadSkip(e, badRow)
       PROVE  ChunkBehind'
  <2>1. cursor' \in Nat /\ cursor \in Nat /\ cursor <= cursor'
    BY <1>18, ChunkStepAssumption, TypeStep DEF ReadSkip, ReadFails
  <2>2. /\ writeRetries' = writeRetries /\ itemsToWrite' = itemsToWrite
        /\ pc = "read" /\ pc' # "split"
    BY <1>18 DEF ReadSkip, Reading
  <2>3. \A r \in itemsToWrite : r \in Nat
    BY DEF Rows
  <2> QED
    BY <2>1, <2>2, <2>3
<1>19. ASSUME NEW e \in Errors, NEW badRow \in BOOLEAN, ReadFatal(e, badRow)
       PROVE  ChunkBehind'
  BY <1>19 DEF ReadFatal, Reading, ReadFails, Abort
<1>20. ASSUME NEW e \in Errors, ProcessRetry(e) PROVE ChunkBehind'
  BY <1>20 DEF ProcessRetry, Abort
<1>21. ASSUME NEW e \in Errors, ProcessSkip(e) PROVE ChunkBehind'
  BY <1>21 DEF ProcessSkip
<1>22. ASSUME NEW e \in Errors, ProcessFatal(e) PROVE ChunkBehind'
  BY <1>22 DEF ProcessFatal
<1>23. ASSUME NEW e \in Errors, WriteRetry(e) PROVE ChunkBehind'
  BY <1>23 DEF WriteRetry, Rollback, ReaderOpen, Abort
<1>24. ASSUME NEW e \in Errors, WriteSplit(e) PROVE ChunkBehind'
  BY <1>24 DEF WriteSplit, Rollback
<1>25. ASSUME NEW e \in Errors, WriteFatal(e) PROVE ChunkBehind'
  BY <1>25 DEF WriteFatal, Rollback, Abort
<1>26. ASSUME NEW i \in Rows, SplitCommit(i) PROVE ChunkBehind'
  BY <1>26 DEF SplitCommit, NextSplit
<1>27. ASSUME NEW i \in Rows, NEW e \in Errors, SplitSkip(i, e) PROVE ChunkBehind'
  BY <1>27 DEF SplitSkip, NextSplit
<1>28. ASSUME NEW i \in Rows, NEW e \in Errors, SplitFatal(i, e) PROVE ChunkBehind'
  BY <1>28 DEF SplitFatal, NextSplit, Abort
<1>29. CASE UNCHANGED vars  BY <1>29 DEF vars
<1> QED
  BY <1>1, <1>2, <1>3, <1>4, <1>5, <1>6, <1>7, <1>8, <1>9, <1>10, <1>11, <1>12, <1>13,
     <1>14, <1>15, <1>16, <1>17, <1>18, <1>19, <1>20, <1>21, <1>22, <1>23, <1>24, <1>25,
     <1>26, <1>27, <1>28, <1>29
     DEF Next, Step

\* Nothing that was written or dropped is taken back.
LEMMA AccountedKept ==
  TypeOK /\ [Next]_vars
  => (\A r \in Rows : Accounted(r) => Accounted(r)')
<1> SUFFICES ASSUME TypeOK, [Next]_vars
             PROVE  (\A r \in Rows : Accounted(r) => Accounted(r)')
  OBVIOUS
<1> USE DEF readerVars, chunkVars, countVars, repoVars, history,
            TypeOK, RepoType, Accounted
<1>1. CASE Start  BY <1>1 DEF Start
<1>2. CASE Open  BY <1>2 DEF Open, ReaderOpen
<1>3. CASE BeginChunk  BY <1>3 DEF BeginChunk, Abort
<1>4. CASE ReadItem  BY <1>4 DEF ReadItem, Reading, ReaderRead
<1>5. CASE ReadEOF  BY <1>5 DEF ReadEOF, Reading
<1>6. CASE ProcessItem  BY <1>6 DEF ProcessItem
<1>7. CASE EndReadLoop  BY <1>7 DEF EndReadLoop, EmptyChunk, Rollback
<1>8. CASE WriteItems  BY <1>8 DEF WriteItems
<1>9. CASE Commit
  <2>1. committed' = Persist(itemsToWrite)
    BY <1>9 DEF Commit
  <2> QED
    BY <2>1, PersistType, <1>9 DEF Commit
<1>10. CASE CommitFails
  <2>1. committed' = committed \/ committed' = Persist(itemsToWrite)
    BY <1>10 DEF CommitFails
  <2> QED
    BY <2>1, PersistType, <1>10 DEF CommitFails
<1>11. CASE SaveCheckpoint  BY <1>11 DEF SaveCheckpoint, Abort
<1>12. CASE SplitDone  BY <1>12 DEF SplitDone
<1>13. CASE Finalize  BY <1>13 DEF Finalize, FinalStatus
<1>14. CASE Crash  BY <1>14 DEF Crash
<1>15. CASE Reenter  BY <1>15 DEF Reenter
<1>16. CASE Restart  BY <1>16 DEF Restart
<1>17. ASSUME NEW e \in Errors, NEW badRow \in BOOLEAN, ReadRetry(e, badRow)
       PROVE  (\A r \in Rows : Accounted(r) => Accounted(r)')
  BY <1>17 DEF ReadRetry, Reading, ReadFails, Abort
<1>18. ASSUME NEW e \in Errors, NEW badRow \in BOOLEAN, ReadSkip(e, badRow)
       PROVE  (\A r \in Rows : Accounted(r) => Accounted(r)')
  BY <1>18 DEF ReadSkip, Reading, ReadFails
<1>19. ASSUME NEW e \in Errors, NEW badRow \in BOOLEAN, ReadFatal(e, badRow)
       PROVE  (\A r \in Rows : Accounted(r) => Accounted(r)')
  BY <1>19 DEF ReadFatal, Reading, ReadFails, Abort
<1>20. ASSUME NEW e \in Errors, ProcessRetry(e)
       PROVE  (\A r \in Rows : Accounted(r) => Accounted(r)')
  BY <1>20 DEF ProcessRetry, Abort
<1>21. ASSUME NEW e \in Errors, ProcessSkip(e)
       PROVE  (\A r \in Rows : Accounted(r) => Accounted(r)')
  BY <1>21 DEF ProcessSkip
<1>22. ASSUME NEW e \in Errors, ProcessFatal(e)
       PROVE  (\A r \in Rows : Accounted(r) => Accounted(r)')
  BY <1>22 DEF ProcessFatal
<1>23. ASSUME NEW e \in Errors, WriteRetry(e)
       PROVE  (\A r \in Rows : Accounted(r) => Accounted(r)')
  BY <1>23 DEF WriteRetry, Rollback, ReaderOpen, Abort
<1>24. ASSUME NEW e \in Errors, WriteSplit(e)
       PROVE  (\A r \in Rows : Accounted(r) => Accounted(r)')
  BY <1>24 DEF WriteSplit, Rollback
<1>25. ASSUME NEW e \in Errors, WriteFatal(e)
       PROVE  (\A r \in Rows : Accounted(r) => Accounted(r)')
  BY <1>25 DEF WriteFatal, Rollback, Abort
<1>26. ASSUME NEW i \in Rows, SplitCommit(i)
       PROVE  (\A r \in Rows : Accounted(r) => Accounted(r)')
  <2>1. committed' = Persist({i})
    BY <1>26 DEF SplitCommit
  <2> QED
    BY <2>1, PersistType, <1>26 DEF SplitCommit
<1>27. ASSUME NEW i \in Rows, NEW e \in Errors, SplitSkip(i, e)
       PROVE  (\A r \in Rows : Accounted(r) => Accounted(r)')
  BY <1>27 DEF SplitSkip, NextSplit
<1>28. ASSUME NEW i \in Rows, NEW e \in Errors, SplitFatal(i, e)
       PROVE  (\A r \in Rows : Accounted(r) => Accounted(r)')
  <2>1. committed' = committed \/ committed' = Persist({i})
    BY <1>28 DEF SplitFatal
  <2> QED
    BY <2>1, PersistType, <1>28 DEF SplitFatal
<1>29. CASE UNCHANGED vars  BY <1>29 DEF vars
<1> QED
  BY <1>1, <1>2, <1>3, <1>4, <1>5, <1>6, <1>7, <1>8, <1>9, <1>10, <1>11, <1>12, <1>13,
     <1>14, <1>15, <1>16, <1>17, <1>18, <1>19, <1>20, <1>21, <1>22, <1>23, <1>24, <1>25,
     <1>26, <1>27, <1>28, <1>29
     DEF Next, Step

\* A history once disturbed stays disturbed.
LEMMA UndisturbedBefore == TypeOK /\ [Next]_vars => (Undisturbed' => Undisturbed)
<1> SUFFICES ASSUME TypeOK, [Next]_vars PROVE (Undisturbed' => Undisturbed)
  OBVIOUS
<1> USE DEF readerVars, chunkVars, countVars, repoVars, history,
            TypeOK, HistoryType, Undisturbed
<1>1. CASE Start  BY <1>1 DEF Start
<1>2. CASE Open  BY <1>2 DEF Open, ReaderOpen
<1>3. CASE BeginChunk  BY <1>3 DEF BeginChunk, Abort
<1>4. CASE ReadItem  BY <1>4 DEF ReadItem, Reading, ReaderRead
<1>5. CASE ReadEOF  BY <1>5 DEF ReadEOF, Reading
<1>6. CASE ProcessItem  BY <1>6 DEF ProcessItem
<1>7. CASE EndReadLoop  BY <1>7 DEF EndReadLoop, EmptyChunk, Rollback
<1>8. CASE WriteItems  BY <1>8 DEF WriteItems
<1>9. CASE Commit  BY <1>9 DEF Commit
<1>10. CASE CommitFails  BY <1>10 DEF CommitFails, Abort
<1>11. CASE SaveCheckpoint  BY <1>11 DEF SaveCheckpoint, Abort
<1>12. CASE SplitDone  BY <1>12 DEF SplitDone
<1>13. CASE Finalize  BY <1>13 DEF Finalize, FinalStatus
<1>14. CASE Crash  BY <1>14 DEF Crash
<1>15. CASE Reenter  BY <1>15 DEF Reenter
<1>16. CASE Restart  BY <1>16 DEF Restart
<1>17. ASSUME NEW e \in Errors, NEW badRow \in BOOLEAN, ReadRetry(e, badRow)
       PROVE  (Undisturbed' => Undisturbed)
  BY <1>17 DEF ReadRetry, Reading, ReadFails, Abort
<1>18. ASSUME NEW e \in Errors, NEW badRow \in BOOLEAN, ReadSkip(e, badRow)
       PROVE  (Undisturbed' => Undisturbed)
  BY <1>18 DEF ReadSkip, Reading, ReadFails
<1>19. ASSUME NEW e \in Errors, NEW badRow \in BOOLEAN, ReadFatal(e, badRow)
       PROVE  (Undisturbed' => Undisturbed)
  BY <1>19 DEF ReadFatal, Reading, ReadFails, Abort
<1>20. ASSUME NEW e \in Errors, ProcessRetry(e) PROVE (Undisturbed' => Undisturbed)
  BY <1>20 DEF ProcessRetry, Abort
<1>21. ASSUME NEW e \in Errors, ProcessSkip(e) PROVE (Undisturbed' => Undisturbed)
  BY <1>21 DEF ProcessSkip
<1>22. ASSUME NEW e \in Errors, ProcessFatal(e) PROVE (Undisturbed' => Undisturbed)
  BY <1>22 DEF ProcessFatal
<1>23. ASSUME NEW e \in Errors, WriteRetry(e) PROVE (Undisturbed' => Undisturbed)
  BY <1>23 DEF WriteRetry, Rollback, ReaderOpen, Abort
<1>24. ASSUME NEW e \in Errors, WriteSplit(e) PROVE (Undisturbed' => Undisturbed)
  BY <1>24 DEF WriteSplit, Rollback
<1>25. ASSUME NEW e \in Errors, WriteFatal(e) PROVE (Undisturbed' => Undisturbed)
  BY <1>25 DEF WriteFatal, Rollback, Abort
<1>26. ASSUME NEW i \in Rows, SplitCommit(i) PROVE (Undisturbed' => Undisturbed)
  BY <1>26 DEF SplitCommit, NextSplit
<1>27. ASSUME NEW i \in Rows, NEW e \in Errors, SplitSkip(i, e)
       PROVE  (Undisturbed' => Undisturbed)
  BY <1>27 DEF SplitSkip, NextSplit
<1>28. ASSUME NEW i \in Rows, NEW e \in Errors, SplitFatal(i, e)
       PROVE  (Undisturbed' => Undisturbed)
  BY <1>28 DEF SplitFatal, NextSplit, Abort
<1>29. CASE UNCHANGED vars  BY <1>29 DEF vars
<1> QED
  BY <1>1, <1>2, <1>3, <1>4, <1>5, <1>6, <1>7, <1>8, <1>9, <1>10, <1>11, <1>12, <1>13,
     <1>14, <1>15, <1>16, <1>17, <1>18, <1>19, <1>20, <1>21, <1>22, <1>23, <1>24, <1>25,
     <1>26, <1>27, <1>28, <1>29
     DEF Next, Step

\* Over SQL only saveCheckpoint changes the stored checkpoint.
LEMMA CheckpointChanges ==
  NotAliased /\ [Next]_vars
  => (checkpoint' = checkpoint \/ SaveCheckpoint)
<1> SUFFICES ASSUME NotAliased, [Next]_vars
             PROVE  (checkpoint' = checkpoint \/ SaveCheckpoint)
  OBVIOUS
<1> USE DEF readerVars, chunkVars, countVars, repoVars, history,
            NotAliased
<1>1. CASE Start  BY <1>1 DEF Start
<1>2. CASE Open  BY <1>2 DEF Open, ReaderOpen
<1>3. CASE BeginChunk  BY <1>3 DEF BeginChunk, Abort
<1>4. CASE ReadItem  BY <1>4 DEF ReadItem, Reading, ReaderRead
<1>5. CASE ReadEOF  BY <1>5 DEF ReadEOF, Reading
<1>6. CASE ProcessItem  BY <1>6 DEF ProcessItem
<1>7. CASE EndReadLoop  BY <1>7 DEF EndReadLoop, EmptyChunk, Rollback
<1>8. CASE WriteItems  BY <1>8 DEF WriteItems
<1>9. CASE Commit  BY <1>9 DEF Commit
<1>10. CASE CommitFails  BY <1>10 DEF CommitFails, Abort
<1>11. CASE SaveCheckpoint  BY <1>11 DEF SaveCheckpoint, Abort
<1>12. CASE SplitDone  BY <1>12 DEF SplitDone
<1>13. CASE Finalize  BY <1>13 DEF Finalize, FinalStatus
<1>14. CASE Crash  BY <1>14 DEF Crash
<1>15. CASE Reenter  BY <1>15 DEF Reenter
<1>16. CASE Restart  BY <1>16 DEF Restart
<1>17. ASSUME NEW e \in Errors, NEW badRow \in BOOLEAN, ReadRetry(e, badRow)
       PROVE  (checkpoint' = checkpoint \/ SaveCheckpoint)
  BY <1>17 DEF ReadRetry, Reading, ReadFails, Abort
<1>18. ASSUME NEW e \in Errors, NEW badRow \in BOOLEAN, ReadSkip(e, badRow)
       PROVE  (checkpoint' = checkpoint \/ SaveCheckpoint)
  BY <1>18 DEF ReadSkip, Reading, ReadFails
<1>19. ASSUME NEW e \in Errors, NEW badRow \in BOOLEAN, ReadFatal(e, badRow)
       PROVE  (checkpoint' = checkpoint \/ SaveCheckpoint)
  BY <1>19 DEF ReadFatal, Reading, ReadFails, Abort
<1>20. ASSUME NEW e \in Errors, ProcessRetry(e)
       PROVE  (checkpoint' = checkpoint \/ SaveCheckpoint)
  BY <1>20 DEF ProcessRetry, Abort
<1>21. ASSUME NEW e \in Errors, ProcessSkip(e)
       PROVE  (checkpoint' = checkpoint \/ SaveCheckpoint)
  BY <1>21 DEF ProcessSkip
<1>22. ASSUME NEW e \in Errors, ProcessFatal(e)
       PROVE  (checkpoint' = checkpoint \/ SaveCheckpoint)
  BY <1>22 DEF ProcessFatal
<1>23. ASSUME NEW e \in Errors, WriteRetry(e)
       PROVE  (checkpoint' = checkpoint \/ SaveCheckpoint)
  BY <1>23 DEF WriteRetry, Rollback, ReaderOpen, Abort
<1>24. ASSUME NEW e \in Errors, WriteSplit(e)
       PROVE  (checkpoint' = checkpoint \/ SaveCheckpoint)
  BY <1>24 DEF WriteSplit, Rollback
<1>25. ASSUME NEW e \in Errors, WriteFatal(e)
       PROVE  (checkpoint' = checkpoint \/ SaveCheckpoint)
  BY <1>25 DEF WriteFatal, Rollback, Abort
<1>26. ASSUME NEW i \in Rows, SplitCommit(i)
       PROVE  (checkpoint' = checkpoint \/ SaveCheckpoint)
  BY <1>26 DEF SplitCommit, NextSplit
<1>27. ASSUME NEW i \in Rows, NEW e \in Errors, SplitSkip(i, e)
       PROVE  (checkpoint' = checkpoint \/ SaveCheckpoint)
  BY <1>27 DEF SplitSkip, NextSplit
<1>28. ASSUME NEW i \in Rows, NEW e \in Errors, SplitFatal(i, e)
       PROVE  (checkpoint' = checkpoint \/ SaveCheckpoint)
  BY <1>28 DEF SplitFatal, NextSplit, Abort
<1>29. CASE UNCHANGED vars  BY <1>29 DEF vars
<1> QED
  BY <1>1, <1>2, <1>3, <1>4, <1>5, <1>6, <1>7, <1>8, <1>9, <1>10, <1>11, <1>12, <1>13,
     <1>14, <1>15, <1>16, <1>17, <1>18, <1>19, <1>20, <1>21, <1>22, <1>23, <1>24, <1>25,
     <1>26, <1>27, <1>28, <1>29
     DEF Next, Step

\* What saveCheckpoint stores is behind rows that are all accounted for.
LEMMA CheckpointStep ==
  /\ TypeOK /\ NotAliased /\ ErrorEnds /\ PositionBehind /\ PassedRows
  /\ CheckpointNeverAhead /\ [Next]_vars
  => CheckpointNeverAhead'
<1> SUFFICES ASSUME TypeOK, NotAliased, ErrorEnds, PositionBehind, PassedRows,
                    CheckpointNeverAhead, [Next]_vars, Undisturbed',
                    NEW r \in Rows, r <= checkpoint'.pos
             PROVE  Accounted(r)'
  BY DEF CheckpointNeverAhead
<1>1. Undisturbed
  BY UndisturbedBefore
<1>2. Accounted(r) => Accounted(r)'
  BY AccountedKept
<1>3. CASE checkpoint' = checkpoint
  BY <1>1, <1>2, <1>3 DEF CheckpointNeverAhead
<1>4. CASE SaveCheckpoint /\ checkpoint' # checkpoint
  <2>1. /\ pc = "checkpoint" /\ checkpoint'.pos = MergedPos
    BY <1>4 DEF SaveCheckpoint
  <2>2. ~chunkError
    BY <2>1 DEF ErrorEnds
  <2>3. MergedPos = checkpointEC
    BY <1>1 DEF MergedPos, WriterPos, ReaderPos, PositionBehind, Undisturbed
  <2>4. checkpointEC <= rcount
    BY <1>1, <2>1 DEF PositionBehind, Undisturbed, Running, Locations
  <2>5. r <= cursor
    BY <2>1, <2>3, <2>4, ChunkStepAssumption
       DEF TypeOK, ReaderType, Position, NoPos, Rows
  <2>6. ~Pending(r)
    BY <2>1 DEF Pending, Collecting
  <2>7. Accounted(r)
    BY <1>1, <2>1, <2>2, <2>5, <2>6 DEF PassedRows, Running, Locations
  <2> QED
    BY <2>7, <1>2
<1> QED
  BY <1>3, <1>4, CheckpointChanges

\* No row falls between the chunk in hand and the rows accounted for.
LEMMA PassedStep ==
  TypeOK /\ ErrorEnds /\ CheckpointNeverAhead /\ PassedRows /\ [Next]_vars
  => PassedRows'
<1> SUFFICES ASSUME TypeOK, ErrorEnds, CheckpointNeverAhead, PassedRows, [Next]_vars
             PROVE  PassedRows'
  OBVIOUS
<1> USE DEF readerVars, chunkVars, countVars, repoVars, history,
            PassedRows, Running, Locations, Collecting, Pending
<1>90. Undisturbed' => Undisturbed
  BY UndisturbedBefore
<1>91. \A r \in Rows : Accounted(r) => Accounted(r)'
  BY AccountedKept
<1> USE <1>90, <1>91
<1>1. CASE Start  BY <1>1 DEF Start
<1>2. CASE Open
  <2>1. CASE pc' = "done"
    BY <2>1
  <2>2. CASE pc' # "done"
    <3>1. cursor' = Offset(checkpoint.pos)
      BY <2>2, <1>2 DEF Open, ReaderOpen
    <3>2. \A r \in Rows : r <= cursor' => r <= checkpoint.pos
      BY <3>1, ChunkStepAssumption DEF Offset, Rows
    <3> QED
      BY <3>2 DEF CheckpointNeverAhead
  <2> QED
    BY <2>1, <2>2
<1>3. CASE BeginChunk  BY <1>3 DEF BeginChunk, Abort
<1>4. CASE ReadItem
  <2>1. \A r \in Rows : r <= cursor' => r <= cursor \/ r = cursor'
    BY <1>4, ChunkStepAssumption DEF ReadItem, ReaderRead, TypeOK, ReaderType, Rows
  <2> QED
    BY <1>4, <2>1 DEF ReadItem, Reading
<1>5. CASE ReadEOF  BY <1>5 DEF ReadEOF, Reading
<1>6. CASE ProcessItem
  <2>1. cursor \in Filtered /\ cursor \in Rows => Accounted(cursor)'
    BY <1>6 DEF ProcessItem, Accounted
  <2>2. /\ pc = "process" /\ pc' = "read"
        /\ itemsToWrite' = itemsToWrite \cup ({cursor} \ Filtered)
        /\ cursor' = cursor /\ chunkError' = chunkError
    BY <1>6 DEF ProcessItem
  <2> QED
    BY <2>1, <2>2
<1>7. CASE EndReadLoop  BY <1>7 DEF EndReadLoop, EmptyChunk, Rollback
<1>8. CASE WriteItems  BY <1>8 DEF WriteItems
<1>9. CASE Commit
  <2>1. \A r \in itemsToWrite : r \in Rows => Accounted(r)'
    BY <1>9, PersistType DEF Commit, Accounted, TypeOK, RepoType
  <2>2. /\ pc = "commit" /\ pc' = "checkpoint"
        /\ cursor' = cursor /\ chunkError' = chunkError
    BY <1>9 DEF Commit
  <2> QED
    BY <2>1, <2>2
<1>10. CASE CommitFails  BY <1>10 DEF CommitFails, Abort
<1>11. CASE SaveCheckpoint  BY <1>11 DEF SaveCheckpoint, Abort
<1>12. CASE SplitDone  BY <1>12 DEF SplitDone
<1>13. CASE Finalize  BY <1>13 DEF Finalize, FinalStatus
<1>14. CASE Crash  BY <1>14 DEF Crash
<1>15. CASE Reenter  BY <1>15 DEF Reenter
<1>16. CASE Restart  BY <1>16 DEF Restart
<1>17. ASSUME NEW e \in Errors, NEW badRow \in BOOLEAN, ReadRetry(e, badRow)
       PROVE  PassedRows'
  <2>1. CASE badRow
    BY <2>1, <1>17 DEF ReadRetry, Undisturbed, TypeOK, HistoryType
  <2>2. CASE ~badRow
    BY <2>2, <1>17 DEF ReadRetry, Reading, ReadFails, Abort
  <2> QED
    BY <2>1, <2>2
<1>18. ASSUME NEW e \in Errors, NEW badRow \in BOOLEAN, ReadSkip(e, badRow)
       PROVE  PassedRows'
  <2>1. /\ pc = "read" /\ pc' = "read" /\ itemsToWrite' = itemsToWrite
        /\ chunkError' = chunkError
    BY <1>18 DEF ReadSkip, Reading
  <2>2. \/ badRow /\ cursor' = cursor + 1
        \/ ~badRow /\ cursor' = cursor
    BY <1>18 DEF ReadSkip, ReadFails
  <2>3. CASE badRow /\ cursor' = cursor + 1
    <3>1. \A r \in Rows : r = cursor + 1 => Accounted(r)'
      BY <2>3, <1>18 DEF ReadSkip, Accounted
    <3>2. \A r \in Rows : r <= cursor + 1 => r <= cursor \/ r = cursor + 1
      BY ChunkStepAssumption DEF TypeOK, ReaderType, Rows
    <3> QED
      BY <3>1, <3>2, <2>1, <2>3
  <2> QED
    BY <2>1, <2>2, <2>3
<1>19. ASSUME NEW e \in Errors, NEW badRow \in BOOLEAN, ReadFatal(e, badRow)
       PROVE  PassedRows'
  BY <1>19 DEF ReadFatal, Reading, ReadFails, Abort
<1>20. ASSUME NEW e \in Errors, ProcessRetry(e) PROVE PassedRows'
  BY <1>20 DEF ProcessRetry, Abort
<1>21. ASSUME NEW e \in Errors, ProcessSkip(e) PROVE PassedRows'
  <2>1. cursor \in Rows => Accounted(cursor)'
    BY <1>21 DEF ProcessSkip, Accounted
  <2>2. /\ pc = "process" /\ pc' = "read" /\ itemsToWrite' = itemsToWrite
        /\ cursor' = cursor /\ chunkError' = chunkError
    BY <1>21 DEF ProcessSkip
  <2> QED
    BY <2>1, <2>2
<1>22. ASSUME NEW e \in Errors, ProcessFatal(e) PROVE PassedRows'
  BY <1>22 DEF ProcessFatal
<1>23. ASSUME NEW e \in Errors, WriteRetry(e) PROVE PassedRows'
  BY <1>23 DEF WriteRetry, Undisturbed, TypeOK, HistoryType
<1>24. ASSUME NEW e \in Errors, WriteSplit(e) PROVE PassedRows'
  BY <1>24 DEF WriteSplit, Rollback
<1>25. ASSUME NEW e \in Errors, WriteFatal(e) PROVE PassedRows'
  BY <1>25 DEF WriteFatal, Rollback, Abort
<1>26. ASSUME NEW i \in Rows, SplitCommit(i) PROVE PassedRows'
  <2>1. Accounted(i)'
    BY <1>26, PersistType DEF SplitCommit, Accounted, TypeOK, RepoType
  <2>2. /\ pc = "split" /\ pc' = "split" /\ split' = split \ {i}
        /\ cursor' = cursor /\ chunkError' = chunkError
    BY <1>26 DEF SplitCommit, NextSplit
  <2> QED
    BY <2>1, <2>2
<1>27. ASSUME NEW i \in Rows, NEW e \in Errors, SplitSkip(i, e) PROVE PassedRows'
  <2>1. i \in Rows => Accounted(i)'
    BY <1>27 DEF SplitSkip, Accounted
  <2>2. /\ pc = "split" /\ pc' = "split" /\ split' = split \ {i}
        /\ cursor' = cursor /\ chunkError' = chunkError
    BY <1>27 DEF SplitSkip, NextSplit
  <2> QED
    BY <2>1, <2>2
<1>28. ASSUME NEW i \in Rows, NEW e \in Errors, SplitFatal(i, e) PROVE PassedRows'
  BY <1>28 DEF SplitFatal, NextSplit, Abort
<1>29. CASE UNCHANGED vars  BY <1>29 DEF vars
<1> QED
  BY <1>1, <1>2, <1>3, <1>4, <1>5, <1>6, <1>7, <1>8, <1>9, <1>10, <1>11, <1>12, <1>13,
     <1>14, <1>15, <1>16, <1>17, <1>18, <1>19, <1>20, <1>21, <1>22, <1>23, <1>24, <1>25,
     <1>26, <1>27, <1>28, <1>29
     DEF Next, Step

\* Execute reports COMPLETED at the end of the rows only.
LEMMA LossStep ==
  TypeOK /\ ErrorEnds /\ EndAtEOF /\ NothingRead /\ PassedRows /\ NoSilentLoss
  /\ [Next]_vars => NoSilentLoss'
<1> SUFFICES ASSUME TypeOK, ErrorEnds, EndAtEOF, NothingRead, PassedRows, NoSilentLoss,
                    [Next]_vars
             PROVE  NoSilentLoss'
  OBVIOUS
<1> USE DEF readerVars, chunkVars, countVars, repoVars, history,
            TypeOK, ControlType, ErrorEnds, NoSilentLoss
<1>1. CASE Start  BY <1>1 DEF Start
<1>2. CASE Open  BY <1>2 DEF Open, ReaderOpen
<1>3. CASE BeginChunk  BY <1>3 DEF BeginChunk, Abort
<1>4. CASE ReadItem  BY <1>4 DEF ReadItem, Reading, ReaderRead
<1>5. CASE ReadEOF  BY <1>5 DEF ReadEOF, Reading
<1>6. CASE ProcessItem  BY <1>6 DEF ProcessItem
<1>7. CASE EndReadLoop  BY <1>7 DEF EndReadLoop, EmptyChunk, Rollback
<1>8. CASE WriteItems  BY <1>8 DEF WriteItems
<1>9. CASE Commit  BY <1>9 DEF Commit
<1>10. CASE CommitFails  BY <1>10 DEF CommitFails, Abort
<1>11. CASE SaveCheckpoint  BY <1>11 DEF SaveCheckpoint, Abort
<1>12. CASE SplitDone  BY <1>12 DEF SplitDone
<1>13. CASE Finalize
  <2>1. Undisturbed' => Undisturbed
    BY UndisturbedBefore
  <2>2. \A r \in Rows : Accounted(r) => Accounted(r)'
    BY AccountedKept
  <2>3. /\ pc = "finalize"
        /\ status' = "COMPLETED" => ~chunkError
    BY <1>13 DEF Finalize, FinalStatus
  <2>4. status' = "COMPLETED" => cursor = NumRows \/ ChunkSize <= 0
    BY <2>3 DEF EndAtEOF
  <2>5. \A r \in Rows : ~Pending(r) /\ r <= NumRows
    BY <2>3, ChunkStepAssumption DEF Pending, Collecting, Rows
  <2>6. CASE ChunkSize > 0
    <3>1. ~(ChunkSize <= 0)
      BY <2>6, ChunkStepAssumption
    <3> QED
      BY <2>1, <2>2, <2>3, <2>4, <2>5, <2>6, <3>1 DEF PassedRows, Running, Locations
  <2>7. CASE ~(ChunkSize > 0)
    <3>1. ChunkSize <= 0
      BY <2>7, ChunkStepAssumption
    <3>2. UNCHANGED <<committed, dropped>>
      BY <1>13 DEF Finalize
    <3> QED
      BY <2>7, <3>1, <3>2 DEF NothingRead
  <2> QED
    BY <2>6, <2>7
<1>14. CASE Crash  BY <1>14 DEF Crash
<1>15. CASE Reenter  BY <1>15 DEF Reenter
<1>16. CASE Restart  BY <1>16 DEF Restart
<1>17. ASSUME NEW e \in Errors, NEW badRow \in BOOLEAN, ReadRetry(e, badRow)
       PROVE  NoSilentLoss'
  BY <1>17 DEF ReadRetry, Reading, ReadFails, Abort
<1>18. ASSUME NEW e \in Errors, NEW badRow \in BOOLEAN, ReadSkip(e, badRow)
       PROVE  NoSilentLoss'
  BY <1>18 DEF ReadSkip, Reading, ReadFails
<1>19. ASSUME NEW e \in Errors, NEW badRow \in BOOLEAN, ReadFatal(e, badRow)
       PROVE  NoSilentLoss'
  BY <1>19 DEF ReadFatal, Reading, ReadFails, Abort
<1>20. ASSUME NEW e \in Errors, ProcessRetry(e) PROVE NoSilentLoss'
  BY <1>20 DEF ProcessRetry, Abort
<1>21. ASSUME NEW e \in Errors, ProcessSkip(e) PROVE NoSilentLoss'
  BY <1>21 DEF ProcessSkip
<1>22. ASSUME NEW e \in Errors, ProcessFatal(e) PROVE NoSilentLoss'
  BY <1>22 DEF ProcessFatal
<1>23. ASSUME NEW e \in Errors, WriteRetry(e) PROVE NoSilentLoss'
  BY <1>23 DEF WriteRetry, Rollback, ReaderOpen, Abort
<1>24. ASSUME NEW e \in Errors, WriteSplit(e) PROVE NoSilentLoss'
  BY <1>24 DEF WriteSplit, Rollback
<1>25. ASSUME NEW e \in Errors, WriteFatal(e) PROVE NoSilentLoss'
  BY <1>25 DEF WriteFatal, Rollback, Abort
<1>26. ASSUME NEW i \in Rows, SplitCommit(i) PROVE NoSilentLoss'
  BY <1>26 DEF SplitCommit, NextSplit
<1>27. ASSUME NEW i \in Rows, NEW e \in Errors, SplitSkip(i, e) PROVE NoSilentLoss'
  BY <1>27 DEF SplitSkip, NextSplit
<1>28. ASSUME NEW i \in Rows, NEW e \in Errors, SplitFatal(i, e) PROVE NoSilentLoss'
  BY <1>28 DEF SplitFatal, NextSplit, Abort
<1>29. CASE UNCHANGED vars  BY <1>29 DEF vars, Undisturbed, Accounted
<1> QED
  BY <1>1, <1>2, <1>3, <1>4, <1>5, <1>6, <1>7, <1>8, <1>9, <1>10, <1>11, <1>12, <1>13,
     <1>14, <1>15, <1>16, <1>17, <1>18, <1>19, <1>20, <1>21, <1>22, <1>23, <1>24, <1>25,
     <1>26, <1>27, <1>28, <1>29
     DEF Next, Step

\* Finalize alone stores COMPLETED, with the result of Execute.
LEMMA CompletionStep == TypeOK /\ DurableCompletion /\ [Next]_vars => DurableCompletion'
<1> SUFFICES ASSUME TypeOK, DurableCompletion, [Next]_vars PROVE DurableCompletion'
  OBVIOUS
<1> USE DEF readerVars, chunkVars, countVars, repoVars, history,
            DurableCompletion
<1>1. CASE Start  BY <1>1 DEF Start
<1>2. CASE Open  BY <1>2 DEF Open, ReaderOpen
<1>3. CASE BeginChunk  BY <1>3 DEF BeginChunk, Abort
<1>4. CASE ReadItem  BY <1>4 DEF ReadItem, Reading, ReaderRead
<1>5. CASE ReadEOF  BY <1>5 DEF ReadEOF, Reading
<1>6. CASE ProcessItem  BY <1>6 DEF ProcessItem
<1>7. CASE EndReadLoop  BY <1>7 DEF EndReadLoop, EmptyChunk, Rollback
<1>8. CASE WriteItems  BY <1>8 DEF WriteItems
<1>9. CASE Commit  BY <1>9 DEF Commit
<1>10. CASE CommitFails  BY <1>10 DEF CommitFails, Abort
<1>11. CASE SaveCheckpoint  BY <1>11 DEF SaveCheckpoint, Abort
<1>12. CASE SplitDone  BY <1>12 DEF SplitDone
<1>13. CASE Finalize  BY <1>13 DEF Finalize, FinalStatus
<1>14. CASE Crash  BY <1>14 DEF Crash
<1>15. CASE Reenter  BY <1>15 DEF Reenter
<1>16. CASE Restart  BY <1>16 DEF Restart
<1>17. ASSUME NEW e \in Errors, NEW badRow \in BOOLEAN, ReadRetry(e, badRow)
       PROVE  DurableCompletion'
  BY <1>17 DEF ReadRetry, Reading, ReadFails, Abort
<1>18. ASSUME NEW e \in Errors, NEW badRow \in BOOLEAN, ReadSkip(e, badRow)
       PROVE  DurableCompletion'
  BY <1>18 DEF ReadSkip, Reading, ReadFails
<1>19. ASSUME NEW e \in Errors, NEW badRow \in BOOLEAN, ReadFatal(e, badRow)
       PROVE  DurableCompletion'
  BY <1>19 DEF ReadFatal, Reading, ReadFails, Abort
<1>20. ASSUME NEW e \in Errors, ProcessRetry(e) PROVE DurableCompletion'
  BY <1>20 DEF ProcessRetry, Abort
<1>21. ASSUME NEW e \in Errors, ProcessSkip(e) PROVE DurableCompletion'
  BY <1>21 DEF ProcessSkip
<1>22. ASSUME NEW e \in Errors, ProcessFatal(e) PROVE DurableCompletion'
  BY <1>22 DEF ProcessFatal
<1>23. ASSUME NEW e \in Errors, WriteRetry(e) PROVE DurableCompletion'
  BY <1>23 DEF WriteRetry, Rollback, ReaderOpen, Abort
<1>24. ASSUME NEW e \in Errors, WriteSplit(e) PROVE DurableCompletion'
  BY <1>24 DEF WriteSplit, Rollback
<1>25. ASSUME NEW e \in Errors, WriteFatal(e) PROVE DurableCompletion'
  BY <1>25 DEF WriteFatal, Rollback, Abort
<1>26. ASSUME NEW i \in Rows, SplitCommit(i) PROVE DurableCompletion'
  BY <1>26 DEF SplitCommit, NextSplit
<1>27. ASSUME NEW i \in Rows, NEW e \in Errors, SplitSkip(i, e) PROVE DurableCompletion'
  BY <1>27 DEF SplitSkip, NextSplit
<1>28. ASSUME NEW i \in Rows, NEW e \in Errors, SplitFatal(i, e)
       PROVE  DurableCompletion'
  BY <1>28 DEF SplitFatal, NextSplit, Abort
<1>29. CASE UNCHANGED vars  BY <1>29 DEF vars
<1> QED
  BY <1>1, <1>2, <1>3, <1>4, <1>5, <1>6, <1>7, <1>8, <1>9, <1>10, <1>11, <1>12, <1>13,
     <1>14, <1>15, <1>16, <1>17, <1>18, <1>19, <1>20, <1>21, <1>22, <1>23, <1>24, <1>25,
     <1>26, <1>27, <1>28, <1>29
     DEF Next, Step

\* A row is written while it is in hand, and is in hand once in a run.
LEMMA FreshStep == TypeOK /\ ChunkBehind /\ FreshRows /\ [Next]_vars => FreshRows'
<1> SUFFICES ASSUME TypeOK, ChunkBehind, FreshRows, [Next]_vars PROVE FreshRows'
  OBVIOUS
<1> USE DEF readerVars, chunkVars, countVars, repoVars, history,
            TypeOK, ControlType, FreshRows, Running, Locations, Collecting, Pending
<1>1. CASE Start  BY <1>1 DEF Start
<1>2. CASE Open  BY <1>2 DEF Open, ReaderOpen
<1>3. CASE BeginChunk  BY <1>3 DEF BeginChunk, Abort
<1>4. CASE ReadItem
  <2>0. /\ run \in Nat /\ cursor \in Nat
        /\ \A r \in Rows : committed[r] \in Nat /\ r \in Nat
    BY ChunkStepAssumption DEF ReaderType, RepoType, Rows
  <2>1. /\ pc = "read" /\ pc' \in {"read", "process", "finalize"}
        /\ itemsToWrite' = itemsToWrite /\ committed' = committed
        /\ run' = run /\ writeRetries' = writeRetries
    BY <1>4 DEF ReadItem, Reading, ReaderRead
  <2>2. cursor' = cursor \/ cursor' = cursor + 1
    BY <1>4 DEF ReadItem, Reading, ReaderRead
  <2>3. \A r \in Rows : /\ r > cursor' => r > cursor
                        /\ r = cursor' /\ pc' = "process" => r > cursor
    BY <2>0, <2>2, <1>4 DEF ReadItem, Reading, ReaderRead
  <2> QED
    BY <2>1, <2>3
<1>5. CASE ReadEOF  BY <1>5 DEF ReadEOF, Reading
<1>6. CASE ProcessItem  BY <1>6 DEF ProcessItem
<1>7. CASE EndReadLoop  BY <1>7 DEF EndReadLoop, EmptyChunk, Rollback
<1>8. CASE WriteItems  BY <1>8 DEF WriteItems
<1>9. CASE Commit
  <2>0. /\ run \in Nat /\ cursor \in Nat
        /\ \A r \in Rows : committed[r] \in Nat /\ r \in Nat
    BY ChunkStepAssumption DEF ReaderType, RepoType, Rows
  <2>1. /\ pc = "commit" /\ pc' = "checkpoint"
        /\ run' = run /\ cursor' = cursor /\ writeRetries' = writeRetries
    BY <1>9 DEF Commit
  <2>2. \/ committed' = committed
        \/ \A r \in Rows :
             committed'[r] = committed[r] + (IF r \in itemsToWrite THEN 1 ELSE 0)
    BY <1>9, PersistType DEF Commit
  <2>3. writeRetries = 0 => \A r \in itemsToWrite : r <= cursor
    BY <2>1 DEF ChunkBehind, Collecting
  <2>4. writeRetries = 0 => \A r \in Rows : r \in itemsToWrite => committed[r] < run
    BY <2>1
  <2>5. writeRetries = 0 =>
          \A r \in Rows : r > cursor => committed[r] < run /\ r \notin itemsToWrite
    BY <2>0, <2>1, <2>3
  <2> QED
    BY <2>0, <2>1, <2>2, <2>4, <2>5
<1>10. CASE CommitFails
  <2>0. /\ run \in Nat /\ cursor \in Nat
        /\ \A r \in Rows : committed[r] \in Nat /\ r \in Nat
    BY ChunkStepAssumption DEF ReaderType, RepoType, Rows
  <2>1. /\ pc = "commit" /\ pc' = "finalize"
        /\ run' = run /\ cursor' = cursor /\ writeRetries' = writeRetries
    BY <1>10 DEF CommitFails, Abort
  <2>2. \/ committed' = committed
        \/ \A r \in Rows :
             committed'[r] = committed[r] + (IF r \in itemsToWrite THEN 1 ELSE 0)
    BY <1>10, PersistType DEF CommitFails, Abort
  <2>3. writeRetries = 0 => \A r \in itemsToWrite : r <= cursor
    BY <2>1 DEF ChunkBehind, Collecting
  <2>4. writeRetries = 0 => \A r \in Rows : r \in itemsToWrite => committed[r] < run
    BY <2>1
  <2>5. writeRetries = 0 =>
          \A r \in Rows : r > cursor => committed[r] < run /\ r \notin itemsToWrite
    BY <2>0, <2>1, <2>3
  <2> QED
    BY <2>0, <2>1, <2>2, <2>4, <2>5
<1>11. CASE SaveCheckpoint  BY <1>11 DEF SaveCheckpoint, Abort
<1>12. CASE SplitDone  BY <1>12 DEF SplitDone
<1>13. CASE Finalize  BY <1>13 DEF Finalize, FinalStatus
<1>14. CASE Crash  BY <1>14 DEF Crash
<1>15. CASE Reenter
  <2>0. /\ run \in Nat /\ cursor \in Nat
        /\ \A r \in Rows : committed[r] \in Nat /\ r \in Nat
    BY ChunkStepAssumption DEF ReaderType, RepoType, Rows
  <2>1. /\ pc' = "start" /\ run' = run + 1 /\ committed' = committed
        /\ writeRetries' = writeRetries
    BY <1>15 DEF Reenter
  <2> QED
    BY <2>0, <2>1
<1>16. CASE Restart
  <2>0. /\ run \in Nat /\ cursor \in Nat
        /\ \A r \in Rows : committed[r] \in Nat /\ r \in Nat
    BY ChunkStepAssumption DEF ReaderType, RepoType, Rows
  <2>1. /\ pc' = "start" /\ run' = run + 1 /\ committed' = committed
        /\ writeRetries' = writeRetries
    BY <1>16 DEF Restart
  <2> QED
    BY <2>0, <2>1
<1>17. ASSUME NEW e \in Errors, NEW badRow \in BOOLEAN, ReadRetry(e, badRow)
       PROVE  FreshRows'
  <2>0. /\ run \in Nat /\ cursor \in Nat
        /\ \A r \in Rows : committed[r] \in Nat /\ r \in Nat
    BY ChunkStepAssumption DEF ReaderType, RepoType, Rows
  <2>1. /\ pc = "read" /\ pc' \in {"read", "process", "finalize"}
        /\ itemsToWrite' = itemsToWrite /\ committed' = committed
        /\ run' = run /\ writeRetries' = writeRetries
    BY <1>17 DEF ReadRetry, Reading, ReadFails, Abort
  <2>2. cursor' = cursor \/ cursor' = cursor + 1
    BY <1>17 DEF ReadRetry, Reading, ReadFails, Abort
  <2>3. \A r \in Rows : /\ r > cursor' => r > cursor
                        /\ r = cursor' /\ pc' = "process" => r > cursor
    BY <2>0, <2>2, <1>17 DEF ReadRetry, Reading, ReadFails, Abort
  <2> QED
    BY <2>1, <2>3
<1>18. ASSUME NEW e \in Errors, NEW badRow \in BOOLEAN, ReadSkip(e, badRow)
       PROVE  FreshRows'
  <2>0. /\ run \in Nat /\ cursor \in Nat
        /\ \A r \in Rows : committed[r] \in Nat /\ r \in Nat
    BY ChunkStepAssumption DEF ReaderType, RepoType, Rows
  <2>1. /\ pc = "read" /\ pc' \in {"read", "process", "finalize"}
        /\ itemsToWrite' = itemsToWrite /\ committed' = committed
        /\ run' = run /\ writeRetries' = writeRetries
    BY <1>18 DEF ReadSkip, Reading, ReadFails
  <2>2. cursor' = cursor \/ cursor' = cursor + 1
    BY <1>18 DEF ReadSkip, Reading, ReadFails
  <2>3. \A r \in Rows : /\ r > cursor' => r > cursor
                        /\ r = cursor' /\ pc' = "process" => r > cursor
    BY <2>0, <2>2, <1>18 DEF ReadSkip, Reading, ReadFails
  <2> QED
    BY <2>1, <2>3
<1>19. ASSUME NEW e \in Errors, NEW badRow \in BOOLEAN, ReadFatal(e, badRow)
       PROVE  FreshRows'
  <2>0. /\ run \in Nat /\ cursor \in Nat
        /\ \A r \in Rows : committed[r] \in Nat /\ r \in Nat
    BY ChunkStepAssumption DEF ReaderType, RepoType, Rows
  <2>1. /\ pc = "read" /\ pc' \in {"read", "process", "finalize"}
        /\ itemsToWrite' = itemsToWrite /\ committed' = committed
        /\ run' = run /\ writeRetries' = writeRetries
    BY <1>19 DEF ReadFatal, Reading, ReadFails, Abort
  <2>2. cursor' = cursor \/ cursor' = cursor + 1
    BY <1>19 DEF ReadFatal, Reading, ReadFails, Abort
  <2>3. \A r \in Rows : /\ r > cursor' => r > cursor
                        /\ r = cursor' /\ pc' = "process" => r > cursor
    BY <2>0, <2>2, <1>19 DEF ReadFatal, Reading, ReadFails, Abort
  <2> QED
    BY <2>1, <2>3
<1>20. ASSUME NEW e \in Errors, ProcessRetry(e) PROVE FreshRows'
  BY <1>20 DEF ProcessRetry, Abort
<1>21. ASSUME NEW e \in Errors, ProcessSkip(e) PROVE FreshRows'
  BY <1>21 DEF ProcessSkip
<1>22. ASSUME NEW e \in Errors, ProcessFatal(e) PROVE FreshRows'
  BY <1>22 DEF ProcessFatal
<1>23. ASSUME NEW e \in Errors, WriteRetry(e) PROVE FreshRows'
  BY <1>23 DEF WriteRetry, HistoryType
<1>24. ASSUME NEW e \in Errors, WriteSplit(e) PROVE FreshRows'
  BY <1>24 DEF WriteSplit, Rollback
<1>25. ASSUME NEW e \in Errors, WriteFatal(e) PROVE FreshRows'
  BY <1>25 DEF WriteFatal, Rollback, Abort
<1>26. ASSUME NEW i \in Rows, SplitCommit(i) PROVE FreshRows'
  <2>0. /\ run \in Nat /\ cursor \in Nat
        /\ \A r \in Rows : committed[r] \in Nat /\ r \in Nat
    BY ChunkStepAssumption DEF ReaderType, RepoType, Rows
  <2>1. /\ pc = "split" /\ pc' = "split"
        /\ run' = run /\ cursor' = cursor /\ writeRetries' = writeRetries /\ i \in split
        /\ split' = split \ {i}
    BY <1>26 DEF SplitCommit, NextSplit
  <2>2. \/ committed' = committed
        \/ \A r \in Rows :
             committed'[r] = committed[r] + (IF r \in {i} THEN 1 ELSE 0)
    BY <1>26, PersistType DEF SplitCommit, NextSplit
  <2>3. writeRetries = 0 => \A r \in {i} : r <= cursor
    BY <2>1 DEF ChunkBehind
  <2>4. writeRetries = 0 => \A r \in Rows : r \in {i} => committed[r] < run
    BY <2>1
  <2>5. writeRetries = 0 =>
          \A r \in Rows : r > cursor => committed[r] < run /\ r \notin {i}
    BY <2>0, <2>1, <2>3
  <2> QED
    BY <2>0, <2>1, <2>2, <2>4, <2>5
<1>27. ASSUME NEW i \in Rows, NEW e \in Errors, SplitSkip(i, e) PROVE FreshRows'
  BY <1>27 DEF SplitSkip, NextSplit
<1>28. ASSUME NEW i \in Rows, NEW e \in Errors, SplitFatal(i, e) PROVE FreshRows'
  <2>0. /\ run \in Nat /\ cursor \in Nat
        /\ \A r \in Rows : committed[r] \in Nat /\ r \in Nat
    BY ChunkStepAssumption DEF ReaderType, RepoType, Rows
  <2>1. /\ pc = "split" /\ pc' = "finalize"
        /\ run' = run /\ cursor' = cursor /\ writeRetries' = writeRetries /\ i \in split
    BY <1>28 DEF SplitFatal, NextSplit, Abort
  <2>2. \/ committed' = committed
        \/ \A r \in Rows :
             committed'[r] = committed[r] + (IF r \in {i} THEN 1 ELSE 0)
    BY <1>28, PersistType DEF SplitFatal, NextSplit, Abort
  <2>3. writeRetries = 0 => \A r \in {i} : r <= cursor
    BY <2>1 DEF ChunkBehind
  <2>4. writeRetries = 0 => \A r \in Rows : r \in {i} => committed[r] < run
    BY <2>1
  <2>5. writeRetries = 0 =>
          \A r \in Rows : r > cursor => committed[r] < run /\ r \notin {i}
    BY <2>0, <2>1, <2>3
  <2> QED
    BY <2>0, <2>1, <2>2, <2>4, <2>5
<1>29. CASE UNCHANGED vars  BY <1>29 DEF vars
<1> QED
  BY <1>1, <1>2, <1>3, <1>4, <1>5, <1>6, <1>7, <1>8, <1>9, <1>10, <1>11, <1>12, <1>13,
     <1>14, <1>15, <1>16, <1>17, <1>18, <1>19, <1>20, <1>21, <1>22, <1>23, <1>24, <1>25,
     <1>26, <1>27, <1>28, <1>29
     DEF Next, Step

-----------------------------------------------------------------------------
\* What holds of the chunk engine with either repository.
EngineInv ==
  /\ TypeOK /\ ErrorEnds /\ EndAtEOF /\ NothingRead /\ ChunkBehind /\ FreshRows
  /\ DurableCompletion

\* What needs the checkpoint to be a copy: its position and the rows behind it.
RowsInv ==
  /\ NotAliased /\ PositionBehind /\ PassedRows
  /\ CheckpointNeverAhead /\ NoSilentLoss

\* Execute starts with nothing written, no error and no chunk.
LEMMA EngineInit == Init => EngineInv
<1> SUFFICES ASSUME Init PROVE EngineInv
  OBVIOUS
<1> USE DEF Init
<1>1. TypeOK
  BY TypeInit
<1>2. ErrorEnds /\ EndAtEOF /\ NothingRead /\ DurableCompletion
  BY DEF ErrorEnds, EndAtEOF, NothingRead, DurableCompletion
<1>3. ChunkBehind
  BY DEF ChunkBehind, Collecting
<1>4. FreshRows
  BY DEF FreshRows, Running, Locations
<1> QED
  BY <1>1, <1>2, <1>3, <1>4 DEF EngineInv

\* Each part is kept by every step.
LEMMA EngineStep == EngineInv /\ [Next]_vars => EngineInv'
  BY TypeStep, ErrorEndsStep, EndAtEOFStep, NothingReadStep, ChunkBehindStep,
     FreshStep, CompletionStep DEF EngineInv

\* No checkpoint is stored at first.
LEMMA RowsInit == Init => RowsInv
<1> SUFFICES ASSUME Init PROVE RowsInv
  OBVIOUS
<1> USE DEF Init
<1>1. NotAliased /\ PositionBehind /\ PassedRows /\ NoSilentLoss
  BY DEF NotAliased, PositionBehind, PassedRows, NoSilentLoss, Running, Locations
<1>2. CheckpointNeverAhead
  <2>1. checkpoint.pos = NoPos
    BY DEF NoCheckpoint
  <2>2. \A r \in Rows : ~(r <= NoPos)
    BY ChunkStepAssumption DEF Rows, NoPos
  <2> QED
    BY <2>1, <2>2 DEF CheckpointNeverAhead
<1> QED
  BY <1>1, <1>2 DEF RowsInv

\* The parts about rows lean on each other: the checkpoint on the rows passed,
\* and the rows passed, after a restart, on the checkpoint.
LEMMA RowsStep ==
  ASSUME SQL
  PROVE  EngineInv /\ RowsInv /\ [Next]_vars => RowsInv'
  BY NotAliasedStep, PositionStep, PassedStep, CheckpointStep, LossStep
     DEF EngineInv, RowsInv

\* The invariant of the chunk engine, with either repository.
THEOREM EngineKept == Spec => []EngineInv
<1>1. Init => EngineInv
  BY EngineInit
<1>2. EngineInv /\ [Next]_vars => EngineInv'
  BY EngineStep
<1> QED
  BY <1>1, <1>2, PTL DEF Spec

\* The invariant of the rows and the checkpoint, over SQL.
THEOREM RowsKept ==
  ASSUME SQL PROVE Spec => []RowsInv
<1>1. Init => RowsInv
  BY RowsInit
<1>2. EngineInv /\ RowsInv /\ [Next]_vars => RowsInv'
  BY RowsStep
<1> QED
  BY <1>1, <1>2, EngineKept, PTL DEF Spec

\* The repository shows COMPLETED only for an Execute that returned no error
\* (the end of ChunkStep.Execute), with either repository.
THEOREM CompletionIsDurable == Spec => []DurableCompletion
<1>1. EngineInv => DurableCompletion
  BY DEF EngineInv
<1> QED
  BY <1>1, EngineKept, PTL

\* Without chunk retries every duplicate costs a restart: the transactions and
\* the split of ChunkStep.Execute write a row once per run.
THEOREM RowsWrittenOncePerRun == Spec => []OneWritePerRun
<1>1. EngineInv => OneWritePerRun
  BY DEF EngineInv, FreshRows, OneWritePerRun
<1> QED
  BY <1>1, EngineKept, PTL

\* A run that resumes at the position saveCheckpoint stored passes over no row
\* that was not written, skipped or filtered.
THEOREM CheckpointIsSafe ==
  ASSUME SQL PROVE Spec => []CheckpointNeverAhead
<1>1. RowsInv => CheckpointNeverAhead
  BY DEF RowsInv
<1> QED
  BY <1>1, RowsKept, PTL

\* A StepExecution that ChunkStep.Execute ends COMPLETED, after any number of
\* crashes, restarts, skips and splits, has dealt with every row; with a chunk
\* size below 1, which the code accepts, it has dealt with none.
THEOREM NoRowIsLost ==
  ASSUME SQL PROVE Spec => []NoSilentLoss
<1>1. RowsInv => NoSilentLoss
  BY DEF RowsInv
<1> QED
  BY <1>1, RowsKept, PTL

-----------------------------------------------------------------------------
(* The first chunk retry of a first run, with either repository.           *)

FirstRun == run = 1 /\ writeRetries <= 1 /\ badRowRetries = 0

\* A first run finds no checkpoint, and before its first retry the position in
\* the StepExecution's context is behind rows that are all accounted for.
FirstOpen == run = 1 /\ pc \in {"start", "open"} => checkpoint.pos = NoPos
StepBehind ==
  FirstRun /\ writeRetries = 0 /\ pc \notin {"done", "crashed"}
    => \A r \in Rows : r <= stepEC => Accounted(r)
FirstPassed ==
  FirstRun /\ pc \in Running /\ ~chunkError
    => \A r \in Rows : r <= cursor => Accounted(r) \/ Pending(r)
FirstInv ==
  /\ run >= 1 /\ FirstOpen /\ StepBehind /\ FirstPassed
  /\ FirstRetryLosesNothing

\* What a step does to the history, the position and the end.
FirstChanges ==
  /\ run' = run \/ run' = run + 1
  /\ writeRetries <= writeRetries' /\ badRowRetries <= badRowRetries'
  /\ run' = run =>
       /\ pc' \in {"start", "open"} => pc \in {"start", "open"} /\ checkpoint' = checkpoint
       /\ pc \in {"done", "crashed"} => pc' = pc
       /\ \/ stepEC' = stepEC \/ Commit
          \/ Finalize /\ pc' = "done"
          \/ readerEC = "step" /\ UNCHANGED writeRetries
       /\ pc' = "done" /\ status' = "COMPLETED"
            => \/ Finalize
               \/ /\ pc = "done" /\ status = "COMPLETED"
                  /\ UNCHANGED <<writeRetries, badRowRetries>>

\* Every step does no more.
LEMMA FirstChangesStep == TypeOK /\ ErrorEnds /\ [Next]_vars => FirstChanges
<1> SUFFICES ASSUME TypeOK, ErrorEnds, [Next]_vars PROVE FirstChanges
  OBVIOUS
<1> USE DEF readerVars, chunkVars, countVars, repoVars, history,
            TypeOK, ControlType, ReaderType, HistoryType, ErrorEnds, FirstChanges
<1>1. CASE Start  BY <1>1 DEF Start
<1>2. CASE Open  BY <1>2 DEF Open, ReaderOpen
<1>3. CASE BeginChunk  BY <1>3 DEF BeginChunk, Abort
<1>4. CASE ReadItem  BY <1>4 DEF ReadItem, Reading, ReaderRead
<1>5. CASE ReadEOF  BY <1>5 DEF ReadEOF, Reading
<1>6. CASE ProcessItem  BY <1>6 DEF ProcessItem
<1>7. CASE EndReadLoop  BY <1>7 DEF EndReadLoop, EmptyChunk, Rollback
<1>8. CASE WriteItems  BY <1>8 DEF WriteItems
<1>9. CASE Commit  BY <1>9 DEF Commit
<1>10. CASE CommitFails  BY <1>10 DEF CommitFails, Abort
<1>11. CASE SaveCheckpoint  BY <1>11 DEF SaveCheckpoint, Abort
<1>12. CASE SplitDone  BY <1>12 DEF SplitDone
<1>13. CASE Finalize  BY <1>13 DEF Finalize, FinalStatus
<1>14. CASE Crash  BY <1>14 DEF Crash
<1>15. CASE Reenter  BY <1>15 DEF Reenter
<1>16. CASE Restart  BY <1>16 DEF Restart
<1>17. ASSUME NEW e \in Errors, NEW badRow \in BOOLEAN, ReadRetry(e, badRow) PROVE FirstChanges
  BY <1>17 DEF ReadRetry, Reading, ReadFails, Abort
<1>18. ASSUME NEW e \in Errors, NEW badRow \in BOOLEAN, ReadSkip(e, badRow) PROVE FirstChanges
  BY <1>18 DEF ReadSkip, Reading, ReadFails
<1>19. ASSUME NEW e \in Errors, NEW badRow \in BOOLEAN, ReadFatal(e, badRow) PROVE FirstChanges
  BY <1>19 DEF ReadFatal, Reading, ReadFails, Abort
<1>20. ASSUME NEW e \in Errors, ProcessRetry(e) PROVE FirstChanges
  BY <1>20 DEF ProcessRetry, Abort
<1>21. ASSUME NEW e \in Errors, ProcessSkip(e) PROVE FirstChanges
  BY <1>21 DEF ProcessSkip
<1>22. ASSUME NEW e \in Errors, ProcessFatal(e) PROVE FirstChanges
  BY <1>22 DEF ProcessFatal
<1>23. ASSUME NEW e \in Errors, WriteRetry(e) PROVE FirstChanges
  BY <1>23 DEF WriteRetry, Rollback, ReaderOpen, Abort
<1>24. ASSUME NEW e \in Errors, WriteSplit(e) PROVE FirstChanges
  BY <1>24 DEF WriteSplit, Rollback
<1>25. ASSUME NEW e \in Errors, WriteFatal(e) PROVE FirstChanges
  BY <1>25 DEF WriteFatal, Rollback, Abort
<1>26. ASSUME NEW i \in Rows, SplitCommit(i) PROVE FirstChanges
  BY <1>26 DEF SplitCommit, NextSplit
<1>27. ASSUME NEW i \in Rows, NEW e \in Errors, SplitSkip(i, e) PROVE FirstChanges
  BY <1>27 DEF SplitSkip, NextSplit
<1>28. ASSUME NEW i \in Rows, NEW e \in Errors, SplitFatal(i, e) PROVE FirstChanges
  BY <1>28 DEF SplitFatal, NextSplit, Abort
<1>29. CASE UNCHANGED vars  BY <1>29 DEF vars
<1> QED
  BY <1>1, <1>2, <1>3, <1>4, <1>5, <1>6, <1>7, <1>8, <1>9, <1>10, <1>11, <1>12, <1>13,
     <1>14, <1>15, <1>16, <1>17, <1>18, <1>19, <1>20, <1>21, <1>22, <1>23, <1>24, <1>25,
     <1>26, <1>27, <1>28, <1>29
     DEF Next, Step

\* A first run was one before.
LEMMA FirstRunBefore ==
  ASSUME TypeOK, ErrorEnds, run >= 1, [Next]_vars
  PROVE  /\ run' >= 1
         /\ FirstRun' => FirstRun /\ run' = run /\ writeRetries <= writeRetries'
<1>1. FirstChanges
  BY FirstChangesStep
<1>2. run \in Nat /\ writeRetries \in Nat /\ badRowRetries \in Nat
  BY DEF TypeOK, ControlType, HistoryType
<1>3. writeRetries' \in Nat /\ badRowRetries' \in Nat
  BY TypeStep DEF TypeOK, HistoryType
<1> QED
  BY <1>1, <1>2, <1>3 DEF FirstChanges, FirstRun

\* The position of the StepExecution follows the commits.
LEMMA StepBehindStep ==
  TypeOK /\ ErrorEnds /\ PositionBehind /\ FirstInv /\ [Next]_vars => StepBehind'
<1> SUFFICES ASSUME TypeOK, ErrorEnds, PositionBehind, FirstInv, [Next]_vars,
                    FirstRun', writeRetries' = 0, pc' \notin {"done", "crashed"},
                    NEW r \in Rows, r <= stepEC'
             PROVE  Accounted(r)'
  BY DEF StepBehind
<1>1. FirstRun /\ run' = run /\ writeRetries = 0
  BY FirstRunBefore, TypeStep DEF FirstInv, TypeOK, HistoryType
<1>2. FirstChanges /\ readerEC = "ckpt"
  BY <1>1, FirstChangesStep DEF PositionBehind
<1>3. Accounted(r) => Accounted(r)'
  BY AccountedKept
<1>4. CASE stepEC' = stepEC
  BY <1>1, <1>2, <1>3, <1>4 DEF FirstInv, StepBehind, FirstChanges
<1>5. CASE Commit
  <2>1. pc = "commit" /\ stepEC' = rcount /\ committed' = Persist(itemsToWrite) /\ ~chunkError
    BY <1>5 DEF Commit, ErrorEnds
  <2>2. r <= cursor
    BY <2>1, ChunkStepAssumption DEF TypeOK, ReaderType, Rows
  <2>3. Accounted(r) \/ r \in itemsToWrite
    BY <1>1, <2>1, <2>2 DEF FirstInv, FirstPassed, Running, Locations, Pending, Collecting
  <2>4. r \in itemsToWrite => Accounted(r)'
    BY <2>1, PersistType DEF Accounted, TypeOK, RepoType
  <2> QED
    BY <1>3, <2>3, <2>4
<1> QED
  BY <1>1, <1>2, <1>4, <1>5 DEF FirstChanges

\* No row falls between the chunk in hand and the rows accounted for, across
\* the first retry.
LEMMA FirstPassedStep ==
  TypeOK /\ ErrorEnds /\ FirstInv /\ [Next]_vars => FirstPassed'
<1> SUFFICES ASSUME TypeOK, ErrorEnds, FirstInv, [Next]_vars PROVE FirstPassed'
  OBVIOUS
<1> USE DEF readerVars, chunkVars, countVars, repoVars, history,
            FirstPassed, Running, Locations, Collecting, Pending
<1>90. (FirstRun' => FirstRun) /\ FirstPassed
  BY FirstRunBefore DEF FirstInv
<1>91. \A r \in Rows : Accounted(r) => Accounted(r)'
  BY AccountedKept
<1> USE <1>90, <1>91
<1>1. CASE Start  BY <1>1 DEF Start
<1>2. CASE Open
  <2>1. CASE pc' = "done"
    BY <2>1
  <2>2. CASE pc' # "done" /\ FirstRun'
    <3>1. cursor' = Offset(checkpoint.pos) /\ checkpoint.pos = NoPos
      BY <1>2, <2>2 DEF Open, ReaderOpen, FirstInv, FirstOpen, FirstRun
    <3>2. \A r \in Rows : ~(r <= cursor')
      BY <3>1, ChunkStepAssumption DEF Offset, Rows
    <3> QED
      BY <3>2
  <2> QED
    BY <2>1, <2>2
<1>3. CASE BeginChunk  BY <1>3 DEF BeginChunk, Abort
<1>4. CASE ReadItem
  <2>1. \A r \in Rows : r <= cursor' => r <= cursor \/ r = cursor'
    BY <1>4, ChunkStepAssumption DEF ReadItem, ReaderRead, TypeOK, ReaderType, Rows
  <2> QED
    BY <1>4, <2>1 DEF ReadItem, Reading
<1>5. CASE ReadEOF  BY <1>5 DEF ReadEOF, Reading
<1>6. CASE ProcessItem
  <2>1. cursor \in Filtered /\ cursor \in Rows => Accounted(cursor)'
    BY <1>6 DEF ProcessItem, Accounted
  <2>2. /\ pc = "process" /\ pc' = "read"
        /\ itemsToWrite' = itemsToWrite \cup ({cursor} \ Filtered)
        /\ cursor' = cursor /\ chunkError' = chunkError
    BY <1>6 DEF ProcessItem
  <2> QED
    BY <2>1, <2>2
<1>7. CASE EndReadLoop  BY <1>7 DEF EndReadLoop, EmptyChunk, Rollback
<1>8. CASE WriteItems  BY <1>8 DEF WriteItems
<1>9. CASE Commit
  <2>1. \A r \in itemsToWrite : r \in Rows => Accounted(r)'
    BY <1>9, PersistType DEF Commit, Accounted, TypeOK, RepoType
  <2>2. /\ pc = "commit" /\ pc' = "checkpoint"
        /\ cursor' = cursor /\ chunkError' = chunkError
    BY <1>9 DEF Commit
  <2> QED
    BY <2>1, <2>2
<1>10. CASE CommitFails  BY <1>10 DEF CommitFails, Abort
<1>11. CASE SaveCheckpoint  BY <1>11 DEF SaveCheckpoint, Abort
<1>12. CASE SplitDone  BY <1>12 DEF SplitDone
<1>13. CASE Finalize  BY <1>13 DEF Finalize, FinalStatus
<1>14. CASE Crash  BY <1>14 DEF Crash
<1>15. CASE Reenter  BY <1>15 DEF Reenter
<1>16. CASE Restart  BY <1>16 DEF Restart
<1>17. ASSUME NEW e \in Errors, NEW badRow \in BOOLEAN, ReadRetry(e, badRow) PROVE FirstPassed'
  <2>1. CASE badRow
    BY <2>1, <1>17 DEF ReadRetry, FirstRun, TypeOK, HistoryType
  <2>2. CASE ~badRow
    BY <2>2, <1>17 DEF ReadRetry, Reading, ReadFails, Abort
  <2> QED
    BY <2>1, <2>2
<1>18. ASSUME NEW e \in Errors, NEW badRow \in BOOLEAN, ReadSkip(e, badRow) PROVE FirstPassed'
  <2>1. /\ pc = "read" /\ pc' = "read" /\ itemsToWrite' = itemsToWrite
        /\ chunkError' = chunkError
    BY <1>18 DEF ReadSkip, Reading
  <2>2. \/ badRow /\ cursor' = cursor + 1
        \/ ~badRow /\ cursor' = cursor
    BY <1>18 DEF ReadSkip, ReadFails
  <2>3. CASE badRow /\ cursor' = cursor + 1
    <3>1. \A r \in Rows : r = cursor + 1 => Accounted(r)'
      BY <2>3, <1>18 DEF ReadSkip, Accounted
    <3>2. \A r \in Rows : r <= cursor + 1 => r <= cursor \/ r = cursor + 1
      BY ChunkStepAssumption DEF TypeOK, ReaderType, Rows
    <3> QED
      BY <3>1, <3>2, <2>1, <2>3
  <2> QED
    BY <2>1, <2>2, <2>3
<1>19. ASSUME NEW e \in Errors, NEW badRow \in BOOLEAN, ReadFatal(e, badRow) PROVE FirstPassed'
  BY <1>19 DEF ReadFatal, Reading, ReadFails, Abort
<1>20. ASSUME NEW e \in Errors, ProcessRetry(e) PROVE FirstPassed'
  BY <1>20 DEF ProcessRetry, Abort
<1>21. ASSUME NEW e \in Errors, ProcessSkip(e) PROVE FirstPassed'
  <2>1. cursor \in Rows => Accounted(cursor)'
    BY <1>21 DEF ProcessSkip, Accounted
  <2>2. /\ pc = "process" /\ pc' = "read" /\ itemsToWrite' = itemsToWrite
        /\ cursor' = cursor /\ chunkError' = chunkError
    BY <1>21 DEF ProcessSkip
  <2> QED
    BY <2>1, <2>2
<1>22. ASSUME NEW e \in Errors, ProcessFatal(e) PROVE FirstPassed'
  BY <1>22 DEF ProcessFatal
<1>23. ASSUME NEW e \in Errors, WriteRetry(e) PROVE FirstPassed'
  <2>1. SUFFICES ASSUME FirstRun', NEW r \in Rows, r <= cursor' PROVE Accounted(r)
    BY <1>23 DEF WriteRetry
  <2>2. FirstRun /\ writeRetries = 0 /\ pc = "write" /\ cursor' = Offset(stepEC)
    <3>1. writeRetries' = writeRetries + 1 /\ writeRetries \in Nat /\ writeRetries' <= 1
      BY <1>23, <2>1 DEF WriteRetry, TypeOK, HistoryType, FirstRun
    <3>2. writeRetries = 0
      BY <3>1
    <3> QED
      BY <1>23, <2>1, <3>2 DEF WriteRetry, ReaderOpen
  <2>3. r <= stepEC
    BY <2>1, <2>2, ChunkStepAssumption DEF Offset, Rows, NoPos
  <2> QED
    BY <2>2, <2>3 DEF FirstInv, StepBehind
<1>24. ASSUME NEW e \in Errors, WriteSplit(e) PROVE FirstPassed'
  BY <1>24 DEF WriteSplit, Rollback
<1>25. ASSUME NEW e \in Errors, WriteFatal(e) PROVE FirstPassed'
  BY <1>25 DEF WriteFatal, Rollback, Abort
<1>26. ASSUME NEW i \in Rows, SplitCommit(i) PROVE FirstPassed'
  <2>1. Accounted(i)'
    BY <1>26, PersistType DEF SplitCommit, Accounted, TypeOK, RepoType
  <2>2. /\ pc = "split" /\ pc' = "split" /\ split' = split \ {i}
        /\ cursor' = cursor /\ chunkError' = chunkError
    BY <1>26 DEF SplitCommit, NextSplit
  <2> QED
    BY <2>1, <2>2
<1>27. ASSUME NEW i \in Rows, NEW e \in Errors, SplitSkip(i, e) PROVE FirstPassed'
  <2>1. i \in Rows => Accounted(i)'
    BY <1>27 DEF SplitSkip, Accounted
  <2>2. /\ pc = "split" /\ pc' = "split" /\ split' = split \ {i}
        /\ cursor' = cursor /\ chunkError' = chunkError
    BY <1>27 DEF SplitSkip, NextSplit
  <2> QED
    BY <2>1, <2>2
<1>28. ASSUME NEW i \in Rows, NEW e \in Errors, SplitFatal(i, e) PROVE FirstPassed'
  BY <1>28 DEF SplitFatal, NextSplit, Abort
<1>29. CASE UNCHANGED vars  BY <1>29 DEF vars
<1> QED
  BY <1>1, <1>2, <1>3, <1>4, <1>5, <1>6, <1>7, <1>8, <1>9, <1>10, <1>11, <1>12, <1>13,
     <1>14, <1>15, <1>16, <1>17, <1>18, <1>19, <1>20, <1>21, <1>22, <1>23, <1>24, <1>25,
     <1>26, <1>27, <1>28, <1>29
     DEF Next, Step

\* The first run opens without a checkpoint and ends with every row.
LEMMA FirstStep ==
  TypeOK /\ ErrorEnds /\ EndAtEOF /\ NothingRead /\ PositionBehind /\ FirstInv
  /\ [Next]_vars => FirstInv'
<1> SUFFICES ASSUME TypeOK, ErrorEnds, EndAtEOF, NothingRead, PositionBehind, FirstInv,
                    [Next]_vars
             PROVE  FirstInv'
  OBVIOUS
<1>1. StepBehind' /\ FirstPassed'
  BY StepBehindStep, FirstPassedStep
<1>2. run >= 1 /\ run \in Nat /\ run' >= 1 /\ FirstChanges
  BY FirstRunBefore, FirstChangesStep DEF FirstInv, TypeOK, ControlType
<1>3. FirstOpen'
  BY <1>2 DEF FirstInv, FirstOpen, FirstChanges
<1>4. FirstRetryLosesNothing'
  <2>1. SUFFICES ASSUME pc' = "done", status' = "COMPLETED", run' = 1, writeRetries' = 1,
                        badRowRetries' = 0, NEW r \in Rows
                 PROVE  Accounted(r)'
    BY DEF FirstRetryLosesNothing
  <2>2. run = 1 /\ FirstRun /\ run' = run
    BY <1>2, <2>1, FirstRunBefore DEF FirstChanges, FirstRun
  <2>3. Accounted(r) => Accounted(r)'
    BY AccountedKept
  <2>4. CASE pc = "done" /\ status = "COMPLETED" /\ UNCHANGED <<writeRetries, badRowRetries>>
    BY <2>1, <2>2, <2>3, <2>4 DEF FirstInv, FirstRetryLosesNothing
  <2>5. CASE Finalize
    <3>1. pc = "finalize" /\ ~chunkError
      BY <2>1, <2>5 DEF Finalize, FinalStatus
    <3>2. ~(ChunkSize <= 0)
      BY <2>1, <2>5 DEF NothingRead, Finalize, history
    <3>3. r <= cursor /\ ~Pending(r)
      BY <3>1, <3>2, ChunkStepAssumption DEF EndAtEOF, Rows, Pending, Collecting
    <3> QED
      BY <2>2, <2>3, <3>1, <3>3 DEF FirstInv, FirstPassed, Running, Locations
  <2> QED
    BY <1>2, <2>1, <2>2, <2>4, <2>5 DEF FirstChanges
<1> QED
  BY <1>1, <1>2, <1>3, <1>4 DEF FirstInv

\* The first chunk retry of a first run repeats its chunk: a step that ends
\* COMPLETED after it has written, skipped or filtered every row, because before
\* it the context WriteRetry reopens the reader with has the position of the
\* last commit.
THEOREM FirstRetryIsSafe == Spec => []FirstRetryLosesNothing
<1>1. Init => FirstInv /\ PositionBehind
  <2> SUFFICES ASSUME Init PROVE FirstInv /\ PositionBehind
    OBVIOUS
  <2>1. checkpoint.pos = NoPos /\ stepEC = NoPos /\ \A r \in Rows : ~(r <= NoPos)
    BY ChunkStepAssumption DEF Init, NoCheckpoint, Rows, NoPos
  <2> QED
    BY <2>1 DEF Init, FirstInv, FirstOpen, StepBehind, FirstPassed, FirstRetryLosesNothing,
                PositionBehind, Running, Locations
<1>2. EngineInv /\ FirstInv /\ PositionBehind /\ [Next]_vars => FirstInv' /\ PositionBehind'
  BY FirstStep, PositionStep DEF EngineInv
<1>3. FirstInv => FirstRetryLosesNothing
  BY DEF FirstInv
<1> QED
  BY <1>1, <1>2, <1>3, EngineKept, PTL DEF Spec

=============================================================================
