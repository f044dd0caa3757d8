------------------------ MODULE PartitionStepProofs ------------------------
(***************************************************************************)
(* The partition step, proved for any partitions, any limit and any number *)
(* of failures: its types, where its goroutines are, what they leave, and  *)
(* what the controller may conclude from it.                               *)
(***************************************************************************)
EXTENDS PartitionStep, FiniteSetTheorems, TLAPS

\* Where goroutines may be: none before the loop or after the end, one for
\* each partition the loop has come to until it has answered.
Before ==
  at \in {"idle", "partition"} =>
    /\ errChan = {} /\ done = {} /\ todo = {} /\ parts = {}
    /\ \A p \in Partitions : wk[p] = "idle"
AtWork ==
  \A p \in Partitions : wk[p] # "idle" => at = "spawn" /\ p \in parts /\ p \notin todo
Answered ==
  /\ \A p \in done : wk[p] = "idle" /\ p \notin todo
  /\ \A p \in parts : p \notin todo /\ wk[p] = "idle" => p \in done \/ p \in errChan
Places == Before /\ AtWork /\ Answered

\* Nothing runs at first.
LEMMA PlacesInit == Init => Places
BY DEF Init, Places, Before, AtWork, Answered

\* A goroutine begins with Spawn, and ends with an answer on one of the channels.
LEMMA PlacesStep == TypeOK /\ Places /\ [Next]_vars => Places'
<1> SUFFICES ASSUME TypeOK, Places, [Next]_vars PROVE Places'
  OBVIOUS
<1> USE DEF TypeOK, WorkerType, ChannelType, Places, Before, AtWork, Answered, NoFault, Fault, Fails
<1>1. CASE ContextDone
  BY <1>1 DEF ContextDone, conf, cvars, wvars
<1>2. CASE Begin
  BY <1>2 DEF Begin, conf, cvars, wvars
<1>3. CASE Partition
  BY <1>3 DEF Partition, conf, cvars, wvars
<1>4. CASE PartitionerFails
  BY <1>4 DEF PartitionerFails, conf, cvars, wvars
<1>5. CASE Spawn
  BY <1>5 DEF Spawn, conf, cvars, wvars
<1>6. CASE MergeFails
  BY <1>6 DEF MergeFails, Joined, conf, cvars, wvars
<1>7. CASE Aggregate
  BY <1>7 DEF Aggregate, Joined, conf, cvars, wvars
<1>8. ASSUME NEW p \in Partitions, Worker(p) PROVE Places'
  <2>1. CASE Acquire(p)
    BY <2>1 DEF Acquire, conf, cvars, wvars
  <2>2. CASE AcquireFails(p)
    BY <2>2 DEF AcquireFails, conf, cvars, wvars
  <2>3. CASE BeginWorker(p)
    BY <2>3 DEF BeginWorker, Answer, conf, cvars, wvars
  <2>4. CASE StartWorker(p)
    BY <2>4 DEF StartWorker, conf, cvars, wvars
  <2>5. CASE OpenWorker(p)
    BY <2>5 DEF OpenWorker, conf, cvars, wvars
  <2>6. CASE RunWorker(p)
    BY <2>6 DEF RunWorker, conf, cvars, wvars
  <2>7. CASE EndWorker(p)
    BY <2>7 DEF EndWorker, conf, cvars, wvars
  <2>8. CASE FinishWorker(p)
    BY <2>8 DEF FinishWorker, Answer, conf, cvars, wvars
  <2>9. CASE SubmitWorkerJob(p)
    BY <2>9 DEF SubmitWorkerJob, conf, cvars, wvars
  <2>10. CASE PollWorker(p)
    BY <2>10 DEF PollWorker, Finished, Answer, conf, cvars, wvars
  <2>11. CASE AwaitInterrupted(p)
    BY <2>11 DEF AwaitInterrupted, Answer, conf, cvars, wvars
  <2> QED
    BY <1>8, <2>1, <2>2, <2>3, <2>4, <2>5, <2>6, <2>7, <2>8, <2>9, <2>10, <2>11 DEF Worker
<1>9. CASE UNCHANGED vars
  BY <1>9 DEF vars, conf, cvars, wvars
<1>10. ASSUME NEW p \in Partitions, RemoteWorker(p) PROVE Places'
  BY <1>10 DEF RemoteWorker, Finished, conf, cvars, wvars
<1> QED
  BY <1>1, <1>2, <1>3, <1>4, <1>5, <1>6, <1>7, <1>8, <1>9, <1>10 DEF Next, Controller

\* The controller's status and result stay in their ranges.
LEMMA ControlStep == TypeOK /\ [Next]_vars => ControlType'
<1> SUFFICES ASSUME TypeOK, [Next]_vars PROVE ControlType'
  OBVIOUS
<1> USE DEF TypeOK, ControlType, Statuses, None, NoFault, Fault, Fails
<1>1. CASE ContextDone
  BY <1>1 DEF ContextDone, conf, cvars, wvars
<1>2. CASE Begin
  BY <1>2 DEF Begin, conf, cvars, wvars
<1>3. CASE Partition
  BY <1>3 DEF Partition, conf, cvars, wvars
<1>4. CASE PartitionerFails
  BY <1>4 DEF PartitionerFails, conf, cvars, wvars
<1>5. CASE Spawn
  BY <1>5 DEF Spawn, conf, cvars, wvars
<1>6. CASE MergeFails
  BY <1>6 DEF MergeFails, Joined, conf, cvars, wvars
<1>7. CASE Aggregate
  BY <1>7 DEF Aggregate, AggregatedStatus, Joined, conf, cvars, wvars
<1>8. ASSUME NEW p \in Partitions, Worker(p) PROVE ControlType'
  <2>1. CASE Acquire(p)
    BY <2>1 DEF Acquire, conf, cvars, wvars
  <2>2. CASE AcquireFails(p)
    BY <2>2 DEF AcquireFails, conf, cvars, wvars
  <2>3. CASE BeginWorker(p)
    BY <2>3 DEF BeginWorker, Answer, conf, cvars, wvars
  <2>4. CASE StartWorker(p)
    BY <2>4 DEF StartWorker, conf, cvars, wvars
  <2>5. CASE OpenWorker(p)
    BY <2>5 DEF OpenWorker, conf, cvars, wvars
  <2>6. CASE RunWorker(p)
    BY <2>6 DEF RunWorker, conf, cvars, wvars
  <2>7. CASE EndWorker(p)
    BY <2>7 DEF EndWorker, conf, cvars, wvars
  <2>8. CASE FinishWorker(p)
    BY <2>8 DEF FinishWorker, Answer, conf, cvars, wvars
  <2>9. CASE SubmitWorkerJob(p)
    BY <2>9 DEF SubmitWorkerJob, conf, cvars, wvars
  <2>10. CASE PollWorker(p)
    BY <2>10 DEF PollWorker, Finished, Answer, conf, cvars, wvars
  <2>11. CASE AwaitInterrupted(p)
    BY <2>11 DEF AwaitInterrupted, Answer, conf, cvars, wvars
  <2> QED
    BY <1>8, <2>1, <2>2, <2>3, <2>4, <2>5, <2>6, <2>7, <2>8, <2>9, <2>10, <2>11 DEF Worker
<1>9. CASE UNCHANGED vars
  BY <1>9 DEF vars, conf, cvars, wvars
<1>10. ASSUME NEW p \in Partitions, RemoteWorker(p) PROVE ControlType'
  BY <1>10 DEF RemoteWorker, Finished, conf, cvars, wvars
<1> QED
  BY <1>1, <1>2, <1>3, <1>4, <1>5, <1>6, <1>7, <1>8, <1>9, <1>10 DEF Next, Controller

\* Each worker's status, row and error stay in their ranges.
LEMMA WorkerStep == TypeOK /\ [Next]_vars => WorkerType'
<1> SUFFICES ASSUME TypeOK, [Next]_vars PROVE WorkerType'
  OBVIOUS
<1> USE DEF TypeOK, WorkerType, Goroutines, Holding, Statuses, None, NoFault, Fault, Fails
<1>1. CASE ContextDone
  BY <1>1 DEF ContextDone, conf, cvars, wvars
<1>2. CASE Begin
  BY <1>2 DEF Begin, conf, cvars, wvars
<1>3. CASE Partition
  BY <1>3 DEF Partition, conf, cvars, wvars
<1>4. CASE PartitionerFails
  BY <1>4 DEF PartitionerFails, conf, cvars, wvars
<1>5. CASE Spawn
  BY <1>5 DEF Spawn, conf, cvars, wvars
<1>6. CASE MergeFails
  BY <1>6 DEF MergeFails, Joined, conf, cvars, wvars
<1>7. CASE Aggregate
  BY <1>7 DEF Aggregate, Joined, conf, cvars, wvars
<1>8. ASSUME NEW p \in Partitions, Worker(p) PROVE WorkerType'
  <2>1. CASE Acquire(p)
    BY <2>1 DEF Acquire, conf, cvars, wvars
  <2>2. CASE AcquireFails(p)
    BY <2>2 DEF AcquireFails, conf, cvars, wvars
  <2>3. CASE BeginWorker(p)
    BY <2>3 DEF BeginWorker, Answer, conf, cvars, wvars
  <2>4. CASE StartWorker(p)
    BY <2>4 DEF StartWorker, UpdateWorker, ErrorKinds, conf, cvars, wvars
  <2>5. CASE OpenWorker(p)
    BY <2>5 DEF OpenWorker, UpdateWorker, ErrorKinds, conf, cvars, wvars
  <2>6. CASE RunWorker(p)
    BY <2>6 DEF RunWorker, ErrorKinds, conf, cvars, wvars
  <2>7. CASE EndWorker(p)
    BY <2>7 DEF EndWorker, UpdateWorker, ErrorKinds, conf, cvars, wvars
  <2>8. CASE FinishWorker(p)
    BY <2>8 DEF FinishWorker, Answer, conf, cvars, wvars
  <2>9. CASE SubmitWorkerJob(p)
    BY <2>9 DEF SubmitWorkerJob, conf, cvars, wvars
  <2>10. CASE PollWorker(p)
    BY <2>10 DEF PollWorker, Finished, Answer, conf, cvars, wvars
  <2>11. CASE AwaitInterrupted(p)
    BY <2>11 DEF AwaitInterrupted, Answer, conf, cvars, wvars
  <2> QED
    BY <1>8, <2>1, <2>2, <2>3, <2>4, <2>5, <2>6, <2>7, <2>8, <2>9, <2>10, <2>11 DEF Worker
<1>9. CASE UNCHANGED vars
  BY <1>9 DEF vars, conf, cvars, wvars
<1>10. ASSUME NEW p \in Partitions, RemoteWorker(p) PROVE WorkerType'
  BY <1>10 DEF RemoteWorker, Finished, conf, cvars, wvars
<1> QED
  BY <1>1, <1>2, <1>3, <1>4, <1>5, <1>6, <1>7, <1>8, <1>9, <1>10 DEF Next, Controller

\* The context a partition begins with holds keys of the model.
LEMMA PartitionKeys == \A p \in Partitions : PartitionEC(p) \in SUBSET Keys
<1> SUFFICES ASSUME NEW p \in Partitions PROVE PartitionEC(p) \subseteq Keys
  OBVIOUS
<1>1. CASE shared
  BY <1>1 DEF PartitionEC, Keys
<1>2. CASE ~shared
  BY <1>2 DEF PartitionEC, Keys
<1> QED
  BY <1>1, <1>2

\* The contexts of the workers and of the shared tasklet hold keys only.
LEMMA ContextStep == TypeOK /\ [Next]_vars => ContextType'
<1> SUFFICES ASSUME TypeOK, [Next]_vars PROVE ContextType'
  OBVIOUS
<1> USE DEF TypeOK, ContextType, Keys, NoFault, Fault, Fails
<1>1. CASE ContextDone
  BY <1>1 DEF ContextDone, conf, cvars, wvars
<1>2. CASE Begin
  BY <1>2 DEF Begin, conf, cvars, wvars
<1>3. CASE Partition
  BY <1>3 DEF Partition, conf, cvars, wvars
<1>4. CASE PartitionerFails
  BY <1>4 DEF PartitionerFails, conf, cvars, wvars
<1>5. CASE Spawn
  BY <1>5, PartitionKeys DEF Spawn, ChannelType, conf, cvars, wvars
<1>6. CASE MergeFails
  BY <1>6 DEF MergeFails, Joined, conf, cvars, wvars
<1>7. CASE Aggregate
  BY <1>7 DEF Aggregate, Joined, conf, cvars, wvars
<1>8. ASSUME NEW p \in Partitions, Worker(p) PROVE ContextType'
  <2>1. CASE Acquire(p)
    BY <2>1 DEF Acquire, conf, cvars, wvars
  <2>2. CASE AcquireFails(p)
    BY <2>2 DEF AcquireFails, conf, cvars, wvars
  <2>3. CASE BeginWorker(p)
    BY <2>3 DEF BeginWorker, Answer, conf, cvars, wvars
  <2>4. CASE StartWorker(p)
    BY <2>4 DEF StartWorker, conf, cvars, wvars
  <2>5. CASE OpenWorker(p)
    BY <2>5 DEF OpenWorker, conf, cvars, wvars
  <2>6. CASE RunWorker(p)
    BY <2>6 DEF RunWorker, conf, cvars, wvars
  <2>7. CASE EndWorker(p)
    BY <2>7 DEF EndWorker, conf, cvars, wvars
  <2>8. CASE FinishWorker(p)
    BY <2>8 DEF FinishWorker, Answer, conf, cvars, wvars
  <2>9. CASE SubmitWorkerJob(p)
    BY <2>9 DEF SubmitWorkerJob, conf, cvars, wvars
  <2>10. CASE PollWorker(p)
    BY <2>10, PartitionKeys DEF PollWorker, Finished, Answer, conf, cvars, wvars
  <2>11. CASE AwaitInterrupted(p)
    BY <2>11 DEF AwaitInterrupted, Answer, conf, cvars, wvars
  <2> QED
    BY <1>8, <2>1, <2>2, <2>3, <2>4, <2>5, <2>6, <2>7, <2>8, <2>9, <2>10, <2>11 DEF Worker
<1>9. CASE UNCHANGED vars
  BY <1>9 DEF vars, conf, cvars, wvars
<1>10. ASSUME NEW p \in Partitions, RemoteWorker(p) PROVE ContextType'
  BY <1>10 DEF RemoteWorker, Finished, conf, cvars, wvars
<1> QED
  BY <1>1, <1>2, <1>3, <1>4, <1>5, <1>6, <1>7, <1>8, <1>9, <1>10 DEF Next, Controller

\* The channels hold partitions of this run: here Places is needed.
LEMMA ChannelStep == TypeOK /\ Places /\ [Next]_vars => ChannelType'
<1> SUFFICES ASSUME TypeOK, Places, [Next]_vars PROVE ChannelType'
  OBVIOUS
<1> USE DEF TypeOK, WorkerType, ChannelType, Places, Before, AtWork, NoFault, Fault, Fails
<1>1. CASE ContextDone
  BY <1>1 DEF ContextDone, conf, cvars, wvars
<1>2. CASE Begin
  BY <1>2 DEF Begin, conf, cvars, wvars
<1>3. CASE Partition
  BY <1>3 DEF Partition, conf, cvars, wvars
<1>4. CASE PartitionerFails
  BY <1>4 DEF PartitionerFails, conf, cvars, wvars
<1>5. CASE Spawn
  BY <1>5 DEF Spawn, conf, cvars, wvars
<1>6. CASE MergeFails
  BY <1>6 DEF MergeFails, Joined, conf, cvars, wvars
<1>7. CASE Aggregate
  BY <1>7 DEF Aggregate, Joined, conf, cvars, wvars
<1>8. ASSUME NEW p \in Partitions, Worker(p) PROVE ChannelType'
  <2>1. CASE Acquire(p)
    BY <2>1 DEF Acquire, conf, cvars, wvars
  <2>2. CASE AcquireFails(p)
    BY <2>2 DEF AcquireFails, conf, cvars, wvars
  <2>3. CASE BeginWorker(p)
    BY <2>3 DEF BeginWorker, Answer, conf, cvars, wvars
  <2>4. CASE StartWorker(p)
    BY <2>4 DEF StartWorker, conf, cvars, wvars
  <2>5. CASE OpenWorker(p)
    BY <2>5 DEF OpenWorker, conf, cvars, wvars
  <2>6. CASE RunWorker(p)
    BY <2>6 DEF RunWorker, conf, cvars, wvars
  <2>7. CASE EndWorker(p)
    BY <2>7 DEF EndWorker, conf, cvars, wvars
  <2>8. CASE FinishWorker(p)
    BY <2>8 DEF FinishWorker, Answer, conf, cvars, wvars
  <2>9. CASE SubmitWorkerJob(p)
    BY <2>9 DEF SubmitWorkerJob, conf, cvars, wvars
  <2>10. CASE PollWorker(p)
    BY <2>10 DEF PollWorker, Finished, Answer, conf, cvars, wvars
  <2>11. CASE AwaitInterrupted(p)
    BY <2>11 DEF AwaitInterrupted, Answer, conf, cvars, wvars
  <2> QED
    BY <1>8, <2>1, <2>2, <2>3, <2>4, <2>5, <2>6, <2>7, <2>8, <2>9, <2>10, <2>11 DEF Worker
<1>9. CASE UNCHANGED vars
  BY <1>9 DEF vars, conf, cvars, wvars
<1>10. ASSUME NEW p \in Partitions, RemoteWorker(p) PROVE ChannelType'
  BY <1>10 DEF RemoteWorker, Finished, conf, cvars, wvars
<1> QED
  BY <1>1, <1>2, <1>3, <1>4, <1>5, <1>6, <1>7, <1>8, <1>9, <1>10 DEF Next, Controller

\* A step spends a failure, or none, or ends the context.
LEMMA FaultEffect == [Next]_vars => shared' = shared /\ (NoFault \/ Fault \/ ContextDone)
<1> SUFFICES ASSUME [Next]_vars PROVE shared' = shared /\ (NoFault \/ Fault \/ ContextDone)
  OBVIOUS
<1> USE DEF Fails, conf
<1>1. CASE ContextDone
  BY <1>1 DEF ContextDone
<1>2. CASE Begin
  BY <1>2 DEF Begin
<1>3. CASE Partition
  BY <1>3 DEF Partition
<1>4. CASE PartitionerFails
  BY <1>4 DEF PartitionerFails
<1>5. CASE Spawn
  BY <1>5 DEF Spawn
<1>6. CASE MergeFails
  BY <1>6 DEF MergeFails, Joined
<1>7. CASE Aggregate
  BY <1>7 DEF Aggregate, Joined
<1>8. ASSUME NEW p \in Partitions, Worker(p) PROVE shared' = shared /\ (NoFault \/ Fault)
  <2>1. CASE Acquire(p)
    BY <2>1 DEF Acquire
  <2>2. CASE AcquireFails(p)
    BY <2>2 DEF AcquireFails
  <2>3. CASE BeginWorker(p)
    BY <2>3 DEF BeginWorker, Answer
  <2>4. CASE StartWorker(p)
    BY <2>4 DEF StartWorker
  <2>5. CASE OpenWorker(p)
    BY <2>5 DEF OpenWorker
  <2>6. CASE RunWorker(p)
    BY <2>6 DEF RunWorker
  <2>7. CASE EndWorker(p)
    BY <2>7 DEF EndWorker
  <2>8. CASE FinishWorker(p)
    BY <2>8 DEF FinishWorker, Answer
  <2>9. CASE SubmitWorkerJob(p)
    BY <2>9 DEF SubmitWorkerJob, conf, cvars, wvars
  <2>10. CASE PollWorker(p)
    BY <2>10 DEF PollWorker, Finished, Answer, conf, cvars, wvars
  <2>11. CASE AwaitInterrupted(p)
    BY <2>11 DEF AwaitInterrupted, Answer, conf, cvars, wvars
  <2> QED
    BY <1>8, <2>1, <2>2, <2>3, <2>4, <2>5, <2>6, <2>7, <2>8, <2>9, <2>10, <2>11 DEF Worker
<1>9. CASE UNCHANGED vars
  BY <1>9 DEF vars, NoFault
<1>10. ASSUME NEW p \in Partitions, RemoteWorker(p) PROVE shared' = shared /\ (NoFault \/ Fault)
  BY <1>10 DEF RemoteWorker, Finished, conf, cvars, wvars
<1> QED
  BY <1>1, <1>2, <1>3, <1>4, <1>5, <1>6, <1>7, <1>8, <1>9, <1>10 DEF Next, Controller

\* The failures injected stay within their bound.
LEMMA FaultStep == FaultType /\ [Next]_vars => FaultType'
<1> SUFFICES ASSUME FaultType, [Next]_vars PROVE FaultType'
  OBVIOUS
<1>1. shared' \in BOOLEAN
  BY FaultEffect DEF FaultType
<1>2. disturbed' \in BOOLEAN
  BY FaultEffect DEF FaultType, NoFault, Fault, ContextDone
<1>3. faults' \in 0 .. MaxFaults
  <2>1. faults \in 0 .. MaxFaults
    BY DEF FaultType
  <2>2. faults' = faults \/ (faults < MaxFaults /\ faults' = faults + 1)
    BY FaultEffect DEF NoFault, Fault, ContextDone
  <2> QED
    BY <2>1, <2>2, PartitionAssumption
<1> QED
  BY <1>1, <1>2, <1>3 DEF FaultType

\* Types, and where the goroutines are, of every behaviour.
THEOREM PartitionTypes == Spec => [](TypeOK /\ Places)
<1>1. Init => TypeOK
  <2> SUFFICES ASSUME Init PROVE TypeOK
    OBVIOUS
  <2>1. ControlType
    BY DEF Init, ControlType, Statuses, None
  <2>2. WorkerType /\ ContextType /\ ChannelType
    BY DEF Init, WorkerType, ContextType, ChannelType, Statuses, None
  <2>3. faults \in 0 .. MaxFaults
    BY PartitionAssumption DEF Init
  <2>4. shared \in BOOLEAN /\ disturbed \in BOOLEAN
    BY DEF Init
  <2> QED
    BY <2>1, <2>2, <2>3, <2>4 DEF TypeOK, FaultType
<1>2. TypeOK /\ Places /\ [Next]_vars => (TypeOK /\ Places)'
  BY ControlStep, WorkerStep, ContextStep, ChannelStep, FaultStep, PlacesStep DEF TypeOK
<1> QED
  BY <1>1, <1>2, PlacesInit, PTL DEF Spec

\* A worker is cancelled only if the run was or where it ran, and stopped only
\* where it ran.
Cancels ==
  \A p \in Partitions :
    /\ status[p] = "STOPPED" => mode = "remote" /\ row[p] = "STOPPED"
    /\ status[p] = "CANCELLED"
         => ctx = "cancelled" \/ (mode = "remote" /\ row[p] = "CANCELLED")
    /\ execErr[p] = "cancelled" => ctx = "cancelled"

\* The partitions with a row are those that got a goroutine.
Saved ==
  \A p \in Partitions :
    /\ row[p] = None <=> wk[p] = "idle" /\ p \notin done
    /\ wk[p] \notin {"idle", "acquire", "begin"} => txRow[p] # None
    /\ status[p] = None \/ row[p] = None => txRow[p] = None
    /\ status[p] = None => row[p] = None

\* A worker's own transaction: what is about to be committed is a success, and
\* the row follows.
Commits ==
  mode = "own" =>
    \A p \in Partitions :
      /\ wk[p] = "update" /\ execErr[p] = "none" => status[p] = "COMPLETED"
      /\ wk[p] = "finish" /\ execErr[p] = "none"
           => status[p] = "COMPLETED" /\ txRow[p] = "COMPLETED"
      /\ p \in done /\ status[p] = "COMPLETED" => row[p] = "COMPLETED"
      /\ row[p] \in {None, "STARTING", "COMPLETED"}

\* A remote worker is COMPLETED only if its row is, and stays so.
RemoteAnswers ==
  mode = "remote" =>
    \A p \in Partitions :
      /\ wk[p] \in {"idle", "acquire", "begin", "await"}
      /\ txRow[p] # None => txRow[p] = row[p] /\ at \in {"spawn", "ended"} /\ p \notin todo
      /\ p \in done /\ status[p] = "COMPLETED" => row[p] = "COMPLETED"

\* The controller has an outcome only at the end.
Concludes ==
  /\ ctl \in {"STOPPED", "COMPLETED"} => at = "ended"
  /\ NoFailureHidden /\ StopIsNoFailure

\* The row of a remote worker is its own until it is finished.
LEMMA RemoteAnswersStep == TypeOK /\ Places /\ RemoteAnswers /\ [Next]_vars => RemoteAnswers'
<1> SUFFICES ASSUME TypeOK, Places, RemoteAnswers, [Next]_vars PROVE RemoteAnswers'
  OBVIOUS
<1> USE DEF TypeOK, WorkerType, ChannelType, ControlType, Places, AtWork, Answered,
   NoFault, Fault, Fails, Before, RemoteAnswers, None
<1>1. CASE ContextDone
  BY <1>1 DEF ContextDone, conf, cvars, wvars
<1>2. CASE Begin
  BY <1>2 DEF Begin, conf, cvars, wvars
<1>3. CASE Partition
  BY <1>3 DEF Partition, conf, cvars, wvars
<1>4. CASE PartitionerFails
  BY <1>4 DEF PartitionerFails, conf, cvars, wvars
<1>5. CASE Spawn
  BY <1>5 DEF Spawn, conf, cvars, wvars
<1>6. CASE MergeFails
  BY <1>6 DEF MergeFails, Joined, conf, cvars, wvars
<1>7. CASE Aggregate
  BY <1>7 DEF Aggregate, Joined, conf, cvars, wvars
<1>8. ASSUME NEW p \in Partitions, Worker(p) PROVE RemoteAnswers'
  <2>1. CASE Acquire(p)
    BY <2>1 DEF Acquire, conf, cvars, wvars
  <2>2. CASE AcquireFails(p)
    BY <2>2 DEF AcquireFails, conf, cvars, wvars
  <2>3. CASE BeginWorker(p)
    BY <2>3 DEF BeginWorker, ErrorKinds, Answer, conf, cvars, wvars
  <2>4. CASE StartWorker(p)
    BY <2>4 DEF StartWorker, ErrorKinds, conf, cvars, wvars
  <2>5. CASE OpenWorker(p)
    BY <2>5 DEF OpenWorker, ErrorKinds, conf, cvars, wvars
  <2>6. CASE RunWorker(p)
    BY <2>6 DEF RunWorker, ErrorKinds, conf, cvars, wvars
  <2>7. CASE EndWorker(p)
    BY <2>7 DEF EndWorker, ErrorKinds, conf, cvars, wvars
  <2>8. CASE FinishWorker(p)
    BY <2>8 DEF FinishWorker, ErrorKinds, Answer, conf, cvars, wvars
  <2>9. CASE SubmitWorkerJob(p)
    BY <2>9 DEF SubmitWorkerJob, conf, cvars, wvars
  <2>10. CASE PollWorker(p)
    BY <2>10 DEF PollWorker, Finished, Answer, conf, cvars, wvars
  <2>11. CASE AwaitInterrupted(p)
    BY <2>11 DEF AwaitInterrupted, Answer, conf, cvars, wvars
  <2> QED
    BY <1>8, <2>1, <2>2, <2>3, <2>4, <2>5, <2>6, <2>7, <2>8, <2>9, <2>10, <2>11 DEF Worker
<1>9. CASE UNCHANGED vars
  BY <1>9 DEF vars, conf, cvars, wvars
<1>10. ASSUME NEW p \in Partitions, RemoteWorker(p) PROVE RemoteAnswers'
  BY <1>10 DEF RemoteWorker, Finished, conf, cvars, wvars
<1> QED
  BY <1>1, <1>2, <1>3, <1>4, <1>5, <1>6, <1>7, <1>8, <1>9, <1>10 DEF Next, Controller

\* Only a cancelled context makes a worker CANCELLED.
LEMMA CancelsStep == TypeOK /\ Places /\ RemoteAnswers /\ Cancels /\ [Next]_vars => Cancels'
<1> SUFFICES ASSUME TypeOK, Places, RemoteAnswers, Cancels, [Next]_vars PROVE Cancels'
  OBVIOUS
<1> USE DEF TypeOK, WorkerType, ChannelType, ControlType, Places, AtWork, Answered,
   NoFault, Fault, Fails, RemoteAnswers, Cancels, None
<1>1. CASE ContextDone
  BY <1>1 DEF ContextDone, conf, cvars, wvars
<1>2. CASE Begin
  BY <1>2 DEF Begin, conf, cvars, wvars
<1>3. CASE Partition
  BY <1>3 DEF Partition, conf, cvars, wvars
<1>4. CASE PartitionerFails
  BY <1>4 DEF PartitionerFails, conf, cvars, wvars
<1>5. CASE Spawn
  BY <1>5 DEF Spawn, conf, cvars, wvars
<1>6. CASE MergeFails
  BY <1>6 DEF MergeFails, Joined, conf, cvars, wvars
<1>7. CASE Aggregate
  BY <1>7 DEF Aggregate, Joined, conf, cvars, wvars
<1>8. ASSUME NEW p \in Partitions, Worker(p) PROVE Cancels'
  <2>1. CASE Acquire(p)
    BY <2>1 DEF Acquire, conf, cvars, wvars
  <2>2. CASE AcquireFails(p)
    BY <2>2 DEF AcquireFails, conf, cvars, wvars
  <2>3. CASE BeginWorker(p)
    BY <2>3 DEF BeginWorker, ErrorKinds, Answer, conf, cvars, wvars
  <2>4. CASE StartWorker(p)
    BY <2>4 DEF StartWorker, UpdateWorker, ErrorKinds, conf, cvars, wvars
  <2>5. CASE OpenWorker(p)
    BY <2>5 DEF OpenWorker, UpdateWorker, ErrorKinds, conf, cvars, wvars
  <2>6. CASE RunWorker(p)
    BY <2>6 DEF RunWorker, ErrorKinds, conf, cvars, wvars
  <2>7. CASE EndWorker(p)
    BY <2>7 DEF EndWorker, UpdateWorker, ErrorKinds, conf, cvars, wvars
  <2>8. CASE FinishWorker(p)
    BY <2>8 DEF FinishWorker, ErrorKinds, Answer, conf, cvars, wvars
  <2>9. CASE SubmitWorkerJob(p)
    BY <2>9 DEF SubmitWorkerJob, conf, cvars, wvars
  <2>10. CASE PollWorker(p)
    BY <2>10 DEF PollWorker, Finished, Answer, conf, cvars, wvars
  <2>11. CASE AwaitInterrupted(p)
    BY <2>11 DEF AwaitInterrupted, Answer, conf, cvars, wvars
  <2> QED
    BY <1>8, <2>1, <2>2, <2>3, <2>4, <2>5, <2>6, <2>7, <2>8, <2>9, <2>10, <2>11 DEF Worker
<1>9. CASE UNCHANGED vars
  BY <1>9 DEF vars, conf, cvars, wvars
<1>10. ASSUME NEW p \in Partitions, RemoteWorker(p) PROVE Cancels'
  BY <1>10 DEF RemoteWorker, Finished, conf, cvars, wvars
<1> QED
  BY <1>1, <1>2, <1>3, <1>4, <1>5, <1>6, <1>7, <1>8, <1>9, <1>10 DEF Next, Controller

\* Spawn saves a row and starts a goroutine, or does neither.
LEMMA SavedStep == TypeOK /\ Places /\ Saved /\ [Next]_vars => Saved'
<1> SUFFICES ASSUME TypeOK, Places, Saved, [Next]_vars PROVE Saved'
  OBVIOUS
<1> USE DEF TypeOK, WorkerType, ChannelType, ControlType, Places, AtWork, Answered,
   NoFault, Fault, Fails, Saved, UpdateWorker, None
<1>1. CASE ContextDone
  BY <1>1 DEF ContextDone, conf, cvars, wvars
<1>2. CASE Begin
  BY <1>2 DEF Begin, conf, cvars, wvars
<1>3. CASE Partition
  BY <1>3 DEF Partition, conf, cvars, wvars
<1>4. CASE PartitionerFails
  BY <1>4 DEF PartitionerFails, conf, cvars, wvars
<1>5. CASE Spawn
  BY <1>5 DEF Spawn, conf, cvars, wvars
<1>6. CASE MergeFails
  BY <1>6 DEF MergeFails, Joined, conf, cvars, wvars
<1>7. CASE Aggregate
  BY <1>7 DEF Aggregate, Joined, conf, cvars, wvars
<1>8. ASSUME NEW p \in Partitions, Worker(p) PROVE Saved'
  <2>1. CASE Acquire(p)
    BY <2>1 DEF Acquire, conf, cvars, wvars
  <2>2. CASE AcquireFails(p)
    BY <2>2 DEF AcquireFails, conf, cvars, wvars
  <2>3. CASE BeginWorker(p)
    BY <2>3 DEF BeginWorker, ErrorKinds, Answer, conf, cvars, wvars
  <2>4. CASE StartWorker(p)
    BY <2>4 DEF StartWorker, UpdateWorker, ErrorKinds, conf, cvars, wvars
  <2>5. CASE OpenWorker(p)
    BY <2>5 DEF OpenWorker, UpdateWorker, ErrorKinds, conf, cvars, wvars
  <2>6. CASE RunWorker(p)
    BY <2>6 DEF RunWorker, ErrorKinds, conf, cvars, wvars
  <2>7. CASE EndWorker(p)
    BY <2>7 DEF EndWorker, UpdateWorker, ErrorKinds, conf, cvars, wvars
  <2>8. CASE FinishWorker(p)
    BY <2>8 DEF FinishWorker, ErrorKinds, Answer, conf, cvars, wvars
  <2>9. CASE SubmitWorkerJob(p)
    BY <2>9 DEF SubmitWorkerJob, conf, cvars, wvars
  <2>10. CASE PollWorker(p)
    BY <2>10 DEF PollWorker, Finished, Answer, conf, cvars, wvars
  <2>11. CASE AwaitInterrupted(p)
    BY <2>11 DEF AwaitInterrupted, Answer, conf, cvars, wvars
  <2> QED
    BY <1>8, <2>1, <2>2, <2>3, <2>4, <2>5, <2>6, <2>7, <2>8, <2>9, <2>10, <2>11 DEF Worker
<1>9. CASE UNCHANGED vars
  BY <1>9 DEF vars, conf, cvars, wvars
<1>10. ASSUME NEW p \in Partitions, RemoteWorker(p) PROVE Saved'
  BY <1>10 DEF RemoteWorker, Finished, conf, cvars, wvars
<1> QED
  BY <1>1, <1>2, <1>3, <1>4, <1>5, <1>6, <1>7, <1>8, <1>9, <1>10 DEF Next, Controller

\* The row of a worker changes with its commit.
LEMMA CommitsStep == TypeOK /\ Places /\ Commits /\ [Next]_vars => Commits'
<1> SUFFICES ASSUME TypeOK, Places, Commits, [Next]_vars PROVE Commits'
  OBVIOUS
<1> USE DEF TypeOK, WorkerType, ChannelType, ControlType, Places, AtWork, Answered,
   NoFault, Fault, Fails, Before, Commits, None
<1>1. CASE ContextDone
  BY <1>1 DEF ContextDone, conf, cvars, wvars
<1>2. CASE Begin
  BY <1>2 DEF Begin, conf, cvars, wvars
<1>3. CASE Partition
  BY <1>3 DEF Partition, conf, cvars, wvars
<1>4. CASE PartitionerFails
  BY <1>4 DEF PartitionerFails, conf, cvars, wvars
<1>5. CASE Spawn
  BY <1>5 DEF Spawn, conf, cvars, wvars
<1>6. CASE MergeFails
  BY <1>6 DEF MergeFails, Joined, conf, cvars, wvars
<1>7. CASE Aggregate
  BY <1>7 DEF Aggregate, Joined, conf, cvars, wvars
<1>8. ASSUME NEW p \in Partitions, Worker(p) PROVE Commits'
  <2>1. CASE Acquire(p)
    BY <2>1 DEF Acquire, conf, cvars, wvars
  <2>2. CASE AcquireFails(p)
    BY <2>2 DEF AcquireFails, conf, cvars, wvars
  <2>3. CASE BeginWorker(p)
    BY <2>3 DEF BeginWorker, ErrorKinds, Answer, conf, cvars, wvars
  <2>4. CASE StartWorker(p)
    BY <2>4 DEF StartWorker, UpdateWorker, ErrorKinds, conf, cvars, wvars
  <2>5. CASE OpenWorker(p)
    BY <2>5 DEF OpenWorker, UpdateWorker, ErrorKinds, conf, cvars, wvars
  <2>6. CASE RunWorker(p)
    BY <2>6 DEF RunWorker, ErrorKinds, conf, cvars, wvars
  <2>7. CASE EndWorker(p)
    BY <2>7 DEF EndWorker, UpdateWorker, ErrorKinds, conf, cvars, wvars
  <2>8. CASE FinishWorker(p)
    BY <2>8 DEF FinishWorker, ErrorKinds, Answer, conf, cvars, wvars
  <2>9. CASE SubmitWorkerJob(p)
    BY <2>9 DEF SubmitWorkerJob, conf, cvars, wvars
  <2>10. CASE PollWorker(p)
    BY <2>10 DEF PollWorker, Finished, Answer, conf, cvars, wvars
  <2>11. CASE AwaitInterrupted(p)
    BY <2>11 DEF AwaitInterrupted, Answer, conf, cvars, wvars
  <2> QED
    BY <1>8, <2>1, <2>2, <2>3, <2>4, <2>5, <2>6, <2>7, <2>8, <2>9, <2>10, <2>11 DEF Worker
<1>9. CASE UNCHANGED vars
  BY <1>9 DEF vars, conf, cvars, wvars
<1>10. ASSUME NEW p \in Partitions, RemoteWorker(p) PROVE Commits'
  BY <1>10 DEF RemoteWorker, Finished, conf, cvars, wvars
<1> QED
  BY <1>1, <1>2, <1>3, <1>4, <1>5, <1>6, <1>7, <1>8, <1>9, <1>10 DEF Next, Controller

\* What determineAggregatedStatus concludes.
LEMMA AggregatedFacts ==
  /\ AggregatedStatus(done) = "COMPLETED" => \A p \in done : status[p] = "COMPLETED"
  /\ AggregatedStatus(done) = "STOPPED" =>
       /\ \E p \in done : status[p] \in {"STOPPED", "CANCELLED"}
       /\ \A p \in done : status[p] \in {"COMPLETED", "STOPPED", "CANCELLED"}
BY DEF AggregatedStatus

\* Aggregate, which gives the controller its outcome, has seen every answer.
LEMMA ConcludesStep ==
  TypeOK /\ Places /\ RemoteAnswers /\ Cancels /\ Commits /\ Saved /\ Concludes /\ [Next]_vars
  => Concludes'
<1> SUFFICES ASSUME TypeOK, Places, RemoteAnswers, Cancels, Commits, Saved, Concludes, [Next]_vars
             PROVE  Concludes'
  OBVIOUS
<1> USE DEF TypeOK, WorkerType, ChannelType, ControlType, Places, AtWork, Answered,
   NoFault, Fault, Fails, Before, Concludes, NoFailureHidden, StopIsNoFailure
<1>1. CASE ContextDone
  BY <1>1 DEF ContextDone, conf, cvars, wvars
<1>2. CASE Begin
  BY <1>2 DEF Begin, conf, cvars, wvars
<1>3. CASE Partition
  BY <1>3 DEF Partition, conf, cvars, wvars
<1>4. CASE PartitionerFails
  BY <1>4 DEF PartitionerFails, conf, cvars, wvars
<1>5. CASE Spawn
  BY <1>5 DEF Spawn, conf, cvars, wvars
<1>6. CASE MergeFails
  BY <1>6 DEF MergeFails, Joined, conf, cvars, wvars
<1>7. CASE Aggregate
  BY <1>7, AggregatedFacts DEF Aggregate, Joined, RemoteAnswers, Cancels, Commits, Saved,
     conf, cvars, wvars
<1>8. ASSUME NEW p \in Partitions, Worker(p) PROVE Concludes'
  <2>1. CASE Acquire(p)
    BY <2>1 DEF Acquire, conf, cvars, wvars
  <2>2. CASE AcquireFails(p)
    BY <2>2 DEF AcquireFails, conf, cvars, wvars
  <2>3. CASE BeginWorker(p)
    BY <2>3 DEF BeginWorker, Answer, conf, cvars, wvars
  <2>4. CASE StartWorker(p)
    BY <2>4 DEF StartWorker, conf, cvars, wvars
  <2>5. CASE OpenWorker(p)
    BY <2>5 DEF OpenWorker, conf, cvars, wvars
  <2>6. CASE RunWorker(p)
    BY <2>6 DEF RunWorker, conf, cvars, wvars
  <2>7. CASE EndWorker(p)
    BY <2>7 DEF EndWorker, conf, cvars, wvars
  <2>8. CASE FinishWorker(p)
    BY <2>8 DEF FinishWorker, Answer, conf, cvars, wvars
  <2>9. CASE SubmitWorkerJob(p)
    BY <2>9 DEF SubmitWorkerJob, conf, cvars, wvars
  <2>10. CASE PollWorker(p)
    BY <2>10 DEF PollWorker, Finished, Answer, conf, cvars, wvars
  <2>11. CASE AwaitInterrupted(p)
    BY <2>11 DEF AwaitInterrupted, Answer, conf, cvars, wvars
  <2> QED
    BY <1>8, <2>1, <2>2, <2>3, <2>4, <2>5, <2>6, <2>7, <2>8, <2>9, <2>10, <2>11 DEF Worker
<1>9. CASE UNCHANGED vars
  BY <1>9 DEF vars, conf, cvars, wvars
<1>10. ASSUME NEW p \in Partitions, RemoteWorker(p) PROVE Concludes'
  BY <1>10 DEF RemoteWorker, RemoteAnswers, Cancels, Finished, None, conf, cvars, wvars
<1> QED
  BY <1>1, <1>2, <1>3, <1>4, <1>5, <1>6, <1>7, <1>8, <1>9, <1>10 DEF Next, Controller

\* The invariant behind the outcome of a partition step.
Outcome == TypeOK /\ Places /\ RemoteAnswers /\ Cancels /\ Commits /\ Saved /\ Concludes

\* The invariant of the outcome.
LEMMA OutcomeKept == Spec => []Outcome
<1>1. Init => RemoteAnswers /\ Cancels /\ Commits /\ Saved /\ Concludes
  BY DEF Init, RemoteAnswers, Cancels, Commits, Saved, Concludes, NoFailureHidden, StopIsNoFailure, None
<1>2. Outcome /\ [Next]_vars => (RemoteAnswers /\ Cancels /\ Commits /\ Saved /\ Concludes)'
  BY RemoteAnswersStep, CancelsStep, CommitsStep, SavedStep, ConcludesStep DEF Outcome
<1> QED
  BY <1>1, <1>2, PartitionTypes, PTL DEF Spec, Outcome

\* determineAggregatedStatus and Execute: a success hides no failure.
THEOREM FailuresShown == Spec => []NoFailureHidden
BY OutcomeKept, PTL DEF Outcome, Concludes

\* determineAggregatedStatus and Execute: the failure of a worker is never
\* reported as a stop, and a partition that is missing then never ran.
THEOREM StopsAreNoFailures == Spec => []StopIsNoFailure
BY OutcomeKept, PTL DEF Outcome, Concludes

\* ExecuteStep: the rows of a worker with a transaction of its own show nothing
\* that was not committed.
THEOREM AtomicWork == Spec => []WorkIsAtomic
<1>1. Commits => WorkIsAtomic
  BY DEF Commits, WorkIsAtomic
<1> QED
  BY <1>1, OutcomeKept, PTL DEF Outcome

-----------------------------------------------------------------------------
\* The workers past the semaphore.
Holders == {p \in Partitions : wk[p] \in Holding}

\* The workers past the semaphore can be counted.
LEMMA HoldersFinite == IsFiniteSet(Holders) /\ Cardinality(Holders) \in Nat
BY PartitionAssumption, FS_Subset, FS_CardinalityType DEF Holders

\* Only Acquire adds to the workers past the semaphore.
LEMMA HoldersStep ==
  ASSUME TypeOK, [Next]_vars, concurrency > 0
  PROVE  \/ Holders' \subseteq Holders
         \/ \E p \in Partitions : Acquire(p) /\ Holders' \subseteq Holders \cup {p}
<1> USE DEF TypeOK, WorkerType, Holders, Holding
<1>1. CASE ContextDone
  BY <1>1 DEF ContextDone, wvars
<1>2. CASE Begin
  BY <1>2 DEF Begin, wvars
<1>3. CASE Partition
  BY <1>3 DEF Partition, wvars
<1>4. CASE PartitionerFails
  BY <1>4 DEF PartitionerFails, wvars
<1>5. CASE Spawn
  BY <1>5 DEF Spawn
<1>6. CASE MergeFails
  BY <1>6 DEF MergeFails, wvars
<1>7. CASE Aggregate
  BY <1>7 DEF Aggregate, wvars
<1>8. ASSUME NEW p \in Partitions, Worker(p)
      PROVE  Holders' \subseteq Holders \/ (Acquire(p) /\ Holders' \subseteq Holders \cup {p})
  BY <1>8 DEF Worker, Acquire, AcquireFails, BeginWorker, Answer, StartWorker, OpenWorker,
              RunWorker, EndWorker, FinishWorker, SubmitWorkerJob, PollWorker, AwaitInterrupted
<1>9. CASE UNCHANGED vars
  BY <1>9 DEF vars, wvars
<1>10. ASSUME NEW p \in Partitions, RemoteWorker(p) PROVE Holders' \subseteq Holders
  BY <1>10 DEF RemoteWorker
<1> QED
  BY <1>1, <1>2, <1>3, <1>4, <1>5, <1>6, <1>7, <1>8, <1>9, <1>10 DEF Next, Controller

\* The limit and the kind of worker are fixed for the execution.
LEMMA ConfStep == [Next]_vars => concurrency' = concurrency /\ mode' = mode
BY DEF Next, Controller, ContextDone, Begin, Partition, PartitionerFails, Spawn,
   MergeFails, Aggregate,
       Worker, Acquire, AcquireFails, BeginWorker, StartWorker, OpenWorker, RunWorker, EndWorker,
       FinishWorker, SubmitWorkerJob, PollWorker, AwaitInterrupted, RemoteWorker, vars, conf

\* The semaphore of Execute: never more than concurrency partitions at work,
\* however many there are and however their waits end.
THEOREM BoundKept == Spec => []ConcurrencyBound
<1>1. Init => ConcurrencyBound
  <2> SUFFICES ASSUME Init PROVE ConcurrencyBound
    OBVIOUS
  <2>1. Holders = {}
    BY DEF Init, Holders, Holding
  <2>2. concurrency \in Nat
    BY PartitionAssumption DEF Init
  <2> QED
    BY <2>1, <2>2, FS_EmptySet DEF ConcurrencyBound, Holders
<1>2. TypeOK /\ ConcurrencyBound /\ [Next]_vars => ConcurrencyBound'
  <2> SUFFICES ASSUME TypeOK, ConcurrencyBound, [Next]_vars, concurrency' > 0
               PROVE  Cardinality(Holders') <= concurrency'
    BY DEF ConcurrencyBound, Holders
  <2>1. concurrency' = concurrency /\ concurrency \in Nat
    BY ConfStep, PartitionAssumption DEF TypeOK, ControlType
  <2>2. Cardinality(Holders) <= concurrency
    BY <2>1 DEF ConcurrencyBound, Holders
  <2>3. CASE Holders' \subseteq Holders
    <3>1. Cardinality(Holders') <= Cardinality(Holders) /\ Cardinality(Holders') \in Nat
      BY <2>3, HoldersFinite, FS_Subset, FS_CardinalityType
    <3> QED
      BY <3>1, <2>1, <2>2, HoldersFinite
  <2>4. ASSUME NEW p \in Partitions, Acquire(p), Holders' \subseteq Holders \cup {p}
        PROVE  Cardinality(Holders') <= concurrency
    <3>1. Cardinality(Holders) < concurrency
      BY <2>4 DEF Acquire, Holders
    <3>2. IsFiniteSet(Holders \cup {p}) /\ Cardinality(Holders \cup {p}) <= Cardinality(Holders) + 1
      BY HoldersFinite, FS_AddElement
    <3>3. Cardinality(Holders') <= Cardinality(Holders \cup {p}) /\ Cardinality(Holders') \in Nat
      BY <2>4, <3>2, FS_Subset, FS_CardinalityType
    <3>4. Cardinality(Holders \cup {p}) \in Nat
      BY <3>2, FS_CardinalityType
    <3> QED
      BY <2>1, <3>1, <3>2, <3>3, <3>4, HoldersFinite
  <2> QED
    BY <2>1, <2>3, <2>4, HoldersStep
<1> QED
  BY <1>1, <1>2, PartitionTypes, PTL DEF Spec

-----------------------------------------------------------------------------
\* One at a time, the tasklet's context is that of the one worker at work.
OneByOne ==
  concurrency = 1 /\ mode \notin {"chunk", "remote"} =>
    /\ \A p, q \in Partitions : wk[p] \in Holding /\ wk[q] \in Holding => p = q
    /\ \A p \in Partitions : wk[p] # "idle" \/ p \in done => ec[p] = PartitionEC(p)
    /\ \A p \in Partitions : wk[p] \in {"open", "run", "update"} => taskletEC = PartitionEC(p)

\* A worker past the semaphore is alone there when the limit is one.
LEMMA OneByOneStep == TypeOK /\ Places /\ OneByOne /\ [Next]_vars => OneByOne'
<1> SUFFICES ASSUME TypeOK, Places, OneByOne, [Next]_vars PROVE OneByOne'
  OBVIOUS
<1>a. concurrency' = concurrency /\ mode' = mode
  BY ConfStep
<1>b. \A p \in Partitions : PartitionEC(p)' = PartitionEC(p)
  BY FaultEffect DEF PartitionEC
<1> USE DEF TypeOK, WorkerType, ContextType, ChannelType, Places, Before, AtWork, Answered,
   OneByOne, Holding,
       NoFault, Fault, Fails
<1>1. CASE ContextDone
  BY <1>1, <1>a, <1>b DEF ContextDone, conf, cvars, wvars
<1>2. CASE Begin
  BY <1>2, <1>a, <1>b DEF Begin, conf, cvars, wvars
<1>3. CASE Partition
  BY <1>3, <1>a, <1>b DEF Partition, conf, cvars, wvars
<1>4. CASE PartitionerFails
  BY <1>4, <1>a, <1>b DEF PartitionerFails, conf, cvars, wvars
<1>5. CASE Spawn
  BY <1>5, <1>a, <1>b DEF Spawn, conf, cvars, wvars
<1>6. CASE MergeFails
  BY <1>6, <1>a, <1>b DEF MergeFails, Joined, conf, cvars, wvars
<1>7. CASE Aggregate
  BY <1>7, <1>a, <1>b DEF Aggregate, Joined, conf, cvars, wvars
<1>8. ASSUME NEW p \in Partitions, Worker(p) PROVE OneByOne'
  <2>1. CASE Acquire(p)
    <3>1. CASE concurrency = 1
      <4>1. Cardinality(Holders) < 1
        BY <2>1, <3>1 DEF Acquire, Holders
      <4>2. Holders = {}
        BY <4>1, HoldersFinite, FS_EmptySet
      <4> QED
        BY <2>1, <1>a, <1>b, <4>2 DEF Acquire, Holders, conf, cvars, wvars
    <3> QED
      BY <3>1, <1>a
  <2>2. CASE AcquireFails(p)
    BY <2>2, <1>a, <1>b DEF AcquireFails, conf, cvars, wvars
  <2>3. CASE BeginWorker(p)
    BY <2>3, <1>a, <1>b DEF BeginWorker, Answer, conf, cvars, wvars
  <2>4. CASE StartWorker(p)
    BY <2>4, <1>a, <1>b DEF StartWorker, conf, cvars, wvars
  <2>5. CASE OpenWorker(p)
    BY <2>5, <1>a, <1>b DEF OpenWorker, conf, cvars, wvars
  <2>6. CASE RunWorker(p)
    BY <2>6, <1>a, <1>b DEF RunWorker, conf, cvars, wvars
  <2>7. CASE EndWorker(p)
    BY <2>7, <1>a, <1>b DEF EndWorker, conf, cvars, wvars
  <2>8. CASE FinishWorker(p)
    BY <2>8, <1>a, <1>b DEF FinishWorker, Answer, conf, cvars, wvars
  <2>9. CASE SubmitWorkerJob(p)
    BY <2>9, <1>a, <1>b DEF SubmitWorkerJob, conf, cvars, wvars
  <2>10. CASE PollWorker(p)
    BY <2>10, <1>a, <1>b DEF PollWorker, Finished, Answer, conf, cvars, wvars
  <2>11. CASE AwaitInterrupted(p)
    BY <2>11, <1>a, <1>b DEF AwaitInterrupted, Answer, conf, cvars, wvars
  <2> QED
    BY <1>8, <2>1, <2>2, <2>3, <2>4, <2>5, <2>6, <2>7, <2>8, <2>9, <2>10, <2>11 DEF Worker
<1>9. CASE UNCHANGED vars
  BY <1>9, <1>a, <1>b DEF vars, conf, cvars, wvars
<1>10. ASSUME NEW p \in Partitions, RemoteWorker(p) PROVE OneByOne'
  BY <1>10, <1>a, <1>b DEF RemoteWorker, Finished, conf, cvars, wvars
<1> QED
  BY <1>1, <1>2, <1>3, <1>4, <1>5, <1>6, <1>7, <1>8, <1>9, <1>10 DEF Next, Controller

\* TaskletStep in a partition: a limit of one keeps the contexts apart.
THEOREM OwnContexts == Spec => []OwnContextOneByOne
<1>1. Init => OneByOne
  BY DEF Init, OneByOne, Holding
<1>2. TypeOK /\ OneByOne => OwnContextOneByOne
  BY DEF TypeOK, ChannelType, OneByOne, OwnContextOneByOne
<1> QED
  BY <1>1, <1>2, OneByOneStep, PartitionTypes, PTL DEF Spec

=============================================================================
