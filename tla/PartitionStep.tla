--------------------------- MODULE PartitionStep ---------------------------
(***************************************************************************)
(* PartitionStep.Execute (engine/step/partition/partition_step.go): the    *)
(* controller makes a StepExecution for every partition and runs each in a *)
(* goroutine, at most concurrency of them at a time, through               *)
(* SimpleStepExecutor.ExecuteStep (simple_executor.go) and one worker step *)
(* object that all of them share; then it aggregates what they send.       *)
(*                                                                         *)
(* Under RemoteStepExecutor (remote_executor.go, bird_submitter.go) the    *)
(* goroutine submits the worker and polls its row, which a process outside *)
(* the model writes.                                                       *)
(*                                                                         *)
(* A worker is a ChunkStep, whose transactions are its own, or a           *)
(* TaskletStep under one of the propagations.  No transaction is open      *)
(* around a PartitionStep.  An ExecutionContext is the set of its keys.    *)
(***************************************************************************)
EXTENDS Integers, FiniteSets

CONSTANTS Partitions,    \* the partitions the Partitioner may return
          Concurrencies, \* values of concurrency; 0: no limit
          Modes,         \* kinds of workers
          MaxFaults      \* bound: failures of the repository and of transactions

ASSUME PartitionAssumption ==
  /\ IsFiniteSet(Partitions)
  /\ Concurrencies \subseteq Nat /\ MaxFaults \in Nat
  /\ Modes \subseteq {"chunk", "own", "none", "mandatory", "remote"}

VARIABLES
  concurrency, mode, \* of the step: its limit and its kind of worker
  shared,            \* the partitions' contexts have a key in common
  at,                \* where Execute is
  ctl, ctlRow,       \* status of the controller's StepExecution and of its row
  parts,             \* partitionContexts
  todo,              \* the partitions the loop has not come to
  wk,                \* of each partition: where its goroutine is
  status, row, txRow,\* of each worker's StepExecution: status, row, row in its transaction
  ec,                \* of each worker's StepExecution: its ExecutionContext
  taskletEC,         \* the ExecutionContext the shared tasklet holds
  execErr,           \* of each worker: the error of the step
  errChan,           \* partitions an error was sent for
  done,              \* workerExecutionsChan
  ctx,               \* the run's context: "live", "cancelled" or "expired"
  result,            \* what Execute returned: "none", "error"
  disturbed, faults  \* history and budget of failures

conf  == <<concurrency, mode, shared>>
cvars == <<at, ctl, ctlRow, parts, todo, result>>
wvars == <<wk, status, row, txRow, ec, taskletEC, execErr, errChan, done>>
vars  == <<conf, cvars, wvars, ctx, disturbed, faults>>

None == "NONE"
Holding == {"begin", "start", "open", "run", "update", "finish", "await"} \* past the semaphore
Goroutines == {"acquire"} \cup Holding
\* JobStatus.IsFinished, the ends of a remote worker; ABANDONED is as FAILED.
Finished == {"COMPLETED", "FAILED", "STOPPED", "CANCELLED"}

Fault   == faults < MaxFaults /\ faults' = faults + 1 /\ disturbed' = TRUE
NoFault == UNCHANGED <<faults, disturbed>>
Fails   == (ctx # "live" /\ NoFault) \/ Fault

ErrorKinds == IF ctx = "cancelled" THEN {"cancelled", "error"} ELSE {"error"}

\* The keys of the context the Partitioner makes for p, but partition.name.
PartitionEC(p) == IF shared THEN {"key"} ELSE {p}

Init ==
  /\ concurrency \in Concurrencies /\ mode \in Modes /\ shared \in BOOLEAN
  /\ at = "idle" /\ ctl = "STARTING" /\ ctlRow = "STARTING"
  /\ parts = {} /\ todo = {} /\ result = None
  /\ wk = [p \in Partitions |-> "idle"] /\ status = [p \in Partitions |-> None]
  /\ row = [p \in Partitions |-> None] /\ txRow = [p \in Partitions |-> None]
  /\ ec = [p \in Partitions |-> {}] /\ taskletEC = {}
  /\ execErr = [p \in Partitions |-> "none"]
  /\ errChan = {} /\ done = {} /\ ctx = "live" /\ disturbed = FALSE /\ faults = 0

\* The job is stopped, or a deadline of the caller's context passes.
ContextDone ==
  /\ ctx = "live" /\ at # "ended"
  /\ ctx' \in {"cancelled", "expired"} /\ disturbed' = TRUE
  /\ UNCHANGED <<conf, cvars, wvars, faults>>

-----------------------------------------------------------------------------
Begin ==
  /\ at = "idle" /\ ctl' = "STARTED"
  /\ \/ ctx = "live" /\ NoFault /\ ctlRow' = "STARTED" /\ at' = "partition" /\ UNCHANGED result
     \/ Fails /\ at' = "ended" /\ result' = "error" /\ UNCHANGED ctlRow
  /\ UNCHANGED <<conf, parts, todo, wvars, ctx>>

Partition ==
  /\ at = "partition"
  /\ \E ps \in SUBSET Partitions : parts' = ps /\ todo' = ps
  /\ at' = "spawn"
  /\ NoFault /\ UNCHANGED <<conf, ctl, ctlRow, result, wvars, ctx>>

PartitionerFails ==
  /\ at = "partition" /\ ctl' = "FAILED" /\ at' = "ended" /\ result' = "error"
  /\ \/ ctx = "live" /\ NoFault /\ ctlRow' = "FAILED"
     \/ Fails /\ UNCHANGED ctlRow
  /\ UNCHANGED <<conf, parts, todo, wvars, ctx>>

\* The next worker, while those before it are at work; one whose row cannot be
\* saved gets no goroutine.
Spawn ==
  /\ at = "spawn"
  /\ \E p \in todo :
       /\ todo' = todo \ {p}
       /\ status' = [status EXCEPT ![p] = "STARTING"]
       /\ ec' = [ec EXCEPT ![p] = PartitionEC(p)]
       /\ \/ /\ ctx = "live" /\ NoFault
             /\ row' = [row EXCEPT ![p] = "STARTING"]
             /\ wk' = [wk EXCEPT ![p] = IF concurrency > 0 THEN "acquire" ELSE "begin"]
             /\ UNCHANGED errChan
          \/ Fails /\ errChan' = errChan \cup {p} /\ UNCHANGED <<row, wk>>
  /\ UNCHANGED <<conf, at, ctl, ctlRow, parts, result, txRow, taskletEC, execErr, done, ctx>>

-----------------------------------------------------------------------------
Acquire(p) ==
  /\ wk[p] = "acquire"
  /\ Cardinality({q \in Partitions : wk[q] \in Holding}) < concurrency
  /\ wk' = [wk EXCEPT ![p] = "begin"]
  /\ NoFault
  /\ UNCHANGED <<conf, cvars, status, row, txRow, ec, taskletEC, execErr, errChan, done, ctx>>

\* Nothing writes the status of a worker that gave up waiting, or whatever
\* status is set after ExecuteStep, to the repository.
AcquireFails(p) ==
  /\ wk[p] = "acquire" /\ ctx # "live"
  /\ status' = [status EXCEPT ![p] = IF ctx = "cancelled" THEN "CANCELLED" ELSE "FAILED"]
  /\ errChan' = errChan \cup {p} /\ done' = done \cup {p}
  /\ wk' = [wk EXCEPT ![p] = "idle"]
  /\ NoFault
  /\ UNCHANGED <<conf, cvars, row, txRow, ec, taskletEC, execErr, ctx>>

\* What the goroutine makes of the answer of ExecuteStep.
Answer(p, s, e) ==
  /\ status' = [status EXCEPT ![p] = IF e = "error" THEN "FAILED"
                                     ELSE IF e = "cancelled" THEN "CANCELLED" ELSE s]
  /\ errChan' = IF e = "error" THEN errChan \cup {p} ELSE errChan
  /\ done' = done \cup {p} /\ wk' = [wk EXCEPT ![p] = "idle"]

\* SimpleStepExecutor.ExecuteStep: a transaction of its own, or none.
BeginWorker(p) ==
  /\ wk[p] = "begin"
  /\ \/ /\ mode \in {"own", "none", "chunk"}
        /\ mode = "own" => ctx = "live"
        /\ NoFault /\ wk' = [wk EXCEPT ![p] = "start"]
        /\ txRow' = [txRow EXCEPT ![p] = row[p]] /\ UNCHANGED <<status, errChan, done>>
     \/ /\ mode = "own" /\ Fails
        /\ \E e \in ErrorKinds : Answer(p, status[p], e)
        /\ UNCHANGED txRow
     \/ /\ mode = "mandatory" /\ NoFault
        /\ Answer(p, status[p], "error") /\ UNCHANGED txRow
  /\ UNCHANGED <<conf, cvars, row, ec, taskletEC, execErr, ctx>>

MutUpdateWorker(p, s) ==
  /\ txRow' = [txRow EXCEPT ![p] = s]
  /\ row' = [row EXCEPT ![p] = s]

\* UpdateStepExecution by the worker step: in the executor's transaction, or not.
UpdateWorker(p, s) ==
  /\ txRow' = [txRow EXCEPT ![p] = s]
  /\ row' = IF mode = "own" THEN row ELSE [row EXCEPT ![p] = s]

\* The worker step marks its StepExecution STARTED; a tasklet gets its context.
MutStartWorker(p) ==
  /\ wk[p] = "start" /\ status' = [status EXCEPT ![p] = "STARTED"]
  /\ ctx = "live" /\ NoFault /\ UpdateWorker(p, "STARTED")
  /\ wk' = [wk EXCEPT ![p] = "open"]
  /\ taskletEC' = IF taskletEC # {} THEN taskletEC ELSE ec[p]
  /\ UNCHANGED <<conf, cvars, ec, execErr, errChan, done, ctx>>

StartWorker(p) ==
  /\ wk[p] = "start" /\ status' = [status EXCEPT ![p] = "STARTED"]
  /\ \/ /\ ctx = "live" /\ NoFault /\ UpdateWorker(p, "STARTED")
        /\ wk' = [wk EXCEPT ![p] = "open"]
        /\ taskletEC' = IF mode = "chunk" THEN taskletEC ELSE ec[p]
        /\ UNCHANGED execErr
     \/ /\ Fails /\ wk' = [wk EXCEPT ![p] = "finish"]
        /\ \E e \in ErrorKinds : execErr' = [execErr EXCEPT ![p] = e]
        /\ UNCHANGED <<row, txRow, taskletEC>>
  /\ UNCHANGED <<conf, cvars, ec, errChan, done, ctx>>

\* Open may fail: a tasklet is marked FAILED, and the error of that update is
\* dropped; a chunk step stays STARTED.
OpenWorker(p) ==
  /\ wk[p] = "open"
  /\ \/ /\ wk' = [wk EXCEPT ![p] = "run"] /\ NoFault
        /\ UNCHANGED <<status, row, txRow, execErr>>
     \/ /\ wk' = [wk EXCEPT ![p] = "finish"]
        /\ \E e \in ErrorKinds : execErr' = [execErr EXCEPT ![p] = e]
        /\ \/ mode = "chunk" /\ NoFault /\ UNCHANGED <<status, row, txRow>>
           \/ /\ mode # "chunk" /\ status' = [status EXCEPT ![p] = "FAILED"]
              /\ \/ ctx = "live" /\ NoFault /\ UpdateWorker(p, "FAILED")
                 \/ Fails /\ UNCHANGED <<row, txRow>>
  /\ UNCHANGED <<conf, cvars, ec, taskletEC, errChan, done, ctx>>

\* The work, after which a tasklet's context is read back from the shared
\* object and a chunk step adds its counts to the reader's and writer's.
RunWorker(p) ==
  /\ wk[p] = "run" /\ wk' = [wk EXCEPT ![p] = "update"]
  /\ \/ status' = [status EXCEPT ![p] = "COMPLETED"] /\ UNCHANGED execErr
     \/ /\ status' = [status EXCEPT ![p] = "FAILED"]
        /\ \E e \in ErrorKinds : execErr' = [execErr EXCEPT ![p] = e]
  /\ ec' = [ec EXCEPT ![p] = IF mode = "chunk" THEN {"readCount", "writeCount"} ELSE taskletEC]
  /\ NoFault /\ UNCHANGED <<conf, cvars, row, txRow, taskletEC, errChan, done, ctx>>

\* The last update; a tasklet's Close may fail after its success, and its
\* context is read again.
EndWorker(p) ==
  /\ wk[p] = "update" /\ wk' = [wk EXCEPT ![p] = "finish"]
  /\ ec' = IF mode = "chunk" THEN ec ELSE [ec EXCEPT ![p] = taskletEC]
  /\ \/ /\ ctx = "live" /\ NoFault /\ UpdateWorker(p, status[p])
        /\ \/ UNCHANGED execErr
           \/ /\ mode # "chunk" /\ execErr[p] = "none"
              /\ execErr' = [execErr EXCEPT ![p] = "error"]
     \/ /\ Fails /\ UNCHANGED <<row, txRow>>
        /\ IF execErr[p] # "none" THEN UNCHANGED execErr
           ELSE \E e \in ErrorKinds : execErr' = [execErr EXCEPT ![p] = e]
  /\ UNCHANGED <<conf, cvars, status, taskletEC, errChan, done, ctx>>

\* Back in ExecuteStep: its own transaction is rolled back or committed; without
\* one the error of the step is not returned.
FinishWorker(p) ==
  /\ wk[p] = "finish"
  /\ \/ /\ mode = "own" /\ execErr[p] # "none" /\ NoFault
        /\ Answer(p, status[p], execErr[p]) /\ UNCHANGED row
     \/ /\ mode = "own" /\ execErr[p] = "none" /\ ctx = "live" /\ NoFault
        /\ row' = [row EXCEPT ![p] = txRow[p]] /\ Answer(p, status[p], "none")
     \/ /\ mode = "own" /\ execErr[p] = "none" /\ Fails
        /\ \E e \in ErrorKinds : Answer(p, status[p], e)
        /\ UNCHANGED row
     \/ /\ mode \in {"none", "chunk"} /\ NoFault
        /\ Answer(p, status[p], "none") /\ UNCHANGED row
  /\ UNCHANGED <<conf, cvars, txRow, ec, taskletEC, execErr, ctx>>

-----------------------------------------------------------------------------
\* RemoteStepExecutor.ExecuteStep. The submission is a stub that cannot fail;
\* txRow is here the row as the remote worker last wrote it.
SubmitWorkerJob(p) ==
  /\ mode = "remote" /\ wk[p] = "begin"
  /\ wk' = [wk EXCEPT ![p] = "await"]
  /\ txRow' = [txRow EXCEPT ![p] = row[p]]
  /\ NoFault
  /\ UNCHANGED <<conf, cvars, status, row, ec, taskletEC, execErr, errChan, done, ctx>>

\* The process that executes the worker: nothing tells it that the wait for it
\* was given up.
RemoteWorker(p) ==
  /\ mode = "remote"
  /\ \/ txRow[p] = "STARTING" /\ txRow' = [txRow EXCEPT ![p] = "STARTED"]
     \/ txRow[p] = "STARTED" /\ \E s \in Finished : txRow' = [txRow EXCEPT ![p] = s]
  /\ row' = [row EXCEPT ![p] = txRow'[p]]
  /\ NoFault
  /\ UNCHANGED <<conf, cvars, wk, status, ec, taskletEC, execErr, errChan, done, ctx>>

\* AwaitCompletion, a poll that finds the row finished; any other changes nothing.
PollWorker(p) ==
  /\ mode = "remote" /\ wk[p] = "await" /\ ctx = "live" /\ row[p] \in Finished
  /\ \E keys \in {PartitionEC(p), {"readCount", "writeCount"}} : ec' = [ec EXCEPT ![p] = keys]
  /\ Answer(p, row[p], IF row[p] = "FAILED" THEN "error" ELSE "none")
  /\ NoFault
  /\ UNCHANGED <<conf, cvars, row, txRow, taskletEC, execErr, ctx>>

\* AwaitCompletion, the end of the context: the update to STOPPED uses that
\* context and fails, and its error is only logged.
AwaitInterrupted(p) ==
  /\ mode = "remote" /\ wk[p] = "await" /\ ctx # "live"
  /\ Answer(p, "STOPPED", IF ctx = "cancelled" THEN "cancelled" ELSE "error")
  /\ NoFault
  /\ UNCHANGED <<conf, cvars, row, txRow, ec, taskletEC, execErr, ctx>>

-----------------------------------------------------------------------------
MutAggregatedNoCheck(sent) ==
  LET seen == {status[p] : p \in sent}
  IN  IF "FAILED" \in seen THEN "FAILED"
      ELSE IF seen \cap {"STOPPED", "CANCELLED"} # {} THEN "STOPPED"
      ELSE "COMPLETED"

MutAggregatedStopFirst(sent) ==
  LET seen == {status[p] : p \in sent}
  IN  IF ~(seen \subseteq {"COMPLETED", "FAILED", "STOPPED", "CANCELLED"}) THEN "FAILED"
      ELSE IF seen \cap {"STOPPED", "CANCELLED"} # {} THEN "STOPPED"
      ELSE IF "FAILED" \in seen THEN "FAILED"
      ELSE "COMPLETED"

\* determineAggregatedStatus of the executions that were sent.
AggregatedStatus(sent) ==
  LET seen == {status[p] : p \in sent}
  IN  IF ~(seen \subseteq {"COMPLETED", "FAILED", "STOPPED", "CANCELLED"}) THEN "FAILED"
      ELSE IF "FAILED" \in seen THEN "FAILED"
      ELSE IF seen \cap {"STOPPED", "CANCELLED"} # {} THEN "STOPPED"
      ELSE "COMPLETED"

DuplicateKey == \E p, q \in done : p # q /\ ec[p] \cap ec[q] # {}

MutJoined == at = "spawn" /\ todo = {} /\ done = parts

\* wg.Wait has returned.
Joined == at = "spawn" /\ todo = {} /\ \A p \in parts : wk[p] = "idle"

MergeFails ==
  /\ Joined /\ DuplicateKey
  /\ at' = "ended" /\ result' = "error"
  /\ NoFault /\ UNCHANGED <<conf, ctl, ctlRow, parts, todo, wvars, ctx>>

Aggregate ==
  LET final == AggregatedStatus(done)
      err   == IF final = "FAILED" \/ (final = "COMPLETED" /\ errChan # {})
               THEN "error" ELSE "none"
  IN  /\ Joined /\ ~DuplicateKey
      /\ ctl' = final /\ at' = "ended"
      /\ \/ ctx = "live" /\ NoFault /\ ctlRow' = final /\ result' = err
         \/ Fails /\ result' = "error" /\ UNCHANGED ctlRow
      /\ UNCHANGED <<conf, parts, todo, wvars, ctx>>

Controller == Begin \/ Partition \/ PartitionerFails \/ Spawn \/ MergeFails \/ Aggregate

Worker(p) == \/ Acquire(p) \/ AcquireFails(p) \/ BeginWorker(p) \/ StartWorker(p) \/ OpenWorker(p)
             \/ RunWorker(p) \/ EndWorker(p) \/ FinishWorker(p)
             \/ SubmitWorkerJob(p) \/ PollWorker(p) \/ AwaitInterrupted(p)

Next == ContextDone \/ Controller \/ \E p \in Partitions : Worker(p) \/ RemoteWorker(p)

Spec == Init /\ [][Next]_vars

\* Go runs every goroutine, the semaphore is first come first served, and every
\* worker step returns; the orchestrator runs what was submitted to it.
FairSpec ==
  Spec /\ WF_vars(Controller)
       /\ \A p \in Partitions : SF_vars(Acquire(p)) /\ WF_vars(Worker(p)) /\ WF_vars(RemoteWorker(p))

-----------------------------------------------------------------------------
Statuses == {"STARTING", "STARTED", "COMPLETED", "FAILED", "STOPPED", "CANCELLED"}
Keys == Partitions \cup {"key", "readCount", "writeCount"}

ControlType ==
  /\ concurrency \in Concurrencies /\ mode \in Modes
  /\ at \in {"idle", "partition", "spawn", "ended"}
  /\ ctl \in Statuses /\ ctlRow \in Statuses
  /\ ctx \in {"live", "cancelled", "expired"} /\ result \in {None, "none", "error"}
WorkerType ==
  /\ wk \in [Partitions -> Goroutines \cup {"idle"}]
  /\ status \in [Partitions -> Statuses \cup {None}]
  /\ row \in [Partitions -> Statuses \cup {None}]
  /\ txRow \in [Partitions -> Statuses \cup {None}]
  /\ execErr \in [Partitions -> {"none", "cancelled", "error"}]
ContextType == ec \in [Partitions -> SUBSET Keys] /\ taskletEC \subseteq Keys
ChannelType ==
  /\ parts \subseteq Partitions /\ todo \subseteq parts
  /\ errChan \subseteq parts /\ done \subseteq parts
FaultType == shared \in BOOLEAN /\ disturbed \in BOOLEAN /\ faults \in 0 .. MaxFaults

\* Every variable has its type; errors and executions fit their channels.
TypeOK == ControlType /\ WorkerType /\ ContextType /\ ChannelType /\ FaultType

\* The partitions at work are never more than concurrency
\* (docs/design/partition_execution.md, section 4), however their waits end.
ConcurrencyBound ==
  concurrency > 0 => Cardinality({p \in Partitions : wk[p] \in Holding}) <= concurrency

\* Execute answers only when no worker is left, and a success is a COMPLETED
\* row of the controller over partitions that all ran and are COMPLETED; under a
\* transaction of their own or in a remote process, COMPLETED in the repository too.
NoFailureHidden ==
  at = "ended" /\ result = "none" /\ ctl = "COMPLETED" =>
    /\ ctlRow = "COMPLETED" /\ todo = {}
    /\ \A p \in parts : /\ wk[p] = "idle" /\ status[p] = "COMPLETED"
                        /\ mode \in {"own", "remote"} => row[p] = "COMPLETED"

\* The controller is STOPPED only if the run was cancelled or a remote worker
\* was stopped or cancelled, and then no worker has failed: the failure of one
\* that ran is never reported as a stop (section 6).  A partition that is not
\* among the workers never ran: its StepExecution could not be saved, and the
\* stop drops that error (partition_step.go 237-241, 378).
StopIsNoFailure ==
  at = "ended" /\ ctl = "STOPPED" =>
    /\ \/ ctx = "cancelled"
       \/ mode = "remote" /\ \E p \in done : row[p] \in {"STOPPED", "CANCELLED"}
    /\ \A p \in parts :
         IF p \in done THEN status[p] \in {"COMPLETED", "CANCELLED", "STOPPED"}
         ELSE p \in errChan /\ row[p] = None

\* Partitions that run one at a time end with the context they were given,
\* though they share one tasklet.
OwnContextOneByOne ==
  concurrency = 1 /\ mode \notin {"chunk", "remote"} => \A p \in done : ec[p] = PartitionEC(p)

\* A rolled back worker leaves no trace: its row shows nothing of the work
\* until its transaction is committed (SimpleStepExecutor.ExecuteStep).
WorkIsAtomic ==
  mode = "own" => \A p \in Partitions : row[p] \in {None, "STARTING", "COMPLETED"}

\* Execute returns, whichever workers fail or give up.
ExecuteReturns == at = "partition" ~> at = "ended"

=============================================================================
