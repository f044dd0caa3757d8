# surfin: a TLA+ verification project

Surfin (`pkg/batch`, Go) runs batch jobs that are described in JSL (YAML). A job is a
graph of steps, splits and decisions; a step is chunk oriented (rows are read,
processed and written in transactions), a tasklet, or a partitioned step that runs one
worker step over several partitions. A repository, SQL or in memory, keeps the job
instances, the job and step executions and the checkpoints from which a job is
restarted.

The project models the part of this where order, failure and restart decide what is
right: the chunk engine, the life of a JobExecution, the walk of a flow, the partition
step; around them the database pools, the Parquet export with its storage, the metric
recorder and the shutdown of a process, the way from a JSL file and a configuration to a
launched job, and the web proxy with the weather steps that use it. Paths below are
relative to `src/pkg/batch` unless they begin with `docs/`, `test/`, `example/` or `README`.

## 1. The system

| part | state it keeps | operations | who it works with | what is hard | what makes it correct |
|---|---|---|---|---|---|
| chunk engine (`engine/step/item/chunk_step.go`) | the chunk in hand, the open transaction, counters, the two ExecutionContext maps | `Execute`, `saveCheckpoint`, `HandleSkippableWriteFailure` | reader, processor, writer, transaction manager, repository, policies | commit and checkpoint are two steps; a retry repositions the reader; a split rewrites rows one by one; a crash between any two steps | no row is lost or skipped over, COMPLETED is durable, limits hold, it ends |
| skip and retry policies (`engine/step/skip`, `engine/step/retry`) | the skip counter | `ShouldSkip`, `ShouldRetry`, back-off | chunk engine | the counter is shared by reading, processing and writing | the limit holds over all three |
| launcher (`core/application/usecase/simple_joblauncher.go`) | the map of cancel functions | `Launch` | repository, runner, operator | find, save and start are separate steps of concurrent callers | one instance per name and parameters, one restart of an execution |
| operator (`.../default_joboperator.go`) | none | `Stop`, `Abandon`, `Restart` | launcher, repository | it writes the row of an execution whose goroutine writes it too | what was settled stays; a stop reaches the run |
| runner (`core/job/runner/simple_job_runner.go`) | the JobExecution object | `Run` | flow job, repository | its copy of the row may be old, its context cancelled | the end is recorded; every launch ends |
| repositories (`infrastructure/repository/sql`, `.../inmemory`) | rows with versions; or maps of objects | save, find, update of instances, executions, checkpoints | everybody | optimistic lock; failures before and in the statement; in memory: shared objects | no update is lost |
| flow job (`core/job/runner/flow_job.go`) | current element, StepExecutions of the execution | `Run`, `executeStep`, `executeSplit`, `executeDecision` | steps, repository | goroutines of a split share one slice; cancellation between elements; restart | it is a walk of the flow; no step works unseen |
| flow definition (`core/domain/model/models.go`) | elements and rules | `AddTransitionRule`, `GetTransitionRule` | flow job, JSL adapter | which rule is taken | the rule for the outcome |
| tasklet step (`engine/step/tasklet`) | the tasklet's context | `Execute` | flow job, partition executor | result and row are separate | success is a COMPLETED row |
| partition step (`engine/step/partition/partition_step.go`) | workers, semaphore, two channels | `Execute`, `determineAggregatedStatus` | executors, worker step, repository | workers that fail, wait, are cancelled, in any order; one worker step object for all | no failure hidden, bounded concurrency, it returns |
| simple executor (`.../simple_executor.go`) | the worker's transaction | `ExecuteStep` | partition step, worker step | the worker's own rows are in its transaction | all or nothing |
| remote executor (`.../remote_executor.go`, `infrastructure/remote`) | the polled row | `SubmitWorkerJob`, `AwaitCompletion` | repository, an orchestrator outside | the wait ends while the worker writes its row | as for a local worker |
| database provider, resolver, transaction manager (`adapter/database/gorm`, `.../dummy`) | pools by name, a mutex | `GetConnection`, `ForceReconnect`, `CloseAll`, `ResolveDBConnection`, `Begin`, `Commit` | everything that uses a database, the migration tasklet | a pool is replaced or closed under its users | no pool leaks, a resolve mends the pools, what is lost is lost to others, calls return |
| Parquet writer and export (`component/step/writer/parquet_writer.go`, `component/tasklet/generic`) | buffered rows by partition, a channel, sequences of file names | `Write`, `Flush`, `Execute` | SQL reader, storage | two goroutines; some uploads fail; the context ends | COMPLETED means all rows, none twice; a cancelled export returns |
| storage adapters (`adapter/storage/local`, `.../gcs`) | adapters by name, objects | `Upload`, `Download`, `ListObjects`, `DeleteObject`, `GetConnection`, `ForceReconnect`, `CloseAll` | export | an adapter closed or replaced under the export | (those of the export) |
| async metric recorder, completion signaler (`listener`), application (`example/weather/internal/app`) | bounded queue, counters, channels, hooks | `Record*`, `flushCounters`, `Close`; `AfterJob`; launch, monitor, shutdown | steps, the process | full queue, close against send, a shutdown while steps report | no count is lost, a normal exit reports all, a shutdown ends |
| JSL loader and step adapter, factories (`core/config/jsl`, `core/config/support`) | registered builders, loaded definitions | `LoadJSLDefinitionFromBytes`, `ConvertJSLToCoreFlow`, `CreateJob` | launcher | two passes over a Go map | what is built is whole; the same definition builds always |
| configuration (`core/config`) | the Config of the process | `LoadConfig`, `mergeConfig`, `loadStructFromEnv` | all | missing, empty and unparsable values | the nearest source wins |
| parameters, contexts, incrementers, expressions, decisions (`core/domain/model`, `core/support`, `component/flow`) | maps, stored as JSON | `Hash`, `Equal`, `Scan`, `PutNested`, `GetNested`, `GetNext`, `Resolve`, `Decide` | launcher, repository, flow job | a value is not the same after JSON | the same request finds its instance; a restart decides as before |
| web proxy, secrets (`adapter/webproxy`, `core/secret`) | connections by name, a token, a mutex | `GetConnection`, `RoundTrip`, `refreshToken` | API readers | the token is read without the mutex that guards it | one token per lapse, none stale, requests end |
| weather steps (`example/weather/internal/step`) | rows fetched, position, nested state | `Open`, `Read`, `Write`, `Close` | web proxy, chunk engine | state under a nested key, reopening by a retry | COMPLETED means all hours stored |
| listeners, observability, explorer, CSV reader, sample tasklets, utilities | none that decides anything | | | | not modelled, see section 8 |

`PROJECT.json` lists the same parts as "components" and, under "hazards", the lines where
each of them could go wrong.

## 2. Modules and the code they model

**ChunkStep** is `ChunkStep.Execute` with `SqlCursorReader` in front, `SqlBulkWriter`
behind and the repository beside it. `pc` is the place in `Execute`; each action is the
code between two calls that can fail: `Start`, `Open`, `BeginChunk`, `ReadItem` and its
error paths, `ProcessItem` and its error paths, `EndReadLoop`, `WriteItems` and its error
paths, `Commit`, `SaveCheckpoint`, the items of a split chunk, `Finalize`. An error is the
set of questions the policies answer with yes about it ("retryable", "skippable"), so all
four kinds occur at every call. Rows are numbers; `committed` counts how often a row
became durable, `dropped` holds the rows reported as skipped. The reader keeps a pointer
to the ExecutionContext it was opened with (`readerEC` says to which of the two maps),
because a retry behaves differently when that map has moved on. `Crash` may come at any
time and `Restart` executes the same StepExecution again from its checkpoint; `Reenter`
executes the step object again in the same process.

**JobLifecycle** is `Launch`, `SimpleJobRunner.Run` and `DefaultJobOperator` over one job
and one set of parameters. Each caller is a goroutine whose steps lie between its calls to
the repository; each execution has the runner's object (`obj`) and its row (`row`), both
with a version. `RunnerUpdate` and `CopyUpdate` are `UpdateJobExecution` as the code has
it: the version is raised first, and put back on some error paths only (`phantom` remembers
an execution for which it was not). `FlowJob.Run` appears by its effect.

**FlowDefinition**, **FlowWalk**, **FlowJob**: the flow as the JSL adapter builds it; the
abstract walk a run promises; and `FlowJob.Run` with `TaskletStep.Execute`, splits in
goroutines (each loads the shared slice and appends to what it loaded), decisions,
promotion, cancellation, crash and restart. `FlowJob` implements `FlowWalk` under the
mapping `Walk` at its end.

**PartitionStep**: the controller, one goroutine per partition with semaphore and
channels, `SimpleStepExecutor.ExecuteStep` around the worker, the worker's start, work and
end, and the aggregation. The context may be cancelled or expire at any time.

Its remote kind of worker is `RemoteStepExecutor` with `BirdSubmitter`: the goroutine
submits, then polls the row of the worker, which `RemoteWorker` (the orchestrator, external)
writes, until the row is final or the context ends.

**Connections**: `BaseProvider`, `GormDBConnectionResolver` and `GormTransactionManager`
under goroutines that resolve, begin, write, commit, migrate or export. A step of a client
is the code between two points where the mutex, the database or its context matter. The
database fails and recovers, contexts end, `CloseAll` may come at any time. Nothing counts the users of
a pool: whoever closes one marks those who hold it (`overtaken`, history). A `gorm.Open` whose
ping fails is modelled without the `sql.DB` it leaves unclosed, which no later call can reach.

**Storage** (providers and adapters of local files and of GCS) and **ParquetExport**
(`GenericParquetExportTasklet` and `ParquetWriter`, which EXTENDS it): the reading and the
writing goroutine, the channel, batches, partitions, one upload per partition and file name.

**Application**: one process of an application from `Launch` to `os.Exit`: job goroutine,
steps that report metrics, the recorder's queue and worker, the monitor that polls the
row, the signal, the OnStop hooks. The row is finished by the last update of the job, or before
it by a promotion in the middle of the flow (`PromoteContext`; `promoted` is history).

**JobStart** EXTENDS **JobDefinition** (loader, factory, the two passes of
`ConvertJSLToCoreFlow`, one visited element per action), **Configuration** (defaults, YAML,
environment, merge; one field for each way fields are treated), **JobParameters** (JSON
round trip, hash, equality, containment, typed reads, incrementers) and **ExecutionContext**
(nested keys, JSON round trip, promotion, expressions, decisions; a context is a tree, a
function from the paths of its nodes). A number that goes through JSON becomes the float64
nearest to it (`Float64`), and is written with the digits of that (`Shortest`); `Exact` is
the bound below which both change nothing, 2^53 in Go. It is one process after the other:
each reads its configuration, loads its JSL, creates the job, finds or saves the instance,
runs a step that may leave values in its context, promotes them and ends or dies. The tables
are what the next process finds; an execution that is FAILED or STOPPED is restarted from
copies of its contexts. Launches that race are JobLifecycle.

**WebProxy** (one name of `WebProxyProvider`, its round tripper, the token) and
**WeatherStep** (which EXTENDS it): the forecast and the history step of the weather
example under the calls of the chunk engine. A read of the token that another goroutine
replaces is a choice between the old, the new and a torn one; `NoStaleToken` excepts the torn
one, and takes the two stores in the order of the program, which Go does not promise to a reader
without the mutex. The chunk engine appears as
its readers and writers see it, with the `item-count` of the weather jobs (50, any positive
number in the module) and with `item_retry.max_attempts` of 1 or more (3 by default). With 0 the
engine would split the chunk that the forecast writer refuses; splits are in ChunkStep, where
both numbers are arbitrary. The forecast writer wraps the error of `SqlBulkWriter`, which itself
is not retryable (`sql_bulk_writer.go:126`), as retryable and skippable; in ChunkStep a write
fails with any kind of error.

`MC*` modules hold the values for TLC, `*Proofs` the theorems (those of JobStart follow the
ones of JobLifecycle, the other half of the launcher, in `JobLifecycleProofs`). An operator
`MutX` stands before `X`: the way a plausible bug would change `X`. For every property one
of them is known to violate it.

## 3. Runs

Passing runs:

| run | instance | what it shows |
|---|---|---|
| `MCChunkStep` | 4 rows in chunks of 2, one filtered, 1 retry, skip limit 2, 3 failures, 2 runs | `CheckpointNeverAhead`, `NoSilentLoss`, `FirstRetryLosesNothing`, `OneWritePerRun`, `ExecuteEnds` |
| `MCJobLifecycle` | 2 callers, 2 executions, 2 instances allowed, 1 failure, SQL | `OneInstance`, `StopDelivered`, `EndRecorded`, `SettledRowsKept`, `LaunchedEnds` |
| `MCLifecycleInMemory` | 2 callers, 2 executions, in memory | `EndRecorded` where rows are shared objects |
| `MCFlowJob` | 5 flows over 3 steps, 2 executions, 1 failure | `WorkIsRecorded`, `SuccessIsRecorded`, the refinement `WalkSpec`, `StopEnds`, `FlowEnds` |
| `MCPartitionStep` | 2 partitions, one at a time or unlimited, 5 kinds of worker, 2 failures | `NoFailureHidden`, `StopIsNoFailure`, `OwnContextOneByOne`, `WorkIsAtomic`, `ExecuteReturns` |
| `MCConnections` | 2 clients, one of them a tasklet, 4 names (a database, an unknown type, a dummy, a password that cannot be resolved), 2 calls, an outage, a cancellation | `NoPoolLeaks`, `ResolveHeals`, `LostToOthers`, `CallsEnd` |
| `MCParquetExport` | tables of 5 rows, one with a null, one with a value that is no time, a channel of 2, local, GCS and misconfigured storage, 1 failure, 1 tick | `ExportComplete`, `RowsExportedOnce`, `CancelEnds` |
| `MCApplication` | 2 steps, together or one after the other, 2 counters, a queue of 2, one increment each, promotions in between | `CountsConserved`, `NormalExitKeepsEvents`, `ShutdownEnds` |
| `MCJobStart` | over 1,000 JSL definitions, every pair of YAML and environment value per field, 3 processes, 5 requests, 2 step contexts, 3 promotions, numbers above `Exact` | `BuildSound`, `BuildExact`, `RequestFindsInstance`, `ResolvesAlike` |
| `MCWeatherStep` | a forecast and a history step on one proxy name, 13 configurations, responses of 1 and 2 hours, one hour that cannot be parsed, 2 failures, 2 runs | `OneTokenPerLapse`, `NoStaleToken`, `HoursStored`, `RequestsEnd` |

Deadlock is not checked: a finished execution with its bounds used up has no step left.

**Bounds.** Four rows in chunks of two give a first, a last and a filtered row and an end
both at a chunk's border and within it; three failures suffice to fail a write, its retry
and a row of the split. Two callers are enough for every race over one execution, since an
operation reads a row once and writes it once; two executions for a restart.
The flows are a chain, a split before a step, a loop, a stop and a flow with a rule for
failure only; two executions give a restart. Two partitions give every mixture of outcomes
that `determineAggregatedStatus` tells apart, with at most two kinds at a time, which its
priorities compare pairwise. Two clients with two calls are one that replaces a pool and
one that holds it, before, in and after a transaction. Five rows with a channel and
batches of two give full batches and a rest, over three partitions. A queue of two is
full with one event of each step. Three elements of a definition are a target, a member or
worker and one that refers to both; three processes are a launch, its restart and the
restart of that, or two launches and a third that meets both of their instances; all
processes after the first have one configuration and a plain definition, with and without
an incrementer. TLC has integers of 32 bits, so `Exact` is 2^20 there instead of 2^53: a numeric
value is 5, 1000001, above the million at which floats print with an exponent, or 20240131,
which a float64 of that precision does not hold. Times of the web proxy are counted in the margin of
five minutes: tokens live one or two of them, so that a token may be due at once, and one
unit passes.

**Fairness.** Weak fairness of the goroutine that executes (`Step` of ChunkStep,
`CallerStep`, `RunnerStep`, `Main`, `Goroutine`, `Controller`, `Worker`, the goroutines of
ParquetExport, Application and WeatherStep): the Go scheduler runs every goroutine that can
go on, and readers, writers and tasklets are assumed to return. The semaphore of the
partition step serves waiters in order, hence strong fairness of `Acquire`; a Go mutex does
the same, hence strong fairness of the clients of Connections. `RemoteWorker` is fair: the
orchestrator is assumed to run what is submitted to it. In WeatherStep an endpoint answers
or refuses, and never stays silent. New launches, stops, cancellations, failures, outages,
signals and crashes are never fair.

Runs in which TLC finds a statement of the documentation violated:

| run | statement | what happens |
|---|---|---|
| `MCChunkRetryLoss` | `docs/architecture/03_fault_tolerance_and_tx.md:18`: after a retryable write error the whole chunk is executed again | the second retry of a chunk reopens the reader behind the rows just rolled back; the step completes without them |
| `MCRestartResumes` | `docs/architecture/00_project_overview.md:34`: restart exactly where it was interrupted | the copies of the StepExecutions have no rows; the restarted execution fails at its first update |

The properties of the passing runs say what holds beside these: `NoSilentLoss` for
histories without a chunk retry, `FirstRetryLosesNothing` for the first, `StopDelivered` for
the part of a stop that is reliable, and so on.

## 4. Proofs

`tlapm` checks every proof. The theorems hold for every value of the constants that the
named assumptions allow: any number of rows, callers, executions, steps, flows, partitions,
clients, failures and runs. An assumption gives a constant its type (`Jobs`, `Windows`,
`Tables`), says of a flow what the JSL adapter builds (`FlowOK`: steps, splits and decisions
are different elements, rules are sequences), or keeps the value that stands for "nobody"
apart from the processes ("free" in Connections and Application, "none" in WebProxy).
For JobStart, YAML gives lists, builders have names, a source says of every field what it
gives, `Requests` and `StepContexts` hold typed values, and a promotion is a list of pairs of
keys; nothing is assumed of a definition's references, types or rules, since CreateJob checks
them. The chunk size of ChunkStep is any integer, since nothing checks `item-count`; the bound `Exact`
of the float64 values is at least a million (`ExactAssumption`; it is 2^53). Nothing else is
assumed, except `SQL` (the repository is the SQL one) where a theorem
says so.

| module | theorem | what it establishes |
|---|---|---|
| `ChunkStepProofs` | `TypeCorrect` | `TypeOK`; the offset a reader is opened with is always a row of the query |
| | `CompletionIsDurable`, `RowsWrittenOncePerRun` | `DurableCompletion`, `OneWritePerRun`, with either repository |
| | `CheckpointIsSafe`, `NoRowIsLost` | `CheckpointNeverAhead`, `NoSilentLoss`, over SQL |
| | `FirstRetryIsSafe` | `FirstRetryLosesNothing`, with either repository |
| `JobLifecycleProofs` | `LifecycleTypes`, `LockKept` | `TypeOK`; the invariant of the optimistic lock, over SQL |
| | `SettledKept`, `OneInstanceKept`, `StopsDelivered` | `SettledRowsKept`, `OneInstance`, `StopDelivered`, over SQL |
| | `EndsRecorded` | `EndRecorded`, with either repository |
| | `StartsKept` | the invariant `StartInv` of JobStart: construction, table, contexts |
| | `BuildsSound`, `BuildsExact` | `BuildSound`, `BuildExact` |
| | `RequestsFindInstance`, `RestartsResolveAlike` | `RequestFindsInstance`, `ResolvesAlike` |
| `FlowJobProofs` | `FlowTypes` | `TypeOK` and where Run and its goroutines are |
| | `WorkRecorded`, `SuccessRecorded` | `WorkIsRecorded`, `SuccessIsRecorded` |
| | `RunWalksFlow` | `WalkSpec`: FlowJob implements FlowWalk |
| `PartitionStepProofs` | `PartitionTypes` | `TypeOK` and where each partition is |
| | `FailuresShown`, `StopsAreNoFailures`, `AtomicWork` | `NoFailureHidden`, `StopIsNoFailure`, `WorkIsAtomic` |
| | `BoundKept`, `OwnContexts` | `ConcurrencyBound`, `OwnContextOneByOne` |
| `ConnectionsProofs` | `ConnectionTypes` | `TypeOK` |
| | `PoolsKept`, `ResolvesHeal`, `LossesExplained` | `NoPoolLeaks`, `ResolveHeals`, `LostToOthers` |
| `ExportProofs` | `ExportKept` | the invariant `ExportInv`: types, and where every row is |
| | `ExportedOnce`, `CompletedExports` | `RowsExportedOnce`, `ExportComplete` |
| `ApplicationProofs` | `ApplicationKept` | the invariant `AppInv` of the process |
| | `CountsAreConserved`, `ExitKeepsEvents` | `CountsConserved`, `NormalExitKeepsEvents` |
| `WeatherProofs` | `ProxyUsed` | the invariants `ProxyInv` of the proxy and `StepInv` of its callers |
| | `OneToken`, `FreshTokens`, `HoursKept` | `OneTokenPerLapse`, `NoStaleToken`, `HoursStored` |

**Chunk engine.** That no row is lost is not inductive: one has to say what has become of
the rows the cursor has passed while a chunk is in hand. `PassedRows` does: they are
accounted for or `Pending` (in `itemsToWrite`, the row being processed, or still to be
written by the split). It meets the checkpoint twice. When `saveCheckpoint` runs nothing is
pending and `PositionBehind` keeps the stored position at or before the cursor, so
`CheckpointNeverAhead` follows from `PassedRows`; when a run opens the reader at the stored
position, `PassedRows` follows from `CheckpointNeverAhead`. `EndAtEOF` and `ErrorEnds` say
that the loop ends without an error at the last row only, which gives `NoSilentLoss` in
`Finalize`. With a chunk size below 1 it ends at once: `NothingRead` says that then no row
is ever in hand, written or skipped, and `NoSilentLoss` claims just that of a COMPLETED
step. `FreshRows` (a row to come, or in hand, was not written in this run) with
`ChunkBehind` gives `OneWritePerRun`. SQL is needed because the in-memory repository hands
out its own map as the checkpoint.

The first retry of a first run reopens the reader from the map of the StepExecution. The
argument (`FirstInv`) is that this map lags behind as long as nothing was retried: the
reader counts in the checkpoint's map, in which a first run finds no position (`FirstOpen`),
the StepExecution's map moves only at a commit, and every row at or before its position is
accounted for (`StepBehind`). Hence the rows passed after the retry are accounted for or in
hand again (`FirstPassed`). After the retry the reader writes to that very map, and a second
retry has no such lag: that is the run `MCChunkRetryLoss`.

**Lifecycle.** `LockKept` relates the versions of the runner's object, of the copies the
operator holds and of the row: the object is never ahead of its row and strictly behind it
once the operator has written; a copy with the current version was made from a row in the
status its holder tested. So no update that passes the test of the version overwrites
a settled row. An execution with a `phantom` version, raised by an update that never reached
the table, is the exception the code makes necessary.

`StopDelivered` needs that a run that goes on can be cancelled (`Reachable`): its cancel
function is registered before the execution is saved (`SaveRegistered`) and forgotten
by Abandon only, which leaves an ABANDONED row that a Stop does not accept. `EndRecorded` is
about versions again (`InStep`): without failures the object and the row agree unless
somebody else wrote, and what others write is STOPPING or ABANDONED (`CopyStatus`).

**Definition and launch.** `CreateJob` visits the elements in an order that Go chooses, so
the invariant (`BuildInv`) says what a pass has left of *any* set of visited elements. After
the first pass has visited some, `built` has exactly those, each as its sections say
(`Made`), and nothing is in the flow; after the second pass has visited some, `flow` is
`FlowOf` these, whatever the order was. A build that failed did so because an element is not
valid or a split came before its steps, and one that goes on has met neither. With all
elements visited, `FlowOf` satisfies the `FlowOK` that FlowJob assumes (`BuildSound`), and the
conditions of the two passes are together those of `Valid` (`BuildExact`). The attempt to
prove `BuildExact` found that `Valid` had let a decision that also has a chunk section be the
worker of a partition, which the factory refuses; TLC's definitions had none of that kind.

`RequestFindsInstance` rests on the table (`Rows`): a hash is the one of the stored
parameters, no two rows have the same job and hash, and a row whose parameters no incrementer
changed holds the ones that were asked for. JSON then has to keep parameters apart and
together as `Hash` and `Equal` do. For numbers it does so as far as a float64 holds them
(`Float64Is`, `ShortestIs`: what is stored is read back if it is at most `Exact`), and as far as
both sides are printed alike, which is below a million for what a caller gives; what `Restart`
reads from the table needs the first only. Above `Exact` the model computes the neighbouring
float64, and all that is left is that a launch works on an instance with the hash of its
request (section 5). `ResolvesAlike` is about what a restart makes of a
context: storing and reading it back leaves a tree again, in which maps have become maps of
JSON and values are printed as before (`StoredContext`). That contexts stay trees through a
step and a promotion is `PutNestedKeeps` and `PromoteKeeps`; the latter is an induction over
the list of the promoted keys, carried out on the least counterexample.

**Flow.** `Places` says who is at work: the current step, or exactly the steps of the
current split, and nobody while `Run` itself moves on. With it `WorkIsRecorded` is inductive
although the goroutines of a split overwrite each other's slice, since the row is written
before the tasklet is called; `SuccessIsRecorded` also needs that a tasklet without an error
is COMPLETED before its last update (`ClosesCompleted`). The refinement maps the state of
`Run` to the element of the walk, the steps that are left of it and its status; each action
is shown to be one step of FlowWalk or none. Its proof uses `Places` where the walk leaves
an element, and `FlowOK` where a rule names the next one.

**Partition step.** `TypeOK` is not inductive by itself: that the channels hold only
partitions of this run needs `Places` (nothing before the loop; a goroutine only for a
partition the loop has come to; one that is gone has answered). The outcome follows from
`Cancels` (a cancelled worker means a cancelled run, or a remote worker whose own row says so),
`Commits` (what is about to be committed is a success and the row follows), `Saved` (a
partition that got no goroutine has no row) and `Concludes`. A STOPPED controller therefore
hides no failure of a worker; what it may hide is a partition that could not be saved and never
ran, since only the statuses of workers are aggregated (section 5). The bound is an argument about
the cardinality of the workers past the semaphore, to which only `Acquire` adds.

**Connections.** `NoPoolLeaks` rests on the mutex: it is held exactly by the call that opens
a pool, and the pool this call is about to replace is absent or closed (`Holding`), since the
second look under the mutex comes after the wait for it. `ResolveHeals` needs that a call
under way during an outage has seen it (`OutageSeen`). It speaks of the resolve and of the
reconnects of a migration, not of what follows: a statement, a `Begin` or a migration may find
the pool it was handed closed by somebody else's `ForceReconnect`. `LostToOthers` says that
this, an outage or the end of its own context are all that can take it away; it follows from
`HeldOpen` (a pool that was handed out is open, or somebody else has closed it since).

**Export.** Rows are numbered as they are read, and the buffer of a partition is a set of
numbers. For one number `low` (`Positions`) the writer has received exactly the rows up to
`low`, the channel holds the ones behind them in order, and the batch the last ones; what is
in buffers and files is before the batch (`InFiles`), and all of it is there while nothing
has failed (`AllKept`). `OneFile` keeps what waits to be flushed out of the files, `Names`
makes the name of the next file a new one.

**Application.** `Conserved` is `CountsConserved` with the count that is sent and not yet
reset left out, so that it holds in the middle of a flush; `OneFlush` has one step at a time
flush, under the mutex, and nothing uncounted behind it. A normal exit needs in addition
that the last step at work leaves no count (`Flushed`), that the job's own last update comes
after everything was sent (`JobEnds`; a row that a promotion finished earlier is the
exception), and that the worker then drains the queue it measured once (`StopsDrained`). The
queue's sum is a recursive function. What it is of a longer or a shorter queue (`SumAppend`,
`SumTail`) is induction over data, which no prover here does by itself; it is carried out on
the least counterexample, with the library's theorem that `<` is well founded on the
naturals (`Least`, `SumsExist`, `SumsUnique`).

**Web proxy and weather.** The proxy is proved for any `Caller` that touches a request only
at rest; the steps of the weather example are then shown to be such callers. One goroutine
holds the mutex while it asks for and stores a token (`TokenHolder`); the token in place is
the last one issued (`LastToken`); whoever refreshes has found it within the margin of
its end under the mutex (`Lapsed`), which gives `OneTokenPerLapse`. For `NoStaleToken`
(`FreshUse`, `Seen`) it matters that a token is stored before its expiry. `HoursStored` takes
an invariant of the reader's position, the chunk and the table (`StepInv`).

## 5. Known divergences without a run

Met while modelling; the models contain the behaviour, no run is spent on it.

- A rejected row is not read again: the retry of a failed `Read` reads the next row
  (`component/step/reader/sql_cursor_reader.go:100`), where
  `docs/architecture/03_fault_tolerance_and_tx.md:11` speaks of trying again.
- The bound of write retries is lost: the attempts are declared inside the chunk loop
  (`chunk_step.go:636`), which a retry begins anew (`docs/guide/04_fault_tolerance.md:41`).
- A fatal read or process error leaves its transaction open (`chunk_step.go:521`); the
  comment at `:608` speaks of a rollback.
- The in-memory `FindCheckpointData` returns the stored map itself
  (`infrastructure/repository/inmemory/checkpoint_data.go:34`): a reader then moves the
  checkpoint while it reads. Constant `InMemoryRepo` of ChunkStep shows it.
- Two concurrent launches restart the same failed execution twice
  (`simple_joblauncher.go:127`). A launch beside a run that has not ended starts a second
  one, since only FAILED and STOPPED executions are looked for (`:113`), where
  `README.ja.md:163` says that it is refused.
- The last update of a stopped run uses its cancelled context and an old version
  (`simple_job_runner.go:63`): the row stays STOPPING, which
  `test/pkg/batch/core/models_test.go:44` lets STOPPED follow.
- An ABANDONED execution goes on running (`simple_job_runner.go:40`).
- After a crash the row stays STARTED and the next launch starts afresh
  (`infrastructure/repository/sql/repository.go:427`, `docs/roadmap.md:14`).
- The raised version is not put back when the connection cannot be resolved
  (`sql/repository.go:310`); then an old object may later pass the version test. This is the
  exception `phantom` in the properties and theorems of JobLifecycle.
- The in-memory repository may hold two instances of one name and parameters; the
  registration of a cancel function outlives its execution.
- The first rule of an element is taken whatever its exit status
  (`core/domain/model/models.go:898`), where `docs/guide/02_setup_and_jsl.md:36` has
  `on: FAILED` end the job as failed. A decision takes the first rule as a step does; a run
  cancelled at its last step ends COMPLETED under an `end` rule and FAILED without one;
  goroutines of a split may push each other's StepExecution out of the slice of the
  JobExecution.
- The rows of a failed tasklet worker with a transaction of its own are rolled back to
  STARTING with its work; workers that run together mix the ExecutionContext of the tasklet
  they share; without a transaction `ExecuteStep` returns no error of its step, whose status
  alone tells (`simple_executor.go:252-266`).

- A controller that ends STOPPED drops the error of a partition that could not be saved
  (`partition_step.go:237-241`, `:378`): it is STOPPED without an error although that partition
  never ran. `StopIsNoFailure` says so.
- Two chunk workers share the keys `readCount` and `writeCount`: the merge returns an error
  and leaves the controller STARTED (`partition_step.go:354`, `chunk_step.go:841`), where
  `docs/design/partition_execution.md:59` has workers COMPLETED, controller COMPLETED. An
  error of the worker's factory is shadowed, and a worker has no listeners.
- A writing goroutine of the export that fails leaves the reading one at a full channel
  until the context is cancelled (`parquet_export_tasklet.go:584`); a cancelled export may
  be COMPLETED with a part of the rows, since the `select` may drop the error (`:570`). A
  file name format without a uuid or a sequence lets a later file replace an earlier one
  (`parquet_writer.go:283`).
- An integer parameter above 2^53 is stored with its digits and read as the nearest float64
  (`models.go:386`): the parameters that `Restart` takes from the table
  (`default_joboperator.go:76`) have another hash (`models.go:394`), miss their instance or find
  the one that was launched with the neighbouring number, and `GetInt` returns that number
  (`:462-466`).
- JobParameters whose map is nil are hashed as `null` (`models.go:394`) and stored as `{}`
  (`:354`). `NewJobParameters` (`:667`) and `Scan` make a map, so only a caller outside the
  repository that builds the struct itself has such parameters; the model does not.
- An integer parameter of a million or more prints as a float with an exponent after JSON:
  its instance is not found, and the unique index refuses a second one
  (`models.go:403`); an expression on it has another text after a restart. `GetFloat64` finds
  an integer only after it was stored; nothing calls it.
- The lookup of the instance uses the parameters before the incrementer
  (`simple_joblauncher.go:166`), and `RunIDIncrementer` then always yields 1: a second
  launch with it fails at the unique index. `parameters_hash` has 64 characters in the
  migrations, the hash two for every byte of the JSON (`models.go:398`).
- A map within an ExecutionContext is a `map[string]interface{}` after a restart, which
  `GetNested` and `PutNested` do not go into (`models.go:248`, `:277`): a decision on
  `a.x` falls back to its default, and a promotion to `a.y` drops `a.x`;
  `docs/guide/03_chunk_components.md:155` lets promoted keys be used after a restart.
- A split that a pass of `ConvertJSLToCoreFlow` visits before its steps fails the build
  (`step_adapter.go:488`; the comments at `:101` and `:154` have it otherwise). `BuildExact`
  says exactly when.
- A chunk without `item-count` has size 0, which nothing refuses (`step_adapter.go:334-357`): the
  read loop (`chunk_step.go:472`) is not entered, the chunk counts as the empty one at the end
  (`:624`), and the step is COMPLETED with nothing read. The example of the repository's
  `README.md:141` says `chunk-size: 100`, a key the JSL model does not have (`jsl/model.go:96`)
  and the loader ignores (`jsl/loader.go:42`); the configured ChunkSize, which
  `config.go:68` calls the default of chunk steps, is used nowhere.
- The log format of the YAML is not merged (`loader.go:175`); lists are not read from the
  environment, silently; `NewConfigProvider` refuses the default exception lists, and the
  applications call `LoadConfig` instead.
- A step that promotes keys saves the execution with the status of the moment
  (`flow_job.go:255`). Where an earlier element failed and its rule led on (`:268`,
  `models.go:898`) that is FAILED, and the monitor
  (`example/weather/internal/app/application.go:196`) takes the job as ended: the process stops under the later steps, and their events are lost. `NormalExitKeepsEvents`
  excepts it (`promoted`).
- The monitor of an application cancels the job and returns without waiting for it
  (`example/weather/internal/app/application.go:176-188`), so that its last events may be
  lost. Two jobs of a process that shared a completion signaler would close its channel twice
  (`listener/job_completion_signaler.go:58`).
- The token of the web proxy is read without the mutex (`webproxy.go:268`; the comment at
  `:323` speaks of thread safety), so a string may be read torn; a token endpoint that never
  answers holds the mutex for everybody; `Close` finds no idle connections to close.
- The forecast reader of the weather example stores its place under a nested key and looks
  for it at the top (`hourly_forecast_api_reader.go:334`): a restart begins anew. A second
  chunk retry loses a chunk, an error of the reopening is ignored and ends the step COMPLETED
  with hours missing, and the writer's errors are retried without end.

## 6. Model-checked only

Liveness (`ExecuteEnds`, `LaunchedEnds`, `StopEnds`, `FlowEnds`, `ExecuteReturns`,
`CallsEnd`, `CancelEnds`, `ShutdownEnds`, `RequestsEnd`): the prover has no rules for
fairness. Every invariant, action property and refinement of a passing run is proved, for every
value of the constants the assumptions of section 4 allow.

Proved and not run, since a run would only repeat the theorem: the type invariants,
`DurableCompletion`, `ConcurrencyBound` and the inductive invariants named in section 4.

## 7. Plan

Modelled in the order in which the behaviour matters: ChunkStep, JobLifecycle, FlowJob,
PartitionStep, then Connections, ParquetExport with Storage, Application, JobStart with its
parts, WeatherStep with WebProxy; proved in the same order. No safety property of a run is left
without a theorem. What would come next:

1. `FlowOK`, which FlowJobProofs assumes and `BuildsSound` proves, joined in one theorem on
   JobStart with FlowJob as its step (the two specifications share no variables yet).
2. The execution whose process died with its row at STARTED (section 5): a property for it
   needs a recovery that the code does not have yet (`docs/roadmap.md:14`).

## 8. Not modelled

Listeners, metrics, traces and logging observe and change nothing (the recorder, which keeps
a queue, is in Application). The explorer only reads. The CSV reader follows the protocol of
the SQL reader. Sample tasklets and no-op items are choices a tasklet or an item has in
FlowJob, PartitionStep and ChunkStep. Utilities have no state. Of parts that are modelled:
`CloseAll` and HMAC of the web proxy, the typed secrets, `loadMapOfStructsFromEnv` and the
join of an existing transaction in `ExecuteStep` have no caller or nothing to work on; the
statistics FilterCount, CommitCount and RollbackCount decide nothing; the queries
by name and by id of the repositories only read.
