---------------------------- MODULE JobLifecycle ----------------------------
(***************************************************************************)
(* The life of JobExecutions: SimpleJobLauncher.Launch, the goroutine of   *)
(* SimpleJobRunner.Run, the operations of DefaultJobOperator and the       *)
(* JobRepository between them (core/application/usecase,                   *)
(* core/job/runner/simple_job_runner.go, infrastructure/repository).       *)
(* All launches are of one job with the same parameters.  FlowJob.Run is   *)
(* its effect on the JobExecution; module FlowJob has the details.         *)
(*                                                                         *)
(* Executions are numbered in the order of their CreateTime.               *)
(***************************************************************************)
EXTENDS Integers, FiniteSets

CONSTANTS Callers,      \* goroutines that call the launcher or the operator
          InMemoryRepo, \* TRUE: InMemoryJobRepository, FALSE: SQLJobRepository
          MaxExecs,     \* bound: JobExecutions created
          MaxInstances, \* bound: JobInstances created
          MaxVersion,   \* bound: version up to which keys are promoted, stops tried
          MaxFaults     \* bound: repository failures, shutdowns and crashes

ASSUME LifecycleAssumption ==
  /\ InMemoryRepo \in BOOLEAN
  /\ MaxExecs \in Nat /\ MaxInstances \in Nat \ {0}
  /\ MaxVersion \in Nat /\ MaxFaults \in Nat

Execs == 1 .. MaxExecs
Instances == 1 .. MaxInstances

VARIABLES
  instances,            \* JobInstances in the repository: 1..instances
  created,              \* JobExecutions created: 1..created
  inst, restartOf,      \* of each execution: its instance, what it restarts
  obj,                  \* the JobExecution object of the launcher and runner
  row,                  \* the JobExecution in the repository
  live,                 \* in-memory: the repository holds the runner's object
  runner,               \* SimpleJobRunner.Run
  cancelled,            \* the context of the run
  registered,           \* activeJobCancellations
  pc, target, copy,     \* of each caller: where it is, its execution, its copy
  found,                \* of each caller: the JobInstance it works on
  phantom,              \* history: an update failed before it reached the table
  faults

lvars == <<instances, created, inst, restartOf>>
rvars == <<obj, runner, cancelled, registered>>
cvars == <<pc, target, copy, found>>
vars  == <<lvars, rvars, row, live, cvars, phantom, faults>>

Statuses == {"STARTING", "STARTED", "STOPPING", "STOPPED", "COMPLETED", "FAILED",
             "ABANDONED", "RESTARTING"}
NoRow == "NONE"                              \* not saved
Running == {"queued", "running", "ending"}   \* goroutines of SimpleJobRunner.Run
IsFinished(s) == s \in {"COMPLETED", "FAILED", "STOPPED", "ABANDONED"}

Object == [status : Statuses, version : Nat]
Fresh == [status |-> "STARTING", version |-> 0]

\* What a Find returns: the in-memory repository hands out a copy of the object
\* the runner is still working on.
Row(e) == IF live[e] THEN [row[e] EXCEPT !.status = obj[e].status] ELSE row[e]
Saved(e) == row[e].status # NoRow

Fault   == faults < MaxFaults /\ faults' = faults + 1
NoFault == UNCHANGED faults

-----------------------------------------------------------------------------
\* UpdateJobExecution by the runner of e with status s.  SQL: the row is
\* replaced if its version is the object's; a cancelled context, a failing
\* statement or another version leave the row and put the version back; a
\* connection that cannot be resolved leaves the object one version ahead.
MutRunnerUpdate(e, s, ctx) ==
  /\ obj' = [obj EXCEPT ![e] = [status |-> s, version |-> @.version + 1]]
  /\ row' = [row EXCEPT ![e] = [status |-> s, version |-> @.version + 1]]
  /\ UNCHANGED <<live, phantom, faults>>

RunnerUpdate(e, s, ctx) ==
  \/ /\ InMemoryRepo /\ NoFault
     /\ obj' = [obj EXCEPT ![e].status = s]
     /\ row' = [row EXCEPT ![e].status = s] /\ live' = [live EXCEPT ![e] = TRUE]
     /\ UNCHANGED phantom
  \/ /\ ~InMemoryRepo /\ ~ctx /\ row[e].version = obj[e].version /\ NoFault
     /\ obj' = [obj EXCEPT ![e] = [status |-> s, version |-> @.version + 1]]
     /\ row' = [row EXCEPT ![e] = [status |-> s, version |-> @.version + 1]]
     /\ UNCHANGED <<live, phantom>>
  \/ /\ ~InMemoryRepo
     /\ Fault \/ ((ctx \/ row[e].version # obj[e].version) /\ NoFault)
     /\ obj' = [obj EXCEPT ![e].status = s]
     /\ UNCHANGED <<row, live, phantom>>
  \/ /\ ~InMemoryRepo /\ Fault
     /\ obj' = [obj EXCEPT ![e] = [status |-> s, version |-> @.version + 1]]
     /\ phantom' = [phantom EXCEPT ![e] = TRUE]
     /\ UNCHANGED <<row, live>>

\* UpdateJobExecution of a copy: succeeds, or leaves the row.
CopyUpdate(c, e) ==
  /\ InMemoryRepo \/ row[e].version = copy[c].version
  /\ row' = [row EXCEPT ![e] = [copy[c] EXCEPT
                                !.version = IF InMemoryRepo THEN @ ELSE @ + 1]]
  /\ live' = [live EXCEPT ![e] = FALSE]
CopyRefused(c, e) ==
  /\ ~InMemoryRepo
  /\ (row[e].version # copy[c].version /\ NoFault) \/ Fault
  /\ UNCHANGED <<row, live>>

-----------------------------------------------------------------------------
Init ==
  /\ instances = 0 /\ created = 0
  /\ inst = [e \in Execs |-> 1] /\ restartOf = [e \in Execs |-> 0]
  /\ obj = [e \in Execs |-> Fresh]
  /\ row = [e \in Execs |-> [status |-> NoRow, version |-> 0]]
  /\ live = [e \in Execs |-> FALSE]
  /\ runner = [e \in Execs |-> "none"]
  /\ cancelled = [e \in Execs |-> FALSE] /\ registered = [e \in Execs |-> FALSE]
  /\ pc = [c \in Callers |-> "idle"] /\ target = [c \in Callers |-> 0]
  /\ copy = [c \in Callers |-> Fresh] /\ found = [c \in Callers |-> 1]
  /\ phantom = [e \in Execs |-> FALSE]
  /\ faults = 0

Goto(c, l) == pc' = [pc EXCEPT ![c] = l]

\* The call returns and its locals are gone.
Return(c) ==
  /\ Goto(c, "idle") /\ target' = [target EXCEPT ![c] = 0]
  /\ copy' = [copy EXCEPT ![c] = Fresh] /\ found' = [found EXCEPT ![c] = 1]

\* Launch: the job is created from its definition and its parameters validated,
\* then FindJobInstanceByJobNameAndParameters.
LaunchFindInstance(c) ==
  /\ pc[c] \in {"idle", "relaunch"} /\ created < MaxExecs
  /\ \/ /\ instances = 0
        /\ Goto(c, "saveInstance") /\ UNCHANGED found
     \/ \E i \in 1 .. instances :
          Goto(c, "findRestartable") /\ found' = [found EXCEPT ![c] = i]
  /\ UNCHANGED <<lvars, rvars, row, live, target, copy, phantom, faults>>

MutUniqueInstance == TRUE

\* The unique index over (job_name, parameters_hash) of the SQL schema; the
\* in-memory repository only compares ids.
UniqueInstance == InMemoryRepo \/ instances = 0

LaunchSaveInstance(c) ==
  /\ pc[c] = "saveInstance"
  /\ \/ /\ UniqueInstance /\ instances < MaxInstances /\ NoFault
        /\ instances' = instances + 1
        /\ found' = [found EXCEPT ![c] = instances + 1]
        /\ Goto(c, "create") /\ UNCHANGED <<target, copy>>
     \/ /\ (~UniqueInstance /\ NoFault) \/ (~InMemoryRepo /\ Fault)
        /\ Return(c) /\ UNCHANGED instances
  /\ UNCHANGED <<created, inst, restartOf, rvars, row, live, phantom>>

\* FindLatestRestartableJobExecution.  SQL looks at the newest execution only,
\* the in-memory repository at the newest one that failed or stopped.
Restartable(e) == Row(e).status \in {"FAILED", "STOPPED"}
Candidates(i) ==
  LET mine == {e \in 1 .. created : inst[e] = i /\ Saved(e)}
  IN IF InMemoryRepo THEN {e \in mine : Restartable(e)}
     ELSE {e \in mine : Restartable(e) /\ \A f \in mine : f <= e}
LatestRestartable(i, e) == e \in Candidates(i) /\ \A f \in Candidates(i) : f <= e

LaunchFindRestartable(c) ==
  /\ pc[c] = "findRestartable"
  /\ \/ \E e \in Execs :
          /\ LatestRestartable(found[c], e)
          /\ target' = [target EXCEPT ![c] = e]
          /\ copy' = [copy EXCEPT ![c] = [Row(e) EXCEPT !.status = "ABANDONED"]]
          /\ Goto(c, "abandonPrevious")
     \/ Candidates(found[c]) = {} /\ Goto(c, "create") /\ UNCHANGED <<target, copy>>
  /\ UNCHANGED <<lvars, rvars, row, live, found, phantom, faults>>

\* The previous execution becomes ABANDONED; if that fails it is only logged.
LaunchAbandonPrevious(c) ==
  /\ pc[c] = "abandonPrevious"
  /\ \/ CopyUpdate(c, target[c]) /\ NoFault
     \/ CopyRefused(c, target[c])
  /\ Goto(c, "create")
  /\ UNCHANGED <<lvars, rvars, target, copy, found, phantom>>

\* NewJobExecution and RegisterCancelFunc.
LaunchCreate(c) ==
  /\ pc[c] = "create" /\ created < MaxExecs
  /\ LET e == created + 1 IN
       /\ created' = e
       /\ inst' = [inst EXCEPT ![e] = found[c]]
       /\ restartOf' = [restartOf EXCEPT ![e] = target[c]]
       /\ obj' = [obj EXCEPT ![e].status =
                    IF target[c] = 0 THEN "STARTING" ELSE "RESTARTING"]
       /\ registered' = [registered EXCEPT ![e] = TRUE]
       /\ target' = [target EXCEPT ![c] = e]
  /\ Goto(c, "save")
  /\ UNCHANGED <<instances, row, live, runner, cancelled, copy, found, phantom, faults>>

\* SaveJobExecution and the start of the runner's goroutine.
LaunchSave(c) ==
  /\ pc[c] = "save"
  /\ LET e == target[c] IN
       \/ /\ NoFault
          /\ row' = [row EXCEPT ![e] = obj[e]]
          /\ live' = [live EXCEPT ![e] = InMemoryRepo]
          /\ runner' = [runner EXCEPT ![e] = "queued"] /\ UNCHANGED registered
       \/ /\ Fault /\ ~InMemoryRepo
          /\ registered' = [registered EXCEPT ![e] = FALSE]
          /\ UNCHANGED <<row, live, runner>>
  /\ Return(c)
  /\ UNCHANGED <<lvars, obj, cancelled, phantom>>

-----------------------------------------------------------------------------
MutRunnerStart(e) ==
  /\ runner[e] = "queued" /\ row[e].version = obj[e].version
  /\ RunnerUpdate(e, "STARTED", cancelled[e])
  /\ runner' = [runner EXCEPT ![e] = "running"]
  /\ UNCHANGED <<lvars, cancelled, registered, cvars>>

\* Run marks the execution STARTED and goes on whether or not the update works.
RunnerStart(e) ==
  /\ runner[e] = "queued"
  /\ RunnerUpdate(e, "STARTED", cancelled[e])
  /\ runner' = [runner EXCEPT ![e] = "running"]
  /\ UNCHANGED <<lvars, cancelled, registered, cvars>>

\* A step or decision of the flow failed and a transition goes on from it: the
\* object is FAILED (STOPPED after a cancellation) while the flow runs.
RunnerElementFails(e) ==
  /\ runner[e] = "running"
  /\ obj' = [obj EXCEPT ![e].status = IF cancelled[e] THEN "STOPPED" ELSE "FAILED"]
  /\ UNCHANGED <<lvars, runner, cancelled, registered, row, live, cvars, phantom, faults>>

\* The update after a promotion of context keys; its failure is only logged.
RunnerPromotes(e) ==
  /\ runner[e] = "running" /\ obj[e].version < MaxVersion
  /\ RunnerUpdate(e, obj[e].status, cancelled[e])
  /\ UNCHANGED <<lvars, runner, cancelled, registered, cvars>>

\* FlowJob.Run returns with the status it left in the object.
RunnerFlowEnds(e) ==
  /\ runner[e] = "running"
  /\ \E s \in {"COMPLETED", "FAILED", "STOPPED"} :
       obj' = [obj EXCEPT ![e].status = s]
  /\ runner' = [runner EXCEPT ![e] = "ending"]
  /\ UNCHANGED <<lvars, cancelled, registered, row, live, cvars, phantom, faults>>

MutRunnerEnds(e) ==
  /\ runner[e] = "ending"
  /\ runner' = [runner EXCEPT ![e] = "ended"]
  /\ UNCHANGED <<lvars, obj, row, live, phantom, faults, cancelled, registered, cvars>>

\* The last update, with the context of the run; nothing is unregistered.
RunnerEnds(e) ==
  /\ runner[e] = "ending"
  /\ RunnerUpdate(e, obj[e].status, cancelled[e])
  /\ runner' = [runner EXCEPT ![e] = "ended"]
  /\ UNCHANGED <<lvars, cancelled, registered, cvars>>

-----------------------------------------------------------------------------
\* DefaultJobOperator.Stop: load, set STOPPING, update, cancel.
StopLoad(c, e) ==
  /\ pc[c] = "idle" /\ Saved(e) /\ ~IsFinished(Row(e).status)
  /\ row[e].version < MaxVersion
  /\ target' = [target EXCEPT ![c] = e]
  /\ copy' = [copy EXCEPT ![c] = [Row(e) EXCEPT !.status = "STOPPING"]]
  /\ Goto(c, "stopUpdate")
  /\ UNCHANGED <<lvars, rvars, row, live, found, phantom, faults>>

StopUpdate(c) ==
  /\ pc[c] = "stopUpdate"
  /\ \/ /\ CopyUpdate(c, target[c]) /\ NoFault
        /\ Goto(c, "stopCancel") /\ UNCHANGED <<target, copy, found>>
     \/ CopyRefused(c, target[c]) /\ Return(c)
  /\ UNCHANGED <<lvars, rvars, phantom>>

StopCancel(c) ==
  /\ pc[c] = "stopCancel"
  /\ cancelled' = [cancelled EXCEPT ![target[c]] = @ \/ registered[target[c]]]
  /\ Return(c)
  /\ UNCHANGED <<lvars, obj, runner, registered, row, live, phantom, faults>>

\* DefaultJobOperator.Abandon: only an execution that has not started.
AbandonLoad(c, e) ==
  /\ pc[c] = "idle" /\ Saved(e)
  /\ Row(e).status \notin {"STARTED", "STOPPING", "RESTARTING"}
  /\ ~IsFinished(Row(e).status)
  /\ target' = [target EXCEPT ![c] = e]
  /\ copy' = [copy EXCEPT ![c] = [Row(e) EXCEPT !.status = "ABANDONED"]]
  /\ Goto(c, "abandonUpdate")
  /\ UNCHANGED <<lvars, rvars, row, live, found, phantom, faults>>

MutAbandonUpdate(c) ==
  /\ pc[c] = "abandonUpdate"
  /\ \/ CopyUpdate(c, target[c]) /\ NoFault
     \/ CopyRefused(c, target[c])
  /\ registered' = [registered EXCEPT ![target[c]] = FALSE]
  /\ Return(c)
  /\ UNCHANGED <<lvars, obj, runner, cancelled, phantom>>

AbandonUpdate(c) ==
  /\ pc[c] = "abandonUpdate"
  /\ \/ /\ CopyUpdate(c, target[c]) /\ NoFault
        /\ registered' = [registered EXCEPT ![target[c]] = FALSE]
     \/ CopyRefused(c, target[c]) /\ UNCHANGED registered
  /\ Return(c)
  /\ UNCHANGED <<lvars, obj, runner, cancelled, phantom>>

\* DefaultJobOperator.Restart: the status decides whether Launch is called.
RestartLoad(c, e) ==
  /\ pc[c] = "idle" /\ Saved(e) /\ created < MaxExecs
  /\ Row(e).status \in {"FAILED", "STOPPED", "ABANDONED"}
  /\ Goto(c, "relaunch")
  /\ UNCHANGED <<lvars, rvars, row, live, target, copy, found, phantom, faults>>

\* The run's context is a child of the one Launch was called with, which the
\* application cancels when it shuts down.
LaunchContextCancelled(e) ==
  /\ runner[e] \in Running /\ ~cancelled[e] /\ Fault
  /\ cancelled' = [cancelled EXCEPT ![e] = TRUE]
  /\ UNCHANGED <<lvars, obj, runner, registered, row, live, cvars, phantom>>

\* The process dies with everything but the tables.
Crash ==
  /\ ~InMemoryRepo /\ Fault
  /\ runner' = [e \in Execs |-> IF runner[e] \in Running THEN "dead" ELSE runner[e]]
  /\ registered' = [e \in Execs |-> FALSE]
  /\ pc' = [c \in Callers |-> "idle"] /\ target' = [c \in Callers |-> 0]
  /\ copy' = [c \in Callers |-> Fresh] /\ found' = [c \in Callers |-> 1]
  /\ UNCHANGED <<lvars, obj, cancelled, row, live, phantom>>

-----------------------------------------------------------------------------
CallerStep(c) ==
  \/ LaunchSaveInstance(c) \/ LaunchFindRestartable(c) \/ LaunchAbandonPrevious(c)
  \/ LaunchCreate(c) \/ LaunchSave(c) \/ StopUpdate(c) \/ StopCancel(c) \/ AbandonUpdate(c)

RunnerStep(e) == RunnerStart(e) \/ RunnerFlowEnds(e) \/ RunnerEnds(e)

Next ==
  \/ \E c \in Callers : LaunchFindInstance(c) \/ CallerStep(c)
  \/ \E c \in Callers, e \in Execs :
       StopLoad(c, e) \/ AbandonLoad(c, e) \/ RestartLoad(c, e)
  \/ \E e \in Execs : RunnerStep(e) \/ RunnerElementFails(e) \/ RunnerPromotes(e)
                         \/ LaunchContextCancelled(e)
  \/ Crash

Spec == Init /\ [][Next]_vars

\* Goroutines that can go on do; steps of the flow return.
FairSpec ==
  /\ Spec
  /\ \A c \in Callers : WF_vars(CallerStep(c))
  /\ \A e \in Execs : WF_vars(RunnerStep(e))

-----------------------------------------------------------------------------
CallerType ==
  /\ pc \in [Callers -> {"idle", "relaunch", "saveInstance", "findRestartable",
                         "abandonPrevious", "create", "save", "stopUpdate",
                         "stopCancel", "abandonUpdate"}]
  /\ target \in [Callers -> 0 .. MaxExecs]
  /\ \A c \in Callers :
       pc[c] \in {"abandonPrevious", "save", "stopUpdate", "stopCancel",
                  "abandonUpdate"} => target[c] # 0
  /\ copy \in [Callers -> Object]
  /\ found \in [Callers -> Instances]
ExecType ==
  /\ instances \in 0 .. MaxInstances
  /\ created \in 0 .. MaxExecs
  /\ inst \in [Execs -> Instances]
  /\ restartOf \in [Execs -> 0 .. MaxExecs]
  /\ obj \in [Execs -> Object]
  /\ row \in [Execs -> [status : Statuses \cup {NoRow}, version : Nat]]
RunType ==
  /\ runner \in [Execs -> {"none", "ended", "dead"} \cup Running]
  /\ live \in [Execs -> BOOLEAN]
  /\ cancelled \in [Execs -> BOOLEAN]
  /\ registered \in [Execs -> BOOLEAN]
  /\ phantom \in [Execs -> BOOLEAN]
  /\ faults \in 0 .. MaxFaults

\* Every variable has its type; a caller about to update an execution has
\* chosen one that exists.
TypeOK == CallerType /\ ExecType /\ RunType

Settled == {"STOPPING", "ABANDONED", "COMPLETED"}

\* Two goroutines write a JobExecution's row, and the optimistic lock orders
\* them: what the operator or the launcher wrote (STOPPING, ABANDONED), and a
\* COMPLETED that was reported, no runner overwrites with what it knew before.
\* An update that failed before it reached the table excepts the execution.
SettledRowsKept ==
  [][\A e \in Execs : row[e].status \in Settled /\ ~phantom[e]
                        => row'[e].status = row[e].status]_vars

\* Launches that race for the same name and parameters share one JobInstance
\* (FindJobInstanceByJobNameAndParameters, then SaveJobInstance).
OneInstance == instances <= 1

\* An accepted Stop reaches the goroutine: while the run of a STOPPING execution
\* goes on, its context is cancelled or the operator is about to cancel it (but
\* for an update that failed before it reached the table).
StopDelivered ==
  \A e \in Execs :
    row[e].status = "STOPPING" /\ runner[e] \in Running /\ ~phantom[e]
      => cancelled[e] \/ \E c \in Callers : pc[c] = "stopCancel" /\ target[c] = e

\* A run that ended, and that nobody stopped or abandoned and nothing failed
\* for, is in the repository with the status it ended with.
EndRecorded ==
  \A e \in Execs :
    /\ runner[e] = "ended" /\ ~cancelled[e] /\ faults = 0
    /\ row[e].status \notin {"STOPPING", "ABANDONED"}
    => row[e].status = obj[e].status

\* A launch that was saved is executed to its end (Launch starts Run in a
\* goroutine of its own and nobody waits for it), unless the process dies.
LaunchedEnds ==
  \A e \in Execs : row[e].status # NoRow ~> runner[e] \in {"ended", "dead"}

=============================================================================
