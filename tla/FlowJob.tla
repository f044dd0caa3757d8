------------------------------ MODULE FlowJob ------------------------------
(***************************************************************************)
(* FlowJob.Run (core/job/runner/flow_job.go) walking a flow whose steps    *)
(* are TaskletSteps (engine/step/tasklet/tasklet_step.go), over an SQL     *)
(* repository whose tables have the foreign keys of the Postgres and MySQL *)
(* migrations.  A split runs its steps in goroutines that share            *)
(* jobExecution.StepExecutions.  The executions of one JobInstance follow  *)
(* each other: each starts as SimpleJobLauncher and SimpleJobRunner leave  *)
(* the JobExecution to the flow, afresh or as a restart of the last.       *)
(*                                                                         *)
(* Of the StepExecutions of a step only the last is kept: one that is      *)
(* COMPLETED is never found again by the flow.                             *)
(***************************************************************************)
EXTENDS FlowDefinition, Integers

CONSTANTS Promoting,   \* steps with an ExecutionContextPromotion
          MaxLaunches, \* bound: executions of the instance
          MaxFaults    \* bound: failures of the repository and crashes

ASSUME FlowJobAssumption ==
  /\ Promoting \subseteq Steps
  /\ MaxLaunches \in Nat /\ MaxFaults \in Nat

VARIABLES
  flow,      \* j.flow
  at,        \* where Run is
  element,   \* currentElementID
  exit, err, \* elementExitStatus, elementErr
  job,       \* the JobExecution: status, CurrentStepName, version current or not
  jobRow,    \* its row
  se,        \* of each step: its last StepExecution
  rows,      \* of each step: the status in the row of its last StepExecution
  listed,    \* the steps whose se is in jobExecution.StepExecutions
  w,         \* of each step: where its Execute, or its goroutine of a split, is
  loaded,    \* of each goroutine of a split: the slice it appends to
  stepErr,   \* of each step: the error its Execute returned
  cancelled, \* the run's context
  resume,    \* the step a restart begins with
  opened,    \* history: the steps whose tasklet this execution opened
  disturbed, \* history: this execution met a failure, or was cancelled
  launches, faults

mvars == <<flow, at, element, exit, err>>
jvars == <<job, jobRow>>
svars == <<se, rows, listed, w, loaded, stepErr>>
hvars == <<resume, opened, launches>>
vars  == <<mvars, jvars, svars, cancelled, hvars, disturbed, faults>>

None == "NONE"
Active == {"search", "append", "save", "start", "open", "execute", "close"}
IsFinished(s) == s \in {"COMPLETED", "FAILED", "STOPPED"}

\* sync: the row exists and has the object's version.
NoSE == [status |-> None, exit |-> "UNKNOWN", sync |-> FALSE]
NewStepExecution == [status |-> "STARTING", exit |-> "UNKNOWN", sync |-> FALSE]
\* The copy has neither: "UNSET" is the empty string of the zero value.
CopyForRestart == [status |-> "UNSET", exit |-> "UNSET", sync |-> FALSE]
Failed(e) == [e EXCEPT !.status = "FAILED", !.exit = "FAILED"]

Fault   == faults < MaxFaults /\ faults' = faults + 1 /\ disturbed' = TRUE
NoFault == UNCHANGED <<faults, disturbed>>
\* A statement that fails: its context is cancelled, or the database fails.
Fails == (cancelled /\ NoFault) \/ Fault

\* An error that wraps the context's tells errors.Is so; a driver may not wrap it.
ErrorKinds == IF cancelled THEN {"cancelled", "error"} ELSE {"error"}

-----------------------------------------------------------------------------
\* SQLJobRepository.UpdateStepExecution of e, the object of s.  A connection
\* that cannot be resolved leaves its version ahead of the row for good.
UpdateStepExecution(s, e, ok) ==
  \/ /\ ok /\ e.sync /\ ~cancelled /\ NoFault
     /\ se' = [se EXCEPT ![s] = e] /\ rows' = [rows EXCEPT ![s] = e.status]
  \/ /\ ~ok /\ ((~e.sync /\ NoFault) \/ Fails)
     /\ \E sync \in {e.sync, FALSE} : se' = [se EXCEPT ![s] = [e EXCEPT !.sync = sync]]
     /\ UNCHANGED rows

\* SaveStepExecution of the object of s, which is STARTING.
SaveStepExecution(s, ok) ==
  \/ /\ ok /\ ~cancelled /\ NoFault
     /\ se' = [se EXCEPT ![s] = [@ EXCEPT !.sync = TRUE]] /\ rows' = [rows EXCEPT ![s] = "STARTING"]
  \/ ~ok /\ Fails /\ UNCHANGED <<se, rows>>

\* UpdateJobExecution of the object as it is in j, ignored when it fails; the
\* object goes on as k.
UpdateJobExecution(j, k) ==
  \/ /\ j.sync /\ ~cancelled /\ NoFault
     /\ job' = k /\ jobRow' = [status |-> j.status, step |-> j.step]
  \/ /\ (~j.sync /\ NoFault) \/ Fails
     /\ \E sync \in {j.sync, FALSE} : job' = [k EXCEPT !.sync = sync]
     /\ UNCHANGED jobRow

\* AddFailureException and MarkAsStopped or MarkAsFailed after an element.
MarkBy(j, e) == IF e = "none" THEN j
                ELSE [j EXCEPT !.status = IF e = "cancelled" THEN "STOPPED" ELSE "FAILED"]

Init ==
  /\ flow \in Flows /\ element = flow.start
  /\ at = "idle" /\ exit = "UNKNOWN" /\ err = "none"
  /\ job = [status |-> None, step |-> None, sync |-> FALSE]
  /\ jobRow = [status |-> None, step |-> None]
  /\ se = [s \in Steps |-> NoSE] /\ rows = [s \in Steps |-> None]
  /\ listed = {} /\ loaded = [s \in Steps |-> {}]
  /\ w = [s \in Steps |-> "idle"] /\ stepErr = [s \in Steps |-> "none"]
  /\ cancelled = FALSE /\ resume = None /\ opened = {} /\ disturbed = FALSE
  /\ launches = 0 /\ faults = 0

\* Launch and the beginning of SimpleJobRunner.Run: a FAILED or STOPPED
\* execution is restarted with copies of its StepExecutions, or with none when
\* they cannot be read; the job may have been deployed anew in between.
Launch ==
  LET restart == jobRow.status \in {"FAILED", "STOPPED"}
      step    == IF restart THEN jobRow.step ELSE None
      found   == IF restart THEN {s \in Steps : rows[s] # None} ELSE {}
  IN  /\ at \in {"idle", "ended", "dead"} /\ launches < MaxLaunches
      /\ launches' = launches + 1 /\ flow' \in Flows
      /\ \E copies \in {found, {}}, sync \in BOOLEAN :
           /\ IF sync /\ copies = found THEN disturbed' = FALSE /\ UNCHANGED faults ELSE Fault
           /\ se' = [s \in Steps |-> IF s \in copies THEN CopyForRestart ELSE NoSE]
           /\ listed' = copies
           /\ job' = [status |-> "STARTED", step |-> step, sync |-> sync]
      /\ jobRow' = [status |-> "STARTED", step |-> step] /\ resume' = step
      /\ element' = IF step = None THEN flow'.start ELSE step
      /\ at' = "loop" /\ exit' = "UNKNOWN" /\ err' = "none"
      /\ rows' = [s \in Steps |-> None] /\ w' = [s \in Steps |-> "idle"]
      /\ loaded' = [s \in Steps |-> {}] /\ stepErr' = [s \in Steps |-> "none"]
      /\ cancelled' = FALSE /\ opened' = {}

\* Stop, or the shutdown of the application.
Cancel ==
  /\ at \notin {"idle", "ended", "dead"} /\ ~cancelled
  /\ cancelled' = TRUE /\ disturbed' = TRUE
  /\ UNCHANGED <<mvars, jvars, svars, hvars, faults>>

Crash ==
  /\ at \notin {"idle", "ended", "dead"} /\ Fault
  /\ at' = "dead" /\ w' = [s \in Steps |-> "idle"]
  /\ UNCHANGED <<flow, element, exit, err, jvars, se, rows, listed, loaded, stepErr,
                 cancelled, hvars>>

-----------------------------------------------------------------------------
\* The head of the loop: a cancelled context or an unknown element ends the run.
MutLoopCancelled ==
  /\ at = "loop" /\ cancelled /\ element \in flow.steps
  /\ job' = [job EXCEPT !.status = "STOPPED"] /\ at' = "ending"
  /\ NoFault /\ UNCHANGED <<flow, element, exit, err, jobRow, svars, cancelled, hvars>>

LoopCancelled ==
  /\ at = "loop" /\ cancelled
  /\ job' = [job EXCEPT !.status = "STOPPED"] /\ at' = "ending"
  /\ NoFault /\ UNCHANGED <<flow, element, exit, err, jobRow, svars, cancelled, hvars>>

UnknownElement ==
  /\ at = "loop" /\ ~cancelled /\ element \notin Elements(flow)
  /\ job' = [job EXCEPT !.status = "FAILED"] /\ at' = "ending"
  /\ NoFault /\ UNCHANGED <<flow, element, exit, err, jobRow, svars, cancelled, hvars>>

\* A step: the StepExecution that is not COMPLETED is used again; a new one,
\* and one that is STARTING, is saved.
BeginStep ==
  LET s     == element
      reuse == s \in listed /\ se[s].status # "COMPLETED"
  IN  /\ at = "loop" /\ ~cancelled /\ s \in flow.steps
      /\ job' = [job EXCEPT !.step = s]
      /\ se' = IF reuse THEN se ELSE [se EXCEPT ![s] = NewStepExecution]
      /\ listed' = listed \cup {s} /\ at' = "step"
      /\ w' = [w EXCEPT ![s] = IF reuse /\ se[s].status # "STARTING" THEN "start" ELSE "save"]
      /\ NoFault
      /\ UNCHANGED <<flow, element, exit, err, jobRow, rows, loaded, stepErr, cancelled, hvars>>

SaveStep ==
  LET s == element
  IN  /\ at = "step" /\ w[s] = "save"
      /\ \/ /\ SaveStepExecution(s, TRUE)
            /\ w' = [w EXCEPT ![s] = "start"] /\ UNCHANGED <<at, job>>
         \/ /\ SaveStepExecution(s, FALSE)
            /\ job' = [job EXCEPT !.status = "FAILED"] /\ at' = "ending"
            /\ w' = [w EXCEPT ![s] = "idle"]
      /\ UNCHANGED <<flow, element, exit, err, jobRow, listed, loaded, stepErr,
                     cancelled, hvars>>

\* After Execute: promotion writes the JobExecution, then the error marks it.
StepReturns ==
  LET s      == element
      marked == MarkBy(job, stepErr[s])
  IN  /\ at = "step" /\ w[s] = "done"
      /\ IF s \in Promoting THEN UpdateJobExecution(job, marked)
                            ELSE job' = marked /\ NoFault /\ UNCHANGED jobRow
      /\ exit' = se[s].exit /\ err' = stepErr[s]
      /\ at' = "rules" /\ w' = [w EXCEPT ![s] = "idle"]
      /\ stepErr' = [stepErr EXCEPT ![s] = "none"]
      /\ UNCHANGED <<flow, element, se, rows, listed, loaded, cancelled, hvars>>

Decide ==
  /\ at = "loop" /\ ~cancelled /\ element \in flow.decisions
  /\ \/ err' = "none" /\ exit' \in {"COMPLETED", "FAILED"}
     \/ err' = "error" /\ exit' = "FAILED"
  /\ job' = MarkBy(job, err') /\ at' = "rules"
  /\ NoFault /\ UNCHANGED <<flow, element, jobRow, svars, cancelled, hvars>>

\* A split starts one goroutine for each of its steps.
BeginSplit ==
  /\ at = "loop" /\ ~cancelled /\ element \in DOMAIN flow.splits
  /\ LET members == flow.splits[element]
     IN  /\ w' = [s \in Steps |-> IF s \in members THEN "search" ELSE w[s]]
         /\ listed' = {s \in listed : ~(s \in members /\ se[s].status = "COMPLETED")}
  /\ at' = "split"
  /\ NoFault /\ UNCHANGED <<flow, element, exit, err, jvars, se, rows, loaded, stepErr,
                            cancelled, hvars>>

MutJoinSplit ==
  LET members == flow.splits[element]
  IN  /\ at = "split" /\ \E s \in members : w[s] = "done"
      /\ IF \E s \in members : stepErr[s] # "none"
           THEN err' = "error" /\ exit' = "FAILED"
           ELSE err' = "none" /\ exit' = "COMPLETED"
      /\ at' = "rules" /\ w' = [s \in Steps |-> IF w[s] = "done" THEN "idle" ELSE w[s]]
      /\ NoFault
      /\ UNCHANGED <<flow, element, jvars, se, rows, listed, loaded, stepErr, cancelled, hvars>>

MutJoinSplitStuck ==
  LET members == flow.splits[element]
  IN  /\ at = "split" /\ \A s \in members : w[s] = "done" /\ stepErr[s] = "none"
      /\ err' = "none" /\ exit' = "COMPLETED"
      /\ at' = "rules" /\ w' = [s \in Steps |-> IF s \in members THEN "idle" ELSE w[s]]
      /\ NoFault
      /\ UNCHANGED <<flow, element, jvars, se, rows, listed, loaded, stepErr, cancelled, hvars>>

\* wg.Wait has returned: the split has failed if a goroutine sent an error.
JoinSplit ==
  LET members == flow.splits[element]
  IN  /\ at = "split" /\ \A s \in members : w[s] = "done"
      /\ IF \E s \in members : stepErr[s] # "none"
           THEN err' = "error" /\ exit' = "FAILED"
           ELSE err' = "none" /\ exit' = "COMPLETED"
      /\ at' = "rules" /\ w' = [s \in Steps |-> IF s \in members THEN "idle" ELSE w[s]]
      /\ stepErr' = [s \in Steps |-> IF s \in members THEN "none" ELSE stepErr[s]]
      /\ NoFault
      /\ UNCHANGED <<flow, element, jvars, se, rows, listed, loaded, cancelled, hvars>>

\* TransitionEvaluation.
Transition(go) ==
  /\ at = "rules" /\ HasRule(flow, element) /\ RuleOf(flow, element).go = go
  /\ NoFault /\ UNCHANGED <<flow, jobRow, svars, cancelled, hvars>>

NoTransition ==
  /\ at = "rules" /\ ~HasRule(flow, element)
  /\ job' = [job EXCEPT !.status = IF err = "none" THEN "COMPLETED" ELSE "FAILED"]
  /\ at' = "ending"
  /\ NoFault /\ UNCHANGED <<flow, element, exit, err, jobRow, svars, cancelled, hvars>>

TransitionTo ==
  /\ Transition("to") /\ element' = RuleOf(flow, element).to
  /\ at' = "loop" /\ exit' = "UNKNOWN" /\ err' = "none" /\ UNCHANGED job

TransitionEnds ==
  \E go \in Outcomes \ {"to"} :
    /\ Transition(go)
    /\ job' = [job EXCEPT !.status = IF go = "end" THEN "COMPLETED"
                                     ELSE IF go = "fail" THEN "FAILED" ELSE "STOPPED"]
    /\ at' = "ending" /\ UNCHANGED <<element, exit, err>>

\* The rest of SimpleJobRunner.Run: the last update has the run's context.
JobEnds ==
  LET j == IF IsFinished(job.status) THEN job ELSE [job EXCEPT !.status = "COMPLETED"]
  IN  /\ at = "ending" /\ at' = "ended"
      /\ UpdateJobExecution(j, j)
      /\ UNCHANGED <<flow, element, exit, err, svars, cancelled, hvars>>

-----------------------------------------------------------------------------
\* The goroutine of a split: it searches and appends to the slice of all.
Search(s) ==
  LET reuse == s \in listed
  IN  /\ at = "split" /\ w[s] = "search"
      /\ se' = IF reuse THEN se ELSE [se EXCEPT ![s] = NewStepExecution]
      /\ w' = [w EXCEPT ![s] = IF reuse THEN "save" ELSE "append"]
      /\ loaded' = [loaded EXCEPT ![s] = IF reuse THEN {} ELSE listed]
      /\ NoFault /\ UNCHANGED <<mvars, jvars, rows, listed, stepErr, cancelled, hvars>>

\* append is a read and a write with no lock: what was appended in between is lost.
AppendExecution(s) ==
  /\ at = "split" /\ w[s] = "append"
  /\ listed' = loaded[s] \cup {s} /\ loaded' = [loaded EXCEPT ![s] = {}]
  /\ w' = [w EXCEPT ![s] = "save"]
  /\ NoFault /\ UNCHANGED <<mvars, jvars, se, rows, stepErr, cancelled, hvars>>

\* It saves what it uses again too: the row of another id is there already, and
\* a copy belongs to no JobExecution.
SaveMember(s) ==
  /\ at = "split" /\ w[s] = "save"
  /\ \/ /\ se[s].status = "STARTING" /\ SaveStepExecution(s, TRUE)
        /\ w' = [w EXCEPT ![s] = "start"] /\ UNCHANGED stepErr
     \/ /\ \/ SaveStepExecution(s, FALSE)
           \/ se[s].status # "STARTING" /\ NoFault /\ UNCHANGED <<se, rows>>
        /\ stepErr' = [stepErr EXCEPT ![s] = "error"]
        /\ w' = [w EXCEPT ![s] = "done"]
  /\ UNCHANGED <<mvars, jvars, listed, loaded, cancelled, hvars>>

MutStartTasklet(s) ==
  /\ w[s] = "start" /\ w' = [w EXCEPT ![s] = "open"]
  /\ \E ok \in BOOLEAN : UpdateStepExecution(s, [se[s] EXCEPT !.status = "STARTED"], ok)
  /\ UNCHANGED <<mvars, jvars, listed, loaded, stepErr, cancelled, hvars>>

\* TaskletStep.Execute.
StartTasklet(s) ==
  /\ w[s] = "start"
  /\ \E ok \in BOOLEAN :
       /\ UpdateStepExecution(s, [se[s] EXCEPT !.status = "STARTED"], ok)
       /\ w' = [w EXCEPT ![s] = IF ok THEN "open" ELSE "done"]
       /\ \E e \in IF ok THEN {"none"} ELSE ErrorKinds : stepErr' = [stepErr EXCEPT ![s] = e]
  /\ UNCHANGED <<mvars, jvars, listed, loaded, cancelled, hvars>>

OpenTasklet(s) ==
  /\ w[s] = "open" /\ opened' = opened \cup {s}
  /\ \/ w' = [w EXCEPT ![s] = "execute"] /\ NoFault /\ UNCHANGED <<se, rows, stepErr>>
     \/ /\ \E ok \in BOOLEAN : UpdateStepExecution(s, Failed(se[s]), ok)
        /\ \E e \in ErrorKinds : stepErr' = [stepErr EXCEPT ![s] = e]
        /\ w' = [w EXCEPT ![s] = "done"]
  /\ UNCHANGED <<mvars, jvars, listed, loaded, cancelled, resume, launches>>

ExecuteTasklet(s) ==
  /\ w[s] = "execute" /\ w' = [w EXCEPT ![s] = "close"]
  /\ \/ /\ \E x \in {"COMPLETED", "FAILED"} :
             se' = [se EXCEPT ![s] = [@ EXCEPT !.status = "COMPLETED", !.exit = x]]
        /\ UNCHANGED stepErr
     \/ /\ se' = [se EXCEPT ![s] = Failed(@)]
        /\ \E e \in ErrorKinds : stepErr' = [stepErr EXCEPT ![s] = e]
  /\ NoFault /\ UNCHANGED <<mvars, jvars, rows, listed, loaded, cancelled, hvars>>

MutCloseTasklet(s) ==
  /\ w[s] = "close" /\ w' = [w EXCEPT ![s] = "done"]
  /\ \E ok \in BOOLEAN : UpdateStepExecution(s, se[s], ok)
  /\ UNCHANGED <<mvars, jvars, listed, loaded, stepErr, cancelled, hvars>>

\* Close, whose error leaves the status alone, and the last update.
CloseTasklet(s) ==
  /\ w[s] = "close" /\ w' = [w EXCEPT ![s] = "done"]
  /\ \E ok, closed \in BOOLEAN :
       /\ UpdateStepExecution(s, se[s], ok)
       /\ \E e \in IF stepErr[s] # "none" THEN {stepErr[s]}
                   ELSE IF ok /\ closed THEN {"none"} ELSE ErrorKinds :
            stepErr' = [stepErr EXCEPT ![s] = e]
  /\ UNCHANGED <<mvars, jvars, listed, loaded, cancelled, hvars>>

Main == \/ LoopCancelled \/ UnknownElement
        \/ BeginStep \/ SaveStep \/ StepReturns
        \/ Decide \/ BeginSplit \/ JoinSplit
        \/ NoTransition \/ TransitionTo \/ TransitionEnds \/ JobEnds

Goroutine(s) == \/ Search(s) \/ AppendExecution(s) \/ SaveMember(s)
                \/ StartTasklet(s) \/ OpenTasklet(s)
                \/ ExecuteTasklet(s) \/ CloseTasklet(s)

Next == Launch \/ Cancel \/ Crash \/ Main \/ \E s \in Steps : Goroutine(s)

Spec == Init /\ [][Next]_vars

\* Go runs every goroutine, and every tasklet is assumed to return.
FairSpec == Spec /\ WF_vars(Main) /\ \A s \in Steps : WF_vars(Goroutine(s))

-----------------------------------------------------------------------------
\* No tasklet is at work that the repository does not show as STARTED: neither
\* a step that was found again nor one whose StepExecution another goroutine of
\* the split pushed out of the shared slice works unseen (TaskletStep.Execute).
WorkIsRecorded ==
  \A s \in Steps : w[s] \in {"open", "execute", "close"} => rows[s] = "STARTED"

\* A step that reports success has a COMPLETED row: a result the repository did
\* not take is an error to the flow (TaskletStep.Execute, the last update).
SuccessIsRecorded ==
  \A s \in Steps : w[s] = "done" /\ stepErr[s] = "none" => rows[s] = "COMPLETED"

\* What is left of the element, and how far the walk is.
StepsLeft == IF at = "loop" THEN StepsOf(flow, element)
             ELSE {s \in Steps : w[s] \in Active}
WalkStatus == IF at = "idle" THEN "READY"
              ELSE IF at = "dead" THEN "DIED"
              ELSE IF at \in {"ending", "ended"} THEN job.status ELSE "RUNNING"

\* Run walks the flow: no element is skipped or left while a step of it is at
\* work, and the JobExecution ends with the status the walk ended with.
Walk == INSTANCE FlowWalk WITH todo <- StepsLeft, outcome <- WalkStatus
WalkSpec == Walk!Spec

Over == at \in {"ended", "dead"}

\* A stopped run comes to its end, even in a flow that goes round for ever.
StopEnds == cancelled ~> Over

\* A flow without a loop comes to its end, whatever fails.
FlowEnds == (at = "loop" /\ Acyclic(flow)) ~> Over

\* docs/architecture/00_project_overview.md:34: a failed job can be restarted
\* exactly from the point where it was interrupted.
RestartResumes ==
  at = "ended" /\ resume \in flow.steps /\ ~disturbed => resume \in opened
=============================================================================
