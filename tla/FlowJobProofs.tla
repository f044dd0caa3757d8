--------------------------- MODULE FlowJobProofs ---------------------------
(***************************************************************************)
(* The walk of a flow, proved for any steps, any flows over them and any   *)
(* number of launches and failures: where Run and its goroutines are, what *)
(* the repository shows of a step at work or done, and that FlowJob        *)
(* implements FlowWalk.                                                    *)
(***************************************************************************)
EXTENDS FlowJob, TLAPS

JobStatuses == {None, "STARTED", "STOPPED", "COMPLETED", "FAILED"}
StepStatuses == {None, "UNSET", "STARTING", "STARTED", "COMPLETED", "FAILED"}
Exits == {"UNSET", "UNKNOWN", "COMPLETED", "FAILED"}
Errors == {"none", "cancelled", "error"}

StepExecutions == [status : StepStatuses, exit : Exits, sync : BOOLEAN]
JobExecutions == [status : JobStatuses, step : Steps \cup {None}, sync : BOOLEAN]

TypeOK ==
  /\ flow \in Flows /\ element \in Elements(flow) \cup Steps
  /\ at \in {"idle", "loop", "step", "split", "rules", "ending", "ended", "dead"}
  /\ exit \in Exits /\ err \in Errors
  /\ job \in JobExecutions
  /\ jobRow \in [status : JobStatuses, step : Steps \cup {None}]
  /\ se \in [Steps -> StepExecutions]
  /\ rows \in [Steps -> StepStatuses] /\ listed \in SUBSET Steps
  /\ w \in [Steps -> {"idle", "done"} \cup Active]
  /\ loaded \in [Steps -> SUBSET Steps] /\ stepErr \in [Steps -> Errors]
  /\ cancelled \in BOOLEAN /\ disturbed \in BOOLEAN
  /\ launches \in 0..MaxLaunches /\ faults \in 0..MaxFaults

\* Who is at work: the step the run stands at, or the steps of its split, and
\* nobody while Run itself moves on.
AtStep == at = "step" => /\ element \in flow.steps
                         /\ w[element] \notin {"idle", "search", "append"}
                         /\ \A s \in Steps : s # element => w[s] = "idle"
AtSplit == at = "split" => /\ element \in DOMAIN flow.splits
                           /\ \A s \in Steps : s \in flow.splits[element] <=> w[s] # "idle"
Between == /\ at \notin {"step", "split"} => \A s \in Steps : w[s] = "idle"
           /\ at = "rules" => element \in Elements(flow)
           /\ at \in {"ending", "ended"} => IsFinished(job.status)
Places == AtStep /\ AtSplit /\ Between

\* A tasklet that ran without an error is COMPLETED before its last update.
ClosesCompleted ==
  \A s \in Steps : w[s] = "close" /\ stepErr[s] = "none" => se[s].status = "COMPLETED"

\* What FlowAssumption says of one flow.
LEMMA FlowFacts ==
  ASSUME NEW f \in Flows
  PROVE  /\ f.steps \subseteq Steps
         /\ f.start \in Elements(f)
         /\ \A p \in DOMAIN f.splits : f.splits[p] \subseteq Steps
         /\ \A p \in DOMAIN f.splits : p \notin f.steps
         /\ \A d \in f.decisions : d \notin f.steps /\ d \notin DOMAIN f.splits
BY FlowAssumption DEF FlowOK, Elements

\* GetTransitionRule: the rule it finds leads to an element of the flow.
LEMMA RuleFacts ==
  ASSUME NEW f \in Flows, NEW e \in Elements(f), HasRule(f, e)
  PROVE  /\ RuleOf(f, e).go \in Outcomes
         /\ RuleOf(f, e).go = "to" => RuleOf(f, e).to \in Elements(f)
<1> DEFINE rules == {f.rules[e][i] : i \in DOMAIN f.rules[e]}
<1>1. /\ f.rules[e] \in Seq(rules)
      /\ \A r \in rules : r.go \in Outcomes /\ (r.go = "to" => r.to \in Elements(f))
  BY FlowAssumption DEF FlowOK
<1> HIDE DEF rules
<1>2. Head(f.rules[e]) \in rules
  BY <1>1 DEF HasRule
<1> QED
  BY <1>1, <1>2 DEF RuleOf

\* A failure is one of a bounded number.
LEMMA Budget ==
  ASSUME TypeOK
  PROVE  /\ Fails => NoFault \/ Fault
         /\ NoFault \/ Fault => faults' \in 0..MaxFaults /\ disturbed' \in BOOLEAN
<1>1. Fails => NoFault \/ Fault
  BY DEF Fails
<1>2. Fault => faults' \in 0..MaxFaults /\ disturbed' \in BOOLEAN
  BY FlowJobAssumption DEF TypeOK, Fault
<1>3. NoFault => faults' \in 0..MaxFaults /\ disturbed' \in BOOLEAN
  BY DEF TypeOK, NoFault
<1> QED
  BY <1>1, <1>2, <1>3

\* Marking a StepExecution FAILED keeps it one.
LEMMA FailedType ==
  ASSUME NEW e \in StepExecutions
  PROVE  Failed(e) \in StepExecutions
BY DEF Failed, StepExecutions, StepStatuses, Exits

\* Saving it does.
LEMMA SavedType ==
  ASSUME NEW e \in StepExecutions
  PROVE  [e EXCEPT !.sync = TRUE] \in StepExecutions
BY DEF StepExecutions

\* So does a tasklet that returns an exit status.
LEMMA CompletedType ==
  ASSUME NEW e \in StepExecutions, NEW x \in Exits
  PROVE  /\ [e EXCEPT !.status = "COMPLETED", !.exit = x] \in StepExecutions
         /\ [e EXCEPT !.status = "COMPLETED", !.exit = x].status = "COMPLETED"
BY DEF StepExecutions, StepStatuses

\* UpdateStepExecution and SaveStepExecution write one StepExecution and its row.
LEMMA StepWriteTypes ==
  ASSUME TypeOK, NEW s \in Steps, NEW e \in StepExecutions, NEW ok \in BOOLEAN,
         UpdateStepExecution(s, e, ok) \/ SaveStepExecution(s, ok)
  PROVE  /\ se' \in [Steps -> StepExecutions] /\ rows' \in [Steps -> StepStatuses]
         /\ faults' \in 0..MaxFaults /\ disturbed' \in BOOLEAN
<1>a. se \in [Steps -> StepExecutions] /\ rows \in [Steps -> StepStatuses]
  BY DEF TypeOK
<1>1. CASE UpdateStepExecution(s, e, ok)
  <2>0. se' \in [Steps -> StepExecutions]
    BY <1>1, <1>a DEF UpdateStepExecution, StepExecutions
  <2>1. rows' \in [Steps -> StepStatuses]
    BY <1>1, <1>a DEF UpdateStepExecution, StepExecutions
  <2>2. NoFault \/ Fault
    BY <1>1, Budget DEF UpdateStepExecution
  <2> QED
    BY <2>0, <2>1, <2>2, Budget
<1>2. CASE SaveStepExecution(s, ok)
  <2>0. se' \in [Steps -> StepExecutions]
    <3>1. se[s] \in StepExecutions /\ [se[s] EXCEPT !.sync = TRUE] \in StepExecutions
      BY <1>a, SavedType
    <3> QED
      BY <1>2, <1>a, <3>1 DEF SaveStepExecution
  <2>1. rows' \in [Steps -> StepStatuses]
    BY <1>2, <1>a DEF SaveStepExecution, StepStatuses
  <2>2. NoFault \/ Fault
    BY <1>2, Budget DEF SaveStepExecution
  <2> QED
    BY <2>0, <2>1, <2>2, Budget
<1> QED
  BY <1>1, <1>2

\* UpdateJobExecution writes the JobExecution and its row.
LEMMA JobWriteTypes ==
  ASSUME TypeOK, NEW j \in JobExecutions, NEW k \in JobExecutions, UpdateJobExecution(j, k)
  PROVE  /\ job' \in JobExecutions /\ jobRow' \in [status : JobStatuses, step : Steps \cup {None}]
         /\ faults' \in 0..MaxFaults /\ disturbed' \in BOOLEAN
         /\ job'.status = k.status
<1>1. /\ job' = k \/ \E sync \in BOOLEAN : job' = [k EXCEPT !.sync = sync]
      /\ jobRow' \in {jobRow, [status |-> j.status, step |-> j.step]}
      /\ NoFault \/ Fault
  BY Budget DEF UpdateJobExecution, JobExecutions
<1>2. job' \in JobExecutions /\ job'.status = k.status
  BY <1>1 DEF JobExecutions
<1>3. jobRow' \in [status : JobStatuses, step : Steps \cup {None}]
  BY <1>1 DEF TypeOK, JobExecutions
<1> QED
  BY <1>1, <1>2, <1>3, Budget

\* Init makes records and functions of the right kind.
LEMMA TypeInit == Init => TypeOK
<1> SUFFICES ASSUME Init PROVE TypeOK
  OBVIOUS
<1>1. se \in [Steps -> StepExecutions] /\ rows \in [Steps -> StepStatuses]
  BY DEF Init, StepExecutions, StepStatuses, Exits, None, NoSE
<1>2. w \in [Steps -> {"idle", "done"} \cup Active] /\ stepErr \in [Steps -> Errors]
  BY DEF Init, Errors
<1>3. flow \in Flows /\ element \in Elements(flow) \cup Steps
  BY FlowFacts DEF Init
<1>4. launches \in 0..MaxLaunches /\ faults \in 0..MaxFaults
  BY FlowJobAssumption DEF Init
<1> QED
  BY <1>1, <1>2, <1>3, <1>4 DEF Init, TypeOK, Exits, Errors, JobStatuses, None, JobExecutions

\* Every operation leaves them so; a rule leads to an element of the flow.
LEMMA TypeStep == TypeOK /\ Places /\ [Next]_vars => TypeOK'
<1> SUFFICES ASSUME TypeOK, Places, [Next]_vars PROVE TypeOK'
  OBVIOUS
<1> USE FlowJobAssumption DEF TypeOK, StepExecutions, JobExecutions, Elements, JobStatuses,
   StepStatuses, Exits, Errors, Active, None, NoFault, Fault, Fails, NoSE,
   NewStepExecution, CopyForRestart, ErrorKinds
<1>1. CASE Launch
  <2>1. flow' \in Flows /\ element' \in Elements(flow)' \cup Steps
    BY <1>1, FlowFacts DEF Launch
  <2>2. /\ se' \in [Steps -> StepExecutions] /\ rows' \in [Steps -> StepStatuses]
        /\ w' \in [Steps -> {"idle", "done"} \cup Active] /\ stepErr' \in [Steps -> Errors]
        /\ loaded' \in [Steps -> SUBSET Steps] /\ listed' \in SUBSET Steps
    BY <1>1 DEF Launch
  <2>3. /\ job' \in JobExecutions
        /\ jobRow' \in [status : JobStatuses, step : Steps \cup {None}]
    BY <1>1 DEF Launch
  <2>4. launches' \in 0..MaxLaunches
    BY <1>1 DEF Launch
  <2>5. faults' \in 0..MaxFaults /\ disturbed' \in BOOLEAN
    BY <1>1, Budget DEF Launch
  <2>6. cancelled' \in BOOLEAN /\ at' = "loop" /\ exit' \in Exits /\ err' \in Errors
    BY <1>1 DEF Launch
  <2> QED
    BY <2>1, <2>2, <2>3, <2>4, <2>5, <2>6
<1>2. CASE Cancel
  BY <1>2 DEF Cancel, mvars, jvars, svars, hvars
<1>3. CASE Crash
  BY <1>3 DEF Crash, Fault, mvars, jvars, svars, hvars
<1>4. CASE LoopCancelled
  BY <1>4 DEF LoopCancelled, mvars, jvars, svars, hvars
<1>5. CASE UnknownElement
  BY <1>5 DEF UnknownElement, mvars, jvars, svars, hvars
<1>6. CASE BeginStep
  BY <1>6, FlowFacts DEF BeginStep, hvars
<1>7. CASE SaveStep
  <2>1. element \in Steps
    BY <1>7, FlowFacts DEF SaveStep, Places, AtStep
  <2>2. /\ se' \in [Steps -> StepExecutions] /\ rows' \in [Steps -> StepStatuses]
        /\ faults' \in 0..MaxFaults /\ disturbed' \in BOOLEAN
    BY <1>7, <2>1, StepWriteTypes DEF SaveStep
  <2>3. job' \in JobExecutions /\ at' \in {at, "ending"}
    BY <1>7 DEF SaveStep
  <2>4. w' \in [Steps -> {"idle", "done"} \cup Active]
    BY <1>7, <2>1 DEF SaveStep
  <2> QED
    BY <1>7, <2>1, <2>2, <2>3, <2>4 DEF SaveStep, hvars
<1>8. CASE StepReturns
  <2>1. element \in Steps /\ se[element] \in StepExecutions /\ stepErr[element] \in Errors
    BY <1>8, FlowFacts DEF StepReturns, Places, AtStep
  <2>2. MarkBy(job, stepErr[element]) \in JobExecutions
    BY <2>1 DEF MarkBy
  <2>3. /\ job' \in JobExecutions
        /\ jobRow' \in [status : JobStatuses, step : Steps \cup {None}]
        /\ faults' \in 0..MaxFaults /\ disturbed' \in BOOLEAN
    BY <1>8, <2>2, JobWriteTypes DEF StepReturns
  <2> QED
    BY <1>8, <2>1, <2>3 DEF StepReturns, hvars
<1>9. CASE Decide
  BY <1>9 DEF Decide, MarkBy, mvars, jvars, svars, hvars
<1>10. CASE BeginSplit
  BY <1>10 DEF BeginSplit, mvars, jvars, svars, hvars
<1>11. CASE JoinSplit
  BY <1>11 DEF JoinSplit, mvars, jvars, svars, hvars
<1>12. CASE NoTransition
  BY <1>12 DEF NoTransition, mvars, jvars, svars, hvars
<1>13. CASE TransitionTo
  BY <1>13, RuleFacts DEF TransitionTo, Transition, Places, Between, mvars, jvars, svars, hvars
<1>14. CASE TransitionEnds
  BY <1>14 DEF TransitionEnds, Transition, mvars, jvars, svars, hvars
<1>15. CASE JobEnds
  <2> DEFINE j == IF IsFinished(job.status) THEN job ELSE [job EXCEPT !.status = "COMPLETED"]
  <2>1. j \in JobExecutions
    OBVIOUS
  <2>2. UpdateJobExecution(j, j)
    BY <1>15 DEF JobEnds
  <2> HIDE DEF j
  <2>3. /\ job' \in JobExecutions
        /\ jobRow' \in [status : JobStatuses, step : Steps \cup {None}]
        /\ faults' \in 0..MaxFaults /\ disturbed' \in BOOLEAN
    BY <2>1, <2>2, JobWriteTypes
  <2> QED
    BY <1>15, <2>3 DEF JobEnds, svars, hvars
<1>16. ASSUME NEW s \in Steps, Goroutine(s) PROVE TypeOK'
  <2>1. CASE Search(s)
    BY <2>1 DEF Search, mvars, jvars, svars, hvars
  <2>2. CASE AppendExecution(s)
    BY <2>2 DEF AppendExecution, mvars, jvars, svars, hvars
  <2>3. CASE SaveMember(s)
    <3>1. se[s] \in StepExecutions
      BY FailedType
    <3>2. /\ se' \in [Steps -> StepExecutions] /\ rows' \in [Steps -> StepStatuses]
          /\ faults' \in 0..MaxFaults /\ disturbed' \in BOOLEAN
      BY <2>3, <3>1, StepWriteTypes DEF SaveMember
    <3>3. stepErr' \in [Steps -> Errors]
      BY <2>3 DEF SaveMember
    <3>4. w' \in [Steps -> {"idle", "done"} \cup Active]
      BY <2>3 DEF SaveMember
    <3> QED
      BY <2>3, <3>2, <3>3, <3>4 DEF SaveMember, mvars, jvars, svars, hvars
  <2>4. CASE StartTasklet(s)
    <3>1. [se[s] EXCEPT !.status = "STARTED"] \in StepExecutions
      BY FailedType
    <3>2. /\ se' \in [Steps -> StepExecutions] /\ rows' \in [Steps -> StepStatuses]
          /\ faults' \in 0..MaxFaults /\ disturbed' \in BOOLEAN
      BY <2>4, <3>1, StepWriteTypes DEF StartTasklet
    <3>3. stepErr' \in [Steps -> Errors]
      BY <2>4 DEF StartTasklet
    <3>4. w' \in [Steps -> {"idle", "done"} \cup Active]
      BY <2>4 DEF StartTasklet
    <3> QED
      BY <2>4, <3>2, <3>3, <3>4 DEF StartTasklet, mvars, jvars, svars, hvars
  <2>5. CASE OpenTasklet(s)
    <3>1. Failed(se[s]) \in StepExecutions
      BY FailedType
    <3>2. /\ se' \in [Steps -> StepExecutions] /\ rows' \in [Steps -> StepStatuses]
          /\ faults' \in 0..MaxFaults /\ disturbed' \in BOOLEAN
      BY <2>5, <3>1, StepWriteTypes DEF OpenTasklet
    <3>3. stepErr' \in [Steps -> Errors]
      BY <2>5 DEF OpenTasklet
    <3>4. w' \in [Steps -> {"idle", "done"} \cup Active]
      BY <2>5 DEF OpenTasklet
    <3> QED
      BY <2>5, <3>2, <3>3, <3>4 DEF OpenTasklet, mvars, jvars, svars, hvars
  <2>6. CASE ExecuteTasklet(s)
    <3>1. se' \in [Steps -> StepExecutions]
      <4>1. ASSUME NEW x \in {"COMPLETED", "FAILED"},
                   se' = [se EXCEPT ![s] = [@ EXCEPT !.status = "COMPLETED", !.exit = x]]
            PROVE  se' \in [Steps -> StepExecutions]
        <5>1. [se[s] EXCEPT !.status = "COMPLETED", !.exit = x] \in StepExecutions
          <6>1. se[s] \in StepExecutions /\ x \in Exits
            OBVIOUS
          <6> QED
            BY <6>1, CompletedType
        <5> QED
          BY <4>1, <5>1
      <4>2. CASE se' = [se EXCEPT ![s] = Failed(@)]
        BY <4>2, FailedType
      <4> QED
        BY <2>6, <4>1, <4>2 DEF ExecuteTasklet
    <3>2. stepErr' \in [Steps -> Errors]
      BY <2>6 DEF ExecuteTasklet
    <3> QED
      BY <2>6, <3>1, <3>2 DEF ExecuteTasklet, mvars, jvars, hvars
  <2>7. CASE CloseTasklet(s)
    <3>1. se[s] \in StepExecutions
      BY FailedType
    <3>2. /\ se' \in [Steps -> StepExecutions] /\ rows' \in [Steps -> StepStatuses]
          /\ faults' \in 0..MaxFaults /\ disturbed' \in BOOLEAN
      BY <2>7, <3>1, StepWriteTypes DEF CloseTasklet
    <3>3. stepErr' \in [Steps -> Errors]
      BY <2>7 DEF CloseTasklet
    <3>4. w' \in [Steps -> {"idle", "done"} \cup Active]
      BY <2>7 DEF CloseTasklet
    <3> QED
      BY <2>7, <3>2, <3>3, <3>4 DEF CloseTasklet, mvars, jvars, svars, hvars
  <2> QED
    BY <1>16, <2>1, <2>2, <2>3, <2>4, <2>5, <2>6, <2>7 DEF Goroutine
<1>17. CASE UNCHANGED vars
  BY <1>17 DEF vars, mvars, jvars, svars, hvars
<1> QED
  BY <1>1, <1>2, <1>3, <1>4, <1>5, <1>6, <1>7, <1>8, <1>9, <1>10, <1>11, <1>12, <1>13,
     <1>14, <1>15, <1>16, <1>17 DEF Next, Main

\* No goroutine runs at first.
LEMMA PlacesInit == Init => Places
BY DEF Init, Places, AtStep, AtSplit, Between

\* A step begins and ends with the run standing at its element.
LEMMA PlacesStep == TypeOK /\ Places /\ [Next]_vars => Places'
<1> SUFFICES ASSUME TypeOK, Places, [Next]_vars PROVE Places'
  OBVIOUS
<1> USE FlowFacts DEF TypeOK, StepExecutions, JobExecutions, Elements, JobStatuses,
   StepStatuses, Exits, Errors, Active, None, Places, AtStep, AtSplit, Between, IsFinished,
   NoFault, Fault, Fails
<1>1. CASE Launch
  BY <1>1 DEF Launch, mvars, jvars, svars, hvars
<1>2. CASE Cancel
  BY <1>2 DEF Cancel, mvars, jvars, svars, hvars
<1>3. CASE Crash
  BY <1>3 DEF Crash, Fault, mvars, jvars, svars, hvars
<1>4. CASE LoopCancelled
  BY <1>4 DEF LoopCancelled, mvars, jvars, svars, hvars
<1>5. CASE UnknownElement
  BY <1>5 DEF UnknownElement, mvars, jvars, svars, hvars
<1>6. CASE BeginStep
  BY <1>6 DEF BeginStep, mvars, jvars, svars, hvars
<1>7. CASE SaveStep
  <2>1. element \in Steps /\ at = "step" /\ element \in flow.steps
    BY <1>7 DEF SaveStep
  <2>2. CASE UNCHANGED <<at, job>> /\ w' = [w EXCEPT ![element] = "start"]
    BY <1>7, <2>1, <2>2 DEF SaveStep
  <2>3. CASE /\ job' = [job EXCEPT !.status = "FAILED"] /\ at' = "ending"
             /\ w' = [w EXCEPT ![element] = "idle"]
    BY <1>7, <2>1, <2>3 DEF SaveStep
  <2> QED
    BY <1>7, <2>2, <2>3 DEF SaveStep
<1>8. CASE StepReturns
  BY <1>8 DEF StepReturns, UpdateJobExecution, MarkBy, mvars, jvars, svars, hvars
<1>9. CASE Decide
  BY <1>9 DEF Decide, MarkBy, mvars, jvars, svars, hvars
<1>10. CASE BeginSplit
  BY <1>10 DEF BeginSplit, mvars, jvars, svars, hvars
<1>11. CASE JoinSplit
  BY <1>11 DEF JoinSplit, mvars, jvars, svars, hvars
<1>12. CASE NoTransition
  BY <1>12 DEF NoTransition, mvars, jvars, svars, hvars
<1>13. CASE TransitionTo
  BY <1>13 DEF TransitionTo, Transition, mvars, jvars, svars, hvars
<1>14. CASE TransitionEnds
  BY <1>14 DEF TransitionEnds, Transition, mvars, jvars, svars, hvars
<1>15. CASE JobEnds
  BY <1>15 DEF JobEnds, UpdateJobExecution, mvars, jvars, svars, hvars
<1>16. ASSUME NEW s \in Steps, Goroutine(s) PROVE Places'
  <2>1. CASE Search(s)
    BY <2>1 DEF Search, mvars, jvars, svars, hvars
  <2>2. CASE AppendExecution(s)
    BY <2>2 DEF AppendExecution, mvars, jvars, svars, hvars
  <2>3. CASE SaveMember(s)
    BY <2>3 DEF SaveMember, SaveStepExecution, mvars, jvars, svars, hvars
  <2>4. CASE StartTasklet(s)
    BY <2>4 DEF StartTasklet, UpdateStepExecution, mvars, jvars, svars, hvars
  <2>5. CASE OpenTasklet(s)
    BY <2>5 DEF OpenTasklet, UpdateStepExecution, Failed, mvars, jvars, svars, hvars
  <2>6. CASE ExecuteTasklet(s)
    BY <2>6 DEF ExecuteTasklet, Failed, mvars, jvars, svars, hvars
  <2>7. CASE CloseTasklet(s)
    BY <2>7 DEF CloseTasklet, UpdateStepExecution, mvars, jvars, svars, hvars
  <2> QED
    BY <1>16, <2>1, <2>2, <2>3, <2>4, <2>5, <2>6, <2>7 DEF Goroutine
<1>17. CASE UNCHANGED vars
  BY <1>17 DEF vars, mvars, jvars, svars, hvars
<1> QED
  BY <1>1, <1>2, <1>3, <1>4, <1>5, <1>6, <1>7, <1>8, <1>9, <1>10, <1>11, <1>12, <1>13,
     <1>14, <1>15, <1>16, <1>17 DEF Next, Main

\* The walk is typed and its goroutines are where it stands.
THEOREM FlowTypes == Spec => [](TypeOK /\ Places)
BY TypeInit, TypeStep, PlacesInit, PlacesStep, PTL DEF Spec

\* The row of a step is written by its own TaskletStep.Execute only.
LEMMA RecordedStep == TypeOK /\ Places /\ WorkIsRecorded /\ [Next]_vars => WorkIsRecorded'
<1> SUFFICES ASSUME TypeOK, Places, WorkIsRecorded, [Next]_vars PROVE WorkIsRecorded'
  OBVIOUS
<1> USE DEF TypeOK, StepExecutions, JobExecutions, Elements, JobStatuses, StepStatuses,
   Exits, Errors, Active, None, Places, AtStep, AtSplit, Between, WorkIsRecorded, NoFault,
   Fault, Fails
<1>1. CASE Launch
  BY <1>1 DEF Launch, mvars, jvars, svars, hvars
<1>2. CASE Cancel
  BY <1>2 DEF Cancel, mvars, jvars, svars, hvars
<1>3. CASE Crash
  BY <1>3 DEF Crash, Fault, mvars, jvars, svars, hvars
<1>4. CASE LoopCancelled
  BY <1>4 DEF LoopCancelled, mvars, jvars, svars, hvars
<1>5. CASE UnknownElement
  BY <1>5 DEF UnknownElement, mvars, jvars, svars, hvars
<1>6. CASE BeginStep
  BY <1>6 DEF BeginStep, mvars, jvars, svars, hvars
<1>7. CASE SaveStep
  BY <1>7 DEF SaveStep, SaveStepExecution, mvars, jvars, svars, hvars
<1>8. CASE StepReturns
  BY <1>8 DEF StepReturns, UpdateJobExecution, MarkBy, mvars, jvars, svars, hvars
<1>9. CASE Decide
  BY <1>9 DEF Decide, MarkBy, mvars, jvars, svars, hvars
<1>10. CASE BeginSplit
  BY <1>10 DEF BeginSplit, mvars, jvars, svars, hvars
<1>11. CASE JoinSplit
  BY <1>11 DEF JoinSplit, mvars, jvars, svars, hvars
<1>12. CASE NoTransition
  BY <1>12 DEF NoTransition, mvars, jvars, svars, hvars
<1>13. CASE TransitionTo
  BY <1>13 DEF TransitionTo, Transition, mvars, jvars, svars, hvars
<1>14. CASE TransitionEnds
  BY <1>14 DEF TransitionEnds, Transition, mvars, jvars, svars, hvars
<1>15. CASE JobEnds
  BY <1>15 DEF JobEnds, UpdateJobExecution, mvars, jvars, svars, hvars
<1>16. ASSUME NEW s \in Steps, Goroutine(s) PROVE WorkIsRecorded'
  <2>1. CASE Search(s)
    BY <2>1 DEF Search, mvars, jvars, svars, hvars
  <2>2. CASE AppendExecution(s)
    BY <2>2 DEF AppendExecution, mvars, jvars, svars, hvars
  <2>3. CASE SaveMember(s)
    BY <2>3 DEF SaveMember, SaveStepExecution, mvars, jvars, svars, hvars
  <2>4. CASE StartTasklet(s)
    BY <2>4 DEF StartTasklet, UpdateStepExecution, mvars, jvars, svars, hvars
  <2>5. CASE OpenTasklet(s)
    BY <2>5 DEF OpenTasklet, UpdateStepExecution, Failed, mvars, jvars, svars, hvars
  <2>6. CASE ExecuteTasklet(s)
    BY <2>6 DEF ExecuteTasklet, Failed, mvars, jvars, svars, hvars
  <2>7. CASE CloseTasklet(s)
    BY <2>7 DEF CloseTasklet, UpdateStepExecution, mvars, jvars, svars, hvars
  <2> QED
    BY <1>16, <2>1, <2>2, <2>3, <2>4, <2>5, <2>6, <2>7 DEF Goroutine
<1>17. CASE UNCHANGED vars
  BY <1>17 DEF vars, mvars, jvars, svars, hvars
<1> QED
  BY <1>1, <1>2, <1>3, <1>4, <1>5, <1>6, <1>7, <1>8, <1>9, <1>10, <1>11, <1>12, <1>13,
     <1>14, <1>15, <1>16, <1>17 DEF Next, Main

\* TaskletStep.Execute: no tasklet works unseen, in whatever order the goroutines
\* of a split search, append and save.
THEOREM WorkRecorded == Spec => []WorkIsRecorded
<1>1. Init => WorkIsRecorded
  BY DEF Init, WorkIsRecorded
<1> QED
  BY <1>1, RecordedStep, FlowTypes, PTL DEF Spec

\* Only the tasklet's own Execute sets the status that Close leaves alone.
LEMMA ClosesStep == TypeOK /\ Places /\ ClosesCompleted /\ [Next]_vars => ClosesCompleted'
<1> SUFFICES ASSUME TypeOK, Places, ClosesCompleted, [Next]_vars PROVE ClosesCompleted'
  OBVIOUS
<1> USE DEF TypeOK, StepExecutions, JobExecutions, Elements, JobStatuses, StepStatuses,
   Exits, Errors, Active, None, Places, AtStep, AtSplit, Between, ClosesCompleted,
   ErrorKinds, NewStepExecution, NoFault, Fault, Fails
<1>1. CASE Launch
  BY <1>1 DEF Launch, mvars, jvars, svars, hvars
<1>2. CASE Cancel
  BY <1>2 DEF Cancel, mvars, jvars, svars, hvars
<1>3. CASE Crash
  BY <1>3 DEF Crash, Fault, mvars, jvars, svars, hvars
<1>4. CASE LoopCancelled
  BY <1>4 DEF LoopCancelled, mvars, jvars, svars, hvars
<1>5. CASE UnknownElement
  BY <1>5 DEF UnknownElement, mvars, jvars, svars, hvars
<1>6. CASE BeginStep
  BY <1>6 DEF BeginStep, mvars, jvars, svars, hvars
<1>7. CASE SaveStep
  BY <1>7 DEF SaveStep, SaveStepExecution, mvars, jvars, svars, hvars
<1>8. CASE StepReturns
  BY <1>8 DEF StepReturns, UpdateJobExecution, MarkBy, mvars, jvars, svars, hvars
<1>9. CASE Decide
  BY <1>9 DEF Decide, MarkBy, mvars, jvars, svars, hvars
<1>10. CASE BeginSplit
  BY <1>10 DEF BeginSplit, mvars, jvars, svars, hvars
<1>11. CASE JoinSplit
  BY <1>11 DEF JoinSplit, mvars, jvars, svars, hvars
<1>12. CASE NoTransition
  BY <1>12 DEF NoTransition, mvars, jvars, svars, hvars
<1>13. CASE TransitionTo
  BY <1>13 DEF TransitionTo, Transition, mvars, jvars, svars, hvars
<1>14. CASE TransitionEnds
  BY <1>14 DEF TransitionEnds, Transition, mvars, jvars, svars, hvars
<1>15. CASE JobEnds
  BY <1>15 DEF JobEnds, UpdateJobExecution, mvars, jvars, svars, hvars
<1>16. ASSUME NEW s \in Steps, Goroutine(s) PROVE ClosesCompleted'
  <2>1. CASE Search(s)
    BY <2>1 DEF Search, mvars, jvars, svars, hvars
  <2>2. CASE AppendExecution(s)
    BY <2>2 DEF AppendExecution, mvars, jvars, svars, hvars
  <2>3. CASE SaveMember(s)
    BY <2>3 DEF SaveMember, SaveStepExecution, mvars, jvars, svars, hvars
  <2>4. CASE StartTasklet(s)
    BY <2>4 DEF StartTasklet, UpdateStepExecution, mvars, jvars, svars, hvars
  <2>5. CASE OpenTasklet(s)
    BY <2>5 DEF OpenTasklet, UpdateStepExecution, Failed, mvars, jvars, svars, hvars
  <2>6. CASE ExecuteTasklet(s)
    <3>1. se[s] \in StepExecutions
      OBVIOUS
    <3>2. CASE \E e \in ErrorKinds : stepErr' = [stepErr EXCEPT ![s] = e]
      BY <2>6, <3>2 DEF ExecuteTasklet, mvars, jvars, hvars
    <3>3. ASSUME NEW x \in {"COMPLETED", "FAILED"}, UNCHANGED stepErr,
                 se' = [se EXCEPT ![s] = [@ EXCEPT !.status = "COMPLETED", !.exit = x]]
          PROVE  ClosesCompleted'
      <4>1. se'[s].status = "COMPLETED"
        <5>1. se'[s] = [se[s] EXCEPT !.status = "COMPLETED", !.exit = x] /\ x \in Exits
          BY <3>3
        <5>2. [se[s] EXCEPT !.status = "COMPLETED", !.exit = x].status = "COMPLETED"
          BY <3>1
        <5> QED
          BY <5>1, <5>2
      <4> QED
        BY <2>6, <3>3, <4>1 DEF ExecuteTasklet, mvars, jvars, hvars
    <3> QED
      BY <2>6, <3>2, <3>3 DEF ExecuteTasklet
  <2>7. CASE CloseTasklet(s)
    BY <2>7 DEF CloseTasklet, UpdateStepExecution, mvars, jvars, svars, hvars
  <2> QED
    BY <1>16, <2>1, <2>2, <2>3, <2>4, <2>5, <2>6, <2>7 DEF Goroutine
<1>17. CASE UNCHANGED vars
  BY <1>17 DEF vars, mvars, jvars, svars, hvars
<1> QED
  BY <1>1, <1>2, <1>3, <1>4, <1>5, <1>6, <1>7, <1>8, <1>9, <1>10, <1>11, <1>12, <1>13,
     <1>14, <1>15, <1>16, <1>17 DEF Next, Main

\* What makes a step's success is the update that took its row.
LEMMA SuccessStep ==
  TypeOK /\ Places /\ ClosesCompleted /\ SuccessIsRecorded /\ [Next]_vars => SuccessIsRecorded'
<1> SUFFICES ASSUME TypeOK, Places, ClosesCompleted, SuccessIsRecorded, [Next]_vars
             PROVE  SuccessIsRecorded'
  OBVIOUS
<1> USE DEF TypeOK, StepExecutions, JobExecutions, Elements, JobStatuses, StepStatuses,
   Exits, Errors, Active, None, Places, AtStep, AtSplit, Between, ClosesCompleted,
   SuccessIsRecorded, ErrorKinds, NoFault, Fault, Fails
<1>1. CASE Launch
  BY <1>1 DEF Launch, mvars, jvars, svars, hvars
<1>2. CASE Cancel
  BY <1>2 DEF Cancel, mvars, jvars, svars, hvars
<1>3. CASE Crash
  BY <1>3 DEF Crash, Fault, mvars, jvars, svars, hvars
<1>4. CASE LoopCancelled
  BY <1>4 DEF LoopCancelled, mvars, jvars, svars, hvars
<1>5. CASE UnknownElement
  BY <1>5 DEF UnknownElement, mvars, jvars, svars, hvars
<1>6. CASE BeginStep
  BY <1>6 DEF BeginStep, mvars, jvars, svars, hvars
<1>7. CASE SaveStep
  BY <1>7 DEF SaveStep, SaveStepExecution, mvars, jvars, svars, hvars
<1>8. CASE StepReturns
  BY <1>8 DEF StepReturns, UpdateJobExecution, MarkBy, mvars, jvars, svars, hvars
<1>9. CASE Decide
  BY <1>9 DEF Decide, MarkBy, mvars, jvars, svars, hvars
<1>10. CASE BeginSplit
  BY <1>10 DEF BeginSplit, mvars, jvars, svars, hvars
<1>11. CASE JoinSplit
  BY <1>11 DEF JoinSplit, mvars, jvars, svars, hvars
<1>12. CASE NoTransition
  BY <1>12 DEF NoTransition, mvars, jvars, svars, hvars
<1>13. CASE TransitionTo
  BY <1>13 DEF TransitionTo, Transition, mvars, jvars, svars, hvars
<1>14. CASE TransitionEnds
  BY <1>14 DEF TransitionEnds, Transition, mvars, jvars, svars, hvars
<1>15. CASE JobEnds
  BY <1>15 DEF JobEnds, UpdateJobExecution, mvars, jvars, svars, hvars
<1>16. ASSUME NEW s \in Steps, Goroutine(s) PROVE SuccessIsRecorded'
  <2>1. CASE Search(s)
    BY <2>1 DEF Search, mvars, jvars, svars, hvars
  <2>2. CASE AppendExecution(s)
    BY <2>2 DEF AppendExecution, mvars, jvars, svars, hvars
  <2>3. CASE SaveMember(s)
    BY <2>3 DEF SaveMember, SaveStepExecution, mvars, jvars, svars, hvars
  <2>4. CASE StartTasklet(s)
    BY <2>4 DEF StartTasklet, UpdateStepExecution, mvars, jvars, svars, hvars
  <2>5. CASE OpenTasklet(s)
    BY <2>5 DEF OpenTasklet, UpdateStepExecution, Failed, mvars, jvars, svars, hvars
  <2>6. CASE ExecuteTasklet(s)
    BY <2>6 DEF ExecuteTasklet, Failed, mvars, jvars, svars, hvars
  <2>7. CASE CloseTasklet(s)
    BY <2>7 DEF CloseTasklet, UpdateStepExecution, mvars, jvars, svars, hvars
  <2> QED
    BY <1>16, <2>1, <2>2, <2>3, <2>4, <2>5, <2>6, <2>7 DEF Goroutine
<1>17. CASE UNCHANGED vars
  BY <1>17 DEF vars, mvars, jvars, svars, hvars
<1> QED
  BY <1>1, <1>2, <1>3, <1>4, <1>5, <1>6, <1>7, <1>8, <1>9, <1>10, <1>11, <1>12, <1>13,
     <1>14, <1>15, <1>16, <1>17 DEF Next, Main

\* TaskletStep.Execute: success is reported only with a COMPLETED row.
THEOREM SuccessRecorded == Spec => []SuccessIsRecorded
<1>1. Init => ClosesCompleted /\ SuccessIsRecorded
  BY DEF Init, ClosesCompleted, SuccessIsRecorded
<1> QED
  BY <1>1, ClosesStep, SuccessStep, FlowTypes, PTL DEF Spec

-----------------------------------------------------------------------------
(* FlowJob implements FlowWalk: StepsLeft and WalkStatus are its todo and  *)
(* outcome.                                                                *)

\* What is left of the element the run stands at.
Left == /\ at = "loop" => StepsLeft = StepsOf(flow, element)
        /\ at \notin {"loop", "step", "split"} => StepsLeft = {}
        /\ at = "step" => StepsLeft = {s \in {element} : w[s] # "done"}
        /\ at = "split" => StepsLeft = {s \in flow.splits[element] : w[s] # "done"}

\* Only the steps of that element are at work.
LEMMA LeftHolds == TypeOK /\ Places => Left
<1> SUFFICES ASSUME TypeOK, Places PROVE Left
  OBVIOUS
<1> USE FlowFacts DEF TypeOK, Places, AtStep, AtSplit, Between, StepsLeft, Active
<1>1. at = "loop" => StepsLeft = StepsOf(flow, element)
  OBVIOUS
<1>2. at \notin {"loop", "step", "split"} => StepsLeft = {}
  OBVIOUS
<1>3. at = "step" => StepsLeft = {s \in {element} : w[s] # "done"}
  OBVIOUS
<1>4. at = "split" => StepsLeft = {s \in flow.splits[element] : w[s] # "done"}
  OBVIOUS
<1> QED
  BY <1>1, <1>2, <1>3, <1>4 DEF Left

\* The operators of FlowWalk's own copy of FlowDefinition are FlowJob's.
LEMMA SameDefinition ==
  \A f, e : /\ Walk!StepsOf(f, e) = StepsOf(f, e) /\ Walk!Elements(f) = Elements(f)
            /\ Walk!HasRule(f, e) = HasRule(f, e) /\ Walk!RuleOf(f, e) = RuleOf(f, e)
BY DEF Walk!StepsOf, StepsOf, Walk!Elements, Elements, Walk!HasRule, HasRule, Walk!RuleOf, RuleOf

\* A run that is not started has no step to do.
LEMMA WalkInit == Init => Walk!Init
BY DEF Init, Walk!Init, StepsLeft, WalkStatus, Active

\* A goroutine goes on with its step, or ends it.
LEMMA GoroutineWalks ==
  ASSUME TypeOK, Places, NEW s \in Steps, Goroutine(s)
  PROVE  Walk!StepEnds \/ UNCHANGED <<flow, element, StepsLeft, WalkStatus>>
<1>1. /\ UNCHANGED mvars /\ w[s] \in Active
      /\ \E v \in Active \cup {"done"} : w' = [w EXCEPT ![s] = v]
  <2> USE DEF Active, mvars
  <2>1. CASE Search(s)
    BY <2>1 DEF Search
  <2>2. CASE AppendExecution(s)
    BY <2>2 DEF AppendExecution
  <2>3. CASE SaveMember(s)
    BY <2>3 DEF SaveMember
  <2>4. CASE StartTasklet(s)
    BY <2>4 DEF StartTasklet
  <2>5. CASE OpenTasklet(s)
    BY <2>5 DEF OpenTasklet
  <2>6. CASE ExecuteTasklet(s)
    BY <2>6 DEF ExecuteTasklet
  <2>7. CASE CloseTasklet(s)
    BY <2>7 DEF CloseTasklet
  <2> QED
    BY <2>1, <2>2, <2>3, <2>4, <2>5, <2>6, <2>7 DEF Goroutine
<1>2. /\ at \in {"step", "split"} /\ UNCHANGED <<flow, element, at>>
      /\ w \in [Steps -> {"idle", "done"} \cup Active]
  BY <1>1 DEF TypeOK, Places, Between, Active, mvars
<1>3. WalkStatus = "RUNNING" /\ WalkStatus' = WalkStatus
  BY <1>2 DEF WalkStatus
<1>4. CASE w'[s] = "done"
  <2>1. s \in StepsLeft /\ StepsLeft' = StepsLeft \ {s}
    BY <1>1, <1>2, <1>4 DEF StepsLeft, Active
  <2> QED
    BY <1>2, <1>3, <2>1 DEF Walk!StepEnds
<1>5. CASE w'[s] \in Active
  <2>1. StepsLeft' = StepsLeft
    BY <1>1, <1>2, <1>5 DEF StepsLeft, Active
  <2> QED
    BY <1>2, <1>3, <2>1
<1> QED
  BY <1>1, <1>2, <1>4, <1>5

\* Run moves from element to element as the walk does; what it does in between
\* is a stuttering step of it.
LEMMA WalkStep ==
  TypeOK /\ Places /\ Left /\ Left' /\ [Next]_vars => [Walk!Next]_(Walk!wvars)
<1> SUFFICES ASSUME TypeOK, Places, Left, Left', [Next]_vars
             PROVE  Walk!Next \/ UNCHANGED <<flow, element, StepsLeft, WalkStatus>>
  BY DEF Walk!wvars
<1>a. flow \in Flows /\ job \in JobExecutions
  BY DEF TypeOK
<1> USE SameDefinition
<1>1. CASE Launch
  <2>1. StepsLeft' = StepsOf(flow, element)' /\ WalkStatus' = "RUNNING"
    BY <1>1 DEF Launch, StepsLeft, WalkStatus
  <2>2. WalkStatus # "RUNNING"
    BY <1>1 DEF Launch, WalkStatus, Places, Between, IsFinished
  <2>3. flow' \in Flows /\ element' \in {flow'.start} \cup Steps
    BY <1>1 DEF Launch, TypeOK, None
  <2>4. Walk!Launch
    BY <2>1, <2>2, <2>3 DEF Walk!Launch, Walk!StepsOf, StepsOf
  <2> QED
    BY <2>4 DEF Walk!Next
<1>2. CASE Cancel
  BY <1>2 DEF Cancel, StepsLeft, WalkStatus, mvars, jvars, svars
<1>3. CASE Crash
  <2>1. WalkStatus' = "DIED" /\ StepsLeft' = {} /\ UNCHANGED <<flow, element>>
    BY <1>3 DEF Crash, WalkStatus, Left
  <2>2. WalkStatus \notin {"READY", "DIED"}
    BY <1>3 DEF Crash, WalkStatus, Places, Between, IsFinished
  <2>3. Walk!Die
    BY <2>1, <2>2 DEF Walk!Die
  <2> QED
    BY <2>3 DEF Walk!Next
<1>4. CASE LoopCancelled \/ UnknownElement
  <2>1. WalkStatus = "RUNNING" /\ StepsLeft = StepsOf(flow, element)
    BY <1>4 DEF LoopCancelled, UnknownElement, WalkStatus, Left
  <2>2. at' = "ending" /\ job'.status \in {"FAILED", "STOPPED"} /\ UNCHANGED <<flow, element>>
    BY <1>4, <1>a DEF LoopCancelled, UnknownElement, JobExecutions
  <2>3. WalkStatus' \in {"FAILED", "STOPPED"} /\ StepsLeft' = {}
    BY <2>2 DEF WalkStatus, Left
  <2>4. Walk!GiveUp
    BY <2>1, <2>2, <2>3 DEF Walk!GiveUp
  <2> QED
    BY <2>4 DEF Walk!Next
<1>5. CASE BeginStep
  <2>1. element \in Steps /\ StepsLeft = {element} /\ WalkStatus = "RUNNING"
    BY <1>5, <1>a, FlowFacts DEF BeginStep, StepsOf, Left, WalkStatus
  <2>2. at' = "step" /\ w'[element] # "done" /\ UNCHANGED <<flow, element>>
    BY <1>5, <2>1 DEF BeginStep, TypeOK
  <2>3. StepsLeft' = {element} /\ WalkStatus' = "RUNNING"
    BY <2>2 DEF Left, WalkStatus
  <2> QED
    BY <2>1, <2>2, <2>3
<1>6. CASE SaveStep
  <2>1. /\ at = "step" /\ element \in flow.steps /\ element \in Steps /\ w[element] = "save"
        /\ UNCHANGED <<flow, element>>
    BY <1>6, <1>a, FlowFacts DEF SaveStep, Places, AtStep
  <2>2. StepsLeft = {element} /\ StepsLeft = StepsOf(flow, element) /\ WalkStatus = "RUNNING"
    BY <2>1 DEF Left, StepsOf, WalkStatus
  <2>3. CASE UNCHANGED <<at, job>> /\ w' = [w EXCEPT ![element] = "start"]
    <3>1. at' = "step" /\ w'[element] # "done"
      BY <2>1, <2>3 DEF TypeOK
    <3>2. StepsLeft' = {element} /\ WalkStatus' = "RUNNING"
      BY <2>1, <3>1 DEF Left, WalkStatus
    <3> QED
      BY <2>1, <2>2, <3>2
  <2>4. CASE job' = [job EXCEPT !.status = "FAILED"] /\ at' = "ending"
    <3>1. StepsLeft' = {} /\ WalkStatus' = "FAILED"
      BY <2>4, <1>a DEF Left, WalkStatus, JobExecutions
    <3>2. Walk!GiveUp
      BY <2>1, <2>2, <3>1 DEF Walk!GiveUp
    <3> QED
      BY <3>2 DEF Walk!Next
  <2> QED
    BY <1>6, <2>3, <2>4 DEF SaveStep
<1>7. CASE StepReturns \/ JoinSplit
  <2>1. UNCHANGED <<flow, element>> /\ at \in {"step", "split"} /\ at' = "rules"
    BY <1>7 DEF StepReturns, JoinSplit
  <2>2. StepsLeft = {}
    BY <1>7 DEF StepReturns, JoinSplit, Left
  <2>3. StepsLeft' = {} /\ WalkStatus = "RUNNING" /\ WalkStatus' = "RUNNING"
    BY <2>1 DEF Left, WalkStatus
  <2> QED
    BY <2>1, <2>2, <2>3
<1>8. CASE Decide
  <2>1. UNCHANGED <<flow, element>> /\ at = "loop" /\ at' = "rules" /\ element \in flow.decisions
    BY <1>8 DEF Decide
  <2>2. StepsLeft = {}
    BY <2>1, <1>a, FlowFacts DEF Left, StepsOf
  <2>3. StepsLeft' = {} /\ WalkStatus = "RUNNING" /\ WalkStatus' = "RUNNING"
    BY <2>1 DEF Left, WalkStatus
  <2> QED
    BY <2>1, <2>2, <2>3
<1>9. CASE BeginSplit
  <2>1. /\ UNCHANGED <<flow, element>> /\ at = "loop" /\ at' = "split"
        /\ element \in DOMAIN flow.splits
        /\ \A s \in flow.splits[element] : w'[s] = "search"
    BY <1>9, <1>a, FlowFacts DEF BeginSplit
  <2>2. StepsLeft = flow.splits[element]
    BY <2>1, <1>a, FlowFacts DEF Left, StepsOf
  <2>3. StepsLeft' = flow.splits[element] /\ WalkStatus = "RUNNING" /\ WalkStatus' = "RUNNING"
    BY <2>1 DEF Left, WalkStatus
  <2> QED
    BY <2>1, <2>2, <2>3
<1>10. ASSUME at = "rules" PROVE WalkStatus = "RUNNING" /\ StepsLeft = {} /\ element \in Elements(flow)
  BY <1>10 DEF WalkStatus, Left, Places, Between
<1>11. CASE NoTransition
  <2>1. at = "rules" /\ ~HasRule(flow, element) /\ at' = "ending" /\ UNCHANGED <<flow, element>>
    BY <1>11 DEF NoTransition
  <2>2. WalkStatus' \in {"COMPLETED", "FAILED"} /\ StepsLeft' = {}
    BY <1>11, <1>a, <2>1 DEF NoTransition, WalkStatus, Left, JobExecutions
  <2>3. Walk!End
    BY <2>1, <2>2, <1>10 DEF Walk!End
  <2> QED
    BY <2>3 DEF Walk!Next
<1>12. CASE TransitionTo
  <2>1. /\ at = "rules" /\ HasRule(flow, element) /\ RuleOf(flow, element).go = "to"
        /\ at' = "loop" /\ flow' = flow /\ element' = RuleOf(flow, element).to
    BY <1>12 DEF TransitionTo, Transition
  <2>2. WalkStatus' = "RUNNING" /\ StepsLeft' = StepsOf(flow, element)'
    BY <2>1 DEF WalkStatus, Left
  <2>3. StepsLeft' = Walk!StepsOf(flow, element')
    BY <2>1, <2>2 DEF Walk!StepsOf, StepsOf
  <2>4. Walk!Move
    BY <2>1, <2>2, <2>3, <1>10 DEF Walk!Move
  <2> QED
    BY <2>4 DEF Walk!Next
<1>13. CASE TransitionEnds
  <2>1. PICK go \in Outcomes \ {"to"} :
          /\ Transition(go) /\ at' = "ending" /\ UNCHANGED <<element, exit, err>>
          /\ job' = [job EXCEPT !.status = IF go = "end" THEN "COMPLETED"
                                           ELSE IF go = "fail" THEN "FAILED" ELSE "STOPPED"]
    BY <1>13 DEF TransitionEnds
  <2>2. /\ at = "rules" /\ HasRule(flow, element) /\ RuleOf(flow, element).go = go
        /\ UNCHANGED <<flow, element>>
    BY <2>1 DEF Transition
  <2>3. StepsLeft' = {} /\ WalkStatus' = job'.status
    BY <2>1 DEF WalkStatus, Left
  <2>4. \/ go = "end" /\ WalkStatus' = "COMPLETED"
        \/ go = "fail" /\ WalkStatus' = "FAILED"
        \/ go = "stop" /\ WalkStatus' = "STOPPED"
    BY <2>1, <2>3, <1>a DEF Outcomes, JobExecutions
  <2>5. Walk!End
    BY <2>2, <2>3, <2>4, <1>10 DEF Walk!End
  <2> QED
    BY <2>5 DEF Walk!Next
<1>14. CASE JobEnds
  <2>1. at = "ending" /\ at' = "ended" /\ IsFinished(job.status) /\ UNCHANGED <<flow, element>>
    BY <1>14 DEF JobEnds, Places, Between
  <2>2. UpdateJobExecution(job, job)
    BY <1>14, <2>1 DEF JobEnds
  <2>3. job'.status = job.status
    BY <2>2, <1>a, JobWriteTypes
  <2>4. StepsLeft = {} /\ StepsLeft' = {} /\ WalkStatus' = WalkStatus
    BY <2>1, <2>3 DEF Left, WalkStatus
  <2> QED
    BY <2>1, <2>4
<1>15. CASE UNCHANGED vars
  BY <1>15 DEF vars, mvars, jvars, svars, StepsLeft, WalkStatus
<1>16. ASSUME NEW s \in Steps, Goroutine(s)
       PROVE  Walk!Next \/ UNCHANGED <<flow, element, StepsLeft, WalkStatus>>
  BY <1>16, GoroutineWalks DEF Walk!Next
<1> QED
  BY <1>1, <1>2, <1>3, <1>4, <1>5, <1>6, <1>7, <1>8, <1>9, <1>11, <1>12, <1>13, <1>14, <1>15,
     <1>16 DEF Next, Main

\* FlowJob.Run walks the flow: no element is skipped or left while a step of it is
\* at work, and the JobExecution ends with the status the walk ended with.
THEOREM RunWalksFlow == Spec => WalkSpec
<1>1. Spec => [](TypeOK /\ Places /\ Left)
  BY FlowTypes, LeftHolds, PTL
<1> QED
  BY <1>1, WalkInit, WalkStep, PTL DEF Spec, WalkSpec, Walk!Spec

=============================================================================
