------------------------------ MODULE JobStart ------------------------------
(***************************************************************************)
(* What a process of an application does until its job runs: it reads its  *)
(* configuration, loads the JSL, and calls SimpleJobLauncher.Launch, which *)
(* creates the job and finds or saves its JobInstance in the SQL           *)
(* repository.  Of the job that then runs there are the contexts of its    *)
(* steps and what is promoted from them (FlowJob has the walk).  The       *)
(* process ends, and another one starts: the table is what is left.        *)
(* Launches that race are module JobLifecycle.                             *)
(***************************************************************************)
EXTENDS JobDefinition, Configuration, ExecutionContext

CONSTANTS Requests,   \* parameters a caller gives
          StepContexts, \* what a step may leave in its ExecutionContext
          Promotions,   \* pairs of keys, in the order they are promoted
          Reconfigured, Redeployed, \* bound: sources and definitions of all processes
                                    \* but the first
          MaxLaunches,  \* bound: processes
          MaxSteps      \* bound: steps of one execution, with the first of them

ASSUME StartAssumption ==
  /\ MaxLaunches \in Nat /\ MaxSteps \in Nat
  /\ Reconfigured \subseteq Sources /\ Redeployed \subseteq Definitions
  /\ \A p \in Requests : ParametersOK(p)
  /\ \A ec \in StepContexts : ContextOK(ec)
  /\ \A keys \in Promotions : keys \in Seq(Keys \X Keys)

VARIABLES
  phase,    \* "down", "config", "supplied", "jsl", "create", "save", "launched",
            \* "running", "ended", "duplicate", "refused"
  source,   \* [yaml, env] of the process
  cfg,      \* its configuration
  request,  \* parameters of the launch
  table,    \* the JobInstances: [job, params, hash, last, asked, incremented]; last is
            \* the restartable JobExecution; asked and incremented are history
  instance, \* index of the instance the launch works on
  params,   \* parameters of its JobExecution
  context,  \* ExecutionContext of its JobExecution
  steps,    \* ExecutionContexts of its StepExecutions: the first is the copy a restart
            \* makes, or empty
  was,      \* history: the context of the execution it is a restart of, in memory
  launches

configVars == <<source, cfg>>
launchVars == <<request, instance, params>>
runVars == <<context, steps, was>>
startVars == <<defVars, phase, configVars, launchVars, runVars, table, launches>>

NoSource == [yaml |-> NewConfig, env |-> [f \in Fields \cup {"ref"} |-> Unset]]
NoParameters == [k \in {} |-> IntValue(0)]

\* fromDomainJobExecution and fromDomainStepExecution: the rows of a JobExecution
\* that is FAILED or STOPPED and of its last StepExecution; was is history, the
\* context as it was in memory.
FromDomainJobExecution(ec, se) ==
  [job |-> ContextValue(ec), step |-> ContextValue(se), was |-> ec]
NoExecution == FromDomainJobExecution(NewExecutionContext, NewExecutionContext)

StartInit ==
  /\ DefInit
  /\ phase = "down" /\ source = NoSource /\ cfg = NewConfig
  /\ request = NoParameters /\ instance = 0 /\ params = NoParameters
  /\ context = NewExecutionContext /\ steps = <<>> /\ was = NewExecutionContext
  /\ table = <<>> /\ launches = 0

-----------------------------------------------------------------------------
\* RunApplication: LoadConfig, or NewConfigProvider, which checks the exception
\* classes as well.
Configure ==
  /\ phase = "down" /\ launches < MaxLaunches
  /\ \E s \in IF launches = 0 THEN Sources ELSE Reconfigured, checked \in BOOLEAN :
       /\ source' = s
       /\ IF /\ Loads(s.yaml, s.env)
             /\ checked => ClassesRegistered(LoadConfig(s.yaml, s.env))
            THEN cfg' = LoadConfig(s.yaml, s.env) /\ phase' = "config"
            ELSE cfg' = cfg /\ phase' = "refused"
  /\ launches' = launches + 1
  /\ UNCHANGED <<defVars, launchVars, runVars, table>>

\* The fx graph is supplied with it: from here on only the name of the job is asked
\* of the configuration.
Supply ==
  /\ phase = "config" /\ phase' = "supplied"
  /\ source' = NoSource /\ cfg' = [NewConfig EXCEPT !.job_name = cfg.job_name]
  /\ UNCHANGED <<defVars, launchVars, runVars, table, launches>>

\* The modules of the graph register their builders, and the OnStart hook loads
\* the JSL.
Start ==
  /\ phase = "supplied"
  /\ \E d \in IF launches = 1 THEN Definitions ELSE Redeployed,
          left \in IF launches = 1 THEN SUBSET Optional ELSE {{}} :
       /\ RegisterBuilders(left)
       /\ LoadJSLDefinitionFromBytes(d)
       /\ phase' = IF Loadable(d) THEN "jsl" ELSE "refused"
  /\ UNCHANGED <<buildVars, configVars, launchVars, runVars, table, launches>>

\* Launch, up to FindJobInstanceByJobNameAndParameters.
Launch ==
  /\ phase = "jsl" /\ phase' = "create"
  /\ CreateJob(cfg.job_name)
  /\ UNCHANGED <<registry, loaded, configVars, launchVars, runVars, table, launches>>

Create ==
  /\ phase = "create" /\ Converting
  /\ UNCHANGED <<registry, loaded, phase, configVars, launchVars, runVars, table, launches>>

\* FindJobInstanceByJobNameAndParameters: the row has the hash, and its parameters
\* are the ones asked for.
Matches(i, p) ==
  /\ table[i].job = cfg.job_name /\ table[i].hash = Hash(p)
  /\ Equal(Scan(table[i].params), p)

\* NewJobExecution for the instance i; a restartable execution of it is ABANDONED,
\* and its context and those of its StepExecutions are copied (toDomainJobExecution,
\* ExecutionContext.Copy, CopyForRestart).
NewJobExecution(i) ==
  /\ context' = ContextScan(table[i].last.job)
  /\ steps' = <<ContextScan(table[i].last.step)>>
  /\ was' = table[i].last.was
  /\ table' = [table EXCEPT ![i].last = NoExecution]

\* Launch with the parameters p of a caller, or of JobOperator.Restart, which takes
\* them from the repository.
FindJobInstance(p) ==
  /\ phase = "create" /\ build \in {"built", "failed"}
  /\ request' = p
  /\ IF build = "failed" THEN phase' = "refused" /\ UNCHANGED <<instance, params, runVars, table>>
     ELSE IF \E i \in DOMAIN table : Matches(i, p)
       THEN /\ instance' = CHOOSE i \in DOMAIN table : Matches(i, p)
            /\ params' = Scan(table[instance'].params)
            /\ NewJobExecution(instance')
            /\ phase' = "launched"
       ELSE phase' = "save" /\ UNCHANGED <<instance, params, runVars, table>>
  /\ UNCHANGED <<defVars, configVars, launches>>

\* FindJobInstancesByJobNameAndPartialParameters, which the explorer asks.
FindJobInstances(job, p) ==
  {i \in DOMAIN table : table[i].job = job /\ ContainsParameters(Scan(table[i].params), p)}

\* The parameters of a new instance, now being the time.
NextParameters(now) ==
  LET i == GetJobParametersIncrementer(cfg.job_name)
  IN  IF i = "runIdIncrementer" THEN RunID(request)
      ELSE IF i = "timestampIncrementer" THEN Timestamp(request, now) ELSE request

\* GetNext, NewJobInstance, SaveJobInstance: the table has a unique index on the
\* name and the hash.
SaveJobInstance(now) ==
  LET p == NextParameters(now) IN
  /\ phase = "save"
  /\ IF \E i \in DOMAIN table : table[i].job = cfg.job_name /\ table[i].hash = Hash(p)
       THEN phase' = "duplicate" /\ UNCHANGED <<table, instance, params>>
       ELSE /\ table' = Append(table,
                 [job |-> cfg.job_name, params |-> Value(p), hash |-> Hash(p), last |-> NoExecution,
                  asked |-> request,
                  incremented |-> GetJobParametersIncrementer(cfg.job_name) # "none"])
            /\ instance' = Len(table) + 1 /\ params' = p
            /\ phase' = "launched"
  /\ steps' = <<NewExecutionContext>>
  /\ UNCHANGED <<defVars, configVars, request, context, was, launches>>

\* The job runs: nothing of how it came to run is used any more.
Forget ==
  /\ source' = NoSource /\ cfg' = NewConfig /\ registry' = {} /\ loaded' = NoElements
  /\ build' = "idle" /\ def' = NoDefinition /\ todo' = {} /\ built' = NoElements
  /\ flow' = NewFlowDefinition(Blank) /\ early' = FALSE

\* A step has run, or the copy of one could not, and its keys are promoted.  What
\* UpdateJobExecution stores of it here is stored again when the job ends; no
\* process reads what the last one stores.
RunStep ==
  /\ phase \in {"launched", "running"} /\ Len(steps) < MaxSteps /\ launches < MaxLaunches
  /\ \E ec \in StepContexts \cup ToSet(steps), keys \in Promotions :
       /\ context' = Promote(context, ec, keys)
       /\ steps' = Append(steps, ec)
  /\ was' = NewExecutionContext
  /\ phase' = "running" /\ request' = NoParameters /\ params' = NoParameters
  /\ Forget /\ UNCHANGED <<instance, table, launches>>

\* The last UpdateJobExecution: COMPLETED, or FAILED or STOPPED.
JobEnds(completed) ==
  /\ phase = "running" /\ phase' = "ended"
  /\ table' = [table EXCEPT ![instance].last =
       IF completed THEN NoExecution
       ELSE FromDomainJobExecution(context, Last(steps))]
  /\ UNCHANGED <<defVars, configVars, launchVars, runVars, launches>>

\* The process ends, or dies.
End ==
  /\ phase \in {"launched", "running", "ended", "duplicate", "refused"}
  /\ phase' = "down" /\ request' = NoParameters /\ instance' = 0 /\ params' = NoParameters
  /\ context' = NewExecutionContext /\ steps' = <<>> /\ was' = NewExecutionContext
  /\ Forget /\ UNCHANGED <<table, launches>>

StartNext ==
  \/ Configure \/ Supply \/ Start \/ Launch \/ Create
  \/ \E p \in Requests \cup {Scan(table[i].params) : i \in DOMAIN table} : FindJobInstance(p)
  \/ \E now \in {launches, launches - 1} : SaveJobInstance(now)
  \/ RunStep \/ (\E completed \in BOOLEAN : JobEnds(completed))
  \/ End

StartSpec == StartInit /\ [][StartNext]_startVars

-----------------------------------------------------------------------------
\* Values that are printed alike before and after they were stored.
Printable(p) == \A k \in DOMAIN p : p[k].type # "int" \/ Digits6(p[k].n)

\* Stored values that are read as what was stored: texts, and numbers up to 2^53.
Exactly(j) == j.json = "number" => j.n \in Exacts
AllExactly(j) == \A k \in DOMAIN j : Exactly(j[k])

\* A launch never works on the instance of other parameters; and of instances whose
\* numbers a float64 holds, a request whose values are printed alike after a round
\* trip through JSON gets the one an earlier launch with it made, never an error of
\* the unique index (Hash, Equal, Scan, FindJobInstanceByJobNameAndParameters and
\* SaveJobInstance agree), unless an incrementer comes between.  What
\* JobOperator.Restart reads from the table finds its instance however the values
\* are printed, and the query by some of the parameters finds exactly the instances
\* that were stored with the same ones.  Above 2^53 a restart reads another number
\* than was stored, misses its instance, and may find that of the other number.
RequestFindsInstance ==
  /\ phase = "launched" /\ ~table[instance].incremented => table[instance].hash = Hash(request)
  /\ \A i \in DOMAIN table :
       /\ table[i].job = cfg.job_name /\ AllExactly(table[i].params)
       /\ \/ request = Scan(table[i].params)
          \/ request = table[i].asked /\ Printable(request) /\ ~table[i].incremented
       => /\ phase # "duplicate"
          /\ phase = "launched" => instance = i
  /\ phase = "launched" =>
       \A i \in DOMAIN table, p \in Requests :
         AllExactly(table[i].params) /\ AllExactly(Value(p)) =>
           (i \in FindJobInstances(table[i].job, p) <=>
              \A k \in DOMAIN p : k \in DOMAIN table[i].params /\ table[i].params[k] = Value(p)[k])

\* The keys of the values at the top of a context.
Held(ec) == {p[1] : p \in {q \in DOMAIN ec : Len(q) = 1 /\ ~IsMap(ec[q])}}

\* Decisions on a key, and on nothing, with one of the values x.
Five == [text |-> Printed([p \in {<<>>} |-> IntValue(5)])]
Decisions(k, x) ==
  [conditionKey : {k, <<>>}, expectedValue : x,
   exitStatus : {"none", "SKIP"}, defaultStatus : {"FAILED"}]

\* A component reads the same text or number under a key of both.
ReadAlike(p, q, key) == GetString(p, key) = GetString(q, key) /\ GetInt(p, key) = GetInt(q, key)

\* An expression on a job parameter has the same text in every execution of an
\* instance, whether its parameters come from the caller or from the table; and in
\* a restarted execution an expression on a promoted value has the text, and a
\* decision on it the answer, that it had in the execution it is a restart of
\* (Scan, Promote, Resolve, Decide).  GetInt and GetString give the same before and
\* after, for numbers that are printed differently too.  Numbers above 2^53 are
\* excepted, and values below the top level of the context: GetNested finds none of
\* them after a restart.
ResolvesAlike ==
  phase = "launched" =>
    LET read == Scan(table[instance].params)
    IN  /\ \A k \in DOMAIN params : Exactly(Marshal(params[k])) => ReadAlike(params, read, k)
        /\ Printable(params) /\ AllExactly(Value(params)) =>
             \A k \in DOMAIN params : Resolve(k, params) = Resolve(k, read)
        /\ \A k \in Held(was) : Exactly(Marshal(was[<<k>>])) =>
             /\ ReadAlike(was, context, <<k>>)
             /\ Printable([p \in {k} |-> was[<<k>>]]) =>
                  /\ ResolveContext(k, context) = ResolveContext(k, was)
                  /\ \A d \in Decisions(k, {ResolveContext(k, was), Five}) :
                       Decide(d, context) = Decide(d, was)
=============================================================================
