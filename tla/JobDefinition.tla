--------------------------- MODULE JobDefinition ---------------------------
(***************************************************************************)
(* From a JSL definition to a job: the loader, the job factory with its    *)
(* registered builders, and the two passes of ConvertJSLToCoreFlow over    *)
(* the elements of the flow (core/config/jsl, core/config/support,         *)
(* engine/step/factory).  The elements are a Go map: each pass visits them *)
(* in an order of its own.                                                 *)
(*                                                                         *)
(* A definition is [id, named, start, elements, listeners, incrementer].   *)
(* An element is a record of what its YAML may hold, whatever it turns out *)
(* to be:                                                                  *)
(*   id                                   Blank if it is missing           *)
(*   reader, processor, writer, tasklet   the component's ref, or Blank    *)
(*   chunk                                TRUE: it has a chunk section     *)
(*   partition    <<>>, or <<[by, step]>>: the partitioner and the worker  *)
(*   listeners    its listeners, as pairs of a kind and a ref              *)
(*   keys         FALSE: a property holds a map with a key that is no text *)
(*   ref          of a decision, or Blank                                  *)
(*   steps        of a split, or <<>>                                      *)
(*   rules        its transitions: [on, to, end, fail, stop]               *)
(* A builder is a pair of a kind and a name.                               *)
(***************************************************************************)
EXTENDS Integers, Sequences, FiniteSets

Blank == "blank"  \* the empty text of a field that is not given

CONSTANTS Definitions, \* JSL files
          Builders,    \* builders the modules of an application can register
          Optional,    \* builders an application may leave out
          Faulty,      \* builders that return an error for what the JSL gives them
          Makes        \* what the builder of each component makes

\* A builder is registered under a name.
ASSUME BuilderAssumption ==
  /\ Optional \subseteq Builders /\ Faulty \subseteq Builders
  /\ \A b \in Builders : b[2] # Blank

\* YAML gives lists.
IsList(s) == s \in Seq({s[i] : i \in DOMAIN s})
ASSUME DefinitionAssumption ==
  \A d \in Definitions : \A id \in DOMAIN d.elements :
    IsList(d.elements[id].rules) /\ IsList(d.elements[id].steps)

VARIABLES
  registry, \* the builders of the JobFactory
  loaded,   \* LoadedJobDefinitions: id -> definition
  build,    \* where CreateJob is: "idle", "first", "second", "built", "failed"
  def,      \* the definition CreateJob works on
  todo,     \* elements the pass has not visited
  built,    \* builtElements: id -> what the first pass made of it
  flow,     \* flowDef
  early     \* history: a split was visited before one of its steps

buildVars == <<build, def, todo, built, flow, early>>
defVars == <<registry, loaded, buildVars>>

Flow == INSTANCE FlowDefinition WITH Steps <- DOMAIN def.elements, Flows <- {}

NoElements == [id \in {} |-> Blank]
NoDefinition == [id |-> Blank, start |-> Blank, elements |-> NoElements, listeners |-> {},
                 incrementer |-> Blank, named |-> FALSE]

\* NewFlowDefinition
NewFlowDefinition(start) ==
  [start |-> start, steps |-> {}, decisions |-> {}, splits |-> NoElements, rules |-> NoElements]

\* NewJobFactory: maps of builders, all empty.
DefInit ==
  /\ registry = {} /\ loaded = NoElements
  /\ build = "idle" /\ def = NoDefinition /\ todo = {} /\ built = NoElements
  /\ flow = NewFlowDefinition(Blank) /\ early = FALSE

-----------------------------------------------------------------------------
(* The registry and the loaded definitions. *)

\* The Register... methods, called by the modules the application is made of.
RegisterBuilders(left) ==
  /\ registry = {}
  /\ registry' = Builders \ left

\* LoadJSLDefinitionFromBytes
Loadable(d) ==
  /\ d.id # Blank /\ d.named /\ d.start # Blank /\ DOMAIN d.elements # {}
  /\ d.id \notin DOMAIN loaded

LoadJSLDefinitionFromBytes(d) ==
  loaded' = IF Loadable(d)
              THEN [i \in DOMAIN loaded \cup {d.id} |-> IF i = d.id THEN d ELSE loaded[i]]
              ELSE loaded

\* A builder is found and does not fail.
Builds(kind, name) == <<kind, name>> \in registry \ Faulty

\* GetJobParametersIncrementer: none, unless everything is found.
GetJobParametersIncrementer(job) ==
  IF job \in DOMAIN loaded /\ Builds("incrementer", loaded[job].incrementer)
    THEN loaded[job].incrementer ELSE "none"

-----------------------------------------------------------------------------
(* What an element is, and what makes it fail. *)

IsStep(e)     == e.reader # Blank \/ e.tasklet # Blank \/ e.partition # <<>>
IsDecision(e) == ~IsStep(e) /\ e.id # Blank /\ e.ref # Blank
IsSplit(e)    == ~IsStep(e) /\ ~IsDecision(e) /\ e.id # Blank /\ e.steps # <<>>

\* resolveComponentRefProperties with convertMapKeysToString: expressions are
\* left as they are, for there is no JobExecution yet.
PropertiesResolve(e) == e.keys

\* The listeners of items, retries and chunks are looked at for a chunk only.
ChunkListenerKinds == {"itemRead", "itemProcess", "itemWrite", "retry", "chunk"}
ListenersBuild(e) ==
  \A l \in e.listeners : (l[1] \in ChunkListenerKinds /\ ~e.chunk) \/ Builds(l[1], l[2])

ComponentBuilds(name, type) == Builds("component", name) /\ Makes[name] = type

\* buildReaderWriterProcessor
ReaderWriterProcessorBuild(e) ==
  /\ ComponentBuilds(e.reader, "reader")
  /\ ComponentBuilds(e.processor, "processor")
  /\ ComponentBuilds(e.writer, "writer")

\* CreateChunkStep itself does not fail.
ChunkStepBuilds(e) ==
  /\ e.reader # Blank /\ e.processor # Blank /\ e.writer # Blank
  /\ PropertiesResolve(e) /\ ReaderWriterProcessorBuild(e)

\* CreateTaskletStep itself does not fail.
TaskletStepBuilds(e) == PropertiesResolve(e) /\ ComponentBuilds(e.tasklet, "tasklet")

PartitionerBuilds(e) == PropertiesResolve(e) /\ Builds("partitioner", e.partition[1].by)

\* The part of the first pass for a step.  A chunk comes before a tasklet, a
\* tasklet before a partition.
StepBuilds(id, e) ==
  /\ e.id = id
  /\ ListenersBuild(e)
  /\ IF e.chunk THEN ChunkStepBuilds(e)
     ELSE IF e.tasklet # Blank THEN TaskletStepBuilds(e)
     ELSE e.partition # <<>> /\ PartitionerBuilds(e)

\* What is put into builtElements; a step with a partition section is put there
\* only if it is nothing else.
BuiltStep(e) ==
  IF e.partition = <<>> THEN "step"
  ELSE IF e.chunk \/ e.tasklet # Blank THEN "nothing" ELSE "partition"

Made(e) == IF IsStep(e) THEN BuiltStep(e) ELSE IF IsDecision(e) THEN "decision" ELSE "split"

DecisionBuilds(id, e) ==
  /\ e.id = id /\ e.rules # <<>> /\ PropertiesResolve(e) /\ Builds("decision", e.ref)

\* A split takes its steps from builtElements: what the pass has not visited yet
\* is not there.
SplitBuilds(id, e) ==
  /\ e.id = id
  /\ \A i \in DOMAIN e.steps : e.steps[i] \in DOMAIN built /\ built[e.steps[i]] = "step"
  /\ Builds("split", "concreteSplit")

\* The worker of a partition is built a second time, without listeners.
WorkerBuilds(w) ==
  /\ w.chunk \/ w.tasklet # Blank
  /\ PropertiesResolve(w)
  /\ IF w.chunk THEN ReaderWriterProcessorBuild(w) ELSE ComponentBuilds(w.tasklet, "tasklet")

\* CreatePartitionStep itself does not fail.
PartitionStepBuilds(id, e) ==
  /\ built[id] = "partition"
  /\ e.partition[1].step \in DOMAIN def.elements
  /\ WorkerBuilds(def.elements[e.partition[1].step])

\* The attributes a transition has, of which it must have one.
Given(r) ==
  {g \in Flow!Outcomes : \/ g = "to" /\ r.to # Blank
                         \/ g = "end" /\ r.end
                         \/ g = "fail" /\ r.fail
                         \/ g = "stop" /\ r.stop}

\* validateTransition, without the check of its target.
MutTransitionValid(r) == r.on # Blank /\ Cardinality(Given(r)) = 1

\* validateTransition
TransitionValid(r) ==
  /\ r.on # Blank
  /\ Cardinality(Given(r)) = 1
  /\ r.to # Blank => r.to \in DOMAIN def.elements

-----------------------------------------------------------------------------
(* CreateJob *)

Fail == build' = "failed" /\ UNCHANGED <<def, todo, built, flow>>

\* GetJobDefinition, the job's own builder, and the check of the start element.
CreateJob(job) ==
  /\ build = "idle" /\ UNCHANGED early
  /\ IF /\ job \in DOMAIN loaded /\ <<"job", job>> \in registry
        /\ loaded[job].start \in DOMAIN loaded[job].elements
       THEN /\ def' = loaded[job] /\ build' = "first"
            /\ todo' = DOMAIN loaded[job].elements /\ built' = NoElements
            /\ flow' = NewFlowDefinition(loaded[job].start)
       ELSE Fail

\* A first pass that asks only whether the steps of a split are in the flow.
MutFirstPass(id) ==
  LET e == def.elements[id] IN
  /\ build = "first" /\ id \in todo
  /\ early' = (early \/ (IsSplit(e) /\ \E i \in DOMAIN e.steps : e.steps[i] \in todo))
  /\ IF \/ IsStep(e) /\ StepBuilds(id, e)
        \/ IsDecision(e) /\ DecisionBuilds(id, e)
        \/ IsSplit(e) /\ e.id = id /\ \A i \in DOMAIN e.steps : e.steps[i] \in DOMAIN def.elements
       THEN /\ built' = [i \in DOMAIN built \cup {id} |-> IF i = id THEN Made(e) ELSE built[i]]
            /\ todo' = IF todo = {id} THEN DOMAIN def.elements ELSE todo \ {id}
            /\ build' = IF todo = {id} THEN "second" ELSE "first"
            /\ UNCHANGED <<def, flow>>
       ELSE Fail

\* The body of the first loop of ConvertJSLToCoreFlow.
FirstPass(id) ==
  LET e == def.elements[id] IN
  /\ build = "first" /\ id \in todo
  /\ early' = (early \/ (IsSplit(e) /\ \E i \in DOMAIN e.steps : e.steps[i] \in todo))
  /\ IF \/ IsStep(e) /\ StepBuilds(id, e)
        \/ IsDecision(e) /\ DecisionBuilds(id, e)
        \/ IsSplit(e) /\ SplitBuilds(id, e)
       THEN /\ built' = [i \in DOMAIN built \cup {id} |-> IF i = id THEN Made(e) ELSE built[i]]
            /\ todo' = IF todo = {id} THEN DOMAIN def.elements ELSE todo \ {id}
            /\ build' = IF todo = {id} THEN "second" ELSE "first"
            /\ UNCHANGED <<def, flow>>
       ELSE Fail

\* AddElement: every id is visited once, so none is there already.
AddElement(f, id, e) ==
  IF IsStep(e) THEN [f EXCEPT !.steps = @ \cup {id}]
  ELSE IF IsDecision(e) THEN [f EXCEPT !.decisions = @ \cup {id}]
  ELSE [f EXCEPT !.splits = [i \in DOMAIN f.splits \cup {id} |->
          IF i = id THEN {e.steps[k] : k \in DOMAIN e.steps} ELSE f.splits[i]]]

\* AddTransitionRule, once per transition: what the rule is for is dropped.
TransitionRules(rules) ==
  [k \in DOMAIN rules |-> [go |-> CHOOSE g \in Given(rules[k]) : TRUE, to |-> rules[k].to]]
AddTransitionRules(f, id, rules) ==
  [f EXCEPT !.rules = [i \in DOMAIN f.rules \cup {id} |->
     IF i = id THEN TransitionRules(rules) ELSE f.rules[i]]]

\* The body of the second loop; after the last element CreateJob builds the
\* listeners of the job.
SecondPass(id) ==
  LET e == def.elements[id] IN
  /\ build = "second" /\ id \in todo /\ UNCHANGED early
  /\ IF /\ IsStep(e) /\ e.partition # <<>> => PartitionStepBuilds(id, e)
        /\ \A k \in DOMAIN e.rules : TransitionValid(e.rules[k])
       THEN /\ flow' = AddTransitionRules(AddElement(flow, id, e), id, e.rules)
            /\ todo' = todo \ {id}
            /\ build' = IF todo = {id} THEN "listeners" ELSE "second"
            /\ UNCHANGED <<def, built>>
       ELSE Fail

\* The rest of CreateJob: the default listener is optional, a listener of the
\* definition may be one of notifications.  Then the job's builder is called.
JobListeners ==
  /\ build = "listeners" /\ UNCHANGED early
  /\ IF /\ <<"jobListener", "loggingJobListener">> \notin registry \cap Faulty
        /\ \A l \in def.listeners :
             IF <<"jobListener", l>> \in registry THEN Builds("jobListener", l)
             ELSE Builds("notification", l)
        /\ Builds("job", def.id)
       THEN build' = "built" /\ UNCHANGED <<def, todo, built, flow>>
       ELSE Fail

Converting == \/ \E id \in todo : FirstPass(id) \/ SecondPass(id)
              \/ JobListeners

-----------------------------------------------------------------------------
(* What a definition must be, whatever the order its elements are visited in. *)

ElementValid(d, id) ==
  LET e == d.elements[id]
      to(x) == d.elements[x]
  IN
  /\ e.id = id
  /\ IsStep(e) \/ IsDecision(e) \/ IsSplit(e)
  /\ PropertiesResolve(e) \/ IsSplit(e)
  /\ \A k \in DOMAIN e.rules :
       /\ e.rules[k].on # Blank /\ Cardinality(Given(e.rules[k])) = 1
       /\ e.rules[k].to \in DOMAIN d.elements \cup {Blank}
  /\ IsStep(e) =>
       /\ e.chunk \/ e.tasklet # Blank \/ e.partition # <<>>
       /\ ListenersBuild(e)
       /\ e.chunk => ReaderWriterProcessorBuild(e)
       /\ ~e.chunk /\ e.tasklet # Blank => ComponentBuilds(e.tasklet, "tasklet")
       /\ e.partition # <<>> =>
            /\ ~e.chunk /\ e.tasklet = Blank
            /\ Builds("partitioner", e.partition[1].by)
            /\ e.partition[1].step \in DOMAIN d.elements
            /\ IsStep(to(e.partition[1].step)) /\ to(e.partition[1].step).partition = <<>>
  /\ IsDecision(e) => e.rules # <<>> /\ Builds("decision", e.ref)
  /\ IsSplit(e) =>
       /\ Builds("split", "concreteSplit")
       /\ \A k \in DOMAIN e.steps :
            /\ e.steps[k] \in DOMAIN d.elements /\ IsStep(to(e.steps[k]))
            /\ to(e.steps[k]).partition = <<>>

Valid(d) ==
  /\ d.start \in DOMAIN d.elements /\ Builds("job", d.id)
  /\ \A id \in DOMAIN d.elements : ElementValid(d, id)
  /\ <<"jobListener", "loggingJobListener">> \notin registry \cap Faulty
  /\ \A l \in d.listeners : Builds("jobListener", l) \/ (<<"jobListener", l>> \notin registry
                                                         /\ Builds("notification", l))

\* What CreateJob hands to the runner is a flow as module FlowJob assumes it, has
\* every element of the definition, and keeps split and worker steps to what the
\* engine can run: the two passes leave nothing half built, whatever their order.
BuildSound ==
  build = "built" =>
    /\ Flow!FlowOK(flow) /\ Flow!Elements(flow) = DOMAIN def.elements
    /\ \A p \in DOMAIN flow.splits : \A s \in flow.splits[p] :
         s \in flow.steps /\ def.elements[s].partition = <<>>
    /\ \A s \in flow.steps : def.elements[s].partition # <<>> =>
         LET w == def.elements[s].partition[1].step
         IN  w \in flow.steps /\ def.elements[w].partition = <<>>

\* A job is created exactly from the definitions that are valid, except that a
\* split the first pass comes to before one of its steps fails: then, and only
\* then, does the order of a Go map decide.
BuildExact ==
  /\ build = "built" => Valid(def) /\ ~early
  /\ build = "failed" /\ def # NoDefinition => ~Valid(def) \/ early
=============================================================================
