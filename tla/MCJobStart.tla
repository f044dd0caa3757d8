----------------------------- MODULE MCJobStart -----------------------------
EXTENDS JobStart, TLC

\* Rules and elements of definitions that are right, and of ones that are not.
Rule == [on |-> "*", to |-> Blank, end |-> FALSE, fail |-> FALSE, stop |-> FALSE]
To(x) == [Rule EXCEPT !.to = x]
End1  == [Rule EXCEPT !.end = TRUE]
RuleLists(x) ==
  {<<>>, <<To(x)>>, <<End1>>, <<[Rule EXCEPT !.stop = TRUE], [Rule EXCEPT !.fail = TRUE]>>}
BadRules ==
  {<<Rule>>, <<[End1 EXCEPT !.on = Blank]>>, <<To("x")>>, <<End1, [To("b") EXCEPT !.fail = TRUE]>>}

Element(id) ==
  [id |-> id, reader |-> Blank, processor |-> Blank, writer |-> Blank, tasklet |-> Blank, chunk |-> FALSE,
   partition |-> <<>>, listeners |-> {}, keys |-> TRUE, ref |-> Blank, steps |-> <<>>, rules |-> <<>>]
Tasklet(id) == [Element(id) EXCEPT !.tasklet = "t"]
Chunk(id)   == [Element(id) EXCEPT !.reader = "r", !.processor = "p", !.writer = "w", !.chunk = TRUE]
Partition(id, w) == [Element(id) EXCEPT !.partition = <<[by |-> "grid", step |-> w]>>]
Decision(id) == [Element(id) EXCEPT !.ref = "conditional", !.rules = <<End1>>]
Split(id, s) == [Element(id) EXCEPT !.steps = s]

FirstElements ==
  {[Tasklet("a") EXCEPT !.rules = r] : r \in RuleLists("b") \cup BadRules} \cup
  {[Decision("a") EXCEPT !.rules = r] : r \in RuleLists("b")} \cup
  { Chunk("a"), [Chunk("a") EXCEPT !.partition = <<[by |-> "grid", step |-> "b"]>>],
    [Chunk("a") EXCEPT !.listeners = {<<"chunk", "logging">>, <<"step", "logging">>}],
    [Tasklet("a") EXCEPT !.listeners = {<<"chunk", "none">>}],
    [Chunk("a") EXCEPT !.listeners = {<<"skip", "none">>}],
    [Chunk("a") EXCEPT !.keys = FALSE], [Chunk("a") EXCEPT !.chunk = FALSE],
    Partition("a", "b"), Partition("a", "x"),
    [Partition("a", "b") EXCEPT !.partition[1].by = "none"],
    Split("a", <<"b", "c">>), Split("a", <<"b">>), Split("a", <<"x">>),
    Element("a"), Tasklet("b") }
SecondElements ==
  { Tasklet("b"), Chunk("b"), [Tasklet("b") EXCEPT !.tasklet = "r"],
    [Tasklet("b") EXCEPT !.tasklet = "e"], [Chunk("b") EXCEPT !.processor = Blank],
    [Chunk("b") EXCEPT !.writer = "none"], Decision("b"), [Decision("b") EXCEPT !.chunk = TRUE],
    Partition("b", "c"),
    [Tasklet("b") EXCEPT !.partition = <<[by |-> "grid", step |-> "c"]>>] }
ThirdElements == { Tasklet("c"), Chunk("c"), Split("c", <<"b">>), Split("c", <<"a", "b">>) }

Definition(e) == [id |-> "j1", named |-> TRUE, start |-> "a", elements |-> e,
                  listeners |-> {}, incrementer |-> Blank]
Plain == Definition([x \in {"a"} |-> Tasklet("a")])

MCRedeployed ==
  {[Plain EXCEPT !.incrementer = i] : i \in {"runIdIncrementer", "timestampIncrementer", "none"}}

MCDefinitions ==
  {Definition("a" :> x @@ "b" :> y @@ "c" :> z) :
     x \in FirstElements, y \in SecondElements, z \in ThirdElements}
  \cup {[Plain EXCEPT !.listeners = l] : l \in {{"loggingJobListener"}, {"mail"}, {"none"}}}
  \cup MCRedeployed \cup {[Plain EXCEPT !.id = "j3"]}
  \cup {[Plain EXCEPT !.start = "x"], [Plain EXCEPT !.start = Blank], [Plain EXCEPT !.id = Blank],
        [Plain EXCEPT !.named = FALSE], [Plain EXCEPT !.elements = NoElements]}

MCBuilders ==
  {<<"component", c>> : c \in {"r", "p", "w", "t", "e"}} \cup
  {<<k, "logging">> : k \in ChunkListenerKinds \cup {"step", "skip"}} \cup
  { <<"job", "j1">>, <<"job", "j3">>, <<"jobListener", "loggingJobListener">>, <<"notification", "mail">>,
    <<"decision", "conditional">>, <<"split", "concreteSplit">>, <<"partitioner", "grid">>,
    <<"incrementer", "runIdIncrementer">>, <<"incrementer", "timestampIncrementer">> }
MCOptional == {<<"job", "j1">>, <<"split", "concreteSplit">>}
MCFaulty == {<<"component", "e">>, <<"job", "j3">>}
MCMakes == "r" :> "reader" @@ "p" :> "processor" @@ "w" :> "writer" @@ "t" :> "tasklet"

\* Every pair of a YAML and an environment value for one field, the others plain.
Yaml == [f \in Fields |-> IF f = "job_name" THEN "j1" ELSE IF f = "exceptions" THEN "yaml" ELSE Zero]
Env  == [f \in Fields \cup {"ref"} |-> Unset]
YamlValues(f) == IF f = "job_name" THEN {"j1", "j2", "j3", Zero, "$"} ELSE {"yaml", Zero, Garbled, "unknown"}
EnvValues(f)  == IF f = "job_name" THEN {"j1", "j2", Zero, Unset} ELSE {"env", Zero, Garbled, Unset}
MCSources ==
  UNION {{[yaml |-> [Yaml EXCEPT ![f] = y], env |-> [Env EXCEPT ![f] = v, !.ref = r]] :
            y \in YamlValues(f), v \in EnvValues(f), r \in {"j1", Unset}} : f \in Fields}

MCReconfigured == {[yaml |-> Yaml, env |-> Env]}

\* Parameters: none, a small number, one that is printed with an exponent, one that
\* is not a float64, and a text.
MCRequests ==
  {NoParameters} \cup
  {"n" :> x : x \in {IntValue(5), IntValue(1000001), IntValue(20240131), TextValue(5)}}

\* A number and a text at the top, a literal key with a dot, a nested map.
MCStepContexts ==
  { << <<"n">> >> :> IntValue(5) @@ << <<"a", "x">> >> :> TextValue(5),
    << <<"a">> >> :> NewMap @@ << <<"a">>, <<"y">> >> :> IntValue(1000001) @@ << <<"n">> >> :> TextValue(7) }
MCPromotions ==
  { << << <<"n">>, <<"n">> >> >>,
    << << <<"a", "x">>, <<"a", "x">> >>, << <<"a", "y">>, <<"m">> >> >>,
    << << <<"a">>, <<"a">> >>, << <<"n">>, <<"a", "n">> >> >> }
=============================================================================
