-------------------------- MODULE ExecutionContext --------------------------
(***************************************************************************)
(* model.ExecutionContext (core/domain/model/models.go), what is promoted  *)
(* from a step's to the job's (core/job/runner/flow_job.go), and what      *)
(* expressions and decisions see of it (core/support/expression,           *)
(* component/flow).                                                        *)
(*                                                                         *)
(* A key is the sequence of its parts between the dots: <<"a", "x">> is    *)
(* "a.x".  A context is a tree: a function from the paths of its nodes,    *)
(* which are the sequences of the keys that lead to them.  A node is a     *)
(* value of JobParameters or a map: an "ExecutionContext" as Go code makes *)
(* them, a "map" (map[string]interface{}) as JSON makes them.  A value     *)
(* taken out of a context is a tree too, with its root at the path <<>>.   *)
(***************************************************************************)
EXTENDS JobParameters, SequencesExt

Keys  == Seq(STRING) \ {<<>>}
Paths == Seq(Keys)

Maps     == [type : {"ExecutionContext", "map"}]
NewMap   == [type |-> "ExecutionContext"]
IsMap(x) == x.type \in {"ExecutionContext", "map"}

\* What is below a node is below a map.
TreeOK(t) ==
  \A p \in DOMAIN t : /\ p \in Paths /\ t[p] \in Scalars \cup Maps
                      /\ \A q \in DOMAIN t : IsStrictPrefix(p, q) => IsMap(t[p])
ContextOK(ec) == TreeOK(ec) /\ <<>> \notin DOMAIN ec

NewExecutionContext == [p \in {} |-> NewMap]
Absent == NewExecutionContext

\* What is at a path and below it.
At(ec, path) ==
  [rest \in {SubSeq(p, Len(path) + 1, Len(p)) : p \in {q \in DOMAIN ec : IsPrefix(path, q)}} |->
     ec[path \o rest]]

\* The path of the first n parts of a nested key.
Way(key, n) == [i \in 1..n |-> <<key[i]>>]

\* PutNested: what stands in the way, a map of JSON included, is replaced.
PutNested(ec, key, x) ==
  LET way    == {Way(key, n) : n \in 1..(Len(key) - 1)}
      target == Way(key, Len(key))
      kept   == {p \in DOMAIN ec : \A w \in way : IsPrefix(w, p) => ec[w] = NewMap}
  IN  [p \in {q \in kept : ~IsPrefix(target, q)} \cup way \cup {target \o r : r \in DOMAIN x} |->
         IF IsPrefix(target, p) THEN x[SubSeq(p, Len(target) + 1, Len(p))]
         ELSE IF p \in way THEN NewMap ELSE ec[p]]

\* GetNested: the key itself, or a way through nested contexts.
Walk(ec, key) ==
  IF \A n \in 1..(Len(key) - 1) : Way(key, n) \in DOMAIN ec /\ ec[Way(key, n)] = NewMap
    THEN At(ec, Way(key, Len(key))) ELSE Absent

GetNested(ec, key) == IF <<key>> \in DOMAIN ec THEN At(ec, <<key>>) ELSE Walk(ec, key)

\* ExecutionContext.Value: JSON does not tell the maps apart.
ContextValue(ec) ==
  [p \in DOMAIN ec |-> IF IsMap(ec[p]) THEN [json |-> "object"] ELSE Marshal(ec[p])]

\* ExecutionContext.Scan: only the outermost map is an ExecutionContext again.
ContextScan(j) ==
  [p \in DOMAIN j |-> IF j[p].json = "object" THEN [type |-> "map"] ELSE Unmarshal(j[p])]

\* The promotion of FlowJob.Run: keys are pairs of a key of the step and one of the
\* job, those of Keys before those of JobLevelKeys.  A promoted map is the step's
\* own, and a later key may write into it: no step reads its context again.
Promote(job, step, keys) ==
  LET ec[n \in 0..Len(keys)] ==
        IF n = 0 THEN job
        ELSE LET x == GetNested(step, keys[n][1])
             IN  IF x = Absent THEN ec[n - 1] ELSE PutNested(ec[n - 1], keys[n][2], x)
  IN  ec[Len(keys)]

\* resolveJobExecutionContext, of #{jobExecutionContext['key']}: no nested key.  A
\* map prints as its entries, whichever of the two it is.
Printed(x) == [p \in DOMAIN x |-> IF IsMap(x[p]) THEN [entries |-> TRUE] ELSE Sprint(x[p])]
ResolveContext(key, ec) ==
  IF <<key>> \in DOMAIN ec THEN [text |-> Printed(At(ec, <<key>>))] ELSE [expression |-> key]

\* ConditionalDecision.Decide: without a conditionKey the property exit.status, if
\* it is given; with one, its value in the job's context is compared with what
\* expectedValue is resolved to.
Decide(d, ec) ==
  LET x == GetNested(ec, d.conditionKey) IN
  IF d.conditionKey = <<>>
    THEN IF d.exitStatus = "none" THEN d.defaultStatus ELSE d.exitStatus
    ELSE IF x # Absent /\ [text |-> Printed(x)] = d.expectedValue
      THEN "COMPLETED" ELSE d.defaultStatus
=============================================================================
