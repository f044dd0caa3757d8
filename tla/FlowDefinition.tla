--------------------------- MODULE FlowDefinition ---------------------------
(***************************************************************************)
(* model.FlowDefinition (core/domain/model/models.go): the elements of a   *)
(* job's flow and the transition rules between them.  A flow is a record   *)
(*   start      the id of the start element                                *)
(*   steps      ids of the elements that are steps                         *)
(*   decisions  ids of the elements that are decisions                     *)
(*   splits     split id -> the steps it runs in parallel                  *)
(*   rules      element id -> the sequence of its transition rules         *)
(* A rule is [on, go, to]: go is "to", "end", "fail" or "stop".            *)
(***************************************************************************)
EXTENDS Sequences, FiniteSets

CONSTANTS Steps, \* names of steps: of a flow, or of a split of a flow
          Flows  \* the flows a job is defined with

Elements(f) == f.steps \cup f.decisions \cup DOMAIN f.splits

Outcomes == {"to", "end", "fail", "stop"}

\* The elements are one map from ids, so that an id is of one kind.
FlowOK(f) ==
  /\ f.steps \subseteq Steps
  /\ f.steps \cap f.decisions = {}
  /\ (f.steps \cup f.decisions) \cap DOMAIN f.splits = {}
  /\ f.start \in Elements(f)
  /\ \A p \in DOMAIN f.splits : f.splits[p] \subseteq Steps /\ f.splits[p] # {}
  /\ DOMAIN f.rules = Elements(f)
  /\ \A e \in Elements(f) :
       LET rules == {f.rules[e][i] : i \in DOMAIN f.rules[e]}
       IN  /\ f.rules[e] \in Seq(rules)
           /\ \A r \in rules : r.go \in Outcomes /\ (r.go = "to" => r.to \in Elements(f))

ASSUME FlowAssumption == \A f \in Flows : FlowOK(f)

\* The steps an element runs.
StepsOf(f, e) == IF e \in f.steps THEN {e}
                 ELSE IF e \in DOMAIN f.splits THEN f.splits[e] ELSE {}

\* GetTransitionRule: AddTransitionRule drops the status a rule is for, and the
\* first rule is the answer whatever the exit status.
HasRule(f, e) == f.rules[e] # <<>>
RuleOf(f, e)  == Head(f.rules[e])

\* No set of elements is left only for elements of the set: a walk comes to its end.
Acyclic(f) ==
  \A T \in SUBSET Elements(f) :
    T # {} => \E e \in T : ~(HasRule(f, e) /\ RuleOf(f, e).go = "to"
                                           /\ RuleOf(f, e).to \in T)
=============================================================================
