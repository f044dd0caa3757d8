------------------------------ MODULE FlowWalk ------------------------------
(***************************************************************************)
(* What a run of a flow promises: it stands at one element at a time, runs *)
(* every step of the element, goes on only when all of them have ended and *)
(* only along the element's rule, and its outcome is the one that rule     *)
(* names.  Before an element has begun the run may be given up; the        *)
(* process may die at any time.                                            *)
(***************************************************************************)
EXTENDS FlowDefinition

VARIABLES flow, element,
          todo,    \* steps of the element that have not ended
          outcome  \* "READY", "RUNNING", "DIED" or the status the run ended with

wvars == <<flow, element, todo, outcome>>

Init ==
  /\ flow \in Flows /\ element = flow.start
  /\ todo = {} /\ outcome = "READY"

Launch ==
  /\ outcome # "RUNNING" /\ outcome' = "RUNNING"
  /\ flow' \in Flows /\ element' \in {flow'.start} \cup Steps
  /\ todo' = StepsOf(flow', element')

StepEnds ==
  /\ outcome = "RUNNING"
  /\ \E s \in todo : todo' = todo \ {s}
  /\ UNCHANGED <<flow, element, outcome>>

Move ==
  /\ outcome = "RUNNING" /\ todo = {}
  /\ element \in Elements(flow) /\ HasRule(flow, element)
  /\ RuleOf(flow, element).go = "to" /\ element' = RuleOf(flow, element).to
  /\ todo' = StepsOf(flow, element')
  /\ UNCHANGED <<flow, outcome>>

End ==
  /\ outcome = "RUNNING" /\ todo = {} /\ element \in Elements(flow)
  /\ \/ ~HasRule(flow, element) /\ outcome' \in {"COMPLETED", "FAILED"}
     \/ /\ HasRule(flow, element)
        /\ \/ RuleOf(flow, element).go = "end"  /\ outcome' = "COMPLETED"
           \/ RuleOf(flow, element).go = "fail" /\ outcome' = "FAILED"
           \/ RuleOf(flow, element).go = "stop" /\ outcome' = "STOPPED"
  /\ UNCHANGED <<flow, element, todo>>

GiveUp ==
  /\ outcome = "RUNNING" /\ todo = StepsOf(flow, element)
  /\ outcome' \in {"FAILED", "STOPPED"} /\ todo' = {}
  /\ UNCHANGED <<flow, element>>

\* Even after the walk, while its outcome is being recorded.
Die ==
  /\ outcome \notin {"READY", "DIED"} /\ outcome' = "DIED" /\ todo' = {}
  /\ UNCHANGED <<flow, element>>

Next == Launch \/ StepEnds \/ Move \/ End \/ GiveUp \/ Die

Spec == Init /\ [][Next]_wvars
=============================================================================
