----------------------------- MODULE MCFlowJob -----------------------------
(* Instances of FlowJob: the flow of the README, a split before a step, and *)
(* a loop through a decision, a job that stops and one that only fails.      *)
EXTENDS FlowJob

Rule(on, go) == [on |-> on, go |-> go, to |-> "-"]
To(on, e) == [on |-> on, go |-> "to", to |-> e]

\* README.md: two steps in a row, the first of which may fail the job.
Chain == [start |-> "s1", steps |-> {"s1", "s2"}, decisions |-> {}, splits |-> <<>>,
          rules |-> [e \in {"s1", "s2"} |->
                      IF e = "s1" THEN <<To("COMPLETED", "s2"), Rule("FAILED", "fail")>>
                      ELSE <<Rule("COMPLETED", "end")>>]]

\* A split of two steps, then a step without a rule.
Fork == [start |-> "p", steps |-> {"s3"}, decisions |-> {},
         splits |-> [e \in {"p"} |-> {"s1", "s2"}],
         rules |-> [e \in {"p", "s3"} |->
                     IF e = "p" THEN <<To("COMPLETED", "s3")>> ELSE <<>>]]

\* A split and a decision that sends the run back to it.
Loop == [start |-> "p", steps |-> {}, decisions |-> {"d"},
         splits |-> [e \in {"p"} |-> {"s1", "s2"}],
         rules |-> [e \in {"p", "d"} |->
                     IF e = "p" THEN <<To("COMPLETED", "d")>>
                     ELSE <<To("COMPLETED", "p"), Rule("FAILED", "stop")>>]]

\* A step, a decision and a step that stops the job.
Halt == [start |-> "s1", steps |-> {"s1", "s3"}, decisions |-> {"d"}, splits |-> <<>>,
         rules |-> [e \in {"s1", "s3", "d"} |->
                     CASE e = "s1" -> <<To("COMPLETED", "d")>>
                       [] e = "d"  -> <<To("COMPLETED", "s3")>>
                       [] e = "s3" -> <<Rule("COMPLETED", "stop")>>]]

\* A step with a rule for its failure only.
Guard == [start |-> "s1", steps |-> {"s1"}, decisions |-> {}, splits |-> <<>>,
          rules |-> [e \in {"s1"} |-> <<Rule("FAILED", "fail")>>]]

AllFlows == {Chain, Fork, Loop, Halt, Guard}
GuardOnly == {Guard}
=============================================================================
