---------------------------- MODULE MCWorkflow ----------------------------
(* Plans of one or two steps, of one title or two, for the run of Workflow; *)
(* a is always an outbound step, b is when the agent says so, and the agent *)
(* reports failure of the only step of a plan.                              *)
EXTENDS Workflow

CONSTANTS a, b, w1, w2, i1, i2, i3, i4, i5

MCPlanStep == {s \in PlanStep : s.title = a => s.requiresApproval}
MCPlans ==
  {p \in UNION {[1..n -> MCPlanStep] : n \in 1..2} :
     Len(p) = 2 => \A i \in 1..2 : p[i].state # "failed"}

\* States that differ only in which ids the steps have behave alike.
MCView ==
  <<IF NoCurrent THEN NoWorkflow ELSE [current EXCEPT !.steps = [i \in DOMAIN StepsOf |->
      [StepsOf[i] EXCEPT !.id =
         <<FirstIn(WithId(StepsOf, @)), @ \in approved, @ = awaiting>>]]],
    awaiting = NoStep, said>>
=============================================================================
