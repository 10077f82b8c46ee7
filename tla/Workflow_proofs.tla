-------------------------- MODULE Workflow_proofs --------------------------
(***************************************************************************)
(* Theorems about the workflow controller, for every set of plans, those in  *)
(* which steps share a title included.                                      *)
(***************************************************************************)
EXTENDS Workflow, SequenceTheorems, WellFoundedInduction, TLAPS

\* Steps of one id have one title: a continued plan gives the steps of a title one id.
Coherent(steps) ==
  \A i, j \in DOMAIN steps : steps[i].id = steps[j].id => steps[i].title = steps[j].title

\* Approved steps are backed by an approval of the operator.
Backed(steps, appr, granted) ==
  \A i \in DOMAIN steps : steps[i].id \in appr => granted[steps[i].title] > 0

\* The inductive invariant: an id stands for one title, a hand-off was given, and the id
\* that waits has not been approved yet (so a decline takes nothing away).
IInv ==
  /\ TypeOK
  /\ ~NoCurrent => Coherent(current.steps) /\ (current.handoff => said.handedOff)
  /\ awaiting \notin approved
  /\ ApprovalsAreTheOperators

-----------------------------------------------------------------------------
(* Sequences and first positions.                                           *)

LEMMA FnIsSeq ==
  ASSUME NEW S, NEW n \in Nat \ {0}, NEW f \in [1..n -> S]
  PROVE  f \in Seq(S) \ {<<>>} /\ Len(f) = n
  OBVIOUS

LEMMA SeqIsFn ==
  ASSUME NEW S, NEW f \in Seq(S) \ {<<>>}
  PROVE  Len(f) \in Nat \ {0} /\ DOMAIN f = 1..Len(f) /\ f \in [1..Len(f) -> S]
  BY EmptySeq, LenProperties

LEMMA SeqFromDomain ==
  ASSUME NEW S, NEW T, NEW f \in Seq(S) \ {<<>>}, NEW g \in [DOMAIN f -> T]
  PROVE  g \in Seq(T) \ {<<>>} /\ DOMAIN g = DOMAIN f
  BY SeqIsFn, FnIsSeq

\* The order of the natural numbers is well founded, so a first position exists.
LEMMA FirstIsFirst ==
  ASSUME NEW S, S \subseteq Nat, S # {}
  PROVE  FirstIn(S) \in S
  <1> DEFINE R == OpToRel(<, Nat)
  <1>1. \A x, y \in Nat : x < y => <<x, y>> \in R
    BY DEF OpToRel
  <1>2. IsWellFoundedOn(R, Nat)
    BY NatLessThanWellFounded
  <1> HIDE DEF R
  <1>3. PICK x \in S : \A y \in S : ~ (<<y, x>> \in R)
    BY <1>2, WFMin
  <1>4. ASSUME NEW y \in S PROVE x <= y
    <2>1. ~ (<<y, x>> \in R)
      BY <1>3
    <2>2. x \in Nat /\ y \in Nat
      OBVIOUS
    <2>3. y < x => <<y, x>> \in R
      BY <2>2, <1>1
    <2> QED BY <2>1, <2>2, <2>3
  <1> QED BY <1>4 DEF FirstIn

\* The positions the module selects from the steps of a workflow.
LEMMA Positions ==
  ASSUME NEW T, NEW steps \in Seq(T) \ {<<>>}, NEW S, S \subseteq DOMAIN steps, S # {}
  PROVE  FirstIn(S) \in S /\ FirstIn(S) \in DOMAIN steps
  <1>1. S \subseteq Nat
    BY SeqIsFn
  <1> QED BY <1>1, FirstIsFirst

LEMMA PlanIsPlan ==
  ASSUME NEW plan \in Plans
  PROVE  /\ plan \in Seq(PlanStep) \ {<<>>} /\ DOMAIN plan \subseteq 1..MaxSteps
         /\ \A i \in DOMAIN plan : plan[i] \in PlanStep
  <1>1. plan \in Seq(PlanStep) /\ Len(plan) \in 1..MaxSteps
    BY WorkflowAssumption
  <1>2. plan # <<>>
    BY <1>1, EmptySeq
  <1>3. Len(plan) \in Nat /\ MaxSteps \in Nat /\ DOMAIN plan = 1..Len(plan)
    BY <1>1, LenProperties, WorkflowAssumption
  <1> QED BY <1>1, <1>2, <1>3, SeqIsFn

LEMMA FreshFacts ==
  ASSUME NEW ids \in FreshIds
  PROVE  /\ ids \in [1..MaxSteps -> StepIds] /\ 1 \in 1..MaxSteps
         /\ \A i, j \in 1..MaxSteps : ids[i] = ids[j] => i = j
         /\ \A i \in 1..MaxSteps : ids[i] \notin approved /\ ids[i] # awaiting
         /\ \A i \in 1..MaxSteps : \A j \in DOMAIN StepsOf : StepsOf[j].id # ids[i]
  BY WorkflowAssumption DEF FreshIds, WithId

LEMMA CurrentFacts ==
  ASSUME IInv, ~NoCurrent
  PROVE  /\ current \in Workflow /\ current.steps \in Seq(Step) \ {<<>>}
         /\ \A i \in DOMAIN current.steps : current.steps[i] \in Step
         /\ Coherent(current.steps) /\ StepsOf = current.steps
  <1>1. current \in Workflow
    BY DEF IInv, TypeOK, NoCurrent
  <1>2. current.steps \in Seq(Step) \ {<<>>}
    BY <1>1 DEF Workflow
  <1> QED BY <1>1, <1>2, SeqIsFn DEF IInv, StepsOf

-----------------------------------------------------------------------------
(* What a re-plan keeps.                                                    *)

\* A bounded set of positions has a last one.
LEMMA LastIsLast ==
  ASSUME NEW n \in Nat, NEW S, S \subseteq 1..n, S # {}
  PROVE  (CHOOSE i \in S : \A j \in S : j <= i) \in S
  <1> DEFINE T == {n - i : i \in S}
  <1>1. T \subseteq Nat /\ T # {}
    <2>1. \A i \in 1..n : n - i \in Nat
      OBVIOUS
    <2> QED BY <2>1
  <1> DEFINE R == OpToRel(<, Nat)
  <1>2. IsWellFoundedOn(R, Nat)
    BY NatLessThanWellFounded
  <1>3. \A x, y \in Nat : x < y => <<x, y>> \in R
    BY DEF OpToRel
  <1> HIDE DEF R
  <1>4. PICK x \in T : \A y \in T : ~ (<<y, x>> \in R)
    <2> HIDE DEF T
    <2> QED BY <1>1, <1>2, WFMin
  <1>5. PICK i \in S : x = n - i
    OBVIOUS
  <1>6. ASSUME NEW j \in S PROVE j <= i
    <2>1. n - j \in T /\ n - j \in Nat /\ x \in Nat /\ i \in 1..n /\ j \in 1..n
      BY <1>1
    <2>2. ~ (n - j < x)
      BY <1>3, <1>4, <2>1
    <2> HIDE DEF T
    <2> QED BY <1>5, <2>1, <2>2
  <1> QED BY <1>6

\* The step the title map keeps is one of that title.
LEMMA PriorIsOne ==
  ASSUME IInv, ~NoCurrent, NEW t, Titled(current.steps, t) # {}
  PROVE  \E i \in DOMAIN current.steps : current.steps[i].title = t /\ Prior(t) = current.steps[i]
  <1> DEFINE S == Titled(current.steps, t)
             last == CHOOSE i \in S : \A j \in S : j <= i
  <1>1. DOMAIN current.steps = 1..Len(current.steps) /\ Len(current.steps) \in Nat
    BY CurrentFacts, SeqIsFn
  <1>2. S \subseteq 1..Len(current.steps)
    BY <1>1 DEF Titled
  <1>3. last \in S
    <2>1. S # {}
      OBVIOUS
    <2> HIDE DEF S
    <2> QED BY <1>1, <1>2, <2>1, LastIsLast
  <1>4. Prior(t) = current.steps[last]
    BY DEF Prior
  <1> HIDE DEF last
  <1> QED BY <1>3, <1>4 DEF Titled

LEMMA ContinuedOK ==
  ASSUME IInv, ~NoCurrent, NEW plan \in Plans, NEW ids \in FreshIds
  PROVE  /\ Continued(plan, ids) \in Seq(Step) \ {<<>>}
         /\ DOMAIN Continued(plan, ids) = DOMAIN plan
         /\ Coherent(Continued(plan, ids))
         /\ \A j \in DOMAIN plan :
              /\ Continued(plan, ids)[j].title = plan[j].title
              /\ \/ /\ \A i \in DOMAIN current.steps : current.steps[i].title # plan[j].title
                    /\ Continued(plan, ids)[j].id = ids[j]
                 \/ \E i \in DOMAIN current.steps :
                      /\ current.steps[i].title = plan[j].title
                      /\ Continued(plan, ids)[j].id = current.steps[i].id
  <1> DEFINE C == Continued(plan, ids)
  <1>1. /\ DOMAIN C = DOMAIN plan
        /\ \A j \in DOMAIN plan :
             /\ C[j].title = plan[j].title
             /\ C[j].requiresApproval = plan[j].requiresApproval
             /\ C[j] = [id |-> C[j].id, title |-> C[j].title,
                        requiresApproval |-> C[j].requiresApproval, state |-> C[j].state]
    BY DEF Continued
  <1>2. ASSUME NEW j \in DOMAIN plan, Titled(current.steps, plan[j].title) # {}
        PROVE  \E i \in DOMAIN current.steps :
                 /\ current.steps[i].title = plan[j].title
                 /\ C[j].id = current.steps[i].id
                 /\ C[j].state = Merged(current.steps[i], plan[j])
    <2>1. PICK i \in DOMAIN current.steps :
            current.steps[i].title = plan[j].title /\ Prior(plan[j].title) = current.steps[i]
      BY <1>2, PriorIsOne
    <2> QED BY <1>2, <2>1 DEF Continued
  <1>3. ASSUME NEW j \in DOMAIN plan, Titled(current.steps, plan[j].title) = {}
        PROVE  C[j].id = ids[j] /\ C[j].state = plan[j].state
    BY <1>3 DEF Continued
  <1>4. ASSUME NEW j \in DOMAIN plan PROVE C[j] \in Step
    <2>1. plan[j] \in PlanStep
      BY PlanIsPlan
    <2>2. CASE Titled(current.steps, plan[j].title) # {}
      <3>1. PICK i \in DOMAIN current.steps : /\ C[j].id = current.steps[i].id
                                             /\ C[j].state = Merged(current.steps[i], plan[j])
        BY <1>2, <2>2
      <3>2. current.steps[i] \in Step
        BY CurrentFacts
      <3>3. Merged(current.steps[i], plan[j]) \in StepState
        BY <3>2, <2>1 DEF Merged, Step, PlanStep
      <3> QED BY <1>1, <3>1, <3>2, <3>3, <2>1 DEF Step, PlanStep
    <2>3. CASE Titled(current.steps, plan[j].title) = {}
      <3>1. ids[j] \in StepIds
        BY FreshFacts, PlanIsPlan
      <3> QED BY <1>1, <1>3, <2>1, <2>3, <3>1 DEF Step, PlanStep
    <2> QED BY <2>2, <2>3
  <1>5. C \in Seq(Step) \ {<<>>}
    <2>1. C \in [DOMAIN plan -> Step]
      BY <1>1, <1>4 DEF Continued
    <2> QED BY <2>1, PlanIsPlan, SeqFromDomain
  <1>6. ASSUME NEW j \in DOMAIN plan
        PROVE  \/ /\ \A i \in DOMAIN current.steps : current.steps[i].title # plan[j].title
                  /\ C[j].id = ids[j]
               \/ \E i \in DOMAIN current.steps :
                    /\ current.steps[i].title = plan[j].title
                    /\ C[j].id = current.steps[i].id
    <2>1. CASE Titled(current.steps, plan[j].title) # {}
      BY <1>2, <2>1
    <2>2. CASE Titled(current.steps, plan[j].title) = {}
      BY <1>3, <2>2 DEF Titled
    <2> QED BY <2>1, <2>2
  <1>7. Coherent(C)
    <2> SUFFICES ASSUME NEW j \in DOMAIN plan, NEW k \in DOMAIN plan, C[j].id = C[k].id
                 PROVE  plan[j].title = plan[k].title
      BY <1>1 DEF Coherent
    <2>1. /\ ids[j] = ids[k] => j = k
          /\ \A i \in DOMAIN current.steps : current.steps[i].id # ids[j]
          /\ \A i \in DOMAIN current.steps : current.steps[i].id # ids[k]
      BY FreshFacts, PlanIsPlan, CurrentFacts
    <2>2. \A i, l \in DOMAIN current.steps :
            current.steps[i].id = current.steps[l].id => current.steps[i].title = current.steps[l].title
      BY CurrentFacts DEF Coherent
    <2> HIDE DEF C
    <2> QED BY <1>6, <2>1, <2>2
  <1> QED BY <1>1, <1>5, <1>6, <1>7

LEMMA ReplannedOK ==
  ASSUME NEW title, NEW plan \in Plans, NEW ids \in FreshIds
  PROVE  /\ Replanned(title, plan, ids) \in Seq(Step) \ {<<>>}
         /\ DOMAIN Replanned(title, plan, ids) = DOMAIN plan
         /\ Coherent(Replanned(title, plan, ids))
         /\ \A j \in DOMAIN plan : /\ Replanned(title, plan, ids)[j].title = plan[j].title
                                   /\ Replanned(title, plan, ids)[j].id = ids[j]
  <1> DEFINE R == Replanned(title, plan, ids)
  <1>1. /\ DOMAIN R = DOMAIN plan
        /\ \A j \in DOMAIN plan : R[j].title = plan[j].title /\ R[j].id = ids[j]
    BY DEF Replanned
  <1>2. ASSUME NEW j \in DOMAIN plan PROVE R[j] \in Step
    <2>1. plan[j] \in PlanStep /\ ids[j] \in StepIds
      BY PlanIsPlan, FreshFacts
    <2> QED BY <2>1 DEF Replanned, Step, PlanStep, StepState
  <1>3. R \in Seq(Step) \ {<<>>}
    <2>1. R \in [DOMAIN plan -> Step]
      BY <1>1, <1>2 DEF Replanned
    <2> QED BY <2>1, PlanIsPlan, SeqFromDomain
  <1>4. Coherent(R)
    <2>1. \A j, k \in DOMAIN plan : ids[j] = ids[k] => j = k
      BY FreshFacts, PlanIsPlan
    <2> QED BY <1>1, <2>1 DEF Coherent
  <1> QED BY <1>1, <1>3, <1>4

-----------------------------------------------------------------------------
(* What a saved draft, the end of a plan and the gate keep.                 *)

Same(wf, new) ==
  /\ new.title = wf.title /\ new.handoff = wf.handoff /\ new.approvalMode = wf.approvalMode
  /\ DOMAIN new.steps = DOMAIN wf.steps
  /\ \A i \in DOMAIN wf.steps : /\ new.steps[i].id = wf.steps[i].id
                               /\ new.steps[i].title = wf.steps[i].title

LEMMA SameCoherent ==
  ASSUME NEW wf, NEW new, Same(wf, new), Coherent(wf.steps)
  PROVE  Coherent(new.steps)
  BY DEF Same, Coherent

LEMMA SameBacked ==
  ASSUME NEW wf, NEW new, Same(wf, new), NEW appr, NEW g, Backed(wf.steps, appr, g)
  PROVE  Backed(new.steps, appr, g)
  BY DEF Same, Backed

LEMMA StepsChange ==
  ASSUME NEW wf \in Workflow, NEW f \in [DOMAIN wf.steps -> Step],
         \A i \in DOMAIN wf.steps : f[i].id = wf.steps[i].id /\ f[i].title = wf.steps[i].title
  PROVE  /\ [wf EXCEPT !.steps = f] \in Workflow /\ Same(wf, [wf EXCEPT !.steps = f])
         /\ [wf EXCEPT !.steps = f].steps = f
  <1>1. wf.steps \in Seq(Step) \ {<<>>}
    BY DEF Workflow
  <1>2. f \in Seq(Step) \ {<<>>} /\ DOMAIN f = DOMAIN wf.steps
    BY <1>1, SeqFromDomain
  <1> QED BY <1>2 DEF Workflow, Same

LEMMA AdvancedOK ==
  ASSUME NEW wf \in Workflow
  PROVE  Advanced(wf) \in Workflow /\ Same(wf, Advanced(wf))
  <1> DEFINE target == FirstIn(Targets(wf))
             stop == FirstIn(WithId(wf.steps, wf.steps[target].id))
             Now(i) == IF i = target THEN "in_progress"
                       ELSE IF i < stop /\ wf.steps[i].state # "failed" THEN "completed"
                       ELSE wf.steps[i].state
             f == [i \in DOMAIN wf.steps |-> [wf.steps[i] EXCEPT !.state = Now(i)]]
  <1>1. wf.steps \in Seq(Step) \ {<<>>} /\ \A i \in DOMAIN wf.steps : wf.steps[i] \in Step
    BY SeqIsFn DEF Workflow
  <1>2. ASSUME NEW i \in DOMAIN wf.steps
        PROVE  /\ f[i] \in Step /\ f[i].id = wf.steps[i].id /\ f[i].title = wf.steps[i].title
               /\ f[i].state = Now(i)
    <2>1. wf.steps[i] \in Step
      BY <1>1
    <2>2. Now(i) \in StepState
      BY <2>1 DEF Step, StepState
    <2> HIDE DEF Now
    <2> QED BY <2>1, <2>2 DEF Step
  <1>3. Advanced(wf) = [wf EXCEPT !.steps = f]
    BY DEF Advanced
  <1>4. f \in [DOMAIN wf.steps -> Step]
    BY <1>2
  <1> HIDE DEF f
  <1> QED BY <1>2, <1>3, <1>4, StepsChange

LEMMA CompletedOK ==
  ASSUME NEW wf \in Workflow
  PROVE  /\ Completed(wf) \in Workflow /\ Same(wf, Completed(wf))
         /\ Completed(wf).steps = wf.steps
  BY DEF Completed, Workflow, Same

\* The gate asks for a step that is not approved.
LEMMA PauseOK ==
  ASSUME NEW wf \in Workflow, NEW appr, Unapproved(wf.steps, appr) # {}, Pause(wf, appr)
  PROVE  /\ current' \in Workflow /\ Same(wf, current') /\ current'.steps = wf.steps
         /\ \E i \in DOMAIN wf.steps : awaiting' = wf.steps[i].id /\ wf.steps[i].id \notin appr
         /\ awaiting' \in StepIds /\ awaiting' \notin appr
  <1>1. wf.steps \in Seq(Step) \ {<<>>} /\ \A i \in DOMAIN wf.steps : wf.steps[i] \in Step
    BY SeqIsFn DEF Workflow
  <1>2. FirstIn(Unapproved(wf.steps, appr)) \in Unapproved(wf.steps, appr)
    BY <1>1, Positions DEF Unapproved, WithState
  <1>3. current' \in Workflow /\ Same(wf, current') /\ current'.steps = wf.steps
    BY DEF Pause, Workflow, Same
  <1>4. \A i \in DOMAIN wf.steps : wf.steps[i].id \in StepIds
    BY <1>1 DEF Step
  <1> QED BY <1>2, <1>3, <1>4 DEF Pause, Unapproved, WithState

-----------------------------------------------------------------------------
(* The inductive invariant.                                                 *)

LEMMA FromParts ==
  ASSUME current' \in Workflow, Coherent(current'.steps),
         current'.handoff => said'.handedOff,
         awaiting' \in StepIds \union {NoStep}, approved' \subseteq StepIds,
         awaiting' \notin approved', said' \in Said,
         Backed(current'.steps, approved', said'.granted)
  PROVE  IInv'
  <1>1. ~NoCurrent'
    BY NoWorkflowAssumption DEF NoCurrent
  <1>2. TypeOK'
    BY <1>1 DEF TypeOK
  <1> QED BY <1>1, <1>2 DEF IInv, ApprovalsAreTheOperators, Backed

LEMMA InvFacts ==
  ASSUME IInv
  PROVE  /\ awaiting \in StepIds \union {NoStep} /\ awaiting \notin approved
         /\ approved \subseteq StepIds /\ said \in Said
         /\ ~NoCurrent => /\ current \in Workflow /\ Coherent(current.steps)
                          /\ current.handoff => said.handedOff
                          /\ Backed(current.steps, approved, said.granted)
  BY DEF IInv, TypeOK, NoCurrent, ApprovalsAreTheOperators, Backed

LEMMA NothingIsSaid == NothingSaid \in Said
  BY WorkflowAssumption DEF NothingSaid, Said

LEMMA InvInit == Init => IInv
  BY NothingIsSaid, WorkflowAssumption
  DEF Init, IInv, TypeOK, NoCurrent, ApprovalsAreTheOperators

\* The workflow todo_write builds, before the gate looks at it.
LEMMA TodoWriteParts ==
  ASSUME IInv, NEW title \in WorkflowTitles, NEW plan \in Plans,
         NEW ids \in FreshIds, NEW kind \in Turn,
         NEW steps, steps = (IF Continues(title, plan) THEN Continued(plan, ids)
                             ELSE Replanned(title, plan, ids)),
         NEW appr, appr = (IF Continues(title, plan) THEN approved
                           ELSE CarriedApprovals(title, plan, ids)),
         said' = (IF ~NoCurrent /\ current.title = title /\ ~current.done
                  THEN said ELSE NothingSaid)
  PROVE  /\ steps \in Seq(Step) \ {<<>>} /\ Coherent(steps)
         /\ appr \subseteq StepIds /\ awaiting \notin appr
         /\ said' \in Said /\ Backed(steps, appr, said'.granted)
  <1>1. said' \in Said
    BY InvFacts, NothingIsSaid
  <1>2. CASE Continues(title, plan)
    <2>1. ~NoCurrent /\ said' = said /\ steps = Continued(plan, ids) /\ appr = approved
      BY <1>2 DEF Continues
    <2>2. ASSUME NEW j \in DOMAIN plan, steps[j].id \in appr
          PROVE  said'.granted[steps[j].title] > 0
      <3>1. ids[j] \notin approved
        BY FreshFacts, PlanIsPlan
      <3>2. steps[j].title = plan[j].title
        BY <2>1, ContinuedOK
      <3>3. PICK i \in DOMAIN current.steps :
              current.steps[i].title = plan[j].title /\ steps[j].id = current.steps[i].id
        BY <2>1, <2>2, <3>1, ContinuedOK
      <3> QED BY <2>1, <2>2, <3>2, <3>3, InvFacts DEF Backed
    <2>3. steps \in Seq(Step) \ {<<>>} /\ Coherent(steps) /\ DOMAIN steps = DOMAIN plan
      BY <2>1, ContinuedOK
    <2> QED BY <1>1, <2>1, <2>2, <2>3, InvFacts DEF Backed
  <1>3. CASE ~Continues(title, plan)
    <2>1. steps = Replanned(title, plan, ids) /\ appr = CarriedApprovals(title, plan, ids)
      BY <1>3
    <2>2. /\ steps \in Seq(Step) \ {<<>>} /\ Coherent(steps) /\ DOMAIN steps = DOMAIN plan
          /\ \A j \in DOMAIN plan : steps[j].title = plan[j].title /\ steps[j].id = ids[j]
      BY <2>1, ReplannedOK
    <2>3. CASE NoCurrent
      <3>1. appr = approved
        BY <2>1, <2>3 DEF CarriedApprovals
      <3>2. \A j \in DOMAIN plan : ids[j] \notin appr
        BY <3>1, FreshFacts, PlanIsPlan
      <3> QED BY <1>1, <2>2, <3>1, <3>2, InvFacts DEF Backed
    <2>4. CASE ~NoCurrent
      <3>1. appr = {ids[k] : k \in {l \in DOMAIN plan : Carries(title) /\
                     \E j \in Titled(current.steps, plan[l].title) :
                        current.steps[j].id \in approved}}
        BY <2>1, <2>4 DEF CarriedApprovals
      <3>2. \A k \in DOMAIN plan : ids[k] \in StepIds /\ ids[k] # awaiting
        BY FreshFacts, PlanIsPlan
      <3>3. appr \subseteq StepIds /\ awaiting \notin appr
        BY <3>1, <3>2
      <3>4. ASSUME NEW j \in DOMAIN plan, ids[j] \in appr
            PROVE  said'.granted[plan[j].title] > 0
        <4>1. PICK k \in DOMAIN plan :
                /\ ids[j] = ids[k] /\ Carries(title)
                /\ \E i \in Titled(current.steps, plan[k].title) : current.steps[i].id \in approved
          BY <3>1, <3>4
        <4>2. j = k
          BY <4>1, FreshFacts, PlanIsPlan
        <4>3. said' = said
          BY <4>1 DEF Carries
        <4>4. PICK i \in DOMAIN current.steps :
                current.steps[i].title = plan[j].title /\ current.steps[i].id \in approved
          BY <4>1, <4>2 DEF Titled
        <4> QED BY <2>4, <4>3, <4>4, InvFacts DEF Backed
      <3> QED BY <1>1, <2>2, <3>3, <3>4 DEF Backed
    <2> QED BY <2>3, <2>4
  <1> QED BY <1>2, <1>3

LEMMA TodoWriteInv ==
  ASSUME IInv, NEW title \in WorkflowTitles, NEW plan \in Plans,
         NEW ids \in FreshIds, NEW kind \in Turn, TodoWrite(title, plan, ids, kind)
  PROVE  IInv'
  <1> DEFINE continues == Continues(title, plan)
             steps == IF continues THEN Continued(plan, ids) ELSE Replanned(title, plan, ids)
             appr == IF continues THEN approved ELSE CarriedApprovals(title, plan, ids)
             mode == IF continues THEN current.approvalMode
                     ELSE IF kind = "manual" THEN "manual" ELSE "auto"
             wf == [title |-> title, handoff |-> FALSE, steps |-> steps, state |-> "active",
                    done |-> FALSE, approvalMode |-> mode]
  <1>1. /\ approved' = appr
        /\ said' = (IF ~NoCurrent /\ current.title = title /\ ~current.done
                    THEN said ELSE NothingSaid)
        /\ IF GateApplies(wf, appr, kind) THEN Pause(wf, appr)
           ELSE current' = Completed(wf) /\ UNCHANGED awaiting
    BY DEF TodoWrite
  <1>2. /\ steps \in Seq(Step) \ {<<>>} /\ Coherent(steps)
        /\ appr \subseteq StepIds /\ awaiting \notin appr
        /\ said' \in Said /\ Backed(steps, appr, said'.granted)
    BY <1>1, TodoWriteParts
  <1>3. mode \in {"manual", "auto"}
    BY InvFacts DEF Continues, Workflow
  <1> HIDE DEF continues, steps, appr, mode
  <1>4. wf \in Workflow /\ wf.steps = steps /\ wf.handoff = FALSE
    BY <1>2, <1>3 DEF Workflow
  <1>5. NoStep \notin approved'
    BY <1>1, <1>2, WorkflowAssumption
  <1> HIDE DEF wf
  <1>6. CASE GateApplies(wf, appr, kind)
    <2>1. /\ current' \in Workflow /\ Same(wf, current') /\ current'.steps = steps
          /\ awaiting' \in StepIds /\ awaiting' \notin appr
      BY <1>1, <1>4, <1>6, PauseOK DEF GateApplies
    <2> QED BY <1>1, <1>2, <1>4, <2>1, FromParts DEF Same
  <1>7. CASE ~GateApplies(wf, appr, kind)
    <2>1. /\ current' \in Workflow /\ Same(wf, current') /\ current'.steps = steps
          /\ awaiting' = awaiting
      BY <1>1, <1>4, <1>7, CompletedOK
    <2> QED BY <1>1, <1>2, <1>4, <2>1, FromParts, InvFacts DEF Same
  <1> QED BY <1>6, <1>7

LEMMA DraftPlanOK ==
  ASSUME NEW ids \in FreshIds, NEW kind \in Turn
  PROVE  /\ DraftPlan(ids[1], kind) \in Workflow /\ Coherent(DraftPlan(ids[1], kind).steps)
         /\ DraftPlan(ids[1], kind).handoff = FALSE
         /\ \A i \in DOMAIN DraftPlan(ids[1], kind).steps :
              DraftPlan(ids[1], kind).steps[i].id = ids[1]
  <1> DEFINE s == [id |-> ids[1], title |-> DraftStep, requiresApproval |-> TRUE,
                   state |-> IF kind = "auto" THEN "in_progress" ELSE "pending"]
  <1>1. ids[1] \in StepIds
    BY FreshFacts
  <1>2. s \in Step
    BY <1>1, WorkflowAssumption DEF Step, StepState
  <1>3. s.id = ids[1]
    OBVIOUS
  <1> HIDE DEF s
  <1>4. /\ <<s>> \in Seq(Step) \ {<<>>} /\ DOMAIN <<s>> = {1}
        /\ \A i \in DOMAIN <<s>> : <<s>>[i] = s
    BY <1>2
  <1>5. DraftPlan(ids[1], kind).steps = <<s>>
    BY DEF DraftPlan, s
  <1>6. DraftPlan(ids[1], kind) \in Workflow
    BY <1>4, <1>5, WorkflowAssumption DEF DraftPlan, Workflow
  <1>7. DraftPlan(ids[1], kind).handoff = FALSE
    BY DEF DraftPlan
  <1> QED BY <1>3, <1>4, <1>5, <1>6, <1>7 DEF Coherent

\* The workflow a saved draft starts from: the current one, or the one it makes up.
LEMMA SaveDraftParts ==
  ASSUME IInv, NEW ids \in FreshIds, NEW kind \in Turn,
         NEW wf, wf = (IF NoCurrent THEN DraftPlan(ids[1], kind) ELSE current),
         said' = (IF NoCurrent THEN NothingSaid ELSE said)
  PROVE  /\ wf \in Workflow /\ Coherent(wf.steps) /\ (wf.handoff => said'.handedOff)
         /\ said' \in Said /\ Backed(wf.steps, approved, said'.granted)
  <1>1. CASE NoCurrent
    <2>1. ids[1] \notin approved
      BY FreshFacts
    <2> QED BY <1>1, <2>1, DraftPlanOK, NothingIsSaid DEF Backed
  <1>2. CASE ~NoCurrent
    BY <1>2, InvFacts
  <1> QED BY <1>1, <1>2

LEMMA SaveDraftInv ==
  ASSUME IInv, NEW ids \in FreshIds, NEW kind \in Turn, SaveDraft(ids, kind)
  PROVE  IInv'
  <1> DEFINE wf == IF NoCurrent THEN DraftPlan(ids[1], kind) ELSE current
             advances == wf.approvalMode = "manual" /\ awaiting = NoStep /\ Targets(wf) # {}
                         /\ Advanced(wf) # wf
             new == IF advances THEN Advanced(wf) ELSE wf
  <1>1. /\ approved' = approved
        /\ said' = (IF NoCurrent THEN NothingSaid ELSE said)
        /\ \/ Unapproved(new.steps, approved) # {} /\ Pause(new, approved)
           \/ current' = new /\ awaiting' = awaiting
    BY DEF SaveDraft, GateApplies
  <1>2. /\ wf \in Workflow /\ Coherent(wf.steps) /\ (wf.handoff => said'.handedOff)
        /\ said' \in Said /\ Backed(wf.steps, approved, said'.granted)
    BY <1>1, SaveDraftParts
  <1> HIDE DEF wf
  <1>3. new \in Workflow /\ Same(wf, new)
    BY <1>2, AdvancedOK DEF Same
  <1> HIDE DEF new
  <1>4. CASE Unapproved(new.steps, approved) # {} /\ Pause(new, approved)
    <2>1. /\ current' \in Workflow /\ Same(new, current')
          /\ awaiting' \in StepIds /\ awaiting' \notin approved
      BY <1>3, <1>4, PauseOK
    <2>2. Coherent(new.steps) /\ Backed(new.steps, approved, said'.granted)
      BY <1>2, <1>3, SameCoherent, SameBacked
    <2>3. Coherent(current'.steps) /\ Backed(current'.steps, approved, said'.granted)
      BY <2>1, <2>2, SameCoherent, SameBacked
    <2> QED BY <1>1, <1>2, <1>3, <2>1, <2>3, InvFacts, FromParts DEF Same
  <1>5. CASE current' = new /\ awaiting' = awaiting
    <2>1. Coherent(new.steps) /\ Backed(new.steps, approved, said'.granted)
      BY <1>2, <1>3, SameCoherent, SameBacked
    <2> QED BY <1>1, <1>2, <1>3, <1>5, <2>1, InvFacts, FromParts DEF Same
  <1> QED BY <1>1, <1>4, <1>5

\* The step that waits is the one with the awaited id.
LEMMA PendingStep ==
  ASSUME IInv, Pending # {}
  PROVE  /\ ~NoCurrent /\ FirstIn(Pending) \in DOMAIN current.steps
         /\ current.steps[FirstIn(Pending)].id = awaiting
         /\ current.steps[FirstIn(Pending)].title \in StepTitles
         /\ awaiting \in StepIds
         /\ \A i \in DOMAIN current.steps :
              current.steps[i].id = awaiting
                => current.steps[i].title = current.steps[FirstIn(Pending)].title
  <1>1. ~NoCurrent /\ Pending = WithId(current.steps, awaiting)
    BY DEF Pending
  <1>2. FirstIn(Pending) \in Pending
    BY <1>1, CurrentFacts, Positions DEF WithId
  <1>3. FirstIn(Pending) \in DOMAIN current.steps
        /\ current.steps[FirstIn(Pending)].id = awaiting
    BY <1>1, <1>2 DEF WithId
  <1>4. \A i \in DOMAIN current.steps : current.steps[i] \in Step
    BY <1>1, CurrentFacts
  <1> QED BY <1>1, <1>3, <1>4, CurrentFacts DEF Coherent, Step

LEMMA ApproveInv ==
  ASSUME IInv, Approve
  PROVE  IInv'
  <1> DEFINE k == FirstIn(Pending)
             t == current.steps[k].title
  <1>1. /\ current' = [current EXCEPT !.state = "active"] /\ awaiting' = NoStep
        /\ approved' = approved \union {awaiting}
        /\ said' = [said EXCEPT !.granted[t] = IF @ < MaxGrants THEN @ + 1 ELSE @]
    BY DEF Approve
  <1>2. /\ ~NoCurrent /\ k \in DOMAIN current.steps /\ t \in StepTitles /\ awaiting \in StepIds
        /\ \A i \in DOMAIN current.steps : current.steps[i].id = awaiting => current.steps[i].title = t
    BY PendingStep DEF Approve
  <1>3. /\ current \in Workflow /\ Coherent(current.steps) /\ said \in Said
        /\ current.handoff => said.handedOff
        /\ Backed(current.steps, approved, said.granted)
        /\ approved \subseteq StepIds
    BY <1>2, InvFacts
  <1> HIDE DEF k, t
  <1>4. current' \in Workflow /\ current'.steps = current.steps /\ current'.handoff = current.handoff
    BY <1>1, <1>3 DEF Workflow
  <1>5. /\ MaxGrants \in Nat \ {0} /\ said.granted \in [StepTitles -> 0..MaxGrants]
        /\ said.handedOff \in BOOLEAN
    BY <1>3, WorkflowAssumption DEF Said
  <1>6. /\ said'.handedOff = said.handedOff
        /\ said'.granted = [said.granted EXCEPT ![t] =
                              IF said.granted[t] < MaxGrants THEN said.granted[t] + 1
                              ELSE said.granted[t]]
        /\ said' \in [granted : {said'.granted}, handedOff : BOOLEAN]
    BY <1>1, <1>3, <1>5 DEF Said
  <1>7. /\ said'.granted \in [StepTitles -> 0..MaxGrants] /\ said'.granted[t] > 0
        /\ \A u \in StepTitles : said.granted[u] > 0 => said'.granted[u] > 0
    BY <1>2, <1>5, <1>6
  <1>8. said' \in Said
    BY <1>6, <1>7 DEF Said
  <1>9. Backed(current.steps, approved', said'.granted)
    <2> SUFFICES ASSUME NEW i \in DOMAIN current.steps, current.steps[i].id \in approved'
                 PROVE  said'.granted[current.steps[i].title] > 0
      BY DEF Backed
    <2>1. CASE current.steps[i].id = awaiting
      BY <2>1, <1>2, <1>7
    <2>2. CASE current.steps[i].id \in approved
      <3>1. current.steps[i].title \in StepTitles
        BY <1>2, CurrentFacts DEF Step
      <3> QED BY <2>2, <3>1, <1>3, <1>7 DEF Backed
    <2> QED BY <1>1, <2>1, <2>2
  <1> QED BY <1>1, <1>2, <1>3, <1>4, <1>6, <1>8, <1>9, WorkflowAssumption, FromParts

LEMMA DeclineInv ==
  ASSUME IInv, Decline
  PROVE  IInv'
  <1> DEFINE k == FirstIn(Pending)
             t == current.steps[k].title
             f == [current.steps EXCEPT ![k].state = "failed"]
  <1>1. /\ current' = [current EXCEPT !.state = "active", !.steps[k].state = "failed"]
        /\ awaiting' = NoStep /\ approved' = approved
        /\ said' = [said EXCEPT !.granted[t] = IF StandsApproved(t, awaiting) THEN @ ELSE 0]
    BY DEF Decline
  <1>2. /\ ~NoCurrent /\ k \in DOMAIN current.steps /\ t \in StepTitles
        /\ current.steps[k].id = awaiting
    BY PendingStep DEF Decline
  <1>3. /\ current \in Workflow /\ Coherent(current.steps) /\ said \in Said
        /\ current.handoff => said.handedOff
        /\ Backed(current.steps, approved, said.granted)
        /\ approved \subseteq StepIds /\ awaiting \notin approved
    BY <1>2, InvFacts
  <1>4. /\ current.steps \in Seq(Step) \ {<<>>}
        /\ \A i \in DOMAIN current.steps : current.steps[i] \in Step
    BY <1>2, CurrentFacts
  <1>5. /\ DOMAIN f = DOMAIN current.steps
        /\ \A i \in DOMAIN f : /\ f[i] \in Step /\ f[i].id = current.steps[i].id
                              /\ f[i].title = current.steps[i].title
    BY <1>2, <1>4 DEF Step, StepState
  <1>6. f \in [DOMAIN current.steps -> Step]
    BY <1>5
  <1>7. f \in Seq(Step) \ {<<>>}
    BY <1>4, <1>6, SeqFromDomain
  <1>8. /\ current'.steps = f /\ current'.handoff = current.handoff
        /\ current' = [current EXCEPT !.state = "active", !.steps = f]
    BY <1>1, <1>3 DEF Workflow
  <1> HIDE DEF f, k, t
  <1>9. current' \in Workflow
    BY <1>3, <1>7, <1>8 DEF Workflow
  <1>10. Coherent(f)
    BY <1>3, <1>5 DEF Coherent
  <1>11. /\ said'.handedOff = said.handedOff /\ said' \in Said
         /\ said'.granted = [said.granted EXCEPT ![t] =
                               IF StandsApproved(t, awaiting) THEN said.granted[t] ELSE 0]
    <2> DEFINE left == IF StandsApproved(t, awaiting) THEN said.granted[t] ELSE 0
    <2>1. said.granted \in [StepTitles -> 0..MaxGrants] /\ MaxGrants \in Nat
      BY <1>3, WorkflowAssumption DEF Said
    <2>2. left \in 0..MaxGrants
      BY <1>2, <2>1
    <2>3. said' = [said EXCEPT !.granted = [said.granted EXCEPT ![t] = left]]
      BY <1>1, <1>3 DEF Said
    <2> HIDE DEF left
    <2>4. [said.granted EXCEPT ![t] = left] \in [StepTitles -> 0..MaxGrants]
      BY <2>1, <2>2
    <2>5. /\ said'.handedOff = said.handedOff /\ said' \in Said
          /\ said'.granted = [said.granted EXCEPT ![t] = left]
      BY <1>3, <2>3, <2>4 DEF Said
    <2> QED BY <2>5 DEF left
  <1>12. Backed(f, approved, said'.granted)
    <2> SUFFICES ASSUME NEW i \in DOMAIN f, f[i].id \in approved
                 PROVE  said'.granted[f[i].title] > 0
      BY DEF Backed
    <2>1. said.granted[f[i].title] > 0 /\ f[i].title \in StepTitles
      BY <1>3, <1>5 DEF Backed, Step
    <2>2. f[i].title = t => StandsApproved(t, awaiting)
      <3>1. i \in DOMAIN current.steps /\ f[i].id = current.steps[i].id
            /\ f[i].title = current.steps[i].title /\ f[i].id # awaiting
        BY <1>3, <1>5
      <3> QED BY <3>1 DEF StandsApproved, Titled
    <2>3. said.granted \in [StepTitles -> 0..MaxGrants]
      BY <1>3 DEF Said
    <2> QED BY <2>1, <2>2, <2>3, <1>11
  <1> QED BY <1>1, <1>3, <1>8, <1>9, <1>10, <1>11, <1>12, WorkflowAssumption, FromParts

LEMMA HandoffInv ==
  ASSUME IInv, Handoff
  PROVE  IInv'
  <1>1. /\ ~NoCurrent /\ awaiting' = NoStep /\ approved' = approved
        /\ current' = [current EXCEPT !.approvalMode = "auto", !.handoff = TRUE, !.state = "active"]
        /\ said' = [said EXCEPT !.handedOff = TRUE]
    BY DEF Handoff
  <1>2. current' \in Workflow /\ current'.steps = current.steps
    BY <1>1, InvFacts DEF Workflow
  <1>3. said' \in Said /\ said'.handedOff = TRUE /\ said'.granted = said.granted
    BY <1>1, InvFacts DEF Said
  <1> QED BY <1>1, <1>2, <1>3, InvFacts, WorkflowAssumption, FromParts

LEMMA ForgetInv ==
  ASSUME IInv, Forget
  PROVE  IInv'
  BY InvFacts, NothingIsSaid, WorkflowAssumption
  DEF Forget, IInv, TypeOK, NoCurrent, ApprovalsAreTheOperators

\* The actions of Next, with the ids it takes for a new plan or draft.
Acts ==
  \/ \E ids \in FreshIds :
       \/ \E title \in WorkflowTitles, plan \in Plans, kind \in Turn :
            TodoWrite(title, plan, ids, kind)
       \/ \E kind \in {"manual", "auto"} : SaveDraft(ids, kind)
  \/ Approve \/ Decline \/ Handoff \/ Forget

LEMMA NextActs == Next => Acts
  BY DEF Next, Acts

LEMMA Inductive == IInv /\ [Next]_vars => IInv'
  <1> SUFFICES ASSUME IInv, [Next]_vars PROVE IInv'
    OBVIOUS
  <1>1. CASE Acts
    <2>1. ASSUME NEW ids \in FreshIds, NEW title \in WorkflowTitles, NEW plan \in Plans,
                 NEW kind \in Turn, TodoWrite(title, plan, ids, kind)
          PROVE  IInv'
      BY <2>1, TodoWriteInv
    <2>2. ASSUME NEW ids \in FreshIds, NEW kind \in {"manual", "auto"}, SaveDraft(ids, kind)
          PROVE  IInv'
      BY <2>2, SaveDraftInv DEF Turn
    <2> QED BY <1>1, <2>1, <2>2, ApproveInv, DeclineInv, HandoffInv, ForgetInv DEF Acts
  <1>2. CASE UNCHANGED vars
    BY <1>2 DEF vars, IInv, TypeOK, NoCurrent, ApprovalsAreTheOperators
  <1> QED BY <1>1, <1>2, NextActs

-----------------------------------------------------------------------------
(* Theorems.                                                                *)

\* An id stands for steps of one title, a hand-off is the operator's, and the id the gate
\* waits for has not been approved, through every re-plan, answer and new prompt.
THEOREM Invariance == Spec => []IInv
  <1>1. IInv /\ [Next]_vars => IInv'
    BY Inductive
  <1> QED BY <1>1, InvInit, PTL DEF Spec

\* Every variable keeps its type, for any plans, titles and number of steps, and nothing
\* waits for an answer without a workflow.
THEOREM TypeCorrect == Spec => []TypeOK
  <1>1. IInv => TypeOK
    BY DEF IInv
  <1> QED BY <1>1, Invariance, PTL

\* However the agent rewrites its plan, reconcileTodoWrite and the draft handler leave an id
\* in approvedStepIds only for a step whose title the operator approved and has not declined.
THEOREM OnlyTheOperatorApproves == Spec => []ApprovalsAreTheOperators
  <1>1. IInv => ApprovalsAreTheOperators
    BY DEF IInv
  <1> QED BY <1>1, Invariance, PTL

\* hasApprovedOutboundStep is true only after a hand-off of this plan or an approval of the
\* step in progress: an auto plan left by a cron turn authorizes nothing in Manual mode.
THEOREM OutboundIsAuthorized == Spec => []OutboundNeedsOperator
  <1>1. IInv => OutboundNeedsOperator
    <2> SUFFICES ASSUME IInv, HasApprovedOutboundStep, ~said.handedOff
                 PROVE  \E i \in DOMAIN current.steps :
                          /\ current.steps[i].state = "in_progress"
                          /\ said.granted[current.steps[i].title] > 0
      BY DEF OutboundNeedsOperator
    <2> DEFINE S == WithState(current.steps, "in_progress")
    <2>1. ~NoCurrent /\ ~current.handoff
      BY InvFacts DEF HasApprovedOutboundStep
    <2>2. S # {} /\ current.steps[FirstIn(S)].id \in approved
      BY <2>1 DEF HasApprovedOutboundStep
    <2>3. FirstIn(S) \in S
      BY <2>1, <2>2, CurrentFacts, Positions DEF WithState
    <2> QED BY <2>1, <2>2, <2>3, InvFacts DEF WithState, Backed
  <1> QED BY <1>1, Invariance, PTL

\* What an action does to the step that is asked about.
AsksNew ==
  awaiting' # awaiting /\ SameLineage =>
    /\ awaiting' \notin approved'
    /\ \A i \in DOMAIN StepsOf, j \in DOMAIN StepsOf' :
         /\ StepsOf'[j].id = awaiting' /\ WithId(StepsOf, awaiting') = {}
         /\ StepsOf[i].title = StepsOf'[j].title
         => StepsOf[i].id \notin approved

\* What is left to show once the invariant holds after the step.
NewOnly ==
  SameLineage =>
    \A i \in DOMAIN StepsOf, j \in DOMAIN StepsOf' :
      /\ StepsOf'[j].id = awaiting' /\ WithId(StepsOf, awaiting') = {}
      /\ awaiting' # awaiting /\ StepsOf[i].title = StepsOf'[j].title
      => StepsOf[i].id \notin approved

LEMMA NewSuffices == IInv' /\ NewOnly => AsksNew
  BY DEF IInv, NewOnly, AsksNew

\* todo_write: a continuation gives a known title a known id, a re-plan has new ids and
\* carries approvals by title.
LEMMA TodoWriteKeeps ==
  ASSUME IInv, NEW title \in WorkflowTitles, NEW plan \in Plans,
         NEW ids \in FreshIds, NEW kind \in Turn, TodoWrite(title, plan, ids, kind)
  PROVE  NewOnly
  <1> DEFINE continues == Continues(title, plan)
             steps == IF continues THEN Continued(plan, ids) ELSE Replanned(title, plan, ids)
             appr == IF continues THEN approved ELSE CarriedApprovals(title, plan, ids)
             mode == IF continues THEN current.approvalMode
                     ELSE IF kind = "manual" THEN "manual" ELSE "auto"
             wf == [title |-> title, handoff |-> FALSE, steps |-> steps, state |-> "active",
                    done |-> FALSE, approvalMode |-> mode]
  <1>1. IF GateApplies(wf, appr, kind) THEN Pause(wf, appr)
        ELSE current' = Completed(wf) /\ UNCHANGED awaiting
    BY DEF TodoWrite
  <1>2. steps \in Seq(Step) \ {<<>>} /\ DOMAIN steps = DOMAIN plan
    <2>1. CASE continues
      BY <2>1, ContinuedOK DEF Continues
    <2>2. CASE ~continues
      BY <2>2, ReplannedOK
    <2> QED BY <2>1, <2>2
  <1>3. mode \in {"manual", "auto"}
    BY InvFacts DEF Continues, Workflow
  <1>4. wf \in Workflow /\ wf.steps = steps /\ wf.title = title
    <2> HIDE DEF continues, steps, mode
    <2> QED BY <1>2, <1>3 DEF Workflow
  <1>5. /\ current' \in Workflow /\ current'.steps = steps /\ current'.title = title
        /\ \/ awaiting' = awaiting
           \/ \E k \in DOMAIN steps : awaiting' = steps[k].id /\ steps[k].id \notin appr
    <2> HIDE DEF wf, steps, appr
    <2>1. CASE GateApplies(wf, appr, kind)
      BY <1>1, <1>4, <2>1, PauseOK DEF GateApplies, Same
    <2>2. CASE ~GateApplies(wf, appr, kind)
      BY <1>1, <1>4, <2>2, CompletedOK DEF Same
    <2> QED BY <2>1, <2>2
  <1>6. StepsOf' = steps
    BY <1>5, NoWorkflowAssumption DEF StepsOf, NoCurrent
  <1> QED
    <2> SUFFICES ASSUME awaiting' # awaiting, SameLineage, NEW i \in DOMAIN StepsOf,
                        NEW j \in DOMAIN plan, steps[j].id = awaiting',
                        WithId(StepsOf, awaiting') = {},
                        StepsOf[i].title = steps[j].title, StepsOf[i].id \in approved
                 PROVE  FALSE
      BY <1>2, <1>6 DEF NewOnly
    <2>1. ~NoCurrent /\ StepsOf = current.steps /\ Carries(title)
      BY <1>5 DEF SameLineage, Carries, StepsOf
    <2>2. PICK k \in DOMAIN steps : awaiting' = steps[k].id /\ steps[k].id \notin appr
      BY <1>5
    <2>3. CASE continues
      <3>1. steps[j].title = plan[j].title
        BY <2>1, <2>3, ContinuedOK
      <3>2. \E m \in DOMAIN current.steps : steps[j].id = current.steps[m].id
        BY <2>1, <2>3, <3>1, ContinuedOK
      <3> QED BY <2>1, <3>2 DEF WithId
    <2>4. CASE ~continues
      <3>1. steps[j].id = ids[j] /\ steps[j].title = plan[j].title
        BY <2>4, ReplannedOK
      <3>2. j \in {l \in DOMAIN plan : Carries(title) /\
                     \E m \in Titled(current.steps, plan[l].title) :
                        current.steps[m].id \in approved}
        BY <2>1, <3>1 DEF Titled
      <3>3. ids[j] \in appr
        BY <2>1, <2>4, <3>2 DEF CarriedApprovals
      <3> QED BY <2>2, <3>1, <3>3
    <2> QED BY <2>3, <2>4

LEMMA SaveDraftKeeps ==
  ASSUME IInv, NEW ids \in FreshIds, NEW kind \in Turn, SaveDraft(ids, kind)
  PROVE  NewOnly
  <1> DEFINE wf == IF NoCurrent THEN DraftPlan(ids[1], kind) ELSE current
             advances == wf.approvalMode = "manual" /\ awaiting = NoStep /\ Targets(wf) # {}
                         /\ Advanced(wf) # wf
             new == IF advances THEN Advanced(wf) ELSE wf
  <1>1. CASE NoCurrent
    BY <1>1 DEF NewOnly, SameLineage
  <1>2. CASE ~NoCurrent
    <2>1. wf = current /\ current \in Workflow /\ StepsOf = current.steps
      BY <1>2, CurrentFacts
    <2>2. \/ Unapproved(new.steps, approved) # {} /\ Pause(new, approved)
          \/ current' = new /\ awaiting' = awaiting
      BY DEF SaveDraft, GateApplies
    <2>3. new \in Workflow /\ Same(current, new)
      BY <2>1, AdvancedOK DEF Same
    <2> HIDE DEF new
    <2>4. \/ awaiting' = awaiting
          \/ \E k \in DOMAIN new.steps : awaiting' = new.steps[k].id
      BY <2>2, <2>3, PauseOK
    <2>5. \/ awaiting' = awaiting
          \/ \E k \in DOMAIN current.steps : awaiting' = current.steps[k].id
      BY <2>3, <2>4 DEF Same
    <2> QED BY <2>1, <2>5 DEF NewOnly, WithId
  <1> QED BY <1>1, <1>2

\* After an answer no step waits, and ids are never NoStep.
LEMMA AnswersKeep ==
  ASSUME IInv, IInv', Approve \/ Decline \/ Handoff \/ Forget
  PROVE  NewOnly
  <1>1. awaiting' = NoStep
    BY DEF Approve, Decline, Handoff, Forget
  <1>2. SameLineage => \A j \in DOMAIN StepsOf' : StepsOf'[j].id # NoStep
    <2>1. ASSUME ~NoCurrent' PROVE \A j \in DOMAIN StepsOf' : StepsOf'[j] \in Step
      <3>1. current' \in Workflow /\ StepsOf' = current'.steps
        BY <2>1 DEF IInv, TypeOK, NoCurrent, StepsOf
      <3>2. current'.steps \in Seq(Step) \ {<<>>}
        BY <3>1 DEF Workflow
      <3> QED BY <3>1, <3>2, SeqIsFn
    <2> QED BY <2>1, WorkflowAssumption DEF SameLineage, NoCurrent, Step
  <1> QED BY <1>1, <1>2 DEF NewOnly

LEMMA StepKeeps == IInv /\ IInv' /\ [Next]_vars => [AsksNew]_vars
  <1> SUFFICES ASSUME IInv, IInv', Acts PROVE NewOnly
    BY NextActs, NewSuffices
  <1>1. ASSUME NEW ids \in FreshIds, NEW title \in WorkflowTitles, NEW plan \in Plans,
               NEW kind \in Turn, TodoWrite(title, plan, ids, kind)
        PROVE  NewOnly
    BY <1>1, TodoWriteKeeps
  <1>2. ASSUME NEW ids \in FreshIds, NEW kind \in {"manual", "auto"}, SaveDraft(ids, kind)
        PROVE  NewOnly
    BY <1>2, SaveDraftKeeps DEF Turn
  <1> QED BY <1>1, <1>2, AnswersKeep DEF Acts

\* checkApprovalGate never asks for an id the operator approved, nor for a re-planned step
\* if one of its title stood approved in the plan it replaces.
THEOREM AskedOnce == Spec => NeverAskedTwice
  <1>1. IInv /\ IInv' /\ [Next]_vars => [AsksNew]_vars
    BY StepKeeps
  <1> QED BY <1>1, Invariance, PTL DEF Spec, NeverAskedTwice, AsksNew
=============================================================================
