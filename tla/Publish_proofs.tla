--------------------------- MODULE Publish_proofs ---------------------------
(***************************************************************************)
(* For any number of drafts, steps, plans and publishes: a draft is posted    *)
(* once unless its publishes overlapped or a record was lost, an approval is   *)
(* carried out once, and a declined draft is not pending.  And in the composer  *)
(* that a publish fills in, it posts its draft and nothing else.               *)
(***************************************************************************)
EXTENDS Publish, Composer, WellFoundedInduction, NaturalsInduction, FiniteSetTheorems,
  SequenceTheorems, TLAPS

\* A publish has a draft, and is handed over only before its click.
FlowsOK ==
  \A f \in Publishes :
    /\ flow[f].at # "none" => flow[f].draft \in Drafts
    /\ flow[f].at = "clicked" => ~flow[f].handed
    /\ flow[f].at \in {"none", "connecting", "filling"} => ~flow[f].clicked /\ ~flow[f].handed
    /\ ~(flow[f].clicked /\ flow[f].handed)

\* Steps are bound to drafts that were saved, and declined drafts are settled.
BoundOK ==
  /\ \A i \in Steps : plan[i].draft \in Drafts => drafts[plan[i].draft] # "absent"
  /\ \A d \in Drafts : declined[d] # "no" => drafts[d] \notin {"absent", "draft"}

\* A draft that is not tainted is in one publish at a time, has not been posted while it
\* is filled in, and is recorded or about to be once it was.
Counted(d) ==
  /\ posts[d] <= 1
  /\ \A f, g \in Publishes : f \in InFlight(d) /\ g \in InFlight(d) => f = g
  /\ \A f \in Publishes : flow[f].draft = d /\ flow[f].at = "filling" => posts[d] = 0
  /\ posts[d] = 0 \/ drafts[d] = "sent"
       \/ \E f \in Publishes : flow[f].draft = d /\ flow[f].at = "clicked"
OnceOK == \A d \in Drafts : d \notin tainted => Counted(d)

-----------------------------------------------------------------------------
\* The first step of a kind is one of that kind.
LEMMA FirstIsOne ==
  ASSUME NEW S, S \subseteq Nat, S # {}
  PROVE  FirstOf(S) \in S
  <1> DEFINE R == OpToRel(<, Nat)
  <1>1. IsWellFoundedOn(R, Nat)
    BY NatLessThanWellFounded
  <1>2. \A x, y \in Nat : x < y => <<x, y>> \in R
    BY DEF OpToRel
  <1> HIDE DEF R
  <1>3. PICK x \in S : \A y \in S : ~ (<<y, x>> \in R)
    BY <1>1, WFMin
  <1>4. ASSUME NEW y \in S PROVE x <= y
    <2>1. x \in Nat /\ y \in Nat /\ ~ (<<y, x>> \in R)
      BY <1>3
    <2> QED BY <2>1, <1>2
  <1> QED BY <1>4 DEF FirstOf

LEMMA StepsAreNumbers == Steps \subseteq Nat /\ Steps \subseteq 0..Dangling
  BY PublishAssumption DEF Steps, Dangling

LEMMA InitInv == Init => TypeOK /\ FlowsOK /\ BoundOK /\ OnceOK
  BY PublishAssumption DEF Init, TypeOK, FlowsOK, BoundOK, OnceOK, Counted, InFlight, Steps,
     Step, NoSuchStep, StepState, Status, Flow, NoFlow, NoStep, Dangling

-----------------------------------------------------------------------------
(* Types.                                                                   *)

LEMMA GateType ==
  ASSUME TypeOK, NEW p \in [Steps -> Step], NEW w \in 0..Dangling, Gate(p, w)
  PROVE  plan' \in [Steps -> Step] /\ awaiting' \in 0..Dangling /\ turn' \in {"idle", "busy"}
  <1>1. CASE w = NoStep /\ Open(p) # {}
    <2>1. Open(p) \subseteq Steps
      BY DEF Open
    <2>2. FirstOf(Open(p)) \in Steps
      BY <1>1, <2>1, FirstIsOne, StepsAreNumbers
    <2> QED BY <1>1, <2>2, StepsAreNumbers DEF Gate
  <1>2. CASE ~(w = NoStep /\ Open(p) # {})
    BY <1>2 DEF Gate, TypeOK
  <1> QED BY <1>1, <1>2

\* What the agent asks for are step states.
LEMMA AskedStates ==
  ASSUME NEW asked \in Plans, NEW i \in DOMAIN asked
  PROVE  asked[i] \in StepState /\ asked[i] # "absent"
  BY PublishAssumption DEF StepState

LEMMA NewPlans ==
  ASSUME TypeOK, NEW asked \in Plans, NEW sameTitle \in BOOLEAN
  PROVE  /\ Continued(asked) \in [Steps -> Step]
         /\ Replaced(asked, sameTitle) \in [Steps -> Step]
         /\ \A i \in Steps : Continued(asked)[i].draft \in {NoDraft, plan[i].draft}
         /\ \A i \in Steps : Replaced(asked, sameTitle)[i].draft = NoDraft
  <1>1. NoSuchStep \in Step /\ NoSuchStep.draft = NoDraft
    BY DEF NoSuchStep, Step, StepState
  <1>2. ASSUME NEW i \in Steps
        PROVE  Continued(asked)[i] \in Step /\ Continued(asked)[i].draft \in {NoDraft, plan[i].draft}
    <2>0. plan[i] \in Step
      BY DEF TypeOK
    <2>1. CASE i \notin DOMAIN asked
      BY <1>1, <2>1 DEF Continued
    <2>2. CASE i \in DOMAIN asked /\ i \in Present(plan)
      <3>1. Merged(plan[i], asked[i]) \in StepState
        BY <2>0, <2>2, AskedStates DEF Merged, Step
      <3>2. Continued(asked)[i] = [plan[i] EXCEPT !.state = Merged(plan[i], asked[i])]
        BY <2>2 DEF Continued
      <3> QED BY <2>0, <3>1, <3>2 DEF Step
    <2>3. CASE i \in DOMAIN asked /\ i \notin Present(plan)
      <3>1. Continued(asked)[i] = [NoSuchStep EXCEPT !.state = asked[i]]
        BY <2>3 DEF Continued
      <3> QED BY <1>1, <2>3, <3>1, AskedStates DEF Step, NoSuchStep
    <2> QED BY <2>1, <2>2, <2>3
  <1>3. ASSUME NEW i \in Steps
        PROVE  Replaced(asked, sameTitle)[i] \in Step /\ Replaced(asked, sameTitle)[i].draft = NoDraft
    <2>0. plan[i] \in Step
      BY DEF TypeOK
    <2>1. CASE i \notin DOMAIN asked
      BY <1>1, <2>1 DEF Replaced
    <2>2. CASE i \in DOMAIN asked
      <3> DEFINE keeps == sameTitle /\ ~Done(plan)
                 st == IF keeps /\ plan[i].state = "completed" /\ asked[i] = "pending"
                       THEN "completed" ELSE asked[i]
                 ap == keeps /\ plan[i].approved
      <3>1. Replaced(asked, sameTitle)[i] = [state |-> st, draft |-> NoDraft, approved |-> ap]
        BY <2>2 DEF Replaced
      <3>2. st \in StepState
        BY <2>2, AskedStates DEF StepState
      <3>3. ap \in BOOLEAN
        OBVIOUS
      <3> HIDE DEF st, ap
      <3> QED BY <3>1, <3>2, <3>3 DEF Step
    <2> QED BY <2>1, <2>2
  <1>4. Continued(asked) \in [Steps -> Step]
    <2>1. Continued(asked) = [i \in Steps |-> Continued(asked)[i]]
      BY DEF Continued
    <2> QED BY <1>2, <2>1
  <1>5. Replaced(asked, sameTitle) \in [Steps -> Step]
    <2>1. Replaced(asked, sameTitle) = [i \in Steps |-> Replaced(asked, sameTitle)[i]]
      BY DEF Replaced
    <2> QED BY <1>3, <2>1
  <1> QED BY <1>2, <1>3, <1>4, <1>5

\* What SaveDraft makes of a plan: steps again, with their own draft, none, or the new one.
LEMMA SavedPlan ==
  ASSUME TypeOK, NEW d \in Drafts, SaveDraft(d)
  PROVE  /\ plan' \in [Steps -> Step] /\ awaiting' \in 0..Dangling /\ turn' \in {"idle", "busy"}
         /\ \A i \in Steps : plan'[i].draft \in {NoDraft, d, plan[i].draft}
  <1> DEFINE p == IF Present(plan) = {} THEN MadeUp(d) ELSE plan
             targets == {i \in Steps : p[i].state \in {"pending", "in_progress"} /\ ~p[i].approved}
             t == FirstOf(targets)
             Advanced(i) == IF i = t THEN [Bound(p[i], d) EXCEPT !.state = "in_progress"]
                            ELSE IF i < t /\ p[i].state \in {"pending", "in_progress"}
                            THEN [p[i] EXCEPT !.state = "completed"] ELSE p[i]
             next == [i \in Steps |-> Advanced(i)]
  <1>1. p \in [Steps -> Step]
    BY DEF MadeUp, NoSuchStep, Step, StepState, TypeOK
  <1>2. \A i \in Steps : p[i].draft \in {NoDraft, d, plan[i].draft}
    BY DEF MadeUp, NoSuchStep
  <1>3. \/ plan' = p /\ UNCHANGED <<awaiting, turn>>
        \/ Gate(next, NoStep)
        \/ plan' = next /\ UNCHANGED <<awaiting, turn>>
    BY DEF SaveDraft
  <1> HIDE DEF p
  <1>4. ASSUME NEW i \in Steps
        PROVE  next[i] \in Step /\ next[i].draft \in {NoDraft, d, p[i].draft}
    <2>1. p[i] \in Step
      BY <1>1
    <2>2. Bound(p[i], d) \in Step /\ Bound(p[i], d).draft \in {d, p[i].draft}
      BY <2>1 DEF Bound, Step
    <2>3. next[i] = Advanced(i)
      OBVIOUS
    <2> HIDE DEF t, next
    <2>4. CASE i = t
      BY <2>2, <2>3, <2>4 DEF Step, StepState
    <2>5. CASE i # t
      BY <2>1, <2>3, <2>5 DEF Step, StepState
    <2> QED BY <2>4, <2>5
  <1>5. next \in [Steps -> Step]
    <2>1. next = [i \in Steps |-> next[i]]
      OBVIOUS
    <2> HIDE DEF next
    <2> QED BY <1>4, <2>1
  <1>6. \A i \in Steps : next[i].draft \in {NoDraft, d, plan[i].draft}
    BY <1>2, <1>4
  <1> HIDE DEF next, targets, t
  <1>7. CASE plan' = p /\ UNCHANGED <<awaiting, turn>>
    BY <1>1, <1>2, <1>7 DEF TypeOK
  <1>8. CASE Gate(next, NoStep)
    <2>1. plan' = next
      BY <1>8 DEF Gate
    <2>2. NoStep \in 0..Dangling
      BY PublishAssumption DEF NoStep, Dangling
    <2> QED BY <1>5, <1>6, <1>8, <2>1, <2>2, GateType
  <1>9. CASE plan' = next /\ UNCHANGED <<awaiting, turn>>
    BY <1>5, <1>6, <1>9 DEF TypeOK
  <1> QED BY <1>3, <1>7, <1>8, <1>9

\* The agent's todo_write keeps the drafts of the steps it keeps, and binds none.
LEMMA WrittenPlan ==
  ASSUME TypeOK, TodoWrite
  PROVE  /\ plan' \in [Steps -> Step] /\ awaiting' \in 0..Dangling /\ turn' \in {"idle", "busy"}
         /\ \A i \in Steps : plan'[i].draft \in {NoDraft, plan[i].draft}
  <1>1. PICK asked \in Plans, sameTitle \in BOOLEAN :
          IF sameTitle /\ ~Done(plan) /\ Present(plan) \subseteq DOMAIN asked
          THEN Gate(Continued(asked), awaiting)
          ELSE Gate(Replaced(asked, sameTitle), IF awaiting = NoStep THEN NoStep ELSE Dangling)
    BY DEF TodoWrite
  <1>2. NoStep \in 0..Dangling /\ Dangling \in 0..Dangling /\ awaiting \in 0..Dangling
    BY PublishAssumption DEF NoStep, Dangling, TypeOK
  <1>3. CASE Gate(Continued(asked), awaiting)
    <2>1. plan' = Continued(asked)
      BY <1>3 DEF Gate
    <2> QED BY <1>2, <1>3, <2>1, GateType, NewPlans
  <1>4. CASE Gate(Replaced(asked, sameTitle), IF awaiting = NoStep THEN NoStep ELSE Dangling)
    <2> DEFINE w == IF awaiting = NoStep THEN NoStep ELSE Dangling
    <2>1. plan' = Replaced(asked, sameTitle)
      BY <1>4 DEF Gate
    <2>2. w \in 0..Dangling
      BY <1>2
    <2>3. Gate(Replaced(asked, sameTitle), w)
      BY <1>4
    <2> HIDE DEF w
    <2>4. Replaced(asked, sameTitle) \in [Steps -> Step]
      BY NewPlans
    <2>5. plan' \in [Steps -> Step] /\ awaiting' \in 0..Dangling /\ turn' \in {"idle", "busy"}
      BY <2>2, <2>3, <2>4, GateType
    <2> QED BY <2>1, <2>5, NewPlans
  <1> QED BY <1>1, <1>3, <1>4

\* The draft of an approval is a saved draft.
LEMMA ApprovedDraft ==
  ASSUME TypeOK, NEW i \in Steps, DraftToPublish(plan[i]) # NoDraft
  PROVE  DraftToPublish(plan[i]) \in Drafts
  <1>1. CASE plan[i].draft # NoDraft
    BY <1>1 DEF TypeOK, Step, DraftToPublish
  <1>2. CASE plan[i].draft = NoDraft
    <2>1. Cardinality(Pending) = 1
      BY <1>2 DEF DraftToPublish
    <2>2. Pending # {}
      BY <2>1, FS_EmptySet
    <2>3. (CHOOSE d \in Pending : TRUE) \in Pending
      BY <2>2
    <2> QED BY <1>2, <2>1, <2>3 DEF DraftToPublish, Pending
  <1> QED BY <1>1, <1>2

LEMMA NextType == ASSUME TypeOK, FlowsOK, [Next]_vars PROVE TypeOK'
  <1> USE PublishAssumption
  <1>0. /\ NoStep \in 0..Dangling /\ NoSuchStep \in Step /\ Steps \subseteq 0..Dangling
        /\ [i \in Steps |-> NoSuchStep] \in [Steps -> Step]
    BY StepsAreNumbers DEF NoStep, Dangling, NoSuchStep, Step, StepState
  <1>1. CASE StartTurn
    BY <1>0, <1>1 DEF StartTurn, TypeOK, history, workflow
  <1>2. CASE EndTurn
    BY <1>2 DEF EndTurn, TypeOK, history, workflow
  <1>3. CASE Cancel
    BY <1>0, <1>3 DEF Cancel, TypeOK, history, workflow
  <1>4. CASE TodoWrite
    <2>1. UNCHANGED <<drafts, flow, history>>
      BY <1>4 DEF TodoWrite
    <2> QED BY <1>4, <2>1, WrittenPlan DEF TypeOK, history
  <1>5. ASSUME NEW d \in Drafts, SaveDraft(d) PROVE TypeOK'
    <2>1. UNCHANGED <<flow, history>> /\ drafts' = [drafts EXCEPT ![d] = "draft"]
      BY <1>5 DEF SaveDraft
    <2>2. drafts' \in [Drafts -> Status]
      BY <2>1 DEF TypeOK, Status
    <2> QED BY <1>5, <2>1, <2>2, SavedPlan DEF TypeOK, history
  <1>6. ASSUME NEW d \in Drafts, MarkMessageSent(d) PROVE TypeOK'
    BY <1>6 DEF MarkMessageSent, TypeOK, Status, history, workflow
  <1>7. CASE Approve
    <2>1. awaiting \in Steps
      BY <1>7 DEF Approve, Present
    <2>2. plan' \in [Steps -> Step]
      <3>1. plan[awaiting] \in Step
        BY <2>1 DEF TypeOK
      <3>2. [plan[awaiting] EXCEPT !.approved = TRUE] \in Step
        BY <3>1 DEF Step
      <3>3. plan' = [plan EXCEPT ![awaiting] = [plan[awaiting] EXCEPT !.approved = TRUE]]
        BY <1>7 DEF Approve
      <3> QED BY <3>2, <3>3 DEF TypeOK
    <2>3. flow' \in [Publishes -> Flow] /\ turn' \in {"idle", "busy"}
      <3> DEFINE d == DraftToPublish(plan[awaiting])
      <3>1. \/ d # NoDraft /\ UNCHANGED turn
               /\ \E f \in Publishes : flow' = [flow EXCEPT ![f].draft = d, ![f].at = "connecting"]
            \/ turn' = "busy" /\ UNCHANGED flow
        BY <1>7 DEF Approve, Unused, ResumeStarts, ResumeLost
      <3>2. d # NoDraft => d \in Drafts
        BY <2>1, ApprovedDraft
      <3> HIDE DEF d
      <3>3. ASSUME NEW f \in Publishes, d \in Drafts,
                   flow' = [flow EXCEPT ![f].draft = d, ![f].at = "connecting"]
            PROVE  flow' \in [Publishes -> Flow]
        <4>1. flow[f] \in Flow
          BY DEF TypeOK
        <4>2. [flow[f] EXCEPT !.draft = d, !.at = "connecting"] \in Flow
          BY <3>3, <4>1 DEF Flow
        <4>3. flow' = [flow EXCEPT ![f] = [flow[f] EXCEPT !.draft = d, !.at = "connecting"]]
          BY <3>3, <4>1 DEF Flow
        <4> QED BY <4>2, <4>3 DEF TypeOK
      <3> QED BY <3>1, <3>2, <3>3 DEF TypeOK
    <2> QED BY <1>0, <1>7, <2>2, <2>3 DEF Approve, TypeOK, history
  <1>8. CASE Decline
    <2>1. awaiting \in Steps
      BY <1>8 DEF Decline, Present
    <2>2. plan' \in [Steps -> Step]
      <3>1. plan[awaiting] \in Step
        BY <2>1 DEF TypeOK
      <3>2. [plan[awaiting] EXCEPT !.state = "failed"] \in Step
        BY <3>1 DEF Step, StepState
      <3>3. plan' = [plan EXCEPT ![awaiting] = [plan[awaiting] EXCEPT !.state = "failed"]]
        BY <1>8 DEF Decline
      <3> QED BY <3>2, <3>3 DEF TypeOK
    <2>3. drafts' \in [Drafts -> Status] /\ declined' \in [Drafts -> {"no", "late", "yes"}]
      BY <1>8 DEF Decline, TypeOK, Status
    <2> QED BY <1>0, <1>8, <2>2, <2>3 DEF Decline, TypeOK, ResumeStarts, ResumeLost
  <1>9. ASSUME NEW f \in Publishes, Refuse(f) PROVE TypeOK'
    BY ZenonT(40), <1>9 DEF Refuse, TypeOK, Flow, history, workflow
  <1>10. ASSUME NEW f \in Publishes, Begin(f) PROVE TypeOK'
    <2>1. flow[f].draft \in Drafts
      BY <1>10 DEF Begin, FlowsOK
    <2> QED BY SMTT(30), <1>10, <2>1 DEF Begin, TypeOK, Flow, workflow
  <1>11. ASSUME NEW f \in Publishes, GiveUp(f) PROVE TypeOK'
    <2>1. flow' \in [Publishes -> Flow]
      <3>1. flow[f] \in Flow
        BY DEF TypeOK
      <3>2. \/ flow' = [flow EXCEPT ![f] = [flow[f] EXCEPT !.at = "over", !.handed = TRUE]]
            \/ flow' = [flow EXCEPT ![f] = [flow[f] EXCEPT !.at = "over"]]
        BY <1>11, <3>1 DEF GiveUp, HandOver, Flow
      <3>3. /\ [flow[f] EXCEPT !.at = "over", !.handed = TRUE] \in Flow
            /\ [flow[f] EXCEPT !.at = "over"] \in Flow
        BY <3>1 DEF Flow
      <3> QED BY <3>2, <3>3 DEF TypeOK
    <2> QED BY <1>11, <2>1 DEF GiveUp, HandOver, ResumeStarts, ResumeLost, TypeOK, history, workflow
  <1>12. ASSUME NEW f \in Publishes, ClickPost(f) PROVE TypeOK'
    <2>1. flow[f].draft \in Drafts
      BY <1>12 DEF ClickPost, FlowsOK
    <2>2. posts' \in [Drafts -> 0..MaxPosts]
      BY <1>12, <2>1 DEF ClickPost, TypeOK
    <2>3. flow' \in [Publishes -> Flow]
      <3>1. flow[f] \in Flow
        BY DEF TypeOK
      <3>2. [flow[f] EXCEPT !.at = "clicked", !.clicked = TRUE] \in Flow
        BY <3>1 DEF Flow
      <3>3. flow' = [flow EXCEPT ![f] = [flow[f] EXCEPT !.at = "clicked", !.clicked = TRUE]]
        BY <1>12, <3>1 DEF ClickPost, Flow
      <3> QED BY <3>2, <3>3 DEF TypeOK
    <2> QED BY <1>12, <2>2, <2>3 DEF ClickPost, TypeOK, workflow
  <1>13. ASSUME NEW f \in Publishes, Finish(f) PROVE TypeOK'
    <2>1. flow[f].draft \in Drafts
      BY <1>13 DEF Finish, FlowsOK
    <2> QED BY SMTT(30), <1>13, <2>1 DEF Finish, TypeOK, Flow, Status, workflow
  <1>14. CASE Crash
    <2>1. flow' \in [Publishes -> Flow]
      BY ZenonT(40), <1>14 DEF Crash, TypeOK, Flow
    <2>2. tainted' \subseteq Drafts
      BY <1>14 DEF Crash, TypeOK, FlowsOK
    <2> QED BY <1>0, <1>14, <2>1, <2>2 DEF Crash, TypeOK
  <1>15. CASE UNCHANGED vars
    BY <1>15 DEF vars, TypeOK, history, workflow
  <1> QED BY <1>1, <1>2, <1>3, <1>4, <1>5, <1>6, <1>7, <1>8, <1>9, <1>10, <1>11, <1>12, <1>13,
             <1>14, <1>15 DEF Next

-----------------------------------------------------------------------------
\* What a step does to the publishes: it leaves them alone, starts one, or moves one on.
LEMMA NextFlows == ASSUME TypeOK, FlowsOK, [Next]_vars PROVE FlowsOK'
  <1>1. CASE UNCHANGED flow
    BY <1>1 DEF FlowsOK
  <1>2. CASE Approve /\ flow' # flow
    <2> DEFINE d == DraftToPublish(plan[awaiting])
    <2>1. awaiting \in Steps
      BY <1>2 DEF Approve, Present
    <2>2. d # NoDraft
      BY <1>2 DEF Approve
    <2>3. PICK f \in {CHOOSE g \in Unused : TRUE} :
            flow' = [flow EXCEPT ![f].draft = d, ![f].at = "connecting"]
      BY <1>2 DEF Approve
    <2>4. f \in Unused
      BY <1>2 DEF Approve
    <2>5. d \in Drafts
      BY <2>1, <2>2, ApprovedDraft
    <2> HIDE DEF d
    <2> QED BY <2>3, <2>4, <2>5 DEF FlowsOK, Unused, TypeOK, Flow
  <1>3. ASSUME NEW f \in Publishes, Refuse(f) PROVE FlowsOK'
    BY <1>3 DEF Refuse, FlowsOK, TypeOK, Flow
  <1>4. ASSUME NEW f \in Publishes, Begin(f) PROVE FlowsOK'
    BY <1>4 DEF Begin, FlowsOK, TypeOK, Flow
  <1>5. ASSUME NEW f \in Publishes, GiveUp(f) PROVE FlowsOK'
    BY <1>5 DEF GiveUp, HandOver, FlowsOK, TypeOK, Flow
  <1>6. ASSUME NEW f \in Publishes, ClickPost(f) PROVE FlowsOK'
    BY <1>6 DEF ClickPost, FlowsOK, TypeOK, Flow
  <1>7. ASSUME NEW f \in Publishes, Finish(f) PROVE FlowsOK'
    BY <1>7 DEF Finish, FlowsOK, TypeOK, Flow
  <1>8. CASE Crash
    BY <1>8 DEF Crash, FlowsOK, TypeOK, Flow
  <1>9. CASE StartTurn \/ EndTurn \/ Cancel \/ TodoWrite \/ Decline \/ UNCHANGED vars
    BY <1>1, <1>9 DEF StartTurn, EndTurn, Cancel, TodoWrite, Decline, vars
  <1>10. ASSUME NEW d \in Drafts, SaveDraft(d) \/ MarkMessageSent(d) PROVE FlowsOK'
    BY <1>1, <1>10 DEF SaveDraft, MarkMessageSent
  <1> QED BY <1>1, <1>2, <1>3, <1>4, <1>5, <1>6, <1>7, <1>8, <1>9, <1>10 DEF Next

-----------------------------------------------------------------------------
\* A step that leaves the plan's drafts alone or drops them, and unsaves no draft.
LEMMA BoundKept ==
  ASSUME BoundOK, \A i \in Steps : plan'[i].draft \in Drafts => plan'[i].draft = plan[i].draft,
         \A d \in Drafts : drafts'[d] = drafts[d] \/ (drafts'[d] \in {"sent", "rejected"}),
         UNCHANGED declined
  PROVE  BoundOK'
  BY DEF BoundOK

LEMMA NextBound == ASSUME TypeOK, FlowsOK, BoundOK, [Next]_vars PROVE BoundOK'
  <1> USE PublishAssumption
  <1>0. \A i \in Steps : [j \in Steps |-> NoSuchStep][i].draft \notin Drafts
    BY DEF NoSuchStep
  <1>1. CASE StartTurn \/ EndTurn \/ Cancel \/ Crash \/ UNCHANGED vars
    BY <1>0, <1>1, BoundKept DEF StartTurn, EndTurn, Cancel, Crash, vars, workflow, history
  <1>2. CASE TodoWrite
    <2>1. UNCHANGED <<drafts, declined>>
      BY <1>2 DEF TodoWrite, history
    <2> QED BY <1>2, <2>1, WrittenPlan, BoundKept
  <1>3. ASSUME NEW d \in Drafts, SaveDraft(d) PROVE BoundOK'
    <2>1. drafts[d] = "absent" /\ drafts' = [drafts EXCEPT ![d] = "draft"] /\ UNCHANGED declined
      BY <1>3 DEF SaveDraft, history
    <2>2. \A i \in Steps : plan'[i].draft \in {NoDraft, d, plan[i].draft}
      BY <1>3, SavedPlan
    <2> QED BY <2>1, <2>2 DEF BoundOK, TypeOK
  <1>4. ASSUME NEW d \in Drafts, MarkMessageSent(d) PROVE BoundOK'
    BY <1>4, BoundKept DEF MarkMessageSent, TypeOK, workflow, history
  <1>5. CASE Approve
    <2>1. awaiting \in Steps /\ plan' = [plan EXCEPT ![awaiting].approved = TRUE]
          /\ UNCHANGED <<drafts, declined>>
      BY <1>5 DEF Approve, Present, history
    <2>2. \A i \in Steps : plan'[i].draft = plan[i].draft
      BY <2>1 DEF TypeOK, Step
    <2> QED BY <2>1, <2>2, BoundKept
  <1>6. CASE Decline
    <2> DEFINE d == plan[awaiting].draft
    <2>1. awaiting \in Steps /\ plan' = [plan EXCEPT ![awaiting].state = "failed"]
      BY <1>6 DEF Decline, Present
    <2>2. \A i \in Steps : plan'[i].draft = plan[i].draft
      BY <2>1 DEF TypeOK, Step
    <2>3. /\ drafts' = [c \in Drafts |-> IF c = d /\ drafts[c] = "draft" THEN "rejected" ELSE drafts[c]]
          /\ declined' = [c \in Drafts |->
               IF c # d THEN declined[c]
               ELSE IF drafts[c] # "draft" \/ InFlight(c) # {} THEN "late" ELSE "yes"]
      BY <1>6 DEF Decline
    <2>4. d \in Drafts => drafts[d] # "absent"
      BY <2>1 DEF BoundOK
    <2> HIDE DEF d
    <2>5. \A i \in Steps : plan'[i].draft \in Drafts => drafts'[plan'[i].draft] # "absent"
      BY <2>2, <2>3 DEF BoundOK
    <2>6. ASSUME NEW c \in Drafts, declined'[c] # "no" PROVE drafts'[c] \notin {"absent", "draft"}
      <3>1. CASE c = d
        BY <2>3, <2>4, <3>1 DEF TypeOK
      <3>2. CASE c # d
        BY <2>3, <2>6, <3>2 DEF BoundOK
      <3> QED BY <3>1, <3>2
    <2> QED BY <2>5, <2>6 DEF BoundOK
  <1>7. ASSUME NEW f \in Publishes, Refuse(f) \/ Begin(f) \/ GiveUp(f) \/ ClickPost(f) PROVE BoundOK'
    BY <1>7, BoundKept DEF Refuse, Begin, GiveUp, HandOver, ClickPost, workflow, history
  <1>8. ASSUME NEW f \in Publishes, Finish(f) PROVE BoundOK'
    <2>1. UNCHANGED <<plan, declined>>
          /\ (drafts' = [drafts EXCEPT ![flow[f].draft] = "sent"] \/ UNCHANGED drafts)
      BY <1>8 DEF Finish, workflow
    <2>2. \A d \in Drafts : drafts'[d] = drafts[d] \/ (drafts'[d] \in {"sent", "rejected"})
      BY <2>1 DEF TypeOK
    <2> QED BY <2>1, <2>2, BoundKept
  <1> QED BY <1>1, <1>2, <1>3, <1>4, <1>5, <1>6, <1>7, <1>8 DEF Next

-----------------------------------------------------------------------------
\* Posting once is disturbed only by a step of a publish or of the draft's status.
LEMMA OnceKept ==
  ASSUME OnceOK, UNCHANGED <<flow, posts, tainted>>,
         \A d \in Drafts : drafts[d] = "sent" => drafts'[d] = "sent"
  PROVE  OnceOK'
  BY DEF OnceOK, Counted, InFlight

LEMMA NextOnce == ASSUME TypeOK, FlowsOK, BoundOK, OnceOK, [Next]_vars PROVE OnceOK'
  <1>1. CASE StartTurn \/ EndTurn \/ Cancel \/ TodoWrite \/ UNCHANGED vars
    BY <1>1, OnceKept DEF StartTurn, EndTurn, Cancel, TodoWrite, vars, history
  <1>2. ASSUME NEW d \in Drafts, SaveDraft(d) \/ MarkMessageSent(d) PROVE OnceOK'
    BY <1>2, OnceKept DEF SaveDraft, MarkMessageSent, history, TypeOK
  <1>3. CASE Decline
    <2>1. \A d \in Drafts : drafts[d] = "sent" => drafts'[d] = "sent"
      BY <1>3 DEF Decline
    <2> QED BY <1>3, <2>1, OnceKept DEF Decline
  <1>4. CASE Approve
    <2>1. UNCHANGED <<drafts, posts, tainted>>
      BY <1>4 DEF Approve, history
    <2>2. \/ UNCHANGED flow
          \/ \E f \in Publishes, d \in Drafts :
               flow[f].at = "none" /\ flow' = [flow EXCEPT ![f].draft = d, ![f].at = "connecting"]
      <3> DEFINE d == DraftToPublish(plan[awaiting])
      <3>1. awaiting \in Steps
        BY <1>4 DEF Approve, Present
      <3>2. CASE UNCHANGED flow
        BY <3>2
      <3>3. CASE /\ d # NoDraft /\ Unused # {}
                 /\ \E f \in {CHOOSE g \in Unused : TRUE} :
                      flow' = [flow EXCEPT ![f].draft = d, ![f].at = "connecting"]
        <4>1. d \in Drafts
          BY <3>1, <3>3, ApprovedDraft
        <4> HIDE DEF d
        <4>2. PICK f \in Unused : flow' = [flow EXCEPT ![f].draft = d, ![f].at = "connecting"]
          BY <3>3
        <4> QED BY <4>1, <4>2 DEF Unused
      <3> QED BY <1>4, <3>2, <3>3 DEF Approve
    <2>3. CASE UNCHANGED flow
      BY <2>1, <2>3, OnceKept
    <2>4. ASSUME NEW f \in Publishes, NEW d \in Drafts, flow[f].at = "none",
                 flow' = [flow EXCEPT ![f].draft = d, ![f].at = "connecting"]
          PROVE  OnceOK'
      <3>1. /\ \A g \in Publishes : g # f => flow'[g] = flow[g]
            /\ flow'[f].at = "connecting"
        BY <2>4 DEF TypeOK, Flow
      <3>2. \A c \in Drafts : InFlight(c)' = InFlight(c)
        BY <2>4, <3>1 DEF InFlight
      <3>3. ASSUME NEW c \in Drafts, c \notin tainted' PROVE Counted(c)'
        <4>1. Counted(c)
          BY <2>1, <3>3 DEF OnceOK
        <4>2. \A g \in Publishes : flow'[g].draft = c /\ flow'[g].at \in {"filling", "clicked"}
                                 <=> flow[g].draft = c /\ flow[g].at \in {"filling", "clicked"}
          BY <2>4, <3>1
        <4>3. \A g \in Publishes : flow'[g].draft = c /\ flow'[g].at \in {"filling", "clicked"}
                                 => flow'[g] = flow[g]
          BY <3>1
        <4>4. \A g \in Publishes : flow[g].draft = c /\ flow[g].at = "clicked" => flow'[g] = flow[g]
          BY <2>4, <3>1
        <4> QED BY <2>1, <3>2, <4>1, <4>3, <4>4 DEF Counted
      <3> QED BY <3>3 DEF OnceOK
    <2> QED BY <2>2, <2>3, <2>4
  <1>5. ASSUME NEW f \in Publishes, Refuse(f) \/ GiveUp(f) PROVE OnceOK'
    <2>1. /\ \A g \in Publishes : g # f => flow'[g] = flow[g]
          /\ flow'[f].at = "over" /\ flow[f].at \in {"connecting", "filling"}
          /\ UNCHANGED <<drafts, posts, tainted>>
      BY <1>5 DEF Refuse, GiveUp, HandOver, TypeOK, Flow, history
    <2>2. \A c \in Drafts : InFlight(c)' \subseteq InFlight(c)
      BY <2>1 DEF InFlight
    <2> QED BY <2>1, <2>2 DEF OnceOK, Counted
  <1>6. ASSUME NEW f \in Publishes, Begin(f) PROVE OnceOK'
    <2>0. PICK d \in Drafts : d = flow[f].draft
      BY <1>6 DEF Begin, FlowsOK
    <2>1. /\ \A g \in Publishes : g # f => flow'[g] = flow[g]
          /\ flow'[f].at = "filling" /\ flow'[f].draft = d /\ flow[f].at = "connecting"
          /\ UNCHANGED <<drafts, posts>> /\ drafts[d] # "sent" /\ d \in Drafts
      BY <1>6, <2>0 DEF Begin, FlowsOK, TypeOK, Flow, history
    <2>2. tainted' = IF InFlight(d) # {} THEN tainted \union {d} ELSE tainted
      BY <1>6, <2>0 DEF Begin
    <2>3. ASSUME NEW c \in Drafts, c \notin tainted', c # d PROVE Counted(c)'
      <3>1. InFlight(c)' = InFlight(c)
        BY <2>1, <2>3 DEF InFlight
      <3>2. Counted(c)
        BY <2>2, <2>3 DEF OnceOK
      <3> QED BY <2>1, <2>3, <3>1, <3>2 DEF Counted
    <2>4. ASSUME d \notin tainted' PROVE Counted(d)'
      <3>1. InFlight(d) = {} /\ Counted(d)
        BY <2>1, <2>2, <2>4 DEF OnceOK
      <3>2. posts[d] = 0
        BY <2>1, <3>1 DEF Counted, InFlight
      <3>3. \A g \in Publishes : g \in InFlight(d)' => g = f
        BY <2>1, <3>1 DEF InFlight
      <3> QED BY <2>1, <3>2, <3>3 DEF Counted
    <2> QED BY <2>3, <2>4 DEF OnceOK
  <1>7. ASSUME NEW f \in Publishes, ClickPost(f) PROVE OnceOK'
    <2>0. PICK d \in Drafts : d = flow[f].draft
      BY <1>7 DEF ClickPost, FlowsOK
    <2>1. /\ \A g \in Publishes : g # f => flow'[g] = flow[g]
          /\ flow'[f].at = "clicked" /\ flow'[f].draft = d /\ flow[f].at = "filling"
          /\ UNCHANGED <<drafts, tainted>> /\ d \in Drafts
      BY <1>7, <2>0 DEF ClickPost, FlowsOK, TypeOK, Flow
    <2>2. posts' = [posts EXCEPT ![d] = IF @ < MaxPosts THEN @ + 1 ELSE @]
      BY <1>7, <2>0 DEF ClickPost
    <2>3. \A c \in Drafts : InFlight(c)' = InFlight(c)
      BY <2>0, <2>1 DEF InFlight
    <2>4. ASSUME NEW c \in Drafts, c \notin tainted', c # d PROVE Counted(c)'
      <3>1. posts'[c] = posts[c] /\ Counted(c)
        BY <2>1, <2>2, <2>4 DEF TypeOK, OnceOK
      <3> QED BY <2>1, <2>3, <2>4, <3>1 DEF Counted
    <2>5. ASSUME d \notin tainted' PROVE Counted(d)'
      <3>0. Counted(d)
        BY <2>1, <2>5 DEF OnceOK
      <3>1. Counted(d) /\ posts[d] = 0 /\ f \in InFlight(d)
        BY <2>0, <2>1, <3>0 DEF Counted, InFlight
      <3>2. posts'[d] <= 1
        BY <2>1, <2>2, <3>1 DEF TypeOK
      <3>3. \A g \in Publishes : g \in InFlight(d)' => g = f
        BY <2>3, <3>1, <2>1 DEF Counted
      <3>4. \A g \in Publishes : ~(flow'[g].draft = d /\ flow'[g].at = "filling")
        BY <2>1, <3>3 DEF InFlight
      <3> QED BY <2>1, <3>2, <3>3, <3>4 DEF Counted
    <2> QED BY <2>4, <2>5 DEF OnceOK
  <1>8. ASSUME NEW f \in Publishes, Finish(f) PROVE OnceOK'
    <2>0. PICK d \in Drafts : d = flow[f].draft
      BY <1>8 DEF Finish, FlowsOK
    <2>1. /\ \A g \in Publishes : g # f => flow'[g] = flow[g]
          /\ flow'[f].at = "over" /\ flow[f].at = "clicked"
          /\ UNCHANGED posts /\ d \in Drafts
      BY <1>8, <2>0 DEF Finish, FlowsOK, TypeOK, Flow
    <2>2. \/ drafts' = [drafts EXCEPT ![d] = "sent"] /\ UNCHANGED tainted
          \/ tainted' = tainted \union {d} /\ UNCHANGED drafts
      BY <1>8, <2>0 DEF Finish
    <2>3. \A c \in Drafts : InFlight(c)' \subseteq InFlight(c)
      BY <2>1 DEF InFlight
    <2>4. ASSUME NEW c \in Drafts, c \notin tainted' PROVE Counted(c)'
      <3>1. Counted(c)
        BY <2>2, <2>4 DEF OnceOK
      <3>2. /\ drafts'[c] = "sent" \/ drafts'[c] = drafts[c]
            /\ c = d => drafts'[c] = "sent"
        BY <2>1, <2>2, <2>4 DEF TypeOK
      <3>3. CASE c = d
        BY <2>1, <2>3, <3>1, <3>2, <3>3 DEF Counted
      <3>4. CASE c # d
        <4>1. \A g \in Publishes : flow'[g].draft = c /\ flow'[g].at = "filling" => flow'[g] = flow[g]
          BY <2>1
        <4>2. \A g \in Publishes : flow[g].draft = c => flow'[g] = flow[g]
          BY <2>0, <2>1, <3>4
        <4> QED BY <2>1, <2>3, <3>1, <3>2, <4>1, <4>2 DEF Counted
      <3> QED BY <3>3, <3>4
    <2> QED BY <2>4 DEF OnceOK
  <1>9. CASE Crash
    <2>1. /\ \A g \in Publishes : flow'[g].draft = flow[g].draft /\ flow'[g].at \in {"none", "over"}
          /\ UNCHANGED <<drafts, posts>>
      BY <1>9 DEF Crash, TypeOK, Flow
    <2>2. \A c \in Drafts : InFlight(c)' = {}
      BY <2>1 DEF InFlight
    <2>3. tainted' = tainted \union {flow[f].draft : f \in {g \in Publishes : flow[g].at = "clicked"}}
      BY <1>9 DEF Crash
    <2>4. ASSUME NEW c \in Drafts, c \notin tainted' PROVE Counted(c)'
      <3>1. Counted(c) /\ ~ \E f \in Publishes : flow[f].draft = c /\ flow[f].at = "clicked"
        BY <2>3, <2>4 DEF OnceOK
      <3> QED BY <2>1, <2>2, <3>1 DEF Counted
    <2> QED BY <2>4 DEF OnceOK
  <1> QED BY <1>1, <1>2, <1>3, <1>4, <1>5, <1>6, <1>7, <1>8, <1>9 DEF Next

-----------------------------------------------------------------------------
LEMMA Inductive == Spec => [](TypeOK /\ FlowsOK /\ BoundOK /\ OnceOK)
  <1>1. /\ TypeOK /\ FlowsOK /\ BoundOK /\ OnceOK
        /\ [Next]_vars
        => (TypeOK /\ FlowsOK /\ BoundOK /\ OnceOK)'
    BY NextType, NextFlows, NextBound, NextOnce
  <1> QED BY <1>1, InitInv, PTL DEF Spec

\* The state of drafts, plan and publishes keeps its shape, through crashes and lost saves.
THEOREM TypeCorrect == Spec => []TypeOK
  BY Inductive, PTL

\* publishApprovedFeedPostViaAction: a draft is posted twice only after overlapping
\* publishes of it, or a post whose record was lost.
THEOREM PostsOnce == Spec => []PostedOnce
  <1>1. TypeOK /\ OnceOK => PostedOnce
    BY DEF TypeOK, OnceOK, Counted, PostedOnce
  <1> QED BY <1>1, Inductive, PTL

\* A publish that clicked Post does not hand its step to the agent.
THEOREM ClicksOrHands == Spec => []ClickedOrHanded
  <1>1. FlowsOK => ClickedOrHanded
    BY DEF FlowsOK, ClickedOrHanded
  <1> QED BY <1>1, Inductive, PTL

\* respondToGate: the draft of a declined step is not pending, whatever is declined,
\* saved and re-planned when.
THEOREM DeclinedSettles == Spec => []DeclinedNotPending
  <1>1. BoundOK => DeclinedNotPending
    BY DEF BoundOK, DeclinedNotPending
  <1> QED BY <1>1, Inductive, PTL

-----------------------------------------------------------------------------
(* The composer (Composer): what a publish does while it is "filling".  For any *)
(* number of publishes, type calls and touches, drafts of any length and any    *)
(* number of rounds: what a publish posts is its draft, and what it calls       *)
(* published was posted, unless its composer was touched in between or its click *)
(* hit another control.                                                        *)

\* What an undisturbed publish relies on: its draft is in the composer until it clicks;
\* the composer stays when the click fails, unless it hit another control.
Ready(p) ==
  /\ at[p] \in {"enable", "resolve", "click", "outdated"} => dialog /\ text = Draft(p)
  /\ at[p] = "confirm" /\ posted[p] = <<>> => dialog \/ p \in astray
  /\ at[p] = "published" => posted[p] # <<>> \/ p \in astray
  /\ posted[p] \in {<<>>, Draft(p)}
Undisturbed == \A p \in Posters : p \notin spoiled => Ready(p)

-----------------------------------------------------------------------------
\* A text is a sequence of at most MaxText pieces.
LEMMA TextsAre == \A t : t \in Texts <=> t \in Seq(Piece) /\ Len(t) <= MaxText
  <1> USE ComposerAssumption
  <1>1. ASSUME NEW t \in Texts PROVE t \in Seq(Piece) /\ Len(t) <= MaxText
    <2>1. PICK n \in 0..MaxText : t \in [1..n -> Piece]
      BY DEF Texts
    <2>2. n \in Nat /\ n <= MaxText
      BY <2>1
    <2>3. t \in Seq(Piece) /\ Len(t) = n
      BY <2>1, <2>2
    <2> QED BY <2>2, <2>3
  <1>2. ASSUME NEW t \in Seq(Piece), Len(t) <= MaxText PROVE t \in Texts
    <2>1. Len(t) \in 0..MaxText /\ t \in [1..Len(t) -> Piece]
      BY <1>2
    <2> QED BY <2>1 DEF Texts
  <1> QED BY <1>1, <1>2

LEMMA NewTexts ==
  /\ <<>> \in Texts
  /\ \A t \in Texts, x \in Piece : Len(t) < MaxText => Append(t, x) \in Texts
  <1> USE ComposerAssumption
  <1>1. <<>> \in Seq(Piece) /\ Len(<<>>) <= MaxText
    OBVIOUS
  <1>2. ASSUME NEW t \in Texts, NEW x \in Piece, Len(t) < MaxText
        PROVE  Append(t, x) \in Texts
    <2>1. t \in Seq(Piece)
      BY TextsAre
    <2>2. Append(t, x) \in Seq(Piece) /\ Len(Append(t, x)) = Len(t) + 1 /\ Len(t) \in Nat
      BY <2>1
    <2>3. Len(Append(t, x)) <= MaxText
      BY <1>2, <2>2
    <2> QED BY <2>2, <2>3, TextsAre
  <1> QED BY <1>1, <1>2, TextsAre

LEMMA DraftNotEmpty == \A w \in Writers : Draft(w) # <<>>
  BY ComposerAssumption DEF Draft

LEMMA ComposerInitially == ComposerInit => ComposerTypeOK /\ Undisturbed
  BY ComposerAssumption, NewTexts DEF ComposerInit, ComposerTypeOK, Undisturbed, Ready, Call,
     Before, Writers

-----------------------------------------------------------------------------
\* A snapshot moves a writer from one call to another, or not at all.
LEMMA OutdatedType == ComposerTypeOK => Outdated \in [Writers -> Call]
  BY DEF ComposerTypeOK, Outdated, Call, Before

LEMMA WriterStepType ==
  ASSUME ComposerTypeOK, NEW w \in Writers, WriterStep(w)
  PROVE  ComposerTypeOK'
  <1> USE ComposerAssumption, NewTexts
  <1>0. ASSUME NEW c \in Call, Goes(w, c) PROVE at' \in [Writers -> Call]
    BY <1>0 DEF Goes, ComposerTypeOK
  <1>1. CASE w \in Posters /\ ClickOpener(w)
    BY <1>1 DEF ClickOpener, ComposerTypeOK
  <1>2. CASE /\ w \in Posters
             /\ Opened(w) \/ Enabled(w) \/ ConfirmGone(w) \/ Ambiguous(w)
    <2>1. at' \in [Writers -> Call]
      BY <1>0, <1>2 DEF Opened, Enabled, ConfirmGone, Ambiguous, Call, Before
    <2> QED BY <1>2, <2>1 DEF Opened, Enabled, ConfirmGone, Ambiguous, ComposerTypeOK
  <1>8. CASE w \in Posters /\ Resolved(w)
    <2>1. Outdated \in [Writers -> Call]
      BY OutdatedType
    <2>2. at' \in [Writers -> Call]
      BY <1>8, <2>1 DEF Resolved, Call, Before
    <2> QED BY <1>8, <2>2 DEF Resolved, ComposerTypeOK
  <1>3. CASE w \in Posters /\ ClickLands(w)
    <2>1. at' \in [Writers -> Call]
      BY <1>0, <1>3 DEF ClickLands, Call
    <2>2. spoiled' \subseteq Posters
      BY <1>3 DEF ClickLands, SpoilOthers, Relying, ComposerTypeOK
    <2> QED BY <1>3, <2>1, <2>2 DEF ClickLands, ComposerTypeOK
  <1>9. CASE w \in Posters /\ ClickGoesAstray(w)
    <2>1. at' \in [Writers -> Call]
      BY <1>0, <1>9 DEF ClickGoesAstray, Call
    <2>2. spoiled' \subseteq Posters /\ astray' \subseteq Posters
      BY <1>9 DEF ClickGoesAstray, SpoilOthers, Relying, ComposerTypeOK
    <2> QED BY <1>9, <2>1, <2>2 DEF ClickGoesAstray, ComposerTypeOK
  <1>4. CASE Focus(w) \/ WriterGivesUp(w)
    <2>1. at' \in [Writers -> Call]
      BY <1>0, <1>4 DEF Focus, WriterGivesUp, Call, Before
    <2> QED BY <1>4, <2>1 DEF Focus, WriterGivesUp, ComposerTypeOK
  <1>5. CASE Clear(w)
    <2>1. at' \in [Writers -> Call]
      BY <1>0, <1>5 DEF Clear, Call, Before
    <2>2. spoiled' \subseteq Posters
      BY <1>5 DEF Clear, SpoilOthers, Relying, ComposerTypeOK
    <2> QED BY <1>5, <2>1, <2>2 DEF Clear, ComposerTypeOK
  <1>6. CASE TypePiece(w)
    <2>1. typed[w] \in 0..Pieces /\ typed[w] + 1 \in 1..Pieces
      BY <1>6 DEF TypePiece, ComposerTypeOK
    <2>2. typed' \in [Writers -> 0..Pieces]
      BY <1>6, <2>1 DEF TypePiece, ComposerTypeOK
    <2>3. spoiled' \subseteq Posters
      BY <1>6 DEF TypePiece, SpoilOthers, Relying, ComposerTypeOK
    <2>4. <<w, typed[w] + 1>> \in Piece
      BY <2>1 DEF Piece
    <2>5. text' \in Texts
      BY ZenonT(40), <1>6, <2>4 DEF TypePiece, ComposerTypeOK
    <2> QED BY <1>6, <2>2, <2>3, <2>5 DEF TypePiece, ComposerTypeOK
  <1>7. CASE ReadBack(w)
    <2>1. at' \in [Writers -> Call]
      BY <1>0, <1>7 DEF ReadBack, Call, Before
    <2> QED BY <1>7, <2>1 DEF ReadBack, ComposerTypeOK
  <1> QED BY <1>1, <1>2, <1>3, <1>4, <1>5, <1>6, <1>7, <1>8, <1>9 DEF WriterStep, ClickPostButton

LEMMA ComposerNextType ==
  ASSUME ComposerTypeOK, [ComposerNext]_composerVars
  PROVE  ComposerTypeOK'
  <1> USE ComposerAssumption, NewTexts
  <1>1. CASE Touch
    <2>1. \A s \in Strangers : <<s, 0>> \in Piece
      BY DEF Piece
    <2>2. text' \in Texts /\ dialog' \in BOOLEAN
      BY ZenonT(40), <1>1, <2>1 DEF Touch, ComposerTypeOK
    <2>3. spoiled' \subseteq Posters /\ touches' \in 0..MaxTouches
      BY <1>1 DEF Touch, SpoilAll, Relying, ComposerTypeOK
    <2> QED BY <1>1, <2>2, <2>3 DEF Touch, ComposerTypeOK
  <1>2. CASE \E w \in Writers : WriterStep(w)
    BY <1>2, WriterStepType
  <1>3. CASE UNCHANGED composerVars
    BY <1>3 DEF composerVars, ComposerTypeOK
  <1>4. CASE Snapshot
    BY <1>4, OutdatedType DEF Snapshot, ComposerTypeOK
  <1> QED BY <1>1, <1>2, <1>3, <1>4 DEF ComposerNext

-----------------------------------------------------------------------------
\* A publish is disturbed only by its own step or by one that spoils it.
LEMMA NextReady ==
  ASSUME ComposerTypeOK, NEW p \in Posters, Ready(p), [ComposerNext]_composerVars,
         p \notin spoiled'
  PROVE  Ready(p)'
  <1> USE DEF Writers
  <1>0. p \in Writers /\ Draft(p)' = Draft(p)
    BY DEF Draft
  <1>1. CASE Touch
    <2>1. p \notin Relying /\ UNCHANGED <<at, posted, astray>>
      BY <1>1 DEF Touch, SpoilAll
    <2> QED BY <1>0, <2>1 DEF Relying, Ready
  <1>2. CASE UNCHANGED composerVars
    BY <1>0, <1>2 DEF composerVars, Ready
  <1>5. CASE Snapshot
    <2>1. /\ at'[p] = at[p] \/ (at[p] = "click" /\ at'[p] = "outdated")
          /\ UNCHANGED <<dialog, text, posted, astray>>
      BY <1>0, <1>5 DEF Snapshot, Outdated
    <2> QED BY <1>0, <2>1 DEF Ready
  <1>3. ASSUME NEW w \in Writers, WriterStep(w), w # p PROVE Ready(p)'
    <2>1. /\ at'[p] = at[p] \/ (at[p] = "click" /\ at'[p] = "outdated")
          /\ posted'[p] = posted[p] /\ (p \in astray => p \in astray')
      <3>1. CASE Resolved(w)
        BY <1>0, <1>3, <3>1 DEF Resolved, Outdated, ComposerTypeOK
      <3>2. CASE ~Resolved(w)
        BY <1>3, <3>2
        DEF WriterStep, ClickOpener, Opened, Enabled, ClickPostButton, ClickLands, ClickGoesAstray,
           ConfirmGone, Ambiguous, Focus, Clear, TypePiece, ReadBack, WriterGivesUp, Goes,
           ComposerTypeOK
      <3> QED BY <3>1, <3>2
    <2>2. CASE UNCHANGED <<dialog, text>>
      BY <1>0, <2>1, <2>2 DEF Ready
    <2>3. CASE w \in Posters /\ ClickOpener(w)
      BY <1>0, <2>1, <2>3 DEF ClickOpener, Ready
    <2>4. CASE p \notin Relying
      BY <1>0, <2>1, <2>4 DEF Relying, Ready
    <2>5. CASE p \in Relying /\ ~UNCHANGED <<dialog, text>>
              /\ ((w \in Posters /\ ClickPostButton(w)) \/ Clear(w) \/ TypePiece(w))
      <3>1. p \in spoiled'
        BY <1>3, <2>5 DEF ClickPostButton, ClickLands, ClickGoesAstray, Clear, TypePiece, SpoilOthers
      <3> QED BY <3>1
    <2>6. ASSUME w \in Posters,
                 Opened(w) \/ Enabled(w) \/ Resolved(w) \/ ConfirmGone(w) \/ Ambiguous(w)
          PROVE  UNCHANGED <<dialog, text>>
      BY <2>6 DEF Opened, Enabled, Resolved, ConfirmGone, Ambiguous
    <2>7. ASSUME Focus(w) \/ ReadBack(w) \/ WriterGivesUp(w) PROVE UNCHANGED <<dialog, text>>
      BY <2>7 DEF Focus, ReadBack, WriterGivesUp
    <2> QED BY <1>3, <2>2, <2>3, <2>4, <2>5, <2>6, <2>7 DEF WriterStep
  <1>4. ASSUME WriterStep(p) PROVE Ready(p)'
    <2>1. CASE ClickOpener(p)
      BY <1>0, <2>1 DEF ClickOpener, Ready
    <2>2. CASE Opened(p) \/ Focus(p) \/ Clear(p) \/ WriterGivesUp(p) \/ Ambiguous(p)
      <3>1. UNCHANGED <<posted, astray>> /\ at'[p] \in {"focus", "clear", "type", "gave_up", "ambiguous"}
        BY <1>0, <2>2
           DEF Opened, Focus, Clear, WriterGivesUp, Ambiguous, Goes, ComposerTypeOK
      <3> QED BY <1>0, <3>1 DEF Ready
    <2>3. CASE TypePiece(p)
      BY <1>0, <2>3 DEF TypePiece, Ready
    <2>4. CASE ReadBack(p)
      BY <1>0, <2>4 DEF ReadBack, Goes, Ready, ComposerTypeOK
    <2>5. CASE Enabled(p)
      BY <1>0, <2>5 DEF Enabled, Goes, Ready, ComposerTypeOK
    <2>6. CASE Resolved(p)
      <3>1. Outdated \in [Writers -> Call]
        BY OutdatedType
      <3>2. at'[p] = "click"
        BY <1>0, <2>6, <3>1 DEF Resolved
      <3> QED BY <1>0, <2>6, <3>2 DEF Resolved, Ready
    <2>7. CASE ClickLands(p)
      <3>1. at[p] \in {"click", "outdated"} /\ dialog /\ text = Draft(p)
        BY <2>7 DEF ClickLands, Ready
      <3>2. at'[p] \in {"confirm", "ambiguous"} /\ UNCHANGED astray
        BY <1>0, <2>7 DEF ClickLands, Goes, ComposerTypeOK
      <3>3. \/ posted'[p] = Draft(p)
            \/ posted'[p] = posted[p] /\ dialog' = dialog
        BY <2>7, <3>1 DEF ClickLands, ComposerTypeOK
      <3> QED BY <1>0, <3>1, <3>2, <3>3, DraftNotEmpty DEF Ready
    <2>9. CASE ClickGoesAstray(p)
      <3>1. /\ at'[p] \in {"confirm", "ambiguous"} /\ p \in astray'
            /\ UNCHANGED posted
        BY <1>0, <2>9 DEF ClickGoesAstray, Goes, ComposerTypeOK
      <3> QED BY <1>0, <3>1 DEF Ready
    <2>8. CASE ConfirmGone(p)
      BY <1>0, <2>8 DEF ConfirmGone, Goes, Ready, ComposerTypeOK
    <2> QED BY <1>4, <2>1, <2>2, <2>3, <2>4, <2>5, <2>6, <2>7, <2>8, <2>9
           DEF WriterStep, ClickPostButton
  <1> QED BY <1>1, <1>2, <1>3, <1>4, <1>5 DEF ComposerNext

LEMMA SpoiledStays == [ComposerNext]_composerVars => spoiled \subseteq spoiled'
  BY DEF ComposerNext, WriterStep, Touch, ClickOpener, Opened, Enabled, Resolved,
     ClickPostButton, ClickLands, ClickGoesAstray, ConfirmGone, Ambiguous, Focus, Clear,
     TypePiece, ReadBack, WriterGivesUp, Snapshot, SpoilAll, SpoilOthers, composerVars

LEMMA ComposerInductive == ComposerSpec => [](ComposerTypeOK /\ Undisturbed)
  <1>1. ComposerTypeOK /\ Undisturbed /\ [ComposerNext]_composerVars => Undisturbed'
    BY NextReady, SpoiledStays DEF Undisturbed
  <1>2. ComposerTypeOK /\ Undisturbed /\ [ComposerNext]_composerVars => ComposerTypeOK'
    BY ComposerNextType
  <1> QED BY <1>1, <1>2, ComposerInitially, PTL DEF ComposerSpec

\* The composer and the writers at it keep their shape.
THEOREM ComposerTypeCorrect == ComposerSpec => []ComposerTypeOK
  BY ComposerInductive, PTL

\* executeComposerPublish posts the draft it read back, or was disturbed.
THEOREM PostsItsDraft == ComposerSpec => []PostsTheDraft
  <1>1. Undisturbed => PostsTheDraft
    BY DEF Undisturbed, Ready, PostsTheDraft
  <1> QED BY <1>1, ComposerInductive, PTL

\* confirmComposerGone: what an undisturbed publish calls published was posted, or its own
\* click hit another control.
THEOREM PublishedWasPosted == ComposerSpec => []PublishedMeansPosted
  <1>1. Undisturbed => PublishedMeansPosted
    BY DEF Undisturbed, Ready, PublishedMeansPosted
  <1> QED BY <1>1, ComposerInductive, PTL
=============================================================================
