------------------------------ MODULE Workflow ------------------------------
(***************************************************************************)
(* The workflow controller: the plan the agent declares with todo_write, the *)
(* gate that pauses a manual workflow before an outbound step, the           *)
(* operator's answers, and hasApprovedOutboundStep, which every outbound      *)
(* click outside Auto mode asks.                                            *)
(*                                                                          *)
(* Tool results come from any turn, also while the gate waits: it aborts the  *)
(* turn that reached it, and a card action, a steer, a retry, a Telegram      *)
(* prompt or the cron tick starts the next.  Titles, ids and plans are data;  *)
(* draft ids, frames and audit rows are left out.                           *)
(***************************************************************************)
EXTENDS Naturals, Sequences, FiniteSets

CONSTANTS
  StepTitles, WorkflowTitles,
  DraftStep, DraftWorkflow,  \* the titles ensureWorkflowForSaveDraft makes up
  StepIds,                   \* bound: step ids that are told apart at a time
  NoStep, NoWorkflow,
  MaxSteps,                  \* the longest plan todo_write accepts (20)
  Plans,                     \* the step lists the agent passes to todo_write
  MaxGrants                  \* bound: approvals counted per title

StepState == {"pending", "in_progress", "completed", "failed"}
PlanStep == [title : StepTitles, requiresApproval : BOOLEAN, state : StepState]

ASSUME WorkflowAssumption ==
  /\ NoStep \notin StepIds
  /\ DraftStep \in StepTitles /\ DraftWorkflow \in WorkflowTitles
  /\ MaxSteps \in Nat \ {0}
  /\ \A p \in Plans : p \in Seq(PlanStep) /\ Len(p) \in 1..MaxSteps
  /\ MaxGrants \in Nat \ {0}

VARIABLES
  current,   \* WorkflowState.current
  awaiting,  \* WorkflowState.awaitingApprovalStepId
  approved,  \* approvedStepIds
  said       \* history: what the operator said of the plan at hand

vars == <<current, awaiting, approved, said>>

Step == [id : StepIds, title : StepTitles, requiresApproval : BOOLEAN, state : StepState]

\* done: the workflow's id is in terminalWorkflowIds.
Workflow == [title : WorkflowTitles, approvalMode : {"manual", "auto"}, handoff : BOOLEAN,
             steps : Seq(Step) \ {<<>>}, state : {"active", "awaiting_approval", "completed"},
             done : BOOLEAN]
ASSUME NoWorkflowAssumption == NoWorkflow \notin Workflow

\* granted[t]: approvals of steps titled t, since one was declined with none standing.
Said == [granted : [StepTitles -> 0..MaxGrants], handedOff : BOOLEAN]
NothingSaid == [granted |-> [t \in StepTitles |-> 0], handedOff |-> FALSE]

\* The turn a tool result comes from: an operator's, in Manual or Auto mode, or cron's.
Turn == {"manual", "auto", "cron"}

NoCurrent == current = NoWorkflow
FirstIn(S) == CHOOSE i \in S : \A j \in S : i <= j
WithState(steps, s) == {i \in DOMAIN steps : steps[i].state = s}
Titled(steps, t) == {i \in DOMAIN steps : steps[i].title = t}
WithId(steps, id) == {i \in DOMAIN steps : steps[i].id = id}

StepsOf == IF NoCurrent THEN <<>> ELSE current.steps

Init ==
  /\ current = NoWorkflow /\ awaiting = NoStep /\ approved = {}
  /\ said = NothingSaid

-----------------------------------------------------------------------------
(* The gate.                                                                *)

\* Steps that wait for an answer, if appr are the approved ids.
Unapproved(steps, appr) ==
  {i \in WithState(steps, "in_progress") : steps[i].requiresApproval /\ steps[i].id \notin appr}

GateApplies(wf, appr, kind) ==
  /\ kind # "cron" /\ wf.approvalMode = "manual" /\ awaiting = NoStep
  /\ Unapproved(wf.steps, appr) # {}

\* emitCompletionIfNeeded
Completed(wf) ==
  IF \A i \in DOMAIN wf.steps : wf.steps[i].state = "completed"
  THEN [wf EXCEPT !.state = "completed", !.done = TRUE] ELSE wf

\* checkApprovalGate paused the workflow wf.
Pause(wf, appr) ==
  /\ current' = [wf EXCEPT !.state = "awaiting_approval"]
  /\ awaiting' = wf.steps[FirstIn(Unapproved(wf.steps, appr))].id

-----------------------------------------------------------------------------
(* todo_write.                                                              *)

\* The random ids of a new plan or draft are new, and which they are tells nothing.
FreshIds ==
  {ids \in [1..MaxSteps -> StepIds] :
     /\ \A i, j \in 1..MaxSteps : ids[i] = ids[j] => i = j
     /\ \A i \in 1..MaxSteps : /\ ids[i] \notin approved \union {awaiting}
                             /\ WithId(StepsOf, ids[i]) = {}}

Rank == [pending |-> 0, in_progress |-> 1, completed |-> 2]

\* A step does not regress, except from and to "failed".
Merged(old, new) ==
  IF "failed" \notin {old.state, new.state} /\ Rank[new.state] < Rank[old.state]
  THEN old.state ELSE new.state

SamePrefix(plan) ==
  /\ Len(plan) >= Len(current.steps)
  /\ \A i \in DOMAIN current.steps : current.steps[i].title = plan[i].title

Continues(title, plan) ==
  ~NoCurrent /\ current.title = title /\ ~current.done /\ SamePrefix(plan)

\* priorByTitle: the map keeps the last step of a title.
Prior(t) == LET S == Titled(current.steps, t)
            IN current.steps[CHOOSE i \in S : \A j \in S : j <= i]

\* The steps of a continued workflow keep their ids (the steps of a shared title take the
\* id of the last of them); approval flags come from the plan.
Continued(plan, ids) ==
  [i \in DOMAIN plan |->
     LET known == Titled(current.steps, plan[i].title) # {}
     IN [id |-> IF known THEN Prior(plan[i].title).id ELSE ids[i],
         title |-> plan[i].title, requiresApproval |-> plan[i].requiresApproval,
         state |-> IF known THEN Merged(Prior(plan[i].title), plan[i]) ELSE plan[i].state]]

\* A mutant: a finished workflow hands its approvals on, too.
CarriesDone(title) == ~NoCurrent /\ current.title = title
\* A new plan under the same title keeps approvals and completions, by step title.
Carries(title) == ~NoCurrent /\ current.title = title /\ ~current.done
CarriedOver(title, plan, i) ==
  /\ Carries(title) /\ plan[i].state = "pending"
  /\ \E j \in Titled(current.steps, plan[i].title) : current.steps[j].state = "completed"
Replanned(title, plan, ids) ==
  [i \in DOMAIN plan |->
     [id |-> ids[i], title |-> plan[i].title, requiresApproval |-> plan[i].requiresApproval,
      state |-> IF CarriedOver(title, plan, i) THEN "completed" ELSE plan[i].state]]
\* A mutant: a new workflow starts without approvals.
CarriesNothing(title, plan, ids) == IF NoCurrent THEN approved ELSE {}
CarriedApprovals(title, plan, ids) ==
  IF NoCurrent THEN approved
  ELSE {ids[i] : i \in {k \in DOMAIN plan :
          /\ Carries(title)
          /\ \E j \in Titled(current.steps, plan[k].title) : current.steps[j].id \in approved}}

\* reconcileTodoWrite
TodoWrite(title, plan, ids, kind) ==
  LET continues == Continues(title, plan)
      steps == IF continues THEN Continued(plan, ids) ELSE Replanned(title, plan, ids)
      appr == IF continues THEN approved ELSE CarriedApprovals(title, plan, ids)
      wf == [title |-> title, handoff |-> FALSE, steps |-> steps, state |-> "active",
             done |-> FALSE,
             approvalMode |-> IF continues THEN current.approvalMode
                              ELSE IF kind = "manual" THEN "manual" ELSE "auto"]
  IN /\ approved' = appr
     /\ said' = IF ~NoCurrent /\ current.title = title /\ ~current.done
                THEN said ELSE NothingSaid
     /\ IF GateApplies(wf, appr, kind) THEN Pause(wf, appr)
        ELSE current' = Completed(wf) /\ UNCHANGED awaiting

-----------------------------------------------------------------------------
(* save_message_draft: a workflow is made up if there is none, and the plan   *)
(* advances to its first open outbound step.                                *)

\* ensureWorkflowForSaveDraft
DraftPlan(id, kind) ==
  [title |-> DraftWorkflow, approvalMode |-> "manual", handoff |-> FALSE, state |-> "active",
   done |-> FALSE,
   steps |-> <<[id |-> id, title |-> DraftStep, requiresApproval |-> TRUE,
                state |-> IF kind = "auto" THEN "in_progress" ELSE "pending"]>>]

Targets(wf) ==
  {i \in DOMAIN wf.steps : /\ wf.steps[i].requiresApproval /\ wf.steps[i].id \notin approved
                           /\ wf.steps[i].state \in {"pending", "in_progress"}}

\* autoAdvanceOnSaveDraft: what is before the target is completed, the target starts.
Advanced(wf) ==
  LET target == FirstIn(Targets(wf))
      stop == FirstIn(WithId(wf.steps, wf.steps[target].id))
      Now(i) == IF i = target THEN "in_progress"
                ELSE IF i < stop /\ wf.steps[i].state # "failed" THEN "completed"
                ELSE wf.steps[i].state
  IN [wf EXCEPT !.steps = [i \in DOMAIN wf.steps |-> [wf.steps[i] EXCEPT !.state = Now(i)]]]

\* In a cron turn it does nothing.
SaveDraft(ids, kind) ==
  LET wf == IF NoCurrent THEN DraftPlan(ids[1], kind) ELSE current
      advances == wf.approvalMode = "manual" /\ awaiting = NoStep /\ Targets(wf) # {}
                  /\ Advanced(wf) # wf
  IN /\ IF advances /\ GateApplies(Advanced(wf), approved, kind)
        THEN Pause(Advanced(wf), approved)
        ELSE current' = (IF advances THEN Advanced(wf) ELSE wf) /\ UNCHANGED awaiting
     /\ said' = IF NoCurrent THEN NothingSaid ELSE said
     /\ UNCHANGED approved
-----------------------------------------------------------------------------
(* The operator.                                                            *)

Pending == IF NoCurrent THEN {} ELSE WithId(current.steps, awaiting)

Approve ==
  /\ Pending # {}
  /\ current' = [current EXCEPT !.state = "active"]
  /\ awaiting' = NoStep
  /\ approved' = approved \union {awaiting}
  /\ said' = [said EXCEPT !.granted[current.steps[FirstIn(Pending)].title] =
               IF @ < MaxGrants THEN @ + 1 ELSE @]

\* Another step of title t than those of id stands approved.
StandsApproved(t, id) ==
  \E i \in Titled(current.steps, t) : current.steps[i].id \in approved \ {id}

\* Retiring the step's draft comes first; when that fails, nothing is changed.
Decline ==
  /\ Pending # {}
  /\ current' = [current EXCEPT !.state = "active", !.steps[FirstIn(Pending)].state = "failed"]
  /\ awaiting' = NoStep
  /\ said' = [said EXCEPT !.granted[current.steps[FirstIn(Pending)].title] =
               IF StandsApproved(current.steps[FirstIn(Pending)].title, awaiting) THEN @ ELSE 0]
  /\ UNCHANGED approved

Handoff ==
  /\ ~NoCurrent
  /\ current' = [current EXCEPT !.approvalMode = "auto", !.handoff = TRUE, !.state = "active"]
  /\ awaiting' = NoStep
  /\ said' = [said EXCEPT !.handedOff = TRUE]
  /\ UNCHANGED approved

\* Cancel, and a fresh prompt through /agent/turn: the plan is gone, the ids stay.
Forget ==
  /\ ~NoCurrent
  /\ current' = NoWorkflow /\ awaiting' = NoStep /\ said' = NothingSaid
  /\ UNCHANGED approved

\* A mutant (the stale auto workflow): approvalMode "auto" is enough.
HasApprovedAuto ==
  /\ ~NoCurrent /\ current.state # "completed"
  /\ \/ current.approvalMode = "auto"
     \/ LET S == WithState(current.steps, "in_progress")
        IN S # {} /\ current.steps[FirstIn(S)].requiresApproval
                  /\ current.steps[FirstIn(S)].id \in approved
\* What an outbound click asks outside Auto mode.
HasApprovedOutboundStep ==
  /\ ~NoCurrent /\ current.state # "completed"
  /\ \/ current.approvalMode = "auto" /\ current.handoff
     \/ LET S == WithState(current.steps, "in_progress")
        IN S # {} /\ current.steps[FirstIn(S)].requiresApproval
                  /\ current.steps[FirstIn(S)].id \in approved

Next ==
  \/ /\ FreshIds # {}
     /\ \E ids \in {CHOOSE f \in FreshIds : TRUE} :
       \/ \E title \in WorkflowTitles, plan \in Plans, kind \in Turn :
            TodoWrite(title, plan, ids, kind)
       \/ \E kind \in {"manual", "auto"} : SaveDraft(ids, kind)
  \/ Approve \/ Decline \/ Handoff \/ Forget

Spec == Init /\ [][Next]_vars

-----------------------------------------------------------------------------
(* Properties.                                                              *)

\* Every variable keeps its type, and only a paused workflow of the present waits.
TypeOK ==
  /\ current \in Workflow \union {NoWorkflow}
  /\ awaiting \in StepIds \union {NoStep}
  /\ approved \subseteq StepIds
  /\ said \in Said
  /\ NoCurrent => awaiting = NoStep

\* However the agent rewrites its plan, a step counts as approved only if the operator
\* approved a step of that title, in this workflow or in the plan it replaces under the
\* same title, and has not declined one since (a decline of one of several steps of a title
\* leaves the approval of the others).
ApprovalsAreTheOperators ==
  ~NoCurrent =>
    \A i \in DOMAIN current.steps :
      current.steps[i].id \in approved => said.granted[current.steps[i].title] > 0

\* Outside Auto mode no outbound click passes without the operator: a hand-off of the
\* plan at hand, or an approval of the step in progress.
OutboundNeedsOperator ==
  HasApprovedOutboundStep =>
    \/ said.handedOff
    \/ \E i \in DOMAIN current.steps : /\ current.steps[i].state = "in_progress"
                                      /\ said.granted[current.steps[i].title] > 0

\* The plan at hand goes on, or is replaced under its title.
SameLineage == ~NoCurrent /\ ~current.done /\ current' # NoWorkflow /\ current.title = current'.title

\* The operator is not asked again for a step he approved, however the agent re-plans under
\* the same title: the gate asks for no approved id, and for a new id only if no step of its
\* title stood approved.
NeverAskedTwice ==
  [][awaiting' # awaiting /\ SameLineage =>
       /\ awaiting' \notin approved'
       /\ \A i \in DOMAIN StepsOf, j \in DOMAIN StepsOf' :
            /\ StepsOf'[j].id = awaiting' /\ WithId(StepsOf, awaiting') = {}
            /\ StepsOf[i].title = StepsOf'[j].title
            => StepsOf[i].id \notin approved]_vars
=============================================================================
