------------------------------ MODULE Publish -------------------------------
(***************************************************************************)
(* Publishing an approved feed post.  The agent saves a post draft, which the *)
(* plan's next outbound step is bound to; the operator approves the step, and *)
(* a detached publish, outside the turn slot, types the draft into LinkedIn's *)
(* composer and clicks Post, or hands the step to the agent when it gave up     *)
(* before the click.  Drafts are rows on disk; plan, gate and publishes are    *)
(* lost in a crash.                                                         *)
(*                                                                          *)
(* Every step here is a post step of a manual plan: step i is the plan's i-th   *)
(* title.  Re-ordered plans, other outbound steps, hand-offs and the agent's   *)
(* own clicks are those of Workflow and Outbound; whose turn runs is TurnSlot's.*)
(***************************************************************************)
EXTENDS Naturals, FiniteSets

CONSTANTS
  Drafts,         \* bound: rows of message_drafts of kind "post"
  NoDraft,
  NumSteps,       \* bound: steps of a plan
  Plans,          \* the step states the agent passes to todo_write
  Publishes,      \* bound: approvals a detached publish runs for
  MaxPosts        \* bound: posts counted per draft

ASSUME PublishAssumption ==
  /\ NoDraft \notin Drafts
  /\ NumSteps \in Nat \ {0} /\ MaxPosts \in Nat \ {0}
  /\ \A asked \in Plans : \E n \in 1..NumSteps :
       asked \in [1..n -> {"pending", "in_progress", "completed", "failed"}]

VARIABLES
  drafts,    \* message_drafts.status; "absent": not saved yet
  plan,      \* the steps of WorkflowState.current
  awaiting,  \* awaitingApprovalStepId; Dangling: the id of a step of an older plan
  turn,      \* ServeState.currentTurn
  flow,      \* the detached publishes
  posts,     \* history: clicks on Post per draft
  tainted,   \* history: drafts whose post was not recorded, or raced by another publish
  declined   \* history: drafts of declined steps; "late": in a publish or sent by then

vars == <<drafts, plan, awaiting, turn, flow, posts, tainted, declined>>
workflow == <<plan, awaiting>>
history == <<posts, tainted, declined>>

Steps == 1..NumSteps
NoStep == 0
Dangling == NumSteps + 1
StepState == {"absent", "pending", "in_progress", "completed", "failed"}
Step == [state : StepState, draft : Drafts \union {NoDraft}, approved : BOOLEAN]
NoSuchStep == [state |-> "absent", draft |-> NoDraft, approved |-> FALSE]
Status == {"absent", "draft", "sent", "rejected"}

\* at: the await the publish is in; handed: the step was handed to the agent.
Flow == [draft : Drafts \union {NoDraft}, at : {"none", "connecting", "filling", "clicked", "over"},
         clicked : BOOLEAN, handed : BOOLEAN]
NoFlow == [draft |-> NoDraft, at |-> "none", clicked |-> FALSE, handed |-> FALSE]

Present(p) == {i \in Steps : p[i].state # "absent"}
Done(p) == \A i \in Present(p) : p[i].state = "completed"
FirstOf(S) == CHOOSE i \in S : \A j \in S : i <= j
InFlight(d) == {f \in Publishes : flow[f].draft = d /\ flow[f].at \in {"filling", "clicked"}}

Init ==
  /\ drafts = [d \in Drafts |-> "absent"]
  /\ plan = [i \in Steps |-> NoSuchStep]
  /\ awaiting = NoStep /\ turn = "idle"
  /\ flow = [f \in Publishes |-> NoFlow]
  /\ posts = [d \in Drafts |-> 0] /\ tainted = {}
  /\ declined = [d \in Drafts |-> "no"]

-----------------------------------------------------------------------------
(* Turns: of the operator, a channel, a card or a resumed step.              *)

\* A fresh prompt drops the plan; a card, a steer or a channel keeps it.
StartTurn ==
  /\ turn = "idle" /\ turn' = "busy"
  /\ \/ UNCHANGED workflow
     \/ plan' = [i \in Steps |-> NoSuchStep] /\ awaiting' = NoStep
  /\ UNCHANGED <<drafts, flow, history>>

\* POST /workflow/cancel
Cancel ==
  /\ Present(plan) # {}
  /\ plan' = [i \in Steps |-> NoSuchStep] /\ awaiting' = NoStep
  /\ UNCHANGED <<drafts, turn, flow, history>>

EndTurn ==
  /\ turn = "busy" /\ turn' = "idle"
  /\ UNCHANGED <<drafts, workflow, flow, history>>

\* resumeWorkflowTurn: a running turn is steered away; one that does not clear in time
\* loses the prompt.
ResumeStarts == turn' = "busy"
ResumeLost == turn = "busy" /\ turn' = "busy"

-----------------------------------------------------------------------------
(* The agent's tools.                                                       *)

Open(p) == {i \in Steps : p[i].state = "in_progress" /\ ~p[i].approved}

\* checkApprovalGate on the plan p: it pauses and aborts the turn that got there.
Gate(p, waits) ==
  /\ plan' = p
  /\ IF waits = NoStep /\ Open(p) # {}
     THEN awaiting' = FirstOf(Open(p)) /\ turn' = "idle"
     ELSE awaiting' = waits /\ UNCHANGED turn

Rank == [pending |-> 0, in_progress |-> 1, completed |-> 2]
Merged(old, new) ==
  IF "failed" \notin {old.state, new}
     /\ (Rank[new] < Rank[old.state] \/ (new = "pending" /\ old.approved))
  THEN old.state ELSE new

\* A longer or equal plan continues the workflow: its steps keep id, draft and approval.
Continued(asked) ==
  [i \in Steps |->
     IF i \notin DOMAIN asked THEN NoSuchStep
     ELSE IF i \in Present(plan) THEN [plan[i] EXCEPT !.state = Merged(plan[i], asked[i])]
     ELSE [NoSuchStep EXCEPT !.state = asked[i]]]

\* Any other plan has new steps; under the same title they keep approvals and
\* completions, but no draft.
Replaced(asked, sameTitle) ==
  LET keeps == sameTitle /\ ~Done(plan)
  IN [i \in Steps |->
        IF i \notin DOMAIN asked THEN NoSuchStep
        ELSE [state |-> IF keeps /\ plan[i].state = "completed" /\ asked[i] = "pending"
                        THEN "completed" ELSE asked[i],
              draft |-> NoDraft, approved |-> keeps /\ plan[i].approved]]

\* reconcileTodoWrite
TodoWrite ==
  /\ turn = "busy"
  /\ \E asked \in Plans, sameTitle \in BOOLEAN :
       IF sameTitle /\ ~Done(plan) /\ Present(plan) \subseteq DOMAIN asked
       THEN Gate(Continued(asked), awaiting)
       ELSE Gate(Replaced(asked, sameTitle), IF awaiting = NoStep THEN NoStep ELSE Dangling)
  /\ UNCHANGED <<drafts, flow, history>>

\* ensureWorkflowForSaveDraft
MadeUp(d) == [i \in Steps |-> IF i = 1 THEN [state |-> "pending", draft |-> d, approved |-> FALSE]
                              ELSE NoSuchStep]

\* captureDraftId: the first draft a step was bound to stays.
Bound(step, d) == IF step.draft = NoDraft THEN [step EXCEPT !.draft = d] ELSE step

\* save_message_draft, ensureWorkflowForSaveDraft, autoAdvanceOnSaveDraft: the steps
\* before the first open one are done, it starts and is bound to the draft.
SaveDraft(d) ==
  LET p == IF Present(plan) = {} THEN MadeUp(d) ELSE plan
      targets == {i \in Steps : p[i].state \in {"pending", "in_progress"} /\ ~p[i].approved}
      t == FirstOf(targets)
      Advanced(i) == IF i = t THEN [Bound(p[i], d) EXCEPT !.state = "in_progress"]
                     ELSE IF i < t /\ p[i].state \in {"pending", "in_progress"}
                     THEN [p[i] EXCEPT !.state = "completed"] ELSE p[i]
      next == [i \in Steps |-> Advanced(i)]
  IN /\ turn = "busy" /\ drafts[d] = "absent"
     /\ drafts' = [drafts EXCEPT ![d] = "draft"]
     /\ IF awaiting # NoStep \/ targets = {} THEN plan' = p /\ UNCHANGED <<awaiting, turn>>
        ELSE IF \E i \in Steps : next[i].state # p[i].state THEN Gate(next, NoStep)
        ELSE plan' = next /\ UNCHANGED <<awaiting, turn>>
     /\ UNCHANGED <<flow, history>>

\* mark_message_sent refuses what is not a live draft.
MarkMessageSent(d) ==
  /\ turn = "busy" /\ drafts[d] = "draft"
  /\ drafts' = [drafts EXCEPT ![d] = "sent"]
  /\ UNCHANGED <<workflow, turn, flow, history>>

-----------------------------------------------------------------------------
(* The operator.                                                            *)

Pending == {d \in Drafts : drafts[d] = "draft"}

\* The step's draft, or the only pending post (recoverPostDraftId).
DraftToPublish(step) ==
  IF step.draft # NoDraft THEN step.draft
  ELSE IF Cardinality(Pending) = 1 THEN CHOOSE d \in Pending : TRUE
  ELSE NoDraft

Unused == {f \in Publishes : flow[f].at = "none"}

\* POST /workflow/approve publishes; without a draft to publish, with the kill switch,
\* or from the overlay, the step goes to the agent at once.
Approve ==
  /\ awaiting \in Present(plan)
  /\ plan' = [plan EXCEPT ![awaiting].approved = TRUE]
  /\ awaiting' = NoStep
  /\ LET d == DraftToPublish(plan[awaiting])
     IN \/ /\ d # NoDraft /\ Unused # {}
           /\ \E f \in {CHOOSE g \in Unused : TRUE} :
                flow' = [flow EXCEPT ![f].draft = d, ![f].at = "connecting"]
           /\ UNCHANGED turn
        \/ (ResumeStarts \/ ResumeLost) /\ UNCHANGED flow
  /\ UNCHANGED <<drafts, history>>

\* A mutant: the step fails whether or not its draft could be retired.
DeclineUnsaved ==
  /\ awaiting \in Present(plan)
  /\ LET d == plan[awaiting].draft
     IN /\ \/ drafts' = [c \in Drafts |-> IF c = d /\ drafts[c] = "draft" THEN "rejected" ELSE drafts[c]]
           \/ UNCHANGED drafts
        /\ declined' = [c \in Drafts |->
             IF c # d THEN declined[c]
             ELSE IF drafts[c] # "draft" \/ InFlight(c) # {} THEN "late" ELSE "yes"]
  /\ plan' = [plan EXCEPT ![awaiting].state = "failed"]
  /\ awaiting' = NoStep
  /\ (ResumeStarts \/ ResumeLost)
  /\ UNCHANGED <<flow, posts, tainted>>
\* The draft is retired first; if the store refuses, the gate stays as it was.
Decline ==
  /\ awaiting \in Present(plan)
  /\ LET d == plan[awaiting].draft
     IN /\ drafts' = [c \in Drafts |-> IF c = d /\ drafts[c] = "draft" THEN "rejected" ELSE drafts[c]]
        /\ declined' = [c \in Drafts |->
             IF c # d THEN declined[c]
             ELSE IF drafts[c] # "draft" \/ InFlight(c) # {} THEN "late" ELSE "yes"]
  /\ plan' = [plan EXCEPT ![awaiting].state = "failed"]
  /\ awaiting' = NoStep
  /\ (ResumeStarts \/ ResumeLost)
  /\ UNCHANGED <<flow, posts, tainted>>

-----------------------------------------------------------------------------
(* publishApprovedFeedPostViaAction, await by await.                         *)

\* The step goes to the agent after all.
HandOver(f) ==
  /\ \/ ResumeStarts /\ flow' = [flow EXCEPT ![f].at = "over", ![f].handed = TRUE]
     \/ ResumeLost /\ flow' = [flow EXCEPT ![f].at = "over"]
  /\ UNCHANGED <<drafts, workflow, history>>

\* Auto mode, or a draft already sent, ends it without the agent.
Refuse(f) ==
  /\ flow[f].at = "connecting"
  /\ flow' = [flow EXCEPT ![f].at = "over"]
  /\ UNCHANGED <<drafts, workflow, turn, history>>

\* A mutant: the draft's status is not looked at.
BeginUnchecked(f) ==
  LET d == flow[f].draft
  IN /\ flow[f].at = "connecting"
     /\ flow' = [flow EXCEPT ![f].at = "filling"]
     /\ tainted' = IF InFlight(d) # {} THEN tainted \union {d} ELSE tainted
     /\ UNCHANGED <<drafts, workflow, turn, posts, declined>>
\* The browser is there and the draft is not sent: on to the composer.
Begin(f) ==
  LET d == flow[f].draft
  IN /\ flow[f].at = "connecting" /\ drafts[d] # "sent"
     /\ flow' = [flow EXCEPT ![f].at = "filling"]
     /\ tainted' = IF InFlight(d) # {} THEN tainted \union {d} ELSE tainted
     /\ UNCHANGED <<drafts, workflow, turn, posts, declined>>

\* No browser, hardware input, or any readiness check on the way to the button failed.
GiveUp(f) == flow[f].at \in {"connecting", "filling"} /\ HandOver(f)

\* clickAt: it may throw with the click on its way.
ClickPost(f) ==
  /\ flow[f].at = "filling"
  /\ flow' = [flow EXCEPT ![f].at = "clicked", ![f].clicked = TRUE]
  /\ posts' = [posts EXCEPT ![flow[f].draft] = IF @ < MaxPosts THEN @ + 1 ELSE @]
  /\ UNCHANGED <<drafts, workflow, turn, tainted, declined>>

\* A mutant: a dialog still open counts as not posted.
FinishDoubting(f) ==
  /\ flow[f].at = "clicked"
  /\ \/ HandOver(f)
     \/ /\ flow' = [flow EXCEPT ![f].at = "over"]
        /\ drafts' = [drafts EXCEPT ![flow[f].draft] = "sent"]
        /\ UNCHANGED <<workflow, turn, history>>
\* finishSuccess, finishPostDispatchAmbiguous: the draft counts as sent, whatever became
\* of the dialog; the store may refuse.
Finish(f) ==
  /\ flow[f].at = "clicked"
  /\ flow' = [flow EXCEPT ![f].at = "over"]
  /\ \/ drafts' = [drafts EXCEPT ![flow[f].draft] = "sent"] /\ UNCHANGED tainted
     \/ tainted' = tainted \union {flow[f].draft} /\ UNCHANGED drafts
  /\ UNCHANGED <<workflow, turn, posts, declined>>

\* The backend restarts.
Crash ==
  /\ turn' = "idle" /\ awaiting' = NoStep
  /\ plan' = [i \in Steps |-> NoSuchStep]
  /\ flow' = [f \in Publishes |-> IF flow[f].at = "none" THEN flow[f]
                                  ELSE [flow[f] EXCEPT !.at = "over"]]
  /\ tainted' = tainted \union {flow[f].draft : f \in {g \in Publishes : flow[g].at = "clicked"}}
  /\ UNCHANGED <<drafts, posts, declined>>

Next ==
  \/ StartTurn \/ EndTurn \/ Cancel \/ TodoWrite
  \/ \E d \in Drafts : SaveDraft(d) \/ MarkMessageSent(d)
  \/ Approve \/ Decline
  \/ \E f \in Publishes : Refuse(f) \/ Begin(f) \/ GiveUp(f) \/ ClickPost(f) \/ Finish(f)
  \/ Crash

Spec == Init /\ [][Next]_vars

-----------------------------------------------------------------------------
(* Properties.                                                              *)

TypeOK ==
  /\ drafts \in [Drafts -> Status]
  /\ plan \in [Steps -> Step]
  /\ awaiting \in 0..Dangling
  /\ turn \in {"idle", "busy"}
  /\ flow \in [Publishes -> Flow]
  /\ posts \in [Drafts -> 0..MaxPosts]
  /\ tainted \subseteq Drafts
  /\ declined \in [Drafts -> {"no", "late", "yes"}]

\* However steps are approved, re-planned and recovered, a draft is posted at most once,
\* unless two publishes of it overlapped or the store or a crash lost the record of the
\* post.
PostedOnce == \A d \in Drafts : posts[d] > 1 => d \in tainted

\* One approval is carried out once: a publish that reached the Post button never hands
\* the step to the agent, who would post again.
ClickedOrHanded == \A f \in Publishes : ~(flow[f].clicked /\ flow[f].handed)

\* A draft the operator declined does not stay pending, where the next approval of a
\* post without a draft would pick it up: whatever the store does, the step keeps waiting
\* until its draft is retired.
DeclinedNotPending == \A d \in Drafts : declined[d] # "no" => drafts[d] # "draft"
=============================================================================
