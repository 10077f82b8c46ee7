------------------------------ MODULE AgentLoop ------------------------------
(***************************************************************************)
(* What the model is told and what is remembered of it: the loop of a turn   *)
(* (runAgentLoopPi) over the chat history all operator turns share           *)
(* (ServeState.messages).                                                   *)
(*                                                                          *)
(* A turn copies the history, works on its own transcript and writes what it *)
(* produced back when it ends, however it ends.  A turn that was aborted     *)
(* gives up the slot at once or later, and may still be in a tool while the  *)
(* next turn runs on a history that does not know of it.  An Auto tick works *)
(* on messages of its own and leaves no trace in the history.               *)
(*                                                                          *)
(* An action is what the loop does from one await to the next.  Texts are    *)
(* told apart only by what the loop does with them.  Left out: the clocks of *)
(* the watchers (any turn may be aborted at any time), turns refused for a   *)
(* missing key, the retry counter of failed prompts, who may take the slot   *)
(* when (TurnSlot).                                                         *)
(***************************************************************************)
EXTENDS Naturals, Sequences, FiniteSets, SequencesExt

CONSTANTS
  Overlap,         \* turn executions that may overlap
  MaxSteps,        \* opts.maxSteps
  RetrySteps,      \* the 30 steps at most that follow a nudge
  StallThreshold,  \* STALL_STEP_THRESHOLD
  MaxIdle,         \* LLM_STREAM_MAX_RETRIES
  MaxCalls,        \* bound: tool calls the model makes
  MaxTurns         \* bound: turns started

ASSUME AgentLoopAssumption ==
  /\ {Overlap, MaxSteps, RetrySteps} \subseteq Nat \ {0}
  /\ {StallThreshold, MaxIdle, MaxCalls, MaxTurns} \subseteq Nat

(* Turns are told apart, never compared otherwise; the least free one is taken. *)
Loops == 1..Overlap
NoLoop == 0

VARIABLES
  messages,     \* ServeState.messages
  loop,         \* the turn executions
  slot,         \* ServeState.currentTurn
  calls,        \* how many tool calls the model has made; call ids in this order
  ran,          \* the calls of operator turns whose tool was started
  started       \* bound on turns

loopVars == <<messages, loop, slot, calls, ran, started>>

(* "none" is no text and no thinking, "thought" thinking only, "hook" a text *)
(* that announces an action (NARRATIVE_HOOK_RE).                             *)
Text == {"none", "thought", "plain", "hook"}
Spoken(text) == text \in {"plain", "hook"}

(* What stands in a transcript: who speaks, and the calls made or answered.  *)
(* instead: a ghost, the calls a final text took the place of.               *)
Message(role, ids) == [role |-> role, calls |-> ids, instead |-> {}]
User == Message("user", <<>>)
Assistant(ids) == Message("assistant", ids)
Result(c) == Message("tool", <<c>>)

(* A PhaseRecord: an answer, the results its calls have had, and its phase.  *)
(* The text beside calls that let the turn go on is shown and never kept.    *)
Record(ids, text, more) ==
  [calls |-> ids, text |-> text, more |-> more, results |-> <<>>, final |-> FALSE]

(* A turn waits for the model ("asking"), for the tool of the first call in  *)
(* todo ("tool"), or for onStepFinish ("step").                              *)
IdleLoop == [at |-> "off", tick |-> FALSE, aborted |-> FALSE, sent |-> <<>>,
             records |-> <<>>, todo |-> <<>>, count |-> 0, nudged |-> FALSE, idle |-> 0]

LoopInit ==
  /\ messages = <<>>
  /\ loop = [t \in Loops |-> IdleLoop]
  /\ slot = NoLoop
  /\ calls = 0
  /\ ran = {}
  /\ started = 0

-----------------------------------------------------------------------------
(* Starting and aborting.                                                   *)

\* The turn's prompt is pushed, the transcript is a copy of the history with it.
Start(t, isTick) ==
  /\ loop[t].at = "off" /\ \A s \in 1..(t - 1) : loop[s].at # "off"
  /\ started < MaxTurns
  /\ started' = started + 1
  /\ slot' = t
  /\ messages' = IF isTick THEN messages ELSE Append(messages, User)
  /\ UNCHANGED <<calls, ran>>
Begun(isTick) == [IdleLoop EXCEPT !.at = "asking", !.tick = isTick,
                                 !.sent = IF isTick THEN <<User>> ELSE messages']

\* Activate, retry, card action, resume, Telegram and the cron tick.
StartFree(t) ==
  /\ slot = NoLoop
  /\ \E isTick \in BOOLEAN : /\ Start(t, isTick)
                             /\ loop' = [loop EXCEPT ![t] = Begun(isTick)]

\* /agent/turn: the holder is told to stop and loses the slot; one that claimed it while
\* the body was read loses it without being told.
TakeOver(t) ==
  /\ slot # NoLoop
  /\ Start(t, FALSE)
  /\ \E told \in BOOLEAN :
       loop' = [loop EXCEPT ![slot].aborted = @ \/ told, ![t] = Begun(FALSE)]

\* /agent/abort releases the slot; overlay, steer, stop tool, watchers and the
\* approval gate only signal.
AbortTurn(t) ==
  /\ loop[t].at # "off" /\ ~loop[t].aborted
  /\ loop' = [loop EXCEPT ![t].aborted = TRUE]
  /\ slot' \in {slot, IF slot = t THEN NoLoop ELSE slot}
  /\ UNCHANGED <<messages, calls, ran, started>>

-----------------------------------------------------------------------------
(* The end of the loop.                                                     *)

\* The final text stands for its answer, with instead of what calls.
FinalText(r) == <<[Assistant(<<>>) EXCEPT !.instead = ToSet(r.results)]>>
Results(r) == [i \in DOMAIN r.results |-> Result(r.results[i])]
\* A mutant: every call of an answer is kept, answered or not.
ProjectedWhole(r) ==
  IF r.final /\ Spoken(r.text) THEN FinalText(r)
  ELSE IF r.calls = <<>> THEN <<>> ELSE <<Assistant(r.calls)>> \o Results(r)
\* projectFinalOnlyHistory: the final text, or the calls that had a result with them.
Projected(r) ==
  IF r.final /\ Spoken(r.text) THEN FinalText(r)
  ELSE IF r.results = <<>> THEN <<>> ELSE <<Assistant(r.results)>> \o Results(r)

History(x) == FlattenSeq([i \in 1..Len(x.records) |-> Projected(x.records[i])])

\* A mutant: an aborted turn leaves nothing.
WriteUnlessAborted(x) == messages' = IF x.tick \/ x.aborted THEN messages ELSE messages \o History(x)
\* The finally of runAgentLoopPi, on whatever array the turn was given.
WriteBack(x) == messages' = IF x.tick THEN messages ELSE messages \o History(x)

\* The loop and its turn are over, with x the turn as it is then.
End(t, x) ==
  /\ WriteBack(x)
  /\ loop' = [loop EXCEPT ![t] = IdleLoop]
  /\ slot' = IF slot = t THEN NoLoop ELSE slot
  /\ UNCHANGED <<calls, ran, started>>

StepCap(x) == IF x.nudged THEN RetrySteps ELSE MaxSteps

\* The next round of the phase: ask again, unless aborted or out of steps.
Again(t, x) ==
  IF x.aborted \/ x.count >= StepCap(x)
  THEN End(t, x)
  ELSE /\ loop' = [loop EXCEPT ![t] = [x EXCEPT !.at = "asking", !.idle = 0]]
       /\ UNCHANGED <<messages, slot, calls, ran, started>>

-----------------------------------------------------------------------------
(* A step: the model's answer, its tools, onStepFinish.                      *)

NewCalls(n) == [i \in 1..n |-> calls + i]

\* The answer is counted and joins the transcript.
Asked(x, ids, text, more) ==
  [x EXCEPT !.count = @ + 1,
            !.sent = Append(@, Assistant(ids)),
            !.records = Append(@, Record(ids, text, more))]

\* A mutant: an answer without content does not count as a step.
EmptyFree(t) == Again(t, loop[t])
\* Nothing to keep and nothing to run: the same transcript is sent again, at once.
EmptyAnswer(t) == Again(t, [loop[t] EXCEPT !.count = @ + 1])

\* completeWithIdleTimeout returns an answer.  Its tools run one after the other; the
\* model may call tools in an answer that ends the turn (more: stopReason = "toolUse").
Answer(t) ==
  /\ loop[t].at = "asking" /\ ~loop[t].aborted
  /\ \E n \in 0..2, text \in Text, more \in BOOLEAN :
       /\ calls' = calls + n /\ calls' <= MaxCalls
       /\ n = 0 => ~more
       /\ n > 0 => text \in {"none", "plain"}
       /\ more => text = "none"
       /\ IF n = 0 /\ text = "none" THEN EmptyAnswer(t)
          ELSE LET x == Asked(loop[t], NewCalls(n), text, more)
               IN /\ loop' = [loop EXCEPT ![t] =
                                [x EXCEPT !.at = IF n = 0 THEN "step" ELSE "tool",
                                          !.todo = NewCalls(n)]]
                  /\ ran' = IF n = 0 \/ x.tick THEN ran ELSE ran \cup {calls + 1}
                  /\ UNCHANGED <<messages, slot, started>>

\* The stream is silent for LLM_STREAM_IDLE_MS: the request is made again, a few times.
Idle(t) ==
  /\ loop[t].at = "asking" /\ loop[t].idle < MaxIdle
  /\ loop' = [loop EXCEPT ![t].idle = @ + 1]
  /\ UNCHANGED <<messages, slot, calls, ran, started>>

\* A provider error, the last idle timeout, or the abort of the turn.
NoAnswer(t) ==
  /\ loop[t].at = "asking"
  /\ End(t, loop[t])

\* dispatch returns, with a result or an error envelope: the next call, unless aborted.
ToolReturns(t) ==
  /\ loop[t].at = "tool"
  /\ LET c == Head(loop[t].todo)
         rest == IF loop[t].aborted THEN <<>> ELSE Tail(loop[t].todo)
         last == Len(loop[t].records)
     IN /\ loop' = [loop EXCEPT ![t].sent = Append(@, Result(c)),
                                ![t].records[last].results = Append(@, c),
                                ![t].todo = rest,
                                ![t].at = IF rest = <<>> THEN "step" ELSE "tool"]
        /\ ran' = IF rest = <<>> \/ loop[t].tick THEN ran ELSE ran \cup {Head(rest)}
  /\ UNCHANGED <<messages, slot, calls, started>>

\* D-12 and D-22: the turn announced an action, or fell silent after a few steps, and
\* has not been nudged yet.
Narrated(x) == Last(x.records).calls = <<>> /\ Last(x.records).text = "hook"
Stalled(x) ==
  /\ Last(x.records).calls = <<>>
  /\ x.count <= StallThreshold
  /\ \E i \in DOMAIN x.records : x.records[i].calls # <<>>
NudgeDue(x) == ~x.nudged /\ (Narrated(x) \/ Stalled(x))
Nudged(x) == [x EXCEPT !.nudged = TRUE, !.count = 0, !.sent = Append(@, User)]
Final(x) == [x EXCEPT !.records[Len(x.records)].final = TRUE]

\* onStepFinish has returned: an answer that called tools in order to go on goes on,
\* any other is the last, or the reason for a nudge.
StepFinished(t) ==
  /\ loop[t].at = "step"
  /\ LET x == loop[t] IN
       IF x.aborted THEN End(t, x)
       ELSE IF Last(x.records).more THEN Again(t, x)
       ELSE IF NudgeDue(x) THEN Again(t, Nudged(x))
       ELSE End(t, Final(x))

\* onStepFinish throws (the audit file, the workflow controller).
StepFails(t) ==
  /\ loop[t].at = "step"
  /\ End(t, loop[t])

\* What the turn waits for has come, or has not come in time.
Step(t) ==
  \/ Idle(t) \/ NoAnswer(t) \/ Answer(t)
  \/ ToolReturns(t)
  \/ StepFinished(t) \/ StepFails(t)

LoopNext == \E t \in Loops : StartFree(t) \/ TakeOver(t) \/ AbortTurn(t) \/ Step(t)

LoopSpec == LoopInit /\ [][LoopNext]_loopVars

(* What a turn waits for outside its tools does not stay away for ever: the    *)
(* idle timer ends a silent stream, the watchers one that only talks.  Nothing *)
(* is assumed of a tool: the calls of a client that boots, and the raw input    *)
(* calls of the type tool, have neither deadline nor signal.                   *)
LoopFairness == \A t \in Loops : WF_loopVars(Step(t) /\ loop[t].at # "tool")
LoopLiveSpec == LoopSpec /\ LoopFairness

-----------------------------------------------------------------------------
(* Properties.                                                              *)

Msg == [role : {"user", "assistant", "tool"}, calls : Seq(Nat), instead : SUBSET Nat]
PhaseRecord ==
  [calls : Seq(Nat), text : Text, more : BOOLEAN, results : Seq(Nat), final : BOOLEAN]
LoopState ==
  [at : {"off", "asking", "tool", "step"}, tick : BOOLEAN, aborted : BOOLEAN, sent : Seq(Msg),
   records : Seq(PhaseRecord), todo : Seq(Nat), count : Nat, nudged : BOOLEAN, idle : Nat]

\* Types of the shared history, of the turns and of the slot.
LoopTypeOK ==
  /\ messages \in Seq(Msg)
  /\ loop \in [Loops -> LoopState]
  /\ slot \in Loops \cup {NoLoop} /\ (slot # NoLoop => loop[slot].at # "off")
  /\ calls \in Nat /\ ran \subseteq Nat /\ started \in Nat

\* The calls of an answer are followed by their results, each of them, in order and
\* nowhere else: a provider refuses any other transcript.
Matched(s) ==
  \A i \in DOMAIN s :
    /\ s[i].role = "assistant" =>
         \A k \in DOMAIN s[i].calls :
           i + k <= Len(s) /\ s[i + k].role = "tool" /\ s[i + k].calls = <<s[i].calls[k]>>
    /\ s[i].role = "tool" =>
         \E j \in 1..(i - 1) : s[j].role = "assistant" /\ i - j \in DOMAIN s[j].calls
Unique(s) == \A i, j \in DOMAIN s : s[i].role = "tool" /\ s[i] = s[j] => i = j

\* However turns overlap, are aborted and fail, every transcript sent to the model,
\* and the history later turns start from, is well paired.
TranscriptsMatched ==
  /\ Matched(messages) /\ Unique(messages)
  /\ \A t \in Loops : loop[t].at = "asking" => Matched(loop[t].sent) /\ Unique(loop[t].sent)

\* The call is in the history, or stands behind a final text that is.
InHistory(c) ==
  \E i \in DOMAIN messages : \/ messages[i].role = "tool" /\ messages[i].calls = <<c>>
                             \/ c \in messages[i].instead
Carried(c) ==
  \E t \in Loops : \/ loop[t].at = "tool" /\ c = Head(loop[t].todo)
                   \/ \E i \in DOMAIN loop[t].records : c \in ToSet(loop[t].records[i].results)

\* No tool that ran is forgotten: its turn still carries it, or left it to the history,
\* whether it ended, failed, ran out of steps or was aborted in the middle of an answer.
RunsAreRemembered == \A c \in ran : Carried(c) \/ InHistory(c)

\* Every turn ends, whatever the model answers, since each round counts against the
\* steps; or one of its tools never returns, and not even its abort ends it.
EveryTurnEnds ==
  \A t \in Loops : []<>(loop[t].at = "off") \/ <>[](loop[t].at = "tool")
=============================================================================
