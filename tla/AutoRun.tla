------------------------------- MODULE AutoRun -------------------------------
(***************************************************************************)
(* The life of an Auto run: the auto_runs rows of the sales database, the   *)
(* in-memory pointer ServeState.autoRunId, and the agent turns that open,   *)
(* close and report runs.                                                   *)
(*                                                                          *)
(* Closers: the cron tick (app/backend/cron.ts), the teardown of every turn *)
(* (turn/runOne.ts, turn/reaper.ts), the interval reapers (index.ts), the   *)
(* agent's start_auto_run / end_auto_run tools, and the operator's          *)
(* /workflow/cancel.  Each close should show the operator one               *)
(* "auto-run-completed" frame; who emits it depends on who closes.          *)
(*                                                                          *)
(* JavaScript runs a handler to its next await, so an action below is one   *)
(* await-free stretch.  Left out: cronEnabled and the due jobs (a tick they *)
(* stop changes nothing here), the text of prompts, counters and summaries. *)
(***************************************************************************)
EXTENDS Naturals, FiniteSets

CONSTANTS
  Turns,            \* turn executions that may overlap (identities are reused)
  NoTurn,           \* currentTurn = null
  MaxRuns,          \* bound: rows inserted
  MaxRestarts,      \* bound: sidecar restarts
  NoProgressLimit,  \* resolveCronNoProgressLimit()
  KillCap,          \* WATCHDOG_KILL_CAP
  Env               \* what the surroundings may do, a subset of EnvKinds

EnvKinds == {"cancelMidTurn", "ledgerFailure", "staleStart", "reopen", "restart"}

ASSUME AutoRunAssumption ==
  /\ NoTurn \notin Turns
  /\ MaxRuns \in Nat \ {0}
  /\ MaxRestarts \in Nat
  /\ NoProgressLimit \in Nat \ {0}
  /\ KillCap \in Nat \ {0}
  /\ Env \subseteq EnvKinds

RunId == 1..MaxRuns
NoRun == 0

Ended == {"completed", "stopped_by_user", "stopped_by_agent", "blocked"}
Status == {"absent", "running"} \union Ended

VARIABLES
  run,          \* auto_runs: [status, ended (ended_at is set), age]
  inserted,     \* how many rows exist; ids are handed out in this order
  autoRunId,    \* ServeState.autoRunId
  turns,        \* the turn executions
  currentTurn,  \* ServeState.currentTurn
  npRun,        \* ServeState.cronNoProgressRunId
  npTurns,      \* ServeState.cronNoProgressTurns
  kills,        \* watchdog-kills.jsonl markers newer than the latest row
  restarts,     \* bound on restarts
  closerFrames, \* auto-run-completed frames sent by the code that ended the row
  cronFrames    \* ... sent later by cron's post-turn handler

rowVars == <<run, inserted>>
frameVars == <<closerFrames, cronFrames>>
npVars == <<npRun, npTurns>>
procVars == <<kills, restarts>>
vars == <<run, inserted, autoRunId, turns, currentTurn, npRun, npTurns, kills,
          restarts, closerFrames, cronFrames>>

(* Age of a row against its max_duration_minutes M: "within" is below M     *)
(* minutes, "due" is M minutes up to M+1 (every closer but cron's tick acts *)
(* on it), "over" is M+1 minutes and more (Math.floor(minutes) > M).        *)
Ages == {"within", "due", "over"}
Older(a) == IF a = "within" THEN "due" ELSE "over"

(* A turn: "idle" is an unused identity, "loop" is inside runAgentLoopPi,   *)
(* "post" is a cron turn whose runOneTurn returned and whose post-turn      *)
(* handler has not run.  unreported holds the rows this turn's end_auto_run *)
(* calls ended and no onStepFinish has looked at yet.                       *)
TurnState == [at : {"idle", "loop", "post"}, cron : BOOLEAN, aborted : BOOLEAN,
              hang : BOOLEAN, unreported : SUBSET RunId]
IdleTurn == [at |-> "idle", cron |-> FALSE, aborted |-> FALSE, hang |-> FALSE,
             unreported |-> {}]
LoopTurn(isCron) == [IdleTurn EXCEPT !.at = "loop", !.cron = isCron]

Running == {r \in RunId : run[r].status = "running"}
\* getCurrentAutoRun: the running row started last.
IsCurrent(r) == r \in Running /\ \A q \in Running : q <= r
PastCap(r) == run[r].age # "within"
InLoop == {t \in Turns : turns[t].at = "loop"}
Executing == {t \in Turns : turns[t].at # "idle"}

Abort(ts, t) == IF t = NoTurn THEN ts ELSE [ts EXCEPT ![t].aborted = TRUE]
Release(t) == IF currentTurn = t THEN NoTurn ELSE currentTurn

-----------------------------------------------------------------------------
(* The rows.                                                                *)

Fresh == [status |-> "running", ended |-> FALSE, age |-> "within"]

\* Nothing reads the age of a row that stopped running: it goes back to "within".
Stopped(s, hasEnd) == [status |-> s, ended |-> hasEnd, age |-> "within"]

EndRow(rows, r, s) == IF rows[r].ended THEN rows
                      ELSE [rows EXCEPT ![r] = Stopped(s, TRUE)]

InsertRow(rows) ==
  /\ inserted < MaxRuns
  /\ run' = [rows EXCEPT ![inserted + 1] = Fresh]
  /\ inserted' = inserted + 1
  /\ kills' = 0
  /\ UNCHANGED restarts

\* A mutant: the close is reported and left to the teardown of the aborted turn.
ReportOnly(r, s) ==
  /\ closerFrames' = [closerFrames EXCEPT ![r] = @ + 1]
  /\ autoRunId' = NoRun
  /\ UNCHANGED <<run, inserted, cronFrames>>
\* endAutoRun of the current row r, then "if (!alreadyEnded) emit; autoRunId = null".
CloseAndReport(r, s) ==
  /\ run' = EndRow(run, r, s)
  /\ closerFrames' = IF run[r].ended THEN closerFrames
                     ELSE [closerFrames EXCEPT ![r] = @ + 1]
  /\ autoRunId' = NoRun
  /\ UNCHANGED <<inserted, cronFrames>>

KeepRows == UNCHANGED <<run, inserted, autoRunId, closerFrames, cronFrames>>

Init ==
  /\ run = [r \in RunId |-> [status |-> "absent", ended |-> FALSE, age |-> "within"]]
  /\ inserted = 0
  /\ autoRunId = NoRun
  /\ turns = [t \in Turns |-> IdleTurn]
  /\ currentTurn = NoTurn
  /\ npRun = NoRun
  /\ npTurns = 0
  /\ kills = 0
  /\ restarts = 0
  /\ closerFrames = [r \in RunId |-> 0]
  /\ cronFrames = [r \in RunId |-> 0]

-----------------------------------------------------------------------------
(* Turns: who holds the slot, and how a turn leaves it.                     *)

Claim(t, isCron) ==
  /\ turns[t].at = "idle"
  /\ currentTurn' = t
  /\ \/ turns' = [turns EXCEPT ![t] = LoopTurn(isCron)]
     \* runOneTurn without a model returns before its try/finally
     \/ isCron /\ turns' = [turns EXCEPT ![t] = [LoopTurn(TRUE) EXCEPT !.at = "post"]]

\* Any operator-side start: /agent/turn claims the slot unconditionally after
\* its await, the other routes only when it is free.
OperatorClaim(t) ==
  /\ Claim(t, FALSE)
  /\ KeepRows
  /\ UNCHANGED <<npVars, procVars>>

\* /agent/abort, and the head of /agent/turn: abort and free the slot at once.
ForceRelease ==
  /\ currentTurn # NoTurn
  /\ turns' = Abort(turns, currentTurn)
  /\ currentTurn' = NoTurn
  /\ KeepRows
  /\ UNCHANGED <<npVars, procVars>>

\* The overlay's abort and /agent/auto/stop: signal only.
SignalAbort ==
  /\ currentTurn # NoTurn
  /\ turns' = Abort(turns, currentTurn)
  /\ KeepRows
  /\ UNCHANGED <<currentTurn, npVars, procVars>>

\* A mutant: the watcher looks at state.autoRunId, which operator runs never set.
CapWatchTracked(t) ==
  /\ turns[t].at = "loop"
  /\ ~turns[t].aborted
  /\ \E r \in RunId : IsCurrent(r) /\ PastCap(r) /\ autoRunId = r
  /\ turns' = Abort(turns, t)
  /\ KeepRows
  /\ UNCHANGED <<currentTurn, npVars, procVars>>
\* capWatcher, every 15 s of a turn.
CapWatch(t) ==
  /\ turns[t].at = "loop"
  /\ ~turns[t].aborted
  /\ \E r \in RunId : IsCurrent(r) /\ PastCap(r)
  /\ turns' = Abort(turns, t)
  /\ KeepRows
  /\ UNCHANGED <<currentTurn, npVars, procVars>>

\* silentHangWatcher and toolProgressWatcher.
HangWatch(t) ==
  /\ turns[t].at = "loop"
  /\ ~turns[t].aborted
  /\ turns' = [turns EXCEPT ![t].aborted = TRUE, ![t].hang = TRUE]
  /\ KeepRows
  /\ UNCHANGED <<currentTurn, npVars, procVars>>

-----------------------------------------------------------------------------
(* Tool calls of a turn.  The loop looks at the abort signal before each.   *)

ToolMayRun(t) == turns[t].at = "loop" /\ ~turns[t].aborted

\* end_auto_run on a row the agent knows.  The tool body has no emitter.
EndTool(t, r, s) ==
  /\ ToolMayRun(t)
  /\ s \in {"completed", "stopped_by_agent", "blocked"}
  /\ run[r].status # "absent"
  /\ run' = EndRow(run, r, s)
  /\ turns' = IF run[r].ended THEN turns
              ELSE [turns EXCEPT ![t].unreported = IF turns[t].cron THEN @ ELSE @ \union {r}]
  /\ UNCHANGED <<inserted, autoRunId, currentTurn, npVars, procVars, frameVars>>

\* A mutant: start_auto_run does not look for a running row.
StartAlways(t) ==
  /\ ToolMayRun(t)
  /\ InsertRow(run)
  /\ UNCHANGED <<autoRunId, turns, currentTurn, npVars, frameVars>>
\* start_auto_run: resumes a row within its cap, replaces one past it.
StartTool(t) ==
  /\ ToolMayRun(t)
  /\ "reopen" \in Env \/ ~turns[t].cron
  /\ \/ /\ Running = {}
        /\ InsertRow(run)
     \/ \E r \in RunId :
          /\ IsCurrent(r) /\ PastCap(r)
          /\ "staleStart" \in Env
          /\ InsertRow(EndRow(run, r, "stopped_by_agent"))
  /\ UNCHANGED <<autoRunId, turns, currentTurn, npVars, frameVars>>

\* click.ts: the connect went out and its ledger row could not be written.
\* The row is marked blocked with ended_at still null.
LedgerFailure(t) ==
  /\ "ledgerFailure" \in Env
  /\ turns[t].at = "loop"
  /\ \E r \in RunId : IsCurrent(r) /\ run' = [run EXCEPT ![r] = Stopped("blocked", FALSE)]
  /\ UNCHANGED <<inserted, autoRunId, turns, currentTurn, npVars, procVars, frameVars>>

\* onStepFinish after the calls of a step: an operator turn reports the rows its
\* end_auto_run ended; an approval gate may abort the turn (and overwrite the
\* reason a watcher left).
StepFinish(t) ==
  /\ turns[t].at = "loop"
  /\ closerFrames' = [r \in RunId |->
       closerFrames[r] + (IF r \in turns[t].unreported THEN 1 ELSE 0)]
  /\ autoRunId' = IF turns[t].unreported = {} THEN autoRunId ELSE NoRun
  /\ \E gate \in BOOLEAN :
       turns' = [turns EXCEPT ![t].unreported = {},
                              ![t].aborted = @ \/ gate,
                              ![t].hang = @ /\ ~gate]
  /\ UNCHANGED <<rowVars, cronFrames, currentTurn, npVars, procVars>>

-----------------------------------------------------------------------------
(* The end of a turn.                                                       *)

\* A mutant: the teardown reports a row that cron's post-turn handler will
\* report as well (the !cronWillEmit guard is lost).
EmitAnyway(t, r) ==
  /\ closerFrames' = [closerFrames EXCEPT ![r] = @ + 1]
  /\ UNCHANGED autoRunId
\* "const cronWillEmit = isCronTurn && state.autoRunId === run.id"
EmitUnlessCron(t, r) ==
  IF turns[t].cron /\ autoRunId = r
  THEN UNCHANGED <<closerFrames, autoRunId>>
  ELSE /\ closerFrames' = [closerFrames EXCEPT ![r] = @ + 1]
       /\ autoRunId' = NoRun

\* The finally of runOneTurn: reapExpiredAutoRun, then the hang closer.
\* For a turn that is not cron's, its owner then frees the slot.
LoopExit(t) ==
  /\ turns[t].at = "loop"
  /\ turns[t].unreported = {}
  /\ \/ \E r \in RunId :
          /\ IsCurrent(r)
          /\ PastCap(r) \/ turns[t].hang
          /\ run' = EndRow(run, r, "stopped_by_agent")
          /\ EmitUnlessCron(t, r)
     \/ /\ \A r \in RunId : IsCurrent(r) => ~PastCap(r) /\ ~turns[t].hang
        /\ UNCHANGED <<run, closerFrames, autoRunId>>
  /\ IF turns[t].cron
     THEN turns' = [turns EXCEPT ![t].at = "post"] /\ UNCHANGED currentTurn
     ELSE turns' = [turns EXCEPT ![t] = IdleTurn] /\ currentTurn' = Release(t)
  /\ UNCHANGED <<inserted, cronFrames, npVars, procVars>>

-----------------------------------------------------------------------------
(* Cron.                                                                    *)

\* tick() up to runOneTurn.
CronTick(t) ==
  /\ currentTurn = NoTurn
  /\ Claim(t, TRUE)
  /\ \/ \E r \in RunId :
          /\ IsCurrent(r)
          /\ IF run[r].age = "over"
             THEN /\ InsertRow(EndRow(run, r, "stopped_by_agent"))
                  /\ closerFrames' = [closerFrames EXCEPT ![r] = @ + 1]
                  /\ autoRunId' = inserted + 1
             ELSE /\ autoRunId' = r
                  /\ UNCHANGED <<rowVars, procVars, closerFrames>>
     \/ /\ Running = {}
        /\ InsertRow(run)
        /\ autoRunId' = inserted + 1
        /\ UNCHANGED closerFrames
  /\ UNCHANGED <<cronFrames, npVars>>

\* The no-progress counter: reset on another run or on progress, held in a
\* cooldown wait, otherwise one more; at the limit the run is closed.
NoProgressStep(r) ==
  \/ /\ npRun # r
     /\ npRun' = r /\ npTurns' = 0
     /\ UNCHANGED <<run, autoRunId, closerFrames>>
  \/ /\ npRun = r   \* progress this tick
     /\ npTurns' = 0
     /\ UNCHANGED <<run, autoRunId, closerFrames, npRun>>
  \/ /\ npRun = r   \* cooldown
     /\ UNCHANGED <<run, autoRunId, closerFrames, npVars>>
  \/ /\ npRun = r
     /\ npTurns + 1 < NoProgressLimit
     /\ npTurns' = npTurns + 1
     /\ UNCHANGED <<run, autoRunId, closerFrames, npRun>>
  \/ /\ npRun = r
     /\ npTurns + 1 >= NoProgressLimit
     /\ npRun' = NoRun /\ npTurns' = 0
     /\ run' = EndRow(run, r, "stopped_by_agent")
     /\ closerFrames' = IF run[r].ended THEN closerFrames
                        ELSE [closerFrames EXCEPT ![r] = @ + 1]
     /\ autoRunId' = NoRun

\* A mutant: the handler reports but does not clear state.autoRunId.
KeepPointer ==
  /\ cronFrames' = [cronFrames EXCEPT ![autoRunId] = @ + 1]
  /\ UNCHANGED autoRunId
\* "Agent called end_auto_run during the turn": report the tracked row.
ReportTracked ==
  /\ cronFrames' = [cronFrames EXCEPT ![autoRunId] = @ + 1]
  /\ autoRunId' = NoRun

\* tick() after runOneTurn: report a close the turn made, and free the slot.
CronPost(t) ==
  /\ turns[t].at = "post"
  /\ \/ \E r \in RunId : IsCurrent(r) /\ NoProgressStep(r) /\ UNCHANGED cronFrames
     \/ /\ Running = {} /\ autoRunId # NoRun
        /\ ReportTracked
        /\ UNCHANGED <<run, closerFrames, npVars>>
     \/ /\ Running = {} /\ autoRunId = NoRun
        /\ UNCHANGED <<run, autoRunId, frameVars, npVars>>
  /\ turns' = [turns EXCEPT ![t] = IdleTurn]
  /\ currentTurn' = Release(t)
  /\ UNCHANGED <<inserted, procVars>>

-----------------------------------------------------------------------------
(* The operator, the interval reapers, time, and the process.               *)

\* /workflow/cancel.
WorkflowCancel ==
  /\ "cancelMidTurn" \in Env \/ Executing = {}
  /\ turns' = Abort(turns, currentTurn)
  /\ \/ \E r \in RunId :
          /\ IsCurrent(r)
          /\ CloseAndReport(r, "stopped_by_user")
     \/ /\ \A r \in RunId : ~IsCurrent(r)
        /\ autoRunId' = NoRun
        /\ UNCHANGED <<rowVars, frameVars>>
  /\ UNCHANGED <<currentTurn, npVars, procVars>>

\* reapOrphanIfIdle: audit.jsonl untouched for 360 s (any state of the turns can
\* show that: one step may sleep longer), then reapExpiredAutoRun(isCronTurn = false).
OrphanReap ==
  /\ \E r \in RunId : /\ IsCurrent(r) /\ PastCap(r)
                      /\ CloseAndReport(r, "stopped_by_agent")
  /\ UNCHANGED <<turns, currentTurn, npVars, procVars>>

\* reapKillCappedRun.
KillCapReap ==
  /\ kills > 0
  /\ \/ \E r \in RunId : /\ IsCurrent(r) /\ kills >= KillCap
                         /\ CloseAndReport(r, "stopped_by_agent")
     \/ Running = {} /\ KeepRows
  /\ kills' = 0
  /\ UNCHANGED <<restarts, turns, currentTurn, npVars>>

Elapse(r) ==
  /\ r \in Running
  /\ run[r].age # "over"
  /\ run' = [run EXCEPT ![r].age = Older(@)]
  /\ UNCHANGED <<inserted, autoRunId, turns, currentTurn, npVars, procVars, frameVars>>

\* The sidecar dies (crash or watchdog kill) and a new one boots: rows and
\* kill markers survive, everything in memory is lost.
Restart ==
  /\ "restart" \in Env
  /\ restarts < MaxRestarts
  /\ restarts' = restarts + 1
  /\ \E killed \in BOOLEAN : kills' = IF killed THEN kills + 1 ELSE kills
  /\ autoRunId' = NoRun
  /\ turns' = [t \in Turns |-> IdleTurn]
  /\ currentTurn' = NoTurn
  /\ npRun' = NoRun /\ npTurns' = 0
  /\ UNCHANGED <<rowVars, frameVars>>

Next ==
  \/ \E t \in Turns :
       \/ OperatorClaim(t) \/ CapWatch(t) \/ HangWatch(t) \/ StartTool(t)
       \/ \E r \in RunId, s \in Ended : EndTool(t, r, s)
       \/ LedgerFailure(t) \/ StepFinish(t) \/ LoopExit(t)
       \/ CronTick(t) \/ CronPost(t)
  \/ ForceRelease \/ SignalAbort \/ WorkflowCancel
  \/ OrphanReap \/ KillCapReap \/ Restart
  \/ \E r \in RunId : Elapse(r)

Spec == Init /\ [][Next]_vars

(* Fair are the clock, the cap watcher, cron's continuation, and the 60 s    *)
(* reaper interval while every turn in its loop was told to stop: one that   *)
(* has not ended is kept in a tool and writes nothing to audit.jsonl.  Not   *)
(* fair: the turns, also those told to stop (a tool may never return), the   *)
(* operator, cron ticks, failures.                                           *)
Fairness ==
  /\ \A r \in RunId : WF_vars(Elapse(r))
  /\ \A t \in Turns : WF_vars(CapWatch(t)) /\ WF_vars(CronPost(t))
  /\ WF_vars((\A t \in InLoop : turns[t].aborted) /\ OrphanReap)

LiveSpec == Spec /\ Fairness

-----------------------------------------------------------------------------
(* Properties.                                                              *)

\* A row with ended_at set has a final status, and rows exist up to inserted.
RowShape == \A r \in RunId : /\ run[r].ended => run[r].status \in Ended
                             /\ run[r].status = "absent" <=> r > inserted

\* Every variable keeps its type (the shape of ServeState and of an auto_runs row).
TypeOK ==
  /\ run \in [RunId -> [status : Status, ended : BOOLEAN, age : Ages]]
  /\ inserted \in 0..MaxRuns
  /\ autoRunId \in RunId \union {NoRun}
  /\ turns \in [Turns -> TurnState]
  /\ currentTurn \in Turns \union {NoTurn}
  /\ npRun \in RunId \union {NoRun}
  /\ npTurns \in Nat
  /\ kills \in Nat
  /\ restarts \in 0..MaxRestarts
  /\ closerFrames \in [RunId -> Nat]
  /\ cronFrames \in [RunId -> Nat]
  /\ RowShape

\* At most one auto_runs row is 'running': both insertAutoRun call sites (cron.ts
\* tick, start_auto_run) decide on getCurrentAutoRun, which looks at one row only.
AtMostOneRunning == \A q, r \in Running : q = r

\* The operator is never told that a run completed while its row still
\* authorizes outbound clicks (status 'running').
NoFrameWhileRunning ==
  \A r \in Running : closerFrames[r] = 0 /\ cronFrames[r] = 0

\* However turns, reapers, cancels and restarts interleave, the code that ended a
\* row reports it at most once and cron's deferred handler at most once.
OneFramePerReporter ==
  \A r \in RunId : closerFrames[r] <= 1 /\ cronFrames[r] <= 1

\* A row whose ended_at is set is final: no closer changes its outcome and
\* nothing makes it run again.
EndedForever ==
  [][\A r \in RunId : run[r].ended => run'[r] = run[r]]_vars

\* reaper.ts:7 "emit the completion frame EXACTLY ONCE in coordination with cron's
\* post-turn handler": a closed row has had one frame once no turn is executing,
\* and never has two.
ExactlyOnce ==
  \A r \in RunId :
    LET n == closerFrames[r] + cronFrames[r]
    IN /\ n <= 1
       /\ run[r].ended /\ Executing = {} => n = 1

\* Every run stops being 'running' (so stops authorizing outbound clicks) without
\* anyone asking: the cap watcher stops the turn that holds it up, and its teardown, or
\* the idle reaper if the turn is kept in a tool, closes the row.
RunEventuallyCloses ==
  \A r \in RunId : (r \in Running) ~> (r \notin Running)
=============================================================================
