# Frondose: models, checks and proofs

Frondose is a desktop sales agent for LinkedIn. A Tauri shell starts a Node sidecar; the sidecar
runs agent turns that drive Chrome over CDP, keeps a SQLite ledger and takes the operator's commands
over HTTP, an overlay in the page and Telegram. This directory holds TLA+ models of the sidecar's
and the shell's protocols, the TLC runs that check them and proofs that tlapm checks. Paths below are
relative to the repository's `src/` directory; `B/` stands for `src/app/backend/`.

## 1. Inventory

| Component | State | Operations | What makes it correct |
|---|---|---|---|
| Auto runs (`persistence/sales/auto-run.ts`, `B/cron.ts`, `B/turn/reaper.ts`, `B/turn/emitAutoRunCompleted.ts`, `B/routes/workflowCancel.ts`) | rows of `auto_runs`, `state.autoRunId`, no-progress counters, watchdog marks | cron tick and post-turn handler, turn teardown, orphan and kill-cap reapers, `start_auto_run`, `end_auto_run`, cancel, boot | one running row; ended rows are final; one completion frame per run; a run ends without being asked |
| Turn slot (`B/turnOwnership.ts`, `B/turn/*`, `B/routes/agent.ts`) | `state.currentTurn`, abort controllers | claims by routes, steer, Telegram, cron; force release, stop, teardown | the slot belongs to a live turn; a late teardown harms nobody |
| Agent loop (`agent/pi/loop.ts`, `agent/pi/messageAdapter.ts`, `agent/loop.ts`, `B/turn/triggers.ts`) | `state.messages`, each turn's transcript and records | ask, answer, run tools, nudge, idle retry, abort, fail, write back | transcripts stay paired; no tool that ran is forgotten; a turn ends |
| CDP client and session (`linkedin/session.ts`, `cdp/client.ts`, `overlay/host.ts`) | cached client, boot promise, abort signals | boot, raced calls, loss, click stages | no turn inherits another's abort; no raced call waits forever |
| Workflow controller (`agent/workflow/controller/*`) | plan, awaited step, approved ids | `todo_write`, `save_message_draft`, approve, decline, hand-off, cancel | only the operator approves, and is asked once |
| Outbound gate (`tools/browser/click.ts`, `B/index.ts`) | ledger rows, latch, mode | checks, click, ledger row, `record_auto_action` | cap, quota and cooldown hold; an uncounted send stops further connects and messages |
| Telegram channel (`B/telegramChannel.ts`, `B/index.ts`, `tools/telegram/*`, `persistence/telegramConfig.ts`) | offset on disk, batch, place in the loop | poll, download, turn, reply, commit, stop | every update is answered at least once, in order; nothing is repeated for free |
| Schedule (`persistence/schedule.ts`, `B/cron.ts`, `tools/cron`, `B/routes/agent.ts`, `B/routes/events.ts`) | records of `schedule.jsonl`, Auto's flag and its copy, clients, grace timer | tick, mark, start and stop of a session, loss of the stream | a planned instant is run once, none is skipped; a stopped session stays stopped; Auto does not go on unwatched |
| Watchdog and supervisor (`tauri/src-tauri/src/sidecar.rs`, `main.rs`, `persistence/paths.ts`) | child, published port, heartbeat file, shutdown flag | spawn, wait, watch, kill, respawn, give up, quit | one sidecar; its port is the one published; only a stuck turn is killed; a dead sidecar comes back |
| Updater (`tauri/src-tauri/src/updater.rs`, `update_notice.rs`) | update guard, stage; two journal slots, claim files | check, download, shutdown, install, relaunch; launch, commit, claim | no sidecar is left running behind a shutdown; a notice is shown once and not lost |
| Publish action (`linkedin/action/publishPost.ts`, `B/routes/workflow.ts`, `agent/workflow/runtime/*`, `persistence/sales/drafts.ts`) | drafts, steps bound to them, detached publishes | save, approve, decline, publish, mark sent, hand over | an approved draft is posted once, a declined one never |
| Composer (`linkedin/action/readiness.ts`, `publishPost.ts`, `tools/browser/type.ts`) | dialog, its text, each caller's place | open, clear, type, read back, enable, click, confirm | what is posted is the draft; what is called published was posted; a publish ends |
| Candidates and leads (`persistence/sales/*`) | rows | single statements | not modelled |
| Passive observation (`B/passive.ts`, `B/passiveRateLimit.ts`) | token buckets, profile cache | observe, consume, refill | the analysis rate stays bounded |
| Lock files (`persistence/processLock.ts`) | lock file | acquire, reap, release | one holder |
| Prompts, models, budgets; page logic; browser tools; memory, identity, search; configuration; audit; overlay and UI; shell | files, rows, pure functions | single calls | listed in `PROJECT.json` with the reason they are left out |

How they interact: every turn, whoever starts it, goes through the slot and runs tools one after the
other; tools use the session's client, the workflow controller sees the results of each step, the
click tool asks the controller or the running row before it sends and writes the ledger afterwards,
and the teardown of every turn looks after the runs. JavaScript interleaves only at awaits: the
interleavings that matter are two turns (an aborted turn is not gone until its tool returns, a
replaced one may run on for minutes), a turn and a route, a turn and a timer, and a turn and the
death of the process. The hard behaviours are listed at their lines under `hazards` in
`PROJECT.json`, with the property that watches each, or the reason why none does.

## 2. Plan

Done, in this order: `AutoRun` (who closes and who reports), `TurnSlot` (who owns what), `Workflow`
(who approves), `Outbound` (what is sent and counted), `Telegram` with its abstract specification
`Inbox`, `Schedule`, `Shell`, `UpdateNotice`, `Publish`, `Composer` and `AgentLoop`. All have proofs.

What would come next:

1. Compositions: `Outbound` with the gate of `Workflow` in place of its free approval; `Publish` with
   `Composer` in place of its step `filling`; `TurnSlot` in place of the foreign turns of `Telegram`
   and `Schedule`.
2. The counter of operator retries, and the passive rate limiter.

## 3. Modules

An action is one await-free stretch of the code. Every module starts with what it leaves out.

**AutoRun** (`MCAutoRun`, `AutoRun_proofs`). `run` holds the rows with status, `ended_at` and age;
the age against `max_duration_minutes` has three classes because cron's tick floors minutes and the
other closers do not. `turns` says where each turn is, whether it is cron's, aborted or hung, and
which rows its `end_auto_run` ended that no step has looked at. `CronTick` and `CronPost` are the
two halves of `tick`, `LoopExit` is the teardown with its reaper, `StepFinish` is `onStepFinish`
with `emitAutoRunCompletedOnEndAutoRun`, `Restart` is shutdown or death with the boot's reaping.
`Env` switches surroundings on one by one: an operator's cancel in the middle of a turn, ledger
failures, starts over a stale row, an agent that ends its run and starts another, restarts.

**TurnSlot** (`TurnSlot_proofs`). `currentTurn`, the session's owned signal and the signal the
client was given are kept apart, because the code copies them at different moments. `TurnRequest`
and `BodyRead` are the halves of `/agent/turn` around the await of its body; `Boot` to
`OverlayInstalled` are the stages of `getOrInitClient`; `MouseEvent` is one raced event of a click.
Turns refused for a missing API key are left out. One behaviour it has is worth a note: a click
whose turn is aborted between press and release, and whose slot is taken over first, races its
release against the new turn's signal and completes, although `cdp/client.ts:160` says it cannot.

**AgentLoop** (`TurnSlot_proofs`). The inside of a turn, which the other modules see only from outside.
`messages` is the shared history, `loop` holds each turn's transcript (`sent`) and its records, `slot` is
`currentTurn`. An answer is what the loop
does with it: how many calls, whether they let it go on, whether its text announces an action. `Answer`,
`ToolReturns` and `StepFinished` are `runPhase` from await to await, `Projected` is the projection of the
records that is kept, `End` the write-back in the `finally` and the release of the slot. A tick works on
its own messages. `ran` and `instead` are histories: which tools were started, and which calls a final
text took the place of.

**Workflow** (`MCWorkflow`, `Workflow_proofs`). `TodoWrite` is `reconcileTodoWrite` with the gate
and the completion that follow it; `SaveDraft` is `save_message_draft` with the made-up workflow and
the advance to its step; `Approve`, `Decline`, `Handoff`, `Forget` are the operator's. Step ids are
random in the code: a step takes any that are free. Two steps of a plan may share a title, since nothing
in `todoWriteSchema` forbids it; approvals then follow the title. `said` is a history of what the operator said
of the plan at hand; nothing in the actions reads it.

**Outbound** (`MCOutbound`, `Outbound_proofs`). `Gate` is the synchronous block of checks of the
click tool; `Answered` is the end of highlight, pointer and press, `RacedOut` a call that failed
with its outcome unknown; `Recorded` and `NotRecorded` are the ledger's two outcomes, `Owner` the
second reading of mode and run. `RecordAction` is an agent that counts for itself, as it is told not
to. The cooldown is a flag that a success row sets and time clears; the day's count ends with
`Midnight`. `sent` is a history. A draft's text, the note-less-invite check (it only refuses more),
posts (never counted) and how the target is found are left out; the approval outside Auto mode is
Workflow's and is granted at any time here.

**Telegram** (`MCTelegram`, `Inbox`, `Telegram_proofs`). One loop, so `pc` is its place: `Poll`
fetches a batch `cur .. last` and tells Telegram what to forget, `NextUpdate` to `CommitOffset` take
one update through downloads, turn, reply and commit. `Abandon` is every throw: the rest of the batch
is dropped and fetched again. `Fault` lets a request fail before or after Telegram accepted it, lets
the fallback address of `telegramFetch` deliver a text twice, and lets a write fail; `LoseOffset` is an
unreadable `telegram.json`. A fault passes; the answer to an update in `Refusable` may be refused at every
poll (`ok:false` at `B/index.ts:475-480`: chat blocked, text too long), and its turn is run again each time. Update ids are consecutive here: only their order matters. `Inbox` says what
the operator may rely on, with sets of messages worked on, answered and forgotten.

**Schedule** (`MCSchedule`, `Schedule_proofs`). `Tick` and `CronTurnEnds` are the two halves of the
tick around its turn; the mark that advances or removes a record reads the file again and comes last. A cron turn whose
slot is taken away goes on in the background and marks late. `SetCronMode` sets the flag in memory
always and `mode.json` if it can. Minute and hour of the expressions are evaluated as the code does, on
a small calendar.

**Shell** (`MCShell`, `Shell_proofs`). The tasks of the shell are `sup` (supervisor), `boot` (main's wait), `closing`
(the shutdowns of quit and updater) and `update`; they share `pid`, `port` and the shutdown flag as
atomics, and each action is one access. The sidecar is a process that starts, serves, hangs or dies by
itself. Timeouts may fire at any time. Heartbeats fail to be written and to be removed
(`persistence/paths.ts:85-92` swallows both); `stray` is a history: a removal failed and no
turn has written the heartbeat since. `closing[c].sure` records whether the shutdown read the pid while the
supervisor was not between its last look at the flag and the storing of a new pid.

**UpdateNotice** (`MCUpdateNotice`, `Shell_proofs`). The journal's two slots are states or
unreadable; a commit is four steps, between any two of which the instance may die or be refused. The
claim file is created before the journal forgets the notice. `spoilt` records that two instances were
up at once, which the code does not prevent.

**Publish** (`MCPublish`, `Publish_proofs`). Plans of post steps, the drafts on disk, the gate and the
detached publishes, each with its place. `Approve` is an approval: the HTTP one starts a publish when the
step has a draft or one can be recovered, and otherwise resumes the agent; the overlay's always resumes
the agent. `resumeWorkflowTurn` may lose its prompt when the turn before does not end in time. `tainted`
and `declined` are histories.

**Composer** (`MCComposer`, `Publish_proofs`). One composer, the callers that use it, and a stranger
(the operator or the page) who may type, close or open it. A text is a sequence of pieces, so that it
tells whose keystrokes it holds and whether one is missing. Calls may fail at any point, because they
race the abort of whatever turn is running. The Post button is a reference into the client's last snapshot
(`cdp/client.ts:255`): `Snapshot` is another tool's or publish's snapshot, after which the reference is
`outdated` and the click may hit another control (`ClickGoesAstray`, recorded in `astray`). The read-back is
exact here, while the code accepts the first 200 characters of a longer text (`composerReadiness.ts:127-133`).
`spoiled` records a touch between read-back and click,
against which the code has no means. `linkedin/action/connect.ts` has the same shape and no caller.

## 4. Runs

| Run | Instance | Question |
|---|---|---|
| `auto_run_any` | two overlapping turns, two rows, one restart, every surrounding | one running row, no early or repeated frame, whatever interleaves |
| `auto_run_once` | one turn at a time, three rows, no failures, fair | exactly one frame per run, and every run ends |
| `agent_loop` | two turns that may overlap, two rounds and one after a nudge, two tool calls, one idle retry | transcripts are paired, no run tool is forgotten, every turn ends that no tool keeps |
| `turn_slot` | holder, successor and zombie, two requests in flight | who holds the slot and whose signal is wired; the slot comes back |
| `workflow` | two step and two workflow titles, plans of one or two steps | no approval but the operator's, no outbound without it, no second question |
| `outbound` | two overlapping turns, a run capped at two and one at zero, quota of two | cap, quota, cooldown, latch |
| `telegram` | three updates, the last refused by the download, the answer to the second by Telegram, two faults, a restart, a foreign turn | implements `Inbox`; repeats are paid for; updates are answered unless a refusal lasts or a turn hangs |
| `schedule` | four records, two cron turns, one trouble, one foreign turn, one client | repeats are paid for, none skipped, stopped stays stopped, Auto is watched |
| `shell` | three sidecars, two turns, two updates, a quit, two troubles | one sidecar, true port, who is killed, what survives a shutdown, recovery |
| `update_notice` | two instances, two versions of which one is the bridge, generations up to five | shown once; the journal and a due notice survive |
| `publish` | two drafts, plans of one or two steps, two publishes | posted once, carried out once, declined is not pending |
| `composer` | two publishes of two pieces, one typist, one stranger, any number of snapshots | posts the draft, "published" is true, every publish ends |

Bounds. Two turns suffice for every pair of actors; `turn_slot` has three because a late teardown
needs a holder between the zombie and its successor. Two rows let a pointer disagree with a row;
`auto_run_once` has three to see the pointer move twice. Two plan steps give a step before and one
after the one in question. A cap and a quota of two let one connect be counted, one be under way and
one be checked. Three updates give one that is committed, one in hand and one that is never passed; two
faults let a repeat be repeated. Two-minute hours and two-hour days let a step of two skip a minute and a
horizon of two leaves a backlog of two instants. Three sidecars give the first, its replacement and the
replacement's, with two failures in a row as the limit; the updater's guard lets one caller through, so one
is enough. Two calls are one answer with two, cut off
between them, or one in each turn; two rounds let the loop go on and run out. Five generations let the journal be written from
both slots and run out. Two pieces per draft let a keystroke be lost first or last and a stranger's fall
between them; one round and one touch are enough because a round starts from any composer a touch leaves.
`MaxRows` and `MaxGrants` only stop counting, not acting; `MaxRuns`, `MaxRestarts`, `MaxBodies`,
`MaxFaults`, `MaxCalls`, `MaxTurns`, `MaxOther(s)`, `MaxTrouble`, `MaxUpdates`, `MaxTouches`, `MaxText` and `Horizon` stop the
action, and so do the finite sets of drafts, publishes, sidecars and updates. `CHECK_DEADLOCK FALSE`
stands where these bounds, or an agent that does nothing more, end a behaviour; `outbound` and `publish`
have no deadlock and none is excused.
Symmetry is over turns, instances and drafts only, which are compared for equality, and never in a run
with a liveness property. The `workflow` run identifies states by `MCView`, which forgets which ids
steps have but keeps the positions they refer to, whether they are approved and whether they are awaited.

Every property of a passing run has a mutant:
the definition as a plausible bug would have it, under which TLC finds the property violated. Some
safety properties except what a history variable marks: `tainted` (two publishes of one draft overlapped,
or the record of a post was lost), `spoiled` (a hand in the composer between read-back and click),
`astray` (a click on another snapshot's reference), `spoilt` (two application instances, or a slot damaged
from outside), `stray` (a heartbeat that could not be removed), `closing[c].sure` (a shutdown that met a
respawn half way). Each is a case the code has no means against, TLC reaches each, and the mutants show that
the properties still bite. A few bounds narrow a property: `watched` in `Schedule` is forgotten by a restart,
so that `NeverUnwatched` is about one process, and `outbound` has no daily cap of 0.

More seen while modelling, without a run of its own.

- Auto runs: `reaper.ts:31` calls it impossible that a cron turn's run and the tracked run differ, which
  an agent that ends its run and starts another brings about. The orphan reaper may close a cron turn's
  run in the middle of the turn, and the frame is lost when the agent then starts and ends another. A
  run blocked by a ledger failure is reported again by a later `end_auto_run`. A past-cap close inside
  `start_auto_run` is reported by nobody.
- Turn slot: a client that boots across an abort keeps the old signal, so that the next turn's first
  call fails; a Chrome that stops answering during the overlay's raw calls keeps the boot pending with
  no deadline; a click aborted between press and release completes under the next turn's signal although
  `cdp/client.ts:160` says it cannot.
- Agent loop: `agent/loop.ts:19` says that turns retain matched tool protocol and final text, but a last
  answer with text and calls (one cut off at the length limit, say) keeps only its text; `instead` marks
  these. `pi/loop.ts:204` records an aborted transcript "for the next turn", which may have started before
  the aborted turn ends and then does not know what it did. After an aborted turn, a retry still runs the
  prompt that failed before it: the loop turns an abort into a result, so that the reset at
  `B/turn/runOne.ts:371` is not reached.
- Workflow: a re-plan can start a completed step again, with its approval: `reconcile.ts:90` keeps the
  state only of a step the new plan calls pending, although the comment at line 78 says that a step
  whose prior counterpart was completed stays completed; a plan that replaces one whose
  gate is pending may wait without its own question; one approval covers both of two steps with one
  title. The rebuild of a continued plan drops the hand-off (`reconcile.ts:62`) although the hand-off's
  prompt promises it stays.
- Outbound: the latch of an uncounted send is asked for connects and messages only (`click.ts:427`), while
  the comments at 424 and 539 say that it blocks all further outbound of the session: posts and the invites a
  page sends without a modal (`connect_open`) pass it. Those invites are checked against the cap and never counted. A mode
  that leaves Auto between a click and its row counts the connect for no run, only for the day. The
  comment at `auto-run.ts:93` says 0 disables the daily cap while a cap of 0 rejects everything.
  `get_auto_run_state` counts the day from local midnight and the gate from UTC midnight.
- Telegram: an update whose download is refused is fetched for ever and holds up all later ones; one whose
  answer is refused does the same, and runs its turn at every poll. A slot
  that is taken at every poll starves the channel. Downloads do not listen to the channel's stop. A turn that fails or is aborted is answered and committed like any other.
- Schedule: `buildAutoSessionRecord` makes an interval of N minutes the step `*/N` of the minute field,
  which is matched modulo N within the hour: 45 fires at :00 and :45, and every interval from 60 to the
  accepted 1440 fires once an hour. After a pause every missed instant is run, a tick apart, while
  younger records wait.
- Shell: a sidecar that is ready only after main and supervisor stopped waiting never gets its port
  published (`sidecar.rs:97`). main's deadline can reset a port the supervisor has just published, until
  the next spawn. After a failed install `shutting_down` stays set: the app runs on without an agent, until
  a new try of the update or a new start. The supervisor looks at the flag at `sidecar.rs:311` and stores a new
  pid at 327: a shutdown in between finds none to kill, and the sidecar outlives the application or lives
  during the swap, against `sidecar.rs:162-163`, `206-207` and `updater.rs:245` ("no agent mid-swap"). A
  heartbeat that could not be removed grows old beside an idle sidecar, which the watchdog then kills. A
  stuck turn whose heartbeat another turn's teardown removed is never killed.
- Update notice: a death between claim and hand-out loses the notice for good. Overlapping instances can
  remove both slots.
- Publish: a `todo_write` that plans a declined step again keeps its draft (`reconcile.ts:56`), and
  `publishPost.ts:96` refuses only drafts that are already sent: the next approval posts the declined text
  and marks it sent, although `B/index.ts:240` retires it so that it "can never be marked sent later". The status is read at `publishPost.ts:96` and set after the click, so two publishes of one
  draft, which the recovery of a lone pending draft makes possible, post twice. After a publish the step stays approved, and
  a later click on Post in the same turn is authorized. When the store fails after the click the draft
  stays pending and may be posted again.
- Composer: once the click was dispatched its draft is marked sent, also when the release of the press
  was lost to an abort and nothing was posted; the outcome is then ambiguous. A click whose calls all
  returned but which hit another control, because a snapshot was taken after the one the publish found its
  button in, is called published as soon as the composer is gone.

## 5. Fairness

`AutoRun!Fairness`: rows grow older; the cap watcher, an interval, fires; cron's post-turn handler runs
after its turn; the reaper's interval fires when every turn in its loop was told to stop. A turn that was
told to stop finishes one more step at most; if it does not end it is kept in a tool, writes nothing to
`audit.jsonl`, and the reaper finds the file idle (passive analyses, which write there too, must be quiet for the
six minutes). Nothing is assumed of the turns themselves: a run closes also when a tool never returns.

`AgentLoop!LoopFairness`: what a turn waits for outside its tools comes or is given up. A silent stream is
ended by its idle timer, one that only talks or thinks by the watchers of the turn. Nothing is assumed of a
tool: most CDP calls are raced against a deadline and the turn's signal, but the overlay's calls of a boot
(`overlay/host.ts:10`) and the raw input calls of the type tool (`type.ts:162-175`, `361-379`) are not, and
a turn in one of them does not even end by its abort. `EveryTurnEnds` says that nothing else keeps a turn. The
operator and the model's choices are free.

`TurnSlot!LiveSpec`: an aborted turn or one that is done reaches its teardown when it is in no
tool (strong, because a tool may come and go), raced calls settle by answer, deadline or abort, and
a boot past its raw calls goes on. The raw calls of the overlay have neither deadline nor signal, so
nothing forces them: `SlotComesBack` is checked under `AnsweringSpec`, which adds that Chrome answers
them or drops the connection, and without that the boot, and with it the slot, may wait for ever. The raw
input calls of the type tool are no stage of their own in `TurnSlot`; the fairness of a turn's end assumes
the same answer of them.

`Telegram!Fairness`: the loop goes on by itself wherever it is not in a turn, because every other await in it is
a request with a timeout. Of turns nothing is assumed, nor of the operator, who may stop the channel for good,
nor of Telegram, which may refuse an answer for ever: `EveryUpdateAnswered` names these cases. Turns of other
sources are at most `MaxOther`: a slot taken at every poll would starve the channel.

`Shell!Spec`: the supervisor and the shutdowns are tasks of the runtime, whose every wait has a deadline.
Nothing is assumed of the sidecar. `Composer!Fairness`: each call of a publish goes on, since all its
calls on the client are raced and settle by answer, deadline or abort; a composer may refuse to open for ever.
Of the type tool nothing is assumed. A publish starts with a client that is connected.

`Workflow`, `Outbound`, `Schedule`, `UpdateNotice` and `Publish` promise nothing of the agent or the
operator and have no fairness. Progress of the schedule is not claimed: the oldest due record goes first,
so a backlog of one may starve the others.

## 6. Proofs

Each `*_proofs` module proves `Spec => []IInv` for an inductive `IInv` that implies the module's
invariants, one lemma per action, for any values of the constants that satisfy the module's named
assumption. `Publish_proofs` holds the proofs of `Composer` as well, `Shell_proofs` those of
`UpdateNotice`, `TurnSlot_proofs` those of `AgentLoop`.

- `AutoRun_proofs`: the invariants are not inductive, because a frame may be sent for a row whose
  end was seen earlier. `IInv` adds to the types `RowInv` (a running row is the only one and has no
  frame), `PointerInv` (the tracked row exists and cron has not reported it) and `UnreportedInv`
  (rows a turn has yet to report are ended, unreported and no other turn's). Theorems:
  `TypeCorrect`, `OneRunningRow`, `FramesFollowClose`, `NoRepeatedFrame`, and `EndIsFinal`, that an ended
  row never changes, which no run repeats. `ExactlyOnce` is only model-checked, for turns that do
  not overlap and an empty `Env`: a second turn, and each kind of `Env` alone, violates it in a small
  instance, as section 4 says of auto runs.
- `TurnSlot_proofs`, the slot: `TypeOK` and `HolderIsLive` are inductive together; `TeardownHarmless` follows
  for each step. Theorems: `TypeCorrect`, `SlotHeldByLiveTurn`, `TeardownHarmless`.
- `TurnSlot_proofs`, the loop of a turn: a transcript is paired only between the steps, and the history only
  because no call is in two places. `LoopInv` therefore says of each turn that its transcript together with
  the results still to come (`Answers(todo)`) is paired, unless it was aborted in a tool (`TurnOK`; such a
  transcript is never sent again), that each call belongs to one answer of one turn or to the history
  (`SharedOK`), that the next call id is known nowhere (`FreshOK`), and that what ran for the operator is
  carried by an operator's turn, not by a tick that will forget it (`RanOK`). `GoodConcat` is the lemma all
  rests on: paired transcripts without a call in common are paired when joined. That the whole projection is
  paired (`GoodFlatten`) is an induction over `FlattenSeq`, done as an argument about the shortest
  counterexample, because the induction theorems of the library are out of reach. Theorems:
  `LoopTypeCorrect`, `TranscriptsPair`, `NothingForgotten`.
- `Workflow_proofs`: `IInv` adds that ids are distinct, so that an id stands for one title whatever titles the
  steps share, that a hand-off is the operator's and that the awaited step is not approved yet. Theorems:
  `TypeCorrect`, `OnlyTheOperatorApproves`, `OutboundIsAuthorized`, `AskedOnce`.
- `Outbound_proofs`: each limit bounds what is counted, while a click is checked long before it is
  counted. `IInv` therefore bounds the sum of what is counted and what has passed the checks: a check
  sees less than the limit counted, and the clicks under way are at most the turns. It also says that
  rows are at least the connects counted and that nothing is counted for a run before it starts; the
  latch needs the same sum over clicks that have not reached the page. Theorems: `TypeCorrect`,
  `RunCapKept`, `DailyCapKept`, `CooldownKept`, `LatchKept`. With one turn at a time they say that
  the limits hold exactly.
- `Telegram_proofs`: `Ordered` says that neither the stored offset, nor the confirmed one, nor the
  batch's cursor has an unanswered update below it, which is what makes each step of the loop one of
  `Inbox` or a stutter: `ImplementsInbox`. For `NothingRepeatedFreely` the plain count is not inductive;
  `Account` also says which one turn and one answer beyond the faults an update still owes, and only
  the update in hand, or one below the offset, owes any. Theorems: `TypeCorrect`,
  `NothingRepeatedFreely`, `ImplementsInbox`.
- `Schedule_proofs`: a late mark turns the plan of a record back, so the bound on runs is not inductive.
  `BudgetOK` is an account per record and instant: the times it was run, once more if it is still to come
  (by the plan, or when the turn in the slot marks), and once for each turn left behind whose late mark
  would plan it again, are paid for by the first run and the troubles. `NoGap` says that the instants run
  and the one planned lie without a gap among those the expression matches. Infinitely many records are
  allowed: `FinitelyMany` says that those created are finitely many, which the choice of the oldest needs.
  `InitialAssumption` says that the records a process finds are ones the code could have written: each
  matches some instant, and one at most is an enabled session. Theorems: `TypeCorrect`, `SlotsPaidFor`,
  `StoppedStays`, `UnwatchedStops`, `BacklogWorkedOff`.
- `Shell_proofs`, the shell: `Current` names the sidecar the supervisor has in its hands, or has put where
  the quit can reach it, at each of its places; no other one lives, and it is the last one spawned
  (`CurrentOK`). Port and port file are its own or empty (`PortsOK`), a heartbeat of a live sidecar
  belongs to a turn that has not ended, unless its removal failed (`BeatOK`), and a shutdown that read the
  pid outside a spawn has, from its kill on, no living sidecar and none to come (`ClosingOK`). Theorems:
  `ShellTypeCorrect`, `SidecarsNeverOverlap`, `PortIsCurrent`, `ShutdownLeavesNone`, `SparesTheIdle`.
- `Shell_proofs`, the update notice: `Held` says that a notice in an instance's hands is claimed, was not
  shown and is no other instance's. `Alone` is for the other two: an instance that is alone writes beside
  the best slot a newer state that forgets its notice only when it is claimed or the version changed.
  Theorems: `TypeCorrect`, `HandedOutOnce`, `JournalNeverLost`, `DueNotLost`.
- `Publish_proofs`, the drafts: that a draft is posted once needs that at most one publish of an untainted
  draft is under way, that none was posted while one is still filling, and that a posted draft is recorded
  or about to be (`Counted`); `BoundOK` ties plans to saved drafts, `FlowsOK` a publish's flags to its
  place. Theorems: `TypeCorrect`, `PostsOnce`, `ClicksOrHands`, `DeclinedSettles`.
- `Publish_proofs`, the composer: `Ready` says what an undisturbed publish has behind it at each place:
  from the read-back to the click the composer holds exactly its draft, and while it confirms a click that
  posted nothing the dialog is still there, unless that click went astray. Theorems: `ComposerTypeCorrect`, `PostsItsDraft`,
  `PublishedWasPosted`.

The assumptions are the modules' named ones on their constants; no theorem has a hypothesis of its own.

Every invariant and action property that a run checks is stated by a theorem, except `ExactlyOnce`. Only
model-checked are also the liveness properties `RunEventuallyCloses`, `SlotComesBack`, `EveryUpdateAnswered`, `Recovers`, `EveryTurnEnds` and
`EveryPublishEnds`, which are out of the prover's reach.

## 7. Not modelled

`PROJECT.json` has every part with its reason. The models cover the code that holds state across an
await, a process end or a turn: about a tenth of the implementation's lines. Most of the rest has no
protocol for a model to check:

- The page logic (`linkedin/logic`, `snapshotCapture`, `composerReadiness`, `labelResolver`: the largest
  part) classifies one snapshot of a page by its strings. It is a function of data the project does not
  define, and a model of it would be the code again. The modules take its answers as choices.
- Prompts, tool descriptions, model choice, token estimates and summaries are texts.
- Memory, identity, search, methodology, configuration, leads and candidates are rows and files written
  by one call and read by another, without an order that matters.
- The overlay and the desktop UI render and forward; the operator's clicks are the environment.
- Build scripts, release policy, validation and packaging under `scripts/` run outside the program.
- Nothing takes the lock of `persistence/processLock.ts` at this commit, and nothing calls
  `linkedin/action/connect.ts`.

Left out inside the modelled parts: message texts, media kinds, wording of frames and audit rows, delays
(a timeout may fire at any time), version comparison and signatures of updates, three of the five cron
fields.
