------------------------------ MODULE Telegram ------------------------------
(***************************************************************************)
(* The inbound Telegram channel: app/backend/telegramChannel.ts with the   *)
(* adapter app/backend/index.ts wires into it, tools/telegram/transport.ts *)
(* and persistence/telegramConfig.ts.  One poll loop asks Telegram for the *)
(* updates from the offset of telegram.json on, and takes each through     *)
(* inbound audit, media downloads, one agent turn, the reply, outbound     *)
(* audit and the commit of the offset.  A throw anywhere abandons the rest *)
(* of the batch; the loop waits and polls again.                           *)
(*                                                                         *)
(* Updates are numbered 1, 2, ... in the order Telegram hands them out     *)
(* (the real ids ascend with gaps; only their order matters), so a batch   *)
(* is an interval cur .. last.  The turn slot is shared with every other   *)
(* source of turns, which is one action here (TurnSlot.tla has the rest).  *)
(* Faults are counted against MaxFaults: a request that fails or whose     *)
(* answer is lost, a failed file write, an unreadable telegram.json.  An    *)
(* answer Telegram refuses (chat blocked, text too long) is no fault: it    *)
(* may be refused at every poll, each time after another turn.             *)
(***************************************************************************)
EXTENDS Naturals, FiniteSets

CONSTANTS
  N,                           \* updates the operator sends at most
  BadMedia,                    \* updates with a file the download refuses (over 20 MB, getFile ok:false)
  Refusable,                   \* updates whose answer Telegram refuses as often as it likes
  MediaOf,                     \* number of files attached to each update
  MaxFaults,                   \* bound on faults
  MaxRestarts,                 \* bound on process ends, by crash or after a shutdown
  MaxOther                     \* bound on turns of other sources

ASSUME TelegramAssumption ==
  /\ N \in Nat /\ MaxFaults \in Nat /\ MaxRestarts \in Nat /\ MaxOther \in Nat
  /\ BadMedia \subseteq 1..N /\ Refusable \subseteq 1..N
  /\ MediaOf \in [1..N -> Nat]
  /\ \A u \in BadMedia : MediaOf[u] > 0

VARIABLES
  sent,                        \* updates Telegram holds or has held
  confirmed,                   \* Telegram: updates below this offset are deleted
  offset,                      \* telegram.json lastUpdateOffset
  pc,                          \* where the poll loop is
  cur, last,                   \* the rest of the batch, cur being processed
  left,                        \* files of cur still to download
  slot,                        \* state.currentTurn: whose turn owns it
  signal,                      \* the running Telegram turn's abort signal: live or aborted
  life,                        \* the lifecycle signal: serving, then stopping after its abort()
  faults, restarts, others,    \* counters of the bounded environment
  turns,                       \* turns started for each update (one, for a Refusable one)
  replies                      \* answers Telegram accepted, per update

channel == <<pc, cur, last, left>>
turnVars == <<slot, signal>>
history == <<turns, replies>>
bounds == <<faults, restarts, others>>
vars == <<sent, confirmed, offset, channel, turnVars, life, bounds, history>>

Updates == 1..N
Places == {"poll", "update", "media", "submit", "running", "send", "commit", "wait", "stopped"}

Init ==
  /\ sent = 0 /\ confirmed = 0 /\ offset = 0
  /\ pc = "poll" /\ cur = 1 /\ last = 0 /\ left = 0
  /\ slot = "free" /\ signal = "live" /\ life = "serving"
  /\ faults = 0 /\ restarts = 0 /\ others = 0
  /\ turns = [u \in Updates |-> 0] /\ replies = [u \in Updates |-> 0]

-----------------------------------------------------------------------------
(* The environment: the operator, Telegram and the other turn sources.     *)

Send ==
  /\ sent < N
  /\ sent' = sent + 1
  /\ UNCHANGED <<confirmed, offset, channel, turnVars, life, bounds, history>>

Fault ==
  /\ faults < MaxFaults
  /\ faults' = faults + 1
  /\ UNCHANGED <<restarts, others>>

(* Any other source claims a free slot and later leaves it.  The turn route *)
(* looks at the slot, awaits the request body, and then claims it even if   *)
(* the channel has taken it meanwhile.                                     *)
OtherTurn ==
  /\ \/ /\ slot = "free" /\ others < MaxOther
        /\ slot' = "other" /\ others' = others + 1
     \/ /\ slot = "tg" /\ others < MaxOther
        /\ slot' = "other" /\ others' = others + 1
     \/ slot = "other" /\ slot' = "free" /\ UNCHANGED others
  /\ UNCHANGED <<sent, confirmed, offset, channel, signal, life, faults, restarts, history>>

(* The operator stops the Telegram turn: the routes abort it and take its   *)
(* slot away, the overlay and auto/stop only abort it.                     *)
Interrupt ==
  /\ slot = "tg" /\ signal = "live"
  /\ signal' = "aborted"
  /\ slot' \in {"tg", "free"}
  /\ UNCHANGED <<sent, confirmed, offset, channel, life, bounds, history>>

(* telegram.json is missing or invalid at the next read: readRuntime        *)
(* falls back to offset 0.                                                 *)
LoseOffset ==
  /\ Fault
  /\ offset' = 0
  /\ UNCHANGED <<sent, confirmed, channel, turnVars, life, history>>

-----------------------------------------------------------------------------
(* The poll loop.                                                          *)

Stopping == life = "stopping"

LargerOf(a, b) == IF a > b THEN a ELSE b

Goto(place) == pc' = place /\ UNCHANGED <<cur, last, left>>

(* The end of runPoll, or a throw in it: the rest of the batch is dropped,  *)
(* start() swallows the error and goes on to the wait, unless the channel  *)
(* is being stopped.                                                       *)
Abandon ==
  /\ pc' = IF Stopping THEN "stopped" ELSE "wait"
  /\ cur' = 1 /\ last' = 0 /\ left' = 0

(* The first update Telegram still holds; the offset of a fresh file is 0.  *)
FirstKept(c) == LargerOf(1, c)

(* getUpdates with the stored offset: Telegram deletes what lies below it   *)
(* and hands out the rest.  A failed or lost answer abandons the poll.     *)
Poll ==
  /\ pc = "poll"
  /\ IF Stopping
     THEN Abandon /\ UNCHANGED <<confirmed, bounds>>
     ELSE \/ /\ confirmed' = LargerOf(confirmed, offset)
             /\ \/ /\ cur' = FirstKept(confirmed')
                   /\ last' = sent
                   /\ pc' = "update"
                   /\ UNCHANGED <<left, bounds>>
                \/ Fault /\ Abandon
          \/ Fault /\ Abandon /\ UNCHANGED confirmed
  /\ UNCHANGED <<sent, offset, turnVars, life, history>>

(* The head of the for loop, and the inbound audit line of the next update. *)
NextUpdate ==
  /\ pc = "update"
  /\ \/ /\ cur > last \/ Stopping
        /\ Abandon
        /\ UNCHANGED bounds
     \/ /\ cur <= last /\ ~Stopping
        /\ \/ /\ pc' = "media" /\ left' = MediaOf[cur]
              /\ UNCHANGED <<cur, last, bounds>>
           \/ Fault /\ Abandon
  /\ UNCHANGED <<sent, confirmed, offset, turnVars, life, history>>

(* One file: getFile, the size cap, the binary.  The adapter passes no      *)
(* abort signal, so a shutdown does not interrupt it.                      *)
Download ==
  /\ pc = "media"
  /\ IF left = 0
     THEN Goto("submit") /\ UNCHANGED bounds
     ELSE \/ /\ cur \notin BadMedia
             /\ left' = left - 1
             /\ UNCHANGED <<pc, cur, last, bounds>>
          \/ cur \in BadMedia /\ Abandon /\ UNCHANGED bounds
          \/ Fault /\ Abandon
  /\ UNCHANGED <<sent, confirmed, offset, turnVars, life, history>>

\* The count of turns for cur; that a Refusable update has many is not counted.
Again(n) == IF cur \in Refusable THEN 1 ELSE n + 1

(* submitTelegramTurn: turn_busy is thrown while any turn owns the slot;    *)
(* otherwise the slot is claimed and the turn starts.                      *)
Submit ==
  /\ pc = "submit"
  /\ IF slot # "free"
     THEN Abandon /\ UNCHANGED <<slot, signal, turns>>
     ELSE /\ Goto("running")
          /\ slot' = "tg" /\ signal' = "live"
          /\ turns' = [turns EXCEPT ![cur] = Again(@)]
  /\ UNCHANGED <<sent, confirmed, offset, life, bounds, replies>>

\* A mutant: the finally block does not give the slot back.
TurnEndsHolding ==
  /\ pc = "running"
  /\ Goto("send")
  /\ signal' = "live"
  /\ UNCHANGED <<sent, confirmed, offset, slot, life, bounds, turns, replies>>

(* When runOneTurn settles (it never rejects): a model error, a hang        *)
(* watcher or an abort ends a turn just as its last step does, and only a   *)
(* call that nothing interrupts keeps it.  The finally block gives the slot *)
(* back only if this turn still owns it.                                   *)
TurnEnds ==
  /\ pc = "running"
  /\ Goto("send")
  /\ slot' = IF slot = "tg" THEN "free" ELSE slot
  /\ signal' = "live"
  /\ UNCHANGED <<sent, confirmed, offset, life, bounds, turns, replies>>

Delivered(copies) == replies' = [replies EXCEPT ![cur] = @ + copies]

\* A mutant: an answer {"ok":false} counts as sent.
SendReplyUnchecked ==
  /\ pc = "send"
  /\ Goto("commit")
  /\ \/ Delivered(1) /\ UNCHANGED bounds
     \/ Fault /\ UNCHANGED replies
  /\ UNCHANGED <<sent, confirmed, offset, turnVars, life, turns>>

(* sendMessage.  A stopped channel's request is rejected at once.  A fault  *)
(* loses the request, or its answer after Telegram accepted it, or resets  *)
(* the primary connection after acceptance, so that the fallback address   *)
(* of telegramFetch delivers the same text again.  {"ok":false} is thrown,  *)
(* too, and the update stays the next one.                                 *)
SendReply ==
  /\ pc = "send"
  /\ IF Stopping
     THEN Abandon /\ UNCHANGED <<replies, bounds>>
     ELSE \/ Goto("commit") /\ Delivered(1) /\ UNCHANGED bounds
          \/ Fault /\ Goto("commit") /\ Delivered(2)
          \/ Fault /\ Abandon /\ Delivered(1)
          \/ Fault /\ Abandon /\ UNCHANGED replies
          \/ cur \in Refusable /\ Abandon /\ UNCHANGED <<replies, bounds>>
  /\ UNCHANGED <<sent, confirmed, offset, turnVars, life, turns>>

\* A mutant: the offset of the update itself is stored, not the next one.
CommitOffsetOfUpdate ==
  /\ pc = "commit"
  /\ offset' = cur
  /\ pc' = "update" /\ cur' = cur + 1
  /\ UNCHANGED <<last, left, bounds>>
  /\ UNCHANGED <<sent, confirmed, turnVars, life, history>>

(* The outbound audit line and the write of telegram.json, either of which  *)
(* may throw; then on to the next update of the batch.                     *)
CommitOffset ==
  /\ pc = "commit"
  /\ \/ /\ offset' = cur + 1
        /\ pc' = "update" /\ cur' = cur + 1
        /\ UNCHANGED <<last, left, bounds>>
     \/ Fault /\ Abandon /\ UNCHANGED offset
  /\ UNCHANGED <<sent, confirmed, turnVars, life, history>>

(* waitForNextPoll: the backoff timer, cut short by the abort.              *)
NextPoll ==
  /\ pc = "wait"
  /\ Goto(IF Stopping THEN "stopped" ELSE "poll")
  /\ UNCHANGED <<sent, confirmed, offset, turnVars, life, bounds, history>>

-----------------------------------------------------------------------------
(* shutdown() aborts the current turn, then the channel's lifecycle, and    *)
(* waits for the loop.                                                     *)
Stop ==
  /\ life = "serving"
  /\ life' = "stopping"
  /\ signal' = IF slot = "tg" THEN "aborted" ELSE signal
  /\ UNCHANGED <<sent, confirmed, offset, channel, slot, bounds, history>>

(* The process ends, by a kill at any point or after a shutdown, and the    *)
(* supervisor's next one boots with what telegram.json holds.              *)
Restart ==
  /\ restarts < MaxRestarts
  /\ restarts' = restarts + 1
  /\ pc' = "poll" /\ cur' = 1 /\ last' = 0 /\ left' = 0
  /\ slot' = "free" /\ signal' = "live" /\ life' = "serving"
  /\ UNCHANGED <<sent, confirmed, offset, faults, others, history>>

Loop ==
  \/ Poll \/ NextUpdate \/ Download \/ Submit \/ TurnEnds \/ SendReply \/ CommitOffset
  \/ NextPoll

Next == Send \/ OtherTurn \/ Interrupt \/ LoseOffset \/ Loop \/ Stop \/ Restart

Spec == Init /\ [][Next]_vars

(* The loop's own requests and writes all end (fetch has its time limits);   *)
(* nothing says that a turn does, this channel's or another's.             *)
Fairness == WF_vars(pc # "running" /\ Loop)

FairSpec == Spec /\ Fairness

-----------------------------------------------------------------------------
(* The types of the variables: counters stay in their bounds and neither    *)
(* offset runs past the next update Telegram could hand out.               *)
TypeOK ==
  /\ sent \in 0..N
  /\ confirmed \in 0..(N + 1) /\ offset \in 0..(N + 1)
  /\ pc \in Places
  /\ cur \in 1..(N + 1) /\ last \in 0..N /\ left \in Nat
  /\ faults \in 0..MaxFaults /\ restarts \in 0..MaxRestarts /\ others \in 0..MaxOther
  /\ turns \in [Updates -> Nat] /\ replies \in [Updates -> Nat]
  /\ slot \in {"free", "tg", "other"}
  /\ signal \in {"live", "aborted"} /\ life \in {"serving", "stopping"}

(* The channel keeps the promise of Inbox: a turn and an answer for an      *)
(* update only after every earlier one was answered, and Telegram forgets  *)
(* only what was answered, whatever fails, restarts or interrupts.         *)
Inbox == INSTANCE Inbox WITH
  worked <- {u \in Updates : turns[u] > 0},
  answered <- {u \in Updates : replies[u] > 0},
  forgotten <- IF confirmed = 0 THEN 0 ELSE confirmed - 1

KeepsPromise == Inbox!Promise

(* A second turn (which may act on LinkedIn again) or a second answer for   *)
(* the same update each need a fault or a restart of their own: a busy     *)
(* slot, an interruption or an abandoned batch alone never repeats one.    *)
(* Only a refused answer does: the turn is run again at each poll.         *)
DuplicateBudget ==
  \A u \in Updates :
    /\ u \notin Refusable => turns[u] <= 1 + faults + restarts
    /\ replies[u] <= 1 + faults + restarts

\* Telegram refuses the answer to u now.
RefusedNow(u) == SendReply /\ cur = u /\ ~Stopping /\ UNCHANGED <<replies, faults>>

\* A turn never ends, the channel's or one that has the slot.
TurnHangs == <>[](pc = "running") \/ <>[](slot = "other")

(* Every update ahead of the first one the download refuses is answered, or *)
(* the channel is being stopped, or Telegram goes on refusing the answer to *)
(* it or to an earlier one, or a turn hangs: nothing else holds it up.      *)
EveryUpdateAnswered ==
  \A u \in Updates :
    (\A v \in BadMedia : u < v) =>
      \/ u <= sent ~> replies[u] > 0 \/ Stopping
      \/ \E v \in Refusable : v <= u /\ []<><<RefusedNow(v)>>_vars
      \/ TurnHangs
=============================================================================
