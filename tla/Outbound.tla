------------------------------ MODULE Outbound ------------------------------
(***************************************************************************)
(* The outbound gate of the click tool and the ledger behind it: what a      *)
(* connect, a message or an instant invite is checked for before the page is  *)
(* touched, and what is written after it answered.                          *)
(*                                                                          *)
(* The checks are one synchronous block; the highlight, the pointer, the      *)
(* press and the pacing that follow are awaits, in which other turns,         *)
(* routes and the clock move.  The operator's approval outside Auto mode is   *)
(* the subject of Workflow, which rows run is that of AutoRun; here the one    *)
(* is granted at any time and the other starts and ends at any time.          *)
(***************************************************************************)
EXTENDS Naturals, FiniteSets

CONSTANTS
  Turns,     \* turns that may be in a tool at the same time
  Runs, NoRun,
  Cap,       \* max_connects of a run, NoCap for null
  NoCap,
  DailyCap,  \* resolveOutboundGuardrails().dailyCap
  MaxRows    \* bound: connects told apart per run

ASSUME OutboundAssumption ==
  /\ IsFiniteSet(Turns) /\ Turns # {}
  /\ NoRun \notin Runs /\ NoCap \notin Nat
  /\ MaxRows \in Nat /\ DailyCap \in Nat
  /\ Cap \in [Runs -> 0..MaxRows \union {NoCap}]

VARIABLES
  auto,       \* resolvedMode() = "auto"
  run,        \* getCurrentAutoRun
  started,    \* ids of auto_runs
  rows,       \* connect_sent/success rows of a run, up to MaxRows
  today,      \* success rows since UTC midnight, up to DailyCap
  cooling,    \* the last success row is younger than the cooldown
  disabled,   \* session.outboundDisabled
  click,      \* the click each turn is in
  sent        \* history of what went out

vars == <<auto, run, started, rows, today, cooling, disabled, click, sent>>
gates == <<auto, run, started, disabled>>

\* connect: the dialog's send button.  invite: "Invite <name> to connect" on a search or
\* network page, which sends at once and is classified connect_open.
Kind == {"connect", "message", "invite"}

\* What session.outboundDisabled stops: the final connect button and messages.  An instant
\* invite is no connect_send and passes, though the comment there says ALL outbound.
Latched == {"connect", "message"}

\* under: the run whose row authorized the click in Auto mode.
Click == [at : {"none", "press", "answered"}, kind : Kind \union {"none"},
          under : Runs \union {NoRun}]
NoClick == [at |-> "none", kind |-> "none", under |-> NoRun]

\* counted[r]: rows the click tool wrote for r;
\* day, burst: rows of Auto connects since midnight, since the last cooldown ended;
\* late: latched clicks that went out after one that could not be recorded (failed).
NothingSent == [counted |-> [r \in Runs |-> 0], day |-> 0, burst |-> 0, failed |-> FALSE, late |-> 0]

Init ==
  /\ auto \in BOOLEAN /\ run = NoRun /\ started = {}
  /\ rows = [r \in Runs |-> 0] /\ today = 0 /\ cooling = FALSE
  /\ disabled = FALSE
  /\ click = [t \in Turns |-> NoClick]
  /\ sent = NothingSent

Plus(n, bound) == IF n < bound THEN n + 1 ELSE n

-----------------------------------------------------------------------------
(* The checks.                                                              *)

\* A mutant: one connect too many.
WithinCapOffByOne == run # NoRun => (Cap[run] # NoCap => rows[run] <= Cap[run])
\* auto_cap_reached, in every mode.
WithinCap == run # NoRun => (Cap[run] # NoCap => rows[run] < Cap[run])

\* A mutant: the quota is checked as if the row were written already.
WithinQuotaOffByOne == today <= DailyCap /\ ~cooling
\* A mutant: the cooldown is advice.
QuotaOnly == today < DailyCap
\* daily_quota_reached and cooldown_active.
WithinQuota == today < DailyCap /\ ~cooling

Passes(kind) ==
  /\ auto => run # NoRun
  /\ kind = "message" => ~auto
  /\ kind \in Latched => ~disabled
  /\ kind \in {"connect", "invite"} => WithinCap
  /\ kind = "connect" /\ auto => WithinQuota

Gate(t, kind) ==
  /\ click[t].at = "none"
  /\ Passes(kind)
  /\ click' = [click EXCEPT ![t] = [at |-> "press", kind |-> kind,
                                    under |-> IF auto THEN run ELSE NoRun]]
  /\ UNCHANGED <<gates, rows, today, cooling, sent>>

-----------------------------------------------------------------------------
(* The click on the page.                                                   *)

\* The page has taken the click of turn t.
Out(t) ==
  IF sent.failed /\ click[t].kind \in Latched THEN [sent EXCEPT !.late = @ + 1] ELSE sent

\* Highlight, pointer, press and release went through; the pacing follows.
Answered(t) ==
  /\ click[t].at = "press"
  /\ click' = [click EXCEPT ![t].at = "answered"]
  /\ sent' = Out(t)
  /\ UNCHANGED <<gates, rows, today, cooling>>

\* A call failed, ran into its deadline or was aborted: nothing is written, and the
\* release may have reached the page or not.
RacedOut(t) ==
  /\ click[t].at = "press"
  /\ click' = [click EXCEPT ![t] = NoClick]
  /\ sent' \in {sent, Out(t)}
  /\ UNCHANGED <<gates, rows, today, cooling>>

-----------------------------------------------------------------------------
(* The ledger.  Mode and run are read again.                                *)

Owner == IF auto THEN run ELSE NoRun
NewRow(r) == rows' = IF r = NoRun THEN rows ELSE [rows EXCEPT ![r] = Plus(@, MaxRows)]
Counted(t, r) ==
  [sent EXCEPT
    !.counted = [x \in Runs |-> IF x = r THEN sent.counted[x] + 1 ELSE sent.counted[x]],
    !.day = IF click[t].under = NoRun THEN sent.day ELSE sent.day + 1,
    !.burst = IF click[t].under = NoRun THEN sent.burst ELSE sent.burst + 1]

Recorded(t) ==
  /\ click[t].at = "answered"
  /\ click' = [click EXCEPT ![t] = NoClick]
  /\ \/ /\ click[t].kind = "connect"
        /\ NewRow(Owner) /\ sent' = Counted(t, Owner)
        /\ today' = Plus(today, DailyCap) /\ cooling' = TRUE
     \/ /\ click[t].kind = "message"
        /\ today' = Plus(today, DailyCap) /\ cooling' = TRUE
        /\ UNCHANGED <<rows, sent>>
     \/ /\ click[t].kind = "invite"
        /\ UNCHANGED <<rows, today, cooling, sent>>
  /\ UNCHANGED gates

\* A mutant: the failure is only reported to the agent.
NotRecordedUnlatched(t) ==
  /\ click[t].at = "answered" /\ click[t].kind # "invite"
  /\ click' = [click EXCEPT ![t] = NoClick]
  /\ disabled' = (disabled \/ click[t].kind = "message")
  /\ sent' = [sent EXCEPT !.failed = TRUE]
  /\ UNCHANGED <<auto, run, started, rows, today, cooling>>
\* The row cannot be written: the session is latched, and a connect's run is marked
\* blocked unless the database refuses that, too.
NotRecorded(t) ==
  /\ click[t].at = "answered" /\ click[t].kind # "invite"
  /\ click' = [click EXCEPT ![t] = NoClick]
  /\ disabled' = TRUE /\ sent' = [sent EXCEPT !.failed = TRUE]
  /\ run' \in IF click[t].kind = "connect" /\ auto THEN {run, NoRun} ELSE {run}
  /\ UNCHANGED <<auto, started, rows, today, cooling>>

\* record_auto_action with result "success", for any run, by an agent that counts itself.
RecordAction(r, kind) ==
  /\ r \in started
  /\ IF kind = "connect" THEN NewRow(r) ELSE UNCHANGED rows
  /\ today' = Plus(today, DailyCap) /\ cooling' = TRUE
  /\ UNCHANGED <<gates, click, sent>>

-----------------------------------------------------------------------------
(* Runs, modes, time and restarts.                                          *)

\* start_auto_run, or the tick before its turn: by a turn that is in no click.
StartRun(r) ==
  /\ run = NoRun /\ r \notin started
  /\ \E t \in Turns : click[t].at = "none"
  /\ run' = r /\ started' = started \union {r}
  /\ UNCHANGED <<auto, disabled, rows, today, cooling, click, sent>>

EndRun ==
  /\ run # NoRun
  /\ run' = NoRun
  /\ UNCHANGED <<auto, started, disabled, rows, today, cooling, click, sent>>

FlipMode ==
  /\ auto' = ~auto
  /\ UNCHANGED <<run, started, disabled, rows, today, cooling, click, sent>>

CooldownEnds ==
  /\ cooling
  /\ cooling' = FALSE /\ sent' = [sent EXCEPT !.burst = 0]
  /\ UNCHANGED <<gates, rows, today, click>>

Midnight ==
  /\ today' = 0 /\ sent' = [sent EXCEPT !.day = 0]
  /\ UNCHANGED <<gates, rows, cooling, click>>

\* The sidecar dies and comes back: the ledger stays, the latch does not, and the boot
\* closes the run that was left.  A click under way goes unrecorded.
Restart ==
  /\ auto' \in BOOLEAN /\ run' = NoRun /\ disabled' = FALSE
  /\ click' = [t \in Turns |-> NoClick]
  /\ sent' = [sent EXCEPT !.failed = FALSE, !.late = 0]
  /\ UNCHANGED <<started, rows, today, cooling>>

Next ==
  \/ \E t \in Turns : \/ \E kind \in Kind : Gate(t, kind)
                     \/ Answered(t) \/ RacedOut(t) \/ Recorded(t) \/ NotRecorded(t)
  \/ \E r \in Runs : StartRun(r) \/ \E kind \in {"connect", "message"} : RecordAction(r, kind)
  \/ EndRun \/ FlipMode \/ CooldownEnds \/ Midnight \/ Restart

Spec == Init /\ [][Next]_vars

-----------------------------------------------------------------------------
(* Properties.                                                              *)

\* Every variable keeps its type; the running row is one of the rows.
TypeOK ==
  /\ auto \in BOOLEAN /\ disabled \in BOOLEAN /\ cooling \in BOOLEAN
  /\ started \subseteq Runs /\ run \in started \union {NoRun}
  /\ rows \in [Runs -> 0..MaxRows] /\ today \in 0..DailyCap
  /\ click \in [Turns -> Click]
  /\ sent \in [counted : [Runs -> Nat], day : Nat, burst : Nat, failed : BOOLEAN, late : Nat]

\* Turns besides the one that is alone when turns do not overlap.
Overlap == Cardinality(Turns) - 1

\* Checking before the awaits and counting after them lets a run exceed its connect cap
\* by at most one per overlapping turn, whatever runs, modes, agents and crashes do
\* meanwhile; turns that do not overlap keep the cap.
RunCapHolds == \A r \in Runs : Cap[r] # NoCap => sent.counted[r] <= Cap[r] + Overlap

\* So it is with the connects Auto mode sends in one UTC day, also when a click is
\* checked on one day and recorded on the next.
DailyCapHolds == sent.day <= DailyCap + Overlap

\* Within one cooldown Auto mode sends no more than one connect per overlapping turn.
CooldownHolds == sent.burst <= 1 + Overlap

\* After a connect or message that could not be recorded, the only connects and messages
\* that still go out in this session are clicks of overlapping turns that had passed the
\* checks.  (Instant invites, and posts, are not behind the latch.)
LatchHolds == sent.late <= Overlap
=============================================================================
