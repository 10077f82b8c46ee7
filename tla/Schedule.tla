------------------------------ MODULE Schedule ------------------------------
(***************************************************************************)
(* The schedule of recurring jobs and the switch that lets them run:       *)
(* persistence/schedule.ts and mode.ts, the tick of app/backend/cron.ts,    *)
(* the routes auto/start, auto/stop and cron-mode, the tools schedule_task  *)
(* and stop_auto, and the orphan stop of routes/events.ts.                  *)
(*                                                                         *)
(* A tick that finds Auto on, the turn slot free and a due record runs the *)
(* oldest due record as one agent turn and advances the record only after  *)
(* that turn.  In between the operator may take the slot away and leave the *)
(* turn behind, stop the session, lose the event stream, or the process    *)
(* may die.  Auto is a flag in memory, a best-effort copy in mode.json and *)
(* enabled auto_session records in schedule.jsonl.                          *)
(*                                                                         *)
(* Time is counted in minutes of a small calendar; a record is its place in *)
(* the order of creation, its expression and its next planned instant.     *)
(***************************************************************************)
EXTENDS Naturals, FiniteSets

CONSTANTS
  MinutesPerHour, HoursPerDay, \* the calendar
  Limit,                       \* how far nextRunAfter looks ahead (a year)
  Horizon,                     \* bound on the clock
  Jobs, Initial,               \* records 1 .. n; the first Initial are in the file at the start
  Expr,                        \* each record's type and cron fields
  Kind,                        \* "auto_session" or "user_task"
  Turns,                       \* cron turns that may execute at a time
  MaxTrouble,                  \* bound on failed writes, process ends and cron turns left behind
  MaxOthers,                   \* bound on turns of other sources
  MaxClients                   \* bound on event stream clients at a time

ASSUME ScheduleAssumption ==
  /\ MinutesPerHour \in Nat \ {0} /\ HoursPerDay \in Nat \ {0}
  /\ Limit \in Nat /\ Horizon \in Nat
  /\ Jobs \subseteq Nat \ {0} /\ Initial \in Nat /\ 1..Initial \subseteq Jobs
  /\ Kind \in [Jobs -> {"auto_session", "user_task"}]
  /\ MaxTrouble \in Nat /\ MaxOthers \in Nat /\ MaxClients \in Nat
  /\ "free" \notin Turns /\ "other" \notin Turns

VARIABLES
  now,                         \* the minute
  rec,                         \* schedule.jsonl: each record absent, on or off
  next,                        \* its nextRunAt
  born,                        \* its rank by createdAt, 0 before it is created
  cron,                        \* each cron turn: the record it runs and the fire date
  slot,                        \* state.currentTurn: free, a cron turn, or other
  enabled,                     \* state.cronEnabled
  modeFile,                    \* mode.json says auto
  stopSeen,                    \* a stop_auto result waits for its step to finish
  clients, grace,              \* event stream clients; the grace timer is armed
  trouble, others,             \* counters of the bounded environment
  runs,                        \* history: turns started for each planned instant
  stopped,                     \* history: sessions an auto/stop or stop_auto has ended
  watched                      \* history: a client has been connected since Auto was last switched

file == <<rec, next, born>>
mode == <<enabled, modeFile>>
stream == <<clients, grace>>
bounds == <<trouble, others>>
history == <<runs, stopped, watched>>
vars == <<now, file, cron, slot, mode, stopSeen, stream, bounds, history>>

Idle == [job |-> 0, fire |-> 0]
Sessions == {j \in Jobs : Kind[j] = "auto_session"}

-----------------------------------------------------------------------------
(* The cron expressions.                                                    *)

FieldMatches(f, n) ==
  \/ f.kind = "any"
  \/ f.kind = "exact" /\ n = f.value
  \/ f.kind = "step" /\ n % f.value = 0

Matches(j, t) ==
  /\ FieldMatches(Expr[j].minute, t % MinutesPerHour)
  /\ FieldMatches(Expr[j].hour, (t \div MinutesPerHour) % HoursPerDay)

Candidates(j, from) == {t \in (from + 1)..(from + Limit) : Matches(j, t)}

\* A mutant: the search starts at the fire date itself.
NextRunAtOrAfter(j, from) ==
  CHOOSE t \in {from} \cup Candidates(j, from) :
    /\ Matches(j, t)
    /\ \A u \in Candidates(j, from) \cup {from} : Matches(j, u) => t <= u
(* The first matching minute strictly after from; it throws when there is   *)
(* none within the limit.                                                  *)
NextRunAfter(j, from) ==
  CHOOSE t \in Candidates(j, from) : \A u \in Candidates(j, from) : t <= u

Runnable(j, from) == Candidates(j, from) # {}

IsOneShot(j) == Expr[j].type = "oneshot"

(* The file of the start was written by an earlier process: each record got *)
(* its planned instant, and a second session was refused.                   *)
ASSUME InitialAssumption ==
  /\ \A j \in 1..Initial : Runnable(j, 0)
  /\ \A i, j \in 1..Initial \cap Sessions : i = j

-----------------------------------------------------------------------------
Init ==
  /\ now = 0
  /\ rec = [j \in Jobs |-> IF j <= Initial THEN "on" ELSE "absent"]
  /\ born = [j \in Jobs |-> IF j <= Initial THEN j ELSE 0]
  /\ next = [j \in Jobs |-> IF j <= Initial THEN NextRunAfter(j, 0) ELSE 0]
  /\ cron = [k \in Turns |-> Idle] /\ slot = "free"
  /\ enabled \in BOOLEAN /\ modeFile = enabled /\ stopSeen = FALSE
  /\ clients = 0 /\ grace = FALSE
  /\ trouble = 0 /\ others = 0
  /\ runs = [j \in Jobs |-> [t \in 0..Horizon |-> 0]]
  /\ stopped = {} /\ watched = FALSE

Advance ==
  /\ now < Horizon
  /\ now' = now + 1
  /\ UNCHANGED <<file, cron, slot, mode, stopSeen, stream, bounds, history>>

Trouble ==
  /\ trouble < MaxTrouble
  /\ trouble' = trouble + 1
  /\ UNCHANGED others

(* setCronMode: memory always, mode.json if its write succeeds.             *)
SetCronMode(on) ==
  /\ enabled' = on
  /\ \/ modeFile' = on /\ UNCHANGED bounds
     \/ Trouble /\ UNCHANGED modeFile
  /\ watched' = (clients > 0)

(* A new record with its first planned instant; without one, nothing is     *)
(* written.                                                                *)
Append(j) ==
  /\ born[j] = 0 /\ Runnable(j, now)
  /\ rec' = [rec EXCEPT ![j] = "on"]
  /\ next' = [next EXCEPT ![j] = NextRunAfter(j, now)]
  /\ born' = [born EXCEPT ![j] = 1 + Cardinality({i \in Jobs : born[i] > 0})]

DisableSessions ==
  /\ rec' = [j \in Jobs |-> IF j \in Sessions /\ rec[j] = "on" THEN "off" ELSE rec[j]]
  /\ stopped' = stopped \cup {j \in Sessions : rec[j] = "on"}
  /\ UNCHANGED <<next, born, runs>>

-----------------------------------------------------------------------------
(* The tick and the turns it runs.                                          *)

Due == {j \in Jobs : rec[j] = "on" /\ next[j] <= now}

(* Of the due records only the oldest runs; nothing is advanced yet.        *)
Tick(k) ==
  /\ enabled /\ slot = "free" /\ cron[k] = Idle
  /\ \E j \in Due :
       /\ \A i \in Due : born[j] <= born[i]
       /\ cron' = [cron EXCEPT ![k] = [job |-> j, fire |-> next[j]]]
       /\ runs' = [runs EXCEPT ![j][next[j]] = @ + 1]
  /\ slot' = k
  /\ UNCHANGED <<now, file, mode, stopSeen, stream, bounds, stopped, watched>>

\* A mutant: the record is written back as the tick had read it.
MarkRanStale(j, fire) ==
  IF IsOneShot(j)
  THEN rec' = [rec EXCEPT ![j] = "absent"] /\ UNCHANGED next
  ELSE /\ Runnable(j, fire)
       /\ rec' = [rec EXCEPT ![j] = "on"]
       /\ next' = [next EXCEPT ![j] = NextRunAfter(j, fire)]

\* A mutant: a job that fell behind goes on from now.
MarkRanFromNow(j, fire) ==
  IF IsOneShot(j)
  THEN rec' = [rec EXCEPT ![j] = "absent"] /\ UNCHANGED next
  ELSE /\ Runnable(j, now)
       /\ next' = [next EXCEPT ![j] = NextRunAfter(j, now)]
       /\ UNCHANGED rec

(* The record as it is in the file now: a one-shot is removed, a recurring  *)
(* one planned for the instant after the fire date.                        *)
MarkRan(j, fire) ==
  IF IsOneShot(j)
  THEN rec' = [rec EXCEPT ![j] = "absent"] /\ UNCHANGED next
  ELSE /\ Runnable(j, fire)
       /\ next' = [next EXCEPT ![j] = NextRunAfter(j, fire)]
       /\ UNCHANGED rec

Disable(j) == rec' = [rec EXCEPT ![j] = "off"] /\ UNCHANGED next

(* runOneTurn settles, however the turn went; the rest happens before       *)
(* anything else can.  When the record cannot be advanced it is disabled;   *)
(* when the database or the second write fails too, it stays as it was.    *)
CronTurnEnds(k) ==
  /\ cron[k] # Idle
  /\ cron' = [cron EXCEPT ![k] = Idle]
  /\ slot' = IF slot = k THEN "free" ELSE slot
  /\ IF rec[cron[k].job] = "absent"
     THEN UNCHANGED <<rec, next, bounds>>
     ELSE \/ MarkRan(cron[k].job, cron[k].fire) /\ UNCHANGED bounds
          \/ /\ ~IsOneShot(cron[k].job) /\ ~Runnable(cron[k].job, cron[k].fire)
             /\ Disable(cron[k].job) /\ UNCHANGED bounds
          \/ Trouble /\ Disable(cron[k].job)
          \/ Trouble /\ UNCHANGED <<rec, next>>
  /\ UNCHANGED <<now, born, mode, stopSeen, stream, history>>

(* /agent/abort and /agent/turn take the slot from a cron turn that may go  *)
(* on executing.                                                           *)
Release ==
  /\ slot \in Turns /\ Trouble
  /\ slot' = "free"
  /\ UNCHANGED <<now, file, cron, mode, stopSeen, stream, history>>

OtherTurn ==
  /\ \/ slot = "free" /\ others < MaxOthers /\ slot' = "other" /\ others' = others + 1
     \/ slot = "other" /\ slot' = "free" /\ UNCHANGED others
  /\ UNCHANGED <<now, file, cron, mode, stopSeen, stream, trouble, history>>

-----------------------------------------------------------------------------
(* What the operator, the agent's tools and the overlay do.                 *)

\* A mutant: whether a session is running is read off the switch.
AutoStartBySwitch(j) ==
  /\ j \in Sessions /\ ~enabled
  /\ Append(j)
  /\ SetCronMode(TRUE)
  /\ UNCHANGED <<now, cron, slot, stopSeen, stream, runs, stopped>>

(* POST /agent/auto/start: 409 while an enabled session is in the file.     *)
AutoStart(j) ==
  /\ j \in Sessions /\ \A i \in Sessions : rec[i] # "on"
  /\ Append(j)
  /\ SetCronMode(TRUE)
  /\ UNCHANGED <<now, cron, slot, stopSeen, stream, runs, stopped>>

(* POST /agent/auto/stop (the abort of the current turn is in TurnSlot).    *)
AutoStop ==
  /\ DisableSessions
  /\ SetCronMode(FALSE)
  /\ UNCHANGED <<now, cron, slot, stopSeen, stream>>

(* The tool schedule_task, called by some turn.                             *)
ScheduleTask(j) ==
  /\ j \notin Sessions /\ slot # "free"
  /\ Append(j)
  /\ UNCHANGED <<now, cron, slot, mode, stopSeen, stream, bounds, history>>

Executing == slot = "other" \/ \E k \in Turns : cron[k] # Idle

(* The tool stop_auto disables the records at once; Auto goes off when its  *)
(* step finishes, which an abort may prevent.                              *)
StopAutoTool ==
  /\ Executing
  /\ DisableSessions
  /\ stopSeen' = TRUE
  /\ UNCHANGED <<now, cron, slot, mode, stream, bounds, watched>>

StopAutoStep ==
  /\ stopSeen
  /\ stopSeen' = FALSE
  /\ \/ SetCronMode(FALSE)
     \/ UNCHANGED <<mode, bounds, watched>>
  /\ UNCHANGED <<now, file, cron, slot, stream, runs, stopped>>

(* POST /agent/cron-mode and the overlay's mode event.                      *)
CronMode(on) ==
  /\ SetCronMode(on)
  /\ UNCHANGED <<now, file, cron, slot, stopSeen, stream, runs, stopped>>

-----------------------------------------------------------------------------
(* The event stream.                                                        *)

Connect ==
  /\ clients < MaxClients
  /\ clients' = clients + 1 /\ grace' = FALSE /\ watched' = TRUE
  /\ UNCHANGED <<now, file, cron, slot, mode, stopSeen, bounds, runs, stopped>>

\* A mutant: the count is taken before the client is removed.
DisconnectCountsItself ==
  /\ clients > 0
  /\ clients' = clients - 1
  /\ grace' = (grace \/ clients = 0)
  /\ UNCHANGED <<now, file, cron, slot, mode, stopSeen, bounds, history>>

Disconnect ==
  /\ clients > 0
  /\ clients' = clients - 1
  /\ grace' = (grace \/ clients' = 0)
  /\ UNCHANGED <<now, file, cron, slot, mode, stopSeen, bounds, history>>

(* The grace period is over: Auto is off in memory, and only there.         *)
OrphanStop ==
  /\ grace /\ grace' = FALSE
  /\ enabled' = (enabled /\ clients > 0)
  /\ UNCHANGED <<now, file, cron, slot, modeFile, stopSeen, clients, bounds, history>>

Restart ==
  /\ Trouble
  /\ cron' = [k \in Turns |-> Idle] /\ slot' = "free"
  /\ enabled' = modeFile /\ stopSeen' = FALSE
  /\ clients' = 0 /\ grace' = FALSE /\ watched' = FALSE
  /\ UNCHANGED <<now, file, modeFile, runs, stopped>>

Next ==
  \/ Advance \/ Release \/ OtherTurn \/ AutoStop \/ StopAutoTool \/ StopAutoStep
  \/ Connect \/ Disconnect \/ OrphanStop \/ Restart
  \/ \E k \in Turns : Tick(k) \/ CronTurnEnds(k)
  \/ \E j \in Jobs : AutoStart(j) \/ ScheduleTask(j)
  \/ \E on \in BOOLEAN : CronMode(on)

Spec == Init /\ [][Next]_vars

-----------------------------------------------------------------------------
(* The types of the variables; a record that exists has a rank and a next   *)
(* instant its expression matches.                                         *)
TypeOK ==
  /\ now \in 0..Horizon
  /\ rec \in [Jobs -> {"absent", "on", "off"}]
  /\ born \in [Jobs -> Nat] /\ next \in [Jobs -> Nat]
  /\ \A j \in Jobs : rec[j] # "absent" => born[j] > 0 /\ Matches(j, next[j])
  /\ cron \in [Turns -> [job : Jobs \cup {0}, fire : Nat]]
  /\ slot \in Turns \cup {"free", "other"}
  /\ enabled \in BOOLEAN /\ modeFile \in BOOLEAN
  /\ stopSeen \in BOOLEAN /\ grace \in BOOLEAN /\ clients \in 0..MaxClients
  /\ trouble \in 0..MaxTrouble /\ others \in 0..MaxOthers
  /\ runs \in [Jobs -> [0..Horizon -> Nat]]
  /\ stopped \subseteq Sessions /\ watched \in BOOLEAN

(* A planned instant is run again only at the price of a failed write, a    *)
(* process that died between the turn and the mark, or a cron turn that    *)
(* lost its slot and was left executing (whose late mark also turns the    *)
(* plan back): one extra run each, whatever else happens.                  *)
SlotBudget ==
  \A j \in Jobs, t \in 0..Horizon :
    runs[j][t] <= 1 + trouble

(* A backlog is worked off instant by instant: the plan of a record never   *)
(* moves past an instant no turn has been run for.                         *)
NoSlotSkipped ==
  [][\A j \in Jobs : born[j] > 0 =>
       \A t \in next[j]..(next'[j] - 1) : Matches(j, t) => runs[j][t] > 0]_vars

(* A session that was stopped, by the operator or by its agent, is not      *)
(* enabled again by the turn that was running it; and there is at most one *)
(* enabled session.                                                        *)
StopIsFinal ==
  /\ \A j \in stopped : rec[j] # "on"
  /\ \A i, j \in Sessions : rec[i] = "on" /\ rec[j] = "on" => i = j

(* Auto that somebody was watching does not go on unwatched: without a      *)
(* client either the grace period is running or Auto is off.               *)
NeverUnwatched == watched /\ clients = 0 /\ ~grace => ~enabled
=============================================================================
