-------------------------- MODULE Schedule_proofs ---------------------------
(***************************************************************************)
(* For any calendar, any records and expressions, any number of cron turns,  *)
(* failed writes, restarts and event stream clients: no planned instant is   *)
(* skipped, one is repeated only at the price of a failure, a stopped session *)
(* stays stopped, and Auto does not go on unwatched.                         *)
(***************************************************************************)
EXTENDS Schedule, WellFoundedInduction, NaturalsInduction, FiniteSetTheorems, TLAPS

\* Only finitely many records were ever created.
FinitelyMany == IsFiniteSet({i \in Jobs : born[i] > 0})

\* A cron turn runs an instant of a record that was created; the slot is never left to a
\* cron turn that ended.
CronOK ==
  /\ \A k \in Turns : cron[k] # Idle =>
       /\ cron[k].job \in Jobs /\ born[cron[k].job] > 0
       /\ cron[k].fire \in 0..Horizon /\ runs[cron[k].job][cron[k].fire] > 0
  /\ slot \in Turns => cron[slot] # Idle
  /\ \A j \in Jobs : born[j] = 0 => rec[j] = "absent" /\ \A t \in 0..Horizon : runs[j][t] = 0

\* What was stopped had been created, and a file has one enabled session.
StopOK == StopIsFinal /\ \A j \in stopped : born[j] > 0

\* The instants a record has been run for, with the one it is planned for, lie without a
\* gap among the instants its expression matches: late marks turn the plan back, but only
\* to the instant after one that was run.
Ran(j) == {t \in 0..Horizon : runs[j][t] > 0}
NoGap(j) ==
  \A w, u \in Ran(j) \cup {next[j]} : \A t \in w..(u - 1) : Matches(j, t) => t \in Ran(j)
GapOK == \A j \in Jobs : born[j] > 0 => NoGap(j)

\* Turns left behind whose late mark would plan the instant t of j again.
Behind(j, t) == {k \in Turns : k # slot /\ cron[k].job = j /\ cron[k].fire < t}
Holds(j) == slot \in Turns /\ cron[slot].job = j
\* The instant is still to come: by the plan, or once the turn in the slot has marked.
Open(j, t) ==
  /\ rec[j] = "on"
  /\ next[j] <= t \/ (Holds(j) /\ cron[slot].fire < t)
  /\ ~(Holds(j) /\ cron[slot].fire = t)
ToCome(j, t) == IF Open(j, t) THEN 1 ELSE 0
\* What was run, what is to come and what turns left behind may bring back is paid for.
Budget(j, t) ==
  /\ IsFiniteSet(Behind(j, t))
  /\ runs[j][t] + ToCome(j, t) + Cardinality(Behind(j, t)) <= 1 + trouble
BudgetOK == \A j \in Jobs, t \in 0..Horizon : Budget(j, t)

IInv == TypeOK /\ FinitelyMany /\ CronOK /\ StopOK /\ GapOK /\ BudgetOK /\ NeverUnwatched

-----------------------------------------------------------------------------
(* The plan.                                                                *)

\* nextRunAfter: the first matching minute after the given one.
LEMMA NextRunIsFirst ==
  ASSUME NEW j \in Jobs, NEW from \in Nat, Runnable(j, from)
  PROVE  /\ NextRunAfter(j, from) \in Nat /\ NextRunAfter(j, from) > from
         /\ Matches(j, NextRunAfter(j, from))
         /\ \A t \in Nat : from < t /\ t < NextRunAfter(j, from) => ~Matches(j, t)
  <1> DEFINE R == OpToRel(<, Nat)
             S == Candidates(j, from)
             n == NextRunAfter(j, from)
  <1>1. IsWellFoundedOn(R, Nat)
    BY NatLessThanWellFounded
  <1>2. \A x, y \in Nat : x < y => <<x, y>> \in R
    BY DEF OpToRel
  <1>3. Limit \in Nat
    BY ScheduleAssumption
  <1>4. S \subseteq Nat /\ S # {}
    BY <1>3 DEF Candidates, Runnable
  <1> HIDE DEF R, S
  <1>5. PICK x \in S : \A y \in S : ~ (<<y, x>> \in R)
    BY <1>1, <1>4, WFMin
  <1>6. ASSUME NEW y \in S PROVE x <= y
    <2>1. x \in Nat /\ y \in Nat /\ ~ (<<y, x>> \in R)
      BY <1>4, <1>5
    <2> QED BY <2>1, <1>2
  <1>7. n \in S /\ \A y \in S : n <= y
    BY <1>6 DEF NextRunAfter, S
  <1>8. n \in Nat /\ n > from /\ n <= from + Limit /\ Matches(j, n)
    BY <1>3, <1>7 DEF S, Candidates
  <1>9. ASSUME NEW t \in Nat, from < t, t < n, Matches(j, t) PROVE FALSE
    <2>1. t \in S
      BY <1>3, <1>8, <1>9 DEF S, Candidates
    <2> QED BY <1>7, <1>8, <1>9, <2>1
  <1> HIDE DEF n
  <1>10. QED BY <1>8, <1>9 DEF n

LEMMA Calendar ==
  /\ Jobs \subseteq Nat \ {0} /\ Initial \in Nat /\ 1..Initial \subseteq Jobs
  /\ Horizon \in Nat /\ 0 \notin Jobs
  /\ MaxTrouble \in Nat /\ MaxOthers \in Nat /\ MaxClients \in Nat
  /\ "free" \notin Turns /\ "other" \notin Turns
  BY ScheduleAssumption

-----------------------------------------------------------------------------
(* What a step does to the records and the turns, told by its kind.         *)

\* Records, plan and cron turns stay; the slot stays, or changes hands among others.
Quiet ==
  /\ UNCHANGED <<rec, next, born, cron, runs, stopped>>
  /\ trouble <= trouble'
  /\ slot' = slot \/ (slot \notin Turns /\ slot' \notin Turns)
\* The enabled sessions are disabled.
Stops == DisableSessions /\ UNCHANGED <<cron, slot>> /\ trouble <= trouble'
\* A record is created; a session only where none is enabled.
Creates(j) ==
  /\ Append(j) /\ UNCHANGED <<cron, slot, runs, stopped>> /\ trouble <= trouble'
  /\ j \in Sessions => \A i \in Sessions : rec[i] # "on"

\* Trouble is paid for, and counted.
LEMMA TroubleCounts ==
  ASSUME TypeOK
  PROVE  /\ trouble \in Nat /\ others \in Nat
         /\ Trouble => trouble' = trouble + 1 /\ trouble' \in 0..MaxTrouble /\ others' = others
         /\ UNCHANGED bounds => trouble' = trouble /\ others' = others
  BY Calendar DEF Trouble, TypeOK, bounds

\* setCronMode, whether or not mode.json was written.
LEMMA SwitchOK ==
  ASSUME TypeOK, NEW on \in BOOLEAN, SetCronMode(on)
  PROVE  /\ enabled' \in BOOLEAN /\ modeFile' \in BOOLEAN /\ watched' \in BOOLEAN
         /\ trouble' \in 0..MaxTrouble /\ others' \in 0..MaxOthers /\ trouble <= trouble'
         /\ watched' = (clients > 0)
  BY TroubleCounts, Calendar DEF SetCronMode, TypeOK

\* Every step that is not about a cron turn is of one of these kinds.
LEMMA Kinds ==
  ASSUME TypeOK, [Next]_vars
  PROVE  \/ Quiet \/ Stops
         \/ \E j \in Jobs : Creates(j)
         \/ \E k \in Turns : Tick(k) \/ CronTurnEnds(k)
         \/ Release \/ Restart
  <1> USE TroubleCounts, Calendar
  <1>1. CASE Advance \/ Connect \/ Disconnect \/ OrphanStop
    BY <1>1 DEF Quiet, Advance, Connect, Disconnect, OrphanStop, file, history
  <1>2. CASE OtherTurn
    BY <1>2 DEF Quiet, OtherTurn, file, history
  <1>3. CASE StopAutoStep
    <2>1. trouble <= trouble'
      BY <1>3 DEF StopAutoStep, SetCronMode, bounds
    <2> QED BY <1>3, <2>1 DEF Quiet, StopAutoStep, file
  <1>4. ASSUME NEW on \in BOOLEAN, CronMode(on) PROVE Quiet
    <2>1. trouble <= trouble'
      BY <1>4 DEF CronMode, SetCronMode
    <2> QED BY <1>4, <2>1 DEF Quiet, CronMode, file
  <1>5. CASE AutoStop
    <2>1. trouble <= trouble'
      BY <1>5, SwitchOK DEF AutoStop
    <2> QED BY <1>5, <2>1 DEF Stops, AutoStop
  <1>6. CASE StopAutoTool
    BY <1>6 DEF Stops, StopAutoTool
  <1>7. ASSUME NEW j \in Jobs, AutoStart(j) PROVE Creates(j)
    <2>1. trouble <= trouble'
      BY <1>7, SwitchOK DEF AutoStart
    <2> QED BY <1>7, <2>1 DEF Creates, AutoStart
  <1>8. ASSUME NEW j \in Jobs, ScheduleTask(j) PROVE Creates(j)
    BY <1>8 DEF Creates, ScheduleTask, history
  <1>9. CASE UNCHANGED vars
    BY <1>9 DEF Quiet, vars, file, history
  <1> QED BY <1>1, <1>2, <1>3, <1>4, <1>5, <1>6, <1>7, <1>8, <1>9 DEF Next

-----------------------------------------------------------------------------
(* Types.                                                                   *)

LEMMA InitType == Init => TypeOK
  <1> SUFFICES ASSUME Init PROVE TypeOK OBVIOUS
  <1> USE Calendar
  <1>1. ASSUME NEW j \in Jobs, j <= Initial
        PROVE  NextRunAfter(j, 0) \in Nat /\ Matches(j, NextRunAfter(j, 0))
    <2>1. Runnable(j, 0)
      BY <1>1, InitialAssumption
    <2> QED BY <2>1, NextRunIsFirst
  <1>2. next \in [Jobs -> Nat] /\ born \in [Jobs -> Nat] /\ rec \in [Jobs -> {"absent", "on", "off"}]
    BY <1>1 DEF Init
  <1>3. \A j \in Jobs : rec[j] # "absent" => born[j] > 0 /\ Matches(j, next[j])
    BY <1>1 DEF Init
  <1>4. cron \in [Turns -> [job : Jobs \cup {0}, fire : Nat]]
    BY DEF Init, Idle
  <1>5. runs \in [Jobs -> [0..Horizon -> Nat]]
    BY DEF Init
  <1>6. /\ now \in 0..Horizon /\ clients \in 0..MaxClients
        /\ trouble \in 0..MaxTrouble /\ others \in 0..MaxOthers
    BY DEF Init
  <1>7. /\ slot \in Turns \cup {"free", "other"} /\ stopped \subseteq Sessions
        /\ {enabled, modeFile, stopSeen, grace, watched} \subseteq BOOLEAN
    BY DEF Init
  <1> QED BY <1>2, <1>3, <1>4, <1>5, <1>6, <1>7 DEF TypeOK

\* A record with a rank and a plan, as the file has it.
FileOK ==
  /\ rec \in [Jobs -> {"absent", "on", "off"}]
  /\ born \in [Jobs -> Nat] /\ next \in [Jobs -> Nat]
  /\ \A j \in Jobs : rec[j] # "absent" => born[j] > 0 /\ Matches(j, next[j])

LEMMA AppendType ==
  ASSUME TypeOK, FinitelyMany, NEW j \in Jobs, Append(j)
  PROVE  FileOK' /\ FinitelyMany' /\ born'[j] > 0 /\ \A i \in Jobs : i # j => born'[i] = born[i]
  <1> DEFINE B == {i \in Jobs : born[i] > 0}
  <1>1. now \in Nat /\ IsFiniteSet(B)
    BY DEF TypeOK, FinitelyMany
  <1>2. Cardinality(B) \in Nat
    BY <1>1, FS_CardinalityType
  <1>3. NextRunAfter(j, now) \in Nat /\ Matches(j, NextRunAfter(j, now))
    BY <1>1, NextRunIsFirst DEF Append
  <1>4. born' = [born EXCEPT ![j] = 1 + Cardinality(B)]
    BY DEF Append
  <1> HIDE DEF B
  <1>5. born' \in [Jobs -> Nat] /\ born'[j] > 0 /\ \A i \in Jobs : i # j => born'[i] = born[i]
    BY <1>2, <1>4 DEF TypeOK
  <1>6. FileOK'
    BY <1>3, <1>5 DEF Append, TypeOK, FileOK
  <1>7. {i \in Jobs : born'[i] > 0} = B \cup {j}
    BY <1>5 DEF B
  <1> QED BY <1>1, <1>5, <1>6, <1>7, FS_AddElement DEF FinitelyMany

LEMMA CronTurnEndsType ==
  ASSUME TypeOK, CronOK, NEW k \in Turns, CronTurnEnds(k)
  PROVE  /\ FileOK' /\ trouble' \in 0..MaxTrouble /\ others' \in 0..MaxOthers
         /\ cron' \in [Turns -> [job : Jobs \cup {0}, fire : Nat]]
  <1> USE TroubleCounts, Calendar
  <1> DEFINE j == cron[k].job
             f == cron[k].fire
  <1>1. j \in Jobs /\ f \in Nat /\ born[j] > 0
    BY DEF CronTurnEnds, CronOK
  <1>2. trouble' \in 0..MaxTrouble /\ others' \in 0..MaxOthers
    BY DEF CronTurnEnds, TypeOK
  <1>3. cron' \in [Turns -> [job : Jobs \cup {0}, fire : Nat]]
    BY DEF CronTurnEnds, TypeOK, Idle
  <1>4. born' = born
    BY DEF CronTurnEnds
  <1>5. ASSUME UNCHANGED <<rec, next>> PROVE FileOK'
    BY <1>4, <1>5 DEF TypeOK, FileOK
  <1>6. ASSUME rec[j] # "absent", Disable(j) PROVE FileOK'
    BY <1>1, <1>4, <1>6 DEF Disable, TypeOK, FileOK
  <1>7. ASSUME MarkRan(j, f) PROVE FileOK'
    <2>1. CASE IsOneShot(j)
      BY <1>1, <1>4, <1>7, <2>1 DEF MarkRan, TypeOK, FileOK
    <2>2. CASE ~IsOneShot(j)
      <3>1. NextRunAfter(j, f) \in Nat /\ Matches(j, NextRunAfter(j, f))
        BY <1>1, <1>7, <2>2, NextRunIsFirst DEF MarkRan
      <3>2. rec' = rec /\ next' = [next EXCEPT ![j] = NextRunAfter(j, f)]
        BY <1>7, <2>2 DEF MarkRan
      <3> HIDE DEF f
      <3> QED BY <1>1, <1>4, <3>1, <3>2 DEF TypeOK, FileOK
    <2> QED BY <2>1, <2>2
  <1>8. FileOK'
    BY <1>5, <1>6, <1>7 DEF CronTurnEnds
  <1> QED BY <1>2, <1>3, <1>8

\* The records that were created.
LEMMA SameRecords == FinitelyMany /\ UNCHANGED born => FinitelyMany'
  BY DEF FinitelyMany

LEMMA NextType ==
  ASSUME TypeOK, FinitelyMany, CronOK, [Next]_vars
  PROVE  TypeOK' /\ FinitelyMany'
  <1> USE TroubleCounts, Calendar, SameRecords
  <1>1. CASE Advance
    <2>1. now' \in 0..Horizon
      BY <1>1 DEF Advance, TypeOK
    <2> QED BY <1>1, <2>1 DEF Advance, file, mode, stream, history, bounds, TypeOK
  <1>2. CASE OtherTurn
    <2>1. others' \in 0..MaxOthers /\ slot' \in Turns \cup {"free", "other"}
      BY <1>2 DEF OtherTurn, TypeOK
    <2>2. UNCHANGED <<now, rec, next, born, cron, enabled, modeFile, stopSeen, clients, grace,
                      trouble, runs, stopped, watched>>
      BY <1>2 DEF OtherTurn, file, mode, stream, history
    <2> QED BY <2>1, <2>2 DEF TypeOK
  <1>13. CASE Connect \/ Disconnect \/ OrphanStop
    <2>1. clients' \in 0..MaxClients
      BY <1>13 DEF Connect, Disconnect, OrphanStop, TypeOK
    <2>3. grace' \in BOOLEAN
      BY Zenon, <1>13 DEF Connect, Disconnect, OrphanStop, TypeOK
    <2>4. watched' \in BOOLEAN /\ enabled' \in BOOLEAN
      BY Zenon, <1>13 DEF Connect, Disconnect, OrphanStop, mode, history, TypeOK
    <2>2. UNCHANGED <<now, rec, next, born, cron, slot, modeFile, stopSeen, trouble, others,
                      runs, stopped>>
      BY <1>13 DEF Connect, Disconnect, OrphanStop, file, mode, bounds, history
    <2> QED BY <2>1, <2>2, <2>3, <2>4 DEF TypeOK
  <1>3. CASE StopAutoStep
    <2>1. /\ enabled' \in BOOLEAN /\ modeFile' \in BOOLEAN /\ watched' \in BOOLEAN
          /\ trouble' \in 0..MaxTrouble /\ others' \in 0..MaxOthers
      BY <1>3, SwitchOK DEF StopAutoStep, mode, TypeOK
    <2> QED BY <1>3, <2>1 DEF StopAutoStep, file, stream, TypeOK
  <1>4. ASSUME NEW on \in BOOLEAN, CronMode(on) PROVE TypeOK' /\ FinitelyMany'
    <2>1. /\ enabled' \in BOOLEAN /\ modeFile' \in BOOLEAN /\ watched' \in BOOLEAN
          /\ trouble' \in 0..MaxTrouble /\ others' \in 0..MaxOthers
      BY <1>4, SwitchOK DEF CronMode
    <2> QED BY <1>4, <2>1 DEF CronMode, file, stream, TypeOK
  <1>5. CASE AutoStop \/ StopAutoTool
    <2>1. /\ enabled' \in BOOLEAN /\ modeFile' \in BOOLEAN /\ watched' \in BOOLEAN
          /\ trouble' \in 0..MaxTrouble /\ others' \in 0..MaxOthers
      BY <1>5, SwitchOK DEF AutoStop, StopAutoTool, mode, TypeOK
    <2>2. FileOK' /\ stopped' \subseteq Sessions /\ UNCHANGED <<born, runs>>
      BY <1>5 DEF AutoStop, StopAutoTool, DisableSessions, TypeOK, FileOK
    <2> QED BY <1>5, <2>1, <2>2 DEF AutoStop, StopAutoTool, stream, TypeOK, FileOK
  <1>6. ASSUME NEW j \in Jobs, AutoStart(j) PROVE TypeOK' /\ FinitelyMany'
    <2>1. /\ enabled' \in BOOLEAN /\ modeFile' \in BOOLEAN /\ watched' \in BOOLEAN
          /\ trouble' \in 0..MaxTrouble /\ others' \in 0..MaxOthers
      BY <1>6, SwitchOK DEF AutoStart
    <2>2. FileOK' /\ FinitelyMany'
      BY <1>6, AppendType DEF AutoStart
    <2> QED BY <1>6, <2>1, <2>2 DEF AutoStart, stream, TypeOK, FileOK
  <1>7. ASSUME NEW j \in Jobs, ScheduleTask(j) PROVE TypeOK' /\ FinitelyMany'
    <2>1. FileOK' /\ FinitelyMany'
      BY <1>7, AppendType DEF ScheduleTask
    <2> QED BY <1>7, <2>1 DEF ScheduleTask, mode, stream, history, TypeOK, FileOK
  <1>8. ASSUME NEW k \in Turns, Tick(k) PROVE TypeOK' /\ FinitelyMany'
    <2>1. PICK j \in Due : /\ cron' = [cron EXCEPT ![k] = [job |-> j, fire |-> next[j]]]
                           /\ runs' = [runs EXCEPT ![j][next[j]] = @ + 1]
      BY <1>8 DEF Tick
    <2>2. j \in Jobs /\ next[j] \in 0..Horizon /\ next[j] \in Nat
      BY <2>1 DEF Due, TypeOK
    <2>3. cron' \in [Turns -> [job : Jobs \cup {0}, fire : Nat]]
      BY <2>1, <2>2 DEF TypeOK
    <2>4. runs' \in [Jobs -> [0..Horizon -> Nat]]
      <3> DEFINE t == next[j]
      <3>1. runs' = [runs EXCEPT ![j] = [runs[j] EXCEPT ![t] = runs[j][t] + 1]]
        BY <2>1, <2>2 DEF TypeOK
      <3>2. t \in 0..Horizon
        BY <2>2
      <3> HIDE DEF t
      <3>3. runs[j] \in [0..Horizon -> Nat]
        BY <2>2 DEF TypeOK
      <3>4. [runs[j] EXCEPT ![t] = runs[j][t] + 1] \in [0..Horizon -> Nat]
        BY <3>2, <3>3
      <3> QED BY <2>2, <3>1, <3>4 DEF TypeOK
    <2> QED BY <1>8, <2>3, <2>4 DEF Tick, file, mode, stream, bounds, TypeOK
  <1>9. ASSUME NEW k \in Turns, CronTurnEnds(k) PROVE TypeOK' /\ FinitelyMany'
    <2>1. slot' \in Turns \cup {"free", "other"}
      BY <1>9 DEF CronTurnEnds, TypeOK
    <2> QED BY <1>9, <2>1, CronTurnEndsType
            DEF CronTurnEnds, mode, stream, history, TypeOK, FileOK
  <1>10. CASE Release
    BY <1>10 DEF Release, file, mode, stream, history, TypeOK
  <1>11. CASE Restart
    <2>1. trouble' \in 0..MaxTrouble /\ others' = others
      BY <1>11 DEF Restart
    <2>2. cron' \in [Turns -> [job : Jobs \cup {0}, fire : Nat]]
      BY <1>11 DEF Restart, Idle
    <2>3. UNCHANGED <<now, rec, next, born, modeFile, runs, stopped>>
      BY <1>11 DEF Restart, file
    <2>4. /\ slot' = "free" /\ enabled' \in BOOLEAN /\ clients' \in 0..MaxClients
          /\ stopSeen' = FALSE /\ grace' = FALSE /\ watched' = FALSE
      BY <1>11 DEF Restart, TypeOK
    <2> QED BY <2>1, <2>2, <2>3, <2>4 DEF TypeOK
  <1>12. CASE UNCHANGED vars
    BY <1>12 DEF vars, file, mode, stream, bounds, history, TypeOK
  <1> QED BY <1>1, <1>2, <1>3, <1>4, <1>5, <1>6, <1>7, <1>8, <1>9, <1>10, <1>11, <1>12, <1>13 DEF Next

-----------------------------------------------------------------------------
(* What the tick and the end of its turn do.                                *)

\* The tick hands the slot to a turn for the planned instant of an enabled record.
LEMMA TickIs ==
  ASSUME TypeOK, NEW k \in Turns, Tick(k)
  PROVE  \E j \in Jobs :
           /\ rec[j] = "on" /\ next[j] \in 0..Horizon
           /\ cron[k] = Idle /\ slot = "free" /\ slot' = k
           /\ cron'[k] = [job |-> j, fire |-> next[j]]
           /\ \A l \in Turns : l # k => cron'[l] = cron[l]
           /\ runs'[j][next[j]] = runs[j][next[j]] + 1
           /\ \A i \in Jobs, t \in 0..Horizon :
                ~(i = j /\ t = next[j]) => runs'[i][t] = runs[i][t]
           /\ UNCHANGED <<rec, next, born, stopped, trouble>>
  <1>1. PICK j \in Due : /\ cron' = [cron EXCEPT ![k] = [job |-> j, fire |-> next[j]]]
                         /\ runs' = [runs EXCEPT ![j][next[j]] = @ + 1]
    BY DEF Tick
  <1>2. j \in Jobs /\ rec[j] = "on" /\ next[j] \in 0..Horizon
    <2>1. j \in Jobs /\ rec[j] = "on" /\ next[j] <= now
      BY <1>1 DEF Due
    <2>2. next[j] \in Nat /\ now \in 0..Horizon
      BY <2>1 DEF TypeOK
    <2> QED BY <2>1, <2>2, Calendar
  <1> DEFINE n == next[j]
  <1>3. runs' = [runs EXCEPT ![j] = [runs[j] EXCEPT ![n] = runs[j][n] + 1]]
    BY <1>1, <1>2 DEF TypeOK
  <1>4. \A i \in Jobs : runs[i] \in [0..Horizon -> Nat]
    BY DEF TypeOK
  <1>5. n \in 0..Horizon
    BY <1>2
  <1> HIDE DEF n
  <1>6. runs'[j] = [runs[j] EXCEPT ![n] = runs[j][n] + 1] /\ \A i \in Jobs : i # j => runs'[i] = runs[i]
    BY <1>2, <1>3 DEF TypeOK
  <1>7. runs'[j][n] = runs[j][n] + 1 /\ \A t \in 0..Horizon : t # n => runs'[j][t] = runs[j][t]
    BY <1>2, <1>4, <1>5, <1>6
  <1>8. \A i \in Jobs, t \in 0..Horizon : ~(i = j /\ t = n) => runs'[i][t] = runs[i][t]
    BY <1>6, <1>7
  <1>9. /\ cron'[k] = [job |-> j, fire |-> n]
        /\ \A l \in Turns : l # k => cron'[l] = cron[l]
    BY <1>1 DEF TypeOK, n
  <1>10. /\ cron[k] = Idle /\ slot = "free" /\ slot' = k
         /\ UNCHANGED <<rec, next, born, stopped, trouble>>
    BY DEF Tick, file, bounds
  <1> USE DEF n
  <1> QED BY <1>2, <1>7, <1>8, <1>9, <1>10

\* The record stays as it was, at a price unless it is gone.
Kept(j) == UNCHANGED <<rec, next>> /\ (rec[j] = "absent" \/ trouble' = trouble + 1)
\* It is removed or disabled, and never enabled again.
Dropped(j) ==
  /\ next' = next /\ rec'[j] \in {"absent", "off"}
  /\ \A i \in Jobs : i # j => rec'[i] = rec[i]
\* It is planned for the first match after the instant that was run.
Replanned(j, f) ==
  /\ rec' = rec /\ next'[j] \in Nat /\ next'[j] > f /\ Matches(j, next'[j])
  /\ \A t \in Nat : f < t /\ t < next'[j] => ~Matches(j, t)
  /\ \A i \in Jobs : i # j => next'[i] = next[i]

LEMMA MarkIs ==
  ASSUME TypeOK, CronOK, NEW k \in Turns, CronTurnEnds(k)
  PROVE  /\ cron[k] # Idle /\ cron'[k] = Idle
         /\ \A l \in Turns : l # k => cron'[l] = cron[l]
         /\ slot' = IF slot = k THEN "free" ELSE slot
         /\ trouble \in Nat /\ trouble' \in Nat /\ trouble <= trouble'
         /\ UNCHANGED <<born, runs, stopped>>
         /\ Kept(cron[k].job) \/ Dropped(cron[k].job) \/ Replanned(cron[k].job, cron[k].fire)
  <1> DEFINE j == cron[k].job
             f == cron[k].fire
  <1>1. j \in Jobs /\ f \in Nat
    BY Calendar DEF CronTurnEnds, CronOK
  <1>2. trouble \in Nat /\ trouble' \in Nat /\ trouble <= trouble'
    BY TroubleCounts DEF CronTurnEnds
  <1>3. ASSUME rec[j] = "absent" PROVE Kept(j)
    BY <1>3 DEF CronTurnEnds, Kept
  <1>4. ASSUME Trouble, UNCHANGED <<rec, next>> PROVE Kept(j)
    BY <1>4, TroubleCounts DEF Kept
  <1>5. ASSUME Disable(j) PROVE Dropped(j)
    <2>1. next' = next /\ rec' = [rec EXCEPT ![j] = "off"]
      BY <1>5 DEF Disable
    <2> HIDE DEF j
    <2> QED BY <1>1, <2>1 DEF Dropped, TypeOK
  <1>6. ASSUME MarkRan(j, f) PROVE Dropped(j) \/ Replanned(j, f)
    <2>1. CASE IsOneShot(j)
      <3>1. next' = next /\ rec' = [rec EXCEPT ![j] = "absent"]
        BY <1>6, <2>1 DEF MarkRan
      <3> HIDE DEF j
      <3> QED BY <1>1, <3>1 DEF Dropped, TypeOK
    <2>2. CASE ~IsOneShot(j)
      <3> DEFINE n == NextRunAfter(j, f)
      <3>1. /\ n \in Nat /\ n > f /\ Matches(j, n)
            /\ \A t \in Nat : f < t /\ t < n => ~Matches(j, t)
        BY <1>1, <1>6, <2>2, NextRunIsFirst DEF MarkRan
      <3>2. rec' = rec /\ next' = [next EXCEPT ![j] = n]
        BY <1>6, <2>2 DEF MarkRan
      <3> HIDE DEF j, f, n
      <3>3. next'[j] = n /\ \A i \in Jobs : i # j => next'[i] = next[i]
        BY <1>1, <3>2 DEF TypeOK
      <3> QED BY <3>1, <3>2, <3>3 DEF Replanned
    <2> QED BY <2>1, <2>2
  <1>7. Kept(j) \/ Dropped(j) \/ Replanned(j, f)
    BY <1>3, <1>4, <1>5, <1>6 DEF CronTurnEnds
  <1>8. cron[k] # Idle /\ cron'[k] = Idle /\ \A l \in Turns : l # k => cron'[l] = cron[l]
    BY DEF CronTurnEnds, TypeOK
  <1>9. slot' = (IF slot = k THEN "free" ELSE slot) /\ UNCHANGED <<born, runs, stopped>>
    BY DEF CronTurnEnds, history
  <1> QED BY <1>2, <1>7, <1>8, <1>9

-----------------------------------------------------------------------------
(* Cron turns and records.                                                  *)

LEMMA NextCron == ASSUME TypeOK, FinitelyMany, CronOK, [Next]_vars PROVE CronOK'
  <1> USE Calendar
  <1>1. CASE Quiet
    BY <1>1 DEF Quiet, CronOK
  <1>2. CASE Stops
    <2>1. \A j \in Jobs : rec[j] = "absent" => rec'[j] = "absent"
      BY <1>2 DEF Stops, DisableSessions
    <2> QED BY <1>2, <2>1 DEF Stops, DisableSessions, CronOK
  <1>3. ASSUME NEW j \in Jobs, Creates(j) PROVE CronOK'
    <2>1. born'[j] > 0 /\ \A i \in Jobs : i # j => born'[i] = born[i] /\ rec'[i] = rec[i]
      BY <1>3, AppendType DEF Creates, Append, TypeOK
    <2>2. \A i \in Jobs : born[i] > 0 => born'[i] > 0
      BY <2>1
    <2>3. ASSUME NEW i \in Jobs, born'[i] = 0
          PROVE  rec'[i] = "absent" /\ \A t \in 0..Horizon : runs'[i][t] = 0
      <3>1. i # j
        BY <2>1, <2>3
      <3>2. born[i] = 0 /\ rec'[i] = rec[i] /\ runs' = runs
        BY <1>3, <2>1, <2>3, <3>1 DEF Creates
      <3> QED BY <3>2 DEF CronOK
    <2> QED BY <1>3, <2>2, <2>3 DEF Creates, CronOK
  <1>4. ASSUME NEW k \in Turns, Tick(k) PROVE CronOK'
    <2>1. PICK j \in Jobs :
           /\ rec[j] = "on" /\ next[j] \in 0..Horizon
           /\ cron[k] = Idle /\ slot = "free" /\ slot' = k
           /\ cron'[k] = [job |-> j, fire |-> next[j]]
           /\ \A l \in Turns : l # k => cron'[l] = cron[l]
           /\ runs'[j][next[j]] = runs[j][next[j]] + 1
           /\ \A i \in Jobs, t \in 0..Horizon :
                ~(i = j /\ t = next[j]) => runs'[i][t] = runs[i][t]
           /\ UNCHANGED <<rec, next, born, stopped, trouble>>
      BY <1>4, TickIs
    <2>2. born[j] > 0 /\ runs[j][next[j]] \in Nat
      BY <2>1 DEF TypeOK
    <2>3. \A i \in Jobs, t \in 0..Horizon : runs[i][t] > 0 => runs'[i][t] > 0
      BY <2>1, <2>2
    <2>4. cron'[k] # Idle
      BY <2>1 DEF Idle
    <2>5. \A l \in Turns : cron'[l] # Idle =>
             /\ cron'[l].job \in Jobs /\ born'[cron'[l].job] > 0
             /\ cron'[l].fire \in 0..Horizon /\ runs'[cron'[l].job][cron'[l].fire] > 0
      <3>1. ASSUME NEW l \in Turns, l # k, cron'[l] # Idle
            PROVE  /\ cron'[l].job \in Jobs /\ born'[cron'[l].job] > 0
                   /\ cron'[l].fire \in 0..Horizon /\ runs'[cron'[l].job][cron'[l].fire] > 0
        <4>1. /\ cron[l].job \in Jobs /\ born[cron[l].job] > 0
              /\ cron[l].fire \in 0..Horizon /\ runs[cron[l].job][cron[l].fire] > 0
          BY <2>1, <3>1 DEF CronOK
        <4> QED BY <2>1, <2>3, <3>1, <4>1
      <3>2. /\ cron'[k].job \in Jobs /\ born'[cron'[k].job] > 0
            /\ cron'[k].fire \in 0..Horizon /\ runs'[cron'[k].job][cron'[k].fire] > 0
        BY <2>1, <2>2
      <3> QED BY <3>1, <3>2
    <2> QED BY <2>1, <2>2, <2>4, <2>5 DEF CronOK
  <1>5. ASSUME NEW k \in Turns, CronTurnEnds(k) PROVE CronOK'
    <2> DEFINE j == cron[k].job
    <2>1. born[j] > 0 /\ j \in Jobs
      BY <1>5, MarkIs DEF CronOK
    <2>2. \A i \in Jobs : i # j => rec'[i] = rec[i]
      BY <1>5, MarkIs DEF Kept, Dropped, Replanned
    <2> HIDE DEF j
    <2> QED BY <1>5, <2>1, <2>2, MarkIs DEF CronOK
  <1>6. CASE Release
    BY <1>6 DEF Release, file, history, CronOK
  <1>7. CASE Restart
    BY <1>7 DEF Restart, file, CronOK
  <1> QED BY <1>1, <1>2, <1>3, <1>4, <1>5, <1>6, <1>7, Kinds

-----------------------------------------------------------------------------
(* Sessions.                                                                *)

LEMMA NextStop == ASSUME TypeOK, FinitelyMany, CronOK, StopOK, [Next]_vars PROVE StopOK'
  <1> USE DEF StopOK, StopIsFinal
  <1>0. \A j \in Sessions : j \in Jobs
    BY DEF Sessions
  <1>1. CASE Quiet
    BY <1>1 DEF Quiet
  <1>2. CASE Stops
    <2>1. /\ \A j \in Jobs : rec'[j] = IF j \in Sessions /\ rec[j] = "on" THEN "off" ELSE rec[j]
          /\ stopped' = stopped \cup {j \in Sessions : rec[j] = "on"} /\ born' = born
      BY <1>2 DEF Stops, DisableSessions
    <2>2. \A j \in Sessions : rec'[j] # "on"
      BY <1>0, <2>1
    <2>3. \A j \in stopped' : j \in Sessions /\ born'[j] > 0
      BY <1>0, <2>1 DEF TypeOK
    <2> QED BY <2>2, <2>3
  <1>3. ASSUME NEW j \in Jobs, Creates(j) PROVE StopOK'
    <2>1. born'[j] > 0 /\ \A i \in Jobs : i # j => born'[i] = born[i] /\ rec'[i] = rec[i]
      BY <1>3, AppendType DEF Creates, Append, TypeOK
    <2>2. j \notin stopped /\ stopped' = stopped /\ stopped \subseteq Jobs
      BY <1>0, <1>3 DEF Creates, Append, TypeOK
    <2>3. \A i \in Sessions : i # j => i \in Jobs /\ rec'[i] = rec[i]
      BY <1>0, <2>1
    <2>4. \A i, l \in Sessions : rec'[i] = "on" /\ rec'[l] = "on" => i = l
      BY <1>3, <2>3 DEF Creates
    <2> QED BY <2>1, <2>2, <2>4
  <1>4. ASSUME NEW k \in Turns, Tick(k) PROVE StopOK'
    <2>1. UNCHANGED <<rec, born, stopped>>
      BY <1>4, TickIs
    <2> QED BY <2>1
  <1>5. ASSUME NEW k \in Turns, CronTurnEnds(k) PROVE StopOK'
    <2>1. \A i \in Jobs : rec'[i] = "on" => rec[i] = "on"
      BY <1>5, MarkIs DEF Kept, Dropped, Replanned
    <2>2. UNCHANGED <<born, stopped>> /\ stopped \subseteq Jobs
      BY <1>0, <1>5, MarkIs DEF TypeOK
    <2> QED BY <1>0, <2>1, <2>2
  <1>6. CASE Release
    BY <1>6 DEF Release, file, history
  <1>7. CASE Restart
    BY <1>7 DEF Restart, file
  <1> QED BY <1>1, <1>2, <1>3, <1>4, <1>5, <1>6, <1>7, Kinds

LEMMA NextWatched == ASSUME TypeOK, NeverUnwatched, [Next]_vars PROVE NeverUnwatched'
  <1> USE DEF NeverUnwatched
  <1>0. clients \in Nat
    BY Calendar DEF TypeOK
  <1>1. CASE UNCHANGED <<enabled, watched, clients, grace>>
    BY <1>1
  <1>2. ASSUME watched' = (clients > 0), clients' = clients PROVE NeverUnwatched'
    <2>1. CASE clients = 0
      <3>1. ~(clients > 0)
        BY <1>0, <2>1
      <3>2. ~watched'
        BY Zenon, <1>2, <3>1
      <3> QED BY <3>2
    <2>2. CASE clients # 0
      BY <1>2, <2>2
    <2> QED BY <2>1, <2>2
  <1>3. CASE AutoStop
    BY <1>2, <1>3 DEF AutoStop, SetCronMode, stream
  <1>4. CASE StopAutoStep
    <2>1. clients' = clients /\ grace' = grace
      BY <1>4 DEF StopAutoStep, stream
    <2>2. CASE watched' = (clients > 0)
      BY <1>2, <2>1, <2>2
    <2>3. CASE UNCHANGED <<enabled, modeFile, watched>>
      BY <1>1, <2>1, <2>3
    <2> QED BY <1>4, <2>2, <2>3 DEF StopAutoStep, SetCronMode, mode
  <1>5. ASSUME NEW j \in Jobs, AutoStart(j) PROVE NeverUnwatched'
    BY <1>2, <1>5 DEF AutoStart, SetCronMode, stream
  <1>6. ASSUME NEW on \in BOOLEAN, CronMode(on) PROVE NeverUnwatched'
    BY <1>2, <1>6 DEF CronMode, SetCronMode, stream
  <1>7. CASE Connect
    BY <1>0, <1>7 DEF Connect
  <1>8. CASE Disconnect
    BY <1>8 DEF Disconnect
  <1>9. CASE OrphanStop
    <2>1. CASE clients > 0
      BY <1>0, <1>9, <2>1 DEF OrphanStop
    <2>2. CASE ~(clients > 0)
      <3>1. ~enabled'
        BY Zenon, <1>9, <2>2 DEF OrphanStop
      <3> QED BY <3>1
    <2> QED BY <2>1, <2>2
  <1>10. CASE Restart
    BY <1>10 DEF Restart
  <1>11. CASE Advance \/ OtherTurn \/ StopAutoTool \/ Release
    BY <1>1, <1>11 DEF Advance, OtherTurn, StopAutoTool, Release, mode, stream, history
  <1>12. ASSUME NEW k \in Turns, Tick(k) \/ CronTurnEnds(k) PROVE NeverUnwatched'
    BY <1>1, <1>12 DEF Tick, CronTurnEnds, mode, stream, history
  <1>13. ASSUME NEW j \in Jobs, ScheduleTask(j) PROVE NeverUnwatched'
    BY <1>1, <1>13 DEF ScheduleTask, mode, stream, history
  <1>14. CASE UNCHANGED vars
    BY <1>1, <1>14 DEF vars, mode, stream, history
  <1> QED BY <1>3, <1>4, <1>5, <1>6, <1>7, <1>8, <1>9, <1>10, <1>11, <1>12, <1>13, <1>14 DEF Next

-----------------------------------------------------------------------------
(* The backlog.                                                             *)

\* The instants of a record with the planned one, and what lies between two of them.
Instants(j) == Ran(j) \cup {next[j]}

LEMMA InstantsAreNumbers ==
  ASSUME TypeOK, NEW j \in Jobs
  PROVE  Ran(j) \subseteq Nat /\ next[j] \in Nat /\ Instants(j) \subseteq Nat
  BY Calendar DEF TypeOK, Ran, Instants

\* A record whose runs and plan stay keeps its backlog.
LEMMA SameGap ==
  ASSUME NEW j \in Jobs, NoGap(j), UNCHANGED runs, next'[j] = next[j]
  PROVE  NoGap(j)'
  BY DEF NoGap, Ran

\* The planned instant is run.
LEMMA RunGap ==
  ASSUME TypeOK, TypeOK', NEW j \in Jobs, NoGap(j), next'[j] = next[j],
         \A t \in 0..Horizon : runs[j][t] > 0 => runs'[j][t] > 0,
         \A t \in 0..Horizon : runs'[j][t] > 0 => runs[j][t] > 0 \/ t = next[j]
  PROVE  NoGap(j)'
  <1>1. Ran(j) \subseteq Ran(j)' /\ Ran(j)' \subseteq Ran(j) \cup {next[j]}
    BY DEF Ran
  <1> QED BY <1>1 DEF NoGap

\* The plan goes on after an instant that was run, or back to after one.
LEMMA ReplanGap ==
  ASSUME TypeOK, TypeOK', NEW j \in Jobs, NEW f \in Ran(j), NoGap(j), runs' = runs,
         next'[j] \in Nat, next'[j] > f,
         \A t \in Nat : f < t /\ t < next'[j] => ~Matches(j, t)
  PROVE  NoGap(j)'
  <1>1. Ran(j)' = Ran(j) /\ f \in Nat /\ Ran(j) \subseteq Nat
    BY InstantsAreNumbers DEF Ran
  <1>2. ASSUME NEW w \in Ran(j), NEW u \in Ran(j), NEW t \in w..(u - 1), Matches(j, t)
        PROVE  t \in Ran(j)
    BY <1>2 DEF NoGap
  <1>3. ASSUME NEW w \in Ran(j), NEW t \in w..(next'[j] - 1), Matches(j, t) PROVE t \in Ran(j)
    <2>1. t \in Nat /\ t < next'[j] /\ w \in Nat /\ w <= t
      BY <1>1, <1>3
    <2>2. t <= f
      BY <1>1, <1>3, <2>1
    <2>3. CASE t = f
      BY <2>3
    <2>4. CASE t < f
      <3>1. t \in w..(f - 1)
        BY <1>1, <2>1, <2>4
      <3> QED BY <1>2, <1>3, <3>1
    <2> QED BY <1>1, <2>1, <2>2, <2>3, <2>4
  <1>4. ASSUME NEW u \in Ran(j), NEW t \in (next'[j])..(u - 1), Matches(j, t) PROVE t \in Ran(j)
    <2>1. u \in Nat /\ t \in f..(u - 1)
      BY <1>1
    <2> QED BY <1>2, <1>4, <2>1
  <1>5. ASSUME NEW t \in (next'[j])..(next'[j] - 1) PROVE FALSE
    OBVIOUS
  <1> QED BY <1>1, <1>2, <1>3, <1>4, <1>5 DEF NoGap

LEMMA NextGap ==
  ASSUME TypeOK, FinitelyMany, CronOK, GapOK, [Next]_vars, TypeOK'
  PROVE  GapOK'
  <1> SUFFICES ASSUME NEW j \in Jobs, born'[j] > 0 PROVE NoGap(j)'
    BY DEF GapOK
  <1>1. CASE Quiet \/ Stops \/ Release \/ Restart
    <2>1. UNCHANGED <<runs, next, born>>
      BY <1>1 DEF Quiet, Stops, DisableSessions, Release, Restart, file, history
    <2> QED BY <2>1, SameGap DEF GapOK
  <1>2. ASSUME NEW i \in Jobs, Creates(i) PROVE NoGap(j)'
    <2>1. CASE i = j
      <3>1. \A t \in 0..Horizon : runs'[j][t] = 0
        BY <1>2, <2>1 DEF Creates, Append, CronOK
      <3>2. Ran(j)' = {}
        BY <3>1 DEF Ran
      <3>3. next'[j] \in Nat
        BY DEF TypeOK
      <3> QED BY <3>2, <3>3 DEF NoGap
    <2>2. CASE i # j
      <3>1. born'[j] = born[j] /\ next'[j] = next[j] /\ runs' = runs
        BY <1>2, <2>2, AppendType DEF Creates, Append, TypeOK
      <3> QED BY <3>1, SameGap DEF GapOK
    <2> QED BY <2>1, <2>2
  <1>3. ASSUME NEW k \in Turns, Tick(k) PROVE NoGap(j)'
    <2>1. PICK i \in Jobs :
           /\ rec[i] = "on" /\ next[i] \in 0..Horizon
           /\ runs'[i][next[i]] = runs[i][next[i]] + 1
           /\ \A l \in Jobs, t \in 0..Horizon :
                ~(l = i /\ t = next[i]) => runs'[l][t] = runs[l][t]
           /\ UNCHANGED <<next, born>>
      BY <1>3, TickIs
    <2>2. \A t \in 0..Horizon : runs[j][t] \in Nat
      BY DEF TypeOK
    <2>3. /\ \A t \in 0..Horizon : runs[j][t] > 0 => runs'[j][t] > 0
          /\ \A t \in 0..Horizon : runs'[j][t] > 0 => runs[j][t] > 0 \/ t = next[j]
      BY <2>1, <2>2
    <2> QED BY <2>1, <2>3, RunGap DEF GapOK
  <1>4. ASSUME NEW k \in Turns, CronTurnEnds(k) PROVE NoGap(j)'
    <2>1. NoGap(j) /\ UNCHANGED runs
      BY <1>4, MarkIs DEF GapOK
    <2>2. CASE next'[j] = next[j]
      BY <2>1, <2>2, SameGap
    <2>3. CASE next'[j] # next[j]
      <3> DEFINE f == cron[k].fire
      <3>1. cron[k].job = j /\ Replanned(j, f)
        BY <1>4, <2>3, MarkIs DEF Kept, Dropped, Replanned
      <3>2. f \in Ran(j)
        BY <1>4, <3>1, MarkIs DEF CronOK, Ran
      <3> HIDE DEF f
      <3> QED BY <2>1, <3>1, <3>2, ReplanGap DEF Replanned
    <2> QED BY <2>2, <2>3
  <1> QED BY <1>1, <1>2, <1>3, <1>4, Kinds

-----------------------------------------------------------------------------
(* The budget of an instant.                                                *)

LEMMA Numbers ==
  ASSUME TypeOK, NEW j \in Jobs, NEW t \in 0..Horizon, Budget(j, t)
  PROVE  /\ runs[j][t] \in Nat /\ trouble \in Nat /\ t \in Nat /\ next[j] \in Nat
         /\ Cardinality(Behind(j, t)) \in Nat
         /\ ToCome(j, t) \in {0, 1}
         /\ Open(j, t) => runs[j][t] + 1 + Cardinality(Behind(j, t)) <= 1 + trouble
         /\ runs[j][t] + Cardinality(Behind(j, t)) <= 1 + trouble
  <1>1. runs[j][t] \in Nat /\ trouble \in Nat /\ t \in Nat /\ next[j] \in Nat
    BY Calendar DEF TypeOK
  <1>2. Cardinality(Behind(j, t)) \in Nat
    BY FS_CardinalityType DEF Budget
  <1>3. ToCome(j, t) \in {0, 1} /\ (Open(j, t) => ToCome(j, t) = 1)
    BY DEF ToCome
  <1>4. runs[j][t] + ToCome(j, t) + Cardinality(Behind(j, t)) <= 1 + trouble
    BY DEF Budget
  <1> QED BY <1>1, <1>2, <1>3, <1>4

\* How a budget is shown to be kept: by a set that bounds the turns left behind.
LEMMA Balance ==
  ASSUME TypeOK', NEW j \in Jobs, NEW t \in 0..Horizon,
         NEW B, IsFiniteSet(B), Behind(j, t)' \subseteq B,
         runs'[j][t] + Cardinality(B) <= 1 + trouble',
         Open(j, t)' => runs'[j][t] + 1 + Cardinality(B) <= 1 + trouble'
  PROVE  Budget(j, t)'
  <1>1. /\ IsFiniteSet(Behind(j, t)') /\ Cardinality(Behind(j, t)') \in Nat
        /\ Cardinality(Behind(j, t)') <= Cardinality(B) /\ Cardinality(B) \in Nat
    BY FS_Subset, FS_CardinalityType
  <1>2. runs'[j][t] \in Nat /\ trouble' \in Nat
    BY Calendar DEF TypeOK
  <1>3. CASE Open(j, t)'
    BY <1>1, <1>2, <1>3 DEF Budget, ToCome
  <1>4. CASE ~Open(j, t)'
    BY <1>1, <1>2, <1>4 DEF Budget, ToCome
  <1> QED BY <1>3, <1>4

\* Nothing is added to the account of the instant.
LEMMA NothingMore ==
  ASSUME TypeOK, TypeOK', NEW j \in Jobs, NEW t \in 0..Horizon, Budget(j, t),
         runs'[j][t] = runs[j][t], Behind(j, t)' \subseteq Behind(j, t), trouble <= trouble',
         Open(j, t)' => Open(j, t)
  PROVE  Budget(j, t)'
  <1>1. IsFiniteSet(Behind(j, t)) /\ trouble' \in Nat
    BY Calendar DEF Budget, TypeOK
  <1> QED BY <1>1, Numbers, Balance

\* The instant may be due again, and that was paid for.
LEMMA PaidFor ==
  ASSUME TypeOK, TypeOK', NEW j \in Jobs, NEW t \in 0..Horizon, Budget(j, t),
         runs'[j][t] = runs[j][t], Behind(j, t)' \subseteq Behind(j, t), trouble' = trouble + 1
  PROVE  Budget(j, t)'
  <1>1. IsFiniteSet(Behind(j, t))
    BY DEF Budget
  <1> QED BY <1>1, Numbers, Balance

LEMMA TickBudget ==
  ASSUME TypeOK, TypeOK', NEW k \in Turns, Tick(k),
         NEW j \in Jobs, NEW t \in 0..Horizon, Budget(j, t)
  PROVE  Budget(j, t)'
  <1>1. PICK i \in Jobs :
           /\ rec[i] = "on" /\ next[i] \in 0..Horizon
           /\ cron[k] = Idle /\ slot = "free" /\ slot' = k
           /\ cron'[k] = [job |-> i, fire |-> next[i]]
           /\ \A l \in Turns : l # k => cron'[l] = cron[l]
           /\ runs'[i][next[i]] = runs[i][next[i]] + 1
           /\ \A l \in Jobs, u \in 0..Horizon :
                ~(l = i /\ u = next[i]) => runs'[l][u] = runs[l][u]
           /\ UNCHANGED <<rec, next, born, stopped, trouble>>
    BY TickIs
  <1>2. ~Holds(j) /\ Behind(j, t)' \subseteq Behind(j, t)
    BY <1>1, Calendar DEF Holds, Behind
  <1>3. Holds(j)' <=> i = j
    BY <1>1 DEF Holds
  <1>4. CASE i = j /\ t = next[j]
    <2>1. Open(j, t) /\ ~Open(j, t)'
      BY <1>1, <1>2, <1>3, <1>4, Numbers DEF Open
    <2>2. IsFiniteSet(Behind(j, t))
      BY DEF Budget
    <2> QED BY <1>1, <1>2, <1>4, <2>1, <2>2, Numbers, Balance
  <1>5. CASE ~(i = j /\ t = next[j])
    <2>1. Open(j, t)' => Open(j, t)
      BY <1>1, <1>2, <1>3, <1>5, Numbers DEF Open
    <2>2. runs'[j][t] = runs[j][t] /\ trouble <= trouble'
      BY <1>1, <1>5, Numbers
    <2> QED BY <1>2, <2>1, <2>2, NothingMore
  <1> QED BY <1>4, <1>5

LEMMA EndBudget ==
  ASSUME TypeOK, TypeOK', CronOK, NEW k \in Turns, CronTurnEnds(k),
         NEW j \in Jobs, NEW t \in 0..Horizon, Budget(j, t)
  PROVE  Budget(j, t)'
  <1> DEFINE i == cron[k].job
             f == cron[k].fire
  <1>1. /\ cron[k] # Idle /\ cron'[k].job \notin Jobs
        /\ \A l \in Turns : l # k => cron'[l] = cron[l]
        /\ slot' = IF slot = k THEN "free" ELSE slot
        /\ trouble \in Nat /\ trouble' \in Nat /\ trouble <= trouble'
        /\ runs' = runs
    BY MarkIs, Calendar DEF Idle
  <1>2. Kept(i) \/ Dropped(i) \/ Replanned(i, f)
    BY MarkIs
  <1>3. i \in Jobs /\ f \in Nat
    BY <1>1, Calendar DEF CronOK
  <1>4. Behind(j, t)' \subseteq Behind(j, t) \ {k}
    BY <1>1, Calendar DEF Behind
  <1>5. IsFiniteSet(Behind(j, t))
    BY DEF Budget
  <1>6. Holds(j)' <=> Holds(j) /\ slot # k
    BY <1>1, Calendar DEF Holds
  <1>7. Holds(j)' => cron'[slot'] = cron[slot]
    BY <1>1, Calendar DEF Holds
  <1>8. slot = k => (Holds(j) <=> i = j) /\ cron[slot].fire = f
    BY DEF Holds
  <1> HIDE DEF i, f
  <1>9. CASE i # j
    <2>1. rec'[j] = rec[j] /\ next'[j] = next[j]
      BY <1>2, <1>9 DEF Kept, Dropped, Replanned
    <2>2. Open(j, t)' => Open(j, t)
      BY <1>6, <1>7, <1>8, <1>9, <2>1 DEF Open
    <2> QED BY <1>1, <1>4, <2>2, NothingMore
  <1>10. CASE i = j /\ (Kept(j) \/ Dropped(j))
    <2>1. CASE Kept(j) /\ trouble' = trouble + 1
      BY <1>1, <1>4, <2>1, PaidFor
    <2>2. CASE rec'[j] # "on"
      <3>1. ~Open(j, t)'
        BY <2>2 DEF Open
      <3> QED BY <1>1, <1>4, <3>1, NothingMore
    <2> QED BY <1>10, <2>1, <2>2 DEF Kept, Dropped
  <1>11. CASE i = j /\ Replanned(j, f)
    <2>1. rec' = rec /\ next'[j] \in Nat /\ next'[j] > f
      BY <1>11 DEF Replanned
    <2>2. CASE f >= t
      <3>1. ~(next'[j] <= t)
        BY <1>3, <2>1, <2>2, Numbers
      <3>2. Open(j, t)' => Open(j, t)
        BY <1>6, <1>7, <2>1, <3>1 DEF Open
      <3> QED BY <1>1, <1>4, <3>2, NothingMore
    <2>3. CASE f < t /\ slot = k
      <3>1. Open(j, t)' => Open(j, t)
        BY <1>3, <1>8, <1>11, <2>1, <2>3, Numbers DEF Open
      <3> QED BY <1>1, <1>4, <3>1, NothingMore
    <2>4. CASE f < t /\ slot # k
      <3>1. k \in Behind(j, t)
        BY <1>11, <2>4 DEF Behind, i, f
      <3>2. /\ IsFiniteSet(Behind(j, t) \ {k})
            /\ Cardinality(Behind(j, t) \ {k}) = Cardinality(Behind(j, t)) - 1
        BY <1>5, <3>1, FS_RemoveElement
      <3> QED BY <1>1, <1>4, <3>2, Numbers, Balance
    <2> QED BY <1>3, <2>2, <2>3, <2>4, Numbers
  <1> QED BY <1>2, <1>9, <1>10, <1>11

LEMMA ReleaseBudget ==
  ASSUME TypeOK, TypeOK', Release, NEW j \in Jobs, NEW t \in 0..Horizon, Budget(j, t)
  PROVE  Budget(j, t)'
  <1>1. /\ slot \in Turns /\ slot' = "free" /\ trouble' = trouble + 1
        /\ UNCHANGED <<rec, next, cron, runs>>
    BY TroubleCounts DEF Release, file, history
  <1>2. ~Holds(j)' /\ Behind(j, t)' \subseteq Behind(j, t) \cup {slot}
    BY <1>1, Calendar DEF Holds, Behind
  <1>3. IsFiniteSet(Behind(j, t))
    BY DEF Budget
  <1>4. CASE Holds(j) /\ cron[slot].fire < t
    <2>1. Open(j, t)' => Open(j, t)
      <3>1. cron[slot].fire \in Nat
        BY <1>1 DEF TypeOK
      <3>2. cron[slot].fire # t
        BY <1>4, <3>1, Numbers
      <3> QED BY <1>1, <1>4, <3>2 DEF Open
    <2>2. slot \notin Behind(j, t)
      BY DEF Behind
    <2>3. /\ IsFiniteSet(Behind(j, t) \cup {slot})
          /\ Cardinality(Behind(j, t) \cup {slot}) = Cardinality(Behind(j, t)) + 1
      BY <1>3, <2>2, FS_AddElement
    <2> QED BY <1>1, <1>2, <2>1, <2>3, Numbers, Balance
  <1>5. CASE ~(Holds(j) /\ cron[slot].fire < t)
    <2>1. slot \notin Behind(j, t)'
      BY <1>1, <1>5 DEF Holds, Behind
    <2> QED BY <1>1, <1>2, <2>1, PaidFor
  <1> QED BY <1>4, <1>5

LEMMA NextBudget ==
  ASSUME TypeOK, TypeOK', FinitelyMany, CronOK, BudgetOK, [Next]_vars
  PROVE  BudgetOK'
  <1> SUFFICES ASSUME NEW j \in Jobs, NEW t \in 0..Horizon PROVE Budget(j, t)'
    BY DEF BudgetOK
  <1>0. Budget(j, t)
    BY DEF BudgetOK
  <1>1. CASE Quiet \/ Stops
    <2>1. Behind(j, t)' \subseteq Behind(j, t) /\ trouble <= trouble' /\ runs' = runs
      BY <1>1 DEF Quiet, Stops, DisableSessions, Behind
    <2>2. Open(j, t)' => Open(j, t)
      BY <1>1 DEF Quiet, Stops, DisableSessions, Open, Holds
    <2> QED BY <1>0, <2>1, <2>2, NothingMore
  <1>2. ASSUME NEW i \in Jobs, Creates(i) PROVE Budget(j, t)'
    <2>1. /\ UNCHANGED <<cron, slot, runs>> /\ trouble <= trouble' /\ born[i] = 0
          /\ \A l \in Jobs : l # i => rec'[l] = rec[l] /\ next'[l] = next[l]
      BY <1>2 DEF Creates, Append, TypeOK
    <2>2. Behind(j, t)' = Behind(j, t)
      BY <2>1 DEF Behind
    <2>3. CASE i = j
      <3>1. runs'[j][t] = 0
        BY <2>1, <2>3 DEF CronOK
      <3>2. \A k \in Turns : cron[k].job # j
        BY <2>1, <2>3, Calendar DEF CronOK, Idle
      <3>3. Behind(j, t)' \subseteq {}
        BY <2>2, <3>2 DEF Behind
      <3>4. trouble' \in Nat
        BY Calendar DEF TypeOK
      <3> QED BY <3>1, <3>3, <3>4, FS_EmptySet, Balance
    <2>4. CASE i # j
      <3>1. Open(j, t)' => Open(j, t)
        BY <2>1, <2>4 DEF Open, Holds
      <3> QED BY <1>0, <2>1, <2>2, <3>1, NothingMore
    <2> QED BY <2>3, <2>4
  <1>3. ASSUME NEW k \in Turns, Tick(k) PROVE Budget(j, t)'
    BY <1>0, <1>3, TickBudget
  <1>4. ASSUME NEW k \in Turns, CronTurnEnds(k) PROVE Budget(j, t)'
    BY <1>0, <1>4, EndBudget
  <1>5. CASE Release
    BY <1>0, <1>5, ReleaseBudget
  <1>6. CASE Restart
    <2>1. trouble' = trouble + 1 /\ runs' = runs /\ Behind(j, t)' \subseteq {}
      BY <1>6, TroubleCounts, Calendar DEF Restart, Behind, Idle
    <2> QED BY <1>0, <2>1, PaidFor
  <1> QED BY <1>1, <1>2, <1>3, <1>4, <1>5, <1>6, Kinds

-----------------------------------------------------------------------------
(* The theorems.                                                            *)

LEMMA InitInv == Init => IInv
  <1> SUFFICES ASSUME Init PROVE IInv OBVIOUS
  <1> USE Calendar
  <1>1. TypeOK
    BY InitType
  <1>2. \A j \in Jobs : (born[j] > 0 <=> j <= Initial) /\ (rec[j] = "on" <=> j <= Initial)
                        /\ (born[j] = 0 => rec[j] = "absent")
    BY DEF Init
  <1>3. FinitelyMany
    <2>1. \A i \in Jobs : born[i] > 0 => i \in 1..Initial
      BY <1>2
    <2>2. {i \in Jobs : born[i] > 0} \subseteq 1..Initial
      BY Zenon, <2>1
    <2>3. IsFiniteSet(1..Initial)
      BY FS_Interval
    <2> QED BY <2>2, <2>3, FS_Subset DEF FinitelyMany
  <1>4. \A j \in Jobs, t \in 0..Horizon : runs[j][t] = 0
    BY DEF Init
  <1>5. CronOK
    BY <1>2, <1>4 DEF Init, CronOK
  <1>6. StopOK
    <2>1. \A i \in Sessions : rec[i] = "on" => i \in 1..Initial \cap Sessions
      BY <1>2 DEF Sessions
    <2> QED BY <2>1, InitialAssumption DEF Init, StopOK, StopIsFinal
  <1>7. GapOK
    <2>1. \A j \in Jobs : Ran(j) = {}
      BY <1>4 DEF Ran
    <2>2. \A j \in Jobs : next[j] \in Nat
      BY <1>1 DEF TypeOK
    <2> QED BY <2>1, <2>2 DEF GapOK, NoGap
  <1>8. BudgetOK
    <2> SUFFICES ASSUME NEW j \in Jobs, NEW t \in 0..Horizon PROVE Budget(j, t)
      BY DEF BudgetOK
    <2>1. Behind(j, t) = {}
      BY DEF Init, Behind, Idle
    <2>2. ToCome(j, t) \in {0, 1}
      BY DEF ToCome
    <2> QED BY <1>4, <2>1, <2>2, FS_EmptySet DEF Init, Budget
  <1>9. NeverUnwatched
    BY DEF Init, NeverUnwatched
  <1> QED BY <1>1, <1>3, <1>5, <1>6, <1>7, <1>8, <1>9 DEF IInv

LEMMA NextInv == IInv /\ [Next]_vars => IInv'
  BY NextType, NextCron, NextStop, NextGap, NextBudget, NextWatched DEF IInv

LEMMA Inductive == Spec => []IInv
  BY InitInv, NextInv, PTL DEF Spec

\* Records, turns, the switch and the event stream keep their types; a record that exists
\* is planned for an instant its expression matches.
THEOREM TypeCorrect == Spec => []TypeOK
  <1>1. IInv => TypeOK
    BY DEF IInv
  <1> QED BY <1>1, Inductive, PTL

\* The cron tick and markRan: an instant is run once, and once more for each failed write,
\* restart and turn left behind.
THEOREM SlotsPaidFor == Spec => []SlotBudget
  <1>1. IInv => SlotBudget
    <2> SUFFICES ASSUME IInv, NEW j \in Jobs, NEW t \in 0..Horizon
                 PROVE  runs[j][t] <= 1 + trouble
      BY DEF SlotBudget
    <2>1. TypeOK /\ Budget(j, t)
      BY DEF IInv, BudgetOK
    <2> QED BY <2>1, Numbers
  <1> QED BY <1>1, Inductive, PTL

\* disableAutoSessionRecords: no late mark enables what was stopped, and auto/start refuses
\* a second session.
THEOREM StoppedStays == Spec => []StopIsFinal
  <1>1. IInv => StopIsFinal
    BY DEF IInv, StopOK
  <1> QED BY <1>1, Inductive, PTL

\* The orphan stop of the event stream: Auto that was watched is off, or about to be, when
\* its last client has gone.
THEOREM UnwatchedStops == Spec => []NeverUnwatched
  <1>1. IInv => NeverUnwatched
    BY DEF IInv
  <1> QED BY <1>1, Inductive, PTL

\* A step moves the plan of a record only past instants it was run for.
LEMMA PlanMovesPastRuns ==
  ASSUME IInv, [Next]_vars, NEW j \in Jobs, born[j] > 0,
         NEW t \in next[j]..(next'[j] - 1), Matches(j, t)
  PROVE  runs[j][t] > 0
  <1> USE DEF IInv
  <1>1. CASE next'[j] = next[j]
    <2>1. next[j] \in Nat
      BY DEF TypeOK
    <2> QED BY <1>1, <2>1
  <1>2. CASE next'[j] # next[j]
    <2>1. CASE Quiet \/ Stops \/ Release \/ Restart
      BY <1>2, <2>1 DEF Quiet, Stops, DisableSessions, Release, Restart, file
    <2>2. ASSUME NEW i \in Jobs, Creates(i) PROVE FALSE
      BY <1>2, <2>2 DEF Creates, Append, TypeOK
    <2>3. ASSUME NEW k \in Turns, Tick(k) PROVE FALSE
      BY <1>2, <2>3, TickIs
    <2>4. ASSUME NEW k \in Turns, CronTurnEnds(k) PROVE runs[j][t] > 0
      <3> DEFINE f == cron[k].fire
      <3>1. cron[k].job = j /\ Replanned(j, f)
        BY <1>2, <2>4, MarkIs DEF Kept, Dropped, Replanned
      <3>2. f \in Ran(j)
        BY <2>4, <3>1, MarkIs DEF CronOK, Ran
      <3>3. NoGap(j) /\ next[j] \in Nat /\ f \in Nat
        BY <3>2, InstantsAreNumbers DEF GapOK
      <3> HIDE DEF f
      <3>4. t \in Nat /\ t < next'[j] /\ next[j] <= t
        BY <3>1, <3>3 DEF Replanned
      <3>5. t <= f
        BY <3>1, <3>3, <3>4 DEF Replanned
      <3>6. t \in Ran(j)
        <4>1. CASE t = f
          BY <3>2, <4>1
        <4>2. CASE t < f
          <5>1. t \in next[j]..(f - 1)
            BY <3>3, <3>4, <4>2
          <5> QED BY <3>2, <3>3, <5>1 DEF NoGap
        <4> QED BY <3>3, <3>4, <3>5, <4>1, <4>2
      <3> QED BY <3>6 DEF Ran
    <2> QED BY <2>1, <2>2, <2>3, <2>4, Kinds
  <1> QED BY <1>1, <1>2

\* markRan plans from the fire date: a backlog is worked off instant by instant.
THEOREM BacklogWorkedOff == Spec => NoSlotSkipped
  <1>1. IInv /\ [Next]_vars =>
          [\A j \in Jobs : born[j] > 0 =>
             \A t \in next[j]..(next'[j] - 1) : Matches(j, t) => runs[j][t] > 0]_vars
    BY PlanMovesPastRuns
  <1> QED BY <1>1, Inductive, PTL DEF Spec, NoSlotSkipped
=============================================================================
