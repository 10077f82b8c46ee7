-------------------------- MODULE Outbound_proofs --------------------------
(***************************************************************************)
(* Theorems about the outbound gate, for any number of overlapping turns and  *)
(* runs, any caps and any quota.  The argument is the same for each limit:    *)
(* what is counted and what has passed the checks but is not counted yet stay *)
(* below the limit together, because the check sees less than the limit       *)
(* counted and the clicks under way are at most the other turns.             *)
(***************************************************************************)
EXTENDS Outbound, FiniteSetTheorems, TLAPS

\* Connects that passed the checks and are not counted yet; those of Auto mode; clicks
\* that have yet to reach the page and that the latch would stop.
Connecting == {t \in Turns : click[t].at # "none" /\ click[t].kind = "connect"}
AutoConnecting == {t \in Connecting : click[t].under # NoRun}
Pressing == {t \in Turns : click[t].at = "press" /\ click[t].kind \in Latched}

\* The rows of a run are at least the connects counted for it, until the bound hides it.
RunsInv ==
  \A r \in Runs :
    /\ rows[r] < MaxRows => sent.counted[r] <= rows[r]
    /\ r \notin started => sent.counted[r] = 0
    /\ Cap[r] # NoCap =>
         /\ sent.counted[r] <= Cap[r] + Overlap
         /\ run = r => sent.counted[r] + Cardinality(Connecting) <= Cap[r] + Overlap
DayInv ==
  /\ today < DailyCap => sent.day <= today
  /\ sent.day + Cardinality(AutoConnecting) <= DailyCap + Overlap
BurstInv ==
  /\ ~cooling => sent.burst = 0
  /\ sent.burst + Cardinality(AutoConnecting) <= 1 + Overlap
LateInv ==
  IF sent.failed THEN disabled /\ sent.late + Cardinality(Pressing) <= Overlap
  ELSE sent.late = 0

IInv == TypeOK /\ RunsInv /\ DayInv /\ BurstInv /\ LateInv

-----------------------------------------------------------------------------
(* Counting turns.                                                          *)

LEMMA TurnCount ==
  /\ Cardinality(Turns) \in Nat \ {0} /\ Overlap \in Nat
  /\ Cardinality(Turns) = Overlap + 1
  <1>1. Cardinality(Turns) \in Nat
    BY OutboundAssumption, FS_CardinalityType
  <1>2. Cardinality(Turns) # 0
    BY OutboundAssumption, FS_EmptySet
  <1> QED BY <1>1, <1>2 DEF Overlap

LEMMA SubsetCount ==
  ASSUME NEW S, S \subseteq Turns
  PROVE  /\ IsFiniteSet(S) /\ Cardinality(S) \in Nat /\ Cardinality(S) <= Overlap + 1
         /\ \A t \in Turns \ S : Cardinality(S) <= Overlap
  <1>1. IsFiniteSet(S) /\ Cardinality(S) \in Nat /\ Cardinality(S) <= Cardinality(Turns)
    BY OutboundAssumption, FS_Subset, FS_CardinalityType
  <1>2. ASSUME NEW t \in Turns \ S PROVE Cardinality(S) <= Overlap
    <2>1. Cardinality(S) # Cardinality(Turns)
      BY OutboundAssumption, FS_Subset, S # Turns
    <2> QED BY <1>1, <2>1, TurnCount
  <1> QED BY <1>1, <1>2, TurnCount

LEMMA CountLess ==
  ASSUME NEW S, S \subseteq Turns, NEW t
  PROVE  /\ Cardinality(S \ {t}) \in Nat /\ Cardinality(S \ {t}) <= Cardinality(S)
         /\ t \in S => Cardinality(S \ {t}) = Cardinality(S) - 1
  <1>1. /\ IsFiniteSet(S) /\ Cardinality(S) \in Nat
        /\ S \ {t} \subseteq Turns /\ Cardinality(S \ {t}) \in Nat
    BY SubsetCount
  <1>2. Cardinality(S \ {t}) = IF t \in S THEN Cardinality(S) - 1 ELSE Cardinality(S)
    BY <1>1, FS_RemoveElement
  <1> QED BY <1>1, <1>2

LEMMA SetsOfTurns ==
  /\ Connecting \subseteq Turns /\ AutoConnecting \subseteq Turns /\ Pressing \subseteq Turns
  BY DEF Connecting, AutoConnecting, Pressing

\* A turn leaves its click, whatever came of it.
LEMMA LeaveSets ==
  ASSUME TypeOK, NEW t \in Turns, click' = [click EXCEPT ![t] = NoClick]
  PROVE  /\ Connecting' = Connecting \ {t} /\ AutoConnecting' = AutoConnecting \ {t}
         /\ Pressing' = Pressing \ {t}
  BY DEF TypeOK, NoClick, Connecting, AutoConnecting, Pressing

\* The page answered.
LEMMA AnsweredSets ==
  ASSUME TypeOK, NEW t \in Turns, click[t].at = "press",
         click' = [click EXCEPT ![t].at = "answered"]
  PROVE  /\ Connecting' = Connecting /\ AutoConnecting' = AutoConnecting
         /\ Pressing' = Pressing \ {t} /\ click' \in [Turns -> Click]
  BY DEF TypeOK, Click, Connecting, AutoConnecting, Pressing

LEMMA NoClickIsClick == NoClick \in Click
  BY DEF NoClick, Click

\* What Plus counts is exact below the bound.
LEMMA PlusOK ==
  ASSUME NEW b \in Nat, NEW n \in 0..b
  PROVE  Plus(n, b) \in 0..b /\ (Plus(n, b) < b => Plus(n, b) = n + 1) /\ n <= Plus(n, b)
  BY DEF Plus

Sent == [counted : [Runs -> Nat], day : Nat, burst : Nat, failed : BOOLEAN, late : Nat]

LEMMA OutOK ==
  ASSUME TypeOK, NEW t \in Turns
  PROVE  /\ Out(t) \in Sent
         /\ Out(t).counted = sent.counted /\ Out(t).day = sent.day
         /\ Out(t).burst = sent.burst /\ Out(t).failed = sent.failed
         /\ Out(t).late = IF sent.failed /\ click[t].kind \in Latched THEN sent.late + 1
                          ELSE sent.late
  <1>1. sent \in Sent
    BY DEF TypeOK, Sent
  <1> QED BY <1>1 DEF Sent, Out

\* The numbers the limits are about.
LEMMA Numbers ==
  ASSUME TypeOK
  PROVE  /\ Cardinality(Connecting) \in 0..Overlap + 1
         /\ Cardinality(AutoConnecting) \in 0..Overlap + 1
         /\ Cardinality(Pressing) \in 0..Overlap + 1
         /\ Overlap \in Nat /\ MaxRows \in Nat /\ DailyCap \in Nat
         /\ sent.day \in Nat /\ sent.burst \in Nat /\ sent.late \in Nat
         /\ \A r \in Runs : /\ sent.counted[r] \in Nat /\ rows[r] \in 0..MaxRows
                            /\ Cap[r] # NoCap => Cap[r] \in 0..MaxRows
  BY SetsOfTurns, SubsetCount, TurnCount, OutboundAssumption DEF TypeOK

-----------------------------------------------------------------------------
(* The invariant holds at first, and every action keeps it.                 *)

LEMMA InvInit == Init => IInv
  <1> SUFFICES ASSUME Init PROVE IInv
    OBVIOUS
  <1>1. TypeOK
    <2>1. click \in [Turns -> Click] /\ rows \in [Runs -> 0..MaxRows] /\ today \in 0..DailyCap
      BY OutboundAssumption, NoClickIsClick DEF Init
    <2>2. 0 \in 0..MaxRows + 1
      BY OutboundAssumption
    <2>3. sent \in Sent
      BY <2>2 DEF Init, NothingSent, Sent
    <2> QED BY <2>1, <2>3 DEF Init, TypeOK, Sent
  <1>2. AutoConnecting = {} /\ Cardinality({}) = 0
    BY FS_EmptySet DEF Init, AutoConnecting, Connecting, NoClick
  <1>3. RunsInv
    <2>1. \A r \in Runs : sent.counted[r] = 0 /\ run # r
      BY OutboundAssumption DEF Init, NothingSent
    <2> QED BY <1>1, <2>1, Numbers DEF RunsInv
  <1>4. DayInv /\ BurstInv /\ LateInv
    BY <1>1, <1>2, Numbers DEF Init, NothingSent, DayInv, BurstInv, LateInv
  <1> QED BY <1>1, <1>3, <1>4 DEF IInv

LEMMA GateStep ==
  ASSUME IInv, NEW t \in Turns, NEW kind \in Kind, Gate(t, kind)
  PROVE  IInv'
  <1> DEFINE u == IF auto THEN run ELSE NoRun
  <1>1. TypeOK /\ RunsInv /\ DayInv /\ BurstInv /\ LateInv
    BY DEF IInv
  <1>2. /\ click[t].at = "none" /\ Passes(kind)
        /\ click' = [click EXCEPT ![t] = [at |-> "press", kind |-> kind, under |-> u]]
        /\ UNCHANGED <<auto, run, started, disabled, rows, today, cooling, sent>>
    BY DEF Gate, gates
  <1>3. TypeOK'
    <2>1. u \in Runs \union {NoRun}
      BY <1>1 DEF TypeOK
    <2>2. [at |-> "press", kind |-> kind, under |-> u] \in Click
      BY <2>1 DEF Click
    <2>3. click' \in [Turns -> Click]
      BY <1>1, <1>2, <2>2 DEF TypeOK
    <2> QED BY <1>1, <1>2, <2>3 DEF TypeOK
  <1>4. /\ kind # "connect" => Connecting' = Connecting /\ AutoConnecting' = AutoConnecting
        /\ u = NoRun => AutoConnecting' = AutoConnecting
        /\ kind = "invite" => Pressing' = Pressing
    BY <1>1, <1>2 DEF TypeOK, Connecting, AutoConnecting, Pressing, Latched
  <1>5. /\ Cardinality(Connecting') \in 0..Overlap + 1
        /\ Cardinality(AutoConnecting') \in 0..Overlap + 1
    BY SubsetCount, TurnCount DEF Connecting, AutoConnecting
  <1>6. RunsInv'
    <2> SUFFICES ASSUME NEW r \in Runs, Cap[r] # NoCap, run = r
                 PROVE  sent.counted[r] + Cardinality(Connecting') <= Cap[r] + Overlap
      BY <1>1, <1>2 DEF RunsInv
    <2>1. CASE kind # "connect"
      BY <1>1, <1>4, <2>1 DEF RunsInv
    <2>2. CASE kind = "connect"
      <3>1. run # NoRun
        BY OutboundAssumption
      <3>2. rows[r] < Cap[r]
        BY <1>2, <2>2, <3>1 DEF Passes, WithinCap
      <3>3. sent.counted[r] <= rows[r]
        BY <1>1, Numbers, <3>2 DEF RunsInv
      <3> QED BY <1>1, Numbers, <1>5, <3>2, <3>3
    <2> QED BY <2>1, <2>2
  <1>7. DayInv' /\ BurstInv'
    <2>1. CASE kind # "connect" \/ u = NoRun
      BY <1>1, <1>2, <1>4, <2>1 DEF DayInv, BurstInv
    <2>2. CASE kind = "connect" /\ u # NoRun
      <3>1. today < DailyCap /\ ~cooling
        BY <1>2, <2>2 DEF Passes, WithinQuota
      <3>2. today \in 0..DailyCap
        BY <1>1 DEF TypeOK
      <3> QED BY <1>1, <1>2, Numbers, <1>5, <3>1, <3>2 DEF DayInv, BurstInv
    <2> QED BY <2>1, <2>2
  <1>8. LateInv'
    <2>1. CASE kind = "invite"
      BY <1>1, <1>2, <1>4, <2>1 DEF LateInv
    <2>2. CASE kind # "invite"
      <3>1. ~disabled
        BY <1>2, <2>2 DEF Passes, Kind, Latched
      <3> QED BY <1>1, <1>2, <3>1 DEF LateInv
    <2> QED BY <2>1, <2>2
  <1> QED BY <1>3, <1>6, <1>7, <1>8 DEF IInv
\* Answered or raced out, the page has taken the click.
LEMMA OutStep ==
  ASSUME IInv, NEW t \in Turns, click[t].at = "press", sent' = Out(t),
         Connecting' \subseteq Connecting, AutoConnecting' \subseteq AutoConnecting,
         Pressing' = Pressing \ {t}, click' \in [Turns -> Click],
         UNCHANGED <<gates, rows, today, cooling>>
  PROVE  IInv'
  <1>1. /\ TypeOK /\ RunsInv /\ DayInv /\ BurstInv /\ LateInv
        /\ UNCHANGED <<auto, run, started, disabled, rows, today, cooling>>
    BY DEF IInv, gates
  <1>2. /\ sent'.counted = sent.counted /\ sent'.day = sent.day
        /\ sent'.burst = sent.burst /\ sent'.failed = sent.failed
        /\ sent'.late = IF sent.failed /\ click[t].kind \in Latched THEN sent.late + 1
                        ELSE sent.late
    BY <1>1, OutOK
  <1>3. TypeOK'
    BY <1>1, OutOK DEF TypeOK, Sent
  <1>4. /\ Cardinality(Connecting') \in Nat /\ Cardinality(Connecting') <= Cardinality(Connecting)
        /\ Cardinality(AutoConnecting') \in Nat
        /\ Cardinality(AutoConnecting') <= Cardinality(AutoConnecting)
    BY SetsOfTurns, SubsetCount, FS_Subset
  <1>5. RunsInv'
    BY <1>1, <1>2, <1>4, Numbers DEF RunsInv
  <1>6. DayInv' /\ BurstInv'
    BY <1>1, <1>2, <1>4, Numbers DEF DayInv, BurstInv
  <1>7. LateInv'
    <2>1. click[t].kind \in Latched => t \in Pressing
      BY DEF Pressing
    <2>2. /\ Cardinality(Pressing') \in Nat /\ Cardinality(Pressing') <= Cardinality(Pressing)
          /\ t \in Pressing => Cardinality(Pressing') = Cardinality(Pressing) - 1
      BY SetsOfTurns, CountLess
    <2> QED BY <1>1, <1>2, <2>1, <2>2, Numbers DEF LateInv
  <1> QED BY <1>3, <1>5, <1>6, <1>7 DEF IInv

LEMMA AnsweredStep ==
  ASSUME IInv, NEW t \in Turns, Answered(t)
  PROVE  IInv'
  <1>1. /\ click[t].at = "press" /\ click' = [click EXCEPT ![t].at = "answered"]
        /\ sent' = Out(t) /\ UNCHANGED <<gates, rows, today, cooling>> /\ TypeOK
    BY DEF Answered, IInv
  <1>2. /\ Connecting' = Connecting /\ AutoConnecting' = AutoConnecting
        /\ Pressing' = Pressing \ {t} /\ click' \in [Turns -> Click]
    BY <1>1, AnsweredSets
  <1> QED BY <1>1, <1>2, OutStep

\* A click is left, its type and what it leaves to count.
Left(t) ==
  /\ click' \in [Turns -> Click]
  /\ Cardinality(Connecting') \in Nat /\ Cardinality(Connecting') <= Cardinality(Connecting)
  /\ t \in Connecting => Cardinality(Connecting') = Cardinality(Connecting) - 1
  /\ Cardinality(AutoConnecting') \in Nat
  /\ Cardinality(AutoConnecting') <= Cardinality(AutoConnecting)
  /\ t \in AutoConnecting => Cardinality(AutoConnecting') = Cardinality(AutoConnecting) - 1
  /\ Cardinality(Pressing') \in Nat /\ Cardinality(Pressing') <= Cardinality(Pressing)
  /\ t \notin Pressing => Cardinality(Pressing') <= Overlap

LEMMA LeaveCounts ==
  ASSUME TypeOK, NEW t \in Turns, click' = [click EXCEPT ![t] = NoClick]
  PROVE  Left(t)
  <1>1. click' \in [Turns -> Click]
    BY NoClickIsClick DEF TypeOK
  <1>2. /\ Connecting' = Connecting \ {t} /\ AutoConnecting' = AutoConnecting \ {t}
        /\ Pressing' = Pressing \ {t}
    BY LeaveSets
  <1>3. t \notin Pressing => Cardinality(Pressing) <= Overlap
    BY SetsOfTurns, SubsetCount
  <1>4. Cardinality(Pressing) \in Nat /\ Overlap \in Nat
    BY Numbers
  <1>5. Cardinality(Pressing') \in Nat /\ Cardinality(Pressing') <= Cardinality(Pressing)
    BY <1>2, SetsOfTurns, CountLess
  <1>6. t \notin Pressing => Cardinality(Pressing') <= Overlap
    BY <1>3, <1>4, <1>5
  <1> QED BY <1>1, <1>2, <1>5, <1>6, SetsOfTurns, CountLess DEF Left

LEMMA RacedOutStep ==
  ASSUME IInv, NEW t \in Turns, RacedOut(t)
  PROVE  IInv'
  <1>1. /\ click[t].at = "press" /\ click' = [click EXCEPT ![t] = NoClick]
        /\ sent' \in {sent, Out(t)} /\ UNCHANGED <<gates, rows, today, cooling>>
        /\ TypeOK /\ RunsInv /\ DayInv /\ BurstInv /\ LateInv
    BY DEF RacedOut, IInv
  <1>l. Left(t)
    BY <1>1, LeaveCounts
  <1>2. CASE sent' = Out(t)
    <2>1. /\ Connecting' = Connecting \ {t} /\ AutoConnecting' = AutoConnecting \ {t}
          /\ Pressing' = Pressing \ {t}
      BY <1>1, LeaveSets
    <2>2. click' \in [Turns -> Click]
      BY <1>1, <1>l DEF Left
    <2> QED BY <1>1, <1>2, <2>1, <2>2, OutStep
  <1>3. CASE sent' = sent
    <2>1. UNCHANGED <<auto, run, started, disabled, rows, today, cooling, sent>>
      BY <1>1, <1>3 DEF gates
    <2>2. TypeOK'
      BY <1>1, <2>1, <1>l DEF Left, TypeOK
    <2>3. RunsInv'
      BY <1>1, <2>1, <1>l, Numbers DEF Left, RunsInv
    <2>4. DayInv' /\ BurstInv' /\ LateInv'
      BY <1>1, <2>1, <1>l, Numbers DEF Left, DayInv, BurstInv, LateInv
    <2> QED BY <2>2, <2>3, <2>4 DEF IInv
  <1> QED BY <1>1, <1>2, <1>3

\* A connect is counted exactly when it stops being under way.
LEMMA ConnectRecorded ==
  ASSUME IInv, NEW t \in Turns, click[t].at = "answered", click[t].kind = "connect",
         click' = [click EXCEPT ![t] = NoClick],
         NewRow(Owner), sent' = Counted(t, Owner),
         today' = Plus(today, DailyCap), cooling' = TRUE, UNCHANGED gates
  PROVE  IInv'
  <1> DEFINE r0 == Owner
  <1>1. /\ TypeOK /\ RunsInv /\ DayInv /\ BurstInv /\ LateInv
        /\ UNCHANGED <<auto, run, started, disabled>>
    BY DEF IInv, gates
  <1>l. Left(t)
    BY <1>1, LeaveCounts
  <1>2. r0 \in Runs \union {NoRun} /\ (r0 # NoRun => r0 = run /\ r0 \in started)
    BY <1>1 DEF Owner, TypeOK
  <1>3. sent \in Sent
    BY <1>1 DEF TypeOK, Sent
  <1>4. /\ sent' \in Sent
        /\ \A x \in Runs :
             sent'.counted[x] = IF x = r0 THEN sent.counted[x] + 1 ELSE sent.counted[x]
        /\ sent'.day = IF click[t].under = NoRun THEN sent.day ELSE sent.day + 1
        /\ sent'.burst = IF click[t].under = NoRun THEN sent.burst ELSE sent.burst + 1
        /\ sent'.failed = sent.failed /\ sent'.late = sent.late
    <2> DEFINE counted ==
                 [x \in Runs |-> IF x = r0 THEN sent.counted[x] + 1 ELSE sent.counted[x]]
               day == IF click[t].under = NoRun THEN sent.day ELSE sent.day + 1
               burst == IF click[t].under = NoRun THEN sent.burst ELSE sent.burst + 1
    <2>1. sent' = [sent EXCEPT !.counted = counted, !.day = day, !.burst = burst]
      BY DEF Counted
    <2>2. counted \in [Runs -> Nat] /\ day \in Nat /\ burst \in Nat
      BY <1>3 DEF Sent
    <2>3. \A x \in Runs :
            counted[x] = IF x = r0 THEN sent.counted[x] + 1 ELSE sent.counted[x]
      OBVIOUS
    <2> HIDE DEF counted, day, burst
    <2>4. /\ sent' \in Sent /\ sent'.counted = counted /\ sent'.day = day
          /\ sent'.burst = burst /\ sent'.failed = sent.failed /\ sent'.late = sent.late
      BY <1>3, <2>1, <2>2 DEF Sent
    <2> QED BY <2>3, <2>4 DEF day, burst
  <1>5. \A r \in Runs :
          /\ Plus(rows[r], MaxRows) \in 0..MaxRows
          /\ Plus(rows[r], MaxRows) < MaxRows => Plus(rows[r], MaxRows) = rows[r] + 1
    BY <1>1, Numbers, PlusOK
  <1>6. rows' = IF r0 = NoRun THEN rows ELSE [rows EXCEPT ![r0] = Plus(rows[r0], MaxRows)]
    BY DEF NewRow
  <1>7. rows' \in [Runs -> 0..MaxRows]
    BY <1>1, <1>2, <1>5, <1>6 DEF TypeOK
  <1>8. /\ today' \in 0..DailyCap /\ (today' < DailyCap => today' = today + 1)
        /\ today <= today' /\ today \in 0..DailyCap
    BY <1>1, OutboundAssumption, PlusOK DEF TypeOK
  <1>9. t \in Connecting /\ (click[t].under # NoRun => t \in AutoConnecting)
    BY DEF Connecting, AutoConnecting
  <1>10. TypeOK'
    BY <1>1, <1>4, <1>7, <1>8, <1>l DEF Left, TypeOK, Sent
  <1>11. RunsInv'
    <2> SUFFICES ASSUME NEW r \in Runs
        PROVE /\ rows'[r] < MaxRows => sent'.counted[r] <= rows'[r]
              /\ r \notin started => sent'.counted[r] = 0
              /\ Cap[r] # NoCap =>
                   /\ sent'.counted[r] <= Cap[r] + Overlap
                   /\ run = r => sent'.counted[r] + Cardinality(Connecting') <= Cap[r] + Overlap
      BY <1>1 DEF RunsInv
    <2>1. CASE r = r0
      <3>1. rows'[r] = Plus(rows[r], MaxRows) /\ sent'.counted[r] = sent.counted[r] + 1
        BY <1>1, <1>2, <1>3, <1>4, <1>6, <2>1, OutboundAssumption DEF TypeOK, Sent
      <3>2. r = run /\ r \in started
        BY <1>2, <2>1, OutboundAssumption
      <3> QED BY <1>1, <1>5, <1>9, <3>1, <3>2, <1>l, Numbers DEF Left, RunsInv
    <2>2. CASE r # r0
      <3>1. rows'[r] = rows[r] /\ sent'.counted[r] = sent.counted[r]
        BY <1>1, <1>2, <1>3, <1>4, <1>6, <2>2 DEF TypeOK, Sent
      <3> QED BY <1>1, <3>1, <1>l, Numbers DEF Left, RunsInv
    <2> QED BY <2>1, <2>2
  <1>12. DayInv' /\ BurstInv'
    BY <1>1, <1>4, <1>8, <1>9, <1>l, Numbers DEF Left, DayInv, BurstInv
  <1>13. LateInv'
    BY <1>1, <1>4, <1>l, Numbers DEF Left, LateInv
  <1> QED BY <1>10, <1>11, <1>12, <1>13 DEF IInv

LEMMA RecordedStep ==
  ASSUME IInv, NEW t \in Turns, Recorded(t)
  PROVE  IInv'
  <1>1. /\ click[t].at = "answered" /\ click' = [click EXCEPT ![t] = NoClick]
        /\ TypeOK /\ RunsInv /\ DayInv /\ BurstInv /\ LateInv
        /\ UNCHANGED <<auto, run, started, disabled>> /\ UNCHANGED gates
    BY DEF Recorded, IInv, gates
  <1>l. Left(t)
    BY <1>1, LeaveCounts
  <1>2. CASE click[t].kind = "connect" /\ sent' = Counted(t, Owner)
             /\ NewRow(Owner) /\ today' = Plus(today, DailyCap) /\ cooling' = TRUE
    BY <1>1, <1>2, ConnectRecorded
  <1>3. CASE /\ UNCHANGED <<rows, sent>>
             /\ \/ today' = Plus(today, DailyCap) /\ cooling' = TRUE
                \/ UNCHANGED <<today, cooling>>
    <2>1. /\ today' \in 0..DailyCap /\ (today' < DailyCap => today < DailyCap)
          /\ today <= today' /\ today \in 0..DailyCap /\ cooling' \in BOOLEAN
          /\ ~cooling' => ~cooling
      <3>1. today \in 0..DailyCap /\ DailyCap \in Nat /\ cooling \in BOOLEAN
        BY <1>1, OutboundAssumption DEF TypeOK
      <3>2. /\ Plus(today, DailyCap) \in 0..DailyCap /\ today <= Plus(today, DailyCap)
            /\ Plus(today, DailyCap) < DailyCap => Plus(today, DailyCap) = today + 1
        BY <3>1, PlusOK
      <3>3. CASE today' = Plus(today, DailyCap) /\ cooling' = TRUE
        BY <3>1, <3>2, <3>3
      <3>4. CASE UNCHANGED <<today, cooling>>
        BY <3>1, <3>4
      <3> QED BY <1>3, <3>3, <3>4
    <2>2. TypeOK'
      BY <1>1, <1>3, <2>1, <1>l DEF Left, TypeOK
    <2>3. RunsInv'
      BY <1>1, <1>3, <1>l, Numbers DEF Left, RunsInv
    <2>4. DayInv' /\ BurstInv' /\ LateInv'
      BY <1>1, <1>3, <2>1, <1>l, Numbers DEF Left, DayInv, BurstInv, LateInv
    <2> QED BY <2>2, <2>3, <2>4 DEF IInv
  <1> QED BY <1>2, <1>3 DEF Recorded

LEMMA NotRecordedStep ==
  ASSUME IInv, NEW t \in Turns, NotRecorded(t)
  PROVE  IInv'
  <1>1. /\ click[t].at = "answered" /\ click' = [click EXCEPT ![t] = NoClick]
        /\ disabled' = TRUE /\ sent' = [sent EXCEPT !.failed = TRUE]
        /\ run' \in {run, NoRun} /\ UNCHANGED <<auto, started, rows, today, cooling>>
        /\ TypeOK /\ RunsInv /\ DayInv /\ BurstInv /\ LateInv
    BY DEF NotRecorded, IInv
  <1>l. Left(t)
    BY <1>1, LeaveCounts
  <1>2. /\ sent' \in Sent /\ sent'.counted = sent.counted /\ sent'.day = sent.day
        /\ sent'.burst = sent.burst /\ sent'.failed /\ sent'.late = sent.late
    BY <1>1 DEF TypeOK, Sent
  <1>3. t \notin Pressing
    BY <1>1 DEF Pressing
  <1>4. TypeOK'
    BY <1>1, <1>2, <1>l DEF Left, TypeOK, Sent
  <1>5. RunsInv'
    BY <1>1, <1>2, <1>l, Numbers, OutboundAssumption DEF Left, RunsInv
  <1>6. DayInv' /\ BurstInv'
    BY <1>1, <1>2, <1>l, Numbers DEF Left, DayInv, BurstInv
  <1>7. LateInv'
    BY <1>1, <1>2, <1>3, <1>l, Numbers DEF Left, LateInv
  <1> QED BY <1>4, <1>5, <1>6, <1>7 DEF IInv

LEMMA RecordActionStep ==
  ASSUME IInv, NEW r \in Runs, NEW kind, RecordAction(r, kind)
  PROVE  IInv'
  <1>1. /\ r \in started /\ today' = Plus(today, DailyCap) /\ cooling' = TRUE
        /\ rows' \in {rows, [rows EXCEPT ![r] = Plus(rows[r], MaxRows)]}
        /\ UNCHANGED <<auto, run, started, disabled, click, sent>>
        /\ TypeOK /\ RunsInv /\ DayInv /\ BurstInv /\ LateInv
    BY OutboundAssumption DEF RecordAction, NewRow, IInv, gates
  <1>2. /\ Plus(rows[r], MaxRows) \in 0..MaxRows
        /\ Plus(rows[r], MaxRows) < MaxRows => Plus(rows[r], MaxRows) = rows[r] + 1
    BY <1>1, Numbers, PlusOK
  <1>3. /\ rows' \in [Runs -> 0..MaxRows]
        /\ \A x \in Runs : rows'[x] < MaxRows => rows[x] <= rows'[x] /\ rows[x] < MaxRows
    BY <1>1, <1>2, Numbers DEF TypeOK
  <1>4. /\ today' \in 0..DailyCap /\ (today' < DailyCap => today < DailyCap)
        /\ today <= today' /\ today \in 0..DailyCap
    BY <1>1, OutboundAssumption, PlusOK DEF TypeOK
  <1>5. Connecting' = Connecting /\ AutoConnecting' = AutoConnecting /\ Pressing' = Pressing
    BY <1>1 DEF Connecting, AutoConnecting, Pressing
  <1>6. TypeOK'
    BY <1>1, <1>3, <1>4 DEF TypeOK
  <1>7. RunsInv'
    BY <1>1, <1>3, <1>5, Numbers DEF RunsInv
  <1>8. DayInv' /\ BurstInv' /\ LateInv'
    BY <1>1, <1>4, <1>5, Numbers DEF DayInv, BurstInv, LateInv
  <1> QED BY <1>6, <1>7, <1>8 DEF IInv

\* Nobody counts for a run before it starts, and the turn that starts it is in no click.
LEMMA StartRunStep ==
  ASSUME IInv, NEW r \in Runs, StartRun(r)
  PROVE  IInv'
  <1>1. /\ r \notin started /\ run' = r /\ started' = started \union {r}
        /\ UNCHANGED <<auto, disabled, rows, today, cooling, click, sent>>
        /\ TypeOK /\ RunsInv /\ DayInv /\ BurstInv /\ LateInv
    BY DEF StartRun, IInv
  <1>2. PICK t \in Turns : click[t].at = "none"
    BY DEF StartRun
  <1>3. Cardinality(Connecting) <= Overlap
    <2>1. t \in Turns \ Connecting
      BY <1>2 DEF Connecting
    <2> QED BY <2>1, SetsOfTurns, SubsetCount
  <1>4. Connecting' = Connecting /\ AutoConnecting' = AutoConnecting /\ Pressing' = Pressing
    BY <1>1 DEF Connecting, AutoConnecting, Pressing
  <1>5. TypeOK'
    BY <1>1 DEF TypeOK
  <1>6. sent.counted[r] = 0
    BY <1>1 DEF RunsInv
  <1>7. RunsInv'
    BY <1>1, <1>3, <1>4, <1>6, Numbers DEF RunsInv
  <1>8. DayInv' /\ BurstInv' /\ LateInv'
    BY <1>1, <1>4 DEF DayInv, BurstInv, LateInv
  <1> QED BY <1>5, <1>7, <1>8 DEF IInv

\* The run ends, the mode flips, time passes: the clicks under way stay.
LEMMA OtherStep ==
  ASSUME IInv, EndRun \/ FlipMode \/ CooldownEnds \/ Midnight \/ UNCHANGED vars
  PROVE  IInv'
  <1>1. /\ TypeOK /\ RunsInv /\ DayInv /\ BurstInv /\ LateInv /\ sent \in Sent
        /\ UNCHANGED <<started, disabled, rows, click>>
    BY DEF IInv, TypeOK, Sent, EndRun, FlipMode, CooldownEnds, Midnight, vars, gates
  <1>2. Connecting' = Connecting /\ AutoConnecting' = AutoConnecting /\ Pressing' = Pressing
    BY <1>1 DEF Connecting, AutoConnecting, Pressing
  <1>3. CASE EndRun
    <2>1. run' = NoRun /\ UNCHANGED <<auto, started, disabled, rows, today, cooling, click, sent>>
      BY <1>3 DEF EndRun
    <2>2. TypeOK'
      BY <1>1, <2>1 DEF TypeOK
    <2>3. RunsInv'
      BY <1>1, <2>1, OutboundAssumption DEF RunsInv
    <2> QED BY <1>1, <1>2, <2>1, <2>2, <2>3 DEF IInv, DayInv, BurstInv, LateInv
  <1>4. CASE FlipMode \/ UNCHANGED vars
    <2>1. auto' \in BOOLEAN
          /\ UNCHANGED <<run, started, disabled, rows, today, cooling, click, sent>>
      BY <1>1, <1>4 DEF FlipMode, vars, TypeOK
    <2>2. TypeOK' /\ RunsInv'
      BY <1>1, <1>2, <2>1 DEF TypeOK, RunsInv
    <2> QED BY <1>1, <1>2, <2>1, <2>2 DEF IInv, DayInv, BurstInv, LateInv
  <1>5. CASE CooldownEnds
    <2>1. /\ cooling' = FALSE /\ sent' = [sent EXCEPT !.burst = 0]
          /\ UNCHANGED <<auto, run, started, disabled, rows, today, click>>
      BY <1>5 DEF CooldownEnds, gates
    <2>2. /\ sent' \in Sent /\ sent'.counted = sent.counted /\ sent'.day = sent.day
          /\ sent'.burst = 0 /\ sent'.failed = sent.failed /\ sent'.late = sent.late
      BY <1>1, <2>1 DEF Sent
    <2>3. TypeOK' /\ RunsInv'
      BY <1>1, <1>2, <2>1, <2>2 DEF TypeOK, RunsInv, Sent
    <2> QED BY <1>1, <1>2, <2>1, <2>2, <2>3, Numbers DEF IInv, DayInv, BurstInv, LateInv
  <1>6. CASE Midnight
    <2>1. /\ today' = 0 /\ sent' = [sent EXCEPT !.day = 0]
          /\ UNCHANGED <<auto, run, started, disabled, rows, cooling, click>>
      BY <1>6 DEF Midnight, gates
    <2>2. /\ sent' \in Sent /\ sent'.counted = sent.counted /\ sent'.day = 0
          /\ sent'.burst = sent.burst /\ sent'.failed = sent.failed /\ sent'.late = sent.late
      BY <1>1, <2>1 DEF Sent
    <2>3. TypeOK' /\ RunsInv'
      BY <1>1, <1>2, <2>1, <2>2, Numbers DEF TypeOK, RunsInv, Sent
    <2> QED BY <1>1, <1>2, <2>1, <2>2, <2>3, Numbers DEF IInv, DayInv, BurstInv, LateInv
  <1> QED BY <1>3, <1>4, <1>5, <1>6

\* A restart leaves no click under way.
LEMMA RestartStep ==
  ASSUME IInv, Restart
  PROVE  IInv'
  <1>1. /\ auto' \in BOOLEAN /\ run' = NoRun /\ disabled' = FALSE
        /\ click' = [t \in Turns |-> NoClick]
        /\ sent' = [sent EXCEPT !.failed = FALSE, !.late = 0]
        /\ UNCHANGED <<started, rows, today, cooling>>
        /\ TypeOK /\ RunsInv /\ DayInv /\ BurstInv
    BY DEF Restart, IInv
  <1>2. /\ sent' \in Sent /\ sent'.counted = sent.counted /\ sent'.day = sent.day
        /\ sent'.burst = sent.burst /\ ~sent'.failed /\ sent'.late = 0
    <2>1. sent \in Sent
      BY <1>1 DEF TypeOK, Sent
    <2> QED BY <1>1, <2>1 DEF Sent
  <1>3. Cardinality(AutoConnecting') = 0
    <2>1. AutoConnecting' = {}
      BY <1>1 DEF AutoConnecting, Connecting, NoClick
    <2> QED BY <2>1, FS_EmptySet
  <1>4. TypeOK'
    BY <1>1, <1>2, NoClickIsClick DEF TypeOK, Sent
  <1>5. RunsInv'
    BY <1>1, <1>2, OutboundAssumption DEF RunsInv
  <1>6. DayInv' /\ BurstInv' /\ LateInv'
    BY <1>1, <1>2, <1>3, Numbers DEF DayInv, BurstInv, LateInv
  <1> QED BY <1>4, <1>5, <1>6 DEF IInv

LEMMA Inductive == IInv /\ [Next]_vars => IInv'
  <1> SUFFICES ASSUME IInv, [Next]_vars PROVE IInv'
    OBVIOUS
  <1>1. ASSUME NEW t \in Turns, NEW kind \in Kind, Gate(t, kind) PROVE IInv'
    BY <1>1, GateStep
  <1>2. ASSUME NEW t \in Turns, Answered(t) PROVE IInv'
    BY <1>2, AnsweredStep
  <1>3. ASSUME NEW t \in Turns, RacedOut(t) PROVE IInv'
    BY <1>3, RacedOutStep
  <1>4. ASSUME NEW t \in Turns, Recorded(t) PROVE IInv'
    BY <1>4, RecordedStep
  <1>5. ASSUME NEW t \in Turns, NotRecorded(t) PROVE IInv'
    BY <1>5, NotRecordedStep
  <1>6. ASSUME NEW r \in Runs, StartRun(r) PROVE IInv'
    BY <1>6, StartRunStep
  <1>7. ASSUME NEW r \in Runs, NEW kind \in {"connect", "message"}, RecordAction(r, kind)
        PROVE  IInv'
    BY <1>7, RecordActionStep
  <1>8. CASE EndRun \/ FlipMode \/ CooldownEnds \/ Midnight \/ UNCHANGED vars
    BY <1>8, OtherStep
  <1>9. CASE Restart
    BY <1>9, RestartStep
  <1> QED BY <1>1, <1>2, <1>3, <1>4, <1>5, <1>6, <1>7, <1>8, <1>9 DEF Next

-----------------------------------------------------------------------------
(* The theorems.                                                            *)

\* Every reachable state satisfies the inductive invariant.
THEOREM Invariance == Spec => []IInv
  BY InvInit, Inductive, PTL DEF Spec

\* The ledger, the latch and the clicks keep their types; the running row is a row.
THEOREM TypeCorrect == Spec => []TypeOK
  <1>1. IInv => TypeOK
    BY DEF IInv
  <1> QED BY Invariance, <1>1, PTL

\* A capped run sends at most its cap and one connect per overlapping turn, although the
\* click tool checks before its awaits and counts after them.
THEOREM RunCapKept == Spec => []RunCapHolds
  <1>1. IInv => RunCapHolds
    BY DEF IInv, RunsInv, RunCapHolds
  <1> QED BY Invariance, <1>1, PTL

\* So do the Auto connects of a UTC day with the daily quota.
THEOREM DailyCapKept == Spec => []DailyCapHolds
  <1>1. IInv => DailyCapHolds
    BY Numbers DEF IInv, DayInv, DailyCapHolds
  <1> QED BY Invariance, <1>1, PTL

\* And the Auto connects of one cooldown.
THEOREM CooldownKept == Spec => []CooldownHolds
  <1>1. IInv => CooldownHolds
    BY Numbers DEF IInv, BurstInv, CooldownHolds
  <1> QED BY Invariance, <1>1, PTL

\* After a connect or message that could not be recorded, only connects and messages that had
\* passed the checks still go out; of instant invites and posts the latch says nothing.
THEOREM LatchKept == Spec => []LatchHolds
  <1>1. IInv => LatchHolds
    BY Numbers DEF IInv, LateInv, LatchHolds
  <1> QED BY Invariance, <1>1, PTL
=============================================================================
