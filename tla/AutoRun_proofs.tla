--------------------------- MODULE AutoRun_proofs ---------------------------
(* Proofs about AutoRun, for any number of turns, runs, restarts and kills, *)
(* any limits, and everything the surroundings may do.                      *)
EXTENDS AutoRun, TLAPS

-----------------------------------------------------------------------------
(* What the helpers on rows and turns return.                               *)

Row == [status : Status, ended : BOOLEAN, age : Ages]
RowsOK(rows, n) ==
  /\ rows \in [RunId -> Row]
  /\ \A r \in RunId : /\ rows[r].ended => rows[r].status \in Ended
                      /\ rows[r].status = "absent" <=> r > n

\* What insertAutoRun and endAutoRun write is an auto_runs row.
LEMMA RowIsRow == Fresh \in Row /\ \A s \in Ended, b \in BOOLEAN : Stopped(s, b) \in Row
BY DEF Fresh, Stopped, Row, Status, Ended, Ages

\* endAutoRun touches one row, and only while its ended_at is null.
LEMMA EndRowEffect ==
  ASSUME NEW rows \in [RunId -> Row], NEW r \in RunId, NEW s \in Ended
  PROVE  /\ EndRow(rows, r, s) \in [RunId -> Row]
         /\ \A q \in RunId : q # r => EndRow(rows, r, s)[q] = rows[q]
         /\ rows[r].ended => EndRow(rows, r, s)[r] = rows[r]
         /\ ~rows[r].ended => /\ EndRow(rows, r, s)[r].status = s
                              /\ EndRow(rows, r, s)[r].ended
<1>1. CASE rows[r].ended
  BY <1>1 DEF EndRow
<1>2. CASE ~rows[r].ended
  <2>1. EndRow(rows, r, s) = [rows EXCEPT ![r] = Stopped(s, TRUE)]
    BY <1>2 DEF EndRow
  <2>2. Stopped(s, TRUE) \in Row /\ Stopped(s, TRUE).status = s /\ Stopped(s, TRUE).ended
    BY RowIsRow DEF Stopped
  <2> QED
    BY <1>2, <2>1, <2>2
<1> QED
  BY <1>1, <1>2

\* endAutoRun of an existing row keeps the table well shaped.
LEMMA EndRowOK ==
  ASSUME NEW rows, NEW n \in Nat, RowsOK(rows, n), NEW r \in RunId, NEW s \in Ended,
         rows[r].status # "absent"
  PROVE  RowsOK(EndRow(rows, r, s), n)
<1>1. "absent" \notin Ended
  BY DEF Ended
<1> QED
  BY <1>1, EndRowEffect DEF RowsOK

\* insertAutoRun adds row n + 1 to a well-shaped table of n rows.
LEMMA InsertOK ==
  ASSUME NEW rows, NEW n \in 0..MaxRuns, RowsOK(rows, n), n < MaxRuns
  PROVE  /\ n + 1 \in RunId
         /\ RowsOK([rows EXCEPT ![n + 1] = Fresh], n + 1)
<1>1. n + 1 \in RunId
  BY AutoRunAssumption DEF RunId
<1>2. Fresh \in Row /\ Fresh.status = "running" /\ ~Fresh.ended
  BY RowIsRow DEF Fresh
<1> QED
  BY <1>1, <1>2 DEF RowsOK, RunId

\* A fresh turn, a claimed one and one past its loop are turns.
LEMMA TurnIsTurn ==
  /\ IdleTurn \in TurnState
  /\ \A c \in BOOLEAN : /\ LoopTurn(c) \in TurnState
                        /\ [LoopTurn(c) EXCEPT !.at = "post"] \in TurnState
BY DEF IdleTurn, LoopTurn, TurnState

\* Aborting whoever holds the slot keeps the turns typed.
LEMMA AbortOK ==
  ASSUME turns \in [Turns -> TurnState], NEW t \in Turns \union {NoTurn}
  PROVE  Abort(turns, t) \in [Turns -> TurnState]
<1>1. CASE t = NoTurn
  BY <1>1 DEF Abort
<1>2. CASE t # NoTurn
  <2>1. [turns[t] EXCEPT !.aborted = TRUE] \in TurnState
    BY <1>2 DEF TurnState
  <2>2. Abort(turns, t) = [turns EXCEPT ![t] = [turns[t] EXCEPT !.aborted = TRUE]]
    BY <1>2 DEF Abort
  <2> QED
    BY <2>1, <2>2
<1> QED
  BY <1>1, <1>2

\* Setting the fields of one turn keeps the turns typed.
LEMMA FieldsOK ==
  ASSUME turns \in [Turns -> TurnState], NEW t \in Turns,
         NEW a \in BOOLEAN, NEW h \in BOOLEAN, NEW u \in SUBSET RunId
  PROVE  /\ [turns EXCEPT ![t].aborted = a, ![t].hang = h] \in [Turns -> TurnState]
         /\ [turns EXCEPT ![t].unreported = u] \in [Turns -> TurnState]
         /\ [turns EXCEPT ![t].unreported = u, ![t].aborted = a, ![t].hang = h]
              \in [Turns -> TurnState]
<1> DEFINE v1 == [turns[t] EXCEPT !.aborted = a, !.hang = h]
           v2 == [turns[t] EXCEPT !.unreported = u]
           v3 == [turns[t] EXCEPT !.unreported = u, !.aborted = a, !.hang = h]
<1>1. v1 \in TurnState /\ v2 \in TurnState /\ v3 \in TurnState
  BY DEF TurnState
<1>2. /\ [turns EXCEPT ![t].aborted = a, ![t].hang = h] = [turns EXCEPT ![t] = v1]
      /\ [turns EXCEPT ![t].unreported = u] = [turns EXCEPT ![t] = v2]
      /\ [turns EXCEPT ![t].unreported = u, ![t].aborted = a, ![t].hang = h]
           = [turns EXCEPT ![t] = v3]
  OBVIOUS
<1> HIDE DEF v1, v2, v3
<1> QED
  BY <1>1, <1>2

\* Leaving the loop keeps the turns typed.
LEMMA PostOK ==
  ASSUME turns \in [Turns -> TurnState], NEW t \in Turns
  PROVE  [turns EXCEPT ![t].at = "post"] \in [Turns -> TurnState]
<1>1. [turns[t] EXCEPT !.at = "post"] \in TurnState
  BY DEF TurnState
<1>2. [turns EXCEPT ![t].at = "post"] = [turns EXCEPT ![t] = [turns[t] EXCEPT !.at = "post"]]
  OBVIOUS
<1> QED
  BY <1>1, <1>2

-----------------------------------------------------------------------------
(* Type correctness.                                                        *)

\* The initial state is typed.
LEMMA TypeInit == Init => TypeOK
BY AutoRunAssumption DEF Init, TypeOK, RowShape, TurnState, IdleTurn, Status, Ended, Ages, RunId, NoRun

Rest ==
  /\ inserted \in 0..MaxRuns
  /\ autoRunId \in RunId \union {NoRun}
  /\ currentTurn \in Turns \union {NoTurn}
  /\ npRun \in RunId \union {NoRun}
  /\ npTurns \in Nat
  /\ kills \in Nat
  /\ restarts \in 0..MaxRestarts
  /\ closerFrames \in [RunId -> Nat]
  /\ cronFrames \in [RunId -> Nat]

\* TypeOK split into rows, turns and the rest, the parts actions disturb.
LEMMA TypeParts == TypeOK <=> RowsOK(run, inserted) /\ turns \in [Turns -> TurnState] /\ Rest
BY DEF TypeOK, RowShape, RowsOK, Row, Rest

\* Every step keeps the types.
LEMMA TypeNext == TypeOK /\ [Next]_vars => TypeOK'
<1> SUFFICES ASSUME TypeOK, [Next]_vars
             PROVE  /\ RowsOK(run', inserted')
                    /\ turns' \in [Turns -> TurnState]
                    /\ Rest'
  BY TypeParts DEF TypeOK, RowShape, RowsOK, Row, Rest
<1> DEFINE Goal == RowsOK(run', inserted') /\ turns' \in [Turns -> TurnState] /\ Rest'
<1>0. RowsOK(run, inserted) /\ turns \in [Turns -> TurnState] /\ Rest
  BY TypeParts
<1>r. ASSUME NEW r \in RunId, run[r].status # "absent", NEW s \in Ended
      PROVE  RowsOK(EndRow(run, r, s), inserted)
  BY <1>0, <1>r, EndRowOK DEF Rest
<1>s. "stopped_by_agent" \in Ended /\ "stopped_by_user" \in Ended
  BY DEF Ended
<1>c. \A r \in RunId : IsCurrent(r) => run[r].status = "running" /\ run[r].status # "absent"
  BY DEF IsCurrent, Running
<1>i. ASSUME NEW rows, RowsOK(rows, inserted), InsertRow(rows)
      PROVE  /\ RowsOK(run', inserted') /\ inserted' \in 0..MaxRuns
             /\ inserted + 1 \in RunId /\ kills' \in Nat /\ restarts' = restarts
  <2>1. inserted \in 0..MaxRuns /\ inserted < MaxRuns
    BY <1>0, <1>i DEF InsertRow, Rest
  <2>2. inserted + 1 \in RunId /\ RowsOK([rows EXCEPT ![inserted + 1] = Fresh], inserted + 1)
    BY <1>i, <2>1, InsertOK
  <2>3. inserted + 1 \in 0..MaxRuns
    BY <2>1, AutoRunAssumption
  <2> QED
    BY <1>i, <2>2, <2>3 DEF InsertRow
<1>a. ASSUME NEW r \in RunId, NEW s \in Ended, IsCurrent(r), CloseAndReport(r, s)
      PROVE  /\ RowsOK(run', inserted') /\ inserted' = inserted /\ autoRunId' = NoRun
             /\ closerFrames' \in [RunId -> Nat] /\ cronFrames' \in [RunId -> Nat]
  BY <1>0, <1>a, <1>c, <1>r DEF CloseAndReport, Rest
<1> USE AutoRunAssumption
<1>1. ASSUME NEW t \in Turns, OperatorClaim(t) PROVE Goal
  BY <1>0, <1>1, TurnIsTurn DEF OperatorClaim, Claim, KeepRows, npVars, procVars, Rest
<1>2. ASSUME NEW t \in Turns, CapWatch(t) PROVE Goal
  BY <1>0, <1>2, AbortOK DEF CapWatch, KeepRows, npVars, procVars, Rest
<1>3. ASSUME NEW t \in Turns, HangWatch(t) PROVE Goal
  BY <1>0, <1>3, FieldsOK DEF HangWatch, KeepRows, npVars, procVars, Rest
<1>4. ASSUME NEW t \in Turns, StartTool(t) PROVE Goal
  BY <1>0, <1>4, <1>r, <1>s, <1>c, <1>i DEF StartTool, npVars, frameVars, Rest
<1>5. ASSUME NEW t \in Turns, NEW r \in RunId, NEW s \in Ended, EndTool(t, r, s) PROVE Goal
  <2>1. turns[t].unreported \in SUBSET RunId
    BY <1>0 DEF TurnState
  <2>2. turns' \in [Turns -> TurnState]
    <3>1. CASE run[r].ended
      BY <1>0, <1>5, <3>1 DEF EndTool
    <3>2. CASE ~run[r].ended
      <4> DEFINE u == IF turns[t].cron THEN turns[t].unreported
                      ELSE turns[t].unreported \union {r}
      <4>1. u \in SUBSET RunId
        BY <2>1
      <4>2. turns' = [turns EXCEPT ![t].unreported = u]
        BY <1>0, <1>5, <3>2 DEF EndTool
      <4> HIDE DEF u
      <4> QED
        BY <1>0, <4>1, <4>2, FieldsOK
    <3> QED
      BY <3>1, <3>2
  <2> QED
    BY <1>0, <1>5, <1>r, <2>2 DEF EndTool, npVars, procVars, frameVars, Rest
<1>6. ASSUME NEW t \in Turns, LedgerFailure(t) PROVE Goal
  <2>1. Stopped("blocked", FALSE) \in Row /\ ~Stopped("blocked", FALSE).ended
        /\ Stopped("blocked", FALSE).status = "blocked"
    BY RowIsRow DEF Stopped, Ended
  <2> QED
    BY <1>0, <1>6, <1>c, <2>1 DEF LedgerFailure, RowsOK, npVars, procVars, frameVars, Rest
<1>7. ASSUME NEW t \in Turns, StepFinish(t) PROVE Goal
  <2>1. turns' \in [Turns -> TurnState]
    <3>1. PICK gate \in BOOLEAN :
            turns' = [turns EXCEPT ![t].unreported = {},
                                   ![t].aborted = turns[t].aborted \/ gate,
                                   ![t].hang = turns[t].hang /\ ~gate]
      BY <1>0, <1>7 DEF StepFinish
    <3> DEFINE a == turns[t].aborted \/ gate
               h == turns[t].hang /\ ~gate
    <3>2. a \in BOOLEAN /\ h \in BOOLEAN /\ {} \in SUBSET RunId
      OBVIOUS
    <3>3. turns' = [turns EXCEPT ![t].unreported = {}, ![t].aborted = a, ![t].hang = h]
      BY <3>1
    <3> HIDE DEF a, h
    <3> QED
      BY <1>0, <3>2, <3>3, FieldsOK
  <2>2. closerFrames' \in [RunId -> Nat]
    BY <1>0, <1>7 DEF StepFinish, Rest
  <2> QED
    BY <1>0, <1>7, <2>1, <2>2 DEF StepFinish, rowVars, npVars, procVars, Rest
<1>8. ASSUME NEW t \in Turns, LoopExit(t) PROVE Goal
  <2>1. RowsOK(run', inserted')
    BY <1>0, <1>8, <1>r, <1>s, <1>c DEF LoopExit
  <2>2. turns' \in [Turns -> TurnState] /\ currentTurn' \in Turns \union {NoTurn}
    BY <1>0, <1>8, PostOK, TurnIsTurn DEF LoopExit, Release, Rest
  <2>3. closerFrames' \in [RunId -> Nat] /\ autoRunId' \in RunId \union {NoRun}
    BY <1>0, <1>8 DEF LoopExit, EmitUnlessCron, Rest
  <2> QED
    BY <1>0, <1>8, <2>1, <2>2, <2>3 DEF LoopExit, npVars, procVars, Rest
<1>9. ASSUME NEW t \in Turns, CronTick(t) PROVE Goal
  <2>1. turns' \in [Turns -> TurnState] /\ currentTurn' \in Turns \union {NoTurn}
    BY <1>0, <1>9, TurnIsTurn DEF CronTick, Claim
  <2>2. CASE \E r \in RunId : IsCurrent(r) /\ run[r].age # "over" /\ autoRunId' = r
                              /\ UNCHANGED <<rowVars, procVars, closerFrames>>
    BY <1>0, <1>9, <2>1, <2>2 DEF CronTick, rowVars, procVars, npVars, Rest
  <2>3. CASE \E r \in RunId : /\ IsCurrent(r)
                              /\ InsertRow(EndRow(run, r, "stopped_by_agent"))
                              /\ closerFrames' = [closerFrames EXCEPT ![r] = @ + 1]
                              /\ autoRunId' = inserted + 1
    BY <1>0, <1>9, <2>1, <2>3, <1>r, <1>s, <1>c, <1>i DEF CronTick, npVars, Rest
  <2>4. CASE InsertRow(run) /\ autoRunId' = inserted + 1 /\ UNCHANGED closerFrames
    BY <1>0, <1>9, <2>1, <2>4, <1>i DEF CronTick, npVars, Rest
  <2> QED
    BY <1>9, <2>2, <2>3, <2>4 DEF CronTick
<1>10. ASSUME NEW t \in Turns, CronPost(t) PROVE Goal
  <2>1. turns' \in [Turns -> TurnState] /\ currentTurn' \in Turns \union {NoTurn}
    BY <1>0, <1>10, TurnIsTurn DEF CronPost, Release, Rest
  <2>2. CASE \E r \in RunId : IsCurrent(r) /\ NoProgressStep(r) /\ UNCHANGED cronFrames
    <3>1. RowsOK(run', inserted)
      BY <1>0, <2>2, <1>r, <1>s, <1>c DEF NoProgressStep
    <3>2. /\ closerFrames' \in [RunId -> Nat] /\ autoRunId' \in RunId \union {NoRun}
          /\ npRun' \in RunId \union {NoRun} /\ npTurns' \in Nat
      BY <1>0, <2>2 DEF NoProgressStep, Rest, npVars
    <3> QED
      BY <1>0, <1>10, <2>1, <2>2, <3>1, <3>2 DEF CronPost, procVars, Rest
  <2>3. CASE autoRunId # NoRun /\ ReportTracked /\ UNCHANGED <<run, closerFrames, npVars>>
    BY <1>0, <1>10, <2>1, <2>3 DEF CronPost, ReportTracked, procVars, npVars, Rest
  <2>4. CASE UNCHANGED <<run, autoRunId, frameVars, npVars>>
    BY <1>0, <1>10, <2>1, <2>4 DEF CronPost, procVars, npVars, frameVars, Rest
  <2> QED
    BY <1>10, <2>2, <2>3, <2>4 DEF CronPost
<1>11. CASE ForceRelease
  BY <1>0, <1>11, AbortOK DEF ForceRelease, KeepRows, npVars, procVars, Rest
<1>12. CASE SignalAbort
  BY <1>0, <1>12, AbortOK DEF SignalAbort, KeepRows, npVars, procVars, Rest
<1>13. CASE WorkflowCancel
  <2>1. turns' \in [Turns -> TurnState]
    BY <1>0, <1>13, AbortOK DEF WorkflowCancel, Rest
  <2> QED
    BY <1>0, <1>13, <1>a, <1>s, <2>1 DEF WorkflowCancel, rowVars, frameVars, npVars, procVars, Rest
<1>14. CASE OrphanReap
  BY <1>0, <1>14, <1>a, <1>s DEF OrphanReap, npVars, procVars, Rest
<1>15. CASE KillCapReap
  BY <1>0, <1>15, <1>a, <1>s DEF KillCapReap, KeepRows, npVars, Rest
<1>16. CASE Restart
  BY <1>0, <1>16, TurnIsTurn DEF Restart, rowVars, frameVars, Rest
<1>17. ASSUME NEW r \in RunId, Elapse(r) PROVE Goal
  <2>1. [run[r] EXCEPT !.age = Older(run[r].age)] \in Row
    BY <1>0 DEF RowsOK, Row, Older, Ages
  <2>2. run' = [run EXCEPT ![r] = [run[r] EXCEPT !.age = Older(run[r].age)]]
    BY <1>0, <1>17 DEF Elapse, RowsOK
  <2>3. /\ [run[r] EXCEPT !.age = Older(run[r].age)].status = run[r].status
        /\ [run[r] EXCEPT !.age = Older(run[r].age)].ended = run[r].ended
    BY <1>0 DEF RowsOK, Row
  <2>4. RowsOK(run', inserted)
    BY <1>0, <2>1, <2>2, <2>3 DEF RowsOK
  <2> QED
    BY <1>0, <1>17, <2>4 DEF Elapse, npVars, procVars, frameVars, Rest
<1>18. CASE UNCHANGED vars
  BY <1>0, <1>18 DEF vars, Rest
<1> QED
  BY <1>1, <1>2, <1>3, <1>4, <1>5, <1>6, <1>7, <1>8, <1>9, <1>10, <1>11, <1>12,
     <1>13, <1>14, <1>15, <1>16, <1>17, <1>18 DEF Next

-----------------------------------------------------------------------------
(* The inductive invariant.  What makes a second frame impossible is that   *)
(* whoever reports a row either ended it in the same await-free stretch, or *)
(* holds the only claim to report it: its turn's unreported set, or         *)
(* state.autoRunId.                                                         *)

RowInv(rows, closer, cron) ==
  /\ \A q, r \in RunId : rows[q].status = "running" /\ rows[r].status = "running" => q = r
  /\ \A r \in RunId : rows[r].status = "running" => ~rows[r].ended /\ cron[r] = 0
  /\ \A r \in RunId : ~rows[r].ended => closer[r] = 0
  /\ \A r \in RunId : rows[r].status = "absent" => cron[r] = 0
  /\ \A r \in RunId : closer[r] <= 1 /\ cron[r] <= 1
PointerInv == \A r \in RunId : autoRunId = r => run[r].status # "absent" /\ cronFrames[r] = 0
UnreportedInv ==
  /\ \A t \in Turns : \A r \in turns[t].unreported : run[r].ended /\ closerFrames[r] = 0
  /\ \A t, u \in Turns : t # u => turns[t].unreported \cap turns[u].unreported = {}

IInv == /\ TypeOK
        /\ RowInv(run, closerFrames, cronFrames)
        /\ PointerInv
        /\ UnreportedInv

\* The invariant holds before any run or turn exists.
LEMMA InvInit == Init => IInv
<1> SUFFICES ASSUME Init PROVE RowInv(run, closerFrames, cronFrames) /\ PointerInv /\ UnreportedInv
  BY TypeInit DEF IInv
<1> QED
  BY DEF Init, RowInv, PointerInv, UnreportedInv, IdleTurn, NoRun, RunId

\* Ending a row keeps the rows' invariant; ending the running row leaves none.
LEMMA EndRowInv ==
  ASSUME NEW rows, NEW n \in Nat, RowsOK(rows, n), NEW closer, NEW cron,
         closer \in [RunId -> Nat], RowInv(rows, closer, cron),
         NEW r \in RunId, NEW s \in Ended, rows[r].status # "absent"
  PROVE  /\ RowInv(EndRow(rows, r, s), closer, cron)
         /\ rows[r].status = "running" =>
              /\ RowInv(EndRow(rows, r, s), [closer EXCEPT ![r] = @ + 1], cron)
              /\ \A q \in RunId : EndRow(rows, r, s)[q].status # "running"
<1> DEFINE new == EndRow(rows, r, s)
<1>1. s # "running" /\ s # "absent"
  BY DEF Ended
<1>2. /\ \A q \in RunId : q # r => new[q] = rows[q]
      /\ rows[r].ended => new[r] = rows[r]
      /\ ~rows[r].ended => new[r].status = s /\ new[r].ended
  BY EndRowEffect DEF RowsOK
<1> HIDE DEF new
<1>3. RowInv(new, closer, cron)
  BY <1>1, <1>2 DEF RowInv
<1>4. ASSUME rows[r].status = "running"
      PROVE  /\ RowInv(new, [closer EXCEPT ![r] = @ + 1], cron)
             /\ \A q \in RunId : new[q].status # "running"
  <2>1. ~rows[r].ended /\ closer[r] = 0
    BY <1>4 DEF RowInv
  <2>2. \A q \in RunId : [closer EXCEPT ![r] = @ + 1][q] = IF q = r THEN 1 ELSE closer[q]
    BY <2>1
  <2>3. \A q \in RunId : new[q].status # "running"
    BY <1>1, <1>2, <1>4, <2>1 DEF RowInv
  <2> QED
    BY <1>2, <1>3, <2>1, <2>2, <2>3 DEF RowInv
<1> QED
  BY <1>3, <1>4 DEF new

\* Inserting a row keeps the rows' invariant when no row is running.
LEMMA InsertInv ==
  ASSUME NEW rows, NEW n \in 0..MaxRuns, RowsOK(rows, n), n < MaxRuns,
         NEW closer, NEW cron, RowInv(rows, closer, cron),
         \A q \in RunId : rows[q].status # "running"
  PROVE  RowInv([rows EXCEPT ![n + 1] = Fresh], closer, cron)
<1> DEFINE new == [rows EXCEPT ![n + 1] = Fresh]
<1>0. n + 1 \in RunId
  BY InsertOK
<1>1. n + 1 \in RunId /\ n + 1 > n
  BY <1>0, AutoRunAssumption
<1>2. rows[n + 1].status = "absent" /\ ~rows[n + 1].ended
  BY <1>1 DEF RowsOK, Ended
<1>3. closer[n + 1] = 0 /\ cron[n + 1] = 0
  BY <1>1, <1>2 DEF RowInv
<1>4. /\ \A q \in RunId : q # n + 1 => new[q] = rows[q]
      /\ new[n + 1].status = "running" /\ ~new[n + 1].ended
  BY <1>1 DEF RowsOK, Fresh
<1> HIDE DEF new
<1>5. RowInv(new, closer, cron)
  BY <1>1, <1>3, <1>4 DEF RowInv
<1> QED
  BY <1>5 DEF new

-----------------------------------------------------------------------------
(* No step changes a row whose ended_at is set.                             *)

LEMMA EndedStep ==
  IInv /\ [Next]_vars => \A r \in RunId : run[r].ended => run'[r] = run[r]
<1> SUFFICES ASSUME IInv, [Next]_vars, NEW q \in RunId, run[q].ended
             PROVE  run'[q] = run[q]
  OBVIOUS
<1>0. /\ RowsOK(run, inserted) /\ inserted \in 0..MaxRuns
      /\ run \in [RunId -> Row]
  BY TypeParts DEF IInv, Rest, RowsOK
<1>s. "stopped_by_agent" \in Ended /\ "stopped_by_user" \in Ended
  BY DEF Ended
<1>c. \A r \in RunId : r \in Running => r # q
  BY DEF IInv, RowInv, Running
<1>n. run[q].status # "absent" /\ q # inserted + 1
  <2>1. run[q].status # "absent"
    BY <1>0 DEF RowsOK, Ended
  <2> QED
    BY <1>0, <2>1 DEF RowsOK
<1>e. \A r \in RunId, s \in Ended : EndRow(run, r, s)[q] = run[q] /\ EndRow(run, r, s) \in [RunId -> Row]
  BY <1>0, EndRowEffect
<1>i. /\ InsertRow(run) => run'[q] = run[q]
      /\ \A r \in RunId, s \in Ended : InsertRow(EndRow(run, r, s)) => run'[q] = run[q]
  BY <1>0, <1>n, <1>e DEF InsertRow
<1>1. ASSUME NEW t \in Turns, StartTool(t) PROVE run'[q] = run[q]
  BY <1>1, <1>i, <1>s DEF StartTool
<1>2. ASSUME NEW t \in Turns, NEW r \in RunId, NEW s \in Ended, EndTool(t, r, s)
      PROVE  run'[q] = run[q]
  BY <1>2, <1>e DEF EndTool
<1>3. ASSUME NEW t \in Turns, LedgerFailure(t) PROVE run'[q] = run[q]
  BY <1>0, <1>3, <1>c DEF LedgerFailure, IsCurrent
<1>4. ASSUME NEW t \in Turns, LoopExit(t) PROVE run'[q] = run[q]
  BY <1>4, <1>e, <1>s DEF LoopExit
<1>5. ASSUME NEW t \in Turns, CronTick(t) PROVE run'[q] = run[q]
  BY <1>5, <1>i, <1>s DEF CronTick, rowVars
<1>6. ASSUME NEW t \in Turns, CronPost(t) PROVE run'[q] = run[q]
  BY <1>6, <1>e, <1>s DEF CronPost, NoProgressStep
<1>7. CASE WorkflowCancel
  BY <1>7, <1>e, <1>s DEF WorkflowCancel, CloseAndReport, rowVars
<1>8. CASE OrphanReap
  BY <1>8, <1>e, <1>s DEF OrphanReap, CloseAndReport
<1>9. CASE KillCapReap
  BY <1>9, <1>e, <1>s DEF KillCapReap, CloseAndReport, KeepRows
<1>10. ASSUME NEW r \in RunId, Elapse(r) PROVE run'[q] = run[q]
  BY <1>0, <1>10, <1>c DEF Elapse
<1>11. ASSUME NEW t \in Turns,
              OperatorClaim(t) \/ CapWatch(t) \/ HangWatch(t) \/ StepFinish(t)
       PROVE  run'[q] = run[q]
  BY <1>11 DEF OperatorClaim, CapWatch, HangWatch, StepFinish, KeepRows, rowVars
<1>12. CASE ForceRelease \/ SignalAbort \/ Restart \/ UNCHANGED vars
  BY <1>12 DEF ForceRelease, SignalAbort, Restart, KeepRows, rowVars, vars
<1> QED
  BY <1>1, <1>2, <1>3, <1>4, <1>5, <1>6, <1>7, <1>8, <1>9, <1>10, <1>11, <1>12 DEF Next

-----------------------------------------------------------------------------
(* The invariant is kept by every step.                                     *)

\* A step that reports only rows ending in it, and adds nothing to any turn's
\* unreported set, keeps UnreportedInv.
LEMMA UnreportedKept ==
  ASSUME UnreportedInv, turns \in [Turns -> TurnState], turns' \in [Turns -> TurnState],
         \A r \in RunId : run[r].ended => run'[r].ended /\ closerFrames'[r] = closerFrames[r],
         \A t \in Turns : turns'[t].unreported \subseteq turns[t].unreported
  PROVE  UnreportedInv'
<1>1. \A t \in Turns : turns[t].unreported \subseteq RunId
  BY DEF TurnState
<1> QED
  BY <1>1 DEF UnreportedInv

\* Aborting a turn keeps what the turns have yet to report.
LEMMA AbortKeeps ==
  ASSUME turns \in [Turns -> TurnState], NEW t \in Turns \union {NoTurn}, NEW u \in Turns
  PROVE  Abort(turns, t)[u].unreported = turns[u].unreported
<1>1. CASE t = NoTurn
  BY <1>1 DEF Abort
<1>2. CASE t # NoTurn
  <2>1. Abort(turns, t) = [turns EXCEPT ![t] = [turns[t] EXCEPT !.aborted = TRUE]]
    BY <1>2 DEF Abort
  <2>2. [turns[t] EXCEPT !.aborted = TRUE].unreported = turns[t].unreported
    BY <1>2 DEF TurnState
  <2> QED
    BY <1>2, <2>1, <2>2
<1> QED
  BY <1>1, <1>2

\* Every step keeps the inductive invariant.
LEMMA InvNext == IInv /\ [Next]_vars => IInv'
<1> SUFFICES ASSUME IInv, [Next]_vars
             PROVE  RowInv(run', closerFrames', cronFrames') /\ PointerInv' /\ UnreportedInv'
  BY TypeNext DEF IInv, RowInv
<1> DEFINE Goal == RowInv(run', closerFrames', cronFrames') /\ PointerInv' /\ UnreportedInv'
<1>0. /\ RowsOK(run, inserted) /\ inserted \in 0..MaxRuns /\ inserted \in Nat
      /\ turns \in [Turns -> TurnState] /\ turns' \in [Turns -> TurnState]
      /\ closerFrames \in [RunId -> Nat] /\ cronFrames \in [RunId -> Nat]
      /\ autoRunId \in RunId \union {NoRun} /\ NoRun \notin RunId
      /\ currentTurn \in Turns \union {NoTurn}
      /\ RowInv(run, closerFrames, cronFrames) /\ PointerInv /\ UnreportedInv
  <2>1. TypeOK /\ TypeOK'
    BY TypeNext DEF IInv
  <2>2. turns' \in [Turns -> TurnState]
    BY <2>1 DEF TypeOK
  <2>3. NoRun \notin RunId
    BY DEF RunId, NoRun
  <2>4. RowsOK(run, inserted) /\ turns \in [Turns -> TurnState] /\ Rest
    BY <2>1, TypeParts
  <2>5. inserted \in Nat
    BY <2>4, AutoRunAssumption DEF Rest
  <2> QED
    BY <2>2, <2>3, <2>4, <2>5 DEF IInv, Rest
<1>k. \A r \in RunId : run[r].ended => run'[r].ended
  BY EndedStep
<1>s. "stopped_by_agent" \in Ended /\ "stopped_by_user" \in Ended
  BY DEF Ended
<1>c. ASSUME NEW r \in RunId, IsCurrent(r)
      PROVE  /\ run[r].status = "running" /\ run[r].status # "absent" /\ ~run[r].ended
             /\ cronFrames[r] = 0
  BY <1>0, <1>c DEF IsCurrent, Running, RowInv
<1>e. ASSUME NEW r \in RunId, NEW s \in Ended, run[r].status # "absent"
      PROVE  /\ RowInv(EndRow(run, r, s), closerFrames, cronFrames)
             /\ \A q \in RunId : run[q].status # "absent" => EndRow(run, r, s)[q].status # "absent"
  <2>1. "absent" \notin Ended /\ run \in [RunId -> Row]
    BY <1>0 DEF Ended, RowsOK
  <2>2. RowInv(EndRow(run, r, s), closerFrames, cronFrames)
    BY <1>0, <1>e, EndRowInv
  <2>3. ASSUME NEW q \in RunId, run[q].status # "absent"
        PROVE  EndRow(run, r, s)[q].status # "absent"
    BY <2>1, <2>3, EndRowEffect
  <2> QED
    BY <2>2, <2>3
<1>f. ASSUME NEW r \in RunId, NEW s \in Ended, IsCurrent(r)
      PROVE  /\ RowInv(EndRow(run, r, s), [closerFrames EXCEPT ![r] = @ + 1], cronFrames)
             /\ \A q \in RunId : EndRow(run, r, s)[q].status # "running"
             /\ RowsOK(EndRow(run, r, s), inserted)
             /\ \A q \in RunId : run[q].ended =>
                   [closerFrames EXCEPT ![r] = @ + 1][q] = closerFrames[q]
  <2>1. run[r].status = "running" /\ run[r].status # "absent" /\ ~run[r].ended
    BY <1>c, <1>f
  <2>2. /\ RowInv(EndRow(run, r, s), [closerFrames EXCEPT ![r] = @ + 1], cronFrames)
        /\ \A q \in RunId : EndRow(run, r, s)[q].status # "running"
    BY <1>0, <2>1, EndRowInv
  <2>3. RowsOK(EndRow(run, r, s), inserted)
    BY <1>0, <2>1, EndRowOK
  <2>4. \A q \in RunId : run[q].ended =>
           [closerFrames EXCEPT ![r] = @ + 1][q] = closerFrames[q]
    BY <1>0, <2>1
  <2> QED
    BY <2>2, <2>3, <2>4
<1>i. ASSUME NEW rows, NEW closer, RowsOK(rows, inserted), InsertRow(rows),
             RowInv(rows, closer, cronFrames), \A q \in RunId : rows[q].status # "running"
      PROVE  /\ RowInv(run', closer, cronFrames)
             /\ inserted + 1 \in RunId /\ cronFrames[inserted + 1] = 0
             /\ run'[inserted + 1].status # "absent"
             /\ \A q \in RunId : rows[q].status # "absent" => run'[q].status # "absent"
  <2>1. inserted < MaxRuns /\ run' = [rows EXCEPT ![inserted + 1] = Fresh]
    BY <1>i DEF InsertRow
  <2>2. RowInv(run', closer, cronFrames) /\ inserted + 1 \in RunId
    BY <1>0, <1>i, <2>1, InsertInv, InsertOK
  <2>3. run'[inserted + 1].status # "absent"
        /\ \A q \in RunId : rows[q].status # "absent" => run'[q].status # "absent"
    BY <1>i, <2>1, <2>2 DEF Fresh, RowsOK
  <2>4. rows[inserted + 1].status = "absent"
    BY <1>0, <1>i, <2>2 DEF RowsOK
  <2> QED
    BY <1>i, <2>2, <2>3, <2>4 DEF RowInv
<1>a. ASSUME NEW r \in RunId, NEW s \in Ended, IsCurrent(r), CloseAndReport(r, s)
      PROVE  /\ RowInv(run', closerFrames', cronFrames') /\ PointerInv'
             /\ \A q \in RunId : run[q].ended => closerFrames'[q] = closerFrames[q]
  <2>1. /\ closerFrames' = [closerFrames EXCEPT ![r] = @ + 1] /\ run' = EndRow(run, r, s)
        /\ cronFrames' = cronFrames /\ autoRunId' = NoRun
    BY <1>a, <1>c DEF CloseAndReport
  <2>2. RowInv(run', closerFrames', cronFrames')
        /\ \A q \in RunId : run[q].ended => closerFrames'[q] = closerFrames[q]
    BY <1>a, <1>f, <2>1
  <2>3. PointerInv'
    BY <1>0, <2>1 DEF PointerInv
  <2> QED
    BY <2>2, <2>3
<1>u. \A t \in Turns : [turns EXCEPT ![t] = IdleTurn][t].unreported = {}
  BY <1>0 DEF IdleTurn
<1>p. ASSUME UNCHANGED <<run, autoRunId, frameVars>>,
             \A t \in Turns : turns'[t].unreported \subseteq turns[t].unreported
      PROVE  Goal
  <2>1. UnreportedInv'
    BY <1>0, <1>p, UnreportedKept DEF frameVars
  <2> QED
    BY <1>0, <1>p, <2>1 DEF PointerInv, frameVars
<1>1. ASSUME NEW t \in Turns, OperatorClaim(t) PROVE Goal
  <2>1. turns' = [turns EXCEPT ![t] = LoopTurn(FALSE)]
    BY <1>1 DEF OperatorClaim, Claim
  <2>2. LoopTurn(FALSE).unreported = {}
    BY DEF LoopTurn, IdleTurn
  <2> QED
    BY <1>0, <1>1, <1>p, <2>1, <2>2 DEF OperatorClaim, KeepRows, frameVars
<1>2. ASSUME NEW t \in Turns, CapWatch(t) PROVE Goal
  BY <1>0, <1>2, <1>p, AbortKeeps DEF CapWatch, KeepRows, frameVars
<1>3. ASSUME NEW t \in Turns, HangWatch(t) PROVE Goal
  <2>1. \A u \in Turns : turns'[u].unreported = turns[u].unreported
    BY <1>0, <1>3 DEF HangWatch, TurnState
  <2> QED
    BY <1>3, <1>p, <2>1 DEF HangWatch, KeepRows, frameVars
<1>4. ASSUME NEW t \in Turns, StartTool(t) PROVE Goal
  <2>1. UnreportedInv'
    BY <1>0, <1>4, <1>k, UnreportedKept DEF StartTool, frameVars
  <2>2. RowInv(run', closerFrames, cronFrames)
        /\ \A q \in RunId : run[q].status # "absent" => run'[q].status # "absent"
    <3>1. CASE Running = {} /\ InsertRow(run)
      BY <1>0, <1>i, <3>1 DEF Running
    <3>2. ASSUME NEW r \in RunId, IsCurrent(r), InsertRow(EndRow(run, r, "stopped_by_agent"))
          PROVE  RowInv(run', closerFrames, cronFrames)
                 /\ \A q \in RunId : run[q].status # "absent" => run'[q].status # "absent"
      <4> DEFINE rows == EndRow(run, r, "stopped_by_agent")
      <4>1. /\ RowsOK(rows, inserted) /\ RowInv(rows, closerFrames, cronFrames)
            /\ \A q \in RunId : rows[q].status # "running"
            /\ \A q \in RunId : run[q].status # "absent" => rows[q].status # "absent"
        BY <1>e, <1>f, <1>c, <1>s, <3>2
      <4>2. InsertRow(rows)
        BY <3>2
      <4> HIDE DEF rows
      <4> QED
        BY <1>i, <4>1, <4>2
    <3> QED
      BY <1>4, <3>1, <3>2 DEF StartTool
  <2> QED
    BY <1>0, <1>4, <2>1, <2>2 DEF StartTool, PointerInv, frameVars
<1>5. ASSUME NEW t \in Turns, NEW r \in RunId, NEW s \in Ended, EndTool(t, r, s) PROVE Goal
  <2>1. run[r].status # "absent" /\ run' = EndRow(run, r, s)
        /\ UNCHANGED <<autoRunId, closerFrames, cronFrames>>
    BY <1>5 DEF EndTool, frameVars
  <2>2. RowInv(run', closerFrames', cronFrames') /\ PointerInv'
    BY <1>0, <1>e, <2>1 DEF PointerInv
  <2>3. UnreportedInv'
    <3>1. CASE run[r].ended \/ turns[t].cron
      <4>1. \A u \in Turns : turns'[u].unreported = turns[u].unreported
        BY <1>0, <1>5, <3>1 DEF EndTool, TurnState
      <4> QED
        BY <1>0, <1>k, <2>1, <4>1, UnreportedKept
    <3>2. CASE ~run[r].ended /\ ~turns[t].cron
      <4>1. /\ \A u \in Turns : u # t => turns'[u].unreported = turns[u].unreported
            /\ turns'[t].unreported = turns[t].unreported \union {r}
        BY <1>0, <1>5, <3>2 DEF EndTool, TurnState
      <4>2. run'[r].ended /\ closerFrames[r] = 0
        BY <1>0, <2>1, <3>2, EndRowEffect DEF RowInv, RowsOK
      <4>3. \A u \in Turns : r \notin turns[u].unreported /\ turns[u].unreported \subseteq RunId
        BY <1>0, <3>2 DEF UnreportedInv, TurnState
      <4> QED
        BY <1>0, <1>k, <2>1, <4>1, <4>2, <4>3 DEF UnreportedInv
    <3> QED
      BY <3>1, <3>2
  <2> QED
    BY <2>2, <2>3
<1>6. ASSUME NEW t \in Turns, LedgerFailure(t) PROVE Goal
  <2>1. PICK r \in RunId : IsCurrent(r) /\ run' = [run EXCEPT ![r] = Stopped("blocked", FALSE)]
    BY <1>6 DEF LedgerFailure
  <2>2. Stopped("blocked", FALSE).status = "blocked" /\ ~Stopped("blocked", FALSE).ended
    BY DEF Stopped
  <2>3. /\ run'[r].status = "blocked" /\ ~run'[r].ended
        /\ \A q \in RunId : q # r => run'[q] = run[q]
    BY <1>0, <2>1, <2>2 DEF RowsOK
  <2>4. RowInv(run', closerFrames, cronFrames)
    BY ZenonT(40), <1>0, <1>c, <2>1, <2>3 DEF RowInv
  <2>5. UnreportedInv'
    BY <1>0, <1>6, <1>k, UnreportedKept DEF LedgerFailure, frameVars
  <2> QED
    BY <1>0, <1>6, <2>3, <2>4, <2>5 DEF LedgerFailure, frameVars, PointerInv
<1>7. ASSUME NEW t \in Turns, StepFinish(t) PROVE Goal
  <2> DEFINE told == turns[t].unreported
  <2>1. told \subseteq RunId /\ \A r \in told : run[r].ended /\ closerFrames[r] = 0
    BY <1>0 DEF UnreportedInv, TurnState
  <2>2. \A r \in RunId : closerFrames'[r] = IF r \in told THEN 1 ELSE closerFrames[r]
    BY <1>0, <1>7, <2>1 DEF StepFinish
  <2>3. /\ turns'[t].unreported = {}
        /\ \A u \in Turns : u # t => turns'[u] = turns[u]
    BY <1>0, <1>7 DEF StepFinish, TurnState
  <2>4. UNCHANGED <<run, cronFrames>> /\ autoRunId' \in {autoRunId, NoRun}
    BY <1>7 DEF StepFinish, rowVars
  <2> HIDE DEF told
  <2>5. RowInv(run', closerFrames', cronFrames')
    BY <1>0, <2>1, <2>2, <2>4 DEF RowInv
  <2>6. PointerInv'
    BY <1>0, <2>4 DEF PointerInv
  <2>7. UnreportedInv'
    <3>1. \A u \in Turns : turns[u].unreported \subseteq RunId
      BY <1>0 DEF TurnState
    <3> QED
      BY <1>0, <2>2, <2>3, <2>4, <3>1 DEF UnreportedInv, told
  <2> QED
    BY <2>5, <2>6, <2>7
<1>8. ASSUME NEW t \in Turns, LoopExit(t) PROVE Goal
  <2>1. \A u \in Turns : turns'[u].unreported \subseteq turns[u].unreported
    BY <1>0, <1>8, <1>u DEF LoopExit, TurnState, IdleTurn
  <2>2. cronFrames' = cronFrames
    BY <1>8 DEF LoopExit
  <2>3. CASE UNCHANGED <<run, closerFrames, autoRunId>>
    BY <1>p, <2>1, <2>2, <2>3 DEF frameVars
  <2>4. ASSUME NEW r \in RunId, IsCurrent(r), run' = EndRow(run, r, "stopped_by_agent"),
               EmitUnlessCron(t, r)
        PROVE  Goal
    <3>1. RowInv(run', closerFrames', cronFrames)
          /\ \A q \in RunId : run[q].ended => closerFrames'[q] = closerFrames[q]
      BY <1>0, <1>e, <1>f, <1>c, <1>s, <2>4 DEF EmitUnlessCron
    <3>2. PointerInv'
      BY <1>0, <1>e, <1>c, <1>s, <2>2, <2>4 DEF EmitUnlessCron, PointerInv
    <3>3. UnreportedInv'
      BY <1>0, <1>k, <2>1, <3>1, UnreportedKept
    <3> QED
      BY <2>2, <3>1, <3>2, <3>3
  <2> QED
    BY <1>8, <2>3, <2>4 DEF LoopExit
<1>9. ASSUME NEW t \in Turns, CronTick(t) PROVE Goal
  <2>1. \A u \in Turns : turns'[u].unreported \subseteq turns[u].unreported
    <3>1. \E v : v.unreported = {} /\ turns' = [turns EXCEPT ![t] = v]
      <4>1. LoopTurn(TRUE).unreported = {} /\ [LoopTurn(TRUE) EXCEPT !.at = "post"].unreported = {}
        BY DEF LoopTurn, IdleTurn
      <4> QED
        BY <1>9, <4>1 DEF CronTick, Claim
    <3> QED
      BY <1>0, <3>1
  <2>2. cronFrames' = cronFrames
    BY <1>9 DEF CronTick
  <2>3. ASSUME NEW r \in RunId, IsCurrent(r), autoRunId' = r, UNCHANGED <<run, closerFrames>>
        PROVE  Goal
    <3>1. UnreportedInv'
      BY <1>0, <2>1, <2>3, UnreportedKept
    <3> QED
      BY <1>0, <1>c, <2>2, <2>3, <3>1 DEF PointerInv
  <2>4. ASSUME NEW r \in RunId, IsCurrent(r),
               InsertRow(EndRow(run, r, "stopped_by_agent")),
               closerFrames' = [closerFrames EXCEPT ![r] = @ + 1],
               autoRunId' = inserted + 1
        PROVE  Goal
    <3>1. RowInv(run', closerFrames', cronFrames) /\ PointerInv'
      BY ZenonT(40), <1>0, <1>f, <1>i, <1>s, <2>2, <2>4 DEF PointerInv
    <3>2. UnreportedInv'
      BY <1>0, <1>k, <1>f, <1>s, <2>1, <2>4, UnreportedKept
    <3> QED
      BY <2>2, <3>1, <3>2
  <2>5. CASE Running = {} /\ InsertRow(run) /\ autoRunId' = inserted + 1 /\ UNCHANGED closerFrames
    <3>1. RowInv(run', closerFrames', cronFrames) /\ PointerInv'
      BY <1>0, <1>i, <2>2, <2>5 DEF Running, PointerInv
    <3>2. UnreportedInv'
      BY <1>0, <1>k, <2>1, <2>5, UnreportedKept
    <3> QED
      BY <2>2, <3>1, <3>2
  <2> QED
    BY <1>9, <2>3, <2>4, <2>5 DEF CronTick, rowVars
<1>10. ASSUME NEW t \in Turns, CronPost(t) PROVE Goal
  <2>1. \A u \in Turns : turns'[u].unreported \subseteq turns[u].unreported
    BY <1>0, <1>10, <1>u DEF CronPost
  <2>2. ASSUME NEW r \in RunId, IsCurrent(r), NoProgressStep(r), UNCHANGED cronFrames PROVE Goal
    <3>1. CASE UNCHANGED <<run, autoRunId, closerFrames>>
      BY <1>p, <2>1, <2>2, <3>1 DEF frameVars
    <3>2. CASE /\ run' = EndRow(run, r, "stopped_by_agent")
               /\ closerFrames' = IF run[r].ended THEN closerFrames
                                  ELSE [closerFrames EXCEPT ![r] = @ + 1]
               /\ autoRunId' = NoRun
      <4>1. closerFrames' = [closerFrames EXCEPT ![r] = @ + 1]
        BY <1>c, <2>2, <3>2
      <4>2. RowInv(run', closerFrames', cronFrames')
            /\ \A q \in RunId : run[q].ended => closerFrames'[q] = closerFrames[q]
        BY ZenonT(40), <1>f, <1>s, <2>2, <3>2, <4>1
      <4>3. UnreportedInv'
        BY <1>0, <1>k, <2>1, <4>2, UnreportedKept
      <4> QED
        BY <1>0, <3>2, <4>2, <4>3 DEF PointerInv
    <3> QED
      BY <2>2, <3>1, <3>2 DEF NoProgressStep
  <2>3. CASE /\ Running = {} /\ autoRunId # NoRun /\ ReportTracked
             /\ UNCHANGED <<run, closerFrames, npVars>>
    <3>1. autoRunId \in RunId /\ cronFrames[autoRunId] = 0 /\ run[autoRunId].status # "absent"
      BY <1>0, <2>3 DEF PointerInv
    <3>2. \A q \in RunId : cronFrames'[q] = IF q = autoRunId THEN 1 ELSE cronFrames[q]
      BY <1>0, <2>3, <3>1 DEF ReportTracked
    <3>3. RowInv(run', closerFrames', cronFrames')
      BY <1>0, <2>3, <3>1, <3>2 DEF RowInv, Running
    <3>4. UnreportedInv'
      BY <1>0, <2>1, <2>3, UnreportedKept
    <3> QED
      BY <1>0, <2>3, <3>3, <3>4 DEF ReportTracked, PointerInv
  <2>4. CASE UNCHANGED <<run, autoRunId, frameVars, npVars>>
    BY <1>p, <2>1, <2>4
  <2> QED
    BY <1>10, <2>2, <2>3, <2>4 DEF CronPost
<1>11. CASE ForceRelease
  BY <1>0, <1>11, <1>p, AbortKeeps DEF ForceRelease, KeepRows, frameVars
<1>12. CASE SignalAbort
  BY <1>0, <1>12, <1>p, AbortKeeps DEF SignalAbort, KeepRows, frameVars
<1>13. CASE WorkflowCancel
  <2>1. \A u \in Turns : turns'[u].unreported \subseteq turns[u].unreported
    BY <1>0, <1>13, AbortKeeps DEF WorkflowCancel
  <2>2. ASSUME NEW r \in RunId, IsCurrent(r), CloseAndReport(r, "stopped_by_user") PROVE Goal
    BY <1>0, <1>k, <1>a, <1>s, <2>1, <2>2, UnreportedKept
  <2>3. CASE autoRunId' = NoRun /\ UNCHANGED <<rowVars, frameVars>>
    <3>1. UnreportedInv'
      BY <1>0, <1>k, <2>1, <2>3, UnreportedKept DEF frameVars
    <3> QED
      BY <1>0, <2>3, <3>1 DEF PointerInv, rowVars, frameVars
  <2> QED
    BY <1>13, <2>2, <2>3 DEF WorkflowCancel
<1>14. CASE OrphanReap
  <2>1. PICK r \in RunId : IsCurrent(r) /\ CloseAndReport(r, "stopped_by_agent")
    BY <1>14 DEF OrphanReap
  <2> QED
    BY <1>0, <1>14, <1>k, <1>a, <1>s, <2>1, UnreportedKept DEF OrphanReap
<1>15. CASE KillCapReap
  <2>1. ASSUME NEW r \in RunId, IsCurrent(r), CloseAndReport(r, "stopped_by_agent") PROVE Goal
    BY <1>0, <1>15, <1>k, <1>a, <1>s, <2>1, UnreportedKept DEF KillCapReap
  <2>2. CASE KeepRows
    BY <1>15, <1>p, <2>2 DEF KillCapReap, KeepRows, frameVars
  <2> QED
    BY <1>15, <2>1, <2>2 DEF KillCapReap
<1>16. CASE Restart
  <2>1. \A u \in Turns : turns'[u].unreported = {}
    BY <1>16 DEF Restart, IdleTurn
  <2> QED
    BY <1>0, <1>16, <2>1 DEF Restart, rowVars, frameVars, PointerInv, UnreportedInv
<1>17. ASSUME NEW r \in RunId, Elapse(r) PROVE Goal
  <2>1. \A q \in RunId : run'[q].status = run[q].status /\ run'[q].ended = run[q].ended
    BY <1>0, <1>17 DEF Elapse, RowsOK, Row
  <2>2. UnreportedInv'
    BY <1>0, <1>17, <1>k, UnreportedKept DEF Elapse, frameVars
  <2> QED
    BY <1>0, <1>17, <2>1, <2>2 DEF Elapse, frameVars, PointerInv, RowInv
<1>18. CASE UNCHANGED vars
  BY <1>18, <1>p DEF vars, frameVars
<1> QED
  BY <1>1, <1>2, <1>3, <1>4, <1>5, <1>6, <1>7, <1>8, <1>9, <1>10, <1>11, <1>12,
     <1>13, <1>14, <1>15, <1>16, <1>17, <1>18 DEF Next

\* The inductive invariant: rows against frames, the pointer against the rows, and the
\* closes an operator turn still has to report.
THEOREM Invariance == Spec => []IInv
BY InvInit, InvNext, PTL DEF Spec

-----------------------------------------------------------------------------

\* Every reachable state has the shape of ServeState and of the auto_runs rows.
THEOREM TypeCorrect == Spec => []TypeOK
BY TypeInit, TypeNext, PTL DEF Spec

\* However many turns overlap, no two auto_runs rows are running: insertAutoRun is
\* only reached when getCurrentAutoRun found none, or right after ending it.
THEOREM OneRunningRow == Spec => []AtMostOneRunning
<1>1. IInv => AtMostOneRunning
  BY DEF IInv, RowInv, AtMostOneRunning, Running
<1> QED
  BY <1>1, Invariance, PTL

\* No completion frame is sent while the row still authorizes outbound clicks.
THEOREM FramesFollowClose == Spec => []NoFrameWhileRunning
<1>1. IInv => NoFrameWhileRunning
  BY DEF IInv, RowInv, NoFrameWhileRunning, Running
<1> QED
  BY <1>1, Invariance, PTL

\* The code that ends a row reports it at most once, and so does cron's post-turn handler.
THEOREM NoRepeatedFrame == Spec => []OneFramePerReporter
<1>1. IInv => OneFramePerReporter
  BY DEF IInv, RowInv, OneFramePerReporter
<1> QED
  BY <1>1, Invariance, PTL

\* An ended row is never changed again: endAutoRun, updateAutoRunStatus, restarts and all.
THEOREM EndIsFinal == Spec => EndedForever
<1>1. IInv /\ [Next]_vars => [\A r \in RunId : run[r].ended => run'[r] = run[r]]_vars
  BY EndedStep
<1> QED
  BY <1>1, Invariance, PTL DEF Spec, EndedForever

=============================================================================
