----------------------------- MODULE MCSchedule -----------------------------
(* A calendar of two-minute hours and two-hour days.  Record 1 is an old    *)
(* one-shot, 2 a task of every minute that some turn may schedule, 3 and 4  *)
(* are sessions, the first of every minute, the other with a step.         *)
EXTENDS Schedule, TLC

EveryOne == [kind |-> "any", value |-> 0]
Every(n) == [kind |-> "step", value |-> n]
At(n) == [kind |-> "exact", value |-> n]

MCJobs == 1..4
MCExpr ==
  1 :> [type |-> "oneshot", minute |-> At(1), hour |-> At(0)]
  @@ 2 :> [type |-> "recurring", minute |-> EveryOne, hour |-> EveryOne]
  @@ 3 :> [type |-> "recurring", minute |-> EveryOne, hour |-> EveryOne]
  @@ 4 :> [type |-> "recurring", minute |-> Every(2), hour |-> EveryOne]
MCKind == [j \in MCJobs |-> IF j <= 2 THEN "user_task" ELSE "auto_session"]
=============================================================================
