SPECIFICATION Spec
CONSTANTS
  MinutesPerHour = 2
  HoursPerDay = 2
  Limit = 4
  Horizon = 2
  Jobs <- MCJobs
  Initial = 1
  Expr <- MCExpr
  Kind <- MCKind
  Turns = {t1, t2}
  MaxTrouble = 1
  MaxOthers = 1
  MaxClients = 1
INVARIANT SlotBudget
INVARIANT StopIsFinal
INVARIANT NeverUnwatched
PROPERTY NoSlotSkipped
CHECK_DEADLOCK FALSE
