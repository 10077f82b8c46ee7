\* One turn at a time and no failure: every close is reported exactly once, and
\* every run closes by itself.
SPECIFICATION LiveSpec
CONSTANTS
  Turns = {t1}
  NoTurn = NoTurn
  MaxRuns = 3
  MaxRestarts = 0
  NoProgressLimit = 2
  KillCap = 1
  Env = {}
INVARIANT ExactlyOnce
PROPERTY RunEventuallyCloses
CHECK_DEADLOCK FALSE
