\* Everything the surroundings can do, two turns overlapping, two runs.
SPECIFICATION Spec
CONSTANTS
  Turns = {t1, t2}
  NoTurn = NoTurn
  MaxRuns = 2
  MaxRestarts = 1
  NoProgressLimit = 1
  KillCap = 1
  Env <- AllEnv
SYMMETRY TurnSymmetry
INVARIANT AtMostOneRunning
INVARIANT NoFrameWhileRunning
INVARIANT OneFramePerReporter
CHECK_DEADLOCK FALSE
