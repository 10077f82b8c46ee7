SPECIFICATION LoopLiveSpec
CONSTANTS
  Overlap = 2
  MaxSteps = 2
  RetrySteps = 1
  StallThreshold = 1
  MaxIdle = 1
  MaxCalls = 2
  MaxTurns = 2
INVARIANT TranscriptsMatched
INVARIANT RunsAreRemembered
PROPERTY EveryTurnEnds
CHECK_DEADLOCK FALSE
