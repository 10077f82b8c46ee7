SPECIFICATION ShellSpec
CONSTANTS
  Pids = {1, 2, 3}
  Turns = {t1, t2}
  Callers = {settings}
  MaxFailures = 2
  MaxTrouble = 2
  MaxUpdates = 2
INVARIANT OneSidecar
INVARIANT PortTruth
INVARIANT ShutdownEndsIt
PROPERTY KillsOnlyStuck
PROPERTY Recovers
CHECK_DEADLOCK FALSE
