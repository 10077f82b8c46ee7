\* A holder, the turn that takes over from it, and a zombie of an earlier one.
SPECIFICATION AnsweringSpec
CONSTANTS
  Turns = {t1, t2, t3}
  NoTurn = NoTurn
  MaxBodies = 2
INVARIANT HolderIsLive
PROPERTY LateTeardownHarmless
PROPERTY SlotComesBack
CHECK_DEADLOCK FALSE
