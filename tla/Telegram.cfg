SPECIFICATION FairSpec
CONSTANTS
  N = 3
  BadMedia <- TooLarge
  Refusable <- MayBeRefused
  MediaOf <- Files
  MaxFaults = 2
  MaxRestarts = 1
  MaxOther = 1
INVARIANTS DuplicateBudget
PROPERTIES KeepsPromise EveryUpdateAnswered
CHECK_DEADLOCK FALSE
