\* Two overlapping turns, a run capped at two connects and a discovery-only run, a quota
\* of two a day.
SPECIFICATION Spec
CONSTANTS
  t1 = t1
  t2 = t2
  r1 = r1
  r2 = r2
  Turns = {t1, t2}
  Runs = {r1, r2}
  NoRun = NoRun
  NoCap = NoCap
  Cap <- MCCap
  DailyCap = 2
  MaxRows = 2
SYMMETRY MCSymmetry
INVARIANT RunCapHolds
INVARIANT DailyCapHolds
INVARIANT CooldownHolds
INVARIANT LatchHolds
