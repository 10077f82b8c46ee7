SPECIFICATION Spec
CONSTANTS
  Instances = {a, b}
  Versions = {1, 2}
  Bridge = 2
  MaxGeneration = 5
SYMMETRY Symmetry
INVARIANT ShownOnce
PROPERTY JournalSurvives
PROPERTY DueStaysDue
CHECK_DEADLOCK FALSE
