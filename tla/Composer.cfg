SPECIFICATION ComposerSpec
CONSTANTS
  p1 = p1
  p2 = p2
  t1 = t1
  operator = operator
  Posters = {p1, p2}
  Typists = {t1}
  Strangers = {operator}
  Pieces = 2
  MaxText = 3
  MaxRounds = 1
  MaxTouches = 1
CHECK_DEADLOCK FALSE
INVARIANTS PostsTheDraft PublishedMeansPosted
PROPERTY EveryPublishEnds
