SPECIFICATION Spec
CONSTANTS
  d1 = d1
  d2 = d2
  Drafts = {d1, d2}
  NoDraft = NoDraft
  NumSteps = 2
  Plans <- SomePlans
  Publishes = {1, 2}
  MaxPosts = 2
SYMMETRY Symmetry
INVARIANTS PostedOnce ClickedOrHanded DeclinedNotPending
