\* Two titles each for steps and workflows, plans of one or two steps.
SPECIFICATION Spec
CONSTANTS
  a = a
  b = b
  w1 = w1
  w2 = w2
  i1 = i1
  i2 = i2
  i3 = i3
  i4 = i4
  i5 = i5
  StepTitles = {a, b}
  WorkflowTitles = {w1, w2}
  DraftStep = b
  DraftWorkflow = w2
  StepIds = {i1, i2, i3, i4, i5}
  NoStep = NoStep
  NoWorkflow = NoWorkflow
  Plans <- MCPlans
  MaxSteps = 2
  MaxGrants = 1
VIEW MCView
CHECK_DEADLOCK FALSE
INVARIANT ApprovalsAreTheOperators
INVARIANT OutboundNeedsOperator
 
