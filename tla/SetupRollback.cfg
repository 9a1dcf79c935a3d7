SPECIFICATION Spec
CONSTANTS
  p1 = p1
  p2 = p2
  j1 = j1
  Procs = {p1, p2}
  Jobs = {j1}
  Review = Review
  NoHolder = NoHolder
  Holders <- MCHolders
  RadioCount = 1
  Plans <- MinimalPlan
  SlowReview = FALSE
  MaxFaults = 2
SYMMETRY ProcSymmetry
INVARIANTS
  RollbackReportsScope
CHECK_DEADLOCK FALSE
