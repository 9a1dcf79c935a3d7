\* Every plan on one radio, two coordinator processes, one fault.
SPECIFICATION Spec
CONSTANTS
  p1 = p1
  p2 = p2
  j1 = j1
  Procs = {p1, p2}
  Jobs = {j1}
  Review = Review
  NoHolder = NoHolder
  Holders <- MCHolders
  RadioCount = 1
  Plans <- AllPlans
  SlowReview = FALSE
  MaxFaults = 1
SYMMETRY ProcSymmetry
INVARIANTS
  CompletedMeansDone
  RolledBackIsBack
  BackupBeforeWrite
PROPERTIES
  NoReplay
  ActiveUntouched
  LeaseSpec
CHECK_DEADLOCK FALSE
