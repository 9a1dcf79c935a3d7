\* Two batches of two radios in two processes, one fault.
SPECIFICATION Spec
CONSTANTS
  p1 = p1
  p2 = p2
  b1 = b1
  b2 = b2
  Procs = {p1, p2}
  Batches = {b1, b2}
  NoHolder = NoHolder
  Setup = Setup
  Holders <- MCHolders
  RadioCount = 2
  Occurrences = {"today"}
  Permits = 1
  MaxFaults = 1
SYMMETRY Symmetric
INVARIANTS
  StatusTruthful
  OneCommand
  LeaseTogether
PROPERTIES
  SupersededQuiet
CHECK_DEADLOCK FALSE
