SPECIFICATION ReportingSpec
CONSTANTS
  Keys = {k1, k2}
  Selections = {s1, s2}
  None = None
  Capacity = 2
  MaxAttempts = 2
  MaxCalls = 3
  MaxHints = 1
  MaxFaults = 2
INVARIANTS
  BoundPost
  OneSuccessor
PROPERTIES
  Drained
CHECK_DEADLOCK FALSE
