SPECIFICATION AlarmSpec
CONSTANTS
  Workers = {w1, w2}
  Schedules = {a}
  None = None
  MaxClock = 3
  MaxEdits = 1
  MaxCrashes = 1
INVARIANT AtMostOnce
PROPERTY Noticed
CHECK_DEADLOCK FALSE
SYMMETRY Symmetry
